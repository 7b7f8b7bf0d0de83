---------------------------- MODULE ControlToken ----------------------------
(***************************************************************************)
(* What the room promises, without connections or messages: a bounded set  *)
(* of members of whom at most one holds control; control is claimed when   *)
(* free, released by its holder or lost with its holder's membership; and  *)
(* only the holder moves the canonical state, one version at a time.       *)
(***************************************************************************)
EXTENDS Integers, FiniteSets

CONSTANTS Member, Nobody, Capacity, Canon

VARIABLES members, holder, canon, version

tokenVars == <<members, holder, canon, version>>

Init ==
    /\ members = {}
    /\ holder = Nobody
    /\ canon \in Canon
    /\ version = 0

Join(m) ==
    /\ m \in Member \ members
    /\ Cardinality(members) < Capacity
    /\ members' = members \cup {m}
    /\ UNCHANGED <<holder, canon, version>>

Leave(m) ==
    /\ m \in members
    /\ members' = members \ {m}
    /\ holder' = IF holder = m THEN Nobody ELSE holder
    /\ UNCHANGED <<canon, version>>

Claim(m) ==
    /\ m \in members /\ holder = Nobody
    /\ holder' = m
    /\ UNCHANGED <<members, canon, version>>

Release(m) ==
    /\ m \in members /\ holder = m
    /\ holder' = Nobody
    /\ UNCHANGED <<members, canon, version>>

Write(m) ==
    /\ m \in members /\ holder = m
    /\ canon' \in Canon
    /\ version' = version + 1
    /\ UNCHANGED <<members, holder>>

Next == \E m \in Member : Join(m) \/ Leave(m) \/ Claim(m) \/ Release(m) \/ Write(m)

Spec == Init /\ [][Next]_tokenVars
=============================================================================
