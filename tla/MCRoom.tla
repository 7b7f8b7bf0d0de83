------------------------------- MODULE MCRoom -------------------------------
(* The room with more connections than ids, so that ids are drawn again,   *)
(* and more candidates than places, so that the room fills up.             *)
EXTENDS Room, TLC

CONSTANTS k1, k2, k3, k4, id1, id2, id3, deckA, deckB, gain, rate, lo, hi

MCConn == {k1, k2, k3, k4}
MCClientId == {id1, id2, id3}
MCDeck == {deckA, deckB}
MCField == {gain, rate}
MCValue == {lo, hi}
MCDefaultDeck == [f \in MCField |-> lo]

Symmetry == Permutations(MCConn) \cup Permutations(MCClientId)
=============================================================================
