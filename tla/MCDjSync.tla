------------------------------ MODULE MCDjSync ------------------------------
(* Small instances of the whole system.  Clients, connections and ids are  *)
(* interchangeable; decks, fields and values are not.                      *)
EXTENDS DjSync, TLC

CONSTANTS dj1, dj2, dj3, k1, k2, k3, id1, id2, id3, deckA, deckB, gain, rate, lo, hi

OneApp == {dj1}
TwoApps == {dj1, dj2}
ThreeApps == {dj1, dj2, dj3}
TwoConns == {k1, k2}
ThreeConns == {k1, k2, k3}
TwoIds == {id1, id2}
ThreeIds == {id1, id2, id3}
OneDeck == {deckA}
TwoDecks == {deckA, deckB}
OneField == {gain}
OneValue == {lo}
TwoValues == {lo, hi}
AllLow == [f \in Field |-> lo]

Symmetry == Permutations(App) \cup Permutations(Conn) \cup Permutations(ClientId)
=============================================================================
