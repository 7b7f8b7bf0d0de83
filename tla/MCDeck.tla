------------------------------- MODULE MCDeck -------------------------------
(* Deck with one track that can be played and one that this client lacks.  *)
EXTENDS Deck

CONSTANTS song, gone

MCTrack == {song, gone}
MCFrames == [t \in MCTrack |-> IF t = song THEN 5 ELSE 0]
MCGrid == [t \in MCTrack |-> IF t = song THEN [interval |-> 2, first |-> 0] ELSE NoGrid]

MCRate == 1 .. 2
MCPlaces == {0, 5}

MCOtherDecks ==
    {[grid |-> [interval |-> 4, first |-> 0], position |-> p, rate |-> 2] : p \in {0, 2}}

Full(t, p, l) ==
    [track |-> t, playing |-> TRUE, position |-> p, rate |-> 1,
     loop |-> l, repeat |-> FALSE]

MCIncoming ==
    {[loop |-> [in |-> 2, out |-> 1]],
     [playing |-> FALSE],
     [track |-> gone, playing |-> FALSE, position |-> 0],
     Full(song, 9, [in |-> 4, out |-> 9]),
     Full(gone, 3, NoLoop)}
=============================================================================
