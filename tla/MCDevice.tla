-------------------------------- MODULE MCDevice -------------------------------
(* Device on a small network.                                              *)
EXTENDS Device, TLC

CONSTANTS a, b, c

(* Two devices read the outputs of a third; the readers are interchangeable. *)
FanDevices == {a, b, c}
FanLinks == {<<b, a>>, <<c, a>>}
FanFed == {a}
FanEvents == [d \in FanDevices |-> IF d = a THEN 2 ELSE 1]
ReaderSymmetry == Permutations({b, c})

(* The application moves and swaps the two readers.                        *)
FanMoves == {<<b, c>>, <<c, b>>}

================================================================================
