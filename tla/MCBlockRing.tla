------------------------------ MODULE MCBlockRing ------------------------------
(* BlockRing on small instances.                                           *)
EXTENDS BlockRing, TLC

(* Consumers are interchangeable.                                          *)
ConsumerSymmetry == Permutations(Consumers)

(* A new stream, and one whose counters are about to wrap around.          *)
MCStarts == {0, IndexSize - BlockSize}

================================================================================
