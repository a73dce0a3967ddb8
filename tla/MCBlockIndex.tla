------------------------------ MODULE MCBlockIndex -----------------------------
(* BlockIndex on small instances.                                          *)
EXTENDS BlockIndex, TLC

ConsumerSymmetry == Permutations(Consumers)

(* A new stream, and one whose indices are about to wrap around.           *)
MCStarts == {0, IndexSize - 2 * BlockSize}

================================================================================
