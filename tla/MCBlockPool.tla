------------------------------ MODULE MCBlockPool ------------------------------
(* BlockPool on small instances.                                           *)
EXTENDS BlockPool, TLC

================================================================================
