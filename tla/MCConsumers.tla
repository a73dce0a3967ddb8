------------------------------- MODULE MCConsumers -----------------------------
(* Consumers on small instances.                                           *)
EXTENDS Consumers, TLC

(* None of the consumers has a token, or some, or all of them.             *)
MCTokenUsers == SUBSET Consumers

(* Consumers are interchangeable.                                          *)
ConsumerSymmetry == Permutations(Consumers)

================================================================================
