------------------------------- MODULE MCProducers -----------------------------
(* Producers on small instances.                                           *)
EXTENDS Producers, TLC

CONSTANTS t1, t2, t3

(* Two threads that start at the same slot of every table, one next to it. *)
MCThreads == {t1, t2, t3}
(* All threads do without tokens, or two of the three use them.            *)
MCTokenUsers == {{}, {t2, t3}}
MCHash == (t1 :> 0) @@ (t2 :> 0) @@ (t3 :> 1)

================================================================================
