------------------------------ MODULE BlockLedger ------------------------------
(***************************************************************************)
(* What the pool of blocks promises to the streams of the queue library:   *)
(* a block that a call hands out is in nobody else's hands, neither in     *)
(* those of a stream nor in those of another call that is about to return. *)
(***************************************************************************)
CONSTANTS
  Threads,
  Blocks,
  Null        \* no block

VARIABLES
  held,       \* blocks in the hands of the streams
  hand        \* [Threads -> block or Null]  what a call is about to return

ledgerVars == <<held, hand>>

InUse == held \cup {hand[t] : t \in Threads}

Init ==
  /\ held = {}
  /\ hand = [t \in Threads |-> Null]

(* A block nobody competes for: a fresh one.                               *)
Fresh(n) ==
  /\ n \notin InUse
  /\ held' = held \cup {n}
  /\ UNCHANGED hand

Take(t, n) ==
  /\ hand[t] = Null
  /\ n \notin InUse
  /\ hand' = [hand EXCEPT ![t] = n]
  /\ UNCHANGED held

Deliver(t) ==
  /\ hand[t] # Null
  /\ held' = held \cup {hand[t]}
  /\ hand' = [hand EXCEPT ![t] = Null]

GiveBack(n) ==
  /\ n \in held
  /\ held' = held \ {n}
  /\ UNCHANGED hand

Next ==
  \/ \E t \in Threads : Deliver(t) \/ \E n \in Blocks : Take(t, n)
  \/ \E n \in Blocks : Fresh(n) \/ GiveBack(n)

Spec == Init /\ [][Next]_ledgerVars

================================================================================
