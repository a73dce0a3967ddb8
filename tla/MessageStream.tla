----------------------------- MODULE MessageStream -----------------------------
(***************************************************************************)
(* What a queue read through pollers promises, with no threads, locks or   *)
(* objects: each producer sends a stream of messages, the messages of one  *)
(* producer leave the queue in the order they were sent, and a message     *)
(* that left the queue is delivered at most once.  Messages of different   *)
(* producers, and deliveries by different pollers, are not ordered.        *)
(***************************************************************************)
EXTENDS Naturals

CONSTANTS
  Producers,
  MaxSent     \* bound: messages each producer sends

VARIABLES
  sent,       \* [Producers -> Nat]  how many messages each producer sent
  taken,      \* [Producers -> Nat]  how many of them left the queue
  delivered   \* the messages <<producer, index>> delivered to a handler

streamVars == <<sent, taken, delivered>>

Init ==
  /\ sent = [p \in Producers |-> 0]
  /\ taken = [p \in Producers |-> 0]
  /\ delivered = {}

Send(p) ==
  /\ sent[p] < MaxSent
  /\ sent' = [sent EXCEPT ![p] = @ + 1]
  /\ UNCHANGED <<taken, delivered>>

Take(p) ==
  /\ taken[p] < sent[p]
  /\ taken' = [taken EXCEPT ![p] = @ + 1]
  /\ UNCHANGED <<sent, delivered>>

Deliver(p, i) ==
  /\ i < taken[p]
  /\ <<p, i>> \notin delivered
  /\ delivered' = delivered \cup {<<p, i>>}
  /\ UNCHANGED <<sent, taken>>

Next ==
  \E p \in Producers :
    \/ Send(p)
    \/ Take(p)
    \/ \E i \in 0 .. MaxSent - 1 : Deliver(p, i)

Spec == Init /\ [][Next]_streamVars

================================================================================
