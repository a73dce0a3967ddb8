------------------------------ MODULE SharedQueue ------------------------------
(***************************************************************************)
(* Queue<T> (include/queue/queue.h) as the rest of the framework shares    *)
(* it: the producers own it through std::shared_ptr, every QueueReader     *)
(* refers to it through a std::weak_ptr, and it lives for as long as some  *)
(* strong reference does.                                                  *)
(*                                                                         *)
(* The queue wraps moodycamel::ConcurrentQueue, which keeps one stream per *)
(* enqueuing thread and promises an order only inside a stream.  A stream  *)
(* is kept here as the library keeps it, by the two counters tailIndex     *)
(* (where to enqueue next) and headIndex (where to dequeue next); the      *)
(* message at index i of producer p is the pair <<p, i>>, so two messages  *)
(* are never confused and payloads play no part.                           *)
(***************************************************************************)
EXTENDS Integers

CONSTANTS
  Producers,  \* threads that hold the queue and enqueue into it
  Default,    \* the value-initialised T(), which no producer enqueues
  MaxSent     \* bound: messages each producer enqueues

Messages == Producers \X (0 .. MaxSent - 1)

ASSUME MaxSentIsNat == MaxSent \in Nat
ASSUME DefaultIsNoMessage == Default \notin Messages

VARIABLES
  tail,       \* [Producers -> Nat]  tailIndex of each producer's stream
  head,       \* [Producers -> Nat]  headIndex of each producer's stream
  owners      \* holders of a shared_ptr to the queue

queueVars == <<tail, head, owners>>

QueueTypeOK ==
  /\ tail \in [Producers -> 0 .. MaxSent]
  /\ head \in [Producers -> 0 .. MaxSent]

QueueInit ==
  /\ tail = [p \in Producers |-> 0]
  /\ head = [p \in Producers |-> 0]
  /\ owners = Producers

Expired == owners = {}

QueueEmpty == \A p \in Producers : head[p] = tail[p]

(* size_approx() reads the two counters of each stream one after the other: *)
(* while a rival takes an element, the next one may be overlooked.         *)
SeemsEmpty(rivals) == QueueEmpty \/ rivals # {}

(* Queue<T>::enqueue, called through a shared_ptr that p holds.            *)
Enqueue(p) ==
  /\ p \in owners
  /\ tail[p] < MaxSent
  /\ tail' = [tail EXCEPT ![p] = @ + 1]
  /\ UNCHANGED <<head, owners>>

(* p drops its shared_ptr; the last one to go destroys the queue.          *)
Release(p) ==
  /\ p \in owners
  /\ owners' = owners \ {p}
  /\ UNCHANGED <<tail, head>>

(* weak_ptr::lock() keeps the queue alive until the call made through the  *)
(* temporary shared_ptr returns.                                           *)
Lock(r) ==
  /\ ~Expired
  /\ owners' = owners \cup {r}
  /\ UNCHANGED <<tail, head>>

(* Planted fault: headIndex is advanced without comparing it to tailIndex. *)
TryDequeueHitUnchecked(r, p) ==
  /\ head' = [head EXCEPT ![p] = @ + 1]
  /\ owners' = owners \ {r}
  /\ UNCHANGED tail

(* try_dequeue found the stream of p non-empty and took its oldest element *)
TryDequeueHit(r, p) ==
  /\ head[p] < tail[p]
  /\ head' = [head EXCEPT ![p] = @ + 1]
  /\ owners' = owners \ {r}
  /\ UNCHANGED tail

(* try_dequeue found nothing, and Queue<T>::dequeue hands out its Default. *)
(* It may report so although an element is there while a rival is inside   *)
(* try_dequeue too: the rival's optimistic count hides the element until   *)
(* it is given back.  This is what StreamPromise says of each stream.      *)
TryDequeueMiss(r, rivals) ==
  /\ SeemsEmpty(rivals)
  /\ owners' = owners \ {r}
  /\ UNCHANGED <<tail, head>>

================================================================================
