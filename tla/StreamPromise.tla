----------------------------- MODULE StreamPromise -----------------------------
(***************************************************************************)
(* What one stream of the queue library promises to the threads that       *)
(* dequeue from it: elements come out in the order in which they went in,  *)
(* each to one caller, and a caller is sent away with nothing only if it   *)
(* has an excuse: at some moment of its call the stream was empty, or      *)
(* another caller was inside too.  SharedQueue builds on this promise.     *)
(***************************************************************************)
EXTENDS Naturals

CONSTANTS
  Consumers,
  Nothing,
  MaxSent     \* bound: elements enqueued

VARIABLES
  sent,       \* elements that went in
  taken,      \* elements that came out
  calling,    \* consumers inside dequeue()
  hand,       \* [Consumers -> element or Nothing]  what the call has obtained
  excused     \* callers that may be sent away with nothing

promiseVars == <<sent, taken, calling, hand, excused>>

Init ==
  /\ sent = 0
  /\ taken = 0
  /\ calling = {}
  /\ hand = [c \in Consumers |-> Nothing]
  /\ excused = {}

Enqueue ==
  /\ sent < MaxSent
  /\ sent' = sent + 1
  /\ UNCHANGED <<taken, calling, hand>>

Call(c) ==
  /\ c \notin calling
  /\ calling' = calling \cup {c}
  /\ hand' = [hand EXCEPT ![c] = Nothing]
  /\ UNCHANGED <<sent, taken>>

Take(c) ==
  /\ c \in calling /\ hand[c] = Nothing
  /\ taken < sent
  /\ hand' = [hand EXCEPT ![c] = taken]
  /\ taken' = taken + 1
  /\ UNCHANGED <<sent, calling>>

Return(c) ==
  /\ c \in calling
  /\ hand[c] # Nothing \/ c \in excused
  /\ calling' = calling \ {c}
  /\ UNCHANGED <<sent, taken, hand>>

Excuse ==
  excused' = {c \in calling' : c \in excused \/ taken' = sent' \/ calling' # {c}}

Next ==
  /\ Enqueue \/ \E c \in Consumers : Call(c) \/ Take(c) \/ Return(c)
  /\ Excuse

Spec == Init /\ [][Next]_promiseVars

================================================================================
