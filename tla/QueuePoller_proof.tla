--------------------------- MODULE QueuePoller_proof ---------------------------
(***************************************************************************)
(* Proofs about QueuePoller, for any producers, any pollers and any bound. *)
(*                                                                         *)
(* The properties of QueuePoller are not inductive as they stand: whether  *)
(* a message may be handed out depends on where the threads are in poll(). *)
(* The conjuncts of Inv below say what each of those places knows.         *)
(***************************************************************************)
EXTENDS QueuePoller, FiniteSetTheorems, TLAPS

(* The reader never overtakes the writer of a stream.                      *)
Bounded == \A p \in Producers : head[p] <= tail[p]

(* A thread is started with its object; the object that owns the handle of *)
(* another object's thread never started one of its own.  What is moved    *)
(* from stays alive meanwhile.                                             *)
ThreadsKnown ==
  \A k \in Pollers :
    /\ life[k] \in {"none"} \cup Moving => pc[k] = "none"
    /\ life[k] \in Moving => life[origin[k]] = "live"
    /\ thread[k] # NoThread => pc[thread[k]] # "none"
    /\ thread[k] \notin {k, NoThread} => pc[k] = "none"

(* What a thread holds or has handed out has left the queue.               *)
HeldTaken ==
  \A k \in Pollers : \A m \in Messages : Holds(k, m) => m[2] < head[m[1]]

(* The message in hand comes after those of its producer handed out before *)
InOrder ==
  \A k \in Pollers :
    pc[k] = "handle" /\ msg[k] # Default =>
      \A old \in handed[k] :
        old # Default /\ old[1] = msg[k][1] => old[2] < msg[k][2]

(* No thread but that of k was ever started.                               *)
Alone(k) == \A j \in Pollers \ {k} : pc[j] = "none"

(* What empty() said stays true until a lone thread has dequeued ...       *)
PromiseKept ==
  \A k \in Pollers : pc[k] \in Promised /\ Alone(k) => ~QueueEmpty

(* ... so that it never has the phantom T() in hand.                       *)
PhantomHeld ==
  \A k \in Pollers : pc[k] = "handle" /\ msg[k] = Default => ~Alone(k)

(* The exception is in mException before mPolling is lowered.              *)
RecordedFirst ==
  \A k \in Pollers : pc[k] = "lower" /\ thread[k] = k => error[k]

Inv ==
  /\ TypeOK
  /\ Bounded
  /\ ThreadsKnown
  /\ HeldTaken
  /\ InOrder
  /\ PromiseKept
  /\ PhantomHeld
  /\ RecordedFirst
  /\ HandedOnce
  /\ PhantomNeedsRival
  /\ StopExplained
  /\ NoThreadOnGonePoller

LEMMA TypeInit == Init => TypeOK
  BY MaxSentIsNat
  DEF Init, QueueInit, TypeOK, QueueTypeOK, Messages, PollPoints, Moving

LEMMA TypeNext == TypeOK /\ [Next]_vars => TypeOK'
<1> SUFFICES ASSUME TypeOK, [Next]_vars PROVE TypeOK'
  OBVIOUS
<1> USE MaxSentIsNat DEF TypeOK, QueueTypeOK, PollPoints, ReaderPoints, TryDequeue,
          Moving
<1>1. CASE UNCHANGED vars
  BY <1>1 DEF vars, queueVars, objectVars, threadVars
<1>2. ASSUME NEW p \in Producers, Send(p) \/ Drop(p) PROVE TypeOK'
  BY <1>2 DEF Send, Drop, Enqueue, Release, objectVars, threadVars
<1>3. ASSUME NEW k \in Pollers, Start(k) PROVE TypeOK'
  BY <1>3 DEF Start, queueVars
<1>4. ASSUME NEW k \in Pollers, NEW j \in Pollers, Move(k, j) PROVE TypeOK'
  BY <1>4 DEF Move, queueVars, threadVars
<1>7. ASSUME NEW j \in Pollers, Moved(j) PROVE TypeOK'
  <2>1. CASE MovePolling(j)
    BY <2>1 DEF MovePolling, queueVars, threadVars
  <2>2. CASE MoveHandler(j)
    BY <2>2 DEF MoveHandler, queueVars, threadVars
  <2>3. CASE MoveRest(j)
    BY <2>3 DEF MoveRest, queueVars, threadVars
  <2> QED
    BY <1>7, <2>1, <2>2, <2>3 DEF Moved
<1>5. ASSUME NEW k \in Pollers, Destroy(k) PROVE TypeOK'
  BY <1>5 DEF Destroy, DestroyLower, DestroyJoin, DestroyTerminates, queueVars,
              objectVars, threadVars
<1>6. ASSUME NEW k \in Pollers, Poll(k) PROVE TypeOK'
  <2> USE <1>6 DEF Goto, queueVars, objectVars
  <2>1. CASE While(k) \/ ReaderCheck(k) \/ ReaderNullCall(k) \/ ReaderEmpty(k)
    BY <2>1 DEF While, ReaderCheck, ReaderNullCall, ReaderEmpty, threadVars
  <2>2. CASE DequeueEnter(k)
    BY <2>2 DEF DequeueEnter, Lock
  <2>3. CASE DequeueHit(k)
    <3>1. PICK p \in Producers : TryDequeueHit(k, p) /\ msg' = [msg EXCEPT ![k] = <<p, head[p]>>]
      BY <2>3 DEF DequeueHit
    <3>2. <<p, head[p]>> \in Messages /\ head[p] + 1 \in 0 .. MaxSent
      BY <3>1 DEF TryDequeueHit, Messages
    <3> QED
      BY <2>3, <3>1, <3>2 DEF DequeueHit, TryDequeueHit
  <2>4. CASE DequeueMiss(k)
    BY <2>4 DEF DequeueMiss, TryDequeueMiss
  <2>5. CASE HandlerCall(k)
    BY <2>5 DEF HandlerCall
  <2>6. CASE HandlerReturns(k) \/ HandlerThrows(k) \/ HandlerMissing(k)
    BY <2>6 DEF HandlerReturns, HandlerThrows, HandlerMissing
  <2>7. CASE RecordException(k) \/ LowerPolling(k)
    BY <2>7 DEF RecordException, LowerPolling
  <2> QED
    BY <2>1, <2>2, <2>3, <2>4, <2>5, <2>6, <2>7 DEF Poll
<1> QED
  BY <1>1, <1>2, <1>3, <1>4, <1>5, <1>6, <1>7 DEF Next, Construct, Copy

(* Only an enqueue and a successful dequeue move the counters, and neither *)
(* passes the other.                                                       *)
LEMMA BoundedNext == TypeOK /\ Bounded /\ [Next]_vars => Bounded'
<1> SUFFICES ASSUME TypeOK, Bounded, [Next]_vars PROVE Bounded'
  OBVIOUS
<1> USE MaxSentIsNat DEF TypeOK, QueueTypeOK, Bounded
<1>1. CASE UNCHANGED <<tail, head>>
  BY <1>1
<1>2. ASSUME NEW p \in Producers, Send(p) PROVE Bounded'
  BY <1>2 DEF Send, Enqueue
<1>3. ASSUME NEW k \in Pollers, DequeueHit(k) PROVE Bounded'
  BY <1>3 DEF DequeueHit, TryDequeueHit
<1> QED
  BY <1>1, <1>2, <1>3
  DEF Next, vars, queueVars, Drop, Release, Construct, Copy, Start, Move,
      Moved, MovePolling, MoveHandler, MoveRest, Destroy, DestroyLower,
      DestroyJoin, DestroyTerminates, Poll, While,
      ReaderCheck, ReaderNullCall, ReaderEmpty, DequeueEnter, Lock,
      DequeueMiss, TryDequeueMiss, HandlerCall, HandlerReturns,
      HandlerThrows, HandlerMissing, RecordException, LowerPolling

(* No step of poll() starts a thread or hands one to another object.       *)
LEMMA PollKeepsThreads ==
  ASSUME TypeOK, NEW k \in Pollers, Poll(k)
  PROVE  /\ pc[k] \notin {"none", "exited"}
         /\ pc'[k] # "none"
         /\ \A j \in Pollers \ {k} : pc'[j] = pc[j]
         /\ UNCHANGED <<life, origin, thread>>
<1> USE DEF TypeOK, Goto, objectVars, threadVars, TryDequeue
<1>1. CASE While(k) \/ ReaderCheck(k) \/ ReaderNullCall(k) \/ ReaderEmpty(k)
  BY <1>1 DEF While, ReaderCheck, ReaderNullCall, ReaderEmpty
<1>2. CASE DequeueEnter(k) \/ DequeueHit(k) \/ DequeueMiss(k)
  BY <1>2 DEF DequeueEnter, DequeueHit, DequeueMiss
<1>3. CASE HandlerCall(k) \/ HandlerReturns(k) \/ HandlerThrows(k) \/ HandlerMissing(k)
  BY <1>3 DEF HandlerCall, HandlerReturns, HandlerThrows, HandlerMissing
<1>4. CASE RecordException(k) \/ LowerPolling(k)
  BY <1>4 DEF RecordException, LowerPolling
<1> QED
  BY <1>1, <1>2, <1>3, <1>4 DEF Poll

LEMMA PollKeepsKnown ==
  ASSUME TypeOK, ThreadsKnown, NEW k \in Pollers, Poll(k)
  PROVE  ThreadsKnown'
<1>1. \A j \in Pollers : pc'[j] = "none" <=> pc[j] = "none"
  BY PollKeepsThreads
<1>2. life' = life /\ origin' = origin /\ thread' = thread
  BY PollKeepsThreads
<1>3. \A j \in Pollers : thread[j] \in Pollers \cup {NoThread}
  BY DEF TypeOK
<1> QED
  BY <1>1, <1>2, <1>3 DEF ThreadsKnown

(* A step that neither starts a thread nor moves an object leaves the      *)
(* object and the thread of every poller where they are.                   *)
LEMMA ThreadsKnownNext ==
  TypeOK /\ ThreadsKnown /\ [Next]_vars => ThreadsKnown'
<1> SUFFICES ASSUME TypeOK, ThreadsKnown, [Next]_vars PROVE ThreadsKnown'
  OBVIOUS
<1> USE NoThreadIsNoPoller DEF TypeOK, ThreadsKnown, Moving, Free
<1>1. CASE UNCHANGED <<life, origin, thread, pc>>
  BY <1>1
<1>2. ASSUME NEW k \in Pollers, Start(k) PROVE ThreadsKnown'
  BY <1>2 DEF Start
<1>3. ASSUME NEW k \in Pollers, NEW j \in Pollers, Move(k, j) PROVE ThreadsKnown'
  BY <1>3 DEF Move, threadVars
<1>6. ASSUME NEW j \in Pollers, Moved(j) PROVE ThreadsKnown'
  <2>1. CASE MovePolling(j) \/ MoveHandler(j)
    <3>1. \A i \in Pollers : /\ life'[i] \in Moving <=> life[i] \in Moving
                             /\ life'[i] = "live" <=> life[i] = "live"
                             /\ life'[i] = "none" <=> life[i] = "none"
      BY <2>1 DEF MovePolling, MoveHandler
    <3>2. origin' = origin /\ thread' = thread /\ pc' = pc
      BY <2>1 DEF MovePolling, MoveHandler, threadVars
    <3>3. \A i \in Pollers : life[i] \in Moving => origin[i] \in Pollers
      OBVIOUS
    <3> QED
      BY <3>1, <3>2, <3>3 DEF ThreadsKnown
  <2>2. CASE MoveRest(j)
    BY <2>2 DEF MoveRest, threadVars
  <2> QED
    BY <1>6, <2>1, <2>2 DEF Moved
<1>4. ASSUME NEW k \in Pollers, Destroy(k) PROVE ThreadsKnown'
  <2>1. CASE DestroyLower(k)
    BY <2>1 DEF DestroyLower, threadVars
  <2>2. CASE DestroyJoin(k)
    <3>1. \A j \in Pollers : life[j] \in Moving => origin[j] # k
      BY <2>2 DEF DestroyJoin
    <3> QED
      BY <2>2, <3>1 DEF DestroyJoin, threadVars
  <2>3. CASE DestroyTerminates(k)
    BY <2>3 DEF DestroyTerminates, objectVars, threadVars
  <2> QED
    BY <1>4, <2>1, <2>2, <2>3 DEF Destroy
<1>5. ASSUME NEW k \in Pollers, Poll(k) PROVE ThreadsKnown'
  BY <1>5, PollKeepsKnown
<1> QED
  BY <1>1, <1>2, <1>3, <1>4, <1>5, <1>6
  DEF Next, vars, objectVars, threadVars, Construct, Copy, Send, Drop

(* join() is what keeps a thread off a destroyed poller: the handle that   *)
(* ~QueuePoller joins is that of the object's own thread, or the object    *)
(* never had a thread.                                                     *)
LEMMA GoneNext ==
  TypeOK /\ ThreadsKnown /\ NoThreadOnGonePoller /\ [Next]_vars
    => NoThreadOnGonePoller'
<1> SUFFICES ASSUME TypeOK, ThreadsKnown, NoThreadOnGonePoller, [Next]_vars
             PROVE  NoThreadOnGonePoller'
  OBVIOUS
<1> USE DEF TypeOK, NoThreadOnGonePoller
<1>1. CASE UNCHANGED <<life, pc>>
  BY <1>1
<1>2. ASSUME NEW k \in Pollers, Start(k) PROVE NoThreadOnGonePoller'
  BY <1>2 DEF Start
<1>3. ASSUME NEW k \in Pollers, NEW j \in Pollers, Move(k, j)
      PROVE  NoThreadOnGonePoller'
  BY <1>3 DEF Move, threadVars
<1>7. ASSUME NEW j \in Pollers, Moved(j) PROVE NoThreadOnGonePoller'
  BY <1>7 DEF Moved, MovePolling, MoveHandler, MoveRest, threadVars
<1>4. ASSUME NEW k \in Pollers, DestroyLower(k) PROVE NoThreadOnGonePoller'
  BY <1>4 DEF DestroyLower, threadVars
<1>5. ASSUME NEW k \in Pollers, DestroyJoin(k) PROVE NoThreadOnGonePoller'
  <2>1. pc[k] \in {"none", "exited"}
    BY <1>5 DEF DestroyJoin, ThreadsKnown
  <2> QED
    BY <1>5, <2>1 DEF DestroyJoin, threadVars
<1>6. ASSUME NEW k \in Pollers, Poll(k) PROVE NoThreadOnGonePoller'
  BY <1>6, PollKeepsThreads
<1> QED
  BY <1>1, <1>2, <1>3, <1>4, <1>5, <1>6, <1>7
  DEF Next, vars, objectVars, threadVars, Construct, Copy, Send, Drop, Destroy,
      DestroyTerminates

(* mPolling is lowered by the catch block, after it recorded the exception,*)
(* and by the destructor of an object that is then no longer live.         *)
LEMMA StopNext ==
  TypeOK /\ ThreadsKnown /\ RecordedFirst /\ StopExplained /\ [Next]_vars
    => RecordedFirst' /\ StopExplained'
<1> SUFFICES ASSUME TypeOK, ThreadsKnown, RecordedFirst, StopExplained,
                    [Next]_vars
             PROVE  RecordedFirst' /\ StopExplained'
  OBVIOUS
<1> USE DEF TypeOK, RecordedFirst, StopExplained
<1>1. CASE UNCHANGED <<life, thread, polling, error, pc>>
  BY <1>1
<1>2. ASSUME NEW k \in Pollers, Start(k) PROVE RecordedFirst' /\ StopExplained'
  BY <1>2 DEF Start
<1>3. ASSUME NEW k \in Pollers, NEW j \in Pollers, Move(k, j)
      PROVE  RecordedFirst' /\ StopExplained'
  BY <1>3 DEF Move, threadVars
<1>8. ASSUME NEW j \in Pollers, MovePolling(j) \/ MoveHandler(j)
      PROVE  RecordedFirst' /\ StopExplained'
  BY <1>8 DEF MovePolling, MoveHandler, Moving, threadVars
<1>9. ASSUME NEW j \in Pollers, MoveRest(j)
      PROVE  RecordedFirst' /\ StopExplained'
  <2> DEFINE k == origin[j]
  <2>1. k \in Pollers /\ k # j /\ thread[k] # j
    BY <1>9, NoThreadIsNoPoller DEF MoveRest, ThreadsKnown, Moving
  <2> QED
    BY <1>9, <2>1, NoThreadIsNoPoller DEF MoveRest, threadVars
<1>4. ASSUME NEW k \in Pollers, Destroy(k) PROVE RecordedFirst' /\ StopExplained'
  BY <1>4, NoThreadIsNoPoller
  DEF Destroy, DestroyLower, DestroyJoin, DestroyTerminates, objectVars,
      threadVars
<1>5. ASSUME NEW k \in Pollers, RecordException(k)
      PROVE  RecordedFirst' /\ StopExplained'
  BY <1>5 DEF RecordException, Goto
<1>6. ASSUME NEW k \in Pollers, LowerPolling(k)
      PROVE  RecordedFirst' /\ StopExplained'
  BY <1>6 DEF LowerPolling, Goto
<1>7. ASSUME NEW k \in Pollers, Poll(k),
             ~RecordException(k), ~LowerPolling(k)
      PROVE  RecordedFirst' /\ StopExplained'
  <2>1. UNCHANGED objectVars /\ pc'[k] # "lower"
    BY <1>7
    DEF Poll, While, ReaderCheck, ReaderNullCall, ReaderEmpty, DequeueEnter,
        DequeueHit, DequeueMiss, HandlerCall, HandlerReturns, HandlerThrows,
        HandlerMissing, Goto, TryDequeue, threadVars
  <2>2. \A j \in Pollers \ {k} : pc'[j] = pc[j]
    BY <1>7, PollKeepsThreads
  <2> QED
    BY <2>1, <2>2 DEF objectVars
<1> QED
  BY <1>1, <1>2, <1>3, <1>4, <1>5, <1>6, <1>7, <1>8, <1>9
  DEF Next, vars, objectVars, threadVars, Construct, Copy, Send, Drop, Moved

(* Steps of the objects, and the steps of poll() with no message involved, *)
(* neither take a message in hand nor hand one out.                        *)
InHand(k) == pc[k] = "handle"

LEMMA OtherSteps ==
  ASSUME TypeOK, [Next]_vars,
         \A k \in Pollers : ~DequeueHit(k) /\ ~DequeueMiss(k) /\ ~HandlerCall(k)
  PROVE  /\ head' = head
         /\ UNCHANGED <<msg, handed>>
         /\ \A k \in Pollers : InHand(k)' => InHand(k)
<1> USE DEF TypeOK, InHand, queueVars, threadVars
<1>1. CASE UNCHANGED vars
  BY <1>1 DEF vars
<1>2. CASE \E p \in Producers : Send(p) \/ Drop(p)
  BY <1>2 DEF Send, Drop, Enqueue, Release
<1>3. CASE \E k \in Pollers : Start(k)
  BY <1>3 DEF Start
<1>4. CASE \E k, j \in Pollers : Move(k, j) \/ Moved(j)
  BY <1>4 DEF Move, Moved, MovePolling, MoveHandler, MoveRest
<1>5. CASE \E k \in Pollers : Destroy(k)
  BY <1>5 DEF Destroy, DestroyLower, DestroyJoin, DestroyTerminates
<1>6. ASSUME NEW k \in Pollers, Poll(k)
      PROVE  /\ head' = head
             /\ UNCHANGED <<msg, handed>>
             /\ \A j \in Pollers : InHand(j)' => InHand(j)
  <2>1. /\ UNCHANGED <<head, msg, handed>>
        /\ pc'[k] = "handle" => pc[k] = "handle"
    BY <1>6
    DEF Poll, While, ReaderCheck, ReaderNullCall, ReaderEmpty, DequeueEnter,
        Lock, HandlerReturns, HandlerThrows, HandlerMissing, RecordException,
        LowerPolling, Goto, TryDequeue
  <2>2. \A j \in Pollers \ {k} : pc'[j] = pc[j]
    BY <1>6, PollKeepsThreads
  <2> QED
    BY <2>1, <2>2
<1> QED
  BY <1>1, <1>2, <1>3, <1>4, <1>5, <1>6 DEF Next, Construct, Copy

(* What DequeueHit, DequeueMiss and HandlerCall do to the messages.        *)
LEMMA HitStep ==
  ASSUME TypeOK, NEW k \in Pollers, DequeueHit(k)
  PROVE  \E p \in Producers :
           /\ head[p] < tail[p] /\ <<p, head[p]>> \in Messages
           /\ head' = [head EXCEPT ![p] = @ + 1]
           /\ msg' = [msg EXCEPT ![k] = <<p, head[p]>>]
           /\ pc[k] = TryDequeue
           /\ pc' = [pc EXCEPT ![k] = "handle"]
           /\ UNCHANGED <<tail, handed>>
<1>1. PICK p \in Producers :
         TryDequeueHit(k, p) /\ msg' = [msg EXCEPT ![k] = <<p, head[p]>>]
  BY DEF DequeueHit
<1>2. <<p, head[p]>> \in Messages
  BY <1>1, MaxSentIsNat DEF TryDequeueHit, Messages, TypeOK, QueueTypeOK
<1> QED
  BY <1>1, <1>2 DEF DequeueHit, TryDequeueHit, Goto

LEMMA MissStep ==
  ASSUME TypeOK, NEW k \in Pollers, DequeueMiss(k)
  PROVE  /\ QueueEmpty \/ \E j \in Pollers \ {k} : pc[j] = TryDequeue
         /\ msg' = [msg EXCEPT ![k] = Default]
         /\ pc[k] = TryDequeue
         /\ pc' = [pc EXCEPT ![k] = "handle"]
         /\ UNCHANGED <<tail, head, handed>>
BY DEF TypeOK, DequeueMiss, TryDequeueMiss, SeemsEmpty, Rivals, Goto

LEMMA CallStep ==
  ASSUME TypeOK, NEW k \in Pollers, HandlerCall(k)
  PROVE  /\ pc[k] = "handle"
         /\ pc' = [pc EXCEPT ![k] = "handling"]
         /\ handed' = [handed EXCEPT ![k] = @ \cup {msg[k]}]
         /\ UNCHANGED <<tail, head, msg>>
BY DEF TypeOK, HandlerCall, Goto, queueVars

(* Everything a thread holds has left the queue, so the message that is    *)
(* taken next is new to every thread, and larger than all it handed out.   *)
LEMMA MessagesNext ==
  TypeOK /\ HeldTaken /\ InOrder /\ HandedOnce /\ [Next]_vars
    => HeldTaken' /\ InOrder' /\ HandedOnce'
<1> SUFFICES ASSUME TypeOK, HeldTaken, InOrder, HandedOnce, [Next]_vars
             PROVE  HeldTaken' /\ InOrder' /\ HandedOnce'
  OBVIOUS
<1> USE DefaultIsNoMessage DEF HeldTaken, InOrder, HandedOnce, Holds
<1>1. CASE \A k \in Pollers : ~DequeueHit(k) /\ ~DequeueMiss(k) /\ ~HandlerCall(k)
  BY <1>1, OtherSteps DEF InHand
<1>2. ASSUME NEW k \in Pollers, DequeueHit(k)
      PROVE  HeldTaken' /\ InOrder' /\ HandedOnce'
  <2>1. PICK p \in Producers :
           /\ head[p] < tail[p] /\ <<p, head[p]>> \in Messages
           /\ head' = [head EXCEPT ![p] = @ + 1]
           /\ msg' = [msg EXCEPT ![k] = <<p, head[p]>>]
           /\ pc[k] = TryDequeue
           /\ pc' = [pc EXCEPT ![k] = "handle"]
           /\ UNCHANGED <<tail, handed>>
    BY <1>2, HitStep
  <2> DEFINE new == <<p, head[p]>>
  <2>2. \A j \in Pollers : ~Holds(j, new)
    <3> SUFFICES ASSUME NEW j \in Pollers, Holds(j, new) PROVE FALSE
      OBVIOUS
    <3>1. new[2] < head[new[1]]
      BY <2>1
    <3>2. head[p] < head[p]
      BY <3>1
    <3>3. head[p] \in Nat
      BY DEF TypeOK, QueueTypeOK
    <3> QED
      BY <3>2, <3>3
  <2>3. \A j \in Pollers : \A m \in Messages :
          Holds(j, m)' => Holds(j, m) \/ (j = k /\ m = new)
    BY <2>1 DEF TypeOK
  <2>4. \A q \in Producers : head[q] <= head'[q] /\ head'[q] \in Nat /\ head[q] \in Nat
    BY <2>1 DEF TypeOK, QueueTypeOK
  <2>5. HeldTaken'
    <3> SUFFICES ASSUME NEW j \in Pollers, NEW m \in Messages, Holds(j, m)'
                 PROVE  m[2] < head'[m[1]]
      OBVIOUS
    <3>1. m[1] \in Producers /\ m[2] \in Nat
      BY MaxSentIsNat DEF Messages
    <3>2. CASE Holds(j, m)
      BY <3>1, <3>2, <2>4
    <3>3. CASE m = new
      BY <3>3, <2>1 DEF TypeOK, QueueTypeOK
    <3> QED
      BY <2>3, <3>2, <3>3
  <2>6. InOrder'
    <3>1. \A old \in handed[k] : old # Default /\ old[1] = p => old[2] < head[p]
      BY DEF TypeOK
    <3> QED
      BY <2>1, <3>1 DEF TypeOK
  <2>7. HandedOnce'
    <3>1. \A i, j \in Pollers : \A m \in Messages :
            Holds(i, m)' /\ Holds(j, m)' => i = j
      BY <2>2, <2>3
    <3>2. \A j \in Pollers : (pc[j] = "handle" /\ msg[j] # Default)'
                               => msg'[j] \notin handed'[j]
      BY <2>1, <2>2 DEF TypeOK
    <3> QED
      BY <3>1, <3>2
  <2> QED
    BY <2>5, <2>6, <2>7
<1>3. ASSUME NEW k \in Pollers, DequeueMiss(k)
      PROVE  HeldTaken' /\ InOrder' /\ HandedOnce'
  BY <1>3, MissStep DEF TypeOK
<1>4. ASSUME NEW k \in Pollers, HandlerCall(k)
      PROVE  HeldTaken' /\ InOrder' /\ HandedOnce'
  <2>1. \A j \in Pollers : \A m \in Messages : Holds(j, m)' <=> Holds(j, m)
    BY <1>4, CallStep DEF TypeOK
  <2>2. HeldTaken'
    BY <1>4, <2>1, CallStep
  <2>3. InOrder'
    BY <1>4, CallStep DEF TypeOK
  <2>4. \A j \in Pollers :
          pc'[j] = "handle" /\ msg'[j] # Default => msg'[j] \notin handed'[j]
    BY <1>4, CallStep DEF TypeOK
  <2>5. HandedOnce'
    BY <2>1, <2>4
  <2> QED
    BY <2>2, <2>3, <2>5
<1> QED
  BY <1>1, <1>2, <1>3, <1>4

(* A lone thread that saw an element finds it still there: only producers  *)
(* touch the queue meanwhile, and they only add to it.                     *)
LEMMA PhantomNext ==
  TypeOK /\ Bounded /\ PromiseKept /\ PhantomHeld /\ PhantomNeedsRival
  /\ [Next]_vars
    => PromiseKept' /\ PhantomHeld' /\ PhantomNeedsRival'
<1> SUFFICES ASSUME TypeOK, Bounded, PromiseKept, PhantomHeld,
                    PhantomNeedsRival, [Next]_vars
             PROVE  PromiseKept' /\ PhantomHeld' /\ PhantomNeedsRival'
  OBVIOUS
<1> USE DEF PromiseKept, PhantomHeld, PhantomNeedsRival, Alone
<1>1. ASSUME NEW k \in Pollers, Alone(k)' PROVE Alone(k)
  <2> SUFFICES ASSUME NEW j \in Pollers \ {k}, pc'[j] = "none" PROVE pc[j] = "none"
    BY <1>1
  <2>1. CASE UNCHANGED pc
    BY <2>1
  <2>2. ASSUME NEW i \in Pollers, Start(i) PROVE pc[j] = "none"
    BY <2>2 DEF Start, TypeOK
  <2>3. ASSUME NEW i \in Pollers, Poll(i) PROVE pc[j] = "none"
    BY <2>3, PollKeepsThreads
  <2> QED
    BY <2>1, <2>2, <2>3
    DEF Next, vars, threadVars, Construct, Copy, Send, Drop, Move, Moved,
        MovePolling, MoveHandler, MoveRest, Destroy,
        DestroyLower, DestroyJoin, DestroyTerminates
<1>2. PromiseKept'
  <2> SUFFICES ASSUME NEW k \in Pollers, pc'[k] \in Promised, Alone(k)'
               PROVE  ~QueueEmpty'
    OBVIOUS
  <2>1. Alone(k)
    BY <1>1
  <2>2. CASE UNCHANGED <<pc, tail, head>>
    BY <2>1, <2>2 DEF QueueEmpty
  <2>3. ASSUME NEW p \in Producers, Send(p) PROVE ~QueueEmpty'
    BY <2>1, <2>3
    DEF Send, Enqueue, QueueEmpty, threadVars, TypeOK, QueueTypeOK, Bounded
  <2>4. ASSUME NEW j \in Pollers, Start(j) PROVE ~QueueEmpty'
    BY <2>1, <2>4 DEF Start, TypeOK, Promised, TryDequeue, queueVars, QueueEmpty
  <2>5. ASSUME NEW j \in Pollers, Poll(j) PROVE ~QueueEmpty'
    <3>1. j = k
      BY <2>1, <2>5, PollKeepsThreads
    <3>2. UNCHANGED <<head, tail>> /\ (pc[k] \in Promised \/ ~QueueEmpty)
      BY <2>5, <3>1
      DEF Poll, While, ReaderCheck, ReaderNullCall, ReaderEmpty, DequeueEnter,
          Lock, DequeueHit, DequeueMiss, HandlerCall, HandlerReturns,
          HandlerThrows, HandlerMissing, RecordException, LowerPolling, Goto,
          TryDequeue, Promised, TypeOK, queueVars, objectVars, threadVars
    <3> QED
      BY <2>1, <3>2 DEF QueueEmpty
  <2> QED
    BY <2>2, <2>3, <2>4, <2>5
    DEF Next, vars, queueVars, threadVars, Construct, Copy, Drop, Release, Move,
        Moved, MovePolling, MoveHandler, MoveRest,
        Destroy, DestroyLower, DestroyJoin, DestroyTerminates
<1>3. PhantomHeld'
  <2> SUFFICES ASSUME NEW k \in Pollers, pc'[k] = "handle", msg'[k] = Default
               PROVE  ~Alone(k)'
    OBVIOUS
  <2>1. CASE pc[k] = "handle" /\ msg[k] = Default
    BY <1>1, <2>1
  <2>2. CASE DequeueMiss(k)
    <3>1. ~Alone(k)
      BY <2>2, MissStep DEF Promised, TryDequeue
    <3> QED
      BY <1>1, <3>1
  <2>3. CASE DequeueHit(k)
    <3>1. PICK p \in Producers :
             <<p, head[p]>> \in Messages /\ msg' = [msg EXCEPT ![k] = <<p, head[p]>>]
      BY <2>3, HitStep
    <3> QED
      BY <3>1, DefaultIsNoMessage DEF TypeOK
  <2> QED
    <3>1. CASE \A j \in Pollers : ~DequeueHit(j) /\ ~DequeueMiss(j) /\ ~HandlerCall(j)
      BY <2>1, <3>1, OtherSteps DEF InHand
    <3>2. ASSUME NEW j \in Pollers, j # k, DequeueHit(j) \/ DequeueMiss(j)
          PROVE  ~Alone(k)'
      <4>1. CASE DequeueHit(j)
        <5>1. PICK p \in Producers : /\ msg' = [msg EXCEPT ![j] = <<p, head[p]>>]
                                     /\ pc' = [pc EXCEPT ![j] = "handle"]
          BY <4>1, HitStep
        <5> QED
          BY <2>1, <3>2, <5>1 DEF TypeOK
      <4>2. CASE DequeueMiss(j)
        BY <2>1, <3>2, <4>2, MissStep DEF TypeOK
      <4> QED
        BY <3>2, <4>1, <4>2
    <3>3. ASSUME NEW j \in Pollers, HandlerCall(j) PROVE ~Alone(k)'
      BY <2>1, <3>3, CallStep DEF TypeOK
    <3> QED
      BY <2>2, <2>3, <3>1, <3>2, <3>3
<1>4. PhantomNeedsRival'
  <2> SUFFICES ASSUME NEW k \in Pollers, Default \in handed'[k]
               PROVE  ~Alone(k)'
    OBVIOUS
  <2>1. Default \in handed[k] \/ (pc[k] = "handle" /\ msg[k] = Default)
    <3>1. CASE \A j \in Pollers : ~DequeueHit(j) /\ ~DequeueMiss(j) /\ ~HandlerCall(j)
      BY <3>1, OtherSteps
    <3>2. ASSUME NEW j \in Pollers, DequeueHit(j) \/ DequeueMiss(j)
          PROVE  handed' = handed
      BY <3>2, HitStep, MissStep
    <3>3. ASSUME NEW j \in Pollers, HandlerCall(j)
          PROVE  Default \in handed[k] \/ (pc[k] = "handle" /\ msg[k] = Default)
      BY <3>3, CallStep DEF TypeOK
    <3> QED
      BY <3>1, <3>2, <3>3
  <2> QED
    BY <1>1, <2>1
<1> QED
  BY <1>2, <1>3, <1>4

--------------------------------------------------------------------------------
LEMMA InvInit == Init => Inv
BY TypeInit, NoThreadIsNoPoller
DEF Init, QueueInit, Inv, Bounded, ThreadsKnown, Moving, HeldTaken, Holds, InOrder,
    PromiseKept, Promised, TryDequeue, PhantomHeld, RecordedFirst, HandedOnce,
    PhantomNeedsRival, StopExplained, NoThreadOnGonePoller

LEMMA InvNext == Inv /\ [Next]_vars => Inv'
BY TypeNext, BoundedNext, ThreadsKnownNext, GoneNext, StopNext, MessagesNext,
   PhantomNext
DEF Inv

(* The inductive invariant holds throughout.                               *)
THEOREM Invariance == Spec => []Inv
BY InvInit, InvNext, PTL DEF Spec

(* Every variable keeps its type, for any number of producers and pollers. *)
THEOREM TypeCorrect == Spec => []TypeOK
<1>1. Inv => TypeOK
  BY DEF Inv
<1> QED
  BY Invariance, <1>1, PTL

(* Copies of a poller may share a queue: an enqueued message reaches one   *)
(* handler call at most.                                                   *)
THEOREM HandedOnceAlways == Spec => []HandedOnce
<1>1. Inv => HandedOnce
  BY DEF Inv
<1> QED
  BY Invariance, <1>1, PTL

(* A handler sees the value-initialised T() only if a second poller was    *)
(* ever started on the queue.                                              *)
THEOREM PhantomNeedsRivalAlways == Spec => []PhantomNeedsRival
<1>1. Inv => PhantomNeedsRival
  BY DEF Inv
<1> QED
  BY Invariance, <1>1, PTL

(* polling() returns false on a live poller only after error() is set.     *)
THEOREM StopExplainedAlways == Spec => []StopExplained
<1>1. Inv => StopExplained
  BY DEF Inv
<1> QED
  BY Invariance, <1>1, PTL

(* The join in ~QueuePoller keeps every thread off a destroyed poller,     *)
(* moves of pollers under their running threads included.                  *)
THEOREM NoThreadOnGonePollerAlways == Spec => []NoThreadOnGonePoller
<1>1. Inv => NoThreadOnGonePoller
  BY DEF Inv
<1> QED
  BY Invariance, <1>1, PTL

--------------------------------------------------------------------------------
(* A handler is called with the message in hand, and InOrder says what that*)
(* message comes after.                                                    *)
LEMMA OrderStep ==
  ASSUME Inv, [Next]_vars,
         NEW k \in Pollers, NEW new \in handed'[k] \ handed[k], NEW old \in handed[k],
         new # Default, old # Default, new[1] = old[1]
  PROVE  old[2] < new[2]
<1>1. CASE \A j \in Pollers : ~DequeueHit(j) /\ ~DequeueMiss(j) /\ ~HandlerCall(j)
  BY <1>1, OtherSteps DEF Inv
<1>2. ASSUME NEW j \in Pollers, DequeueHit(j) \/ DequeueMiss(j) PROVE FALSE
  <2>1. handed' = handed
    BY <1>2, HitStep, MissStep DEF Inv
  <2> QED
    BY <2>1
<1>3. ASSUME NEW j \in Pollers, HandlerCall(j) PROVE old[2] < new[2]
  <2>1. j = k /\ new = msg[k] /\ pc[k] = "handle"
    BY <1>3, CallStep DEF Inv, TypeOK
  <2> QED
    BY <2>1 DEF Inv, InOrder
<1> QED
  BY <1>1, <1>2, <1>3

(* The messages of one producer reach the handler of one poller in order.  *)
THEOREM OrderAlways == Spec => OrderPerProducer
<1>1. Inv /\ [Next]_vars =>
        \A k \in Pollers : \A new \in handed'[k] \ handed[k] : \A old \in handed[k] :
          new # Default /\ old # Default /\ new[1] = old[1] => old[2] < new[2]
  BY OrderStep
<1> QED
  BY Invariance, <1>1, PTL DEF Spec, OrderPerProducer

--------------------------------------------------------------------------------
(* The poller implements MessageStream.                                    *)
LEMMA StreamInit == Init => Stream!Init
BY DEF Delivered, Init, QueueInit, Stream!Init

LEMMA StreamStep == Inv /\ [Next]_vars => [Stream!Next]_(Stream!streamVars)
<1> SUFFICES ASSUME Inv, [Next]_vars
             PROVE  Stream!Next \/ UNCHANGED Stream!streamVars
  OBVIOUS
<1> USE DEF Inv, Stream!streamVars
<1>1. ASSUME NEW p \in Producers, Send(p) PROVE Stream!Next
  <2>1. Stream!Send(p)
    BY <1>1 DEF Send, Enqueue, Stream!Send, Delivered, threadVars
  <2> QED
    BY <2>1 DEF Stream!Next
<1>2. ASSUME NEW k \in Pollers, DequeueHit(k) PROVE Stream!Next
  <2>1. PICK p \in Producers : /\ head[p] < tail[p]
                               /\ head' = [head EXCEPT ![p] = @ + 1]
                               /\ UNCHANGED <<tail, handed>>
    BY <1>2, HitStep
  <2>2. Stream!Take(p)
    BY <2>1 DEF Stream!Take, Delivered
  <2> QED
    BY <2>2 DEF Stream!Next
<1>3. ASSUME NEW k \in Pollers, HandlerCall(k)
      PROVE  Stream!Next \/ UNCHANGED Stream!streamVars
  <2>1. /\ pc[k] = "handle"
        /\ handed' = [handed EXCEPT ![k] = @ \cup {msg[k]}]
        /\ UNCHANGED <<tail, head>>
    BY <1>3, CallStep
  <2>2. Delivered' = Delivered \cup ({msg[k]} \cap Messages)
    <3>1. \A j \in Pollers :
            handed'[j] = IF j = k THEN handed[j] \cup {msg[k]} ELSE handed[j]
      BY <2>1 DEF TypeOK
    <3> QED
      BY <3>1 DEF Delivered
  <2>3. CASE msg[k] = Default
    BY <2>1, <2>2, <2>3, DefaultIsNoMessage
  <2>4. CASE msg[k] # Default
    <3>1. PICK p \in Producers, i \in 0 .. MaxSent - 1 : msg[k] = <<p, i>>
      BY <2>4 DEF TypeOK, Messages
    <3>2. <<p, i>> \in Messages
      BY <3>1 DEF Messages
    <3>3. i < head[p]
      BY <2>1, <3>1, <3>2 DEF HeldTaken, Holds
    <3>4. <<p, i>> \notin Delivered
      BY <2>1, <3>1, <3>2, <2>4 DEF HandedOnce, Holds, Delivered
    <3>5. Stream!Deliver(p, i)
      BY <2>1, <2>2, <3>1, <3>2, <3>3, <3>4 DEF Stream!Deliver
    <3> QED
      BY <3>5 DEF Stream!Next
  <2> QED
    BY <2>3, <2>4
<1>4. ASSUME \A p \in Producers : ~Send(p),
             \A k \in Pollers : ~DequeueHit(k) /\ ~HandlerCall(k)
      PROVE  UNCHANGED Stream!streamVars
  <2>1. UNCHANGED <<tail, head, handed>>
    BY <1>4
    DEF Next, vars, queueVars, objectVars, threadVars, Drop, Release, Construct,
        Copy, Start, Move, Moved, MovePolling, MoveHandler, MoveRest, Destroy,
        DestroyLower, DestroyJoin,
        DestroyTerminates, Poll, While, ReaderCheck, ReaderNullCall,
        ReaderEmpty, DequeueEnter, Lock, DequeueMiss, TryDequeueMiss,
        HandlerReturns, HandlerThrows, HandlerMissing, RecordException,
        LowerPolling
  <2> QED
    BY <2>1 DEF Delivered
<1> QED
  BY <1>1, <1>2, <1>3, <1>4

(* Reading a queue through any number of pollers that share it, created,   *)
(* copied, moved and destroyed while they run, is a message stream.        *)
THEOREM ImplementsStream == Spec => StreamSpec
<1> QED
  BY Invariance, StreamInit, StreamStep, PTL DEF Spec, StreamSpec, Stream!Spec

--------------------------------------------------------------------------------
(* What is lost.  A thread that found no handler will never dequeue again, *)
(* so it still has in its hand the one message it lost.                    *)
Ended(k) ==
  pc[k] \in {"catch", "lower", "exited"} \/ (pc[k] = "while" /\ ~polling[k])

Losers == {k \in Pollers : Ended(k) /\ ~handler[k]}

DroppedInHand == \A m \in Dropped : \E k \in Losers : msg[k] = m

(* Who has ended stays so, and keeps its message.                          *)
LEMMA LosersStay ==
  ASSUME TypeOK, ThreadsKnown, [Next]_vars, NEW k \in Losers
  PROVE  k \in Losers' /\ msg'[k] = msg[k]
<1>1. k \in Pollers /\ Ended(k) /\ ~handler[k] /\ pc[k] # "none" /\ life[k] # "none"
  BY DEF Losers, Ended, ThreadsKnown
<1>2. CASE UNCHANGED vars
  BY <1>1, <1>2 DEF vars, objectVars, threadVars, Losers, Ended
<1>3. ASSUME NEW j \in Pollers, Start(j) PROVE k \in Losers' /\ msg'[k] = msg[k]
  BY <1>1, <1>3 DEF Start, Losers, Ended, TypeOK
<1>4. ASSUME NEW i \in Pollers, NEW j \in Pollers, Move(i, j)
      PROVE  k \in Losers' /\ msg'[k] = msg[k]
  BY <1>1, <1>4 DEF Move, threadVars, Losers, Ended, TypeOK
<1>8. ASSUME NEW j \in Pollers, Moved(j)
      PROVE  k \in Losers' /\ msg'[k] = msg[k]
  <2>1. j # k
    BY <1>1, <1>8 DEF Moved, MovePolling, MoveHandler, MoveRest, ThreadsKnown, Moving
  <2> QED
    BY <1>1, <1>8, <2>1 DEF Moved, MovePolling, MoveHandler, MoveRest, threadVars,
       Losers, Ended, TypeOK
<1>5. ASSUME NEW j \in Pollers, Destroy(j) PROVE k \in Losers' /\ msg'[k] = msg[k]
  BY <1>1, <1>5 DEF Destroy, DestroyLower, DestroyJoin, DestroyTerminates, objectVars,
     threadVars, Losers, Ended, TypeOK
<1>6. ASSUME NEW j \in Pollers, Poll(j) PROVE k \in Losers' /\ msg'[k] = msg[k]
  <2>1. CASE j = k
    BY <1>1, <1>6, <2>1
    DEF Poll, While, ReaderCheck, ReaderNullCall, ReaderEmpty, DequeueEnter, DequeueHit,
        DequeueMiss, HandlerCall, HandlerReturns, HandlerThrows, HandlerMissing,
        RecordException, LowerPolling, Goto, TryDequeue, objectVars, threadVars,
        Losers, Ended, TypeOK
  <2>2. CASE j # k
    <3>1. pc'[k] = pc[k]
      BY <1>1, <1>6, <2>2, PollKeepsThreads
    <3>2. handler' = handler /\ polling'[k] = polling[k] /\ msg'[k] = msg[k]
      BY <1>1, <1>6, <2>2
      DEF Poll, While, ReaderCheck, ReaderNullCall, ReaderEmpty, DequeueEnter, DequeueHit,
          DequeueMiss, HandlerCall, HandlerReturns, HandlerThrows, HandlerMissing,
          RecordException, LowerPolling, objectVars, threadVars, TypeOK
    <3> QED
      BY <1>1, <3>1, <3>2 DEF Losers, Ended
  <2> QED
    BY <2>1, <2>2
<1>7. ASSUME NEW p \in Producers, Send(p) \/ Drop(p) PROVE k \in Losers' /\ msg'[k] = msg[k]
  BY <1>1, <1>7 DEF Send, Drop, objectVars, threadVars, Losers, Ended
<1> QED
  BY <1>2, <1>3, <1>4, <1>5, <1>6, <1>7, <1>8 DEF Next, Construct, Copy

(* A message that has left the queue and that nobody holds after a step    *)
(* was already lost, or was in the hand of a thread that finds no handler. *)
LEMMA NewlyDropped ==
  ASSUME TypeOK, ThreadsKnown, [Next]_vars, NEW m \in Dropped'
  PROVE  \/ m \in Dropped
         \/ \E k \in Pollers : HandlerMissing(k) /\ msg[k] = m
<1>1. /\ m \in Messages /\ m[2] < head'[m[1]]
      /\ \A k \in Pollers : m \notin handed'[k] /\ ~(pc'[k] = "handle" /\ msg'[k] = m)
  BY DEF Dropped, Holds
<1>2. PICK q \in Producers, i \in 0 .. MaxSent - 1 : m = <<q, i>> /\ m[1] = q /\ m[2] = i
  BY <1>1 DEF Messages
<1>3. CASE UNCHANGED vars
  BY <1>1, <1>3 DEF vars, queueVars, threadVars, Dropped, Holds
<1>4. ASSUME NEW k \in Pollers, DequeueHit(k) PROVE m \in Dropped
  <2>1. PICK p \in Producers :
           /\ head' = [head EXCEPT ![p] = @ + 1]
           /\ msg' = [msg EXCEPT ![k] = <<p, head[p]>>]
           /\ pc[k] = TryDequeue /\ pc' = [pc EXCEPT ![k] = "handle"]
           /\ handed' = handed
    BY <1>4, HitStep
  <2>2. pc'[k] = "handle" /\ msg'[k] = <<p, head[p]>>
    BY <2>1 DEF TypeOK
  <2>3. i < head[q]
    <3>1. head[q] \in Int /\ head'[q] = IF q = p THEN head[q] + 1 ELSE head[q]
      BY <2>1, MaxSentIsNat DEF TypeOK, QueueTypeOK
    <3>2. ~(q = p /\ i = head[q])
      BY <1>1, <1>2, <2>2
    <3> QED
      BY <1>1, <1>2, <3>1, <3>2
  <2>4. \A j \in Pollers : ~Holds(j, m)
    <3>1. \A j \in Pollers : j # k => pc'[j] = pc[j] /\ msg'[j] = msg[j]
      BY <2>1 DEF TypeOK
    <3> QED
      BY <1>1, <2>1, <3>1 DEF Holds, TryDequeue
  <2> QED
    BY <1>1, <1>2, <2>3, <2>4 DEF Dropped
<1>5. ASSUME NEW k \in Pollers, DequeueMiss(k) PROVE m \in Dropped
  <2>1. /\ head' = head /\ handed' = handed
        /\ pc[k] = TryDequeue
        /\ \A j \in Pollers : j # k => pc'[j] = pc[j] /\ msg'[j] = msg[j]
    BY <1>5, MissStep DEF TypeOK
  <2> QED
    BY <1>1, <2>1 DEF Dropped, Holds, TryDequeue
<1>6. ASSUME NEW k \in Pollers, HandlerCall(k) PROVE m \in Dropped
  <2>1. /\ head' = head /\ msg' = msg /\ pc[k] = "handle"
        /\ handed'[k] = handed[k] \cup {msg[k]}
        /\ \A j \in Pollers : j # k => pc'[j] = pc[j] /\ handed'[j] = handed[j]
    BY <1>6, CallStep DEF TypeOK
  <2> QED
    BY <1>1, <2>1 DEF Dropped, Holds
<1>7. CASE \A k \in Pollers : ~DequeueHit(k) /\ ~DequeueMiss(k) /\ ~HandlerCall(k)
  <2>1. UNCHANGED <<head, msg, handed>>
    BY <1>7, OtherSteps
  <2>2. CASE m \in Dropped
    BY <2>2
  <2>3. CASE m \notin Dropped
    <3>1. PICK k \in Pollers : pc[k] = "handle" /\ msg[k] = m /\ pc'[k] # "handle"
      BY <1>1, <2>1, <2>3 DEF Dropped, Holds
    <3>2. HandlerMissing(k)
      <4>1. ~UNCHANGED vars
        BY <3>1 DEF vars, threadVars
      <4>2. ASSUME NEW j \in Pollers, Start(j) PROVE FALSE
        BY <3>1, <4>2 DEF Start, TypeOK, ThreadsKnown
      <4>3. ASSUME NEW j \in Pollers, Poll(j) PROVE j = k /\ HandlerMissing(k)
        <5>1. j = k
          BY <3>1, <4>3, PollKeepsThreads
        <5> QED
          BY <1>7, <3>1, <4>3, <5>1
          DEF Poll, While, ReaderCheck, ReaderNullCall, ReaderEmpty, DequeueEnter,
              HandlerReturns, HandlerThrows, RecordException, LowerPolling, Goto,
              threadVars
      <4> QED
        BY <3>1, <4>1, <4>2, <4>3
        DEF Next, Construct, Copy, Send, Drop, Move, Moved, MovePolling, MoveHandler,
            MoveRest, Destroy, DestroyLower, DestroyJoin, DestroyTerminates, threadVars
    <3> QED
      BY <3>1, <3>2
  <2> QED
    BY <2>2, <2>3
<1> QED
  BY <1>4, <1>5, <1>6, <1>7

LEMMA DroppedNext ==
  ASSUME Inv, DroppedInHand, [Next]_vars
  PROVE  DroppedInHand'
<1> SUFFICES ASSUME NEW m \in Dropped' PROVE \E k \in Losers' : msg'[k] = m
  BY DEF DroppedInHand
<1>1. TypeOK /\ ThreadsKnown
  BY DEF Inv
<1>2. CASE m \in Dropped
  BY <1>1, <1>2, LosersStay DEF DroppedInHand
<1>3. ASSUME NEW k \in Pollers, HandlerMissing(k), msg[k] = m
      PROVE  \E j \in Losers' : msg'[j] = m
  <2>1. /\ pc'[k] = "catch" /\ ~handler'[k] /\ msg' = msg
    BY <1>1, <1>3 DEF HandlerMissing, Goto, objectVars, TypeOK
  <2> QED
    BY <1>3, <2>1 DEF Losers, Ended
<1> QED
  BY <1>1, <1>2, <1>3, NewlyDropped

(* A handler is given every message that leaves the queue, but for at most *)
(* one for each poller that was moved away from under its thread: whatever *)
(* handlers throw and whenever pollers are copied and destroyed.           *)
THEOREM NothingDroppedAlways == Spec => []NothingDropped
<1>1. Init => DroppedInHand
  <2> SUFFICES ASSUME Init PROVE Dropped = {}
    BY DEF DroppedInHand
  <2> QED
    BY DEF Init, QueueInit, Dropped, Messages
<1>2. Inv /\ DroppedInHand /\ [Next]_vars => DroppedInHand'
  BY DroppedNext
<1>3. ASSUME DroppedInHand PROVE NothingDropped
  <2> DEFINE L == {k \in Losers : msg[k] \in Dropped}
             R == {k \in Pollers : pc[k] # "none" /\ ~handler[k]}
             f == [k \in L |-> msg[k]]
  <2>1. f \in Surjection(L, Dropped)
    BY <1>3 DEF DroppedInHand, Surjection
  <2>2. L \subseteq R /\ R \subseteq Pollers
    BY DEF Losers, Ended
  <2>3. IsFiniteSet(R) /\ IsFiniteSet(L) /\ Cardinality(L) <= Cardinality(R)
    BY <2>2, PollersAreFinite, FS_Subset
  <2>4. IsFiniteSet(Dropped) /\ Cardinality(Dropped) <= Cardinality(L)
    <3> HIDE DEF f, L
    <3> QED
      BY <2>1, <2>3, FS_Surjection
  <2>5. /\ Cardinality(Dropped) \in Nat /\ Cardinality(L) \in Nat
        /\ Cardinality(R) \in Nat
    BY <2>3, <2>4, FS_CardinalityType
  <2>6. Cardinality(Dropped) <= Cardinality(R)
    BY <2>3, <2>4, <2>5
  <2> QED
    BY <2>6 DEF NothingDropped
<1> QED
  BY <1>1, <1>2, <1>3, Invariance, PTL DEF Spec

================================================================================
