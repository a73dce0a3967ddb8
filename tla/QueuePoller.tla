------------------------------ MODULE QueuePoller ------------------------------
(***************************************************************************)
(* QueuePoller<T> (include/queue/queue_poller.h) over a QueueReader<T>     *)
(* (include/queue/queue_reader.h) of one shared queue.                     *)
(*                                                                         *)
(* A poller object k owns a thread that runs poll() on k: it asks the      *)
(* reader whether the queue is empty, dequeues, and calls the handler.     *)
(* The application creates, copies, moves and destroys pollers while they  *)
(* run, and the producers enqueue and may drop the queue at any moment.    *)
(* Every step of poll() that reads or writes shared state is an action of  *)
(* its own; in particular QueueReader::empty and ::dequeue test expired()  *)
(* in one step and call through weak_ptr::lock() in a later one.           *)
(***************************************************************************)
EXTENDS SharedQueue, FiniteSets

CONSTANTS Pollers

ASSUME PollersAreFinite == IsFiniteSet(Pollers)
ASSUME PollersAreNotProducers == Pollers \cap Producers = {}

VARIABLES
  life,      \* lifetime of the object: "none", of Moving, "live", "dying", "gone"
  origin,    \* the object that a move constructor is taking from, or NoThread
  polling,   \* mPolling
  error,     \* mException is set
  reader,    \* mQueueReader refers to the queue (FALSE: moved-from)
  handler,   \* mHandler is not empty (FALSE: moved-from)
  thread,    \* the poller whose poll() the object's mThread runs, or NoThread
  pc,        \* where the thread started by k is in poll()
  msg,       \* the local variable message of that thread
  handed,    \* messages the thread of k has passed to a handler (history)
  process    \* "running", or how the process ended

objectVars == <<life, origin, polling, error, reader, handler, thread>>
threadVars == <<pc, msg, handed>>
vars == <<queueVars, objectVars, threadVars, process>>

NoThread == "no thread"

ASSUME NoThreadIsNoPoller == NoThread \notin Pollers

(* Where poll() is.  A pc is "none" before the thread is started.          *)
ReaderPoints == {"empty?", "empty.lock", "dequeue?", "dequeue.lock"}
TryDequeue == "try_dequeue"
PollPoints == ReaderPoints \cup
                {"while", TryDequeue, "handle", "handling", "catch", "lower",
                 "exited"}

(* A move constructor is at work on the object, and what it takes next.    *)
Moving == {"polling", "handler", "rest"}

(* The locations between poll() having seen the queue non-empty and it     *)
(* having the message in hand.                                             *)
Promised == {"dequeue?", "dequeue.lock", TryDequeue}

TypeOK ==
  /\ QueueTypeOK
  /\ owners \subseteq Producers \cup Pollers
  /\ life \in [Pollers -> Moving \cup {"none", "live", "dying", "gone"}]
  /\ origin \in [Pollers -> Pollers \cup {NoThread}]
  /\ \A k \in Pollers : life[k] \in Moving => origin[k] \in Pollers
  /\ polling \in [Pollers -> BOOLEAN]
  /\ error \in [Pollers -> BOOLEAN]
  /\ reader \in [Pollers -> BOOLEAN]
  /\ handler \in [Pollers -> BOOLEAN]
  /\ thread \in [Pollers -> Pollers \cup {NoThread}]
  /\ pc \in [Pollers -> PollPoints \cup {"none"}]
  /\ msg \in [Pollers -> Messages \cup {Default}]
  /\ handed \in [Pollers -> SUBSET (Messages \cup {Default})]
  /\ process \in {"running", "segfault", "terminate"}

Init ==
  /\ QueueInit
  /\ life = [k \in Pollers |-> "none"]
  /\ origin = [k \in Pollers |-> NoThread]
  /\ polling = [k \in Pollers |-> FALSE]
  /\ error = [k \in Pollers |-> FALSE]
  /\ reader = [k \in Pollers |-> FALSE]
  /\ handler = [k \in Pollers |-> FALSE]
  /\ thread = [k \in Pollers |-> NoThread]
  /\ pc = [k \in Pollers |-> "none"]
  /\ msg = [k \in Pollers |-> Default]
  /\ handed = [k \in Pollers |-> {}]
  /\ process = "running"

--------------------------------------------------------------------------------
(* The producers.                                                          *)

Send(p) == Enqueue(p) /\ UNCHANGED <<objectVars, threadVars, process>>

Drop(p) == Release(p) /\ UNCHANGED <<objectVars, threadVars, process>>

--------------------------------------------------------------------------------
(* The application: construction, copy, move and destruction of pollers.   *)
(* A constructor that throws (expired queue, empty handler) leaves no      *)
(* object behind and is no step.  An object that is being moved from is    *)
(* not copied, moved or destroyed meanwhile.                               *)

Start(k) ==
  /\ life[k] = "none"
  /\ ~Expired
  /\ life' = [life EXCEPT ![k] = "live"]
  /\ polling' = [polling EXCEPT ![k] = TRUE]
  /\ reader' = [reader EXCEPT ![k] = TRUE]
  /\ handler' = [handler EXCEPT ![k] = TRUE]
  /\ thread' = [thread EXCEPT ![k] = k]
  /\ pc' = [pc EXCEPT ![k] = "while"]
  /\ UNCHANGED <<queueVars, origin, error, msg, handed, process>>

Free(k) == life[k] = "live" /\ k \notin {origin[j] : j \in Pollers}

Construct(k) == Start(k)

Copy(k, j) ==
  /\ Free(k) /\ reader[k] /\ handler[k]
  /\ Start(j)

(* The move constructor takes member by member, in the order in which they *)
(* are declared, while the thread of k goes on.  Of the last two, mThread  *)
(* is nothing to that thread.                                              *)
Move(k, j) ==
  /\ Free(k) /\ life[j] = "none"
  /\ life' = [life EXCEPT ![j] = "polling"]
  /\ origin' = [origin EXCEPT ![j] = k]
  /\ reader' = [reader EXCEPT ![j] = reader[k], ![k] = FALSE]
  /\ UNCHANGED <<queueVars, polling, error, handler, thread, threadVars, process>>

MovePolling(j) ==
  /\ life[j] = "polling"
  /\ life' = [life EXCEPT ![j] = "handler"]
  /\ polling' = [polling EXCEPT ![j] = polling[origin[j]]]
  /\ UNCHANGED <<queueVars, origin, error, reader, handler, thread, threadVars, process>>

MoveHandler(j) ==
  /\ life[j] = "handler"
  /\ life' = [life EXCEPT ![j] = "rest"]
  /\ handler' = [handler EXCEPT ![j] = handler[origin[j]], ![origin[j]] = FALSE]
  /\ UNCHANGED <<queueVars, origin, polling, error, reader, thread, threadVars, process>>

MoveRest(j) ==
  LET k == origin[j] IN
    /\ life[j] = "rest"
    /\ life' = [life EXCEPT ![j] = "live"]
    /\ origin' = [origin EXCEPT ![j] = NoThread]
    /\ error' = [error EXCEPT ![j] = error[k], ![k] = FALSE]
    /\ thread' = [thread EXCEPT ![j] = thread[k], ![k] = NoThread]
    /\ UNCHANGED <<queueVars, polling, reader, handler, threadVars, process>>

(* Planted fault: the destructor joins without lowering mPolling.          *)
DestroyForgetsToLower(k) ==
  /\ Free(k)
  /\ life' = [life EXCEPT ![k] = "dying"]
  /\ UNCHANGED <<queueVars, origin, polling, error, reader, handler, thread,
                 threadVars, process>>

(* ~QueuePoller: lower mPolling, then join.                                *)
DestroyLower(k) ==
  /\ Free(k)
  /\ life' = [life EXCEPT ![k] = "dying"]
  /\ polling' = [polling EXCEPT ![k] = FALSE]
  /\ UNCHANGED <<queueVars, origin, error, reader, handler, thread, threadVars,
                 process>>

(* Planted fault: the destructor detaches the thread.                      *)
DestroyDetach(k) ==
  /\ life[k] = "dying"
  /\ thread[k] # NoThread
  /\ life' = [life EXCEPT ![k] = "gone"]
  /\ thread' = [thread EXCEPT ![k] = NoThread]
  /\ UNCHANGED <<queueVars, origin, polling, error, reader, handler, threadVars,
                 process>>

DestroyJoin(k) ==
  /\ life[k] = "dying"
  /\ thread[k] # NoThread
  /\ pc[thread[k]] = "exited"
  /\ life' = [life EXCEPT ![k] = "gone"]
  /\ thread' = [thread EXCEPT ![k] = NoThread]
  /\ UNCHANGED <<queueVars, origin, polling, error, reader, handler, threadVars,
                 process>>

(* join() of a thread that was moved away throws std::system_error out of  *)
(* a destructor: std::terminate.                                           *)
DestroyTerminates(k) ==
  /\ life[k] = "dying"
  /\ thread[k] = NoThread
  /\ process' = "terminate"
  /\ UNCHANGED <<queueVars, objectVars, threadVars>>

--------------------------------------------------------------------------------
(* The thread of poller k.                                                 *)

Goto(k, from, to) ==
  /\ pc[k] = from
  /\ pc' = [pc EXCEPT ![k] = to]

ReaderExpired(k) == ~reader[k] \/ Expired

(* while (polling())                                                       *)
While(k) ==
  /\ Goto(k, "while", IF polling[k] THEN "empty?" ELSE "exited")
  /\ UNCHANGED <<queueVars, objectVars, msg, handed, process>>

(* expired() at the head of QueueReader::empty and ::dequeue               *)
ReaderCheck(k) ==
  /\ \/ Goto(k, "empty?", IF ReaderExpired(k) THEN "catch" ELSE "empty.lock")
     \/ Goto(k, "dequeue?", IF ReaderExpired(k) THEN "catch" ELSE "dequeue.lock")
  /\ UNCHANGED <<queueVars, objectVars, msg, handed, process>>

(* pQueue.lock() returned null and the call goes through it                *)
ReaderNullCall(k) ==
  /\ pc[k] \in {"empty.lock", "dequeue.lock"}
  /\ ReaderExpired(k)
  /\ process' = "segfault"
  /\ UNCHANGED <<queueVars, objectVars, threadVars>>

Rivals(k) == {j \in Pollers \ {k} : pc[j] = TryDequeue}

(* Planted faults: the result of empty() is not looked at, or is inverted. *)
ReaderEmptyIgnored(k) ==
  /\ ~ReaderExpired(k)
  /\ Goto(k, "empty.lock", "dequeue?")
  /\ UNCHANGED <<queueVars, objectVars, msg, handed, process>>

ReaderEmptyInverted(k) ==
  /\ ~ReaderExpired(k)
  /\ Goto(k, "empty.lock", IF QueueEmpty THEN "dequeue?" ELSE "while")
  /\ UNCHANGED <<queueVars, objectVars, msg, handed, process>>

(* pQueue.lock()->empty(): yield and loop, or go on to dequeue             *)
ReaderEmpty(k) ==
  /\ ~ReaderExpired(k)
  /\ \/ SeemsEmpty(Rivals(k)) /\ Goto(k, "empty.lock", "while")
     \/ ~QueueEmpty /\ Goto(k, "empty.lock", "dequeue?")
  /\ UNCHANGED <<queueVars, objectVars, msg, handed, process>>

(* pQueue.lock()->dequeue() is entered ...                                 *)
DequeueEnter(k) ==
  /\ ~ReaderExpired(k)
  /\ Lock(k)
  /\ Goto(k, "dequeue.lock", TryDequeue)
  /\ UNCHANGED <<objectVars, msg, handed, process>>

(* Planted fault: a poller that is being stopped forgets what it dequeued. *)
DequeueHitDiscards(k) ==
  /\ Goto(k, TryDequeue, IF polling[k] THEN "handle" ELSE "while")
  /\ \E p \in Producers :
       /\ TryDequeueHit(k, p)
       /\ msg' = [msg EXCEPT ![k] = <<p, head[p]>>]
  /\ UNCHANGED <<objectVars, handed, process>>

(* ... and returns an element ...                                          *)
DequeueHit(k) ==
  /\ Goto(k, TryDequeue, "handle")
  /\ \E p \in Producers :
       /\ TryDequeueHit(k, p)
       /\ msg' = [msg EXCEPT ![k] = <<p, head[p]>>]
  /\ UNCHANGED <<objectVars, handed, process>>

(* ... or T() if try_dequeue found none                                    *)
DequeueMiss(k) ==
  /\ Goto(k, TryDequeue, "handle")
  /\ TryDequeueMiss(k, Rivals(k))
  /\ msg' = [msg EXCEPT ![k] = Default]
  /\ UNCHANGED <<objectVars, handed, process>>

(* mHandler(message) is entered; it may return or throw                    *)
HandlerCall(k) ==
  /\ handler[k]
  /\ Goto(k, "handle", "handling")
  /\ handed' = [handed EXCEPT ![k] = @ \cup {msg[k]}]
  /\ UNCHANGED <<queueVars, objectVars, msg, process>>

HandlerReturns(k) ==
  /\ Goto(k, "handling", "while")
  /\ UNCHANGED <<queueVars, objectVars, msg, handed, process>>

HandlerThrows(k) ==
  /\ Goto(k, "handling", "catch")
  /\ UNCHANGED <<queueVars, objectVars, msg, handed, process>>

(* mHandler was moved from: std::bad_function_call, the message is lost    *)
HandlerMissing(k) ==
  /\ ~handler[k]
  /\ Goto(k, "handle", "catch")
  /\ UNCHANGED <<queueVars, objectVars, msg, handed, process>>

(* catch (...): record the exception under the mutex, then stop            *)
RecordException(k) ==
  /\ Goto(k, "catch", "lower")
  /\ error' = [error EXCEPT ![k] = TRUE]
  /\ UNCHANGED <<queueVars, life, origin, polling, reader, handler, thread, msg,
                 handed, process>>

LowerPolling(k) ==
  /\ Goto(k, "lower", "while")
  /\ polling' = [polling EXCEPT ![k] = FALSE]
  /\ UNCHANGED <<queueVars, life, origin, error, reader, handler, thread, msg,
                 handed, process>>

Poll(k) ==
  \/ While(k)
  \/ ReaderCheck(k)
  \/ ReaderNullCall(k)
  \/ ReaderEmpty(k)
  \/ DequeueEnter(k)
  \/ DequeueHit(k)
  \/ DequeueMiss(k)
  \/ HandlerCall(k)
  \/ HandlerReturns(k)
  \/ HandlerThrows(k)
  \/ HandlerMissing(k)
  \/ RecordException(k)
  \/ LowerPolling(k)

--------------------------------------------------------------------------------
Moved(j) ==
  \/ MovePolling(j)
  \/ MoveHandler(j)
  \/ MoveRest(j)

Destroy(k) ==
  \/ DestroyLower(k)
  \/ DestroyJoin(k)
  \/ DestroyTerminates(k)

Next ==
  /\ process = "running"
  /\ \/ \E p \in Producers : Send(p) \/ Drop(p)
     \/ \E k \in Pollers : Construct(k) \/ Moved(k) \/ Destroy(k) \/ Poll(k)
     \/ \E k, j \in Pollers : Copy(k, j) \/ Move(k, j)

Spec == Init /\ [][Next]_vars

(***************************************************************************)
(* Fairness.  A started thread is scheduled, a handler that was called     *)
(* returns or throws, and the thread inside ~QueuePoller finishes its join *)
(* once the polling thread has exited.  Nothing makes the application send *)
(* or drop anything, or create or destroy a poller.                        *)
(***************************************************************************)
Running(A) == process = "running" /\ A

FairSpec ==
  /\ Spec
  /\ \A k \in Pollers : WF_vars(Running(Poll(k)))
  /\ \A k \in Pollers : WF_vars(Running(DestroyJoin(k) \/ DestroyTerminates(k)))

--------------------------------------------------------------------------------
(* Safety.                                                                 *)

(* Message m has been passed to the handler by the thread of k, or that    *)
(* thread is about to pass it.                                             *)
Holds(k, m) ==
  \/ m \in handed[k]
  \/ pc[k] = "handle" /\ msg[k] = m

(***************************************************************************)
(* A message that was enqueued is passed to a handler at most once, by one *)
(* polling thread only, however many copies of the poller share the queue. *)
(***************************************************************************)
HandedOnce ==
  /\ \A k, j \in Pollers : \A m \in Messages :
       Holds(k, m) /\ Holds(j, m) => k = j
  /\ \A k \in Pollers :
       pc[k] = "handle" /\ msg[k] # Default => msg[k] \notin handed[k]

(***************************************************************************)
(* Every message that left the queue reached a handler or is in the hand   *)
(* of a polling thread, through handler exceptions, copies and destructors *)
(* alike.  Only a poller that was moved away under its running thread      *)
(* drops messages, and each such poller drops one at the most: calling the *)
(* handler it no longer has ends its thread.                               *)
(***************************************************************************)
Dropped ==
  {m \in Messages : m[2] < head[m[1]] /\ ~\E k \in Pollers : Holds(k, m)}

NothingDropped ==
  Cardinality(Dropped)
    <= Cardinality({k \in Pollers : pc[k] # "none" /\ ~handler[k]})

(***************************************************************************)
(* poll() tests empty() and calls dequeue() in separate steps, and dequeue *)
(* hands out T() when it finds nothing.  A thread that is the only one     *)
(* ever to poll the queue never passes that phantom message to a handler.  *)
(***************************************************************************)
PhantomNeedsRival ==
  \A k \in Pollers :
    Default \in handed[k] => \E j \in Pollers \ {k} : pc[j] # "none"

(***************************************************************************)
(* An application that sees polling() return false on a poller it is not   *)
(* destroying finds the reason in error(): the exception is recorded       *)
(* before mPolling is lowered.                                             *)
(***************************************************************************)
StopExplained ==
  \A k \in Pollers :
    life[k] = "live" /\ thread[k] = k /\ ~polling[k] => error[k]

(***************************************************************************)
(* No thread touches a poller whose destructor has returned: poll() runs   *)
(* on a raw this pointer, and only the join in ~QueuePoller protects it.   *)
(***************************************************************************)
NoThreadOnGonePoller ==
  \A k \in Pollers : life[k] = "gone" => pc[k] \in {"none", "exited"}

(***************************************************************************)
(* The handler of one poller sees the messages of each producer in the     *)
(* order in which that producer enqueued them.                             *)
(***************************************************************************)
OrderPerProducer ==
  [][\A k \in Pollers : \A new \in handed'[k] \ handed[k] : \A old \in handed[k] :
       new # Default /\ old # Default /\ new[1] = old[1] => old[2] < new[2]]_vars

--------------------------------------------------------------------------------
(* Liveness, under FairSpec.                                               *)

Serving(k) == pc[k] \notin {"none", "exited"}

Contended ==
  \E k, j \in Pollers : k # j /\ pc[k] = TryDequeue /\ pc[j] = TryDequeue

(***************************************************************************)
(* As long as some thread goes on polling, a message that was enqueued is  *)
(* eventually passed to a handler, unless threads keep meeting inside      *)
(* try_dequeue for ever: then the library does not promise that they do    *)
(* not keep hiding the message from each other (see ImplicitStream).       *)
(***************************************************************************)
Drains ==
  <>[]~Contended => \A p \in Producers : \A i \in 0 .. MaxSent - 1 :
    (i < tail[p] /\ \E k \in Pollers : Serving(k))
      ~> \/ \E k \in Pollers : <<p, i>> \in handed[k]
         \/ \E k \in Pollers : pc[k] # "none" /\ ~handler[k]
         \/ \A k \in Pollers : ~Serving(k)
         \/ process # "running"

(***************************************************************************)
(* ~QueuePoller does not hang: it returns, or the process ends.            *)
(***************************************************************************)
DestroyEnds ==
  \A k \in Pollers :
    life[k] = "dying" ~> (life[k] = "gone" \/ process # "running")

--------------------------------------------------------------------------------
(* What a comment in the tests says of the code: dropping the queue under  *)
(* a running poller makes "polling thread to throw std::runtime_error",    *)
(* so it never brings the process down.                                    *)
ExpiryIsReported == process # "segfault"

--------------------------------------------------------------------------------
(* What the poller implements.                                             *)

Delivered == {m \in Messages : \E k \in Pollers : m \in handed[k]}

Stream == INSTANCE MessageStream
            WITH sent <- tail, taken <- head, delivered <- Delivered

StreamSpec == Stream!Spec

================================================================================
