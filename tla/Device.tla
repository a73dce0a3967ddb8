--------------------------------- MODULE Device --------------------------------
(***************************************************************************)
(* GenericDevice (include/device/device.h): a network of devices.  Each    *)
(* device owns an output queue and an event queue; its input connection is *)
(* a QueueReader of the output queue of another device.  read() takes an   *)
(* input from there and read(input) processes it: the input domain, the    *)
(* resolution function, the output domain, the state function and the      *)
(* event functions are the application's code and may throw, and nothing   *)
(* that was published before is taken back.                                *)
(*                                                                         *)
(* A device is used by one thread at a time (it locks nothing), different  *)
(* devices by different threads.  Inputs are the messages <<App, n>>, the  *)
(* n-th that the application passes to read(input), and <<d, n>>, the n-th *)
(* output of device d.  The copy constructor and combine() are left out:   *)
(* neither compiles when used.                                             *)
(*                                                                         *)
(* Names that StateMachine has too begin with Net here, or are others, so  *)
(* that a module can extend both.                                          *)
(***************************************************************************)
EXTENDS Integers, Sequences

CONSTANTS
  Devices,
  App,         \* the application, as a source of inputs
  Links,       \* the connections the application makes: <<device, its source>>
  Fed,         \* the devices it passes inputs to itself, by read(input)
  Moves,       \* the devices it moves or swaps: <<device, the other>>
  Default,     \* the value-initialised InputT()
  None,        \* no device; the state of a device that has processed nothing
  EventCount,  \* [Devices -> Nat]  length of the event list of a device
  MaxInputs,   \* bound: inputs from the application
  MaxOutputs   \* bound: outputs of one device

ASSUME BoundsAreNat == MaxInputs \in Nat /\ MaxOutputs \in Nat
ASSUME ListsHaveLengths == EventCount \in [Devices -> Nat]
ASSUME PairsAreOfDevices == Links \cup Moves \subseteq Devices \X Devices
ASSUME FedAreDevices == Fed \subseteq Devices
ASSUME NamesAreDistinct == App # None /\ {App, None} \cap Devices = {}

Messages == ({App} \X (1 .. MaxInputs)) \cup (Devices \X (1 .. MaxOutputs))

ASSUME DefaultIsNoMessage == {Default, None} \cap Messages = {} /\ Default # None

Inputs == Messages \cup {Default}

VARIABLES
  life,        \* "none", "live", "gone"
  front,       \* the device has domains and a resolution function
  back,        \* the device has a state function and its event list
  source,      \* the device whose outputs mInputConnection reads, or None
  pOutputQueue,  \* [Devices -> Seq(Inputs)]  outputs, by the input they resolve
  head,        \* [Devices -> Nat]  how many of them were dequeued
  pEventQueue, \* [Devices -> SUBSET (Inputs \X Nat)]  events ever published:
               \*   the input they are about, and which event of the list
  mCurrentState,  \* the input whose processing led to this state, or None
  place, input, event,  \* read(): where it is, its input, events published
  given,       \* inputs the application has passed so far
  cutShort,    \* history: inputs whose output is out and for which read() was
               \*   left by an exception before the last event, or lost an event
  outcome      \* of the process: "running", or "segfault"

functionVars == <<front, back>>
queueVars == <<pOutputQueue, head, pEventQueue>>
readVars == <<place, input, event>>
netVars == <<life, functionVars, source, queueVars, mCurrentState, readVars,
             given, cutShort, outcome>>

NetTypeOK ==
  /\ life \in [Devices -> {"none", "live", "gone"}]
  /\ front \in [Devices -> BOOLEAN]
  /\ back \in [Devices -> BOOLEAN]
  /\ source \in [Devices -> Devices \cup {None}]
  /\ \A d \in Devices :
       /\ pOutputQueue[d] \in Seq(Inputs) /\ Len(pOutputQueue[d]) <= MaxOutputs
       /\ head[d] \in 0 .. Len(pOutputQueue[d])
       /\ pEventQueue[d] \subseteq Inputs \X (1 .. EventCount[d])
       /\ event[d] <= EventCount[d]
  /\ mCurrentState \in [Devices -> Inputs \cup {None}]
  /\ place \in [Devices -> {"idle", "empty?", "empty.lock", "dequeue?",
                            "dequeue.lock", "try_dequeue", "input", "output",
                            "state", "events"}]
  /\ input \in [Devices -> Inputs] /\ event \in [Devices -> Nat]
  /\ given \in 0 .. MaxInputs
  /\ cutShort \in [Devices -> SUBSET Inputs]
  /\ outcome \in {"running", "segfault"}

NetInit ==
  /\ life = [d \in Devices |-> "none"]
  /\ front = [d \in Devices |-> FALSE] /\ back = [d \in Devices |-> FALSE]
  /\ source = [d \in Devices |-> None]
  /\ pOutputQueue = [d \in Devices |-> <<>>] /\ head = [d \in Devices |-> 0]
  /\ pEventQueue = [d \in Devices |-> {}]
  /\ mCurrentState = [d \in Devices |-> None]
  /\ place = [d \in Devices |-> "idle"]
  /\ input = [d \in Devices |-> Default] /\ event = [d \in Devices |-> 0]
  /\ given = 0
  /\ cutShort = [d \in Devices |-> {}]
  /\ outcome = "running"

At(d, where) == life[d] = "live" /\ place[d] = where
Proceed(d, where) == place' = [place EXCEPT ![d] = where]

--------------------------------------------------------------------------------
(* The application, on devices that no thread is reading.                  *)

Construct(d) ==
  /\ life[d] = "none"
  /\ life' = [life EXCEPT ![d] = "live"]
  /\ front' = [front EXCEPT ![d] = TRUE]
  /\ back' = [back EXCEPT ![d] = TRUE]
  /\ UNCHANGED <<source, queueVars, mCurrentState, readVars, given, cutShort, outcome>>

(* The move constructor: swap() with a default-constructed device.  swap() *)
(* exchanges the domains and resolution functions; it exchanges the state  *)
(* function and the event list of the device with themselves, and leaves   *)
(* the queues, the connection and the state alone.                         *)
MoveConstruct(d, other) ==
  /\ <<d, other>> \in Moves /\ life[d] = "none" /\ At(other, "idle")
  /\ life' = [life EXCEPT ![d] = "live"]
  /\ front' = [front EXCEPT ![d] = front[other], ![other] = FALSE]
  /\ UNCHANGED <<back, source, queueVars, mCurrentState, readVars, given, cutShort, outcome>>

(* d = std::move(other): the parameter is move-constructed, then swapped.  *)
MoveAssign(d, other) ==
  /\ <<d, other>> \in Moves /\ At(d, "idle") /\ At(other, "idle")
  /\ front' = [front EXCEPT ![d] = front[other], ![other] = FALSE]
  /\ UNCHANGED <<life, back, source, queueVars, mCurrentState, readVars, given, cutShort, outcome>>

Swap(d, other) ==
  /\ <<d, other>> \in Moves /\ At(d, "idle") /\ At(other, "idle")
  /\ front' = [front EXCEPT ![d] = front[other], ![other] = front[d]]
  /\ UNCHANGED <<life, back, source, queueVars, mCurrentState, readVars, given, cutShort, outcome>>

Connect(d, other) ==
  /\ At(d, "idle") /\ life[other] = "live" /\ <<d, other>> \in Links
  /\ source' = [source EXCEPT ![d] = other]
  /\ UNCHANGED <<life, functionVars, queueVars, mCurrentState, readVars, given, cutShort, outcome>>

Disconnect(d) ==
  /\ At(d, "idle") /\ source[d] # None
  /\ source' = [source EXCEPT ![d] = None]
  /\ UNCHANGED <<life, functionVars, queueVars, mCurrentState, readVars, given, cutShort, outcome>>

Destroy(d) ==
  /\ At(d, "idle")
  /\ life' = [life EXCEPT ![d] = "gone"]
  /\ UNCHANGED <<functionVars, source, queueVars, mCurrentState, readVars, given, cutShort, outcome>>

--------------------------------------------------------------------------------
(* read(): take an input from the connection.  QueueReader::expired,       *)
(* ::empty and ::dequeue each look at the weak_ptr anew.                   *)

(* A reader inside try_dequeue keeps the queue alive without its device.   *)
Expired(d) ==
  \/ source[d] = None
  \/ /\ life[source[d]] = "gone"
     /\ ~\E e \in Devices : source[e] = source[d] /\ place[e] = "try_dequeue"

Rivals(d) == {e \in Devices \ {d} : place[e] = "try_dequeue" /\ source[e] = source[d]}

Pending(d) == head[source[d]] < Len(pOutputQueue[source[d]])

(* expired(), and again at the head of empty() and of dequeue(): the calls *)
(* that throw leave nothing behind.                                        *)
ReadCheck(d) ==
  /\ \/ At(d, "idle") /\ ~Expired(d) /\ Proceed(d, "empty?")
     \/ At(d, "empty?") /\ Proceed(d, IF Expired(d) THEN "idle" ELSE "empty.lock")
     \/ At(d, "dequeue?") /\ Proceed(d, IF Expired(d) THEN "idle" ELSE "dequeue.lock")
  /\ UNCHANGED <<life, functionVars, source, queueVars, mCurrentState, input, event,
                 given, cutShort, outcome>>

(* lock() returned null.                                                   *)
ReadNullCall(d) ==
  /\ At(d, "empty.lock") \/ At(d, "dequeue.lock")
  /\ Expired(d)
  /\ outcome' = "segfault"
  /\ UNCHANGED <<life, functionVars, source, queueVars, mCurrentState, readVars,
                 given, cutShort>>

(* empty(): read() returns false, or goes on to dequeue.  size_approx() is *)
(* approximate while a rival is taking an element.                         *)
ReadEmpty(d) ==
  /\ ~Expired(d)
  /\ At(d, "empty.lock")
  /\ \/ (~Pending(d) \/ Rivals(d) # {}) /\ Proceed(d, "idle")
     \/ Pending(d) /\ Proceed(d, "dequeue?")
  /\ UNCHANGED <<life, functionVars, source, queueVars, mCurrentState, input, event,
                 given, cutShort, outcome>>

ReadDequeue(d) ==
  /\ ~Expired(d)
  /\ At(d, "dequeue.lock") /\ Proceed(d, "try_dequeue")
  /\ UNCHANGED <<life, functionVars, source, queueVars, mCurrentState, input, event,
                 given, cutShort, outcome>>

(* Planted fault: the element is copied out and left in the queue.         *)
ReadHitPeeks(d) ==
  /\ At(d, "try_dequeue") /\ Pending(d)
  /\ Proceed(d, "input")
  /\ input' = [input EXCEPT ![d] = <<source[d], head[source[d]] + 1>>]
  /\ UNCHANGED <<life, functionVars, source, queueVars, mCurrentState, event,
                 given, cutShort, outcome>>

(* Planted fault: the queue is not asked whether it has an element.        *)
ReadHitUnchecked(d) ==
  LET u == source[d] IN
    /\ At(d, "try_dequeue")
    /\ Proceed(d, "input")
    /\ head' = [head EXCEPT ![u] = @ + 1]
    /\ input' = [input EXCEPT ![d] = <<u, head[u] + 1>>]
    /\ UNCHANGED <<life, functionVars, source, pOutputQueue, pEventQueue,
                   mCurrentState, event, given, cutShort, outcome>>

ReadHit(d) ==
  LET u == source[d] IN
    /\ At(d, "try_dequeue") /\ Pending(d)
    /\ Proceed(d, "input")
    /\ head' = [head EXCEPT ![u] = @ + 1]
    /\ input' = [input EXCEPT ![d] = <<u, head[u] + 1>>]
    /\ UNCHANGED <<life, functionVars, source, pOutputQueue, pEventQueue,
                   mCurrentState, event, given, cutShort, outcome>>

(* Nothing there, or hidden by a rival: dequeue() hands out InputT().      *)
ReadMiss(d) ==
  /\ At(d, "try_dequeue")
  /\ ~Pending(d) \/ Rivals(d) # {}
  /\ Proceed(d, "input")
  /\ input' = [input EXCEPT ![d] = Default]
  /\ UNCHANGED <<life, functionVars, source, queueVars, mCurrentState, event,
                 given, cutShort, outcome>>

Read(d) ==
  \/ ReadCheck(d)
  \/ ReadNullCall(d)
  \/ ReadEmpty(d)
  \/ ReadDequeue(d)
  \/ ReadHit(d)
  \/ ReadMiss(d)

--------------------------------------------------------------------------------
(* read(input).                                                            *)

Leave(d) ==
  /\ Proceed(d, "idle")
  /\ input' = [input EXCEPT ![d] = Default]
  /\ event' = [event EXCEPT ![d] = 0]

ReadInput(d) ==
  /\ At(d, "idle") /\ d \in Fed
  /\ given < MaxInputs
  /\ given' = given + 1
  /\ Proceed(d, "input")
  /\ input' = [input EXCEPT ![d] = <<App, given'>>]
  /\ UNCHANGED <<life, functionVars, source, queueVars, mCurrentState, event, cutShort, outcome>>

(* mInputDomain(input) is false: read() returns false.                     *)
Refuse(d) ==
  /\ At(d, "input") /\ front[d]
  /\ Leave(d)
  /\ UNCHANGED <<life, functionVars, source, queueVars, mCurrentState, given,
                 cutShort, outcome>>

Published(d) == {pOutputQueue[d][i] : i \in DOMAIN pOutputQueue[d]}

(* Every event of the list about input v was published.                    *)
Announced(d, v) == {v} \X (1 .. EventCount[d]) \subseteq pEventQueue[d]

(* What d is at work on, if its output is out and its events are not.      *)
Unannounced(d) == {v \in {input[d]} \cap Published(d) : ~Announced(d, v)}

(* One of the functions throws or is empty, or a copy throws, the one into *)
(* mCurrentState at the end included: read() is left at once, and what     *)
(* follows is not done.                                                    *)
Fail(d) ==
  /\ life[d] = "live" /\ place[d] \in {"input", "output", "state", "events"}
  /\ Leave(d)
  /\ cutShort' = [cutShort EXCEPT ![d] = @ \cup Unannounced(d)]
  /\ UNCHANGED <<life, functionVars, source, queueVars, mCurrentState, given, outcome>>

Resolve(d) ==
  /\ At(d, "input") /\ front[d]
  /\ Proceed(d, "output")
  /\ UNCHANGED <<life, functionVars, source, queueVars, mCurrentState, input, event,
                 given, cutShort, outcome>>

(* The output is in the output domain, or it is not and is kept back, or   *)
(* the queue has no memory for it.                                         *)
Output(d) ==
  /\ At(d, "output")
  /\ \/ /\ Len(pOutputQueue[d]) < MaxOutputs
        /\ pOutputQueue' = [pOutputQueue EXCEPT ![d] = Append(@, input[d])]
     \/ UNCHANGED pOutputQueue
  /\ Proceed(d, "state")
  /\ UNCHANGED <<life, functionVars, source, head, pEventQueue, mCurrentState, input,
                 event, given, cutShort, outcome>>

StateFunction(d) ==
  /\ At(d, "state") /\ back[d]
  /\ Proceed(d, "events")
  /\ UNCHANGED <<life, functionVars, source, queueVars, mCurrentState, input, event,
                 given, cutShort, outcome>>

EventFunction(d) ==
  /\ At(d, "events") /\ event[d] < EventCount[d]
  /\ event' = [event EXCEPT ![d] = @ + 1]
  /\ pEventQueue' = [pEventQueue EXCEPT ![d] = @ \cup {<<input[d], event'[d]>>}]
  /\ UNCHANGED <<life, functionVars, source, pOutputQueue, head, mCurrentState, place,
                 input, given, cutShort, outcome>>

(* The event queue has no memory and says so, but nobody looks.            *)
EventRefused(d) ==
  /\ At(d, "events") /\ event[d] < EventCount[d]
  /\ event' = [event EXCEPT ![d] = @ + 1]
  /\ cutShort' = [cutShort EXCEPT ![d] = @ \cup Unannounced(d)]
  /\ UNCHANGED <<life, functionVars, source, queueVars, mCurrentState, place, input,
                 given, outcome>>

(* Planted fault: the loop over the event list stops one short.            *)
CommitEarly(d) ==
  /\ At(d, "events") /\ event[d] + 1 >= EventCount[d]
  /\ Leave(d)
  /\ mCurrentState' = [mCurrentState EXCEPT ![d] = input[d]]
  /\ UNCHANGED <<life, functionVars, source, queueVars, given, cutShort, outcome>>

Commit(d) ==
  /\ At(d, "events") /\ event[d] = EventCount[d]
  /\ Leave(d)
  /\ mCurrentState' = [mCurrentState EXCEPT ![d] = input[d]]
  /\ UNCHANGED <<life, functionVars, source, queueVars, given, cutShort, outcome>>

Process(d) ==
  \/ ReadInput(d)
  \/ Refuse(d)
  \/ Fail(d)
  \/ Resolve(d)
  \/ Output(d)
  \/ StateFunction(d)
  \/ EventFunction(d)
  \/ EventRefused(d)
  \/ Commit(d)

--------------------------------------------------------------------------------
NetNext ==
  /\ outcome = "running"
  /\ \/ \E d \in Devices : Construct(d) \/ Disconnect(d) \/ Destroy(d)
     \/ \E d, other \in Devices :
          \/ MoveConstruct(d, other)
          \/ MoveAssign(d, other)
          \/ Swap(d, other)
          \/ Connect(d, other)
     \/ \E d \in Devices : Read(d) \/ Process(d)

NetSpec == NetInit /\ [][NetNext]_netVars

--------------------------------------------------------------------------------
(* Properties.                                                             *)

InProgress(d) == IF place[d] \in {"input", "output", "state", "events"} THEN {input[d]} ELSE {}

(* The inputs device d has left a trace of.                                *)
Handled(d) ==
  Published(d) \cup {e[1] : e \in pEventQueue[d]} \cup InProgress(d)
    \cup ({mCurrentState[d]} \ {None})

(* An output and the events about the same input belong together: an       *)
(* output whose events are not all published is either being worked on, or *)
(* an exception cut the work short (and nothing takes the output back), or *)
(* the event queue refused one.                                            *)
OutputThenEvents ==
  \A d \in Devices : \A v \in Published(d) :
    Announced(d, v) \/ v \in InProgress(d) \cup cutShort[d]

(* An output reaches at most one of the devices that read the same source: *)
(* connections share the queue, they do not each get a copy.               *)
ReachesOneReader ==
  \A d, e \in Devices : d # e =>
    ~\E v \in Handled(d) \cap Handled(e) : v \in Messages

================================================================================
