------------------------------ MODULE StateMachine -----------------------------
(***************************************************************************)
(* StateMachine<T> (include/device/state_machine.h): the threads of one    *)
(* machine.  Clients call start() and stop() and at last destroy the       *)
(* machine; start() spawns a pool of workers and a state handler and then  *)
(* raises mIsActive; the handler walks the transition map and enqueues the *)
(* event of each state it enters; the workers run the events.  Predicates  *)
(* and events are the application's code: they may throw, and they may     *)
(* call stop() on the thread they run on.                                  *)
(*                                                                         *)
(* The maps are filled before the first start() and not changed after.     *)
(***************************************************************************)
EXTENDS Naturals, Sequences, FiniteSets

CONSTANTS
  Clients,      \* application threads
  Workers,      \* pool threads of all starts together (bounds the starts)
  Handler,      \* the state handler thread
  PoolSize,     \* std::thread::hardware_concurrency()
  States,       \* names in mStateMap
  Unknown,      \* names that are not
  Transitions,  \* [States -> Seq(States)]  mTransitionMap, in key order
  MaxPending    \* bound: events waiting while the machine is active

ASSUME SizesAreNat == PoolSize \in Nat /\ MaxPending \in Nat
ASSUME UnknownIsNoState == Unknown \cap States = {}
ASSUME TransitionsOK == Transitions \in [States -> Seq(States)]
ASSUME ThreadsAreDistinct ==
  /\ Clients \cap Workers = {}
  /\ Handler \notin Clients \cup Workers

Null == "__null__"

ASSUME NullIsNoName == Null \notin States \cup Unknown

VARIABLES
  mIsActive,
  mInitialStateName,
  pStateHandlerThread,  \* "null", "joinable", or "joined"
  mEventThreadPool,     \* Seq(Workers), never cleared
  unjoined,             \* the workers in the pool that are still joinable
  mEventQueue,          \* how many events are pending
  presentName,          \* the handler's local variable
  scan,                 \* how many transitions of it the handler has tried
  count,                \* the local variable of start(): workers spawned
  pc,                   \* where each thread is
  dying,                \* the destructor was called
  process,              \* "running", or how the process or the machine ended
  stopped,              \* the last start or stop was a stop() that returned true
  excuses               \* history of what went wrong, of Mishaps

machineVars == <<mIsActive, mInitialStateName, pStateHandlerThread,
                 mEventThreadPool, unjoined, mEventQueue>>
localVars == <<presentName, scan, count>>
historyVars == <<stopped, excuses>>
vars == <<machineVars, localVars, pc, dying, process, historyVars>>

Threads == Clients \cup Workers \cup {Handler}
Names == States \cup Unknown

StartPoints == {"active?", "pool", "handler", "activate"}
StopPoints == {"stop.check", "stop.joinable", "stop.join", "stop.clear", "stop.pool"}
RunPoints == {"init", "while", "enqueue", "predicate", "dequeue", "event"}
Idle == {"none", "exited"}  \* "none": not started; a client: in no call

(* A thread could not be created or kept, copying an event threw, or a     *)
(* predicate or an event called stop().                                    *)
Mishaps == {"spawnFailed", "enqueueThrew", "callbackStopped"}

(* "undefined": stop() met threads or a pool changed under it; "noReturn": *)
(* setInitialState() ran off its end; "raced": a name was written while it *)
(* was read.                                                               *)
Ends == {"assert", "undefined", "noReturn", "raced", "terminate", "destroyed"}

Pool == {mEventThreadPool[i] : i \in DOMAIN mEventThreadPool}

(* The names that mTransitionMap leads to from n, in the order in which    *)
(* std::map yields them.                                                   *)
Succ(n) == IF n \in States THEN Transitions[n] ELSE <<>>

TypeOK ==
  /\ mIsActive \in BOOLEAN
  /\ mInitialStateName \in Names \cup {Null}
  /\ pStateHandlerThread \in {"null", "joinable", "joined"}
  /\ mEventThreadPool \in Seq(Workers)
  /\ Len(mEventThreadPool) = Cardinality(Pool)
  /\ unjoined \subseteq Pool
  /\ mEventQueue \in Nat
  /\ presentName \in Names \cup {Null}
  /\ scan \in 0 .. Len(Succ(presentName))
  /\ count \in [Clients -> 0 .. PoolSize]
  /\ pc \in [Threads -> StartPoints \cup StopPoints \cup RunPoints \cup Idle]
  /\ dying \in BOOLEAN
  /\ process \in {"running"} \cup Ends
  /\ stopped \in BOOLEAN
  /\ excuses \subseteq Mishaps

Init ==
  /\ mIsActive = FALSE
  /\ mInitialStateName = Null
  /\ pStateHandlerThread = "null"
  /\ mEventThreadPool = <<>>
  /\ unjoined = {}
  /\ mEventQueue = 0
  /\ presentName = Null
  /\ scan = 0
  /\ count = [c \in Clients |-> 0]
  /\ pc = [t \in Threads |-> "none"]
  /\ dying = FALSE
  /\ process = "running"
  /\ stopped = FALSE
  /\ excuses = {}

Goto(t, from, to) ==
  /\ pc[t] = from
  /\ pc' = [pc EXCEPT ![t] = to]

Alive(t) == pc[t] \notin Idle

--------------------------------------------------------------------------------
(* setInitialState() and start(), by client c.                             *)

(* mInitialStateName is a plain std::string, which the handler copies and  *)
(* which other clients compare.                                            *)
NameIsRead(c) ==
  pc[Handler] = "init" \/ \E d \in Clients \ {c} : pc[d] = "active?"

WriteName(c, n) ==
  /\ mInitialStateName' = n
  /\ process' \in IF NameIsRead(c) THEN {"running", "raced"} ELSE {"running"}

(* The condition is inverted: a name that exists is refused, one that does *)
(* not is taken, and then control flows off the end of a bool function.    *)
SetInitialState(c, n) ==
  /\ pc[c] = "none" /\ ~dying
  /\ \/ n \in States /\ UNCHANGED <<mInitialStateName, process>>
     \/ n \notin States /\ WriteName(c, n)
     \/ n \notin States /\ mInitialStateName' = n /\ process' = "noReturn"
  /\ UNCHANGED <<mIsActive, pStateHandlerThread, mEventThreadPool, unjoined,
                 mEventQueue, localVars, pc, dying, historyVars>>

Start(c) ==
  /\ ~dying
  /\ Goto(c, "none", "active?")
  /\ UNCHANGED <<machineVars, localVars, dying, process, historyVars>>

StartAt(c, n) ==
  /\ ~dying
  /\ Goto(c, "none", "active?")
  /\ WriteName(c, n)
  /\ UNCHANGED <<mIsActive, pStateHandlerThread, mEventThreadPool, unjoined,
                 mEventQueue, localVars, dying, historyVars>>

(* Planted fault: mIsActive is raised before the threads are spawned.      *)
CheckActiveClaims(c) ==
  /\ pc[c] = "active?"
  /\ mIsActive' = TRUE
  /\ \/ /\ mIsActive \/ mInitialStateName = Null \/ PoolSize = 0
        /\ pc' = [pc EXCEPT ![c] = "none"]
        /\ UNCHANGED <<count, stopped>>
     \/ /\ ~mIsActive /\ mInitialStateName # Null /\ PoolSize > 0
        /\ Cardinality(Workers \ Pool) >= PoolSize
        /\ pc' = [pc EXCEPT ![c] = "pool"]
        /\ count' = [count EXCEPT ![c] = 0]
        /\ stopped' = FALSE
  /\ UNCHANGED <<mInitialStateName, pStateHandlerThread, mEventThreadPool,
                 unjoined, mEventQueue, presentName, scan, dying, process,
                 excuses>>

(* Already active, no initial state, or no hardware concurrency: return at *)
(* once.                                                                   *)
CheckActive(c) ==
  /\ pc[c] = "active?"
  /\ \/ /\ mIsActive \/ mInitialStateName = Null \/ PoolSize = 0
        /\ pc' = [pc EXCEPT ![c] = "none"]
        /\ UNCHANGED <<count, stopped>>
     \/ /\ ~mIsActive /\ mInitialStateName # Null /\ PoolSize > 0
        /\ Cardinality(Workers \ Pool) >= PoolSize
        /\ pc' = [pc EXCEPT ![c] = "pool"]
        /\ count' = [count EXCEPT ![c] = 0]
        /\ stopped' = FALSE
  /\ UNCHANGED <<machineVars, presentName, scan, dying, process, excuses>>

(* push_back(std::thread(...)).  A thread that is iterating over the pool  *)
(* at the same time is left with a dangling iterator, and two push_backs   *)
(* at a time are a race that may end in anything.                          *)
SpawnWorker(c) ==
  /\ pc[c] = "pool"
  /\ \E w \in Workers \ Pool :
       /\ mEventThreadPool' = Append(mEventThreadPool, w)
       /\ unjoined' = unjoined \cup {w}
       /\ pc' = [pc EXCEPT ![w] = "while",
                           ![c] = IF count[c] + 1 = PoolSize THEN "handler" ELSE @]
  /\ count' = [count EXCEPT ![c] = @ + 1]
  /\ process' \in IF \E t \in Threads : pc[t] = "stop.pool" THEN {"undefined"}
                  ELSE IF \E d \in Clients \ {c} : pc[d] = "pool"
                  THEN {process, "undefined"} ELSE {process}
  /\ UNCHANGED <<mIsActive, mInitialStateName, pStateHandlerThread,
                 mEventQueue, presentName, scan, dying, historyVars>>

SpawnHandler(c) ==
  /\ pStateHandlerThread = "null"
  /\ pc[c] = "handler"
  /\ pc' = [pc EXCEPT ![c] = "activate", ![Handler] = "init"]
  /\ pStateHandlerThread' = "joinable"
  /\ UNCHANGED <<mIsActive, mInitialStateName, mEventThreadPool, unjoined,
                 mEventQueue, localVars, dying, process, historyVars>>

(* assert(!pStateHandlerThread)                                            *)
AssertFails(c) ==
  /\ pStateHandlerThread # "null"
  /\ pc[c] = "handler"
  /\ process' = "assert"
  /\ UNCHANGED <<machineVars, localVars, pc, dying, historyVars>>

(* A thread cannot be created: start() returns false on std::bad_alloc and *)
(* is left by std::system_error.  The workers spawned so far stay behind.  *)
SpawnFails(c) ==
  /\ \/ Goto(c, "pool", "none")
     \/ pStateHandlerThread = "null" /\ Goto(c, "handler", "none")
  /\ excuses' = excuses \cup {"spawnFailed"}
  /\ UNCHANGED <<machineVars, localVars, dying, process, stopped>>

(* push_back() has no memory to keep the thread just created in: the       *)
(* temporary std::thread goes while it is joinable.                        *)
PushBackFails(c) ==
  /\ pc[c] = "pool"
  /\ process' = "terminate"
  /\ excuses' = excuses \cup {"spawnFailed"}
  /\ UNCHANGED <<machineVars, localVars, pc, dying, stopped>>

(* mIsActive is raised last, when the threads have long been running.      *)
Activate(c) ==
  /\ Goto(c, "activate", "none")
  /\ mIsActive' = TRUE
  /\ UNCHANGED <<mInitialStateName, pStateHandlerThread, mEventThreadPool,
                 unjoined, mEventQueue, localVars, dying, process, historyVars>>

--------------------------------------------------------------------------------
(* stop(), by a client, by the destructor, or by a predicate or an event   *)
(* on the thread t that runs it.                                           *)

(* Planted fault: stop() waits for the threads without telling them.       *)
StopCallSilent(t) ==
  /\ t \in Clients /\ pc[t] = "none" /\ ~dying
  /\ pc' = [pc EXCEPT ![t] = "stop.check"]
  /\ UNCHANGED <<machineVars, localVars, dying, process, historyVars>>

StopCall(t) ==
  /\ \/ t \in Clients /\ pc[t] = "none" /\ ~dying /\ UNCHANGED <<dying, excuses>>
     \/ /\ t \in Clients /\ ~dying /\ \A c \in Clients : pc[c] = "none"
        /\ dying' = TRUE
        /\ UNCHANGED excuses
     \/ /\ pc[t] \in {"predicate", "event"}
        /\ excuses' = excuses \cup {"callbackStopped"}
        /\ UNCHANGED dying
  /\ pc' = [pc EXCEPT ![t] = "stop.check"]
  /\ mIsActive' = FALSE
  /\ UNCHANGED <<mInitialStateName, pStateHandlerThread, mEventThreadPool,
                 unjoined, mEventQueue, localVars, process, stopped>>

(* stop() returns to its caller.  After the destructor's call the members  *)
(* go, and a joinable std::thread among them terminates the process.       *)
Return(t) ==
  /\ pc' = [pc EXCEPT ![t] = IF t \in Clients THEN "none"
                             ELSE IF t = Handler THEN "predicate" ELSE "event"]
  /\ process' = IF ~(dying /\ t \in Clients) THEN process
                ELSE IF unjoined' # {} THEN "terminate" ELSE "destroyed"

StopCheck(t) ==
  /\ pc[t] = "stop.check"
  /\ UNCHANGED <<machineVars, localVars, dying, historyVars>>
  /\ \/ pStateHandlerThread = "null" /\ Return(t)
     \/ /\ pStateHandlerThread # "null"
        /\ pc' = [pc EXCEPT ![t] = "stop.joinable"]
        /\ UNCHANGED process

(* Another stop() may have cleared the pointer since.                      *)
StopJoinable(t) ==
  /\ pc[t] = "stop.joinable"
  /\ UNCHANGED <<machineVars, localVars, dying, historyVars>>
  /\ \/ pStateHandlerThread = "null" /\ process' = "undefined" /\ UNCHANGED pc
     \/ pStateHandlerThread = "joined" /\ Return(t)
     \/ /\ pStateHandlerThread = "joinable"
        /\ pc' = [pc EXCEPT ![t] = "stop.join"]
        /\ UNCHANGED process

(* join(): waits for the handler, unless it is the handler that calls or   *)
(* another stop() has joined it since.                                     *)
StopJoin(t) ==
  /\ t # Handler
  /\ pStateHandlerThread = "joinable"
  /\ pc[Handler] = "exited"
  /\ Goto(t, "stop.join", "stop.clear")
  /\ pStateHandlerThread' = "joined"
  /\ UNCHANGED <<mIsActive, mInitialStateName, mEventThreadPool, unjoined,
                 mEventQueue, localVars, dying, process, historyVars>>

StopJoinTwice(t) ==
  /\ t # Handler
  /\ pStateHandlerThread # "joinable"
  /\ pc[t] = "stop.join"
  /\ process' = "undefined"
  /\ UNCHANGED <<machineVars, localVars, pc, dying, historyVars>>

(* Planted fault: the pointer to the joined thread is kept.                *)
StopClearForgotten(t) ==
  /\ Goto(t, "stop.clear", "stop.pool")
  /\ UNCHANGED <<machineVars, localVars, dying, process, historyVars>>

StopClear(t) ==
  /\ Goto(t, "stop.clear", "stop.pool")
  /\ pStateHandlerThread' = "null"
  /\ UNCHANGED <<mIsActive, mInitialStateName, mEventThreadPool, unjoined,
                 mEventQueue, localVars, dying, process, historyVars>>

(* Planted fault: the workers are dormant, so why wait for them?           *)
StopPoolSkipped(t) ==
  /\ t \notin Pool
  /\ pc[t] = "stop.pool"
  /\ unjoined' = {}
  /\ stopped' = TRUE
  /\ Return(t)
  /\ UNCHANGED <<mIsActive, mInitialStateName, pStateHandlerThread,
                 mEventThreadPool, mEventQueue, localVars, dying, excuses>>

(* The loop over the pool, for a caller outside it.                        *)
StopPool(t) ==
  /\ t \notin Pool
  /\ pc[t] = "stop.pool"
  /\ \A w \in unjoined : pc[w] = "exited"
  /\ unjoined' = {}
  /\ stopped' = TRUE
  /\ Return(t)
  /\ UNCHANGED <<mIsActive, mInitialStateName, pStateHandlerThread,
                 mEventThreadPool, mEventQueue, localVars, dying, excuses>>

(* A worker joins those before itself; joining itself throws, and the loop *)
(* that called the event swallows what it throws.                          *)
StopPoolThrows(t) ==
  /\ \E i \in DOMAIN mEventThreadPool :
       LET before == {mEventThreadPool[j] : j \in 1 .. i - 1} IN
         /\ t = mEventThreadPool[i]
         /\ \A w \in before \cap unjoined : pc[w] = "exited"
         /\ unjoined' = unjoined \ before
  /\ Goto(t, "stop.pool", "while")
  /\ UNCHANGED <<mIsActive, mInitialStateName, pStateHandlerThread,
                 mEventThreadPool, mEventQueue, localVars, dying, process,
                 historyVars>>

--------------------------------------------------------------------------------
(* The worker w of the pool.                                               *)

WorkerWhile(w) ==
  /\ Goto(w, "while", IF mIsActive THEN "dequeue" ELSE "exited")
  /\ UNCHANGED <<machineVars, localVars, dying, process, historyVars>>

(* The event may be a leftover of an earlier run.                          *)
WorkerDequeues(w) ==
  /\ Goto(w, "dequeue", "event")
  /\ mEventQueue > 0
  /\ mEventQueue' = mEventQueue - 1
  /\ UNCHANGED <<mIsActive, mInitialStateName, pStateHandlerThread,
                 mEventThreadPool, unjoined, localVars, dying, process,
                 historyVars>>

(* Planted fault: a worker that finds nothing leaves its loop.             *)
WorkerGivesUp(w) ==
  /\ \/ mEventQueue = 0
     \/ \E v \in Workers \ {w} : pc[v] = "dequeue"
  /\ Goto(w, "dequeue", "exited")
  /\ UNCHANGED <<machineVars, localVars, dying, process, historyVars>>

(* Nothing there, or hidden by a rival inside try_dequeue.                 *)
WorkerYields(w) ==
  /\ \/ mEventQueue = 0
     \/ \E v \in Workers \ {w} : pc[v] = "dequeue"
  /\ Goto(w, "dequeue", "while")
  /\ UNCHANGED <<machineVars, localVars, dying, process, historyVars>>

(* The event returns or throws: the loop goes on either way.               *)
WorkerEventEnds(w) ==
  /\ Goto(w, "event", "while")
  /\ UNCHANGED <<machineVars, localVars, dying, process, historyVars>>

Worker(w) ==
  \/ WorkerWhile(w)
  \/ WorkerDequeues(w)
  \/ WorkerYields(w)
  \/ WorkerEventEnds(w)

--------------------------------------------------------------------------------
(* stateHandler().                                                         *)

HandlerInit ==
  /\ Goto(Handler, "init", "while")
  /\ presentName' = mInitialStateName
  /\ UNCHANGED <<machineVars, scan, count, dying, process, historyVars>>

HandlerWhile ==
  /\ Goto(Handler, "while", IF mIsActive THEN "enqueue" ELSE "exited")
  /\ UNCHANGED <<machineVars, localVars, dying, process, historyVars>>

HandlerEnqueue ==
  /\ Goto(Handler, "enqueue",
          IF Succ(presentName) = <<>> THEN "while" ELSE "predicate")
  /\ mEventQueue < MaxPending \/ ~mIsActive
  /\ mEventQueue' = mEventQueue + 1
  /\ UNCHANGED <<mIsActive, mInitialStateName, pStateHandlerThread,
                 mEventThreadPool, unjoined, localVars, dying, process,
                 historyVars>>

(* The queue has no memory for the event and says so, but nobody looks.    *)
HandlerEnqueueFails ==
  /\ Goto(Handler, "enqueue",
          IF Succ(presentName) = <<>> THEN "while" ELSE "predicate")
  /\ UNCHANGED <<machineVars, localVars, dying, process, historyVars>>

(* The copy of the event throws, or its entry in the map cannot be made:   *)
(* outside of any try block, the exception leaves the thread.              *)
HandlerEnqueueThrows ==
  /\ pc[Handler] = "enqueue"
  /\ process' = "terminate"
  /\ excuses' = excuses \cup {"enqueueThrew"}
  /\ UNCHANGED <<machineVars, localVars, pc, dying, stopped>>

(* Planted fault: the loop over the transitions goes on in the next state. *)
HandlerTransitionKeepsPlace ==
  /\ Goto(Handler, "predicate", "while")
  /\ presentName' = Succ(presentName)[scan + 1]
  /\ scan' = scan + 1
  /\ UNCHANGED <<machineVars, count, dying, process, historyVars>>

(* The next predicate returned true ...                                    *)
HandlerTransition ==
  /\ Goto(Handler, "predicate", "while")
  /\ presentName' = Succ(presentName)[scan + 1]
  /\ scan' = 0
  /\ UNCHANGED <<machineVars, count, dying, process, historyVars>>

(* ... or it returned false or threw, or the stop() in it did.             *)
NextPredicate ==
  /\ IF scan + 1 < Len(Succ(presentName))
       THEN scan' = scan + 1 /\ pc' = [pc EXCEPT ![Handler] = "predicate"]
       ELSE scan' = 0 /\ pc' = [pc EXCEPT ![Handler] = "while"]
  /\ UNCHANGED <<machineVars, presentName, count, dying, process, historyVars>>

HandlerNoTransition == pc[Handler] = "predicate" /\ NextPredicate

HandlerJoinsItself == pc[Handler] = "stop.join" /\ NextPredicate

HandlerStep ==
  \/ HandlerInit
  \/ HandlerWhile
  \/ HandlerEnqueue
  \/ HandlerTransition
  \/ HandlerNoTransition
  \/ HandlerJoinsItself

--------------------------------------------------------------------------------
Starting(c) ==
  \/ CheckActive(c)
  \/ SpawnWorker(c)
  \/ SpawnHandler(c)
  \/ AssertFails(c)
  \/ Activate(c)

Stopping(t) ==
  \/ StopCheck(t)
  \/ StopJoinable(t)
  \/ StopJoin(t)
  \/ StopJoinTwice(t)
  \/ StopClear(t)
  \/ StopPool(t)
  \/ StopPoolThrows(t)

Next ==
  /\ process = "running"
  /\ \/ \E c \in Clients :
          Start(c) \/ Starting(c) \/ SpawnFails(c) \/ PushBackFails(c)
     \/ \E c \in Clients, n \in Names : SetInitialState(c, n) \/ StartAt(c, n)
     \/ \E t \in Threads : StopCall(t) \/ Stopping(t)
     \/ \E w \in Workers : Worker(w)
     \/ HandlerStep \/ HandlerEnqueueFails \/ HandlerEnqueueThrows

Spec == Init /\ [][Next]_vars

(***************************************************************************)
(* Fairness.  Threads are scheduled, and a predicate or an event returns   *)
(* after calling stop() finitely often (hence SF).  Nothing makes a client *)
(* call start() or stop(), nor a thread, a copy or an allocation fail.     *)
(***************************************************************************)
Running(A) == process = "running" /\ A

FairSpec ==
  /\ Spec
  /\ \A c \in Clients : WF_vars(Running(Starting(c)))
  /\ \A t \in Threads : WF_vars(Running(Stopping(t)))
  /\ \A w \in Workers : WF_vars(Running(Worker(w)))
  /\ \A w \in Workers : SF_vars(Running(WorkerEventEnds(w)))
  /\ WF_vars(Running(HandlerStep))
  /\ SF_vars(Running(HandlerTransition \/ HandlerNoTransition))

--------------------------------------------------------------------------------
(* Safety, for a machine with one client.                                  *)

MachineThreads == Workers \cup {Handler}

(***************************************************************************)
(* When stop() has returned true, no thread of the machine is running, and *)
(* none runs until the next start(): predicates and events use what the    *)
(* caller may now take away.                                               *)
(***************************************************************************)
StopQuiesces == stopped => \A t \in MachineThreads : ~Alive(t)

(***************************************************************************)
(* An active machine has a handler thread that stop() will find and join,  *)
(* unless a predicate or event stopped the machine from inside.  start()   *)
(* returns at once on an active machine, so one without a handler could be *)
(* neither started nor stopped any more.                                   *)
(***************************************************************************)
ActiveIsStoppable ==
  mIsActive /\ "callbackStopped" \notin excuses
    => pStateHandlerThread = "joinable"

(***************************************************************************)
(* Unless a start() failed half-way, an event could not be copied, or a    *)
(* predicate or event stopped the machine from inside, the assertion in    *)
(* start() holds and the machine can be destroyed at any time; and unless  *)
(* it was stopped from inside, stop() never loses the handler between two  *)
(* looks at it, joins it twice or walks a pool that start() is changing.   *)
(***************************************************************************)
EndsWell ==
  /\ process \in {"assert", "terminate"} => excuses # {}
  /\ process = "undefined" => "callbackStopped" \in excuses

--------------------------------------------------------------------------------
(* Liveness, under FairSpec.                                               *)

(***************************************************************************)
(* stop() returns, whatever its caller and the threads are doing.          *)
(***************************************************************************)
StopReturns ==
  \A t \in Threads :
    pc[t] \in StopPoints ~> (pc[t] \notin StopPoints \/ process # "running")

Working ==
  mIsActive /\ Alive(Handler) /\ \E w \in Workers : Alive(w)

Contended ==
  \E v, w \in Workers : v # w /\ pc[v] = "dequeue" /\ pc[w] = "dequeue"

(***************************************************************************)
(* On an active machine whose handler and at least one worker were not     *)
(* gone before mIsActive was raised, the events of the states are run,     *)
(* unless workers keep meeting inside try_dequeue for ever or the queue    *)
(* again and again has no memory.                                          *)
(***************************************************************************)
EventsRun ==
  (<>[]~Contended /\ <>[][~HandlerEnqueueFails]_vars) =>
    Working ~> \/ \E w \in Workers : pc[w] = "event"
               \/ ~mIsActive
               \/ process # "running"

(***************************************************************************)
(* What the comment on start() says: it "starts state machine".  Once it   *)
(* has returned true an event is run, unless the machine is stopped first. *)
(***************************************************************************)
StartTakesEffect ==
  mIsActive ~> (\E w \in Workers : pc[w] = "event") \/ ~mIsActive
                 \/ process # "running"

================================================================================
