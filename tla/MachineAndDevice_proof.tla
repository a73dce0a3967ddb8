------------------------ MODULE MachineAndDevice_proof -------------------------
(***************************************************************************)
(* Proofs about the two components of include/device.                      *)
(*                                                                         *)
(* StateMachine: its types, for any clients, and its safety properties for *)
(* one client, for any pool, map and number of starts.                     *)
(*                                                                         *)
(* Device: for any network of devices, any connections and moves between   *)
(* them and any bounds, the outputs and the events of a device fit         *)
(* together, and an output reaches one reader.                             *)
(***************************************************************************)
EXTENDS StateMachine, Device, FiniteSetTheorems, TLAPS

WorkerPoints == {"while", "dequeue", "event"} \cup StopPoints \cup Idle

(* The handler gets no further in stop() than to joining itself.           *)
InPredicate == {"predicate", "stop.check", "stop.joinable", "stop.join"}
HandlerPoints == {"init", "while", "enqueue"} \cup InPredicate \cup Idle

(* Who can be where.  A worker that was joined has exited.                 *)
Places ==
  /\ \A c \in Clients : pc[c] \in StartPoints \cup StopPoints \cup {"none"}
  /\ \A w \in Workers : pc[w] \in WorkerPoints
  /\ \A w \in Workers \ unjoined : pc[w] \in Idle
  /\ pc[Handler] \in HandlerPoints

(* While the handler runs, there is the pointer to join it by.  Of the     *)
(* threads that try, one gets to clear the pointer.                        *)
Joining ==
  /\ Alive(Handler) => pStateHandlerThread = "joinable"
  /\ \A t \in Threads : pc[t] = "stop.clear" => pStateHandlerThread = "joined"
  /\ \A s, t \in Threads : pc[s] = "stop.clear" /\ pc[t] = "stop.clear" => s = t

(* In a predicate the handler has a transition left to try.                *)
Scanning ==
  IF pc[Handler] \in InPredicate THEN scan < Len(Succ(presentName))
                                 ELSE scan = 0

Counting == \A c \in Clients : pc[c] = "pool" => count[c] < PoolSize

Inv == TypeOK /\ Places /\ Joining /\ Scanning /\ Counting

--------------------------------------------------------------------------------
(* What is assumed of the threads, and where they are.                     *)

LEMMA Distinct ==
  /\ Clients \subseteq Threads /\ Workers \subseteq Threads /\ Handler \in Threads
  /\ \A c \in Clients : c \notin Workers /\ c # Handler
  /\ \A w \in Workers : w # Handler
BY ThreadsAreDistinct DEF Threads

LEMMA Moved ==
  ASSUME TypeOK, NEW t \in Threads, NEW p, pc' = [pc EXCEPT ![t] = p]
  PROVE  pc'[t] = p /\ \A s \in Threads : s # t => pc'[s] = pc[s]
BY DEF TypeOK

(* push_back() of a new worker.                                            *)
LEMMA PoolGrows ==
  ASSUME TypeOK, NEW w \in Workers \ Pool,
         mEventThreadPool' = Append(mEventThreadPool, w)
  PROVE  /\ mEventThreadPool' \in Seq(Workers)
         /\ Pool' = Pool \cup {w}
         /\ Len(mEventThreadPool)' = Cardinality(Pool)'
<1>1. mEventThreadPool \in Seq(Workers)
  BY DEF TypeOK
<1> DEFINE n == Len(mEventThreadPool)
<1>2. /\ n \in Nat /\ DOMAIN mEventThreadPool = 1 .. n
      /\ DOMAIN mEventThreadPool' = 1 .. n + 1 /\ Len(mEventThreadPool') = n + 1
      /\ \A i \in 1 .. n : mEventThreadPool'[i] = mEventThreadPool[i]
      /\ mEventThreadPool'[n + 1] = w
  BY <1>1
<1>3. Pool' = Pool \cup {w}
  <2>1. \A x : x \in Pool <=> \E i \in 1 .. n : x = mEventThreadPool[i]
    BY <1>2 DEF Pool
  <2>2. \A x : x \in Pool' <=> \E i \in 1 .. n + 1 : x = mEventThreadPool'[i]
    BY <1>2 DEF Pool
  <2>3. \A i \in 1 .. n + 1 : i \in 1 .. n \/ i = n + 1
    BY <1>2
  <2>4. 1 .. n \subseteq 1 .. n + 1 /\ n + 1 \in 1 .. n + 1
    BY <1>2
  <2> HIDE DEF n
  <2> QED
    BY <1>2, <2>1, <2>2, <2>3, <2>4
<1>4. IsFiniteSet(Pool)
  <2>1. IsFiniteSet(1 .. n)
    BY <1>2, FS_Interval
  <2>2. mEventThreadPool \in [1 .. n -> Pool]
    BY <1>1, <1>2 DEF Pool
  <2>3. mEventThreadPool \in Surjection(1 .. n, Pool)
    BY <1>2, <2>2 DEF Surjection, Pool
  <2> QED
    BY <2>1, <2>3, FS_Surjection
<1>5. Cardinality(Pool \cup {w}) = Cardinality(Pool) + 1
  BY <1>4, FS_AddElement
<1>6. mEventThreadPool' \in Seq(Workers)
  BY <1>1
<1> QED
  BY <1>2, <1>3, <1>5, <1>6 DEF TypeOK

--------------------------------------------------------------------------------
(* Every step keeps the invariant, whatever the number of clients.         *)

(* A worker that runs goes on, and nothing else happens but to the queue.  *)
LEMMA WorkerMoves ==
  ASSUME Inv, NEW w \in Workers, Alive(w),
         NEW p \in {"while", "dequeue", "event", "exited"},
         pc' = [pc EXCEPT ![w] = p], mEventQueue' \in Nat,
         UNCHANGED <<mIsActive, mInitialStateName, pStateHandlerThread,
                     mEventThreadPool, unjoined, localVars, dying, process,
                     historyVars>>
  PROVE  Inv'
<1>1. pc'[w] = p /\ \A t \in Threads : t # w => pc'[t] = pc[t]
  BY Moved, Distinct DEF Inv
<1>2. w \in unjoined
  BY DEF Inv, Places, Alive
<1>3. pc' \in [Threads -> StartPoints \cup StopPoints \cup RunPoints \cup Idle]
  BY DEF Inv, TypeOK, RunPoints, Idle
<1>4. TypeOK'
  BY <1>3 DEF Inv, TypeOK, Pool, localVars, historyVars
<1>5. Places'
  BY <1>1, <1>2, Distinct DEF Inv, Places, WorkerPoints, Idle
<1>6. Joining' /\ Scanning' /\ Counting'
  BY <1>1, Distinct DEF Inv, Joining, Scanning, Counting, Alive, localVars
<1> QED
  BY <1>4, <1>5, <1>6 DEF Inv

(* The process ends.                                                       *)
LEMMA EndKeepsInv ==
  ASSUME Inv, process' \in Ends, excuses' \subseteq Mishaps,
         UNCHANGED <<machineVars, localVars, pc, dying, stopped>>
  PROVE  Inv'
BY DEF Inv, TypeOK, Places, Joining, Scanning, Counting, Alive, Pool,
  machineVars, localVars

LEMMA NextKeepsInv ==
  ASSUME Inv, Next
  PROVE  Inv'
<1>1. ASSUME NEW c \in Clients, NEW n \in Names, SetInitialState(c, n) PROVE Inv'
  <2>1. TypeOK'
    BY <1>1 DEF SetInitialState, WriteName, Inv, TypeOK, Pool, localVars,
      historyVars, Ends
  <2>2. Places'
    BY <1>1 DEF SetInitialState, Inv, Places
  <2>3. Joining'
    BY <1>1 DEF SetInitialState, Inv, Joining, Alive
  <2>4. Scanning' /\ Counting'
    BY <1>1 DEF SetInitialState, Inv, Scanning, Counting, localVars
  <2> QED
    BY <2>1, <2>2, <2>3, <2>4 DEF Inv
<1>2. ASSUME NEW c \in Clients, NEW n \in Names, StartAt(c, n) PROVE Inv'
  <2>1. TypeOK'
    BY <1>2 DEF StartAt, WriteName, Goto, Inv, TypeOK, Pool, localVars,
      historyVars, StartPoints, Ends
  <2>2. Places'
    BY <1>2, Distinct DEF StartAt, Goto, Inv, Places, StartPoints
  <2>3. Joining'
    BY <1>2, Distinct DEF StartAt, Goto, Inv, Joining, Alive
  <2>4. Scanning' /\ Counting'
    BY <1>2, Distinct DEF StartAt, Goto, Inv, Scanning, Counting, localVars
  <2> QED
    BY <2>1, <2>2, <2>3, <2>4 DEF Inv
<1>3. ASSUME NEW c \in Clients, Start(c) PROVE Inv'
  <2>1. TypeOK'
    BY <1>3 DEF Start, Goto, Inv, TypeOK, Pool, machineVars, localVars,
      historyVars, StartPoints
  <2>2. Places'
    BY <1>3, Distinct DEF Start, Goto, Inv, Places, machineVars, StartPoints
  <2>3. Joining'
    BY <1>3, Distinct DEF Start, Goto, Inv, Joining, Alive, machineVars
  <2>4. Scanning' /\ Counting'
    BY <1>3, Distinct DEF Start, Goto, Inv, Scanning, Counting, localVars
  <2> QED
    BY <2>1, <2>2, <2>3, <2>4 DEF Inv
<1>4. ASSUME NEW c \in Clients, CheckActive(c) PROVE Inv'
  <2>1. /\ pc[c] = "active?" /\ pc'[c] \in {"none", "pool"}
        /\ \A t \in Threads : t # c => pc'[t] = pc[t]
        /\ pc' \in [Threads -> StartPoints \cup StopPoints \cup RunPoints \cup Idle]
    BY <1>4, Distinct DEF CheckActive, Inv, TypeOK, StartPoints, Idle
  <2>2. /\ count' \in [Clients -> 0 .. PoolSize] /\ stopped' \in BOOLEAN
        /\ pc'[c] = "pool" => count'[c] < PoolSize
        /\ \A d \in Clients : d # c => count'[d] = count[d]
    <3>1. CASE UNCHANGED <<count, stopped>> /\ pc' = [pc EXCEPT ![c] = "none"]
      BY <2>1, <3>1 DEF Inv, TypeOK
    <3>2. CASE /\ PoolSize > 0 /\ count' = [count EXCEPT ![c] = 0] /\ stopped' = FALSE
      <4>1. 0 \in 0 .. PoolSize /\ 0 < PoolSize
        BY <3>2, SizesAreNat
      <4>2. count' \in [Clients -> 0 .. PoolSize] /\ count'[c] = 0
        BY <3>2, <4>1 DEF Inv, TypeOK
      <4>3. \A d \in Clients : d # c => count'[d] = count[d]
        BY <3>2
      <4> QED
        BY <3>2, <4>1, <4>2, <4>3
    <3> QED
      BY <1>4, <3>1, <3>2 DEF CheckActive
  <2>3. UNCHANGED <<machineVars, presentName, scan, dying, process, excuses>>
    BY <1>4 DEF CheckActive
  <2>4. TypeOK'
    BY <2>1, <2>2, <2>3 DEF Inv, TypeOK, Pool, machineVars
  <2>5. Places'
    BY <2>1, <2>3, Distinct DEF Inv, Places, machineVars, StartPoints
  <2>6. Joining' /\ Scanning'
    BY <2>1, <2>3, Distinct DEF Inv, Joining, Scanning, Alive, machineVars
  <2>7. Counting'
    BY <2>1, <2>2, Distinct DEF Inv, Counting
  <2> QED
    BY <2>4, <2>5, <2>6, <2>7 DEF Inv
<1>5. ASSUME NEW c \in Clients, SpawnWorker(c) PROVE Inv'
  <2>1. PICK w \in Workers \ Pool :
          /\ mEventThreadPool' = Append(mEventThreadPool, w)
          /\ unjoined' = unjoined \cup {w}
          /\ pc' = [pc EXCEPT ![w] = "while",
                              ![c] = IF count[c] + 1 = PoolSize THEN "handler" ELSE @]
    BY <1>5 DEF SpawnWorker
  <2>2. /\ pc[c] = "pool" /\ count' = [count EXCEPT ![c] = @ + 1]
        /\ process' \in {process, "undefined"}
        /\ UNCHANGED <<mIsActive, mInitialStateName, pStateHandlerThread,
                       mEventQueue, presentName, scan, dying, stopped, excuses>>
    BY <1>5 DEF SpawnWorker, historyVars
  <2>3. /\ pc'[w] = "while" /\ pc'[c] \in {"pool", "handler"}
        /\ pc'[c] = "pool" => count[c] + 1 # PoolSize
        /\ \A t \in Threads \ {w, c} : pc'[t] = pc[t]
    BY <2>1, <2>2, Distinct DEF Inv, TypeOK
  <2>4. TypeOK'
    <3>1. count' \in [Clients -> 0 .. PoolSize]
      BY <2>2, SizesAreNat DEF Inv, TypeOK, Counting
    <3>2. pc' \in [Threads -> StartPoints \cup StopPoints \cup RunPoints \cup Idle]
      BY <2>1 DEF Inv, TypeOK, StartPoints, RunPoints
    <3>3. /\ mEventThreadPool' \in Seq(Workers)
          /\ Len(mEventThreadPool)' = Cardinality(Pool)'
          /\ Pool' = Pool \cup {w}
      BY <2>1, PoolGrows DEF Inv
    <3>4. unjoined' \subseteq Pool'
      BY <2>1, <3>3 DEF Inv, TypeOK
    <3>5. scan' \in 0 .. Len(Succ(presentName))'
      BY <2>2 DEF Inv, TypeOK, Succ
    <3> QED
      BY <2>2, <3>1, <3>2, <3>3, <3>4, <3>5 DEF Inv, TypeOK, Ends
  <2>5. Places'
    <3>1. w \notin unjoined
      BY DEF Inv, TypeOK
    <3> QED
      BY <2>1, <2>2, <2>3, <3>1, Distinct DEF Inv, Places, StartPoints, WorkerPoints
  <2>6. Joining' /\ Scanning'
    BY <2>2, <2>3, Distinct DEF Inv, Joining, Scanning, Alive
  <2>7. Counting'
    BY <2>2, <2>3, SizesAreNat, Distinct DEF Inv, TypeOK, Counting
  <2> QED
    BY <2>4, <2>5, <2>6, <2>7 DEF Inv
<1>6. ASSUME NEW c \in Clients, SpawnHandler(c) PROVE Inv'
  <2>1. /\ pc'[c] = "activate" /\ pc'[Handler] = "init"
        /\ \A t \in Threads \ {Handler, c} : pc'[t] = pc[t]
        /\ pc' \in [Threads -> StartPoints \cup StopPoints \cup RunPoints \cup Idle]
    BY <1>6, Distinct DEF SpawnHandler, Inv, TypeOK, StartPoints, RunPoints
  <2>2. pc[Handler] \in Idle
    BY <1>6 DEF SpawnHandler, Inv, Joining, Alive
  <2>3. pc[c] = "handler" /\ pStateHandlerThread = "null" /\ pStateHandlerThread' = "joinable"
        /\ UNCHANGED <<mIsActive, mInitialStateName, mEventThreadPool, unjoined,
                       mEventQueue, localVars, dying, process, historyVars>>
    BY <1>6 DEF SpawnHandler
  <2>4. TypeOK'
    BY <2>1, <2>3 DEF Inv, TypeOK, Pool, localVars, historyVars
  <2>5. Places' /\ Counting'
    BY <2>1, <2>3, Distinct DEF Inv, Places, Counting, localVars, StartPoints,
      HandlerPoints
  <2>6. Joining' /\ Scanning'
    BY <2>1, <2>2, <2>3 DEF Inv, Joining, Scanning, localVars, Idle,
      InPredicate
  <2> QED
    BY <2>4, <2>5, <2>6 DEF Inv
<1>7. ASSUME NEW c \in Clients, AssertFails(c) PROVE Inv'
  <2>1. TypeOK'
    BY <1>7 DEF AssertFails, Inv, TypeOK, Pool, machineVars, localVars,
      historyVars, Ends
  <2>2. Places'
    BY <1>7 DEF AssertFails, Inv, Places, machineVars
  <2>3. Joining'
    BY <1>7 DEF AssertFails, Inv, Joining, Alive, machineVars
  <2>4. Scanning' /\ Counting'
    BY <1>7 DEF AssertFails, Inv, Scanning, Counting, localVars
  <2> QED
    BY <2>1, <2>2, <2>3, <2>4 DEF Inv
<1>8. ASSUME NEW c \in Clients, Activate(c) PROVE Inv'
  <2>1. TypeOK'
    BY <1>8 DEF Activate, Goto, Inv, TypeOK, Pool, localVars, historyVars, Idle
  <2>2. Places'
    BY <1>8, Distinct DEF Activate, Goto, Inv, Places
  <2>3. Joining'
    BY <1>8, Distinct DEF Activate, Goto, Inv, Joining, Alive
  <2>4. Scanning' /\ Counting'
    BY <1>8, Distinct DEF Activate, Goto, Inv, Scanning, Counting, localVars
  <2> QED
    BY <2>1, <2>2, <2>3, <2>4 DEF Inv
<1>9. ASSUME NEW c \in Clients, SpawnFails(c) PROVE Inv'
  <2>1. TypeOK'
    <3>1. excuses' \subseteq Mishaps
      BY <1>9 DEF SpawnFails, Inv, TypeOK, Mishaps
    <3>2. pc' = [pc EXCEPT ![c] = "none"]
      BY <1>9 DEF SpawnFails, Goto
    <3>3. UNCHANGED <<machineVars, localVars, dying, process, stopped>>
      BY <1>9 DEF SpawnFails
    <3> QED
      BY <3>1, <3>2, <3>3 DEF Inv, TypeOK, Pool, Succ, machineVars, localVars, Idle
  <2>2. Places'
    BY <1>9, Distinct DEF SpawnFails, Goto, Inv, TypeOK, Places, machineVars
  <2>3. Joining'
    BY <1>9, Distinct DEF SpawnFails, Goto, Inv, TypeOK, Joining, Alive,
      machineVars
  <2>4. Scanning' /\ Counting'
    BY <1>9, Distinct DEF SpawnFails, Goto, Inv, TypeOK, Scanning, Counting,
      localVars
  <2> QED
    BY <2>1, <2>2, <2>3, <2>4 DEF Inv
<1>10. ASSUME NEW t \in Threads, process = "running", StopCall(t) PROVE Inv'
  <2>1. /\ pc[t] \in {"none", "predicate", "event"} /\ pc'[t] = "stop.check"
        /\ \A s \in Threads : s # t => pc'[s] = pc[s]
        /\ pc' \in [Threads -> StartPoints \cup StopPoints \cup RunPoints \cup Idle]
        /\ pc[t] = "none" => t \in Clients
    BY <1>10 DEF StopCall, Inv, TypeOK, StopPoints
  <2>2. /\ dying' \in BOOLEAN /\ excuses' \subseteq Mishaps
        /\ mIsActive' = FALSE
        /\ UNCHANGED <<mInitialStateName, pStateHandlerThread, mEventThreadPool,
                       unjoined, mEventQueue, localVars, process, stopped>>
    BY <1>10 DEF StopCall, Inv, TypeOK, Mishaps
  <2>3. TypeOK'
    <3>1. Pool' = Pool /\ Succ(presentName)' = Succ(presentName)
      BY <2>2 DEF Pool, localVars
    <3>2. mIsActive' \in BOOLEAN
      BY <2>2
    <3> QED
      BY <2>1, <2>2, <3>1, <3>2 DEF Inv, TypeOK, localVars
  <2>4. Places'
    BY <2>1, <2>2, Distinct DEF Inv, Places, StopPoints, Idle, InPredicate,
      HandlerPoints, WorkerPoints
  <2>5. Joining' /\ Scanning'
    BY <2>1, <2>2, Distinct DEF Inv, Places, Joining, Scanning, Alive,
      localVars, Idle, InPredicate, HandlerPoints
  <2>6. Counting'
    BY <2>1, <2>2, Distinct DEF Inv, Counting, localVars
  <2> QED
    BY <2>3, <2>4, <2>5, <2>6 DEF Inv
<1>11. ASSUME NEW t \in Threads, StopCheck(t) PROVE Inv'
  <2>1. TypeOK'
    <3>1. /\ pc' \in [Threads -> StartPoints \cup StopPoints \cup RunPoints \cup Idle]
          /\ process' \in {process, "terminate", "destroyed"}
      BY <1>11 DEF StopCheck, Return, Inv, TypeOK, StopPoints, RunPoints, Idle
    <3>2. UNCHANGED <<machineVars, localVars, dying, historyVars>>
      BY <1>11 DEF StopCheck
    <3> QED
      BY <3>1, <3>2 DEF Inv, TypeOK, Pool, Succ, machineVars, localVars,
        historyVars, Ends
  <2>2. Places'
    BY <1>11, Distinct DEF StopCheck, Return, Inv, TypeOK, Places, machineVars,
      StopPoints, Idle, InPredicate, HandlerPoints, WorkerPoints, Threads
  <2>3. Joining'
    BY <1>11, Distinct DEF StopCheck, Return, Inv, TypeOK, Joining, Alive,
      machineVars, Idle
  <2>4. Scanning' /\ Counting'
    BY <1>11, Distinct DEF StopCheck, Return, Inv, TypeOK, Scanning, Counting,
      localVars, InPredicate
  <2> QED
    BY <2>1, <2>2, <2>3, <2>4 DEF Inv
<1>12. ASSUME NEW t \in Threads, StopJoin(t) PROVE Inv'
  <2>1. TypeOK'
    BY <1>12 DEF StopJoin, Goto, Inv, TypeOK, Pool, localVars, historyVars,
      StopPoints
  <2>2. Places'
    BY <1>12 DEF StopJoin, Goto, Inv, Places, StopPoints, Idle, WorkerPoints
  <2>3. Joining'
    BY <1>12 DEF StopJoin, Goto, Inv, Joining, Alive, Idle
  <2>4. Scanning' /\ Counting'
    BY <1>12 DEF StopJoin, Goto, Inv, Scanning, Counting, localVars
  <2> QED
    BY <2>1, <2>2, <2>3, <2>4 DEF Inv
<1>13. ASSUME NEW t \in Threads, StopJoinTwice(t) PROVE Inv'
  <2>1. TypeOK'
    BY <1>13 DEF StopJoinTwice, Inv, TypeOK, Pool, machineVars, localVars,
      historyVars, Ends
  <2>2. Places'
    BY <1>13 DEF StopJoinTwice, Inv, Places, machineVars
  <2>3. Joining'
    BY <1>13 DEF StopJoinTwice, Inv, Joining, Alive, machineVars
  <2>4. Scanning' /\ Counting'
    BY <1>13 DEF StopJoinTwice, Inv, Scanning, Counting, localVars
  <2> QED
    BY <2>1, <2>2, <2>3, <2>4 DEF Inv
<1>14. ASSUME NEW t \in Threads, StopClear(t) PROVE Inv'
  <2>1. TypeOK'
    BY <1>14 DEF StopClear, Goto, Inv, TypeOK, Pool, localVars, historyVars,
      StopPoints
  <2>2. Places'
    BY <1>14 DEF StopClear, Goto, Inv, Places, StopPoints, Idle, InPredicate,
      HandlerPoints, WorkerPoints
  <2>3. Joining'
    BY <1>14 DEF StopClear, Goto, Inv, TypeOK, Joining, Alive, Idle
  <2>4. Scanning' /\ Counting'
    BY <1>14 DEF StopClear, Goto, Inv, Scanning, Counting, localVars,
      InPredicate
  <2> QED
    BY <2>1, <2>2, <2>3, <2>4 DEF Inv
<1>15. ASSUME NEW t \in Threads, StopPool(t) PROVE Inv'
  <2>1. TypeOK'
    BY <1>15 DEF StopPool, Return, Inv, TypeOK, Pool, localVars, RunPoints,
      Idle, Ends
  <2>2. Places'
    BY <1>15 DEF StopPool, Return, Inv, Places, Idle, InPredicate,
      HandlerPoints
  <2>3. Joining'
    BY <1>15 DEF StopPool, Return, Inv, Joining, Alive, Idle
  <2>4. Scanning' /\ Counting'
    BY <1>15 DEF StopPool, Return, Inv, Places, Scanning, Counting, localVars,
      Idle, InPredicate, HandlerPoints
  <2> QED
    BY <2>1, <2>2, <2>3, <2>4 DEF Inv
<1>16. ASSUME NEW t \in Threads, StopPoolThrows(t) PROVE Inv'
  <2>1. TypeOK'
    BY <1>16 DEF StopPoolThrows, Goto, Inv, TypeOK, Pool, localVars,
      historyVars, RunPoints
  <2>2. Places'
    BY <1>16, Distinct DEF StopPoolThrows, Goto, Inv, TypeOK, Places, Idle,
      WorkerPoints
  <2>3. Joining'
    BY <1>16, Distinct DEF StopPoolThrows, Goto, Inv, TypeOK, Joining, Alive
  <2>4. Scanning' /\ Counting'
    BY <1>16, Distinct DEF StopPoolThrows, Goto, Inv, TypeOK, Scanning,
      Counting, localVars
  <2> QED
    BY <2>1, <2>2, <2>3, <2>4 DEF Inv
<1>17. ASSUME NEW w \in Workers, WorkerWhile(w) PROVE Inv'
  BY <1>17, WorkerMoves DEF WorkerWhile, Goto, Alive, Idle, Inv, TypeOK,
    machineVars
<1>18. ASSUME NEW w \in Workers, WorkerDequeues(w) PROVE Inv'
  <2>1. mEventQueue' \in Nat
    BY <1>18 DEF WorkerDequeues, Inv, TypeOK
  <2> QED
    BY <1>18, <2>1, WorkerMoves DEF WorkerDequeues, Goto, Alive, Idle
<1>19. ASSUME NEW w \in Workers, WorkerYields(w) PROVE Inv'
  BY <1>19, WorkerMoves DEF WorkerYields, Goto, Alive, Idle, Inv, TypeOK,
    machineVars
<1>20. ASSUME NEW w \in Workers, WorkerEventEnds(w) PROVE Inv'
  BY <1>20, WorkerMoves DEF WorkerEventEnds, Goto, Alive, Idle, Inv, TypeOK,
    machineVars
<1>21. ASSUME HandlerInit PROVE Inv'
  <2>1. TypeOK'
    <3>1. scan' \in 0 .. Len(Succ(presentName))'
      <4>1. Succ(presentName)' \in Seq(States)
        BY TransitionsOK DEF Succ
      <4>2. scan' = 0
        BY <1>21 DEF HandlerInit, Goto, Inv, Scanning, InPredicate
      <4> QED
        BY <4>1, <4>2
    <3>2. pc' = [pc EXCEPT ![Handler] = "while"] /\ presentName' = mInitialStateName
      BY <1>21 DEF HandlerInit, Goto
    <3>3. UNCHANGED <<machineVars, count, dying, process, historyVars>>
      BY <1>21 DEF HandlerInit
    <3> QED
      BY <3>1, <3>2, <3>3 DEF Inv, TypeOK, Pool, machineVars, historyVars, RunPoints
  <2>2. Places'
    BY <1>21, Distinct DEF HandlerInit, Goto, Inv, Places, machineVars,
      HandlerPoints
  <2>3. Joining'
    BY <1>21 DEF HandlerInit, Goto, Inv, Joining, Alive, machineVars, Idle
  <2>4. Scanning' /\ Counting'
    BY <1>21 DEF HandlerInit, Goto, Inv, Scanning, Counting, InPredicate
  <2> QED
    BY <2>1, <2>2, <2>3, <2>4 DEF Inv
<1>22. ASSUME HandlerWhile PROVE Inv'
  <2>1. TypeOK'
    BY <1>22 DEF HandlerWhile, Goto, Inv, TypeOK, Pool, machineVars, localVars,
      historyVars, RunPoints, Idle
  <2>2. Places'
    BY <1>22, Distinct DEF HandlerWhile, Goto, Inv, Places, machineVars, Idle,
      HandlerPoints
  <2>3. Joining'
    BY <1>22 DEF HandlerWhile, Goto, Inv, Joining, Alive, machineVars, Idle
  <2>4. Scanning' /\ Counting'
    BY <1>22 DEF HandlerWhile, Goto, Inv, Scanning, Counting, localVars,
      InPredicate
  <2> QED
    BY <2>1, <2>2, <2>3, <2>4 DEF Inv
<1>23. ASSUME HandlerEnqueue PROVE Inv'
  <2>1. TypeOK'
    BY <1>23, Distinct DEF HandlerEnqueue, Goto, Inv, TypeOK, Pool, localVars,
      historyVars, RunPoints
  <2>2. Places'
    BY <1>23, Distinct DEF HandlerEnqueue, Goto, Inv, Places, InPredicate,
      HandlerPoints
  <2>3. Joining'
    BY <1>23 DEF HandlerEnqueue, Goto, Inv, Joining, Alive, Idle
  <2>4. Scanning' /\ Counting'
    BY <1>23 DEF HandlerEnqueue, Goto, Inv, Scanning, Counting, localVars,
      InPredicate
  <2> QED
    BY <2>1, <2>2, <2>3, <2>4 DEF Inv
<1>24. ASSUME HandlerTransition PROVE Inv'
  <2>1. Succ(presentName)[scan + 1] \in Names
    <3>1. scan \in Nat /\ scan < Len(Succ(presentName)) /\ Succ(presentName) \in Seq(States)
      BY <1>24, TransitionsOK DEF HandlerTransition, Goto, Inv, TypeOK,
        Scanning, Succ, InPredicate
    <3> QED
      BY <3>1 DEF Names
  <2>2. scan' \in 0 .. Len(Succ(presentName))' /\ scan' = 0
    <3>1. Succ(presentName)' \in Seq(States)
      BY TransitionsOK DEF Succ
    <3> QED
      BY <1>24, <3>1 DEF HandlerTransition
  <2> QED
    BY <1>24, <2>1, <2>2, Distinct DEF HandlerTransition, Goto, Inv, TypeOK,
      Places, Joining, Scanning, Counting, Alive, Pool, machineVars,
      historyVars, RunPoints, Idle, InPredicate, HandlerPoints
<1>25. ASSUME HandlerNoTransition PROVE Inv'
  <2>1. TypeOK'
    BY <1>25 DEF HandlerNoTransition, NextPredicate, Inv, TypeOK, Pool,
      machineVars, historyVars, RunPoints
  <2>2. Places'
    BY <1>25, Distinct DEF HandlerNoTransition, NextPredicate, Inv, TypeOK,
      Places, machineVars, HandlerPoints
  <2>3. Joining'
    BY <1>25 DEF HandlerNoTransition, NextPredicate, Inv, TypeOK, Joining,
      Alive, machineVars, Idle
  <2>4. Scanning' /\ Counting'
    BY <1>25, Distinct DEF HandlerNoTransition, NextPredicate, Inv, TypeOK,
      Scanning, Counting, InPredicate
  <2> QED
    BY <2>1, <2>2, <2>3, <2>4 DEF Inv
<1>26. ASSUME HandlerJoinsItself PROVE Inv'
  <2>1. TypeOK'
    BY <1>26 DEF HandlerJoinsItself, NextPredicate, Inv, TypeOK, Pool,
      machineVars, historyVars, StopPoints, RunPoints
  <2>2. Places'
    BY <1>26, Distinct DEF HandlerJoinsItself, NextPredicate, Inv, TypeOK,
      Places, machineVars, InPredicate, HandlerPoints
  <2>3. Joining'
    BY <1>26 DEF HandlerJoinsItself, NextPredicate, Inv, TypeOK, Joining,
      Alive, machineVars, Idle
  <2>4. Scanning' /\ Counting'
    BY <1>26, Distinct DEF HandlerJoinsItself, NextPredicate, Inv, TypeOK,
      Scanning, Counting, InPredicate
  <2> QED
    BY <2>1, <2>2, <2>3, <2>4 DEF Inv
<1>27. ASSUME NEW c \in Clients, PushBackFails(c) PROVE Inv'
  <2>1. excuses' \subseteq Mishaps
    BY <1>27 DEF PushBackFails, Inv, TypeOK, Mishaps
  <2>2. UNCHANGED <<machineVars, localVars, pc, dying, stopped>> /\ process' = "terminate"
    BY <1>27 DEF PushBackFails
  <2> QED
    BY <2>1, <2>2, EndKeepsInv DEF Ends
<1>28. ASSUME NEW t \in Threads, StopJoinable(t) PROVE Inv'
  <2>1. CASE pStateHandlerThread = "null"
    BY <1>28, <2>1, EndKeepsInv DEF StopJoinable, Inv, TypeOK, historyVars, Ends
  <2>2. CASE pStateHandlerThread # "null"
    <3>1. TypeOK'
      <4>1. /\ pc' \in [Threads -> StartPoints \cup StopPoints \cup RunPoints \cup Idle]
            /\ process' \in {process, "terminate", "destroyed"}
        BY <1>28, <2>2 DEF StopJoinable, Return, Inv, TypeOK, StopPoints, RunPoints,
          Idle
      <4>2. UNCHANGED <<machineVars, localVars, dying, historyVars>>
        BY <1>28 DEF StopJoinable
      <4> QED
        BY <4>1, <4>2 DEF Inv, TypeOK, Pool, Succ, machineVars, localVars,
          historyVars, Ends
    <3>2. Places'
      BY <1>28, <2>2, Distinct DEF StopJoinable, Return, Inv, TypeOK, Places,
        machineVars, StopPoints, Idle, InPredicate, HandlerPoints, WorkerPoints,
        Threads
    <3>3. Joining'
      BY <1>28, <2>2, Distinct DEF StopJoinable, Return, Inv, TypeOK, Joining,
        Alive, machineVars, Idle
    <3>4. Scanning' /\ Counting'
      BY <1>28, <2>2, Distinct DEF StopJoinable, Return, Inv, TypeOK, Scanning,
        Counting, localVars, InPredicate
    <3> QED
      BY <3>1, <3>2, <3>3, <3>4 DEF Inv
  <2> QED
    BY <2>1, <2>2
<1>29. ASSUME HandlerEnqueueFails PROVE Inv'
  <2>1. TypeOK'
    BY <1>29, Distinct DEF HandlerEnqueueFails, Goto, Inv, TypeOK, Pool,
      machineVars, localVars, historyVars, RunPoints
  <2>2. Places'
    BY <1>29, Distinct DEF HandlerEnqueueFails, Goto, Inv, Places, machineVars,
      InPredicate, HandlerPoints
  <2>3. Joining'
    BY <1>29 DEF HandlerEnqueueFails, Goto, Inv, Joining, Alive, machineVars, Idle
  <2>4. Scanning' /\ Counting'
    BY <1>29 DEF HandlerEnqueueFails, Goto, Inv, Scanning, Counting, localVars,
      InPredicate
  <2> QED
    BY <2>1, <2>2, <2>3, <2>4 DEF Inv
<1>30. ASSUME HandlerEnqueueThrows PROVE Inv'
  <2>1. excuses' \subseteq Mishaps
    BY <1>30 DEF HandlerEnqueueThrows, Inv, TypeOK, Mishaps
  <2>2. UNCHANGED <<machineVars, localVars, pc, dying, stopped>> /\ process' = "terminate"
    BY <1>30 DEF HandlerEnqueueThrows
  <2> QED
    BY <2>1, <2>2, EndKeepsInv DEF Ends
<1> QED
  BY <1>1, <1>2, <1>3, <1>4, <1>5, <1>6, <1>7, <1>8, <1>9, <1>10, <1>11, <1>12,
    <1>13, <1>14, <1>15, <1>16, <1>17, <1>18, <1>19, <1>20, <1>21, <1>22,
    <1>23, <1>24, <1>25, <1>26, <1>27, <1>28, <1>29, <1>30 DEF Next, Starting, Stopping,
    Worker, HandlerStep

LEMMA StutterKeepsInv ==
  ASSUME Inv, UNCHANGED vars
  PROVE  Inv'
BY DEF vars, machineVars, localVars, historyVars, Inv, TypeOK, Places, Joining,
  Scanning, Counting, Alive, Pool

LEMMA InitHasInv ==
  ASSUME Init
  PROVE  Inv
<1>1. Pool = {} /\ Len(mEventThreadPool) = 0 /\ mEventThreadPool \in Seq(Workers)
  BY DEF Init, Pool
<1>2. Cardinality({}) = 0
  BY FS_EmptySet
<1>3. Succ(presentName) = <<>>
  BY NullIsNoName DEF Init, Succ
<1>4. TypeOK
  <2>1. 0 \in 0 .. PoolSize /\ 0 \in 0 .. Len(<<>>)
    BY SizesAreNat
  <2>2. count \in [Clients -> 0 .. PoolSize] /\ scan \in 0 .. Len(Succ(presentName))
    BY <1>3, <2>1 DEF Init
  <2>3. Len(mEventThreadPool) = Cardinality(Pool)
    BY <1>1, <1>2
  <2> QED
    BY <1>1, <2>2, <2>3 DEF Init, TypeOK, Idle
<1>5. \A t \in Threads : pc[t] = "none"
  BY DEF Init
<1>6. Places /\ Joining /\ Counting
  BY <1>5, Distinct DEF Places, Joining, Counting, Alive, Idle, WorkerPoints,
    HandlerPoints
<1>7. Scanning
  BY <1>5, Distinct DEF Scanning, InPredicate, Init
<1> QED
  BY <1>4, <1>6, <1>7 DEF Inv

(* Every variable keeps its type: no worker is spawned twice, and the      *)
(* handler never follows a transition that the map does not have.          *)
THEOREM TypeCorrect == Spec => []TypeOK
<1>1. Inv /\ [Next]_vars => Inv'
  BY NextKeepsInv, StutterKeepsInv
<1>2. Inv => TypeOK
  BY DEF Inv
<1> QED
  BY <1>1, <1>2, InitHasInv, PTL DEF Spec

--------------------------------------------------------------------------------
(* With one client.                                                        *)

Spawning == {"pool", "handler", "activate"}

(* Once stop() has returned true nothing runs, because it has seen the     *)
(* handler exit before it waits for the workers.                           *)
Quiet(c) ==
  /\ StopQuiesces
  /\ stopped => pc[c] \notin Spawning
  /\ pc[c] = "stop.pool" => ~Alive(Handler)
  /\ pc[c] \in StopPoints => ~mIsActive

(* As long as only the client stops the machine, a handler that it has     *)
(* spawned is there for it to join.                                        *)
StoppedByClient(c) ==
  "callbackStopped" \notin excuses =>
    /\ \A t \in MachineThreads : pc[t] \notin StopPoints
    /\ mIsActive \/ pc[c] \in {"activate", "stop.join"}
         => pStateHandlerThread = "joinable"
    /\ pc[c] = "stop.joinable" => pStateHandlerThread # "null"
    /\ process # "undefined"

(* As long as no start() fails either, between stop() and start() there    *)
(* are neither a handler nor workers to join.                              *)
CleanlyStopped(c) ==
  excuses = {} =>
    /\ process \notin {"assert", "terminate"}
    /\ pc[c] \in {"pool", "handler", "stop.pool"} => pStateHandlerThread = "null"
    /\ ~mIsActive /\ pc[c] \in {"none", "active?"} => pStateHandlerThread = "null"
    /\ pStateHandlerThread = "joined" => pc[c] = "stop.clear"
    /\ pStateHandlerThread = "null" /\ pc[c] \notin {"pool", "handler", "stop.pool"}
         => unjoined = {}

OneInv(c) == Quiet(c) /\ StoppedByClient(c) /\ CleanlyStopped(c)

(* A thread of the machine that runs goes on, outside of stop().           *)
LEMMA MachineThreadMoves ==
  ASSUME NEW c, Clients = {c}, Inv, OneInv(c),
         NEW t \in MachineThreads, Alive(t),
         NEW p, p \notin StopPoints, pc' = [pc EXCEPT ![t] = p],
         UNCHANGED <<mIsActive, pStateHandlerThread, mEventThreadPool, unjoined,
                     process, stopped, excuses>>
  PROVE  OneInv(c)'
<1>1. pc'[t] = p /\ \A s \in Threads : s # t => pc'[s] = pc[s]
  BY Moved, Distinct DEF Inv, MachineThreads
<1>2. pc'[c] = pc[c]
  BY <1>1, Distinct DEF MachineThreads
<1>3. ~stopped
  BY DEF OneInv, Quiet, StopQuiesces
<1>4. Quiet(c)'
  BY <1>1, <1>2, <1>3 DEF OneInv, Quiet, StopQuiesces, Alive
<1>5. StoppedByClient(c)'
  BY <1>1, <1>2 DEF OneInv, StoppedByClient, Pool
<1>6. CleanlyStopped(c)'
  BY <1>2 DEF OneInv, CleanlyStopped
<1> QED
  BY <1>4, <1>5, <1>6 DEF OneInv

(* The process ends by an exception.                                       *)
LEMMA TerminateKeepsOneInv ==
  ASSUME NEW c, OneInv(c), process' = "terminate", excuses' # {},
         "callbackStopped" \in excuses' <=> "callbackStopped" \in excuses,
         UNCHANGED <<machineVars, pc, stopped>>
  PROVE  OneInv(c)'
BY DEF OneInv, Quiet, StopQuiesces, StoppedByClient, CleanlyStopped, Alive,
  machineVars

LEMMA NextKeepsOneInv ==
  ASSUME NEW c, Clients = {c}, Inv, OneInv(c), Next
  PROVE  OneInv(c)'
<1>1. ASSUME NEW n \in Names, SetInitialState(c, n) PROVE OneInv(c)'
  <2>1. Quiet(c)'
    BY <1>1 DEF SetInitialState, OneInv, Quiet, StopQuiesces, Alive,
      historyVars
  <2>2. StoppedByClient(c)'
    BY <1>1 DEF SetInitialState, WriteName, OneInv, StoppedByClient, historyVars
  <2>3. CleanlyStopped(c)'
    BY <1>1 DEF SetInitialState, WriteName, OneInv, CleanlyStopped, historyVars
  <2> QED
    BY <2>1, <2>2, <2>3 DEF OneInv
<1>2. ASSUME NEW n \in Names, StartAt(c, n) PROVE OneInv(c)'
  <2>1. Quiet(c)'
    BY <1>2, Distinct DEF StartAt, Goto, OneInv, Quiet, StopQuiesces, Alive,
      Spawning, historyVars, StopPoints, MachineThreads
  <2>2. StoppedByClient(c)'
    BY <1>2 DEF StartAt, WriteName, Goto, OneInv, StoppedByClient, historyVars,
      StopPoints
  <2>3. CleanlyStopped(c)'
    BY <1>2 DEF StartAt, WriteName, Goto, OneInv, CleanlyStopped, historyVars
  <2> QED
    BY <2>1, <2>2, <2>3 DEF OneInv
<1>3. ASSUME Start(c) PROVE OneInv(c)'
  <2>1. Quiet(c)'
    BY <1>3, Distinct DEF Start, Goto, OneInv, Quiet, StopQuiesces, Alive,
      Spawning, historyVars, StopPoints, MachineThreads
  <2>2. StoppedByClient(c)'
    BY <1>3 DEF Start, Goto, OneInv, StoppedByClient, Pool, machineVars,
      historyVars, StopPoints
  <2>3. CleanlyStopped(c)'
    BY <1>3 DEF Start, Goto, OneInv, CleanlyStopped, machineVars, historyVars
  <2> QED
    BY <2>1, <2>2, <2>3 DEF OneInv
<1>4. ASSUME CheckActive(c) PROVE OneInv(c)'
  <2>1. Quiet(c)'
    BY <1>4, Distinct DEF CheckActive, OneInv, Quiet, StopQuiesces, Alive,
      Spawning, Inv, TypeOK, StopPoints, MachineThreads
  <2>2. StoppedByClient(c)'
    BY <1>4, Distinct DEF CheckActive, OneInv, StoppedByClient, Inv, TypeOK,
      Pool, machineVars, MachineThreads
  <2>3. CleanlyStopped(c)'
    BY <1>4 DEF CheckActive, OneInv, CleanlyStopped, Inv, TypeOK, machineVars
  <2> QED
    BY <2>1, <2>2, <2>3 DEF OneInv
<1>5. ASSUME process = "running", SpawnWorker(c) PROVE OneInv(c)'
  <2>1. PICK w \in Workers \ Pool :
          /\ mEventThreadPool' = Append(mEventThreadPool, w)
          /\ unjoined' = unjoined \cup {w}
          /\ pc' = [pc EXCEPT ![w] = "while",
                              ![c] = IF count[c] + 1 = PoolSize THEN "handler" ELSE @]
    BY <1>5 DEF SpawnWorker
  <2>2. /\ pc[c] = "pool" /\ pc'[w] = "while" /\ pc'[c] \in {"pool", "handler"}
        /\ \A t \in Threads \ {w, c} : pc'[t] = pc[t]
    BY <1>5, <2>1, Distinct DEF SpawnWorker, Inv, TypeOK
  <2>3. UNCHANGED <<mIsActive, pStateHandlerThread, stopped, excuses>>
    BY <1>5 DEF SpawnWorker, historyVars
  <2>4. process' = process \/ "callbackStopped" \in excuses
    BY <1>5, <2>2 DEF SpawnWorker, OneInv, StoppedByClient, StopPoints,
      Threads, MachineThreads
  <2>5. Quiet(c)'
    BY <2>2, <2>3 DEF OneInv, Quiet, StopQuiesces, Spawning, StopPoints
  <2>6. StoppedByClient(c)'
    BY <1>5, <2>2, <2>3, <2>4, Distinct DEF OneInv, StoppedByClient,
      StopPoints, MachineThreads
  <2>7. CleanlyStopped(c)'
    BY <2>2, <2>3, <2>4 DEF OneInv, CleanlyStopped
  <2> QED
    BY <2>5, <2>6, <2>7 DEF OneInv
<1>6. ASSUME SpawnHandler(c) PROVE OneInv(c)'
  <2>1. Quiet(c)'
    BY <1>6, Distinct DEF SpawnHandler, OneInv, Quiet, StopQuiesces, Spawning,
      Inv, TypeOK, historyVars, StopPoints
  <2>2. StoppedByClient(c)'
    BY <1>6, Distinct DEF SpawnHandler, OneInv, StoppedByClient, Inv, TypeOK,
      Pool, historyVars, StopPoints, MachineThreads
  <2>3. CleanlyStopped(c)'
    BY <1>6, Distinct DEF SpawnHandler, OneInv, CleanlyStopped, Inv, TypeOK,
      historyVars
  <2> QED
    BY <2>1, <2>2, <2>3 DEF OneInv
<1>7. ASSUME AssertFails(c) PROVE OneInv(c)'
  <2>1. Quiet(c)'
    BY <1>7 DEF AssertFails, OneInv, Quiet, StopQuiesces, Alive, historyVars,
      StopPoints
  <2>2. StoppedByClient(c)'
    BY <1>7 DEF AssertFails, OneInv, StoppedByClient, machineVars, historyVars
  <2>3. CleanlyStopped(c)'
    BY <1>7 DEF AssertFails, OneInv, CleanlyStopped, historyVars
  <2> QED
    BY <2>1, <2>2, <2>3 DEF OneInv
<1>8. ASSUME Activate(c) PROVE OneInv(c)'
  <2>1. Quiet(c)'
    BY <1>8 DEF Activate, Goto, OneInv, Quiet, StopQuiesces, Spawning,
      historyVars, StopPoints
  <2>2. StoppedByClient(c)'
    BY <1>8 DEF Activate, Goto, OneInv, StoppedByClient, Pool, historyVars,
      StopPoints
  <2>3. CleanlyStopped(c)'
    BY <1>8 DEF Activate, Goto, OneInv, CleanlyStopped, historyVars
  <2> QED
    BY <2>1, <2>2, <2>3 DEF OneInv
<1>9. ASSUME SpawnFails(c) PROVE OneInv(c)'
  <2>1. Quiet(c)'
    BY <1>9 DEF SpawnFails, Goto, OneInv, Quiet, StopQuiesces, Spawning, Inv,
      TypeOK, StopPoints
  <2>2. StoppedByClient(c)'
    BY <1>9, Distinct DEF SpawnFails, Goto, OneInv, StoppedByClient, Inv,
      TypeOK, Pool, machineVars, MachineThreads
  <2>3. CleanlyStopped(c)'
    BY <1>9 DEF SpawnFails, CleanlyStopped
  <2> QED
    BY <2>1, <2>2, <2>3 DEF OneInv
<1>10. ASSUME NEW t \in Threads, process = "running", StopCall(t) PROVE OneInv(c)'
  <2>1. Quiet(c)'
    BY <1>10, Distinct DEF StopCall, OneInv, Quiet, StopQuiesces, Alive,
      Spawning, Idle, MachineThreads
  <2>2. StoppedByClient(c)'
    BY <1>10, Distinct DEF StopCall, OneInv, StoppedByClient, MachineThreads
  <2>3. CleanlyStopped(c)'
    BY <1>10 DEF StopCall, OneInv, CleanlyStopped, Inv, TypeOK
  <2> QED
    BY <2>1, <2>2, <2>3 DEF OneInv
<1>11. ASSUME NEW t \in Threads, process = "running", StopCheck(t) PROVE OneInv(c)'
  <2>1. Quiet(c)'
    BY <1>11, Distinct DEF StopCheck, Return, OneInv, Quiet, StopQuiesces,
      Alive, Spawning, Inv, TypeOK, Places, machineVars, historyVars,
      StartPoints, Idle, MachineThreads
  <2>2. StoppedByClient(c)'
    BY <1>11, Distinct DEF StopCheck, Return, OneInv, StoppedByClient, Inv,
      TypeOK, machineVars, historyVars, StopPoints, MachineThreads
  <2>3. CleanlyStopped(c)'
    BY <1>11, Distinct DEF StopCheck, Return, OneInv, CleanlyStopped, Inv,
      TypeOK, machineVars, historyVars
  <2> QED
    BY <2>1, <2>2, <2>3 DEF OneInv
<1>12. ASSUME NEW t \in Threads, process = "running", StopJoin(t) PROVE OneInv(c)'
  <2>1. Quiet(c)'
    BY <1>12 DEF StopJoin, Goto, OneInv, Quiet, StopQuiesces, Alive, Spawning,
      historyVars, StopPoints, Idle
  <2>2. StoppedByClient(c)'
    <3>1. SUFFICES ASSUME "callbackStopped" \notin excuses PROVE StoppedByClient(c)'
      BY <1>12 DEF StopJoin, StoppedByClient, historyVars
    <3>2. pc[t] = "stop.join" /\ pc' = [pc EXCEPT ![t] = "stop.clear"]
      BY <1>12 DEF StopJoin, Goto
    <3>3. t = c
      BY <3>1, <3>2, <1>12 DEF OneInv, StoppedByClient, StopPoints, MachineThreads,
        Threads
    <3>4. pc'[c] = "stop.clear" /\ \A s \in Threads : s # c => pc'[s] = pc[s]
      BY <3>2, <3>3, Moved, <1>12 DEF Inv
    <3>5. ~mIsActive
      BY <3>2, <3>3 DEF OneInv, Quiet, StopPoints
    <3>6. UNCHANGED <<mIsActive, mEventThreadPool, process, excuses>>
      BY <1>12 DEF StopJoin, historyVars
    <3> QED
      BY <3>1, <3>4, <3>5, <3>6, Distinct DEF OneInv, StoppedByClient, Pool,
        MachineThreads
  <2>3. CleanlyStopped(c)'
    BY <1>12 DEF StopJoin, Goto, OneInv, StoppedByClient, CleanlyStopped, Inv,
      TypeOK, historyVars, StopPoints, Threads, MachineThreads
  <2> QED
    BY <2>1, <2>2, <2>3 DEF OneInv
<1>13. ASSUME NEW t \in Threads, StopJoinTwice(t) PROVE OneInv(c)'
  <2>1. Quiet(c)'
    BY <1>13 DEF StopJoinTwice, OneInv, Quiet, StopQuiesces, Alive,
      machineVars, historyVars
  <2>2. StoppedByClient(c)'
    BY <1>13 DEF StopJoinTwice, OneInv, StoppedByClient, historyVars,
      StopPoints, Threads, MachineThreads
  <2>3. CleanlyStopped(c)'
    BY <1>13 DEF StopJoinTwice, OneInv, CleanlyStopped, machineVars,
      historyVars
  <2> QED
    BY <2>1, <2>2, <2>3 DEF OneInv
<1>14. ASSUME NEW t \in Threads, StopClear(t) PROVE OneInv(c)'
  <2>1. Quiet(c)'
    BY <1>14 DEF StopClear, Goto, OneInv, Quiet, StopQuiesces, Alive, Spawning,
      Inv, Places, Joining, historyVars, StartPoints, Idle
  <2>2. StoppedByClient(c)'
    <3>1. SUFFICES ASSUME "callbackStopped" \notin excuses PROVE StoppedByClient(c)'
      BY <1>14 DEF StopClear, StoppedByClient, historyVars
    <3>2. pc[t] = "stop.clear" /\ pc' = [pc EXCEPT ![t] = "stop.pool"]
      BY <1>14 DEF StopClear, Goto
    <3>3. t = c
      BY <3>1, <3>2 DEF OneInv, StoppedByClient, StopPoints, MachineThreads,
        Threads
    <3>4. pc'[c] = "stop.pool" /\ \A s \in Threads : s # c => pc'[s] = pc[s]
      BY <3>2, <3>3, Moved DEF Inv
    <3>5. ~mIsActive
      BY <3>2, <3>3 DEF OneInv, Quiet, StopPoints
    <3>6. UNCHANGED <<mIsActive, mEventThreadPool, process, excuses>>
      BY <1>14 DEF StopClear, historyVars
    <3> QED
      BY <3>1, <3>4, <3>5, <3>6, Distinct DEF OneInv, StoppedByClient,
        MachineThreads
  <2>3. CleanlyStopped(c)'
    BY <1>14, Distinct DEF StopClear, Goto, OneInv, CleanlyStopped, Inv,
      TypeOK, Joining, historyVars
  <2> QED
    BY <2>1, <2>2, <2>3 DEF OneInv
<1>15. ASSUME NEW t \in Threads, process = "running", StopPool(t) PROVE OneInv(c)'
  <2>1. Quiet(c)'
    BY <1>15 DEF StopPool, Return, OneInv, Quiet, StopQuiesces, Alive,
      Spawning, Inv, Places, StopPoints, Idle, InPredicate, HandlerPoints,
      Threads, MachineThreads
  <2>2. StoppedByClient(c)'
    BY <1>15 DEF StopPool, Return, OneInv, StoppedByClient, StopPoints
  <2>3. CleanlyStopped(c)'
    BY <1>15 DEF StopPool, Return, OneInv, CleanlyStopped
  <2> QED
    BY <2>1, <2>2, <2>3 DEF OneInv
<1>16. ASSUME NEW t \in Threads, StopPoolThrows(t) PROVE OneInv(c)'
  <2>1. Quiet(c)'
    BY <1>16, Distinct DEF StopPoolThrows, Goto, OneInv, Quiet, StopQuiesces,
      Alive, Inv, TypeOK, historyVars, Idle
  <2>2. StoppedByClient(c)'
    BY <1>16 DEF StopPoolThrows, Goto, OneInv, StoppedByClient, Pool,
      historyVars, StopPoints
  <2>3. CleanlyStopped(c)'
    BY <1>16, Distinct DEF StopPoolThrows, Goto, OneInv, CleanlyStopped, Inv,
      TypeOK, historyVars
  <2> QED
    BY <2>1, <2>2, <2>3 DEF OneInv
<1>17. ASSUME NEW w \in Workers, WorkerWhile(w) PROVE OneInv(c)'
  BY <1>17, MachineThreadMoves DEF WorkerWhile, Goto, Alive, Idle, StopPoints,
    MachineThreads, machineVars, historyVars
<1>18. ASSUME NEW w \in Workers, WorkerDequeues(w) PROVE OneInv(c)'
  BY <1>18, MachineThreadMoves DEF WorkerDequeues, Goto, Alive, Idle,
    StopPoints, MachineThreads, historyVars
<1>19. ASSUME NEW w \in Workers, WorkerYields(w) PROVE OneInv(c)'
  BY <1>19, MachineThreadMoves DEF WorkerYields, Goto, Alive, Idle, StopPoints,
    MachineThreads, machineVars, historyVars
<1>20. ASSUME NEW w \in Workers, WorkerEventEnds(w) PROVE OneInv(c)'
  BY <1>20, MachineThreadMoves DEF WorkerEventEnds, Goto, Alive, Idle,
    StopPoints, MachineThreads, machineVars, historyVars
<1>21. ASSUME HandlerInit PROVE OneInv(c)'
  BY <1>21, MachineThreadMoves DEF HandlerInit, Goto, Alive, Idle, StopPoints,
    MachineThreads, machineVars, historyVars
<1>22. ASSUME HandlerWhile PROVE OneInv(c)'
  BY <1>22, MachineThreadMoves DEF HandlerWhile, Goto, Alive, Idle, StopPoints,
    MachineThreads, machineVars, historyVars
<1>23. ASSUME HandlerEnqueue PROVE OneInv(c)'
  BY <1>23, MachineThreadMoves DEF HandlerEnqueue, Goto, Alive, Idle,
    StopPoints, MachineThreads, historyVars
<1>24. ASSUME HandlerTransition PROVE OneInv(c)'
  BY <1>24, MachineThreadMoves DEF HandlerTransition, Goto, Alive, Idle,
    StopPoints, MachineThreads, machineVars, historyVars
<1>25. ASSUME HandlerNoTransition PROVE OneInv(c)'
  BY <1>25, MachineThreadMoves DEF HandlerNoTransition, NextPredicate, Alive,
    Idle, StopPoints, MachineThreads, machineVars, historyVars
<1>26. ASSUME HandlerJoinsItself PROVE OneInv(c)'
  BY <1>26, MachineThreadMoves DEF HandlerJoinsItself, NextPredicate, Alive,
    Idle, StopPoints, MachineThreads, machineVars, historyVars
<1>27. ASSUME PushBackFails(c) PROVE OneInv(c)'
  <2>1. excuses' # {} /\ ("callbackStopped" \in excuses' <=> "callbackStopped" \in excuses)
    BY <1>27 DEF PushBackFails
  <2>2. UNCHANGED <<machineVars, pc, stopped>> /\ process' = "terminate"
    BY <1>27 DEF PushBackFails
  <2> QED
    BY <2>1, <2>2, TerminateKeepsOneInv
<1>28. ASSUME NEW t \in Threads, process = "running", StopJoinable(t) PROVE OneInv(c)'
  <2>1. Quiet(c)'
    BY <1>28, Distinct DEF StopJoinable, Return, OneInv, Quiet, StopQuiesces,
      Alive, Spawning, Inv, TypeOK, Places, machineVars, historyVars,
      StartPoints, Idle, MachineThreads
  <2>2. StoppedByClient(c)'
    <3>1. SUFFICES ASSUME "callbackStopped" \notin excuses PROVE StoppedByClient(c)'
      BY <1>28 DEF StopJoinable, StoppedByClient, historyVars
    <3>2. t = c
      BY <1>28, <3>1 DEF StopJoinable, OneInv, StoppedByClient, StopPoints,
        MachineThreads, Threads
    <3>3. pStateHandlerThread # "null"
      BY <1>28, <3>1, <3>2 DEF StopJoinable, OneInv, StoppedByClient
    <3> QED
      BY <1>28, <3>1, <3>2, <3>3, Distinct DEF StopJoinable, Return, OneInv,
        StoppedByClient, Inv, TypeOK, machineVars, historyVars, StopPoints,
        MachineThreads
  <2>3. CleanlyStopped(c)'
    <3>1. SUFFICES ASSUME excuses = {} PROVE CleanlyStopped(c)'
      BY <1>28 DEF StopJoinable, CleanlyStopped, historyVars
    <3>2. t = c /\ pStateHandlerThread = "joinable"
      BY <1>28, <3>1 DEF StopJoinable, OneInv, StoppedByClient, CleanlyStopped,
        StopPoints, MachineThreads, Threads, Inv, TypeOK
    <3> QED
      BY <1>28, <3>1, <3>2 DEF StopJoinable, OneInv, CleanlyStopped, Inv, TypeOK,
        machineVars, historyVars
  <2> QED
    BY <2>1, <2>2, <2>3 DEF OneInv
<1>29. ASSUME HandlerEnqueueFails PROVE OneInv(c)'
  BY <1>29, MachineThreadMoves DEF HandlerEnqueueFails, Goto, Alive, Idle,
    StopPoints, MachineThreads, machineVars, historyVars
<1>30. ASSUME HandlerEnqueueThrows PROVE OneInv(c)'
  <2>1. excuses' # {} /\ ("callbackStopped" \in excuses' <=> "callbackStopped" \in excuses)
    BY <1>30 DEF HandlerEnqueueThrows
  <2>2. UNCHANGED <<machineVars, pc, stopped>> /\ process' = "terminate"
    BY <1>30 DEF HandlerEnqueueThrows
  <2> QED
    BY <2>1, <2>2, TerminateKeepsOneInv
<1> QED
  BY <1>1, <1>2, <1>3, <1>4, <1>5, <1>6, <1>7, <1>8, <1>9, <1>10, <1>11, <1>12,
    <1>13, <1>14, <1>15, <1>16, <1>17, <1>18, <1>19, <1>20, <1>21, <1>22,
    <1>23, <1>24, <1>25, <1>26, <1>27, <1>28, <1>29, <1>30 DEF Next, Starting, Stopping,
    Worker, HandlerStep

LEMMA StutterKeepsOneInv ==
  ASSUME NEW c, OneInv(c), UNCHANGED vars
  PROVE  OneInv(c)'
BY DEF vars, machineVars, historyVars, OneInv, Quiet, StopQuiesces,
  StoppedByClient, CleanlyStopped, Alive, Pool

LEMMA InitHasOneInv ==
  ASSUME NEW c, Clients = {c}, Init
  PROVE  OneInv(c)
BY Distinct DEF Init, OneInv, Quiet, StopQuiesces, StoppedByClient,
  CleanlyStopped, StopPoints, MachineThreads

LEMMA OneInvAlways ==
  ASSUME NEW c, Clients = {c}
  PROVE  Spec => [](Inv /\ OneInv(c))
<1>1. Inv /\ OneInv(c) /\ [Next]_vars => (Inv /\ OneInv(c))'
  BY NextKeepsInv, StutterKeepsInv, NextKeepsOneInv, StutterKeepsOneInv
<1>2. Init => Inv /\ OneInv(c)
  BY InitHasInv, InitHasOneInv
<1> QED
  BY <1>1, <1>2, PTL DEF Spec

(* When stop() has returned true no thread of the machine runs, nor will   *)
(* one before the next start().                                            *)
THEOREM StopQuiescesAlways ==
  ASSUME NEW c, Clients = {c}
  PROVE  Spec => []StopQuiesces
<1>1. OneInv(c) => StopQuiesces
  BY DEF OneInv, Quiet
<1> QED
  BY <1>1, OneInvAlways, PTL

(* An active machine can be stopped.                                       *)
THEOREM ActiveIsStoppableAlways ==
  ASSUME NEW c, Clients = {c}
  PROVE  Spec => []ActiveIsStoppable
<1>1. OneInv(c) => ActiveIsStoppable
  BY DEF OneInv, StoppedByClient, ActiveIsStoppable
<1> QED
  BY <1>1, OneInvAlways, PTL

(* Machine and process end as they should, unless a start() failed, an     *)
(* event could not be copied, or a predicate or event called stop().       *)
THEOREM EndsWellAlways ==
  ASSUME NEW c, Clients = {c}
  PROVE  Spec => []EndsWell
<1>1. OneInv(c) => EndsWell
  BY DEF OneInv, StoppedByClient, CleanlyStopped, EndsWell
<1> QED
  BY <1>1, OneInvAlways, PTL

--------------------------------------------------------------------------------
(***************************************************************************)
(* The network of devices.                                                 *)
(***************************************************************************)

Processing == {"input", "output", "state", "events"}
Reading == {"empty?", "empty.lock", "dequeue?", "dequeue.lock", "try_dequeue"}

Shape ==
  /\ pOutputQueue \in [Devices -> Seq(Inputs)]
  /\ head \in [Devices -> Nat]
  /\ pEventQueue \in [Devices -> SUBSET (Inputs \X Nat)]

(* A reader that has passed its first expired() is connected.              *)
Connected(d) == place[d] \in Reading => source[d] \in Devices

(* The events published so far, while the loop over the list is running:   *)
(* all of them, unless the output was kept back or the queue refused one.  *)
Counted(d) ==
  /\ place[d] # "events" => event[d] = 0
  /\ place[d] = "events" =>
       \/ {input[d]} \X (1 .. event[d]) \subseteq pEventQueue[d]
       \/ input[d] \in cutShort[d]
       \/ input[d] \notin Published(d)

(* An output whose events are missing: read() is past it, or was cut short.*)
Explained(d) ==
  \A v \in Published(d) :
    \/ Announced(d, v)
    \/ v \in cutShort[d]
    \/ place[d] \in {"state", "events"} /\ v = input[d]

(* A message that was handed to some device before.                        *)
Old(v) ==
  v \in Messages =>
    \/ v[1] = App /\ v[2] <= given
    \/ v[1] \in Devices /\ v[2] <= head[v[1]]

NetInv ==
  /\ NetTypeOK /\ Shape
  /\ \A d \in Devices :
       /\ Connected(d) /\ Counted(d) /\ Explained(d)
       /\ \A v \in Handled(d) : Old(v)
  /\ ReachesOneReader

--------------------------------------------------------------------------------
(* What d does is nothing to the other devices, but for what it takes.     *)
Still(e) ==
  /\ place'[e] = place[e] /\ input'[e] = input[e] /\ event'[e] = event[e]
  /\ pOutputQueue'[e] = pOutputQueue[e] /\ pEventQueue'[e] = pEventQueue[e]
  /\ mCurrentState'[e] = mCurrentState[e] /\ cutShort'[e] = cutShort[e]

OthersStill(d) == \A e \in Devices \ {d} : Still(e)

(* What is said of a device that is left alone stays true.                 *)
LEMMA StillSame ==
  ASSUME NEW e \in Devices, Still(e)
  PROVE  /\ Handled(e)' = Handled(e)
         /\ Counted(e) => Counted(e)'
         /\ Explained(e) => Explained(e)'
<1>1. Published(e)' = Published(e) /\ InProgress(e)' = InProgress(e)
  BY DEF Still, Published, InProgress
<1>2. \A v : Announced(e, v)' <=> Announced(e, v)
  BY DEF Still, Announced
<1>3. Handled(e)' = Handled(e)
  BY <1>1 DEF Still, Handled
<1>4. Counted(e) => Counted(e)'
  BY <1>1 DEF Still, Counted
<1>5. Explained(e) => Explained(e)'
  BY <1>1, <1>2 DEF Still, Explained
<1> QED
  BY <1>3, <1>4, <1>5

(* A step of d that hands no message to a device keeps the invariant, if   *)
(* it keeps what is said of d itself.                                      *)
LEMMA NothingNew ==
  ASSUME NetInv, NEW d \in Devices, OthersStill(d), UNCHANGED head, given' = given,
         NetTypeOK', Shape', \A e \in Devices : Connected(e)',
         Counted(d)', Explained(d)',
         Handled(d)' \subseteq Handled(d) \cup {Default}
  PROVE  NetInv'
<1>1. \A e \in Devices \ {d} : Still(e)
  BY DEF OthersStill
<1>2. \A e \in Devices : Counted(e)' /\ Explained(e)'
  BY <1>1, StillSame DEF NetInv
<1>3. \A e \in Devices : Handled(e)' \subseteq Handled(e) \cup {Default}
  BY <1>1, StillSame
<1>4. \A v : Old(v) => Old(v)'
  BY DEF Old
<1>5. \A e \in Devices : \A v \in Handled(e)' : Old(v)'
  <2> SUFFICES ASSUME NEW e \in Devices, NEW v \in Handled(e)' PROVE Old(v)'
    OBVIOUS
  <2>1. CASE v \in Handled(e)
    BY <2>1, <1>4 DEF NetInv
  <2>2. CASE v = Default
    BY <2>2, DefaultIsNoMessage DEF Old
  <2> QED
    BY <1>3, <2>1, <2>2
<1>6. ReachesOneReader'
  BY <1>3, DefaultIsNoMessage DEF NetInv, ReachesOneReader
<1> QED
  BY <1>2, <1>5, <1>6 DEF NetInv

(* A step that hands d the message m, which no device has had.             *)
LEMMA HandedNew ==
  ASSUME NetInv, NEW d \in Devices, OthersStill(d), NEW m,
         NetTypeOK', Shape', \A e \in Devices : Connected(e)',
         Counted(d)', Explained(d)',
         ~Old(m), Old(m)', \A v : Old(v) => Old(v)',
         Handled(d)' \subseteq Handled(d) \cup {m}
  PROVE  NetInv'
<1>1. \A e \in Devices \ {d} : Still(e)
  BY DEF OthersStill
<1>2. \A e \in Devices : Counted(e)' /\ Explained(e)'
  BY <1>1, StillSame DEF NetInv
<1>3. \A e \in Devices \ {d} : Handled(e)' = Handled(e)
  BY <1>1, StillSame
<1>4. \A e \in Devices : m \notin Handled(e)
  BY DEF NetInv
<1>5. \A e \in Devices : \A v \in Handled(e)' : Old(v)'
  BY <1>3 DEF NetInv
<1>6. ReachesOneReader'
  <2> SUFFICES ASSUME NEW e \in Devices, NEW f \in Devices, e # f,
                      NEW v \in Messages, v \in Handled(e)', v \in Handled(f)'
               PROVE  FALSE
    BY DEF ReachesOneReader
  <2>1. v # m
    BY <1>3, <1>4
  <2>2. v \in Handled(e) /\ v \in Handled(f)
    BY <1>3, <2>1
  <2> QED
    BY <2>2 DEF NetInv, ReachesOneReader
<1> QED
  BY <1>2, <1>5, <1>6 DEF NetInv

--------------------------------------------------------------------------------
(* The application, between the calls of read().                           *)
AppAction(d) ==
  \/ Construct(d) \/ Disconnect(d) \/ Destroy(d)
  \/ \E other \in Devices :
       MoveConstruct(d, other) \/ MoveAssign(d, other) \/ Swap(d, other) \/ Connect(d, other)

LEMMA AppStep ==
  ASSUME NetInv, NEW d \in Devices, AppAction(d)
  PROVE  NetInv'
<1>1. UNCHANGED <<queueVars, mCurrentState, readVars, given, cutShort, outcome>>
  BY DEF AppAction, Construct, Disconnect, Destroy, MoveConstruct, MoveAssign, Swap, Connect
<1>2. \A e \in Devices : Still(e)
  BY <1>1 DEF Still, queueVars, readVars
<1>3. front' \in [Devices -> BOOLEAN] /\ back' \in [Devices -> BOOLEAN]
  BY DEF NetInv, NetTypeOK, functionVars, AppAction, Construct, Disconnect, Destroy,
         MoveConstruct, MoveAssign, Swap, Connect
<1>4. life' \in [Devices -> {"none", "live", "gone"}]
  BY DEF NetInv, NetTypeOK, AppAction, Construct, Disconnect, Destroy,
         MoveConstruct, MoveAssign, Swap, Connect
<1>5. \/ UNCHANGED source
      \/ place[d] = "idle" /\ source' = [source EXCEPT ![d] = None]
      \/ \E other \in Devices : source' = [source EXCEPT ![d] = other]
  BY DEF AppAction, Construct, Disconnect, Destroy, MoveConstruct, MoveAssign, Swap,
         Connect, At
<1>6. source' \in [Devices -> Devices \cup {None}]
  BY <1>5 DEF NetInv, NetTypeOK
<1>7. NetTypeOK' /\ Shape'
  BY <1>1, <1>3, <1>4, <1>6 DEF NetInv, NetTypeOK, Shape, queueVars, readVars
<1>8. \A e \in Devices : Connected(e)'
  BY <1>1, <1>5 DEF NetInv, NetTypeOK, Connected, Reading, readVars
<1> QED
  BY <1>1, <1>2, <1>7, <1>8, StillSame, NothingNew DEF NetInv, OthersStill, queueVars

--------------------------------------------------------------------------------
(* read(), until it has an input.                                          *)
LEMMA LookStep ==
  ASSUME NetInv, NEW d \in Devices,
         ReadCheck(d) \/ ReadNullCall(d) \/ ReadEmpty(d) \/ ReadDequeue(d)
  PROVE  NetInv'
<1> USE DEF ReadCheck, ReadNullCall, ReadEmpty, ReadDequeue
<1>1. UNCHANGED <<life, functionVars, source, queueVars, mCurrentState, input, event,
                  given, cutShort>>
  BY DEF readVars
<1>2. place[d] \in Reading \cup {"idle"} /\ place' = [place EXCEPT ![d] = place'[d]]
       /\ place'[d] \in Reading \cup {"idle"}
  BY DEF NetInv, NetTypeOK, Reading, At, Proceed, readVars
<1>3. outcome' \in {"running", "segfault"}
  BY DEF NetInv, NetTypeOK
<1>4. NetTypeOK' /\ Shape'
  BY <1>1, <1>2, <1>3 DEF NetInv, NetTypeOK, Shape, functionVars, queueVars, Reading
<1>5. place'[d] \in Reading => source[d] \in Devices
  <2>1. CASE place[d] = "idle"
    BY <2>1 DEF NetInv, NetTypeOK, At, Proceed, Expired, Reading, readVars
  <2>2. CASE place[d] \in Reading
    BY <2>2 DEF NetInv, Connected
  <2> QED
    BY <1>2, <2>1, <2>2
<1>6. ASSUME NEW e \in Devices PROVE Connected(e)'
  <2>1. CASE e = d
    BY <1>1, <1>5, <2>1 DEF Connected
  <2>2. CASE e # d
    <3>1. place'[e] = place[e]
      BY <1>2, <2>2 DEF NetInv, NetTypeOK
    <3> QED
      BY <1>1, <3>1 DEF NetInv, Connected
  <2> QED
    BY <2>1, <2>2
<1>7. OthersStill(d)
  BY <1>1, <1>2 DEF NetInv, NetTypeOK, OthersStill, Still, queueVars
<1>8. Counted(d)' /\ Explained(d)'
  BY <1>1, <1>2 DEF NetInv, Counted, Explained, Published, Announced, queueVars, Reading
<1>9. Handled(d)' \subseteq Handled(d)
  BY <1>1, <1>2 DEF Handled, Published, InProgress, queueVars, Reading
<1> QED
  BY <1>1, <1>4, <1>6, <1>7, <1>8, <1>9, NothingNew DEF queueVars

(* dequeue() hands out InputT() when it finds nothing.                     *)
LEMMA MissStep ==
  ASSUME NetInv, NEW d \in Devices, ReadMiss(d)
  PROVE  NetInv'
<1> USE DEF ReadMiss, At, Proceed
<1>1. NetTypeOK' /\ Shape'
  BY DEF NetInv, NetTypeOK, Shape, functionVars, queueVars, Inputs
<1>2. OthersStill(d) /\ \A e \in Devices : Connected(e)'
  BY DEF NetInv, NetTypeOK, OthersStill, Still, queueVars, Connected, Reading
<1>3. place'[d] = "input" /\ input'[d] = Default
  BY DEF NetInv, NetTypeOK
<1>4. Counted(d)' /\ Explained(d)'
  BY <1>3 DEF NetInv, Counted, Explained, Published, Announced, queueVars
<1>5. Handled(d)' \subseteq Handled(d) \cup {Default}
  BY <1>3 DEF Handled, Published, InProgress, queueVars
<1> QED
  BY <1>1, <1>2, <1>4, <1>5, NothingNew DEF queueVars

(* The element that is taken is the first that no device has had.          *)
LEMMA HitStep ==
  ASSUME NetInv, NEW d \in Devices, ReadHit(d)
  PROVE  NetInv'
<1> USE DEF ReadHit, At, Proceed
<1>1. PICK u \in Devices : u = source[d] /\ head[u] < Len(pOutputQueue[u])
  BY DEF NetInv, Connected, Reading, Pending
<1>2. /\ head[u] + 1 \in 1 .. MaxOutputs /\ head[u] + 1 <= Len(pOutputQueue[u])
      /\ head[u] \in Nat
  BY <1>1, BoundsAreNat DEF NetInv, NetTypeOK
<1>3. <<u, head[u] + 1>> \in Messages
  BY <1>2 DEF Messages
<1>4. place'[d] = "input" /\ input'[d] = <<u, head[u] + 1>> /\ head' = [head EXCEPT ![u] = @ + 1]
  BY <1>1 DEF NetInv, NetTypeOK
<1>5. head' \in [Devices -> Nat] /\ \A e \in Devices : head'[e] \in 0 .. Len(pOutputQueue[e])
  BY <1>1, <1>2, <1>4 DEF NetInv, NetTypeOK, Shape
<1>6. NetTypeOK' /\ Shape'
  BY <1>1, <1>3, <1>4, <1>5 DEF NetInv, NetTypeOK, Shape, functionVars, Inputs
<1>7. OthersStill(d) /\ \A e \in Devices : Connected(e)'
  BY DEF NetInv, NetTypeOK, OthersStill, Still, Connected, Reading
<1>8. Counted(d)' /\ Explained(d)'
  BY <1>4 DEF NetInv, Counted, Explained, Published, Announced
<1>9. Handled(d)' \subseteq Handled(d) \cup {<<u, head[u] + 1>>}
  BY <1>4 DEF Handled, Published, InProgress
<1>10. PICK m : m = <<u, head[u] + 1>>
  OBVIOUS
<1>11. ~Old(m)
  BY <1>2, <1>3, <1>10, NamesAreDistinct DEF Old
<1>12. head'[u] = head[u] + 1 /\ \A e \in Devices : head[e] \in Nat /\ head'[e] >= head[e]
  BY <1>4 DEF NetInv, Shape
<1>13. \A v \in Messages : v[1] \in Devices /\ v[2] <= head[v[1]] => v[2] <= head'[v[1]]
  BY <1>5, <1>12, BoundsAreNat DEF Messages
<1>14. \A v : Old(v) => Old(v)'
  BY <1>13 DEF Old
<1>15. Old(m)'
  BY <1>10, <1>12 DEF Old
<1> QED
  BY <1>6, <1>7, <1>8, <1>9, <1>10, <1>11, <1>14, <1>15, HandedNew

--------------------------------------------------------------------------------
(* read(input).                                                            *)
(* A message that the application passes is a new one, too.                *)
LEMMA InputStep ==
  ASSUME NetInv, NEW d \in Devices, ReadInput(d)
  PROVE  NetInv'
<1> USE DEF ReadInput, At, Proceed
<1>1. given' = given + 1 /\ given \in Nat /\ given' \in 1 .. MaxInputs
  BY BoundsAreNat DEF NetInv, NetTypeOK
<1>2. <<App, given + 1>> \in Messages
  BY <1>1 DEF Messages
<1>3. place'[d] = "input" /\ input'[d] = <<App, given + 1>>
  BY <1>1 DEF NetInv, NetTypeOK
<1>4. NetTypeOK' /\ Shape'
  BY <1>1, <1>2 DEF NetInv, NetTypeOK, Shape, functionVars, queueVars, Inputs
<1>5. OthersStill(d) /\ \A e \in Devices : Connected(e)'
  BY DEF NetInv, NetTypeOK, OthersStill, Still, queueVars, Connected, Reading
<1>6. Counted(d)' /\ Explained(d)'
  BY <1>3 DEF NetInv, Counted, Explained, Published, Announced, queueVars
<1>7. Handled(d)' \subseteq Handled(d) \cup {<<App, given + 1>>}
  BY <1>3 DEF Handled, Published, InProgress, queueVars
<1>8. PICK m : m = <<App, given + 1>>
  OBVIOUS
<1>9. ~Old(m)
  BY <1>1, <1>2, <1>8, NamesAreDistinct DEF Old
<1>10. \A v : Old(v) => Old(v)'
  BY <1>1 DEF Old, queueVars, Messages
<1>11. Old(m)'
  BY <1>1, <1>8 DEF Old
<1> QED
  BY <1>4, <1>5, <1>6, <1>7, <1>8, <1>9, <1>10, <1>11, HandedNew

(* Whoever leaves read() begins the event list anew the next time.         *)
LEMMA LeaveTyped ==
  ASSUME NetInv, NEW d \in Devices, Leave(d)
  PROVE  /\ place' \in [Devices -> {"idle", "empty?", "empty.lock", "dequeue?",
                                   "dequeue.lock", "try_dequeue", "input", "output",
                                   "state", "events"}]
         /\ input' \in [Devices -> Inputs] /\ event' \in [Devices -> Nat]
         /\ \A e \in Devices : event'[e] <= EventCount[e]
<1>1. /\ place \in [Devices -> {"idle", "empty?", "empty.lock", "dequeue?",
                                "dequeue.lock", "try_dequeue", "input", "output",
                                "state", "events"}]
      /\ input \in [Devices -> Inputs] /\ event \in [Devices -> Nat]
      /\ \A e \in Devices : event[e] <= EventCount[e]
  BY DEF NetInv, NetTypeOK
<1>2. \A e \in Devices : EventCount[e] \in Nat
  BY ListsHaveLengths
<1>3. Default \in Inputs
  BY DEF Inputs
<1>4. place' \in [Devices -> {"idle", "empty?", "empty.lock", "dequeue?",
                             "dequeue.lock", "try_dequeue", "input", "output",
                             "state", "events"}]
  BY <1>1 DEF Leave, Proceed
<1>5. input' \in [Devices -> Inputs]
  BY <1>1, <1>3 DEF Leave
<1>6. event' \in [Devices -> Nat] /\ \A e \in Devices : event'[e] = IF e = d THEN 0 ELSE event[e]
  BY <1>1 DEF Leave
<1>7. \A e \in Devices : event'[e] <= EventCount[e]
  BY <1>1, <1>2, <1>6
<1> QED
  BY <1>4, <1>5, <1>6, <1>7

(* read() leaves before the output: nothing was published.                 *)
LEMMA RefuseStep ==
  ASSUME NetInv, NEW d \in Devices, Refuse(d)
  PROVE  NetInv'
<1> USE DEF Refuse, Leave, At, Proceed
<1>1. NetTypeOK' /\ Shape'
  BY LeaveTyped DEF NetInv, NetTypeOK, Shape, functionVars, queueVars
<1>2. OthersStill(d) /\ \A e \in Devices : Connected(e)'
  BY DEF NetInv, NetTypeOK, OthersStill, Still, queueVars, Connected, Reading
<1>3. place[d] = "input" /\ place'[d] = "idle" /\ event'[d] = 0
  BY DEF NetInv, NetTypeOK
<1>4. Counted(d)' /\ Explained(d)'
  BY <1>3 DEF NetInv, Counted, Explained, Published, Announced, queueVars
<1>5. Handled(d)' \subseteq Handled(d)
  BY <1>3 DEF Handled, Published, InProgress, queueVars
<1> QED
  BY <1>1, <1>2, <1>4, <1>5, NothingNew DEF queueVars

(* An exception after the output is what cutShort remembers.               *)
LEMMA FailStep ==
  ASSUME NetInv, NEW d \in Devices, Fail(d)
  PROVE  NetInv'
<1> USE DEF Leave, Proceed
<1>1. UNCHANGED <<life, front, back, source, pOutputQueue, head, pEventQueue,
                  mCurrentState, given, outcome>> /\ Leave(d)
  BY DEF Fail, functionVars, queueVars
<1>2. place[d] \in Processing /\ place'[d] = "idle" /\ input'[d] = Default /\ event'[d] = 0
  BY <1>1 DEF NetInv, NetTypeOK, Fail, Processing
<1>3. cutShort' = [cutShort EXCEPT ![d] = cutShort'[d]]
  BY DEF NetInv, NetTypeOK, Fail
<1>4. cutShort'[d] = cutShort[d] \cup Unannounced(d)
  BY DEF NetInv, NetTypeOK, Fail
<1>5. cutShort'[d] \in SUBSET Inputs
  BY <1>4 DEF NetInv, NetTypeOK, Unannounced
<1>6. NetTypeOK' /\ Shape'
  <2>1. cutShort' \in [Devices -> SUBSET Inputs]
    BY <1>3, <1>5 DEF NetInv, NetTypeOK
  <2> QED
    BY <1>1, <2>1, LeaveTyped DEF NetInv, NetTypeOK, Shape
<1>7. OthersStill(d) /\ \A e \in Devices : Connected(e)'
  BY <1>1, <1>3 DEF NetInv, NetTypeOK, OthersStill, Still, Connected, Reading
<1>8. Counted(d)' /\ Explained(d)'
  <2>1. Published(d)' = Published(d) /\ \A v : Announced(d, v)' <=> Announced(d, v)
    BY <1>1 DEF Published, Announced
  <2> QED
    BY <1>1, <1>2, <1>4, <2>1 DEF NetInv, Counted, Explained, Unannounced
<1>9. Handled(d)' \subseteq Handled(d)
  BY <1>1, <1>2 DEF Handled, Published, InProgress
<1> QED
  BY <1>1, <1>6, <1>7, <1>8, <1>9, NothingNew

(* The resolution and the state function, when they return.                *)
LEMMA MoveOnStep ==
  ASSUME NetInv, NEW d \in Devices, Resolve(d) \/ StateFunction(d)
  PROVE  NetInv'
<1>1. UNCHANGED <<life, front, back, source, pOutputQueue, head, pEventQueue,
                  mCurrentState, input, event, given, cutShort, outcome>>
  BY DEF Resolve, StateFunction, functionVars, queueVars
<1>2. \/ place[d] = "input" /\ place' = [place EXCEPT ![d] = "output"]
      \/ place[d] = "state" /\ place' = [place EXCEPT ![d] = "events"]
  BY DEF Resolve, StateFunction, At, Proceed
<1>3. NetTypeOK' /\ Shape'
  BY <1>1, <1>2 DEF NetInv, NetTypeOK, Shape
<1>4. OthersStill(d) /\ \A e \in Devices : Connected(e)'
  BY <1>1, <1>2 DEF NetInv, NetTypeOK, OthersStill, Still, Connected, Reading
<1>5. \/ place[d] = "input" /\ place'[d] = "output"
      \/ place[d] = "state" /\ place'[d] = "events"
  BY <1>2 DEF NetInv, NetTypeOK
<1>6. 1 .. 0 = {}
  OBVIOUS
<1>7. event[d] = 0
  BY <1>5 DEF NetInv, Counted
<1>8. Counted(d)'
  BY <1>1, <1>6, <1>7 DEF Counted
<1>9. Explained(d)'
  BY <1>1, <1>5 DEF NetInv, Explained, Published, Announced
<1>10. Handled(d)' \subseteq Handled(d)
  BY <1>1, <1>5 DEF Handled, Published, InProgress
<1> QED
  BY <1>1, <1>3, <1>4, <1>8, <1>9, <1>10, NothingNew

(* The output is about the input in hand, whose events are still to come.  *)
LEMMA OutputStep ==
  ASSUME NetInv, NEW d \in Devices, Output(d)
  PROVE  NetInv'
<1> USE DEF Output, At, Proceed
<1>1. UNCHANGED <<life, front, back, source, head, pEventQueue,
                  mCurrentState, input, event, given, cutShort, outcome>>
  BY DEF functionVars
<1>2. place[d] = "output" /\ place' = [place EXCEPT ![d] = "state"] /\ place'[d] = "state"
  BY DEF NetInv, NetTypeOK
<1>3. /\ pOutputQueue[d] \in Seq(Inputs) /\ Len(pOutputQueue[d]) \in Nat
      /\ input[d] \in Inputs /\ MaxOutputs \in Nat /\ head[d] \in 0 .. Len(pOutputQueue[d])
  BY BoundsAreNat DEF NetInv, NetTypeOK
<1>4. /\ pOutputQueue' = [pOutputQueue EXCEPT ![d] = pOutputQueue'[d]]
      /\ \/ pOutputQueue'[d] = pOutputQueue[d]
         \/ /\ pOutputQueue'[d] = Append(pOutputQueue[d], input[d])
            /\ Len(pOutputQueue[d]) < MaxOutputs
  BY DEF NetInv, Shape
<1>5. /\ pOutputQueue'[d] \in Seq(Inputs) /\ Len(pOutputQueue'[d]) <= MaxOutputs
      /\ head[d] \in 0 .. Len(pOutputQueue'[d])
      /\ {pOutputQueue'[d][i] : i \in DOMAIN pOutputQueue'[d]} \subseteq
           Published(d) \cup {input[d]}
  <2>1. CASE pOutputQueue'[d] = pOutputQueue[d]
    BY <1>3, <2>1 DEF NetInv, NetTypeOK, Published
  <2>2. CASE /\ pOutputQueue'[d] = Append(pOutputQueue[d], input[d])
             /\ Len(pOutputQueue[d]) < MaxOutputs
    BY <1>3, <2>2 DEF Published
  <2> QED
    BY <1>4, <2>1, <2>2
<1>6. pOutputQueue' \in [Devices -> Seq(Inputs)]
  BY <1>4, <1>5 DEF NetInv, Shape
<1>7. \A e \in Devices \ {d} : pOutputQueue'[e] = pOutputQueue[e]
  BY <1>4 DEF NetInv, Shape
<1>8. NetTypeOK' /\ Shape'
  BY <1>1, <1>2, <1>5, <1>6, <1>7 DEF NetInv, NetTypeOK, Shape
<1>9. OthersStill(d) /\ \A e \in Devices : Connected(e)'
  BY <1>1, <1>2, <1>7 DEF NetInv, NetTypeOK, OthersStill, Still, Connected, Reading
<1>10. Published(d)' \subseteq Published(d) \cup {input[d]}
  BY <1>5 DEF Published
<1>11. Counted(d)' /\ Explained(d)'
  BY <1>1, <1>2, <1>10 DEF NetInv, Counted, Explained, Announced
<1>12. Handled(d)' \subseteq Handled(d)
  BY <1>1, <1>2, <1>10 DEF Handled, InProgress
<1> QED
  BY <1>1, <1>8, <1>9, <1>11, <1>12, NothingNew

(* One more event about the input in hand.                                 *)
LEMMA EventStep ==
  ASSUME NetInv, NEW d \in Devices, EventFunction(d)
  PROVE  NetInv'
<1> USE DEF EventFunction, At
<1>1. UNCHANGED <<life, front, back, source, pOutputQueue, head,
                  mCurrentState, place, input, given, cutShort, outcome>>
  BY DEF functionVars
<1>2. /\ place[d] = "events" /\ event[d] \in Nat /\ event[d] + 1 \in 1 .. EventCount[d]
      /\ event' = [event EXCEPT ![d] = event[d] + 1] /\ event'[d] = event[d] + 1
      /\ input[d] \in Inputs
  <2>1. event \in [Devices -> Nat] /\ event[d] < EventCount[d] /\ input[d] \in Inputs
    BY DEF NetInv, NetTypeOK
  <2>2. EventCount[d] \in Nat
    BY ListsHaveLengths
  <2> QED
    BY <2>1, <2>2
<1>3. /\ pEventQueue' = [pEventQueue EXCEPT ![d] = @ \cup {<<input[d], event[d] + 1>>}]
      /\ pEventQueue'[d] = pEventQueue[d] \cup {<<input[d], event[d] + 1>>}
  BY <1>2 DEF NetInv, Shape
<1>4. pEventQueue' \in [Devices -> SUBSET (Inputs \X Nat)]
  BY <1>2, <1>3 DEF NetInv, Shape
<1>5. \A e \in Devices : pEventQueue'[e] \subseteq Inputs \X (1 .. EventCount[e])
  BY <1>2, <1>3 DEF NetInv, NetTypeOK, Shape
<1>6. event' \in [Devices -> Nat] /\ \A e \in Devices : event'[e] <= EventCount[e]
  BY <1>2, ListsHaveLengths DEF NetInv, NetTypeOK
<1>7. NetTypeOK' /\ Shape'
  BY <1>1, <1>4, <1>5, <1>6 DEF NetInv, NetTypeOK, Shape
<1>8. OthersStill(d) /\ \A e \in Devices : Connected(e)'
  BY <1>1, <1>2, <1>3 DEF NetInv, NetTypeOK, Shape, OthersStill, Still, Connected
<1>9. 1 .. (event[d] + 1) \subseteq (1 .. event[d]) \cup {event[d] + 1}
  BY <1>2
<1>10. Counted(d)'
  <2>1. Published(d)' = Published(d)
    BY <1>1 DEF Published
  <2> QED
    BY <1>1, <1>2, <1>3, <1>9, <2>1 DEF NetInv, Counted
<1>11. Explained(d)'
  BY <1>1, <1>3 DEF NetInv, Explained, Published, Announced
<1>12. Handled(d)' \subseteq Handled(d)
  BY <1>1, <1>2, <1>3 DEF Handled, Published, InProgress
<1> QED
  BY <1>1, <1>7, <1>8, <1>10, <1>11, <1>12, NothingNew

(* An event that is lost is remembered in cutShort.                        *)
LEMMA RefusedStep ==
  ASSUME NetInv, NEW d \in Devices, EventRefused(d)
  PROVE  NetInv'
<1> USE DEF EventRefused, At
<1>1. UNCHANGED <<life, front, back, source, pOutputQueue, head, pEventQueue,
                  mCurrentState, place, input, given, outcome>>
  BY DEF functionVars, queueVars
<1>2. /\ place[d] = "events" /\ event[d] + 1 \in 1 .. EventCount[d] /\ EventCount[d] \in Nat
      /\ event' = [event EXCEPT ![d] = event[d] + 1] /\ input[d] \in Inputs
  <2>1. event \in [Devices -> Nat] /\ event[d] < EventCount[d] /\ input[d] \in Inputs
    BY DEF NetInv, NetTypeOK
  <2>2. EventCount[d] \in Nat
    BY ListsHaveLengths
  <2> QED
    BY <2>1, <2>2
<1>3. /\ cutShort' = [cutShort EXCEPT ![d] = cutShort[d] \cup Unannounced(d)]
      /\ cutShort'[d] = cutShort[d] \cup Unannounced(d) /\ Unannounced(d) \subseteq Inputs
  BY <1>2 DEF NetInv, NetTypeOK, Unannounced
<1>4. NetTypeOK' /\ Shape'
  <2>1. /\ event' \in [Devices -> Nat] /\ cutShort' \in [Devices -> SUBSET Inputs]
        /\ \A e \in Devices : event'[e] <= EventCount[e]
    BY <1>2, <1>3, ListsHaveLengths DEF NetInv, NetTypeOK
  <2> QED
    BY <1>1, <2>1 DEF NetInv, NetTypeOK, Shape
<1>5. OthersStill(d) /\ \A e \in Devices : Connected(e)'
  BY <1>1, <1>2, <1>3 DEF NetInv, NetTypeOK, OthersStill, Still, Connected
<1>6. Counted(d)' /\ Explained(d)'
  <2>1. Published(d)' = Published(d) /\ \A v : Announced(d, v)' <=> Announced(d, v)
    BY <1>1 DEF Published, Announced
  <2>2. event'[d] = event[d] + 1
    BY <1>2 DEF NetInv, NetTypeOK
  <2>3. Announced(d, input[d]) => {input[d]} \X (1 .. event'[d]) \subseteq pEventQueue[d]
    <3>1. 1 .. event'[d] \subseteq 1 .. EventCount[d]
      BY <1>2, <2>2
    <3> QED
      BY <3>1 DEF Announced
  <2>4. Counted(d)'
    BY <1>1, <1>2, <1>3, <2>1, <2>3 DEF Counted, Unannounced
  <2> QED
    BY <1>1, <1>3, <2>1, <2>4 DEF NetInv, Explained
<1>7. Handled(d)' \subseteq Handled(d)
  BY <1>1 DEF Handled, Published, InProgress
<1> QED
  BY <1>1, <1>4, <1>5, <1>6, <1>7, NothingNew

(* At the end of the event list the input is announced in full, unless the *)
(* queue refused an event.                                                 *)
LEMMA CommitStep ==
  ASSUME NetInv, NEW d \in Devices, Commit(d)
  PROVE  NetInv'
<1> USE DEF Commit, Leave, At, Proceed
<1>1. UNCHANGED <<life, front, back, source, pOutputQueue, head, pEventQueue,
                  given, cutShort, outcome>>
  BY DEF functionVars, queueVars
<1>2. /\ place[d] = "events" /\ event[d] = EventCount[d] /\ input[d] \in Inputs
      /\ place'[d] = "idle" /\ event'[d] = 0 /\ mCurrentState'[d] = input[d]
  BY DEF NetInv, NetTypeOK
<1>3. NetTypeOK' /\ Shape'
  BY <1>1, <1>2, ListsHaveLengths DEF NetInv, NetTypeOK, Shape, Inputs
<1>4. OthersStill(d) /\ \A e \in Devices : Connected(e)'
  BY <1>1 DEF NetInv, NetTypeOK, OthersStill, Still, Connected, Reading
<1>5. Announced(d, input[d]) \/ input[d] \in cutShort[d] \/ input[d] \notin Published(d)
  BY <1>2 DEF NetInv, Counted, Announced
<1>6. Counted(d)' /\ Explained(d)'
  BY <1>1, <1>2, <1>5 DEF NetInv, Counted, Explained, Published, Announced
<1>7. Handled(d)' \subseteq Handled(d)
  BY <1>1, <1>2 DEF Handled, Published, InProgress
<1> QED
  BY <1>1, <1>3, <1>4, <1>6, <1>7, NothingNew

--------------------------------------------------------------------------------
(* The invariant: its base, a stutter, and every step of Next.             *)
LEMMA NetInvInit == NetInit => NetInv
<1> SUFFICES ASSUME NetInit PROVE NetInv
  OBVIOUS
<1>1. <<>> \in Seq(Inputs) /\ Len(<<>>) = 0 /\ DOMAIN <<>> = {}
  OBVIOUS
<1>2. NetTypeOK /\ Shape
  BY <1>1, BoundsAreNat, ListsHaveLengths DEF NetInit, NetTypeOK, Shape, Inputs
<1>3. \A d \in Devices : Connected(d) /\ Counted(d)
  BY DEF NetInit, Connected, Counted, Reading
<1>4. \A d \in Devices : Published(d) = {} /\ Handled(d) = {}
  BY <1>1 DEF NetInit, Published, Handled, InProgress
<1>5. \A d \in Devices : Explained(d) /\ \A v \in Handled(d) : Old(v)
  BY <1>4 DEF Explained
<1>6. ReachesOneReader
  BY <1>4 DEF ReachesOneReader
<1> QED
  BY <1>2, <1>3, <1>5, <1>6 DEF NetInv

LEMMA NetInvStutter ==
  ASSUME NetInv, UNCHANGED netVars
  PROVE  NetInv'
<1> USE DEF netVars, functionVars, queueVars, readVars
<1>1. NetTypeOK' /\ Shape'
  BY DEF NetInv, NetTypeOK, Shape
<1>2. \A e \in Devices : Still(e)
  BY DEF Still
<1>3. \A e \in Devices : Counted(e)' /\ Explained(e)' /\ Handled(e)' = Handled(e)
  BY <1>2, StillSame DEF NetInv
<1>4. \A e \in Devices : Connected(e)'
  BY DEF NetInv, Connected
<1>5. \A v : Old(v) => Old(v)'
  BY DEF Old
<1>6. ReachesOneReader'
  BY <1>3 DEF NetInv, ReachesOneReader
<1> QED
  BY <1>1, <1>3, <1>4, <1>5, <1>6 DEF NetInv

LEMMA NetInvNext ==
  ASSUME NetInv, NetNext
  PROVE  NetInv'
<1>1. \/ \E d \in Devices : AppAction(d)
      \/ \E d \in Devices : Read(d)
      \/ \E d \in Devices : Process(d)
  BY Zenon DEF NetNext, AppAction
<1>2. ASSUME NEW d \in Devices, AppAction(d) PROVE NetInv'
  BY <1>2, AppStep
<1>3. ASSUME NEW d \in Devices, Read(d) PROVE NetInv'
  <2>1. CASE ReadCheck(d) \/ ReadNullCall(d) \/ ReadEmpty(d) \/ ReadDequeue(d)
    BY <2>1, LookStep
  <2>2. CASE ReadHit(d)
    BY <2>2, HitStep
  <2>3. CASE ReadMiss(d)
    BY <2>3, MissStep
  <2> QED
    BY <1>3, <2>1, <2>2, <2>3, Zenon DEF Read
<1>4. ASSUME NEW d \in Devices, Process(d) PROVE NetInv'
  <2>1. CASE ReadInput(d)
    BY <2>1, InputStep
  <2>2. CASE Refuse(d)
    BY <2>2, RefuseStep
  <2>3. CASE Fail(d)
    BY <2>3, FailStep
  <2>4. CASE Resolve(d) \/ StateFunction(d)
    BY <2>4, MoveOnStep
  <2>5. CASE Output(d)
    BY <2>5, OutputStep
  <2>6. CASE EventFunction(d)
    BY <2>6, EventStep
  <2>7. CASE Commit(d)
    BY <2>7, CommitStep
  <2>8. CASE EventRefused(d)
    BY <2>8, RefusedStep
  <2> QED
    BY <1>4, <2>1, <2>2, <2>3, <2>4, <2>5, <2>6, <2>7, <2>8, Zenon DEF Process
<1> QED
  BY <1>1, <1>2, <1>3, <1>4, Zenon

(* The invariant holds in every reachable state of every network: it is    *)
(* what the theorems below are read off from.                              *)
THEOREM NetInvariance == NetSpec => []NetInv
<1>1. NetInv /\ [NetNext]_netVars => NetInv'
  BY NetInvStutter, NetInvNext, Zenon
<1> QED
  BY NetInvInit, <1>1, PTL DEF NetSpec

--------------------------------------------------------------------------------
(* Every variable keeps its type: a device never takes more elements from  *)
(* the queue of its source than were enqueued there (QueueReader::dequeue),*)
(* and the event index of read() never passes the event list.              *)
THEOREM NetTypeCorrect == NetSpec => []NetTypeOK
<1>1. NetInv => NetTypeOK
  BY DEF NetInv
<1> QED
  BY <1>1, NetInvariance, PTL

(* An output that GenericDevice::read published has all its events, or     *)
(* read is at work on it, or was left by an exception after the output, or *)
(* the event queue had no memory for an event.                             *)
THEOREM OutputThenEventsAlways == NetSpec => []OutputThenEvents
<1>1. NetInv => OutputThenEvents
  BY DEF NetInv, Explained, OutputThenEvents, InProgress
<1> QED
  BY <1>1, NetInvariance, PTL

(* Two devices never handle the same message, however the connections, the *)
(* moves and the destructions of devices go.                               *)
THEOREM ReachesOneReaderAlways == NetSpec => []ReachesOneReader
<1>1. NetInv => ReachesOneReader
  BY DEF NetInv
<1> QED
  BY <1>1, NetInvariance, PTL

================================================================================
