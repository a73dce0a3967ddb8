------------------------------- MODULE Producers -------------------------------
(***************************************************************************)
(* How a thread gets the stream it enqueues to (concurrentqueue.h): the    *)
(* list of all producers, which only grows and which every consumer walks, *)
(* and the hash table in which a thread that enqueues without a token      *)
(* finds the producer it was given before.                                 *)
(*                                                                         *)
(* The tables form a chain: a larger one is put in front of those before   *)
(* it while others still add to the old ones, and a thread found deep in   *)
(* the chain is added to the front one.  One count of the producers serves *)
(* all tables.  Keys are never removed (the code for it is not compiled:   *)
(* MOODYCAMEL_CPP11_THREAD_LOCAL_SUPPORTED is not defined), so the scan    *)
(* for a producer to use again finds only those of tokens.                 *)
(***************************************************************************)
EXTENDS Integers, FiniteSets, Sequences

CONSTANTS
  Threads,
  Hash,             \* [Threads -> Nat]  hash_thread_id()
  Empty,            \* invalid_thread_id
  InitialHashSize,  \* INITIAL_IMPLICIT_PRODUCER_HASH_SIZE
  MaxHashSize,      \* bound: memory for a larger table is refused
  MaxProducers,     \* bound: memory for more producers is refused
  TokenUsers        \* bound: the sets of threads that may be the ones with tokens

ASSUME ThreadsAreFinite == IsFiniteSet(Threads)
ASSUME SizesArePowers == InitialHashSize \in {2 ^ k : k \in 1 .. 10}
ASSUME SizesArePositive == {InitialHashSize, MaxHashSize} \subseteq Nat \ {0}
ASSUME MaxProducersIsNat == MaxProducers \in Nat
ASSUME HashesAreNat == Hash \in [Threads -> Nat]
ASSUME EmptyIsNoThread == Empty \notin Threads
ASSUME TokenUsersAreThreads == TokenUsers \subseteq SUBSET Threads

Producer == 1 .. MaxProducers
Null == 0           \* nullptr

VARIABLES
  implicitProducerHash,  \* the tables, the newest last: each prev is the one before
  implicitProducerHashCount,
  resizeInProgress,      \* implicitProducerHashResizeInProgress
  producerListTail, producerCount,
  next,                  \* [Producer -> Producer or Null]
  owner,                 \* the thread a producer was made for, Empty for a token
  inactive,              \* producers whose token is gone
  tokenUsers,            \* the threads that use tokens, the others do without
  token,                 \* [Threads -> Producer or Null]  the token it has
  pc,
  mainHash, hash,        \* local variables, as numbers of tables
  index, value, newCount, producer,
  result                 \* the producer that calls without a token have returned

hashVars == <<implicitProducerHash, implicitProducerHashCount, resizeInProgress>>
listVars == <<producerListTail, producerCount, next, owner, inactive>>
localVars == <<mainHash, hash, index, value, newCount, producer>>
vars == <<hashVars, listVars, tokenUsers, token, pc, localVars, result>>

Created == 1 .. Len(owner)

Points == {"idle", "search", "lazy", "count", "resize", "locked", "malloc",
           "refused", "unlockRefused", "unlock", "room", "create", "uncount",
           "list", "link", "insert", "scan", "catch"}

(* A table is an array of slots.                                           *)
TableOK(table) ==
  table \in [0 .. Cardinality(DOMAIN table) - 1 ->
               [key : Threads \cup {Empty}, value : Producer \cup {Null}]]

TypeOK ==
  /\ \A h \in DOMAIN implicitProducerHash : TableOK(implicitProducerHash[h])
  /\ implicitProducerHashCount \in 0 .. Cardinality(Threads)
  /\ resizeInProgress \in BOOLEAN
  /\ producerListTail \in Created \cup {Null}
  /\ producerCount \in 0 .. Len(owner)
  /\ next \in [Producer -> Created \cup {Null}]
  /\ owner \in Seq(Threads \cup {Empty})
  /\ inactive \subseteq Created
  /\ tokenUsers \in TokenUsers
  /\ token \in [Threads -> Created \cup {Null}]
  /\ pc \in [Threads -> Points]
  /\ {mainHash, hash} \subseteq [Threads -> 0 .. Len(implicitProducerHash)]
  /\ index \in [Threads -> Nat] /\ newCount \in [Threads -> 0 .. Cardinality(Threads)]
  /\ {value, producer, result} \subseteq [Threads -> Created \cup {Null}]

Table(n) == [i \in 0 .. n - 1 |-> [key |-> Empty, value |-> Null]]

Init ==
  /\ implicitProducerHash = <<Table(InitialHashSize)>>
  /\ implicitProducerHashCount = 0
  /\ resizeInProgress = FALSE
  /\ producerListTail = Null /\ producerCount = 0
  /\ next = [p \in Producer |-> Null] /\ owner = <<>> /\ inactive = {}
  /\ tokenUsers \in TokenUsers
  /\ token = [t \in Threads |-> Null]
  /\ pc = [t \in Threads |-> "idle"]
  /\ mainHash = [t \in Threads |-> 0] /\ hash = [t \in Threads |-> 0]
  /\ index = [t \in Threads |-> 0]
  /\ value = [t \in Threads |-> Null]
  /\ newCount = [t \in Threads |-> 0]
  /\ producer = [t \in Threads |-> Null] /\ result = [t \in Threads |-> Null]

Goto(t, from, to) ==
  /\ pc[t] = from
  /\ pc' = [pc EXCEPT ![t] = to]

Capacity(h) == Cardinality(DOMAIN implicitProducerHash[h])
Half(h) == Capacity(h) \div 2
Slot(h, i) == i % Capacity(h)
Key(h, i) == implicitProducerHash[h][Slot(h, i)].key

(* The end of get_or_add_implicit_producer(); its variables go.            *)
Return(t, from, p) ==
  /\ Goto(t, from, "idle")
  /\ result' = IF p = Null THEN result ELSE [result EXCEPT ![t] = p]
  /\ mainHash' = [mainHash EXCEPT ![t] = 0] /\ hash' = [hash EXCEPT ![t] = 0]
  /\ index' = [index EXCEPT ![t] = 0]
  /\ value' = [value EXCEPT ![t] = Null]
  /\ newCount' = [newCount EXCEPT ![t] = 0]
  /\ producer' = [producer EXCEPT ![t] = Null]

--------------------------------------------------------------------------------
(* get_or_add_implicit_producer(): look for the thread in every table.     *)
GetOrAdd(t) ==
  /\ t \notin tokenUsers
  /\ Goto(t, "idle", "search")
  /\ mainHash' = [mainHash EXCEPT ![t] = Len(implicitProducerHash)]
  /\ hash' = [hash EXCEPT ![t] = Len(implicitProducerHash)]
  /\ index' = [index EXCEPT ![t] = Hash[t]]
  /\ UNCHANGED <<hashVars, listVars, token, value, newCount, producer, result>>

Found(t) ==
  /\ pc[t] = "search" /\ Key(hash[t], index[t]) = t
  /\ LET v == implicitProducerHash[hash[t]][Slot(hash[t], index[t])].value IN
       \/ hash[t] = mainHash[t] /\ Return(t, "search", v)
       \/ /\ hash[t] # mainHash[t]
          /\ Goto(t, "search", "lazy")
          /\ value' = [value EXCEPT ![t] = v]
          /\ index' = [index EXCEPT ![t] = Hash[t]]
          /\ hash' = [hash EXCEPT ![t] = 0]
          /\ UNCHANGED <<mainHash, newCount, producer, result>>
  /\ UNCHANGED <<hashVars, listVars, token>>

(* Planted fault: only the newest table is searched.                       *)
NotFoundShallow(t) ==
  /\ pc[t] = "search" /\ Key(hash[t], index[t]) # t
  /\ \/ /\ Key(hash[t], index[t]) # Empty
        /\ index' = [index EXCEPT ![t] = Slot(hash[t], @ + 1)]
        /\ UNCHANGED <<pc, hash>>
     \/ /\ Key(hash[t], index[t]) = Empty
        /\ hash' = [hash EXCEPT ![t] = 0]
        /\ index' = [index EXCEPT ![t] = Hash[t]]
        /\ Goto(t, "search", "count")
  /\ UNCHANGED <<hashVars, listVars, token, mainHash, value, newCount, producer, result>>

NotFound(t) ==
  /\ pc[t] = "search" /\ Key(hash[t], index[t]) # t
  /\ \/ /\ Key(hash[t], index[t]) # Empty
        /\ index' = [index EXCEPT ![t] = Slot(hash[t], @ + 1)]
        /\ UNCHANGED <<pc, hash>>
     \/ /\ Key(hash[t], index[t]) = Empty
        /\ hash' = [hash EXCEPT ![t] = @ - 1]
        /\ index' = [index EXCEPT ![t] = Hash[t]]
        /\ Goto(t, "search", IF hash[t] = 1 THEN "count" ELSE "search")
  /\ UNCHANGED <<hashVars, listVars, token, mainHash, value, newCount, producer, result>>

(* One probe, with its compare-and-swap when the slot seems free.          *)
Occupy(t, v) ==
  /\ Key(mainHash[t], index[t]) = Empty
  /\ implicitProducerHash' =
       [implicitProducerHash EXCEPT
          ![mainHash[t]][Slot(mainHash[t], index[t])] = [key |-> t, value |-> v]]

(* Planted fault: the same slot is probed again.                           *)
ProbeAgain(t) ==
  /\ Key(mainHash[t], index[t]) # Empty
  /\ UNCHANGED <<implicitProducerHash, pc, localVars, result>>

ProbeOn(t) ==
  /\ Key(mainHash[t], index[t]) # Empty
  /\ index' = [index EXCEPT ![t] = Slot(mainHash[t], @ + 1)]
  /\ UNCHANGED <<implicitProducerHash, pc, mainHash, hash, value, newCount, producer,
                 result>>

AddLazily(t) ==
  /\ pc[t] = "lazy"
  /\ \/ Occupy(t, value[t]) /\ Return(t, "lazy", value[t])
     \/ ProbeOn(t)
  /\ UNCHANGED <<implicitProducerHashCount, resizeInProgress, listVars, token>>

(* Insert: count first.                                                    *)
Count(t) ==
  /\ Goto(t, "count", "resize")
  /\ implicitProducerHashCount' = implicitProducerHashCount + 1
  /\ newCount' = [newCount EXCEPT ![t] = implicitProducerHashCount']
  /\ UNCHANGED <<implicitProducerHash, resizeInProgress, listVars, token, mainHash, hash,
                 index, value, producer, result>>

(* Whoever finds the table half full, and nobody at it, makes a larger one *)
TryResize(t) ==
  /\ pc[t] = "resize"
  /\ \/ /\ newCount[t] >= Half(mainHash[t]) /\ ~resizeInProgress
        /\ Goto(t, "resize", "locked")
        /\ resizeInProgress' = TRUE
     \/ /\ newCount[t] < Half(mainHash[t]) \/ resizeInProgress
        /\ Goto(t, "resize", "room")
        /\ UNCHANGED resizeInProgress
  /\ UNCHANGED <<implicitProducerHash, implicitProducerHashCount, listVars, token,
                 localVars, result>>

Locked(t) ==
  /\ mainHash' = [mainHash EXCEPT ![t] = Len(implicitProducerHash)]
  /\ Goto(t, "locked", IF newCount[t] >= Half(Len(implicitProducerHash))
                         THEN "malloc" ELSE "unlock")
  /\ UNCHANGED <<hashVars, listVars, token, hash, index, value, newCount, producer, result>>

(* Doubled, and doubled again until the table is less than half full.      *)
NewCapacity(t, n) ==
  /\ \E k \in 1 .. 10 : n = 2 ^ k * Capacity(mainHash[t])
  /\ newCount[t] < n \div 2
  /\ newCount[t] >= n \div 4 \/ n = 2 * Capacity(mainHash[t])

Malloc(t) ==
  /\ \/ /\ Goto(t, "malloc", "unlock")
        /\ \E n \in 1 .. MaxHashSize :
             /\ NewCapacity(t, n)
             /\ implicitProducerHash' = Append(implicitProducerHash, Table(n))
        /\ mainHash' = [mainHash EXCEPT ![t] = Len(implicitProducerHash')]
     \/ Goto(t, "malloc", "refused") /\ UNCHANGED <<implicitProducerHash, mainHash>>
  /\ UNCHANGED <<implicitProducerHashCount, resizeInProgress, listVars, token, hash, index,
                 value, newCount, producer, result>>

(* Planted fault: a refused thread stays counted.                          *)
RefusedCounted(t) ==
  /\ Goto(t, "refused", "unlockRefused")
  /\ UNCHANGED <<hashVars, listVars, token, localVars, result>>

Refused(t) ==
  /\ Goto(t, "refused", "unlockRefused")
  /\ implicitProducerHashCount' = implicitProducerHashCount - 1
  /\ UNCHANGED <<implicitProducerHash, resizeInProgress, listVars, token, localVars, result>>

UnlockRefused(t) ==
  /\ Return(t, "unlockRefused", Null)
  /\ resizeInProgress' = FALSE
  /\ UNCHANGED <<implicitProducerHash, implicitProducerHashCount, listVars, token>>

Unlock(t) ==
  /\ Goto(t, "unlock", "room")
  /\ resizeInProgress' = FALSE
  /\ UNCHANGED <<implicitProducerHash, implicitProducerHashCount, listVars, token,
                 localVars, result>>

(* Below three quarters the old table will do; otherwise wait for the new. *)
CheckRoom(t) ==
  /\ pc[t] = "room"
  /\ \/ /\ newCount[t] < Half(mainHash[t]) + Capacity(mainHash[t]) \div 4
        /\ Goto(t, "room", "create")
        /\ UNCHANGED mainHash
     \/ /\ newCount[t] >= Half(mainHash[t]) + Capacity(mainHash[t]) \div 4
        /\ Goto(t, "room", "resize")
        /\ mainHash' = [mainHash EXCEPT ![t] = Len(implicitProducerHash)]
  /\ UNCHANGED <<hashVars, listVars, token, hash, index, value, newCount, producer, result>>

Uncount(t) ==
  /\ implicitProducerHashCount' = implicitProducerHashCount - 1
  /\ Return(t, "uncount", Null)
  /\ UNCHANGED <<implicitProducerHash, resizeInProgress, listVars, token>>

Insert(t) ==
  /\ pc[t] = "insert"
  /\ \/ Occupy(t, producer[t]) /\ Return(t, "insert", producer[t])
     \/ ProbeOn(t)
  /\ UNCHANGED <<implicitProducerHashCount, resizeInProgress, listVars, token>>

--------------------------------------------------------------------------------
(* recycle_or_create_producer(), after its scan, and add_producer().  A    *)
(* thread has counted itself in when it comes from the hash table.         *)
ForToken(t) == newCount[t] = 0

Create(t) ==
  /\ \/ /\ Goto(t, "create", "list")
        /\ Len(owner) < MaxProducers
        /\ owner' = Append(owner, IF ForToken(t) THEN Empty ELSE t)
        /\ producer' = [producer EXCEPT ![t] = Len(owner')]
     \/ /\ Goto(t, "create", IF ForToken(t) THEN "idle" ELSE "uncount")
        /\ UNCHANGED <<owner, producer>>
  /\ UNCHANGED <<hashVars, producerListTail, producerCount, next, inactive, token,
                 mainHash, hash, index, value, newCount, result>>

(* producerCount is advanced before the list is.                           *)
CountProducer(t) ==
  /\ Goto(t, "list", "link")
  /\ producerCount' = producerCount + 1
  /\ next' = [next EXCEPT ![producer[t]] = producerListTail]
  /\ UNCHANGED <<hashVars, producerListTail, owner, inactive, token, localVars, result>>

(* Planted fault: the tail is stored, not compared and swapped.            *)
LinkStore(t) ==
  /\ pc[t] = "link"
  /\ producerListTail' = producer[t]
  /\ \/ /\ ForToken(t)
        /\ Goto(t, "link", "idle")
        /\ token' = [token EXCEPT ![t] = producer[t]]
        /\ producer' = [producer EXCEPT ![t] = Null]
     \/ ~ForToken(t) /\ Goto(t, "link", "insert") /\ UNCHANGED <<token, producer>>
  /\ UNCHANGED <<hashVars, producerCount, next, owner, inactive, mainHash, hash, index,
                 value, newCount, result>>

(* The compare-and-swap of producerListTail against the next just stored.  *)
Link(t) ==
  /\ pc[t] = "link"
  /\ \/ /\ producerListTail = next[producer[t]]
        /\ producerListTail' = producer[t]
        /\ \/ /\ ForToken(t)
              /\ Goto(t, "link", "idle")
              /\ token' = [token EXCEPT ![t] = producer[t]]
              /\ producer' = [producer EXCEPT ![t] = Null]
           \/ ~ForToken(t) /\ Goto(t, "link", "insert") /\ UNCHANGED <<token, producer>>
        /\ UNCHANGED next
     \/ /\ producerListTail # next[producer[t]]
        /\ next' = [next EXCEPT ![producer[t]] = producerListTail]
        /\ UNCHANGED <<pc, producerListTail, token, producer>>
  /\ UNCHANGED <<hashVars, producerCount, owner, inactive, mainHash, hash, index, value,
                 newCount, result>>

--------------------------------------------------------------------------------
(* ProducerToken: its constructor scans the list for an inactive producer  *)
(* of the same kind; its destructor makes one inactive.                    *)
MakeToken(t) ==
  /\ t \in tokenUsers /\ token[t] = Null
  /\ producer' = [producer EXCEPT ![t] = producerListTail]
  /\ Goto(t, "idle", IF producerListTail = Null THEN "create" ELSE "scan")
  /\ UNCHANGED <<hashVars, listVars, token, mainHash, hash, index, value, newCount, result>>

ScanOn(t, from) ==
  /\ producer' = [producer EXCEPT ![t] = next[@]]
  /\ Goto(t, from, IF next[producer[t]] = Null THEN "create" ELSE "scan")

Scan(t) ==
  /\ pc[t] = "scan"
  /\ \/ producer[t] \in inactive /\ Goto(t, "scan", "catch") /\ UNCHANGED producer
     \/ producer[t] \notin inactive /\ ScanOn(t, "scan")
  /\ UNCHANGED <<hashVars, listVars, token, mainHash, hash, index, value, newCount, result>>

Catch(t) ==
  /\ pc[t] = "catch"
  /\ \/ /\ producer[t] \in inactive
        /\ Goto(t, "catch", "idle")
        /\ inactive' = inactive \ {producer[t]}
        /\ token' = [token EXCEPT ![t] = producer[t]]
        /\ producer' = [producer EXCEPT ![t] = Null]
     \/ producer[t] \notin inactive /\ ScanOn(t, "catch") /\ UNCHANGED <<inactive, token>>
  /\ UNCHANGED <<hashVars, producerListTail, producerCount, next, owner, mainHash, hash,
                 index, value, newCount, result>>

DropToken(t) ==
  /\ pc[t] = "idle" /\ token[t] # Null
  /\ inactive' = inactive \cup {token[t]}
  /\ token' = [token EXCEPT ![t] = Null]
  /\ UNCHANGED <<hashVars, producerListTail, producerCount, next, owner, pc, localVars,
                 result>>

--------------------------------------------------------------------------------
GoOn(t) ==
  \/ Found(t) \/ NotFound(t) \/ AddLazily(t) \/ Count(t) \/ TryResize(t) \/ Locked(t)
  \/ Malloc(t) \/ Refused(t) \/ UnlockRefused(t) \/ Unlock(t) \/ CheckRoom(t)
  \/ Uncount(t) \/ Insert(t) \/ Create(t) \/ CountProducer(t) \/ Link(t) \/ Scan(t)
  \/ Catch(t)

Next ==
  /\ \E t \in Threads : GetOrAdd(t) \/ MakeToken(t) \/ DropToken(t) \/ GoOn(t)
  /\ UNCHANGED tokenUsers

Spec == Init /\ [][Next]_vars

(* A call that was begun goes on; nothing makes a thread call.             *)
FairSpec == Spec /\ \A t \in Threads : WF_vars(GoOn(t) /\ UNCHANGED tokenUsers)

--------------------------------------------------------------------------------
(***************************************************************************)
(* A thread that enqueues without a token has one stream for ever: however *)
(* the tables grew between its calls, it is found where it was put, never  *)
(* gets a second producer, and never that of another thread.  A producer   *)
(* made for tokens belongs to at most one of them.                         *)
(***************************************************************************)
OneStreamEach ==
  /\ \A p, q \in DOMAIN owner : owner[p] = owner[q] /\ owner[p] # Empty => p = q
  /\ \A t \in Threads : result[t] # Null => owner[result[t]] = t
  /\ \A t, u \in Threads : token[t] # Null =>
       /\ owner[token[t]] = Empty /\ token[t] \notin inactive
       /\ token[t] = token[u] => t = u

(* What a walk from producerListTail meets: the least set of producers     *)
(* with the tail and with the next of each of its members.                 *)
LeadsOn(S) == \A p \in S : next[p] \in S \cup {Null}

Reached ==
  {p \in Created : \A S \in SUBSET Created :
     producerListTail \in S \cup {Null} /\ LeadsOn(S) => p \in S}

(***************************************************************************)
(* A consumer that walks the list from producerListTail meets every        *)
(* producer whose owner has been told of it: none is cut off by another    *)
(* that is added at the same time.                                         *)
(***************************************************************************)
ListComplete ==
  /\ {result[t] : t \in Threads} \cup {token[t] : t \in Threads} \cup inactive
       \subseteq Reached \cup {Null}
  /\ Cardinality(Reached) <= producerCount

(***************************************************************************)
(* A call returns, though it may have to wait for another thread to make   *)
(* the larger table, unless memory for tables is refused again and again.  *)
(***************************************************************************)
CallsReturn ==
  \A t \in Threads :
    []<>(pc[t] = "idle") \/ []<>(\E u \in Threads : pc[u] = "refused")

================================================================================
