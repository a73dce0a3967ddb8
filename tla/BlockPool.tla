------------------------------- MODULE BlockPool -------------------------------
(***************************************************************************)
(* Where the streams of moodycamel::ConcurrentQueue get their blocks from  *)
(* and where they return them to: the pool made with the queue, the lock-  *)
(* free list of the blocks that were returned, and the heap.               *)
(*                                                                         *)
(* The free list is a stack of nodes with reference counts.  A thread that *)
(* takes the head counts itself in freeListRefs first, so that the node    *)
(* cannot come back with another freeListNext while it looks; the list     *)
(* itself counts as one.  A node that is returned while others still look  *)
(* at it is only flagged, and whoever counts the last one down adds it.    *)
(*                                                                         *)
(* Any thread may return any block that is held.  Loads and stores take    *)
(* effect in program order.  Local variables that are out of scope are     *)
(* set to a fixed value.                                                   *)
(***************************************************************************)
EXTENDS Integers, FiniteSets, Sequences

CONSTANTS
  Threads,
  Null,             \* nullptr
  InitialPoolSize,  \* initialBlockPoolSize
  MaxBlocks         \* bound: blocks that ever exist

ASSUME SizesAreNat ==
  /\ MaxBlocks \in Nat
  /\ InitialPoolSize \in 0 .. MaxBlocks

Blocks == 0 .. MaxBlocks - 1

ASSUME NullIsNoBlock == Null \notin Blocks
ASSUME ThreadsAreFinite == IsFiniteSet(Threads)

VARIABLES
  initialBlockPoolIndex,
  created,       \* the number of blocks that exist
  freeListHead,
  freeListNext,  \* [Blocks -> block or Null]
  freeListRefs,  \* [Blocks -> Nat]  the lower 31 bits of freeListRefs
  flagged,       \* blocks with SHOULD_BE_ON_FREELIST, the upper bit of it
  held,          \* blocks in the hands of the streams
  pc,            \* where each thread is
  getting,       \* threads inside try_get(), be it in add_knowing_... there
  head, prevHead, refs, next,  \* local variables of try_get()
  node, top,     \* node and head of add_knowing_refcount_is_zero()
  list           \* history: the nodes on the list, from freeListHead on

poolVars == <<initialBlockPoolIndex, created>>
listVars == <<freeListHead, freeListNext, list>>
countVars == <<freeListRefs, flagged>>
getVars == <<getting, head, prevHead, refs, next>>
addVars == <<node, top>>
vars == <<poolVars, listVars, countVars, held, pc, getVars, addVars>>

BlockOrNull == Blocks \cup {Null}

GetPoints == {"load head", "load refs", "acquire", "load next", "pop", "take",
              "release", "create"}
AddPoints == {"load top", "link", "expose", "push", "retract"}

TypeOK ==
  /\ initialBlockPoolIndex \in Nat
  /\ created \in InitialPoolSize .. MaxBlocks
  /\ freeListHead \in BlockOrNull
  /\ freeListNext \in [Blocks -> BlockOrNull]
  /\ freeListRefs \in [Blocks -> Nat]
  /\ flagged \subseteq Blocks /\ held \subseteq Blocks
  /\ pc \in [Threads -> {"idle", "pool"} \cup GetPoints \cup AddPoints]
  /\ getting \subseteq Threads
  /\ head \in [Threads -> BlockOrNull] /\ prevHead \in [Threads -> BlockOrNull]
  /\ refs \in [Threads -> Nat \X {0, 1}]
  /\ next \in [Threads -> BlockOrNull]
  /\ node \in [Threads -> BlockOrNull] /\ top \in [Threads -> BlockOrNull]
  /\ list \in Seq(Blocks)

NoRefs == <<0, 0>>

Init ==
  /\ initialBlockPoolIndex = 0
  /\ created = InitialPoolSize
  /\ freeListHead = Null
  /\ freeListNext = [n \in Blocks |-> Null]
  /\ freeListRefs = [n \in Blocks |-> 0]
  /\ flagged = {} /\ held = {}
  /\ pc = [t \in Threads |-> "idle"]
  /\ getting = {}
  /\ head = [t \in Threads |-> Null] /\ prevHead = [t \in Threads |-> Null]
  /\ refs = [t \in Threads |-> NoRefs]
  /\ next = [t \in Threads |-> Null]
  /\ node = [t \in Threads |-> Null] /\ top = [t \in Threads |-> Null]
  /\ list = <<>>

Goto(t, from, to) ==
  /\ pc[t] = from
  /\ pc' = [pc EXCEPT ![t] = to]

(* The atomic as a whole: its lower bits, its upper bit.                   *)
Word(n) == <<freeListRefs[n], IF n \in flagged THEN 1 ELSE 0>>

--------------------------------------------------------------------------------
(* requisition_block(): the initial pool, the free list, the heap.         *)

(* try_get_block_from_initial_pool(): is there any left ...                *)
Requisition(t) ==
  /\ Goto(t, "idle",
          IF initialBlockPoolIndex >= InitialPoolSize THEN "load head" ELSE "pool")
  /\ getting' = getting \cup {t}
  /\ UNCHANGED <<poolVars, listVars, countVars, held, head, prevHead, refs, next,
                 addVars>>

(* Planted fault: the index is compared only before it is taken.           *)
TakeFromPoolUnchecked(t) ==
  /\ initialBlockPoolIndex' = initialBlockPoolIndex + 1
  /\ Goto(t, "pool", "idle")
  /\ held' = held \cup {initialBlockPoolIndex}
  /\ getting' = getting \ {t}
  /\ UNCHANGED <<created, listVars, countVars, head, prevHead, refs, next, addVars>>

(* ... and is the one after it still there?                                *)
TakeFromPool(t) ==
  /\ initialBlockPoolIndex' = initialBlockPoolIndex + 1
  /\ \/ /\ initialBlockPoolIndex < InitialPoolSize
        /\ Goto(t, "pool", "idle")
        /\ held' = held \cup {initialBlockPoolIndex}
        /\ getting' = getting \ {t}
     \/ /\ initialBlockPoolIndex >= InitialPoolSize
        /\ Goto(t, "pool", "load head")
        /\ UNCHANGED <<held, getting>>
  /\ UNCHANGED <<created, listVars, countVars, head, prevHead, refs, next, addVars>>

(* create<Block>(), which may find no memory.                              *)
Create(t) ==
  /\ Goto(t, "create", "idle")
  /\ getting' = getting \ {t}
  /\ \/ UNCHANGED <<created, held>>
     \/ /\ created < MaxBlocks
        /\ created' = created + 1
        /\ held' = held \cup {created}
  /\ UNCHANGED <<initialBlockPoolIndex, listVars, countVars, head, prevHead, refs,
                 next, addVars>>

--------------------------------------------------------------------------------
(* FreeList::try_get()                                                     *)

LookAt(n) == IF n = Null THEN "create" ELSE "load refs"

LoadHead(t) ==
  /\ Goto(t, "load head", LookAt(freeListHead))
  /\ head' = [head EXCEPT ![t] = freeListHead]
  /\ UNCHANGED <<poolVars, listVars, countVars, held, getting, prevHead, refs, next,
                 addVars>>

(* Planted fault: the reference count is tried again, and the head is not. *)
LoadRefsAgain(t) ==
  /\ \/ /\ Goto(t, "load refs", "load refs")
        /\ freeListRefs[head[t]] = 0
        /\ UNCHANGED refs
     \/ /\ Goto(t, "load refs", "acquire")
        /\ freeListRefs[head[t]] # 0
        /\ refs' = [refs EXCEPT ![t] = Word(head[t])]
  /\ UNCHANGED <<poolVars, listVars, countVars, held, getting, head, prevHead, next,
                 addVars>>

LoadRefs(t) ==
  /\ \/ /\ Goto(t, "load refs", "load head")
        /\ freeListRefs[head[t]] = 0
        /\ UNCHANGED refs
     \/ /\ Goto(t, "load refs", "acquire")
        /\ freeListRefs[head[t]] # 0
        /\ refs' = [refs EXCEPT ![t] = Word(head[t])]
  /\ UNCHANGED <<poolVars, listVars, countVars, held, getting, head, prevHead, next,
                 addVars>>

Acquire(t) ==
  /\ \/ /\ Goto(t, "acquire", "load next")
        /\ Word(head[t]) = refs[t]
        /\ freeListRefs' = [freeListRefs EXCEPT ![head[t]] = @ + 1]
     \/ /\ Goto(t, "acquire", "load head")
        /\ Word(head[t]) # refs[t]
        /\ UNCHANGED freeListRefs
  /\ refs' = [refs EXCEPT ![t] = NoRefs]
  /\ UNCHANGED <<poolVars, listVars, flagged, held, getting, head, prevHead, next,
                 addVars>>

LoadNext(t) ==
  /\ Goto(t, "load next", "pop")
  /\ next' = [next EXCEPT ![t] = freeListNext[head[t]]]
  /\ UNCHANGED <<poolVars, listVars, countVars, held, getting, head, prevHead, refs,
                 addVars>>

(* The compare-and-swap of freeListHead; when it fails, it loads it.       *)
Pop(t) ==
  /\ \/ /\ freeListHead = head[t]
        /\ Goto(t, "pop", "take")
        /\ freeListHead' = next[t]
        /\ list' = SubSeq(list, 2, Len(list))
        /\ UNCHANGED <<head, prevHead>>
     \/ /\ freeListHead # head[t]
        /\ Goto(t, "pop", "release")
        /\ prevHead' = [prevHead EXCEPT ![t] = head[t]]
        /\ head' = [head EXCEPT ![t] = freeListHead]
        /\ UNCHANGED <<freeListHead, list>>
  /\ next' = [next EXCEPT ![t] = Null]
  /\ UNCHANGED <<poolVars, freeListNext, countVars, held, getting, refs, addVars>>

(* Planted fault: the reference of the list is forgotten.                  *)
TakeOneRef(t) ==
  /\ Goto(t, "take", "idle")
  /\ freeListRefs' = [freeListRefs EXCEPT ![head[t]] = @ - 1]
  /\ held' = held \cup {head[t]}
  /\ head' = [head EXCEPT ![t] = Null]
  /\ getting' = getting \ {t}
  /\ UNCHANGED <<poolVars, listVars, flagged, prevHead, refs, next, addVars>>

(* The reference of the thread and that of the list are given up.          *)
Take(t) ==
  /\ Goto(t, "take", "idle")
  /\ freeListRefs' = [freeListRefs EXCEPT ![head[t]] = @ - 2]
  /\ held' = held \cup {head[t]}
  /\ head' = [head EXCEPT ![t] = Null]
  /\ getting' = getting \ {t}
  /\ UNCHANGED <<poolVars, listVars, flagged, prevHead, refs, next, addVars>>

(* Planted fault: a node that lost its last reader is left to its adder.   *)
ReleaseOnly(t) ==
  /\ Goto(t, "release", LookAt(head[t]))
  /\ freeListRefs' = [freeListRefs EXCEPT ![prevHead[t]] = @ - 1]
  /\ prevHead' = [prevHead EXCEPT ![t] = Null]
  /\ UNCHANGED <<poolVars, listVars, flagged, held, getting, head, refs, next,
                 addVars>>

(* Planted fault: a node that lost its last reader goes back in any case.  *)
ReleaseAdds(t) ==
  /\ \/ /\ Goto(t, "release", "load top")
        /\ freeListRefs[prevHead[t]] = 1
        /\ node' = [node EXCEPT ![t] = prevHead[t]]
     \/ /\ Goto(t, "release", LookAt(head[t]))
        /\ freeListRefs[prevHead[t]] # 1
        /\ UNCHANGED node
  /\ freeListRefs' = [freeListRefs EXCEPT ![prevHead[t]] = @ - 1]
  /\ prevHead' = [prevHead EXCEPT ![t] = Null]
  /\ UNCHANGED <<poolVars, listVars, flagged, held, getting, head, refs, next, top>>

(* The last one to look at a node that is to be on the list puts it there. *)
Release(t) ==
  /\ \/ /\ Goto(t, "release", "load top")
        /\ Word(prevHead[t]) = <<1, 1>>
        /\ node' = [node EXCEPT ![t] = prevHead[t]]
     \/ /\ Goto(t, "release", LookAt(head[t]))
        /\ Word(prevHead[t]) # <<1, 1>>
        /\ UNCHANGED node
  /\ freeListRefs' = [freeListRefs EXCEPT ![prevHead[t]] = @ - 1]
  /\ prevHead' = [prevHead EXCEPT ![t] = Null]
  /\ UNCHANGED <<poolVars, listVars, flagged, held, getting, head, refs, next, top>>

--------------------------------------------------------------------------------
(* FreeList::add() of a block some stream is done with.                    *)
Add(t, n) ==
  /\ n \in held
  /\ held' = held \ {n}
  /\ flagged' = flagged \cup {n}
  /\ \/ /\ freeListRefs[n] = 0
        /\ Goto(t, "idle", "load top")
        /\ node' = [node EXCEPT ![t] = n]
     \/ /\ freeListRefs[n] # 0
        /\ Goto(t, "idle", "idle")
        /\ UNCHANGED node
  /\ UNCHANGED <<poolVars, listVars, freeListRefs, getVars, top>>

(* add_knowing_refcount_is_zero()                                          *)
LoadTop(t) ==
  /\ Goto(t, "load top", "link")
  /\ top' = [top EXCEPT ![t] = freeListHead]
  /\ UNCHANGED <<poolVars, listVars, countVars, held, getVars, node>>

Link(t) ==
  /\ Goto(t, "link", "expose")
  /\ freeListNext' = [freeListNext EXCEPT ![node[t]] = top[t]]
  /\ UNCHANGED <<poolVars, freeListHead, list, countVars, held, getVars, addVars>>

(* The store of 1 clears the flag.                                         *)
Expose(t) ==
  /\ Goto(t, "expose", "push")
  /\ freeListRefs' = [freeListRefs EXCEPT ![node[t]] = 1]
  /\ flagged' = flagged \ {node[t]}
  /\ UNCHANGED <<poolVars, listVars, held, getVars, addVars>>

(* Back to the caller: add(), or the loop of try_get().                    *)
Done(t) == IF t \in getting THEN LookAt(head[t]) ELSE "idle"

Push(t) ==
  /\ \/ /\ freeListHead = top[t]
        /\ Goto(t, "push", Done(t))
        /\ freeListHead' = node[t]
        /\ list' = <<node[t]>> \o list
        /\ node' = [node EXCEPT ![t] = Null]
        /\ top' = [top EXCEPT ![t] = Null]
     \/ /\ freeListHead # top[t]
        /\ Goto(t, "push", "retract")
        /\ top' = [top EXCEPT ![t] = freeListHead]
        /\ UNCHANGED <<freeListHead, list, node>>
  /\ UNCHANGED <<poolVars, freeListNext, countVars, held, getVars>>

(* The list's reference is taken back and the flag raised, in one addition *)
Retract(t) ==
  /\ \/ /\ Goto(t, "retract", "link")
        /\ freeListRefs[node[t]] = 1
        /\ UNCHANGED addVars
     \/ /\ Goto(t, "retract", Done(t))
        /\ freeListRefs[node[t]] # 1
        /\ node' = [node EXCEPT ![t] = Null]
        /\ top' = [top EXCEPT ![t] = Null]
  /\ freeListRefs' = [freeListRefs EXCEPT ![node[t]] = @ - 1]
  /\ flagged' = flagged \cup {node[t]}
  /\ UNCHANGED <<poolVars, listVars, held, getVars>>

--------------------------------------------------------------------------------
TryGet(t) ==
  \/ LoadHead(t) \/ LoadRefs(t) \/ Acquire(t) \/ LoadNext(t)
  \/ Pop(t) \/ Take(t) \/ Release(t)

AddNode(t) == LoadTop(t) \/ Link(t) \/ Expose(t) \/ Push(t) \/ Retract(t)

GoOn(t) == TakeFromPool(t) \/ Create(t) \/ TryGet(t) \/ AddNode(t)

Call(t) == Requisition(t) \/ \E n \in Blocks : Add(t, n)

Next == \E t \in Threads : Call(t) \/ GoOn(t)

Spec == Init /\ [][Next]_vars

(* Some call that was begun goes on: no thread is promised anything.       *)
FairSpec == Spec /\ WF_vars(\E t \in Threads : GoOn(t))

--------------------------------------------------------------------------------
OnList == {list[i] : i \in 1 .. Len(list)}

(* Threads that have counted themselves in freeListRefs of n.              *)
Users(n) ==
  {t \in Threads :
     \/ pc[t] \in {"load next", "pop", "take"} /\ head[t] = n
     \/ pc[t] = "release" /\ prevHead[t] = n}

(* The one reference that stands for the list: in it, on the way, or out.  *)
ListRef(n) ==
  IF \/ n \in OnList
     \/ \E t \in Threads : \/ pc[t] = "take" /\ head[t] = n
                           \/ pc[t] \in {"push", "retract"} /\ node[t] = n
    THEN 1 ELSE 0

(***************************************************************************)
(* The reference count of a block is the number of threads that look at it *)
(* in try_get(), and one for the list, whatever has become of the block in *)
(* the meantime: while a thread looks, the count never reaches zero.       *)
(***************************************************************************)
RefsBalance == \A n \in Blocks : freeListRefs[n] = Cardinality(Users(n)) + ListRef(n)

(***************************************************************************)
(* No block is lost: when no call is under way, every block that was ever  *)
(* handed out is held by a stream or is on the free list, the chain from   *)
(* freeListHead, and not in both.  (A returned block may be off the list   *)
(* for as long as some thread looks at it.)                                *)
(***************************************************************************)
HandedOut(n) ==
  n < created /\ (n < InitialPoolSize => n < initialBlockPoolIndex)

NoneLost ==
  (\A t \in Threads : pc[t] = "idle") =>
    {n \in Blocks : HandedOut(n)} = held \cup OnList /\ held \cap OnList = {}

(***************************************************************************)
(* The list is lock-free: it is never the case that threads take steps for *)
(* ever and no call returns, however they disturb each other.              *)
(***************************************************************************)
Returns == \E t \in Threads : pc[t] # "idle" /\ pc'[t] = "idle"

LockFree == []<>(\A t \in Threads : pc[t] = "idle") \/ []<><<Returns>>_vars

--------------------------------------------------------------------------------
(* A thread that has taken the head of the list has the block in hand.     *)
hand == [t \in Threads |-> IF pc[t] = "take" THEN head[t] ELSE Null]

Ledger == INSTANCE BlockLedger

LedgerSpec == Ledger!Spec

================================================================================
