----------------------------- MODULE ImplicitStream ----------------------------
(***************************************************************************)
(* The stream of one producer thread inside moodycamel::ConcurrentQueue:   *)
(* ImplicitProducer::enqueue and ::dequeue (concurrentqueue.h).  The       *)
(* producer writes an element into a block and then publishes it by        *)
(* advancing tailIndex.  A consumer first claims an element by counting    *)
(* itself in dequeueOptimisticCount; if that turns out to be one too many  *)
(* it says so in dequeueOvercommit, and otherwise headIndex tells it which *)
(* element is its own.  The last consumer to finish with a block frees it. *)
(*                                                                         *)
(* The counters are unsigned and wrap around.  Loads and stores take       *)
(* effect in program order: the model says nothing of a weaker memory.     *)
(* Allocation succeeds, and the assertions are compiled out.               *)
(***************************************************************************)
EXTENDS Integers, FiniteSets

CONSTANTS
  Consumers,
  Nothing,     \* no element
  MaxSent,     \* bound: elements enqueued
  IndexSize,   \* 2 ^ (bits of index_t)
  BlockSize,   \* BLOCK_SIZE
  Starts       \* counters <<tail, overcommit>> of the quiet streams to start from

Index == 0 .. IndexSize - 1

ASSUME SizesAreNat ==
  /\ MaxSent \in Nat
  /\ IndexSize \in Nat \ {0} /\ IndexSize % 2 = 0
  /\ BlockSize \in Nat \ {0} /\ IndexSize % BlockSize = 0
ASSUME BlocksAreCounted == BlockSize < IndexSize  \* BLOCK_SIZE is a size_t, and index_t no smaller
ASSUME StartsAreCounters == Starts \subseteq Index \X Index
ASSUME NothingIsNoElement == Nothing \notin 0 .. MaxSent - 1
ASSUME RoomToCompare ==  \* counters in use are less than half a turn apart
  /\ IsFiniteSet(Consumers) /\ Cardinality(Consumers) <= IndexSize \div 4
  /\ MaxSent < IndexSize \div 2

VARIABLES
  tailIndex, headIndex, dequeueOptimisticCount, dequeueOvercommit,
  slot,        \* [Index -> element or Nothing]  what is constructed where
  blocks,      \* bases of the blocks that have an entry in the block index
  elementsCompletelyDequeued,  \* [Index -> Nat], by the base of the block
  written,     \* the producer has written its element, not yet published it
  pc,          \* where each consumer is in dequeue()
  tail, overcommit, myDequeueCount, index,  \* its local variables
  got,         \* the element it was given (its reference parameter)
  sent,        \* history: elements published
  taken,       \* history: advances of headIndex
  excused      \* history: see StreamPromise

countVars == <<headIndex, dequeueOptimisticCount, dequeueOvercommit>>
blockVars == <<slot, blocks, elementsCompletelyDequeued>>
localVars == <<tail, overcommit, myDequeueCount, index>>
vars == <<tailIndex, countVars, blockVars, written, pc, localVars, got, sent,
          taken, excused>>

Plus(a, b) == (a + b) % IndexSize
Minus(a, b) == (a - b) % IndexSize

(* circular_less_than(): a is before b if b is less than half a turn ahead *)
CircularLessThan(a, b) == Minus(a, b) > IndexSize \div 2

Base(i) == i - (i % BlockSize)

Bases == {i \in Index : i % BlockSize = 0}

Elements == 0 .. MaxSent - 1

TypeOK ==
  /\ {tailIndex, headIndex, dequeueOptimisticCount, dequeueOvercommit} \subseteq Index
  /\ slot \in [Index -> Elements \cup {Nothing}]
  /\ blocks \subseteq Bases
  /\ elementsCompletelyDequeued \in [Bases -> 0 .. BlockSize]
  /\ written \in BOOLEAN
  /\ pc \in [Consumers -> {"idle", "overcommit", "count", "claim", "check",
                           "head", "excess", "move", "retire"}]
  /\ {tail, overcommit, myDequeueCount, index} \subseteq [Consumers -> Index]
  /\ got \in [Consumers -> Elements \cup {Nothing}]
  /\ sent \in 0 .. MaxSent /\ taken \in 0 .. sent
  /\ excused \subseteq Consumers

(* A stream in which nothing is going on, after any amount of traffic.     *)
Init ==
  /\ \E start \in Starts :
       /\ tailIndex = start[1] /\ headIndex = start[1]
       /\ dequeueOvercommit = start[2]
       /\ dequeueOptimisticCount = Plus(start[1], start[2])
       /\ blocks = {Base(start[1])} \ {start[1]}
       /\ elementsCompletelyDequeued =
            [b \in Bases |-> IF b \in blocks THEN start[1] - b ELSE 0]
  /\ slot = [i \in Index |-> Nothing]
  /\ written = FALSE
  /\ pc = [c \in Consumers |-> "idle"]
  /\ tail = [c \in Consumers |-> 0]
  /\ overcommit = [c \in Consumers |-> 0]
  /\ myDequeueCount = [c \in Consumers |-> 0]
  /\ index = [c \in Consumers |-> 0]
  /\ got = [c \in Consumers |-> Nothing]
  /\ sent = 0 /\ taken = 0 /\ excused = {}

--------------------------------------------------------------------------------
(* The producer.                                                           *)

(* At the end of a block, start another one, unless the counters are too   *)
(* far apart to be compared any more: then enqueue() returns false.        *)
EnqueueWrite ==
  /\ ~written /\ sent < MaxSent
  /\ \/ /\ tailIndex # Base(tailIndex)
        /\ UNCHANGED <<blocks, elementsCompletelyDequeued>>
     \/ /\ tailIndex = Base(tailIndex)
        /\ CircularLessThan(headIndex, Plus(tailIndex, BlockSize))
        /\ blocks' = blocks \cup {tailIndex}
        /\ elementsCompletelyDequeued' =
             [elementsCompletelyDequeued EXCEPT ![tailIndex] = 0]
  /\ slot' = [slot EXCEPT ![tailIndex] = sent]
  /\ written' = TRUE
  /\ UNCHANGED <<tailIndex, countVars, pc, localVars, got, sent, taken>>

EnqueuePublish ==
  /\ written
  /\ tailIndex' = Plus(tailIndex, 1)
  /\ sent' = sent + 1
  /\ written' = FALSE
  /\ UNCHANGED <<countVars, blockVars, pc, localVars, got, taken>>

--------------------------------------------------------------------------------
(* dequeue() by consumer c.                                                *)

Goto(c, from, to) ==
  /\ pc[c] = from
  /\ pc' = [pc EXCEPT ![c] = to]

LoadTail(c) ==
  /\ Goto(c, "idle", "overcommit")
  /\ tail' = [tail EXCEPT ![c] = tailIndex]
  /\ got' = [got EXCEPT ![c] = Nothing]
  /\ UNCHANGED <<tailIndex, countVars, blockVars, written, overcommit,
                 myDequeueCount, index, sent, taken>>

LoadOvercommit(c) ==
  /\ Goto(c, "overcommit", "count")
  /\ overcommit' = [overcommit EXCEPT ![c] = dequeueOvercommit]
  /\ UNCHANGED <<tailIndex, countVars, blockVars, written, tail,
                 myDequeueCount, index, got, sent, taken>>

(* Does it look as if there were an element for one more?  If not, return. *)
CheckCount(c) ==
  /\ Goto(c, "count",
          IF CircularLessThan(Minus(dequeueOptimisticCount, overcommit[c]), tail[c])
            THEN "claim" ELSE "idle")
  /\ UNCHANGED <<tailIndex, countVars, blockVars, written, localVars, got,
                 sent, taken>>

(* Bound: no call lasts so long that a quarter turn of claims is given     *)
(* back meanwhile.  After half a turn the counters could not be compared   *)
(* any more, which the comment on index_t in the default traits warns of.  *)
NoRivalIsAncient(c) ==
  \A d \in Consumers \ {c} :
    pc[d] \in {"count", "claim", "check"}
      => Minus(dequeueOvercommit, overcommit[d]) < IndexSize \div 4

Claim(c) ==
  /\ NoRivalIsAncient(c)
  /\ Goto(c, "claim", "check")
  /\ myDequeueCount' = [myDequeueCount EXCEPT ![c] = dequeueOptimisticCount]
  /\ dequeueOptimisticCount' = Plus(dequeueOptimisticCount, 1)
  /\ UNCHANGED <<tailIndex, headIndex, dequeueOvercommit, blockVars, written,
                 tail, overcommit, index, got, sent, taken>>

(* Planted fault: the claim is trusted without a second look.              *)
CheckClaimTrusting(c) ==
  /\ Goto(c, "check", "head")
  /\ UNCHANGED <<tailIndex, countVars, blockVars, written, localVars, got,
                 sent, taken>>

(* Planted fault: the claim is compared without the overcommitted ones.    *)
CheckClaimPlain(c) ==
  /\ Goto(c, "check",
          IF CircularLessThan(myDequeueCount[c], tailIndex)
            THEN "head" ELSE "excess")
  /\ tail' = [tail EXCEPT ![c] = tailIndex]
  /\ UNCHANGED <<tailIndex, countVars, blockVars, written, overcommit,
                 myDequeueCount, index, got, sent, taken>>

(* Is there still one, now that the claim is made?                         *)
CheckClaim(c) ==
  /\ Goto(c, "check",
          IF CircularLessThan(Minus(myDequeueCount[c], overcommit[c]), tailIndex)
            THEN "head" ELSE "excess")
  /\ tail' = [tail EXCEPT ![c] = tailIndex]
  /\ UNCHANGED <<tailIndex, countVars, blockVars, written, overcommit,
                 myDequeueCount, index, got, sent, taken>>

(* Planted fault: a claim in excess is not given back.                     *)
GiveBackForgotten(c) ==
  /\ Goto(c, "excess", "idle")
  /\ UNCHANGED <<tailIndex, countVars, blockVars, written, localVars, got,
                 sent, taken>>

GiveBack(c) ==
  /\ Goto(c, "excess", "idle")
  /\ dequeueOvercommit' = Plus(dequeueOvercommit, 1)
  /\ UNCHANGED <<tailIndex, headIndex, dequeueOptimisticCount, blockVars,
                 written, localVars, got, sent, taken>>

TakeHead(c) ==
  /\ Goto(c, "head", "move")
  /\ index' = [index EXCEPT ![c] = headIndex]
  /\ headIndex' = Plus(headIndex, 1)
  /\ taken' = taken + 1
  /\ UNCHANGED <<tailIndex, dequeueOptimisticCount, dequeueOvercommit,
                 blockVars, written, tail, overcommit, myDequeueCount, got, sent>>

MoveOut(c) ==
  /\ Goto(c, "move", "retire")
  /\ got' = [got EXCEPT ![c] = slot[index[c]]]
  /\ slot' = [slot EXCEPT ![index[c]] = Nothing]
  /\ UNCHANGED <<tailIndex, countVars, blocks, elementsCompletelyDequeued,
                 written, localVars, sent, taken>>

(* Planted fault: the count of the elements of a block is off by one.      *)
RetireOneShort(c) ==
  LET b == Base(index[c])  done == elementsCompletelyDequeued[b] IN
    /\ Goto(c, "retire", "idle")
    /\ elementsCompletelyDequeued' =
         [elementsCompletelyDequeued EXCEPT ![b] = done + 1]
    /\ blocks' = IF done = BlockSize THEN blocks \ {b} ELSE blocks
    /\ UNCHANGED <<tailIndex, countVars, slot, written, localVars, got, sent,
                   taken>>

(* set_empty(): the last of a block's elements to go frees it.             *)
Retire(c) ==
  LET b == Base(index[c])  done == elementsCompletelyDequeued[b] IN
    /\ Goto(c, "retire", "idle")
    /\ elementsCompletelyDequeued' =
         [elementsCompletelyDequeued EXCEPT ![b] = done + 1]
    /\ blocks' = IF done = BlockSize - 1 THEN blocks \ {b} ELSE blocks
    /\ UNCHANGED <<tailIndex, countVars, slot, written, localVars, got, sent,
                   taken>>

Dequeue(c) ==
  \/ LoadTail(c)
  \/ LoadOvercommit(c)
  \/ CheckCount(c)
  \/ Claim(c)
  \/ CheckClaim(c)
  \/ GiveBack(c)
  \/ TakeHead(c)
  \/ MoveOut(c)
  \/ Retire(c)

--------------------------------------------------------------------------------
calling == {c \in Consumers : pc[c] # "idle"}

Excuse ==
  excused' = {c \in calling' : c \in excused \/ taken' = sent' \/ calling' # {c}}

Next ==
  /\ EnqueueWrite \/ EnqueuePublish \/ \E c \in Consumers : Dequeue(c)
  /\ Excuse

Spec == Init /\ [][Next]_vars

(* A call that was begun goes on.  Nothing makes the producer enqueue or a *)
(* consumer call.                                                          *)
FairSpec ==
  Spec /\ \A c \in Consumers : WF_vars(pc[c] # "idle" /\ Dequeue(c) /\ Excuse)

--------------------------------------------------------------------------------
(***************************************************************************)
(* When nobody is at work, the stream holds the blocks of its elements and *)
(* the one the next element goes to, and has freed all others.             *)
(***************************************************************************)
BlocksReclaimed ==
  calling = {} /\ ~written =>
    blocks = {Base(Plus(headIndex, k)) : k \in 0 .. sent - taken - 1}
               \cup ({Base(tailIndex)} \ {tailIndex})

(***************************************************************************)
(* A consumer that keeps trying obtains every element once the others have *)
(* stopped trying, whatever they have left in the counters.  (While others *)
(* go on it may not: two consumers that run in lock step, each with a      *)
(* stale dequeueOvercommit, hide one element from each other for ever.)    *)
(***************************************************************************)
LastOneDrains ==
  \A c \in Consumers :
    []<>(pc[c] # "idle") /\ <>[](calling \subseteq {c})
      => \A e \in Elements : e < sent ~> e < taken

--------------------------------------------------------------------------------
Promise ==
  INSTANCE StreamPromise
    WITH hand <- [c \in Consumers |->
                    IF pc[c] = "move" THEN slot[index[c]] ELSE got[c]]

PromiseSpec == Promise!Spec

================================================================================
