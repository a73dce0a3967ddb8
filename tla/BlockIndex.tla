------------------------------ MODULE BlockIndex -------------------------------
(***************************************************************************)
(* How the consumers of a producer thread's stream find the block of the   *)
(* element they have claimed: the block index of ImplicitProducer          *)
(* (concurrentqueue.h).                                                    *)
(*                                                                         *)
(* The index is a ring of entries.  The producer writes the base of a new  *)
(* block into the entry after the tail, moves the tail there, and at last  *)
(* stores the block; whoever finishes the last element of a block takes it *)
(* out again.  When the next entry is still taken, the producer makes an   *)
(* index of twice the size, which shares the entries of the old one.  A    *)
(* call that fails half-way, for want of memory or because an element's    *)
(* constructor throws, moves the tail back.                                *)
(*                                                                         *)
(* A consumer reads the index, then its tail, then the base at the tail,   *)
(* and steps back from there; all three may be out of date by then.        *)
(*                                                                         *)
(* A block is named by the index of its first element, the elements are    *)
(* not told apart, and a claim is the one step that ImplicitStream shows   *)
(* it to amount to.  Loads and stores take effect in program order.        *)
(***************************************************************************)
EXTENDS Integers, FiniteSets, Sequences, SequencesExt

CONSTANTS
  Consumers,
  Null,             \* nullptr
  Garbage,          \* what an atomic holds that nothing was stored in
  BlockSize,        \* BLOCK_SIZE
  IndexSize,        \* 2 ^ (bits of index_t)
  InitialCapacity,  \* IMPLICIT_INITIAL_INDEX_SIZE
  MaxSent,          \* bound: elements enqueued
  Bulks,            \* bound: the numbers given to enqueue_bulk() and dequeue_bulk()
  MaxBulk,          \* bound: the largest of them
  MaxCapacity,      \* bound: memory for an index of more entries is refused
  Starts            \* values of tailIndex of the quiet streams to start from

Index == 0 .. IndexSize - 1

(* The sizes are powers of two; this is what matters of that.              *)
ASSUME SizesDivide ==
  /\ {BlockSize, IndexSize, InitialCapacity, MaxCapacity} \subseteq Nat \ {0}
  /\ BlockSize >= 2 /\ 2 * BlockSize <= IndexSize
  /\ IndexSize % (BlockSize * MaxCapacity) = 0 /\ MaxCapacity % InitialCapacity = 0
  /\ \A n \in 1 .. MaxCapacity \div 2 :
       MaxCapacity % n = 0 => MaxCapacity % (2 * n) = 0
ASSUME BulksAreBounded == Bulks \subseteq 1 .. MaxBulk
ASSUME BoundsAreNat ==
  MaxSent \in Nat /\ MaxBulk \in 1 .. (IndexSize \div 2) - 1
ASSUME StartsAreBases == Starts \subseteq {i \in Index : i % BlockSize = 0}
ASSUME NamesAreNew == Null \notin Index /\ Garbage \notin Index /\ Null # Garbage

VARIABLES
  tailIndex, headIndex,
  tailBlock,
  headers,      \* BlockIndexHeaders, the last one is *blockIndex
  key, value,   \* [Entries -> ...]  of the BlockIndexEntries
  owned,        \* the blocks that belong to this producer
  elementsCompletelyDequeued,  \* [Bases -> Nat]
  step,         \* where the producer is in enqueue() or enqueue_bulk()
  bulk, count,  \* which of the two, and its number of elements
  startBlock, cur, fresh, undone,  \* its local variables
  pc,           \* where each consumer is in dequeue() or dequeue_bulk()
  first, left,  \* the next of its elements, and how many there still are
  header, tail, idx, block,  \* its local variables
  destroyed,    \* the blocks the destructor has destroyed, in order
  sent          \* history: elements enqueued

ringVars == <<headers, key, value>>
producerVars == <<step, bulk, count, startBlock, cur, fresh, undone>>
consumerVars == <<pc, first, left, header, tail, idx, block>>
vars == <<tailIndex, headIndex, tailBlock, ringVars, owned,
          elementsCompletelyDequeued, producerVars, consumerVars, destroyed, sent>>

Plus(a, b) == (a + b) % IndexSize
Minus(a, b) == (a - b) % IndexSize
CircularLessThan(a, b) == Minus(a, b) > IndexSize \div 2

Base(i) == i - (i % BlockSize)
Bases == {i \in Index : i % BlockSize = 0}

INVALID_BLOCK_BASE == 1
Entries == 0 .. MaxCapacity - 1

(* A header: index |-> [0 .. capacity - 1 -> Entries], tail |-> a position *)
Capacity(h) == Cardinality(DOMAIN h.index)
Next1(h, i) == (i + 1) % Capacity(h)

blockIndex == Last(headers)
NewTail == Next1(blockIndex, blockIndex.tail)
idxEntry == blockIndex.index[NewTail]     \* before the tail is moved there
tailEntry == blockIndex.index[blockIndex.tail]

Steps == {"idle", "room", "insert", "grow", "key", "tail", "block", "construct",
          "value", "publish", "rewind", "unset", "revert", "revertRewind",
          "crashed", "gone"}

TypeOK ==
  /\ {tailIndex, headIndex} \subseteq Index
  /\ tailBlock \in Bases \cup {Null} /\ startBlock \in Bases \cup {Null}
  /\ \A i \in DOMAIN headers : \E n \in 1 .. MaxCapacity :
       /\ n = IF i = 1 THEN InitialCapacity ELSE 2 * Capacity(headers[i - 1])
       /\ headers[i] \in [index : [0 .. n - 1 -> Entries], tail : 0 .. n - 1]
  /\ key \in [Entries -> Bases \cup {INVALID_BLOCK_BASE}]
  /\ value \in [Entries -> Bases \cup {Null, Garbage}]
  /\ owned \subseteq Bases
  /\ elementsCompletelyDequeued \in [Bases -> 0 .. BlockSize]
  /\ step \in Steps /\ bulk \in BOOLEAN /\ count \in 0 .. MaxBulk
  /\ cur \in Bases /\ fresh \in Seq(Bases) /\ undone \in 0 .. Len(fresh)
  /\ pc \in [Consumers -> {"idle", "header", "tail", "key", "value", "finish", "unset"}]
  /\ first \in [Consumers -> Index] /\ left \in [Consumers -> 0 .. MaxBulk]
  /\ header \in [Consumers -> 0 .. Len(headers)]
  /\ {tail, idx} \subseteq [Consumers -> 0 .. MaxCapacity - 1]
  /\ block \in [Consumers -> Bases \cup {Null, Garbage}]
  /\ destroyed \in Seq(Bases) /\ sent \in 0 .. MaxSent

FirstHeader == [index |-> [i \in 0 .. InitialCapacity - 1 |-> i],
                tail |-> InitialCapacity - 1]

(* A stream nothing is going on in, new, or drained after much traffic.    *)
(* The constructor does not say whether it got its index.                  *)
Init ==
  /\ \E start \in Starts :
       /\ tailIndex = start /\ headIndex = start
       /\ \/ start = 0 /\ headers \in {<<>>, <<FirstHeader>>}
          \/ /\ start # 0
             /\ headers = <<[FirstHeader EXCEPT !.tail =
                               (start \div BlockSize - 1) % InitialCapacity]>>
       /\ LET used(e) == start # 0 /\ e < InitialCapacity
              age(e) == 1 + ((start \div BlockSize - 1 - e) % InitialCapacity)
          IN /\ key = [e \in Entries |->
                         IF used(e) THEN Minus(start, BlockSize * age(e))
                                    ELSE INVALID_BLOCK_BASE]
             /\ value = [e \in Entries |-> IF used(e) THEN Null ELSE Garbage]
       /\ tailBlock = IF start = 0 THEN Null ELSE Minus(start, BlockSize)
       /\ startBlock = tailBlock
  /\ owned = {}
  /\ elementsCompletelyDequeued = [b \in Bases |-> BlockSize]  \* from its last use
  /\ step = "idle" /\ bulk = FALSE /\ count = 0
  /\ cur = 0 /\ fresh = <<>> /\ undone = 0
  /\ pc = [c \in Consumers |-> "idle"]
  /\ first = [c \in Consumers |-> 0] /\ left = [c \in Consumers |-> 0]
  /\ header = [c \in Consumers |-> 0] /\ tail = [c \in Consumers |-> 0]
  /\ idx = [c \in Consumers |-> 0] /\ block = [c \in Consumers |-> Null]
  /\ destroyed = <<>> /\ sent = 0

At(from, to) == step = from /\ step' = to

--------------------------------------------------------------------------------
(* enqueue() of one element, enqueue_bulk() of several.                    *)

(* Bound: indices are only compared when less than half a turn apart.      *)
NoBlockIsAncient ==
  \A b \in owned : Minus(Plus(tailIndex, MaxBulk), b) < IndexSize \div 2

FirstBase == Base(Plus(tailIndex, BlockSize - 1))
NeedsBlock(b) == Minus(b, tailIndex) < count'

Begin(isBulk, n) ==
  /\ step = "idle" /\ sent + n <= MaxSent /\ NoBlockIsAncient
  /\ bulk' = isBulk /\ count' = n
  /\ startBlock' = tailBlock
  /\ \/ NeedsBlock(FirstBase) /\ cur' = FirstBase /\ At("idle", "room")
     \/ ~NeedsBlock(FirstBase) /\ cur' = cur /\ At("idle", "construct")
  /\ UNCHANGED <<tailIndex, headIndex, tailBlock, ringVars, owned,
                 elementsCompletelyDequeued, fresh, undone, consumerVars, destroyed,
                 sent>>

Enqueue == Begin(FALSE, 1)
EnqueueBulk == \E n \in Bulks : Begin(TRUE, n)

(* A failed call: a bulk one takes back the blocks that it has by then.    *)
GiveUp(from) == At(from, IF bulk THEN "revert" ELSE "idle")

blockVars == <<tailBlock, owned, elementsCompletelyDequeued>>
callVars == <<bulk, count, startBlock, cur, fresh, undone>>
restVars == <<tailIndex, headIndex, consumerVars, destroyed, sent>>

CheckRoom ==
  /\ \/ At("room", "insert") /\ CircularLessThan(headIndex, Plus(cur, BlockSize))
     \/ GiveUp("room") /\ ~CircularLessThan(headIndex, Plus(cur, BlockSize))
  /\ UNCHANGED <<ringVars, blockVars, callVars, restVars>>

(* insert_block_index_entry()                                              *)
Usable(e) == key[e] = INVALID_BLOCK_BASE \/ value[e] = Null

InsertEntry ==
  /\ headers # <<>>
  /\ \/ At("insert", "key") /\ Usable(idxEntry)
     \/ At("insert", "grow") /\ ~Usable(idxEntry)
  /\ UNCHANGED <<ringVars, blockVars, callVars, restVars>>

(* The constructor got no memory for an index: a null pointer is followed. *)
NullIndex ==
  /\ headers = <<>>
  /\ At("insert", "crashed")
  /\ UNCHANGED <<ringVars, blockVars, callVars, restVars>>

(* Planted fault: the old entries are copied as they lie in the ring.      *)
NewHeaderUnrotated(h) ==
  [index |-> [i \in 0 .. 2 * Capacity(h) - 1 |->
                IF i < Capacity(h) THEN h.index[i] ELSE i],
   tail |-> Capacity(h) - 1]

(* new_block_index(): the old entries, oldest first, then as many new ones *)
NewHeader(h) ==
  [index |-> [i \in 0 .. 2 * Capacity(h) - 1 |->
                IF i < Capacity(h) THEN h.index[(h.tail + 1 + i) % Capacity(h)]
                                   ELSE i],
   tail |-> Capacity(h) - 1]

NewBlockIndex ==
  /\ \/ /\ At("grow", "key")
        /\ 2 * Capacity(blockIndex) <= MaxCapacity
        /\ headers' = Append(headers, NewHeader(blockIndex))
     \/ GiveUp("grow") /\ UNCHANGED headers
  /\ UNCHANGED <<key, value, blockVars, callVars, restVars>>

StoreKey ==
  /\ At("key", "tail")
  /\ key' = [key EXCEPT ![idxEntry] = cur]
  /\ UNCHANGED <<headers, value, blockVars, callVars, restVars>>

MoveTail(t) == headers' = [headers EXCEPT ![Len(headers)].tail = t]

StoreTail ==
  /\ At("tail", "block")
  /\ MoveTail(NewTail)
  /\ UNCHANGED <<key, value, blockVars, callVars, restVars>>

(* Planted fault: the count of a used block is not reset.                  *)
RequisitionUsedBlock ==
  /\ \/ At("block", IF bulk THEN "value" ELSE "construct") /\ owned' = owned \cup {cur}
     \/ At("block", "rewind") /\ UNCHANGED owned
  /\ UNCHANGED <<elementsCompletelyDequeued, tailBlock, ringVars, callVars, restVars>>

(* requisition_block() and reset_empty()                                   *)
RequisitionBlock ==
  /\ \/ /\ At("block", IF bulk THEN "value" ELSE "construct")
        /\ owned' = owned \cup {cur}
        /\ elementsCompletelyDequeued' = [elementsCompletelyDequeued EXCEPT ![cur] = 0]
     \/ At("block", "rewind") /\ UNCHANGED <<owned, elementsCompletelyDequeued>>
  /\ UNCHANGED <<tailBlock, ringVars, callVars, restVars>>

StoreValue ==
  /\ step = "value"
  /\ value' = [value EXCEPT ![tailEntry] = cur]
  /\ tailBlock' = cur
  /\ \/ ~bulk /\ At("value", "publish") /\ UNCHANGED <<cur, fresh>>
     \/ /\ bulk
        /\ fresh' = Append(fresh, cur)
        /\ LET next == Plus(cur, BlockSize) IN
             \/ Minus(next, tailIndex) < count /\ cur' = next /\ At("value", "room")
             \/ /\ Minus(next, tailIndex) >= count
                /\ cur' = cur
                /\ At("value", "construct")
  /\ UNCHANGED <<headers, key, owned, elementsCompletelyDequeued, bulk, count,
                 startBlock, undone, restVars>>

(* The elements are constructed, or a constructor throws.  A single one in *)
(* a new block is constructed before the block is stored.                  *)
Construct ==
  /\ \/ bulk /\ At("construct", "publish")
     \/ ~bulk /\ At("construct", IF Base(tailIndex) = tailIndex THEN "value"
                                                               ELSE "publish")
     \/ bulk /\ At("construct", "revert")
     \/ ~bulk /\ At("construct", IF Base(tailIndex) = tailIndex THEN "rewind"
                                                               ELSE "idle")
  /\ UNCHANGED <<ringVars, blockVars, callVars, restVars>>

Publish ==
  /\ At("publish", "idle")
  /\ tailIndex' = Plus(tailIndex, count)
  /\ sent' = sent + count
  /\ fresh' = <<>>
  /\ UNCHANGED <<headIndex, ringVars, blockVars, bulk, count, startBlock, cur, undone,
                 consumerVars, destroyed>>

(* rewind_block_index_tail(): idxEntry is then what tailEntry was.         *)
Back == (blockIndex.tail - 1) % Capacity(blockIndex)

Rewind ==
  /\ At("rewind", "unset")
  /\ MoveTail(Back)
  /\ UNCHANGED <<key, value, blockVars, callVars, restVars>>

UnsetValue ==
  /\ GiveUp("unset")
  /\ value' = [value EXCEPT ![idxEntry] = Null]
  /\ owned' = owned \ {cur}
  /\ UNCHANGED <<tailBlock, elementsCompletelyDequeued, headers, key, callVars, restVars>>

(* get_block_index_index_for_index(): / and & of unsigned numbers.         *)
Position(h, t, base, b) ==
  (t + (Minus(b, base) \div BlockSize)) % Capacity(h)

EntryOf(b) ==
  blockIndex.index[Position(blockIndex, blockIndex.tail, key[tailEntry], b)]

(* Planted fault: only the first block of the call is given back.          *)
RevertOne ==
  \/ /\ undone < Len(fresh)
     /\ At("revert", "revertRewind")
     /\ value' = [value EXCEPT ![EntryOf(fresh[undone + 1])] = Null]
     /\ undone' = undone + 1
     /\ UNCHANGED <<headers, key, blockVars, bulk, count, startBlock, cur, fresh, restVars>>
  \/ /\ undone = Len(fresh)
     /\ At("revert", "idle")
     /\ owned' = owned \ {fresh[i] : i \in DOMAIN fresh \cap {1}}
     /\ tailBlock' = startBlock
     /\ fresh' = <<>> /\ undone' = 0
     /\ UNCHANGED <<ringVars, elementsCompletelyDequeued, bulk, count, startBlock, cur,
                    restVars>>

(* enqueue_bulk() takes its blocks out of the index, the oldest one first. *)
Revert ==
  \/ /\ undone < Len(fresh)
     /\ At("revert", "revertRewind")
     /\ value' = [value EXCEPT ![EntryOf(fresh[undone + 1])] = Null]
     /\ undone' = undone + 1
     /\ UNCHANGED <<headers, key, blockVars, bulk, count, startBlock, cur, fresh, restVars>>
  \/ /\ undone = Len(fresh)
     /\ At("revert", "idle")
     /\ owned' = owned \ ToSet(fresh)
     /\ tailBlock' = startBlock
     /\ fresh' = <<>> /\ undone' = 0
     /\ UNCHANGED <<ringVars, elementsCompletelyDequeued, bulk, count, startBlock, cur,
                    restVars>>

RevertRewind ==
  /\ At("revertRewind", "revert")
  /\ MoveTail(Back)
  /\ UNCHANGED <<key, value, blockVars, callVars, restVars>>

Produce ==
  \/ Enqueue \/ EnqueueBulk \/ CheckRoom \/ InsertEntry \/ NullIndex \/ NewBlockIndex
  \/ StoreKey \/ StoreTail \/ RequisitionBlock \/ StoreValue \/ Construct \/ Publish
  \/ Rewind \/ UnsetValue \/ Revert \/ RevertRewind

--------------------------------------------------------------------------------
(* dequeue() and dequeue_bulk(), from the advance of headIndex on.         *)
Goto(c, from, to) ==
  /\ pc[c] = from
  /\ pc' = [pc EXCEPT ![c] = to]

producerSide == <<tailIndex, tailBlock, headers, key, producerVars, destroyed, sent>>
sharedVars == <<value, owned, elementsCompletelyDequeued>>

Claim(c) ==
  \E n \in {1} \cup {Min({max, Minus(tailIndex, headIndex)}) : max \in Bulks} :
    /\ tailIndex # headIndex
    /\ step \notin {"crashed", "gone"}
    /\ Goto(c, "idle", "header")
    /\ first' = [first EXCEPT ![c] = headIndex]
    /\ left' = [left EXCEPT ![c] = n]
    /\ headIndex' = Plus(headIndex, n)
    /\ UNCHANGED <<producerSide, sharedVars, header, tail, idx, block>>

LoadHeader(c) ==
  /\ Goto(c, "header", "tail")
  /\ header' = [header EXCEPT ![c] = Len(headers)]
  /\ UNCHANGED <<headIndex, producerSide, sharedVars, first, left, tail, idx, block>>

LoadTail(c) ==
  /\ Goto(c, "tail", "key")
  /\ tail' = [tail EXCEPT ![c] = headers[header[c]].tail]
  /\ UNCHANGED <<headIndex, producerSide, sharedVars, first, left, header, idx, block>>

LoadKey(c) ==
  LET h == headers[header[c]] IN
    /\ Goto(c, "key", "value")
    /\ idx' = [idx EXCEPT ![c] = Position(h, tail[c], key[h.index[tail[c]]],
                                          Base(first[c]))]
    /\ tail' = [tail EXCEPT ![c] = 0]
    /\ UNCHANGED <<headIndex, producerSide, sharedVars, first, left, header, block>>

Entry(c) == headers[header[c]].index[idx[c]]

LoadValue(c) ==
  /\ Goto(c, "value", "finish")
  /\ block' = [block EXCEPT ![c] = value[Entry(c)]]
  /\ UNCHANGED <<headIndex, producerSide, sharedVars, first, left, header, tail, idx>>

(* How many of its elements lie in the block it is at.                     *)
Room(i) == BlockSize - (i % BlockSize)
Here(c) == IF left[c] < Room(first[c]) THEN left[c] ELSE Room(first[c])

(* On to the next block of a bulk, in the same header.                     *)
Advance(c, from) ==
  /\ block' = [block EXCEPT ![c] = Null]
  /\ \/ /\ Here(c) < left[c]
        /\ Goto(c, from, "value")
        /\ first' = [first EXCEPT ![c] = Plus(@, Here(c))]
        /\ left' = [left EXCEPT ![c] = @ - Here(c)]
        /\ idx' = [idx EXCEPT ![c] = Next1(headers[header[c]], @)]
        /\ UNCHANGED header
     \/ /\ Here(c) = left[c]
        /\ Goto(c, from, "idle")
        /\ first' = [first EXCEPT ![c] = 0]
        /\ left' = [left EXCEPT ![c] = 0]
        /\ idx' = [idx EXCEPT ![c] = 0]
        /\ header' = [header EXCEPT ![c] = 0]

(* set_many_empty(), after the elements were moved out and destroyed, the  *)
(* remaining ones also when the assignment of one has thrown.              *)
Finish(c) ==
  LET done == elementsCompletelyDequeued[block[c]] + Here(c) IN
    /\ pc[c] = "finish"
    /\ elementsCompletelyDequeued' =
         [elementsCompletelyDequeued EXCEPT ![block[c]] = done]
    /\ \/ done = BlockSize /\ Goto(c, "finish", "unset")
             /\ UNCHANGED <<first, left, header, idx, block>>
       \/ done # BlockSize /\ Advance(c, "finish")
    /\ UNCHANGED <<headIndex, producerSide, value, owned, tail>>

(* The block leaves the index and goes to the free list.                   *)
Unset(c) ==
  /\ pc[c] = "unset"
  /\ value' = [value EXCEPT ![Entry(c)] = Null]
  /\ owned' = owned \ {block[c]}
  /\ Advance(c, "unset")
  /\ UNCHANGED <<headIndex, producerSide, elementsCompletelyDequeued, tail>>

Consume(c) ==
  \/ Claim(c) \/ LoadHeader(c) \/ LoadTail(c) \/ LoadKey(c) \/ LoadValue(c)
  \/ Finish(c) \/ Unset(c)

--------------------------------------------------------------------------------
(* ~ImplicitProducer(): the blocks of the elements that are left, one at a *)
(* time, and the one the next element would have gone to.                  *)
Quiet == step = "idle" /\ \A c \in Consumers : pc[c] = "idle"

(* The blocks of what is left: the loop turns to another one at each base. *)
Left ==
  IF headIndex = tailIndex THEN 0
  ELSE (Minus(tailIndex, Base(headIndex)) + BlockSize - 1) \div BlockSize
Turn(k) == Plus(Base(headIndex), BlockSize * (k - 1))
Walked == [k \in 1 .. Left |-> value[EntryOf(Turn(k))]]

(* Planted fault: the block of the last element is taken for the tail's.   *)
DestroyTailBlock ==
  /\ Quiet
  /\ step' = "gone"
  /\ destroyed' = (IF Walked = <<>> THEN <<>> ELSE Front(Walked))
                     \o (IF tailBlock # Null THEN <<tailBlock>> ELSE <<>>)
  /\ UNCHANGED <<tailIndex, headIndex, ringVars, blockVars, callVars, consumerVars, sent>>

Destroy ==
  /\ Quiet
  /\ step' = "gone"
  /\ destroyed' =
       (IF Walked = <<>> THEN <<>> ELSE Front(Walked))
         \o (IF tailBlock # Null /\ (Walked # <<>> \/ Base(tailIndex) # tailIndex)
               THEN <<tailBlock>> ELSE <<>>)
  /\ UNCHANGED <<tailIndex, headIndex, ringVars, blockVars, callVars, consumerVars, sent>>

Next ==
  \/ Produce /\ UNCHANGED consumerVars
  \/ \E c \in Consumers : Consume(c)
  \/ Destroy

Spec == Init /\ [][Next]_vars

--------------------------------------------------------------------------------
(***************************************************************************)
(* Whatever a consumer has read from the index by then, and whatever was   *)
(* done to it since, the block it arrives at is the block of its element,  *)
(* it still belongs to the stream, and a producer that takes its blocks    *)
(* back finds those.  (The assertion of get_block_index_index_for_index.)  *)
(***************************************************************************)
LookupSound ==
  /\ \A c \in Consumers :
       pc[c] \in {"finish", "unset"} =>
         block[c] = Base(first[c]) /\ block[c] \in owned
  /\ step = "revert" /\ undone < Len(fresh) =>
       LET e == EntryOf(fresh[undone + 1]) IN
         key[e] = fresh[undone + 1] /\ value[e] = fresh[undone + 1]

(***************************************************************************)
(* A call that fails leaves no block behind: when nothing goes on, the     *)
(* stream owns the blocks of the elements it holds and the one the next    *)
(* element goes to, and its index holds no other.                          *)
(***************************************************************************)
NothingLeaks ==
  Quiet =>
    /\ owned = {Base(Plus(headIndex, k)) : k \in 0 .. Minus(tailIndex, headIndex) - 1}
                 \cup ({Base(tailIndex)} \ {tailIndex})
    /\ owned # {} => tailBlock = Base(Minus(tailIndex, 1))
    /\ headers # <<>> =>
         {value[blockIndex.index[i]] : i \in DOMAIN blockIndex.index} \ {Null, Garbage}
           = owned

(***************************************************************************)
(* The destructor destroys the blocks of the stream, each once, and none   *)
(* that is on the free list, where the queue's destructor will find it.    *)
(***************************************************************************)
DestroyedOnce ==
  step = "gone" => ToSet(destroyed) = owned /\ IsInjective(destroyed)

================================================================================
