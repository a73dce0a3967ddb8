------------------------------- MODULE BlockRing -------------------------------
(***************************************************************************)
(* The stream of a producer with a token: ExplicitProducer                 *)
(* (concurrentqueue.h).  It never gives a block back.  Its blocks form a   *)
(* ring, and when the tail block is full the producer goes on in the block *)
(* after it if that one is empty, and otherwise puts a new one in between. *)
(* The block index is a circular buffer of entries (base, block) for the   *)
(* last blocks in the order of their use; a consumer reads the index, then *)
(* its front, then the base at the front, and steps back from there.       *)
(*                                                                         *)
(* enqueue() and enqueue_bulk() differ in when the entry of a block is     *)
(* written: after the element is constructed, or at once.  A call that     *)
(* fails half-way restores the producer's own variables and keeps in the   *)
(* ring the blocks that it has put there.                                  *)
(*                                                                         *)
(* An element is named by its index; a claim is the one step that          *)
(* ImplicitStream shows it to amount to (the code is the same).  Loads and *)
(* stores take effect in program order, the element type may throw when it *)
(* is constructed, and the assertions are compiled out.                    *)
(***************************************************************************)
EXTENDS Integers, FiniteSets, Sequences

CONSTANTS
  Consumers,
  Null,         \* nullptr
  Nothing,      \* no element; what an entry holds before it is written
  BlockSize,    \* BLOCK_SIZE
  IndexSize,    \* 2 ^ (bits of index_t)
  InitialSize,  \* EXPLICIT_INITIAL_INDEX_SIZE
  Bulks,        \* bound: the numbers given to enqueue_bulk() and dequeue_bulk()
  MaxBulk,      \* bound: the largest of them
  MaxSent,      \* bound: elements enqueued
  MaxBlocks,    \* bound: blocks the queue can give to this producer
  MaxSize,      \* bound: memory for an index of more entries is refused
  Starts        \* values of tailIndex of the quiet streams to start from

Index == 0 .. IndexSize - 1
Blocks == 1 .. MaxBlocks
Offsets == 0 .. BlockSize - 1
Used == [b : Index, block : Blocks]

(* The sizes are powers of two; this is what matters of that.              *)
ASSUME SizesDivide ==
  /\ {BlockSize, IndexSize, InitialSize, MaxSize} \subseteq Nat \ {0}
  /\ BlockSize >= 2 /\ InitialSize % 2 = 0
  /\ IndexSize % (BlockSize * MaxSize) = 0 /\ MaxSize % InitialSize = 0
  /\ \A n \in 1 .. MaxSize \div 2 : MaxSize % n = 0 => MaxSize % (2 * n) = 0
ASSUME BulksAreBounded == Bulks \subseteq 1 .. MaxBulk
ASSUME BoundsAreNat ==
  MaxSent \in Nat /\ MaxBlocks \in Nat \ {0} /\ MaxBulk \in 1 .. (IndexSize \div 2) - 1
(* The counters are wide: all blocks but one are within half a turn.       *)
ASSUME CountersAreWide == BlockSize * (MaxBlocks - 1) <= IndexSize \div 2
ASSUME StartsAreBases == Starts \subseteq {i \in Index : i % BlockSize = 0}
ASSUME NamesAreNew == Null \notin Blocks /\ Nothing \notin Index \cup Used

VARIABLES
  tailIndex, headIndex,
  tailBlock, next,  \* the ring: [Blocks -> Blocks], read up to allocated
  allocated,        \* how many blocks it has
  emptyFlags,       \* [Blocks -> SUBSET Offsets]
  slot,             \* [Blocks -> [Offsets -> element or Nothing]]
  headers,          \* BlockIndexHeaders, the last one is *blockIndex
  slotsUsed, front, \* pr_blockIndexSlotsUsed, pr_blockIndexFront
  step,             \* where the producer is in enqueue() or enqueue_bulk()
  bulk, count,      \* which of the two, and its number of elements
  cur,              \* currentTailIndex: base of the last block it has
  startBlock, firstAllocated, originalFront, originalUsed,  \* local variables
  pc,               \* where each consumer is in dequeue() or dequeue_bulk()
  first, left,      \* the next of its elements, and how many there still are
  header, idx,      \* its local variables
  destroyed,        \* the places in blocks the destructor finds an element in
  sent,             \* history: elements enqueued
  excuses           \* history: the failures that left a block in the ring,
                    \*   "bulk" or "single" calls

ringVars == <<tailBlock, next, allocated, emptyFlags>>
indexVars == <<headers, slotsUsed, front>>
callVars == <<bulk, count, startBlock>>
localVars == <<cur, firstAllocated, originalFront, originalUsed>>
consumerVars == <<pc, first, left, header, idx>>
endVars == <<destroyed, sent, excuses>>
vars == <<tailIndex, headIndex, ringVars, slot, indexVars, step, callVars,
          localVars, consumerVars, endVars>>

Plus(a, b) == (a + b) % IndexSize
Minus(a, b) == (a - b) % IndexSize
CircularLessThan(a, b) == Minus(a, b) > IndexSize \div 2
Base(i) == i - (i % BlockSize)

blockIndex == headers[Len(headers)]
Size(h) == Cardinality(DOMAIN h.entries)
pr_blockIndexSize == IF headers = <<>> THEN InitialSize \div 2 ELSE Size(blockIndex)
Slot(i) == i % pr_blockIndexSize

TypeOK ==
  /\ {tailIndex, headIndex, cur} \subseteq Index
  /\ {tailBlock, startBlock, firstAllocated} \subseteq 1 .. allocated \cup {Null}
  /\ allocated \in 0 .. MaxBlocks /\ next \in [Blocks -> Blocks]
  /\ emptyFlags \in [Blocks -> SUBSET Offsets]
  /\ slot \in [Blocks -> [Offsets -> Index \cup {Nothing}]]
  /\ \A i \in DOMAIN headers : \E n \in 1 .. MaxSize :
       /\ n = IF i = 1 THEN InitialSize ELSE 2 * Size(headers[i - 1])
       /\ headers[i] \in [entries : [0 .. n - 1 -> Used \cup {Nothing}], front : -1 .. n - 1]
  /\ {slotsUsed, originalUsed} \subseteq 0 .. pr_blockIndexSize
  /\ {front, originalFront} \subseteq 0 .. pr_blockIndexSize - 1
  /\ step \in {"idle", "ahead", "room", "grow", "block", "ready", "construct",
               "entry", "front", "enter", "store", "place", "publish", "gone"}
  /\ bulk \in BOOLEAN /\ count \in 0 .. MaxBulk
  /\ pc \in [Consumers -> {"idle", "header", "front", "base", "block"}]
  /\ first \in [Consumers -> Index] /\ left \in [Consumers -> 0 .. MaxBulk]
  /\ header \in [Consumers -> 0 .. Len(headers)]
  /\ idx \in [Consumers -> -1 .. MaxSize - 1]
  /\ destroyed \subseteq Blocks \X Offsets
  /\ sent \in 0 .. MaxSent /\ excuses \subseteq {"bulk", "single"}

(* A stream nothing is going on in: new, with or without its index (the    *)
(* constructor does not say), or drained after much traffic in one block.  *)
Init ==
  /\ \E start \in Starts :
       LET old(i) == 1 + ((start \div BlockSize - 1 - i) % InitialSize)
           header1 ==
             IF start = 0
               THEN [entries |-> [i \in 0 .. InitialSize - 1 |-> Nothing], front |-> -1]
               ELSE [entries |-> [i \in 0 .. InitialSize - 1 |->
                                    [b |-> Minus(start, BlockSize * old(i)), block |-> 1]],
                     front |-> (start \div BlockSize - 1) % InitialSize]
       IN  /\ tailIndex = start /\ headIndex = start
           /\ allocated = IF start = 0 THEN 0 ELSE 1
           /\ tailBlock = IF start = 0 THEN Null ELSE 1
           /\ slotsUsed = allocated
           /\ front = IF start = 0 THEN 0 ELSE (start \div BlockSize) % InitialSize
           /\ headers \in IF start = 0 THEN {<<>>, <<header1>>} ELSE {<<header1>>}
  /\ next = [b \in Blocks |-> 1]
  /\ emptyFlags = [b \in Blocks |-> Offsets]
  /\ slot = [b \in Blocks |-> [k \in Offsets |-> Nothing]]
  /\ step = "idle" /\ bulk = FALSE /\ count = 0 /\ cur = 0
  /\ startBlock = Null /\ firstAllocated = Null
  /\ originalFront = 0 /\ originalUsed = 0
  /\ pc = [c \in Consumers |-> "idle"]
  /\ first = [c \in Consumers |-> 0] /\ left = [c \in Consumers |-> 0]
  /\ header = [c \in Consumers |-> 0] /\ idx = [c \in Consumers |-> 0]
  /\ destroyed = {} /\ sent = 0 /\ excuses = {}

--------------------------------------------------------------------------------
(* enqueue() of one element, enqueue_bulk() of several.                    *)

(* Bound: indices are only compared when less than half a turn apart.      *)
NotAncient == Minus(Plus(tailIndex, MaxBulk), headIndex) < IndexSize \div 2

LastBase(n) == Base(Plus(tailIndex, n - 1))

(* No call follows a bulk call that was undone after it put a block into   *)
(* the ring: the ring and the count of entries disagree from there on.     *)
Begin(isBulk, n) ==
  /\ step = "idle" /\ sent + n <= MaxSent /\ NotAncient
  /\ "bulk" \notin excuses
  /\ bulk' = isBulk /\ count' = n
  /\ startBlock' = tailBlock
  /\ cur' = Base(Minus(tailIndex, 1))
  /\ originalFront' = front /\ originalUsed' = slotsUsed
  /\ step' = IF cur' = LastBase(n) THEN "construct" ELSE "ahead"
  /\ UNCHANGED <<tailIndex, headIndex, ringVars, slot, indexVars, firstAllocated,
                 consumerVars, endVars>>

Enqueue == Begin(FALSE, 1)
EnqueueBulk == \E n \in Bulks : Begin(TRUE, n)

(* The call is over: what it kept for itself goes.                         *)
Leave ==
  /\ step' = "idle"
  /\ bulk' = FALSE /\ count' = 0 /\ cur' = 0
  /\ startBlock' = Null /\ firstAllocated' = Null
  /\ originalFront' = 0 /\ originalUsed' = 0

(* return false, or rethrow.  A failed call keeps its blocks in the ring,  *)
(* and a larger index too.                                                 *)
Undo ==
  /\ front' = originalFront /\ slotsUsed' = originalUsed
  /\ tailBlock' = IF startBlock = Null THEN firstAllocated ELSE startBlock
  /\ excuses' = IF firstAllocated = Null THEN excuses
                ELSE excuses \cup {IF bulk THEN "bulk" ELSE "single"}
  /\ Leave
  /\ UNCHANGED <<tailIndex, headIndex, next, allocated, emptyFlags, slot, headers,
                 consumerVars, destroyed, sent>>

(* The block b is the next one of this call.                               *)
Use(b) ==
  /\ tailBlock' = b
  /\ firstAllocated' = IF firstAllocated = Null THEN b ELSE firstAllocated
  /\ cur' = Plus(cur, BlockSize)
  /\ IF bulk
       THEN /\ headers' = [headers EXCEPT ![Len(headers)].entries[front] =
                             [b |-> cur', block |-> b]]
            /\ front' = Slot(front + 1)
       ELSE UNCHANGED <<headers, front>>

restVars == <<tailIndex, headIndex, slot, callVars, consumerVars, endVars>>

Ahead ==
  tailBlock # Null /\ next[tailBlock] # firstAllocated
    /\ emptyFlags[next[tailBlock]] = Offsets

TakeAhead ==
  /\ step = "ahead" /\ Ahead
  /\ Use(next[tailBlock])
  /\ step' = IF cur' = LastBase(count) THEN "ready" ELSE "ahead"
  /\ UNCHANGED <<next, allocated, emptyFlags, slotsUsed, originalFront,
                 originalUsed, restVars>>

(* The tail must not be so far ahead that it looks as if behind the head.  *)
HasLeeway == CircularLessThan(headIndex, Plus(cur, 2 * BlockSize))

IndexFull == headers = <<>> \/ slotsUsed = pr_blockIndexSize

CheckRoom ==
  /\ step = "room" \/ (step = "ahead" /\ ~Ahead)
  /\ HasLeeway
  /\ step' = IF IndexFull THEN "grow" ELSE "block"
  /\ UNCHANGED <<ringVars, indexVars, localVars, restVars>>

NoLeeway ==
  /\ step = "room" \/ (step = "ahead" /\ ~Ahead)
  /\ ~HasLeeway
  /\ Undo

(* Planted fault: the entries are copied from the start of the old buffer. *)
NewHeaderUnrotated(expose) ==
  [entries |-> [i \in 0 .. 2 * pr_blockIndexSize - 1 |->
                  IF i < slotsUsed THEN blockIndex.entries[i] ELSE Nothing],
   front |-> expose - 1]

(* The entries in use, oldest first.                                       *)
NewHeader(expose) ==
  [entries |-> [i \in 0 .. 2 * pr_blockIndexSize - 1 |->
                  IF i < slotsUsed
                    THEN blockIndex.entries[Slot(front - slotsUsed + i)] ELSE Nothing],
   front |-> expose - 1]

NewBlockIndex ==
  /\ step = "grow"
  /\ 2 * pr_blockIndexSize <= MaxSize
  /\ headers' = Append(headers, NewHeader(originalUsed))
  /\ front' = slotsUsed
  /\ originalFront' = originalUsed
  /\ step' = "block"
  /\ UNCHANGED <<ringVars, slotsUsed, cur, firstAllocated, originalUsed, restVars>>

(* No memory, or the call is one of those that do not allocate.            *)
AllocationFails == step \in {"grow", "block"} /\ Undo

(* Planted fault: the entry of a new block is not counted as used.         *)
RequisitionUncounted ==
  LET b == allocated + 1 IN
    /\ step = "block" /\ b \in Blocks
    /\ allocated' = b
    /\ next' = IF tailBlock = Null THEN [next EXCEPT ![b] = b]
               ELSE [next EXCEPT ![b] = next[tailBlock], ![tailBlock] = b]
    /\ Use(b)
    /\ step' = IF cur' = LastBase(count) THEN "ready" ELSE "room"
    /\ UNCHANGED <<emptyFlags, slotsUsed, originalFront, originalUsed, restVars>>

RequisitionBlock ==
  LET b == allocated + 1 IN
    /\ step = "block" /\ b \in Blocks
    /\ allocated' = b
    /\ next' = IF tailBlock = Null THEN [next EXCEPT ![b] = b]
               ELSE [next EXCEPT ![b] = next[tailBlock], ![tailBlock] = b]
    /\ slotsUsed' = slotsUsed + 1
    /\ Use(b)
    /\ step' = IF cur' = LastBase(count) THEN "ready" ELSE "room"
    /\ UNCHANGED <<emptyFlags, originalFront, originalUsed, restVars>>

(* The n-th block after b.                                                 *)
After(b, n) ==
  LET walk[k \in 0 .. MaxBlocks] == IF k = 0 THEN b ELSE next[walk[k - 1]] IN walk[n]

(* The block of the element with index i, which this call adds.            *)
BlockFor(i) ==
  LET n == Minus(Base(i), Base(Minus(tailIndex, 1))) \div BlockSize IN
    IF Base(tailIndex) = tailIndex THEN After(firstAllocated, n - 1) ELSE After(startBlock, n)

Elements == {Plus(tailIndex, k) : k \in 0 .. count - 1}

(* reset_empty() on all of them.  If the constructor may throw, the        *)
(* elements come first and the index after them; if it is noexcept, it is  *)
(* the other way round: enter (the entry), store (the front), place.       *)
ResetEmpty ==
  /\ step = "ready"
  /\ emptyFlags' = [b \in Blocks |->
       IF \E i \in Elements : Base(i) # Base(Minus(tailIndex, 1)) /\ BlockFor(i) = b
         THEN {} ELSE emptyFlags[b]]
  /\ step' \in {"construct", IF bulk THEN "store" ELSE "enter"}
  /\ UNCHANGED <<tailBlock, next, allocated, indexVars, localVars, restVars>>

Construct ==
  /\ step \in {"construct", "place"}
  /\ slot' = [b \in Blocks |-> [k \in Offsets |->
       IF \E i \in Elements : BlockFor(i) = b /\ i % BlockSize = k
         THEN CHOOSE i \in Elements : BlockFor(i) = b /\ i % BlockSize = k
         ELSE slot[b][k]]]
  /\ step' = IF firstAllocated = Null \/ step = "place" THEN "publish"
             ELSE IF bulk THEN "front" ELSE "entry"
  /\ UNCHANGED <<tailIndex, headIndex, ringVars, indexVars, callVars, localVars,
                 consumerVars, endVars>>

(* The elements constructed before the one that threw are destroyed again. *)
ConstructorThrows == step = "construct" /\ Undo

(* Planted fault: the front runs off the end of the buffer.                *)
WriteEntryUnmasked ==
  /\ step \in {"entry", "enter"}
  /\ headers' = [headers EXCEPT ![Len(headers)].entries[front] =
                   [b |-> tailIndex, block |-> tailBlock]]
  /\ front' = front + 1
  /\ step' = IF step = "entry" THEN "front" ELSE "store"
  /\ UNCHANGED <<ringVars, slotsUsed, localVars, restVars>>

WriteEntry ==
  /\ step \in {"entry", "enter"}
  /\ headers' = [headers EXCEPT ![Len(headers)].entries[front] =
                   [b |-> tailIndex, block |-> tailBlock]]
  /\ front' = Slot(front + 1)
  /\ step' = IF step = "entry" THEN "front" ELSE "store"
  /\ UNCHANGED <<ringVars, slotsUsed, localVars, restVars>>

StoreFront ==
  /\ step \in {"front", "store"}
  /\ headers' = [headers EXCEPT ![Len(headers)].front = Slot(front - 1)]
  /\ step' = IF step = "front" THEN "publish" ELSE "place"
  /\ UNCHANGED <<ringVars, slotsUsed, front, localVars, restVars>>

Publish ==
  /\ step = "publish"
  /\ tailIndex' = Plus(tailIndex, count)
  /\ sent' = sent + count
  /\ Leave
  /\ UNCHANGED <<headIndex, ringVars, slot, indexVars, consumerVars, destroyed,
                 excuses>>

Produce ==
  \/ Enqueue \/ EnqueueBulk \/ TakeAhead \/ CheckRoom \/ NoLeeway \/ NewBlockIndex
  \/ AllocationFails \/ RequisitionBlock \/ ResetEmpty \/ Construct
  \/ ConstructorThrows \/ WriteEntry \/ StoreFront \/ Publish

--------------------------------------------------------------------------------
(* dequeue() and dequeue_bulk(), from the advance of headIndex on.         *)

Goto(c, from, to) ==
  /\ pc[c] = from
  /\ pc' = [pc EXCEPT ![c] = to]

producerSide == <<tailIndex, tailBlock, next, allocated, indexVars, step, callVars,
                  localVars, endVars>>

Claim(c) ==
  \E max \in {1} \cup Bulks :
    LET there == Minus(tailIndex, headIndex)
        n == IF max < there THEN max ELSE there
    IN  /\ there > 0 /\ step # "gone"
        /\ Goto(c, "idle", "header")
        /\ first' = [first EXCEPT ![c] = headIndex]
        /\ left' = [left EXCEPT ![c] = n]
        /\ headIndex' = Plus(headIndex, n)
        /\ UNCHANGED <<producerSide, emptyFlags, slot, header, idx>>

LoadHeader(c) ==
  /\ Goto(c, "header", "front")
  /\ header' = [header EXCEPT ![c] = Len(headers)]
  /\ UNCHANGED <<producerSide, headIndex, emptyFlags, slot, first, left, idx>>

(* The front, then (idx holds it meanwhile) the base of the entry there.   *)
LoadFront(c) ==
  /\ Goto(c, "front", "base")
  /\ idx' = [idx EXCEPT ![c] = headers[header[c]].front]
  /\ UNCHANGED <<producerSide, headIndex, emptyFlags, slot, first, left, header>>

(* Bound: nobody goes on from an entry that was never written (there is    *)
(* one only after a bulk call was undone).                                 *)
Written(h, i) == i \in DOMAIN h.entries /\ h.entries[i] # Nothing

(* The division is of unsigned numbers, and right modulo the size.         *)
LoadBase(c) ==
  LET h == headers[header[c]] IN
    /\ Goto(c, "base", "block")
    /\ Written(h, idx[c])
    /\ idx' = [idx EXCEPT ![c] =
         (@ + Minus(Base(first[c]), h.entries[@].b) \div BlockSize) % Size(h)]
    /\ UNCHANGED <<producerSide, headIndex, emptyFlags, slot, first, left, header>>

Entry(c) == headers[header[c]].entries[idx[c]]

(* Those of its elements that lie in the block it is at.                   *)
Here(c) == {i \in first[c] % BlockSize .. BlockSize - 1 :
              i < (first[c] % BlockSize) + left[c]}

(* The elements are moved out and destroyed, the remaining ones also when  *)
(* an assignment throws, and their flags are set; then on to the next      *)
(* block, in the same header.                                              *)
TakeOut(c) ==
  LET b == Entry(c).block  n == Cardinality(Here(c)) IN
    /\ pc[c] = "block" /\ Written(headers[header[c]], idx[c])
    /\ slot' = [slot EXCEPT ![b] = [k \in Offsets |->
                  IF k \in Here(c) THEN Nothing ELSE @[k]]]
    /\ emptyFlags' = [emptyFlags EXCEPT ![b] = @ \cup Here(c)]
    /\ IF n < left[c]
         THEN /\ first' = [first EXCEPT ![c] = Plus(@, n)]
              /\ left' = [left EXCEPT ![c] = @ - n]
              /\ idx' = [idx EXCEPT ![c] = (@ + 1) % Size(headers[header[c]])]
              /\ UNCHANGED <<pc, header>>
         ELSE /\ Goto(c, "block", "idle")
              /\ first' = [first EXCEPT ![c] = 0]
              /\ left' = [left EXCEPT ![c] = 0]
              /\ idx' = [idx EXCEPT ![c] = 0]
              /\ header' = [header EXCEPT ![c] = 0]
    /\ UNCHANGED <<producerSide, headIndex>>

Consume(c) ==
  \/ Claim(c) \/ LoadHeader(c) \/ LoadFront(c) \/ LoadBase(c) \/ TakeOut(c)

--------------------------------------------------------------------------------
(* ~ExplicitProducer(): the blocks of the ring that are not empty, from    *)
(* the head on in the block that the head is in the middle of, up to the   *)
(* tail in the tail block.                                                 *)
Quiet == step = "idle" /\ \A c \in Consumers : pc[c] = "idle"

Behind(j) == blockIndex.entries[Slot(front - slotsUsed + j)]

HalfDequeued ==
  LET reaches(j) ==
        Behind(j) # Nothing /\ ~CircularLessThan(Plus(Behind(j).b, BlockSize), headIndex)
      J == {j \in 0 .. pr_blockIndexSize - 1 : reaches(j)}
  IN  IF headIndex % BlockSize = 0 \/ J = {} THEN Null
      ELSE Behind(CHOOSE j \in J : \A k \in J : j <= k).block

Ring == IF tailBlock = Null THEN {} ELSE {After(tailBlock, n) : n \in Blocks}

(* Planted fault: the head is not looked for, every block is full.         *)
RemainsFromStart(b, k) ==
  /\ emptyFlags[b] # Offsets
  /\ b = tailBlock /\ tailIndex % BlockSize # 0 => k < tailIndex % BlockSize

(* Slot k of block b of the ring has an element that was not dequeued, by  *)
(* the flags and the two indices.                                          *)
Remains(b, k) ==
  /\ emptyFlags[b] # Offsets
  /\ b = HalfDequeued => k >= headIndex % BlockSize
  /\ b = tailBlock /\ tailIndex % BlockSize # 0 => k < tailIndex % BlockSize

Destroy ==
  /\ Quiet
  /\ step' = "gone"
  /\ destroyed' = {p \in Ring \X Offsets : Remains(p[1], p[2])}
  /\ UNCHANGED <<tailIndex, headIndex, ringVars, slot, indexVars, callVars, localVars,
                 consumerVars, sent, excuses>>

Next ==
  \/ Produce
  \/ \E c \in Consumers : Consume(c)
  \/ Destroy

Spec == Init /\ [][Next]_vars

--------------------------------------------------------------------------------
Finds(c) ==
  Entry(c) # Nothing /\ slot[Entry(c).block][first[c] % BlockSize] = first[c]

(***************************************************************************)
(* However old the index and the front that a consumer has read, the entry *)
(* it arrives at leads to the block with its element, for as long as it    *)
(* takes to go there; unless a bulk call was undone after it had put a     *)
(* block into the ring.                                                    *)
(***************************************************************************)
LookupSound ==
  "bulk" \notin excuses => \A c \in Consumers : pc[c] = "block" => Finds(c)

(***************************************************************************)
(* The entries in use are the ring: the same blocks in the same order, the *)
(* oldest first, each one block further on, with nothing in between.  It   *)
(* is what makes the block ahead of the tail the one whose entry is        *)
(* overwritten.                                                            *)
(***************************************************************************)
IndexIsRing ==
  step = "idle" /\ excuses = {} =>
    /\ slotsUsed = allocated
    /\ \A j \in 0 .. slotsUsed - 1 :
         Behind(j) = [b |-> Minus(Base(Minus(tailIndex, 1)), BlockSize * (slotsUsed - 1 - j)),
                      block |-> After(tailBlock, j + 1)]

(***************************************************************************)
(* The destructor destroys the elements that are left, all of them and     *)
(* nothing else, unless some call has failed half-way.                     *)
(***************************************************************************)
DestroysExactly ==
  step = "gone" /\ excuses = {} =>
    destroyed = {p \in Blocks \X Offsets : slot[p[1]][p[2]] # Nothing}

================================================================================
