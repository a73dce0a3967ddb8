-------------------------------- MODULE Consumers -------------------------------
(***************************************************************************)
(* How a consumer chooses among the streams of a queue                     *)
(* (concurrentqueue.h): try_dequeue() scores a few of the streams and      *)
(* tries the longest first; with a consumer token each consumer has a      *)
(* stream of its own to start from, and after every quota of elements all  *)
(* of them move on by one.  Meanwhile producers are added to the list.     *)
(*                                                                         *)
(* Producers are numbered in the order in which they are linked, and next  *)
(* of p is p - 1: see Producers for how the list grows.  A stream is what  *)
(* StreamPromise says of it: elements leave it in order, and a consumer    *)
(* that meets no other inside finds those there were when it loaded the    *)
(* tail.  Entering a stream loads its tail, and a call may leave a stream  *)
(* with nothing at any later time, so that leaving it and entering the     *)
(* next are one step.                                                      *)
(***************************************************************************)
EXTENDS Integers, FiniteSets

CONSTANTS
  Consumers,
  TokenUsers,   \* the sets of consumers that may be those with tokens
  Sample,       \* non-empty streams that are scored: 3
  Quota,        \* EXPLICIT_CONSUMER_CONSUMPTION_QUOTA_BEFORE_ROTATE
  OffsetSize,   \* 2^32, for the offsets of the rotation
  Offsets,      \* values globalExplicitConsumerOffset may have at first
  Bulks,        \* how many elements calls of try_dequeue_bulk() ask for
  MaxProducers, \* bound: producers
  MaxSent,      \* bound: elements, of all producers
  MaxTokens     \* bound: consumer tokens

ASSUME ConsumersAreFinite == IsFiniteSet(Consumers)
ASSUME SizesArePositive == {Sample, Quota, OffsetSize} \subseteq Nat \ {0} /\ Quota # 1
ASSUME BoundsAreNat == {MaxProducers, MaxSent, MaxTokens} \subseteq Nat
ASSUME OffsetsFit == Offsets \subseteq 0 .. OffsetSize - 1
ASSUME BulksAreBulks == Bulks \subseteq Nat \ {0, 1}
ASSUME TokenUsersAreConsumers == TokenUsers \subseteq SUBSET Consumers

Producer == 1 .. MaxProducers
Null == 0            \* nullptr

VARIABLES
  producerCount,     \* producers that were counted ...
  producerListTail,  \* ... and those that were linked as well
  tailIndex, headIndex,  \* [Producer -> Nat]
  globalExplicitConsumerOffset, nextExplicitConsumerId,
  tokenUsers,
  token,             \* [Consumers -> ConsumerToken]
  call,              \* [Consumers -> the call it is in: local variables]
  met,               \* the consumers that have met another where they are
  owed,              \* history: [Consumers -> [Producer -> Nat]]  elements that
                     \*   were there when the call began and still are; 0 if
                     \*   it met another consumer there, or got something
  uneven             \* history: tokens whose count a bulk call has advanced
                     \*   without a look at the quota

listVars == <<producerCount, producerListTail>>
offsetVars == <<globalExplicitConsumerOffset, nextExplicitConsumerId>>
callVars == <<call, met, owed>>
vars == <<listVars, tailIndex, headIndex, offsetVars, tokenUsers, token, callVars, uneven>>

Index == Nat

(* How much a call may ask for, and have yet to get.                       *)
Amounts == UNION {0 .. n : n \in {1} \cup Bulks}

Token == [initialOffset : -1 .. MaxTokens - 1, lastKnownGlobalOffset : 0 .. OffsetSize - 1,
          itemsConsumedFromCurrent : Index,
          currentProducer : 0 .. MaxProducers, desiredProducer : 0 .. MaxProducers]

(* ptr: the stream it is at; seen: the tail it loaded there; tail: the     *)
(* producerListTail it loaded; max, count: elements wanted yet, and got.   *)
Call == [pc : {"idle", "score", "size", "best", "walk", "tail", "count", "offset",
               "enter", "current", "advance", "seek"},
         ptr : 0 .. MaxProducers, tail : 0 .. MaxProducers, prodCount : 0 .. MaxProducers,
         best : 0 .. MaxProducers, bestSize : Index, nonEmptyCount : 0 .. Sample,
         seen : Index, max : Amounts, count : Index]

TypeOK ==
  /\ producerListTail \in 0 .. producerCount /\ producerCount \in 0 .. MaxProducers
  /\ {tailIndex, headIndex} \subseteq [Producer -> Index]
  /\ \A p \in Producer : headIndex[p] <= tailIndex[p]
  /\ globalExplicitConsumerOffset \in 0 .. OffsetSize - 1
  /\ nextExplicitConsumerId \in 0 .. MaxTokens
  /\ tokenUsers \in TokenUsers
  /\ token \in [Consumers -> Token]
  /\ call \in [Consumers -> Call]
  /\ \A c \in Consumers : token[c].currentProducer <= producerListTail
  /\ met \subseteq Consumers
  /\ owed \in [Consumers -> [Producer -> Index]]
  /\ uneven \subseteq Consumers

Idle == [pc |-> "idle", ptr |-> Null, tail |-> Null, prodCount |-> 0, best |-> Null,
         bestSize |-> 0, nonEmptyCount |-> 0, seen |-> 0, max |-> 0, count |-> 0]

NewToken(id) ==
  [initialOffset |-> id, lastKnownGlobalOffset |-> OffsetSize - 1,
   itemsConsumedFromCurrent |-> 0, currentProducer |-> Null, desiredProducer |-> Null]

NoToken == NewToken(-1)

NoElements == [p \in Producer |-> 0]

Init ==
  /\ producerCount = 0 /\ producerListTail = 0
  /\ tailIndex = NoElements /\ headIndex = NoElements
  /\ globalExplicitConsumerOffset \in Offsets
  /\ nextExplicitConsumerId = 0
  /\ tokenUsers \in TokenUsers
  /\ token = [c \in Consumers |-> NoToken]
  /\ call = [c \in Consumers |-> Idle]
  /\ met = {}
  /\ owed = [c \in Consumers |-> NoElements]
  /\ uneven = {}

At(c, where) == call[c].pc = where

(* What c does in its own call, and to no one else's.                      *)
Becomes(c, k) == call' = [call EXCEPT ![c] = k]

(* The next producer of the list whose tail is t, from there around.       *)
Around(p, t) == IF p = 1 THEN t ELSE p - 1

(* As many times n.                                                        *)
AroundBy(p, n, t) == 1 + ((p - 1 - n) % t)

--------------------------------------------------------------------------------
(* A producer is counted, then linked; one that is linked enqueues.        *)
CountProducer ==
  /\ producerCount < MaxProducers
  /\ producerCount' = producerCount + 1
  /\ UNCHANGED <<producerListTail, tailIndex, headIndex, offsetVars, token, callVars, uneven>>

LinkProducer ==
  /\ producerListTail < producerCount
  /\ producerListTail' = producerListTail + 1
  /\ UNCHANGED <<producerCount, tailIndex, headIndex, offsetVars, token, callVars, uneven>>

(* The elements enqueued so far, of all producers; MaxSent bounds them.    *)
Sent == UNION {{p} \X (0 .. tailIndex[p] - 1) : p \in Producer}

Enqueue(p) ==
  /\ p <= producerListTail
  /\ Cardinality(Sent) < MaxSent
  /\ tailIndex' = [tailIndex EXCEPT ![p] = @ + 1]
  /\ UNCHANGED <<listVars, headIndex, offsetVars, token, callVars, uneven>>

--------------------------------------------------------------------------------
(* Being in dequeue() or dequeue_bulk() of a stream.                       *)
InDequeue(d) == call[d].pc \in {"best", "walk", "current", "seek"}

Inside(c, p) == {d \in Consumers \ {c} : InDequeue(d) /\ call[d].ptr = p}

(* k: the local variables c takes along; o: what it is owed.               *)
Visit(c, p, where, k, o) ==
  /\ call' = [call EXCEPT ![c] = [k EXCEPT !.pc = where, !.ptr = p, !.seen = tailIndex[p]]]
  /\ met' = IF Inside(c, p) = {} THEN met \ {c} ELSE met \cup Inside(c, p) \cup {c}
  /\ owed' = [d \in Consumers |->
                [o[d] EXCEPT ![p] = IF d \in met' \cap ({c} \cup Inside(c, p)) THEN 0 ELSE @]]

(* Planted fault: more is taken than there is.                             *)
TakesBlindly(c, n) ==
  LET p == call[c].ptr IN
    /\ n <= call[c].max
    /\ c \in met \/ n = call[c].max \/ headIndex[p] + n >= call[c].seen
    /\ headIndex' = [headIndex EXCEPT ![p] = @ + n]

(* It leaves the stream with n elements: all it wants, or all there were   *)
(* when it entered, or what a rival has left it.                           *)
Takes(c, n) ==
  LET p == call[c].ptr IN
    /\ n <= call[c].max /\ headIndex[p] + n <= tailIndex[p]
    /\ c \in met \/ n = call[c].max \/ headIndex[p] + n >= call[c].seen
    /\ headIndex' = [headIndex EXCEPT ![p] = @ + n]

(* What the others are owed then, and c.                                   *)
Owed(c, n) ==
  IF n = 0 THEN owed
  ELSE [d \in Consumers |->
         IF d = c THEN NoElements
         ELSE [owed[d] EXCEPT ![call[c].ptr] = IF @ > n THEN @ - n ELSE 0]]

Enter(c, n, p, where, k) == Visit(c, p, where, k, Owed(c, n))

Return(c, n) ==
  /\ call' = [call EXCEPT ![c] = Idle]
  /\ met' = met \ {c}
  /\ owed' = [Owed(c, n) EXCEPT ![c] = NoElements]

(* The variables of the call when it has.                                  *)
With(c, n) == [call[c] EXCEPT !.max = @ - n, !.count = @ + n]

--------------------------------------------------------------------------------
(* Without a token.  A call on a queue without producers returns at once.  *)
Begins(c) ==
  /\ At(c, "idle") /\ producerListTail # Null
  /\ UNCHANGED <<listVars, tailIndex, headIndex, offsetVars, token, uneven>>

AllThere(c) == [owed EXCEPT ![c] = [p \in Producer |-> tailIndex[p] - headIndex[p]]]

TryDequeue(c) ==
  /\ Begins(c) /\ c \notin tokenUsers
  /\ Becomes(c, [Idle EXCEPT !.pc = "score", !.ptr = producerListTail, !.max = 1])
  /\ owed' = AllThere(c)
  /\ UNCHANGED met

(* size_approx() loads the tail of a stream and then its head.             *)
ScoreTail(c) ==
  /\ At(c, "score")
  /\ Becomes(c, [call[c] EXCEPT !.pc = "size", !.seen = tailIndex[call[c].ptr]])
  /\ UNCHANGED <<listVars, tailIndex, headIndex, offsetVars, token, met, owed, uneven>>

Size(c) ==
  LET p == call[c].ptr IN
    IF headIndex[p] < call[c].seen THEN call[c].seen - headIndex[p] ELSE 0

Scored(c) ==
  [call[c] EXCEPT
     !.nonEmptyCount = IF Size(c) > 0 THEN @ + 1 ELSE @,
     !.best = IF Size(c) > call[c].bestSize THEN call[c].ptr ELSE @,
     !.bestSize = IF Size(c) > @ THEN Size(c) ELSE @]

ScoreHead(c) ==
  LET k == Scored(c) IN
    /\ At(c, "size")
    /\ \/ /\ k.nonEmptyCount < Sample /\ k.ptr > 1
          /\ Becomes(c, [k EXCEPT !.pc = "score", !.ptr = @ - 1])
          /\ UNCHANGED <<met, owed>>
       \/ /\ k.nonEmptyCount = Sample \/ k.ptr = 1
          /\ IF k.nonEmptyCount = 0 THEN Return(c, 0) ELSE Enter(c, 0, k.best, "best", k)
    /\ UNCHANGED <<listVars, tailIndex, headIndex, offsetVars, token, uneven>>

(* try_dequeue_bulk(), and try_dequeue_non_interleaved() with n = 1.       *)
TryDequeueBulk(c, n) ==
  /\ Begins(c) /\ c \notin tokenUsers
  /\ Visit(c, producerListTail, "walk", [Idle EXCEPT !.max = n], AllThere(c))

(* The walk goes on at p, or after it where best was tried before.         *)
WalkOn(c, n, p) ==
  LET q == IF p = call[c].best /\ p # Null THEN p - 1 ELSE p IN
    IF q = Null THEN Return(c, n) ELSE Enter(c, n, q, "walk", With(c, n))

TryBest(c) ==
  /\ At(c, "best")
  /\ \/ Takes(c, 1) /\ Return(c, 1)
     \/ Takes(c, 0) /\ WalkOn(c, 0, producerListTail)
  /\ UNCHANGED <<listVars, tailIndex, offsetVars, token, uneven>>

Walk(c) ==
  /\ At(c, "walk")
  /\ \E n \in Amounts :
       /\ Takes(c, n)
       /\ IF n = call[c].max THEN Return(c, n) ELSE WalkOn(c, n, call[c].ptr - 1)
  /\ UNCHANGED <<listVars, tailIndex, offsetVars, token, uneven>>

--------------------------------------------------------------------------------
(* With a token.                                                           *)
MakeToken(c) ==
  /\ At(c, "idle") /\ c \in tokenUsers
  /\ nextExplicitConsumerId < MaxTokens
  /\ nextExplicitConsumerId' = nextExplicitConsumerId + 1
  /\ token' = [token EXCEPT ![c] = NewToken(nextExplicitConsumerId)]
  /\ uneven' = uneven \ {c}
  /\ UNCHANGED <<listVars, tailIndex, headIndex, globalExplicitConsumerOffset, callVars>>

TryDequeueToken(c, n) ==
  LET t == token[c] IN
    /\ Begins(c) /\ t # NoToken
    /\ IF t.desiredProducer = Null
           \/ t.lastKnownGlobalOffset # globalExplicitConsumerOffset
         THEN Becomes(c, [Idle EXCEPT !.pc = "tail", !.max = n])
         ELSE Becomes(c, [Idle EXCEPT !.pc = "enter", !.ptr = t.currentProducer, !.max = n])
    /\ owed' = AllThere(c)
    /\ UNCHANGED met

(* update_current_producer_after_rotation(): three loads, then the place.  *)
LoadTail(c) ==
  /\ At(c, "tail")
  /\ Becomes(c, [call[c] EXCEPT !.pc = "count", !.tail = producerListTail])
  /\ UNCHANGED <<listVars, tailIndex, headIndex, offsetVars, token, met, owed, uneven>>

LoadCount(c) ==
  /\ At(c, "count")
  /\ Becomes(c, [call[c] EXCEPT !.pc = "offset", !.prodCount = producerCount])
  /\ UNCHANGED <<listVars, tailIndex, headIndex, offsetVars, token, met, owed, uneven>>

(* Where the token belongs: new ones are dealt out from the start of the   *)
(* list, and all move by the rotations since they looked.                  *)
Place(c) ==
  LET t == token[c]
      n == call[c].prodCount
      first == IF t.desiredProducer # Null THEN t.desiredProducer
               ELSE AroundBy(call[c].tail, n - 1 - (t.initialOffset % n), call[c].tail)
      delta == (globalExplicitConsumerOffset - t.lastKnownGlobalOffset) % OffsetSize
  IN  AroundBy(first, delta % n, call[c].tail)

MoveToken(c) ==
  /\ At(c, "offset")
  /\ token' = [token EXCEPT ![c].desiredProducer = Place(c),
                            ![c].currentProducer = Place(c),
                            ![c].lastKnownGlobalOffset = globalExplicitConsumerOffset,
                            ![c].itemsConsumedFromCurrent = 0]
  /\ uneven' = uneven \ {c}
  /\ Becomes(c, [call[c] EXCEPT !.pc = "enter", !.ptr = Place(c)])
  /\ UNCHANGED <<listVars, tailIndex, headIndex, offsetVars, met, owed>>

EnterCurrent(c) ==
  /\ At(c, "enter")
  /\ Visit(c, call[c].ptr, "current", call[c], owed)
  /\ UNCHANGED <<listVars, tailIndex, headIndex, offsetVars, token, uneven>>

(* Planted fault: the count is compared before it is advanced.             *)
MeetsQuotaLate(total, n) == total - n >= Quota

(* try_dequeue() looks for the quota itself, try_dequeue_bulk() for no     *)
(* less.  A call for one element may be either, and past the quota it may  *)
(* meet it or miss it.                                                     *)
MeetsQuota(total, n) == total >= Quota
MissesQuota(total, n) == ~MeetsQuota(total, n) \/ (n = 1 /\ total > Quota)

(* The first stream gives all that is wanted.                              *)
AllFromCurrent(c) ==
  LET n == call[c].max
      total == token[c].itemsConsumedFromCurrent + n
  IN  /\ At(c, "current") /\ Takes(c, n)
      /\ token' = [token EXCEPT ![c].itemsConsumedFromCurrent = total]
      /\ \/ /\ MeetsQuota(total, n)
            /\ Becomes(c, [With(c, n) EXCEPT !.pc = "advance"])
            /\ owed' = Owed(c, n)
            /\ UNCHANGED met
         \/ /\ MissesQuota(total, n)
            /\ Return(c, n)
      /\ UNCHANGED <<listVars, tailIndex, offsetVars, uneven>>

Advance(c) ==
  /\ At(c, "advance")
  /\ globalExplicitConsumerOffset' = (globalExplicitConsumerOffset + 1) % OffsetSize
  /\ Return(c, 0)
  /\ UNCHANGED <<listVars, tailIndex, headIndex, nextExplicitConsumerId, token, uneven>>

(* Planted fault: the search goes down the list and not around it.         *)
SeekDown(c, n, current, t) ==
  IF call[c].ptr = 1 THEN Return(c, n)
  ELSE Enter(c, n, call[c].ptr - 1, "seek", [With(c, n) EXCEPT !.tail = t])

(* It goes on to the next stream, until it is back at its current one.     *)
SeekOn(c, n, current, t) ==
  LET p == Around(call[c].ptr, t) IN
    IF p = current THEN Return(c, n)
    ELSE Enter(c, n, p, "seek", [With(c, n) EXCEPT !.tail = t])

NotAllFromCurrent(c) ==
  /\ At(c, "current")
  /\ \E n \in Amounts :
       /\ n < call[c].max /\ Takes(c, n)
       /\ token' = [token EXCEPT ![c].itemsConsumedFromCurrent = @ + n]
       /\ uneven' = IF n = 0 THEN uneven ELSE uneven \cup {c}
       /\ SeekOn(c, n, call[c].ptr, producerListTail)
  /\ UNCHANGED <<listVars, tailIndex, offsetVars>>

(* A stream that gives something becomes the current one.                  *)
Seek(c) ==
  /\ At(c, "seek")
  /\ \E n \in Amounts :
       /\ Takes(c, n)
       /\ token' = IF n = 0 THEN token
                   ELSE [token EXCEPT ![c].currentProducer = call[c].ptr,
                                      ![c].itemsConsumedFromCurrent = n]
       /\ uneven' = IF n = 0 THEN uneven
                    ELSE IF n < Quota THEN uneven \ {c} ELSE uneven \cup {c}
       /\ IF n = call[c].max THEN Return(c, n)
          ELSE SeekOn(c, n, token'[c].currentProducer, call[c].tail)
  /\ UNCHANGED <<listVars, tailIndex, offsetVars>>

--------------------------------------------------------------------------------
Dequeue(c) ==
  \/ TryDequeue(c) \/ ScoreTail(c) \/ ScoreHead(c) \/ TryBest(c) \/ Walk(c)
  \/ \E n \in {1} \cup Bulks : TryDequeueBulk(c, n) \/ TryDequeueToken(c, n)
  \/ LoadTail(c) \/ LoadCount(c) \/ MoveToken(c) \/ EnterCurrent(c)
  \/ AllFromCurrent(c) \/ Advance(c) \/ NotAllFromCurrent(c) \/ Seek(c)

Next ==
  /\ \/ CountProducer \/ LinkProducer
     \/ \E p \in Producer : Enqueue(p)
     \/ \E c \in Consumers : MakeToken(c) \/ Dequeue(c)
  /\ UNCHANGED tokenUsers

Spec == Init /\ [][Next]_vars

--------------------------------------------------------------------------------
(***************************************************************************)
(* "Returns false if all producer streams appeared empty": a call that     *)
(* comes back with nothing has overlooked no stream.  Each element that    *)
(* was in the queue when it began is gone, unless it met another consumer  *)
(* at the stream, however the list and the streams grew under its feet.    *)
(***************************************************************************)
ReturnsEmpty(c) ==
  /\ ~At(c, "idle") /\ call[c].count = 0
  /\ call'[c].pc = "idle" /\ headIndex' = headIndex

EmptyIsTrue == [][\A c \in Consumers : ReturnsEmpty(c) => owed[c] = NoElements]_vars

(***************************************************************************)
(* "Every 256 items from one producer, make everyone rotate": a consumer   *)
(* that took its quota from one stream has advanced the offset that all    *)
(* look at, or is about to.  A bulk call that found too little adds to the *)
(* count without a look at the quota, and a call for one element then      *)
(* misses it, since it compares for equality: the token stays where it is. *)
(***************************************************************************)
RotatesAtQuota ==
  \A c \in Consumers \ uneven :
    token[c].itemsConsumedFromCurrent >= Quota =>
      At(c, "advance") \/ token[c].lastKnownGlobalOffset # globalExplicitConsumerOffset

================================================================================
