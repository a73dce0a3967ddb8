------------------------------ MODULE Consumers_proof ----------------------------
(***************************************************************************)
(* Proofs about Consumers, for any finite set of consumers, any sizes of   *)
(* the calls, and any number of producers, tokens and elements.            *)
(***************************************************************************)
EXTENDS Consumers, FiniteSetTheorems, TLAPS

--------------------------------------------------------------------------------
(* Who enqueued was linked before.                                         *)
OnList == \A p \in Producer : tailIndex[p] # 0 => p <= producerListTail

(* Where a call can be, and what its variables mean there.                 *)
Scoring(c) == call[c].pc \in {"score", "size"}

Locals(c) ==
  /\ ~At(c, "idle") /\ ~At(c, "advance") => call[c].max >= 1
  /\ Scoring(c) \/ InDequeue(c) \/ At(c, "enter") => call[c].ptr \in 1 .. producerListTail
  /\ call[c].pc \in {"count", "offset", "seek"} =>
       call[c].tail \in 1 .. producerListTail
  /\ At(c, "seek") => call[c].ptr <= call[c].tail
  /\ At(c, "tail") => producerListTail # Null
  /\ At(c, "offset") => call[c].prodCount >= 1
  /\ Scoring(c) =>
       /\ call[c].nonEmptyCount < Sample /\ call[c].best <= producerListTail
       /\ call[c].nonEmptyCount = 0 <=> call[c].best = Null
       /\ call[c].bestSize = 0 <=> call[c].best = Null
  /\ At(c, "best") => call[c].best = call[c].ptr
  /\ At(c, "advance") => call[c].count >= 1

(* A token that has looked at the list has a stream to start from.         *)
TokenFits(c) ==
  /\ token[c].currentProducer <= producerListTail
  /\ call[c].pc \in {"enter", "current", "seek", "advance"} => token[c].desiredProducer # Null
  /\ token[c].desiredProducer # Null => token[c].currentProducer # Null
  /\ token[c].desiredProducer = Null => token[c].itemsConsumedFromCurrent = 0
  /\ At(c, "enter") \/ At(c, "current") => call[c].ptr = token[c].currentProducer
  /\ At(c, "seek") => /\ call[c].ptr # token[c].currentProducer
                      /\ token[c].currentProducer <= call[c].tail

(* The streams a call that has got nothing has been at, or need not visit. *)
Passed(c) ==
  {p \in Producer :
     \/ Scoring(c) /\ call[c].nonEmptyCount = 0 /\ p > call[c].ptr
     \/ At(c, "walk") /\ (p > call[c].ptr \/ p = call[c].best)
     \/ At(c, "seek") /\ p > call[c].tail
     \/ At(c, "seek") /\ call[c].ptr < token[c].currentProducer
          /\ p > call[c].ptr /\ p <= token[c].currentProducer
     \/ At(c, "seek") /\ call[c].ptr > token[c].currentProducer
          /\ (p > call[c].ptr \/ p <= token[c].currentProducer)}

(* What c is owed is in the streams, and among what it saw where it is;    *)
(* it is owed nothing in the streams that it has passed.                   *)
OwedIsThere(c) ==
  /\ \A p \in Producer : owed[c][p] # 0 => headIndex[p] + owed[c][p] <= tailIndex[p]
  /\ c \in met /\ InDequeue(c) => owed[c][call[c].ptr] = 0
  /\ (InDequeue(c) \/ At(c, "size")) /\ owed[c][call[c].ptr] # 0 =>
       headIndex[call[c].ptr] + owed[c][call[c].ptr] <= call[c].seen
  /\ call[c].count > 0 => owed[c] = NoElements
  /\ \A p \in Passed(c) : owed[c][p] = 0

Fits(c) == Locals(c) /\ TokenFits(c) /\ OwedIsThere(c)

Inv ==
  /\ TypeOK /\ OnList
  /\ \A c \in Consumers : Fits(c)

USE DEF Producer, Null, Index

--------------------------------------------------------------------------------
(* Constants.                                                              *)
LEMMA Constants ==
  /\ Sample \in Nat \ {0} /\ Quota \in Nat /\ Quota >= 2
  /\ OffsetSize \in Nat \ {0}
  /\ MaxProducers \in Nat /\ MaxSent \in Nat /\ MaxTokens \in Nat
BY SizesArePositive, BoundsAreNat

(* A call may ask for no more than what it asked for at first.             *)
LEMMA AmountsAreNat ==
  /\ Amounts \subseteq Nat /\ {0, 1} \subseteq Amounts /\ Bulks \subseteq Amounts
  /\ \A m \in Amounts, n \in Nat : n <= m => m - n \in Amounts /\ n \in Amounts
<1>1. \A b \in Bulks : b \in Nat /\ b >= 2
  BY BulksAreBulks
<1>2. \A b \in Bulks : b \in 0 .. b /\ 0 .. b \subseteq Nat
  BY <1>1
<1>3. Amounts \subseteq Nat
  BY <1>2 DEF Amounts
<1>4. {0, 1} \subseteq Amounts /\ Bulks \subseteq Amounts
  BY <1>2 DEF Amounts
<1>5. \A m \in Amounts, n \in Nat : n <= m => m - n \in Amounts /\ n \in Amounts
  <2>1. SUFFICES ASSUME NEW m \in Amounts, NEW n \in Nat, n <= m
                 PROVE  m - n \in Amounts /\ n \in Amounts
    OBVIOUS
  <2>2. PICK b \in {1} \cup Bulks : m \in 0 .. b
    BY DEF Amounts
  <2>3. b \in Nat
    BY <1>1
  <2>4. m - n \in 0 .. b /\ n \in 0 .. b
    BY <2>2, <2>3, <2>1
  <2> QED
    BY <2>4 DEF Amounts
<1> QED
  BY <1>3, <1>4, <1>5

(* The arithmetic of the rotation: a place on the list, and the offset.    *)
LEMMA AroundByStays ==
  ASSUME NEW t \in Nat \ {0}, NEW p \in Int, NEW n \in Int
  PROVE  AroundBy(p, n, t) \in 1 .. t
<1>1. p - 1 - n \in Int
  OBVIOUS
<1>2. \A x \in Int : x % t \in 0 .. t - 1
  OBVIOUS
<1> QED
  BY <1>1, <1>2 DEF AroundBy

LEMMA NextOffset ==
  ASSUME NEW g \in 0 .. OffsetSize - 1
  PROVE  (g + 1) % OffsetSize = IF g + 1 = OffsetSize THEN 0 ELSE g + 1
BY Constants

--------------------------------------------------------------------------------
(* What a step does to what the consumers are owed: it is gone, or as far  *)
(* behind the end of the stream as it was.                                 *)
Debts == [Consumers -> [Producer -> Index]]

Keeps(o, d) ==
  \A p \in Producer :
    \/ o[d][p] = 0
    \/ owed[d][p] # 0 /\ o[d][p] + headIndex'[p] = owed[d][p] + headIndex[p]

(* Leaving a stream with n elements: what is taken was there, and a call   *)
(* that gets nothing there was owed nothing there.                         *)
LEMMA Taking ==
  ASSUME Inv, NEW c \in Consumers, NEW n \in Nat, InDequeue(c), Takes(c, n)
  PROVE  /\ call[c].ptr \in Producer
         /\ headIndex' \in [Producer -> Index]
         /\ \A p \in Producer : headIndex[p] <= headIndex'[p] /\ headIndex'[p] <= tailIndex[p]
         /\ n = 0 => headIndex' = headIndex /\ owed[c][call[c].ptr] = 0
         /\ n # 0 => headIndex' # headIndex
         /\ n <= call[c].max
<1> DEFINE p == call[c].ptr
<1>1. /\ p \in Producer /\ call[c] \in Call
      /\ headIndex \in [Producer -> Index] /\ tailIndex \in [Producer -> Index]
      /\ \A q \in Producer : headIndex[q] <= tailIndex[q]
      /\ owed[c] \in [Producer -> Index]
      /\ call[c].max >= 1
  <2>1. Locals(c) /\ call[c] \in Call
    BY DEF Inv, TypeOK, Fits
  <2>2. p \in Producer /\ call[c].max >= 1
    BY <2>1 DEF Locals, InDequeue, At, Call
  <2> QED
    BY <2>1, <2>2 DEF Inv, TypeOK
<1>2. headIndex' = [headIndex EXCEPT ![p] = @ + n] /\ headIndex[p] + n <= tailIndex[p]
      /\ n <= call[c].max
  BY DEF Takes
<1>3. headIndex' \in [Producer -> Index] /\ headIndex'[p] = headIndex[p] + n
      /\ \A q \in Producer \ {p} : headIndex'[q] = headIndex[q]
  BY <1>1, <1>2
<1>4. \A q \in Producer : headIndex[q] <= headIndex'[q] /\ headIndex'[q] <= tailIndex[q]
  BY <1>1, <1>2, <1>3
<1>5. ASSUME n = 0 PROVE headIndex' = headIndex /\ owed[c][p] = 0
  <2>1. headIndex' = headIndex
    BY <1>1, <1>2, <1>3, <1>5
  <2>2. c \in met \/ headIndex[p] >= call[c].seen
    BY <1>1, <1>5 DEF Takes, Call, Amounts
  <2>3. OwedIsThere(c)
    BY DEF Inv, Fits
  <2>4. call[c].seen \in Nat /\ headIndex[p] \in Nat /\ owed[c][p] \in Nat
    BY <1>1 DEF Call
  <2>5. owed[c][p] = 0
    BY <2>2, <2>3, <2>4 DEF OwedIsThere
  <2> QED
    BY <2>1, <2>5
<1>6. n # 0 => headIndex' # headIndex
  BY <1>1, <1>3
<1> QED
  BY <1>1, <1>2, <1>3, <1>4, <1>5, <1>6

LEMMA OwedAfter ==
  ASSUME Inv, NEW c \in Consumers, NEW n \in Nat, InDequeue(c), Takes(c, n)
  PROVE  /\ Owed(c, n) \in Debts
         /\ \A d \in Consumers : Keeps(Owed(c, n), d)
         /\ n # 0 => Owed(c, n)[c] = NoElements
<1> DEFINE p == call[c].ptr
<1>1. /\ p \in Producer /\ owed \in Debts
      /\ headIndex \in [Producer -> Index]
      /\ headIndex' = [headIndex EXCEPT ![p] = @ + n]
  BY Taking DEF Takes, Inv, TypeOK, Debts
<1>2. CASE n = 0
  <2>1. headIndex' = headIndex /\ Owed(c, n) = owed
    BY <1>2, Taking DEF Owed
  <2>2. \A d \in Consumers, q \in Producer : owed[d][q] \in Nat /\ headIndex[q] \in Nat
    BY <1>1 DEF Debts
  <2> QED
    BY <1>1, <1>2, <2>1, <2>2 DEF Keeps
<1>3. CASE n # 0
  <2> DEFINE o == Owed(c, n)
  <2>1. o = [d \in Consumers |->
               IF d = c THEN NoElements
               ELSE [owed[d] EXCEPT ![p] = IF @ > n THEN @ - n ELSE 0]]
    BY <1>3 DEF Owed
  <2>2. o[c] = NoElements /\ NoElements \in [Producer -> Index]
    BY <2>1 DEF NoElements
  <2>3. ASSUME NEW d \in Consumers, d # c
        PROVE  /\ o[d] = [owed[d] EXCEPT ![p] = IF @ > n THEN @ - n ELSE 0]
               /\ o[d] \in [Producer -> Index]
    <3>1. o[d] = [owed[d] EXCEPT ![p] = IF owed[d][p] > n THEN owed[d][p] - n ELSE 0]
      BY <2>1, <2>3
    <3>2. owed[d] \in [Producer -> Index] /\ owed[d][p] \in Nat
      BY <1>1 DEF Debts
    <3>3. (IF owed[d][p] > n THEN owed[d][p] - n ELSE 0) \in Index
      BY <3>2
    <3> QED
      BY <3>1, <3>2, <3>3
  <2>4. o \in Debts
    BY <2>1, <2>2, <2>3 DEF Debts
  <2>5. Keeps(o, c)
    BY <2>2 DEF Keeps, NoElements
  <2>6. ASSUME NEW d \in Consumers, d # c PROVE Keeps(o, d)
    <3>1. SUFFICES ASSUME NEW q \in Producer, o[d][q] # 0
                   PROVE  owed[d][q] # 0 /\ o[d][q] + headIndex'[q] = owed[d][q] + headIndex[q]
      BY DEF Keeps
    <3>2. owed[d] \in [Producer -> Index] /\ owed[d][q] \in Nat /\ headIndex[q] \in Nat
      BY <1>1 DEF Debts
    <3>3. CASE q = p
      <4>1. headIndex'[q] = headIndex[q] + n
        BY <1>1, <3>3
      <4>2. o[d][q] = IF owed[d][q] > n THEN owed[d][q] - n ELSE 0
        BY <2>3, <2>6, <3>2, <3>3
      <4> QED
        BY <3>1, <3>2, <4>1, <4>2
    <3>4. CASE q # p
      <4>1. headIndex'[q] = headIndex[q]
        BY <1>1, <3>4
      <4>2. o[d][q] = owed[d][q]
        BY <2>3, <2>6, <3>2, <3>4
      <4> QED
        BY <3>1, <3>2, <4>1, <4>2
    <3> QED
      BY <3>3, <3>4
  <2> QED
    BY <2>2, <2>4, <2>5, <2>6
<1> QED
  BY <1>2, <1>3

--------------------------------------------------------------------------------
(* A step of c, as the others see it: the list and the ends of the streams *)
(* stay, and who becomes one that was met is owed nothing where it is.     *)
Offset == 0 .. OffsetSize - 1

SharedOK ==
  /\ headIndex' \in [Producer -> Index]
  /\ \A p \in Producer : headIndex'[p] <= tailIndex[p]
  /\ globalExplicitConsumerOffset' \in Offset
  /\ nextExplicitConsumerId' \in 0 .. MaxTokens
  /\ uneven' \subseteq Consumers
  /\ UNCHANGED <<listVars, tailIndex, tokenUsers>>

Alone(c) ==
  /\ call' \in [Consumers -> Call] /\ token' \in [Consumers -> Token]
  /\ met' \subseteq Consumers /\ owed' \in Debts
  /\ \A d \in Consumers \ {c} :
       /\ call'[d] = call[d] /\ token'[d] = token[d]
       /\ Keeps(owed', d)
       /\ InDequeue(d) /\ d \in met' => d \in met \/ owed'[d][call[d].ptr] = 0

LEMMA OtherFits ==
  ASSUME Inv, NEW d \in Consumers,
         producerListTail' \in Nat, producerListTail <= producerListTail',
         headIndex' \in [Producer -> Index], tailIndex' \in [Producer -> Index],
         \A p \in Producer : tailIndex[p] <= tailIndex'[p],
         call'[d] = call[d], token'[d] = token[d], owed' \in Debts, Keeps(owed', d),
         InDequeue(d) /\ d \in met' => d \in met \/ owed'[d][call[d].ptr] = 0
  PROVE  Fits(d)'
<1>1. /\ call[d] \in Call /\ token[d] \in Token
      /\ producerListTail \in Nat /\ Locals(d) /\ TokenFits(d) /\ OwedIsThere(d)
  BY DEF Inv, TypeOK, Fits
<1>2. Locals(d)'
  <2>1. \A n \in Nat : /\ n <= producerListTail => n <= producerListTail'
                     /\ n \in 1 .. producerListTail => n \in 1 .. producerListTail'
    BY <1>1
  <2>2. call[d].ptr \in Nat /\ call[d].tail \in Nat /\ call[d].best \in Nat
    BY <1>1 DEF Call
  <2>3. producerListTail # Null => producerListTail' # Null
    BY <1>1
  <2> QED
    BY <1>1, <2>1, <2>2, <2>3 DEF Locals, Scoring, InDequeue, At
<1>3. TokenFits(d)'
  BY <1>1 DEF TokenFits, At, Token
<1>4. \A p \in Producer :
        /\ headIndex[p] \in Nat /\ headIndex'[p] \in Nat /\ tailIndex[p] \in Nat
        /\ tailIndex'[p] \in Nat /\ owed[d][p] \in Nat /\ owed'[d][p] \in Nat
  BY DEF Inv, TypeOK, Debts
<1>5. \A p \in Producer : owed[d][p] = 0 => owed'[d][p] = 0
  BY DEF Keeps
<1>6. OwedIsThere(d)'
  <2>1. ASSUME NEW p \in Producer, owed'[d][p] # 0
        PROVE  headIndex'[p] + owed'[d][p] <= tailIndex'[p]
    <3>1. owed[d][p] # 0 /\ owed'[d][p] + headIndex'[p] = owed[d][p] + headIndex[p]
      BY <2>1 DEF Keeps
    <3>2. headIndex[p] + owed[d][p] <= tailIndex[p] /\ tailIndex[p] <= tailIndex'[p]
      BY <1>1, <3>1 DEF OwedIsThere
    <3>3. /\ headIndex[p] \in Nat /\ headIndex'[p] \in Nat /\ tailIndex[p] \in Nat
          /\ tailIndex'[p] \in Nat /\ owed[d][p] \in Nat /\ owed'[d][p] \in Nat
      BY <1>4
    <3> QED
      BY ONLY <3>1, <3>2, <3>3
  <2>2. ASSUME d \in met', InDequeue(d) PROVE owed'[d][call[d].ptr] = 0
    <3>1. call[d].ptr \in Producer
      BY <1>1, <2>2 DEF Locals, InDequeue, Call
    <3> QED
      BY <2>2, <3>1, <1>1, <1>5 DEF OwedIsThere
  <2>3. ASSUME InDequeue(d) \/ At(d, "size"), owed'[d][call[d].ptr] # 0
        PROVE  headIndex'[call[d].ptr] + owed'[d][call[d].ptr] <= call[d].seen
    <3>1. call[d].ptr \in Producer /\ call[d].seen \in Nat
      BY <1>1, <2>3 DEF Locals, InDequeue, Call, Scoring, At
    <3>2. owed[d][call[d].ptr] # 0 /\ owed'[d][call[d].ptr] + headIndex'[call[d].ptr]
                                        = owed[d][call[d].ptr] + headIndex[call[d].ptr]
      BY <2>3, <3>1 DEF Keeps
    <3>3. headIndex[call[d].ptr] + owed[d][call[d].ptr] <= call[d].seen
      BY <2>3, <3>2, <1>1 DEF OwedIsThere
    <3> HIDE DEF Producer
    <3> QED
      BY <3>1, <3>2, <3>3, <1>4
  <2>4. ASSUME call[d].count > 0 PROVE owed'[d] = NoElements
    <3>1. owed[d] = NoElements
      BY <2>4, <1>1 DEF OwedIsThere
    <3>2. \A p \in Producer : owed'[d][p] = 0
      BY <3>1, <1>5 DEF NoElements
    <3>3. owed'[d] \in [Producer -> Index]
      BY DEF Debts
    <3> QED
      BY <3>2, <3>3 DEF NoElements
  <2>5. Passed(d)' = Passed(d)
    BY DEF Passed, Scoring, At
  <2>6. ASSUME NEW p \in Passed(d) PROVE owed'[d][p] = 0
    <3>1. p \in Producer
      BY DEF Passed
    <3> QED
      BY <2>6, <3>1, <1>1, <1>5 DEF OwedIsThere
  <2> QED
    BY <2>1, <2>2, <2>3, <2>4, <2>5, <2>6 DEF OwedIsThere, InDequeue, At
<1> QED
  BY <1>2, <1>3, <1>6 DEF Fits

(* So the invariant is c's own business.                                   *)
LEMMA AloneSuffices ==
  ASSUME Inv, NEW c \in Consumers, SharedOK, Alone(c), Fits(c)'
  PROVE  Inv'
<1>1. OnList'
  BY DEF Inv, OnList, SharedOK, listVars
<1>2. ASSUME NEW d \in Consumers \ {c} PROVE Fits(d)'
  <2>1. /\ producerListTail' = producerListTail /\ producerListTail \in Nat
        /\ tailIndex' = tailIndex /\ tailIndex \in [Producer -> Index]
    BY DEF Inv, TypeOK, SharedOK, listVars
  <2>2. \A p \in Producer : tailIndex[p] <= tailIndex'[p]
    BY <2>1
  <2>3. producerListTail' \in Nat /\ producerListTail <= producerListTail'
        /\ tailIndex' \in [Producer -> Index]
    BY <2>1
  <2> QED
    BY <2>2, <2>3, <1>2, OtherFits DEF Alone, SharedOK
<1>3. TypeOK'
  <2>1. /\ producerListTail' \in 0 .. producerCount' /\ producerCount' \in 0 .. MaxProducers
        /\ {tailIndex', headIndex'} \subseteq [Producer -> Index]
        /\ tokenUsers' \in TokenUsers
        /\ \A p \in Producer : headIndex'[p] <= tailIndex'[p]
    BY DEF Inv, TypeOK, SharedOK, listVars
  <2>2. \A d \in Consumers : token'[d].currentProducer <= producerListTail'
    BY <1>2 DEF Fits, TokenFits
  <2> QED
    BY <2>1, <2>2 DEF TypeOK, SharedOK, Alone, Debts, Offset
<1> QED
  BY <1>1, <1>2, <1>3 DEF Inv

--------------------------------------------------------------------------------
(* Entering a stream, and returning.                                       *)
LEMMA CallUpdates ==
  ASSUME NEW k \in Call
  PROVE  /\ \A w \in {"idle", "score", "size", "best", "walk", "tail", "count",
                       "offset", "enter", "current", "advance", "seek"} : [k EXCEPT !.pc = w] \in Call
         /\ \A p \in Producer \cup {Null} : [k EXCEPT !.ptr = p] \in Call
         /\ \A p \in Producer \cup {Null} : [k EXCEPT !.tail = p] \in Call
         /\ \A p \in Producer \cup {Null} : [k EXCEPT !.best = p] \in Call
         /\ \A n \in 0 .. MaxProducers : [k EXCEPT !.prodCount = n] \in Call
         /\ \A n \in 0 .. Sample : [k EXCEPT !.nonEmptyCount = n] \in Call
         /\ \A n \in Nat : [k EXCEPT !.seen = n] \in Call
         /\ \A n \in Nat : [k EXCEPT !.bestSize = n] \in Call
         /\ \A n \in Nat : [k EXCEPT !.count = n] \in Call
         /\ \A n \in Amounts : [k EXCEPT !.max = n] \in Call
<1>1. ASSUME NEW w \in {"idle", "score", "size", "best", "walk", "tail", "count",
                        "offset", "enter", "current", "advance", "seek"}
      PROVE  [k EXCEPT !.pc = w] \in Call
  BY DEF Call
<1>2. ASSUME NEW p \in Producer \cup {Null}
      PROVE  /\ [k EXCEPT !.ptr = p] \in Call
             /\ [k EXCEPT !.tail = p] \in Call
             /\ [k EXCEPT !.best = p] \in Call
  <2>1. p \in 0 .. MaxProducers
    BY BoundsAreNat
  <2>2. [k EXCEPT !.ptr = p] \in Call
    BY <2>1 DEF Call
  <2>3. [k EXCEPT !.tail = p] \in Call
    BY <2>1 DEF Call
  <2>4. [k EXCEPT !.best = p] \in Call
    BY <2>1 DEF Call
  <2> QED
    BY <2>2, <2>3, <2>4
<1>3. \A n \in 0 .. MaxProducers : [k EXCEPT !.prodCount = n] \in Call
  BY DEF Call
<1>4. \A n \in 0 .. Sample : [k EXCEPT !.nonEmptyCount = n] \in Call
  BY DEF Call
<1>5. \A n \in Nat : [k EXCEPT !.seen = n] \in Call
  BY DEF Call
<1>6. \A n \in Nat : [k EXCEPT !.bestSize = n] \in Call
  BY DEF Call
<1>7. \A n \in Nat : [k EXCEPT !.count = n] \in Call
  BY DEF Call
<1>8. \A n \in Amounts : [k EXCEPT !.max = n] \in Call
  BY DEF Call
<1> QED
  BY <1>1, <1>2, <1>3, <1>4, <1>5, <1>6, <1>7, <1>8

OwnToken(c) ==
  /\ token' \in [Consumers -> Token]
  /\ \A d \in Consumers \ {c} : token'[d] = token[d]

LEMMA Visiting ==
  ASSUME Inv, NEW c \in Consumers, SharedOK, OwnToken(c),
         NEW p \in Producer, NEW where \in {"best", "walk", "current", "seek"},
         NEW k \in Call, NEW o \in Debts,
         Visit(c, p, where, k, o),
         \A d \in Consumers \ {c} : Keeps(o, d),
         \A q \in Producer : o[c][q] # 0 => headIndex'[q] + o[c][q] <= tailIndex[q],
         k.count > 0 => o[c] = NoElements,
         \A q \in Passed(c)' : o[c][q] = 0
  PROVE  /\ Alone(c) /\ OwedIsThere(c)'
         /\ call'[c].pc = where /\ call'[c].ptr = p
         /\ call'[c].max = k.max /\ call'[c].count = k.count
         /\ call'[c].best = k.best /\ call'[c].tail = k.tail
<1>1. /\ tailIndex \in [Producer -> Index] /\ call \in [Consumers -> Call]
      /\ met \subseteq Consumers /\ headIndex' \in [Producer -> Index]
  BY DEF Inv, TypeOK, SharedOK
<1>2. /\ call' = [call EXCEPT ![c] = [k EXCEPT !.pc = where, !.ptr = p, !.seen = tailIndex[p]]]
      /\ met' = IF Inside(c, p) = {} THEN met \ {c} ELSE met \cup Inside(c, p) \cup {c}
      /\ owed' = [d \in Consumers |->
                    [o[d] EXCEPT ![p] = IF d \in met' \cap ({c} \cup Inside(c, p)) THEN 0 ELSE @]]
  BY DEF Visit
<1>3. Inside(c, p) \subseteq Consumers
  BY DEF Inside
<1>4. /\ call' \in [Consumers -> Call]
      /\ call'[c] = [k EXCEPT !.pc = where, !.ptr = p, !.seen = tailIndex[p]]
      /\ \A d \in Consumers \ {c} : call'[d] = call[d]
  <2>1. tailIndex[p] \in Index
    BY <1>1
  <2>2. [k EXCEPT !.pc = where, !.ptr = p, !.seen = tailIndex[p]] \in Call
    <3>1. [k EXCEPT !.pc = where] \in Call
      BY CallUpdates
    <3>2. [[k EXCEPT !.pc = where] EXCEPT !.ptr = p] \in Call
      BY <3>1, CallUpdates
    <3>3. [[[k EXCEPT !.pc = where] EXCEPT !.ptr = p] EXCEPT !.seen = tailIndex[p]] \in Call
      BY <2>1, <3>2, CallUpdates
    <3> QED
      BY <3>3
  <2> QED
    BY <1>1, <1>2, <2>2
<1>5. met' \subseteq Consumers
  BY <1>1, <1>2, <1>3
<1>6. ASSUME NEW d \in Consumers
      PROVE  /\ owed'[d] \in [Producer -> Index]
             /\ \A q \in Producer : owed'[d][q] = o[d][q] \/ owed'[d][q] = 0
             /\ d \in met' \cap ({c} \cup Inside(c, p)) => owed'[d][p] = 0
  <2> DEFINE x == IF d \in met' \cap ({c} \cup Inside(c, p)) THEN 0 ELSE o[d][p]
  <2>1. owed'[d] = [o[d] EXCEPT ![p] = x]
    BY <1>2, <1>6
  <2>2. o[d] \in [Producer -> Index]
    BY DEF Debts
  <2>3. /\ x \in Index /\ (x = o[d][p] \/ x = 0)
        /\ d \in met' \cap ({c} \cup Inside(c, p)) => x = 0
    BY <2>2
  <2> HIDE DEF x
  <2> QED
    BY <2>1, <2>2, <2>3
<1>7. owed' \in Debts
  <2>1. owed' = [d \in Consumers |-> owed'[d]]
    BY <1>2
  <2> QED
    BY <2>1, <1>6 DEF Debts
<1>8. ASSUME NEW d \in Consumers \ {c}
      PROVE  /\ Keeps(owed', d)
             /\ InDequeue(d) /\ d \in met' => d \in met \/ owed'[d][call[d].ptr] = 0
  <2>1. Keeps(owed', d)
    BY <1>6, <1>8 DEF Keeps
  <2>2. ASSUME d \in met', d \notin met PROVE owed'[d][call[d].ptr] = 0
    <3>1. d \in Inside(c, p)
      BY <1>2, <1>8, <2>2
    <3> QED
      BY <3>1, <2>2, <1>6 DEF Inside
  <2> QED
    BY <2>1, <2>2
<1>9. Alone(c)
  BY <1>4, <1>5, <1>7, <1>8 DEF Alone, OwnToken
<1>10. OwedIsThere(c)'
  <2>1. /\ call'[c].pc = where /\ call'[c].ptr = p /\ call'[c].seen = tailIndex[p]
        /\ call'[c].count = k.count
    BY <1>4 DEF Call
  <2>2. \A q \in Producer : /\ tailIndex'[q] = tailIndex[q] /\ tailIndex[q] \in Nat
                            /\ headIndex'[q] \in Nat /\ o[c][q] \in Nat
    BY <1>1 DEF SharedOK, Debts
  <2>3. \A q \in Producer : owed'[c][q] # 0 => headIndex'[q] + owed'[c][q] <= tailIndex'[q]
    BY <1>6, <2>2
  <2>4. c \in met' => owed'[c][p] = 0
    BY <1>6
  <2>5. ASSUME k.count > 0 PROVE owed'[c] = NoElements
    BY <2>5, <1>6 DEF NoElements
  <2>6. ASSUME NEW q \in Passed(c)' PROVE owed'[c][q] = 0
    BY <2>6, <1>6 DEF Passed
  <2> QED
    BY <2>1, <2>2, <2>3, <2>4, <2>5, <2>6 DEF OwedIsThere
<1> QED
  BY <1>4, <1>9, <1>10 DEF Call

LEMMA Returning ==
  ASSUME Inv, NEW c \in Consumers, NEW n \in Nat, SharedOK, OwnToken(c), Return(c, n),
         Owed(c, n) \in Debts, \A d \in Consumers : Keeps(Owed(c, n), d)
  PROVE  /\ Alone(c) /\ Locals(c)' /\ OwedIsThere(c)'
         /\ call'[c] = Idle
<1>1. Idle \in Call
  BY Constants, AmountsAreNat DEF Idle, Call
<1>2. /\ call' \in [Consumers -> Call] /\ call'[c] = Idle
      /\ \A d \in Consumers \ {c} : call'[d] = call[d]
  BY <1>1 DEF Return, Inv, TypeOK
<1>3. met' \subseteq met /\ met \subseteq Consumers
  BY DEF Return, Inv, TypeOK
<1>4. NoElements \in [Producer -> Index]
  BY DEF NoElements
<1>5. owed' \in Debts /\ owed'[c] = NoElements
      /\ \A d \in Consumers \ {c} : owed'[d] = Owed(c, n)[d]
  BY <1>4 DEF Return, Debts
<1>6. Alone(c)
  BY <1>2, <1>3, <1>5 DEF Alone, OwnToken, Keeps
<1>7. call'[c].pc = "idle" /\ call'[c].count = 0
  BY <1>2 DEF Idle
<1>8. Locals(c)'
  BY <1>7 DEF Locals, Scoring, InDequeue, At
<1>9. OwedIsThere(c)'
  <2>1. Passed(c)' = {}
    BY <1>7 DEF Passed, Scoring, At
  <2> QED
    BY <1>5, <1>7, <2>1 DEF OwedIsThere, InDequeue, At, NoElements
<1> QED
  BY <1>2, <1>6, <1>8, <1>9

--------------------------------------------------------------------------------
(* The producers.                                                          *)
LEMMA ProducersStep ==
  ASSUME Inv, CountProducer \/ LinkProducer \/ (\E p \in Producer : Enqueue(p)),
         UNCHANGED tokenUsers
  PROVE  Inv'
<1>1. /\ producerListTail \in 0 .. producerCount /\ producerCount \in 0 .. MaxProducers
      /\ {tailIndex, headIndex} \subseteq [Producer -> Index]
      /\ \A p \in Producer : headIndex[p] <= tailIndex[p]
      /\ MaxProducers \in Nat
  BY Constants DEF Inv, TypeOK
<1>2. UNCHANGED <<headIndex, offsetVars, token, callVars, uneven, tokenUsers>>
  BY DEF CountProducer, LinkProducer, Enqueue
<1>3. /\ producerListTail' \in 0 .. producerCount' /\ producerCount' \in 0 .. MaxProducers
      /\ producerListTail <= producerListTail'
      /\ tailIndex' \in [Producer -> Index]
      /\ \A p \in Producer : tailIndex[p] <= tailIndex'[p]
      /\ OnList'
  <2>1. CASE CountProducer
    BY <1>1, <2>1 DEF CountProducer, Inv, OnList
  <2>2. CASE LinkProducer
    BY <1>1, <2>2 DEF LinkProducer, Inv, OnList
  <2>3. CASE \E p \in Producer : Enqueue(p)
    <3>1. PICK p \in Producer : Enqueue(p)
      BY <2>3
    <3>2. /\ tailIndex' = [tailIndex EXCEPT ![p] = @ + 1] /\ p <= producerListTail
          /\ producerListTail' = producerListTail /\ producerCount' = producerCount
      BY <3>1 DEF Enqueue, listVars
    <3> QED
      BY <1>1, <3>2 DEF Inv, OnList
  <2> QED
    BY <2>1, <2>2, <2>3
<1>4. ASSUME NEW d \in Consumers PROVE Fits(d)'
  <2>1. owed \in Debts
    BY DEF Inv, TypeOK, Debts
  <2>2. headIndex' = headIndex /\ owed' = owed /\ met' = met /\ call' = call /\ token' = token
    BY <1>2 DEF callVars
  <2>3. Keeps(owed', d)
    BY <2>2 DEF Keeps
  <2>4. producerListTail' \in Nat
    BY <1>3, <1>1
  <2> QED
    BY <1>1, <1>3, <2>1, <2>2, <2>3, <2>4, OtherFits
<1>5. TypeOK'
  <2>1. \A p \in Producer : headIndex'[p] <= tailIndex'[p]
    BY <1>1, <1>2, <1>3
  <2>2. \A d \in Consumers : token'[d].currentProducer <= producerListTail'
    BY <1>4 DEF Fits, TokenFits
  <2> QED
    BY <1>1, <1>2, <1>3, <2>1, <2>2 DEF TypeOK, Inv, offsetVars, callVars
<1> QED
  BY <1>3, <1>4, <1>5 DEF Inv

--------------------------------------------------------------------------------
(* Steps that touch c's own variables only.                                *)
LEMMA LocalStep ==
  ASSUME Inv, NEW c \in Consumers, NEW k \in Call, Becomes(c, k),
         UNCHANGED <<listVars, tailIndex, headIndex, offsetVars, token, uneven, tokenUsers>>,
         UNCHANGED met,
         owed' \in Debts, \A d \in Consumers \ {c} : owed'[d] = owed[d]
  PROVE  SharedOK /\ Alone(c) /\ call'[c] = k
<1>1. SharedOK
  BY DEF Inv, TypeOK, SharedOK, listVars, offsetVars, Offset
<1>2. /\ call' \in [Consumers -> Call] /\ call'[c] = k
      /\ \A d \in Consumers \ {c} : call'[d] = call[d]
  BY DEF Inv, TypeOK, Becomes
<1>3. \A d \in Consumers \ {c} : Keeps(owed', d)
  BY DEF Keeps
<1> QED
  BY <1>1, <1>2, <1>3 DEF Alone, Inv, TypeOK

(* A call begins: it is owed all there is.                                 *)
LEMMA AllThereFits ==
  ASSUME Inv, NEW c \in Consumers
  PROVE  /\ AllThere(c) \in Debts
         /\ \A d \in Consumers \ {c} : AllThere(c)[d] = owed[d]
         /\ \A p \in Producer :
              /\ AllThere(c)[c][p] # 0 => headIndex[p] + AllThere(c)[c][p] <= tailIndex[p]
              /\ p > producerListTail => AllThere(c)[c][p] = 0
<1>1. \A p \in Producer : /\ tailIndex[p] \in Nat /\ headIndex[p] \in Nat
                          /\ headIndex[p] <= tailIndex[p]
                          /\ p > producerListTail => tailIndex[p] = 0
  BY Constants DEF Inv, TypeOK, OnList
<1>2. [p \in Producer |-> tailIndex[p] - headIndex[p]] \in [Producer -> Index]
  BY <1>1
<1>3. AllThere(c) \in Debts /\ \A d \in Consumers \ {c} : AllThere(c)[d] = owed[d]
  BY <1>2 DEF AllThere, Debts, Inv, TypeOK
<1>4. AllThere(c)[c] = [p \in Producer |-> tailIndex[p] - headIndex[p]]
  BY DEF AllThere, Inv, TypeOK
<1>5. \A p \in Producer : AllThere(c)[c][p] = tailIndex[p] - headIndex[p]
  BY <1>4
<1> QED
  BY <1>1, <1>3, <1>5

LEMMA IdleFits ==
  /\ Idle \in Call
  /\ \A m \in Amounts : [Idle EXCEPT !.max = m] \in Call
<1>1. Idle \in Call
  BY Constants, AmountsAreNat DEF Idle, Call
<1> QED
  BY <1>1, CallUpdates

LEMMA TryDequeueStep ==
  ASSUME Inv, NEW c \in Consumers, TryDequeue(c), UNCHANGED tokenUsers
  PROVE  Inv'
<1> DEFINE k == [Idle EXCEPT !.pc = "score", !.ptr = producerListTail, !.max = 1]
<1>1. producerListTail \in Producer
  BY Constants DEF TryDequeue, Begins, Inv, TypeOK
<1>2. k \in Call
  <2>1. [Idle EXCEPT !.pc = "score"] \in Call
    BY IdleFits, CallUpdates
  <2>2. [[Idle EXCEPT !.pc = "score"] EXCEPT !.ptr = producerListTail] \in Call
    BY <2>1, <1>1, CallUpdates
  <2>3. [[[Idle EXCEPT !.pc = "score"] EXCEPT !.ptr = producerListTail] EXCEPT !.max = 1] \in Call
    BY <2>2, AmountsAreNat, CallUpdates
  <2> QED
    BY <2>3
<1>3. SharedOK /\ Alone(c) /\ call'[c] = k
  BY <1>2, AllThereFits, LocalStep DEF TryDequeue, Begins
<1>4. /\ call'[c].pc = "score" /\ call'[c].ptr = producerListTail /\ call'[c].max = 1
      /\ call'[c].count = 0 /\ call'[c].nonEmptyCount = 0 /\ call'[c].best = Null
      /\ call'[c].bestSize = 0
  BY <1>3 DEF Idle
<1>5. Locals(c)'
  BY <1>1, <1>4, Constants DEF Locals, Scoring, InDequeue, At, TryDequeue, Begins, listVars
<1>6. TokenFits(c)'
  BY <1>4 DEF TokenFits, At, TryDequeue, Begins, listVars, Inv, Fits
<1>7. OwedIsThere(c)'
  <2>1. owed' = AllThere(c) /\ headIndex' = headIndex /\ tailIndex' = tailIndex
    BY DEF TryDequeue, Begins
  <2>2. \A p \in Passed(c)' : p \in Producer /\ p > producerListTail
    BY <1>4 DEF Passed, Scoring, At
  <2> QED
    BY <1>4, <2>1, <2>2, AllThereFits DEF OwedIsThere, InDequeue, At
<1> QED
  BY <1>3, <1>5, <1>6, <1>7, AloneSuffices DEF Fits

(* What the state says of c, for the steps that follow.                    *)
LEMMA Facts ==
  ASSUME Inv, NEW c \in Consumers
  PROVE  /\ call[c] \in Call /\ token[c] \in Token
         /\ Locals(c) /\ TokenFits(c) /\ OwedIsThere(c)
         /\ producerListTail \in 0 .. MaxProducers
         /\ \A p \in Producer : tailIndex[p] \in Nat /\ headIndex[p] \in Nat
                                 /\ owed[c][p] \in Nat /\ headIndex[p] <= tailIndex[p]
         /\ token \in [Consumers -> Token] /\ owed \in Debts
BY Constants DEF Inv, TypeOK, Fits, Debts

LEMMA ScoreTailStep ==
  ASSUME Inv, NEW c \in Consumers, ScoreTail(c), UNCHANGED tokenUsers
  PROVE  Inv'
<1> DEFINE k == [call[c] EXCEPT !.pc = "size", !.seen = tailIndex[call[c].ptr]]
<1>1. call[c].ptr \in Producer
  BY Facts DEF ScoreTail, Locals, Scoring, At, Call
<1>2. k \in Call
  <2>1. [call[c] EXCEPT !.pc = "size"] \in Call
    BY Facts, CallUpdates
  <2>2. [[call[c] EXCEPT !.pc = "size"] EXCEPT !.seen = tailIndex[call[c].ptr]] \in Call
    BY <2>1, <1>1, Facts, CallUpdates
  <2> QED
    BY <2>2
<1>3. SharedOK /\ Alone(c) /\ call'[c] = k
  BY <1>2, Facts, LocalStep DEF ScoreTail
<1>4. /\ call'[c].pc = "size" /\ call'[c].seen = tailIndex[call[c].ptr]
      /\ call'[c].ptr = call[c].ptr /\ call'[c].max = call[c].max
      /\ call'[c].count = call[c].count /\ call'[c].nonEmptyCount = call[c].nonEmptyCount
      /\ call'[c].best = call[c].best /\ call'[c].bestSize = call[c].bestSize
  BY <1>3, Facts DEF Call
<1>5. Locals(c)'
  BY <1>4, Facts DEF Locals, Scoring, InDequeue, At, ScoreTail, listVars
<1>6. TokenFits(c)'
  BY <1>4, Facts DEF TokenFits, At, ScoreTail, listVars
<1>7. OwedIsThere(c)'
  <2>1. owed' = owed /\ headIndex' = headIndex /\ tailIndex' = tailIndex
    BY DEF ScoreTail
  <2>2. Passed(c)' = Passed(c)
    BY <1>4 DEF Passed, Scoring, At, ScoreTail
  <2> QED
    BY <1>1, <1>4, <2>1, <2>2, Facts DEF OwedIsThere, InDequeue, At
<1> QED
  BY <1>3, <1>5, <1>6, <1>7, AloneSuffices DEF Fits

(* Nothing is owed where size_approx() is 0.                               *)
LEMMA SizeSees ==
  ASSUME Inv, NEW c \in Consumers, At(c, "size")
  PROVE  /\ Size(c) \in Nat /\ call[c].ptr \in Producer
         /\ Size(c) = 0 => owed[c][call[c].ptr] = 0
<1>1. call[c].ptr \in Producer /\ call[c].seen \in Nat
  BY Facts DEF Locals, Scoring, At, Call
<1> DEFINE h == headIndex[call[c].ptr]
           w == owed[c][call[c].ptr]
<1>2. h \in Nat /\ w \in Nat
  BY <1>1, Facts
<1>3. w # 0 => h + w <= call[c].seen
  BY Facts DEF OwedIsThere
<1>4. Size(c) = IF h < call[c].seen THEN call[c].seen - h ELSE 0
  BY DEF Size
<1> HIDE DEF h, w
<1>5. Size(c) \in Nat /\ (Size(c) = 0 => w = 0)
  BY <1>1, <1>2, <1>3, <1>4
<1> QED
  BY <1>1, <1>5 DEF w

LEMMA ScoredFits ==
  ASSUME Inv, NEW c \in Consumers, At(c, "size")
  PROVE  /\ Scored(c) \in Call
         /\ Scored(c).ptr = call[c].ptr /\ Scored(c).max = call[c].max
         /\ Scored(c).count = call[c].count
         /\ Scored(c).best \in 0 .. producerListTail
         /\ Scored(c).nonEmptyCount = 0 <=> Scored(c).best = Null
         /\ Scored(c).bestSize = 0 <=> Scored(c).best = Null
         /\ Scored(c).nonEmptyCount = 0 => call[c].nonEmptyCount = 0 /\ Size(c) = 0
<1> DEFINE x == IF Size(c) > 0 THEN call[c].nonEmptyCount + 1 ELSE call[c].nonEmptyCount
           y == IF Size(c) > call[c].bestSize THEN call[c].ptr ELSE call[c].best
           z == IF Size(c) > call[c].bestSize THEN Size(c) ELSE call[c].bestSize
<1>1. Scored(c) = [call[c] EXCEPT !.nonEmptyCount = x, !.best = y, !.bestSize = z]
  BY DEF Scored
<1>2. /\ Size(c) \in Nat /\ call[c].ptr \in 1 .. producerListTail
      /\ call[c].best \in 0 .. producerListTail /\ call[c].bestSize \in Nat
      /\ call[c].nonEmptyCount \in 0 .. Sample - 1
      /\ call[c].nonEmptyCount = 0 <=> call[c].best = Null
      /\ call[c].bestSize = 0 <=> call[c].best = Null
  BY SizeSees, Facts, Constants DEF Locals, Scoring, At, Call
<1>3. /\ x \in 0 .. Sample /\ z \in Nat /\ y \in 0 .. producerListTail
      /\ x = 0 <=> y = Null
      /\ z = 0 <=> y = Null
      /\ x = 0 => call[c].nonEmptyCount = 0 /\ Size(c) = 0
  BY <1>2, Constants
<1> HIDE DEF x, y, z
<1>4. Scored(c) \in Call
  <2>1. y \in Producer \cup {Null}
    BY <1>3, Facts, Constants
  <2>2. [call[c] EXCEPT !.nonEmptyCount = x] \in Call
    BY <1>3, Facts, CallUpdates
  <2>3. [[call[c] EXCEPT !.nonEmptyCount = x] EXCEPT !.best = y] \in Call
    BY <2>1, <2>2, CallUpdates
  <2>4. [[[call[c] EXCEPT !.nonEmptyCount = x] EXCEPT !.best = y] EXCEPT !.bestSize = z] \in Call
    BY <1>3, <2>3, CallUpdates
  <2> QED
    BY <1>1, <2>4
<1>5. /\ Scored(c).ptr = call[c].ptr /\ Scored(c).max = call[c].max
      /\ Scored(c).count = call[c].count /\ Scored(c).best = y
      /\ Scored(c).nonEmptyCount = x /\ Scored(c).bestSize = z
  BY <1>1, Facts DEF Call
<1> QED
  BY <1>3, <1>4, <1>5

LEMMA OwedNow ==
  ASSUME Inv, NEW c \in Consumers, headIndex' = headIndex
  PROVE  /\ Owed(c, 0) = owed /\ Owed(c, 0) \in Debts
         /\ \A d \in Consumers : Keeps(Owed(c, 0), d)
BY Facts DEF Owed, Keeps, Inv, TypeOK, Debts

LEMMA ScoreHeadStep ==
  ASSUME Inv, NEW c \in Consumers, ScoreHead(c), UNCHANGED tokenUsers
  PROVE  Inv'
<1> DEFINE k == Scored(c)
<1>1. /\ At(c, "size")
      /\ UNCHANGED <<listVars, tailIndex, headIndex, offsetVars, token, uneven, tokenUsers>>
  BY DEF ScoreHead
<1>2. SharedOK /\ OwnToken(c)
  BY <1>1, Facts DEF SharedOK, OwnToken, Inv, TypeOK, listVars, offsetVars, Offset
<1>3. /\ call[c].ptr \in 1 .. producerListTail /\ call[c].max >= 1
      /\ producerListTail' = producerListTail /\ k.nonEmptyCount \in 0 .. Sample
      /\ call[c].pc = "size" /\ call[c].count \in Nat
  BY <1>1, Facts, ScoredFits DEF Locals, Scoring, At, listVars, Call
<1>4. CASE /\ k.nonEmptyCount < Sample /\ k.ptr > 1
           /\ Becomes(c, [k EXCEPT !.pc = "score", !.ptr = @ - 1])
           /\ UNCHANGED <<met, owed>>
  <2>1. k.ptr - 1 \in 1 .. producerListTail
    BY <1>1, <1>3, <1>4, Facts, ScoredFits
  <2>2. [k EXCEPT !.pc = "score", !.ptr = k.ptr - 1] \in Call
    <3>1. [k EXCEPT !.pc = "score"] \in Call
      BY <1>1, ScoredFits, CallUpdates
    <3>2. k.ptr - 1 \in Producer
      BY <2>1, Facts, Constants
    <3>3. [[k EXCEPT !.pc = "score"] EXCEPT !.ptr = k.ptr - 1] \in Call
      BY <3>1, <3>2, CallUpdates
    <3> QED
      BY <3>3
  <2>3. Alone(c) /\ call'[c] = [k EXCEPT !.pc = "score", !.ptr = k.ptr - 1]
    BY <1>1, <1>4, <2>2, Facts, LocalStep
  <2>4. /\ call'[c].pc = "score" /\ call'[c].ptr = call[c].ptr - 1
        /\ call'[c].max = call[c].max /\ call'[c].count = call[c].count
        /\ call'[c].best = k.best /\ call'[c].bestSize = k.bestSize
        /\ call'[c].nonEmptyCount = k.nonEmptyCount
    <3> HIDE DEF k
    <3>1. k \in Call /\ k.ptr = call[c].ptr /\ k.max = call[c].max /\ k.count = call[c].count
      BY <1>1, ScoredFits DEF k
    <3> QED
      BY <2>3, <3>1 DEF Call
  <2>5. Locals(c)'
    BY <1>1, <1>3, <1>4, <2>1, <2>4, ScoredFits DEF Locals, Scoring, InDequeue, At
  <2>6. TokenFits(c)'
    BY <1>1, <1>3, <2>4, Facts DEF TokenFits, At
  <2>7. OwedIsThere(c)'
    <3>1. ASSUME NEW p \in Passed(c)' PROVE owed[c][p] = 0
      <4>1. p \in Producer /\ p > call[c].ptr - 1 /\ k.nonEmptyCount = 0
        BY <2>4 DEF Passed, Scoring, At
      <4>2. call[c].nonEmptyCount = 0 /\ Size(c) = 0
        BY <1>1, <4>1, ScoredFits
      <4>3. CASE p = call[c].ptr
        BY <1>1, <4>2, <4>3, SizeSees
      <4>4. CASE p > call[c].ptr
        <5>1. p \in Passed(c)
          BY <1>1, <4>1, <4>2, <4>4 DEF Passed, Scoring, At
        <5> QED
          BY <5>1, Facts DEF OwedIsThere
      <4> QED
        BY <4>1, <4>3, <4>4, <1>3, Facts
    <3>2. owed' = owed /\ headIndex' = headIndex /\ tailIndex' = tailIndex
      BY <1>1, <1>4
    <3> QED
      BY <2>4, <3>1, <3>2, Facts DEF OwedIsThere, InDequeue, At
  <2> QED
    BY <1>2, <2>3, <2>5, <2>6, <2>7, AloneSuffices DEF Fits
<1>5. CASE k.nonEmptyCount = 0 /\ Return(c, 0)
  <2>1. Alone(c) /\ Locals(c)' /\ OwedIsThere(c)' /\ call'[c] = Idle
    BY <1>1, <1>2, <1>5, OwedNow, Returning
  <2>2. TokenFits(c)'
    BY <1>1, <1>3, <2>1, Facts DEF TokenFits, At, Idle
  <2> QED
    BY <1>2, <2>1, <2>2, AloneSuffices DEF Fits
<1>6. CASE k.nonEmptyCount # 0 /\ Enter(c, 0, k.best, "best", k)
  <2>1. k.best \in 1 .. producerListTail
    BY <1>1, <1>6, ScoredFits, Facts
  <2>2. k.best \in Producer /\ k \in Call /\ k.count = call[c].count /\ k.max = call[c].max
    BY <1>1, <2>1, Facts, Constants, ScoredFits
  <2>3. \A q \in Passed(c)' : owed[c][q] = 0
    <3>1. call'[c].pc = "best"
      BY <1>6, <2>2, Facts DEF Enter, Visit, Call, Inv, TypeOK
    <3> QED
      BY <3>1 DEF Passed, Scoring, At
  <2>4. \A q \in Producer : owed[c][q] # 0 => headIndex'[q] + owed[c][q] <= tailIndex[q]
    BY <1>1, Facts DEF OwedIsThere
  <2>5. k.count > 0 => owed[c] = NoElements
    BY <2>2, Facts DEF OwedIsThere
  <2>6. /\ Alone(c) /\ OwedIsThere(c)'
        /\ call'[c].pc = "best" /\ call'[c].ptr = k.best
        /\ call'[c].max = k.max /\ call'[c].best = k.best
    <3>1. Visit(c, k.best, "best", k, owed)
      BY <1>1, <1>6, OwedNow DEF Enter
    <3>2. \A d \in Consumers \ {c} : Keeps(owed, d)
      BY <1>1, OwedNow
    <3>3. owed \in Debts
      BY Facts
    <3> HIDE DEF k
    <3> QED
      BY <1>2, <2>2, <2>3, <2>4, <2>5, <3>1, <3>2, <3>3, Visiting
  <2>7. /\ call'[c].pc = "best" /\ call'[c].ptr = k.best /\ call'[c].best = k.best
        /\ call'[c].max = call[c].max
    BY <2>2, <2>6
  <2>8. Locals(c)'
    BY <1>3, <2>1, <2>7 DEF Locals, Scoring, InDequeue, At
  <2>9. TokenFits(c)'
    BY <1>1, <1>3, <2>7, Facts DEF TokenFits, At
  <2> QED
    BY <1>2, <2>6, <2>8, <2>9, AloneSuffices DEF Fits
<1> QED
  BY <1>4, <1>5, <1>6 DEF ScoreHead

LEMMA TryDequeueBulkStep ==
  ASSUME Inv, NEW c \in Consumers, NEW n \in {1} \cup Bulks, TryDequeueBulk(c, n),
         UNCHANGED tokenUsers
  PROVE  Inv'
<1> DEFINE k == [Idle EXCEPT !.max = n]
<1>1. /\ UNCHANGED <<listVars, tailIndex, headIndex, offsetVars, token, uneven, tokenUsers>>
      /\ Visit(c, producerListTail, "walk", k, AllThere(c))
      /\ producerListTail \in Producer
  BY Facts, Constants DEF TryDequeueBulk, Begins
<1>2. SharedOK /\ OwnToken(c)
  BY <1>1, Facts DEF SharedOK, OwnToken, Inv, TypeOK, listVars, offsetVars, Offset
<1>3. k \in Call /\ k.count = 0 /\ k.best = Null /\ k.max = n /\ n >= 1
  BY IdleFits, AmountsAreNat, BulksAreBulks DEF Idle
<1>4. /\ call'[c].pc = "walk" /\ call'[c].ptr = producerListTail /\ call'[c].best = Null
  <2>1. tailIndex[producerListTail] \in Nat
    BY <1>1, Facts
  <2>2. call'[c] = [k EXCEPT !.pc = "walk", !.ptr = producerListTail,
                              !.seen = tailIndex[producerListTail]]
    BY <1>1 DEF Visit, Inv, TypeOK
  <2> QED
    BY <2>2 DEF Idle
<1>5. \A q \in Passed(c)' : AllThere(c)[c][q] = 0
  <2>1. \A q \in Passed(c)' : q \in Producer /\ q > producerListTail
    BY <1>4 DEF Passed, Scoring, At
  <2> QED
    BY <2>1, AllThereFits
<1>6. Alone(c) /\ OwedIsThere(c)' /\ call'[c].max = n
  <2>1. \A d \in Consumers \ {c} : Keeps(AllThere(c), d)
    BY <1>1, AllThereFits DEF Keeps
  <2>2. \A q \in Producer : AllThere(c)[c][q] # 0 =>
                            headIndex'[q] + AllThere(c)[c][q] <= tailIndex[q]
    BY <1>1, AllThereFits
  <2>3. AllThere(c) \in Debts
    BY AllThereFits
  <2> HIDE DEF k
  <2> QED
    BY <1>1, <1>2, <1>3, <1>5, <2>1, <2>2, <2>3, Visiting
<1>7. Locals(c)'
  BY <1>1, <1>3, <1>4, <1>6, Constants DEF Locals, Scoring, InDequeue, At, listVars
<1>8. TokenFits(c)'
  BY <1>1, <1>4, Facts DEF TokenFits, At, listVars
<1> QED
  BY <1>2, <1>6, <1>7, <1>8, AloneSuffices DEF Fits

--------------------------------------------------------------------------------
(* Leaving a stream.                                                       *)
LEMMA WithFits ==
  ASSUME Inv, NEW c \in Consumers, NEW n \in Nat, n <= call[c].max
  PROVE  /\ With(c, n) \in Call
         /\ With(c, n).max = call[c].max - n /\ With(c, n).count = call[c].count + n
         /\ With(c, n).best = call[c].best /\ With(c, n).tail = call[c].tail
         /\ call[c].max \in Nat /\ call[c].count \in Nat
<1>1. call[c] \in Call /\ call[c].max \in Amounts /\ call[c].count \in Nat
  BY Facts DEF Call
<1>2. call[c].max - n \in Amounts /\ call[c].max \in Nat
  BY <1>1, AmountsAreNat
<1>3. [call[c] EXCEPT !.max = call[c].max - n] \in Call
  BY <1>1, <1>2, CallUpdates
<1>4. [[call[c] EXCEPT !.max = call[c].max - n] EXCEPT !.count = call[c].count + n] \in Call
  <2>1. call[c].count + n \in Nat
    BY <1>1
  <2> QED
    BY <1>3, <2>1, CallUpdates
<1>5. With(c, n) = [call[c] EXCEPT !.max = call[c].max - n, !.count = call[c].count + n]
  BY DEF With
<1> QED
  BY <1>1, <1>2, <1>4, <1>5 DEF Call

(* c goes on to stream p, or returns: the parts the streams share.         *)
LEMMA Leaving ==
  ASSUME Inv, NEW c \in Consumers, NEW n \in Nat, InDequeue(c), Takes(c, n),
         UNCHANGED <<listVars, tailIndex, offsetVars, tokenUsers>>, uneven' \subseteq Consumers
  PROVE  SharedOK
BY Taking, Facts DEF SharedOK, Inv, TypeOK, listVars, offsetVars, Offset

LEMMA Entering ==
  ASSUME Inv, NEW c \in Consumers, NEW n \in Nat, InDequeue(c), Takes(c, n),
         SharedOK, OwnToken(c),
         NEW p \in Producer, NEW where \in {"best", "walk", "current", "seek"},
         NEW k \in Call, Enter(c, n, p, where, k), k.count = call[c].count + n,
         n = 0 => \A q \in Passed(c)' : owed[c][q] = 0
  PROVE  /\ Alone(c) /\ OwedIsThere(c)'
         /\ call'[c].pc = where /\ call'[c].ptr = p
         /\ call'[c].max = k.max /\ call'[c].best = k.best /\ call'[c].tail = k.tail
<1> DEFINE o == Owed(c, n)
<1>1. /\ o \in Debts /\ \A d \in Consumers : Keeps(o, d)
      /\ n # 0 => o[c] = NoElements
      /\ n = 0 => o = owed
  BY OwedAfter DEF Owed
<1>2. Visit(c, p, where, k, o)
  BY DEF Enter
<1>3. \A q \in Producer : o[c][q] # 0 => headIndex'[q] + o[c][q] <= tailIndex[q]
  <2>1. SUFFICES ASSUME NEW q \in Producer, o[c][q] # 0
                 PROVE  headIndex'[q] + o[c][q] <= tailIndex[q]
    OBVIOUS
  <2>2. owed[c][q] # 0 /\ o[c][q] + headIndex'[q] = owed[c][q] + headIndex[q]
    BY <1>1, <2>1 DEF Keeps
  <2>3. o[c][q] \in Nat /\ headIndex'[q] \in Nat
    BY <1>1, Taking DEF Debts
  <2>4. headIndex[q] + owed[c][q] <= tailIndex[q]
    BY <2>2, Facts DEF OwedIsThere
  <2> HIDE DEF o
  <2> QED
    BY <2>2, <2>3, <2>4, Facts
<1>4. k.count > 0 => o[c] = NoElements
  <2>1. call[c].count \in Nat /\ (call[c].count > 0 => owed[c] = NoElements)
    BY Facts DEF OwedIsThere, Call
  <2> QED
    BY <1>1, <2>1
<1>5. \A q \in Passed(c)' : o[c][q] = 0
  <2>1. Passed(c)' \subseteq Producer
    BY DEF Passed
  <2> QED
    BY <1>1, <2>1 DEF NoElements
<1> HIDE DEF o
<1> QED
  BY <1>1, <1>2, <1>3, <1>4, <1>5, Visiting

(* The walk over the list, and the way back to its start.                  *)
LEMMA WalkOnStep ==
  ASSUME Inv, NEW c \in Consumers, NEW n \in Nat, InDequeue(c), Takes(c, n), n < call[c].max,
         UNCHANGED <<listVars, tailIndex, offsetVars, token, uneven, tokenUsers>>,
         NEW p \in 0 .. producerListTail, WalkOn(c, n, p),
         n = 0 => \A q \in Producer : q > p \/ q = call[c].best => owed[c][q] = 0
  PROVE  Inv'
<1> DEFINE q == IF p = call[c].best /\ p # Null THEN p - 1 ELSE p
           k == With(c, n)
<1>1. SharedOK /\ OwnToken(c)
  <2>1. uneven' \subseteq Consumers
    BY DEF Inv, TypeOK
  <2> QED
    BY <2>1, Leaving, Facts DEF OwnToken
<1>2. IF q = Null THEN Return(c, n) ELSE Enter(c, n, q, "walk", k)
  BY DEF WalkOn
<1>3. /\ producerListTail \in 0 .. MaxProducers /\ q \in 0 .. producerListTail
      /\ producerListTail' = producerListTail /\ token' = token
  BY Facts, Constants DEF listVars
<1>4. CASE q = Null
  <2>1. Alone(c) /\ Locals(c)' /\ OwedIsThere(c)' /\ call'[c] = Idle
    BY <1>1, <1>2, <1>4, OwedAfter, Returning
  <2>2. TokenFits(c)'
    BY <1>3, <2>1, Facts DEF TokenFits, At, Idle
  <2> QED
    BY <1>1, <2>1, <2>2, AloneSuffices DEF Fits
<1>5. CASE q # Null
  <2>1. q \in Producer /\ q \in 1 .. producerListTail
    BY <1>3, <1>5, Constants
  <2>2. k \in Call /\ k.count = call[c].count + n /\ k.max >= 1 /\ k.best = call[c].best
    <3>1. n <= call[c].max
      BY DEF Takes
    <3>2. k \in Call /\ k.max = call[c].max - n /\ call[c].max \in Nat
          /\ k.count = call[c].count + n /\ k.best = call[c].best
      BY <3>1, WithFits
    <3> HIDE DEF k
    <3> QED
      BY <3>2
  <2>3. call'[c].pc = "walk" /\ call'[c].ptr = q /\ call'[c].best = k.best
    <3>1. Visit(c, q, "walk", k, Owed(c, n))
      BY <1>2, <1>5 DEF Enter
    <3>2. call'[c] = [k EXCEPT !.pc = "walk", !.ptr = q, !.seen = tailIndex[q]]
      BY <3>1 DEF Visit, Inv, TypeOK
    <3>3. tailIndex[q] \in Nat
      BY <2>1, Facts
    <3> HIDE DEF q, k
    <3> QED
      BY <2>1, <2>2, <3>2, <3>3 DEF Call
  <2>4. n = 0 => \A r \in Passed(c)' : owed[c][r] = 0
    <3>1. SUFFICES ASSUME n = 0, NEW r \in Passed(c)'
                   PROVE  r \in Producer /\ (r > p \/ r = call[c].best)
      OBVIOUS
    <3>2. r \in Producer /\ (r > q \/ r = k.best)
      BY <2>3, <3>1 DEF Passed, Scoring, At
    <3> QED
      BY <3>2, <2>2, <1>3
  <2>5. /\ Alone(c) /\ OwedIsThere(c)'
        /\ call'[c].pc = "walk" /\ call'[c].ptr = q /\ call'[c].max = k.max
    <3> HIDE DEF q, k
    <3> QED
      BY <1>1, <1>2, <1>5, <2>1, <2>2, <2>4, Entering
  <2>6. Locals(c)'
    BY <1>3, <2>1, <2>2, <2>5 DEF Locals, Scoring, InDequeue, At
  <2>7. TokenFits(c)'
    BY <1>3, <2>5, Facts DEF TokenFits, At
  <2> QED
    BY <1>1, <2>5, <2>6, <2>7, AloneSuffices DEF Fits
<1> QED
  BY <1>4, <1>5

LEMMA ReturnStep ==
  ASSUME Inv, NEW c \in Consumers, NEW n \in Nat, InDequeue(c), Takes(c, n), Return(c, n),
         UNCHANGED <<listVars, tailIndex, offsetVars, tokenUsers>>,
         uneven' \subseteq Consumers, OwnToken(c),
         token'[c].currentProducer <= producerListTail,
         token'[c].desiredProducer # Null => token'[c].currentProducer # Null,
         token'[c].desiredProducer = Null => token'[c].itemsConsumedFromCurrent = 0
  PROVE  Inv'
<1>1. SharedOK
  BY Leaving
<1>2. Alone(c) /\ Locals(c)' /\ OwedIsThere(c)' /\ call'[c] = Idle
  BY <1>1, OwedAfter, Returning
<1>3. TokenFits(c)'
  BY <1>2 DEF TokenFits, At, Idle, listVars
<1> QED
  BY <1>1, <1>2, <1>3, AloneSuffices DEF Fits

LEMMA TryBestStep ==
  ASSUME Inv, NEW c \in Consumers, TryBest(c), UNCHANGED tokenUsers
  PROVE  Inv'
<1>1. /\ At(c, "best") /\ InDequeue(c) /\ call[c].max >= 1 /\ call[c].max \in Nat
      /\ UNCHANGED <<listVars, tailIndex, offsetVars, token, uneven, tokenUsers>>
  BY Facts, AmountsAreNat DEF TryBest, InDequeue, At, Locals, Call
<1>2. CASE Takes(c, 1) /\ Return(c, 1)
  <2>1. uneven' \subseteq Consumers /\ OwnToken(c)
    BY <1>1, Facts DEF Inv, TypeOK, OwnToken
  <2> QED
    BY <1>1, <1>2, <2>1, Facts, ReturnStep DEF TokenFits
<1>3. CASE Takes(c, 0) /\ WalkOn(c, 0, producerListTail)
  <2>1. \A q \in Producer : q > producerListTail \/ q = call[c].best => owed[c][q] = 0
    <3>1. owed[c][call[c].best] = 0
      BY <1>1, <1>3, Taking, Facts DEF Locals
    <3>2. ASSUME NEW q \in Producer, q > producerListTail PROVE owed[c][q] = 0
      BY <3>2, Facts DEF Inv, OnList, OwedIsThere
    <3> QED
      BY <3>1, <3>2
  <2>2. producerListTail \in 0 .. producerListTail
    BY Facts
  <2> QED
    BY <1>1, <1>3, <2>1, <2>2, WalkOnStep
<1> QED
  BY <1>2, <1>3 DEF TryBest

LEMMA WalkStep ==
  ASSUME Inv, NEW c \in Consumers, Walk(c), UNCHANGED tokenUsers
  PROVE  Inv'
<1>1. /\ At(c, "walk") /\ InDequeue(c) /\ call[c].max \in Nat
      /\ call[c].ptr \in 1 .. producerListTail
      /\ UNCHANGED <<listVars, tailIndex, offsetVars, token, uneven, tokenUsers>>
  BY Facts, AmountsAreNat DEF Walk, InDequeue, At, Locals, Call
<1>2. PICK n \in Amounts :
        /\ Takes(c, n)
        /\ IF n = call[c].max THEN Return(c, n) ELSE WalkOn(c, n, call[c].ptr - 1)
  BY DEF Walk
<1>3. n \in Nat /\ n <= call[c].max
  BY <1>2, AmountsAreNat DEF Takes
<1>4. CASE n = call[c].max
  <2>1. uneven' \subseteq Consumers /\ OwnToken(c)
    BY <1>1, Facts DEF Inv, TypeOK, OwnToken
  <2> QED
    BY <1>1, <1>2, <1>3, <1>4, <2>1, Facts, ReturnStep DEF TokenFits
<1>5. CASE n # call[c].max
  <2>1. ASSUME n = 0
        PROVE  \A q \in Producer : q > call[c].ptr - 1 \/ q = call[c].best => owed[c][q] = 0
    <3>1. owed[c][call[c].ptr] = 0
      BY <1>1, <1>2, <1>3, <2>1, Taking
    <3>2. ASSUME NEW q \in Producer, q > call[c].ptr \/ q = call[c].best
          PROVE  owed[c][q] = 0
      <4>1. q \in Passed(c)
        BY <1>1, <3>2 DEF Passed, At
      <4> QED
        BY <4>1, Facts DEF OwedIsThere
    <3> QED
      BY <3>1, <3>2, <1>1, Facts
  <2>2. call[c].ptr - 1 \in 0 .. producerListTail
    BY <1>1, Facts
  <2> QED
    BY <1>1, <1>2, <1>3, <1>5, <2>1, <2>2, WalkOnStep
<1> QED
  BY <1>4, <1>5

--------------------------------------------------------------------------------
(* Consumers with a token.                                                 *)
LEMMA TokenUpdates ==
  ASSUME NEW t \in Token
  PROVE  /\ \A p \in Producer : [t EXCEPT !.desiredProducer = p] \in Token
         /\ \A p \in Producer : [t EXCEPT !.currentProducer = p] \in Token
         /\ \A g \in Offset : [t EXCEPT !.lastKnownGlobalOffset = g] \in Token
         /\ \A n \in Nat : [t EXCEPT !.itemsConsumedFromCurrent = n] \in Token
<1>1. ASSUME NEW p \in Producer
      PROVE  /\ [t EXCEPT !.desiredProducer = p] \in Token
             /\ [t EXCEPT !.currentProducer = p] \in Token
  <2>1. p \in 0 .. MaxProducers
    BY Constants
  <2>2. [t EXCEPT !.desiredProducer = p] \in Token
    BY <2>1 DEF Token
  <2>3. [t EXCEPT !.currentProducer = p] \in Token
    BY <2>1 DEF Token
  <2> QED
    BY <2>2, <2>3
<1>2. \A g \in Offset : [t EXCEPT !.lastKnownGlobalOffset = g] \in Token
  BY DEF Token, Offset
<1>3. \A n \in Nat : [t EXCEPT !.itemsConsumedFromCurrent = n] \in Token
  BY DEF Token
<1> QED
  BY <1>1, <1>2, <1>3

LEMMA VisitGoes ==
  ASSUME Inv, NEW c \in Consumers, NEW p \in Producer,
         NEW where \in {"best", "walk", "current", "seek"}, NEW k \in Call, NEW o,
         Visit(c, p, where, k, o)
  PROVE  call'[c].pc = where
<1>1. call'[c] = [k EXCEPT !.pc = where, !.ptr = p, !.seen = tailIndex[p]]
  BY DEF Visit, Inv, TypeOK
<1>2. tailIndex[p] \in Nat
  BY Facts
<1> QED
  BY <1>1, <1>2 DEF Call

LEMMA MakeTokenStep ==
  ASSUME Inv, NEW c \in Consumers, MakeToken(c), UNCHANGED tokenUsers
  PROVE  Inv'
<1>1. /\ UNCHANGED <<listVars, tailIndex, headIndex, globalExplicitConsumerOffset, callVars>>
      /\ nextExplicitConsumerId \in 0 .. MaxTokens - 1
      /\ nextExplicitConsumerId' = nextExplicitConsumerId + 1
      /\ At(c, "idle") /\ uneven' \subseteq Consumers
      /\ token' = [token EXCEPT ![c] = NewToken(nextExplicitConsumerId)]
  BY Constants DEF MakeToken, Inv, TypeOK
<1>2. NewToken(nextExplicitConsumerId) \in Token
  BY <1>1, Constants DEF NewToken, Token
<1>3. OwnToken(c) /\ token'[c] = NewToken(nextExplicitConsumerId)
  BY <1>1, <1>2, Facts DEF OwnToken
<1>4. SharedOK
  BY <1>1, Constants DEF SharedOK, Inv, TypeOK, listVars, Offset
<1>5. call' = call /\ met' = met /\ owed' = owed /\ headIndex' = headIndex
  BY <1>1 DEF callVars
<1>6. Alone(c)
  BY <1>3, <1>5 DEF Alone, OwnToken, Keeps, Inv, TypeOK, Debts
<1>7. TokenFits(c)'
  BY <1>1, <1>3, <1>5, Facts DEF TokenFits, NewToken, At, listVars
<1>8. Locals(c)'
  BY <1>1, <1>5, Facts DEF Locals, Scoring, InDequeue, At, listVars
<1>9. OwedIsThere(c)'
  <2>1. Passed(c)' = {}
    BY <1>1, <1>5 DEF Passed, Scoring, At
  <2> QED
    BY <1>1, <1>5, <2>1, Facts DEF OwedIsThere, InDequeue, At
<1> QED
  BY <1>4, <1>6, <1>7, <1>8, <1>9, AloneSuffices DEF Fits

LEMMA TryDequeueTokenStep ==
  ASSUME Inv, NEW c \in Consumers, NEW n \in {1} \cup Bulks, TryDequeueToken(c, n),
         UNCHANGED tokenUsers
  PROVE  Inv'
<1> DEFINE k == [Idle EXCEPT !.max = n]
<1>1. /\ UNCHANGED <<listVars, tailIndex, headIndex, offsetVars, token, uneven, tokenUsers>>
      /\ producerListTail \in 1 .. MaxProducers /\ n \in Amounts /\ n >= 1
  BY Facts, Constants, AmountsAreNat, BulksAreBulks DEF TryDequeueToken, Begins
<1>2. SharedOK /\ OwnToken(c)
  BY <1>1, Facts DEF SharedOK, OwnToken, Inv, TypeOK, listVars, offsetVars, Offset
<1>3. producerListTail' = producerListTail /\ token' = token /\ tailIndex' = tailIndex
      /\ headIndex' = headIndex
  BY <1>1 DEF listVars
<1>4. owed' = AllThere(c) /\ UNCHANGED met
  BY DEF TryDequeueToken
<1>5. CASE Becomes(c, [Idle EXCEPT !.pc = "tail", !.max = n])
  <2>1. [[Idle EXCEPT !.pc = "tail"] EXCEPT !.max = n] \in Call
    BY <1>1, IdleFits, CallUpdates
  <2>2. Alone(c) /\ call'[c] = [Idle EXCEPT !.pc = "tail", !.max = n]
    BY <1>1, <1>4, <1>5, <2>1, AllThereFits, LocalStep
  <2>3. call'[c].pc = "tail" /\ call'[c].max = n /\ call'[c].count = 0
    BY <2>2 DEF Idle
  <2>4. Locals(c)'
    BY <1>1, <1>3, <2>3 DEF Locals, Scoring, InDequeue, At
  <2>5. TokenFits(c)'
    BY <1>3, <2>3, Facts DEF TokenFits, At
  <2>6. OwedIsThere(c)'
    <3>1. Passed(c)' = {}
      BY <2>3 DEF Passed, Scoring, At
    <3> QED
      BY <1>3, <1>4, <2>3, <3>1, AllThereFits DEF OwedIsThere, InDequeue, At
  <2> QED
    BY <1>2, <2>2, <2>4, <2>5, <2>6, AloneSuffices DEF Fits
<1>6. CASE /\ token[c].desiredProducer # Null
           /\ Becomes(c, [Idle EXCEPT !.pc = "enter", !.ptr = token[c].currentProducer, !.max = n])
  <2> DEFINE p == token[c].currentProducer
  <2>1. p \in 1 .. producerListTail /\ p \in Producer
    BY <1>1, <1>6, Facts, Constants DEF TokenFits, Token
  <2>2. [Idle EXCEPT !.pc = "enter", !.ptr = p, !.max = n] \in Call
    <3>1. [Idle EXCEPT !.pc = "enter"] \in Call
      BY IdleFits, CallUpdates
    <3>2. [[Idle EXCEPT !.pc = "enter"] EXCEPT !.ptr = p] \in Call
      BY <2>1, <3>1, CallUpdates
    <3>3. [[[Idle EXCEPT !.pc = "enter"] EXCEPT !.ptr = p] EXCEPT !.max = n] \in Call
      BY <1>1, <3>2, CallUpdates
    <3> QED
      BY <3>3
  <2>3. Alone(c) /\ call'[c] = [Idle EXCEPT !.pc = "enter", !.ptr = p, !.max = n]
    BY <1>1, <1>4, <1>6, <2>2, AllThereFits, LocalStep
  <2>4. /\ call'[c].pc = "enter" /\ call'[c].max = n /\ call'[c].count = 0
        /\ call'[c].ptr = p
    BY <2>3 DEF Idle
  <2>5. Locals(c)'
    BY <1>1, <1>3, <2>1, <2>4 DEF Locals, Scoring, InDequeue, At
  <2>6. TokenFits(c)'
    BY <1>3, <1>6, <2>4, Facts DEF TokenFits, At
  <2>7. OwedIsThere(c)'
    <3>1. Passed(c)' = {}
      BY <2>4 DEF Passed, Scoring, At
    <3> QED
      BY <1>3, <1>4, <2>4, <3>1, AllThereFits DEF OwedIsThere, InDequeue, At
  <2> QED
    BY <1>2, <2>3, <2>5, <2>6, <2>7, AloneSuffices DEF Fits
<1> QED
  BY <1>5, <1>6 DEF TryDequeueToken

LEMMA LoadTailStep ==
  ASSUME Inv, NEW c \in Consumers, LoadTail(c), UNCHANGED tokenUsers
  PROVE  Inv'
<1>1. UNCHANGED <<listVars, tailIndex, headIndex, offsetVars, token, met, owed, uneven, tokenUsers>>
  BY DEF LoadTail
<1>2. [[call[c] EXCEPT !.pc = "count"] EXCEPT !.tail = producerListTail] \in Call
  <2>1. [call[c] EXCEPT !.pc = "count"] \in Call
    BY Facts, CallUpdates
  <2>2. producerListTail \in Producer
    BY Facts, Constants DEF LoadTail, Locals
  <2> QED
    BY <2>1, <2>2, CallUpdates
<1>3. /\ SharedOK /\ Alone(c)
      /\ call'[c] = [call[c] EXCEPT !.pc = "count", !.tail = producerListTail]
  BY <1>1, <1>2, Facts, LocalStep DEF LoadTail
<1>4. /\ call'[c].pc = "count" /\ call'[c].tail = producerListTail
      /\ call'[c].max = call[c].max /\ call'[c].count = call[c].count
  BY <1>3, Facts DEF Call
<1>5. Locals(c)'
  BY <1>1, <1>4, Facts DEF Locals, Scoring, InDequeue, At, listVars, LoadTail
<1>6. TokenFits(c)'
  BY <1>1, <1>4, Facts DEF TokenFits, At, listVars
<1>7. OwedIsThere(c)'
  <2>1. Passed(c)' = {}
    BY <1>4 DEF Passed, Scoring, At
  <2> QED
    BY <1>1, <1>4, <2>1, Facts DEF OwedIsThere, InDequeue, At
<1> QED
  BY <1>3, <1>5, <1>6, <1>7, AloneSuffices DEF Fits

LEMMA LoadCountStep ==
  ASSUME Inv, NEW c \in Consumers, LoadCount(c), UNCHANGED tokenUsers
  PROVE  Inv'
<1>1. UNCHANGED <<listVars, tailIndex, headIndex, offsetVars, token, met, owed, uneven, tokenUsers>>
  BY DEF LoadCount
<1>2. /\ call[c].tail \in 1 .. producerListTail /\ producerCount \in 1 .. MaxProducers
      /\ call[c].max >= 1
  <2>1. producerCount \in 0 .. MaxProducers /\ producerListTail \in 0 .. producerCount
    BY DEF Inv, TypeOK
  <2>2. call[c].tail \in 1 .. producerListTail /\ call[c].max >= 1
    BY Facts DEF LoadCount, Locals, At
  <2> QED
    BY <2>1, <2>2, Constants
<1>3. [[call[c] EXCEPT !.pc = "offset"] EXCEPT !.prodCount = producerCount] \in Call
  <2>1. [call[c] EXCEPT !.pc = "offset"] \in Call
    BY Facts, CallUpdates
  <2>2. producerCount \in 0 .. MaxProducers
    BY <1>2
  <2> QED
    BY <2>1, <2>2, CallUpdates
<1>4. /\ SharedOK /\ Alone(c)
      /\ call'[c] = [call[c] EXCEPT !.pc = "offset", !.prodCount = producerCount]
  BY <1>1, <1>3, Facts, LocalStep DEF LoadCount
<1>5. /\ call'[c].pc = "offset" /\ call'[c].prodCount = producerCount
      /\ call'[c].tail = call[c].tail
      /\ call'[c].max = call[c].max /\ call'[c].count = call[c].count
  BY <1>4, Facts DEF Call
<1>6. Locals(c)'
  BY <1>1, <1>2, <1>5 DEF Locals, Scoring, InDequeue, At, listVars
<1>7. TokenFits(c)'
  BY <1>1, <1>5, Facts DEF TokenFits, At, listVars
<1>8. OwedIsThere(c)'
  <2>1. Passed(c)' = {}
    BY <1>5 DEF Passed, Scoring, At
  <2> QED
    BY <1>1, <1>5, <2>1, Facts DEF OwedIsThere, InDequeue, At
<1> QED
  BY <1>4, <1>6, <1>7, <1>8, AloneSuffices DEF Fits

(* The token's new place is on the list.                                   *)
LEMMA PlaceOnList ==
  ASSUME Inv, NEW c \in Consumers, At(c, "offset")
  PROVE  Place(c) \in 1 .. call[c].tail /\ call[c].tail \in 1 .. producerListTail
<1>1. /\ call[c].tail \in 1 .. producerListTail /\ producerListTail \in Nat
      /\ call[c].prodCount \in Nat \ {0}
      /\ token[c].desiredProducer \in Int /\ token[c].initialOffset \in Int
      /\ token[c].lastKnownGlobalOffset \in Int /\ globalExplicitConsumerOffset \in Int
  <2>1. call[c].tail \in 1 .. producerListTail /\ call[c].prodCount \in Nat \ {0}
        /\ producerListTail \in Nat
    BY Facts, Constants DEF Locals, At, Call
  <2>2. /\ token[c].desiredProducer \in Int /\ token[c].initialOffset \in Int
        /\ token[c].lastKnownGlobalOffset \in Int
    BY Facts DEF Token
  <2>3. globalExplicitConsumerOffset \in Int
    BY DEF Inv, TypeOK
  <2> QED
    BY <2>1, <2>2, <2>3
<1>2. \A x \in Int, n \in Nat \ {0} : x % n \in Int
  OBVIOUS
<1> DEFINE n == call[c].prodCount
           t == call[c].tail
           delta == (globalExplicitConsumerOffset - token[c].lastKnownGlobalOffset) % OffsetSize
           first == IF token[c].desiredProducer # Null THEN token[c].desiredProducer
                    ELSE AroundBy(t, n - 1 - (token[c].initialOffset % n), t)
<1>3. t \in Nat \ {0} /\ n \in Nat \ {0}
  BY <1>1
<1>4. delta \in Int /\ delta % n \in Int
  <2>1. globalExplicitConsumerOffset - token[c].lastKnownGlobalOffset \in Int
    BY <1>1
  <2>2. delta \in Int
    BY <2>1, <1>2, Constants
  <2> HIDE DEF delta, n
  <2> QED
    BY <2>2, <1>2, <1>3
<1>5. first \in Int
  <2>1. token[c].initialOffset % n \in Int
    BY <1>1, <1>2, <1>3
  <2>2. n - 1 - (token[c].initialOffset % n) \in Int
    BY <2>1, <1>3
  <2>3. AroundBy(t, n - 1 - (token[c].initialOffset % n), t) \in Int
    BY <2>2, <1>3, AroundByStays
  <2> QED
    BY <1>1, <2>3
<1>6. Place(c) = AroundBy(first, delta % n, t)
  BY DEF Place
<1> HIDE DEF n, t, delta, first
<1>7. Place(c) \in 1 .. t
  BY <1>3, <1>4, <1>5, <1>6, AroundByStays
<1> QED
  BY <1>1, <1>7 DEF t

LEMMA MoveTokenStep ==
  ASSUME Inv, NEW c \in Consumers, MoveToken(c), UNCHANGED tokenUsers
  PROVE  Inv'
<1> DEFINE p == Place(c)
           k == call[c]
<1>1. /\ UNCHANGED <<listVars, tailIndex, headIndex, offsetVars, tokenUsers, met, owed>>
      /\ At(c, "offset") /\ uneven' \subseteq Consumers
      /\ Becomes(c, [k EXCEPT !.pc = "enter", !.ptr = p])
  BY DEF MoveToken, Inv, TypeOK
<1>2. p \in 1 .. producerListTail /\ p \in Producer
  BY <1>1, PlaceOnList, Facts, Constants
<1>3. OwnToken(c) /\ token'[c].currentProducer = p /\ token'[c].desiredProducer = p
  <2> DEFINE s == [token[c] EXCEPT !.desiredProducer = p, !.currentProducer = p,
                     !.lastKnownGlobalOffset = globalExplicitConsumerOffset,
                     !.itemsConsumedFromCurrent = 0]
  <2>1. token' = [token EXCEPT ![c] = s]
    BY Facts DEF MoveToken
  <2>2. s \in Token /\ s.currentProducer = p /\ s.desiredProducer = p
    <3>1. globalExplicitConsumerOffset \in Offset
      BY DEF Inv, TypeOK, Offset
    <3>2. [token[c] EXCEPT !.desiredProducer = p] \in Token
      BY <1>2, Facts, TokenUpdates
    <3>3. [[token[c] EXCEPT !.desiredProducer = p] EXCEPT !.currentProducer = p] \in Token
      BY <1>2, <3>2, TokenUpdates
    <3>4. [[[token[c] EXCEPT !.desiredProducer = p] EXCEPT !.currentProducer = p]
              EXCEPT !.lastKnownGlobalOffset = globalExplicitConsumerOffset] \in Token
      BY <3>1, <3>3, TokenUpdates
    <3>5. s \in Token
      BY <3>4, TokenUpdates
    <3> HIDE DEF p
    <3>6. s.currentProducer = p /\ s.desiredProducer = p
      BY Facts DEF Token
    <3> QED
      BY <3>5, <3>6
  <2> HIDE DEF s
  <2> QED
    BY <2>1, <2>2, Facts DEF OwnToken
<1>4. SharedOK
  BY <1>1, Facts DEF SharedOK, Inv, TypeOK, listVars, offsetVars, Offset
<1>5. producerListTail' = producerListTail /\ headIndex' = headIndex
  BY <1>1 DEF listVars
<1>6. call' \in [Consumers -> Call] /\ call'[c] = [k EXCEPT !.pc = "enter", !.ptr = p]
      /\ \A d \in Consumers \ {c} : call'[d] = call[d]
  <2>1. [k EXCEPT !.pc = "enter"] \in Call
    BY Facts, CallUpdates
  <2>2. [[k EXCEPT !.pc = "enter"] EXCEPT !.ptr = p] \in Call
    BY <1>2, <2>1, CallUpdates
  <2>3. [k EXCEPT !.pc = "enter", !.ptr = p] \in Call
    BY <2>2
  <2> HIDE DEF p
  <2> QED
    BY <1>1, <2>3 DEF Becomes, Inv, TypeOK
<1>7. /\ call'[c].pc = "enter" /\ call'[c].ptr = p /\ call'[c].max = call[c].max
      /\ call'[c].count = call[c].count
  <2> HIDE DEF p
  <2> QED
    BY <1>6, Facts DEF Call
<1>8. Alone(c)
  <2>1. \A d \in Consumers \ {c} : Keeps(owed', d)
    BY <1>1 DEF Keeps
  <2> QED
    BY <1>1, <1>3, <1>6, <2>1, Facts DEF Alone, OwnToken, Inv, TypeOK
<1>9. Locals(c)'
  <2>1. call[c].max >= 1
    BY <1>1, Facts DEF Locals, At
  <2> QED
    BY <1>2, <1>5, <1>7, <2>1 DEF Locals, Scoring, InDequeue, At
<1>10. TokenFits(c)'
  BY <1>2, <1>3, <1>5, <1>7 DEF TokenFits, At
<1>11. OwedIsThere(c)'
  <2>1. Passed(c)' = {}
    BY <1>7 DEF Passed, Scoring, At
  <2> QED
    BY <1>1, <1>7, <2>1, Facts DEF OwedIsThere, InDequeue, At
<1> QED
  BY <1>4, <1>8, <1>9, <1>10, <1>11, AloneSuffices DEF Fits

LEMMA EnterCurrentStep ==
  ASSUME Inv, NEW c \in Consumers, EnterCurrent(c), UNCHANGED tokenUsers
  PROVE  Inv'
<1> DEFINE p == call[c].ptr
           k == call[c]
<1>1. /\ UNCHANGED <<listVars, tailIndex, headIndex, offsetVars, token, uneven, tokenUsers>>
      /\ At(c, "enter") /\ Visit(c, p, "current", k, owed)
  BY DEF EnterCurrent
<1>2. p \in 1 .. producerListTail /\ p \in Producer
  BY <1>1, Facts, Constants DEF Locals
<1>3. SharedOK /\ OwnToken(c)
  BY <1>1, Facts DEF SharedOK, OwnToken, Inv, TypeOK, listVars, offsetVars, Offset
<1>4. producerListTail' = producerListTail /\ headIndex' = headIndex /\ token' = token
  BY <1>1 DEF listVars
<1>5. call'[c].pc = "current"
  BY <1>1, <1>2, VisitGoes, Facts
<1>6. Alone(c) /\ OwedIsThere(c)' /\ call'[c].ptr = p /\ call'[c].max = call[c].max
  <2>1. \A d \in Consumers \ {c} : Keeps(owed, d)
    BY <1>4, OwedNow
  <2>2. \A q \in Producer : owed[c][q] # 0 => headIndex'[q] + owed[c][q] <= tailIndex[q]
    BY <1>4, Facts DEF OwedIsThere
  <2>3. k.count > 0 => owed[c] = NoElements
    BY Facts DEF OwedIsThere
  <2>4. \A q \in Passed(c)' : owed[c][q] = 0
    BY <1>5 DEF Passed, Scoring, At
  <2>5. k \in Call /\ owed \in Debts
    BY Facts
  <2> HIDE DEF p, k
  <2>6. Visit(c, p, "current", k, owed)
    BY <1>1
  <2>7. /\ Alone(c) /\ OwedIsThere(c)' /\ call'[c].ptr = p /\ call'[c].max = k.max
    BY <1>2, <1>3, <2>1, <2>2, <2>3, <2>4, <2>5, <2>6, Visiting
  <2> QED
    BY <2>7 DEF k
<1>7. Locals(c)'
  <2>1. call[c].max >= 1
    BY <1>1, Facts DEF Locals, At
  <2> QED
    BY <1>2, <1>4, <1>5, <1>6, <2>1 DEF Locals, Scoring, InDequeue, At
<1>8. TokenFits(c)'
  BY <1>1, <1>4, <1>5, <1>6, Facts DEF TokenFits, At
<1> QED
  BY <1>3, <1>6, <1>7, <1>8, AloneSuffices DEF Fits

(* A token's count advances.                                               *)
LEMMA Consumed ==
  ASSUME Inv, NEW c \in Consumers, NEW n \in Nat,
         token' = [token EXCEPT ![c].itemsConsumedFromCurrent = n]
  PROVE  /\ OwnToken(c)
         /\ token'[c].currentProducer = token[c].currentProducer
         /\ token'[c].desiredProducer = token[c].desiredProducer
         /\ token'[c].itemsConsumedFromCurrent = n
         /\ token'[c].lastKnownGlobalOffset = token[c].lastKnownGlobalOffset
<1>1. [token[c] EXCEPT !.itemsConsumedFromCurrent = n] \in Token
  BY Facts, TokenUpdates
<1>2. token' = [token EXCEPT ![c] = [token[c] EXCEPT !.itemsConsumedFromCurrent = n]]
  BY Facts
<1>3. OwnToken(c) /\ token'[c] = [token[c] EXCEPT !.itemsConsumedFromCurrent = n]
  BY <1>1, <1>2, Facts DEF OwnToken
<1> QED
  BY <1>3, Facts DEF Token

LEMMA AllFromCurrentStep ==
  ASSUME Inv, NEW c \in Consumers, AllFromCurrent(c), UNCHANGED tokenUsers
  PROVE  Inv'
<1> DEFINE n == call[c].max
           total == token[c].itemsConsumedFromCurrent + n
<1>1. /\ At(c, "current") /\ InDequeue(c) /\ Takes(c, n)
      /\ token' = [token EXCEPT ![c].itemsConsumedFromCurrent = total]
      /\ UNCHANGED <<listVars, tailIndex, offsetVars, uneven, tokenUsers>>
  BY DEF AllFromCurrent, InDequeue, At
<1>2. n \in Nat /\ n >= 1 /\ total \in Nat
  <2>1. n \in Nat /\ n >= 1
    BY <1>1, Facts, AmountsAreNat DEF Locals, At, Call
  <2>2. token[c].itemsConsumedFromCurrent \in Nat
    BY Facts DEF Token
  <2> QED
    BY <2>1, <2>2
<1>3. /\ OwnToken(c)
      /\ token'[c].currentProducer = token[c].currentProducer
      /\ token'[c].desiredProducer = token[c].desiredProducer
      /\ token[c].desiredProducer # Null
  <2> HIDE DEF total
  <2> QED
    BY <1>1, <1>2, Consumed, Facts DEF TokenFits, At
<1>4. uneven' \subseteq Consumers
  BY <1>1 DEF Inv, TypeOK
<1>5. CASE Return(c, n)
  <2> HIDE DEF n, total
  <2> QED
    BY <1>1, <1>2, <1>3, <1>4, <1>5, Facts, ReturnStep DEF TokenFits
<1>6. CASE /\ Becomes(c, [With(c, n) EXCEPT !.pc = "advance"])
           /\ owed' = Owed(c, n) /\ UNCHANGED met
  <2>1. SharedOK
    BY <1>1, <1>2, <1>4, Leaving
  <2>2. With(c, n) \in Call /\ With(c, n).count = call[c].count + n /\ call[c].count \in Nat
    <3>1. n <= call[c].max
      BY <1>2
    <3> HIDE DEF n
    <3> QED
      BY <1>2, <3>1, WithFits
  <2>3. [With(c, n) EXCEPT !.pc = "advance"] \in Call
    BY <2>2, CallUpdates
  <2>4. call'[c].pc = "advance" /\ call'[c].count = With(c, n).count
        /\ call' \in [Consumers -> Call] /\ \A d \in Consumers \ {c} : call'[d] = call[d]
    <3>1. /\ call' \in [Consumers -> Call] /\ \A d \in Consumers \ {c} : call'[d] = call[d]
          /\ call'[c] = [With(c, n) EXCEPT !.pc = "advance"]
      BY <1>6, <2>3 DEF Becomes, Inv, TypeOK
    <3> HIDE DEF n
    <3> QED
      BY <2>2, <3>1 DEF Call
  <2>5. owed' \in Debts /\ owed'[c] = NoElements /\ \A d \in Consumers : Keeps(owed', d)
    <3> HIDE DEF n
    <3> QED
      BY <1>1, <1>2, <1>6, OwedAfter
  <2>6. Alone(c)
    BY <1>3, <1>6, <2>4, <2>5 DEF Alone, OwnToken, Inv, TypeOK
  <2>7. call'[c].count >= 1
    BY <1>2, <2>2, <2>4
  <2>8. Locals(c)'
    BY <2>4, <2>7 DEF Locals, Scoring, InDequeue, At
  <2>9. TokenFits(c)'
    BY <1>1, <1>3, <2>4, Facts DEF TokenFits, At, listVars
  <2>10. OwedIsThere(c)'
    <3>1. Passed(c)' = {}
      BY <2>4 DEF Passed, Scoring, At
    <3> QED
      BY <2>4, <2>5, <3>1 DEF OwedIsThere, InDequeue, At, NoElements
  <2> QED
    BY <2>1, <2>6, <2>8, <2>9, <2>10, AloneSuffices DEF Fits
<1> QED
  BY <1>5, <1>6 DEF AllFromCurrent

LEMMA AdvanceStep ==
  ASSUME Inv, NEW c \in Consumers, Advance(c), UNCHANGED tokenUsers
  PROVE  Inv'
<1>1. /\ UNCHANGED <<listVars, tailIndex, headIndex, nextExplicitConsumerId, token, uneven>>
      /\ Return(c, 0)
  BY DEF Advance
<1>2. globalExplicitConsumerOffset' \in Offset
  <2>1. globalExplicitConsumerOffset \in Offset
    BY DEF Inv, TypeOK, Offset
  <2> QED
    BY <2>1, NextOffset, Constants DEF Offset, Advance
<1>3. SharedOK /\ OwnToken(c)
  BY <1>1, <1>2, Facts DEF SharedOK, OwnToken, Inv, TypeOK, listVars
<1>4. Alone(c) /\ Locals(c)' /\ OwedIsThere(c)' /\ call'[c] = Idle
  BY <1>1, <1>3, OwedNow, Returning
<1>5. TokenFits(c)'
  BY <1>1, <1>4, Facts DEF TokenFits, At, Idle, listVars
<1> QED
  BY <1>3, <1>4, <1>5, AloneSuffices DEF Fits

(* The search around the list t, from cur: what it has passed at p.        *)
Behind(p, cur, t) ==
  {q \in Producer : \/ q > t
                    \/ p < cur /\ q > p /\ q <= cur
                    \/ p > cur /\ (q > p \/ q <= cur)}

LEMMA AroundStays ==
  ASSUME NEW t \in Nat, NEW p \in 1 .. t
  PROVE  Around(p, t) \in 1 .. t
BY DEF Around

LEMMA SeekOnStep ==
  ASSUME Inv, NEW c \in Consumers, NEW n \in Nat, InDequeue(c), Takes(c, n), n < call[c].max,
         UNCHANGED <<listVars, tailIndex, offsetVars, tokenUsers>>,
         uneven' \subseteq Consumers, OwnToken(c),
         NEW t \in 1 .. producerListTail, NEW cur \in 1 .. t,
         call[c].ptr \in 1 .. t,
         token'[c].currentProducer = cur, token'[c].desiredProducer # Null,
         SeekOn(c, n, cur, t),
         n = 0 => \A q \in Behind(Around(call[c].ptr, t), cur, t) : owed[c][q] = 0
  PROVE  Inv'
<1> DEFINE p == Around(call[c].ptr, t)
           k == [With(c, n) EXCEPT !.tail = t]
<1>1. /\ producerListTail \in Nat /\ producerListTail <= MaxProducers /\ t \in Nat
      /\ p \in 1 .. t /\ p \in Producer /\ t \in Producer /\ cur \in Producer
      /\ producerListTail' = producerListTail
  <2>1. producerListTail \in Nat /\ producerListTail <= MaxProducers /\ t \in Nat
    BY Facts, Constants
  <2>2. p \in 1 .. t
    BY <2>1, AroundStays
  <2> QED
    BY <2>1, <2>2, Constants DEF listVars
<1>2. CASE p = cur
  <2>1. Return(c, n)
    BY <1>2 DEF SeekOn
  <2>2. token'[c].currentProducer <= producerListTail /\ token'[c].currentProducer # Null
    BY <1>1
  <2> QED
    BY <2>1, <2>2, ReturnStep
<1>3. CASE p # cur
  <2>1. Enter(c, n, p, "seek", k)
    BY <1>3 DEF SeekOn
  <2>2. k \in Call /\ k.count = call[c].count + n /\ k.max >= 1 /\ k.tail = t
    <3>1. n <= call[c].max
      BY DEF Takes
    <3>2. /\ With(c, n) \in Call /\ With(c, n).max = call[c].max - n /\ call[c].max \in Nat
          /\ With(c, n).count = call[c].count + n
      BY <3>1, WithFits
    <3>3. k \in Call
      BY <1>1, <3>2, CallUpdates
    <3>4. k.count = With(c, n).count /\ k.max = With(c, n).max /\ k.tail = t
      BY <3>2 DEF Call
    <3> HIDE DEF k
    <3> QED
      BY <3>2, <3>3, <3>4
  <2>3. call'[c].pc = "seek" /\ call'[c].ptr = p /\ call'[c].tail = k.tail
    <3>1. Visit(c, p, "seek", k, Owed(c, n))
      BY <2>1 DEF Enter
    <3>2. call'[c] = [k EXCEPT !.pc = "seek", !.ptr = p, !.seen = tailIndex[p]]
      BY <3>1 DEF Visit, Inv, TypeOK
    <3>3. tailIndex[p] \in Nat
      BY <1>1, Facts
    <3> HIDE DEF p, k
    <3> QED
      BY <1>1, <2>2, <3>2, <3>3 DEF Call
  <2>4. n = 0 => \A q \in Passed(c)' : owed[c][q] = 0
    <3>1. Passed(c)' \subseteq Behind(p, cur, t)
      <4> HIDE DEF p, k
      <4> QED
        BY <2>2, <2>3 DEF Passed, Behind, Scoring, At
    <3> QED
      BY <3>1
  <2>5. SharedOK
    BY Leaving
  <2>6. /\ Alone(c) /\ OwedIsThere(c)'
        /\ call'[c].pc = "seek" /\ call'[c].ptr = p /\ call'[c].max = k.max
        /\ call'[c].tail = k.tail
    <3> HIDE DEF p, k
    <3> QED
      BY <1>1, <2>1, <2>2, <2>4, <2>5, Entering
  <2>7. Locals(c)'
    <3> HIDE DEF p, k
    <3> QED
      BY <1>1, <2>2, <2>6 DEF Locals, Scoring, InDequeue, At
  <2>8. TokenFits(c)'
    <3> HIDE DEF p, k
    <3> QED
      BY <1>1, <1>3, <2>2, <2>6 DEF TokenFits, At
  <2> QED
    BY <2>5, <2>6, <2>7, <2>8, AloneSuffices DEF Fits
<1> QED
  BY <1>2, <1>3

(* From the current stream: nothing is owed there if it gave nothing, nor  *)
(* beyond the tail.                                                        *)
LEMMA BehindCurrent ==
  ASSUME Inv, NEW c \in Consumers, At(c, "current"), owed[c][call[c].ptr] = 0,
         call[c].ptr \in 1 .. producerListTail
  PROVE  \A q \in Behind(Around(call[c].ptr, producerListTail), call[c].ptr, producerListTail) :
           owed[c][q] = 0
<1> DEFINE cur == call[c].ptr
           t == producerListTail
<1>1. SUFFICES ASSUME NEW q \in Behind(Around(cur, t), cur, t) PROVE owed[c][q] = 0
  OBVIOUS
<1>2. t \in Nat /\ q \in Producer
  BY Facts DEF Behind
<1>3. q > t \/ q = cur
  BY <1>1, <1>2 DEF Behind, Around
<1>4. q > t => owed[c][q] = 0
  BY <1>2, Facts DEF Inv, OnList, OwedIsThere
<1> QED
  BY <1>3, <1>4

LEMMA NotAllFromCurrentStep ==
  ASSUME Inv, NEW c \in Consumers, NotAllFromCurrent(c), UNCHANGED tokenUsers
  PROVE  Inv'
<1>1. PICK n \in Amounts :
        /\ n < call[c].max /\ Takes(c, n)
        /\ token' = [token EXCEPT ![c].itemsConsumedFromCurrent = @ + n]
        /\ uneven' = IF n = 0 THEN uneven ELSE uneven \cup {c}
        /\ SeekOn(c, n, call[c].ptr, producerListTail)
  BY DEF NotAllFromCurrent
<1>2. /\ At(c, "current") /\ InDequeue(c) /\ n \in Nat
      /\ UNCHANGED <<listVars, tailIndex, offsetVars, tokenUsers>>
      /\ call[c].ptr \in 1 .. producerListTail
      /\ call[c].ptr = token[c].currentProducer /\ token[c].desiredProducer # Null
      /\ uneven' \subseteq Consumers
  BY <1>1, Facts, AmountsAreNat
  DEF NotAllFromCurrent, InDequeue, At, Locals, TokenFits, Inv, TypeOK
<1>3. /\ OwnToken(c)
      /\ token'[c].currentProducer = token[c].currentProducer
      /\ token'[c].desiredProducer = token[c].desiredProducer
  <2>1. token' = [token EXCEPT ![c].itemsConsumedFromCurrent
                                 = token[c].itemsConsumedFromCurrent + n]
    BY <1>1
  <2>2. token[c].itemsConsumedFromCurrent + n \in Nat
    BY <1>2, Facts DEF Token
  <2> QED
    BY <2>1, <2>2, Consumed
<1>4. ASSUME n = 0
      PROVE  \A q \in Behind(Around(call[c].ptr, producerListTail), call[c].ptr,
                             producerListTail) : owed[c][q] = 0
  BY <1>1, <1>2, <1>4, Taking, BehindCurrent
<1>5. producerListTail \in 1 .. producerListTail
  BY <1>2, Facts
<1> QED
  BY <1>1, <1>2, <1>3, <1>4, <1>5, SeekOnStep

(* From one stream to the next.                                            *)
LEMMA BehindNext ==
  ASSUME Inv, NEW c \in Consumers, At(c, "seek"), owed[c][call[c].ptr] = 0
  PROVE  \A q \in Behind(Around(call[c].ptr, call[c].tail), token[c].currentProducer,
                         call[c].tail) : owed[c][q] = 0
<1> DEFINE p == call[c].ptr
           t == call[c].tail
           cur == token[c].currentProducer
<1>1. p \in Nat /\ t \in 1 .. producerListTail /\ producerListTail \in Nat
      /\ cur \in Nat /\ cur <= t /\ p # cur
  BY Facts DEF Locals, TokenFits, InDequeue, At, Call, Token
<1>2. SUFFICES ASSUME NEW q \in Behind(Around(p, t), cur, t) PROVE owed[c][q] = 0
  OBVIOUS
<1>3. q \in Producer
  BY DEF Behind
<1>4. q = p \/ q \in Passed(c)
  <2>1. \/ q > t
        \/ p < cur /\ q > p /\ q <= cur
        \/ p > cur /\ (q > p \/ q <= cur)
        \/ q = p
    <3>1. q \in Behind(Around(p, t), cur, t)
      BY <1>2
    <3> HIDE DEF p, t, cur
    <3> QED
      BY <1>1, <1>3, <3>1 DEF Behind, Around
  <2> QED
    BY <1>3, <2>1 DEF Passed, At
<1> QED
  BY <1>4, Facts DEF OwedIsThere

LEMMA SeekStep ==
  ASSUME Inv, NEW c \in Consumers, Seek(c), UNCHANGED tokenUsers
  PROVE  Inv'
<1>1. PICK n \in Amounts :
        /\ Takes(c, n)
        /\ token' = IF n = 0 THEN token
                    ELSE [token EXCEPT ![c].currentProducer = call[c].ptr,
                                       ![c].itemsConsumedFromCurrent = n]
        /\ uneven' = IF n = 0 THEN uneven
                     ELSE IF n < Quota THEN uneven \ {c} ELSE uneven \cup {c}
        /\ IF n = call[c].max THEN Return(c, n)
           ELSE SeekOn(c, n, token'[c].currentProducer, call[c].tail)
  BY DEF Seek
<1>2. /\ At(c, "seek") /\ InDequeue(c) /\ n \in Nat
      /\ UNCHANGED <<listVars, tailIndex, offsetVars, tokenUsers>>
      /\ uneven' \subseteq Consumers
  BY <1>1, AmountsAreNat DEF Seek, InDequeue, At, Inv, TypeOK
<1>3. /\ call[c].ptr \in 1 .. call[c].tail /\ call[c].tail \in 1 .. producerListTail
      /\ producerListTail \in Nat /\ producerListTail <= MaxProducers
      /\ call[c].max \in Nat /\ n <= call[c].max
  <2>1. /\ call[c].ptr \in 1 .. producerListTail /\ call[c].tail \in 1 .. producerListTail
        /\ call[c].ptr <= call[c].tail
    BY <1>2, Facts DEF Locals, At
  <2>2. call[c].max \in Nat
    BY Facts, AmountsAreNat DEF Call
  <2> QED
    BY <1>1, <2>1, <2>2, Facts DEF Takes
<1>4. /\ token[c].desiredProducer # Null /\ token[c].currentProducer \in 1 .. call[c].tail
  BY <1>2, <1>3, Facts DEF TokenFits, At, Token
<1>5. /\ OwnToken(c) /\ token'[c].desiredProducer # Null
      /\ token'[c].currentProducer = IF n = 0 THEN token[c].currentProducer ELSE call[c].ptr
  <2>1. CASE n = 0
    BY <1>1, <1>4, <2>1, Facts DEF OwnToken
  <2>2. CASE n # 0
    <3> DEFINE s == [token[c] EXCEPT !.currentProducer = call[c].ptr,
                                     !.itemsConsumedFromCurrent = n]
    <3>1. call[c].ptr \in Producer
      BY <1>3, Constants
    <3>2. s \in Token
      <4>1. [token[c] EXCEPT !.currentProducer = call[c].ptr] \in Token
        BY <3>1, Facts, TokenUpdates
      <4> QED
        BY <1>2, <4>1, TokenUpdates
    <3>3. token' = [token EXCEPT ![c] = s]
      BY <1>1, <2>2
    <3>4. s.desiredProducer = token[c].desiredProducer /\ s.currentProducer = call[c].ptr
      BY Facts DEF Token
    <3> HIDE DEF s
    <3> QED
      BY <1>4, <2>2, <3>2, <3>3, <3>4, Facts DEF OwnToken
  <2> QED
    BY <2>1, <2>2
<1>6. CASE n = call[c].max
  <2>1. token'[c].currentProducer <= producerListTail /\ token'[c].currentProducer # Null
    BY <1>3, <1>4, <1>5
  <2> QED
    BY <1>1, <1>2, <1>5, <1>6, <2>1, ReturnStep
<1>7. CASE n # call[c].max
  <2>1. token'[c].currentProducer \in 1 .. call[c].tail
    BY <1>3, <1>4, <1>5
  <2>2. ASSUME n = 0
        PROVE  \A q \in Behind(Around(call[c].ptr, call[c].tail), token'[c].currentProducer,
                               call[c].tail) : owed[c][q] = 0
    BY <1>1, <1>2, <1>5, <2>2, Taking, BehindNext
  <2>3. n < call[c].max
    BY <1>2, <1>3, <1>7
  <2> QED
    BY <1>1, <1>2, <1>3, <1>5, <1>7, <2>1, <2>2, <2>3, SeekOnStep
<1> QED
  BY <1>6, <1>7

--------------------------------------------------------------------------------
(* The invariant.                                                          *)
LEMMA InitInv == Init => Inv
<1> SUFFICES ASSUME Init PROVE Inv
  OBVIOUS
<1>1. NoToken \in Token
  BY Constants DEF NoToken, NewToken, Token
<1>2. TypeOK
  <2>1. NoElements \in [Producer -> Index]
    BY DEF NoElements
  <2>2. producerListTail = 0 /\ producerCount = 0 /\ nextExplicitConsumerId = 0
    BY DEF Init
  <2>3. \A p \in Producer : headIndex[p] <= tailIndex[p]
    BY DEF Init, NoElements
  <2>4. \A c \in Consumers : token[c].currentProducer <= producerListTail
    BY DEF Init, NoToken, NewToken
  <2>5. globalExplicitConsumerOffset \in 0 .. OffsetSize - 1 /\ tokenUsers \in TokenUsers
    BY OffsetsFit DEF Init
  <2> QED
    BY <1>1, <2>1, <2>2, <2>3, <2>4, <2>5, IdleFits, Constants DEF Init, TypeOK
<1>3. OnList
  BY DEF Init, OnList, NoElements
<1>4. ASSUME NEW c \in Consumers PROVE Fits(c)
  <2>1. call[c] = Idle /\ token[c] = NoToken /\ owed[c] = NoElements /\ producerListTail = 0
    BY DEF Init
  <2>2. Locals(c)
    BY <2>1 DEF Locals, Scoring, InDequeue, At, Idle
  <2>3. TokenFits(c)
    BY <2>1 DEF TokenFits, At, Idle, NoToken, NewToken
  <2>4. OwedIsThere(c)
    <3>1. Passed(c) = {}
      BY <2>1 DEF Passed, Scoring, At, Idle
    <3> QED
      BY <2>1, <3>1 DEF OwedIsThere, InDequeue, At, Idle, NoElements
  <2> QED
    BY <2>2, <2>3, <2>4 DEF Fits
<1> QED
  BY <1>2, <1>3, <1>4 DEF Inv

LEMMA DequeueStep ==
  ASSUME Inv, NEW c \in Consumers, Dequeue(c), UNCHANGED tokenUsers
  PROVE  Inv'
<1>1. CASE TryDequeue(c) \/ ScoreTail(c) \/ ScoreHead(c) \/ TryBest(c) \/ Walk(c)
  BY <1>1, TryDequeueStep, ScoreTailStep, ScoreHeadStep, TryBestStep, WalkStep
<1>2. CASE \E n \in {1} \cup Bulks : TryDequeueBulk(c, n) \/ TryDequeueToken(c, n)
  BY <1>2, TryDequeueBulkStep, TryDequeueTokenStep
<1>3. CASE LoadTail(c) \/ LoadCount(c) \/ MoveToken(c) \/ EnterCurrent(c)
  BY <1>3, LoadTailStep, LoadCountStep, MoveTokenStep, EnterCurrentStep
<1>4. CASE AllFromCurrent(c) \/ Advance(c) \/ NotAllFromCurrent(c) \/ Seek(c)
  BY <1>4, AllFromCurrentStep, AdvanceStep, NotAllFromCurrentStep, SeekStep
<1> QED
  BY <1>1, <1>2, <1>3, <1>4 DEF Dequeue

LEMMA NextInv == Inv /\ [Next]_vars => Inv'
<1> SUFFICES ASSUME Inv, [Next]_vars PROVE Inv'
  OBVIOUS
<1>1. CASE Next
  <2>1. UNCHANGED tokenUsers
    BY <1>1 DEF Next
  <2>2. CASE CountProducer \/ LinkProducer \/ \E p \in Producer : Enqueue(p)
    BY <2>1, <2>2, ProducersStep
  <2>3. CASE \E c \in Consumers : MakeToken(c) \/ Dequeue(c)
    BY <2>1, <2>3, MakeTokenStep, DequeueStep
  <2> QED
    BY <1>1, <2>2, <2>3 DEF Next
<1>2. CASE UNCHANGED vars
  BY <1>2 DEF vars, listVars, offsetVars, callVars, Inv, TypeOK, OnList, Fits, Locals,
     TokenFits, OwedIsThere, Passed, Scoring, InDequeue, At
<1> QED
  BY <1>1, <1>2

THEOREM Invariance == Spec => []Inv
<1> QED
  BY InitInv, NextInv, PTL DEF Spec

(***************************************************************************)
(* Types: the places on the list, the offsets and the counts of the tokens *)
(* and the variables of the calls stay within their bounds.                *)
(***************************************************************************)
THEOREM TypeCorrect == Spec => []TypeOK
<1>1. Inv => TypeOK
  BY DEF Inv
<1> QED
  BY <1>1, Invariance, PTL

--------------------------------------------------------------------------------
(* Who returns with nothing has been at every stream.                      *)
LEMMA OthersCall ==
  ASSUME Inv, NEW c \in Consumers, NEW d \in Consumers \ {c}, Dequeue(d)
  PROVE  call'[c] = call[c]
<1>1. call \in [Consumers -> Call]
  BY DEF Inv, TypeOK
<1>2. \A k : Becomes(d, k) => call'[c] = call[c]
  BY <1>1 DEF Becomes
<1>3. \A p, where, k, o : Visit(d, p, where, k, o) => call'[c] = call[c]
  BY <1>1 DEF Visit
<1>4. \A n : Return(d, n) => call'[c] = call[c]
  BY <1>1 DEF Return
<1>5. \A n, p : WalkOn(d, n, p) => call'[c] = call[c]
  BY <1>3, <1>4 DEF WalkOn, Enter
<1>6. \A n, cur, t : SeekOn(d, n, cur, t) => call'[c] = call[c]
  BY <1>3, <1>4 DEF SeekOn, Enter
<1>7. CASE TryDequeue(d) \/ ScoreTail(d) \/ ScoreHead(d) \/ TryBest(d) \/ Walk(d)
  <2>1. CASE TryDequeue(d) \/ ScoreTail(d)
    BY <1>2, <2>1 DEF TryDequeue, ScoreTail
  <2>2. CASE ScoreHead(d)
    BY <1>2, <1>3, <1>4, <2>2 DEF ScoreHead, Enter
  <2>3. CASE TryBest(d) \/ Walk(d)
    BY <1>4, <1>5, <2>3 DEF TryBest, Walk
  <2> QED
    BY <1>7, <2>1, <2>2, <2>3
<1>8. CASE \E n \in {1} \cup Bulks : TryDequeueBulk(d, n) \/ TryDequeueToken(d, n)
  BY <1>2, <1>3, <1>8 DEF TryDequeueBulk, TryDequeueToken
<1>9. CASE LoadTail(d) \/ LoadCount(d) \/ MoveToken(d) \/ EnterCurrent(d)
  BY <1>2, <1>3, <1>9 DEF LoadTail, LoadCount, MoveToken, EnterCurrent
<1>10. CASE AllFromCurrent(d) \/ Advance(d) \/ NotAllFromCurrent(d) \/ Seek(d)
  <2>1. CASE AllFromCurrent(d)
    BY <1>2, <1>4, <2>1 DEF AllFromCurrent
  <2>2. CASE Advance(d)
    BY <1>4, <2>2 DEF Advance
  <2>3. CASE NotAllFromCurrent(d) \/ Seek(d)
    BY <1>4, <1>6, <2>3 DEF NotAllFromCurrent, Seek
  <2> QED
    BY <1>10, <2>1, <2>2, <2>3
<1> QED
  BY <1>7, <1>8, <1>9, <1>10 DEF Dequeue

LEMMA AllZero ==
  ASSUME Inv, NEW c \in Consumers, \A p \in Producer : owed[c][p] = 0
  PROVE  owed[c] = NoElements
<1>1. owed[c] \in [Producer -> Index]
  BY DEF Inv, TypeOK
<1> QED
  BY <1>1 DEF NoElements

LEMMA ScoreReturns ==
  ASSUME Inv, NEW c \in Consumers, ScoreHead(c), call'[c].pc = "idle"
  PROVE  owed[c] = NoElements
<1> DEFINE k == Scored(c)
<1>1. At(c, "size") /\ k \in Call /\ k.ptr = call[c].ptr /\ call[c].ptr \in Producer
  BY ScoredFits, SizeSees DEF ScoreHead
<1>2. ~Becomes(c, [k EXCEPT !.pc = "score", !.ptr = k.ptr - 1])
  <2>1. SUFFICES ASSUME call'[c] = [k EXCEPT !.pc = "score", !.ptr = k.ptr - 1]
                 PROVE  FALSE
    BY DEF Becomes, Inv, TypeOK
  <2> HIDE DEF k
  <2> QED
    BY <1>1, <2>1 DEF Call
<1>3. k.nonEmptyCount = 0
  <2>1. SUFFICES ASSUME k.nonEmptyCount # 0, Enter(c, 0, k.best, "best", k) PROVE FALSE
    BY <1>2 DEF ScoreHead
  <2>2. k.best \in Producer
    BY <1>1, <2>1, ScoredFits, Facts, Constants
  <2>3. call'[c].pc = "best"
    <3> HIDE DEF k
    <3> QED
      BY <1>1, <2>1, <2>2, VisitGoes DEF Enter
  <2> QED
    BY <2>3
<1>4. k.ptr = 1
  BY <1>2, <1>3, SizesArePositive DEF ScoreHead
<1>5. call[c].nonEmptyCount = 0 /\ Size(c) = 0
  BY <1>1, <1>3, ScoredFits
<1>6. owed[c][call[c].ptr] = 0
  BY <1>1, <1>5, SizeSees
<1>7. ASSUME NEW p \in Producer, p > call[c].ptr PROVE owed[c][p] = 0
  <2>1. p \in Passed(c)
    BY <1>1, <1>5, <1>7 DEF Passed, Scoring, At
  <2> QED
    BY <2>1, Facts DEF OwedIsThere
<1>8. \A p \in Producer : owed[c][p] = 0
  BY <1>1, <1>4, <1>6, <1>7
<1> QED
  BY <1>8, AllZero

LEMMA WalkReturns ==
  ASSUME Inv, NEW c \in Consumers, InDequeue(c), Takes(c, 0), call'[c].pc = "idle",
         NEW p \in 0 .. producerListTail, WalkOn(c, 0, p),
         \A q \in Producer : q > p \/ q = call[c].best => owed[c][q] = 0
  PROVE  owed[c] = NoElements
<1> DEFINE r == IF p = call[c].best /\ p # Null THEN p - 1 ELSE p
<1>1. producerListTail \in 0 .. MaxProducers /\ MaxProducers \in Nat
  BY Facts, Constants
<1>2. r = Null
  <2>1. SUFFICES ASSUME r # Null, Enter(c, 0, r, "walk", With(c, 0)) PROVE FALSE
    BY DEF WalkOn
  <2>2. r \in Producer
    BY <1>1, <2>1
  <2>3. With(c, 0) \in Call
    BY WithFits DEF Takes
  <2> HIDE DEF r
  <2>4. call'[c].pc = "walk"
    BY <2>1, <2>2, <2>3, VisitGoes DEF Enter
  <2> QED
    BY <2>4
<1>3. \A q \in Producer : q > p \/ q = call[c].best
  BY <1>1, <1>2
<1> QED
  BY <1>3, AllZero

LEMMA SeekReturns ==
  ASSUME Inv, NEW c \in Consumers, InDequeue(c), Takes(c, 0), call'[c].pc = "idle",
         NEW t \in 1 .. producerListTail, NEW cur, SeekOn(c, 0, cur, t),
         call[c].ptr \in 1 .. t
  PROVE  Around(call[c].ptr, t) = cur
<1> DEFINE p == Around(call[c].ptr, t)
<1>1. SUFFICES ASSUME Enter(c, 0, p, "seek", [With(c, 0) EXCEPT !.tail = t]) PROVE FALSE
  BY DEF SeekOn
<1>2. producerListTail \in 0 .. MaxProducers /\ MaxProducers \in Nat /\ t \in Nat
  BY Facts, Constants
<1>3. p \in Producer /\ t \in Producer
  <2>1. p \in 1 .. t
    BY <1>2, AroundStays
  <2> QED
    BY <1>2, <2>1
<1>4. [With(c, 0) EXCEPT !.tail = t] \in Call
  BY <1>3, WithFits, CallUpdates DEF Takes
<1> HIDE DEF p
<1>5. call'[c].pc = "seek"
  BY <1>1, <1>3, <1>4, VisitGoes DEF Enter
<1> QED
  BY <1>5

LEMMA EmptyStep ==
  ASSUME Inv, NEW c \in Consumers, Dequeue(c), ReturnsEmpty(c)
  PROVE  owed[c] = NoElements
<1>1. ~At(c, "idle") /\ call[c].count = 0 /\ call'[c].pc = "idle" /\ headIndex' = headIndex
  BY DEF ReturnsEmpty
<1>2. ASSUME NEW n \in Amounts, Takes(c, n), InDequeue(c)
      PROVE  n = 0 /\ n \in Nat /\ owed[c][call[c].ptr] = 0 /\ call[c].max >= 1
  BY <1>1, <1>2, AmountsAreNat, Taking, Facts DEF Locals, InDequeue, At
<1>3. CASE TryDequeue(c) \/ \E n \in {1} \cup Bulks : TryDequeueBulk(c, n) \/ TryDequeueToken(c, n)
  BY <1>1, <1>3 DEF TryDequeue, TryDequeueBulk, TryDequeueToken, Begins
<1>16. CASE EnterCurrent(c)
  <2>1. call[c].ptr \in Producer
    BY <1>16, Facts, Constants DEF EnterCurrent, Locals
  <2>2. call'[c].pc = "current"
    BY <1>16, <2>1, VisitGoes, Facts DEF EnterCurrent
  <2> QED
    BY <1>1, <2>2
<1>4. ASSUME NEW k, Becomes(c, k) PROVE call'[c] = k
  BY <1>4 DEF Becomes, Inv, TypeOK
<1>5. CASE ScoreTail(c)
  <2>1. call'[c] = [call[c] EXCEPT !.pc = "size", !.seen = tailIndex[call[c].ptr]]
    BY <1>4, <1>5 DEF ScoreTail
  <2> QED
    BY <1>1, <2>1, Facts DEF Call
<1>6. CASE LoadTail(c)
  <2>1. call'[c] = [call[c] EXCEPT !.pc = "count", !.tail = producerListTail]
    BY <1>4, <1>6 DEF LoadTail
  <2> QED
    BY <1>1, <2>1, Facts DEF Call
<1>7. CASE LoadCount(c)
  <2>1. call'[c] = [call[c] EXCEPT !.pc = "offset", !.prodCount = producerCount]
    BY <1>4, <1>7 DEF LoadCount
  <2> QED
    BY <1>1, <2>1, Facts DEF Call
<1>8. CASE MoveToken(c)
  <2>1. Place(c) \in Producer
    BY <1>8, PlaceOnList, Facts, Constants DEF MoveToken
  <2>2. call'[c].pc = "enter"
    <3>1. call'[c] = [call[c] EXCEPT !.pc = "enter", !.ptr = Place(c)]
      BY <1>4, <1>8 DEF MoveToken
    <3> QED
      BY <2>1, <3>1, Facts DEF Call
  <2> QED
    BY <1>1, <2>2
<1>9. CASE ScoreHead(c)
  BY <1>1, <1>9, ScoreReturns
<1>10. CASE Advance(c)
  BY <1>1, <1>10, Facts DEF Advance, Locals
<1>11. CASE AllFromCurrent(c)
  <2>1. Takes(c, call[c].max) /\ InDequeue(c) /\ call[c].max \in Amounts
    BY <1>11, Facts DEF AllFromCurrent, InDequeue, At, Call
  <2> QED
    BY <1>2, <2>1
<1>12. CASE TryBest(c)
  <2>1. At(c, "best") /\ InDequeue(c)
    BY <1>12 DEF TryBest, InDequeue, At
  <2>2. Takes(c, 0) /\ WalkOn(c, 0, producerListTail) /\ owed[c][call[c].ptr] = 0
    BY <1>2, <1>12, <2>1, AmountsAreNat DEF TryBest
  <2>3. call[c].best = call[c].ptr
    BY <2>1, Facts DEF Locals
  <2>4. ASSUME NEW q \in Producer, q > producerListTail PROVE owed[c][q] = 0
    BY <2>4, Facts DEF Inv, OnList, OwedIsThere
  <2>5. producerListTail \in 0 .. producerListTail
    BY Facts
  <2> QED
    BY <1>1, <2>1, <2>2, <2>3, <2>4, <2>5, WalkReturns
<1>13. CASE Walk(c)
  <2>1. At(c, "walk") /\ InDequeue(c) /\ call[c].ptr \in 1 .. producerListTail
    BY <1>13, Facts DEF Walk, InDequeue, At, Locals
  <2>2. PICK n \in Amounts : /\ Takes(c, n)
                            /\ IF n = call[c].max THEN Return(c, n)
                               ELSE WalkOn(c, n, call[c].ptr - 1)
    BY <1>13 DEF Walk
  <2>3. n = 0 /\ WalkOn(c, 0, call[c].ptr - 1) /\ owed[c][call[c].ptr] = 0
    BY <1>2, <2>1, <2>2
  <2>4. ASSUME NEW q \in Producer, q > call[c].ptr \/ q = call[c].best
        PROVE  owed[c][q] = 0
    <3>1. q \in Passed(c)
      BY <2>1, <2>4 DEF Passed, At
    <3> QED
      BY <3>1, Facts DEF OwedIsThere
  <2>5. \A q \in Producer : q > call[c].ptr - 1 \/ q = call[c].best => owed[c][q] = 0
    BY <2>1, <2>3, <2>4, Facts
  <2>6. call[c].ptr - 1 \in 0 .. producerListTail
    BY <2>1, Facts
  <2> QED
    BY <1>1, <2>1, <2>2, <2>3, <2>5, <2>6, WalkReturns
<1>14. CASE NotAllFromCurrent(c)
  <2>1. At(c, "current") /\ InDequeue(c) /\ call[c].ptr \in 1 .. producerListTail
    BY <1>14, Facts DEF NotAllFromCurrent, InDequeue, At, Locals
  <2>2. PICK n \in Amounts : Takes(c, n) /\ SeekOn(c, n, call[c].ptr, producerListTail)
    BY <1>14 DEF NotAllFromCurrent
  <2>3. n = 0 /\ owed[c][call[c].ptr] = 0
    BY <1>2, <2>1, <2>2
  <2>4. producerListTail \in 1 .. producerListTail /\ producerListTail \in Nat
    BY <2>1, Facts
  <2>5. Around(call[c].ptr, producerListTail) = call[c].ptr
    BY <1>1, <2>1, <2>2, <2>3, <2>4, SeekReturns
  <2>6. call[c].ptr = 1 /\ producerListTail = 1
    BY <2>1, <2>4, <2>5 DEF Around
  <2>7. ASSUME NEW q \in Producer, q > producerListTail PROVE owed[c][q] = 0
    BY <2>7, Facts DEF Inv, OnList, OwedIsThere
  <2>8. \A q \in Producer : owed[c][q] = 0
    BY <2>3, <2>6, <2>7
  <2> QED
    BY <2>8, AllZero
<1>15. CASE Seek(c)
  <2> DEFINE p == call[c].ptr
             t == call[c].tail
             cur == token[c].currentProducer
  <2>1. /\ At(c, "seek") /\ InDequeue(c) /\ t \in 1 .. producerListTail /\ p \in 1 .. t
        /\ producerListTail \in Nat /\ cur \in Nat /\ cur <= t /\ p # cur
    <3>1. At(c, "seek") /\ InDequeue(c)
      BY <1>15 DEF Seek, InDequeue, At
    <3>2. t \in 1 .. producerListTail /\ p \in 1 .. producerListTail /\ p <= t
      BY <3>1, Facts DEF Locals, At
    <3>3. cur \in Nat /\ cur <= t /\ p # cur
      BY <3>1, Facts DEF TokenFits, Token
    <3> QED
      BY <3>1, <3>2, <3>3, Facts
  <2>2. PICK n \in Amounts :
          /\ Takes(c, n)
          /\ token' = IF n = 0 THEN token
                      ELSE [token EXCEPT ![c].currentProducer = p,
                                         ![c].itemsConsumedFromCurrent = n]
          /\ IF n = call[c].max THEN Return(c, n)
             ELSE SeekOn(c, n, token'[c].currentProducer, t)
    BY <1>15 DEF Seek
  <2>3. n = 0 /\ owed[c][p] = 0 /\ SeekOn(c, 0, cur, t)
    BY <1>2, <2>1, <2>2
  <2>4. Around(p, t) = cur
    <3> HIDE DEF cur
    <3> QED
      BY <1>1, <2>1, <2>2, <2>3, SeekReturns
  <2>5. ASSUME NEW q \in Producer PROVE q = p \/ q \in Passed(c)
    <3>1. \/ q > t
          \/ p < cur /\ q > p /\ q <= cur
          \/ p > cur /\ (q > p \/ q <= cur)
          \/ q = p
      <4> HIDE DEF p, t, cur
      <4> QED
        BY <2>1, <2>4 DEF Around
    <3> QED
      BY <2>1, <3>1 DEF Passed
  <2>6. \A q \in Producer : owed[c][q] = 0
    BY <2>3, <2>5, Facts DEF OwedIsThere
  <2> QED
    BY <2>6, AllZero
<1> QED
  BY <1>3, <1>5, <1>6, <1>7, <1>8, <1>9, <1>10, <1>11, <1>12, <1>13, <1>14, <1>15, <1>16
  DEF Dequeue

(***************************************************************************)
(* "Returns false if all producer streams appeared empty": a call that     *)
(* comes back with nothing has overlooked no stream, with whatever token,  *)
(* and however many producers are added meanwhile.                         *)
(***************************************************************************)
THEOREM EmptyIsTrueAlways == Spec => EmptyIsTrue
<1>1. ASSUME Inv, Next
      PROVE  \A c \in Consumers : ReturnsEmpty(c) => owed[c] = NoElements
  <2>1. SUFFICES ASSUME NEW c \in Consumers, ReturnsEmpty(c) PROVE owed[c] = NoElements
    OBVIOUS
  <2>2. call'[c] # call[c]
    BY <2>1 DEF ReturnsEmpty, At
  <2>3. CASE CountProducer \/ LinkProducer \/ \E p \in Producer : Enqueue(p)
    BY <2>2, <2>3 DEF CountProducer, LinkProducer, Enqueue, callVars
  <2>4. CASE \E d \in Consumers : MakeToken(d)
    BY <2>2, <2>4 DEF MakeToken, callVars
  <2>5. CASE \E d \in Consumers : Dequeue(d)
    BY <1>1, <2>1, <2>2, <2>5, OthersCall, EmptyStep
  <2> QED
    BY <1>1, <2>3, <2>4, <2>5 DEF Next
<1>2. Inv /\ [Next]_vars =>
        [\A c \in Consumers : ReturnsEmpty(c) => owed[c] = NoElements]_vars
  BY <1>1
<1> QED
  BY <1>2, Invariance, PTL DEF Spec, EmptyIsTrue

--------------------------------------------------------------------------------
(***************************************************************************)
(* The rotation.  A token's offset is behind the global one by no more     *)
(* than the advances there were since, each of them for an element that    *)
(* was taken: so it cannot be behind a whole turn, and the offsets differ. *)
(***************************************************************************)
Units(f) == UNION {{p} \X (0 .. f[p] - 1) : p \in Producer}
Taken == Units(headIndex)

ToAdvance == {c \in Consumers : At(c, "advance")}

Since(g, last) == IF last <= g THEN g - last ELSE g - last + OffsetSize
Rotations(c) == Since(globalExplicitConsumerOffset, token[c].lastKnownGlobalOffset)

Bounded == IsFiniteSet(Sent) /\ Cardinality(Sent) <= MaxSent

Tracked(c) ==
  token[c].desiredProducer # Null =>
    Rotations(c) + Cardinality(ToAdvance) <= Cardinality(Taken)

RotationInv ==
  /\ Inv /\ Bounded
  /\ Cardinality(ToAdvance) <= Cardinality(Taken)
  /\ \A c \in Consumers : Tracked(c)
  /\ RotatesAtQuota

(* The elements before some place in each stream.                          *)
LEMMA UnitsGrow ==
  ASSUME NEW f \in [Producer -> Nat], NEW g \in [Producer -> Nat],
         \A p \in Producer : f[p] <= g[p], IsFiniteSet(Units(g))
  PROVE  /\ IsFiniteSet(Units(f)) /\ Cardinality(Units(f)) \in Nat
         /\ Cardinality(Units(g)) \in Nat /\ Cardinality(Units(f)) <= Cardinality(Units(g))
         /\ f # g => Cardinality(Units(f)) + 1 <= Cardinality(Units(g))
<1>1. Units(f) \subseteq Units(g)
  <2>1. SUFFICES ASSUME NEW p \in Producer, NEW x \in {p} \X (0 .. f[p] - 1)
                 PROVE  x \in {p} \X (0 .. g[p] - 1)
    BY DEF Units
  <2>2. x[2] \in 0 .. g[p] - 1
    <3>1. f[p] \in Nat /\ g[p] \in Nat /\ f[p] <= g[p]
      OBVIOUS
    <3>2. x[2] \in 0 .. f[p] - 1
      OBVIOUS
    <3> QED
      BY <3>1, <3>2
  <2> QED
    BY <2>2
<1>2. /\ IsFiniteSet(Units(f)) /\ Cardinality(Units(f)) \in Nat
      /\ Cardinality(Units(g)) \in Nat /\ Cardinality(Units(f)) <= Cardinality(Units(g))
      /\ Cardinality(Units(g)) = Cardinality(Units(f)) => Units(g) = Units(f)
  BY <1>1, FS_Subset, FS_CardinalityType
<1>3. ASSUME f # g PROVE Units(f) # Units(g)
  <2>0. f = [p \in Producer |-> f[p]] /\ g = [p \in Producer |-> g[p]]
    OBVIOUS
  <2>1. PICK p \in Producer : f[p] # g[p]
    BY <1>3, <2>0
  <2>2. f[p] \in Nat /\ g[p] \in Nat /\ f[p] < g[p]
    BY <2>1
  <2>3. <<p, f[p]>> \in Units(g)
    <3>1. f[p] \in 0 .. g[p] - 1
      BY <2>2
    <3> QED
      BY <3>1 DEF Units
  <2>4. <<p, f[p]>> \notin Units(f)
    <3>1. SUFFICES ASSUME NEW q \in Producer, <<p, f[p]>> \in {q} \X (0 .. f[q] - 1)
                   PROVE  FALSE
      BY DEF Units
    <3>2. q = p /\ f[p] \in 0 .. f[p] - 1
      BY <3>1
    <3> QED
      BY <2>2, <3>2
  <2> QED
    BY <2>3, <2>4
<1> QED
  BY <1>2, <1>3

LEMMA UnitsMore ==
  ASSUME NEW f \in [Producer -> Nat], NEW p \in Producer, IsFiniteSet(Units(f))
  PROVE  LET g == [f EXCEPT ![p] = @ + 1]
         IN  /\ IsFiniteSet(Units(g)) /\ Cardinality(Units(f)) \in Nat
             /\ Cardinality(Units(g)) <= Cardinality(Units(f)) + 1
<1> DEFINE g == [f EXCEPT ![p] = @ + 1]
<1>1. Units(g) \subseteq Units(f) \cup {<<p, f[p]>>}
  <2>1. SUFFICES ASSUME NEW q \in Producer, NEW x \in {q} \X (0 .. g[q] - 1),
                        x # <<p, f[p]>>
                 PROVE  x \in {q} \X (0 .. f[q] - 1)
    BY DEF Units
  <2>2. x = <<q, x[2]>> /\ x[2] \in 0 .. g[q] - 1 /\ f[q] \in Nat
    OBVIOUS
  <2>3. x[2] \in 0 .. f[q] - 1
    <3>1. g[q] = IF q = p THEN f[q] + 1 ELSE f[q]
      OBVIOUS
    <3>2. q = p => x[2] # f[q]
      BY <2>1, <2>2
    <3> HIDE DEF g
    <3> QED
      BY <2>2, <3>1, <3>2
  <2> QED
    BY <2>2, <2>3
<1>2. /\ IsFiniteSet(Units(f) \cup {<<p, f[p]>>})
      /\ Cardinality(Units(f)) \in Nat
      /\ Cardinality(Units(f) \cup {<<p, f[p]>>}) <= Cardinality(Units(f)) + 1
  <2>1. Cardinality(Units(f)) \in Nat
    BY FS_CardinalityType
  <2>2. /\ IsFiniteSet(Units(f) \cup {<<p, f[p]>>})
        /\ Cardinality(Units(f) \cup {<<p, f[p]>>}) =
             IF <<p, f[p]>> \in Units(f) THEN Cardinality(Units(f))
             ELSE Cardinality(Units(f)) + 1
    BY FS_AddElement
  <2> HIDE DEF Producer
  <2> QED
    BY <2>1, <2>2
<1>3. /\ IsFiniteSet(Units(g)) /\ Cardinality(Units(g)) \in Nat
      /\ Cardinality(Units(g)) <= Cardinality(Units(f) \cup {<<p, f[p]>>})
      /\ Cardinality(Units(f) \cup {<<p, f[p]>>}) \in Nat
  BY <1>1, <1>2, FS_Subset, FS_CardinalityType
<1> HIDE DEF g
<1>4. Cardinality(Units(g)) <= Cardinality(Units(f)) + 1
  BY <1>2, <1>3
<1> QED
  BY <1>2, <1>3, <1>4 DEF g

(* One more advance is one more to have missed, up to a whole turn.        *)
LEMMA OneMore ==
  ASSUME NEW g \in Offset, NEW last \in Offset
  PROVE  /\ Since(g, last) \in Nat /\ Since(g, last) < OffsetSize
         /\ Since(g, g) = 0
         /\ Since(g, last) + 1 < OffsetSize =>
              /\ Since((g + 1) % OffsetSize, last) = Since(g, last) + 1
              /\ (g + 1) % OffsetSize # last
<1>1. (g + 1) % OffsetSize = IF g + 1 = OffsetSize THEN 0 ELSE g + 1
  BY NextOffset DEF Offset
<1>2. g \in Nat /\ last \in Nat /\ g < OffsetSize /\ last < OffsetSize /\ OffsetSize \in Nat
  BY Constants DEF Offset
<1> DEFINE h == (g + 1) % OffsetSize
<1> HIDE DEF h
<1>3. h = IF g + 1 = OffsetSize THEN 0 ELSE g + 1
  BY <1>1 DEF h
<1>4. Since(g, last) + 1 < OffsetSize => Since(h, last) = Since(g, last) + 1 /\ h # last
  BY <1>2, <1>3 DEF Since
<1>5. Since(g, last) \in Nat /\ Since(g, last) < OffsetSize /\ Since(g, g) = 0
  BY <1>2 DEF Since
<1> QED
  BY <1>4, <1>5 DEF h

LEMMA CountTypes ==
  ASSUME Inv, Bounded
  PROVE  /\ Cardinality(ToAdvance) \in Nat /\ IsFiniteSet(ToAdvance)
         /\ Cardinality(Taken) \in Nat /\ Cardinality(Taken) <= MaxSent
         /\ globalExplicitConsumerOffset \in Offset
         /\ \A c \in Consumers : /\ token[c].lastKnownGlobalOffset \in Offset
                                /\ Rotations(c) \in Nat
                                /\ token[c].itemsConsumedFromCurrent \in Nat
<1>1. ToAdvance \subseteq Consumers
  BY DEF ToAdvance
<1>2. Cardinality(ToAdvance) \in Nat /\ IsFiniteSet(ToAdvance)
  BY <1>1, ConsumersAreFinite, FS_Subset, FS_CardinalityType
<1>3. /\ headIndex \in [Producer -> Nat] /\ tailIndex \in [Producer -> Nat]
      /\ \A p \in Producer : headIndex[p] <= tailIndex[p]
      /\ globalExplicitConsumerOffset \in Offset
  BY DEF Inv, TypeOK, Offset
<1>4. Cardinality(Taken) \in Nat /\ Cardinality(Taken) <= MaxSent
  <2>1. Sent = Units(tailIndex)
    BY DEF Sent, Units
  <2>2. /\ Cardinality(Taken) \in Nat /\ Cardinality(Sent) \in Nat
        /\ Cardinality(Taken) <= Cardinality(Sent)
    BY <1>3, <2>1, UnitsGrow DEF Taken, Bounded
  <2> QED
    BY <2>2, Constants DEF Bounded
<1>5. ASSUME NEW c \in Consumers
      PROVE  /\ token[c].lastKnownGlobalOffset \in Offset /\ Rotations(c) \in Nat
             /\ token[c].itemsConsumedFromCurrent \in Nat
  <2>1. token[c].lastKnownGlobalOffset \in Offset /\ token[c].itemsConsumedFromCurrent \in Nat
    BY Facts DEF Token, Offset
  <2> QED
    BY <1>3, <2>1, OneMore DEF Rotations
<1> QED
  BY <1>2, <1>3, <1>4, <1>5

(* What is taken, and where the calls are.                                 *)
LEMMA HeadGrows ==
  ASSUME Inv, NEW c \in Consumers, Dequeue(c)
  PROVE  /\ headIndex' \in [Producer -> Nat] /\ tailIndex' = tailIndex
         /\ \A p \in Producer : headIndex[p] <= headIndex'[p] /\ headIndex'[p] <= tailIndex[p]
<1>1. /\ headIndex \in [Producer -> Nat] /\ tailIndex \in [Producer -> Nat]
      /\ \A p \in Producer : headIndex[p] <= tailIndex[p]
  BY DEF Inv, TypeOK
<1>2. ASSUME headIndex' = headIndex
      PROVE  /\ headIndex' \in [Producer -> Nat]
             /\ \A p \in Producer : headIndex[p] <= headIndex'[p] /\ headIndex'[p] <= tailIndex[p]
  BY <1>1, <1>2
<1>3. CASE \/ TryDequeue(c) \/ ScoreTail(c) \/ ScoreHead(c)
           \/ \E n \in {1} \cup Bulks : TryDequeueBulk(c, n) \/ TryDequeueToken(c, n)
           \/ LoadTail(c) \/ LoadCount(c) \/ MoveToken(c) \/ EnterCurrent(c) \/ Advance(c)
  BY <1>2, <1>3 DEF TryDequeue, ScoreTail, ScoreHead, TryDequeueBulk, TryDequeueToken, Begins,
     LoadTail, LoadCount, MoveToken, EnterCurrent, Advance
<1>4. CASE TryBest(c) \/ Walk(c) \/ AllFromCurrent(c) \/ NotAllFromCurrent(c) \/ Seek(c)
  <2>1. InDequeue(c) /\ tailIndex' = tailIndex
    BY <1>4 DEF TryBest, Walk, AllFromCurrent, NotAllFromCurrent, Seek, InDequeue, At
  <2>2. \E n \in Nat : Takes(c, n)
    <3>1. call[c].max \in Nat
      BY Facts, AmountsAreNat DEF Call
    <3> QED
      BY <1>4, <3>1, AmountsAreNat DEF TryBest, Walk, AllFromCurrent, NotAllFromCurrent, Seek
  <2> QED
    BY <2>1, <2>2, Taking
<1> QED
  BY <1>3, <1>4 DEF Dequeue

LEMMA OnlyQuota ==
  ASSUME Inv, NEW c \in Consumers, Dequeue(c), ~AllFromCurrent(c)
  PROVE  call'[c].pc # "advance"
<1>1. ASSUME NEW k, Becomes(c, k) PROVE call'[c] = k
  BY <1>1 DEF Becomes, Inv, TypeOK
<1>2. ASSUME NEW n, Return(c, n) PROVE call'[c].pc = "idle"
  BY <1>2 DEF Return, Inv, TypeOK, Idle
<1>3. producerListTail \in 0 .. MaxProducers /\ MaxProducers \in Nat
  BY Facts, Constants
<1>4. CASE ScoreTail(c)
  <2>1. call'[c] = [call[c] EXCEPT !.pc = "size", !.seen = tailIndex[call[c].ptr]]
    BY <1>1, <1>4 DEF ScoreTail
  <2> QED
    BY <2>1, Facts DEF Call
<1>5. CASE LoadTail(c)
  <2>1. call'[c] = [call[c] EXCEPT !.pc = "count", !.tail = producerListTail]
    BY <1>1, <1>5 DEF LoadTail
  <2> QED
    BY <2>1, Facts DEF Call
<1>6. CASE LoadCount(c)
  <2>1. call'[c] = [call[c] EXCEPT !.pc = "offset", !.prodCount = producerCount]
    BY <1>1, <1>6 DEF LoadCount
  <2> QED
    BY <2>1, Facts DEF Call
<1>7. CASE MoveToken(c)
  <2>1. Place(c) \in Producer
    BY <1>7, PlaceOnList, Facts, Constants DEF MoveToken
  <2>2. call'[c] = [call[c] EXCEPT !.pc = "enter", !.ptr = Place(c)]
    BY <1>1, <1>7 DEF MoveToken
  <2> QED
    BY <2>1, <2>2, Facts DEF Call
<1>18. CASE EnterCurrent(c)
  <2>1. call[c].ptr \in Producer
    BY <1>3, <1>18, Facts DEF EnterCurrent, Locals
  <2> QED
    BY <1>18, <2>1, VisitGoes, Facts DEF EnterCurrent
<1>8. CASE ScoreHead(c)
  <2> DEFINE k == Scored(c)
  <2>1. At(c, "size") /\ k \in Call
    BY <1>8, ScoredFits DEF ScoreHead
  <2>2. ASSUME Becomes(c, [k EXCEPT !.pc = "score", !.ptr = k.ptr - 1])
        PROVE  call'[c].pc # "advance"
    <3>1. call'[c] = [k EXCEPT !.pc = "score", !.ptr = k.ptr - 1]
      BY <2>2 DEF Becomes, Inv, TypeOK
    <3> HIDE DEF k
    <3> QED
      BY <2>1, <3>1 DEF Call
  <2>3. ASSUME k.nonEmptyCount # 0, Enter(c, 0, k.best, "best", k)
        PROVE  call'[c].pc # "advance"
    <3>1. k.best \in Producer
      BY <1>3, <2>1, <2>3, ScoredFits
    <3> HIDE DEF k
    <3> QED
      BY <2>1, <2>3, <3>1, VisitGoes DEF Enter
  <2> QED
    BY <1>2, <1>8, <2>2, <2>3 DEF ScoreHead
<1>9. CASE Advance(c)
  BY <1>2, <1>9 DEF Advance
<1>10. CASE TryDequeue(c)
  <2>1. call'[c] = [Idle EXCEPT !.pc = "score", !.ptr = producerListTail, !.max = 1]
    BY <1>1, <1>10 DEF TryDequeue
  <2> QED
    BY <2>1 DEF Idle
<1>11. CASE \E n \in {1} \cup Bulks : TryDequeueBulk(c, n) \/ TryDequeueToken(c, n)
  <2>1. PICK n \in {1} \cup Bulks : TryDequeueBulk(c, n) \/ TryDequeueToken(c, n)
    BY <1>11
  <2>2. [Idle EXCEPT !.max = n] \in Call
    BY IdleFits, AmountsAreNat
  <2>3. CASE TryDequeueBulk(c, n)
    <3>1. producerListTail \in Producer
      BY <1>3, <2>3 DEF TryDequeueBulk, Begins
    <3> QED
      BY <2>2, <2>3, <3>1, VisitGoes DEF TryDequeueBulk
  <2>4. CASE Becomes(c, [Idle EXCEPT !.pc = "enter", !.ptr = token[c].currentProducer, !.max = n])
    <3>1. call'[c] = [Idle EXCEPT !.pc = "enter", !.ptr = token[c].currentProducer, !.max = n]
      BY <1>1, <2>4
    <3> QED
      BY <3>1 DEF Idle
  <2>5. CASE Becomes(c, [Idle EXCEPT !.pc = "tail", !.max = n])
    <3>1. call'[c] = [Idle EXCEPT !.pc = "tail", !.max = n]
      BY <1>1, <2>5
    <3> QED
      BY <3>1 DEF Idle
  <2> QED
    BY <2>1, <2>3, <2>4, <2>5 DEF TryDequeueToken
<1>12. ASSUME NEW n \in Nat, Takes(c, n), NEW p \in 0 .. producerListTail, WalkOn(c, n, p)
       PROVE  call'[c].pc # "advance"
  <2> DEFINE r == IF p = call[c].best /\ p # Null THEN p - 1 ELSE p
  <2>1. SUFFICES ASSUME r # Null, Enter(c, n, r, "walk", With(c, n))
                 PROVE  call'[c].pc # "advance"
    BY <1>2, <1>12 DEF WalkOn
  <2>2. r \in Producer
    BY <1>3, <2>1
  <2>3. With(c, n) \in Call
    BY <1>12, WithFits DEF Takes
  <2> HIDE DEF r
  <2> QED
    BY <2>1, <2>2, <2>3, VisitGoes DEF Enter
<1>13. ASSUME NEW n \in Nat, Takes(c, n), NEW t \in 1 .. producerListTail, NEW cur,
              SeekOn(c, n, cur, t), call[c].ptr \in 1 .. t
       PROVE  call'[c].pc # "advance"
  <2> DEFINE p == Around(call[c].ptr, t)
  <2>1. SUFFICES ASSUME Enter(c, n, p, "seek", [With(c, n) EXCEPT !.tail = t])
                 PROVE  call'[c].pc # "advance"
    BY <1>2, <1>13 DEF SeekOn
  <2>2. t \in Nat /\ t \in Producer
    BY <1>3
  <2>3. p \in 1 .. t
    BY <1>13, <2>2, AroundStays
  <2>4. p \in Producer
    BY <1>3, <2>3
  <2>5. [With(c, n) EXCEPT !.tail = t] \in Call
    BY <1>13, <2>2, WithFits, CallUpdates DEF Takes
  <2> HIDE DEF p
  <2> QED
    BY <2>1, <2>4, <2>5, VisitGoes DEF Enter
<1>14. CASE TryBest(c)
  <2>1. producerListTail \in 0 .. producerListTail
    BY <1>3
  <2> QED
    BY <1>2, <1>12, <1>14, <2>1 DEF TryBest
<1>15. CASE Walk(c)
  <2>1. call[c].ptr \in 1 .. producerListTail
    BY <1>15, Facts DEF Walk, InDequeue, At, Locals
  <2>2. call[c].ptr - 1 \in 0 .. producerListTail
    BY <1>3, <2>1
  <2> QED
    BY <1>2, <1>12, <1>15, <2>2, AmountsAreNat DEF Walk
<1>16. CASE NotAllFromCurrent(c)
  <2>1. call[c].ptr \in 1 .. producerListTail
    BY <1>16, Facts DEF NotAllFromCurrent, InDequeue, At, Locals
  <2>2. producerListTail \in 1 .. producerListTail
    BY <1>3, <2>1
  <2> QED
    BY <1>13, <1>16, <2>1, <2>2, AmountsAreNat DEF NotAllFromCurrent
<1>17. CASE Seek(c)
  <2>1. call[c].tail \in 1 .. producerListTail /\ call[c].ptr \in 1 .. producerListTail
        /\ call[c].ptr <= call[c].tail
    BY <1>17, Facts DEF Seek, InDequeue, At, Locals
  <2>2. call[c].ptr \in 1 .. call[c].tail
    BY <1>3, <2>1
  <2> QED
    BY <1>2, <1>13, <1>17, <2>1, <2>2, AmountsAreNat DEF Seek
<1> QED
  BY <1>4, <1>5, <1>6, <1>7, <1>8, <1>9, <1>10, <1>11, <1>14, <1>15, <1>16, <1>17, <1>18
  DEF Dequeue

(* What a step of c other than Advance does to its token: who has taken a  *)
(* quota is about to advance the offset, or had taken it before.           *)
TokenMoves(c) ==
  /\ globalExplicitConsumerOffset' = globalExplicitConsumerOffset
  /\ \A d \in Consumers \ {c} : token'[d] = token[d] /\ (d \in uneven' <=> d \in uneven)
  /\ \/ token'[c].desiredProducer = Null
     \/ token'[c].lastKnownGlobalOffset = globalExplicitConsumerOffset
     \/ /\ token'[c].desiredProducer = token[c].desiredProducer
        /\ token'[c].lastKnownGlobalOffset = token[c].lastKnownGlobalOffset
  /\ c \notin uneven' /\ token'[c].itemsConsumedFromCurrent >= Quota =>
       \/ call'[c].pc = "advance"
       \/ /\ c \notin uneven /\ token[c].itemsConsumedFromCurrent >= Quota
          /\ token'[c].lastKnownGlobalOffset = token[c].lastKnownGlobalOffset

LEMMA DequeueMoves ==
  ASSUME Inv, NEW c \in Consumers, Dequeue(c), ~Advance(c)
  PROVE  TokenMoves(c) /\ call[c].pc # "advance"
<1>1. /\ token[c].itemsConsumedFromCurrent \in Nat /\ Quota \in Nat /\ Quota >= 2
      /\ token \in [Consumers -> Token]
  BY Facts, Constants DEF Token
<1>2. ASSUME UNCHANGED <<globalExplicitConsumerOffset, token, uneven>> PROVE TokenMoves(c)
  BY <1>2 DEF TokenMoves
<1>3. CASE \/ TryDequeue(c) \/ ScoreTail(c) \/ ScoreHead(c) \/ TryBest(c) \/ Walk(c)
           \/ \E n \in {1} \cup Bulks : TryDequeueBulk(c, n) \/ TryDequeueToken(c, n)
           \/ LoadTail(c) \/ LoadCount(c) \/ EnterCurrent(c)
  <2>1. UNCHANGED <<globalExplicitConsumerOffset, token, uneven>>
    BY <1>3 DEF TryDequeue, ScoreTail, ScoreHead, TryBest, Walk, TryDequeueBulk,
       TryDequeueToken, Begins, LoadTail, LoadCount, EnterCurrent, offsetVars
  <2>2. call[c].pc # "advance"
    BY <1>3 DEF TryDequeue, ScoreTail, ScoreHead, TryBest, Walk, TryDequeueBulk,
       TryDequeueToken, Begins, LoadTail, LoadCount, EnterCurrent, At
  <2> QED
    BY <1>2, <2>1, <2>2
<1>4. CASE MoveToken(c)
  <2> DEFINE p == Place(c)
             s == [token[c] EXCEPT !.desiredProducer = p, !.currentProducer = p,
                     !.lastKnownGlobalOffset = globalExplicitConsumerOffset,
                     !.itemsConsumedFromCurrent = 0]
  <2>1. token' = [token EXCEPT ![c] = s]
    BY <1>1, <1>4 DEF MoveToken
  <2>2. /\ s.lastKnownGlobalOffset = globalExplicitConsumerOffset
        /\ s.itemsConsumedFromCurrent = 0
    <3> HIDE DEF p
    <3> QED
      BY Facts DEF Token
  <2> HIDE DEF s
  <2>3. token'[c] = s /\ \A d \in Consumers \ {c} : token'[d] = token[d]
    BY <1>1, <2>1
  <2>4. /\ globalExplicitConsumerOffset' = globalExplicitConsumerOffset
        /\ uneven' = uneven \ {c} /\ call[c].pc # "advance"
    BY <1>4 DEF MoveToken, offsetVars, At
  <2> QED
    BY <1>1, <2>2, <2>3, <2>4 DEF TokenMoves
<1>5. CASE AllFromCurrent(c)
  <2> DEFINE n == call[c].max
             items == token[c].itemsConsumedFromCurrent
             total == items + n
  <2>1. /\ token' = [token EXCEPT ![c].itemsConsumedFromCurrent = total]
        /\ uneven' = uneven /\ globalExplicitConsumerOffset' = globalExplicitConsumerOffset
        /\ call[c].pc = "current" /\ n \in Nat /\ n >= 1
    BY <1>5, Facts, AmountsAreNat DEF AllFromCurrent, Locals, At, Call, offsetVars
  <2>2. total \in Nat /\ items \in Nat
    BY <1>1, <2>1
  <2>3. /\ OwnToken(c) /\ token'[c].desiredProducer = token[c].desiredProducer
        /\ token'[c].itemsConsumedFromCurrent = total
        /\ token'[c].lastKnownGlobalOffset = token[c].lastKnownGlobalOffset
    <3> HIDE DEF total
    <3> QED
      BY <2>1, <2>2, Consumed
  <2>4. CASE Becomes(c, [With(c, n) EXCEPT !.pc = "advance"])
    <3>2. With(c, n) \in Call
      <4>1. n <= call[c].max
        BY <2>1
      <4> HIDE DEF n
      <4> QED
        BY <2>1, <4>1, WithFits
    <3>3. call'[c].pc = "advance"
      <4>1. call'[c] = [With(c, n) EXCEPT !.pc = "advance"]
        BY <2>4 DEF Becomes, Inv, TypeOK
      <4> HIDE DEF n
      <4> QED
        BY <3>2, <4>1 DEF Call
    <3> QED
      BY <2>1, <2>3, <3>3 DEF TokenMoves, OwnToken
  <2>5. ASSUME MissesQuota(total, n)
        PROVE  total >= Quota => items >= Quota
    <3> HIDE DEF n, items
    <3> QED
      BY <1>1, <2>1, <2>2, <2>5 DEF MeetsQuota, MissesQuota
  <2>6. CASE MissesQuota(total, n)
    BY <2>1, <2>3, <2>5, <2>6 DEF TokenMoves, OwnToken
  <2> QED
    BY <2>1, <2>4, <2>6, <1>5 DEF AllFromCurrent
<1>6. CASE NotAllFromCurrent(c)
  <2>1. PICK n \in Amounts :
          /\ token' = [token EXCEPT ![c].itemsConsumedFromCurrent = @ + n]
          /\ uneven' = IF n = 0 THEN uneven ELSE uneven \cup {c}
    BY <1>6 DEF NotAllFromCurrent
  <2>2. token[c].itemsConsumedFromCurrent + n \in Nat /\ n \in Nat
    BY <1>1, AmountsAreNat
  <2>3. /\ OwnToken(c) /\ token'[c].desiredProducer = token[c].desiredProducer
        /\ token'[c].itemsConsumedFromCurrent = token[c].itemsConsumedFromCurrent + n
        /\ token'[c].lastKnownGlobalOffset = token[c].lastKnownGlobalOffset
    <3>1. token' = [token EXCEPT ![c].itemsConsumedFromCurrent
                                   = token[c].itemsConsumedFromCurrent + n]
      BY <2>1
    <3> QED
      BY <2>2, <3>1, Consumed
  <2>4. globalExplicitConsumerOffset' = globalExplicitConsumerOffset /\ call[c].pc = "current"
    BY <1>6 DEF NotAllFromCurrent, offsetVars, At
  <2> QED
    BY <1>1, <2>1, <2>2, <2>3, <2>4 DEF TokenMoves, OwnToken
<1>7. CASE Seek(c)
  <2>1. PICK n \in Amounts :
          /\ token' = IF n = 0 THEN token
                      ELSE [token EXCEPT ![c].currentProducer = call[c].ptr,
                                         ![c].itemsConsumedFromCurrent = n]
          /\ uneven' = IF n = 0 THEN uneven
                       ELSE IF n < Quota THEN uneven \ {c} ELSE uneven \cup {c}
    BY <1>7 DEF Seek
  <2>2. /\ globalExplicitConsumerOffset' = globalExplicitConsumerOffset /\ call[c].pc = "seek"
        /\ n \in Nat
    BY <1>7, AmountsAreNat DEF Seek, offsetVars, At
  <2>3. CASE n = 0
    BY <1>2, <2>1, <2>2, <2>3
  <2>4. CASE n # 0
    <3> DEFINE s == [token[c] EXCEPT !.currentProducer = call[c].ptr,
                                     !.itemsConsumedFromCurrent = n]
    <3>1. token' = [token EXCEPT ![c] = s]
      BY <2>1, <2>4
    <3>2. /\ s.desiredProducer = token[c].desiredProducer
          /\ s.lastKnownGlobalOffset = token[c].lastKnownGlobalOffset
          /\ s.itemsConsumedFromCurrent = n
      BY Facts DEF Token
    <3> HIDE DEF s
    <3>3. token'[c] = s /\ \A d \in Consumers \ {c} : token'[d] = token[d]
      BY <1>1, <3>1
    <3> QED
      BY <1>1, <2>1, <2>2, <2>4, <3>2, <3>3 DEF TokenMoves
  <2> QED
    BY <2>2, <2>3, <2>4
<1> QED
  BY <1>3, <1>4, <1>5, <1>6, <1>7 DEF Dequeue

(* Such steps keep the counts, and one that takes the quota has taken an   *)
(* element.                                                                *)
LEMMA MovesKeep ==
  ASSUME RotationInv, Inv', NEW c \in Consumers, TokenMoves(c), tailIndex' = tailIndex,
         headIndex' \in [Producer -> Nat],
         \A p \in Producer : headIndex[p] <= headIndex'[p],
         \A d \in Consumers \ {c} : call'[d] = call[d],
         call[c].pc # "advance", call'[c].pc = "advance" => headIndex' # headIndex
  PROVE  RotationInv'
<1>1. Bounded'
  BY DEF RotationInv, Bounded, Sent
<1>2. /\ Cardinality(ToAdvance) \in Nat /\ IsFiniteSet(ToAdvance)
      /\ Cardinality(Taken) \in Nat
      /\ globalExplicitConsumerOffset \in Offset
      /\ \A d \in Consumers : Rotations(d) \in Nat /\ token[d].lastKnownGlobalOffset \in Offset
  BY CountTypes DEF RotationInv
<1>3. /\ Cardinality(Taken') \in Nat /\ Cardinality(Taken) <= Cardinality(Taken')
      /\ headIndex' # headIndex => Cardinality(Taken) + 1 <= Cardinality(Taken')
  <2>1. headIndex \in [Producer -> Nat] /\ tailIndex \in [Producer -> Nat]
        /\ \A p \in Producer : headIndex'[p] <= tailIndex[p]
    BY DEF RotationInv, Inv, TypeOK
  <2>2. IsFiniteSet(Units(headIndex'))
    <3>1. Sent = Units(tailIndex)
      BY DEF Sent, Units
    <3> QED
      BY <2>1, <3>1, UnitsGrow DEF RotationInv, Bounded
  <2>3. Taken' = Units(headIndex')
    BY DEF Taken, Units
  <2> QED
    BY <2>1, <2>2, <2>3, UnitsGrow DEF Taken
<1>4. /\ Cardinality(ToAdvance') \in Nat /\ Cardinality(ToAdvance') <= Cardinality(ToAdvance) + 1
      /\ call'[c].pc # "advance" => ToAdvance' = ToAdvance
  <2>1. ToAdvance' = IF call'[c].pc = "advance" THEN ToAdvance \cup {c} ELSE ToAdvance
    BY DEF ToAdvance, At
  <2>2. /\ IsFiniteSet(ToAdvance \cup {c})
        /\ Cardinality(ToAdvance \cup {c}) =
             IF c \in ToAdvance THEN Cardinality(ToAdvance) ELSE Cardinality(ToAdvance) + 1
    BY <1>2, FS_AddElement
  <2> QED
    BY <1>2, <2>1, <2>2
<1>5. /\ Cardinality(ToAdvance') <= Cardinality(Taken')
      /\ Cardinality(Taken) - Cardinality(ToAdvance) <=
           Cardinality(Taken') - Cardinality(ToAdvance')
  <2>1. Cardinality(ToAdvance) <= Cardinality(Taken)
    BY DEF RotationInv
  <2> QED
    BY <1>2, <1>3, <1>4, <2>1
<1>6. ASSUME NEW d \in Consumers PROVE Tracked(d)'
  <2>1. \/ token'[d].desiredProducer = Null
        \/ token'[d].lastKnownGlobalOffset = globalExplicitConsumerOffset
        \/ /\ token'[d].desiredProducer = token[d].desiredProducer
           /\ token'[d].lastKnownGlobalOffset = token[d].lastKnownGlobalOffset
    BY DEF TokenMoves
  <2>2. Rotations(d)' = Since(globalExplicitConsumerOffset, token'[d].lastKnownGlobalOffset)
    BY DEF Rotations, Since, TokenMoves
  <2>3. CASE token'[d].lastKnownGlobalOffset = globalExplicitConsumerOffset
    <3>1. Rotations(d)' = 0
      BY <1>2, <2>2, <2>3, OneMore
    <3> QED
      BY <1>4, <1>5, <3>1 DEF Tracked
  <2>4. CASE /\ token'[d].desiredProducer = token[d].desiredProducer
             /\ token'[d].lastKnownGlobalOffset = token[d].lastKnownGlobalOffset
    <3>1. Rotations(d)' = Rotations(d)
      BY <2>2, <2>4 DEF Rotations
    <3>2. Tracked(d)
      BY DEF RotationInv
    <3>3. ASSUME token'[d].desiredProducer # Null
          PROVE  Rotations(d) + Cardinality(ToAdvance') <= Cardinality(Taken')
      <4>1. Rotations(d) + Cardinality(ToAdvance) <= Cardinality(Taken)
        BY <2>4, <3>2, <3>3 DEF Tracked
      <4> QED
        BY <1>2, <1>3, <1>4, <1>5, <4>1
    <3> QED
      BY <3>1, <3>3 DEF Tracked
  <2> QED
    BY <2>1, <2>3, <2>4 DEF Tracked
<1>7. RotatesAtQuota'
  <2>1. SUFFICES ASSUME NEW d \in Consumers, d \notin uneven',
                        token'[d].itemsConsumedFromCurrent >= Quota
                 PROVE  \/ call'[d].pc = "advance"
                        \/ token'[d].lastKnownGlobalOffset # globalExplicitConsumerOffset'
    BY DEF RotatesAtQuota, At
  <2>2. CASE d = c
    BY <2>1, <2>2 DEF TokenMoves, RotationInv, RotatesAtQuota, At
  <2>3. CASE d # c
    BY <2>1, <2>3 DEF TokenMoves, RotationInv, RotatesAtQuota, At
  <2> QED
    BY <2>2, <2>3
<1> QED
  BY <1>1, <1>5, <1>6, <1>7 DEF RotationInv

LEMMA AdvanceKeeps ==
  ASSUME MaxSent < OffsetSize, RotationInv, Inv', NEW c \in Consumers, Advance(c)
  PROVE  RotationInv'
<1>1. /\ UNCHANGED <<tailIndex, headIndex, token, uneven>> /\ At(c, "advance")
      /\ globalExplicitConsumerOffset' = (globalExplicitConsumerOffset + 1) % OffsetSize
      /\ call' = [call EXCEPT ![c] = Idle]
  BY DEF Advance, Return
<1>2. /\ Cardinality(ToAdvance) \in Nat /\ IsFiniteSet(ToAdvance)
      /\ Cardinality(Taken) \in Nat /\ Cardinality(Taken) <= MaxSent
      /\ globalExplicitConsumerOffset \in Offset
      /\ \A d \in Consumers : /\ Rotations(d) \in Nat /\ token[d].lastKnownGlobalOffset \in Offset
                             /\ token[d].itemsConsumedFromCurrent \in Nat
  BY CountTypes DEF RotationInv
<1>3. Bounded' /\ Taken' = Taken
  BY <1>1 DEF RotationInv, Bounded, Sent, Taken, Units
<1>4. /\ ToAdvance' = ToAdvance \ {c} /\ c \in ToAdvance
  BY <1>1 DEF ToAdvance, At, Idle, RotationInv, Inv, TypeOK
<1>5. Cardinality(ToAdvance') = Cardinality(ToAdvance) - 1 /\ Cardinality(ToAdvance') \in Nat
  <2>1. Cardinality(ToAdvance \ {c}) = Cardinality(ToAdvance) - 1
    BY <1>2, <1>4, FS_RemoveElement
  <2>2. Cardinality(ToAdvance \ {c}) \in Nat
    BY <1>2, FS_RemoveElement, FS_CardinalityType
  <2> QED
    BY <1>4, <2>1, <2>2
<1>6. Cardinality(ToAdvance') <= Cardinality(Taken')
  BY <1>2, <1>3, <1>5 DEF RotationInv
<1>7. ASSUME NEW d \in Consumers, token[d].desiredProducer # Null
      PROVE  /\ Rotations(d)' + Cardinality(ToAdvance') <= Cardinality(Taken')
             /\ token[d].lastKnownGlobalOffset # globalExplicitConsumerOffset'
  <2>1. Rotations(d) + Cardinality(ToAdvance) <= Cardinality(Taken)
    BY <1>7 DEF RotationInv, Tracked
  <2>2. Rotations(d) + 1 < OffsetSize
    BY <1>2, <1>5, <2>1, Constants
  <2>3. /\ Since(globalExplicitConsumerOffset', token[d].lastKnownGlobalOffset) = Rotations(d) + 1
        /\ token[d].lastKnownGlobalOffset # globalExplicitConsumerOffset'
    BY <1>1, <1>2, <2>2, OneMore DEF Rotations
  <2>4. Rotations(d)' = Rotations(d) + 1
    BY <1>1, <2>3 DEF Rotations, Since
  <2> QED
    BY <1>2, <1>3, <1>5, <2>1, <2>3, <2>4
<1>8. \A d \in Consumers : Tracked(d)'
  BY <1>1, <1>7 DEF Tracked
<1>9. RotatesAtQuota'
  <2>1. SUFFICES ASSUME NEW d \in Consumers, token[d].itemsConsumedFromCurrent >= Quota
                 PROVE  token[d].lastKnownGlobalOffset # globalExplicitConsumerOffset'
    BY <1>1 DEF RotatesAtQuota
  <2>2. token[d].itemsConsumedFromCurrent # 0
    BY <2>1, Constants
  <2>3. token[d].desiredProducer # Null
    BY <2>2, Facts DEF RotationInv, TokenFits
  <2> QED
    BY <1>7, <2>3
<1> QED
  BY <1>3, <1>6, <1>8, <1>9 DEF RotationInv

LEMMA MakeTokenKeeps ==
  ASSUME RotationInv, Inv', NEW c \in Consumers, MakeToken(c)
  PROVE  RotationInv'
<1>1. /\ UNCHANGED <<tailIndex, headIndex, globalExplicitConsumerOffset, call>>
      /\ call[c].pc = "idle" /\ uneven' = uneven \ {c}
      /\ token' = [token EXCEPT ![c] = NewToken(nextExplicitConsumerId)]
  BY DEF MakeToken, callVars, At
<1>2. /\ token'[c].desiredProducer = Null /\ token'[c].itemsConsumedFromCurrent = 0
      /\ \A d \in Consumers \ {c} : token'[d] = token[d]
  BY <1>1 DEF NewToken, RotationInv, Inv, TypeOK
<1>3. TokenMoves(c)
  BY <1>1, <1>2, Constants DEF TokenMoves
<1>4. /\ headIndex' \in [Producer -> Nat]
      /\ \A p \in Producer : headIndex[p] <= headIndex'[p]
  <2>1. headIndex \in [Producer -> Nat] /\ headIndex' = headIndex
    BY <1>1 DEF RotationInv, Inv, TypeOK
  <2> QED
    BY <2>1
<1> QED
  BY <1>1, <1>3, <1>4, MovesKeep

LEMMA DequeueKeeps ==
  ASSUME MaxSent < OffsetSize, RotationInv, Inv', NEW c \in Consumers, Dequeue(c)
  PROVE  RotationInv'
<1>1. CASE Advance(c)
  BY <1>1, AdvanceKeeps
<1>2. CASE ~Advance(c)
  <2>1. TokenMoves(c) /\ call[c].pc # "advance"
    BY <1>2, DequeueMoves DEF RotationInv
  <2>2. /\ headIndex' \in [Producer -> Nat] /\ tailIndex' = tailIndex
        /\ \A p \in Producer : headIndex[p] <= headIndex'[p]
    BY HeadGrows DEF RotationInv
  <2>3. \A d \in Consumers \ {c} : call'[d] = call[d]
    BY OthersCall DEF RotationInv
  <2>4. ASSUME call'[c].pc = "advance" PROVE headIndex' # headIndex
    <3>1. AllFromCurrent(c)
      BY <2>4, OnlyQuota DEF RotationInv
    <3>2. Takes(c, call[c].max) /\ InDequeue(c) /\ call[c].max \in Nat /\ call[c].max # 0
      BY <3>1, Facts, AmountsAreNat
      DEF RotationInv, AllFromCurrent, InDequeue, At, Locals, Call
    <3> QED
      BY <3>2, Taking DEF RotationInv
  <2> QED
    BY <2>1, <2>2, <2>3, <2>4, MovesKeep
<1> QED
  BY <1>1, <1>2

LEMMA ProducersKeep ==
  ASSUME RotationInv, Inv',
         CountProducer \/ LinkProducer \/ (\E p \in Producer : Enqueue(p))
  PROVE  RotationInv'
<1>1. UNCHANGED <<headIndex, globalExplicitConsumerOffset, token, call, uneven>>
  BY DEF CountProducer, LinkProducer, Enqueue, offsetVars, callVars
<1>2. Bounded'
  <2>1. CASE tailIndex' = tailIndex
    BY <2>1 DEF RotationInv, Bounded, Sent
  <2>2. CASE \E p \in Producer : Enqueue(p)
    <3>1. PICK p \in Producer : Enqueue(p)
      BY <2>2
    <3>2. /\ tailIndex \in [Producer -> Nat] /\ Sent = Units(tailIndex)
          /\ Cardinality(Sent) < MaxSent /\ IsFiniteSet(Sent)
          /\ tailIndex' = [tailIndex EXCEPT ![p] = @ + 1]
      BY <3>1 DEF RotationInv, Inv, TypeOK, Sent, Units, Enqueue, Bounded
    <3>3. Sent' = Units(tailIndex')
      BY DEF Sent, Units
    <3>4. /\ IsFiniteSet(Units(tailIndex')) /\ Cardinality(Units(tailIndex)) \in Nat
          /\ Cardinality(Units(tailIndex')) <= Cardinality(Units(tailIndex)) + 1
      BY <3>2, UnitsMore
    <3>5. Cardinality(Units(tailIndex')) \in Nat
      BY <3>4, FS_CardinalityType
    <3> QED
      BY <3>2, <3>3, <3>4, <3>5, Constants DEF Bounded
  <2> QED
    BY <2>1, <2>2 DEF CountProducer, LinkProducer
<1>3. ToAdvance' = ToAdvance /\ Taken' = Taken
  BY <1>1 DEF ToAdvance, At, Taken, Units
<1>4. \A c \in Consumers : Tracked(c)'
  BY <1>1, <1>3 DEF RotationInv, Tracked, Rotations, Since
<1>5. RotatesAtQuota'
  BY <1>1 DEF RotationInv, RotatesAtQuota, At
<1> QED
  BY <1>2, <1>3, <1>4, <1>5 DEF RotationInv

LEMMA InitRotation == Init => RotationInv
<1> SUFFICES ASSUME Init PROVE RotationInv
  OBVIOUS
<1>1. Inv
  BY InitInv
<1>2. Units(NoElements) = {}
  BY DEF Units, NoElements
<1>3. Sent = {} /\ Taken = {}
  BY <1>2 DEF Init, Sent, Taken, Units
<1>4. Bounded
  BY <1>3, FS_EmptySet, Constants DEF Bounded
<1>5. ToAdvance = {}
  BY DEF ToAdvance, At, Init, Idle
<1>6. \A c \in Consumers : token[c] = NoToken
  BY DEF Init
<1>7. \A c \in Consumers : Tracked(c)
  BY <1>6 DEF Tracked, NoToken, NewToken
<1>8. RotatesAtQuota
  BY <1>6, Constants DEF RotatesAtQuota, NoToken, NewToken
<1> QED
  BY <1>1, <1>3, <1>4, <1>5, <1>7, <1>8, FS_EmptySet DEF RotationInv

(***************************************************************************)
(* "Every 256 items from one producer, make everyone rotate": a consumer   *)
(* that took its quota has advanced the offset, or is about to, unless a   *)
(* bulk call has made its count uneven.  The offset must not come around   *)
(* while the token is not looking: after 2^32 rotations it would look as   *)
(* if there had been none, and fewer elements cannot cause as many.        *)
(***************************************************************************)
THEOREM RotatesAtQuotaAlways ==
  ASSUME MaxSent < OffsetSize
  PROVE  Spec => []RotatesAtQuota
<1>1. RotationInv /\ [Next]_vars => RotationInv'
  <2>1. SUFFICES ASSUME RotationInv, [Next]_vars PROVE RotationInv'
    OBVIOUS
  <2>2. Inv'
    BY <2>1, NextInv DEF RotationInv
  <2>3. CASE CountProducer \/ LinkProducer \/ \E p \in Producer : Enqueue(p)
    BY <2>1, <2>2, <2>3, ProducersKeep
  <2>4. CASE \E c \in Consumers : MakeToken(c) \/ Dequeue(c)
    BY <2>1, <2>2, <2>4, MakeTokenKeeps, DequeueKeeps
  <2>5. CASE UNCHANGED vars
    <3>1. UNCHANGED <<tailIndex, headIndex, globalExplicitConsumerOffset, token, call, uneven>>
      BY <2>5 DEF vars, offsetVars, callVars
    <3>2. Bounded' /\ ToAdvance' = ToAdvance /\ Taken' = Taken
      BY <2>1, <3>1 DEF RotationInv, Bounded, Sent, ToAdvance, At, Taken, Units
    <3>3. \A c \in Consumers : Tracked(c)'
      BY <2>1, <3>1, <3>2 DEF RotationInv, Tracked, Rotations, Since
    <3>4. RotatesAtQuota'
      BY <2>1, <3>1 DEF RotationInv, RotatesAtQuota, At
    <3> QED
      BY <2>1, <2>2, <3>2, <3>3, <3>4 DEF RotationInv
  <2> QED
    BY <2>1, <2>3, <2>4, <2>5 DEF Next
<1>2. RotationInv => RotatesAtQuota
  BY DEF RotationInv
<1> QED
  BY <1>1, <1>2, InitRotation, PTL DEF Spec

================================================================================
