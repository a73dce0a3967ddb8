-------------------------- MODULE ImplicitStream_proof --------------------------
(***************************************************************************)
(* Proof that ImplicitStream keeps the promise of StreamPromise, for any   *)
(* number of consumers and elements the counters can tell apart, wherever  *)
(* the counters start.                                                     *)
(*                                                                         *)
(* The argument is about numbers that do not wrap.  s is where the stream  *)
(* started, o counts the claims that were given back, oc[c] what consumer  *)
(* c read of that, and m[c] is the number of its claim; the variables hold *)
(* these modulo IndexSize.  The bases of its blocks are such numbers, too, *)
(* in what is proved of the blocks at the end.                             *)
(***************************************************************************)
EXTENDS ImplicitStream, FiniteSetTheorems, TLAPS

Mod(x) == x % IndexSize

At(p) == {c \in Consumers : pc[c] = p}
Count(p) == Cardinality(At(p))

Points == {"idle", "overcommit", "count", "claim", "check", "head", "excess",
           "move", "retire"}

Typed ==
  /\ sent \in 0 .. MaxSent /\ taken \in Nat
  /\ slot \in [Index -> Elements \cup {Nothing}]
  /\ pc \in [Consumers -> Points]
  /\ tail \in [Consumers -> Index] /\ overcommit \in [Consumers -> Index]
  /\ myDequeueCount \in [Consumers -> Index] /\ index \in [Consumers -> Index]
  /\ got \in [Consumers -> Elements \cup {Nothing}]
  /\ written \in BOOLEAN
  /\ written => sent < MaxSent
  /\ {tailIndex, headIndex, dequeueOptimisticCount, dequeueOvercommit} \subseteq Index

(* Element e is at place s + e from when it is written until it is moved.  *)
Present == taken .. (IF written THEN sent ELSE sent - 1)

InPlace(s) ==
  /\ tailIndex = Mod(s + sent) /\ headIndex = Mod(s + taken)
  /\ \A e \in Present : slot[Mod(s + e)] = e
  /\ \A c \in At("move") :
       \E e \in 0 .. taken - 1 : index[c] = Mod(s + e) /\ slot[Mod(s + e)] = e
  /\ \A c, d \in At("move") : index[c] = index[d] => c = d
  /\ \A c \in At("retire") : got[c] # Nothing
  /\ \A c \in Consumers : pc[c] \notin {"idle", "retire"} => got[c] = Nothing

(* How many claims there were.                                             *)
Claims(s, o) == s + o + taken + Count("check") + Count("excess") + Count("head")

(* The consumers that have yet to look at claims not later than that of c. *)
UpTo(m, c) == {d \in At("check") : m[d] <= m[c]}

(* What c read of the given back claims is not newer than its claim, and   *)
(* not so old that the numbers could not be compared.                      *)
Read(o, oc, c) ==
  /\ overcommit[c] = Mod(oc[c]) /\ oc[c] <= o
  /\ o - oc[c] + Count("check") + Count("excess")
       <= IndexSize \div 4 + Cardinality(Consumers) - (IF pc[c] = "check" THEN 0 ELSE 1)

(* If there is an element for c, there is one for each earlier claim, too: *)
(* the claims that c knows to be given back are among those before it.     *)
Enough(s, oc, m, c) ==
  \/ taken + Count("head") + Cardinality(UpTo(m, c)) <= m[c] - oc[c] + 1 - s
  \/ taken + Count("head") + Cardinality(UpTo(m, c)) <= sent

Claimed(s, o, oc, m, c) ==
  /\ myDequeueCount[c] = Mod(m[c]) /\ m[c] < Claims(s, o)
  /\ m[c] - oc[c] >= s
  /\ Enough(s, oc, m, c)

Balanced(s, o, oc, m) ==
  /\ dequeueOvercommit = Mod(o) /\ dequeueOptimisticCount = Mod(Claims(s, o))
  /\ \A c \in Consumers : pc[c] \in {"count", "claim", "check"} => Read(o, oc, c)
  /\ \A c \in At("check") : Claimed(s, o, oc, m, c)
  /\ \A c, d \in At("check") : m[c] = m[d] => c = d
  /\ taken + Count("head") <= sent

(* A caller without an excuse is alone with at least one element, so what  *)
(* it has read is still so.                                                *)
Excusable(s, o, oc) ==
  /\ excused = {c \in calling : c \in excused \/ taken = sent \/ calling # {c}}
  /\ \A c \in calling \ excused :
       /\ pc[c] \in {"count", "claim", "check"} => oc[c] = o
       /\ pc[c] \in {"overcommit", "count"} =>
            \E t \in taken + 1 .. sent : tail[c] = Mod(s + t)
       /\ pc[c] # "excess"

Ghosts == [Consumers -> Int]

Explained(s, o, oc, m) == InPlace(s) /\ Balanced(s, o, oc, m) /\ Excusable(s, o, oc)

Inv ==
  /\ Typed
  /\ \E s, o \in Int : \E oc, m \in Ghosts : Explained(s, o, oc, m)

--------------------------------------------------------------------------------
(* Remainders.                                                             *)

LEMMA DivMod ==
  ASSUME NEW n \in Nat \ {0}, NEW x \in Int
  PROVE  x % n \in 0 .. n - 1 /\ x \div n \in Int /\ x = n * (x \div n) + (x % n)
OBVIOUS

LEMMA AtLeastOnce ==
  ASSUME NEW n \in Nat \ {0}, NEW d \in Int
  PROVE  (d >= 1 => n * d >= n) /\ (d <= -1 => n * d <= -n)
<1>1. d >= 1 => n * d >= n
  OBVIOUS
<1>2. d <= -1 => n * d <= -n
  OBVIOUS
<1> QED
  BY <1>1, <1>2

(* The remainder is unique.                                                *)
LEMMA Remainder ==
  ASSUME NEW n \in Nat \ {0}, NEW q \in Int, NEW r \in 0 .. n - 1
  PROVE  (n * q + r) % n = r
<1>1. PICK x \in Int : x = n * q + r
  OBVIOUS
<1>2. PICK p \in Int, t \in 0 .. n - 1 : x = n * p + t /\ x % n = t
  BY DivMod
<1>3. n * (q - p) = t - r
  BY <1>1, <1>2
<1>4. ~(q - p >= 1) /\ ~(q - p <= -1)
  BY <1>3, AtLeastOnce
<1> QED
  BY <1>1, <1>2, <1>4

LEMMA WholeTurns ==
  ASSUME NEW n \in Nat \ {0}, NEW x \in Int, NEW k \in Int
  PROVE  (x + n * k) % n = x % n
<1>1. PICK q \in Int, r \in 0 .. n - 1 : x = n * q + r /\ x % n = r
  BY DivMod
<1>2. x + n * k = n * (q + k) + r /\ q + k \in Int
  BY <1>1
<1>3. (n * (q + k) + r) % n = r
  BY <1>2, Remainder
<1> QED
  BY <1>1, <1>2, <1>3

(* It does not matter where in a sum the remainder is taken.               *)
LEMMA ModOfSum ==
  ASSUME NEW n \in Nat \ {0}, NEW x \in Int, NEW y \in Int
  PROVE  /\ ((x % n) + y) % n = (x + y) % n
         /\ ((x % n) - (y % n)) % n = (x - y) % n
<1>1. PICK q \in Int, r \in 0 .. n - 1 : x = n * q + r /\ x % n = r
  BY DivMod
<1>2. PICK p \in Int, t \in 0 .. n - 1 : y = n * p + t /\ y % n = t
  BY DivMod
<1>3. (r + y) % n = (x + y) % n
  <2>1. PICK a \in Int : a = r + y
    OBVIOUS
  <2>2. (a + n * q) % n = a % n
    BY WholeTurns
  <2>3. a + n * q = x + y
    BY <1>1, <2>1
  <2> QED
    BY <2>1, <2>2, <2>3
<1>4. (r - t) % n = (x - y) % n
  <2>1. PICK a \in Int, k \in Int : a = r - t /\ k = q - p
    OBVIOUS
  <2>2. (a + n * k) % n = a % n
    BY WholeTurns
  <2>3. a + n * k = x - y
    BY <1>1, <1>2, <2>1
  <2> QED
    BY <2>1, <2>2, <2>3
<1> QED
  BY <1>1, <1>2, <1>3, <1>4

LEMMA Size == IndexSize \in Nat /\ IndexSize >= 2
BY SizesAreNat

(* Adding and subtracting counters, and telling them apart.                *)
LEMMA ModFacts ==
  ASSUME NEW x \in Int, NEW y \in Int
  PROVE  /\ Mod(x) \in Index
         /\ Plus(Mod(x), 1) = Mod(x + 1)
         /\ Minus(Mod(x), Mod(y)) = Mod(x - y)
<1>1. IndexSize \in Nat \ {0}
  BY Size
<1>2. Mod(x) \in Index
  BY <1>1, DivMod DEF Mod, Index
<1>3. Plus(Mod(x), 1) = Mod(x + 1)
  <2>1. PICK k \in Int : k = 1
    OBVIOUS
  <2>2. ((x % IndexSize) + k) % IndexSize = (x + k) % IndexSize
    BY <1>1, ModOfSum
  <2> QED
    BY <2>1, <2>2 DEF Mod, Plus
<1>4. Minus(Mod(x), Mod(y)) = Mod(x - y)
  BY <1>1, ModOfSum DEF Mod, Minus
<1> QED
  BY <1>2, <1>3, <1>4

LEMMA ModSmall ==
  ASSUME NEW r \in 0 .. IndexSize - 1
  PROVE  Mod(r) = r /\ Mod(r - IndexSize) = r
<1>1. IndexSize \in Nat \ {0} /\ r \in Int
  BY Size
<1>2. IndexSize * 0 + r = r /\ IndexSize * (-1) + r = r - IndexSize
  BY <1>1
<1>3. (IndexSize * 0 + r) % IndexSize = r /\ (IndexSize * (-1) + r) % IndexSize = r
  BY <1>1, Remainder
<1> QED
  BY <1>2, <1>3 DEF Mod

LEMMA ModInjective ==
  ASSUME NEW x \in Int, NEW y \in Int, Mod(x) = Mod(y),
         x - y < IndexSize, y - x < IndexSize
  PROVE  x = y
<1>1. Mod(x - y) = Mod(x - x)
  BY ModFacts
<1>2. Mod(x - x) = 0
  BY ModSmall, Size
<1>3. CASE x - y \in 0 .. IndexSize - 1
  BY <1>1, <1>2, <1>3, ModSmall
<1>4. CASE x - y \in -IndexSize .. -1
  <2>1. x - y + IndexSize \in 0 .. IndexSize - 1 /\ (x - y + IndexSize) - IndexSize = x - y
    BY <1>4, Size
  <2>2. Mod(x - y) = x - y + IndexSize
    BY <2>1, ModSmall
  <2> QED
    BY <1>1, <1>2, <1>4, <2>2, Size
<1> QED
  BY <1>3, <1>4, Size

(* circular_less_than() is < on numbers less than half a turn apart.       *)
LEMMA LessMeansLess ==
  ASSUME NEW x \in Int, NEW y \in Int,
         x - y <= IndexSize \div 2, y - x < IndexSize \div 2
  PROVE  CircularLessThan(Mod(x), Mod(y)) <=> x < y
<1>1. Minus(Mod(x), Mod(y)) = Mod(x - y)
  BY ModFacts
<1>2. IndexSize \div 2 \in Nat /\ 2 * (IndexSize \div 2) = IndexSize
  BY SizesAreNat
<1>3. CASE x >= y
  <2>1. x - y \in 0 .. IndexSize - 1
    BY <1>2, <1>3, Size
  <2>2. Mod(x - y) = x - y
    BY <2>1, ModSmall
  <2> QED
    BY <1>1, <1>2, <1>3, <2>2 DEF CircularLessThan
<1>4. CASE x < y
  <2>1. x - y + IndexSize \in 0 .. IndexSize - 1 /\ (x - y + IndexSize) - IndexSize = x - y
    BY <1>2, <1>4, Size
  <2>2. Mod(x - y) = x - y + IndexSize
    BY <2>1, ModSmall
  <2> QED
    BY <1>1, <1>2, <1>4, <2>2 DEF CircularLessThan
<1> QED
  BY <1>3, <1>4

--------------------------------------------------------------------------------
(* How many consumers are where.                                           *)

LEMMA CountType ==
  ASSUME NEW p
  PROVE  /\ IsFiniteSet(At(p)) /\ Count(p) \in Nat
         /\ Count(p) <= Cardinality(Consumers) /\ Cardinality(Consumers) \in Nat
<1>1. At(p) \subseteq Consumers
  BY DEF At
<1> QED
  BY <1>1, RoomToCompare, FS_Subset, FS_CardinalityType DEF Count

LEMMA Counts ==
  /\ Count("check") \in Nat /\ Count("excess") \in Nat /\ Count("head") \in Nat
  /\ Cardinality(Consumers) \in Nat
BY CountType, Zenon

LEMMA UpToType ==
  ASSUME NEW m, NEW c
  PROVE  IsFiniteSet(UpTo(m, c)) /\ Cardinality(UpTo(m, c)) \in Nat
<1>1. UpTo(m, c) \subseteq Consumers
  BY DEF UpTo, At
<1> QED
  BY <1>1, RoomToCompare, FS_Subset, FS_CardinalityType

(* Consumers at two places.                                                *)
LEMMA CountBoth ==
  ASSUME NEW p, NEW q, p # q
  PROVE  /\ IsFiniteSet(At(p) \cup At(q))
         /\ Cardinality(At(p) \cup At(q)) = Count(p) + Count(q)
<1>1. At(p) \cap At(q) = {}
  BY DEF At
<1>2. /\ IsFiniteSet(At(p) \cup At(q))
      /\ Cardinality(At(p) \cup At(q)) =
           Cardinality(At(p)) + Cardinality(At(q)) - Cardinality(At(p) \cap At(q))
  BY CountType, FS_Union
<1>3. Cardinality(At(p) \cap At(q)) = 0
  BY <1>1, FS_EmptySet
<1>4. Count(p) \in Nat /\ Count(q) \in Nat
  BY CountType
<1> QED
  BY <1>2, <1>3, <1>4 DEF Count

LEMMA RoomForOne ==
  ASSUME NEW c \in Consumers, NEW p, NEW q, p # q, c \notin At(p), c \notin At(q)
  PROVE  Count(p) + Count(q) + 1 <= Cardinality(Consumers)
<1>1. At(p) \cup At(q) \subseteq Consumers \ {c}
  BY DEF At
<1>2. /\ IsFiniteSet(Consumers \ {c})
      /\ Cardinality(Consumers \ {c}) = Cardinality(Consumers) - 1
  BY RoomToCompare, FS_RemoveElement
<1>3. Cardinality(At(p) \cup At(q)) <= Cardinality(Consumers \ {c})
  BY <1>1, <1>2, FS_Subset
<1>4. Count(p) \in Nat /\ Count(q) \in Nat /\ Cardinality(Consumers) \in Nat
  BY CountType
<1> QED
  BY <1>2, <1>3, <1>4, CountBoth

LEMMA RoomForTwo ==
  ASSUME NEW p, NEW q, p # q
  PROVE  Count(p) + Count(q) <= Cardinality(Consumers)
<1>1. At(p) \cup At(q) \subseteq Consumers
  BY DEF At
<1>2. Cardinality(At(p) \cup At(q)) <= Cardinality(Consumers)
  BY <1>1, RoomToCompare, FS_Subset
<1> QED
  BY <1>2, CountBoth

(* A consumer goes from one place to another.                              *)
LEMMA Moves ==
  ASSUME Typed, NEW c \in Consumers, NEW from, NEW to \in Points, from # to,
         Goto(c, from, to)
  PROVE  /\ At(from)' = At(from) \ {c} /\ c \in At(from)
         /\ At(to)' = At(to) \cup {c} /\ c \notin At(to)
         /\ Count(from)' = Count(from) - 1 /\ Count(from) >= 1
         /\ Count(to)' = Count(to) + 1
         /\ \A p : p # from /\ p # to => At(p)' = At(p) /\ Count(p)' = Count(p)
         /\ pc'[c] = to /\ pc[c] = from
         /\ \A d \in Consumers : d # c => pc'[d] = pc[d]
<1>1. /\ pc'[c] = to /\ pc[c] = from
      /\ \A d \in Consumers : d # c => pc'[d] = pc[d]
  BY DEF Typed, Goto
<1>2. /\ At(from)' = At(from) \ {c} /\ c \in At(from)
      /\ At(to)' = At(to) \cup {c} /\ c \notin At(to)
      /\ \A p : p # from /\ p # to => At(p)' = At(p)
  BY <1>1 DEF At
<1>3. Cardinality(At(from) \ {c}) = Cardinality(At(from)) - 1
  BY <1>2, CountType, FS_RemoveElement
<1>4. Cardinality(At(to) \cup {c}) = Cardinality(At(to)) + 1
  BY <1>2, CountType, FS_AddElement
<1>5. Count(from)' = Count(from) - 1 /\ Count(to)' = Count(to) + 1
  BY <1>2, <1>3, <1>4 DEF Count
<1>6. \A p : p # from /\ p # to => Count(p)' = Count(p)
  BY <1>2 DEF Count
<1>7. Count(from) >= 1
  <2>1. Cardinality(At(from) \ {c}) \in Nat
    BY CountType, FS_RemoveElement, FS_CardinalityType
  <2> QED
    BY <1>3, <2>1, CountType DEF Count
<1> QED
  BY <1>1, <1>2, <1>5, <1>6, <1>7

--------------------------------------------------------------------------------
(* The counters: who may take an element.                                  *)

LEMMA Halves ==
  /\ IndexSize \div 2 \in Nat /\ IndexSize \div 4 \in Nat
  /\ IndexSize \div 4 + Cardinality(Consumers) <= IndexSize \div 2
  /\ IndexSize \div 2 < IndexSize
<1>1. IndexSize \in Nat /\ IndexSize >= 2 /\ IndexSize % 2 = 0
  BY Size, SizesAreNat
<1>2. /\ IndexSize \div 2 \in Nat /\ 2 * (IndexSize \div 2) = IndexSize
      /\ IndexSize \div 4 \in Nat /\ 4 * (IndexSize \div 4) <= IndexSize
  BY <1>1
<1> QED
  BY <1>1, <1>2, RoomToCompare, FS_CardinalityType

(* Steps that have nothing to do with the claims.                          *)
LEMMA BalancedQuiet ==
  ASSUME NEW s \in Int, NEW o \in Int, NEW oc \in Ghosts, NEW m \in Ghosts,
         Typed, Balanced(s, o, oc, m), taken' = taken, sent' \in Nat, sent' >= sent,
         UNCHANGED <<dequeueOvercommit, dequeueOptimisticCount, overcommit, myDequeueCount>>,
         \A p \in {"check", "excess", "head"} : At(p)' = At(p),
         \A d \in Consumers : pc'[d] \in {"count", "claim"} => pc[d] \in {"count", "claim"}
  PROVE  Balanced(s, o, oc, m)'
<1>1. /\ At("check")' = At("check") /\ Count("check")' = Count("check")
      /\ Count("excess")' = Count("excess") /\ Count("head")' = Count("head")
  BY DEF Count
<1>2. Claims(s, o)' = Claims(s, o)
  BY <1>1 DEF Claims
<1>3. \A d \in Consumers : pc'[d] = "check" <=> pc[d] = "check"
  BY <1>1 DEF At
<1>4. ASSUME NEW d \in Consumers, pc'[d] \in {"count", "claim", "check"}
      PROVE  Read(o, oc, d)'
  <2>1. Read(o, oc, d)
    BY <1>3, <1>4 DEF Balanced
  <2> QED
    BY <1>1, <1>3, <2>1 DEF Read
<1>5. ASSUME NEW d \in At("check") PROVE Claimed(s, o, oc, m, d)'
  <2>1. UpTo(m, d)' = UpTo(m, d)
    BY <1>1 DEF UpTo
  <2>2. Claimed(s, o, oc, m, d)
    BY DEF Balanced
  <2>3. taken \in Nat /\ Count("head") \in Nat /\ Cardinality(UpTo(m, d)) \in Nat /\ sent \in Nat
    BY Counts, UpToType, SizesAreNat DEF Typed
  <2>4. Enough(s, oc, m, d)'
    BY <1>1, <2>1, <2>2, <2>3 DEF Claimed, Enough
  <2> QED
    BY <1>2, <2>2, <2>4 DEF Claimed
<1>6. taken' + Count("head")' <= sent'
  BY <1>1, Counts, SizesAreNat DEF Typed, Balanced
<1> QED
  BY <1>1, <1>2, <1>4, <1>5, <1>6 DEF Balanced

LEMMA BalancedRead ==
  ASSUME NEW s \in Int, NEW o \in Int, NEW oc \in Ghosts, NEW m \in Ghosts,
         Typed, Balanced(s, o, oc, m), NEW c \in Consumers, LoadOvercommit(c),
         NEW oc2, oc2 = [oc EXCEPT ![c] = o]
  PROVE  Balanced(s, o, oc2, m)'
<1> USE DEF LoadOvercommit, countVars
<1>1. Goto(c, "overcommit", "count")
  OBVIOUS
<1>2. /\ At("check")' = At("check") /\ c \notin At("check") /\ c \notin At("excess")
      /\ Count("check")' = Count("check") /\ Count("excess")' = Count("excess")
      /\ Count("head")' = Count("head")
      /\ pc'[c] = "count" /\ \A d \in Consumers : d # c => pc'[d] = pc[d]
  BY <1>1, Moves DEF Points, At
<1>3. Claims(s, o)' = Claims(s, o)
  BY <1>2 DEF Claims
<1>4. /\ oc2[c] = o /\ \A d \in Consumers : d # c => oc2[d] = oc[d]
      /\ overcommit'[c] = dequeueOvercommit
      /\ \A d \in Consumers : d # c => overcommit'[d] = overcommit[d]
  BY DEF Ghosts, Typed
<1>5. Read(o, oc2, c)'
  <2>1. Count("check") + Count("excess") + 1 <= Cardinality(Consumers)
    BY <1>2, RoomForOne
  <2>2. overcommit'[c] = Mod(o)
    BY <1>4 DEF Balanced
  <2> QED
    BY <1>2, <1>4, <2>1, <2>2, Halves, Counts DEF Read
<1>6. ASSUME NEW d \in Consumers, d # c, pc'[d] \in {"count", "claim", "check"}
      PROVE  Read(o, oc2, d)'
  <2>1. Read(o, oc, d)
    BY <1>2, <1>6 DEF Balanced
  <2> QED
    BY <1>2, <1>4, <1>6, <2>1 DEF Read
<1>7. ASSUME NEW d \in At("check") PROVE Claimed(s, o, oc2, m, d)'
  <2>1. UpTo(m, d)' = UpTo(m, d) /\ d \in Consumers /\ d # c
    BY <1>2 DEF UpTo, At
  <2>2. Claimed(s, o, oc, m, d)
    BY DEF Balanced
  <2>3. Enough(s, oc2, m, d)'
    BY <1>2, <1>4, <2>1, <2>2 DEF Claimed, Enough
  <2> QED
    BY <1>3, <1>4, <2>1, <2>2, <2>3 DEF Claimed
<1> QED
  BY <1>2, <1>3, <1>5, <1>6, <1>7 DEF Balanced

(* No rival has read the given back claims a quarter turn ago.             *)
LEMMA RivalsAreFresh ==
  ASSUME NEW s \in Int, NEW o \in Int, NEW oc \in Ghosts, NEW m \in Ghosts,
         Balanced(s, o, oc, m), NEW c, NoRivalIsAncient(c),
         NEW d \in Consumers \ {c}, pc[d] \in {"count", "claim", "check"}
  PROVE  o - oc[d] < IndexSize \div 4
<1>1. Minus(dequeueOvercommit, overcommit[d]) < IndexSize \div 4
  BY DEF NoRivalIsAncient
<1>2. Read(o, oc, d) /\ dequeueOvercommit = Mod(o) /\ oc[d] \in Int
  BY DEF Balanced, Ghosts
<1>3. Minus(dequeueOvercommit, overcommit[d]) = Mod(o - oc[d])
  BY <1>2, ModFacts DEF Read
<1>4. o - oc[d] \in 0 .. IndexSize - 1
  BY <1>2, Halves, Counts, Size DEF Read
<1>5. Mod(o - oc[d]) = o - oc[d]
  BY <1>4, ModSmall
<1> QED
  BY <1>1, <1>3, <1>5

(* A claim is numbered after all the others.                               *)
LEMMA BalancedClaim ==
  ASSUME NEW s \in Int, NEW o \in Int, NEW oc \in Ghosts, NEW m \in Ghosts,
         Typed, Balanced(s, o, oc, m), NEW c \in Consumers, Claim(c),
         NEW m2, NEW n, n = Claims(s, o), m2 = [m EXCEPT ![c] = n]
  PROVE  Balanced(s, o, oc, m2)'
<1>1. /\ Goto(c, "claim", "check") /\ pc[c] = "claim" /\ NoRivalIsAncient(c)
      /\ UNCHANGED <<dequeueOvercommit, overcommit, sent, taken>>
      /\ myDequeueCount' = [myDequeueCount EXCEPT ![c] = dequeueOptimisticCount]
      /\ dequeueOptimisticCount' = Plus(dequeueOptimisticCount, 1)
  BY DEF Claim, Goto
<1>2. /\ At("check")' = At("check") \cup {c} /\ c \notin At("check")
      /\ Count("check")' = Count("check") + 1 /\ Count("excess")' = Count("excess")
      /\ Count("head")' = Count("head")
      /\ pc'[c] = "check" /\ \A d \in Consumers : d # c => pc'[d] = pc[d]
  BY <1>1, Moves DEF Points
<1>3. /\ Count("check") \in Nat /\ Count("excess") \in Nat /\ Count("head") \in Nat
      /\ taken \in Nat /\ n \in Int /\ sent \in Nat /\ Cardinality(Consumers) \in Nat
  BY Counts, SizesAreNat DEF Typed, Claims
<1>4. Claims(s, o)' = n + 1
  BY <1>1, <1>2, <1>3 DEF Claims
<1>5. /\ m2[c] = n /\ \A d \in Consumers : d # c => m2[d] = m[d]
      /\ myDequeueCount'[c] = Mod(n)
      /\ \A d \in Consumers : d # c => myDequeueCount'[d] = myDequeueCount[d]
      /\ \A d \in Consumers : oc[d] \in Int /\ m[d] \in Int
  BY <1>1 DEF Ghosts, Typed, Balanced
<1>6. dequeueOptimisticCount' = Mod(n + 1)
  BY <1>1, <1>3, ModFacts DEF Balanced
<1>7. Read(o, oc, c)'
  <2>1. Read(o, oc, c)
    BY <1>1 DEF Balanced
  <2> QED
    BY <1>1, <1>2, <1>3, <1>5, <2>1, Halves DEF Read
<1>8. ASSUME NEW d \in Consumers \ {c}, pc'[d] \in {"count", "claim", "check"}
      PROVE  Read(o, oc, d)'
  <2>1. Read(o, oc, d) /\ pc'[d] = pc[d]
    BY <1>2, <1>8 DEF Balanced
  <2>2. o - oc[d] < IndexSize \div 4
    BY <1>1, <1>2, <1>8, RivalsAreFresh
  <2>3. CASE pc[d] = "check"
    <3>1. (Count("check") + Count("excess")) + 1 <= Cardinality(Consumers)
      BY <1>1, RoomForOne DEF At
    <3> QED
      BY <1>1, <1>2, <1>3, <1>5, <2>1, <2>2, <2>3, <3>1, Halves DEF Read
  <2>4. CASE pc[d] # "check"
    <3>1. (Count("check") + Count("excess")) + 1 <= Cardinality(Consumers)
      BY <1>1, RoomForOne DEF At
    <3> QED
      BY <1>1, <1>2, <1>3, <1>5, <2>1, <2>2, <2>4, <3>1, Halves DEF Read
  <2> QED
    BY <2>3, <2>4
<1>9. Claimed(s, o, oc, m2, c)'
  <2>1. UpTo(m2, c)' \subseteq At("check")'
    BY DEF UpTo
  <2>2. Cardinality(UpTo(m2, c)') <= Cardinality(At("check") \cup {c})
    <3>1. IsFiniteSet(At("check") \cup {c})
      BY CountType, FS_AddElement
    <3> QED
      BY <1>2, <2>1, <3>1, FS_Subset
  <2>3. Cardinality(UpTo(m2, c))' <= Count("check") + 1
    <3>1. Cardinality(At("check") \cup {c}) = Count("check") + 1
      BY <1>2, CountType, FS_AddElement DEF Count
    <3> QED
      BY <2>2, <3>1
  <2>4. Cardinality(UpTo(m2, c))' \in Nat
    <3>1. IsFiniteSet(UpTo(m2, c)')
      BY <2>1, <1>2, CountType, FS_AddElement, FS_Subset
    <3> QED
      BY <3>1, FS_CardinalityType
  <2>5. oc[c] <= o
    BY <1>1 DEF Balanced, Read
  <2>6. n = s + o + taken + Count("check") + Count("excess") + Count("head")
    BY DEF Claims
  <2>7. taken + Count("head") + Cardinality(UpTo(m2, c))' <= n - oc[c] + 1 - s
    BY <1>3, <1>5, <2>3, <2>4, <2>5, <2>6
  <2>8. Enough(s, oc, m2, c)'
    BY <1>1, <1>2, <1>5, <2>7 DEF Enough
  <2>9. n - oc[c] >= s
    BY <1>3, <1>5, <2>5, <2>6
  <2> QED
    BY <1>3, <1>4, <1>5, <2>8, <2>9 DEF Claimed
<1>10. ASSUME NEW d \in At("check") PROVE Claimed(s, o, oc, m2, d)'
  <2>1. Claimed(s, o, oc, m, d) /\ d \in Consumers /\ d # c
    BY <1>2 DEF Balanced, At
  <2>2. m[d] < n
    BY <2>1 DEF Claimed
  <2>3. m2[c] = n /\ \A e \in At("check") : m2[e] = m[e]
    BY <1>2, <1>5 DEF At
  <2>4. UpTo(m2, d)' = UpTo(m, d)
    <3>1. ~(m2[c] <= m2[d]) /\ m2[d] = m[d]
      BY <1>3, <1>5, <2>1, <2>2
    <3> QED
      BY <1>2, <2>3, <3>1 DEF UpTo
  <2>5. Enough(s, oc, m2, d)'
    BY <1>1, <1>2, <1>5, <2>1, <2>4 DEF Claimed, Enough
  <2> QED
    BY <1>3, <1>4, <1>5, <2>1, <2>2, <2>5 DEF Claimed
<1>11. \A d, e \in At("check")' : m2[d] = m2[e] => d = e
  <2>1. \A d \in At("check") : d \in Consumers /\ m[d] < n
    BY DEF Balanced, Claimed, At
  <2> QED
    BY <1>2, <1>3, <1>5, <2>1 DEF Balanced
<1>12. dequeueOvercommit' = Mod(o) /\ taken' + Count("head")' <= sent'
  BY <1>1, <1>2 DEF Balanced
<1> QED
  BY <1>2, <1>4, <1>6, <1>7, <1>8, <1>9, <1>10, <1>11, <1>12 DEF Balanced

LEMMA ReadKept ==
  ASSUME NEW o \in Int, NEW o2 \in Int, NEW oc \in Ghosts, NEW d \in Consumers,
         Read(o, oc, d), overcommit'[d] = overcommit[d], pc'[d] = pc[d], o2 >= o,
         Count("check")' + Count("excess")' + o2 <= Count("check") + Count("excess") + o,
         Count("check")' \in Int, Count("excess")' \in Int
  PROVE  Read(o2, oc, d)'
<1>1. PICK k \in Int : k = IndexSize \div 4 + Cardinality(Consumers)
                             - (IF pc[d] = "check" THEN 0 ELSE 1)
  BY Halves, Counts
<1>2. oc[d] \in Int /\ oc[d] <= o /\ o - oc[d] + Count("check") + Count("excess") <= k
  BY <1>1 DEF Read, Ghosts
<1>3. oc[d] <= o2 /\ o2 - oc[d] + Count("check")' + Count("excess")' <= k
  BY <1>2, Counts
<1> QED
  BY <1>1, <1>3 DEF Read

(* The second look at the counters says yes just when there is an element. *)
LEMMA LookIsRight ==
  ASSUME NEW s \in Int, NEW o \in Int, NEW oc \in Ghosts, NEW m \in Ghosts,
         Typed, Balanced(s, o, oc, m), NEW c \in At("check"),
         tailIndex = Mod(s + sent)
  PROVE  CircularLessThan(Minus(myDequeueCount[c], overcommit[c]), tailIndex)
           <=> m[c] - oc[c] < s + sent
<1>1. Claimed(s, o, oc, m, c) /\ Read(o, oc, c) /\ pc[c] = "check" /\ taken + Count("head") <= sent
  BY DEF Balanced, At
<1>2. m[c] \in Int /\ oc[c] \in Int /\ sent \in Nat /\ sent <= MaxSent /\ MaxSent \in Nat /\ taken \in Nat
  BY SizesAreNat DEF Ghosts, At, Typed
<1>3. Minus(myDequeueCount[c], overcommit[c]) = Mod(m[c] - oc[c])
  BY <1>1, <1>2, ModFacts DEF Claimed, Read
<1>4. (s + sent) - (m[c] - oc[c]) < IndexSize \div 2
  BY <1>1, <1>2, RoomToCompare, Halves DEF Claimed
<1>5. (m[c] - oc[c]) - (s + sent) <= IndexSize \div 2
  <2>1. o - oc[c] + Count("check") + Count("excess") <= IndexSize \div 2
    BY <1>1, <1>2, Halves, Counts DEF Read
  <2>2. m[c] < s + o + taken + Count("check") + Count("excess") + Count("head")
    BY <1>1 DEF Claimed, Claims
  <2> QED
    BY <1>1, <1>2, <2>1, <2>2, Halves, Counts
<1>6. PICK x \in Int, y \in Int : x = m[c] - oc[c] /\ y = s + sent
  BY <1>2
<1> QED
  BY <1>3, <1>4, <1>5, <1>6, LessMeansLess

LEMMA BalancedRefused ==
  ASSUME NEW s \in Int, NEW o \in Int, NEW oc \in Ghosts, NEW m \in Ghosts,
         Typed, Balanced(s, o, oc, m), NEW c \in Consumers, CheckClaim(c),
         Goto(c, "check", "excess")
  PROVE  Balanced(s, o, oc, m)'
<1>1. /\ UNCHANGED <<dequeueOvercommit, dequeueOptimisticCount, overcommit,
                    myDequeueCount, sent, taken>>
  BY DEF CheckClaim, countVars
<1>2. /\ At("check")' = At("check") \ {c} /\ c \in At("check")
      /\ Count("check")' = Count("check") - 1 /\ Count("excess")' = Count("excess") + 1
      /\ Count("head")' = Count("head")
      /\ pc'[c] = "excess" /\ \A d \in Consumers : d # c => pc'[d] = pc[d]
  BY Moves DEF Points
<1>3. sent \in Nat /\ taken \in Nat /\ \A d \in Consumers : oc[d] \in Int /\ m[d] \in Int
  BY SizesAreNat DEF Typed, Ghosts
<1>4. Claims(s, o)' = Claims(s, o)
  BY <1>1, <1>2, <1>3, Counts DEF Claims
<1>5. ASSUME NEW d \in Consumers, pc'[d] \in {"count", "claim", "check"}
      PROVE  Read(o, oc, d)'
  <2>1. d # c /\ pc'[d] = pc[d]
    BY <1>2, <1>5
  <2>2. Read(o, oc, d)
    BY <1>5, <2>1 DEF Balanced
  <2>3. /\ Count("check")' + Count("excess")' + o <= Count("check") + Count("excess") + o
        /\ Count("check")' \in Int /\ Count("excess")' \in Int
    BY <1>2, Counts
  <2> QED
    BY <1>1, <2>1, <2>2, <2>3, ReadKept
<1>6. ASSUME NEW d \in At("check"), d # c PROVE Claimed(s, o, oc, m, d)'
  <2>1. UpTo(m, d)' \subseteq UpTo(m, d)
    BY <1>2 DEF UpTo
  <2>2. /\ Cardinality(UpTo(m, d)') <= Cardinality(UpTo(m, d))
        /\ Cardinality(UpTo(m, d)') \in Nat
    BY <2>1, UpToType, FS_Subset, FS_CardinalityType
  <2>3. PICK k \in Nat : k = Cardinality(UpTo(m, d))' /\ k <= Cardinality(UpTo(m, d))
    BY <2>2
  <2>4. Cardinality(UpTo(m, d)) \in Nat /\ d \in Consumers
    BY UpToType DEF At
  <2>5. Claimed(s, o, oc, m, d)
    BY DEF Balanced
  <2>6. Enough(s, oc, m, d)'
    BY <1>1, <1>2, <1>3, <2>3, <2>4, <2>5, Counts DEF Enough, Claimed
  <2> QED
    BY <1>1, <1>4, <2>5, <2>6 DEF Claimed
<1> QED
  BY <1>1, <1>2, <1>4, <1>5, <1>6 DEF Balanced

(* Granting one claim leaves enough for those that were enough before it.  *)
LEMMA BalancedGranted ==
  ASSUME NEW s \in Int, NEW o \in Int, NEW oc \in Ghosts, NEW m \in Ghosts,
         Typed, Balanced(s, o, oc, m), NEW c \in Consumers, CheckClaim(c),
         Goto(c, "check", "head"), m[c] - oc[c] < s + sent
  PROVE  Balanced(s, o, oc, m)'
<1>1. /\ UNCHANGED <<dequeueOvercommit, dequeueOptimisticCount, overcommit,
                    myDequeueCount, sent, taken>>
  BY DEF CheckClaim, countVars
<1>2. /\ At("check")' = At("check") \ {c} /\ c \in At("check")
      /\ Count("check")' = Count("check") - 1 /\ Count("head")' = Count("head") + 1
      /\ Count("excess")' = Count("excess")
      /\ pc'[c] = "head" /\ \A d \in Consumers : d # c => pc'[d] = pc[d]
  BY Moves DEF Points
<1>3. sent \in Nat /\ taken \in Nat /\ \A d \in Consumers : oc[d] \in Int /\ m[d] \in Int
  BY SizesAreNat DEF Typed, Ghosts
<1>4. Claims(s, o)' = Claims(s, o)
  BY <1>1, <1>2, <1>3, Counts DEF Claims
<1>5. ASSUME NEW d \in Consumers, pc'[d] \in {"count", "claim", "check"}
      PROVE  Read(o, oc, d)'
  <2>1. d # c /\ pc'[d] = pc[d]
    BY <1>2, <1>5
  <2>2. Read(o, oc, d)
    BY <1>5, <2>1 DEF Balanced
  <2>3. /\ Count("check")' + Count("excess")' + o <= Count("check") + Count("excess") + o
        /\ Count("check")' \in Int /\ Count("excess")' \in Int
    BY <1>2, Counts
  <2> QED
    BY <1>1, <2>1, <2>2, <2>3, ReadKept
<1>6. taken + Count("head") + Cardinality(UpTo(m, c)) <= sent
  <2>1. Enough(s, oc, m, c)
    BY <1>2 DEF Balanced, Claimed
  <2>2. Cardinality(UpTo(m, c)) \in Nat
    BY UpToType
  <2> QED
    BY <1>3, <2>1, <2>2, Counts DEF Enough
<1>7. ASSUME NEW d \in At("check"), d # c PROVE Claimed(s, o, oc, m, d)'
  <2>1. Claimed(s, o, oc, m, d) /\ d \in Consumers /\ m[c] # m[d]
    BY <1>2, <1>7 DEF Balanced, At
  <2>2. UpTo(m, d)' = UpTo(m, d) \ {c}
    BY <1>2 DEF UpTo
  <2>3. CASE m[c] < m[d]
    <3>1. c \in UpTo(m, d)
      BY <1>2, <1>3, <2>1, <2>3 DEF UpTo
    <3>2. Cardinality(UpTo(m, d))' = Cardinality(UpTo(m, d)) - 1
      BY <2>2, <3>1, UpToType, FS_RemoveElement
    <3>3. Cardinality(UpTo(m, d)) \in Nat
      BY UpToType
    <3>4. Enough(s, oc, m, d)'
      BY <1>1, <1>2, <1>3, <2>1, <3>2, <3>3, Counts DEF Claimed, Enough
    <3> QED
      BY <1>1, <1>4, <2>1, <3>4 DEF Claimed
  <2>4. CASE m[d] < m[c]
    <3>1. c \notin UpTo(m, d) /\ UpTo(m, d) \cup {c} \subseteq UpTo(m, c)
      BY <1>2, <1>3, <2>1, <2>4 DEF UpTo, At
    <3>2. Cardinality(UpTo(m, d) \cup {c}) = Cardinality(UpTo(m, d)) + 1
      BY <3>1, UpToType, FS_AddElement
    <3>3. Cardinality(UpTo(m, d) \cup {c}) <= Cardinality(UpTo(m, c))
      BY <3>1, UpToType, FS_Subset
    <3>4. Cardinality(UpTo(m, d))' = Cardinality(UpTo(m, d))
      BY <2>2, <3>1
    <3>5. Cardinality(UpTo(m, d)) \in Nat /\ Cardinality(UpTo(m, c)) \in Nat
      BY UpToType
    <3>6. taken' + Count("head")' + Cardinality(UpTo(m, d))' <= sent'
      BY <1>1, <1>2, <1>3, <1>6, <3>2, <3>3, <3>4, <3>5, Counts
    <3> QED
      BY <1>1, <1>4, <2>1, <3>6 DEF Claimed, Enough
  <2>5. m[c] \in Int /\ m[d] \in Int
    BY <1>3, <2>1
  <2> QED
    BY <2>1, <2>3, <2>4, <2>5
<1>8. taken' + Count("head")' <= sent'
  <2>1. c \in UpTo(m, c)
    BY <1>2, <1>3 DEF UpTo, At
  <2>2. Cardinality(UpTo(m, c)) >= 1
    <3>1. UpTo(m, c) # {}
      BY <2>1
    <3> QED
      BY <3>1, UpToType, FS_EmptySet
  <2>3. Cardinality(UpTo(m, c)) \in Nat
    BY UpToType
  <2> QED
    BY <1>1, <1>2, <1>3, <1>6, <2>2, <2>3, Counts
<1> QED
  BY <1>1, <1>2, <1>4, <1>5, <1>7, <1>8 DEF Balanced

LEMMA BalancedGivenBack ==
  ASSUME NEW s \in Int, NEW o \in Int, NEW oc \in Ghosts, NEW m \in Ghosts,
         Typed, Balanced(s, o, oc, m), NEW c \in Consumers, GiveBack(c)
  PROVE  Balanced(s, o + 1, oc, m)'
<1>1. /\ UNCHANGED <<dequeueOptimisticCount, overcommit, myDequeueCount, sent, taken>>
      /\ Goto(c, "excess", "idle") /\ dequeueOvercommit' = Plus(dequeueOvercommit, 1)
  BY DEF GiveBack, localVars
<1>2. /\ At("check")' = At("check") /\ Count("check")' = Count("check")
      /\ Count("head")' = Count("head") /\ Count("excess")' = Count("excess") - 1
      /\ pc'[c] = "idle" /\ \A d \in Consumers : d # c => pc'[d] = pc[d]
  BY <1>1, Moves DEF Points
<1>3. sent \in Nat /\ taken \in Nat /\ \A d \in Consumers : oc[d] \in Int /\ m[d] \in Int
  BY SizesAreNat DEF Typed, Ghosts
<1>4. Claims(s, o + 1)' = Claims(s, o)
  BY <1>1, <1>2, <1>3, Counts DEF Claims
<1>5. dequeueOvercommit' = Mod(o + 1)
  BY <1>1, ModFacts DEF Balanced
<1>6. ASSUME NEW d \in Consumers, pc'[d] \in {"count", "claim", "check"}
      PROVE  Read(o + 1, oc, d)'
  <2>1. d # c /\ pc'[d] = pc[d]
    BY <1>2, <1>6
  <2>2. Read(o, oc, d)
    BY <1>6, <2>1 DEF Balanced
  <2>3. /\ Count("check")' + Count("excess")' + (o + 1) <= Count("check") + Count("excess") + o
        /\ Count("check")' \in Int /\ Count("excess")' \in Int
    BY <1>2, Counts
  <2>4. PICK o2 \in Int : o2 = o + 1
    OBVIOUS
  <2>5. Read(o2, oc, d)'
    BY <1>1, <2>1, <2>2, <2>3, <2>4, ReadKept
  <2> QED
    BY <2>4, <2>5
<1>7. ASSUME NEW d \in At("check") PROVE Claimed(s, o + 1, oc, m, d)'
  <2>1. UpTo(m, d)' = UpTo(m, d) /\ Claimed(s, o, oc, m, d)
    BY <1>2 DEF UpTo, Balanced
  <2> QED
    BY <1>1, <1>2, <1>4, <2>1 DEF Claimed, Enough
<1> QED
  BY <1>1, <1>2, <1>4, <1>5, <1>6, <1>7 DEF Balanced

LEMMA BalancedTaken ==
  ASSUME NEW s \in Int, NEW o \in Int, NEW oc \in Ghosts, NEW m \in Ghosts,
         Typed, Balanced(s, o, oc, m), NEW c \in Consumers, TakeHead(c)
  PROVE  Balanced(s, o, oc, m)' /\ taken < sent
<1>1. /\ UNCHANGED <<dequeueOptimisticCount, dequeueOvercommit, overcommit,
                    myDequeueCount, sent>>
      /\ Goto(c, "head", "move") /\ taken' = taken + 1
  BY DEF TakeHead
<1>2. /\ At("check")' = At("check") /\ Count("check")' = Count("check")
      /\ Count("head")' = Count("head") - 1 /\ Count("head") >= 1
      /\ Count("excess")' = Count("excess")
      /\ pc'[c] = "move" /\ \A d \in Consumers : d # c => pc'[d] = pc[d]
  BY <1>1, Moves DEF Points
<1>3. sent \in Nat /\ taken \in Nat /\ \A d \in Consumers : oc[d] \in Int /\ m[d] \in Int
  BY SizesAreNat DEF Typed, Ghosts
<1>4. Claims(s, o)' = Claims(s, o) /\ taken' + Count("head")' = taken + Count("head")
  BY <1>1, <1>2, <1>3, Counts DEF Claims
<1>5. ASSUME NEW d \in Consumers, pc'[d] \in {"count", "claim", "check"}
      PROVE  Read(o, oc, d)'
  <2>1. d # c /\ pc'[d] = pc[d]
    BY <1>2, <1>5
  <2>2. Read(o, oc, d)
    BY <1>5, <2>1 DEF Balanced
  <2> QED
    BY <1>1, <1>2, <2>1, <2>2 DEF Read
<1>6. ASSUME NEW d \in At("check") PROVE Claimed(s, o, oc, m, d)'
  <2>1. UpTo(m, d)' = UpTo(m, d) /\ Claimed(s, o, oc, m, d)
    BY <1>2 DEF UpTo, Balanced
  <2> QED
    BY <1>1, <1>2, <1>4, <2>1 DEF Claimed, Enough
<1>7. taken < sent
  BY <1>2, <1>3, Counts DEF Balanced
<1> QED
  BY <1>1, <1>2, <1>4, <1>5, <1>6, <1>7 DEF Balanced

--------------------------------------------------------------------------------
(* The elements: where they are.                                           *)

LEMMA PlusType ==
  ASSUME NEW a \in Index, NEW b \in Index \cup {1}
  PROVE  Plus(a, b) \in Index
<1>1. a + b \in Int /\ IndexSize \in Nat \ {0}
  BY Size DEF Index
<1> QED
  BY <1>1, DivMod DEF Plus, Index

LEMMA TypedNext ==
  ASSUME Typed, EnqueueWrite \/ EnqueuePublish \/ \E c \in Consumers : Dequeue(c)
  PROVE  Typed'
<1>1. CASE EnqueueWrite
  <2>1. sent \in Elements
    BY <1>1, SizesAreNat DEF Typed, EnqueueWrite, Elements
  <2> QED
    BY <1>1, <2>1 DEF Typed, EnqueueWrite, countVars, localVars
<1>2. CASE EnqueuePublish
  <2>1. sent + 1 \in 0 .. MaxSent /\ Plus(tailIndex, 1) \in Index
    BY <1>2, SizesAreNat, PlusType DEF Typed, EnqueuePublish
  <2> QED
    BY <1>2, <2>1 DEF Typed, EnqueuePublish, countVars, blockVars, localVars
<1>3. ASSUME NEW c \in Consumers, LoadTail(c) PROVE Typed'
  BY <1>3 DEF Typed, LoadTail, Goto, countVars, blockVars, Points
<1>4. ASSUME NEW c \in Consumers, LoadOvercommit(c) PROVE Typed'
  BY <1>4 DEF Typed, LoadOvercommit, Goto, countVars, blockVars, Points
<1>5. ASSUME NEW c \in Consumers, CheckCount(c) PROVE Typed'
  BY <1>5 DEF Typed, CheckCount, Goto, countVars, blockVars, localVars, Points
<1>6. ASSUME NEW c \in Consumers, Claim(c) PROVE Typed'
  <2>1. Plus(dequeueOptimisticCount, 1) \in Index
    BY PlusType DEF Typed
  <2> QED
    BY <1>6, <2>1 DEF Typed, Claim, Goto, blockVars, Points
<1>7. ASSUME NEW c \in Consumers, CheckClaim(c) PROVE Typed'
  BY <1>7 DEF Typed, CheckClaim, Goto, countVars, blockVars, Points
<1>8. ASSUME NEW c \in Consumers, GiveBack(c) PROVE Typed'
  <2>1. Plus(dequeueOvercommit, 1) \in Index
    BY PlusType DEF Typed
  <2> QED
    BY <1>8, <2>1 DEF Typed, GiveBack, Goto, blockVars, localVars, Points
<1>9. ASSUME NEW c \in Consumers, TakeHead(c) PROVE Typed'
  <2>1. Plus(headIndex, 1) \in Index /\ taken + 1 \in Nat
    BY PlusType DEF Typed
  <2> QED
    BY <1>9, <2>1 DEF Typed, TakeHead, Goto, blockVars, Points
<1>10. ASSUME NEW c \in Consumers, MoveOut(c) PROVE Typed'
  <2>1. slot[index[c]] \in Elements \cup {Nothing}
    BY DEF Typed
  <2> QED
    BY <1>10, <2>1 DEF Typed, MoveOut, Goto, countVars, localVars, Points
<1>11. ASSUME NEW c \in Consumers, Retire(c) PROVE Typed'
  BY <1>11 DEF Typed, Retire, Goto, countVars, localVars, Points
<1> QED
  BY <1>1, <1>2, <1>3, <1>4, <1>5, <1>6, <1>7, <1>8, <1>9, <1>10, <1>11, Zenon DEF Dequeue

(* Elements have places of their own.                                      *)
LEMMA PlacesDiffer ==
  ASSUME NEW s \in Int, NEW e \in 0 .. MaxSent, NEW f \in 0 .. MaxSent,
         Mod(s + e) = Mod(s + f)
  PROVE  e = f
<1>1. MaxSent \in Nat /\ MaxSent < IndexSize
  BY SizesAreNat, RoomToCompare, Halves, Size
<1>2. PICK x \in Int, y \in Int : x = s + e /\ y = s + f
  BY <1>1
<1>3. x - y < IndexSize /\ y - x < IndexSize
  BY <1>1, <1>2, Size
<1>4. x = y
  BY <1>2, <1>3, ModInjective
<1> QED
  BY <1>1, <1>2, <1>4

LEMMA InPlaceQuiet ==
  ASSUME NEW s \in Int, InPlace(s), At("move")' = At("move"),
         UNCHANGED <<tailIndex, headIndex, slot, index, got, sent, taken, written>>,
         At("retire")' \subseteq At("retire"),
         \A c \in Consumers : pc'[c] \notin {"idle", "retire"} => pc[c] \notin {"idle", "retire"}
  PROVE  InPlace(s)'
<1>1. Present' = Present
  BY DEF Present
<1> QED
  BY <1>1 DEF InPlace

LEMMA InPlaceCalled ==
  ASSUME NEW s \in Int, Typed, InPlace(s), NEW c \in Consumers, LoadTail(c)
  PROVE  InPlace(s)'
<1>1. /\ UNCHANGED <<tailIndex, headIndex, slot, index, sent, taken, written>>
      /\ Goto(c, "idle", "overcommit") /\ got' = [got EXCEPT ![c] = Nothing]
  BY DEF LoadTail, countVars, blockVars
<1>2. /\ At("move")' = At("move") /\ At("retire")' = At("retire") /\ c \notin At("retire")
      /\ \A d \in Consumers : d # c => pc'[d] = pc[d]
  BY <1>1, Moves DEF Points, At
<1>3. Present' = Present
  BY <1>1 DEF Present
<1>4. got'[c] = Nothing /\ \A d \in Consumers : d # c => got'[d] = got[d]
  BY <1>1 DEF Typed
<1>5. \A d \in At("retire") : got'[d] # Nothing
  BY <1>2, <1>4 DEF InPlace, At
<1>6. \A d \in Consumers : pc'[d] \notin {"idle", "retire"} => got'[d] = Nothing
  BY <1>2, <1>4 DEF InPlace
<1> QED
  BY <1>1, <1>2, <1>3, <1>5, <1>6 DEF InPlace

LEMMA InPlaceWritten ==
  ASSUME NEW s \in Int, Typed, InPlace(s), taken <= sent, EnqueueWrite
  PROVE  /\ InPlace(s)'
         /\ \A c \in At("move") : slot'[index[c]] = slot[index[c]]
<1>1. /\ UNCHANGED <<tailIndex, headIndex, index, got, sent, taken, pc>>
      /\ ~written /\ written' = TRUE /\ sent < MaxSent
      /\ slot' = [slot EXCEPT ![tailIndex] = sent]
  BY DEF EnqueueWrite, countVars, localVars
<1>2. sent \in Nat /\ taken \in Nat /\ MaxSent \in Nat
  BY SizesAreNat DEF Typed
<1>3. /\ tailIndex = Mod(s + sent) /\ tailIndex \in Index /\ slot'[tailIndex] = sent
      /\ \A i \in Index : i # tailIndex => slot'[i] = slot[i]
  BY <1>1 DEF Typed, InPlace
<1>4. ASSUME NEW e \in 0 .. sent - 1 PROVE slot'[Mod(s + e)] = slot[Mod(s + e)]
  <2>1. e \in 0 .. MaxSent /\ sent \in 0 .. MaxSent /\ e # sent /\ s + e \in Int
    BY <1>1, <1>2
  <2>2. Mod(s + e) # Mod(s + sent)
    BY <2>1, PlacesDiffer
  <2>3. Mod(s + e) \in Index
    BY <2>1, ModFacts
  <2> QED
    BY <1>3, <2>2, <2>3
<1>5. Present' = taken .. sent /\ Present = taken .. sent - 1
  BY <1>1 DEF Present
<1>6. ASSUME NEW e \in taken .. sent PROVE slot'[Mod(s + e)] = e
  <2>1. CASE e = sent
    BY <1>3, <2>1
  <2>2. CASE e # sent
    <3>1. e \in taken .. sent - 1 /\ e \in 0 .. sent - 1
      BY <1>2, <2>2
    <3> QED
      BY <1>4, <1>5, <3>1 DEF InPlace
  <2> QED
    BY <2>1, <2>2
<1>7. ASSUME NEW c \in At("move")
      PROVE  /\ \E e \in 0 .. taken - 1 : index[c] = Mod(s + e) /\ slot'[Mod(s + e)] = e
             /\ slot'[index[c]] = slot[index[c]]
  <2>1. PICK e \in 0 .. taken - 1 : index[c] = Mod(s + e) /\ slot[Mod(s + e)] = e
    BY DEF InPlace
  <2>2. e \in 0 .. sent - 1
    BY <1>2
  <2> QED
    BY <1>4, <2>1, <2>2
<1>8. At("move")' = At("move") /\ At("retire")' = At("retire")
  BY <1>1 DEF At
<1> QED
  BY <1>1, <1>5, <1>6, <1>7, <1>8 DEF InPlace

LEMMA InPlacePublished ==
  ASSUME NEW s \in Int, Typed, InPlace(s), EnqueuePublish
  PROVE  InPlace(s)'
<1>1. /\ UNCHANGED <<headIndex, slot, index, got, taken, pc>>
      /\ written /\ ~written' /\ sent' = sent + 1 /\ tailIndex' = Plus(tailIndex, 1)
  BY DEF EnqueuePublish, countVars, blockVars, localVars
<1>2. sent \in Int
  BY SizesAreNat DEF Typed
<1>3. Present' = Present
  BY <1>1, <1>2 DEF Present
<1>4. tailIndex' = Mod(s + sent')
  <2>1. PICK x \in Int : x = s + sent
    BY <1>2
  <2>2. tailIndex' = Mod(x + 1)
    BY <1>1, <2>1, ModFacts DEF InPlace
  <2>3. x + 1 = s + sent'
    BY <1>1, <1>2, <2>1
  <2> QED
    BY <2>2, <2>3
<1>5. At("move")' = At("move") /\ At("retire")' = At("retire")
  BY <1>1 DEF At
<1> QED
  BY <1>1, <1>3, <1>4, <1>5 DEF InPlace

(* The consumer is handed the oldest element that is left.                 *)
LEMMA InPlaceTaken ==
  ASSUME NEW s \in Int, Typed, InPlace(s), NEW c \in Consumers, TakeHead(c), taken < sent
  PROVE  /\ InPlace(s)' /\ slot[headIndex] = taken
         /\ \A d \in At("move") : index'[d] = index[d]
<1>1. /\ UNCHANGED <<tailIndex, slot, got, sent, written>>
      /\ Goto(c, "head", "move") /\ index' = [index EXCEPT ![c] = headIndex]
      /\ headIndex' = Plus(headIndex, 1) /\ taken' = taken + 1
  BY DEF TakeHead, blockVars
<1>2. /\ At("move")' = At("move") \cup {c} /\ c \notin At("move") /\ At("retire")' = At("retire")
      /\ pc[c] = "head" /\ \A d \in Consumers : d # c => pc'[d] = pc[d]
  BY <1>1, Moves DEF Points
<1>3. taken \in Nat /\ sent \in Nat /\ sent <= MaxSent /\ MaxSent \in Nat
  BY SizesAreNat DEF Typed
<1>4. Present' = Present \ {taken} /\ taken \in Present
  BY <1>1, <1>3 DEF Present
<1>5. headIndex' = Mod(s + taken')
  <2>1. PICK x \in Int : x = s + taken
    BY <1>3
  <2>2. headIndex' = Mod(x + 1)
    BY <1>1, <2>1, ModFacts DEF InPlace
  <2>3. x + 1 = s + taken'
    BY <1>1, <1>3, <2>1
  <2> QED
    BY <2>2, <2>3
<1>6. headIndex = Mod(s + taken) /\ slot[headIndex] = taken
  BY <1>4 DEF InPlace
<1>7. index'[c] = headIndex /\ \A d \in At("move") : index'[d] = index[d]
  BY <1>1, <1>2 DEF Typed, At
<1>8. ASSUME NEW d \in At("move")
      PROVE  /\ \E e \in 0 .. taken' - 1 : index'[d] = Mod(s + e) /\ slot'[Mod(s + e)] = e
             /\ index'[d] # index'[c]
  <2>1. PICK e \in 0 .. taken - 1 : index[d] = Mod(s + e) /\ slot[Mod(s + e)] = e
    BY DEF InPlace
  <2>2. e \in 0 .. taken' - 1 /\ e # taken /\ e \in 0 .. MaxSent /\ taken \in 0 .. MaxSent
    BY <1>1, <1>3
  <2>3. Mod(s + e) # Mod(s + taken)
    BY <2>2, PlacesDiffer
  <2> QED
    BY <1>1, <1>6, <1>7, <2>1, <2>2, <2>3
<1>9. taken \in 0 .. taken' - 1
  BY <1>1, <1>3
<1>10. \A d \in At("move")' :
         \E e \in 0 .. taken' - 1 : index'[d] = Mod(s + e) /\ slot'[Mod(s + e)] = e
  BY <1>1, <1>2, <1>6, <1>7, <1>8, <1>9
<1>11. \A d, e \in At("move")' : index'[d] = index'[e] => d = e
  BY <1>2, <1>7, <1>8 DEF InPlace
<1>12. \A d \in Consumers : pc'[d] \notin {"idle", "retire"} => got'[d] = Nothing
  BY <1>1, <1>2 DEF InPlace
<1>13. /\ \A e \in Present' : slot'[Mod(s + e)] = e
       /\ \A d \in At("retire")' : got'[d] # Nothing
       /\ tailIndex' = Mod(s + sent')
  BY <1>1, <1>2, <1>4 DEF InPlace
<1> QED
  BY <1>5, <1>6, <1>7, <1>10, <1>11, <1>12, <1>13 DEF InPlace

(* What a consumer moves out is not what another one holds or waits for.   *)
LEMMA InPlaceMoved ==
  ASSUME NEW s \in Int, Typed, InPlace(s), taken <= sent, NEW c \in Consumers, MoveOut(c)
  PROVE  /\ InPlace(s)'
         /\ \A d \in At("move") : d # c => slot'[index[d]] = slot[index[d]]
<1>1. /\ UNCHANGED <<tailIndex, headIndex, index, sent, taken, written>>
      /\ Goto(c, "move", "retire") /\ got' = [got EXCEPT ![c] = slot[index[c]]]
      /\ slot' = [slot EXCEPT ![index[c]] = Nothing]
  BY DEF MoveOut, countVars, localVars
<1>2. /\ At("move")' = At("move") \ {c} /\ c \in At("move") /\ At("retire")' = At("retire") \cup {c}
      /\ pc'[c] = "retire" /\ \A d \in Consumers : d # c => pc'[d] = pc[d]
  BY <1>1, Moves DEF Points
<1>3. taken \in Nat /\ sent \in Nat /\ MaxSent \in Nat /\ sent <= MaxSent
      /\ (written => sent < MaxSent)
  BY SizesAreNat DEF Typed
<1>4. PICK h \in 0 .. taken - 1 : index[c] = Mod(s + h) /\ slot[Mod(s + h)] = h
  BY <1>2 DEF InPlace
<1>5. \A i \in Index : i # index[c] => slot'[i] = slot[i]
  BY <1>1 DEF Typed
<1>6. Present' = Present
  BY <1>1 DEF Present
<1>7. ASSUME NEW e \in Present PROVE slot'[Mod(s + e)] = e
  <2>1. e \in 0 .. MaxSent /\ h \in 0 .. MaxSent /\ e # h /\ s + e \in Int
    BY <1>3 DEF Present
  <2>2. Mod(s + e) # Mod(s + h) /\ Mod(s + e) \in Index
    BY <2>1, PlacesDiffer, ModFacts
  <2> QED
    BY <1>4, <1>5, <2>2 DEF InPlace
<1>8. ASSUME NEW d \in At("move"), d # c
      PROVE  /\ \E e \in 0 .. taken - 1 : index[d] = Mod(s + e) /\ slot'[Mod(s + e)] = e
             /\ slot'[index[d]] = slot[index[d]]
  <2>1. PICK e \in 0 .. taken - 1 : index[d] = Mod(s + e) /\ slot[Mod(s + e)] = e
    BY DEF InPlace
  <2>2. index[d] # index[c] /\ index[d] \in Index
    BY <1>2, <1>8 DEF InPlace, Typed, At
  <2> QED
    BY <1>5, <2>1, <2>2
<1>9. got'[c] = h /\ h # Nothing /\ \A d \in Consumers : d # c => got'[d] = got[d]
  BY <1>1, <1>3, <1>4, NothingIsNoElement DEF Typed
<1>10. \A d \in At("retire")' : got'[d] # Nothing
  BY <1>2, <1>9 DEF InPlace, At
<1>11. \A d \in Consumers : pc'[d] \notin {"idle", "retire"} => got'[d] = Nothing
  BY <1>2, <1>9 DEF InPlace
<1>12. \A d, e \in At("move")' : index'[d] = index'[e] => d = e
  BY <1>1, <1>2 DEF InPlace
<1>13. \A d \in At("move")' :
         \E e \in 0 .. taken' - 1 : index'[d] = Mod(s + e) /\ slot'[Mod(s + e)] = e
  BY <1>1, <1>2, <1>8
<1>14. \A e \in Present' : slot'[Mod(s + e)] = e
  BY <1>6, <1>7
<1> QED
  BY <1>1, <1>8, <1>10, <1>11, <1>12, <1>13, <1>14 DEF InPlace

--------------------------------------------------------------------------------
(* The excuses: who may be sent away with nothing.                         *)

LEMMA CallingMoves ==
  ASSUME Typed, NEW c \in Consumers, NEW from, NEW to \in Points, from # to, Goto(c, from, to)
  PROVE  /\ from # "idle" /\ to # "idle" => calling' = calling /\ c \in calling
         /\ to = "idle" => calling' = calling \ {c} /\ c \in calling
         /\ from = "idle" => calling' = calling \cup {c} /\ c \notin calling
<1>1. /\ pc[c] = from /\ pc'[c] = to
      /\ \A d \in Consumers : d # c => pc'[d] = pc[d]
  BY Moves
<1> QED
  BY <1>1 DEF calling

(* A caller without an excuse is the only one, and there is an element.    *)
LEMMA Alone ==
  ASSUME NEW s \in Int, NEW o \in Int, NEW oc \in Ghosts, Excusable(s, o, oc),
         NEW c \in calling \ excused
  PROVE  /\ calling = {c} /\ taken # sent /\ c \in Consumers
         /\ \A p : p # "idle" /\ pc[c] # p => At(p) = {}
<1>1. calling = {c} /\ taken # sent /\ c \in Consumers
  BY DEF Excusable, calling
<1>2. \A d \in Consumers : d # c => pc[d] = "idle"
  BY <1>1 DEF calling
<1> QED
  BY <1>1, <1>2 DEF At

LEMMA NoneCounted ==
  ASSUME NEW p, At(p) = {}
  PROVE  Count(p) = 0
BY FS_EmptySet DEF Count

LEMMA AloneFindsOne ==
  ASSUME NEW s \in Int, NEW o \in Int, NEW oc \in Ghosts, NEW m \in Ghosts,
         Typed, Explained(s, o, oc, m), NEW c \in calling \ excused, pc[c] = "count"
  PROVE  CircularLessThan(Minus(dequeueOptimisticCount, overcommit[c]), tail[c])
<1>1. Balanced(s, o, oc, m) /\ Excusable(s, o, oc)
  BY DEF Explained
<1>2. c \in Consumers /\ At("check") = {} /\ At("excess") = {} /\ At("head") = {}
  BY <1>1, Alone
<1>3. Count("check") = 0 /\ Count("excess") = 0 /\ Count("head") = 0
  BY <1>2, NoneCounted
<1>4. taken \in Nat /\ sent \in Nat /\ MaxSent \in Nat /\ sent <= MaxSent
  BY SizesAreNat DEF Typed
<1>5. Claims(s, o) = s + o + taken
  BY <1>3, <1>4 DEF Claims
<1>6. PICK t \in taken + 1 .. sent : tail[c] = Mod(s + t)
  BY <1>1 DEF Excusable
<1>7. overcommit[c] = Mod(o)
  BY <1>1, <1>2 DEF Balanced, Read, Excusable
<1>8. PICK x \in Int, y \in Int : x = s + taken /\ y = s + t
  BY <1>4
<1>9. Minus(dequeueOptimisticCount, overcommit[c]) = Mod(x)
  <2>1. PICK n \in Int : n = s + o + taken
    BY <1>4
  <2>2. Minus(Mod(n), Mod(o)) = Mod(n - o)
    BY ModFacts
  <2>3. n - o = x
    BY <1>4, <1>8, <2>1
  <2> QED
    BY <1>1, <1>5, <1>7, <2>1, <2>2, <2>3 DEF Balanced
<1>10. x < y /\ y - x < IndexSize \div 2 /\ x - y <= IndexSize \div 2
  BY <1>4, <1>6, <1>8, RoomToCompare, Halves
<1> QED
  BY <1>6, <1>8, <1>9, <1>10, LessMeansLess

LEMMA AloneIsGranted ==
  ASSUME NEW s \in Int, NEW o \in Int, NEW oc \in Ghosts, NEW m \in Ghosts,
         Typed, Explained(s, o, oc, m), NEW c \in calling \ excused, pc[c] = "check"
  PROVE  m[c] - oc[c] < s + sent
<1>1. Balanced(s, o, oc, m) /\ Excusable(s, o, oc)
  BY DEF Explained
<1>2. c \in Consumers /\ At("excess") = {} /\ At("head") = {} /\ calling = {c} /\ taken # sent
  BY <1>1, Alone
<1>3. Count("excess") = 0 /\ Count("head") = 0
  BY <1>2, NoneCounted
<1>4. Count("check") <= 1
  <2>1. At("check") = {c}
    BY <1>2 DEF At, calling
  <2> QED
    BY <2>1, FS_Singleton DEF Count
<1>5. m[c] < Claims(s, o) /\ oc[c] = o /\ taken + Count("head") <= sent
  BY <1>1, <1>2 DEF Balanced, Claimed, Excusable, At
<1>6. taken \in Nat /\ sent \in Nat /\ m[c] \in Int /\ oc[c] \in Int
  BY <1>2, SizesAreNat DEF Typed, Ghosts
<1> QED
  BY <1>2, <1>3, <1>4, <1>5, <1>6, Counts DEF Claims

(* Excuses are given out as StreamPromise has it.                          *)
LEMMA ExcusedNext ==
  ASSUME Excuse
  PROVE  /\ excused' = {c \in calling' : c \in excused' \/ taken' = sent' \/ calling' # {c}}
         /\ \A c \in calling' \ excused' :
              c \notin excused /\ taken' # sent' /\ calling' = {c}
BY DEF Excuse

LEMMA ExcusedSame ==
  ASSUME NEW s \in Int, NEW o \in Int, NEW oc \in Ghosts, Excusable(s, o, oc),
         Excuse, calling' = calling, taken' = taken, sent' = sent
  PROVE  excused' = excused
BY DEF Excuse, Excusable

(* When one of several callers leaves, the others are excused.             *)
LEMMA ExcusableEnd ==
  ASSUME NEW s \in Int, NEW o \in Int, NEW oc \in Ghosts, Excusable(s, o, oc),
         Excuse, NEW d \in calling, calling' = calling \ {d}, NEW o2 \in Int
  PROVE  Excusable(s, o2, oc)'
<1>1. calling' \ excused' = {}
  <2> SUFFICES ASSUME NEW c \in calling' \ excused' PROVE FALSE
    OBVIOUS
  <2>1. c \in calling /\ c # d /\ c \notin excused
    BY ExcusedNext
  <2> QED
    BY <2>1, Alone
<1> QED
  BY <1>1, ExcusedNext DEF Excusable

(* Otherwise what an unexcused caller has read is as it was, or of no use  *)
(* to it any more.                                                         *)
LEMMA ExcusableKept ==
  ASSUME NEW s \in Int, NEW o \in Int, NEW oc \in Ghosts, Excusable(s, o, oc),
         Excuse, taken \in Nat, sent \in Nat,
         \A c \in calling' : calling' = {c} =>
           /\ c \in calling
           /\ \/ /\ pc'[c] = pc[c] /\ tail'[c] = tail[c]
                 /\ taken' = taken /\ sent' \in Nat /\ sent' >= sent
              \/ pc'[c] \in {"head", "move", "retire"}
  PROVE  Excusable(s, o, oc)'
<1>1. ASSUME NEW c \in calling' \ excused'
      PROVE  /\ pc'[c] \in {"count", "claim", "check"} => oc[c] = o
             /\ pc'[c] \in {"overcommit", "count"} =>
                  \E t \in taken' + 1 .. sent' : tail'[c] = Mod(s + t)
             /\ pc'[c] # "excess"
  <2>1. c \in calling \ excused
    BY ExcusedNext
  <2>2. CASE pc'[c] \in {"head", "move", "retire"}
    BY <2>2
  <2>3. CASE /\ pc'[c] = pc[c] /\ tail'[c] = tail[c]
             /\ taken' = taken /\ sent' \in Nat /\ sent' >= sent
    <3>1. taken + 1 .. sent \subseteq taken' + 1 .. sent'
      BY <2>3
    <3> QED
      BY <2>1, <2>3, <3>1 DEF Excusable
  <2> QED
    BY <2>2, <2>3, ExcusedNext
<1> QED
  BY <1>1, ExcusedNext DEF Excusable

--------------------------------------------------------------------------------
(* Every step keeps the invariant, and is a step of StreamPromise or none. *)

Hand == [c \in Consumers |-> IF pc[c] = "move" THEN slot[index[c]] ELSE got[c]]

Mapped == Promise!Next \/ UNCHANGED Promise!promiseVars

LEMMA HandKept ==
  ASSUME Typed, At("move")' = At("move"), got' = got,
         \A c \in At("move") : slot'[index'[c]] = slot[index[c]]
  PROVE  Hand' = Hand
BY DEF Hand, At

LEMMA StutterMaps ==
  ASSUME UNCHANGED <<sent, taken, calling, Hand, excused>>
  PROVE  Mapped
BY DEF Mapped, Hand, Promise!promiseVars

LEMMA Picked ==
  ASSUME Inv
  PROVE  /\ Typed /\ taken \in Nat /\ sent \in Nat /\ taken <= sent
         /\ \E s, o \in Int : \E oc, m \in Ghosts : Explained(s, o, oc, m)
<1>1. taken \in Nat /\ sent \in Nat
  BY SizesAreNat DEF Inv, Typed
<1>2. PICK s \in Int, o \in Int, oc \in Ghosts, m \in Ghosts : Explained(s, o, oc, m)
  BY DEF Inv
<1>3. taken + Count("head") <= sent
  BY <1>2 DEF Explained, Balanced
<1> QED
  BY <1>1, <1>2, <1>3, Counts DEF Inv

LEMMA WriteStep ==
  ASSUME Inv, EnqueueWrite, Excuse
  PROVE  Inv' /\ Mapped
<1>1. PICK s \in Int, o \in Int, oc \in Ghosts, m \in Ghosts : Explained(s, o, oc, m)
  BY Picked
<1>2. /\ Typed /\ taken \in Nat /\ sent \in Nat /\ taken <= sent
      /\ InPlace(s) /\ Balanced(s, o, oc, m) /\ Excusable(s, o, oc)
  BY <1>1, Picked DEF Explained
<1>3. /\ UNCHANGED <<sent, taken, pc, tail, got, index, overcommit, myDequeueCount>>
      /\ UNCHANGED <<dequeueOvercommit, dequeueOptimisticCount>>
  BY DEF EnqueueWrite, countVars, localVars
<1>4. calling' = calling /\ \A p : At(p)' = At(p)
  BY <1>3 DEF calling, At
<1>5. Typed'
  BY <1>2, TypedNext
<1>6. InPlace(s)' /\ \A c \in At("move") : slot'[index[c]] = slot[index[c]]
  BY <1>2, InPlaceWritten
<1>7. Balanced(s, o, oc, m)'
  BY <1>2, <1>3, <1>4, BalancedQuiet
<1>8. Excusable(s, o, oc)'
  BY <1>2, <1>3, <1>4, ExcusableKept
<1>9. Hand' = Hand
  BY <1>2, <1>3, <1>4, <1>6, HandKept
<1>10. Mapped
  BY <1>2, <1>3, <1>4, <1>9, ExcusedSame, StutterMaps
<1> QED
  BY <1>5, <1>6, <1>7, <1>8, <1>10 DEF Inv, Explained

LEMMA PublishStep ==
  ASSUME Inv, EnqueuePublish, Excuse
  PROVE  Inv' /\ Mapped
<1>1. PICK s \in Int, o \in Int, oc \in Ghosts, m \in Ghosts : Explained(s, o, oc, m)
  BY Picked
<1>2. /\ Typed /\ taken \in Nat /\ sent \in Nat /\ taken <= sent
      /\ InPlace(s) /\ Balanced(s, o, oc, m) /\ Excusable(s, o, oc)
  BY <1>1, Picked DEF Explained
<1>3. /\ UNCHANGED <<taken, pc, tail, got, index, overcommit, myDequeueCount>>
      /\ UNCHANGED <<dequeueOvercommit, dequeueOptimisticCount, slot>>
      /\ sent' = sent + 1 /\ sent < MaxSent
  BY <1>2 DEF EnqueuePublish, countVars, localVars, blockVars, Typed
<1>4. calling' = calling /\ \A p : At(p)' = At(p)
  BY <1>3 DEF calling, At
<1>5. Typed'
  BY <1>2, TypedNext
<1>6. InPlace(s)'
  BY <1>2, InPlacePublished
<1>7. Balanced(s, o, oc, m)'
  BY <1>2, <1>3, <1>4, BalancedQuiet
<1>8. Excusable(s, o, oc)'
  BY <1>2, <1>3, <1>4, ExcusableKept
<1>9. Hand' = Hand
  BY <1>2, <1>3, <1>4, HandKept
<1>10. Promise!Enqueue /\ Promise!Excuse
  BY <1>3, <1>4, <1>9 DEF Promise!Enqueue, Promise!Excuse, Excuse, Hand
<1>11. Mapped
  BY <1>10 DEF Mapped, Promise!Next
<1> QED
  BY <1>5, <1>6, <1>7, <1>8, <1>11 DEF Inv, Explained

LEMMA CallStep ==
  ASSUME Inv, NEW c \in Consumers, LoadTail(c), Excuse
  PROVE  Inv' /\ Mapped
<1>1. PICK s \in Int, o \in Int, oc \in Ghosts, m \in Ghosts : Explained(s, o, oc, m)
  BY Picked
<1>2. /\ Typed /\ taken \in Nat /\ sent \in Nat /\ taken <= sent
      /\ InPlace(s) /\ Balanced(s, o, oc, m) /\ Excusable(s, o, oc)
  BY <1>1, Picked DEF Explained
<1>3. /\ UNCHANGED <<sent, taken, index, overcommit, myDequeueCount>>
      /\ UNCHANGED <<dequeueOvercommit, dequeueOptimisticCount, slot>>
      /\ Goto(c, "idle", "overcommit")
      /\ tail' = [tail EXCEPT ![c] = tailIndex] /\ got' = [got EXCEPT ![c] = Nothing]
  BY DEF LoadTail, countVars, blockVars
<1>4. /\ \A p \in {"check", "excess", "head", "move"} : At(p)' = At(p) /\ c \notin At(p)
      /\ pc'[c] = "overcommit" /\ pc[c] = "idle"
      /\ \A d \in Consumers : d # c => pc'[d] = pc[d]
  BY <1>2, <1>3, Moves DEF Points, At
<1>5. calling' = calling \cup {c} /\ c \notin calling
  BY <1>2, <1>3, CallingMoves DEF Points
<1>6. Typed'
  BY <1>2, TypedNext DEF Dequeue
<1>7. InPlace(s)'
  BY <1>2, InPlaceCalled
<1>8. Balanced(s, o, oc, m)'
  BY <1>2, <1>3, <1>4, BalancedQuiet
<1>9. Excusable(s, o, oc)'
  <2>1. ASSUME NEW d \in calling' \ excused'
        PROVE  pc'[d] = "overcommit" /\ \E t \in taken' + 1 .. sent' : tail'[d] = Mod(s + t)
    <3>1. taken # sent /\ d = c
      BY <1>3, <1>5, ExcusedNext
    <3>2. tail'[c] = Mod(s + sent)
      BY <1>2, <1>3 DEF Typed, InPlace
    <3>3. sent \in taken' + 1 .. sent'
      BY <1>2, <1>3, <3>1
    <3> QED
      BY <1>4, <3>1, <3>2, <3>3
  <2> QED
    BY <2>1, ExcusedNext DEF Excusable
<1>10. Hand' = [Hand EXCEPT ![c] = Nothing]
  BY <1>2, <1>3, <1>4 DEF Hand, Typed, At
<1>11. Promise!Call(c) /\ Promise!Excuse
  BY <1>3, <1>5, <1>10 DEF Promise!Call, Promise!Excuse, Excuse, Hand
<1>12. Mapped
  BY <1>11 DEF Mapped, Promise!Next
<1> QED
  BY <1>6, <1>7, <1>8, <1>9, <1>12 DEF Inv, Explained

LEMMA ReadStep ==
  ASSUME Inv, NEW c \in Consumers, LoadOvercommit(c), Excuse
  PROVE  Inv' /\ Mapped
<1>1. PICK s \in Int, o \in Int, oc \in Ghosts, m \in Ghosts : Explained(s, o, oc, m)
  BY Picked
<1>2. /\ Typed /\ taken \in Nat /\ sent \in Nat /\ taken <= sent
      /\ InPlace(s) /\ Balanced(s, o, oc, m) /\ Excusable(s, o, oc)
  BY <1>1, Picked DEF Explained
<1>3. /\ UNCHANGED <<tailIndex, headIndex, slot, index, got, sent, taken, written, tail>>
      /\ Goto(c, "overcommit", "count")
  BY DEF LoadOvercommit, countVars, blockVars
<1>4. /\ \A p \in {"move", "retire"} : At(p)' = At(p)
      /\ pc'[c] = "count" /\ pc[c] = "overcommit"
      /\ \A d \in Consumers : d # c => pc'[d] = pc[d]
  BY <1>2, <1>3, Moves DEF Points
<1>5. calling' = calling /\ c \in calling
  BY <1>2, <1>3, CallingMoves DEF Points
<1>6. PICK oc2 : oc2 = [oc EXCEPT ![c] = o]
  OBVIOUS
<1>7. oc2 \in Ghosts /\ oc2[c] = o
  BY <1>6 DEF Ghosts
<1>8. Typed'
  BY <1>2, TypedNext DEF Dequeue
<1>9. InPlace(s)'
  BY <1>2, <1>3, <1>4, InPlaceQuiet
<1>10. Balanced(s, o, oc2, m)'
  BY <1>2, <1>6, BalancedRead
<1>11. Excusable(s, o, oc2)'
  <2>1. ASSUME NEW d \in calling' \ excused'
        PROVE  /\ pc'[d] = "count" /\ oc2[d] = o
               /\ \E t \in taken' + 1 .. sent' : tail'[d] = Mod(s + t)
    <3>1. d = c /\ c \notin excused
      BY <1>5, ExcusedNext
    <3>2. \E t \in taken + 1 .. sent : tail[c] = Mod(s + t)
      BY <1>2, <1>4, <1>5, <3>1 DEF Excusable
    <3> QED
      BY <1>3, <1>4, <1>7, <3>1, <3>2
  <2> QED
    BY <2>1, ExcusedNext DEF Excusable
<1>12. Hand' = Hand
  BY <1>2, <1>3, <1>4, HandKept
<1>13. Mapped
  BY <1>2, <1>3, <1>5, <1>12, ExcusedSame, StutterMaps
<1> QED
  BY <1>7, <1>8, <1>9, <1>10, <1>11, <1>13 DEF Inv, Explained

LEMMA CountStep ==
  ASSUME Inv, NEW c \in Consumers, CheckCount(c), Excuse
  PROVE  Inv' /\ Mapped
<1>1. PICK s \in Int, o \in Int, oc \in Ghosts, m \in Ghosts : Explained(s, o, oc, m)
  BY Picked
<1>2. /\ Typed /\ taken \in Nat /\ sent \in Nat /\ taken <= sent
      /\ InPlace(s) /\ Balanced(s, o, oc, m) /\ Excusable(s, o, oc)
  BY <1>1, Picked DEF Explained
<1>3. /\ UNCHANGED <<tailIndex, headIndex, slot, index, got, sent, taken, written, tail>>
      /\ UNCHANGED <<dequeueOvercommit, dequeueOptimisticCount, overcommit, myDequeueCount>>
      /\ pc[c] = "count"
  BY DEF CheckCount, Goto, countVars, blockVars, localVars
<1>4. Typed'
  BY <1>2, TypedNext DEF Dequeue
<1>5. CASE Goto(c, "count", "claim")
  <2>1. /\ \A p \in {"check", "excess", "head", "move", "retire"} : At(p)' = At(p)
        /\ pc'[c] = "claim"
        /\ \A d \in Consumers : d # c => pc'[d] = pc[d]
    BY <1>2, <1>5, Moves DEF Points
  <2>2. calling' = calling /\ c \in calling
    BY <1>2, <1>5, CallingMoves DEF Points
  <2>3. InPlace(s)'
    BY <1>2, <1>3, <2>1, InPlaceQuiet
  <2>4. Balanced(s, o, oc, m)'
    <3>1. \A d \in Consumers : pc'[d] \in {"count", "claim"} => pc[d] \in {"count", "claim"}
      BY <1>3, <2>1
    <3>2. sent' \in Nat /\ sent' >= sent
      BY <1>2, <1>3
    <3> QED
      BY <1>2, <1>3, <2>1, <3>1, <3>2, BalancedQuiet
  <2>5. Excusable(s, o, oc)'
    <3>1. ASSUME NEW d \in calling' \ excused' PROVE pc'[d] = "claim" /\ oc[d] = o
      <4>1. d = c /\ c \notin excused
        BY <2>2, ExcusedNext
      <4> QED
        BY <1>2, <1>3, <2>1, <2>2, <4>1 DEF Excusable
    <3> QED
      BY <3>1, ExcusedNext DEF Excusable
  <2>6. Hand' = Hand
    BY <1>2, <1>3, <2>1, HandKept
  <2>7. Mapped
    BY <1>2, <1>3, <2>2, <2>6, ExcusedSame, StutterMaps
  <2> QED
    BY <1>4, <2>3, <2>4, <2>5, <2>7 DEF Inv, Explained
<1>6. CASE Goto(c, "count", "idle")
  <2>1. /\ \A p \in {"check", "excess", "head", "move", "retire"} : At(p)' = At(p)
        /\ pc'[c] = "idle"
        /\ \A d \in Consumers : d # c => pc'[d] = pc[d]
    BY <1>2, <1>6, Moves DEF Points
  <2>2. calling' = calling \ {c} /\ c \in calling
    BY <1>2, <1>6, CallingMoves DEF Points
  <2>3. InPlace(s)'
    BY <1>2, <1>3, <2>1, InPlaceQuiet
  <2>4. Balanced(s, o, oc, m)'
    <3>1. \A d \in Consumers : pc'[d] \in {"count", "claim"} => pc[d] \in {"count", "claim"}
      BY <1>3, <2>1
    <3>2. sent' \in Nat /\ sent' >= sent
      BY <1>2, <1>3
    <3> QED
      BY <1>2, <1>3, <2>1, <3>1, <3>2, BalancedQuiet
  <2>5. Excusable(s, o, oc)'
    BY <1>2, <2>2, ExcusableEnd
  <2>6. Hand' = Hand
    BY <1>2, <1>3, <2>1, HandKept
  <2>7. c \in excused
    <3>1. ~CircularLessThan(Minus(dequeueOptimisticCount, overcommit[c]), tail[c])
      BY <1>2, <2>1 DEF CheckCount, Goto, Typed
    <3> QED
      BY <1>1, <1>2, <1>3, <2>2, <3>1, AloneFindsOne
  <2>8. Promise!Return(c) /\ Promise!Excuse
    BY <1>3, <2>2, <2>6, <2>7 DEF Promise!Return, Promise!Excuse, Excuse, Hand
  <2>9. Mapped
    BY <2>8 DEF Mapped, Promise!Next
  <2> QED
    BY <1>4, <2>3, <2>4, <2>5, <2>9 DEF Inv, Explained
<1> QED
  BY <1>5, <1>6 DEF CheckCount

LEMMA ClaimStep ==
  ASSUME Inv, NEW c \in Consumers, Claim(c), Excuse
  PROVE  Inv' /\ Mapped
<1>1. PICK s \in Int, o \in Int, oc \in Ghosts, m \in Ghosts : Explained(s, o, oc, m)
  BY Picked
<1>2. /\ Typed /\ taken \in Nat /\ sent \in Nat /\ taken <= sent
      /\ InPlace(s) /\ Balanced(s, o, oc, m) /\ Excusable(s, o, oc)
  BY <1>1, Picked DEF Explained
<1>3. /\ UNCHANGED <<tailIndex, headIndex, slot, index, got, sent, taken, written, tail>>
      /\ Goto(c, "claim", "check")
  BY DEF Claim, blockVars
<1>4. /\ \A p \in {"move", "retire"} : At(p)' = At(p)
      /\ pc'[c] = "check" /\ pc[c] = "claim"
      /\ \A d \in Consumers : d # c => pc'[d] = pc[d]
  BY <1>2, <1>3, Moves DEF Points
<1>5. calling' = calling /\ c \in calling
  BY <1>2, <1>3, CallingMoves DEF Points
<1>6. PICK n, m2 : n = Claims(s, o) /\ m2 = [m EXCEPT ![c] = n]
  OBVIOUS
<1>7. m2 \in Ghosts
  BY <1>2, <1>6, Counts DEF Ghosts, Claims
<1>8. Typed'
  BY <1>2, TypedNext DEF Dequeue
<1>9. InPlace(s)'
  BY <1>2, <1>3, <1>4, InPlaceQuiet
<1>10. Balanced(s, o, oc, m2)'
  BY <1>2, <1>6, BalancedClaim
<1>11. Excusable(s, o, oc)'
  <2>1. ASSUME NEW d \in calling' \ excused' PROVE pc'[d] = "check" /\ oc[d] = o
    <3>1. d = c /\ c \notin excused
      BY <1>5, ExcusedNext
    <3> QED
      BY <1>2, <1>4, <1>5, <3>1 DEF Excusable
  <2> QED
    BY <2>1, ExcusedNext DEF Excusable
<1>12. Hand' = Hand
  BY <1>2, <1>3, <1>4, HandKept
<1>13. Mapped
  BY <1>2, <1>3, <1>5, <1>12, ExcusedSame, StutterMaps
<1> QED
  BY <1>7, <1>8, <1>9, <1>10, <1>11, <1>13 DEF Inv, Explained

LEMMA CheckStep ==
  ASSUME Inv, NEW c \in Consumers, CheckClaim(c), Excuse
  PROVE  Inv' /\ Mapped
<1>1. PICK s \in Int, o \in Int, oc \in Ghosts, m \in Ghosts : Explained(s, o, oc, m)
  BY Picked
<1>2. /\ Typed /\ taken \in Nat /\ sent \in Nat /\ taken <= sent
      /\ InPlace(s) /\ Balanced(s, o, oc, m) /\ Excusable(s, o, oc)
  BY <1>1, Picked DEF Explained
<1>3. /\ UNCHANGED <<tailIndex, headIndex, slot, index, got, sent, taken, written>>
      /\ pc[c] = "check" /\ c \in At("check")
  BY DEF CheckClaim, Goto, countVars, blockVars, At
<1>4. Typed'
  BY <1>2, TypedNext DEF Dequeue
<1>5. CircularLessThan(Minus(myDequeueCount[c], overcommit[c]), tailIndex)
        <=> m[c] - oc[c] < s + sent
  BY <1>2, <1>3, LookIsRight DEF InPlace
<1>6. PICK to \in {"head", "excess"} : Goto(c, "check", to)
  BY DEF CheckClaim
<1>7. /\ \A p \in {"move", "retire"} : At(p)' = At(p)
      /\ pc'[c] = to /\ \A d \in Consumers : d # c => pc'[d] = pc[d]
  BY <1>2, <1>6, Moves DEF Points
<1>8. calling' = calling /\ c \in calling
  BY <1>2, <1>6, CallingMoves DEF Points
<1>9. InPlace(s)'
  BY <1>2, <1>3, <1>6, <1>7, InPlaceQuiet
<1>10. m[c] - oc[c] < s + sent <=> to = "head"
  BY <1>2, <1>5, <1>7 DEF CheckClaim, Goto, Typed
<1>11. Balanced(s, o, oc, m)'
  <2>1. CASE to = "head"
    BY <1>2, <1>6, <1>10, <2>1, BalancedGranted
  <2>2. CASE to = "excess"
    BY <1>2, <1>6, <2>2, BalancedRefused
  <2> QED
    BY <2>1, <2>2
<1>12. Excusable(s, o, oc)'
  <2>1. ASSUME NEW d \in calling' \ excused' PROVE pc'[d] = "head"
    <3>1. d = c /\ c \notin excused
      BY <1>8, ExcusedNext
    <3> QED
      BY <1>1, <1>2, <1>3, <1>7, <1>8, <1>10, <3>1, AloneIsGranted
  <2> QED
    BY <2>1, ExcusedNext DEF Excusable
<1>13. Hand' = Hand
  BY <1>2, <1>3, <1>7, HandKept
<1>14. Mapped
  BY <1>2, <1>3, <1>8, <1>13, ExcusedSame, StutterMaps
<1> QED
  BY <1>4, <1>9, <1>11, <1>12, <1>14 DEF Inv, Explained

LEMMA GiveBackStep ==
  ASSUME Inv, NEW c \in Consumers, GiveBack(c), Excuse
  PROVE  Inv' /\ Mapped
<1>1. PICK s \in Int, o \in Int, oc \in Ghosts, m \in Ghosts : Explained(s, o, oc, m)
  BY Picked
<1>2. /\ Typed /\ taken \in Nat /\ sent \in Nat /\ taken <= sent
      /\ InPlace(s) /\ Balanced(s, o, oc, m) /\ Excusable(s, o, oc)
  BY <1>1, Picked DEF Explained
<1>3. /\ UNCHANGED <<tailIndex, headIndex, slot, index, got, sent, taken, written, tail>>
      /\ Goto(c, "excess", "idle")
  BY DEF GiveBack, blockVars, localVars
<1>4. /\ \A p \in {"move", "retire"} : At(p)' = At(p)
      /\ pc'[c] = "idle" /\ pc[c] = "excess"
      /\ \A d \in Consumers : d # c => pc'[d] = pc[d]
  BY <1>2, <1>3, Moves DEF Points
<1>5. calling' = calling \ {c} /\ c \in calling
  BY <1>2, <1>3, CallingMoves DEF Points
<1>6. PICK o2 \in Int : o2 = o + 1
  OBVIOUS
<1>7. Typed'
  BY <1>2, TypedNext DEF Dequeue
<1>8. InPlace(s)'
  BY <1>2, <1>3, <1>4, InPlaceQuiet
<1>9. Balanced(s, o2, oc, m)'
  BY <1>2, <1>6, BalancedGivenBack
<1>10. Excusable(s, o2, oc)'
  BY <1>2, <1>5, ExcusableEnd
<1>11. Hand' = Hand
  BY <1>2, <1>3, <1>4, HandKept
<1>12. c \in excused
  BY <1>2, <1>4, <1>5 DEF Excusable
<1>13. Promise!Return(c) /\ Promise!Excuse
  BY <1>3, <1>5, <1>11, <1>12 DEF Promise!Return, Promise!Excuse, Excuse, Hand
<1>14. Mapped
  BY <1>13 DEF Mapped, Promise!Next
<1> QED
  BY <1>7, <1>8, <1>9, <1>10, <1>14 DEF Inv, Explained

LEMMA TakeStep ==
  ASSUME Inv, NEW c \in Consumers, TakeHead(c), Excuse
  PROVE  Inv' /\ Mapped
<1>1. PICK s \in Int, o \in Int, oc \in Ghosts, m \in Ghosts : Explained(s, o, oc, m)
  BY Picked
<1>2. /\ Typed /\ taken \in Nat /\ sent \in Nat /\ taken <= sent
      /\ InPlace(s) /\ Balanced(s, o, oc, m) /\ Excusable(s, o, oc)
  BY <1>1, Picked DEF Explained
<1>3. /\ UNCHANGED <<slot, got, sent>> /\ Goto(c, "head", "move") /\ taken' = taken + 1
      /\ index' = [index EXCEPT ![c] = headIndex]
  BY DEF TakeHead, blockVars
<1>4. /\ pc'[c] = "move" /\ pc[c] = "head"
      /\ \A d \in Consumers : d # c => pc'[d] = pc[d]
  BY <1>2, <1>3, Moves DEF Points
<1>5. calling' = calling /\ c \in calling
  BY <1>2, <1>3, CallingMoves DEF Points
<1>6. Typed'
  BY <1>2, TypedNext DEF Dequeue
<1>7. Balanced(s, o, oc, m)' /\ taken < sent
  BY <1>2, BalancedTaken
<1>8. InPlace(s)' /\ slot[headIndex] = taken /\ \A d \in At("move") : index'[d] = index[d]
  BY <1>2, <1>7, InPlaceTaken
<1>9. Excusable(s, o, oc)'
  <2>1. ASSUME NEW d \in calling' \ excused' PROVE pc'[d] = "move"
    BY <1>4, <1>5, ExcusedNext
  <2> QED
    BY <2>1, ExcusedNext DEF Excusable
<1>10. Hand[c] = Nothing
  BY <1>2, <1>4 DEF Hand, InPlace
<1>11. Hand' = [Hand EXCEPT ![c] = taken]
  <2>1. index'[c] = headIndex
    BY <1>2, <1>3 DEF Typed
  <2>2. \A d \in Consumers : Hand'[d] = IF d = c THEN taken ELSE Hand[d]
    BY <1>3, <1>4, <1>8, <2>1 DEF Hand, At
  <2> QED
    BY <2>2 DEF Hand
<1>12. Promise!Take(c) /\ Promise!Excuse
  BY <1>3, <1>5, <1>7, <1>10, <1>11 DEF Promise!Take, Promise!Excuse, Excuse, Hand
<1>13. Mapped
  BY <1>12 DEF Mapped, Promise!Next
<1> QED
  BY <1>6, <1>7, <1>8, <1>9, <1>13 DEF Inv, Explained

LEMMA MoveStep ==
  ASSUME Inv, NEW c \in Consumers, MoveOut(c), Excuse
  PROVE  Inv' /\ Mapped
<1>1. PICK s \in Int, o \in Int, oc \in Ghosts, m \in Ghosts : Explained(s, o, oc, m)
  BY Picked
<1>2. /\ Typed /\ taken \in Nat /\ sent \in Nat /\ taken <= sent
      /\ InPlace(s) /\ Balanced(s, o, oc, m) /\ Excusable(s, o, oc)
  BY <1>1, Picked DEF Explained
<1>3. /\ UNCHANGED <<dequeueOvercommit, dequeueOptimisticCount, overcommit, myDequeueCount>>
      /\ UNCHANGED <<index, sent, taken, tail>>
      /\ Goto(c, "move", "retire") /\ got' = [got EXCEPT ![c] = slot[index[c]]]
  BY DEF MoveOut, countVars, localVars
<1>4. /\ \A p \in {"check", "excess", "head"} : At(p)' = At(p)
      /\ pc'[c] = "retire" /\ pc[c] = "move"
      /\ \A d \in Consumers : d # c => pc'[d] = pc[d]
  BY <1>2, <1>3, Moves DEF Points
<1>5. calling' = calling /\ c \in calling
  BY <1>2, <1>3, CallingMoves DEF Points
<1>6. Typed'
  BY <1>2, TypedNext DEF Dequeue
<1>7. InPlace(s)' /\ \A d \in At("move") : d # c => slot'[index[d]] = slot[index[d]]
  BY <1>2, InPlaceMoved
<1>8. Balanced(s, o, oc, m)'
  BY <1>2, <1>3, <1>4, BalancedQuiet
<1>9. Excusable(s, o, oc)'
  <2>1. ASSUME NEW d \in calling' \ excused' PROVE pc'[d] = "retire"
    BY <1>4, <1>5, ExcusedNext
  <2> QED
    BY <2>1, ExcusedNext DEF Excusable
<1>10. Hand' = Hand
  <2>1. got'[c] = slot[index[c]] /\ \A d \in Consumers : d # c => got'[d] = got[d]
    BY <1>2, <1>3 DEF Typed
  <2>2. \A d \in Consumers : Hand'[d] = Hand[d]
    BY <1>3, <1>4, <1>7, <2>1 DEF Hand, At
  <2> QED
    BY <2>2 DEF Hand
<1>11. Mapped
  BY <1>2, <1>3, <1>5, <1>10, ExcusedSame, StutterMaps
<1> QED
  BY <1>6, <1>7, <1>8, <1>9, <1>11 DEF Inv, Explained

LEMMA RetireStep ==
  ASSUME Inv, NEW c \in Consumers, Retire(c), Excuse
  PROVE  Inv' /\ Mapped
<1>1. PICK s \in Int, o \in Int, oc \in Ghosts, m \in Ghosts : Explained(s, o, oc, m)
  BY Picked
<1>2. /\ Typed /\ taken \in Nat /\ sent \in Nat /\ taken <= sent
      /\ InPlace(s) /\ Balanced(s, o, oc, m) /\ Excusable(s, o, oc)
  BY <1>1, Picked DEF Explained
<1>3. /\ UNCHANGED <<dequeueOvercommit, dequeueOptimisticCount, overcommit, myDequeueCount>>
      /\ UNCHANGED <<tailIndex, headIndex, slot, index, got, sent, taken, written, tail>>
      /\ Goto(c, "retire", "idle")
  BY DEF Retire, countVars, localVars
<1>4. /\ \A p \in {"check", "excess", "head", "move"} : At(p)' = At(p)
      /\ At("retire")' \subseteq At("retire")
      /\ pc'[c] = "idle" /\ pc[c] = "retire" /\ c \in At("retire")
      /\ \A d \in Consumers : d # c => pc'[d] = pc[d]
  BY <1>2, <1>3, Moves DEF Points
<1>5. calling' = calling \ {c} /\ c \in calling
  BY <1>2, <1>3, CallingMoves DEF Points
<1>6. Typed'
  BY <1>2, TypedNext DEF Dequeue
<1>7. InPlace(s)'
  BY <1>2, <1>3, <1>4, InPlaceQuiet
<1>8. Balanced(s, o, oc, m)'
  BY <1>2, <1>3, <1>4, BalancedQuiet
<1>9. Excusable(s, o, oc)'
  BY <1>2, <1>5, ExcusableEnd
<1>10. Hand' = Hand
  BY <1>2, <1>3, <1>4, HandKept
<1>11. Hand[c] # Nothing
  BY <1>2, <1>4 DEF Hand, InPlace
<1>12. Promise!Return(c) /\ Promise!Excuse
  BY <1>3, <1>5, <1>10, <1>11 DEF Promise!Return, Promise!Excuse, Excuse, Hand
<1>13. Mapped
  BY <1>12 DEF Mapped, Promise!Next
<1> QED
  BY <1>6, <1>7, <1>8, <1>9, <1>13 DEF Inv, Explained

LEMMA NextStep ==
  ASSUME Inv, Next
  PROVE  Inv' /\ Mapped
<1>1. Excuse /\ (EnqueueWrite \/ EnqueuePublish \/ \E c \in Consumers : Dequeue(c))
  BY DEF Next
<1>2. CASE EnqueueWrite
  BY <1>1, <1>2, WriteStep
<1>3. CASE EnqueuePublish
  BY <1>1, <1>3, PublishStep
<1>4. ASSUME NEW c \in Consumers, Dequeue(c) PROVE Inv' /\ Mapped
  BY <1>1, <1>4, CallStep, ReadStep, CountStep, ClaimStep, CheckStep, GiveBackStep,
     TakeStep, MoveStep, RetireStep, Zenon DEF Dequeue
<1> QED
  BY <1>1, <1>2, <1>3, <1>4

LEMMA StutterStep ==
  ASSUME Inv, UNCHANGED vars
  PROVE  Inv' /\ Mapped
<1> USE DEF vars, countVars, blockVars, localVars
<1>1. PICK s \in Int, o \in Int, oc \in Ghosts, m \in Ghosts : Explained(s, o, oc, m)
  BY Picked
<1>2. Typed /\ InPlace(s) /\ Balanced(s, o, oc, m) /\ Excusable(s, o, oc)
  BY <1>1, Picked DEF Explained
<1>3. Typed'
  BY <1>2 DEF Typed
<1>4. calling' = calling /\ \A p : At(p)' = At(p)
  BY DEF calling, At
<1>5. sent' \in Nat /\ sent' >= sent
  BY <1>2, SizesAreNat DEF Typed
<1>6. InPlace(s)'
  BY <1>2, <1>4, InPlaceQuiet
<1>7. Balanced(s, o, oc, m)'
  BY <1>2, <1>4, <1>5, BalancedQuiet
<1>8. Excusable(s, o, oc)'
  BY <1>2, <1>4 DEF Excusable
<1>9. Mapped
  BY <1>4, StutterMaps DEF Hand
<1> QED
  BY <1>3, <1>6, <1>7, <1>8, <1>9 DEF Inv, Explained

LEMMA InitHolds ==
  ASSUME Init
  PROVE  Inv /\ Promise!Init
<1>1. PICK start \in Starts :
        /\ tailIndex = start[1] /\ headIndex = start[1]
        /\ dequeueOvercommit = start[2]
        /\ dequeueOptimisticCount = Plus(start[1], start[2])
  BY DEF Init
<1>2. PICK s, o : s = start[1] /\ o = start[2]
  OBVIOUS
<1>3. s \in Index /\ o \in Index /\ s \in Int /\ o \in Int
  BY <1>1, <1>2, StartsAreCounters, Size DEF Index
<1>4. Mod(s) = s /\ Mod(o) = o /\ Plus(s, o) = Mod(s + o) /\ Plus(s, o) \in Index
  BY <1>3, ModSmall, PlusType DEF Index, Mod, Plus
<1>5. \A p : p # "idle" => At(p) = {}
  BY DEF Init, At
<1>6. Count("check") = 0 /\ Count("excess") = 0 /\ Count("head") = 0
  BY <1>5, NoneCounted
<1>7. 0 \in Index /\ sent = 0 /\ taken = 0 /\ MaxSent \in Nat /\ calling = {}
  BY Size, SizesAreNat DEF Index, Init, calling
<1>8. Typed
  <2>1. {tailIndex, headIndex, dequeueOptimisticCount, dequeueOvercommit} \subseteq Index
    BY <1>1, <1>2, <1>3, <1>4
  <2>2. sent \in 0 .. MaxSent /\ taken \in Nat
    BY <1>7
  <2>3. written = FALSE
    BY DEF Init
  <2>4. /\ slot = [i \in Index |-> Nothing] /\ pc = [c \in Consumers |-> "idle"]
        /\ tail = [c \in Consumers |-> 0] /\ overcommit = [c \in Consumers |-> 0]
        /\ myDequeueCount = [c \in Consumers |-> 0] /\ index = [c \in Consumers |-> 0]
        /\ got = [c \in Consumers |-> Nothing]
    BY DEF Init
  <2> QED
    BY <1>7, <2>1, <2>2, <2>3, <2>4 DEF Typed, Points
<1>9. InPlace(s)
  <2>1. Present = {} /\ s + 0 = s
    BY <1>3, <1>7 DEF Init, Present
  <2> QED
    BY <1>1, <1>2, <1>4, <1>5, <1>7, <2>1 DEF Init, InPlace
<1>10. PICK g : g = [c \in Consumers |-> 0]
  OBVIOUS
<1>11. g \in Ghosts
  BY <1>10 DEF Ghosts
<1>12. Balanced(s, o, g, g)
  <2>1. Claims(s, o) = s + o
    BY <1>3, <1>6, <1>7 DEF Claims
  <2>2. \A c \in Consumers : pc[c] = "idle"
    BY DEF Init
  <2> QED
    BY <1>1, <1>2, <1>4, <1>5, <1>6, <1>7, <2>1, <2>2 DEF Balanced
<1>13. Excusable(s, o, g)
  BY <1>7 DEF Excusable, Init
<1>14. Promise!Init
  BY <1>7 DEF Init, Promise!Init
<1> QED
  BY <1>3, <1>8, <1>9, <1>11, <1>12, <1>13, <1>14 DEF Inv, Explained

(* The lock-free stream keeps its promise, whatever the interleaving of    *)
(* producer and consumers and wherever its counters stand when it is       *)
(* quiet: elements come out in order and once, and dequeue() returns false *)
(* only to a caller that was not alone with an element.                    *)
THEOREM KeepsPromise == Spec => PromiseSpec
<1>1. Inv /\ [Next]_vars => Inv' /\ Mapped
  BY NextStep, StutterStep, Zenon
<1>2. Mapped => [Promise!Next]_(Promise!promiseVars)
  BY Zenon DEF Mapped
<1> QED
  BY <1>1, <1>2, InitHolds, PTL DEF Spec, PromiseSpec, Promise!Spec

--------------------------------------------------------------------------------
(* The blocks.  Their bases are numbers that do not wrap, too; an element  *)
(* is done when it was claimed and nobody is at work on it any more.       *)
Floor(x) == x - (x % BlockSize)

Busy == At("move") \cup At("retire")

Top(s) == s + sent + (IF written THEN 1 ELSE 0)

Started(s) == {b \in Int : b % BlockSize = 0 /\ s - BlockSize < b /\ b < Top(s)}

Done(s, b) ==
  {x \in b .. b + BlockSize - 1 :
     x < s + taken /\ \A c \in Busy : index[c] # Mod(x)}

(* Each at work on an element of its own.                                  *)
OwnElement(s) ==
  /\ \A c \in Busy : \E x \in s .. s + taken - 1 : index[c] = Mod(x)
  /\ \A c, d \in Busy : index[c] = index[d] => c = d

(* A block counts what is done in it, and is there till that is all.       *)
Tallied(s) ==
  \A b \in Started(s) :
    /\ elementsCompletelyDequeued[Mod(b)] = Cardinality(Done(s, b))
    /\ Mod(b) \in blocks <=> elementsCompletelyDequeued[Mod(b)] < BlockSize

Kept(s) ==
  /\ tailIndex = Mod(s + sent) /\ headIndex = Mod(s + taken)
  /\ OwnElement(s)
  /\ elementsCompletelyDequeued \in [Bases -> 0 .. BlockSize]
  /\ \A i \in blocks : \E b \in Started(s) : i = Mod(b)
  /\ Tallied(s)

BlockInv == \E s \in Int : Kept(s)

LEMMA BlockFacts ==
  /\ BlockSize \in Nat \ {0} /\ IndexSize \in Nat \ {0} /\ MaxSent \in Nat
  /\ BlockSize + MaxSent < IndexSize
<1>1. BlockSize \in Nat \ {0} /\ IndexSize \in Nat \ {0} /\ IndexSize % BlockSize = 0
  BY SizesAreNat
<1>2. PICK k \in Int : IndexSize = BlockSize * k
  <2>1. IndexSize = BlockSize * (IndexSize \div BlockSize) + (IndexSize % BlockSize)
        /\ IndexSize \div BlockSize \in Int
    BY <1>1, DivMod
  <2> QED
    BY <1>1, <2>1
<1>3. k - 1 >= 1
  <2>1. k # 1
    BY <1>1, <1>2, BlocksAreCounted
  <2>2. ~(k <= 0)
    <3>1. CASE k = 0
      BY <1>1, <1>2, <3>1
    <3>2. CASE k <= -1
      BY <1>1, <1>2, <3>2, AtLeastOnce
    <3> QED
      BY <3>1, <3>2
  <2> QED
    BY <2>1, <2>2
<1>4. BlockSize * (k - 1) >= BlockSize /\ k - 1 \in Int
  BY <1>1, <1>3, AtLeastOnce
<1>5. IndexSize >= BlockSize + BlockSize
  BY <1>1, <1>2, <1>4
<1>6. MaxSent \in Nat /\ MaxSent < IndexSize \div 2
  BY SizesAreNat, RoomToCompare
<1> QED
  BY <1>1, <1>5, <1>6, Halves, SizesAreNat

(* The block of a place, and the place of a block.                         *)
LEMMA InBlock ==
  ASSUME NEW b \in Int, b % BlockSize = 0, NEW x \in b .. b + BlockSize - 1
  PROVE  x % BlockSize = x - b /\ Floor(x) = b
<1>1. BlockSize \in Nat \ {0}
  BY BlockFacts
<1>2. PICK q \in Int : b = BlockSize * q
  <2>1. b = BlockSize * (b \div BlockSize) + (b % BlockSize) /\ b \div BlockSize \in Int
    BY <1>1, DivMod
  <2> QED
    BY <1>1, <2>1
<1>3. PICK r \in 0 .. BlockSize - 1 : r = x - b
  BY <1>1
<1>4. (BlockSize * q + r) % BlockSize = r
  BY <1>1, Remainder
<1>5. BlockSize * q + r = x
  BY <1>2, <1>3
<1> QED
  BY <1>3, <1>4, <1>5 DEF Floor

LEMMA Floors ==
  ASSUME NEW x \in Int
  PROVE  /\ Floor(x) \in Int /\ Floor(x) % BlockSize = 0
         /\ x \in Floor(x) .. Floor(x) + BlockSize - 1
         /\ x % BlockSize \in 0 .. BlockSize - 1
<1>1. BlockSize \in Nat \ {0}
  BY BlockFacts
<1>2. PICK q \in Int, r \in 0 .. BlockSize - 1 : x = BlockSize * q + r /\ x % BlockSize = r
  BY <1>1, DivMod
<1>3. (BlockSize * q + 0) % BlockSize = 0
  BY <1>1, Remainder
<1>4. Floor(x) = BlockSize * q + 0 /\ BlockSize * q \in Int
  BY <1>1, <1>2 DEF Floor
<1> QED
  BY <1>1, <1>2, <1>3, <1>4

LEMMA Placed ==
  ASSUME NEW x \in Int
  PROVE  /\ Mod(x) % BlockSize = x % BlockSize
         /\ Base(Mod(x)) = Mod(Floor(x)) /\ Mod(Floor(x)) \in Bases
<1>1. /\ BlockSize \in Nat \ {0} /\ IndexSize \in Nat \ {0}
      /\ IndexSize % BlockSize = 0
  BY BlockFacts, SizesAreNat
<1>2. PICK k \in Int : IndexSize = BlockSize * k
  <2>1. IndexSize = BlockSize * (IndexSize \div BlockSize) + (IndexSize % BlockSize)
        /\ IndexSize \div BlockSize \in Int
    BY <1>1, DivMod
  <2> QED
    BY <1>1, <2>1
<1>3. PICK p \in Int, t \in 0 .. IndexSize - 1 : x = IndexSize * p + t /\ Mod(x) = t
  BY <1>1, DivMod DEF Mod
<1>4. t % BlockSize = x % BlockSize
  <2>1. PICK j \in Int : j = k * p
    OBVIOUS
  <2>2. (t + BlockSize * j) % BlockSize = t % BlockSize
    <3>1. t \in Int /\ j \in Int
      BY <1>1
    <3> QED
      BY <1>1, <3>1, WholeTurns
  <2>3. (BlockSize * k) * p = BlockSize * (k * p)
    BY <1>1
  <2>4. t + BlockSize * j = x
    BY <1>1, <1>2, <1>3, <2>1, <2>3
  <2> QED
    BY <2>2, <2>4
<1>5. PICK r \in Int : r = x % BlockSize /\ r \in 0 .. BlockSize - 1
  BY Floors, BlockFacts
<1>6. r <= t
  <2>1. CASE t < BlockSize
    <3>1. BlockSize * 0 + t = t /\ t \in 0 .. BlockSize - 1
      BY <1>1, <2>1
    <3>2. (BlockSize * 0 + t) % BlockSize = t
      BY <1>1, <3>1, Remainder
    <3> QED
      BY <1>4, <1>5, <3>1, <3>2
  <2> QED
    BY <1>1, <1>5, <2>1
<1>7. Mod(t - r) = t - r
  BY <1>1, <1>6, <1>5, ModSmall
<1>8. Mod(t - r) = Mod(x - r)
  <2>1. PICK y \in Int : y = -r
    OBVIOUS
  <2>2. ((x % IndexSize) + y) % IndexSize = (x + y) % IndexSize
    BY <1>1, ModOfSum
  <2>3. t + y = t - r /\ x + y = x - r /\ x % IndexSize = t
    BY <1>3, <2>1 DEF Mod
  <2> QED
    BY <2>2, <2>3 DEF Mod
<1>9. Base(Mod(x)) = t - r /\ Floor(x) = x - r
  BY <1>3, <1>4, <1>5 DEF Base, Floor
<1>10. t - r \in Index /\ (t - r) % BlockSize = 0
  <2>1. Floor(t) = t - r /\ Floor(t) % BlockSize = 0
    BY <1>4, <1>5, Floors DEF Floor
  <2> QED
    BY <1>1, <1>5, <1>6, <2>1 DEF Index
<1> QED
  BY <1>3, <1>4, <1>7, <1>8, <1>9, <1>10 DEF Bases

LEMMA BlockPlaced ==
  ASSUME NEW b \in Int, b % BlockSize = 0
  PROVE  Floor(b) = b /\ Mod(b) \in Bases /\ Base(Mod(b)) = Mod(b)
<1>1. Floor(b) = b
  BY DEF Floor
<1> QED
  BY <1>1, Placed

LEMMA Within ==
  ASSUME Inv
  PROVE  /\ Typed /\ taken \in Nat /\ sent \in Nat /\ taken <= sent /\ sent <= MaxSent
         /\ written => sent < MaxSent
         /\ \A c \in Consumers : pc[c] = "head" => taken < sent
         /\ excused \subseteq Consumers
<1>1. PICK s \in Int, o \in Int, oc \in Ghosts, m \in Ghosts : Explained(s, o, oc, m)
  BY Picked
<1>2. /\ Typed /\ taken \in Nat /\ sent \in Nat /\ taken <= sent
      /\ Balanced(s, o, oc, m) /\ Excusable(s, o, oc)
  BY <1>1, Picked DEF Explained
<1>3. ASSUME NEW c \in Consumers, pc[c] = "head" PROVE taken < sent
  <2>1. c \in At("head")
    BY <1>3 DEF At
  <2>2. Count("head") # 0
    BY <2>1, CountType, FS_EmptySet DEF Count
  <2> QED
    BY <1>2, <2>2, Counts DEF Balanced
<1>4. sent <= MaxSent /\ (written => sent < MaxSent)
  BY <1>2, SizesAreNat DEF Typed
<1>5. excused \subseteq Consumers
  BY <1>2 DEF Excusable, calling
<1> QED
  BY <1>2, <1>3, <1>4, <1>5

(* The bounds of what is compared: places are less than a turn apart.      *)
LEMMA TopType ==
  ASSUME Inv, NEW s \in Int
  PROVE  /\ Top(s) \in Int /\ s + sent <= Top(s) /\ Top(s) <= s + MaxSent
         /\ Top(s) <= s + sent + 1
<1>1. sent \in Nat /\ sent <= MaxSent /\ (written => sent < MaxSent) /\ MaxSent \in Nat
  BY Within, BlockFacts
<1> QED
  BY <1>1 DEF Top

LEMMA Apart ==
  ASSUME NEW s \in Int, NEW x \in Int, NEW y \in Int, Mod(x) = Mod(y),
         s - BlockSize < x, x <= s + MaxSent, s - BlockSize < y, y <= s + MaxSent
  PROVE  x = y
<1>1. x - y < IndexSize /\ y - x < IndexSize
  BY BlockFacts
<1> QED
  BY <1>1, ModInjective

LEMMA StartedApart ==
  ASSUME Inv, NEW s \in Int, NEW b \in Started(s)
  PROVE  /\ b \in Int /\ b % BlockSize = 0 /\ s - BlockSize < b /\ b < s + MaxSent
         /\ Mod(b) \in Bases
         /\ \A a \in Started(s) : Mod(a) = Mod(b) => a = b
<1>1. \A a \in Started(s) :
        a \in Int /\ a % BlockSize = 0 /\ s - BlockSize < a /\ a < s + MaxSent
  BY TopType, BlockFacts DEF Started
<1> QED
  BY <1>1, Apart, BlockPlaced, BlockFacts

LEMMA DoneType ==
  ASSUME NEW s \in Int, NEW b \in Int
  PROVE  /\ IsFiniteSet(Done(s, b)) /\ Cardinality(Done(s, b)) \in 0 .. BlockSize
         /\ Done(s, b) \subseteq b .. b + BlockSize - 1
         /\ \A x \in b .. b + BlockSize - 1 :
              x \notin Done(s, b) => Cardinality(Done(s, b)) < BlockSize
<1> DEFINE I == b .. b + BlockSize - 1
<1>1. BlockSize \in Nat \ {0} /\ b + BlockSize - 1 \in Int
  BY BlockFacts
<1>2. IsFiniteSet(I) /\ Cardinality(I) = BlockSize
  BY <1>1, FS_Interval
<1>3. Done(s, b) \subseteq I
  BY DEF Done
<1>4. IsFiniteSet(Done(s, b)) /\ Cardinality(Done(s, b)) <= BlockSize
      /\ Cardinality(Done(s, b)) \in Nat
  BY <1>2, <1>3, FS_Subset, FS_CardinalityType
<1>5. ASSUME NEW x \in I, x \notin Done(s, b) PROVE Cardinality(Done(s, b)) < BlockSize
  <2>1. IsFiniteSet(I \ {x}) /\ Cardinality(I \ {x}) = Cardinality(I) - 1
    <3> HIDE DEF I
    <3> QED
      BY <1>2, <1>5, FS_RemoveElement
  <2>2. Done(s, b) \subseteq I \ {x}
    BY <1>3, <1>5
  <2>3. Cardinality(Done(s, b)) <= BlockSize - 1
    BY <1>2, <2>1, <2>2, FS_Subset
  <2> QED
    BY <1>1, <1>4, <2>3
<1> QED
  BY <1>1, <1>3, <1>4, <1>5

--------------------------------------------------------------------------------
(* Steps that leave the blocks and the elements at work on alone.          *)
LEMMA KeptSame ==
  ASSUME NEW s \in Int, Kept(s), Busy' = Busy,
         UNCHANGED <<tailIndex, headIndex, blocks, elementsCompletelyDequeued>>,
         UNCHANGED <<sent, taken, written>>, \A c \in Busy : index'[c] = index[c]
  PROVE  Kept(s)'
<1>1. OwnElement(s)'
  BY DEF Kept, OwnElement
<1>2. Started(s)' = Started(s)
  BY DEF Started, Top
<1>3. \A b : Done(s, b)' = Done(s, b)
  BY DEF Done
<1>4. Tallied(s)'
  BY <1>2, <1>3 DEF Kept, Tallied
<1> QED
  BY <1>1, <1>2, <1>4 DEF Kept

LEMMA KeptQuiet ==
  ASSUME Inv, NEW s \in Int, Kept(s), NEW c \in Consumers,
         \/ LoadTail(c) \/ LoadOvercommit(c) \/ CheckCount(c) \/ Claim(c)
         \/ CheckClaim(c) \/ GiveBack(c) \/ MoveOut(c)
  PROVE  Kept(s)'
<1> USE DEF countVars, blockVars, localVars
<1>1. Typed
  BY Within
<1>2. /\ UNCHANGED <<tailIndex, headIndex, blocks, elementsCompletelyDequeued>>
      /\ UNCHANGED <<sent, taken, written, index>>
  BY DEF LoadTail, LoadOvercommit, CheckCount, Claim, CheckClaim, GiveBack, MoveOut
<1>3. /\ \A d \in Consumers : d # c => pc'[d] = pc[d]
      /\ pc'[c] \in {"move", "retire"} <=> pc[c] \in {"move", "retire"}
  BY <1>1 DEF LoadTail, LoadOvercommit, CheckCount, Claim, CheckClaim, GiveBack,
     MoveOut, Goto, Typed
<1>4. Busy' = Busy
  BY <1>3 DEF Busy, At
<1> QED
  BY <1>2, <1>4, KeptSame

(* The producer starts another block at the end of one, and only there.    *)
LEMMA KeptWritten ==
  ASSUME Inv, NEW s \in Int, Kept(s), EnqueueWrite, Inv'
  PROVE  Kept(s)'
<1> USE DEF countVars, blockVars, localVars
<1>1. /\ Typed /\ taken \in Nat /\ sent \in Nat /\ taken <= sent /\ sent < MaxSent
      /\ written = FALSE /\ MaxSent \in Nat
  BY Within, BlockFacts DEF EnqueueWrite, Typed
<1>2. UNCHANGED <<tailIndex, headIndex, sent, taken, index, pc>> /\ written' = TRUE
  BY DEF EnqueueWrite
<1>3. Busy' = Busy /\ \A b : Done(s, b)' = Done(s, b)
  BY <1>2 DEF Busy, At, Done
<1>4. OwnElement(s)'
  BY <1>2, <1>3 DEF Kept, OwnElement
<1>5. PICK x \in Int : x = s + sent
  BY <1>1
<1>6. Top(s) = x /\ Top(s)' = x + 1
  BY <1>1, <1>2, <1>5 DEF Top
<1>7. tailIndex = Mod(x) /\ Mod(x) % BlockSize = x % BlockSize /\ Mod(x) \in Int
  BY <1>5, Placed, ModFacts DEF Kept, Index
<1>8. tailIndex = Base(tailIndex) <=> x % BlockSize = 0
  <2>1. x % BlockSize \in Int
    BY Floors, BlockFacts
  <2> QED
    BY <1>7, <2>1 DEF Base
<1>9. CASE x % BlockSize # 0
  <2>1. UNCHANGED <<blocks, elementsCompletelyDequeued>>
    BY <1>8, <1>9 DEF EnqueueWrite
  <2>2. Started(s)' = Started(s)
    BY <1>6, <1>9 DEF Started
  <2>3. Tallied(s)'
    BY <1>3, <2>1, <2>2 DEF Kept, Tallied
  <2> QED
    BY <1>2, <1>4, <2>1, <2>2, <2>3 DEF Kept
<1>10. CASE x % BlockSize = 0
  <2>1. /\ blocks' = blocks \cup {Mod(x)}
        /\ elementsCompletelyDequeued' = [elementsCompletelyDequeued EXCEPT ![Mod(x)] = 0]
    BY <1>7, <1>8, <1>10 DEF EnqueueWrite
  <2>2. Started(s)' = Started(s) \cup {x} /\ x \notin Started(s)
    BY <1>1, <1>5, <1>6, <1>10, BlockFacts DEF Started
  <2>3. ASSUME NEW b \in Started(s) PROVE Mod(b) # Mod(x) /\ Mod(b) \in Bases /\ b \in Int
    <3>1. /\ b \in Int /\ s - BlockSize < b /\ b < s + MaxSent /\ Mod(b) \in Bases
      BY <2>3, StartedApart
    <3>2. s - BlockSize < x /\ x <= s + MaxSent
      BY <1>1, <1>5, BlockFacts
    <3>3. b # x
      BY <2>2, <2>3
    <3>4. Mod(b) # Mod(x)
      BY <3>1, <3>2, <3>3, Apart, BlockFacts
    <3> QED
      BY <3>1, <3>4
  <2>4. Mod(x) \in Bases
    BY <1>10, BlockPlaced
  <2>5. Done(s, x) = {}
    BY <1>1, <1>5 DEF Done
  <2>6. Cardinality(Done(s, x)) = 0
    BY <2>5, FS_EmptySet
  <2>7. /\ elementsCompletelyDequeued' \in [Bases -> 0 .. BlockSize]
        /\ elementsCompletelyDequeued'[Mod(x)] = 0
        /\ \A b \in Started(s) :
             elementsCompletelyDequeued'[Mod(b)] = elementsCompletelyDequeued[Mod(b)]
    BY <2>1, <2>3, <2>4, BlockFacts DEF Kept
  <2>8. ASSUME NEW b \in Started(s)'
        PROVE  /\ elementsCompletelyDequeued'[Mod(b)] = Cardinality(Done(s, b)')
               /\ Mod(b) \in blocks' <=> elementsCompletelyDequeued'[Mod(b)] < BlockSize
    <3>1. CASE b = x
      BY <1>3, <2>1, <2>6, <2>7, <3>1, BlockFacts
    <3>2. CASE b \in Started(s)
      <4>1. Mod(b) \in blocks' <=> Mod(b) \in blocks
        BY <2>1, <2>3, <3>2
      <4> QED
        BY <1>3, <2>7, <3>2, <4>1 DEF Kept, Tallied
    <3> QED
      BY <2>2, <3>1, <3>2
  <2>9. \A i \in blocks' : \E b \in Started(s)' : i = Mod(b)
    BY <2>1, <2>2 DEF Kept
  <2> QED
    BY <1>2, <1>4, <2>7, <2>8, <2>9 DEF Kept, Tallied
<1> QED
  BY <1>9, <1>10

LEMMA KeptPublished ==
  ASSUME Inv, NEW s \in Int, Kept(s), EnqueuePublish
  PROVE  Kept(s)'
<1> USE DEF countVars, blockVars, localVars
<1>1. sent \in Nat
  BY Within
<1>2. /\ UNCHANGED <<headIndex, blocks, elementsCompletelyDequeued, taken, index, pc>>
      /\ written /\ written' = FALSE /\ sent' = sent + 1 /\ tailIndex' = Plus(tailIndex, 1)
  BY DEF EnqueuePublish
<1>3. Busy' = Busy /\ \A b : Done(s, b)' = Done(s, b)
  BY <1>2 DEF Busy, At, Done
<1>4. OwnElement(s)'
  BY <1>2, <1>3 DEF Kept, OwnElement
<1>5. Started(s)' = Started(s)
  <2>1. Top(s)' = Top(s)
    BY <1>1, <1>2 DEF Top
  <2> QED
    BY <2>1 DEF Started
<1>6. tailIndex' = Mod(s + sent')
  <2>1. s + sent \in Int /\ s + sent' = (s + sent) + 1
    BY <1>1, <1>2
  <2> QED
    BY <1>2, <2>1, ModFacts DEF Kept
<1>7. Tallied(s)'
  BY <1>2, <1>3, <1>5 DEF Kept, Tallied
<1> QED
  BY <1>2, <1>4, <1>5, <1>6, <1>7 DEF Kept

(* Who takes the next element begins to work on it.                        *)
LEMMA KeptTaken ==
  ASSUME Inv, NEW s \in Int, Kept(s), NEW c \in Consumers, TakeHead(c)
  PROVE  Kept(s)'
<1> USE DEF countVars, blockVars, localVars
<1>1. /\ Typed /\ taken \in Nat /\ sent \in Nat /\ taken < sent /\ sent <= MaxSent
      /\ MaxSent \in Nat
  BY Within, BlockFacts DEF TakeHead, Goto
<1>2. /\ UNCHANGED <<tailIndex, blocks, elementsCompletelyDequeued, sent, written>>
      /\ taken' = taken + 1 /\ headIndex' = Plus(headIndex, 1)
      /\ index' = [index EXCEPT ![c] = headIndex] /\ Goto(c, "head", "move")
  BY DEF TakeHead
<1>3. /\ Busy' = Busy \cup {c} /\ c \notin Busy
      /\ index'[c] = headIndex /\ \A d \in Busy : index'[d] = index[d]
  <2>1. /\ pc[c] = "head" /\ pc'[c] = "move"
        /\ \A d \in Consumers : d # c => pc'[d] = pc[d]
    BY <1>1, <1>2 DEF Goto, Typed
  <2>2. Busy' = Busy \cup {c} /\ c \notin Busy
    BY <2>1 DEF Busy, At
  <2>3. \A d \in Busy : d \in Consumers
    BY DEF Busy, At
  <2> QED
    BY <1>1, <1>2, <2>2, <2>3 DEF Typed
<1>4. PICK x \in Int : x = s + taken
  BY <1>1
<1>5. headIndex = Mod(x) /\ headIndex' = Mod(x + 1) /\ s + taken' = x + 1
  <2>1. headIndex = Mod(x) /\ s + taken' = x + 1
    BY <1>1, <1>2, <1>4 DEF Kept
  <2> QED
    BY <1>2, <2>1, ModFacts
<1>6. ASSUME NEW y \in Int, s - BlockSize < y, y < x PROVE Mod(y) # headIndex
  <2>1. y <= s + MaxSent /\ s - BlockSize < x /\ x <= s + MaxSent
    BY <1>1, <1>4, <1>6, BlockFacts
  <2> QED
    BY <1>5, <1>6, <2>1, Apart
<1>7. ASSUME NEW d \in Busy PROVE \E y \in s .. x - 1 : index[d] = Mod(y) /\ Mod(y) # headIndex
  <2>1. PICK y \in s .. s + taken - 1 : index[d] = Mod(y)
    BY DEF Kept, OwnElement
  <2>2. y \in s .. x - 1 /\ y \in Int /\ s - BlockSize < y /\ y < x
    BY <1>1, <1>4, <2>1, BlockFacts
  <2> QED
    BY <1>6, <2>1, <2>2
<1>8. OwnElement(s)'
  <2>1. ASSUME NEW d \in Busy' PROVE \E y \in s .. s + taken' - 1 : index'[d] = Mod(y)
    <3>1. CASE d = c
      <4>1. x \in s .. s + taken' - 1
        BY <1>1, <1>2, <1>4
      <4> QED
        BY <1>3, <1>5, <3>1, <4>1
    <3>2. CASE d \in Busy
      <4>1. s .. x - 1 \subseteq s .. s + taken' - 1
        BY <1>1, <1>2, <1>4
      <4> QED
        BY <1>3, <1>7, <3>2, <4>1
    <3> QED
      BY <1>3, <2>1, <3>1, <3>2
  <2>2. \A d \in Busy : index'[d] # index'[c]
    BY <1>3, <1>7
  <2>3. \A d, e \in Busy : index'[d] = index'[e] => d = e
    BY <1>3 DEF Kept, OwnElement
  <2>4. \A d, e \in Busy' : index'[d] = index'[e] => d = e
    BY <1>3, <2>2, <2>3
  <2> QED
    BY <2>1, <2>4 DEF OwnElement
<1>9. Started(s)' = Started(s)
  BY <1>2 DEF Started, Top
<1>10. ASSUME NEW b \in Started(s) PROVE Done(s, b)' = Done(s, b)
  <2>1. b \in Int /\ s - BlockSize < b
    BY <1>10 DEF Started
  <2>2. ASSUME NEW y \in b .. b + BlockSize - 1
        PROVE  (y < s + taken' /\ \A d \in Busy' : index'[d] # Mod(y))
                 <=> (y < s + taken /\ \A d \in Busy : index[d] # Mod(y))
    <3>1. y \in Int /\ s - BlockSize < y
      BY <2>1, <2>2, BlockFacts
    <3>2. CASE y < x
      <4>1. y < s + taken' /\ y < s + taken /\ Mod(y) # headIndex
        BY <1>4, <1>5, <1>6, <3>1, <3>2
      <4> QED
        BY <1>3, <4>1
    <3>3. CASE y = x
      <4>1. ~(y < s + taken) /\ index'[c] = Mod(y) /\ c \in Busy'
        BY <1>3, <1>4, <1>5, <3>3
      <4> QED
        BY <4>1
    <3>4. CASE y > x
      BY <1>4, <1>5, <3>1, <3>4
    <3> QED
      BY <3>1, <3>2, <3>3, <3>4
  <2> QED
    BY <2>2 DEF Done
<1>11. Tallied(s)'
  BY <1>2, <1>9, <1>10 DEF Kept, Tallied
<1> QED
  BY <1>2, <1>5, <1>8, <1>9, <1>11 DEF Kept

(* Who is done with an element counts it; the last one frees the block.    *)
LEMMA KeptRetired ==
  ASSUME Inv, NEW s \in Int, Kept(s), NEW c \in Consumers, Retire(c)
  PROVE  Kept(s)'
<1> USE DEF countVars, blockVars, localVars
<1>1. /\ Typed /\ taken \in Nat /\ sent \in Nat /\ taken <= sent /\ sent <= MaxSent
      /\ MaxSent \in Nat
  BY Within, BlockFacts
<1>2. UNCHANGED <<tailIndex, headIndex, sent, taken, written, index>>
  BY DEF Retire
<1>3. Busy' = Busy \ {c} /\ c \in Busy
  <2>1. /\ pc[c] = "retire" /\ pc'[c] = "idle"
        /\ \A d \in Consumers : d # c => pc'[d] = pc[d]
    BY <1>1 DEF Retire, Goto, Typed
  <2> QED
    BY <2>1 DEF Busy, At
<1>4. PICK x \in s .. s + taken - 1 : index[c] = Mod(x)
  BY <1>3 DEF Kept, OwnElement
<1>5. PICK a \in Int : a = Floor(x)
  BY <1>4, Floors
<1>6. /\ x \in Int /\ x < s + taken /\ s <= x
      /\ a % BlockSize = 0 /\ x \in a .. a + BlockSize - 1 /\ Base(index[c]) = Mod(a)
  BY <1>1, <1>4, <1>5, Floors, Placed
<1>7. a \in Started(s)
  BY <1>1, <1>6, TopType, BlockFacts DEF Started
<1>8. OwnElement(s)'
  BY <1>2, <1>3 DEF Kept, OwnElement
<1>9. Started(s)' = Started(s)
  BY <1>2 DEF Started, Top
<1>10. ASSUME NEW b \in Started(s), NEW y \in b .. b + BlockSize - 1, y # x, y < s + taken
       PROVE  index[c] # Mod(y)
  <2>1. y \in Int /\ s - BlockSize < y /\ y <= s + MaxSent
    BY <1>1, <1>10, BlockFacts DEF Started
  <2>2. s - BlockSize < x /\ x <= s + MaxSent
    BY <1>1, <1>6, BlockFacts
  <2> QED
    BY <1>4, <1>6, <1>10, <2>1, <2>2, Apart
<1>11. x \notin Done(s, a) /\ Done(s, a)' = Done(s, a) \cup {x}
  <2>1. x \notin Done(s, a)
    BY <1>3, <1>4 DEF Done
  <2>2. \A d \in Busy \ {c} : index[d] # Mod(x)
    BY <1>3, <1>4 DEF Kept, OwnElement
  <2>3. ASSUME NEW y \in a .. a + BlockSize - 1
        PROVE  (y < s + taken' /\ \A d \in Busy' : index'[d] # Mod(y))
                 <=> (y \in Done(s, a) \/ y = x)
    <3>1. CASE y = x
      BY <1>2, <1>3, <1>6, <2>2, <3>1
    <3>2. CASE y # x
      <4>1. y < s + taken => index[c] # Mod(y)
        BY <1>7, <1>10, <3>2
      <4> QED
        BY <1>2, <1>3, <3>2, <4>1 DEF Done
    <3> QED
      BY <3>1, <3>2
  <2>4. Done(s, a)' = {y \in a .. a + BlockSize - 1 : y \in Done(s, a) \/ y = x}
    BY <2>3 DEF Done
  <2>5. Done(s, a) \subseteq a .. a + BlockSize - 1
    BY DEF Done
  <2> QED
    BY <1>6, <2>1, <2>4, <2>5
<1>12. ASSUME NEW b \in Started(s), b # a PROVE Done(s, b)' = Done(s, b)
  <2>1. ASSUME NEW y \in b .. b + BlockSize - 1
        PROVE  (y < s + taken' /\ \A d \in Busy' : index'[d] # Mod(y))
                 <=> (y < s + taken /\ \A d \in Busy : index[d] # Mod(y))
    <3>1. y # x
      <4>1. b \in Int /\ b % BlockSize = 0
        BY <1>12 DEF Started
      <4>2. Floor(y) = b
        BY <4>1, InBlock
      <4> QED
        BY <1>5, <1>12, <4>2
    <3>2. y < s + taken => index[c] # Mod(y)
      BY <1>10, <3>1
    <3> QED
      BY <1>2, <1>3, <3>2
  <2> QED
    BY <2>1 DEF Done
<1>13. Cardinality(Done(s, a)') = Cardinality(Done(s, a)) + 1
       /\ Cardinality(Done(s, a)) \in 0 .. BlockSize - 1
  <2>1. /\ IsFiniteSet(Done(s, a)) /\ Cardinality(Done(s, a)) \in 0 .. BlockSize
        /\ Cardinality(Done(s, a)) < BlockSize
    BY <1>6, <1>11, DoneType
  <2>2. Cardinality(Done(s, a) \cup {x}) = Cardinality(Done(s, a)) + 1
    BY <1>11, <2>1, FS_AddElement
  <2> QED
    BY <1>11, <2>1, <2>2, BlockFacts
<1>14. PICK n \in 0 .. BlockSize - 1 :
         n = Cardinality(Done(s, a)) /\ n = elementsCompletelyDequeued[Mod(a)]
  BY <1>7, <1>13 DEF Kept, Tallied
<1>15. /\ elementsCompletelyDequeued' = [elementsCompletelyDequeued EXCEPT ![Mod(a)] = n + 1]
       /\ blocks' = IF n = BlockSize - 1 THEN blocks \ {Mod(a)} ELSE blocks
  BY <1>6, <1>14 DEF Retire
<1>16. /\ Mod(a) \in Bases /\ \A b \in Started(s) : Mod(b) = Mod(a) => b = a
  BY <1>7, StartedApart
<1>17. \A b \in Started(s) : Mod(b) \in Bases
  BY StartedApart
<1>18. /\ elementsCompletelyDequeued' \in [Bases -> 0 .. BlockSize]
       /\ elementsCompletelyDequeued'[Mod(a)] = n + 1
       /\ \A b \in Started(s) : b # a =>
            elementsCompletelyDequeued'[Mod(b)] = elementsCompletelyDequeued[Mod(b)]
  <2>1. n + 1 \in 0 .. BlockSize
    BY BlockFacts
  <2> QED
    BY <1>15, <1>16, <1>17, <2>1 DEF Kept
<1>19. ASSUME NEW b \in Started(s)
       PROVE  /\ elementsCompletelyDequeued'[Mod(b)] = Cardinality(Done(s, b)')
              /\ Mod(b) \in blocks' <=> elementsCompletelyDequeued'[Mod(b)] < BlockSize
  <2>1. CASE b = a
    <3>1. Mod(a) \in blocks
      BY <1>7, <1>14, BlockFacts DEF Kept, Tallied
    <3>2. Mod(a) \in blocks' <=> n # BlockSize - 1
      BY <1>15, <3>1
    <3>3. n # BlockSize - 1 <=> n + 1 < BlockSize
      BY BlockFacts
    <3> QED
      BY <1>13, <1>14, <1>18, <2>1, <3>2, <3>3
  <2>2. CASE b # a
    <3>1. Mod(b) \in blocks' <=> Mod(b) \in blocks
      BY <1>15, <1>16, <2>2
    <3> QED
      BY <1>12, <1>18, <2>2, <3>1 DEF Kept, Tallied
  <2> QED
    BY <2>1, <2>2
<1>20. \A i \in blocks' : \E b \in Started(s)' : i = Mod(b)
  BY <1>9, <1>15 DEF Kept
<1> QED
  BY <1>2, <1>8, <1>9, <1>18, <1>19, <1>20 DEF Kept, Tallied

LEMMA KeptNext ==
  ASSUME Inv, Inv', BlockInv, [Next]_vars
  PROVE  BlockInv'
<1>1. PICK s \in Int : Kept(s)
  BY DEF BlockInv
<1>2. CASE UNCHANGED vars
  <2>1. Busy' = Busy /\ \A c \in Busy : index'[c] = index[c]
    BY <1>2 DEF vars, localVars, Busy, At
  <2>2. Kept(s)'
    BY <1>1, <1>2, <2>1, KeptSame DEF vars, countVars, blockVars
  <2> QED
    BY <2>2 DEF BlockInv
<1>3. CASE EnqueueWrite
  BY <1>1, <1>3, KeptWritten DEF BlockInv
<1>4. CASE EnqueuePublish
  BY <1>1, <1>4, KeptPublished DEF BlockInv
<1>5. ASSUME NEW c \in Consumers, Dequeue(c) PROVE Kept(s)'
  BY <1>1, <1>5, KeptQuiet, KeptTaken, KeptRetired, Zenon DEF Dequeue
<1> QED
  BY <1>2, <1>3, <1>4, <1>5 DEF Next, BlockInv

LEMMA KeptInit ==
  ASSUME Init
  PROVE  BlockInv
<1>1. PICK start \in Starts :
        /\ tailIndex = start[1] /\ headIndex = start[1]
        /\ blocks = {Base(start[1])} \ {start[1]}
        /\ elementsCompletelyDequeued =
             [b \in Bases |-> IF b \in blocks THEN start[1] - b ELSE 0]
  BY DEF Init
<1>2. PICK s : s = start[1]
  OBVIOUS
<1>3. s \in Index /\ s \in Int
  BY <1>1, <1>2, StartsAreCounters, Size DEF Index
<1>4. Mod(s) = s
  BY <1>3, ModSmall DEF Index
<1>5. sent = 0 /\ taken = 0 /\ written = FALSE /\ \A c \in Consumers : pc[c] = "idle"
  BY DEF Init
<1>6. Busy = {} /\ Top(s) = s /\ s + sent = s /\ s + taken = s
  BY <1>3, <1>5 DEF Busy, At, Top
<1>7. OwnElement(s)
  BY <1>6 DEF OwnElement
<1>8. PICK a \in Int : a = Floor(s)
  BY <1>3, Floors
<1>9. /\ a % BlockSize = 0 /\ a <= s /\ s < a + BlockSize /\ s - a \in 0 .. BlockSize - 1
      /\ Base(s) = Mod(a) /\ Mod(a) \in Bases /\ Base(s) = a
  <2>1. a % BlockSize = 0 /\ s \in a .. a + BlockSize - 1
    BY <1>3, <1>8, Floors
  <2>2. Base(s) = Mod(a) /\ Mod(a) \in Bases /\ Base(s) = a
    BY <1>3, <1>4, <1>8, Placed DEF Base, Floor
  <2> QED
    BY <1>3, <2>1, <2>2, BlockFacts
<1>10. Started(s) = {a} \ {s} /\ blocks = {Mod(a)} \ {s}
  <2>1. ASSUME NEW b \in Started(s) PROVE b = a /\ b # s
    <3>1. b \in Int /\ b % BlockSize = 0 /\ s - BlockSize < b /\ b < s
      BY <1>6, <2>1 DEF Started
    <3>2. s \in b .. b + BlockSize - 1
      BY <1>3, <3>1, BlockFacts
    <3> QED
      BY <1>8, <3>1, <3>2, InBlock
  <2>2. a # s => a \in Started(s)
    BY <1>3, <1>6, <1>9, BlockFacts DEF Started
  <2>3. blocks = {Mod(a)} \ {s}
    BY <1>1, <1>2, <1>9
  <2> QED
    BY <2>1, <2>2, <2>3
<1>11. elementsCompletelyDequeued \in [Bases -> 0 .. BlockSize]
  BY <1>1, <1>2, <1>9, <1>10, BlockFacts
<1>12. ASSUME NEW b \in Started(s)
       PROVE  /\ elementsCompletelyDequeued[Mod(b)] = Cardinality(Done(s, b))
              /\ Mod(b) \in blocks <=> elementsCompletelyDequeued[Mod(b)] < BlockSize
  <2>1. b = a /\ a # s /\ Mod(a) = a /\ Mod(a) \in blocks /\ a < s
    <3>1. b = a /\ a # s /\ Mod(a) = a
      BY <1>9, <1>10, <1>12
    <3> QED
      BY <1>3, <1>9, <1>10, <3>1
  <2>2. elementsCompletelyDequeued[Mod(a)] = s - a
    BY <1>1, <1>2, <1>9, <2>1
  <2>3. Done(s, a) = a .. s - 1
    BY <1>3, <1>6, <1>9, BlockFacts DEF Done
  <2>4. Cardinality(a .. s - 1) = s - a
    BY <1>3, <2>1, FS_Interval
  <2> QED
    BY <1>3, <1>9, <2>1, <2>2, <2>3, <2>4, BlockFacts
<1>13. \A i \in blocks : \E b \in Started(s) : i = Mod(b)
  BY <1>9, <1>10, <1>4
<1>14. Kept(s)
  BY <1>1, <1>2, <1>4, <1>6, <1>7, <1>11, <1>12, <1>13 DEF Kept, Tallied
<1> QED
  BY <1>3, <1>14 DEF BlockInv

--------------------------------------------------------------------------------
LEMMA BlocksAlways == Spec => [](Inv /\ BlockInv)
<1>1. Init => Inv /\ BlockInv
  BY InitHolds, KeptInit
<1>2. Inv /\ BlockInv /\ [Next]_vars => (Inv /\ BlockInv)'
  <2>1. Inv /\ [Next]_vars => Inv'
    BY NextStep, StutterStep
  <2> QED
    BY <2>1, KeptNext
<1> QED
  BY <1>1, <1>2, PTL DEF Spec

(* Every variable of the stream keeps its type; among other things, no     *)
(* block counts more elements than it has, and headIndex never advances    *)
(* past what was enqueued.                                                 *)
THEOREM TypeCorrect == Spec => []TypeOK
<1>1. ASSUME Inv, BlockInv PROVE TypeOK
  <2>1. /\ Typed /\ taken \in Nat /\ sent \in Nat /\ taken <= sent
        /\ excused \subseteq Consumers
    BY <1>1, Within
  <2>2. PICK s \in Int : Kept(s)
    BY <1>1 DEF BlockInv
  <2>3. blocks \subseteq Bases
    BY <1>1, <2>2, StartedApart DEF Kept
  <2>4. elementsCompletelyDequeued \in [Bases -> 0 .. BlockSize]
    BY <2>2 DEF Kept
  <2>5. taken \in 0 .. sent
    BY <2>1
  <2> QED
    BY <2>1, <2>3, <2>4, <2>5 DEF TypeOK, Typed, Points
<1> QED
  BY <1>1, BlocksAlways, PTL

(* When nobody is at work, a block is there if and only if an element of   *)
(* it is still to be dequeued or to be written.                            *)
LEMMA QuietBlocks ==
  ASSUME Inv, NEW s \in Int, Kept(s), calling = {}, ~written, NEW i
  PROVE  i \in blocks <=> \E b \in Started(s) : i = Mod(b) /\ s + taken < b + BlockSize
<1>1. taken \in Nat /\ BlockSize \in Nat \ {0}
  BY Within, BlockFacts
<1>2. Busy = {}
  BY DEF Busy, At, calling
<1>3. ASSUME NEW b \in Started(s)
      PROVE  Mod(b) \in blocks <=> s + taken < b + BlockSize
  <2>1. /\ b \in Int
        /\ Mod(b) \in blocks <=> Cardinality(Done(s, b)) < BlockSize
    BY <1>3 DEF Kept, Tallied, Started
  <2>2. CASE s + taken < b + BlockSize
    <3>1. b + BlockSize - 1 \in b .. b + BlockSize - 1
          /\ b + BlockSize - 1 \notin Done(s, b)
      BY <1>1, <2>1, <2>2 DEF Done
    <3>2. Cardinality(Done(s, b)) < BlockSize
      BY <2>1, <3>1, DoneType
    <3> QED
      BY <2>1, <2>2, <3>2
  <2>3. CASE ~(s + taken < b + BlockSize)
    <3>1. Done(s, b) = b .. b + BlockSize - 1
      BY <1>1, <1>2, <2>1, <2>3 DEF Done
    <3>2. Cardinality(b .. b + BlockSize - 1) = BlockSize
      BY <1>1, <2>1, FS_Interval
    <3> QED
      BY <1>1, <2>1, <2>3, <3>1, <3>2
  <2> QED
    BY <2>2, <2>3
<1> QED
  BY <1>3 DEF Kept

(* Nothing leaks and nothing is freed too early: a quiet stream holds just *)
(* the blocks of the elements in it and the one the next element goes to.  *)
THEOREM BlocksReclaimedAlways == Spec => []BlocksReclaimed
<1>1. ASSUME Inv, BlockInv PROVE BlocksReclaimed
  <2> SUFFICES ASSUME calling = {}, ~written
               PROVE  blocks = {Base(Plus(headIndex, k)) : k \in 0 .. sent - taken - 1}
                                 \cup ({Base(tailIndex)} \ {tailIndex})
    BY DEF BlocksReclaimed
  <2>1. taken \in Nat /\ sent \in Nat /\ taken <= sent /\ BlockSize \in Nat \ {0}
    BY <1>1, Within, BlockFacts
  <2>2. PICK s \in Int : Kept(s)
    BY <1>1 DEF BlockInv
  <2>3. PICK h \in Int, t \in Int : h = s + taken /\ t = s + sent
    BY <2>1
  <2>4. h <= t /\ s <= h /\ t - h = sent - taken /\ Top(s) = t
    BY <2>1, <2>3 DEF Top
  <2>5. \A k \in 0 .. sent - taken - 1 : Base(Plus(headIndex, k)) = Mod(Floor(h + k))
    <3> SUFFICES ASSUME NEW k \in 0 .. sent - taken - 1
                 PROVE  Base(Plus(headIndex, k)) = Mod(Floor(h + k))
      OBVIOUS
    <3>1. headIndex = Mod(h) /\ h + k \in Int /\ k \in Int /\ IndexSize \in Nat \ {0}
      BY <2>2, <2>3, BlockFacts DEF Kept
    <3>2. Plus(headIndex, k) = Mod(h + k)
      BY <3>1, ModOfSum DEF Plus, Mod
    <3> QED
      BY <3>1, <3>2, Placed
  <2>6. Base(tailIndex) = Mod(Floor(t)) /\ (tailIndex = Mod(Floor(t)) <=> Floor(t) = t)
    <3>1. tailIndex = Mod(t) /\ Base(tailIndex) = Mod(Floor(t))
      BY <2>2, <2>3, Placed DEF Kept
    <3>2. Mod(t) % BlockSize = t % BlockSize
      BY Placed
    <3>3. t % BlockSize \in Int
      BY <2>1, Floors
    <3>4. Mod(t) \in Int
      BY ModFacts, BlockFacts DEF Index
    <3> QED
      BY <3>1, <3>2, <3>3, <3>4 DEF Base, Floor
  <2>7. ASSUME NEW b \in Started(s), h < b + BlockSize
        PROVE  \/ \E k \in 0 .. sent - taken - 1 : b = Floor(h + k)
               \/ b = Floor(t) /\ Floor(t) # t
    <3>1. b \in Int /\ b % BlockSize = 0 /\ b < t
      BY <2>4, <2>7 DEF Started
    <3>2. CASE b >= h
      <4>1. b - h \in 0 .. sent - taken - 1 /\ h + (b - h) = b
        BY <2>4, <3>1, <3>2
      <4>2. Floor(b) = b
        BY <3>1, BlockPlaced
      <4> QED
        BY <4>1, <4>2
    <3>3. CASE b < h
      <4>1. h \in b .. b + BlockSize - 1
        BY <2>1, <2>7, <3>1, <3>3
      <4>2. Floor(h) = b
        BY <3>1, <4>1, InBlock
      <4>3. h < t => 0 \in 0 .. sent - taken - 1 /\ h + 0 = h
        BY <2>4
      <4> QED
        BY <2>4, <3>1, <4>2, <4>3
    <3> QED
      BY <3>1, <3>2, <3>3
  <2>8. /\ \A y \in h .. t - 1 : Floor(y) \in Started(s) /\ h < Floor(y) + BlockSize
        /\ Floor(t) # t => Floor(t) \in Started(s) /\ h < Floor(t) + BlockSize
    <3>1. \A y \in Int : /\ Floor(y) \in Int /\ Floor(y) % BlockSize = 0
                        /\ Floor(y) <= y /\ y < Floor(y) + BlockSize
      BY Floors, BlockFacts
    <3> QED
      BY <2>1, <2>4, <3>1 DEF Started
  <2>9. \A i : i \in blocks <=> \E b \in Started(s) : i = Mod(b) /\ h < b + BlockSize
    BY <1>1, <2>2, <2>3, QuietBlocks
  <2>10. ASSUME NEW i \in blocks
         PROVE  i \in {Base(Plus(headIndex, k)) : k \in 0 .. sent - taken - 1}
                        \cup ({Base(tailIndex)} \ {tailIndex})
    <3>1. PICK b \in Started(s) : i = Mod(b) /\ h < b + BlockSize
      BY <2>9, <2>10
    <3> QED
      BY <2>5, <2>6, <2>7, <3>1
  <2>11. ASSUME NEW k \in 0 .. sent - taken - 1 PROVE Base(Plus(headIndex, k)) \in blocks
    <3>1. PICK y \in h .. t - 1 : y = h + k
      BY <2>4
    <3>2. Floor(y) \in Started(s) /\ h < Floor(y) + BlockSize
      BY <2>8, <3>1
    <3>3. Mod(Floor(y)) \in blocks
      BY <2>9, <3>2
    <3> QED
      BY <2>5, <3>1, <3>3
  <2>12. tailIndex # Base(tailIndex) => Base(tailIndex) \in blocks
    BY <2>4, <2>6, <2>8, <2>9
  <2> QED
    BY <2>10, <2>11, <2>12
<1> QED
  BY <1>1, BlocksAlways, PTL

================================================================================
