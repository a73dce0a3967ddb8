--------------------------- MODULE BlockRing_proof -----------------------------
(***************************************************************************)
(* Proofs about BlockRing.  The argument is about numbers that do not      *)
(* wrap: places of elements, and numbers of blocks; block n has the places *)
(* from BlockSize * n on.                                                  *)
(***************************************************************************)
EXTENDS BlockRing, FiniteSetTheorems, WellFoundedInduction, TLAPS

Mod(x) == x % IndexSize
Num(x) == x \div BlockSize
Blk(n) == Mod(BlockSize * n)
Turn1 == IndexSize \div BlockSize

Cong(a, b, m) == \E q \in Int : a - b = m * q

--------------------------------------------------------------------------------
(* Numbers.                                                                *)
LEMMA DivMod ==
  ASSUME NEW n \in Nat \ {0}, NEW x \in Int
  PROVE  x % n \in 0 .. n - 1 /\ x \div n \in Int /\ x = n * (x \div n) + (x % n)
OBVIOUS

LEMMA AtLeastOnce ==
  ASSUME NEW n \in Nat \ {0}, NEW d \in Int
  PROVE  (d >= 1 => n * d >= n) /\ (d <= -1 => n * d <= -n)
<1>1. d >= 1 => n * d >= n
  OBVIOUS
<1>2. d <= -1 => n * d <= -n
  OBVIOUS
<1> QED
  BY <1>1, <1>2

(* Remainder and quotient are unique.                                      *)
LEMMA Remainder ==
  ASSUME NEW n \in Nat \ {0}, NEW q \in Int, NEW r \in 0 .. n - 1
  PROVE  (n * q + r) % n = r /\ (n * q + r) \div n = q
<1>1. PICK x \in Int : x = n * q + r
  OBVIOUS
<1>2. PICK p \in Int, t \in 0 .. n - 1 : x = n * p + t /\ x % n = t /\ x \div n = p
  BY DivMod
<1>3. n * (q - p) = t - r
  BY <1>1, <1>2
<1>4. ~(q - p >= 1) /\ ~(q - p <= -1)
  BY <1>3, AtLeastOnce
<1> QED
  BY <1>1, <1>2, <1>4

LEMMA WholeTurns ==
  ASSUME NEW n \in Nat \ {0}, NEW x \in Int, NEW k \in Int
  PROVE  (x + n * k) % n = x % n
<1>1. PICK q \in Int, r \in 0 .. n - 1 : x = n * q + r /\ x % n = r
  BY DivMod
<1>2. x + n * k = n * (q + k) + r /\ q + k \in Int
  BY <1>1
<1>3. (n * (q + k) + r) % n = r
  BY <1>2, Remainder
<1> QED
  BY <1>1, <1>2, <1>3

--------------------------------------------------------------------------------
(* Congruence.                                                             *)
LEMMA CongSame ==
  ASSUME NEW m \in Int, NEW a \in Int
  PROVE  Cong(a, a, m) /\ Cong(a + m, a, m) /\ Cong(a - m, a, m)
<1>1. a - a = m * 0 /\ (a + m) - a = m * 1 /\ (a - m) - a = m * (-1)
  OBVIOUS
<1> QED
  BY <1>1 DEF Cong

LEMMA CongSum ==
  ASSUME NEW m \in Int, NEW a \in Int, NEW b \in Int, NEW c \in Int, NEW d \in Int,
         Cong(a, b, m), Cong(c, d, m)
  PROVE  Cong(a + c, b + d, m) /\ Cong(a - c, b - d, m)
<1>1. PICK q \in Int : a - b = m * q
  BY DEF Cong
<1>2. PICK p \in Int : c - d = m * p
  BY DEF Cong
<1>3. /\ (a + c) - (b + d) = m * (q + p) /\ q + p \in Int
      /\ (a - c) - (b - d) = m * (q - p) /\ q - p \in Int
  BY <1>1, <1>2
<1> QED
  BY <1>3 DEF Cong

LEMMA CongTurn ==
  ASSUME NEW m \in Int, NEW a \in Int, NEW b \in Int, NEW c \in Int, Cong(a, b, m)
  PROVE  /\ Cong(b, a, m)
         /\ Cong(b, c, m) => Cong(a, c, m)
         /\ Cong(c, b, m) => Cong(a, c, m)
<1>1. PICK q \in Int : a - b = m * q
  BY DEF Cong
<1>2. b - a = m * (-q) /\ -q \in Int
  BY <1>1
<1>3. Cong(b, c, m) => Cong(a, c, m)
  <2> SUFFICES ASSUME Cong(b, c, m) PROVE Cong(a, c, m)
    OBVIOUS
  <2>1. PICK p \in Int : b - c = m * p
    BY DEF Cong
  <2>2. a - c = m * (q + p) /\ q + p \in Int
    BY <1>1, <2>1
  <2> QED
    BY <2>2 DEF Cong
<1>4. Cong(c, b, m) => Cong(a, c, m)
  <2> SUFFICES ASSUME Cong(c, b, m) PROVE Cong(a, c, m)
    OBVIOUS
  <2>1. PICK p \in Int : c - b = m * p
    BY DEF Cong
  <2>2. a - c = m * (q - p) /\ q - p \in Int
    BY <1>1, <2>1
  <2> QED
    BY <2>2 DEF Cong
<1> QED
  BY <1>2, <1>3, <1>4 DEF Cong

LEMMA CongPart ==
  ASSUME NEW m \in Int, NEW k \in Int, NEW a \in Int, NEW b \in Int, Cong(a, b, m * k)
  PROVE  Cong(a, b, m)
<1>1. PICK q \in Int : a - b = (m * k) * q
  BY DEF Cong
<1>2. a - b = m * (k * q) /\ k * q \in Int
  BY <1>1
<1> QED
  BY <1>2 DEF Cong

LEMMA CongMod ==
  ASSUME NEW m \in Nat \ {0}, NEW a \in Int
  PROVE  Cong(a % m, a, m) /\ a % m \in 0 .. m - 1
<1>1. PICK q \in Int, r \in 0 .. m - 1 : a = m * q + r /\ a % m = r
  BY DivMod
<1>2. r - a = m * (-q) /\ -q \in Int
  BY <1>1
<1> QED
  BY <1>1, <1>2 DEF Cong

LEMMA CongNear ==
  ASSUME NEW m \in Nat \ {0}, NEW a \in Int, NEW b \in Int, Cong(a, b, m),
         a - b < m, b - a < m
  PROVE  a = b
<1>1. PICK q \in Int : a - b = m * q
  BY DEF Cong
<1>2. ~(q >= 1) /\ ~(q <= -1)
  BY <1>1, AtLeastOnce
<1> QED
  BY <1>1, <1>2

LEMMA CongIsMod ==
  ASSUME NEW m \in Nat \ {0}, NEW a \in Int, NEW r \in 0 .. m - 1, Cong(r, a, m)
  PROVE  a % m = r
<1>1. Cong(a % m, a, m) /\ a % m \in 0 .. m - 1 /\ r \in Int
  BY CongMod
<1>2. PICK s \in 0 .. m - 1 : s = a % m
  BY <1>1
<1>3. Cong(s, r, m)
  BY <1>1, <1>2, CongTurn
<1>4. s \in Int /\ s - r < m /\ r - s < m
  BY <1>1, <1>2
<1>5. s = r
  BY <1>1, <1>3, <1>4, CongNear
<1> QED
  BY <1>2, <1>5

--------------------------------------------------------------------------------
(* The sizes.                                                              *)
LEMMA Sizes ==
  /\ BlockSize \in Nat \ {0} /\ BlockSize >= 2 /\ IndexSize \in Nat \ {0}
  /\ MaxSize \in Nat \ {0} /\ InitialSize \in Nat \ {0}
  /\ Turn1 \in Nat \ {0} /\ IndexSize = BlockSize * Turn1
  /\ \E k \in Int : Turn1 = MaxSize * k
<1>1. /\ BlockSize \in Nat /\ BlockSize >= 2 /\ IndexSize \in Nat \ {0}
      /\ MaxSize \in Nat \ {0} /\ InitialSize \in Nat \ {0}
  BY SizesDivide
<1>2. PICK m \in Nat \ {0} : m = BlockSize * MaxSize
  <2>1. BlockSize \in Nat \ {0} /\ MaxSize >= 1
    BY <1>1
  <2>2. BlockSize * MaxSize >= BlockSize
    BY <1>1, <2>1, AtLeastOnce
  <2> QED
    BY <1>1, <2>2
<1>3. PICK k \in Int : IndexSize = m * k
  <2>1. IndexSize % m = 0
    BY <1>2, SizesDivide
  <2> QED
    BY <1>1, <1>2, <2>1, DivMod
<1>4. PICK t \in Int : t = MaxSize * k
  BY <1>1
<1>5. IndexSize = BlockSize * t + 0
  BY <1>1, <1>2, <1>3, <1>4
<1>6. (BlockSize * t + 0) \div BlockSize = t
  BY <1>1, Remainder
<1>7. Turn1 = t
  BY <1>5, <1>6 DEF Turn1
<1>8. t >= 1
  <2>1. t <= -1 => BlockSize * t <= -BlockSize
    BY <1>1, AtLeastOnce
  <2> QED
    BY <1>1, <1>5, <2>1
<1> QED
  BY <1>1, <1>4, <1>5, <1>7, <1>8

LEMMA ModType ==
  ASSUME NEW x \in Int
  PROVE  Mod(x) \in Index /\ Mod(x) \in Int /\ Cong(Mod(x), x, IndexSize)
BY Sizes, CongMod DEF Mod, Index

LEMMA ModSame ==
  ASSUME NEW x \in Int, NEW y \in Int
  PROVE  Mod(x) = Mod(y) <=> Cong(x, y, IndexSize)
<1>1. IndexSize \in Nat \ {0} /\ Mod(x) \in 0 .. IndexSize - 1 /\ Mod(y) \in 0 .. IndexSize - 1
  BY Sizes, CongMod DEF Mod
<1>2. PICK a \in 0 .. IndexSize - 1, b \in 0 .. IndexSize - 1 :
        a = Mod(x) /\ b = Mod(y) /\ Cong(a, x, IndexSize) /\ Cong(b, y, IndexSize)
  BY <1>1, ModType
<1>3. a \in Int /\ b \in Int /\ a - b < IndexSize /\ b - a < IndexSize /\ IndexSize \in Int
  BY <1>1
<1>4. ASSUME a = b PROVE Cong(x, y, IndexSize)
  BY <1>2, <1>3, <1>4, CongTurn
<1>5. ASSUME Cong(x, y, IndexSize) PROVE a = b
  <2>1. Cong(a, y, IndexSize)
    BY <1>2, <1>3, <1>5, CongTurn
  <2>2. Cong(a, b, IndexSize)
    BY <1>2, <1>3, <2>1, CongTurn
  <2> QED
    BY <1>1, <1>3, <2>2, CongNear
<1> QED
  BY <1>2, <1>4, <1>5

(* Adding and subtracting counters, and telling them apart.                *)
LEMMA ModFacts ==
  ASSUME NEW x \in Int, NEW y \in Int
  PROVE  /\ Plus(Mod(x), y) = Mod(x + y)
         /\ Minus(Mod(x), y) = Mod(x - y)
         /\ Minus(Mod(x), Mod(y)) = Mod(x - y)
<1>0. IndexSize \in Int /\ IndexSize \in Nat \ {0} /\ Mod(x) \in Int /\ Mod(y) \in Int
  BY Sizes, ModType
<1>1. Cong(Mod(x), x, IndexSize) /\ Cong(Mod(y), y, IndexSize) /\ Cong(y, y, IndexSize)
  BY <1>0, ModType, CongSame
<1>2. /\ Cong(Mod(x) + y, x + y, IndexSize) /\ Cong(Mod(x) - y, x - y, IndexSize)
      /\ Cong(Mod(x) - Mod(y), x - y, IndexSize)
  BY <1>0, <1>1, CongSum
<1>3. /\ Mod(Mod(x) + y) = Mod(x + y) /\ Mod(Mod(x) - y) = Mod(x - y)
      /\ Mod(Mod(x) - Mod(y)) = Mod(x - y)
  BY <1>0, <1>2, ModSame
<1> QED
  BY <1>3 DEF Mod, Plus, Minus

LEMMA ModNear ==
  ASSUME NEW x \in Int, NEW y \in Int, Mod(x) = Mod(y), x - y < IndexSize, y - x < IndexSize
  PROVE  x = y
BY Sizes, ModSame, CongNear

LEMMA ModSmall ==
  ASSUME NEW r \in 0 .. IndexSize - 1
  PROVE  Mod(r) = r
BY Sizes, CongSame, CongIsMod DEF Mod

--------------------------------------------------------------------------------
(* Blocks and places.                                                      *)
LEMMA NumIs ==
  ASSUME NEW x \in Int
  PROVE  /\ Num(x) \in Int /\ BlockSize * Num(x) <= x /\ x < BlockSize * Num(x) + BlockSize
         /\ x % BlockSize = x - BlockSize * Num(x)
         /\ BlockSize * Num(x) \in Int
BY Sizes, DivMod DEF Num

LEMMA NumUnique ==
  ASSUME NEW n \in Int, NEW x \in Int, BlockSize * n <= x, x < BlockSize * n + BlockSize
  PROVE  Num(x) = n
<1>1. PICK r \in 0 .. BlockSize - 1 : r = x - BlockSize * n
  BY Sizes
<1>2. x = BlockSize * n + r
  BY <1>1, Sizes
<1> QED
  BY <1>2, Sizes, Remainder DEF Num

LEMMA BlockApart ==
  ASSUME NEW n \in Int, NEW m \in Int
  PROVE  /\ n < m => BlockSize * n + BlockSize <= BlockSize * m
         /\ BlockSize * n < BlockSize * m => n < m
         /\ BlockSize * (n + 1) = BlockSize * n + BlockSize
         /\ BlockSize * n \in Int
<1>1. BlockSize \in Nat \ {0} /\ m - n \in Int
  BY Sizes
<1>2. m - n >= 1 => BlockSize * (m - n) >= BlockSize
  BY <1>1, AtLeastOnce
<1>3. n - m >= 1 => BlockSize * (n - m) >= BlockSize
  BY <1>1, AtLeastOnce
<1>4. BlockSize * (m - n) = BlockSize * m - BlockSize * n
  BY <1>1
<1>5. BlockSize * (n - m) = BlockSize * n - BlockSize * m
  BY <1>1
<1>6. BlockSize * m \in Int /\ BlockSize * n \in Int
  BY <1>1
<1>7. n < m => BlockSize * n + BlockSize <= BlockSize * m
  BY <1>1, <1>2, <1>4, <1>6
<1>8. BlockSize * n < BlockSize * m => n < m
  <2>1. ~(n - m >= 1) /\ n # m => n < m
    OBVIOUS
  <2> QED
    BY <1>1, <1>3, <1>5, <1>6, <2>1
<1>9. BlockSize * (n + 1) = BlockSize * n + BlockSize
  BY <1>1
<1> QED
  BY <1>6, <1>7, <1>8, <1>9

LEMMA NumMonotone ==
  ASSUME NEW x \in Int, NEW y \in Int, x <= y
  PROVE  Num(x) <= Num(y)
<1>1. ~(Num(y) < Num(x))
  <2> SUFFICES ASSUME Num(y) < Num(x) PROVE FALSE
    OBVIOUS
  <2>1. BlockSize * Num(y) + BlockSize <= BlockSize * Num(x)
    BY NumIs, BlockApart
  <2> QED
    BY <2>1, NumIs, Sizes
<1> QED
  BY <1>1, NumIs

(* The place where a block begins is a multiple of its size.               *)
LEMMA BlkType ==
  ASSUME NEW n \in Int
  PROVE  Blk(n) % BlockSize = 0 /\ Blk(n) \in Index /\ Blk(n) = BlockSize * (n % Turn1)
<1>1. PICK q \in Int, r \in 0 .. Turn1 - 1 : n = Turn1 * q + r /\ n % Turn1 = r
  BY Sizes, DivMod
<1>2. PICK a \in Int : a = BlockSize * r
  BY Sizes
<1>3. BlockSize * n = IndexSize * q + a
  <2>1. BlockSize * (Turn1 * q + r) = (BlockSize * Turn1) * q + BlockSize * r
    BY Sizes
  <2> QED
    BY <1>1, <1>2, <2>1, Sizes
<1>4. a \in 0 .. IndexSize - 1
  <2>1. BlockSize * 0 <= a
    BY <1>1, <1>2, Sizes, BlockApart
  <2>2. BlockSize * r + BlockSize <= BlockSize * Turn1
    BY <1>1, Sizes, BlockApart
  <2> QED
    BY <1>2, <2>1, <2>2, Sizes
<1>5. (IndexSize * q + a) % IndexSize = a
  BY <1>4, Sizes, Remainder
<1>6. Blk(n) = a
  BY <1>3, <1>5 DEF Blk, Mod
<1>7. (BlockSize * r + 0) % BlockSize = 0
  BY <1>1, Sizes, Remainder
<1>8. a % BlockSize = 0
  BY <1>2, <1>7, Sizes
<1> QED
  BY <1>1, <1>2, <1>4, <1>6, <1>8 DEF Index

LEMMA BlkSame ==
  ASSUME NEW n \in Int, NEW m \in Int, Blk(n) = Blk(m),
         BlockSize * n - BlockSize * m < IndexSize,
         BlockSize * m - BlockSize * n < IndexSize
  PROVE  n = m
<1>1. BlockSize * n = BlockSize * m
  BY BlockApart, ModNear DEF Blk
<1> QED
  BY <1>1, BlockApart, Sizes

LEMMA BlkSteps ==
  ASSUME NEW n \in Int, NEW m \in Int
  PROVE  /\ Plus(Blk(n), BlockSize) = Blk(n + 1)
         /\ Minus(Blk(n), BlockSize) = Blk(n - 1)
         /\ Minus(Blk(n), Blk(m)) = Blk(n - m)
         /\ Minus(Blk(n), Blk(m)) \div BlockSize = (n - m) % Turn1
<1>1. /\ BlockSize * n \in Int /\ BlockSize * m \in Int /\ BlockSize \in Int
      /\ BlockSize * (n + 1) = BlockSize * n + BlockSize
      /\ BlockSize * (n - 1) = BlockSize * n - BlockSize
      /\ BlockSize * (n - m) = BlockSize * n - BlockSize * m
  BY Sizes
<1>2. /\ Plus(Blk(n), BlockSize) = Blk(n + 1) /\ Minus(Blk(n), BlockSize) = Blk(n - 1)
      /\ Minus(Blk(n), Blk(m)) = Blk(n - m)
  BY <1>1, ModFacts DEF Blk
<1>3. PICK r \in Int : r = (n - m) % Turn1 /\ Blk(n - m) = BlockSize * r + 0
  <2>1. PICK d \in Int : d = n - m
    OBVIOUS
  <2>2. Blk(d) = BlockSize * (d % Turn1) /\ d % Turn1 \in Int
    BY BlkType, Sizes, DivMod
  <2>3. BlockSize * (d % Turn1) = BlockSize * (d % Turn1) + 0
    BY <2>2, Sizes
  <2> QED
    BY <2>1, <2>2, <2>3
<1>4. (BlockSize * r + 0) \div BlockSize = r
  BY Sizes, Remainder
<1> QED
  BY <1>2, <1>3, <1>4

(* The block of a place.                                                   *)
LEMMA BaseIs ==
  ASSUME NEW x \in Int
  PROVE  /\ Base(Mod(x)) = Blk(Num(x))
         /\ Mod(x) % BlockSize = x % BlockSize
<1>1. PICK n \in Int, r \in 0 .. BlockSize - 1 :
        n = Num(x) /\ x = BlockSize * n + r /\ x % BlockSize = r
  BY Sizes, DivMod DEF Num
<1>2. PICK k \in Int : Blk(n) = BlockSize * k /\ k \in 0 .. Turn1 - 1
  <2>1. n % Turn1 \in 0 .. Turn1 - 1
    BY Sizes, CongMod
  <2>2. n % Turn1 \in Int
    BY <2>1, Sizes
  <2> QED
    BY <2>1, <2>2, BlkType
<1>3. PICK a \in Int : a = BlockSize * k
  BY Sizes
<1>4. BlockSize * k + BlockSize <= BlockSize * Turn1 /\ 0 <= a
  <2>1. BlockSize * 0 <= BlockSize * k
    BY <1>2, Sizes, BlockApart
  <2> QED
    BY <1>2, <1>3, <2>1, Sizes, BlockApart
<1>5. a + r \in 0 .. IndexSize - 1
  BY <1>1, <1>3, <1>4, Sizes
<1>6. Mod(x) = a + r
  <2>1. Mod(BlockSize * n) = a /\ BlockSize * n \in Int /\ r \in Int
    BY <1>1, <1>2, <1>3, Sizes DEF Blk
  <2>2. Plus(Mod(BlockSize * n), r) = Mod(BlockSize * n + r)
    BY <2>1, ModFacts
  <2>3. Plus(a, r) = a + r
    BY <1>5, ModSmall DEF Plus, Mod
  <2> QED
    BY <1>1, <2>1, <2>2, <2>3
<1>7. (BlockSize * k + r) % BlockSize = r
  BY Sizes, Remainder
<1>8. Mod(x) % BlockSize = r
  BY <1>3, <1>6, <1>7
<1> QED
  BY <1>1, <1>2, <1>3, <1>6, <1>8 DEF Base

(* The position of a block in an index, from that of another one.          *)
LEMMA PositionIs ==
  ASSUME NEW C \in Nat \ {0}, NEW k \in Int, Turn1 = C * k,
         NEW t \in Int, NEW n \in Int, NEW m \in Int, NEW p \in 0 .. C - 1,
         Cong(p, t + (n - m), C)
  PROVE  (t + (Minus(Blk(n), Blk(m)) \div BlockSize)) % C = p
<1>1. PICK r \in Int : r = (n - m) % Turn1 /\ Cong(r, n - m, Turn1)
  <2>1. PICK d \in Int : d = n - m
    OBVIOUS
  <2>2. Cong(d % Turn1, d, Turn1) /\ d % Turn1 \in 0 .. Turn1 - 1
    BY Sizes, CongMod
  <2>3. d % Turn1 \in Int
    BY <2>2, Sizes
  <2> QED
    BY <2>1, <2>2, <2>3
<1>2. Cong(r, n - m, C)
  <2>1. PICK d \in Int : d = n - m
    OBVIOUS
  <2>2. Cong(r, d, C * k) /\ C \in Int
    BY <1>1, <2>1
  <2> QED
    BY <2>1, <2>2, CongPart
<1>3. Cong(t + r, t + (n - m), C)
  <2>1. PICK d \in Int : d = n - m /\ C \in Int
    OBVIOUS
  <2>2. Cong(t, t, C) /\ Cong(r, d, C)
    BY <1>2, <2>1, CongSame
  <2>3. Cong(t + r, t + d, C)
    BY <2>1, <2>2, CongSum
  <2> QED
    BY <2>1, <2>3
<1>4. Cong(p, t + r, C)
  <2>1. PICK a \in Int, b \in Int : a = t + r /\ b = t + (n - m) /\ p \in Int /\ C \in Int
    OBVIOUS
  <2>2. Cong(a, b, C) /\ Cong(p, b, C)
    BY <1>3, <2>1
  <2> QED
    BY <2>1, <2>2, CongTurn
<1>5. (t + r) % C = p
  <2>1. PICK a \in Int : a = t + r
    OBVIOUS
  <2> QED
    BY <1>4, <2>1, CongIsMod
<1> QED
  BY <1>1, <1>5, BlkSteps
--------------------------------------------------------------------------------
(* What the proofs are about.  t and h are the places of the tail and the  *)
(* head, f[c] the first place of consumer c, B[n] the block that has or    *)
(* had number n last, lo the number of the block that has been in the ring *)
(* longest, m how many blocks the call has used, and o where number 0      *)
(* would be in the index.                                                  *)
Begins(n) == BlockSize * n
Before(t) == Num(t - 1)     \* the last block before the call
AtBase(t) == t = Begins(Before(t) + 1)
LastNum(t) == Num(t + count - 1)

InCall == step \notin {"idle", "gone"}
Cleared == step \in {"construct", "entry", "front", "enter", "store", "place", "publish"}

(* enqueue() has the block, and its entry is not written yet.              *)
Waiting == ~bulk /\ step \in {"ready", "construct", "entry", "enter"}
Entered(t, m) == IF Waiting THEN Before(t) ELSE Before(t) + m
UsedThen == IF Waiting THEN originalUsed ELSE slotsUsed

Control(t, m) ==
  /\ tailIndex = Mod(t)
  /\ ~InCall => m = 0 /\ ~bulk /\ firstAllocated = Null
  /\ InCall => count >= 1 /\ sent + count <= MaxSent /\ cur = Blk(Before(t) + m)
  /\ InCall /\ ~bulk => count = 1
  /\ step \in {"ahead", "room", "grow", "block"} => Before(t) + m < LastNum(t)
  /\ step \in {"ready", "construct", "entry", "front", "enter", "store", "place", "publish"} =>
       Before(t) + m = LastNum(t)
  /\ step \in {"ready", "entry", "front", "enter", "store", "place"} => m >= 1
  /\ step \in {"entry", "enter"} => ~bulk
  /\ step = "block" => headers # <<>> /\ slotsUsed < pr_blockIndexSize

(* What Undo goes back to.                                                 *)
Locals(t, B, lo, m) ==
  InCall =>
    /\ m = 0 <=> firstAllocated = Null
    /\ m >= 1 => firstAllocated = B[Before(t) + 1]
    /\ originalUsed <= slotsUsed
    /\ m = 0 => slotsUsed = originalUsed /\ front = originalFront /\ tailBlock = startBlock
    /\ ~bulk => slotsUsed <= originalUsed + 1
    /\ Waiting => front = originalFront
    /\ lo <= Before(t) => startBlock = B[Before(t)]
    /\ startBlock = Null => excuses = {} /\ lo = Before(t) + 1
    /\ ~bulk /\ m = 1 /\ startBlock # Null => next[startBlock] = firstAllocated

(* Once a call has been undone after a block was put into the ring, the    *)
(* block after the tail is that one, and never taken.                      *)
Dead(b) == emptyFlags[b] # Offsets

Chain(t, B, lo, m) ==
  LET hi == Before(t) + m IN
    /\ lo <= Before(t) + 1
    /\ ~AtBase(t) => lo <= Before(t)
    /\ hi - lo + 1 <= slotsUsed /\ slotsUsed <= allocated
    /\ \A n \in lo .. hi : B[n] \in 1 .. allocated
    /\ \A n, k \in lo .. hi : B[n] = B[k] => n = k
    /\ \A n \in lo .. hi - 1 : next[B[n]] = B[n + 1]
    /\ lo <= hi => tailBlock = B[hi]
    /\ \A b \in 1 .. allocated : next[b] \in 1 .. allocated
    /\ tailBlock = Null <=> allocated = 0
    /\ excuses = {} =>
         lo = hi - slotsUsed + 1 /\ slotsUsed = allocated /\ (lo <= hi => next[B[hi]] = B[lo])
    /\ excuses # {} =>
         /\ tailBlock # Null /\ Dead(next[tailBlock])
         /\ \A n \in lo .. hi : B[n] # next[tailBlock]

--------------------------------------------------------------------------------
(* The index.                                                              *)
Divides(a, b) == \E k \in Int : b = a * k
Header(n) == [entries : [0 .. n - 1 -> Used \cup {Nothing}], front : -1 .. n - 1]

Shape ==
  /\ headers \in Seq(UNION {Header(n) : n \in 1 .. MaxSize})
  /\ \A i \in 1 .. Len(headers) : Divides(Size(headers[i]), MaxSize)

(* Where an entry is says which block it is for, up to a number of turns.  *)
Linear(g, o) ==
  \A p \in DOMAIN g.entries : g.entries[p] # Nothing =>
    \E n \in Int : g.entries[p].b = Blk(n) /\ Cong(n, p + o, Size(g))

At(g, o, n) == g.entries[(n - o) % Size(g)]

Listed(g, o, n) == At(g, o, n) # Nothing /\ At(g, o, n).b = Blk(n)

IndexOK(t, B, lo, m, o) ==
  /\ headers = <<>> => allocated = 0 /\ slotsUsed = 0 /\ front = 0
  /\ headers # <<>> =>
       /\ front = (Entered(t, m) + 1 - o) % Size(blockIndex)
       /\ \A n \in Entered(t, m) - UsedThen + 1 .. Entered(t, m) : Listed(blockIndex, o, n)
       /\ \A n \in lo .. Entered(t, m) : At(blockIndex, o, n).block = B[n]
       /\ Linear(blockIndex, o)
       /\ \A i \in 1 .. Len(headers) - 1 : \E k \in Int : Linear(headers[i], k)

--------------------------------------------------------------------------------
(* The elements and the consumers.                                         *)
Span == IF InCall THEN count ELSE 0
End(t) == IF step \in {"entry", "front", "publish"} THEN t + count ELSE t
InHand(f, c, x) == f[c] <= x /\ x < f[c] + left[c]
Undone(t, h, f, x) == x < End(t) /\ (h <= x \/ \E c \in Consumers : InHand(f, c, x))

Claimed(t, h, f) ==
  /\ headIndex = Mod(h) /\ h <= t /\ t + Span - h < IndexSize \div 2
  /\ \A c \in Consumers :
       IF pc[c] = "idle" THEN left[c] = 0
       ELSE left[c] >= 1 /\ first[c] = Mod(f[c]) /\ f[c] + left[c] <= h
  /\ \A c, d \in Consumers : c # d /\ pc[c] # "idle" /\ pc[d] # "idle" =>
       f[c] + left[c] <= f[d] \/ f[d] + left[d] <= f[c]

Stored(t, h, f, B, lo) ==
  \A x \in Int : Undone(t, h, f, x) =>
    Num(x) >= lo /\ slot[B[Num(x)]][x % BlockSize] = Mod(x)

NoOther(t, h, f, B) ==
  \A b \in Blocks, k \in Offsets : slot[b][k] # Nothing =>
    \E x \in Int : Undone(t, h, f, x) /\ B[Num(x)] = b /\ x % BlockSize = k

Flags(t, h, f, B, lo, m) ==
  \A n \in lo .. Before(t) + m : n <= Before(t) \/ Cleared =>
    \A k \in Offsets :
      k \in emptyFlags[B[n]] <=> Begins(n) + k < t /\ ~Undone(t, h, f, Begins(n) + k)

Elems(t, h, f, B, lo, m) ==
  Stored(t, h, f, B, lo) /\ NoOther(t, h, f, B) /\ Flags(t, h, f, B, lo, m)

EntryFor(B, n) == [b |-> Blk(n), block |-> B[n]]
HasEntry(g, B, n) == \E p \in DOMAIN g.entries : g.entries[p] = EntryFor(B, n)

SeenBy(f, B, c) ==
  /\ pc[c] \in {"front", "base", "block"} =>
       \A x \in f[c] .. f[c] + left[c] - 1 : HasEntry(headers[header[c]], B, Num(x))
  /\ pc[c] = "block" => /\ idx[c] \in DOMAIN headers[header[c]].entries
                        /\ Entry(c) = EntryFor(B, Num(f[c]))

Seen(f, B) == \A c \in Consumers : SeenBy(f, B, c)

--------------------------------------------------------------------------------
(* The inductive invariant.                                                *)
Ended == step = "gone" => DestroysExactly /\ \A c \in Consumers : pc[c] = "idle"

(* What holds also when a bulk call was undone.                            *)
Types ==
  /\ TypeOK /\ Shape /\ Ended
  /\ "bulk" \in excuses => step \in {"idle", "gone"} /\ headers # <<>>
  /\ \A c \in Consumers :
       /\ pc[c] # "idle" => headers # <<>>
       /\ pc[c] \in {"front", "base", "block"} => header[c] # 0

Good(t, h, f, B, lo, m, o) ==
  /\ Control(t, m) /\ Locals(t, B, lo, m) /\ Chain(t, B, lo, m) /\ IndexOK(t, B, lo, m, o)
  /\ Claimed(t, h, f) /\ Elems(t, h, f, B, lo, m) /\ Seen(f, B)

Firsts == [Consumers -> Int]
Orders == [Int -> Blocks]

Inv ==
  /\ Types
  /\ "bulk" \notin excuses =>
       \E t \in Int, h \in Int, f \in Firsts, B \in Orders, lo \in Int, m \in Nat, o \in Int :
         Good(t, h, f, B, lo, m, o)

--------------------------------------------------------------------------------
(* Simple facts.                                                           *)
LEMMA BeginsFacts ==
  ASSUME NEW n \in Int, NEW m \in Int
  PROVE  /\ Begins(n) \in Int /\ Begins(n + 1) = Begins(n) + BlockSize
         /\ n < m => Begins(n) + BlockSize <= Begins(m)
         /\ n <= m => Begins(n) <= Begins(m)
         /\ Begins(n) < Begins(m) => n < m
<1>1. /\ n < m => BlockSize * n + BlockSize <= BlockSize * m
      /\ BlockSize * n < BlockSize * m => n < m
      /\ BlockSize * (n + 1) = BlockSize * n + BlockSize
      /\ BlockSize * n \in Int /\ BlockSize * m \in Int
  BY BlockApart
<1>2. n <= m => n < m \/ n = m
  OBVIOUS
<1> QED
  BY <1>1, <1>2, Sizes DEF Begins

(* Whether the tail is at the beginning of a block.                        *)
LEMMA AtBaseIs ==
  ASSUME NEW t \in Int
  PROVE  /\ AtBase(t) <=> Base(Mod(t)) = Mod(t)
         /\ AtBase(t) <=> t % BlockSize = 0
         /\ AtBase(t) => Num(t) = Before(t) + 1
         /\ ~AtBase(t) => Num(t) = Before(t) /\ t < Begins(Before(t) + 1)
         /\ Base(Plus(Mod(t), BlockSize - 1)) = Blk(Before(t) + 1)
<1>1. PICK x \in Int, n \in Int : x = t - 1 /\ n = Num(x)
  BY NumIs
<1>2. /\ Begins(n) <= x /\ x < Begins(n) + BlockSize /\ Begins(n) \in Int
      /\ Begins(n + 1) = Begins(n) + BlockSize /\ n = Before(t)
      /\ Begins(n + 1 + 1) = Begins(n) + BlockSize + BlockSize
  <2>1. BlockSize * (n + 1 + 1) = BlockSize * n + BlockSize + BlockSize
    BY Sizes
  <2> QED
    BY <1>1, <2>1, NumIs, BeginsFacts DEF Begins, Before
<1>3. AtBase(t) => Num(t) = n + 1
  <2> SUFFICES ASSUME AtBase(t) PROVE Num(t) = n + 1
    OBVIOUS
  <2>1. BlockSize * (n + 1) <= t /\ t < BlockSize * (n + 1) + BlockSize
    BY <1>2, Sizes DEF AtBase, Begins
  <2> QED
    BY <2>1, NumUnique
<1>4. ~AtBase(t) => Num(t) = n /\ t < Begins(n + 1)
  <2> SUFFICES ASSUME ~AtBase(t) PROVE Num(t) = n /\ t < Begins(n + 1)
    OBVIOUS
  <2>1. t < Begins(n + 1)
    BY <1>1, <1>2, Sizes DEF AtBase
  <2>2. BlockSize * n <= t /\ t < BlockSize * n + BlockSize
    BY <1>1, <1>2, <2>1, Sizes DEF Begins
  <2> QED
    BY <2>1, <2>2, NumUnique
<1>5. AtBase(t) <=> t % BlockSize = 0
  <2>1. t % BlockSize = t - Begins(Num(t))
    BY NumIs DEF Begins
  <2>2. AtBase(t) <=> t = Begins(n + 1)
    BY <1>2 DEF AtBase
  <2>3. ~AtBase(t) => t # Begins(n)
    <3>1. CASE ~AtBase(t) /\ t = Begins(n)
      BY <1>1, <1>2, <3>1
    <3> QED
      BY <3>1
  <2> QED
    BY <1>2, <1>3, <1>4, <2>1, <2>2, <2>3, Sizes
<1>6. AtBase(t) <=> Base(Mod(t)) = Mod(t)
  <2>1. Mod(t) % BlockSize = t % BlockSize /\ Mod(t) \in Int
    BY BaseIs, ModType
  <2>2. PICK r \in Int : r = t % BlockSize
    BY NumIs, Sizes
  <2> QED
    BY <1>5, <2>1, <2>2 DEF Base
<1>7. Base(Plus(Mod(t), BlockSize - 1)) = Blk(n + 1)
  <2>1. PICK y \in Int : y = t + (BlockSize - 1) /\ BlockSize - 1 \in Int
    BY Sizes
  <2>2. Plus(Mod(t), BlockSize - 1) = Mod(y)
    BY <2>1, ModFacts
  <2>3. BlockSize * (n + 1) <= y /\ y < BlockSize * (n + 1) + BlockSize
    BY <1>1, <1>2, <2>1, Sizes DEF Begins
  <2>4. Num(y) = n + 1
    BY <2>3, NumUnique
  <2> QED
    BY <2>2, <2>4, BaseIs
<1> QED
  BY <1>2, <1>3, <1>4, <1>5, <1>6, <1>7
(* Two positions of the same block are one.                                *)
LEMMA SamePlace ==
  ASSUME NEW C \in Nat \ {0}, NEW p \in 0 .. C - 1, NEW q \in 0 .. C - 1,
         NEW o \in Int, NEW n \in Int, Cong(n, p + o, C), Cong(n, q + o, C)
  PROVE  p = q
<1>1. PICK a \in Int, b \in Int : a = p + o /\ b = q + o
  OBVIOUS
<1>2. Cong(a, n, C) /\ C \in Int
  BY <1>1, CongTurn
<1>3. Cong(a, b, C)
  BY <1>1, <1>2, CongTurn
<1>4. Cong(a - o, b - o, C)
  BY <1>2, <1>3, CongSame, CongSum
<1>5. Cong(p, q, C)
  BY <1>1, <1>4
<1>6. p \in Int /\ q \in Int /\ p - q < C /\ q - p < C
  OBVIOUS
<1> QED
  BY <1>5, <1>6, CongNear

--------------------------------------------------------------------------------
(* The ring.  After is a recursive function, and a function that obeys its *)
(* definition exists: a shortest walk that does not would have one step    *)
(* more than one that does.                                                *)
SmallestOf(S, k) == k \in S /\ \A j \in S : k <= j

LEMMA Smallest ==
  ASSUME NEW S \in SUBSET Nat, S # {}
  PROVE  \E k \in Nat : SmallestOf(S, k)
<1>1. PICK x \in S : \A y \in S : ~(<<y, x>> \in OpToRel(<, Nat))
  BY NatLessThanWellFounded, WFMin
<1>2. \A y \in S : x <= y
  <2> SUFFICES ASSUME NEW y \in S PROVE x <= y
    OBVIOUS
  <2>1. x \in Nat /\ y \in Nat /\ ~(<<y, x>> \in OpToRel(<, Nat))
    BY <1>1
  <2>2. y < x => <<y, x>> \in OpToRel(<, Nat)
    BY <2>1 DEF OpToRel
  <2>3. ~(y < x)
    BY <2>1, <2>2, Zenon
  <2>4. x \in Nat /\ y \in Nat
    BY <2>1
  <2> QED
    BY ONLY <2>3, <2>4
<1> QED
  BY <1>2 DEF SmallestOf

IsWalk(b, N, g) ==
  g \in [0 .. N -> Blocks] /\ g[0] = b /\ \A k \in 1 .. N : g[k] = next[g[k - 1]]

(* A walk through the links has no end: there is one of every length.      *)
LEMMA WalkExists ==
  ASSUME NEW b \in Blocks, next \in [Blocks -> Blocks], NEW N \in Nat
  PROVE  \E g : IsWalk(b, N, g)
<1> DEFINE S == {n \in Nat : ~\E g : IsWalk(b, n, g)}
<1> SUFFICES ASSUME S # {} PROVE FALSE
  OBVIOUS
<1>1. PICK n \in Nat : SmallestOf(S, n)
  <2>1. S \in SUBSET Nat
    OBVIOUS
  <2> QED
    BY <2>1, Smallest
<1>2. n \in S /\ \A j \in S : n <= j
  BY <1>1 DEF SmallestOf
<1>3. n # 0
  <2>1. IsWalk(b, 0, [k \in 0 .. 0 |-> b])
    BY DEF IsWalk
  <2> QED
    BY <1>2, <2>1
<1>4. n - 1 \in Nat /\ n - 1 \notin S
  BY <1>2, <1>3
<1>5. PICK g : IsWalk(b, n - 1, g)
  BY <1>4
<1>6. g \in [0 .. n - 1 -> Blocks] /\ g[0] = b /\ \A k \in 1 .. n - 1 : g[k] = next[g[k - 1]]
  BY <1>5 DEF IsWalk
<1>7. PICK e \in Blocks : e = next[g[n - 1]]
  BY <1>4, <1>6
<1> DEFINE G == [k \in 0 .. n |-> IF k = n THEN e ELSE g[k]]
<1>8. IsWalk(b, n, G)
  <2>1. G \in [0 .. n -> Blocks]
    BY <1>6
  <2>2. G[0] = b
    BY <1>3, <1>6
  <2>3. ASSUME NEW k \in 1 .. n PROVE G[k] = next[G[k - 1]]
    <3>1. G[k - 1] = g[k - 1]
      OBVIOUS
    <3>2. CASE k = n
      BY <1>7, <3>1, <3>2
    <3>3. CASE k # n
      BY <1>6, <3>1, <3>3
    <3> QED
      BY <3>2, <3>3
  <2> QED
    BY <2>1, <2>2, <2>3 DEF IsWalk
<1> QED
  BY <1>2, <1>8

(* After(b, n) is the end of the walk of n links.                          *)
LEMMA AfterIs ==
  ASSUME NEW b \in Blocks, next \in [Blocks -> Blocks], MaxBlocks \in Nat
  PROVE  /\ After(b, 0) = b
         /\ \A n \in 1 .. MaxBlocks : After(b, n) = next[After(b, n - 1)]
         /\ \A n \in 0 .. MaxBlocks : After(b, n) \in Blocks
<1> DEFINE P(w) == w = [k \in 0 .. MaxBlocks |-> IF k = 0 THEN b ELSE next[w[k - 1]]]
           W == CHOOSE w : P(w)
<1>1. PICK g : IsWalk(b, MaxBlocks, g)
  BY WalkExists
<1>2. P(g)
  <2>1. g \in [0 .. MaxBlocks -> Blocks]
    BY <1>1 DEF IsWalk
  <2>2. \A k \in 0 .. MaxBlocks : g[k] = IF k = 0 THEN b ELSE next[g[k - 1]]
    BY <1>1 DEF IsWalk
  <2> QED
    BY <2>1, <2>2
<1>3. P(W)
  BY <1>2
<1>4. W = [k \in 0 .. MaxBlocks |-> IF k = 0 THEN b ELSE next[W[k - 1]]]
  BY <1>3
<1> HIDE DEF W
<1>5. \A n : After(b, n) = W[n]
  BY DEF After, W
<1>6. W[0] = b /\ \A n \in 1 .. MaxBlocks : W[n] = next[W[n - 1]]
  BY <1>4
<1>7. \A n \in 0 .. MaxBlocks : W[n] \in Blocks
  <2> DEFINE S == {n \in Nat : n <= MaxBlocks /\ W[n] \notin Blocks}
  <2> SUFFICES ASSUME S # {} PROVE FALSE
    OBVIOUS
  <2>1. PICK n \in Nat : SmallestOf(S, n)
    <3>1. S \in SUBSET Nat
      OBVIOUS
    <3> QED
      BY <3>1, Smallest
  <2>2. n \in S /\ \A j \in S : n <= j
    BY <2>1 DEF SmallestOf
  <2>3. n # 0
    BY <1>6, <2>2
  <2>4. n - 1 \in Nat /\ n - 1 \notin S /\ n \in 1 .. MaxBlocks
    BY <2>2, <2>3
  <2>5. W[n - 1] \in Blocks
    BY <2>4
  <2> QED
    BY <1>6, <2>2, <2>4, <2>5
<1> QED
  BY <1>5, <1>6, <1>7

--------------------------------------------------------------------------------
(* The constants, and where a call stands.                                 *)
LEMMA Kinds ==
  /\ Null \notin Blocks /\ Nothing \notin Index \cup Used /\ MaxBlocks \in Nat /\ 1 \in Blocks
  /\ MaxBulk \in Nat /\ MaxBulk < IndexSize \div 2 /\ MaxSent \in Nat
  /\ Bulks \subseteq 1 .. MaxBulk /\ MaxBulk >= 1
  /\ IndexSize \div 2 \in Nat /\ 2 * (IndexSize \div 2) <= IndexSize
  /\ BlockSize <= IndexSize \div 2 /\ IndexSize >= 2 * BlockSize
  /\ InitialSize >= 2 /\ 2 * (InitialSize \div 2) = InitialSize /\ InitialSize \div 2 \in Nat
  /\ InitialSize \in 1 .. MaxSize /\ Divides(InitialSize, MaxSize)
<1>1. IndexSize \div 2 \in Nat /\ 2 * (IndexSize \div 2) <= IndexSize
  BY Sizes
<1>2. PICK j \in Int : j = InitialSize \div 2 /\ InitialSize = 2 * j
  <2>1. InitialSize % 2 = 0 /\ InitialSize \in Int /\ 2 \in Nat \ {0}
    BY Sizes, SizesDivide
  <2>2. InitialSize \div 2 \in Int /\ InitialSize = 2 * (InitialSize \div 2) + (InitialSize % 2)
    BY <2>1, DivMod
  <2> QED
    BY <2>1, <2>2
<1>3. j >= 1
  BY <1>2, Sizes
<1>4. PICK k \in Int : MaxSize = InitialSize * k
  <2>1. MaxSize % InitialSize = 0 /\ MaxSize \in Int /\ InitialSize \in Nat \ {0}
    BY Sizes, SizesDivide
  <2>2. MaxSize \div InitialSize \in Int
        /\ MaxSize = InitialSize * (MaxSize \div InitialSize) + (MaxSize % InitialSize)
    BY <2>1, DivMod
  <2>3. PICK q \in Int : q = MaxSize \div InitialSize
    BY <2>2
  <2>4. MaxSize = InitialSize * q
    BY <2>1, <2>2, <2>3
  <2> QED
    BY <2>4
<1>5. InitialSize <= MaxSize
  <2>1. k <= -1 => InitialSize * k <= -InitialSize
    BY Sizes, AtLeastOnce
  <2>2. k >= 1 => InitialSize * k >= InitialSize
    BY Sizes, AtLeastOnce
  <2>3. k = 0 => InitialSize * k = 0
    BY Sizes
  <2> QED
    BY <1>4, <2>1, <2>2, <2>3, Sizes
<1>6. IndexSize >= 2 * BlockSize
  <2>1. PICK i \in Int : Turn1 = MaxSize * i
    BY Sizes
  <2>2. i >= 1
    <3>1. i <= -1 => MaxSize * i <= -MaxSize
      BY Sizes, AtLeastOnce
    <3>2. i = 0 => MaxSize * i = 0
      BY Sizes
    <3> QED
      BY <2>1, <3>1, <3>2, Sizes
  <2>3. MaxSize * i >= MaxSize
    BY <2>2, Sizes, AtLeastOnce
  <2>4. Turn1 \in Int /\ Turn1 >= 2
    BY <1>2, <1>3, <1>5, <2>1, <2>3, Sizes
  <2>5. PICK d \in Int : Turn1 = 1 + d /\ d >= 1
    BY <2>4
  <2>6. BlockSize * (1 + d) = BlockSize + BlockSize * d /\ BlockSize * d >= BlockSize
    BY <2>5, Sizes, AtLeastOnce
  <2> QED
    BY <2>5, <2>6, Sizes
<1>7. Divides(InitialSize, MaxSize)
  BY <1>4 DEF Divides
<1>8. InitialSize >= 2 /\ 2 * (InitialSize \div 2) = InitialSize /\ InitialSize \div 2 \in Nat
  BY <1>2, <1>3
<1>9. BlockSize <= IndexSize \div 2
  BY <1>1, <1>6, Sizes
<1>10. InitialSize \in 1 .. MaxSize
  BY <1>5, <1>8, Sizes
<1>11. 1 \in Blocks /\ MaxBlocks \in Nat
  BY BoundsAreNat DEF Blocks
<1>12. MaxBulk \in Nat /\ MaxBulk < IndexSize \div 2 /\ MaxBulk >= 1 /\ MaxSent \in Nat
  BY <1>1, BoundsAreNat
<1> QED
  BY <1>1, <1>6, <1>7, <1>8, <1>9, <1>10, <1>11, <1>12, NamesAreNew, BulksAreBounded

LEMMA BeforeFacts ==
  ASSUME NEW t \in Int
  PROVE  /\ Before(t) \in Int /\ Begins(Before(t)) <= t - 1 /\ t <= Begins(Before(t) + 1)
         /\ Begins(Before(t)) \in Int /\ Begins(Before(t) + 1) = Begins(Before(t)) + BlockSize
         /\ \A x \in Int : x < t => Num(x) <= Before(t)
         /\ \A x \in Int : t <= x => Before(t) <= Num(x)
<1>1. PICK x \in Int : x = t - 1
  OBVIOUS
<1>2. /\ Num(x) \in Int /\ Begins(Num(x)) <= x /\ x < Begins(Num(x)) + BlockSize
      /\ Begins(Num(x)) \in Int /\ Begins(Num(x) + 1) = Begins(Num(x)) + BlockSize
  BY NumIs, BeginsFacts DEF Begins
<1>3. Num(x) = Before(t)
  BY <1>1 DEF Before
<1>4. ASSUME NEW y \in Int, y < t PROVE Num(y) <= Before(t)
  BY <1>1, <1>3, <1>4, NumMonotone
<1>5. ASSUME NEW y \in Int, t <= y PROVE Before(t) <= Num(y)
  BY <1>1, <1>3, <1>5, NumMonotone
<1> QED
  BY <1>1, <1>2, <1>3, <1>4, <1>5, Sizes

(* The place of an element in its block.                                   *)
LEMMA PlaceIs ==
  ASSUME NEW x \in Int
  PROVE  /\ Num(x) \in Int /\ x % BlockSize \in Offsets /\ x = Begins(Num(x)) + (x % BlockSize)
         /\ Begins(Num(x)) \in Int /\ x % BlockSize \in Int
         /\ Begins(Num(x)) <= x /\ x < Begins(Num(x) + 1)
<1>1. /\ Num(x) \in Int /\ BlockSize * Num(x) <= x /\ x < BlockSize * Num(x) + BlockSize
      /\ x % BlockSize = x - BlockSize * Num(x) /\ BlockSize * Num(x) \in Int
  BY NumIs
<1>2. Begins(Num(x) + 1) = Begins(Num(x)) + BlockSize
  BY <1>1, BeginsFacts
<1> QED
  BY <1>1, <1>2, Sizes DEF Begins, Offsets

LEMMA ElementAt ==
  ASSUME NEW n \in Int, NEW k \in Offsets
  PROVE  /\ Begins(n) + k \in Int /\ Num(Begins(n) + k) = n /\ (Begins(n) + k) % BlockSize = k
         /\ k \in Int
<1>1. k \in 0 .. BlockSize - 1
  BY DEF Offsets
<1>2. (BlockSize * n + k) % BlockSize = k /\ (BlockSize * n + k) \div BlockSize = n
  BY <1>1, Sizes, Remainder
<1>3. k \in Int /\ Begins(n) \in Int
  BY <1>1, Sizes, BeginsFacts
<1> QED
  BY <1>2, <1>3 DEF Begins, Num

(* The last block that a call needs.                                       *)
LEMMA LastFacts ==
  ASSUME NEW t \in Int, count \in Nat, count >= 1
  PROVE  /\ LastNum(t) \in Int /\ Before(t) <= LastNum(t) /\ LastNum(t) = Before(t + count)
         /\ Begins(LastNum(t)) <= t + count - 1
         /\ count = 1 => LastNum(t) <= Before(t) + 1 /\ LastNum(t) = Num(t)
         /\ LastNum(t) = Before(t) => ~AtBase(t)
         /\ tailIndex = Mod(t) => LastBase(count) = Blk(LastNum(t))
<1>1. PICK x \in Int : x = t + count - 1 /\ t <= x
  OBVIOUS
<1>2. LastNum(t) = Num(x) /\ Before(t + count) = Num(x)
  BY <1>1 DEF LastNum, Before
<1>3. Num(x) \in Int /\ Begins(Num(x)) <= x
  BY PlaceIs
<1>4. Before(t) <= Num(x)
  BY <1>1, BeforeFacts
<1>5. count = 1 => Num(x) <= Before(t) + 1 /\ Num(x) = Num(t)
  <2> SUFFICES ASSUME count = 1 PROVE Num(x) <= Before(t) + 1 /\ Num(x) = Num(t)
    OBVIOUS
  <2>1. x = t
    BY <1>1
  <2>2. Num(t) <= Before(t) + 1
    <3>1. (AtBase(t) => Num(t) = Before(t) + 1) /\ (~AtBase(t) => Num(t) = Before(t))
      BY AtBaseIs
    <3>2. Before(t) \in Int
      BY BeforeFacts
    <3> QED
      BY <3>1, <3>2
  <2> QED
    BY <2>1, <2>2
<1>6. Num(x) = Before(t) => ~AtBase(t)
  <2> SUFFICES ASSUME AtBase(t) PROVE Num(x) # Before(t)
    OBVIOUS
  <2>1. Num(t) = Before(t) + 1 /\ Before(t) \in Int
    BY AtBaseIs, BeforeFacts
  <2>2. Num(t) <= Num(x)
    BY <1>1, NumMonotone
  <2> QED
    BY <1>3, <2>1, <2>2
<1>7. tailIndex = Mod(t) => LastBase(count) = Blk(LastNum(t))
  <2> SUFFICES ASSUME tailIndex = Mod(t) PROVE LastBase(count) = Blk(LastNum(t))
    OBVIOUS
  <2>1. PICK k \in Int : k = count - 1 /\ t + k = x
    BY <1>1
  <2>2. Plus(tailIndex, k) = Mod(t + k)
    BY <2>1, ModFacts
  <2>3. Base(Mod(x)) = Blk(Num(x))
    BY BaseIs
  <2> QED
    BY <1>2, <2>1, <2>2, <2>3 DEF LastBase
<1> QED
  BY <1>1, <1>2, <1>3, <1>4, <1>5, <1>6, <1>7

--------------------------------------------------------------------------------
(* The index.                                                              *)
LEMMA HeaderFacts ==
  ASSUME Shape, NEW i \in 1 .. Len(headers)
  PROVE  /\ headers[i] \in Header(Size(headers[i])) /\ Size(headers[i]) \in 1 .. MaxSize
         /\ Size(headers[i]) \in Nat \ {0}
         /\ DOMAIN headers[i].entries = 0 .. Size(headers[i]) - 1
         /\ headers[i].entries \in [0 .. Size(headers[i]) - 1 -> Used \cup {Nothing}]
         /\ headers[i].front \in -1 .. Size(headers[i]) - 1
         /\ \E k \in Int : Turn1 = Size(headers[i]) * k
<1>1. PICK g : g = headers[i]
  OBVIOUS
<1>2. PICK n \in 1 .. MaxSize : g \in Header(n)
  BY <1>1 DEF Shape
<1>3. n \in Nat \ {0} /\ DOMAIN g.entries = 0 .. n - 1
      /\ g.entries \in [0 .. n - 1 -> Used \cup {Nothing}] /\ g.front \in -1 .. n - 1
  BY <1>2, Sizes DEF Header
<1>4. Cardinality(0 .. n - 1) = n
  BY <1>3, FS_Interval
<1>5. Size(g) = n
  BY <1>3, <1>4 DEF Size
<1>6. \E k \in Int : Turn1 = n * k
  <2>1. PICK j \in Int : MaxSize = n * j
    BY <1>1, <1>5 DEF Shape, Divides
  <2>2. PICK k \in Int : Turn1 = MaxSize * k
    BY Sizes
  <2>3. Turn1 = n * (j * k) /\ j * k \in Int
    BY <1>3, <2>1, <2>2
  <2> QED
    BY <2>3
<1> QED
  BY <1>1, <1>2, <1>3, <1>5, <1>6

LEMMA LatestFacts ==
  ASSUME Shape, headers # <<>>
  PROVE  /\ Len(headers) \in 1 .. Len(headers) /\ blockIndex = headers[Len(headers)]
         /\ pr_blockIndexSize = Size(blockIndex)
         /\ Size(blockIndex) \in Nat \ {0} /\ Size(blockIndex) \in 1 .. MaxSize
         /\ DOMAIN blockIndex.entries = 0 .. Size(blockIndex) - 1
         /\ blockIndex.entries \in [0 .. Size(blockIndex) - 1 -> Used \cup {Nothing}]
         /\ \E k \in Int : Turn1 = Size(blockIndex) * k
<1>1. Len(headers) \in 1 .. Len(headers) /\ blockIndex = headers[Len(headers)]
  BY DEF Shape, blockIndex
<1> QED
  BY <1>1, HeaderFacts DEF pr_blockIndexSize

LEMMA SizeIs ==
  ASSUME Shape
  PROVE  pr_blockIndexSize \in Nat \ {0} /\ pr_blockIndexSize <= MaxSize
<1>1. CASE headers = <<>>
  BY <1>1, Kinds, Sizes DEF pr_blockIndexSize
<1>2. CASE headers # <<>>
  BY <1>2, LatestFacts
<1> QED
  BY <1>1, <1>2

(* Two numbers with the same base are whole turns of the index apart.      *)
LEMMA SameBase ==
  ASSUME NEW C \in Nat \ {0}, NEW k \in Int, Turn1 = C * k,
         NEW n \in Int, NEW m \in Int, Blk(n) = Blk(m)
  PROVE  Cong(n, m, C)
<1>1. Turn1 \in Nat \ {0} /\ BlockSize \in Nat \ {0} /\ C \in Int /\ Turn1 \in Int
  BY Sizes
<1>2. /\ Cong(n % Turn1, n, Turn1) /\ n % Turn1 \in 0 .. Turn1 - 1
      /\ Cong(m % Turn1, m, Turn1) /\ m % Turn1 \in 0 .. Turn1 - 1
  BY <1>1, CongMod
<1>3. PICK a \in Int, b \in Int : a = n % Turn1 /\ b = m % Turn1
  BY <1>1, <1>2
<1>4. BlockSize * a = BlockSize * b
  BY <1>3, BlkType
<1>5. a = b
  BY <1>1, <1>4, BlockApart
<1>6. Cong(n, m, Turn1)
  BY <1>1, <1>2, <1>3, <1>5, CongTurn
<1> QED
  BY <1>1, <1>6, CongPart

LEMMA PlaceOf ==
  ASSUME Shape, NEW i \in 1 .. Len(headers), NEW o \in Int, Linear(headers[i], o),
         NEW p \in DOMAIN headers[i].entries, NEW n \in Int,
         headers[i].entries[p] # Nothing, headers[i].entries[p].b = Blk(n)
  PROVE  Cong(n, p + o, Size(headers[i])) /\ p = (n - o) % Size(headers[i])
<1>1. PICK C \in Nat \ {0}, k \in Int :
        C = Size(headers[i]) /\ Turn1 = C * k /\ DOMAIN headers[i].entries = 0 .. C - 1
  BY HeaderFacts
<1>2. PICK m \in Int : headers[i].entries[p].b = Blk(m) /\ Cong(m, p + o, C)
  BY <1>1 DEF Linear
<1>3. Cong(n, m, C)
  BY <1>1, <1>2, SameBase
<1>4. PICK a \in Int : a = p + o /\ p \in 0 .. C - 1 /\ C \in Int /\ p \in Int
  BY <1>1
<1>5. Cong(n, a, C)
  BY <1>2, <1>3, <1>4, CongTurn
<1>6. Cong(n - o, a - o, C)
  BY <1>4, <1>5, CongSame, CongSum
<1>7. PICK d \in Int : d = n - o /\ p = a - o
  BY <1>4
<1>8. Cong(p, d, C)
  BY <1>4, <1>6, <1>7, CongTurn
<1>9. d % C = p
  BY <1>4, <1>8, CongIsMod
<1> QED
  BY <1>1, <1>4, <1>5, <1>7, <1>9

(* Different numbers that are less than a turn apart have different places. *)
LEMMA PlacesApart ==
  ASSUME NEW C \in Nat \ {0}, NEW o \in Int, NEW n \in Int, NEW m \in Int,
         (n - o) % C = (m - o) % C, n - m < C, m - n < C
  PROVE  n = m
<1>1. PICK a \in Int, b \in Int : a = n - o /\ b = m - o
  OBVIOUS
<1>2. Cong(a % C, a, C) /\ Cong(b % C, b, C) /\ a % C \in 0 .. C - 1
  BY CongMod
<1>3. PICK r \in Int : r = a % C /\ r = b % C /\ C \in Int
  BY <1>1, <1>2
<1>4. Cong(a, b, C)
  BY <1>2, <1>3, CongTurn
<1>5. a - b < C /\ b - a < C
  BY <1>1, <1>3
<1>6. a = b
  BY <1>4, <1>5, CongNear
<1> QED
  BY <1>1, <1>6

(* A place counted from another one.                                       *)
LEMMA PlaceFrom ==
  ASSUME NEW C \in Nat \ {0}, NEW a \in Int, NEW d \in Int
  PROVE  ((a % C) + d) % C = (a + d) % C /\ a % C \in 0 .. C - 1
<1>0. C \in Int
  OBVIOUS
<1>1. Cong(a % C, a, C) /\ a % C \in 0 .. C - 1 /\ C \in Int
  BY <1>0, CongMod
<1>2. PICK r \in Int, x \in Int, y \in Int : r = a % C /\ x = r + d /\ y = a + d
  BY <1>1
<1>3. Cong(x, y, C)
  BY <1>1, <1>2, CongSame, CongSum
<1>4. Cong(y % C, y, C) /\ y % C \in 0 .. C - 1
  BY CongMod
<1>5. PICK z \in 0 .. C - 1 : z = y % C /\ z \in Int
  BY <1>4
<1>6. Cong(z, x, C)
  BY <1>1, <1>2, <1>3, <1>4, <1>5, CongTurn
<1>7. x % C = z
  BY <1>5, <1>6, CongIsMod
<1> QED
  BY <1>1, <1>2, <1>5, <1>7

--------------------------------------------------------------------------------
(* The types of the consumers' variables.                                  *)
SideTypes ==
  /\ {tailIndex, cur} \subseteq Index
  /\ {tailBlock, startBlock, firstAllocated} \subseteq 1 .. allocated \cup {Null}
  /\ allocated \in 0 .. MaxBlocks /\ next \in [Blocks -> Blocks]
  /\ \A i \in DOMAIN headers : \E n \in 1 .. MaxSize :
       /\ n = IF i = 1 THEN InitialSize ELSE 2 * Size(headers[i - 1])
       /\ headers[i] \in [entries : [0 .. n - 1 -> Used \cup {Nothing}], front : -1 .. n - 1]
  /\ {slotsUsed, originalUsed} \subseteq 0 .. pr_blockIndexSize
  /\ {front, originalFront} \subseteq 0 .. pr_blockIndexSize - 1
  /\ step \in {"idle", "ahead", "room", "grow", "block", "ready", "construct",
               "entry", "front", "enter", "store", "place", "publish", "gone"}
  /\ bulk \in BOOLEAN /\ count \in 0 .. MaxBulk
  /\ destroyed \subseteq Blocks \X Offsets
  /\ sent \in 0 .. MaxSent /\ excuses \subseteq {"bulk", "single"}

PlaceTypes ==
  /\ headIndex \in Index
  /\ pc \in [Consumers -> {"idle", "header", "front", "base", "block"}]
  /\ first \in [Consumers -> Index] /\ left \in [Consumers -> 0 .. MaxBulk]
  /\ header \in [Consumers -> 0 .. Len(headers)]
  /\ idx \in [Consumers -> -1 .. MaxSize - 1]

DataTypes ==
  /\ emptyFlags \in [Blocks -> SUBSET Offsets]
  /\ slot \in [Blocks -> [Offsets -> Index \cup {Nothing}]]

LEMMA TypeParts == TypeOK <=> SideTypes /\ PlaceTypes /\ DataTypes
<1>1. TypeOK => SideTypes /\ PlaceTypes /\ DataTypes
  BY DEF TypeOK, SideTypes, PlaceTypes, DataTypes
<1>2. SideTypes /\ PlaceTypes /\ DataTypes => TypeOK
  BY DEF TypeOK, SideTypes, PlaceTypes, DataTypes
<1> QED
  BY <1>1, <1>2

LEMMA SideSame ==
  ASSUME UNCHANGED producerSide
  PROVE  (SideTypes' <=> SideTypes) /\ (Shape' <=> Shape) /\ blockIndex' = blockIndex
         /\ pr_blockIndexSize' = pr_blockIndexSize
<1>1. /\ blockIndex' = blockIndex /\ pr_blockIndexSize' = pr_blockIndexSize
      /\ headers' = headers
  BY DEF producerSide, indexVars, blockIndex, pr_blockIndexSize
<1>2. Shape' <=> Shape
  BY <1>1 DEF Shape
<1>3. SideTypes' <=> SideTypes
  BY <1>1 DEF producerSide, indexVars, callVars, localVars, endVars, SideTypes
<1> QED
  BY <1>1, <1>2, <1>3

LEMMA SideKept ==
  ASSUME NEW c \in Consumers, Consume(c)
  PROVE  UNCHANGED producerSide
BY DEF Consume, Claim, LoadHeader, LoadFront, LoadBase, TakeOut

LEMMA CounterType ==
  ASSUME NEW a \in Int, NEW b \in Int
  PROVE  Plus(a, b) \in Index /\ Minus(a, b) \in Index
<1>1. PICK x \in Int, y \in Int : x = a + b /\ y = a - b
  OBVIOUS
<1>2. x % IndexSize \in 0 .. IndexSize - 1 /\ y % IndexSize \in 0 .. IndexSize - 1
  BY Sizes, CongMod
<1> QED
  BY <1>1, <1>2 DEF Plus, Minus, Index

LEMMA IndexIsInt == \A i \in Index : i \in Int
BY Sizes DEF Index

LEMMA ClaimFacts ==
  ASSUME TypeOK, NEW c \in Consumers, Claim(c)
  PROVE  \E n \in 1 .. MaxBulk :
           /\ n <= Minus(tailIndex, headIndex) /\ Minus(tailIndex, headIndex) \in Nat
           /\ step # "gone" /\ pc[c] = "idle" /\ pc' = [pc EXCEPT ![c] = "header"]
           /\ first' = [first EXCEPT ![c] = headIndex]
           /\ left' = [left EXCEPT ![c] = n] /\ headIndex' = Plus(headIndex, n)
           /\ UNCHANGED <<producerSide, emptyFlags, slot, header, idx>>
<1>1. PICK max \in {1} \cup Bulks :
        LET there == Minus(tailIndex, headIndex)
            n == IF max < there THEN max ELSE there
        IN  /\ there > 0 /\ step # "gone"
            /\ Goto(c, "idle", "header")
            /\ first' = [first EXCEPT ![c] = headIndex]
            /\ left' = [left EXCEPT ![c] = n]
            /\ headIndex' = Plus(headIndex, n)
            /\ UNCHANGED <<producerSide, emptyFlags, slot, header, idx>>
  BY DEF Claim
<1>2. max \in 1 .. MaxBulk
  BY Kinds
<1>3. Minus(tailIndex, headIndex) \in Nat
  <2>1. tailIndex \in Int /\ headIndex \in Int
    BY IndexIsInt DEF TypeOK
  <2>2. Minus(tailIndex, headIndex) \in Index
    BY <2>1, CounterType
  <2> QED
    BY <2>2, Sizes DEF Index
<1>4. PICK there \in Nat : there = Minus(tailIndex, headIndex)
  BY <1>3
<1>5. PICK n : n = IF max < there THEN max ELSE there
  OBVIOUS
<1>6. there > 0
  BY <1>1, <1>4
<1>7. n \in 1 .. MaxBulk /\ n <= there
  BY <1>2, <1>5, <1>6, Kinds
<1>8. /\ step # "gone" /\ pc[c] = "idle" /\ pc' = [pc EXCEPT ![c] = "header"]
      /\ first' = [first EXCEPT ![c] = headIndex]
      /\ UNCHANGED <<producerSide, emptyFlags, slot, header, idx>>
  BY <1>1 DEF Goto
<1>9. left' = [left EXCEPT ![c] = n] /\ headIndex' = Plus(headIndex, n)
  BY <1>1, <1>4, <1>5
<1> QED
  BY <1>3, <1>4, <1>7, <1>8, <1>9

LEMMA HereFacts ==
  ASSUME TypeOK, NEW c \in Consumers
  PROVE  /\ Here(c) \subseteq Offsets /\ Cardinality(Here(c)) \in Nat
         /\ Cardinality(Here(c)) <= left[c]
         /\ first[c] % BlockSize \in Offsets /\ left[c] \in Nat
         /\ \A k \in Int : k \in Here(c) <=>
              first[c] % BlockSize <= k /\ k < (first[c] % BlockSize) + Cardinality(Here(c))
         /\ Cardinality(Here(c)) < left[c] =>
              (first[c] % BlockSize) + Cardinality(Here(c)) = BlockSize
         /\ left[c] >= 1 => Cardinality(Here(c)) >= 1
<1>1. first[c] \in Int /\ left[c] \in Nat
  BY IndexIsInt, Kinds DEF TypeOK
<1>2. PICK r \in Offsets, l \in Nat : r = first[c] % BlockSize /\ l = left[c] /\ r \in Int
  BY <1>1, PlaceIs
<1>3. r \in 0 .. BlockSize - 1
  BY <1>2 DEF Offsets
<1>4. PICK e \in Int : e = IF r + l < BlockSize THEN r + l ELSE BlockSize
  BY <1>2, Sizes
<1>5. Here(c) = {i \in r .. BlockSize - 1 : i < r + l}
  BY <1>2 DEF Here
<1>6. Here(c) = r .. e - 1
  BY <1>2, <1>3, <1>4, <1>5, Sizes
<1>7. Cardinality(Here(c)) = e - r
  <2>1. r <= e /\ e - 1 \in Int
    BY <1>2, <1>3, <1>4, Sizes
  <2>2. Cardinality(r .. e - 1) = IF r > e - 1 THEN 0 ELSE (e - 1) - r + 1
    BY <1>2, <2>1, FS_Interval
  <2> QED
    BY <1>2, <1>6, <2>1, <2>2
<1>8. e - r \in Nat /\ e - r <= l /\ (e - r < l => e = BlockSize) /\ (l >= 1 => e - r >= 1)
  BY <1>2, <1>3, <1>4, Sizes
<1>9. Here(c) \subseteq Offsets
  BY <1>2, <1>3, <1>4, <1>6, Sizes DEF Offsets
<1>10. \A k \in Int : k \in Here(c) <=> r <= k /\ k < r + (e - r)
  BY <1>2, <1>4, <1>6
<1> QED
  BY <1>2, <1>4, <1>7, <1>8, <1>9, <1>10

LEMMA EntryType ==
  ASSUME TypeOK, Shape, NEW c \in Consumers, header[c] # 0
  PROVE  /\ header[c] \in 1 .. Len(headers)
         /\ Size(headers[header[c]]) \in Nat \ {0} /\ Size(headers[header[c]]) <= MaxSize
         /\ Written(headers[header[c]], idx[c]) =>
              Entry(c) \in Used /\ Entry(c).block \in Blocks /\ idx[c] \in Int
<1>1. header[c] \in 1 .. Len(headers)
  BY DEF TypeOK, Shape
<1>2. /\ Size(headers[header[c]]) \in Nat \ {0} /\ Size(headers[header[c]]) <= MaxSize
      /\ headers[header[c]].entries
           \in [0 .. Size(headers[header[c]]) - 1 -> Used \cup {Nothing}]
  BY <1>1, HeaderFacts
<1>3. ASSUME Written(headers[header[c]], idx[c])
      PROVE  Entry(c) \in Used /\ idx[c] \in Int
  BY <1>2, <1>3 DEF Written, Entry
<1>4. \A e \in Used : e.block \in Blocks
  BY DEF Used
<1> QED
  BY <1>1, <1>2, <1>3, <1>4

(* One consumer's variables.                                               *)
LEMMA OneMoves ==
  ASSUME TypeOK, UNCHANGED producerSide, NEW c \in Consumers,
         headIndex' \in Index, DataTypes',
         NEW p \in {"idle", "header", "front", "base", "block"}, NEW i \in Index,
         NEW l \in 0 .. MaxBulk, NEW k \in 0 .. Len(headers), NEW j \in -1 .. MaxSize - 1,
         pc' = [pc EXCEPT ![c] = p], first' = [first EXCEPT ![c] = i],
         left' = [left EXCEPT ![c] = l], header' = [header EXCEPT ![c] = k],
         idx' = [idx EXCEPT ![c] = j]
  PROVE  TypeOK'
<1>1. headers' = headers
  BY DEF producerSide, indexVars
<1>2. PlaceTypes'
  <2>1. PlaceTypes
    BY TypeParts
  <2>2. /\ pc' \in [Consumers -> {"idle", "header", "front", "base", "block"}]
        /\ first' \in [Consumers -> Index] /\ left' \in [Consumers -> 0 .. MaxBulk]
    BY <2>1 DEF PlaceTypes
  <2>3. /\ header' \in [Consumers -> 0 .. Len(headers')]
        /\ idx' \in [Consumers -> -1 .. MaxSize - 1]
    BY <1>1, <2>1 DEF PlaceTypes
  <2> QED
    BY <2>2, <2>3 DEF PlaceTypes
<1>3. SideTypes'
  BY SideSame, TypeParts
<1>4. TypeOK' <=> SideTypes' /\ PlaceTypes' /\ DataTypes'
  BY DEF TypeOK, SideTypes, PlaceTypes, DataTypes
<1> QED
  BY <1>2, <1>3, <1>4

LEMMA OneStays ==
  ASSUME TypeOK, UNCHANGED <<headIndex, headers>>, NEW c \in Consumers
  PROVE  /\ headIndex \in Index /\ first[c] \in Index /\ left[c] \in 0 .. MaxBulk
         /\ header[c] \in 0 .. Len(headers) /\ idx[c] \in -1 .. MaxSize - 1
         /\ UNCHANGED first => first' = [first EXCEPT ![c] = first[c]]
         /\ UNCHANGED left => left' = [left EXCEPT ![c] = left[c]]
         /\ UNCHANGED header => header' = [header EXCEPT ![c] = header[c]]
         /\ UNCHANGED idx => idx' = [idx EXCEPT ![c] = idx[c]]
         /\ UNCHANGED pc => pc' = [pc EXCEPT ![c] = pc[c]]
<1>1. PlaceTypes
  BY TypeParts
<1> QED
  BY <1>1 DEF PlaceTypes

LEMMA DataStays ==
  ASSUME TypeOK, UNCHANGED <<emptyFlags, slot>>
  PROVE  DataTypes'
<1>1. DataTypes
  BY TypeParts
<1> QED
  BY <1>1 DEF DataTypes

LEMMA ClaimTyped ==
  ASSUME TypeOK, NEW c \in Consumers, Claim(c)
  PROVE  TypeOK'
<1>1. PICK n \in 1 .. MaxBulk :
        /\ pc' = [pc EXCEPT ![c] = "header"] /\ first' = [first EXCEPT ![c] = headIndex]
        /\ left' = [left EXCEPT ![c] = n] /\ headIndex' = Plus(headIndex, n)
        /\ UNCHANGED <<producerSide, emptyFlags, slot, header, idx>>
  BY ClaimFacts
<1>2. headIndex \in Index /\ headIndex \in Int /\ n \in Int
  BY IndexIsInt DEF TypeOK
<1>3. headIndex' \in Index
  BY <1>1, <1>2, CounterType
<1>4. header[c] \in 0 .. Len(headers) /\ idx[c] \in -1 .. MaxSize - 1
  BY DEF TypeOK
<1>5. header' = [header EXCEPT ![c] = header[c]] /\ idx' = [idx EXCEPT ![c] = idx[c]]
  BY <1>1 DEF TypeOK
<1>6. n \in 0 .. MaxBulk
  OBVIOUS
<1> QED
  BY <1>1, <1>2, <1>3, <1>4, <1>5, <1>6, DataStays, OneMoves

LEMMA LoadHeaderTyped ==
  ASSUME TypeOK, Shape, NEW c \in Consumers, LoadHeader(c)
  PROVE  TypeOK'
<1>1. /\ pc' = [pc EXCEPT ![c] = "front"] /\ header' = [header EXCEPT ![c] = Len(headers)]
      /\ UNCHANGED <<producerSide, headIndex, emptyFlags, slot, first, left, idx>>
  BY DEF LoadHeader, Goto
<1>2. UNCHANGED headers
  BY <1>1 DEF producerSide, indexVars
<1>3. Len(headers) \in 0 .. Len(headers)
  BY DEF Shape
<1>4. /\ headIndex' \in Index /\ DataTypes' /\ UNCHANGED producerSide
      /\ first[c] \in Index /\ left[c] \in 0 .. MaxBulk
      /\ first' = [first EXCEPT ![c] = first[c]] /\ left' = [left EXCEPT ![c] = left[c]]
  BY <1>1, <1>2, DataStays, OneStays
<1>5. idx[c] \in -1 .. MaxSize - 1 /\ idx' = [idx EXCEPT ![c] = idx[c]]
  BY <1>1, <1>2, OneStays
<1>6. PICK k \in 0 .. Len(headers) : k = Len(headers)
  BY <1>3
<1>7. header' = [header EXCEPT ![c] = k] /\ pc' = [pc EXCEPT ![c] = "front"]
  BY <1>1, <1>6
<1> QED
  BY <1>4, <1>5, <1>7, OneMoves

LEMMA LoadFrontTyped ==
  ASSUME TypeOK, Shape, NEW c \in Consumers, LoadFront(c), header[c] # 0
  PROVE  TypeOK'
<1>1. /\ pc' = [pc EXCEPT ![c] = "base"]
      /\ idx' = [idx EXCEPT ![c] = headers[header[c]].front]
      /\ UNCHANGED <<producerSide, headIndex, emptyFlags, slot, first, left, header>>
  BY DEF LoadFront, Goto
<1>2. UNCHANGED headers
  BY <1>1 DEF producerSide, indexVars
<1>3. headers[header[c]].front \in -1 .. MaxSize - 1
  <2>1. header[c] \in 1 .. Len(headers)
    BY EntryType
  <2>2. /\ headers[header[c]].front \in -1 .. Size(headers[header[c]]) - 1
        /\ Size(headers[header[c]]) \in 1 .. MaxSize
    BY <2>1, HeaderFacts
  <2> QED
    BY <2>2, Sizes
<1>4. /\ headIndex' \in Index /\ DataTypes' /\ UNCHANGED producerSide
      /\ first[c] \in Index /\ left[c] \in 0 .. MaxBulk
      /\ first' = [first EXCEPT ![c] = first[c]] /\ left' = [left EXCEPT ![c] = left[c]]
  BY <1>1, <1>2, DataStays, OneStays
<1>5. header[c] \in 0 .. Len(headers) /\ header' = [header EXCEPT ![c] = header[c]]
  BY <1>1, <1>2, OneStays
<1>6. PICK j \in -1 .. MaxSize - 1 : j = headers[header[c]].front
  BY <1>3
<1>7. idx' = [idx EXCEPT ![c] = j] /\ pc' = [pc EXCEPT ![c] = "base"]
  BY <1>1, <1>6
<1> QED
  BY <1>4, <1>5, <1>7, OneMoves

LEMMA LoadBaseTyped ==
  ASSUME TypeOK, Shape, NEW c \in Consumers, LoadBase(c), header[c] # 0
  PROVE  TypeOK'
<1>1. /\ pc' = [pc EXCEPT ![c] = "block"] /\ Written(headers[header[c]], idx[c])
      /\ idx' = [idx EXCEPT ![c] =
           (idx[c] + Minus(Base(first[c]), headers[header[c]].entries[idx[c]].b) \div BlockSize)
             % Size(headers[header[c]])]
      /\ UNCHANGED <<producerSide, headIndex, emptyFlags, slot, first, left, header>>
  BY DEF LoadBase, Goto
<1>2. UNCHANGED headers
  BY <1>1 DEF producerSide, indexVars
<1>3. PICK e \in Used : e = Entry(c) /\ idx[c] \in Int
  BY <1>1, EntryType
<1>4. PICK a \in Int, b \in Int : a = Base(first[c]) /\ b = e.b
  <2>1. first[c] \in Int /\ e.b \in Int
    BY IndexIsInt DEF TypeOK, Used
  <2>2. first[c] % BlockSize \in Int
    BY <2>1, PlaceIs
  <2> QED
    BY <2>1, <2>2 DEF Base
<1>5. PICK d \in Int : d = Minus(a, b) \div BlockSize
  <2>1. Minus(a, b) \in Int
    BY CounterType, IndexIsInt
  <2> QED
    BY <2>1, Sizes, DivMod
<1>6. PICK y \in Int : y = idx[c] + d
  BY <1>3
<1>7. PICK C \in Nat \ {0} : C = Size(headers[header[c]]) /\ C <= MaxSize
  BY EntryType
<1>8. y % C \in 0 .. C - 1
  BY CongMod
<1>9. PICK j \in -1 .. MaxSize - 1 : j = y % C
  BY <1>7, <1>8, Sizes
<1>10. idx' = [idx EXCEPT ![c] = j]
  BY <1>1, <1>3, <1>4, <1>5, <1>6, <1>7, <1>9 DEF Entry
<1>11. /\ headIndex' \in Index /\ DataTypes' /\ UNCHANGED producerSide
      /\ first[c] \in Index /\ left[c] \in 0 .. MaxBulk
      /\ first' = [first EXCEPT ![c] = first[c]] /\ left' = [left EXCEPT ![c] = left[c]]
  BY <1>1, <1>2, DataStays, OneStays
<1>12. header[c] \in 0 .. Len(headers) /\ header' = [header EXCEPT ![c] = header[c]]
  BY <1>1, <1>2, OneStays
<1>13. pc' = [pc EXCEPT ![c] = "block"]
  BY <1>1
<1> QED
  BY <1>10, <1>11, <1>12, <1>13, OneMoves

Moves(c, p, i, l, k, j) ==
  /\ pc' = [pc EXCEPT ![c] = p] /\ first' = [first EXCEPT ![c] = i]
  /\ left' = [left EXCEPT ![c] = l] /\ header' = [header EXCEPT ![c] = k]
  /\ idx' = [idx EXCEPT ![c] = j]
  /\ l = left[c] - Cardinality(Here(c))
  /\ \/ /\ Cardinality(Here(c)) < left[c]
        /\ p = "block" /\ i = Plus(first[c], Cardinality(Here(c))) /\ k = header[c]
        /\ j = (idx[c] + 1) % Size(headers[header[c]])
     \/ Cardinality(Here(c)) = left[c] /\ p = "idle"

(* What TakeOut does to the block and to the consumer.                     *)
LEMMA TakeOutFacts ==
  ASSUME TypeOK, Shape, NEW c \in Consumers, TakeOut(c), header[c] # 0
  PROVE  /\ pc[c] = "block" /\ UNCHANGED <<producerSide, headIndex>>
         /\ Entry(c).block \in Blocks
         /\ DataTypes'
         /\ \A b \in Blocks, k \in Offsets :
              /\ slot'[b][k] = IF b = Entry(c).block /\ k \in Here(c) THEN Nothing
                               ELSE slot[b][k]
              /\ k \in emptyFlags'[b] <=>
                   k \in emptyFlags[b] \/ (b = Entry(c).block /\ k \in Here(c))
         /\ \E p \in {"idle", "block"}, i \in Index, l \in 0 .. MaxBulk,
               k \in 0 .. Len(headers), j \in -1 .. MaxSize - 1 : Moves(c, p, i, l, k, j)
<1>1. /\ pc[c] = "block" /\ UNCHANGED <<producerSide, headIndex>>
      /\ Written(headers[header[c]], idx[c])
      /\ slot' = [slot EXCEPT ![Entry(c).block] = [k \in Offsets |->
                   IF k \in Here(c) THEN Nothing ELSE slot[Entry(c).block][k]]]
      /\ emptyFlags' = [emptyFlags EXCEPT ![Entry(c).block] =
                          emptyFlags[Entry(c).block] \cup Here(c)]
  BY DEF TakeOut
<1>2. PICK b \in Blocks : b = Entry(c).block
  BY <1>1, EntryType
<1>3. /\ Here(c) \subseteq Offsets /\ Cardinality(Here(c)) \in Nat
      /\ Cardinality(Here(c)) <= left[c] /\ left[c] \in Nat
  BY HereFacts
<1>4. DataTypes
  BY TypeParts
<1>5. DataTypes'
  <2>1. emptyFlags' \in [Blocks -> SUBSET Offsets]
    BY <1>1, <1>2, <1>3, <1>4 DEF DataTypes
  <2>2. slot' \in [Blocks -> [Offsets -> Index \cup {Nothing}]]
    <3>1. PICK s \in [Offsets -> Index \cup {Nothing}] :
            s = [k \in Offsets |-> IF k \in Here(c) THEN Nothing ELSE slot[b][k]]
      BY <1>4 DEF DataTypes
    <3>2. slot' = [slot EXCEPT ![b] = s]
      BY <1>1, <1>2, <3>1
    <3> QED
      BY <1>4, <3>1, <3>2 DEF DataTypes
  <2> QED
    BY <2>1, <2>2 DEF DataTypes
<1>6. ASSUME NEW a \in Blocks, NEW k \in Offsets
      PROVE  /\ slot'[a][k] = IF a = b /\ k \in Here(c) THEN Nothing ELSE slot[a][k]
             /\ k \in emptyFlags'[a] <=> k \in emptyFlags[a] \/ (a = b /\ k \in Here(c))
  BY <1>1, <1>2, <1>4 DEF DataTypes
<1>7. ASSUME Cardinality(Here(c)) < left[c]
      PROVE  \E p \in {"idle", "block"}, i \in Index, l \in 0 .. MaxBulk,
               k \in 0 .. Len(headers), j \in -1 .. MaxSize - 1 : Moves(c, p, i, l, k, j)
  <2>1. /\ first' = [first EXCEPT ![c] = Plus(first[c], Cardinality(Here(c)))]
        /\ left' = [left EXCEPT ![c] = left[c] - Cardinality(Here(c))]
        /\ idx' = [idx EXCEPT ![c] = (idx[c] + 1) % Size(headers[header[c]])]
        /\ UNCHANGED <<pc, header>>
    BY <1>7 DEF TakeOut
  <2>2. PICK i \in Index : i = Plus(first[c], Cardinality(Here(c)))
    <3>1. first[c] \in Int
      BY IndexIsInt DEF TypeOK
    <3> QED
      BY <1>3, <3>1, CounterType
  <2>3. PICK l \in 0 .. MaxBulk : l = left[c] - Cardinality(Here(c))
    BY <1>3, Kinds DEF TypeOK
  <2>4. PICK j \in -1 .. MaxSize - 1 : j = (idx[c] + 1) % Size(headers[header[c]])
    <3>1. PICK C \in Nat \ {0}, y \in Int :
            C = Size(headers[header[c]]) /\ C <= MaxSize /\ y = idx[c] + 1
      BY <1>1, EntryType
    <3>2. y % C \in 0 .. C - 1
      BY CongMod
    <3> QED
      BY <3>1, <3>2, Sizes
  <2>5. /\ header' = [header EXCEPT ![c] = header[c]] /\ header[c] \in 0 .. Len(headers)
        /\ pc' = [pc EXCEPT ![c] = "block"]
    BY <1>1, <2>1 DEF TypeOK
  <2>6. Moves(c, "block", i, l, header[c], j)
    BY <1>7, <2>1, <2>2, <2>3, <2>4, <2>5 DEF Moves
  <2> QED
    BY <2>2, <2>3, <2>4, <2>5, <2>6
<1>8. ASSUME ~(Cardinality(Here(c)) < left[c])
      PROVE  \E p \in {"idle", "block"}, i \in Index, l \in 0 .. MaxBulk,
               k \in 0 .. Len(headers), j \in -1 .. MaxSize - 1 : Moves(c, p, i, l, k, j)
  <2>1. /\ pc' = [pc EXCEPT ![c] = "idle"] /\ first' = [first EXCEPT ![c] = 0]
        /\ left' = [left EXCEPT ![c] = 0] /\ idx' = [idx EXCEPT ![c] = 0]
        /\ header' = [header EXCEPT ![c] = 0]
    BY <1>8 DEF TakeOut, Goto
  <2>2. /\ 0 \in Index /\ 0 \in 0 .. MaxBulk /\ 0 \in -1 .. MaxSize - 1
        /\ 0 \in 0 .. Len(headers)
    BY Kinds, Sizes DEF Index, Shape
  <2>3. 0 = left[c] - Cardinality(Here(c))
    BY <1>3, <1>8
  <2>4. Cardinality(Here(c)) = left[c]
    BY <1>3, <1>8
  <2>5. Moves(c, "idle", 0, 0, 0, 0)
    BY <2>1, <2>3, <2>4 DEF Moves
  <2> QED
    BY <2>2, <2>5
<1>9. \E p \in {"idle", "block"}, i \in Index, l \in 0 .. MaxBulk,
         k \in 0 .. Len(headers), j \in -1 .. MaxSize - 1 : Moves(c, p, i, l, k, j)
  BY <1>7, <1>8
<1> QED
  BY <1>1, <1>2, <1>5, <1>6, <1>9

LEMMA TakeOutTyped ==
  ASSUME TypeOK, Shape, NEW c \in Consumers, TakeOut(c), header[c] # 0
  PROVE  TypeOK'
<1>1. UNCHANGED <<producerSide, headIndex>> /\ DataTypes'
  BY TakeOutFacts
<1>2. PICK p \in {"idle", "block"}, i \in Index, l \in 0 .. MaxBulk,
        k \in 0 .. Len(headers), j \in -1 .. MaxSize - 1 : Moves(c, p, i, l, k, j)
  BY TakeOutFacts
<1>3. headIndex' \in Index
  BY <1>1 DEF TypeOK
<1>4. /\ pc' = [pc EXCEPT ![c] = p] /\ first' = [first EXCEPT ![c] = i]
      /\ left' = [left EXCEPT ![c] = l] /\ header' = [header EXCEPT ![c] = k]
      /\ idx' = [idx EXCEPT ![c] = j]
  BY <1>2 DEF Moves
<1>5. p \in {"idle", "header", "front", "base", "block"}
  OBVIOUS
<1> QED
  BY <1>1, <1>3, <1>4, <1>5, OneMoves

--------------------------------------------------------------------------------
(* What is true of every state of the stream.                              *)
LEMMA CountFacts ==
  ASSUME TypeOK, NEW t \in Int, NEW m \in Nat, Control(t, m)
  PROVE  /\ count \in Nat /\ count <= MaxBulk /\ Span \in Nat /\ Span <= MaxBulk
         /\ End(t) \in Int /\ t <= End(t) /\ End(t) <= t + Span
         /\ slotsUsed \in Nat /\ originalUsed \in Nat /\ front \in Nat /\ allocated \in Nat
         /\ originalFront \in Nat /\ sent \in Nat
         /\ slotsUsed <= pr_blockIndexSize /\ originalUsed <= pr_blockIndexSize
         /\ allocated <= MaxBlocks /\ bulk \in BOOLEAN
         /\ step \in {"idle", "ahead", "room", "grow", "block", "ready", "construct",
                      "entry", "front", "enter", "store", "place", "publish", "gone"}
         /\ next \in [Blocks -> Blocks]
<1>1. /\ count \in 0 .. MaxBulk /\ slotsUsed \in 0 .. pr_blockIndexSize
      /\ originalUsed \in 0 .. pr_blockIndexSize /\ front \in 0 .. pr_blockIndexSize - 1
      /\ originalFront \in 0 .. pr_blockIndexSize - 1
      /\ allocated \in 0 .. MaxBlocks /\ sent \in 0 .. MaxSent /\ bulk \in BOOLEAN
      /\ next \in [Blocks -> Blocks]
      /\ step \in {"idle", "ahead", "room", "grow", "block", "ready", "construct",
                   "entry", "front", "enter", "store", "place", "publish", "gone"}
  BY DEF TypeOK
<1>2. count \in Nat /\ Span \in Nat /\ Span <= MaxBulk
  BY <1>1, Kinds DEF Span
<1>3. step \in {"entry", "front", "publish"} => Span = count
  BY DEF Span, InCall
<1>4. End(t) \in Int /\ t <= End(t) /\ End(t) <= t + Span
  BY <1>2, <1>3 DEF End
<1> QED
  BY <1>1, <1>2, <1>4

LEMMA EnteredFacts ==
  ASSUME TypeOK, NEW t \in Int, NEW B \in Orders, NEW lo \in Int, NEW m \in Nat,
         Control(t, m), Locals(t, B, lo, m), Chain(t, B, lo, m)
  PROVE  /\ Before(t) \in Int /\ Entered(t, m) \in Int /\ Before(t) <= Entered(t, m)
         /\ Entered(t, m) <= Before(t) + m
         /\ UsedThen \in Nat /\ UsedThen <= pr_blockIndexSize
         /\ Entered(t, m) - UsedThen + 1 <= lo
         /\ Waiting => InCall /\ count = 1 /\ m <= 1
<1>1. /\ Before(t) \in Int /\ slotsUsed \in Nat /\ originalUsed \in Nat
      /\ slotsUsed <= pr_blockIndexSize /\ originalUsed <= pr_blockIndexSize
      /\ (Before(t) + m) - lo + 1 <= slotsUsed /\ count \in Nat
  BY BeforeFacts, CountFacts DEF Chain
<1>2. CASE Waiting
  <2>1. InCall /\ count = 1 /\ Before(t) + m = LastNum(t) /\ slotsUsed <= originalUsed + 1
    BY <1>2 DEF Waiting, InCall, Control, Locals
  <2>2. LastNum(t) <= Before(t) + 1
    BY <2>1, LastFacts
  <2>3. m = 0 \/ m = 1
    BY <1>1, <2>1, <2>2
  <2>4. m = 0 => slotsUsed = originalUsed
    BY <2>1 DEF Locals
  <2> QED
    BY <1>1, <1>2, <2>1, <2>3, <2>4 DEF Entered, UsedThen
<1>3. CASE ~Waiting
  BY <1>1, <1>3 DEF Entered, UsedThen
<1> QED
  BY <1>2, <1>3

LEMMA ListedEntry ==
  ASSUME TypeOK, Shape, headers # <<>>, NEW t \in Int, NEW B \in Orders, NEW lo \in Int,
         NEW m \in Nat, NEW o \in Int,
         Control(t, m), Locals(t, B, lo, m), Chain(t, B, lo, m), IndexOK(t, B, lo, m, o),
         NEW n \in Int, lo <= n, n <= Entered(t, m)
  PROVE  /\ At(blockIndex, o, n) = EntryFor(B, n) /\ HasEntry(blockIndex, B, n)
         /\ (n - o) % Size(blockIndex) \in DOMAIN blockIndex.entries
<1>1. /\ Entered(t, m) \in Int /\ Entered(t, m) - UsedThen + 1 <= lo /\ UsedThen \in Nat
  BY EnteredFacts
<1>2. Listed(blockIndex, o, n)
  <2>1. n \in Entered(t, m) - UsedThen + 1 .. Entered(t, m)
    BY <1>1
  <2> QED
    BY <2>1 DEF IndexOK
<1>3. At(blockIndex, o, n).block = B[n]
  <2>1. n \in lo .. Entered(t, m)
    BY <1>1
  <2> QED
    BY <2>1 DEF IndexOK
<1>4. PICK p \in DOMAIN blockIndex.entries :
        p = (n - o) % Size(blockIndex) /\ blockIndex.entries[p] \in Used \cup {Nothing}
  <2>1. PICK d \in Int : d = n - o
    OBVIOUS
  <2>2. PICK C \in Nat \ {0} :
          /\ C = Size(blockIndex) /\ DOMAIN blockIndex.entries = 0 .. C - 1
          /\ blockIndex.entries \in [0 .. C - 1 -> Used \cup {Nothing}]
    BY LatestFacts
  <2>3. d % C \in 0 .. C - 1
    BY CongMod
  <2> QED
    BY <2>1, <2>2, <2>3
<1>5. PICK e \in Used : e = blockIndex.entries[p] /\ e = At(blockIndex, o, n)
  BY <1>2, <1>4 DEF Listed, At
<1>6. e.b = Blk(n) /\ e.block = B[n]
  BY <1>2, <1>3, <1>5 DEF Listed
<1>7. e = EntryFor(B, n)
  BY <1>5, <1>6 DEF Used, EntryFor
<1> QED
  BY <1>4, <1>5, <1>7 DEF HasEntry

LEMMA EntryForIs ==
  ASSUME NEW B \in Orders, NEW n \in Int
  PROVE  EntryFor(B, n) \in Used /\ EntryFor(B, n) # Nothing
         /\ EntryFor(B, n).b = Blk(n) /\ EntryFor(B, n).block = B[n]
<1>1. Blk(n) \in Index /\ B[n] \in Blocks
  BY BlkType DEF Orders
<1>2. EntryFor(B, n) \in Used
  BY <1>1 DEF EntryFor, Used
<1> QED
  BY <1>2, Kinds DEF EntryFor

LEMMA RunFacts ==
  ASSUME TypeOK, NEW f \in Firsts, NEW c \in Consumers
  PROVE  /\ f[c] \in Int /\ left[c] \in Nat
         /\ \A x \in f[c] .. f[c] + left[c] - 1 : x \in Int /\ InHand(f, c, x)
         /\ \A x \in Int : InHand(f, c, x) => x \in f[c] .. f[c] + left[c] - 1
<1>1. f[c] \in Int /\ left[c] \in Nat
  BY Kinds DEF Firsts, TypeOK
<1> QED
  BY <1>1 DEF InHand

LEMMA InHandFacts ==
  ASSUME TypeOK, NEW t \in Int, NEW h \in Int, NEW f \in Firsts, NEW B \in Orders,
         NEW lo \in Int, NEW m \in Nat,
         Control(t, m), Claimed(t, h, f), Stored(t, h, f, B, lo),
         NEW c \in Consumers, NEW x \in Int, InHand(f, c, x)
  PROVE  /\ pc[c] # "idle" /\ x < h /\ x < t /\ Undone(t, h, f, x)
         /\ lo <= Num(x) /\ Num(x) <= Before(t) /\ Num(x) \in Int
         /\ slot[B[Num(x)]][x % BlockSize] = Mod(x)
<1>1. f[c] \in Int /\ left[c] \in Nat
  BY Kinds DEF Firsts, TypeOK
<1>2. pc[c] # "idle" /\ f[c] + left[c] <= h /\ h <= t
  BY <1>1 DEF Claimed, InHand
<1>3. x < h /\ x < t
  BY <1>1, <1>2 DEF InHand
<1>4. Undone(t, h, f, x)
  BY <1>3, CountFacts DEF Undone
<1>5. Num(x) <= Before(t) /\ Num(x) \in Int
  BY <1>3, BeforeFacts, PlaceIs
<1> QED
  BY <1>2, <1>3, <1>4, <1>5 DEF Stored

--------------------------------------------------------------------------------
(* The consumers' steps.                                                   *)
LEMMA SideGood ==
  ASSUME UNCHANGED producerSide, NEW t \in Int, NEW B \in Orders, NEW lo \in Int,
         NEW m \in Nat, NEW o \in Int
  PROVE  /\ Control(t, m)' <=> Control(t, m)
         /\ Locals(t, B, lo, m)' <=> Locals(t, B, lo, m)
         /\ IndexOK(t, B, lo, m, o)' <=> IndexOK(t, B, lo, m, o)
         /\ End(t)' = End(t) /\ Span' = Span /\ Cleared' = Cleared /\ InCall' = InCall
<1>1. /\ UNCHANGED <<tailIndex, tailBlock, next, allocated, headers, slotsUsed, front, step,
                     bulk, count, startBlock, cur, firstAllocated, originalFront,
                     originalUsed, destroyed, sent, excuses>>
  BY DEF producerSide, indexVars, callVars, localVars, endVars
<1>2. /\ End(t)' = End(t) /\ Span' = Span /\ Cleared' = Cleared /\ InCall' = InCall
      /\ Waiting' = Waiting /\ Entered(t, m)' = Entered(t, m) /\ UsedThen' = UsedThen
      /\ LastNum(t)' = LastNum(t)
  BY <1>1 DEF End, Span, Cleared, InCall, Waiting, Entered, UsedThen, LastNum
<1>3. blockIndex' = blockIndex /\ pr_blockIndexSize' = pr_blockIndexSize
  BY SideSame
<1>4. Control(t, m)' <=> Control(t, m)
  BY <1>1, <1>2, <1>3 DEF Control
<1>5. Locals(t, B, lo, m)' <=> Locals(t, B, lo, m)
  BY <1>1, <1>2 DEF Locals
<1>6. IndexOK(t, B, lo, m, o)' <=> IndexOK(t, B, lo, m, o)
  BY <1>1, <1>2, <1>3 DEF IndexOK
<1> QED
  BY <1>2, <1>4, <1>5, <1>6

(* What Chain says does not change when what it speaks of does not.        *)
LEMMA ChainStays ==
  ASSUME UNCHANGED producerSide, NEW t \in Int, NEW B \in Orders, NEW lo \in Int,
         NEW m \in Nat, Chain(t, B, lo, m),
         excuses # {} => emptyFlags'[next[tailBlock]] = emptyFlags[next[tailBlock]]
  PROVE  Chain(t, B, lo, m)'
<1>1. UNCHANGED <<tailBlock, next, allocated, slotsUsed, excuses>>
  BY DEF producerSide, indexVars, endVars
<1>2. excuses # {} => (Dead(next[tailBlock]) => Dead(next[tailBlock])')
  BY <1>1 DEF Dead
<1> QED
  BY <1>1, <1>2 DEF Chain

(* A load of one consumer changes nothing but what that one has Seen.      *)
LEMMA LoadKeeps ==
  ASSUME TypeOK, NEW t \in Int, NEW h \in Int, NEW f \in Firsts, NEW B \in Orders,
         NEW lo \in Int, NEW m \in Nat, NEW o \in Int, Good(t, h, f, B, lo, m, o),
         UNCHANGED <<producerSide, headIndex, emptyFlags, slot, first, left>>,
         NEW c \in Consumers, NEW p, p # "idle", pc[c] # "idle", pc' = [pc EXCEPT ![c] = p],
         Seen(f, B)'
  PROVE  Good(t, h, f, B, lo, m, o)'
<1>1. Control(t, m)' /\ Locals(t, B, lo, m)' /\ IndexOK(t, B, lo, m, o)'
  BY SideGood DEF Good
<1>2. Chain(t, B, lo, m)'
  BY ChainStays DEF Good
<1>3. \A d \in Consumers : (pc'[d] = "idle" <=> pc[d] = "idle")
  BY DEF TypeOK
<1>4. Claimed(t, h, f)'
  <2>1. Span' = Span
    BY SideGood
  <2> QED
    BY <1>3, <2>1 DEF Good, Claimed
<1>5. Elems(t, h, f, B, lo, m)'
  <2>1. End(t)' = End(t) /\ Cleared' = Cleared
    BY SideGood
  <2>2. \A x : Undone(t, h, f, x)' <=> Undone(t, h, f, x)
    BY <2>1 DEF Undone, InHand
  <2>3. Stored(t, h, f, B, lo)'
    BY <2>2 DEF Good, Elems, Stored
  <2>4. NoOther(t, h, f, B)'
    BY <2>2 DEF Good, Elems, NoOther
  <2>5. Flags(t, h, f, B, lo, m)'
    BY <2>1, <2>2 DEF Good, Elems, Flags
  <2> QED
    BY <2>3, <2>4, <2>5 DEF Elems
<1> QED
  BY <1>1, <1>2, <1>4, <1>5 DEF Good

(* The other consumers.                                                    *)
LEMMA OthersSee ==
  ASSUME UNCHANGED headers, NEW f \in Firsts, NEW g \in Firsts, NEW B \in Orders,
         NEW c \in Consumers, NEW d \in Consumers, d # c, SeenBy(f, B, d),
         g[d] = f[d], pc'[d] = pc[d], left'[d] = left[d], header'[d] = header[d],
         idx'[d] = idx[d]
  PROVE  SeenBy(g, B, d)'
BY DEF SeenBy, Entry

(* The latest header has entries for all that is undone.                   *)
LEMMA LoadHeaderStep ==
  ASSUME Types, NEW t \in Int, NEW h \in Int, NEW f \in Firsts, NEW B \in Orders,
         NEW lo \in Int, NEW m \in Nat, NEW o \in Int, Good(t, h, f, B, lo, m, o),
         NEW c \in Consumers, LoadHeader(c)
  PROVE  Good(t, h, f, B, lo, m, o)'
<1>1. /\ pc[c] = "header" /\ pc' = [pc EXCEPT ![c] = "front"]
      /\ header' = [header EXCEPT ![c] = Len(headers)]
      /\ UNCHANGED <<producerSide, headIndex, emptyFlags, slot, first, left, idx>>
  BY DEF LoadHeader, Goto
<1>2. TypeOK /\ Shape /\ headers # <<>> /\ UNCHANGED headers
  BY <1>1 DEF Types, producerSide, indexVars
<1>3. pc'[c] = "front" /\ header'[c] = Len(headers)
  BY <1>1, <1>2 DEF TypeOK
<1>4. SeenBy(f, B, c)'
  <2> SUFFICES ASSUME NEW x \in f[c] .. f[c] + left[c] - 1
               PROVE  HasEntry(blockIndex, B, Num(x))
    BY <1>1, <1>2, <1>3, LatestFacts DEF SeenBy, HasEntry
  <2>1. x \in Int /\ InHand(f, c, x)
    BY <1>2, RunFacts
  <2>2. lo <= Num(x) /\ Num(x) <= Before(t) /\ Num(x) \in Int
    BY <1>2, <2>1, InHandFacts DEF Good, Elems
  <2>3. Before(t) <= Entered(t, m) /\ Before(t) \in Int /\ Entered(t, m) \in Int
    BY <1>2, EnteredFacts DEF Good
  <2>4. Num(x) <= Entered(t, m)
    BY <2>2, <2>3
  <2> QED
    BY <1>2, <2>2, <2>4, ListedEntry DEF Good
<1>5. ASSUME NEW d \in Consumers, d # c PROVE SeenBy(f, B, d)'
  BY <1>1, <1>2, <1>5, OthersSee DEF Good, Seen, TypeOK
<1>6. Seen(f, B)'
  BY <1>4, <1>5 DEF Seen
<1> QED
  BY <1>1, <1>2, <1>6, LoadKeeps

(* The header that was loaded keeps what it had for the consumer.          *)
LEMMA LoadFrontStep ==
  ASSUME Types, NEW t \in Int, NEW h \in Int, NEW f \in Firsts, NEW B \in Orders,
         NEW lo \in Int, NEW m \in Nat, NEW o \in Int, Good(t, h, f, B, lo, m, o),
         NEW c \in Consumers, LoadFront(c)
  PROVE  Good(t, h, f, B, lo, m, o)'
<1>1. /\ pc[c] = "front" /\ pc' = [pc EXCEPT ![c] = "base"]
      /\ idx' = [idx EXCEPT ![c] = headers[header[c]].front]
      /\ UNCHANGED <<producerSide, headIndex, emptyFlags, slot, first, left, header>>
  BY DEF LoadFront, Goto
<1>2. TypeOK /\ Shape /\ UNCHANGED headers
  BY <1>1 DEF Types, producerSide, indexVars
<1>3. pc'[c] = "base"
  BY <1>1, <1>2 DEF TypeOK
<1>4. SeenBy(f, B, c)'
  BY <1>1, <1>2, <1>3 DEF SeenBy, Good, Seen
<1>5. ASSUME NEW d \in Consumers, d # c PROVE SeenBy(f, B, d)'
  BY <1>1, <1>2, <1>5, OthersSee DEF Good, Seen, TypeOK
<1>6. Seen(f, B)'
  BY <1>4, <1>5 DEF Seen
<1> QED
  BY <1>1, <1>2, <1>6, LoadKeeps

(* Every header has its places in order.                                   *)
LEMMA SomeLinear ==
  ASSUME Shape, NEW t \in Int, NEW B \in Orders, NEW lo \in Int, NEW m \in Nat, NEW o \in Int,
         IndexOK(t, B, lo, m, o), NEW i \in 1 .. Len(headers)
  PROVE  \E k \in Int : Linear(headers[i], k)
<1>1. headers # <<>>
  BY DEF Shape
<1>2. CASE i = Len(headers)
  <2>1. Linear(blockIndex, o)
    BY <1>1 DEF IndexOK
  <2> QED
    BY <1>2, <2>1 DEF blockIndex
<1>3. CASE i # Len(headers)
  <2>1. i \in 1 .. Len(headers) - 1
    BY <1>3 DEF Shape
  <2> QED
    BY <1>1, <2>1 DEF IndexOK
<1> QED
  BY <1>2, <1>3

(* From whatever front and base, Linear leads to the consumer's block.     *)
LEMMA LoadBaseStep ==
  ASSUME Types, NEW t \in Int, NEW h \in Int, NEW f \in Firsts, NEW B \in Orders,
         NEW lo \in Int, NEW m \in Nat, NEW o \in Int, Good(t, h, f, B, lo, m, o),
         NEW c \in Consumers, LoadBase(c)
  PROVE  Good(t, h, f, B, lo, m, o)'
<1>1. /\ pc[c] = "base" /\ pc' = [pc EXCEPT ![c] = "block"]
      /\ Written(headers[header[c]], idx[c])
      /\ idx' = [idx EXCEPT ![c] =
           (idx[c] + Minus(Base(first[c]), headers[header[c]].entries[idx[c]].b) \div BlockSize)
             % Size(headers[header[c]])]
      /\ UNCHANGED <<producerSide, headIndex, emptyFlags, slot, first, left, header>>
  BY DEF LoadBase, Goto
<1>2. TypeOK /\ Shape /\ UNCHANGED headers /\ header[c] # 0
  BY <1>1 DEF Types, producerSide, indexVars
<1>3. PICK i \in 1 .. Len(headers) : i = header[c]
  BY <1>2, EntryType
<1>4. PICK k \in Int : Linear(headers[i], k)
  BY <1>2, SomeLinear DEF Good
<1>5. left[c] >= 1 /\ first[c] = Mod(f[c]) /\ f[c] \in Int /\ left[c] \in Nat
  <2>1. f[c] \in Int /\ left[c] \in Nat
    BY <1>2, RunFacts
  <2>2. pc[c] # "idle"
    BY <1>1
  <2> QED
    BY <2>1, <2>2 DEF Good, Claimed
<1>6. PICK n \in Int : n = Num(f[c])
  BY <1>5, PlaceIs
<1>7. PICK p \in DOMAIN headers[i].entries : headers[i].entries[p] = EntryFor(B, n)
  <2>1. f[c] \in f[c] .. f[c] + left[c] - 1
    BY <1>5
  <2> QED
    BY <1>1, <1>3, <1>6, <2>1 DEF Good, Seen, SeenBy, HasEntry
<1>8. PICK C \in Nat \ {0}, j \in Int :
        C = Size(headers[i]) /\ Turn1 = C * j /\ DOMAIN headers[i].entries = 0 .. C - 1
  BY <1>2, HeaderFacts
<1>9. /\ p = (n - k) % C /\ Cong(n, p + k, C) /\ p \in 0 .. C - 1
  <2>1. headers[i].entries[p].b = Blk(n) /\ headers[i].entries[p] # Nothing
    BY <1>6, <1>7, EntryForIs
  <2> QED
    BY <1>2, <1>4, <1>6, <1>8, <2>1, PlaceOf
<1>10. PICK q \in Int, r \in Int :
         /\ q = idx[c] /\ q \in DOMAIN headers[i].entries
         /\ headers[i].entries[q].b = Blk(r) /\ Cong(r, q + k, C)
  <2>1. idx[c] \in DOMAIN headers[i].entries /\ headers[i].entries[idx[c]] # Nothing
    BY <1>1, <1>3 DEF Written
  <2>2. PICK r \in Int : headers[i].entries[idx[c]].b = Blk(r) /\ Cong(r, idx[c] + k, C)
    BY <1>4, <1>8, <2>1 DEF Linear
  <2>3. idx[c] \in Int
    BY <1>8, <2>1
  <2>4. PICK q \in Int : q = idx[c]
    BY <2>3
  <2> QED
    BY <2>1, <2>2, <2>4
<1>11. (q + (Minus(Blk(n), Blk(r)) \div BlockSize)) % C = p
  <2>1. Cong(p, q + (n - r), C)
    <3>0. C \in Int /\ p \in Int
      BY <1>9
    <3>1. PICK x \in Int, y \in Int, v \in Int :
            x = p + k /\ y = q + k /\ v = q + (n - r) /\ C \in Int /\ p \in Int
      BY <3>0
    <3>2. Cong(n, x, C) /\ Cong(r, y, C)
      BY <1>9, <1>10, <3>1
    <3>3. Cong(n - r, x - y, C)
      BY <3>1, <3>2, CongSum
    <3>4. Cong(q, q, C)
      BY <3>1, CongSame
    <3>5. PICK d \in Int, e \in Int : d = n - r /\ e = x - y /\ q + e = p
      BY <3>1
    <3>6. Cong(q + d, q + e, C)
      BY <3>1, <3>3, <3>4, <3>5, CongSum
    <3>7. Cong(v, p, C)
      BY <3>1, <3>5, <3>6
    <3> QED
      BY <3>1, <3>7, CongTurn
  <2> QED
    BY <1>8, <1>9, <2>1, PositionIs
<1>12. Base(first[c]) = Blk(n)
  BY <1>5, <1>6, BaseIs
<1>13. idx' = [idx EXCEPT ![c] = p]
  BY <1>1, <1>3, <1>8, <1>10, <1>11, <1>12
<1>14. pc'[c] = "block" /\ idx'[c] = p
  BY <1>1, <1>2, <1>13 DEF TypeOK
<1>15. Entry(c)' = EntryFor(B, n) /\ idx'[c] \in DOMAIN headers'[header'[c]].entries
  BY <1>1, <1>2, <1>3, <1>7, <1>14 DEF Entry
<1>16. SeenBy(f, B, c)'
  <2>1. \A x \in f[c] .. f[c] + left[c] - 1 : HasEntry(headers[header[c]], B, Num(x))
    BY <1>1 DEF Good, Seen, SeenBy
  <2> QED
    BY <1>1, <1>2, <1>6, <1>15, <2>1 DEF SeenBy
<1>17. ASSUME NEW d \in Consumers, d # c PROVE SeenBy(f, B, d)'
  BY <1>1, <1>2, <1>17, OthersSee DEF Good, Seen, TypeOK
<1>18. Seen(f, B)'
  BY <1>16, <1>17 DEF Seen
<1> QED
  BY <1>1, <1>2, <1>18, LoadKeeps

(* The elements are in blocks of the chain.                                *)
LEMMA UndoneFacts ==
  ASSUME TypeOK, NEW t \in Int, NEW h \in Int, NEW f \in Firsts, NEW B \in Orders,
         NEW lo \in Int, NEW m \in Nat, Control(t, m), Stored(t, h, f, B, lo),
         NEW x \in Int, Undone(t, h, f, x)
  PROVE  /\ Num(x) \in lo .. Before(t) + m /\ Num(x) \in Int
         /\ slot[B[Num(x)]][x % BlockSize] = Mod(x)
<1>1. /\ lo <= Num(x) /\ Num(x) \in Int /\ slot[B[Num(x)]][x % BlockSize] = Mod(x)
  BY PlaceIs DEF Stored
<1>2. Before(t) \in Int /\ count \in Nat
  BY BeforeFacts, CountFacts
<1>3. Num(x) <= Before(t) + m
  <2>1. CASE x < t
    BY <1>1, <1>2, <2>1, BeforeFacts
  <2>2. CASE ~(x < t)
    <3>1. step \in {"entry", "front", "publish"} /\ x < t + count
      BY <2>2 DEF Undone, End
    <3>2. Before(t) + m = LastNum(t) /\ count >= 1
      BY <3>1 DEF Control, InCall
    <3>3. x <= t + count - 1 /\ t + count - 1 \in Int
      BY <1>2, <3>1
    <3>4. Num(x) <= Num(t + count - 1)
      BY <3>3, NumMonotone
    <3> QED
      BY <3>2, <3>4 DEF LastNum
  <2> QED
    BY <2>1, <2>2
<1> QED
  BY <1>1, <1>2, <1>3

LEMMA ElemsSame ==
  ASSUME NEW t \in Int, NEW h \in Int, NEW f \in Firsts, NEW h2 \in Int, NEW f2 \in Firsts,
         NEW B \in Orders, NEW lo \in Int, NEW m \in Nat, Elems(t, h, f, B, lo, m),
         UNCHANGED <<slot, emptyFlags>>, Cleared' = Cleared,
         \A x \in Int : Undone(t, h2, f2, x)' <=> Undone(t, h, f, x)
  PROVE  Elems(t, h2, f2, B, lo, m)'
<1>1. Stored(t, h2, f2, B, lo)'
  BY DEF Elems, Stored
<1>2. NoOther(t, h2, f2, B)'
  BY DEF Elems, NoOther
<1>3. Flags(t, h2, f2, B, lo, m)'
  <2> SUFFICES ASSUME NEW n \in lo .. Before(t) + m, n <= Before(t) \/ Cleared,
                      NEW k \in Offsets
               PROVE  k \in emptyFlags[B[n]]
                        <=> Begins(n) + k < t /\ ~Undone(t, h, f, Begins(n) + k)
    <3>1. \A n \in lo .. Before(t) + m, k \in Offsets : Begins(n) + k \in Int
      BY ElementAt
    <3> QED
      BY <3>1 DEF Flags
  <2> QED
    BY DEF Elems, Flags
<1> QED
  BY <1>1, <1>2, <1>3 DEF Elems

(* How many elements there are to claim.                                   *)
LEMMA ThereIs ==
  ASSUME TypeOK, NEW t \in Int, NEW h \in Int, NEW f \in Firsts, NEW m \in Nat,
         Control(t, m), Claimed(t, h, f)
  PROVE  Minus(tailIndex, headIndex) = t - h
<1>1. t - h \in 0 .. IndexSize - 1
  BY Kinds, Sizes, CountFacts DEF Claimed
<1>2. Minus(tailIndex, headIndex) = Mod(t - h)
  BY ModFacts DEF Claimed, Control
<1>3. PICK d \in 0 .. IndexSize - 1 : d = t - h
  BY <1>1
<1>4. Mod(d) = d
  BY ModSmall
<1> QED
  BY <1>2, <1>3, <1>4

LEMMA HasHeader ==
  ASSUME TypeOK, NEW t \in Int, NEW h \in Int, NEW f \in Firsts, NEW B \in Orders,
         NEW lo \in Int, NEW m \in Nat, NEW o \in Int, Good(t, h, f, B, lo, m, o),
         NEW x \in Int, Undone(t, h, f, x)
  PROVE  headers # <<>>
<1>1. Num(x) \in lo .. Before(t) + m
  BY UndoneFacts DEF Good, Elems
<1>2. Before(t) \in Int /\ slotsUsed \in Nat
  BY BeforeFacts, CountFacts DEF Good
<1>3. slotsUsed >= 1
  BY <1>1, <1>2 DEF Good, Chain
<1> QED
  BY <1>3 DEF Good, IndexOK

(* The claim moves the head over elements that are in their blocks.        *)
LEMMA ClaimStep ==
  ASSUME Types, NEW t \in Int, NEW h \in Int, NEW f \in Firsts, NEW B \in Orders,
         NEW lo \in Int, NEW m \in Nat, NEW o \in Int, Good(t, h, f, B, lo, m, o),
         NEW c \in Consumers, Claim(c)
  PROVE  /\ headers # <<>>
         /\ \E h2 \in Int, f2 \in Firsts : Good(t, h2, f2, B, lo, m, o)'
<1>1. PICK n \in 1 .. MaxBulk :
        /\ n <= Minus(tailIndex, headIndex) /\ pc[c] = "idle"
        /\ pc' = [pc EXCEPT ![c] = "header"] /\ first' = [first EXCEPT ![c] = headIndex]
        /\ left' = [left EXCEPT ![c] = n] /\ headIndex' = Plus(headIndex, n)
        /\ UNCHANGED <<producerSide, emptyFlags, slot, header, idx>>
  BY ClaimFacts DEF Types
<1>2. TypeOK /\ Shape /\ UNCHANGED headers
  BY <1>1 DEF Types, producerSide, indexVars
<1>3. /\ Control(t, m) /\ Locals(t, B, lo, m) /\ Chain(t, B, lo, m) /\ IndexOK(t, B, lo, m, o)
      /\ Claimed(t, h, f) /\ Elems(t, h, f, B, lo, m) /\ Seen(f, B)
  BY DEF Good
<1>4. n \in Int /\ n >= 1 /\ n <= t - h
  BY <1>1, <1>2, <1>3, ThereIs, Kinds
<1>5. PICK h2 \in Int : h2 = h + n
  BY <1>4
<1>6. PICK f2 \in Firsts : f2 = [f EXCEPT ![c] = h]
  BY DEF Firsts
<1>7. /\ pc'[c] = "header" /\ first'[c] = headIndex /\ left'[c] = n
      /\ \A d \in Consumers : d # c => /\ pc'[d] = pc[d] /\ first'[d] = first[d]
                                       /\ left'[d] = left[d] /\ header'[d] = header[d]
                                       /\ idx'[d] = idx[d]
  BY <1>1, <1>2 DEF TypeOK
<1>8. f2[c] = h /\ \A d \in Consumers : d # c => f2[d] = f[d]
  BY <1>6 DEF Firsts
<1>9. headers # <<>>
  <2>1. Undone(t, h, f, h)
    BY <1>2, <1>3, <1>4, CountFacts DEF Undone
  <2> QED
    BY <1>2, <2>1, HasHeader
<1>10. Control(t, m)' /\ Locals(t, B, lo, m)' /\ IndexOK(t, B, lo, m, o)'
  BY <1>1, <1>3, SideGood
<1>11. Chain(t, B, lo, m)'
  BY <1>1, <1>3, ChainStays
<1>12. \A d \in Consumers : f[d] \in Int /\ left[d] \in Nat
  BY <1>2, RunFacts
<1>13. Claimed(t, h2, f2)'
  <2>1. headIndex' = Mod(h2)
    BY <1>1, <1>3, <1>4, <1>5, ModFacts DEF Claimed
  <2>2. h2 <= t /\ t + Span' - h2 < IndexSize \div 2
    <3>1. Span' = Span /\ Span \in Nat
      BY <1>1, <1>2, <1>3, SideGood, CountFacts
    <3>2. t + Span - h < IndexSize \div 2
      BY <1>3 DEF Claimed
    <3> QED
      BY <1>4, <1>5, <3>1, <3>2, Kinds
  <2>3. ASSUME NEW d \in Consumers
        PROVE  IF pc'[d] = "idle" THEN left'[d] = 0
               ELSE left'[d] >= 1 /\ first'[d] = Mod(f2[d]) /\ f2[d] + left'[d] <= h2
    <3>1. CASE d = c
      BY <1>3, <1>4, <1>5, <1>7, <1>8, <3>1 DEF Claimed
    <3>2. CASE d # c
      <4>1. pc[d] # "idle" => f[d] + left[d] <= h
        BY <1>3 DEF Claimed
      <4>2. pc[d] # "idle" => f[d] + left[d] <= h2
        BY <1>4, <1>5, <1>12, <4>1
      <4> QED
        BY <1>3, <1>7, <1>8, <3>2, <4>2 DEF Claimed
    <3> QED
      BY <3>1, <3>2
  <2>4. ASSUME NEW d \in Consumers, NEW e \in Consumers, d # e, pc'[d] # "idle",
               pc'[e] # "idle"
        PROVE  f2[d] + left'[d] <= f2[e] \/ f2[e] + left'[e] <= f2[d]
    <3>1. CASE d = c
      BY <1>3, <1>7, <1>8, <2>4, <3>1 DEF Claimed
    <3>2. CASE e = c
      BY <1>3, <1>7, <1>8, <2>4, <3>2 DEF Claimed
    <3>3. CASE d # c /\ e # c
      BY <1>3, <1>7, <1>8, <2>4, <3>3 DEF Claimed
    <3> QED
      BY <3>1, <3>2, <3>3
  <2> QED
    BY <2>1, <2>2, <2>3, <2>4 DEF Claimed
<1>14. Elems(t, h2, f2, B, lo, m)'
  <2>1. End(t)' = End(t) /\ Cleared' = Cleared
    BY <1>1, SideGood
  <2>2. ASSUME NEW x \in Int PROVE Undone(t, h2, f2, x)' <=> Undone(t, h, f, x)
    <3>1. InHand(f2, c, x)' <=> h <= x /\ x < h + n
      BY <1>7, <1>8 DEF InHand
    <3>2. ~InHand(f, c, x)
      BY <1>1, <1>3, <1>12 DEF InHand, Claimed
    <3>3. \A d \in Consumers : d # c => (InHand(f2, d, x)' <=> InHand(f, d, x))
      BY <1>7, <1>8 DEF InHand
    <3>4. h <= x <=> h2 <= x \/ (h <= x /\ x < h + n)
      BY <1>4, <1>5
    <3>5. (\E d \in Consumers : InHand(f2, d, x)')
            <=> (h <= x /\ x < h + n) \/ \E d \in Consumers : InHand(f, d, x)
      BY <3>1, <3>2, <3>3
    <3> QED
      BY <2>1, <3>4, <3>5 DEF Undone
  <2> QED
    BY <1>1, <1>3, <2>1, <2>2, ElemsSame
<1>15. Seen(f2, B)'
  <2>1. SeenBy(f2, B, c)'
    BY <1>7 DEF SeenBy
  <2>2. ASSUME NEW d \in Consumers, d # c PROVE SeenBy(f2, B, d)'
    BY <1>2, <1>3, <1>7, <1>8, <2>2, OthersSee DEF Seen
  <2> QED
    BY <2>1, <2>2 DEF Seen
<1>16. Good(t, h2, f2, B, lo, m, o)'
  BY <1>10, <1>11, <1>13, <1>14, <1>15 DEF Good
<1> QED
  BY <1>9, <1>16

(* The elements that TakeOut takes.                                        *)
LEMMA TakenAre ==
  ASSUME TypeOK, NEW f \in Firsts, NEW c \in Consumers, first[c] = Mod(f[c])
  PROVE  /\ \A x \in Int : (f[c] <= x /\ x < f[c] + Cardinality(Here(c)))
              <=> Num(x) = Num(f[c]) /\ x % BlockSize \in Here(c)
         /\ Cardinality(Here(c)) < left[c] =>
              Num(f[c] + Cardinality(Here(c))) = Num(f[c]) + 1
<1>1. PICK i \in Int, N \in Int, r \in Offsets :
        i = f[c] /\ N = Num(i) /\ r = i % BlockSize /\ i = Begins(N) + r /\ r \in Int
        /\ Begins(N) \in Int
  <2>1. f[c] \in Int
    BY RunFacts
  <2> QED
    BY <2>1, PlaceIs
<1>2. first[c] % BlockSize = r
  BY <1>1, BaseIs
<1>3. PICK n \in Nat :
        /\ n = Cardinality(Here(c)) /\ n <= left[c] /\ Here(c) \subseteq Offsets
        /\ \A k \in Int : k \in Here(c) <=> r <= k /\ k < r + n
        /\ n < left[c] => r + n = BlockSize
  BY <1>2, HereFacts
<1>4. r + n <= BlockSize
  <2>1. CASE n = 0
    BY <1>1, <2>1, Sizes DEF Offsets
  <2>2. CASE n # 0
    <3>1. r + n - 1 \in Here(c)
      BY <1>1, <1>3, <2>2
    <3> QED
      BY <1>1, <1>3, <3>1, Sizes DEF Offsets
  <2> QED
    BY <2>1, <2>2
<1>5. Begins(N + 1) = Begins(N) + BlockSize
  BY BeginsFacts
<1>6. ASSUME NEW x \in Int
      PROVE  (i <= x /\ x < i + n) <=> Num(x) = N /\ x % BlockSize \in Here(c)
  <2>1. PICK M \in Int, k \in Offsets :
          M = Num(x) /\ k = x % BlockSize /\ x = Begins(M) + k /\ k \in Int /\ Begins(M) \in Int
    BY PlaceIs
  <2>2. ASSUME i <= x, x < i + n PROVE M = N
    <3>1. BlockSize * N <= x /\ x < BlockSize * N + BlockSize
      BY <1>1, <1>3, <1>4, <2>2, Sizes DEF Begins, Offsets
    <3> QED
      BY <2>1, <3>1, NumUnique
  <2>3. M = N => ((i <= x /\ x < i + n) <=> (r <= k /\ k < r + n))
    BY <1>1, <1>3, <2>1
  <2> QED
    BY <1>3, <2>1, <2>2, <2>3
<1>7. ASSUME n < left[c] PROVE Num(i + n) = N + 1
  <2>1. PICK y \in Int : y = i + n
    BY <1>3
  <2>2. y = Begins(N + 1)
    BY <1>1, <1>3, <1>5, <1>7, <2>1, Sizes
  <2>3. BlockSize * (N + 1) <= y /\ y < BlockSize * (N + 1) + BlockSize
    BY <2>1, <2>2, Sizes DEF Begins
  <2> QED
    BY <2>1, <2>3, NumUnique
<1> QED
  BY <1>1, <1>3, <1>6, <1>7

(* The next entry in a header is that of the next block.                   *)
LEMMA NextEntry ==
  ASSUME Shape, NEW i \in 1 .. Len(headers), NEW k \in Int, Linear(headers[i], k),
         NEW B \in Orders, NEW n \in Int, NEW j \in DOMAIN headers[i].entries,
         headers[i].entries[j] = EntryFor(B, n), HasEntry(headers[i], B, n + 1)
  PROVE  headers[i].entries[(j + 1) % Size(headers[i])] = EntryFor(B, n + 1)
<1>1. PICK p \in DOMAIN headers[i].entries : headers[i].entries[p] = EntryFor(B, n + 1)
  BY DEF HasEntry
<1>2. PICK C \in Nat \ {0} : C = Size(headers[i])
  BY HeaderFacts
<1>3. j = (n - k) % C
  BY <1>2, EntryForIs, PlaceOf
<1>4. PICK q \in Int : q = n + 1
  OBVIOUS
<1>5. p = (q - k) % C
  <2>1. headers[i].entries[p].b = Blk(q) /\ headers[i].entries[p] # Nothing
    BY <1>1, <1>4, EntryForIs
  <2> QED
    BY <1>2, <2>1, PlaceOf
<1>6. PICK a \in Int : a = n - k /\ q - k = a + 1
  BY <1>4
<1>7. ((a % C) + 1) % C = (a + 1) % C
  <2>1. 1 \in Int
    OBVIOUS
  <2> QED
    BY <1>2, <1>6, <2>1, PlaceFrom
<1>8. (j + 1) % C = p
  BY <1>3, <1>5, <1>6, <1>7
<1> QED
  BY <1>1, <1>2, <1>8

(* Taking out the rest of a block puts up its flags and no others.         *)
LEMMA TakeOutStep ==
  ASSUME Types, NEW t \in Int, NEW h \in Int, NEW f \in Firsts, NEW B \in Orders,
         NEW lo \in Int, NEW m \in Nat, NEW o \in Int, Good(t, h, f, B, lo, m, o),
         NEW c \in Consumers, TakeOut(c)
  PROVE  \E f2 \in Firsts : Good(t, h, f2, B, lo, m, o)'
<1>0. pc[c] = "block" /\ header[c] # 0 /\ TypeOK /\ Shape
  BY DEF TakeOut, Types
<1>1. /\ UNCHANGED <<producerSide, headIndex>>
      /\ \A b \in Blocks, k \in Offsets :
           /\ slot'[b][k] = IF b = Entry(c).block /\ k \in Here(c) THEN Nothing
                            ELSE slot[b][k]
           /\ k \in emptyFlags'[b] <=>
                k \in emptyFlags[b] \/ (b = Entry(c).block /\ k \in Here(c))
  BY <1>0, TakeOutFacts
<1>2. PICK p \in {"idle", "block"}, i \in Index, l \in 0 .. MaxBulk,
        k \in 0 .. Len(headers), j \in -1 .. MaxSize - 1 : Moves(c, p, i, l, k, j)
  BY <1>0, TakeOutFacts
<1>3. UNCHANGED headers /\ DataTypes /\ DataTypes'
  BY <1>0, <1>1, TakeOutFacts, TypeParts DEF producerSide, indexVars
<1>4. /\ Control(t, m) /\ Locals(t, B, lo, m) /\ Chain(t, B, lo, m) /\ IndexOK(t, B, lo, m, o)
      /\ Claimed(t, h, f) /\ Elems(t, h, f, B, lo, m) /\ Seen(f, B)
      /\ Stored(t, h, f, B, lo) /\ NoOther(t, h, f, B) /\ Flags(t, h, f, B, lo, m)
  BY DEF Good, Elems
<1>5. /\ first[c] = Mod(f[c]) /\ left[c] >= 1 /\ f[c] + left[c] <= h /\ h <= t
  BY <1>0, <1>4 DEF Claimed
<1>6. \A d \in Consumers : f[d] \in Int /\ left[d] \in Nat
  BY <1>0, RunFacts
<1>7. PICK n \in Nat : /\ n = Cardinality(Here(c)) /\ n <= left[c] /\ n >= 1
                       /\ Here(c) \subseteq Offsets /\ l = left[c] - n
  BY <1>0, <1>2, <1>5, HereFacts DEF Moves
<1>30. PICK F \in Int, L \in Nat : F = f[c] /\ L = left[c]
  BY <1>6
<1>31. n <= L /\ n >= 1 /\ l = L - n /\ F + n \in Int /\ F + L <= h /\ L - n \in Nat
  BY <1>5, <1>7, <1>30
<1>32. /\ n \in Nat /\ l \in Int /\ F \in Int /\ L \in Nat /\ h \in Int /\ t \in Int
       /\ h <= t
  BY <1>5, <1>7, <1>30
<1>8. PICK f2 \in Firsts : f2 = [f EXCEPT ![c] = F + n]
  BY <1>31 DEF Firsts
<1>9. f2[c] = F + n /\ \A d \in Consumers : d # c => f2[d] = f[d]
  BY <1>8 DEF Firsts
<1>10. /\ pc'[c] = p /\ first'[c] = i /\ left'[c] = l /\ header'[c] = k /\ idx'[c] = j
       /\ \A d \in Consumers : d # c => /\ pc'[d] = pc[d] /\ first'[d] = first[d]
                                        /\ left'[d] = left[d] /\ header'[d] = header[d]
                                        /\ idx'[d] = idx[d]
  BY <1>0, <1>2 DEF Moves, TypeOK
<1>11. PICK N \in Int : N = Num(f[c])
  BY <1>6, PlaceIs
<1>12. Entry(c) = EntryFor(B, N) /\ Entry(c).block = B[N] /\ B[N] \in Blocks
  <2>1. Entry(c) = EntryFor(B, N)
    BY <1>0, <1>4, <1>11 DEF Seen, SeenBy
  <2> QED
    BY <2>1, EntryForIs DEF Orders
<1>13. N \in lo .. Before(t) + m /\ N <= Before(t) /\ Before(t) \in Int
  <2>1. InHand(f, c, f[c])
    BY <1>5, <1>6 DEF InHand
  <2> QED
    BY <1>0, <1>4, <1>6, <1>11, <2>1, InHandFacts, UndoneFacts, BeforeFacts
<1>14. \A x \in Int : (f[c] <= x /\ x < f[c] + n) <=> Num(x) = N /\ x % BlockSize \in Here(c)
  BY <1>0, <1>5, <1>7, <1>11, TakenAre
<1>15. \A a \in lo .. Before(t) + m : B[a] = B[N] => a = N
  BY <1>4, <1>13 DEF Chain
<1>16. End(t)' = End(t) /\ Cleared' = Cleared /\ Span' = Span
  BY <1>1, SideGood
<1>17. p = "block" \/ (p = "idle" /\ l = 0)
  BY <1>2, <1>7 DEF Moves
<1>18. p = "block" => /\ n < L /\ i = Plus(first[c], n) /\ k = header[c] /\ l >= 1
                      /\ j = (idx[c] + 1) % Size(headers[header[c]])
  <2>1. p = "block" => /\ n < L /\ i = Plus(first[c], n) /\ k = header[c]
                       /\ j = (idx[c] + 1) % Size(headers[header[c]])
    BY <1>2, <1>7, <1>30 DEF Moves
  <2>2. n < L => l >= 1
    BY <1>31
  <2> QED
    BY <2>1, <2>2
<1>19. Control(t, m)' /\ Locals(t, B, lo, m)' /\ IndexOK(t, B, lo, m, o)'
  BY <1>1, <1>4, SideGood
<1>20. Chain(t, B, lo, m)'
  <2>1. ASSUME excuses # {} PROVE emptyFlags'[next[tailBlock]] = emptyFlags[next[tailBlock]]
    <3>1. tailBlock # Null /\ next[tailBlock] # B[N]
      BY <1>4, <1>13, <2>1 DEF Chain
    <3>2. tailBlock \in Blocks
      <4>1. tailBlock \in 1 .. allocated /\ allocated \in 0 .. MaxBlocks
        BY <1>0, <3>1 DEF TypeOK
      <4> QED
        BY <4>1, Kinds DEF Blocks
    <3>3. PICK b \in Blocks : b = next[tailBlock]
      BY <1>0, <3>2 DEF TypeOK
    <3>4. \A k2 \in Offsets : k2 \in emptyFlags'[b] <=> k2 \in emptyFlags[b]
      BY <1>1, <1>12, <3>1, <3>3
    <3>5. emptyFlags'[b] \subseteq Offsets /\ emptyFlags[b] \subseteq Offsets
      BY <1>3 DEF DataTypes
    <3> QED
      BY <3>3, <3>4, <3>5
  <2> QED
    BY <1>1, <1>4, <2>1, ChainStays
<1>21. Claimed(t, h, f2)'
  <2>1. ASSUME NEW d \in Consumers
        PROVE  IF pc'[d] = "idle" THEN left'[d] = 0
               ELSE left'[d] >= 1 /\ first'[d] = Mod(f2[d]) /\ f2[d] + left'[d] <= h
    <3>1. CASE d = c /\ p = "block"
      <4>1. first'[c] = Plus(Mod(f[c]), n)
        BY <1>5, <1>10, <1>18, <3>1
      <4>2. Plus(Mod(F), n) = Mod(F + n)
        <5>1. n \in Int
          BY <1>7
        <5> QED
          BY <1>30, <5>1, ModFacts
      <4>3. (F + n) + l <= h
        BY ONLY <1>31, <1>32
      <4> QED
        BY <1>9, <1>10, <1>18, <1>30, <3>1, <4>1, <4>2, <4>3
    <3>2. CASE d = c /\ p = "idle"
      BY <1>10, <1>17, <3>2
    <3>3. CASE d # c
      BY <1>4, <1>9, <1>10, <3>3 DEF Claimed
    <3> QED
      BY <1>17, <3>1, <3>2, <3>3
  <2>2. ASSUME NEW d \in Consumers, NEW e \in Consumers, d # e, pc'[d] # "idle",
               pc'[e] # "idle"
        PROVE  f2[d] + left'[d] <= f2[e] \/ f2[e] + left'[e] <= f2[d]
    <3>1. \A a \in Consumers : pc'[a] # "idle" => pc[a] # "idle"
      BY <1>0, <1>10
    <3>2. f[d] + left[d] <= f[e] \/ f[e] + left[e] <= f[d]
      BY <1>4, <2>2, <3>1 DEF Claimed
    <3>3. \A a \in Consumers : f[a] <= f2[a] /\ f2[a] + left'[a] = f[a] + left[a]
                               /\ f2[a] \in Int /\ left'[a] \in Int
      <4> SUFFICES ASSUME NEW a \in Consumers
                   PROVE  f[a] <= f2[a] /\ f2[a] + left'[a] = f[a] + left[a]
                          /\ f2[a] \in Int /\ left'[a] \in Int
        OBVIOUS
      <4>1. CASE a = c
        <5>1. F <= F + n /\ (F + n) + (L - n) = F + L /\ F + n \in Int /\ L - n \in Int
          BY ONLY <1>31, <1>32
        <5> QED
          BY <1>9, <1>10, <1>30, <1>31, <4>1, <5>1
      <4>2. CASE a # c
        <5>1. f2[a] = f[a] /\ left'[a] = left[a] /\ f[a] \in Int /\ left[a] \in Nat
          BY <1>6, <1>9, <1>10, <4>2
        <5> QED
          BY <5>1
      <4> QED
        BY <4>1, <4>2
    <3>4. /\ f[d] <= f2[d] /\ f2[d] + left'[d] = f[d] + left[d] /\ f2[d] \in Int
          /\ f[e] <= f2[e] /\ f2[e] + left'[e] = f[e] + left[e] /\ f2[e] \in Int
          /\ f[d] \in Int /\ f[e] \in Int /\ left[d] \in Int /\ left[e] \in Int
          /\ left'[d] \in Int /\ left'[e] \in Int
      BY <1>6, <3>3
    <3>5. CASE f[d] + left[d] <= f[e]
      BY ONLY <3>4, <3>5
    <3>6. CASE f[e] + left[e] <= f[d]
      BY ONLY <3>4, <3>6
    <3> QED
      BY <3>2, <3>5, <3>6
  <2> QED
    BY <1>1, <1>4, <1>16, <2>1, <2>2 DEF Claimed
<1>22. ASSUME NEW x \in Int
       PROVE  Undone(t, h, f2, x)'
                <=> Undone(t, h, f, x) /\ ~(f[c] <= x /\ x < f[c] + n)
  <2>1. InHand(f2, c, x)' <=> InHand(f, c, x) /\ ~(f[c] <= x /\ x < f[c] + n)
    <3>1. InHand(f2, c, x)' <=> F + n <= x /\ x < (F + n) + l
      BY <1>9, <1>10 DEF InHand
    <3>2. InHand(f, c, x) <=> F <= x /\ x < F + L
      BY <1>30 DEF InHand
    <3>3. (F + n) + l = F + L
      BY ONLY <1>31, <1>32
    <3>4. x \in Int
      OBVIOUS
    <3>5. F + n <= x /\ x < (F + n) + l <=> (F <= x /\ x < F + L) /\ ~(F <= x /\ x < F + n)
      BY ONLY <1>31, <1>32, <3>3, <3>4
    <3> QED
      BY ONLY <1>30, <3>1, <3>2, <3>5
  <2>2. ASSUME NEW d \in Consumers, d # c
        PROVE  InHand(f2, d, x)' <=> InHand(f, d, x) /\ ~(f[c] <= x /\ x < f[c] + n)
    <3>1. InHand(f2, d, x)' <=> InHand(f, d, x)
      BY <1>9, <1>10, <2>2 DEF InHand
    <3>2. ASSUME InHand(f, d, x) PROVE ~(f[c] <= x /\ x < f[c] + n)
      <4>1. pc[d] # "idle"
        BY <1>4, <1>6, <3>2 DEF InHand, Claimed
      <4>2. f[d] + left[d] <= F \/ F + L <= f[d]
        BY <1>0, <1>4, <1>30, <2>2, <4>1 DEF Claimed
      <4>3. f[d] <= x /\ x < f[d] + left[d] /\ f[d] \in Int /\ left[d] \in Nat
        BY <1>6, <3>2 DEF InHand
      <4>4. x \in Int
        OBVIOUS
      <4>5. ~(F <= x /\ x < F + n)
        <5>1. CASE f[d] + left[d] <= F
          BY ONLY <1>32, <4>3, <4>4, <5>1
        <5>2. CASE F + L <= f[d]
          BY ONLY <1>31, <1>32, <4>3, <4>4, <5>2
        <5> QED
          BY <4>2, <5>1, <5>2
      <4> QED
        BY ONLY <1>30, <4>5
    <3> QED
      BY <3>1, <3>2
  <2>3. h <= x => ~(f[c] <= x /\ x < f[c] + n)
    <3>1. x \in Int
      OBVIOUS
    <3> QED
      BY ONLY <1>30, <1>31, <1>32, <3>1
  <2> QED
    BY <1>16, <2>1, <2>2, <2>3 DEF Undone
<1>23. ASSUME NEW x \in Int, Num(x) \in lo .. Before(t) + m
       PROVE  (f[c] <= x /\ x < f[c] + n) <=> B[Num(x)] = B[N] /\ x % BlockSize \in Here(c)
  BY <1>14, <1>15, <1>23
<1>24. Stored(t, h, f2, B, lo)'
  <2> SUFFICES ASSUME NEW x \in Int, Undone(t, h, f2, x)'
               PROVE  Num(x) >= lo /\ slot'[B[Num(x)]][x % BlockSize] = Mod(x)
    BY DEF Stored
  <2>1. Undone(t, h, f, x) /\ ~(f[c] <= x /\ x < f[c] + n)
    BY <1>22
  <2>2. Num(x) \in lo .. Before(t) + m /\ slot[B[Num(x)]][x % BlockSize] = Mod(x)
    BY <1>0, <1>4, <2>1, UndoneFacts
  <2>3. ~(B[Num(x)] = B[N] /\ x % BlockSize \in Here(c))
    BY <1>23, <2>1, <2>2
  <2>4. B[Num(x)] \in Blocks /\ x % BlockSize \in Offsets
    BY <2>2, PlaceIs DEF Orders
  <2> QED
    BY <1>1, <1>12, <2>2, <2>3, <2>4
<1>25. NoOther(t, h, f2, B)'
  <2> SUFFICES ASSUME NEW b \in Blocks, NEW s \in Offsets, slot'[b][s] # Nothing
               PROVE  \E x \in Int : Undone(t, h, f2, x)' /\ B[Num(x)] = b /\ x % BlockSize = s
    BY DEF NoOther
  <2>1. slot[b][s] # Nothing /\ ~(b = B[N] /\ s \in Here(c))
    BY <1>1, <1>12
  <2>2. PICK x \in Int : Undone(t, h, f, x) /\ B[Num(x)] = b /\ x % BlockSize = s
    BY <1>4, <2>1 DEF NoOther
  <2>3. ~(f[c] <= x /\ x < f[c] + n)
    BY <1>14, <2>1, <2>2
  <2> QED
    BY <1>22, <2>2, <2>3
<1>26. Flags(t, h, f2, B, lo, m)'
  <2> SUFFICES ASSUME NEW a \in lo .. Before(t) + m, a <= Before(t) \/ Cleared,
                      NEW s \in Offsets
               PROVE  s \in emptyFlags'[B[a]]
                        <=> Begins(a) + s < t /\ ~Undone(t, h, f2, Begins(a) + s)'
    BY <1>16 DEF Flags
  <2>1. PICK x \in Int : x = Begins(a) + s /\ Num(x) = a /\ x % BlockSize = s
    BY ElementAt
  <2>2. s \in emptyFlags[B[a]] <=> x < t /\ ~Undone(t, h, f, x)
    BY <1>4, <2>1 DEF Flags
  <2>3. B[a] \in Blocks
    BY DEF Orders
  <2>4. s \in emptyFlags'[B[a]] <=> s \in emptyFlags[B[a]] \/ (f[c] <= x /\ x < f[c] + n)
    BY <1>1, <1>12, <1>23, <2>1, <2>3
  <2>5. f[c] <= x /\ x < f[c] + n => x < t
    <3>1. x \in Int
      OBVIOUS
    <3>2. F <= x /\ x < F + n => x < t
      BY ONLY <1>31, <1>32, <3>1
    <3> QED
      BY ONLY <1>30, <3>2
  <2> QED
    BY <1>22, <2>1, <2>2, <2>4, <2>5
<1>27. Elems(t, h, f2, B, lo, m)'
  BY <1>24, <1>25, <1>26 DEF Elems
<1>28. Seen(f2, B)'
  <2>1. ASSUME NEW d \in Consumers, d # c PROVE SeenBy(f2, B, d)'
    BY <1>3, <1>4, <1>9, <1>10, <2>1, OthersSee DEF Seen
  <2>2. CASE p = "idle"
    <3>1. SeenBy(f2, B, c)'
      BY <1>10, <2>2 DEF SeenBy
    <3> QED
      BY <2>1, <3>1 DEF Seen
  <2>3. CASE p = "block"
    <3>1. ASSUME NEW x \in f2[c] .. f2[c] + left'[c] - 1
          PROVE  HasEntry(headers[header[c]], B, Num(x))
      <4>1. x \in f[c] .. f[c] + left[c] - 1
        <5>1. x \in F + n .. (F + n) + l - 1
          BY <1>9, <1>10
        <5>2. x \in F .. F + L - 1
          BY ONLY <1>31, <1>32, <5>1
        <5> QED
          BY <1>30, <5>2
      <4> QED
        BY <1>0, <1>4, <4>1 DEF Seen, SeenBy
    <3>2. Num(f2[c]) = N + 1
      <4>1. Num(F + n) = Num(F) + 1
        BY <1>0, <1>5, <1>7, <1>18, <1>30, <2>3, TakenAre
      <4> QED
        BY <1>9, <1>11, <1>30, <4>1
    <3>3. HasEntry(headers[header[c]], B, N + 1)
      <4>1. f2[c] \in f2[c] .. f2[c] + left'[c] - 1
        <5>1. F + n \in F + n .. (F + n) + l - 1
          BY <1>18, <1>32, <2>3
        <5> QED
          BY <1>9, <1>10, <5>1
      <4> QED
        BY <3>1, <3>2, <4>1
    <3>4. PICK g \in 1 .. Len(headers) : g = header[c]
      BY <1>0, EntryType
    <3>5. PICK z \in Int : Linear(headers[g], z)
      BY <1>0, <1>4, SomeLinear
    <3>6. idx[c] \in DOMAIN headers[g].entries /\ headers[g].entries[idx[c]] = EntryFor(B, N)
      BY <1>12, <3>4 DEF TakeOut, Written, Entry
    <3>7. headers[g].entries[(idx[c] + 1) % Size(headers[g])] = EntryFor(B, N + 1)
      BY <1>0, <3>3, <3>4, <3>5, <3>6, NextEntry
    <3>8. Entry(c)' = EntryFor(B, N + 1) /\ idx'[c] \in DOMAIN headers'[header'[c]].entries
      <4>1. PICK C \in Nat \ {0} : /\ C = Size(headers[g])
                                   /\ DOMAIN headers[g].entries = 0 .. C - 1
        BY <1>0, HeaderFacts
      <4>2. PICK y \in Int : y = idx[c] + 1
        <5>1. idx[c] \in 0 .. C - 1
          BY <3>6, <4>1
        <5>2. idx[c] + 1 \in Int
          BY ONLY <5>1, C \in Nat \ {0}
        <5> QED
          BY <5>2
      <4>3. y % C \in 0 .. C - 1
        BY CongMod
      <4> QED
        BY <1>3, <1>10, <1>18, <2>3, <3>4, <3>7, <4>1, <4>2, <4>3 DEF Entry
    <3>9. SeenBy(f2, B, c)'
      BY <1>3, <1>10, <1>18, <2>3, <3>1, <3>2, <3>8 DEF SeenBy, HasEntry
    <3> QED
      BY <2>1, <3>9 DEF Seen
  <2> QED
    BY <1>17, <2>2, <2>3
<1>29. Good(t, h, f2, B, lo, m, o)'
  BY <1>19, <1>20, <1>21, <1>27, <1>28 DEF Good
<1> QED
  BY <1>29

(* One step of a consumer.                                                 *)
LEMMA ConsumeTyped ==
  ASSUME Types, NEW c \in Consumers, Consume(c)
  PROVE  TypeOK' /\ Shape' /\ UNCHANGED producerSide
         /\ (Claim(c) \/ pc[c] # "idle") /\ step # "gone"
<1>1. TypeOK /\ Shape /\ (pc[c] \in {"front", "base", "block"} => header[c] # 0)
  BY DEF Types
<1>2. UNCHANGED producerSide
  BY SideKept
<1>3. Shape'
  BY <1>1, <1>2, SideSame
<1>4. step = "gone" => pc[c] = "idle"
  BY DEF Types, Ended
<1>5. CASE Claim(c)
  BY <1>1, <1>2, <1>3, <1>5, ClaimTyped DEF Claim
<1>6. CASE LoadHeader(c)
  <2>1. TypeOK'
    BY <1>1, <1>6, LoadHeaderTyped
  <2> QED
    BY <1>2, <1>3, <1>4, <1>6, <2>1 DEF LoadHeader, Goto
<1>7. CASE LoadFront(c)
  <2>1. pc[c] = "front"
    BY <1>7 DEF LoadFront, Goto
  <2>2. TypeOK'
    BY <1>1, <1>7, <2>1, LoadFrontTyped
  <2> QED
    BY <1>2, <1>3, <1>4, <2>1, <2>2
<1>8. CASE LoadBase(c)
  <2>1. pc[c] = "base"
    BY <1>8 DEF LoadBase, Goto
  <2>2. TypeOK'
    BY <1>1, <1>8, <2>1, LoadBaseTyped
  <2> QED
    BY <1>2, <1>3, <1>4, <2>1, <2>2
<1>9. CASE TakeOut(c)
  <2>1. pc[c] = "block"
    BY <1>9 DEF TakeOut
  <2>2. TypeOK'
    BY <1>1, <1>9, <2>1, TakeOutTyped
  <2> QED
    BY <1>2, <1>3, <1>4, <2>1, <2>2
<1> QED
  BY <1>5, <1>6, <1>7, <1>8, <1>9 DEF Consume

(* No step of a consumer disturbs the numbers.                             *)
LEMMA ConsumeGood ==
  ASSUME Types, NEW t \in Int, NEW h \in Int, NEW f \in Firsts, NEW B \in Orders,
         NEW lo \in Int, NEW m \in Nat, NEW o \in Int, Good(t, h, f, B, lo, m, o),
         NEW c \in Consumers, Consume(c)
  PROVE  /\ headers # <<>>
         /\ \E h2 \in Int, f2 \in Firsts : Good(t, h2, f2, B, lo, m, o)'
<1>1. ~Claim(c) => headers # <<>>
  BY ConsumeTyped DEF Types
<1>2. CASE Claim(c)
  BY <1>2, ClaimStep
<1>3. CASE LoadHeader(c)
  <2>1. Good(t, h, f, B, lo, m, o)'
    BY <1>3, LoadHeaderStep
  <2>2. headers # <<>>
    BY <1>3 DEF Types, LoadHeader, Goto
  <2> QED
    BY <2>1, <2>2
<1>4. CASE LoadFront(c)
  <2>1. Good(t, h, f, B, lo, m, o)'
    BY <1>4, LoadFrontStep
  <2>2. headers # <<>>
    BY <1>4 DEF Types, LoadFront, Goto
  <2> QED
    BY <2>1, <2>2
<1>5. CASE LoadBase(c)
  <2>1. Good(t, h, f, B, lo, m, o)'
    BY <1>5, LoadBaseStep
  <2>2. headers # <<>>
    BY <1>5 DEF Types, LoadBase, Goto
  <2> QED
    BY <2>1, <2>2
<1>6. CASE TakeOut(c)
  <2>1. \E f2 \in Firsts : Good(t, h, f2, B, lo, m, o)'
    BY <1>6, TakeOutStep
  <2>2. headers # <<>>
    BY <1>6 DEF Types, TakeOut
  <2> QED
    BY <2>1, <2>2
<1> QED
  BY <1>2, <1>3, <1>4, <1>5, <1>6 DEF Consume

LEMMA ConsumeStep ==
  ASSUME Inv, NEW c \in Consumers, Consume(c)
  PROVE  Inv'
<1>1. Types /\ TypeOK' /\ Shape' /\ UNCHANGED producerSide /\ step # "gone"
      /\ (Claim(c) \/ pc[c] # "idle") /\ TypeOK /\ Shape
  BY ConsumeTyped DEF Inv, Types
<1>2. UNCHANGED <<headers, excuses, step>>
  BY <1>1 DEF producerSide, indexVars, endVars
<1>3. headers # <<>>
  <2>1. CASE "bulk" \in excuses
    BY <1>1, <2>1 DEF Types
  <2>2. CASE "bulk" \notin excuses
    BY <1>1, <2>2, ConsumeGood DEF Inv
  <2> QED
    BY <2>1, <2>2
<1>4. \A d \in Consumers : pc'[d] \in {"front", "base", "block"} => header'[d] # 0
  <2>1. TypeOK /\ \A d \in Consumers : pc[d] \in {"front", "base", "block"} => header[d] # 0
    BY <1>1 DEF Types
  <2>2. CASE Claim(c)
    BY <2>1, <2>2 DEF Claim, Goto, TypeOK
  <2>3. CASE LoadHeader(c)
    <3>1. Len(headers) # 0
      BY <1>1, <1>3 DEF Shape
    <3> QED
      BY <2>1, <2>3, <3>1 DEF LoadHeader, Goto, TypeOK
  <2>4. CASE LoadFront(c)
    BY <2>1, <2>4 DEF LoadFront, Goto, TypeOK
  <2>5. CASE LoadBase(c)
    BY <2>1, <2>5 DEF LoadBase, Goto, TypeOK
  <2>6. CASE TakeOut(c)
    <3>1. header[c] # 0
      BY <2>1, <2>6 DEF TakeOut
    <3>2. PICK p \in {"idle", "block"}, i \in Index, l \in 0 .. MaxBulk,
             k \in 0 .. Len(headers), j \in -1 .. MaxSize - 1 : Moves(c, p, i, l, k, j)
      BY <1>1, <2>6, <3>1, TakeOutFacts
    <3>3. p = "block" => k = header[c]
      BY <3>2 DEF Moves
    <3> QED
      BY <2>1, <3>1, <3>2, <3>3 DEF Moves, TypeOK
  <2> QED
    BY <2>2, <2>3, <2>4, <2>5, <2>6 DEF Consume
<1>5. Types'
  BY <1>1, <1>2, <1>3, <1>4 DEF Types, Ended
<1>6. ASSUME "bulk" \notin excuses
      PROVE  \E t \in Int, h \in Int, f \in Firsts, B \in Orders, lo \in Int, m \in Nat,
                o \in Int : Good(t, h, f, B, lo, m, o)'
  BY <1>1, <1>6, ConsumeGood DEF Inv
<1> QED
  BY <1>2, <1>5, <1>6 DEF Inv, Firsts, Orders

--------------------------------------------------------------------------------
(* The producer.  A step that changes the last header leaves the sizes and *)
(* the other headers as they are.                                          *)
HeaderTypes ==
  \A i \in DOMAIN headers : \E n \in 1 .. MaxSize :
    /\ n = IF i = 1 THEN InitialSize ELSE 2 * Size(headers[i - 1])
    /\ headers[i] \in Header(n)

LEMMA HeaderSize ==
  ASSUME NEW n \in 1 .. MaxSize, NEW g \in Header(n)
  PROVE  Size(g) = n /\ DOMAIN g.entries = 0 .. n - 1
<1>1. n \in Nat \ {0} /\ DOMAIN g.entries = 0 .. n - 1
  BY Sizes DEF Header
<1>2. Cardinality(0 .. n - 1) = n
  BY <1>1, FS_Interval
<1> QED
  BY <1>1, <1>2 DEF Size

LEMMA HeaderTypesAre ==
  ASSUME TypeOK
  PROVE  HeaderTypes
<1> SUFFICES ASSUME NEW i \in DOMAIN headers
             PROVE  \E n \in 1 .. MaxSize :
                      /\ n = IF i = 1 THEN InitialSize ELSE 2 * Size(headers[i - 1])
                      /\ headers[i] \in Header(n)
  BY DEF HeaderTypes
<1> QED
  BY DEF TypeOK, Header

LEMMA LastChanges ==
  ASSUME Shape, HeaderTypes, headers # <<>>, NEW g \in Header(Size(blockIndex)),
         headers' = [headers EXCEPT ![Len(headers)] = g]
  PROVE  /\ Shape' /\ HeaderTypes' /\ headers' # <<>> /\ Len(headers') = Len(headers)
         /\ \A i \in 1 .. Len(headers) - 1 : headers'[i] = headers[i]
         /\ blockIndex' = g /\ Size(blockIndex') = Size(blockIndex)
         /\ pr_blockIndexSize' = pr_blockIndexSize
<1>1. PICK L \in Nat : /\ L = Len(headers) /\ L >= 1 /\ DOMAIN headers = 1 .. L
                       /\ headers \in Seq(UNION {Header(n) : n \in 1 .. MaxSize})
  BY DEF Shape
<1>2. /\ blockIndex = headers[L] /\ Size(blockIndex) \in 1 .. MaxSize
      /\ pr_blockIndexSize = Size(blockIndex)
  BY <1>1, LatestFacts
<1>3. Size(g) = Size(blockIndex)
  BY <1>2, HeaderSize
<1>4. /\ headers' \in Seq(UNION {Header(n) : n \in 1 .. MaxSize}) /\ Len(headers') = L
      /\ DOMAIN headers' = 1 .. L
      /\ headers'[L] = g /\ \A i \in 1 .. L : i # L => headers'[i] = headers[i]
  <2>1. g \in UNION {Header(n) : n \in 1 .. MaxSize}
    BY <1>2
  <2> QED
    BY <1>1, <2>1
<1>5. headers' # <<>>
  BY <1>1, <1>4
<1>6. blockIndex' = g /\ pr_blockIndexSize' = Size(g)
  BY <1>4, <1>5 DEF blockIndex, pr_blockIndexSize
<1>7. \A i \in 1 .. L : Size(headers'[i]) = Size(headers[i])
  BY <1>2, <1>3, <1>4
<1>8. Shape'
  BY <1>1, <1>4, <1>7 DEF Shape
<1>9. HeaderTypes'
  <2> SUFFICES ASSUME NEW i \in 1 .. L
               PROVE  \E n \in 1 .. MaxSize :
                        /\ n = IF i = 1 THEN InitialSize ELSE 2 * Size(headers'[i - 1])
                        /\ headers'[i] \in Header(n)
    BY <1>4 DEF HeaderTypes
  <2>1. PICK n \in 1 .. MaxSize :
          /\ n = IF i = 1 THEN InitialSize ELSE 2 * Size(headers[i - 1])
          /\ headers[i] \in Header(n)
    BY <1>1 DEF HeaderTypes
  <2>2. n = Size(headers[i])
    BY <2>1, HeaderSize
  <2>3. headers'[i] \in Header(n)
    BY <1>2, <1>4, <2>1, <2>2
  <2>4. i # 1 => Size(headers'[i - 1]) = Size(headers[i - 1])
    BY <1>1, <1>7
  <2> QED
    BY <2>1, <2>3, <2>4
<1> QED
  BY <1>1, <1>2, <1>3, <1>4, <1>5, <1>6, <1>8, <1>9

LEMMA EntryPut ==
  ASSUME Shape, HeaderTypes, headers # <<>>, NEW p \in 0 .. Size(blockIndex) - 1, NEW e \in Used,
         headers' = [headers EXCEPT ![Len(headers)].entries[p] = e]
  PROVE  /\ Shape' /\ HeaderTypes' /\ headers' # <<>> /\ Len(headers') = Len(headers)
         /\ \A i \in 1 .. Len(headers) - 1 : headers'[i] = headers[i]
         /\ Size(blockIndex') = Size(blockIndex) /\ pr_blockIndexSize' = pr_blockIndexSize
         /\ DOMAIN blockIndex'.entries = 0 .. Size(blockIndex) - 1
         /\ blockIndex'.entries[p] = e
         /\ \A q \in 0 .. Size(blockIndex) - 1 :
              q # p => blockIndex'.entries[q] = blockIndex.entries[q]
<1>1. PICK g, n : g = blockIndex /\ n = Size(blockIndex)
  OBVIOUS
<1>2. /\ n \in 1 .. MaxSize /\ g.entries \in [0 .. n - 1 -> Used \cup {Nothing}]
      /\ g = headers[Len(headers)] /\ Len(headers) \in 1 .. Len(headers)
  BY <1>1, LatestFacts
<1>3. g \in Header(n)
  BY <1>1, <1>2, HeaderFacts
<1>4. PICK d : d = [g.entries EXCEPT ![p] = e]
  OBVIOUS
<1>5. /\ d \in [0 .. n - 1 -> Used \cup {Nothing}] /\ d[p] = e
      /\ \A q \in 0 .. n - 1 : q # p => d[q] = g.entries[q]
  BY <1>1, <1>2, <1>4
<1>6. PICK g2 : g2 = [g EXCEPT !.entries = d]
  OBVIOUS
<1>7. g2 \in Header(n) /\ g2.entries = d
  BY <1>3, <1>5, <1>6 DEF Header
<1>8. headers' = [headers EXCEPT ![Len(headers)] = g2]
  BY <1>2, <1>4, <1>6
<1>9. /\ Shape' /\ HeaderTypes' /\ headers' # <<>> /\ Len(headers') = Len(headers)
      /\ \A i \in 1 .. Len(headers) - 1 : headers'[i] = headers[i]
      /\ blockIndex' = g2 /\ Size(blockIndex') = Size(blockIndex)
      /\ pr_blockIndexSize' = pr_blockIndexSize
  BY <1>1, <1>7, <1>8, LastChanges
<1>10. DOMAIN d = 0 .. n - 1
  BY <1>5
<1> QED
  BY <1>1, <1>5, <1>7, <1>9, <1>10

LEMMA FrontPut ==
  ASSUME Shape, HeaderTypes, headers # <<>>, NEW p \in 0 .. Size(blockIndex) - 1,
         headers' = [headers EXCEPT ![Len(headers)].front = p]
  PROVE  /\ Shape' /\ HeaderTypes' /\ headers' # <<>> /\ Len(headers') = Len(headers)
         /\ \A i \in 1 .. Len(headers) : headers'[i].entries = headers[i].entries
         /\ blockIndex'.entries = blockIndex.entries
         /\ Size(blockIndex') = Size(blockIndex) /\ pr_blockIndexSize' = pr_blockIndexSize
<1>1. PICK g, n : g = blockIndex /\ n = Size(blockIndex)
  OBVIOUS
<1>2. /\ n \in 1 .. MaxSize
      /\ g = headers[Len(headers)] /\ Len(headers) \in 1 .. Len(headers)
  BY <1>1, LatestFacts
<1>3. g \in Header(n)
  BY <1>1, <1>2, HeaderFacts
<1>4. PICK g2 : g2 = [g EXCEPT !.front = p]
  OBVIOUS
<1>5. g2 \in Header(n) /\ g2.entries = g.entries
  BY <1>1, <1>2, <1>3, <1>4 DEF Header
<1>6. headers' = [headers EXCEPT ![Len(headers)] = g2]
  BY <1>2, <1>4
<1>7. /\ Shape' /\ HeaderTypes' /\ headers' # <<>> /\ Len(headers') = Len(headers)
      /\ \A i \in 1 .. Len(headers) - 1 : headers'[i] = headers[i]
      /\ blockIndex' = g2 /\ Size(blockIndex') = Size(blockIndex)
      /\ pr_blockIndexSize' = pr_blockIndexSize
  BY <1>1, <1>5, <1>6, LastChanges
<1>8. \A i \in 1 .. Len(headers) : headers'[i].entries = headers[i].entries
  <2>1. headers'[Len(headers)].entries = headers[Len(headers)].entries
    BY <1>2, <1>5, <1>7 DEF blockIndex
  <2>2. \A i \in 1 .. Len(headers) : i = Len(headers) \/ i \in 1 .. Len(headers) - 1
    BY <1>2
  <2> QED
    BY <1>7, <2>1, <2>2
<1> QED
  BY <1>1, <1>5, <1>7, <1>8

(* The new index is one more header, of twice the size.                    *)
LEMMA NewOne ==
  ASSUME TypeOK, Shape, 2 * pr_blockIndexSize <= MaxSize, NEW e \in Int,
         e \in 0 .. pr_blockIndexSize, headers' = Append(headers, NewHeader(e)),
         slotsUsed = 0 \/ headers # <<>>
  PROVE  /\ Shape' /\ HeaderTypes' /\ headers' # <<>> /\ Len(headers') = Len(headers) + 1
         /\ \A i \in 1 .. Len(headers) : headers'[i] = headers[i]
         /\ blockIndex' = NewHeader(e) /\ Size(blockIndex') = 2 * pr_blockIndexSize
         /\ pr_blockIndexSize' = 2 * pr_blockIndexSize
         /\ DOMAIN blockIndex'.entries = 0 .. 2 * pr_blockIndexSize - 1
<1>1. PICK N \in Nat \ {0} : N = pr_blockIndexSize /\ N <= MaxSize
  BY SizeIs
<1>2. PICK M \in 1 .. MaxSize : M = 2 * N
  BY <1>1, Sizes
<1>3. PICK L \in Nat : L = Len(headers) /\ DOMAIN headers = 1 .. L
  BY DEF Shape
<1>4. NewHeader(e) \in Header(M)
  <2>1. e - 1 \in -1 .. M - 1
    BY <1>1, <1>2
  <2>2. ASSUME NEW i \in 0 .. M - 1
        PROVE  (IF i < slotsUsed THEN blockIndex.entries[Slot(front - slotsUsed + i)]
                ELSE Nothing) \in Used \cup {Nothing}
    <3>1. CASE ~(i < slotsUsed)
      BY <3>1
    <3>2. CASE i < slotsUsed
      <4>1. headers # <<>>
        BY <1>2, <3>2
      <4>2. /\ blockIndex.entries \in [0 .. N - 1 -> Used \cup {Nothing}]
            /\ pr_blockIndexSize = N
        BY <1>1, <4>1, LatestFacts
      <4>3. front \in Int /\ slotsUsed \in Int
        BY <1>1 DEF TypeOK
      <4>4. PICK x \in Int : x = front - slotsUsed + i
        BY <4>3
      <4>5. x % N \in 0 .. N - 1
        BY <1>1, CongMod
      <4> QED
        BY <1>1, <4>2, <4>4, <4>5 DEF Slot
    <3> QED
      BY <3>1, <3>2
  <2> QED
    BY <1>1, <1>2, <2>1, <2>2 DEF NewHeader, Header
<1>5. Size(NewHeader(e)) = M /\ DOMAIN NewHeader(e).entries = 0 .. M - 1
  BY <1>4, HeaderSize
<1>6. PICK g : g = NewHeader(e)
  OBVIOUS
<1>7. /\ headers' \in Seq(UNION {Header(n) : n \in 1 .. MaxSize}) /\ Len(headers') = L + 1
      /\ DOMAIN headers' = 1 .. L + 1
      /\ headers'[L + 1] = g /\ \A i \in 1 .. L : headers'[i] = headers[i]
  <2>1. g \in UNION {Header(n) : n \in 1 .. MaxSize}
    BY <1>4, <1>6
  <2>2. headers' = Append(headers, g)
    BY <1>6
  <2> QED
    BY <1>3, <2>1, <2>2 DEF Shape
<1>8. headers' # <<>>
  BY <1>3, <1>7
<1>9. blockIndex' = g /\ pr_blockIndexSize' = M
  BY <1>5, <1>6, <1>7, <1>8 DEF blockIndex, pr_blockIndexSize
<1>10. Divides(M, MaxSize)
  <2>1. CASE headers = <<>>
    <3>1. N = InitialSize \div 2
      BY <1>1, <2>1 DEF pr_blockIndexSize
    <3>2. M = InitialSize
      BY <1>2, <3>1, Kinds
    <3> QED
      BY <3>2, Kinds
  <2>2. CASE headers # <<>>
    <3>1. Divides(N, MaxSize)
      BY <1>1, <2>2, LatestFacts DEF Shape
    <3>2. MaxSize % N = 0
      <4>1. PICK k \in Int : MaxSize = N * k
        BY <3>1 DEF Divides
      <4>2. 0 \in 0 .. N - 1
        BY <1>1
      <4>3. (N * k + 0) % N = 0
        BY <1>1, <4>2, Remainder
      <4>4. N * k + 0 = N * k
        BY <1>1
      <4> QED
        BY <4>1, <4>3, <4>4
    <3>3. N \in 1 .. MaxSize \div 2
      BY <1>1, <1>2, Sizes
    <3>4. MaxSize % M = 0
      BY <1>2, <3>2, <3>3, SizesDivide
    <3>5. MaxSize \div M \in Int /\ MaxSize = M * (MaxSize \div M) + (MaxSize % M)
          /\ M * (MaxSize \div M) \in Int
      <4>1. M \in Nat \ {0} /\ MaxSize \in Int
        BY Sizes
      <4>2. MaxSize \div M \in Int /\ MaxSize = M * (MaxSize \div M) + (MaxSize % M)
        BY <4>1, DivMod
      <4>3. PICK z \in Int : z = MaxSize \div M
        BY <4>2
      <4>4. M * z \in Int
        BY <4>1
      <4> QED
        BY <4>2, <4>3, <4>4
    <3>6. MaxSize = M * (MaxSize \div M)
      BY <3>4, <3>5
    <3> QED
      BY <3>5, <3>6 DEF Divides
  <2> QED
    BY <2>1, <2>2
<1>11. Shape'
  <2> SUFFICES ASSUME NEW i \in 1 .. L + 1 PROVE Divides(Size(headers'[i]), MaxSize)
    BY <1>7 DEF Shape
  <2>1. CASE i = L + 1
    BY <1>5, <1>6, <1>7, <1>10, <2>1
  <2>2. CASE i # L + 1
    BY <1>3, <1>7, <2>2 DEF Shape
  <2> QED
    BY <2>1, <2>2
<1>12. HeaderTypes'
  <2> SUFFICES ASSUME NEW i \in 1 .. L + 1
               PROVE  \E n \in 1 .. MaxSize :
                        /\ n = IF i = 1 THEN InitialSize ELSE 2 * Size(headers'[i - 1])
                        /\ headers'[i] \in Header(n)
    BY <1>7 DEF HeaderTypes
  <2>1. CASE i # L + 1
    <3>1. i \in 1 .. L
      BY <1>3, <2>1
    <3>2. i # 1 => headers'[i - 1] = headers[i - 1]
      BY <1>3, <1>7, <3>1
    <3> QED
      BY <1>3, <1>7, <3>1, <3>2, HeaderTypesAre DEF HeaderTypes
  <2>2. CASE i = L + 1
    <3>1. i = 1 => M = InitialSize
      <4>1. i = 1 => headers = <<>>
        BY <1>3, <2>2 DEF Shape
      <4>2. headers = <<>> => N = InitialSize \div 2
        BY <1>1 DEF pr_blockIndexSize
      <4> QED
        BY <1>2, <4>1, <4>2, Kinds
    <3>2. i # 1 => M = 2 * Size(headers'[i - 1])
      <4> SUFFICES ASSUME i # 1 PROVE M = 2 * Size(headers'[i - 1])
        OBVIOUS
      <4>1. headers # <<>> /\ i - 1 = L /\ L \in 1 .. L
        BY <1>3, <2>2
      <4>2. N = Size(headers[L])
        BY <1>1, <1>3, <4>1, LatestFacts
      <4> QED
        BY <1>2, <1>7, <4>1, <4>2
    <3> QED
      BY <1>4, <1>6, <1>7, <2>2, <3>1, <3>2
  <2> QED
    BY <2>1, <2>2
<1> QED
  BY <1>1, <1>2, <1>3, <1>5, <1>6, <1>7, <1>8, <1>9, <1>11, <1>12

LEMMA ProducerTyped ==
  ASSUME TypeOK, UNCHANGED <<headIndex, consumerVars>>, HeaderTypes', DataTypes',
         Len(headers) \in Nat, Len(headers') \in Nat, Len(headers) <= Len(headers'),
         {tailIndex', cur'} \subseteq Index,
         {tailBlock', startBlock', firstAllocated'} \subseteq 1 .. allocated' \cup {Null},
         allocated' \in 0 .. MaxBlocks, next' \in [Blocks -> Blocks],
         {slotsUsed', originalUsed'} \subseteq 0 .. pr_blockIndexSize',
         {front', originalFront'} \subseteq 0 .. pr_blockIndexSize' - 1,
         step' \in {"idle", "ahead", "room", "grow", "block", "ready", "construct",
                    "entry", "front", "enter", "store", "place", "publish", "gone"},
         bulk' \in BOOLEAN, count' \in 0 .. MaxBulk, destroyed' \subseteq Blocks \X Offsets,
         sent' \in 0 .. MaxSent, excuses' \subseteq {"bulk", "single"}
  PROVE  TypeOK'
<1>1. PlaceTypes'
  <2>1. PlaceTypes
    BY TypeParts
  <2>2. \A k \in 0 .. Len(headers) : k \in 0 .. Len(headers')
    OBVIOUS
  <2>3. header' \in [Consumers -> 0 .. Len(headers')]
    BY <2>1, <2>2 DEF PlaceTypes, consumerVars
  <2> QED
    BY <2>1, <2>3 DEF PlaceTypes, consumerVars
<1>2. SideTypes'
  <2>1. \A i \in DOMAIN headers' : \E n \in 1 .. MaxSize :
          /\ n = IF i = 1 THEN InitialSize ELSE 2 * Size(headers'[i - 1])
          /\ headers'[i] \in [entries : [0 .. n - 1 -> Used \cup {Nothing}], front : -1 .. n - 1]
    BY DEF HeaderTypes, Header
  <2> QED
    BY <2>1 DEF SideTypes
<1>3. TypeOK' <=> SideTypes' /\ PlaceTypes' /\ DataTypes'
  BY DEF TypeOK, SideTypes, PlaceTypes, DataTypes
<1> QED
  BY <1>1, <1>2, <1>3

(* What the producer has to show for Types.                                *)
LEMMA TypesKept ==
  ASSUME Types, TypeOK', Shape', UNCHANGED consumerVars, Len(headers') >= Len(headers),
         step' # "gone", "bulk" \in excuses' => step' = "idle" /\ headers' # <<>>
  PROVE  Types'
<1>1. headers # <<>> => headers' # <<>>
  <2>1. Len(<<>>) = 0
    OBVIOUS
  <2>2. headers # <<>> => Len(headers) \in Nat /\ Len(headers) # 0
    BY DEF Types, Shape
  <2> QED
    BY <2>1, <2>2
<1> QED
  BY <1>1 DEF Types, Ended, consumerVars

(* What a step leaves of the types when it does not write there.           *)
LEMMA HeadersSame ==
  ASSUME TypeOK, Shape, UNCHANGED headers
  PROVE  /\ Shape' /\ HeaderTypes' /\ Len(headers) \in Nat /\ Len(headers') \in Nat
         /\ Len(headers) <= Len(headers') /\ blockIndex' = blockIndex
         /\ pr_blockIndexSize' = pr_blockIndexSize
<1>1. HeaderTypes /\ Len(headers) \in Nat
  BY HeaderTypesAre DEF Shape
<1> QED
  BY <1>1 DEF Shape, HeaderTypes, blockIndex, pr_blockIndexSize

LEMMA Simple ==
  ASSUME TypeOK
  PROVE  /\ {tailIndex, cur} \subseteq Index
         /\ {tailBlock, startBlock, firstAllocated} \subseteq 1 .. allocated \cup {Null}
         /\ allocated \in 0 .. MaxBlocks /\ next \in [Blocks -> Blocks]
         /\ {slotsUsed, originalUsed} \subseteq 0 .. pr_blockIndexSize
         /\ {front, originalFront} \subseteq 0 .. pr_blockIndexSize - 1
         /\ bulk \in BOOLEAN /\ count \in 0 .. MaxBulk /\ destroyed \subseteq Blocks \X Offsets
         /\ sent \in 0 .. MaxSent /\ excuses \subseteq {"bulk", "single"}
BY DEF TypeOK

--------------------------------------------------------------------------------
(* What a step of the producer leaves of the invariant.                    *)
LEMMA ClaimedKept ==
  ASSUME NEW t \in Int, NEW h \in Int, NEW f \in Firsts, Claimed(t, h, f),
         UNCHANGED <<headIndex, consumerVars>>, NEW t2 \in Int, h <= t2,
         t2 + Span' - h < IndexSize \div 2
  PROVE  Claimed(t2, h, f)'
BY DEF Claimed, consumerVars

(* No element that is not done with lies before block lo2; the entries of  *)
(* the blocks lo2 to hi stay.                                              *)
NotBefore(t, h, f, lo2) == \A x \in Int : Undone(t, h, f, x) => Num(x) >= lo2
Kept(B, lo, lo2, hi) ==
  \A i \in 1 .. Len(headers), n \in lo2 .. hi : \A p \in DOMAIN headers[i].entries :
    n >= lo /\ headers[i].entries[p] = EntryFor(B, n) =>
      p \in DOMAIN headers'[i].entries /\ headers'[i].entries[p] = EntryFor(B, n)

(* What the producer has to show for Elems, if no element changes.         *)
LEMMA ElemsKept ==
  ASSUME TypeOK, NEW t \in Int, NEW h \in Int, NEW f \in Firsts, NEW B \in Orders,
         NEW lo \in Int, NEW m \in Nat, Control(t, m), Elems(t, h, f, B, lo, m),
         UNCHANGED <<slot, emptyFlags, consumerVars>>, End(t)' = End(t),
         NEW B2 \in Orders, NEW lo2 \in Int, NEW m2 \in Nat,
         \A n \in lo .. Before(t) + m : B2[n] = B[n], lo <= lo2,
         NotBefore(t, h, f, lo2),
         Cleared' => (Cleared /\ m2 <= m) \/ m2 = 0
  PROVE  Elems(t, h, f, B2, lo2, m2)'
<1>1. Stored(t, h, f, B, lo) /\ NoOther(t, h, f, B) /\ Flags(t, h, f, B, lo, m)
  BY DEF Elems
<1>2. \A x : Undone(t, h, f, x)' <=> Undone(t, h, f, x)
  BY DEF Undone, InHand, consumerVars
<1>3. \A x \in Int : Undone(t, h, f, x) => B2[Num(x)] = B[Num(x)]
  BY <1>1, UndoneFacts
<1>4. Stored(t, h, f, B2, lo2)'
  BY <1>1, <1>2, <1>3 DEF Stored, NotBefore
<1>5. NoOther(t, h, f, B2)'
  BY <1>1, <1>2, <1>3 DEF NoOther
<1>6. Flags(t, h, f, B2, lo2, m2)'
  <2> SUFFICES ASSUME NEW n \in lo2 .. Before(t) + m2, n <= Before(t) \/ Cleared',
                      NEW k \in Offsets
               PROVE  k \in emptyFlags[B2[n]]
                        <=> Begins(n) + k < t /\ ~Undone(t, h, f, Begins(n) + k)
    BY <1>2 DEF Flags
  <2>1. Before(t) \in Int
    BY BeforeFacts
  <2>2. n \in lo .. Before(t) + m /\ (n <= Before(t) \/ Cleared)
    <3>1. CASE n <= Before(t)
      BY <2>1, <3>1
    <3>2. CASE ~(n <= Before(t))
      <4>1. (Cleared /\ m2 <= m) \/ m2 = 0
        BY <3>2
      <4>2. m2 # 0
        BY <2>1, <3>2
      <4> QED
        BY <2>1, <4>1, <4>2
    <3> QED
      BY <3>1, <3>2
  <2>3. B2[n] = B[n]
    BY <2>2
  <2> QED
    BY <1>1, <2>2, <2>3 DEF Flags
<1> QED
  BY <1>4, <1>5, <1>6 DEF Elems

(* What the producer has to show for Seen: no entry that is needed goes.   *)
LEMMA SeenKept ==
  ASSUME Types, NEW t \in Int, NEW h \in Int, NEW f \in Firsts, NEW B \in Orders,
         NEW lo \in Int, NEW m \in Nat, NEW o \in Int, Good(t, h, f, B, lo, m, o),
         UNCHANGED consumerVars, NEW B2 \in Orders, NEW lo2 \in Int,
         \A n \in lo .. Before(t) : B2[n] = B[n],
         NotBefore(t, h, f, lo2), Kept(B, lo, lo2, Before(t))
  PROVE  Seen(f, B2)'
<1> SUFFICES ASSUME NEW c \in Consumers PROVE SeenBy(f, B2, c)'
  BY DEF Seen
<1>1. /\ TypeOK /\ Shape /\ Control(t, m) /\ Claimed(t, h, f) /\ Stored(t, h, f, B, lo)
      /\ SeenBy(f, B, c) /\ (pc[c] \in {"front", "base", "block"} => header[c] # 0)
  BY DEF Good, Elems, Seen, Types
<1>2. pc'[c] = pc[c] /\ left'[c] = left[c] /\ header'[c] = header[c] /\ idx'[c] = idx[c]
  BY DEF consumerVars
<1>3. ASSUME NEW x \in f[c] .. f[c] + left[c] - 1
      PROVE  /\ Num(x) \in lo2 .. Before(t) /\ Num(x) >= lo /\ B2[Num(x)] = B[Num(x)]
             /\ EntryFor(B2, Num(x)) = EntryFor(B, Num(x))
  <2>1. x \in Int /\ InHand(f, c, x)
    BY <1>1, RunFacts
  <2>2. Undone(t, h, f, x) /\ lo <= Num(x) /\ Num(x) <= Before(t) /\ Num(x) \in Int
    BY <1>1, <2>1, InHandFacts
  <2>3. Num(x) \in lo .. Before(t) /\ Num(x) \in lo2 .. Before(t)
    BY <2>1, <2>2, BeforeFacts DEF NotBefore
  <2> QED
    BY <2>2, <2>3 DEF EntryFor
<1>4. ASSUME pc[c] \in {"front", "base", "block"}, NEW x \in f[c] .. f[c] + left[c] - 1
      PROVE  HasEntry(headers'[header[c]], B2, Num(x))
  <2>1. header[c] \in 1 .. Len(headers)
    BY <1>1, <1>4, EntryType
  <2>2. HasEntry(headers[header[c]], B, Num(x))
    BY <1>1, <1>4 DEF SeenBy
  <2> QED
    BY <1>3, <2>1, <2>2 DEF HasEntry, Kept
<1>5. ASSUME pc[c] = "block"
      PROVE  /\ idx[c] \in DOMAIN headers'[header[c]].entries
             /\ headers'[header[c]].entries[idx[c]] = EntryFor(B2, Num(f[c]))
  <2>1. header[c] \in 1 .. Len(headers)
    BY <1>1, <1>5, EntryType
  <2>2. headers[header[c]].entries[idx[c]] = EntryFor(B, Num(f[c]))
    BY <1>1, <1>5 DEF SeenBy, Entry
  <2>3. left[c] >= 1
    BY <1>1, <1>5 DEF Claimed
  <2>4. f[c] \in f[c] .. f[c] + left[c] - 1
    <3>1. PICK F \in Int, L \in Nat : F = f[c] /\ L = left[c]
      BY <1>1, RunFacts
    <3>2. F \in F .. F + L - 1
      BY <2>3, <3>1
    <3> QED
      BY <3>1, <3>2
  <2>5. PICK p \in DOMAIN headers[header[c]].entries :
          headers[header[c]].entries[p] = EntryFor(B, Num(f[c]))
    BY <1>1, <1>5, <2>4 DEF SeenBy, HasEntry
  <2>6. idx[c] \in DOMAIN headers[header[c]].entries
    BY <1>1, <1>5 DEF SeenBy
  <2> QED
    BY <1>3, <2>1, <2>2, <2>4, <2>6 DEF Kept
<1> QED
  BY <1>2, <1>4, <1>5 DEF SeenBy, Entry

--------------------------------------------------------------------------------
(* Facts that hold in every call.                                          *)
LEMMA AtLast ==
  ASSUME NEW t \in Int, tailIndex = Mod(t), NEW n \in 1 .. MaxBulk, NEW k \in Int,
         Before(t) <= k, k <= Num(t + n - 1)
  PROVE  Blk(k) = LastBase(n) <=> k = Num(t + n - 1)
<1>1. PICK x \in Int, d \in Int : x = t + n - 1 /\ d = n - 1 /\ x = t + d
  OBVIOUS
<1>2. LastBase(n) = Blk(Num(x))
  <2>1. Plus(tailIndex, d) = Mod(x)
    BY <1>1, ModFacts
  <2> QED
    BY <1>1, <2>1, BaseIs DEF LastBase
<1>3. ASSUME Blk(k) = Blk(Num(x)) PROVE k = Num(x)
  <2>1. PICK N \in Int : N = Num(x) /\ k <= N
    BY <1>1, PlaceIs
  <2>2. PICK bn \in Int, bk \in Int, bb \in Int, be \in Int :
          /\ bn = Begins(N) /\ bk = Begins(k) /\ bb = Begins(Before(t))
          /\ be = Begins(Before(t) + 1)
    <3>1. Before(t) \in Int /\ Before(t) + 1 \in Int
      BY BeforeFacts
    <3> QED
      BY <3>1, BeginsFacts
  <2>3. bn <= x
    BY <2>1, <2>2, PlaceIs
  <2>4. t <= be /\ be = bb + BlockSize
    BY <2>2, BeforeFacts
  <2>5. bk <= bn
    BY <2>1, <2>2, BeginsFacts
  <2>6. bb <= bk
    BY <2>2, BeforeFacts, BeginsFacts
  <2>7. /\ BlockSize \in Nat /\ BlockSize <= IndexSize \div 2 /\ IndexSize \div 2 \in Nat
        /\ 2 * (IndexSize \div 2) <= IndexSize /\ IndexSize \in Nat
        /\ MaxBulk \in Nat /\ MaxBulk < IndexSize \div 2 /\ n <= MaxBulk /\ n \in Nat
    BY Kinds, Sizes
  <2>8. PICK H \in Nat : H = IndexSize \div 2
    BY <2>7
  <2>9. bn - bk < IndexSize /\ bk - bn < IndexSize
    <3>1. bn - bk <= n - 1 + BlockSize
      BY ONLY <1>1, <2>3, <2>4, <2>6, <2>7, bn \in Int, bk \in Int, bb \in Int, be \in Int, t \in Int
    <3>2. n - 1 + BlockSize < IndexSize
      BY ONLY <2>7, <2>8
    <3>3. IndexSize > 0
      BY ONLY <2>7, <2>8
    <3> QED
      BY ONLY <2>5, <3>1, <3>2, <3>3, <2>7, bn \in Int, bk \in Int
  <2>10. BlockSize * N - BlockSize * k < IndexSize /\ BlockSize * k - BlockSize * N < IndexSize
    BY <2>2, <2>9 DEF Begins
  <2> QED
    BY <1>3, <2>1, <2>10, BlkSame
<1> QED
  BY <1>1, <1>2, <1>3

LEMMA GoodFacts ==
  ASSUME Types, NEW t \in Int, NEW h \in Int, NEW f \in Firsts, NEW B \in Orders,
         NEW lo \in Int, NEW m \in Nat, NEW o \in Int, Good(t, h, f, B, lo, m, o)
  PROVE  /\ TypeOK /\ Shape /\ HeaderTypes /\ DataTypes /\ Len(headers) \in Nat
         /\ Control(t, m) /\ Locals(t, B, lo, m) /\ Chain(t, B, lo, m) /\ IndexOK(t, B, lo, m, o)
         /\ Claimed(t, h, f) /\ Elems(t, h, f, B, lo, m) /\ Seen(f, B)
         /\ Stored(t, h, f, B, lo) /\ NoOther(t, h, f, B) /\ Flags(t, h, f, B, lo, m)
         /\ Before(t) \in Int /\ slotsUsed \in Nat /\ allocated \in Nat /\ count \in Nat
         /\ count <= MaxBulk
<1>1. TypeOK /\ Shape
  BY Zenon DEF Types
<1>2. /\ Control(t, m) /\ Locals(t, B, lo, m) /\ Chain(t, B, lo, m) /\ IndexOK(t, B, lo, m, o)
      /\ Claimed(t, h, f) /\ Elems(t, h, f, B, lo, m) /\ Seen(f, B)
  BY Zenon DEF Good
<1>3. Stored(t, h, f, B, lo) /\ NoOther(t, h, f, B) /\ Flags(t, h, f, B, lo, m)
  BY <1>2, Zenon DEF Elems
<1>4. HeaderTypes /\ DataTypes
  BY <1>1, HeaderTypesAre, TypeParts
<1>5. Len(headers) \in Nat
  BY <1>1 DEF Shape
<1>6. Before(t) \in Int
  BY BeforeFacts
<1>7. slotsUsed \in Nat /\ allocated \in Nat /\ count \in Nat /\ count <= MaxBulk
  BY <1>1, <1>2, CountFacts
<1> QED
  BY <1>1, <1>2, <1>3, <1>4, <1>5, <1>6, <1>7

LEMMA SingleCall ==
  ASSUME Types, NEW t \in Int, NEW m \in Nat, Control(t, m), ~bulk, InCall
  PROVE  /\ count = 1 /\ LastNum(t) = Num(t) /\ LastNum(t) <= Before(t) + 1 /\ m <= 1
         /\ step \in {"ahead", "room", "grow", "block"} => m = 0 /\ LastNum(t) = Before(t) + 1
<1>1. TypeOK /\ count = 1 /\ count \in Nat /\ count >= 1
  BY DEF Control, Types
<1>2. LastNum(t) = Num(t) /\ LastNum(t) <= Before(t) + 1 /\ LastNum(t) \in Int
  BY <1>1, LastFacts
<1>3. Before(t) \in Int /\ Before(t) + m <= LastNum(t)
  <2>1. Before(t) \in Int
    BY BeforeFacts
  <2>2. step \in {"ahead", "room", "grow", "block"} \/
        step \in {"ready", "construct", "entry", "front", "enter", "store", "place", "publish"}
    BY <1>1 DEF TypeOK, InCall
  <2> QED
    BY <1>2, <2>1, <2>2 DEF Control
<1>4. step \in {"ahead", "room", "grow", "block"} => Before(t) + m < LastNum(t)
  BY DEF Control
<1> QED
  BY <1>1, <1>2, <1>3, <1>4

(* Good numbers of the next state make the invariant.                      *)
LEMMA InvAgain ==
  ASSUME Types', NEW t \in Int, NEW h \in Int, NEW f \in Firsts, NEW B \in Orders,
         NEW lo \in Int, NEW m \in Nat, NEW o \in Int, Good(t, h, f, B, lo, m, o)'
  PROVE  Inv'
BY DEF Inv, Firsts, Orders

--------------------------------------------------------------------------------
(* The steps of the producer.                                              *)
LEMMA BeginTyped ==
  ASSUME Types, NEW isBulk \in BOOLEAN, NEW n \in 1 .. MaxBulk, Begin(isBulk, n)
  PROVE  TypeOK' /\ Shape' /\ Types'
<1>1. /\ UNCHANGED <<tailIndex, headIndex, tailBlock, next, allocated, emptyFlags, slot,
                     headers, slotsUsed, front, firstAllocated, consumerVars, destroyed, sent,
                     excuses>>
      /\ bulk' = isBulk /\ count' = n /\ startBlock' = tailBlock
      /\ cur' = Base(Minus(tailIndex, 1)) /\ originalFront' = front /\ originalUsed' = slotsUsed
      /\ step' \in {"construct", "ahead"} /\ "bulk" \notin excuses
  BY DEF Begin, ringVars, indexVars, endVars
<1>2. TypeOK /\ Shape
  BY DEF Types
<1>3. cur' \in Index
  <2>1. tailIndex \in Int
    BY <1>2, IndexIsInt DEF TypeOK
  <2>2. PICK y \in Int : y = tailIndex - 1
    BY <2>1
  <2>3. Minus(tailIndex, 1) = Mod(y)
    BY <2>2 DEF Minus, Mod
  <2>4. Base(Mod(y)) = Blk(Num(y)) /\ Num(y) \in Int
    BY BaseIs, PlaceIs
  <2> QED
    BY <1>1, <2>3, <2>4, BlkType
<1>4. /\ Shape' /\ HeaderTypes' /\ Len(headers) \in Nat /\ Len(headers') \in Nat
      /\ Len(headers) <= Len(headers') /\ pr_blockIndexSize' = pr_blockIndexSize
  BY <1>1, <1>2, HeadersSame
<1>5. DataTypes'
  BY <1>1, <1>2, DataStays
<1>6. /\ {tailIndex', cur'} \subseteq Index
      /\ {tailBlock', startBlock', firstAllocated'} \subseteq 1 .. allocated' \cup {Null}
      /\ allocated' \in 0 .. MaxBlocks /\ next' \in [Blocks -> Blocks]
      /\ {slotsUsed', originalUsed'} \subseteq 0 .. pr_blockIndexSize'
      /\ {front', originalFront'} \subseteq 0 .. pr_blockIndexSize' - 1
      /\ bulk' \in BOOLEAN /\ count' \in 0 .. MaxBulk /\ destroyed' \subseteq Blocks \X Offsets
      /\ sent' \in 0 .. MaxSent /\ excuses' \subseteq {"bulk", "single"}
  BY <1>1, <1>2, <1>3, <1>4, Simple
<1>7. TypeOK'
  BY <1>1, <1>2, <1>4, <1>5, <1>6, ProducerTyped
<1> QED
  BY <1>1, <1>4, <1>7, TypesKept

LEMMA BeginGood ==
  ASSUME Types, NEW t \in Int, NEW h \in Int, NEW f \in Firsts, NEW B \in Orders,
         NEW lo \in Int, NEW m \in Nat, NEW o \in Int, Good(t, h, f, B, lo, m, o),
         NEW isBulk \in BOOLEAN, NEW n \in 1 .. MaxBulk, Begin(isBulk, n), ~isBulk => n = 1
  PROVE  Good(t, h, f, B, lo, m, o)'
<1>1. /\ UNCHANGED <<tailIndex, headIndex, tailBlock, next, allocated, emptyFlags, slot,
                     headers, slotsUsed, front, firstAllocated, consumerVars, destroyed, sent,
                     excuses>>
      /\ bulk' = isBulk /\ count' = n /\ startBlock' = tailBlock
      /\ cur' = Base(Minus(tailIndex, 1)) /\ originalFront' = front /\ originalUsed' = slotsUsed
      /\ step = "idle" /\ step' = IF cur' = LastBase(n) THEN "construct" ELSE "ahead"
      /\ sent + n <= MaxSent /\ NotAncient
  BY DEF Begin, ringVars, indexVars, endVars
<1>2. /\ TypeOK /\ Shape /\ Control(t, m) /\ Chain(t, B, lo, m) /\ IndexOK(t, B, lo, m, o)
      /\ Claimed(t, h, f) /\ Elems(t, h, f, B, lo, m) /\ Before(t) \in Int
  BY GoodFacts
<1>3. m = 0 /\ firstAllocated = Null /\ tailIndex = Mod(t)
  BY <1>1, <1>2 DEF Control, InCall
<1>4. InCall' /\ ~Waiting /\ (Waiting' => ~isBulk) /\ ~InCall
  BY <1>1 DEF InCall, Waiting
<1>5. cur' = Blk(Before(t))
  <2>1. PICK y \in Int : y = t - 1
    OBVIOUS
  <2>2. Minus(tailIndex, 1) = Mod(y)
    BY <1>3, <2>1, ModFacts
  <2> QED
    BY <1>1, <2>1, <2>2, BaseIs DEF Before
<1>6. PICK x \in Int : x = t + n - 1 /\ t <= x
  OBVIOUS
<1>7. Before(t) <= Num(x) /\ Num(x) \in Int /\ LastNum(t)' = Num(x)
  <2>1. LastNum(t)' = Num(x)
    BY <1>1, <1>6 DEF LastNum
  <2> QED
    BY <1>6, <2>1, BeforeFacts, PlaceIs
<1>8. cur' = LastBase(n) <=> Before(t) = Num(x)
  BY <1>2, <1>3, <1>5, <1>6, <1>7, AtLast
<1>9. Control(t, m)'
  BY <1>1, <1>2, <1>3, <1>4, <1>5, <1>7, <1>8 DEF Control
<1>10. Locals(t, B, lo, m)'
  <2>1. lo <= Before(t) => tailBlock = B[Before(t)]
    BY <1>2, <1>3 DEF Chain
  <2>2. tailBlock = Null => excuses = {} /\ lo = Before(t) + 1
    <3> SUFFICES ASSUME tailBlock = Null PROVE excuses = {} /\ lo = Before(t) + 1
      OBVIOUS
    <3>1. allocated = 0 /\ excuses = {}
      BY <1>2 DEF Chain
    <3>2. slotsUsed = 0
      BY <1>2, <3>1 DEF Chain
    <3>3. lo = Before(t) + m - slotsUsed + 1
      BY <1>2, <3>1 DEF Chain
    <3> QED
      BY <1>2, <1>3, <3>1, <3>2, <3>3
  <2>3. slotsUsed <= slotsUsed /\ slotsUsed <= slotsUsed + 1
    <3>1. slotsUsed \in Nat
      BY GoodFacts
    <3> QED
      BY ONLY <3>1
  <2> QED
    BY <1>1, <1>3, <2>1, <2>2, <2>3 DEF Locals
<1>11. Chain(t, B, lo, m)'
  BY <1>1, <1>2 DEF Chain, Dead
<1>12. IndexOK(t, B, lo, m, o)'
  <2>1. Entered(t, m)' = Entered(t, m) /\ UsedThen' = UsedThen
    BY <1>1, <1>2, <1>3, <1>4 DEF Entered, UsedThen
  <2>2. blockIndex' = blockIndex
    BY <1>1, <1>2, HeadersSame
  <2> QED
    BY <1>1, <1>2, <2>1, <2>2 DEF IndexOK
<1>13. Claimed(t, h, f)'
  <2>1. Span' = n /\ Span = 0
    BY <1>1, <1>4 DEF Span
  <2>2. headIndex = Mod(h) /\ h <= t /\ t - h < IndexSize \div 2
    BY <1>2, <2>1 DEF Claimed
  <2>3. PICK H \in Nat : H = IndexSize \div 2 /\ 2 * H <= IndexSize /\ MaxBulk < H
    BY Kinds
  <2>4. PICK y \in Int, z \in Int : y = t + MaxBulk /\ z = y - h /\ z = t + MaxBulk - h
                                    /\ MaxBulk \in Nat
    BY Kinds
  <2>5. Minus(Plus(tailIndex, MaxBulk), headIndex) = Mod(z)
    <3>1. MaxBulk \in Int
      BY <2>4
    <3>2. Plus(tailIndex, MaxBulk) = Mod(y)
      BY <1>3, <2>4, <3>1, ModFacts
    <3> QED
      BY <2>2, <2>4, <3>2, ModFacts
  <2>6. z \in 0 .. IndexSize - 1
    <3>1. IndexSize \in Nat
      BY Sizes
    <3> QED
      BY ONLY <2>2, <2>3, <2>4, <3>1, t \in Int, h \in Int, z \in Int
  <2>7. Mod(z) = z
    BY <2>6, ModSmall
  <2>8. z < H
    BY <1>1, <2>3, <2>5, <2>7 DEF NotAncient
  <2>9. t + n - h < H
    <3>1. n <= MaxBulk /\ n \in Int
      BY <2>4
    <3> QED
      BY ONLY <2>4, <2>8, <3>1, t \in Int, h \in Int, z \in Int, H \in Nat
  <2> QED
    BY <1>1, <1>2, <2>1, <2>2, <2>3, <2>9, ClaimedKept
<1>14. Elems(t, h, f, B, lo, m)'
  <2>1. End(t)' = End(t)
    BY <1>1 DEF End
  <2>2. NotBefore(t, h, f, lo)
    BY GoodFacts DEF Stored, NotBefore
  <2> QED
    BY <1>1, <1>2, <1>3, <2>1, <2>2, ElemsKept
<1>15. Seen(f, B)'
  <2>1. NotBefore(t, h, f, lo)
    BY GoodFacts DEF Stored, NotBefore
  <2>2. Kept(B, lo, lo, Before(t)) /\ UNCHANGED consumerVars
    BY <1>1 DEF Kept
  <2>3. \A i \in lo .. Before(t) : B[i] = B[i]
    OBVIOUS
  <2> QED
    BY <2>1, <2>2, <2>3, SeenKept
<1> QED
  BY <1>9, <1>10, <1>11, <1>12, <1>13, <1>14, <1>15 DEF Good

(* A call begins: it has used no block, and saves what Undo restores.      *)
LEMMA BeginStep ==
  ASSUME Inv, NEW isBulk \in BOOLEAN, NEW n \in 1 .. MaxBulk, Begin(isBulk, n), ~isBulk => n = 1
  PROVE  Inv'
<1>1. Types /\ Types' /\ "bulk" \notin excuses
  BY BeginTyped DEF Inv, Begin
<1>2. PICK t \in Int, h \in Int, f \in Firsts, B \in Orders, lo \in Int, m \in Nat, o \in Int :
        Good(t, h, f, B, lo, m, o)
  BY <1>1 DEF Inv
<1>3. Good(t, h, f, B, lo, m, o)'
  BY <1>1, <1>2, BeginGood
<1> QED
  BY <1>1, <1>2, <1>3, InvAgain

(* A step that changes nothing but where the producer is.                  *)
LEMMA CheckRoomStep ==
  ASSUME Inv, CheckRoom
  PROVE  Inv'
<1>1. /\ UNCHANGED <<tailIndex, headIndex, tailBlock, next, allocated, emptyFlags, slot,
                     headers, slotsUsed, front, bulk, count, startBlock, cur, firstAllocated,
                     originalFront, originalUsed, consumerVars, destroyed, sent, excuses>>
      /\ step \in {"room", "ahead"} /\ step' \in {"grow", "block"}
      /\ step' = IF IndexFull THEN "grow" ELSE "block"
  BY DEF CheckRoom, ringVars, indexVars, callVars, localVars, restVars, endVars
<1>2. Types /\ TypeOK /\ Shape /\ "bulk" \notin excuses
  BY <1>1 DEF Inv, Types
<1>3. PICK t \in Int, h \in Int, f \in Firsts, B \in Orders, lo \in Int, m \in Nat, o \in Int :
        Good(t, h, f, B, lo, m, o)
  BY <1>2 DEF Inv
<1>4. /\ Control(t, m) /\ Locals(t, B, lo, m) /\ Chain(t, B, lo, m) /\ IndexOK(t, B, lo, m, o)
      /\ Claimed(t, h, f) /\ Elems(t, h, f, B, lo, m) /\ Stored(t, h, f, B, lo)
      /\ slotsUsed \in Nat
  BY <1>2, <1>3, GoodFacts
<1>5. /\ Shape' /\ HeaderTypes' /\ Len(headers) \in Nat /\ Len(headers') \in Nat
      /\ Len(headers) <= Len(headers') /\ pr_blockIndexSize' = pr_blockIndexSize
      /\ blockIndex' = blockIndex
  BY <1>1, <1>2, HeadersSame
<1>6. Types'
  <2>1. DataTypes'
    BY <1>1, <1>2, DataStays
  <2>2. /\ {tailIndex', cur'} \subseteq Index
        /\ {tailBlock', startBlock', firstAllocated'} \subseteq 1 .. allocated' \cup {Null}
        /\ allocated' \in 0 .. MaxBlocks /\ next' \in [Blocks -> Blocks]
        /\ {slotsUsed', originalUsed'} \subseteq 0 .. pr_blockIndexSize'
        /\ {front', originalFront'} \subseteq 0 .. pr_blockIndexSize' - 1
        /\ bulk' \in BOOLEAN /\ count' \in 0 .. MaxBulk /\ destroyed' \subseteq Blocks \X Offsets
        /\ sent' \in 0 .. MaxSent /\ excuses' \subseteq {"bulk", "single"}
    BY <1>1, <1>2, <1>5, Simple
  <2>3. TypeOK'
    BY <1>1, <1>2, <1>5, <2>1, <2>2, ProducerTyped
  <2> QED
    BY <1>1, <1>2, <1>5, <2>3, TypesKept
<1>7. /\ InCall /\ InCall' /\ ~Waiting /\ ~Waiting' /\ Cleared' = Cleared /\ End(t)' = End(t)
      /\ Span' = Span /\ Entered(t, m)' = Entered(t, m) /\ UsedThen' = UsedThen
      /\ LastNum(t)' = LastNum(t) /\ ~Cleared'
  BY <1>1 DEF InCall, Waiting, Cleared, End, Span, Entered, UsedThen, LastNum
<1>8. Control(t, m)'
  <2>1. step' = "block" => headers' # <<>> /\ slotsUsed' < pr_blockIndexSize'
    <3> SUFFICES ASSUME step' = "block" PROVE headers # <<>> /\ slotsUsed < pr_blockIndexSize
      BY <1>1, <1>5
    <3>1. ~IndexFull
      BY <1>1
    <3>2. headers # <<>> /\ slotsUsed # pr_blockIndexSize
      BY <3>1 DEF IndexFull
    <3>3. slotsUsed \in 0 .. pr_blockIndexSize /\ pr_blockIndexSize \in Nat
      BY <1>2, Simple, SizeIs
    <3> QED
      BY <3>2, <3>3
  <2> QED
    BY <1>1, <1>4, <1>7, <2>1 DEF Control
<1>9. Locals(t, B, lo, m)'
  BY <1>1, <1>4, <1>7 DEF Locals
<1>10. Chain(t, B, lo, m)'
  BY <1>1, <1>4 DEF Chain, Dead
<1>11. IndexOK(t, B, lo, m, o)'
  BY <1>1, <1>4, <1>5, <1>7 DEF IndexOK
<1>12. Claimed(t, h, f)'
  BY <1>1, <1>4, <1>7 DEF Claimed, consumerVars
<1>13. NotBefore(t, h, f, lo)
  BY <1>4 DEF Stored, NotBefore
<1>14. Elems(t, h, f, B, lo, m)'
  BY <1>1, <1>2, <1>4, <1>7, <1>13, ElemsKept
<1>15. Seen(f, B)'
  <2>1. NotBefore(t, h, f, lo) /\ Kept(B, lo, lo, Before(t)) /\ UNCHANGED consumerVars
    BY <1>1, <1>13 DEF Kept
  <2>2. \A n \in lo .. Before(t) : B[n] = B[n]
    OBVIOUS
  <2> QED
    BY <1>2, <1>3, <2>1, <2>2, SeenKept
<1>16. Good(t, h, f, B, lo, m, o)'
  BY <1>8, <1>9, <1>10, <1>11, <1>12, <1>14, <1>15 DEF Good
<1> QED
  BY <1>6, <1>16, InvAgain

(* The entries of the new index: those in use, oldest first.               *)
LEMMA NewHeaderIs ==
  ASSUME Shape, headers # <<>>, slotsUsed \in Nat, slotsUsed <= pr_blockIndexSize,
         NEW o \in Int, NEW p \in Int, front = (p + slotsUsed - o) % pr_blockIndexSize,
         NEW n \in Int, p <= n, n < p + slotsUsed
  PROVE  At(NewHeader(originalUsed), p, n) = At(blockIndex, o, n)
<1>1. PICK N \in Nat \ {0} : N = pr_blockIndexSize /\ N = Size(blockIndex)
  BY LatestFacts
<1>2. PICK s \in Nat : s = slotsUsed /\ s <= N
  BY <1>1
<1>3. PICK i \in Nat : i = n - p /\ i < s
  <2>1. n - p \in Nat /\ n - p < s
    BY <1>2
  <2> QED
    BY <2>1
<1>4. i % (2 * N) = i /\ i \in 0 .. 2 * N - 1
  BY <1>2, <1>3
<1>5. NewHeader(originalUsed).entries[i] = blockIndex.entries[(front - s + i) % N]
  BY <1>1, <1>2, <1>3, <1>4 DEF NewHeader, Slot
<1>6. (front - s + i) % N = (n - o) % N
  <2>1. PICK a \in Int, d \in Int : a = p + s - o /\ d = i - s
    BY <1>3
  <2>2. ((a % N) + d) % N = (a + d) % N
    BY <2>1, PlaceFrom
  <2>3. a % N \in Int /\ front = a % N
    <3>1. a % N \in 0 .. N - 1
      BY <2>1, PlaceFrom
    <3> QED
      BY <1>1, <1>2, <2>1, <3>1
  <2>4. front - s + i = (a % N) + d
    BY <1>3, <2>1, <2>3
  <2>5. a + d = n - o
    BY ONLY <1>3, <2>1, o \in Int, n \in Int, a \in Int, d \in Int, s \in Nat, p \in Int,
       i \in Nat
  <2> QED
    BY <2>2, <2>4, <2>5
<1>7. Size(NewHeader(originalUsed)) = 2 * N
  <2>1. DOMAIN NewHeader(originalUsed).entries = 0 .. 2 * N - 1
    BY <1>1 DEF NewHeader
  <2>2. Cardinality(0 .. 2 * N - 1) = 2 * N
    <3>1. PICK M \in Nat \ {0} : M = 2 * N
      BY <1>1
    <3>2. Cardinality(0 .. M - 1) = M
      BY <3>1, FS_Interval
    <3> QED
      BY <3>1, <3>2
  <2> QED
    BY <2>1, <2>2 DEF Size
<1>8. At(NewHeader(originalUsed), p, n) = NewHeader(originalUsed).entries[i]
  BY <1>3, <1>4, <1>7 DEF At
<1>9. At(blockIndex, o, n) = blockIndex.entries[(n - o) % N]
  BY <1>1 DEF At
<1> QED
  BY <1>5, <1>6, <1>8, <1>9

(* The new header has the entries of the old one, rotated to the start.    *)
LEMMA NewBlockIndexStep ==
  ASSUME Inv, NewBlockIndex
  PROVE  Inv'
<1>1. /\ UNCHANGED <<tailIndex, headIndex, tailBlock, next, allocated, emptyFlags, slot,
                     slotsUsed, bulk, count, startBlock, cur, firstAllocated,
                     originalUsed, consumerVars, destroyed, sent, excuses>>
      /\ step = "grow" /\ step' = "block" /\ 2 * pr_blockIndexSize <= MaxSize
      /\ headers' = Append(headers, NewHeader(originalUsed))
      /\ front' = slotsUsed /\ originalFront' = originalUsed
  BY DEF NewBlockIndex, ringVars, callVars, restVars, endVars
<1>2. Types /\ TypeOK /\ Shape /\ "bulk" \notin excuses
  BY <1>1 DEF Inv, Types
<1>3. PICK t \in Int, h \in Int, f \in Firsts, B \in Orders, lo \in Int, m \in Nat, o \in Int :
        Good(t, h, f, B, lo, m, o)
  BY <1>2 DEF Inv
<1>4. /\ Control(t, m) /\ Locals(t, B, lo, m) /\ Chain(t, B, lo, m) /\ IndexOK(t, B, lo, m, o)
      /\ Claimed(t, h, f) /\ Elems(t, h, f, B, lo, m) /\ Stored(t, h, f, B, lo)
      /\ slotsUsed \in Nat /\ Len(headers) \in Nat /\ Before(t) \in Int
  BY <1>2, <1>3, GoodFacts
<1>5. PICK N \in Nat \ {0} : N = pr_blockIndexSize
  BY <1>2, SizeIs
<1>6. originalUsed \in 0 .. N /\ slotsUsed \in 0 .. N /\ originalUsed \in Int
  BY <1>2, <1>5, Simple
<1>7. slotsUsed = 0 \/ headers # <<>>
  BY <1>4 DEF IndexOK
<1>8. /\ Shape' /\ HeaderTypes' /\ headers' # <<>> /\ Len(headers') = Len(headers) + 1
      /\ \A i \in 1 .. Len(headers) : headers'[i] = headers[i]
      /\ blockIndex' = NewHeader(originalUsed) /\ Size(blockIndex') = 2 * N
      /\ pr_blockIndexSize' = 2 * N
      /\ DOMAIN blockIndex'.entries = 0 .. 2 * N - 1
  BY <1>1, <1>2, <1>5, <1>6, <1>7, NewOne
<1>9. Types'
  <2>1. DataTypes'
    BY <1>1, <1>2, DataStays
  <2>2. /\ {tailIndex', cur'} \subseteq Index
        /\ {tailBlock', startBlock', firstAllocated'} \subseteq 1 .. allocated' \cup {Null}
        /\ allocated' \in 0 .. MaxBlocks /\ next' \in [Blocks -> Blocks]
        /\ bulk' \in BOOLEAN /\ count' \in 0 .. MaxBulk /\ destroyed' \subseteq Blocks \X Offsets
        /\ sent' \in 0 .. MaxSent /\ excuses' \subseteq {"bulk", "single"}
    BY <1>1, <1>2, Simple
  <2>3. /\ {slotsUsed', originalUsed'} \subseteq 0 .. pr_blockIndexSize'
        /\ {front', originalFront'} \subseteq 0 .. pr_blockIndexSize' - 1
    <3>1. \A x \in 0 .. N : x \in 0 .. 2 * N /\ x \in 0 .. 2 * N - 1
      OBVIOUS
    <3> QED
      BY <1>1, <1>6, <1>8, <3>1
  <2>4. Len(headers') \in Nat /\ Len(headers) <= Len(headers')
    BY <1>4, <1>8
  <2>5. TypeOK'
    BY <1>1, <1>2, <1>4, <1>8, <2>1, <2>2, <2>3, <2>4, ProducerTyped
  <2> QED
    BY <1>1, <1>2, <1>4, <1>8, <2>4, <2>5, TypesKept
<1>10. /\ InCall /\ InCall' /\ ~Waiting /\ ~Waiting' /\ Cleared' = Cleared /\ End(t)' = End(t)
       /\ Span' = Span /\ LastNum(t)' = LastNum(t) /\ ~Cleared'
  BY <1>1 DEF InCall, Waiting, Cleared, End, Span, LastNum
<1>11. PICK E \in Int, s \in Nat :
         /\ E = Before(t) + m /\ Entered(t, m) = E /\ Entered(t, m)' = E
         /\ s = slotsUsed /\ UsedThen = s /\ UsedThen' = s /\ s <= N
  BY <1>1, <1>4, <1>6, <1>10 DEF Entered, UsedThen
<1>12. PICK o2 \in Int : o2 = E + 1 - s
  BY <1>11
<1>13. Control(t, m)'
  <2>1. slotsUsed' < pr_blockIndexSize'
    BY <1>1, <1>5, <1>8, <1>11
  <2> QED
    BY <1>1, <1>4, <1>8, <1>10, <2>1 DEF Control
<1>14. Locals(t, B, lo, m)'
  BY <1>1, <1>4, <1>10 DEF Locals
<1>15. Chain(t, B, lo, m)'
  BY <1>1, <1>4 DEF Chain, Dead
<1>16. ASSUME headers # <<>>
       PROVE  /\ front = (E + 1 - o) % Size(blockIndex) /\ N = Size(blockIndex)
              /\ \A n \in E - s + 1 .. E : Listed(blockIndex, o, n)
              /\ \A n \in lo .. E : At(blockIndex, o, n).block = B[n]
              /\ Linear(blockIndex, o)
              /\ \A i \in 1 .. Len(headers) - 1 : \E k \in Int : Linear(headers[i], k)
  BY <1>2, <1>4, <1>5, <1>11, <1>16, LatestFacts DEF IndexOK
<1>17. ASSUME NEW n \in E - s + 1 .. E
       PROVE  /\ headers # <<>> /\ n \in Int
              /\ (n - o2) % (2 * N) = n - o2
              /\ At(blockIndex', o2, n) = At(blockIndex, o, n)
  <2>1. s # 0 /\ n \in Int /\ E - s + 1 <= n /\ n <= E
    BY <1>11
  <2>2. headers # <<>>
    BY <1>7, <1>11, <2>1
  <2>3. o2 <= n /\ n < o2 + s /\ (n - o2) % (2 * N) = n - o2
    <3>1. PICK i \in Nat : i = n - o2 /\ i < s
      <4>1. n - o2 \in Nat /\ n - o2 < s
        BY ONLY <1>12, <2>1, E \in Int, s \in Nat
      <4> QED
        BY <4>1
    <3>2. i % (2 * N) = i
      BY <1>11, <3>1
    <3> QED
      BY ONLY <3>1, <3>2, <2>1, o2 \in Int, s \in Nat, i \in Nat
  <2>4. /\ front = (o2 + s - o) % N /\ o2 + s = E + 1
    BY <1>11, <1>12, <1>16, <2>2
  <2>5. slotsUsed \in Nat /\ slotsUsed <= pr_blockIndexSize /\ n < o2 + slotsUsed
        /\ front = (o2 + slotsUsed - o) % pr_blockIndexSize
    BY <1>5, <1>11, <2>3, <2>4
  <2>6. At(NewHeader(originalUsed), o2, n) = At(blockIndex, o, n)
    BY <1>2, <2>1, <2>2, <2>3, <2>5, NewHeaderIs
  <2> QED
    BY <1>8, <2>1, <2>2, <2>3, <2>6
<1>18. lo >= E - s + 1
  BY <1>4, <1>11 DEF Chain
<1>19. IndexOK(t, B, lo, m, o2)'
  <2>1. front' = (E + 1 - o2) % Size(blockIndex')
    <3>1. E + 1 - o2 = s /\ s \in 0 .. 2 * N - 1 /\ 2 * N \in Nat
      BY <1>5, <1>11, <1>12
    <3>2. s % (2 * N) = s
      BY <3>1
    <3> QED
      BY <1>1, <1>8, <1>11, <3>1, <3>2
  <2>2. ASSUME NEW n \in E - s + 1 .. E PROVE Listed(blockIndex', o2, n)
    BY <1>16, <1>17 DEF Listed
  <2>3. ASSUME NEW n \in lo .. E PROVE At(blockIndex', o2, n).block = B[n]
    <3>1. n \in E - s + 1 .. E
      BY <1>11, <1>18
    <3> QED
      BY <1>16, <1>17, <3>1
  <2>4. Linear(blockIndex', o2)
    <3> SUFFICES ASSUME NEW p \in 0 .. 2 * N - 1, blockIndex'.entries[p] # Nothing
                 PROVE  \E n \in Int : blockIndex'.entries[p].b = Blk(n) /\ Cong(n, p + o2, 2 * N)
      BY <1>8 DEF Linear
    <3>1. p < s
      BY <1>1, <1>5, <1>8, <1>11 DEF NewHeader
    <3>2. PICK n \in Int : n = p + o2
      BY <1>12
    <3>3. n \in E - s + 1 .. E /\ n - o2 = p
      BY <1>11, <1>12, <3>1, <3>2
    <3>4. Listed(blockIndex', o2, n)
      BY <2>2, <3>3
    <3>5. At(blockIndex', o2, n) = blockIndex'.entries[p]
      BY <1>8, <1>17, <3>3 DEF At
    <3>6. Cong(n, p + o2, 2 * N)
      BY <3>2, CongSame
    <3> QED
      BY <3>4, <3>5, <3>6 DEF Listed
  <2>5. ASSUME NEW i \in 1 .. Len(headers') - 1 PROVE \E k \in Int : Linear(headers'[i], k)
    <3>1. i \in 1 .. Len(headers) /\ headers # <<>> /\ headers'[i] = headers[i]
      BY <1>4, <1>8
    <3>2. CASE i = Len(headers)
      BY <1>16, <3>1, <3>2 DEF blockIndex
    <3>3. CASE i # Len(headers)
      <4>1. i \in 1 .. Len(headers) - 1
        BY <1>4, <3>1, <3>3
      <4> QED
        BY <1>16, <3>1, <4>1
    <3> QED
      BY <3>2, <3>3
  <2> QED
    BY <1>8, <1>11, <2>1, <2>2, <2>3, <2>4, <2>5 DEF IndexOK
<1>20. Claimed(t, h, f)'
  BY <1>1, <1>4, <1>10 DEF Claimed, consumerVars
<1>21. NotBefore(t, h, f, lo)
  BY <1>4 DEF Stored, NotBefore
<1>22. Elems(t, h, f, B, lo, m)'
  BY <1>1, <1>2, <1>4, <1>10, <1>21, ElemsKept
<1>23. Seen(f, B)'
  <2>1. NotBefore(t, h, f, lo) /\ Kept(B, lo, lo, Before(t)) /\ UNCHANGED consumerVars
    BY <1>1, <1>8, <1>21 DEF Kept
  <2>2. \A n \in lo .. Before(t) : B[n] = B[n]
    OBVIOUS
  <2> QED
    BY <1>2, <1>3, <2>1, <2>2, SeenKept
<1>24. Good(t, h, f, B, lo, m, o2)'
  BY <1>13, <1>14, <1>15, <1>19, <1>20, <1>22, <1>23 DEF Good
<1> QED
  BY <1>9, <1>24, InvAgain

(* The entry of the next block, e, is written at the front.                *)
Enters(t, B, lo, m, B2, lo2, e) ==
  /\ e = Entered(t, m) + 1 /\ \A n \in lo .. e - 1 : B2[n] = B[n]
  /\ lo <= lo2 /\ e - lo2 < pr_blockIndexSize
  /\ headers' = [headers EXCEPT ![Len(headers)].entries[front] = EntryFor(B2, e)]
  /\ front' = Slot(front + 1)

(* An entry is written over one whose block is used again, or free.        *)
LEMMA EntryWritten ==
  ASSUME Types, NEW t \in Int, NEW h \in Int, NEW f \in Firsts, NEW B \in Orders,
         NEW lo \in Int, NEW m \in Nat, NEW o \in Int, Good(t, h, f, B, lo, m, o),
         headers # <<>>, NEW B2 \in Orders, NEW lo2 \in Int, NEW e \in Int,
         Enters(t, B, lo, m, B2, lo2, e)
  PROVE  /\ Shape' /\ HeaderTypes' /\ headers' # <<>> /\ Len(headers') = Len(headers)
         /\ pr_blockIndexSize' = pr_blockIndexSize /\ front' \in 0 .. pr_blockIndexSize - 1
         /\ front' = (e + 1 - o) % Size(blockIndex')
         /\ \A n \in e - UsedThen .. e :
              e - n < pr_blockIndexSize => Listed(blockIndex', o, n)
         /\ \A n \in lo2 .. e : At(blockIndex', o, n).block = B2[n]
         /\ Linear(blockIndex', o)
         /\ \A i \in 1 .. Len(headers') - 1 : \E k \in Int : Linear(headers'[i], k)
         /\ Kept(B, lo, lo2, Before(t))
<1>0. /\ e = Entered(t, m) + 1 /\ \A n \in lo .. e - 1 : B2[n] = B[n]
      /\ lo <= lo2 /\ e - lo2 < pr_blockIndexSize
      /\ headers' = [headers EXCEPT ![Len(headers)].entries[front] = EntryFor(B2, e)]
      /\ front' = Slot(front + 1)
  BY DEF Enters
<1>1. /\ Shape /\ HeaderTypes /\ IndexOK(t, B, lo, m, o) /\ Len(headers) \in Nat
      /\ TypeOK /\ Control(t, m) /\ Locals(t, B, lo, m) /\ Chain(t, B, lo, m)
  BY GoodFacts
<1>2. PICK N \in Nat \ {0}, g \in {blockIndex} : /\ N = pr_blockIndexSize /\ g = blockIndex /\ N = Size(g)
                                /\ DOMAIN g.entries = 0 .. N - 1
                                /\ g = headers[Len(headers)]
                                /\ Len(headers) \in 1 .. Len(headers)
  BY <1>1, LatestFacts
<1>3. PICK E \in Int, u \in Nat : /\ E = Entered(t, m) /\ e = E + 1 /\ u = UsedThen
                                  /\ Before(t) <= E /\ Before(t) \in Int
  <2>1. Entered(t, m) \in Int /\ UsedThen \in Nat /\ Before(t) <= Entered(t, m)
        /\ Before(t) \in Int
    BY <1>1, EnteredFacts
  <2> QED
    BY <1>0, <2>1
<1>4. /\ front = (e - o) % N
      /\ \A n \in E - u + 1 .. E : Listed(g, o, n)
      /\ \A n \in lo .. E : At(g, o, n).block = B[n]
      /\ Linear(g, o)
      /\ \A i \in 1 .. Len(headers) - 1 : \E k \in Int : Linear(headers[i], k)
  <2>1. /\ front = (Entered(t, m) + 1 - o) % Size(blockIndex)
        /\ \A n \in Entered(t, m) - UsedThen + 1 .. Entered(t, m) : Listed(blockIndex, o, n)
        /\ \A n \in lo .. Entered(t, m) : At(blockIndex, o, n).block = B[n]
        /\ Linear(blockIndex, o)
        /\ \A i \in 1 .. Len(headers) - 1 : \E k \in Int : Linear(headers[i], k)
    BY <1>1 DEF IndexOK
  <2>2. /\ front = (E + 1 - o) % N
        /\ \A n \in E - u + 1 .. E : Listed(g, o, n)
        /\ \A n \in lo .. E : At(g, o, n).block = B[n]
    BY <1>2, <1>3, <2>1
  <2>3. E + 1 = e
    BY <1>3
  <2>4. front = (e - o) % N
    BY <2>2, <2>3
  <2> QED
    BY <1>2, <2>1, <2>2, <2>4
<1>5. front \in 0 .. N - 1
  <2>1. PICK a \in Int : a = e - o
    OBVIOUS
  <2> QED
    BY <1>4, <2>1, CongMod
<1>6. EntryFor(B2, e) \in Used /\ EntryFor(B2, e) # Nothing /\ EntryFor(B2, e).b = Blk(e)
      /\ EntryFor(B2, e).block = B2[e]
  BY EntryForIs
<1>7. /\ Shape' /\ HeaderTypes' /\ headers' # <<>> /\ Len(headers') = Len(headers)
      /\ \A i \in 1 .. Len(headers) - 1 : headers'[i] = headers[i]
      /\ Size(blockIndex') = N /\ pr_blockIndexSize' = pr_blockIndexSize
      /\ DOMAIN blockIndex'.entries = 0 .. N - 1
      /\ blockIndex'.entries[front] = EntryFor(B2, e)
      /\ \A q \in 0 .. N - 1 : q # front => blockIndex'.entries[q] = g.entries[q]
  <2>1. PICK p \in 0 .. N - 1, en \in Used : p = front /\ en = EntryFor(B2, e)
    BY <1>5, <1>6
  <2>2. headers' = [headers EXCEPT ![Len(headers)].entries[p] = en]
    BY <1>0, <2>1
  <2>3. p \in 0 .. Size(blockIndex) - 1
    BY <1>2
  <2>4. /\ Shape' /\ HeaderTypes' /\ headers' # <<>> /\ Len(headers') = Len(headers)
        /\ \A i \in 1 .. Len(headers) - 1 : headers'[i] = headers[i]
        /\ Size(blockIndex') = Size(blockIndex) /\ pr_blockIndexSize' = pr_blockIndexSize
        /\ DOMAIN blockIndex'.entries = 0 .. Size(blockIndex) - 1
        /\ blockIndex'.entries[p] = en
        /\ \A q \in 0 .. Size(blockIndex) - 1 :
             q # p => blockIndex'.entries[q] = blockIndex.entries[q]
    BY <1>1, <2>2, <2>3, EntryPut
  <2> QED
    BY <1>2, <2>1, <2>4
<1>8. front' = (e + 1 - o) % N /\ front' \in 0 .. N - 1
  <2>1. PICK a \in Int : a = e - o /\ e + 1 - o = a + 1
    OBVIOUS
  <2>2. 1 \in Int
    OBVIOUS
  <2>3. ((a % N) + 1) % N = (a + 1) % N
    BY <2>1, <2>2, PlaceFrom
  <2>4. PICK d \in Int : d = a + 1
    OBVIOUS
  <2>5. d % N \in 0 .. N - 1
    BY CongMod
  <2> QED
    BY <1>0, <1>2, <1>4, <2>1, <2>3, <2>4, <2>5 DEF Slot
<1>9. ASSUME NEW n \in Int, n < e, e - n < N
      PROVE  (n - o) % N # front /\ (n - o) % N \in 0 .. N - 1
             /\ At(blockIndex', o, n) = At(g, o, n)
  <2>1. (n - o) % N \in 0 .. N - 1
    <3>1. PICK a \in Int : a = n - o
      OBVIOUS
    <3> QED
      BY <3>1, CongMod
  <2>2. (n - o) % N # front
    <3> SUFFICES ASSUME (n - o) % N = (e - o) % N PROVE FALSE
      BY <1>4
    <3>1. n - e < N /\ e - n < N
      BY <1>9
    <3>2. n = e
      BY <3>1, PlacesApart
    <3> QED
      BY <1>9, <3>2
  <2> QED
    BY <1>2, <1>7, <2>1, <2>2 DEF At
<1>10. At(blockIndex', o, e) = EntryFor(B2, e)
  BY <1>4, <1>7 DEF At
<1>11. ASSUME NEW n \in e - u .. e, e - n < N PROVE Listed(blockIndex', o, n)
  <2>1. CASE n = e
    BY <1>6, <1>10, <2>1 DEF Listed
  <2>2. CASE n # e
    <3>1. n \in E - u + 1 .. E /\ n < e /\ n \in Int
      BY <1>3, <2>2
    <3>2. Listed(g, o, n)
      BY <1>4, <3>1
    <3>3. At(blockIndex', o, n) = At(g, o, n)
      BY <1>9, <1>11, <3>1
    <3> QED
      BY <3>2, <3>3 DEF Listed
  <2> QED
    BY <2>1, <2>2
<1>12. ASSUME NEW n \in lo2 .. e PROVE At(blockIndex', o, n).block = B2[n]
  <2>1. CASE n = e
    BY <1>6, <1>10, <2>1
  <2>2. CASE n # e
    <3>1. n \in lo .. E /\ n \in lo .. e - 1 /\ n < e /\ n \in Int /\ e - n < N
      <4>1. PICK l \in Int, k \in Int : l = lo /\ k = lo2 /\ l <= k /\ e - k < N /\ n \in k .. e
        BY <1>0, <1>2
      <4>2. n \in l .. E /\ n \in l .. e - 1 /\ n < e /\ n \in Int /\ e - n < N
        <5>1. e = E + 1 /\ E \in Int
          BY <1>3
        <5> QED
          BY ONLY <4>1, <5>1, <2>2, e \in Int, N \in Nat \ {0}
      <4> QED
        BY <4>1, <4>2
    <3>2. At(g, o, n).block = B[n] /\ B2[n] = B[n]
      BY <1>0, <1>4, <3>1
    <3>3. At(blockIndex', o, n) = At(g, o, n)
      BY <1>9, <3>1
    <3> QED
      BY <3>2, <3>3
  <2> QED
    BY <2>1, <2>2
<1>13. Linear(blockIndex', o)
  <2> SUFFICES ASSUME NEW p \in 0 .. N - 1, blockIndex'.entries[p] # Nothing
               PROVE  \E n \in Int : blockIndex'.entries[p].b = Blk(n) /\ Cong(n, p + o, N)
    BY <1>7 DEF Linear
  <2>1. CASE p = front
    <3>1. PICK a \in Int, pp \in Int : a = e - o /\ pp = p /\ a + o = e
      OBVIOUS
    <3>2. Cong(pp, a, N)
      BY <1>4, <2>1, <3>1, CongMod
    <3>3. N \in Int /\ Cong(a, pp, N)
      <4>1. N \in Int
        OBVIOUS
      <4> QED
        BY <3>2, <4>1, CongTurn
    <3>4. Cong(a + o, pp + o, N)
      BY <3>3, CongSame, CongSum
    <3>5. Cong(e, p + o, N)
      BY <3>1, <3>4
    <3> QED
      BY <1>6, <1>7, <2>1, <3>5
  <2>2. CASE p # front
    <3>1. blockIndex'.entries[p] = g.entries[p] /\ g.entries[p] # Nothing
          /\ p \in DOMAIN g.entries
      BY <1>2, <1>7, <2>2
    <3>2. PICK n \in Int : g.entries[p].b = Blk(n) /\ Cong(n, p + o, Size(g))
      BY <1>4, <3>1 DEF Linear
    <3> QED
      BY <1>2, <3>1, <3>2
  <2> QED
    BY <2>1, <2>2
<1>14. ASSUME NEW i \in 1 .. Len(headers') - 1 PROVE \E k \in Int : Linear(headers'[i], k)
  BY <1>4, <1>7
<1>15. Kept(B, lo, lo2, Before(t))
  <2> SUFFICES ASSUME NEW i \in 1 .. Len(headers), NEW n \in lo2 .. Before(t),
                      NEW p \in DOMAIN headers[i].entries, headers[i].entries[p] = EntryFor(B, n)
               PROVE  p \in DOMAIN headers'[i].entries /\ headers'[i].entries[p] = EntryFor(B, n)
    BY DEF Kept
  <2>1. CASE i # Len(headers)
    <3>1. i \in 1 .. Len(headers) - 1
      BY <1>1, <2>1
    <3> QED
      BY <1>7, <3>1
  <2>2. CASE i = Len(headers)
    <3>1. n \in Int /\ n < e /\ e - n < N
      <4>1. PICK k \in Int, b \in Int : k = lo2 /\ b = Before(t) /\ e - k < N /\ n \in k .. b /\ b <= E
        BY <1>0, <1>2, <1>3
      <4>2. e = E + 1 /\ E \in Int
        BY <1>3
      <4> QED
        BY ONLY <4>1, <4>2, e \in Int, N \in Nat \ {0}
    <3>2. g.entries[p] = EntryFor(B, n) /\ p \in 0 .. N - 1
      BY <1>2, <2>2
    <3>3. p = (n - o) % N
      <4>1. g.entries[p] # Nothing /\ g.entries[p].b = Blk(n)
        BY <3>1, <3>2, EntryForIs
      <4>2. Linear(headers[i], o) /\ headers[i].entries[p] # Nothing /\ headers[i].entries[p].b = Blk(n)
        BY <1>2, <1>4, <2>2, <4>1
      <4>3. p = (n - o) % Size(headers[i])
        BY <1>1, <3>1, <4>2, PlaceOf
      <4> QED
        BY <1>2, <2>2, <4>3
    <3>4. p # front
      BY <1>9, <3>1, <3>3
    <3>5. blockIndex' = headers'[Len(headers)]
      BY <1>7 DEF blockIndex
    <3> QED
      BY <1>7, <2>2, <3>2, <3>4, <3>5
  <2> QED
    BY <2>1, <2>2
<1> QED
  BY <1>0, <1>2, <1>3, <1>7, <1>8, <1>11, <1>12, <1>13, <1>14, <1>15

(* The call takes the block b: what TakeAhead and RequisitionBlock share.  *)
Takes(t, B, lo, m, B2, lo2, e) ==
  /\ e = Before(t) + m + 1 /\ \A n \in Int : n # e => B2[n] = B[n]
  /\ lo <= lo2 /\ e - lo2 < pr_blockIndexSize
  /\ Use(B2[e]) /\ B2[e] \in 1 .. allocated'

(* A block gets the next number, and has lost the one it had.              *)
LEMMA UseStep ==
  ASSUME Types, NEW t \in Int, NEW h \in Int, NEW f \in Firsts, NEW B \in Orders,
         NEW lo \in Int, NEW m \in Nat, NEW o \in Int, Good(t, h, f, B, lo, m, o),
         step \in {"ahead", "block"}, headers # <<>>, "bulk" \notin excuses,
         NEW B2 \in Orders, NEW lo2 \in Int, NEW e \in Int, Takes(t, B, lo, m, B2, lo2, e),
         NotBefore(t, h, f, lo2),
         UNCHANGED <<emptyFlags, originalFront, originalUsed, restVars>>,
         step' \in {"ready", "ahead", "room"}, step' = "ready" <=> cur' = LastBase(count),
         allocated <= allocated', allocated' \in 0 .. MaxBlocks,
         next' \in [Blocks -> Blocks],
         slotsUsed' \in slotsUsed .. slotsUsed + 1, slotsUsed' <= pr_blockIndexSize
  PROVE  /\ Types' /\ Control(t, m + 1)' /\ IndexOK(t, B2, lo2, m + 1, o)'
         /\ Claimed(t, h, f)' /\ Elems(t, h, f, B2, lo2, m + 1)' /\ Seen(f, B2)'
         /\ ~bulk => m = 0 /\ step' = "ready"
         /\ InCall /\ InCall' /\ ~Waiting /\ ~Cleared'
<1> DEFINE b == B2[e]
<1>0. /\ e = Before(t) + m + 1 /\ \A n \in Int : n # e => B2[n] = B[n]
      /\ lo <= lo2 /\ e - lo2 < pr_blockIndexSize
      /\ Use(b) /\ b \in 1 .. allocated' /\ b \in Blocks
  BY DEF Takes, Orders
<1> USE <1>0
<1> HIDE DEF b
<1>1. /\ TypeOK /\ Shape /\ HeaderTypes /\ DataTypes /\ Len(headers) \in Nat
      /\ Control(t, m) /\ Locals(t, B, lo, m) /\ Chain(t, B, lo, m) /\ IndexOK(t, B, lo, m, o)
      /\ Claimed(t, h, f) /\ Elems(t, h, f, B, lo, m) /\ Seen(f, B)
      /\ Before(t) \in Int /\ slotsUsed \in Nat /\ allocated \in Nat /\ count \in Nat
      /\ count <= MaxBulk
  BY GoodFacts
<1>2. InCall /\ ~Waiting /\ ~Cleared /\ Entered(t, m) = e - 1 /\ UsedThen = slotsUsed
  BY <1>1 DEF InCall, Waiting, Cleared, Entered, UsedThen
<1>3. /\ tailIndex = Mod(t) /\ count >= 1 /\ sent + count <= MaxSent /\ cur = Blk(e - 1)
      /\ (~bulk => count = 1) /\ e - 1 < LastNum(t)
  <2>0. PICK p \in Int : p = Before(t) /\ e = p + m + 1
    BY <1>1
  <2>1. e - 1 = Before(t) + m
    BY ONLY <2>0, m \in Nat, e \in Int
  <2>2. /\ tailIndex = Mod(t) /\ count >= 1 /\ sent + count <= MaxSent
        /\ cur = Blk(Before(t) + m) /\ (~bulk => count = 1) /\ Before(t) + m < LastNum(t)
    BY <1>1, <1>2 DEF Control
  <2> QED
    BY <2>1, <2>2
<1>4. /\ tailBlock' = b /\ cur' = Plus(cur, BlockSize)
      /\ firstAllocated' = (IF firstAllocated = Null THEN b ELSE firstAllocated)
      /\ bulk => /\ headers' = [headers EXCEPT ![Len(headers)].entries[front] =
                                  [b |-> cur', block |-> b]]
                 /\ front' = Slot(front + 1)
      /\ ~bulk => UNCHANGED <<headers, front>>
  BY DEF Use
<1>5. /\ UNCHANGED <<tailIndex, headIndex, slot, bulk, count, startBlock, pc, first, left, header,
                     idx, destroyed, sent, excuses>>
      /\ UNCHANGED consumerVars
  BY DEF restVars, callVars, consumerVars, endVars
<1>6. cur' = Blk(e)
  <2>1. PICK k \in Int : k = e - 1 /\ k + 1 = e
    OBVIOUS
  <2> QED
    BY <1>3, <1>4, <2>1, BlkSteps
<1>7. /\ step' = "ready" <=> e = LastNum(t)
      /\ e <= LastNum(t) /\ LastNum(t) \in Int
  <2>1. LastNum(t) \in Int
    BY <1>1, <1>3, LastFacts
  <2>2. PICK n \in 1 .. MaxBulk : n = count
    BY <1>1, <1>3
  <2>3. Before(t) <= e /\ e <= LastNum(t) /\ LastNum(t) = Num(t + n - 1)
    <3>1. PICK p \in Int, l \in Int : p = Before(t) /\ l = LastNum(t) /\ e = p + m + 1 /\ e - 1 < l
      BY <1>1, <1>3, <2>1
    <3>2. p <= e /\ e <= l
      BY ONLY <3>1, m \in Nat, e \in Int
    <3> QED
      BY <2>2, <3>1, <3>2 DEF LastNum
  <2>4. Blk(e) = LastBase(n) <=> e = Num(t + n - 1)
    BY <1>3, <2>3, AtLast
  <2> QED
    BY <1>3, <1>6, <2>1, <2>2, <2>3, <2>4 DEF LastNum
<1>8. step' \in {"ready", "ahead", "room"} /\ InCall' /\ ~Cleared'
  BY DEF InCall, Cleared
<1>9. ~bulk => m = 0 /\ step' = "ready"
  <2> SUFFICES ASSUME ~bulk PROVE m = 0 /\ step' = "ready"
    OBVIOUS
  <2>1. m = 0 /\ LastNum(t) = Before(t) + 1
    BY <1>1, <1>2, SingleCall
  <2>2. e = LastNum(t)
    BY <1>1, <2>1
  <2> QED
    BY <1>7, <2>1, <2>2
<1>10. Control(t, m + 1)'
  <2>1. m + 1 \in Nat /\ Before(t) + (m + 1) = e /\ m + 1 >= 1
    BY <1>1
  <2>2. LastNum(t)' = LastNum(t)
    BY <1>5 DEF LastNum
  <2> QED
    BY <1>3, <1>5, <1>6, <1>7, <1>8, <2>1, <2>2 DEF Control
<1>11. Span' = Span /\ End(t)' = t /\ End(t) = t
  BY <1>2, <1>5, <1>8 DEF Span, End
<1>12. /\ Shape' /\ HeaderTypes' /\ headers' # <<>> /\ Len(headers') = Len(headers)
       /\ pr_blockIndexSize' = pr_blockIndexSize /\ front' \in 0 .. pr_blockIndexSize' - 1
       /\ Kept(B, lo, lo2, Before(t)) /\ IndexOK(t, B2, lo2, m + 1, o)'
  <2>1. CASE bulk
    <3>1. headers' = [headers EXCEPT ![Len(headers)].entries[front] = EntryFor(B2, e)]
      BY <1>4, <1>6, <2>1 DEF EntryFor, b
    <3>2. /\ front' = Slot(front + 1) /\ e = Entered(t, m) + 1
          /\ \A n \in lo .. e - 1 : B2[n] = B[n]
      <4>1. \A n \in lo .. e - 1 : n \in Int /\ n # e
        OBVIOUS
      <4>2. e = (e - 1) + 1
        OBVIOUS
      <4> QED
        BY <1>2, <1>4, <2>1, <4>1, <4>2
    <3>3. /\ Shape' /\ HeaderTypes' /\ headers' # <<>> /\ Len(headers') = Len(headers)
          /\ pr_blockIndexSize' = pr_blockIndexSize /\ front' \in 0 .. pr_blockIndexSize - 1
          /\ front' = (e + 1 - o) % Size(blockIndex')
          /\ \A n \in e - UsedThen .. e :
               e - n < pr_blockIndexSize => Listed(blockIndex', o, n)
          /\ \A n \in lo2 .. e : At(blockIndex', o, n).block = B2[n]
          /\ Linear(blockIndex', o)
          /\ \A i \in 1 .. Len(headers') - 1 : \E k \in Int : Linear(headers'[i], k)
          /\ Kept(B, lo, lo2, Before(t))
      <4>1. Enters(t, B, lo, m, B2, lo2, e)
        BY <3>1, <3>2 DEF Enters
      <4> QED
        BY ONLY <4>1, EntryWritten, Types, Good(t, h, f, B, lo, m, o), headers # <<>>, f \in Firsts,
                B \in Orders, B2 \in Orders, t \in Int, h \in Int, lo \in Int, m \in Nat, o \in Int,
                lo2 \in Int, e \in Int
    <3>4. Entered(t, m + 1)' = e /\ UsedThen' = slotsUsed'
      BY <1>1, <1>5, <2>1 DEF Entered, UsedThen, Waiting
    <3>5. \A n \in e - slotsUsed' + 1 .. e : Listed(blockIndex', o, n)
      <4> TAKE n \in e - slotsUsed' + 1 .. e
      <4>0. PICK u \in Nat, v \in Nat, z \in Nat : u = UsedThen /\ v = slotsUsed' /\ z = pr_blockIndexSize
                                                 /\ v <= u + 1 /\ v <= z
        <5>1. PICK u \in Nat, z \in Nat : u = slotsUsed /\ z = pr_blockIndexSize
          BY <1>1, SizeIs
        <5>2. PICK v \in Nat : v = slotsUsed' /\ v <= u + 1 /\ v <= z
          BY <5>1
        <5> QED
          BY <1>2, <5>1, <5>2
      <4>4. n \in e - u .. e /\ e - n < z
        <5>1. n \in e - v + 1 .. e
          BY <4>0
        <5>2. v <= u + 1 /\ v <= z
          BY <4>0
        <5> QED
          BY ONLY <5>1, <5>2, u \in Nat, v \in Nat, z \in Nat, e \in Int
      <4>1. n \in e - UsedThen .. e
        BY <4>0, <4>4
      <4>3. e - n < pr_blockIndexSize
        BY <4>0, <4>4
      <4> QED
        BY <3>3, <4>1, <4>3
    <3> QED
      BY <3>3, <3>4, <3>5 DEF IndexOK
  <2>2. CASE ~bulk
    <3>1. m = 0 /\ step' = "ready"
      BY <1>9, <2>2
    <3>2. Waiting' /\ Entered(t, m + 1)' = Before(t) /\ Entered(t, m) = Before(t)
      BY <1>1, <1>2, <1>5, <2>2, <3>1 DEF Waiting, Entered
    <3>3. UsedThen' = UsedThen
      BY <1>1, <1>2, <3>1, <3>2 DEF UsedThen, Locals
    <3>4. /\ Shape' /\ HeaderTypes' /\ Len(headers') = Len(headers) /\ blockIndex' = blockIndex
          /\ pr_blockIndexSize' = pr_blockIndexSize
      BY <1>1, <1>4, <2>2, HeadersSame
    <3>5. /\ front = (Entered(t, m) + 1 - o) % Size(blockIndex)
          /\ \A n \in Entered(t, m) - UsedThen + 1 .. Entered(t, m) : Listed(blockIndex, o, n)
          /\ \A n \in lo .. Entered(t, m) : At(blockIndex, o, n).block = B[n]
          /\ Linear(blockIndex, o)
          /\ \A i \in 1 .. Len(headers) - 1 : \E k \in Int : Linear(headers[i], k)
      BY <1>1 DEF IndexOK
    <3>6. \A n \in lo2 .. Before(t) : At(blockIndex, o, n).block = B2[n]
      <4> TAKE n \in lo2 .. Before(t)
      <4>1. PICK p \in Int : p = Before(t) /\ e = p + m + 1
        BY <1>1
      <4>2. n \in lo .. p /\ n \in Int /\ n # e
        <5>1. n \in lo2 .. p
          BY <4>1
        <5> QED
          BY ONLY <4>1, <5>1, lo <= lo2, lo \in Int, lo2 \in Int, p \in Int, m \in Nat, e \in Int
      <4>3. At(blockIndex, o, n).block = B[n] /\ B2[n] = B[n]
        BY <3>2, <3>5, <4>1, <4>2
      <4> QED
        BY <4>3
    <3>7. IndexOK(t, B2, lo2, m + 1, o)'
      BY <1>4, <2>2, <3>2, <3>3, <3>4, <3>5, <3>6 DEF IndexOK
    <3>8. front' \in 0 .. pr_blockIndexSize' - 1
      BY <1>1, <1>4, <2>2, <3>4, Simple
    <3>9. Kept(B, lo, lo2, Before(t))
      BY <1>4, <2>2 DEF Kept
    <3> QED
      BY <1>4, <2>2, <3>4, <3>7, <3>8, <3>9
  <2> QED
    BY <2>1, <2>2
<1>13. Claimed(t, h, f)'
  <2>1. h <= t /\ t + Span' - h < IndexSize \div 2
    BY <1>1, <1>11 DEF Claimed
  <2> QED
    BY <1>1, <1>5, <2>1, ClaimedKept
<1>14. Elems(t, h, f, B2, lo2, m + 1)'
  <2>1. \A n \in lo .. Before(t) + m : B2[n] = B[n]
    BY <1>1
  <2>2. m + 1 \in Nat /\ End(t)' = End(t)
    BY <1>11
  <2> QED
    BY <1>1, <1>5, <1>8, <2>1, <2>2, ElemsKept
<1>15. Seen(f, B2)'
  <2>1. \A n \in lo .. Before(t) : B2[n] = B[n]
    BY <1>1
  <2> QED
    BY <1>5, <1>12, <2>1, SeenKept
<1>16. TypeOK'
  <2>1. /\ {tailIndex, cur} \subseteq Index
        /\ {tailBlock, startBlock, firstAllocated} \subseteq 1 .. allocated \cup {Null}
        /\ {slotsUsed, originalUsed} \subseteq 0 .. pr_blockIndexSize
        /\ {front, originalFront} \subseteq 0 .. pr_blockIndexSize - 1
        /\ bulk \in BOOLEAN /\ count \in 0 .. MaxBulk /\ destroyed \subseteq Blocks \X Offsets
        /\ sent \in 0 .. MaxSent /\ excuses \subseteq {"bulk", "single"}
    BY <1>1, Simple
  <2>2. DataTypes'
    BY <1>1, <1>5, DataStays
  <2>3. {tailIndex', cur'} \subseteq Index
    BY <1>5, <1>6, <2>1, BlkType
  <2>4. {tailBlock', startBlock', firstAllocated'} \subseteq 1 .. allocated' \cup {Null}
    <3>1. \A x \in 1 .. allocated : x \in 1 .. allocated'
      BY <1>1
    <3> QED
      BY <1>4, <1>5, <2>1, <3>1
  <2>5. {slotsUsed', originalUsed'} \subseteq 0 .. pr_blockIndexSize'
    <3>1. slotsUsed' \in 0 .. pr_blockIndexSize
      BY <1>1
    <3> QED
      BY <1>12, <2>1, <3>1
  <2>6. {front', originalFront'} \subseteq 0 .. pr_blockIndexSize' - 1
    BY <1>12, <2>1
  <2>7. Len(headers') \in Nat /\ Len(headers) <= Len(headers')
    BY <1>1, <1>12
  <2>8. UNCHANGED <<headIndex, consumerVars>>
    BY <1>5
  <2>9. step' \in {"idle", "ahead", "room", "grow", "block", "ready", "construct",
                    "entry", "front", "enter", "store", "place", "publish", "gone"}
    BY <1>8
  <2>10. /\ bulk' \in BOOLEAN /\ count' \in 0 .. MaxBulk /\ destroyed' \subseteq Blocks \X Offsets
         /\ sent' \in 0 .. MaxSent /\ excuses' \subseteq {"bulk", "single"}
    BY <1>5, <2>1
  <2> QED
    BY <1>1, <1>12, <2>2, <2>3, <2>4, <2>5, <2>6, <2>7, <2>8, <2>9, <2>10, ProducerTyped
<1>17. Types'
  BY <1>1, <1>5, <1>8, <1>12, <1>16, TypesKept
<1> QED
  BY <1>2, <1>8, <1>9, <1>10, <1>12, <1>13, <1>14, <1>15, <1>17 DEF Takes

(* The ring has no dead block in it: the block after the tail is the one   *)
(* that has been in use longest.                                           *)
LEMMA AheadIs ==
  ASSUME Types, NEW t \in Int, NEW h \in Int, NEW f \in Firsts, NEW B \in Orders,
         NEW lo \in Int, NEW m \in Nat, NEW o \in Int, Good(t, h, f, B, lo, m, o),
         InCall, Ahead
  PROVE  /\ excuses = {} /\ lo <= Before(t) + m /\ lo <= Before(t) /\ next[tailBlock] = B[lo]
         /\ lo = Before(t) + m - slotsUsed + 1 /\ slotsUsed = allocated
         /\ headers # <<>> /\ NotBefore(t, h, f, lo + 1)
         /\ ~AtBase(t) => lo + 1 <= Before(t)
<1>1. /\ TypeOK /\ Locals(t, B, lo, m) /\ Chain(t, B, lo, m) /\ IndexOK(t, B, lo, m, o)
      /\ Stored(t, h, f, B, lo) /\ Flags(t, h, f, B, lo, m)
  BY GoodFacts
<1>2. PICK p \in Int, u \in Nat, a \in Nat :
        /\ p = Before(t) /\ u = slotsUsed /\ a = allocated
  BY GoodFacts
<1>3. /\ tailBlock # Null /\ next[tailBlock] # firstAllocated
      /\ emptyFlags[next[tailBlock]] = Offsets
  BY DEF Ahead
<1>4. excuses = {} /\ a # 0
  BY <1>1, <1>2, <1>3 DEF Chain, Dead
<1>5. lo = p + m - u + 1 /\ u = a /\ (lo <= p + m => next[B[p + m]] = B[lo])
      /\ (lo <= p + m => tailBlock = B[p + m]) /\ lo <= p + 1
  BY <1>1, <1>2, <1>4 DEF Chain
<1>6. lo <= p + m
  BY <1>4, <1>5
<1>7. next[tailBlock] = B[lo]
  BY <1>5, <1>6
<1>8. lo <= p
  <2> SUFFICES ASSUME lo = p + 1 PROVE FALSE
    BY <1>5
  <2>1. m >= 1
    BY <1>6
  <2>2. firstAllocated = B[p + 1]
    BY <1>1, <1>2, <2>1 DEF Locals
  <2> QED
    BY <1>3, <1>7, <2>2
<1>9. headers # <<>>
  BY <1>1, <1>2, <1>4 DEF IndexOK
<1>10. \A k \in Offsets : Begins(lo) + k < t /\ ~Undone(t, h, f, Begins(lo) + k)
  <2>1. lo \in lo .. p + m
    BY <1>6
  <2>2. \A k \in Offsets : k \in emptyFlags[B[lo]] <=>
          Begins(lo) + k < t /\ ~Undone(t, h, f, Begins(lo) + k)
    BY <1>1, <1>2, <1>8, <2>1 DEF Flags
  <2> QED
    BY <1>3, <1>7, <2>2
<1>11. NotBefore(t, h, f, lo + 1)
  <2> SUFFICES ASSUME NEW x \in Int, Undone(t, h, f, x) PROVE Num(x) >= lo + 1
    BY DEF NotBefore
  <2>1. Num(x) \in Int /\ Num(x) >= lo
    BY <1>1, NumIs DEF Stored
  <2>2. Num(x) # lo
    <3> SUFFICES ASSUME Num(x) = lo PROVE FALSE
      OBVIOUS
    <3>1. x % BlockSize \in Offsets /\ x = Begins(lo) + (x % BlockSize)
      BY PlaceIs
    <3> QED
      BY <1>10, <3>1
  <2> QED
    BY <2>1, <2>2
<1>12. ASSUME ~AtBase(t) PROVE lo + 1 <= p
  <2> SUFFICES ASSUME lo = p PROVE FALSE
    BY <1>8
  <2>1. /\ Begins(p) \in Int /\ Begins(p) <= t - 1 /\ t < Begins(p) + BlockSize
    BY <1>2, <1>12, AtBaseIs, BeforeFacts
  <2>2. PICK k \in Int : k = t - Begins(p) /\ Begins(p) + k = t /\ 0 <= k /\ k <= BlockSize - 1
    BY <2>1, Sizes
  <2>3. k \in Offsets
    BY <2>2, Sizes DEF Offsets
  <2> QED
    BY <1>10, <2>2, <2>3
<1> QED
  BY <1>2, <1>4, <1>5, <1>6, <1>7, <1>8, <1>9, <1>11, <1>12

(* The block ahead is the oldest, and nothing in it is undone.             *)
LEMMA TakeAheadStep ==
  ASSUME Inv, TakeAhead
  PROVE  Inv'
<1>1. /\ step = "ahead" /\ Ahead /\ Use(next[tailBlock])
      /\ step' = IF cur' = LastBase(count) THEN "ready" ELSE "ahead"
      /\ UNCHANGED <<next, allocated, emptyFlags, slotsUsed, originalFront, originalUsed, restVars>>
  BY DEF TakeAhead
<1>2. Types /\ TypeOK /\ "bulk" \notin excuses /\ InCall
  BY <1>1 DEF Inv, Types, InCall
<1>3. PICK t \in Int, h \in Int, f \in Firsts, B \in Orders, lo \in Int, m \in Nat, o \in Int :
        Good(t, h, f, B, lo, m, o)
  BY <1>2 DEF Inv
<1>4. /\ excuses = {} /\ lo <= Before(t) + m /\ lo <= Before(t) /\ next[tailBlock] = B[lo]
      /\ lo = Before(t) + m - slotsUsed + 1 /\ slotsUsed = allocated
      /\ headers # <<>> /\ NotBefore(t, h, f, lo + 1)
      /\ ~AtBase(t) => lo + 1 <= Before(t)
  BY <1>1, <1>2, <1>3, AheadIs
<1>5. PICK p \in Int, u \in Nat, hi \in Int, e \in Int :
        /\ p = Before(t) /\ u = slotsUsed /\ hi = p + m /\ e = hi + 1
        /\ lo <= hi /\ lo <= p /\ lo = hi - u + 1 /\ p <= hi
        /\ ~AtBase(t) => lo + 1 <= p
  <2>1. PICK p \in Int, u \in Nat : p = Before(t) /\ u = slotsUsed
    BY <1>2, <1>3, GoodFacts
  <2>2. lo <= p + m /\ lo <= p /\ lo = p + m - u + 1 /\ (~AtBase(t) => lo + 1 <= p)
    BY <1>4, <2>1
  <2>3. PICK hi \in Int, e \in Int : hi = p + m /\ e = hi + 1 /\ p <= hi
    OBVIOUS
  <2> QED
    BY <2>1, <2>2, <2>3
<1>6. /\ Locals(t, B, lo, m) /\ Chain(t, B, lo, m) /\ B[lo] \in 1 .. allocated /\ allocated \in Nat
      /\ allocated \in 0 .. MaxBlocks /\ next \in [Blocks -> Blocks]
      /\ slotsUsed <= pr_blockIndexSize /\ pr_blockIndexSize \in Nat
  <2>1. Locals(t, B, lo, m) /\ Chain(t, B, lo, m) /\ Shape /\ allocated \in Nat
        /\ allocated \in 0 .. MaxBlocks /\ next \in [Blocks -> Blocks] /\ Control(t, m)
    BY <1>2, <1>3, GoodFacts, Simple
  <2>2. lo \in lo .. hi
    BY <1>5
  <2>3. B[lo] \in 1 .. allocated
    BY <1>5, <2>1, <2>2 DEF Chain
  <2>4. pr_blockIndexSize \in Nat /\ slotsUsed <= pr_blockIndexSize
    BY <1>2, <2>1, SizeIs, CountFacts
  <2> QED
    BY <2>1, <2>3, <2>4
<1>7. PICK B2 \in Orders : B2[e] = B[lo] /\ \A n \in Int : n # e => B2[n] = B[n]
  <2>1. [B EXCEPT ![e] = B[lo]] \in Orders
    BY <1>5 DEF Orders
  <2> QED
    BY <1>5, <2>1 DEF Orders
<1>8. PICK lo2 \in Int : lo2 = lo + 1 /\ lo2 <= p + 1 /\ lo <= lo2 /\ e - lo2 < pr_blockIndexSize
  BY <1>5, <1>6
<1>9. Takes(t, B, lo, m, B2, lo2, e)
  <2>1. e = Before(t) + m + 1
    BY <1>5
  <2>2. Use(B2[e]) /\ B2[e] \in 1 .. allocated'
    BY <1>1, <1>4, <1>6, <1>7
  <2> QED
    BY <1>7, <1>8, <2>1, <2>2 DEF Takes
<1>10. /\ Types' /\ Control(t, m + 1)' /\ IndexOK(t, B2, lo2, m + 1, o)'
       /\ Claimed(t, h, f)' /\ Elems(t, h, f, B2, lo2, m + 1)' /\ Seen(f, B2)'
       /\ ~bulk => m = 0 /\ step' = "ready"
       /\ InCall' /\ ~Waiting /\ ~Cleared'
  <2>1. step \in {"ahead", "block"} /\ step' \in {"ready", "ahead", "room"}
        /\ (step' = "ready" <=> cur' = LastBase(count))
    BY <1>1
  <2>2. UNCHANGED <<emptyFlags, originalFront, originalUsed, restVars>>
        /\ allocated <= allocated' /\ allocated' \in 0 .. MaxBlocks /\ next' \in [Blocks -> Blocks]
        /\ slotsUsed' \in slotsUsed .. slotsUsed + 1 /\ slotsUsed' <= pr_blockIndexSize
    BY <1>1, <1>5, <1>6
  <2>3. NotBefore(t, h, f, lo2)
    BY <1>4, <1>8
  <2> QED
    BY <1>2, <1>3, <1>4, <1>9, <2>1, <2>2, <2>3, UseStep
<1>11. /\ tailBlock' = B[lo]
       /\ firstAllocated' = (IF firstAllocated = Null THEN B[lo] ELSE firstAllocated)
       /\ (~bulk => front' = front) /\ bulk' = bulk /\ startBlock' = startBlock
       /\ excuses' = excuses
  BY <1>1, <1>4 DEF Use, restVars, callVars, endVars
<1>12. B[lo] # Null
  BY <1>3, Kinds DEF Orders
<1>13. Locals(t, B2, lo2, m + 1)'
  <2>1. /\ m = 0 <=> firstAllocated = Null
        /\ m >= 1 => firstAllocated = B[p + 1]
        /\ originalUsed <= slotsUsed
        /\ m = 0 => slotsUsed = originalUsed /\ front = originalFront /\ tailBlock = startBlock
        /\ ~bulk => slotsUsed <= originalUsed + 1
        /\ startBlock = B[p] /\ startBlock # Null
    <3>1. lo # p + 1
      BY <1>5
    <3>2. /\ m = 0 <=> firstAllocated = Null
          /\ m >= 1 => firstAllocated = B[p + 1]
          /\ originalUsed <= slotsUsed
          /\ m = 0 => slotsUsed = originalUsed /\ front = originalFront /\ tailBlock = startBlock
          /\ ~bulk => slotsUsed <= originalUsed + 1
          /\ lo <= p => startBlock = B[p]
      BY <1>2, <1>5, <1>6 DEF Locals
    <3>3. B[p] # Null
      BY <1>3, Kinds DEF Orders
    <3> QED
      BY <1>5, <3>2, <3>3
  <2>2. m + 1 # 0 /\ firstAllocated' # Null
    BY <1>11, <1>12, <2>1
  <2>3. firstAllocated' = B2[p + 1]
    <3>1. CASE m = 0
      BY <1>5, <1>7, <1>11, <2>1, <3>1
    <3>2. CASE m # 0
      <4>1. p + 1 # e /\ p + 1 \in Int /\ m >= 1
        BY <1>5, <3>2
      <4> QED
        BY <1>7, <1>11, <2>1, <3>2, <4>1
    <3> QED
      BY <3>1, <3>2
  <2>4. originalUsed' <= slotsUsed' /\ (~bulk' => slotsUsed' <= originalUsed' + 1)
    BY <1>1, <1>11, <2>1
  <2>5. Waiting' => front' = originalFront'
    BY <1>1, <1>10, <1>11, <2>1 DEF Waiting
  <2>6. startBlock' = B2[p] /\ startBlock' # Null
    <3>1. p # e
      BY <1>5
    <3> QED
      BY <1>7, <1>11, <2>1, <3>1
  <2>7. ~bulk' /\ m + 1 = 1 => next'[startBlock'] = firstAllocated'
    BY <1>1, <1>4, <1>11, <2>1
  <2> QED
    BY <1>5, <2>2, <2>3, <2>4, <2>5, <2>6, <2>7 DEF Locals
<1>14. Chain(t, B2, lo2, m + 1)'
  <2>1. /\ slotsUsed = allocated
        /\ \A n \in lo .. hi : B[n] \in 1 .. allocated
        /\ \A n, k \in lo .. hi : B[n] = B[k] => n = k
        /\ \A n \in lo .. hi - 1 : next[B[n]] = B[n + 1]
        /\ tailBlock = B[hi] /\ next[B[hi]] = B[lo]
        /\ \A b \in 1 .. allocated : next[b] \in 1 .. allocated
    BY <1>4, <1>5, <1>6 DEF Chain
  <2>2. /\ p + (m + 1) = e /\ lo2 <= p + 1 /\ (~AtBase(t) => lo2 <= p)
        /\ e - lo2 + 1 <= u /\ lo2 = e - u + 1 /\ lo2 <= e
    BY <1>5, <1>8
  <2>3. \A n \in lo2 .. e : n \in Int /\ (n # e => n \in lo .. hi /\ n # lo)
    BY <1>5, <1>8
  <2>4. \A n \in lo2 .. e : B2[n] \in 1 .. allocated
    BY <1>6, <1>7, <2>1, <2>3
  <2>5. ASSUME NEW n \in lo2 .. e, NEW k \in lo2 .. e, B2[n] = B2[k] PROVE n = k
    <3>0. lo \in lo .. hi
      BY <1>5
    <3>1. CASE n = e
      BY <1>7, <2>1, <2>3, <2>5, <3>0, <3>1
    <3>2. CASE k = e
      BY <1>7, <2>1, <2>3, <2>5, <3>0, <3>2
    <3>3. CASE n # e /\ k # e
      BY <1>7, <2>1, <2>3, <2>5, <3>3
    <3> QED
      BY <3>1, <3>2, <3>3
  <2>6. ASSUME NEW n \in lo2 .. e - 1 PROVE next[B2[n]] = B2[n + 1]
    <3>1. n \in Int /\ n \in lo .. hi /\ n # e /\ n + 1 \in Int
      BY <1>5, <1>8
    <3>2. CASE n = hi
      BY <1>5, <1>7, <2>1, <3>1, <3>2
    <3>3. CASE n # hi
      <4>1. n \in lo .. hi - 1 /\ n + 1 # e
        BY <1>5, <3>1, <3>3
      <4> QED
        BY <1>7, <2>1, <3>1, <4>1
    <3> QED
      BY <3>2, <3>3
  <2>7. next[B2[e]] = B2[lo2]
    <3>1. CASE lo = hi
      <4>1. lo2 = e
        BY <1>5, <1>8, <3>1
      <4> QED
        BY <1>7, <2>1, <3>1, <4>1
    <3>2. CASE lo # hi
      <4>1. lo \in lo .. hi - 1 /\ lo + 1 # e /\ lo + 1 \in Int
        BY <1>5, <3>2
      <4>2. next[B[lo]] = B[lo + 1]
        BY <2>1, <4>1
      <4> QED
        BY <1>7, <1>8, <4>1, <4>2
    <3> QED
      BY <3>1, <3>2
  <2>8. tailBlock' = B2[e] /\ tailBlock' # Null /\ allocated # 0
    <3>1. allocated # 0
      BY <1>5, <2>1
    <3> QED
      BY <1>7, <1>11, <1>12, <3>1
  <2>9. UNCHANGED <<next, allocated, slotsUsed, excuses>> /\ excuses = {}
    BY <1>1, <1>4, <1>11
  <2>10. e - lo2 + 1 <= slotsUsed /\ lo2 = e - slotsUsed + 1 /\ slotsUsed <= allocated
    BY <1>5, <2>1, <2>2
  <2> QED
    BY <1>5, <2>1, <2>2, <2>4, <2>5, <2>6, <2>7, <2>8, <2>9, <2>10 DEF Chain
<1>15. Good(t, h, f, B2, lo2, m + 1, o)'
  BY <1>10, <1>13, <1>14 DEF Good
<1> QED
  BY <1>10, <1>15, InvAgain

(* A new block is put between the tail and the block after it.             *)
LEMMA RequisitionStep ==
  ASSUME Inv, RequisitionBlock
  PROVE  Inv'
<1>1. PICK b \in Blocks :
        /\ b = allocated + 1 /\ step = "block" /\ allocated' = b
        /\ next' = (IF tailBlock = Null THEN [next EXCEPT ![b] = b]
                    ELSE [next EXCEPT ![b] = next[tailBlock], ![tailBlock] = b])
        /\ slotsUsed' = slotsUsed + 1 /\ Use(b)
        /\ step' = (IF cur' = LastBase(count) THEN "ready" ELSE "room")
        /\ UNCHANGED <<emptyFlags, originalFront, originalUsed, restVars>>
  BY DEF RequisitionBlock
<1>2. Types /\ TypeOK /\ "bulk" \notin excuses /\ InCall
  BY <1>1 DEF Inv, Types, InCall
<1>3. PICK t \in Int, h \in Int, f \in Firsts, B \in Orders, lo \in Int, m \in Nat, o \in Int :
        Good(t, h, f, B, lo, m, o)
  BY <1>2 DEF Inv
<1>4. /\ Control(t, m) /\ Locals(t, B, lo, m) /\ Chain(t, B, lo, m) /\ Stored(t, h, f, B, lo)
      /\ Shape /\ allocated \in Nat /\ slotsUsed \in Nat /\ Before(t) \in Int
      /\ next \in [Blocks -> Blocks] /\ pr_blockIndexSize \in Nat
      /\ tailBlock \in 1 .. allocated \cup {Null}
  <2>1. /\ Control(t, m) /\ Locals(t, B, lo, m) /\ Chain(t, B, lo, m) /\ Stored(t, h, f, B, lo)
        /\ Shape /\ allocated \in Nat /\ slotsUsed \in Nat /\ Before(t) \in Int
    BY <1>2, <1>3, GoodFacts
  <2>2. pr_blockIndexSize \in Nat
    BY <2>1, SizeIs
  <2> QED
    BY <1>2, <2>1, <2>2, Simple
<1>5. headers # <<>> /\ slotsUsed < pr_blockIndexSize
  BY <1>1, <1>4 DEF Control
<1>6. PICK p \in Int, u \in Nat, a \in Nat, z \in Nat :
        p = Before(t) /\ u = slotsUsed /\ a = allocated /\ z = pr_blockIndexSize
  BY <1>4
<1>7. PICK hi \in Int, e \in Int : hi = p + m /\ e = hi + 1 /\ p <= hi
  OBVIOUS
<1>8. /\ lo <= p + 1 /\ hi - lo + 1 <= u /\ u <= a /\ u < z /\ b = a + 1 /\ b \notin 1 .. a
      /\ b \in 1 .. b /\ (\A x \in 1 .. b : x # b => x \in 1 .. a) /\ (\A x \in 1 .. a : x \in 1 .. b)
  <2>1. lo <= p + 1 /\ hi - lo + 1 <= u /\ u <= a
    BY <1>4, <1>6, <1>7 DEF Chain
  <2>2. b = a + 1 /\ u < z
    BY <1>1, <1>5, <1>6
  <2> QED
    BY ONLY <2>1, <2>2, a \in Nat
<1>9. PICK B2 \in Orders : B2[e] = b /\ \A n \in Int : n # e => B2[n] = B[n]
  <2>1. [B EXCEPT ![e] = b] \in Orders
    BY DEF Orders
  <2> QED
    BY <2>1 DEF Orders
<1>10. Takes(t, B, lo, m, B2, lo, e)
  <2>1. e = Before(t) + m + 1
    BY <1>6, <1>7
  <2>2. e - lo < pr_blockIndexSize
    <3>1. e - lo < z
      BY ONLY <1>7, <1>8, e \in Int, hi \in Int, lo \in Int, u \in Nat, z \in Nat
    <3> QED
      BY <1>6, <3>1
  <2>3. Use(B2[e]) /\ B2[e] \in 1 .. allocated'
    BY <1>1, <1>8, <1>9
  <2> QED
    BY <1>9, <2>1, <2>2, <2>3 DEF Takes
<1>11. next' \in [Blocks -> Blocks] /\ allocated' \in 0 .. MaxBlocks /\ allocated <= allocated'
  <2>1. allocated \in 0 .. MaxBlocks /\ MaxBlocks \in Nat /\ allocated' \in 0 .. MaxBlocks
    <3>1. allocated \in 0 .. MaxBlocks /\ MaxBlocks \in Nat
      BY <1>2, Simple, Kinds
    <3>2. b \in 0 .. MaxBlocks
      BY <3>1 DEF Blocks
    <3> QED
      BY <1>1, <3>1, <3>2
  <2>2. tailBlock # Null => tailBlock \in Blocks /\ next[tailBlock] \in Blocks
    BY <1>4, <2>1 DEF Blocks
  <2>3. next' \in [Blocks -> Blocks]
    BY <1>1, <1>4, <2>2
  <2>4. allocated <= allocated'
    BY <1>1, <1>4
  <2> QED
    BY <2>1, <2>3, <2>4
<1>12. /\ Types' /\ Control(t, m + 1)' /\ IndexOK(t, B2, lo, m + 1, o)'
       /\ Claimed(t, h, f)' /\ Elems(t, h, f, B2, lo, m + 1)' /\ Seen(f, B2)'
       /\ ~bulk => m = 0 /\ step' = "ready"
       /\ InCall' /\ ~Waiting /\ ~Cleared'
  <2>1. step \in {"ahead", "block"} /\ step' \in {"ready", "ahead", "room"}
        /\ (step' = "ready" <=> cur' = LastBase(count))
    BY <1>1
  <2>2. slotsUsed' \in slotsUsed .. slotsUsed + 1 /\ slotsUsed' <= pr_blockIndexSize
    BY <1>1, <1>4, <1>5
  <2>3. NotBefore(t, h, f, lo)
    BY <1>4 DEF Stored, NotBefore
  <2> QED
    BY <1>1, <1>2, <1>3, <1>5, <1>10, <1>11, <2>1, <2>2, <2>3, UseStep
<1>13. /\ tailBlock' = b
       /\ firstAllocated' = (IF firstAllocated = Null THEN b ELSE firstAllocated)
       /\ (~bulk => front' = front) /\ bulk' = bulk /\ startBlock' = startBlock
       /\ excuses' = excuses /\ emptyFlags' = emptyFlags
  BY <1>1 DEF Use, restVars, callVars, endVars
<1>14. b # Null /\ b \in Blocks
  BY Kinds
<1>15. /\ 1 .. a \subseteq Blocks
       /\ tailBlock # Null => /\ tailBlock \in 1 .. a /\ next'[b] = next[tailBlock]
                              /\ next'[tailBlock] = b
       /\ tailBlock = Null => next'[b] = b
       /\ \A x \in 1 .. a : x # tailBlock => next'[x] = next[x]
  <2>1. 1 .. a \subseteq Blocks
    <3>1. a <= MaxBlocks /\ MaxBlocks \in Nat
      BY <1>2, <1>6, Simple, Kinds
    <3> QED
      BY <3>1 DEF Blocks
  <2>2. tailBlock # Null => tailBlock \in 1 .. a
    BY <1>4, <1>6
  <2>3. tailBlock # b
    BY <1>8, <1>14, <2>2
  <2> QED
    BY <1>1, <1>4, <1>8, <2>1, <2>2, <2>3
<1>16. Locals(t, B2, lo, m + 1)'
  <2>1. /\ m = 0 <=> firstAllocated = Null
        /\ m >= 1 => firstAllocated = B[p + 1]
        /\ originalUsed <= slotsUsed
        /\ m = 0 => slotsUsed = originalUsed /\ front = originalFront /\ tailBlock = startBlock
        /\ lo <= p => startBlock = B[p]
        /\ startBlock = Null => excuses = {} /\ lo = p + 1
    BY <1>2, <1>4, <1>6 DEF Locals
  <2>2. m + 1 # 0 /\ firstAllocated' # Null
    BY <1>13, <1>14, <2>1
  <2>3. firstAllocated' = B2[p + 1]
    <3>1. CASE m = 0
      BY <1>7, <1>9, <1>13, <2>1, <3>1
    <3>2. CASE m # 0
      <4>1. p + 1 # e /\ p + 1 \in Int /\ m >= 1
        BY <1>7, <3>2
      <4> QED
        BY <1>9, <1>13, <2>1, <3>2, <4>1
    <3> QED
      BY <3>1, <3>2
  <2>4. originalUsed' <= slotsUsed' /\ (~bulk' => slotsUsed' <= originalUsed' + 1)
    <3>1. originalUsed \in Nat /\ originalUsed' = originalUsed /\ slotsUsed' = slotsUsed + 1
          /\ bulk' = bulk
      BY <1>1, <1>2, <1>3, <1>4, <1>13, CountFacts
    <3> QED
      BY <1>4, <1>12, <2>1, <3>1
  <2>5. Waiting' => front' = originalFront'
    BY <1>1, <1>12, <1>13, <2>1 DEF Waiting
  <2>6. lo <= p => startBlock' = B2[p]
    <3>1. p # e
      BY <1>7
    <3> QED
      BY <1>9, <1>13, <2>1, <3>1
  <2>7. startBlock' = Null => excuses' = {} /\ lo = p + 1
    BY <1>13, <2>1
  <2>8. ~bulk' /\ m + 1 = 1 /\ startBlock' # Null => next'[startBlock'] = firstAllocated'
    BY <1>12, <1>13, <1>15, <2>1
  <2> QED
    BY <1>6, <2>2, <2>3, <2>4, <2>5, <2>6, <2>7, <2>8 DEF Locals
<1>17. Chain(t, B2, lo, m + 1)'
  <2>1. /\ ~AtBase(t) => lo <= p
        /\ \A n \in lo .. hi : B[n] \in 1 .. a
        /\ \A n, k \in lo .. hi : B[n] = B[k] => n = k
        /\ \A n \in lo .. hi - 1 : next[B[n]] = B[n + 1]
        /\ lo <= hi => tailBlock = B[hi]
        /\ \A x \in 1 .. a : next[x] \in 1 .. a
        /\ tailBlock = Null <=> a = 0
        /\ excuses = {} => lo = hi - u + 1 /\ u = a /\ (lo <= hi => next[B[hi]] = B[lo])
        /\ excuses # {} => /\ tailBlock # Null /\ Dead(next[tailBlock])
                           /\ \A n \in lo .. hi : B[n] # next[tailBlock]
    BY <1>4, <1>6, <1>7 DEF Chain
  <2>2. /\ p + (m + 1) = e /\ e - lo + 1 <= u + 1 /\ u + 1 <= a + 1 /\ u + 1 = slotsUsed'
        /\ allocated' = a + 1
    BY <1>1, <1>6, <1>7, <1>8
  <2>3. \A n \in lo .. e : n \in Int /\ (n # e => n \in lo .. hi)
    BY <1>7
  <2>4. \A n \in lo .. e : B2[n] \in 1 .. b
    BY <1>8, <1>9, <2>1, <2>3
  <2>5. ASSUME NEW n \in lo .. e, NEW k \in lo .. e, B2[n] = B2[k] PROVE n = k
    <3>1. CASE n = e /\ k # e
      BY <1>8, <1>9, <2>1, <2>3, <2>5, <3>1
    <3>2. CASE k = e /\ n # e
      BY <1>8, <1>9, <2>1, <2>3, <2>5, <3>2
    <3>3. CASE n # e /\ k # e
      BY <1>9, <2>1, <2>3, <2>5, <3>3
    <3> QED
      BY <3>1, <3>2, <3>3
  <2>6. ASSUME NEW n \in lo .. e - 1 PROVE next'[B2[n]] = B2[n + 1]
    <3>1. n \in Int /\ n \in lo .. hi /\ n # e /\ n + 1 \in Int /\ lo <= hi /\ hi \in lo .. hi
      BY <1>7
    <3>2. tailBlock = B[hi] /\ tailBlock # Null /\ B[n] \in 1 .. a /\ B2[n] = B[n]
      <4>1. B[hi] \in 1 .. a
        BY <2>1, <3>1
      <4>2. B[hi] # Null
        BY <1>15, <4>1, Kinds
      <4> QED
        BY <1>9, <2>1, <3>1, <4>2
    <3>3. CASE n = hi
      BY <1>7, <1>9, <1>15, <3>2, <3>3
    <3>4. CASE n # hi
      <4>1. n \in lo .. hi - 1 /\ n + 1 # e
        BY <1>7, <3>1, <3>4
      <4>2. B[n] # tailBlock
        BY <2>1, <3>1, <3>2, <3>4
      <4> QED
        BY <1>9, <1>15, <2>1, <3>1, <3>2, <4>1, <4>2
    <3> QED
      BY <3>3, <3>4
  <2>7. \A x \in 1 .. b : next'[x] \in 1 .. b
    <3> TAKE x \in 1 .. b
    <3>1. tailBlock # Null => next[tailBlock] \in 1 .. a
      BY <1>15, <2>1
    <3>2. CASE x = b
      BY <1>8, <1>15, <3>1, <3>2
    <3>3. CASE x # b /\ x = tailBlock /\ tailBlock # Null
      BY <1>8, <1>15, <3>3
    <3>4. CASE x # b /\ ~(x = tailBlock /\ tailBlock # Null)
      <4>1. x \in 1 .. a /\ x # Null
        <5>1. x \in 1 .. a
          BY <1>8, <3>4
        <5> QED
          BY <1>15, <5>1, Kinds
      <4>2. next'[x] = next[x]
        BY <1>15, <3>4, <4>1
      <4> QED
        BY <1>8, <2>1, <4>1, <4>2
    <3> QED
      BY <3>2, <3>3, <3>4
  <2>8. tailBlock' = B2[e] /\ tailBlock' # Null /\ allocated' # 0
    BY <1>1, <1>8, <1>9, <1>13, <1>14
  <2>9. ASSUME excuses = {}
        PROVE  lo = e - slotsUsed' + 1 /\ slotsUsed' = allocated' /\ next'[B2[e]] = B2[lo]
    <3>1. lo = hi - u + 1 /\ u = a /\ (lo <= hi => next[B[hi]] = B[lo])
      BY <2>1, <2>9
    <3>2. lo = e - slotsUsed' + 1 /\ slotsUsed' = allocated'
      BY <1>7, <2>2, <3>1
    <3>3. CASE tailBlock = Null
      <4>1. lo = e
        BY <1>7, <2>1, <3>1, <3>3
      <4> QED
        BY <1>9, <1>15, <3>2, <3>3, <4>1
    <3>4. CASE tailBlock # Null
      <4>1. a # 0
        BY <2>1, <3>4
      <4>2. lo <= hi /\ lo # e
        BY <1>7, <3>1, <4>1
      <4>3. next[tailBlock] = B[lo]
        BY <2>1, <3>1, <4>2
      <4> QED
        BY <1>9, <1>15, <3>2, <3>4, <4>2, <4>3
    <3> QED
      BY <3>3, <3>4
  <2>10. ASSUME excuses # {}
         PROVE  Dead(next[tailBlock])' /\ \A n \in lo .. e : B2[n] # next'[tailBlock']
    <3>1. /\ tailBlock # Null /\ Dead(next[tailBlock]) /\ next'[tailBlock'] = next[tailBlock]
          /\ next[tailBlock] \in 1 .. a /\ tailBlock \in 1 .. a
          /\ \A n \in lo .. hi : B[n] # next[tailBlock]
      BY <1>13, <1>15, <2>1, <2>10
    <3>2. Dead(next[tailBlock])'
      BY <1>13, <3>1 DEF Dead
    <3>3. \A n \in lo .. e : B2[n] # next'[tailBlock']
      BY <1>8, <1>9, <2>3, <3>1
    <3> QED
      BY <3>2, <3>3
  <2> QED
    BY <1>1, <1>6, <1>7, <1>8, <1>13, <2>1, <2>2, <2>4, <2>5, <2>6, <2>7, <2>8, <2>9, <2>10 DEF Chain
<1>18. Good(t, h, f, B2, lo, m + 1, o)'
  BY <1>12, <1>16, <1>17 DEF Good
<1> QED
  BY <1>12, <1>18, InvAgain

(* A call that has used a block has used an entry of the index too.        *)
LEMMA HasUsed ==
  ASSUME Types, NEW t \in Int, NEW h \in Int, NEW f \in Firsts, NEW B \in Orders,
         NEW lo \in Int, NEW m \in Nat, NEW o \in Int, Good(t, h, f, B, lo, m, o), m >= 1
  PROVE  slotsUsed >= 1 /\ allocated # 0 /\ headers # <<>>
<1>1. Chain(t, B, lo, m) /\ IndexOK(t, B, lo, m, o)
  BY GoodFacts
<1>2. PICK p \in Int, u \in Nat, a \in Nat : p = Before(t) /\ u = slotsUsed /\ a = allocated
  BY GoodFacts
<1>3. lo <= p + 1 /\ (p + m) - lo + 1 <= u /\ u <= a
  BY <1>1, <1>2 DEF Chain
<1>4. u >= 1 /\ a # 0
  BY <1>3
<1> QED
  BY <1>1, <1>2, <1>4 DEF IndexOK

(* An undone call leaves the types as they are.                            *)
LEMMA UndoTyped ==
  ASSUME Types, "bulk" \notin excuses, Undo, InCall, firstAllocated # Null => headers # <<>>
  PROVE  Types'
<1>1. /\ front' = originalFront /\ slotsUsed' = originalUsed
      /\ tailBlock' = (IF startBlock = Null THEN firstAllocated ELSE startBlock)
      /\ excuses' = (IF firstAllocated = Null THEN excuses
                     ELSE excuses \cup {IF bulk THEN "bulk" ELSE "single"})
      /\ step' = "idle" /\ bulk' = FALSE /\ count' = 0 /\ cur' = 0
      /\ startBlock' = Null /\ firstAllocated' = Null /\ originalFront' = 0 /\ originalUsed' = 0
      /\ UNCHANGED <<tailIndex, headIndex, next, allocated, emptyFlags, slot, headers,
                     consumerVars, destroyed, sent>>
  BY DEF Undo, Leave
<1>2. TypeOK /\ Shape
  BY DEF Types
<1>3. /\ Shape' /\ HeaderTypes' /\ Len(headers) \in Nat /\ Len(headers') \in Nat
      /\ Len(headers) <= Len(headers') /\ pr_blockIndexSize' = pr_blockIndexSize
  BY <1>1, <1>2, HeadersSame
<1>4. DataTypes'
  BY <1>1, <1>2, DataStays
<1>5. TypeOK'
  <2>1. /\ {tailIndex, cur} \subseteq Index
        /\ {tailBlock, startBlock, firstAllocated} \subseteq 1 .. allocated \cup {Null}
        /\ allocated \in 0 .. MaxBlocks /\ next \in [Blocks -> Blocks]
        /\ {slotsUsed, originalUsed} \subseteq 0 .. pr_blockIndexSize
        /\ {front, originalFront} \subseteq 0 .. pr_blockIndexSize - 1
        /\ bulk \in BOOLEAN /\ destroyed \subseteq Blocks \X Offsets
        /\ sent \in 0 .. MaxSent /\ excuses \subseteq {"bulk", "single"}
    BY <1>2, Simple
  <2>2. 0 \in Index /\ 0 \in 0 .. MaxBulk
    <3>1. IndexSize \in Nat \ {0} /\ MaxBulk \in Nat
      BY Kinds, Sizes
    <3> QED
      BY <3>1 DEF Index
  <2>3. {tailIndex', cur'} \subseteq Index
    BY <1>1, <2>1, <2>2
  <2>4. {tailBlock', startBlock', firstAllocated'} \subseteq 1 .. allocated' \cup {Null}
    BY <1>1, <2>1
  <2>5. {slotsUsed', originalUsed'} \subseteq 0 .. pr_blockIndexSize'
    <3>1. pr_blockIndexSize \in Nat
      BY <1>2, SizeIs
    <3> QED
      BY <1>1, <1>3, <2>1, <3>1
  <2>6. {front', originalFront'} \subseteq 0 .. pr_blockIndexSize' - 1
    <3>1. pr_blockIndexSize \in Nat \ {0}
      BY <1>2, SizeIs
    <3> QED
      BY <1>1, <1>3, <2>1, <3>1
  <2>7. excuses' \subseteq {"bulk", "single"}
    BY <1>1, <2>1
  <2>8. step' \in {"idle", "ahead", "room", "grow", "block", "ready", "construct",
                    "entry", "front", "enter", "store", "place", "publish", "gone"}
        /\ bulk' \in BOOLEAN
        /\ count' \in 0 .. MaxBulk
    BY <1>1, <2>2
  <2>9. /\ allocated' \in 0 .. MaxBlocks /\ next' \in [Blocks -> Blocks]
        /\ destroyed' \subseteq Blocks \X Offsets /\ sent' \in 0 .. MaxSent
        /\ UNCHANGED <<headIndex, consumerVars>>
    BY <1>1, <2>1
  <2> QED
    BY <1>2, <1>3, <1>4, <2>3, <2>4, <2>5, <2>6, <2>7, <2>8, <2>9, ProducerTyped
<1>6. "bulk" \in excuses' => headers' # <<>>
  BY <1>1
<1>7. UNCHANGED consumerVars /\ step' # "gone" /\ step' = "idle"
  BY <1>1
<1> QED
  BY <1>2, <1>3, <1>5, <1>6, <1>7, TypesKept

(* An undone single call gives its number back; a bulk call is excused.    *)
LEMMA UndoStep ==
  ASSUME Inv, Undo, step \in {"ahead", "room", "grow", "block", "construct"}
  PROVE  Inv'
<1>1. /\ front' = originalFront /\ slotsUsed' = originalUsed
      /\ tailBlock' = (IF startBlock = Null THEN firstAllocated ELSE startBlock)
      /\ excuses' = (IF firstAllocated = Null THEN excuses
                     ELSE excuses \cup {IF bulk THEN "bulk" ELSE "single"})
      /\ step' = "idle" /\ bulk' = FALSE /\ count' = 0 /\ firstAllocated' = Null
      /\ UNCHANGED <<tailIndex, headIndex, next, allocated, emptyFlags, slot, headers,
                     consumerVars, destroyed, sent>>
  BY DEF Undo, Leave
<1>2. Types /\ TypeOK /\ Shape /\ "bulk" \notin excuses /\ InCall
  BY DEF Inv, Types, InCall
<1>3. PICK t \in Int, h \in Int, f \in Firsts, B \in Orders, lo \in Int, m \in Nat, o \in Int :
        Good(t, h, f, B, lo, m, o)
  BY <1>2 DEF Inv
<1>4. /\ Control(t, m) /\ Locals(t, B, lo, m) /\ Chain(t, B, lo, m) /\ IndexOK(t, B, lo, m, o)
      /\ Claimed(t, h, f) /\ Elems(t, h, f, B, lo, m) /\ Stored(t, h, f, B, lo)
      /\ Flags(t, h, f, B, lo, m) /\ Before(t) \in Int /\ slotsUsed \in Nat /\ count \in Nat
      /\ bulk \in BOOLEAN
  BY <1>2, <1>3, GoodFacts, Simple
<1>5. (m = 0 <=> firstAllocated = Null) /\ (m >= 1 => headers # <<>> /\ slotsUsed >= 1 /\ allocated # 0)
  BY <1>2, <1>3, <1>4, HasUsed DEF Locals
<1>6. Types'
  <2>1. firstAllocated # Null => headers # <<>>
    BY <1>5
  <2> QED
    BY <1>2, <2>1, UndoTyped
<1> SUFFICES ASSUME "bulk" \notin excuses' PROVE Good(t, h, f, B, lo, 0, o)'
  BY <1>6 DEF Inv
<1>7. PICK p \in Int : p = Before(t)
  BY <1>4
<1>8. m >= 1 => ~bulk
  BY <1>1, <1>5
<1>9. m >= 1 => m = 1 /\ step = "construct" /\ Waiting /\ Cleared /\ AtBase(t)
  <2> SUFFICES ASSUME m >= 1 PROVE m = 1 /\ step = "construct" /\ Waiting /\ Cleared /\ AtBase(t)
    OBVIOUS
  <2>1. LastNum(t) = Num(t) /\ m <= 1
        /\ (step \in {"ahead", "room", "grow", "block"} => m = 0)
    BY <1>2, <1>4, <1>8, SingleCall
  <2>2. m = 1 /\ step = "construct"
    BY <2>1
  <2>3. Before(t) + m = LastNum(t)
    BY <1>4, <2>2 DEF Control
  <2>4. AtBase(t)
    BY <1>7, <2>1, <2>2, <2>3, AtBaseIs
  <2> QED
    BY <1>8, <2>2, <2>4 DEF Waiting, Cleared
<1>10. ~InCall' /\ ~Waiting' /\ ~Cleared' /\ End(t)' = End(t) /\ Span' = 0 /\ End(t) = t
  BY <1>1 DEF InCall, Waiting, Cleared, End, Span
<1>11. Control(t, 0)'
  BY <1>1, <1>4, <1>10 DEF Control
<1>12. Locals(t, B, lo, 0)'
  BY <1>10 DEF Locals
<1>13. Entered(t, 0)' = Entered(t, m) /\ UsedThen' = UsedThen /\ front' = front
  <2>1. CASE m = 0
    <3>1. slotsUsed = originalUsed /\ front = originalFront
      BY <1>2, <1>4, <2>1 DEF Locals
    <3> QED
      BY <1>1, <1>4, <1>10, <2>1, <3>1 DEF Entered, UsedThen
  <2>2. CASE m # 0
    <3>1. Waiting /\ front = originalFront
      BY <1>2, <1>4, <1>9, <2>2 DEF Locals
    <3> QED
      BY <1>1, <1>4, <1>10, <3>1 DEF Entered, UsedThen
  <2> QED
    BY <2>1, <2>2
<1>14. Shape' /\ Len(headers) \in Nat /\ blockIndex' = blockIndex
  BY <1>1, <1>2, HeadersSame
<1>15. IndexOK(t, B, lo, 0, o)'
  <2>1. headers = <<>> => slotsUsed' = 0
    <3>1. headers = <<>> => m = 0 /\ slotsUsed = 0
      BY <1>4, <1>5 DEF IndexOK
    <3>2. m = 0 => slotsUsed' = slotsUsed
      BY <1>1, <1>2, <1>4 DEF Locals
    <3> QED
      BY <3>1, <3>2
  <2> QED
    BY <1>1, <1>4, <1>13, <1>14, <2>1 DEF IndexOK
<1>16. Chain(t, B, lo, 0)'
  <2>1. CASE m = 0
    <3>1. slotsUsed' = slotsUsed /\ tailBlock' = tailBlock /\ excuses' = excuses
      BY <1>1, <1>2, <1>4, <1>5, <2>1 DEF Locals
    <3> QED
      BY <1>1, <1>4, <2>1, <3>1 DEF Chain, Dead
  <2>2. CASE m # 0
    <3>1. m = 1 /\ AtBase(t) /\ Cleared /\ ~bulk
      BY <1>8, <1>9, <2>2
    <3>2. PICK u \in Nat, v \in Nat, a \in Nat :
            u = slotsUsed /\ v = originalUsed /\ a = allocated /\ a # 0
      <4>1. m >= 1
        BY <2>2
      <4>2. originalUsed \in Nat /\ allocated \in Nat
        BY <1>2, <1>4, CountFacts
      <4> QED
        BY <1>4, <1>5, <4>1, <4>2
    <3>3. /\ lo <= p + 1 /\ (p + 1) - lo + 1 <= u /\ u <= a
          /\ \A n \in lo .. p + 1 : B[n] \in 1 .. a
          /\ \A n, k \in lo .. p + 1 : B[n] = B[k] => n = k
          /\ \A n \in lo .. (p + 1) - 1 : next[B[n]] = B[n + 1]
          /\ lo <= p + 1 => tailBlock = B[p + 1]
          /\ \A b \in 1 .. a : next[b] \in 1 .. a
          /\ excuses = {} => (lo <= p + 1 => next[B[p + 1]] = B[lo])
      BY <1>4, <1>7, <3>1, <3>2 DEF Chain
    <3>4. /\ firstAllocated = B[p + 1] /\ firstAllocated # Null
          /\ v <= u /\ u <= v + 1
          /\ lo <= p => startBlock = B[p]
          /\ startBlock = Null => excuses = {} /\ lo = p + 1
          /\ startBlock # Null => next[startBlock] = firstAllocated
      BY <1>2, <1>4, <1>5, <1>7, <3>1, <3>2 DEF Locals
    <3>5. /\ p - lo + 1 <= v /\ v <= a /\ p + 1 \in lo .. p + 1
          /\ \A n \in lo .. p : n \in lo .. p + 1 /\ n # p + 1
          /\ \A n \in lo .. p - 1 : n \in lo .. (p + 1) - 1
      <4>1. lo <= p + 1 /\ (p + 1) - lo + 1 <= u /\ u <= a /\ v <= u /\ u <= v + 1
        BY <3>3, <3>4
      <4> QED
        BY ONLY <4>1, p \in Int, lo \in Int, u \in Nat, v \in Nat, a \in Nat
    <3>6. Dead(B[p + 1]) /\ emptyFlags' = emptyFlags
      <4>1. t = Begins(p + 1) /\ Begins(p + 1) \in Int
        BY <1>7, <3>1, BeforeFacts DEF AtBase
      <4>2. 0 \in Offsets
        BY Sizes DEF Offsets
      <4>3. 0 \in emptyFlags[B[p + 1]] <=>
              Begins(p + 1) + 0 < t /\ ~Undone(t, h, f, Begins(p + 1) + 0)
        BY <1>4, <1>7, <3>1, <3>5, <4>2 DEF Flags
      <4>4. ~(Begins(p + 1) + 0 < t)
        BY <4>1
      <4> QED
        BY <1>1, <4>2, <4>3, <4>4 DEF Dead
    <3>7. tailBlock' # Null /\ next[tailBlock'] = B[p + 1]
      <4>1. CASE startBlock = Null
        BY <1>1, <3>3, <3>4, <4>1
      <4>2. CASE startBlock # Null
        BY <1>1, <3>4, <4>2
      <4> QED
        BY <4>1, <4>2
    <3>8. lo <= p => tailBlock' = B[p]
      <4> SUFFICES ASSUME lo <= p PROVE tailBlock' = B[p]
        OBVIOUS
      <4>1. startBlock # Null
        BY <3>4
      <4> QED
        BY <1>1, <3>4, <4>1
    <3>9. next' = next /\ slotsUsed' = v /\ allocated' = a /\ excuses' # {}
      BY <1>1, <3>2, <3>4
    <3>10. Dead(next[tailBlock])'
      BY <3>6, <3>7, <3>9 DEF Dead
    <3>11. \A n \in lo .. p : B[n] # next'[tailBlock']
      BY <3>3, <3>5, <3>7, <3>9
    <3>12. /\ \A n \in lo .. p : B[n] \in 1 .. a
           /\ \A n, k \in lo .. p : B[n] = B[k] => n = k
           /\ \A n \in lo .. p - 1 : next[B[n]] = B[n + 1]
      BY <3>3, <3>5
    <3>13. p + 0 = p
      OBVIOUS
    <3> QED
      BY <1>7, <3>1, <3>2, <3>3, <3>5, <3>7, <3>8, <3>9, <3>10, <3>11, <3>12, <3>13 DEF Chain
  <2> QED
    BY <2>1, <2>2
<1>17. Claimed(t, h, f)'
  <2>1. h <= t /\ t + Span - h < IndexSize \div 2 /\ h \in Int
    BY <1>4 DEF Claimed
  <2>2. Span \in Nat
    BY <1>4 DEF Span
  <2>3. IndexSize \div 2 \in Int
    BY Kinds
  <2>4. t + Span' - h < IndexSize \div 2
    <3>1. PICK s \in Nat, i \in Int : s = Span /\ i = IndexSize \div 2 /\ t + s - h < i
      BY <2>1, <2>2, <2>3
    <3>2. t + 0 - h < i
      BY ONLY <3>1, s \in Nat, i \in Int, t \in Int, h \in Int
    <3> QED
      BY <1>10, <3>1, <3>2
  <2> QED
    BY <1>1, <1>4, <2>1, <2>4, ClaimedKept
<1>18. NotBefore(t, h, f, lo)
  BY <1>4 DEF Stored, NotBefore
<1>19. Elems(t, h, f, B, lo, 0)'
  <2>1. 0 \in Nat /\ lo <= lo /\ \A n \in lo .. Before(t) + m : B[n] = B[n]
    OBVIOUS
  <2> QED
    BY <1>1, <1>2, <1>4, <1>10, <1>18, <2>1, ElemsKept
<1>20. Seen(f, B)'
  <2>1. \A n \in lo .. Before(t) : B[n] = B[n]
    OBVIOUS
  <2>2. Kept(B, lo, lo, Before(t)) /\ UNCHANGED consumerVars
    BY <1>1 DEF Kept
  <2> QED
    BY <1>2, <1>3, <1>18, <2>1, <2>2, SeenKept
<1> QED
  BY <1>11, <1>12, <1>15, <1>16, <1>17, <1>19, <1>20 DEF Good

--------------------------------------------------------------------------------
(* Walks along the ring.                                                   *)
LEMMA AfterChain ==
  ASSUME next \in [Blocks -> Blocks], NEW B \in Orders, NEW a \in Int, NEW d \in 0 .. MaxBlocks,
         \A n \in a .. a + d - 1 : next[B[n]] = B[n + 1]
  PROVE  \A k \in 0 .. d : After(B[a], k) = B[a + k]
<1>1. MaxBlocks \in Nat /\ B[a] \in Blocks /\ d \in Nat /\ d <= MaxBlocks
  BY Kinds DEF Orders
<1>2. /\ After(B[a], 0) = B[a]
      /\ \A n \in 1 .. MaxBlocks : After(B[a], n) = next[After(B[a], n - 1)]
  BY <1>1, AfterIs
<1> DEFINE S == {k \in 0 .. d : After(B[a], k) # B[a + k]}
<1> SUFFICES ASSUME S # {} PROVE FALSE
  OBVIOUS
<1>3. S \in SUBSET Nat
  BY <1>1
<1>4. PICK k \in Nat : SmallestOf(S, k)
  BY <1>3, Smallest
<1>5. k \in 0 .. d /\ After(B[a], k) # B[a + k] /\ \A j \in S : k <= j
  BY <1>4 DEF SmallestOf
<1>6. k # 0
  BY <1>2, <1>5
<1>7. k - 1 \in 0 .. d /\ k \in 1 .. MaxBlocks /\ a + (k - 1) \in a .. a + d - 1
      /\ (a + (k - 1)) + 1 = a + k
  BY <1>1, <1>5, <1>6
<1>8. After(B[a], k - 1) = B[a + (k - 1)]
  <2> SUFFICES ASSUME k - 1 \in S PROVE FALSE
    BY <1>7
  <2>1. k <= k - 1
    BY <1>5
  <2> QED
    BY <2>1
<1>9. next[B[a + (k - 1)]] = B[a + k]
  BY <1>7
<1> QED
  BY <1>2, <1>5, <1>7, <1>8, <1>9

LEMMA CallElement ==
  ASSUME Types, NEW t \in Int, NEW h \in Int, NEW f \in Firsts, NEW B \in Orders,
         NEW lo \in Int, NEW m \in Nat, NEW o \in Int, Good(t, h, f, B, lo, m, o),
         step \in {"ready", "construct", "place"}, NEW x \in Int, t <= x, x < t + count
  PROVE  /\ Num(x) \in lo .. Before(t) + m /\ Before(t) <= Num(x) /\ Num(x) \in Int
         /\ BlockFor(Mod(x)) = B[Num(x)]
         /\ Base(Mod(x)) # Base(Minus(tailIndex, 1)) <=> Num(x) # Before(t)
         /\ Mod(x) \in Elements
<1>1. /\ TypeOK /\ Control(t, m) /\ Locals(t, B, lo, m) /\ Chain(t, B, lo, m)
      /\ slotsUsed \in Nat /\ allocated \in Nat /\ count \in Nat /\ count <= MaxBulk
      /\ next \in [Blocks -> Blocks] /\ allocated <= MaxBlocks
  <2>1. /\ TypeOK /\ Control(t, m) /\ Locals(t, B, lo, m) /\ Chain(t, B, lo, m)
        /\ slotsUsed \in Nat /\ allocated \in Nat /\ count \in Nat /\ count <= MaxBulk
    BY GoodFacts
  <2>2. allocated \in 0 .. MaxBlocks /\ next \in [Blocks -> Blocks] /\ MaxBlocks \in Nat
    BY <2>1, Simple, Kinds
  <2> QED
    BY <2>1, <2>2
<1>2. PICK p \in Int, n \in Int, u \in Nat, a \in Nat, c \in Nat :
        p = Before(t) /\ n = Num(x) /\ u = slotsUsed /\ a = allocated /\ c = count
  BY <1>1, NumIs, BeforeFacts
<1>3. InCall /\ tailIndex = Mod(t) /\ p + m = LastNum(t) /\ c >= 1
  BY <1>1, <1>2 DEF InCall, Control
<1>4. p <= n /\ n <= p + m
  <2>1. x <= t + c - 1 /\ t + c - 1 \in Int
    BY <1>2
  <2>2. Num(x) <= Num(t + c - 1)
    BY <2>1, NumMonotone
  <2>3. p <= n
    BY <1>2, BeforeFacts
  <2> QED
    BY <1>2, <1>3, <2>2, <2>3 DEF LastNum
<1>5. n = p => ~AtBase(t)
  <2> SUFFICES ASSUME n = p, AtBase(t) PROVE FALSE
    OBVIOUS
  <2>1. t = Begins(p + 1) /\ x < Begins(p + 1) /\ Begins(p + 1) \in Int
    BY <1>2, PlaceIs, BeforeFacts DEF AtBase
  <2> QED
    BY <2>1
<1>6. /\ lo <= p + 1 /\ (~AtBase(t) => lo <= p) /\ (p + m) - lo + 1 <= u /\ u <= a
      /\ \A k \in lo .. p + m - 1 : next[B[k]] = B[k + 1]
  BY <1>1, <1>2 DEF Chain
<1>7. lo <= n
  <2>1. CASE n = p
    BY <1>5, <1>6, <2>1
  <2>2. CASE n # p
    <3>1. n >= p + 1
      BY <1>4, <2>2
    <3> QED
      BY <1>6, <3>1
  <2> QED
    BY <2>1, <2>2
<1>8. n - p < Turn1 /\ n - p \in 0 .. Turn1 - 1
  <2>1. /\ BlockSize * n <= x /\ t <= Begins(p) + BlockSize /\ Begins(p) \in Int
        /\ BlockSize * n \in Int
    BY <1>2, NumIs, BeforeFacts
  <2>2. PICK b \in Nat, i \in Nat, z \in Int : b = BlockSize /\ i = IndexSize \div 2 /\ z = IndexSize
                                 /\ MaxBulk < i /\ MaxBulk \in Nat /\ b <= i /\ 2 * i <= z
    BY Kinds, Sizes
  <2>3. PICK y \in Int, w \in Int : y = BlockSize * n /\ w = Begins(p) /\ y <= x /\ t <= w + b
    BY <2>1, <2>2
  <2>4. c < i
    BY <1>1, <1>2, <2>2
  <2>5. x < t + c
    BY <1>2
  <2>6. y - w < z
    BY ONLY <2>2, <2>3, <2>4, <2>5, x \in Int, t \in Int, c \in Nat, b \in Nat, i \in Nat, z \in Int,
            y \in Int, w \in Int
  <2>7. BlockSize \in Int /\ BlockSize * (n - p) = BlockSize * n - BlockSize * p
    BY Sizes
  <2>8. BlockSize * (n - p) < BlockSize * Turn1
    BY <2>2, <2>3, <2>6, <2>7, Sizes DEF Begins
  <2>9. n - p \in Int /\ Turn1 \in Int
    BY Sizes
  <2>10. n - p < Turn1
    BY <2>8, <2>9, BlockApart
  <2> QED
    BY <1>4, <2>9, <2>10
<1>9. Minus(Base(Mod(x)), Base(Minus(tailIndex, 1))) \div BlockSize = n - p
      /\ Base(Mod(x)) = Blk(n) /\ Base(Minus(tailIndex, 1)) = Blk(p)
  <2>1. Base(Mod(x)) = Blk(n)
    BY <1>2, BaseIs
  <2>2. Minus(tailIndex, 1) = Mod(t - 1) /\ t - 1 \in Int
    BY <1>3, ModFacts
  <2>3. Base(Minus(tailIndex, 1)) = Blk(p)
    BY <1>2, <2>2, BaseIs DEF Before
  <2>4. Minus(Blk(n), Blk(p)) \div BlockSize = (n - p) % Turn1
    BY BlkSteps
  <2>5. (n - p) % Turn1 = n - p
    <3>1. PICK r \in 0 .. Turn1 - 1 : r = n - p
      BY <1>8
    <3>2. PICK N \in Nat \ {0} : N = Turn1
      BY Sizes
    <3>3. 0 \in Int /\ N * 0 + r = r
      BY <3>1, <3>2
    <3>4. (N * 0 + r) % N = r
      BY <3>1, <3>2, <3>3, Remainder
    <3> QED
      BY <3>1, <3>2, <3>3, <3>4
  <2> QED
    BY <2>1, <2>3, <2>4, <2>5
<1>10. BlockFor(Mod(x)) = B[n]
  <2>1. Base(tailIndex) = tailIndex <=> AtBase(t)
    BY <1>3, AtBaseIs
  <2>2. MaxBlocks \in Nat /\ a <= MaxBlocks
    BY <1>1, <1>2, Kinds
  <2>3. CASE AtBase(t)
    <3>1. n >= p + 1 /\ m >= 1
      BY <1>4, <1>5, <2>3
    <3>2. firstAllocated = B[p + 1]
      BY <1>1, <1>2, <1>3, <3>1 DEF Locals
    <3>3. PICK d \in 0 .. MaxBlocks, k \in 0 .. MaxBlocks, q \in Int :
            d = m - 1 /\ k = n - p - 1 /\ q = p + 1 /\ k \in 0 .. d /\ q + k = n
      <4>1. m - 1 <= MaxBlocks
        BY <1>6, <2>2
      <4> QED
        BY <1>4, <2>2, <3>1, <4>1
    <3>4. \A j \in q .. q + d - 1 : next[B[j]] = B[j + 1]
      BY <1>6, <3>3
    <3>5. \A j \in 0 .. d : After(B[q], j) = B[q + j]
      BY <1>1, <3>4, AfterChain
    <3>6. After(firstAllocated, (n - p) - 1) = B[n]
      BY <3>2, <3>3, <3>5
    <3> QED
      BY <1>9, <2>1, <2>3, <3>6 DEF BlockFor
  <2>4. CASE ~AtBase(t)
    <3>1. lo <= p /\ startBlock = B[p]
      BY <1>1, <1>2, <1>3, <1>6, <2>4 DEF Locals
    <3>2. PICK d \in 0 .. MaxBlocks, k \in 0 .. MaxBlocks :
            d = m /\ k = n - p /\ k \in 0 .. d /\ p + k = n
      <4>1. m <= MaxBlocks
        BY <1>6, <2>2, <3>1
      <4> QED
        BY <1>4, <2>2, <4>1
    <3>3. \A j \in p .. p + d - 1 : next[B[j]] = B[j + 1]
      BY <1>6, <3>1, <3>2
    <3>4. \A j \in 0 .. d : After(B[p], j) = B[p + j]
      BY <1>1, <3>3, AfterChain
    <3>5. After(startBlock, n - p) = B[n]
      BY <3>1, <3>2, <3>4
    <3> QED
      BY <1>9, <2>1, <2>4, <3>5 DEF BlockFor
  <2> QED
    BY <2>3, <2>4
<1>11. Base(Mod(x)) # Base(Minus(tailIndex, 1)) <=> n # p
  <2> SUFFICES ASSUME Blk(n) = Blk(p) PROVE n = p
    BY <1>9
  <2>1. (n - p) % Turn1 = 0 % Turn1
    <3>1. 0 \in Int /\ n - p \in Int
      OBVIOUS
    <3>2. Minus(Blk(n), Blk(p)) \div BlockSize = (n - p) % Turn1
      BY BlkSteps
    <3>3. Minus(Blk(p), Blk(p)) \div BlockSize = (p - p) % Turn1
      BY BlkSteps
    <3>4. p - p = 0
      OBVIOUS
    <3> QED
      BY <3>2, <3>3, <3>4
  <2>2. Minus(Blk(n), Blk(p)) \div BlockSize = n - p
    BY <1>9
  <2>3. Minus(Blk(n), Blk(p)) \div BlockSize = (n - p) % Turn1
    BY BlkSteps
  <2>4. PICK N \in Nat \ {0} : N = Turn1
    BY Sizes
  <2>5. 0 % N = 0
    BY <2>4
  <2> QED
    BY <2>1, <2>2, <2>3, <2>4, <2>5
<1>12. Mod(x) \in Elements
  <2>1. PICK k \in Int : k = x - t /\ x = t + k /\ k \in 0 .. c - 1
    BY <1>2
  <2>2. Plus(tailIndex, k) = Mod(x)
    BY <1>3, <2>1, ModFacts
  <2> QED
    BY <1>2, <2>1, <2>2 DEF Elements
<1> QED
  BY <1>2, <1>4, <1>7, <1>10, <1>11, <1>12

(* The elements of a call have the places from the tail on.                *)
LEMMA ElementsAre ==
  ASSUME NEW t \in Int, tailIndex = Mod(t), count \in Nat, NEW i \in Elements
  PROVE  \E x \in Int : t <= x /\ x < t + count /\ i = Mod(x)
<1>1. PICK k \in 0 .. count - 1 : i = Plus(tailIndex, k)
  BY DEF Elements
<1>2. k \in Int /\ Plus(tailIndex, k) = Mod(t + k) /\ t + k \in Int
  BY ModFacts
<1>3. t <= t + k /\ t + k < t + count
  BY <1>2
<1> QED
  BY <1>1, <1>2, <1>3

--------------------------------------------------------------------------------
(* The blocks the call has taken are the ones it resets.                   *)
Resets(b) == \E i \in Elements : Base(i) # Base(Minus(tailIndex, 1)) /\ BlockFor(i) = b

(* The blocks whose flags are cleared are those the call has used.         *)
LEMMA ResetIs ==
  ASSUME Types, NEW t \in Int, NEW h \in Int, NEW f \in Firsts, NEW B \in Orders,
         NEW lo \in Int, NEW m \in Nat, NEW o \in Int, Good(t, h, f, B, lo, m, o),
         step = "ready", NEW b
  PROVE  Resets(b) <=> \E n \in Before(t) + 1 .. Before(t) + m : B[n] = b
<1>1. Control(t, m) /\ count \in Nat /\ Before(t) \in Int
  BY GoodFacts
<1>2. tailIndex = Mod(t) /\ count >= 1 /\ Before(t) + m = LastNum(t)
  BY <1>1 DEF Control, InCall
<1>3. ASSUME NEW i \in Elements, Base(i) # Base(Minus(tailIndex, 1)), BlockFor(i) = b
      PROVE  \E n \in Before(t) + 1 .. Before(t) + m : B[n] = b
  <2>1. PICK x \in Int : t <= x /\ x < t + count /\ i = Mod(x)
    BY <1>1, <1>2, ElementsAre
  <2>2. /\ Num(x) \in lo .. Before(t) + m /\ Before(t) <= Num(x) /\ Num(x) \in Int
        /\ BlockFor(Mod(x)) = B[Num(x)]
        /\ Base(Mod(x)) # Base(Minus(tailIndex, 1)) <=> Num(x) # Before(t)
    BY <2>1, CallElement
  <2>3. Num(x) \in Before(t) + 1 .. Before(t) + m
    BY <1>1, <1>3, <2>1, <2>2
  <2> QED
    BY <1>3, <2>1, <2>2, <2>3
<1>4. ASSUME NEW n \in Before(t) + 1 .. Before(t) + m, B[n] = b
      PROVE  \E i \in Elements : Base(i) # Base(Minus(tailIndex, 1)) /\ BlockFor(i) = b
  <2>1. n \in Int /\ n # Before(t) /\ Before(t) + 1 <= n /\ n <= Before(t) + m
    BY <1>1
  <2>2. PICK x \in Int : x = Begins(n) /\ Num(x) = n
    <3>1. 0 \in Offsets
      BY Sizes DEF Offsets
    <3>2. Begins(n) + 0 \in Int /\ Num(Begins(n) + 0) = n
      BY <2>1, <3>1, ElementAt
    <3>3. Begins(n) \in Int
      BY <2>1, BeginsFacts
    <3>4. Begins(n) + 0 = Begins(n)
      BY <3>3
    <3> QED
      BY <3>2, <3>3, <3>4
  <2>3. t <= x
    <3>1. t <= Begins(Before(t) + 1) /\ Begins(Before(t) + 1) \in Int
      BY <1>1, BeforeFacts, BeginsFacts
    <3>2. Begins(Before(t) + 1) <= Begins(n)
      BY <1>1, <2>1, BeginsFacts
    <3> QED
      BY <2>2, <3>1, <3>2
  <2>4. x < t + count
    <3>1. LastNum(t) \in Int /\ Begins(LastNum(t)) <= t + count - 1
      BY <1>1, <1>2, LastFacts
    <3>2. Begins(n) <= Begins(LastNum(t)) /\ Begins(LastNum(t)) \in Int
      BY <1>2, <2>1, <3>1, BeginsFacts
    <3> QED
      BY <1>1, <2>2, <3>1, <3>2
  <2>5. /\ BlockFor(Mod(x)) = B[Num(x)] /\ Mod(x) \in Elements
        /\ Base(Mod(x)) # Base(Minus(tailIndex, 1)) <=> Num(x) # Before(t)
    BY <2>3, <2>4, CallElement
  <2> QED
    BY <1>4, <2>1, <2>2, <2>5
<1> QED
  BY <1>3, <1>4 DEF Resets

(* A step that leaves the types of all but the flags and the slots.        *)
LEMMA StepTyped ==
  ASSUME Types, DataTypes', Shape', HeaderTypes', headers # <<>> => headers' # <<>>,
         Len(headers') = Len(headers), pr_blockIndexSize' = pr_blockIndexSize,
         UNCHANGED <<headIndex, consumerVars, next, allocated, slotsUsed, originalFront,
                     originalUsed, tailBlock, startBlock, firstAllocated, tailIndex, cur,
                     bulk, count, destroyed, sent, excuses>>,
         front' \in 0 .. pr_blockIndexSize - 1,
         step' \in {"construct", "entry", "front", "enter", "store", "place", "publish"}, "bulk" \notin excuses
  PROVE  Types'
<1>1. TypeOK /\ Shape
  BY DEF Types
<1>2. /\ {tailIndex, cur} \subseteq Index
      /\ {tailBlock, startBlock, firstAllocated} \subseteq 1 .. allocated \cup {Null}
      /\ allocated \in 0 .. MaxBlocks /\ next \in [Blocks -> Blocks]
      /\ {slotsUsed, originalUsed} \subseteq 0 .. pr_blockIndexSize
      /\ {front, originalFront} \subseteq 0 .. pr_blockIndexSize - 1
      /\ bulk \in BOOLEAN /\ count \in 0 .. MaxBulk /\ destroyed \subseteq Blocks \X Offsets
      /\ sent \in 0 .. MaxSent /\ excuses \subseteq {"bulk", "single"}
  BY <1>1, Simple
<1>3. Len(headers) \in Nat /\ Len(headers') \in Nat /\ Len(headers) <= Len(headers')
  <2>1. Len(headers) \in Nat
    BY <1>1 DEF Shape
  <2> QED
    BY <2>1
<1>4. {front', originalFront'} \subseteq 0 .. pr_blockIndexSize' - 1
  BY <1>2
<1>5. TypeOK'
  BY <1>1, <1>2, <1>3, <1>4, ProducerTyped
<1> QED
  BY <1>1, <1>3, <1>5, TypesKept

(* The flags of the new blocks go down before anything is in them.         *)
LEMMA ResetEmptyStep ==
  ASSUME Inv, ResetEmpty
  PROVE  Inv'
<1>1. /\ step = "ready" /\ step' \in {"construct", IF bulk THEN "store" ELSE "enter"}
      /\ emptyFlags' = [b \in Blocks |->
           IF \E i \in Elements : Base(i) # Base(Minus(tailIndex, 1)) /\ BlockFor(i) = b
             THEN {} ELSE emptyFlags[b]]
      /\ UNCHANGED <<tailIndex, headIndex, tailBlock, next, allocated, slot, headers, slotsUsed,
                     front, bulk, count, startBlock, cur, firstAllocated, originalFront,
                     originalUsed, consumerVars, destroyed, sent, excuses>>
  BY DEF ResetEmpty, indexVars, callVars, localVars, restVars, endVars
<1>2. Types /\ TypeOK /\ Shape /\ "bulk" \notin excuses /\ InCall
  BY <1>1 DEF Inv, Types, InCall
<1>3. PICK t \in Int, h \in Int, f \in Firsts, B \in Orders, lo \in Int, m \in Nat, o \in Int :
        Good(t, h, f, B, lo, m, o)
  BY <1>2 DEF Inv
<1>4. /\ Control(t, m) /\ Locals(t, B, lo, m) /\ Chain(t, B, lo, m) /\ IndexOK(t, B, lo, m, o)
      /\ Claimed(t, h, f) /\ Stored(t, h, f, B, lo) /\ NoOther(t, h, f, B)
      /\ Flags(t, h, f, B, lo, m) /\ Before(t) \in Int /\ DataTypes
  BY <1>2, <1>3, GoodFacts
<1>5. PICK p \in Int : p = Before(t)
  BY <1>4
<1>6. \A b \in Blocks : emptyFlags'[b] = IF \E n \in p + 1 .. p + m : B[n] = b THEN {} ELSE emptyFlags[b]
  <2> TAKE b \in Blocks
  <2>1. Resets(b) <=> \E n \in p + 1 .. p + m : B[n] = b
    <3>1. step = "ready"
      BY <1>1
    <3>2. Resets(b) <=> \E n \in Before(t) + 1 .. Before(t) + m : B[n] = b
      BY <1>2, <1>3, <3>1, ResetIs
    <3> QED
      BY <1>5, <3>2
  <2> QED
    BY <1>1, <2>1 DEF Resets
<1>7. 0 \in Offsets /\ {} # Offsets
  <2>1. 0 \in Offsets
    BY Sizes DEF Offsets
  <2> QED
    BY <2>1
<1>8. /\ Shape' /\ HeaderTypes' /\ blockIndex' = blockIndex /\ pr_blockIndexSize' = pr_blockIndexSize
  BY <1>1, <1>2, HeadersSame
<1>9. Types'
  <2>1. emptyFlags' \in [Blocks -> SUBSET Offsets]
    BY <1>1, <1>4 DEF DataTypes
  <2>2. DataTypes'
    BY <1>1, <1>4, <2>1 DEF DataTypes
  <2>3. front' \in 0 .. pr_blockIndexSize - 1
    BY <1>1, <1>2, Simple
  <2> QED
    BY <1>1, <1>2, <1>8, <2>2, <2>3, StepTyped
<1>10. /\ InCall' /\ Waiting' = Waiting /\ Cleared' /\ ~Cleared /\ End(t)' = t /\ End(t) = t
       /\ Span' = Span /\ Entered(t, m)' = Entered(t, m) /\ UsedThen' = UsedThen
  <2>1. InCall' /\ Waiting' = Waiting /\ Cleared' /\ ~Cleared /\ End(t)' = t /\ End(t) = t
    BY <1>1 DEF InCall, Waiting, Cleared, End
  <2> QED
    BY <1>1, <1>2, <2>1 DEF Entered, UsedThen, Span
<1>11. Control(t, m)'
  BY <1>1, <1>4, <1>10 DEF Control, LastNum, InCall
<1>12. Locals(t, B, lo, m)'
  BY <1>1, <1>2, <1>4, <1>10 DEF Locals
<1>13. Chain(t, B, lo, m)'
  <2>1. excuses # {} => Dead(next[tailBlock])'
    <3> SUFFICES ASSUME excuses # {} PROVE Dead(next[tailBlock])'
      OBVIOUS
    <3>1. Dead(next[tailBlock]) /\ tailBlock # Null
      BY <1>4 DEF Chain
    <3>2. tailBlock \in 1 .. allocated /\ allocated <= MaxBlocks /\ allocated \in Nat /\ MaxBlocks \in Nat
          /\ next \in [Blocks -> Blocks]
      BY <1>2, <3>1, Simple, Kinds
    <3>3. next[tailBlock] \in Blocks
      BY <3>2 DEF Blocks
    <3> QED
      BY <1>1, <1>6, <1>7, <3>1, <3>3 DEF Dead
  <2> QED
    BY <1>1, <1>4, <2>1 DEF Chain
<1>14. IndexOK(t, B, lo, m, o)'
  BY <1>1, <1>4, <1>8, <1>10 DEF IndexOK
<1>15. Claimed(t, h, f)'
  <2>1. h <= t /\ t + Span' - h < IndexSize \div 2
    BY <1>4, <1>10 DEF Claimed
  <2> QED
    BY <1>1, <1>4, <2>1, ClaimedKept
<1>16. \A x : Undone(t, h, f, x)' <=> Undone(t, h, f, x)
  BY <1>1, <1>10 DEF Undone, InHand, consumerVars
<1>17. Stored(t, h, f, B, lo)' /\ NoOther(t, h, f, B)'
  BY <1>1, <1>4, <1>16 DEF Stored, NoOther
<1>18. Flags(t, h, f, B, lo, m)'
  <2> SUFFICES ASSUME NEW n \in lo .. p + m, NEW k \in Offsets
               PROVE  k \in emptyFlags'[B[n]] <=> Begins(n) + k < t /\ ~Undone(t, h, f, Begins(n) + k)
    BY <1>5, <1>16 DEF Flags
  <2>1. n \in Int /\ B[n] \in Blocks
    BY DEF Orders
  <2>2. CASE n <= p
    <3>1. ~ \E j \in p + 1 .. p + m : B[j] = B[n]
      <4> SUFFICES ASSUME NEW j \in p + 1 .. p + m, B[j] = B[n] PROVE FALSE
        OBVIOUS
      <4>1. j \in lo .. p + m /\ j # n
        BY <2>1, <2>2
      <4>2. \A i, l \in lo .. p + m : B[i] = B[l] => i = l
        BY <1>4, <1>5 DEF Chain
      <4> QED
        BY <4>1, <4>2
    <3>2. emptyFlags'[B[n]] = emptyFlags[B[n]]
      BY <1>6, <2>1, <3>1
    <3>3. k \in emptyFlags[B[n]] <=> Begins(n) + k < t /\ ~Undone(t, h, f, Begins(n) + k)
      BY <1>4, <1>5, <2>2 DEF Flags
    <3> QED
      BY <3>2, <3>3
  <2>3. CASE ~(n <= p)
    <3>1. n \in p + 1 .. p + m
      BY <2>1, <2>3
    <3>2. emptyFlags'[B[n]] = {}
      BY <1>6, <2>1, <3>1
    <3>3. ~(Begins(n) + k < t)
      <4>1. t <= Begins(p + 1) /\ Begins(p + 1) \in Int
        BY <1>5, BeforeFacts, BeginsFacts
      <4>2. Begins(p + 1) <= Begins(n) /\ Begins(n) \in Int
        <5>1. p + 1 \in Int /\ p + 1 <= n
          BY <2>1, <2>3
        <5> QED
          BY <2>1, <5>1, BeginsFacts
      <4>3. k \in Int /\ 0 <= k
        BY Sizes DEF Offsets
      <4> QED
        BY <4>1, <4>2, <4>3
    <3> QED
      BY <3>2, <3>3
  <2> QED
    BY <2>2, <2>3
<1>19. Seen(f, B)'
  <2>1. NotBefore(t, h, f, lo)
    BY <1>4 DEF Stored, NotBefore
  <2>2. \A n \in lo .. Before(t) : B[n] = B[n]
    OBVIOUS
  <2>3. Kept(B, lo, lo, Before(t)) /\ UNCHANGED consumerVars
    BY <1>1 DEF Kept
  <2> QED
    BY <1>2, <1>3, <2>1, <2>2, <2>3, SeenKept
<1>20. Good(t, h, f, B, lo, m, o)'
  BY <1>11, <1>12, <1>13, <1>14, <1>15, <1>17, <1>18, <1>19 DEF Good, Elems
<1> QED
  BY <1>9, <1>20, InvAgain

(* Each element of the call has a place of its own.                        *)
Puts(i, b, k) == i \in Elements /\ BlockFor(i) = b /\ i % BlockSize = k

(* Where an element of the call is put: in the block of its number.        *)
LEMMA PutsIs ==
  ASSUME Types, NEW t \in Int, NEW h \in Int, NEW f \in Firsts, NEW B \in Orders,
         NEW lo \in Int, NEW m \in Nat, NEW o \in Int, Good(t, h, f, B, lo, m, o),
         step \in {"construct", "place"}
  PROVE  /\ \A x \in Int : t <= x /\ x < t + count =>
              /\ Puts(Mod(x), B[Num(x)], x % BlockSize) /\ Num(x) \in lo .. Before(t) + m
         /\ \A i, b, k : Puts(i, b, k) =>
              \E x \in Int : /\ t <= x /\ x < t + count /\ i = Mod(x) /\ b = B[Num(x)]
                             /\ k = x % BlockSize /\ Num(x) \in lo .. Before(t) + m
<1>1. Control(t, m) /\ count \in Nat
  BY GoodFacts
<1>2. tailIndex = Mod(t) /\ count >= 1
  BY <1>1 DEF Control, InCall
<1>3. ASSUME NEW x \in Int, t <= x, x < t + count
      PROVE  /\ Puts(Mod(x), B[Num(x)], x % BlockSize) /\ Num(x) \in lo .. Before(t) + m
             /\ BlockFor(Mod(x)) = B[Num(x)] /\ Mod(x) % BlockSize = x % BlockSize
  <2>1. /\ Num(x) \in lo .. Before(t) + m /\ BlockFor(Mod(x)) = B[Num(x)] /\ Mod(x) \in Elements
    BY <1>3, CallElement
  <2>2. Mod(x) % BlockSize = x % BlockSize
    BY BaseIs
  <2> QED
    BY <2>1, <2>2 DEF Puts
<1>4. ASSUME NEW i, NEW b, NEW k, Puts(i, b, k)
      PROVE  \E x \in Int : /\ t <= x /\ x < t + count /\ i = Mod(x) /\ b = B[Num(x)]
                            /\ k = x % BlockSize /\ Num(x) \in lo .. Before(t) + m
  <2>1. i \in Elements /\ BlockFor(i) = b /\ i % BlockSize = k
    BY <1>4 DEF Puts
  <2>2. PICK x \in Int : t <= x /\ x < t + count /\ i = Mod(x)
    BY <1>1, <1>2, <2>1, ElementsAre
  <2> QED
    BY <1>3, <2>1, <2>2
<1> QED
  BY <1>3, <1>4

LEMMA SamePut ==
  ASSUME NEW t \in Int, NEW B \in Orders, NEW lo \in Int, NEW m \in Nat, Chain(t, B, lo, m),
         NEW x \in Int, NEW y \in Int, Num(x) \in lo .. Before(t) + m,
         Num(y) \in lo .. Before(t) + m, B[Num(x)] = B[Num(y)], x % BlockSize = y % BlockSize
  PROVE  x = y
<1>1. Num(x) = Num(y)
  BY DEF Chain
<1>2. x = Begins(Num(x)) + (x % BlockSize) /\ y = Begins(Num(y)) + (y % BlockSize)
  BY PlaceIs
<1> QED
  BY <1>1, <1>2

LEMMA ConstructIs ==
  ASSUME Types, NEW t \in Int, NEW h \in Int, NEW f \in Firsts, NEW B \in Orders,
         NEW lo \in Int, NEW m \in Nat, NEW o \in Int, Good(t, h, f, B, lo, m, o),
         Construct
  PROVE  /\ DataTypes'
         /\ \A x \in Int : t <= x /\ x < t + count => slot'[B[Num(x)]][x % BlockSize] = Mod(x)
         /\ \A b \in Blocks, k \in Offsets :
              \/ slot'[b][k] = slot[b][k]
              \/ \E x \in Int : /\ t <= x /\ x < t + count /\ b = B[Num(x)] /\ k = x % BlockSize
                                /\ Num(x) \in lo .. Before(t) + m
<1>1. /\ step \in {"construct", "place"} /\ UNCHANGED emptyFlags
      /\ slot' = [b \in Blocks |-> [k \in Offsets |->
           IF \E i \in Elements : BlockFor(i) = b /\ i % BlockSize = k
             THEN CHOOSE i \in Elements : BlockFor(i) = b /\ i % BlockSize = k
             ELSE slot[b][k]]]
  BY DEF Construct, ringVars
<1>2. Chain(t, B, lo, m) /\ DataTypes /\ TypeOK
  BY GoodFacts
<1>9. /\ \A x \in Int : t <= x /\ x < t + count =>
           Puts(Mod(x), B[Num(x)], x % BlockSize) /\ Num(x) \in lo .. Before(t) + m
      /\ \A i, b, k : Puts(i, b, k) =>
           \E x \in Int : /\ t <= x /\ x < t + count /\ i = Mod(x) /\ b = B[Num(x)]
                          /\ k = x % BlockSize /\ Num(x) \in lo .. Before(t) + m
  <2>1. step \in {"construct", "place"}
    BY <1>1
  <2> QED
    BY <2>1, PutsIs
<1> DEFINE C(b, k) == CHOOSE i \in Elements : BlockFor(i) = b /\ i % BlockSize = k
<1>3. \A b \in Blocks, k \in Offsets :
        slot'[b][k] = IF \E i : Puts(i, b, k) THEN C(b, k) ELSE slot[b][k]
  BY <1>1 DEF Puts
<1>4. \A b, k : (\E i : Puts(i, b, k)) => Puts(C(b, k), b, k)
  BY DEF Puts
<1> HIDE DEF C
<1>5. \A i \in Elements : i \in Index
  <2> SUFFICES ASSUME NEW k \in 0 .. count - 1 PROVE Plus(tailIndex, k) \in Index
    BY DEF Elements
  <2>1. tailIndex \in Int /\ k \in Int
    <3>1. tailIndex \in Index /\ count \in 0 .. MaxBulk /\ MaxBulk \in Nat
      BY <1>2, Simple, Kinds
    <3> QED
      BY <3>1, IndexIsInt
  <2> QED
    BY <2>1, CounterType
<1>6. DataTypes'
  <2>1. slot' \in [Blocks -> [Offsets -> Index \cup {Nothing}]]
    <3>1. slot \in [Blocks -> [Offsets -> Index \cup {Nothing}]]
      BY <1>2 DEF DataTypes
    <3>2. \A b \in Blocks, k \in Offsets : slot'[b][k] \in Index \cup {Nothing}
      <4> TAKE b \in Blocks, k \in Offsets
      <4>1. CASE \E i : Puts(i, b, k)
        <5>1. C(b, k) \in Elements
          BY <1>4, <4>1 DEF Puts
        <5> QED
          BY <1>3, <1>5, <4>1, <5>1
      <4>2. CASE ~ \E i : Puts(i, b, k)
        BY <1>3, <3>1, <4>2
      <4> QED
        BY <4>1, <4>2
    <3>3. /\ slot' = [b \in Blocks |-> slot'[b]]
          /\ \A b \in Blocks : slot'[b] = [k \in Offsets |-> slot'[b][k]]
      BY <1>1
    <3> QED
      BY <3>2, <3>3
  <2> QED
    BY <1>1, <1>2, <2>1 DEF DataTypes
<1>7. ASSUME NEW x \in Int, t <= x, x < t + count
      PROVE  slot'[B[Num(x)]][x % BlockSize] = Mod(x)
  <2>1. Puts(Mod(x), B[Num(x)], x % BlockSize) /\ Num(x) \in lo .. Before(t) + m
    BY <1>7, <1>9
  <2>2. PICK c : c = C(B[Num(x)], x % BlockSize) /\ Puts(c, B[Num(x)], x % BlockSize)
    BY <1>4, <2>1
  <2>3. PICK y \in Int : /\ c = Mod(y) /\ B[Num(x)] = B[Num(y)] /\ x % BlockSize = y % BlockSize
                         /\ Num(y) \in lo .. Before(t) + m
    BY <1>9, <2>2
  <2>4. x = y
    BY <1>2, <2>1, <2>3, SamePut
  <2>5. B[Num(x)] \in Blocks /\ x % BlockSize \in Offsets
    BY PlaceIs DEF Orders
  <2> QED
    BY <1>3, <2>1, <2>2, <2>3, <2>4, <2>5
<1>8. ASSUME NEW b \in Blocks, NEW k \in Offsets, slot'[b][k] # slot[b][k]
      PROVE  \E x \in Int : /\ t <= x /\ x < t + count /\ b = B[Num(x)] /\ k = x % BlockSize
                            /\ Num(x) \in lo .. Before(t) + m
  <2>1. PICK i : Puts(i, b, k)
    BY <1>3, <1>8
  <2> QED
    BY <1>9, <2>1
<1> QED
  BY <1>6, <1>7, <1>8

(* The elements are put in slots in which nothing was left.                *)
LEMMA ConstructStep ==
  ASSUME Inv, Construct
  PROVE  Inv'
<1>1. /\ step \in {"construct", "place"}
      /\ step' = (IF firstAllocated = Null \/ step = "place" THEN "publish"
                  ELSE IF bulk THEN "front" ELSE "entry")
      /\ UNCHANGED <<tailIndex, headIndex, tailBlock, next, allocated, emptyFlags, headers,
                     slotsUsed, front, bulk, count, startBlock, cur, firstAllocated,
                     originalFront, originalUsed, consumerVars, destroyed, sent, excuses>>
  BY DEF Construct, ringVars, indexVars, callVars, localVars, endVars
<1>2. Types /\ TypeOK /\ Shape /\ "bulk" \notin excuses /\ InCall
  BY <1>1 DEF Inv, Types, InCall
<1>3. PICK t \in Int, h \in Int, f \in Firsts, B \in Orders, lo \in Int, m \in Nat, o \in Int :
        Good(t, h, f, B, lo, m, o)
  BY <1>2 DEF Inv
<1>4. /\ Control(t, m) /\ Locals(t, B, lo, m) /\ Chain(t, B, lo, m) /\ IndexOK(t, B, lo, m, o)
      /\ Claimed(t, h, f) /\ Stored(t, h, f, B, lo) /\ NoOther(t, h, f, B)
      /\ Flags(t, h, f, B, lo, m) /\ Before(t) \in Int /\ count \in Nat
  BY <1>2, <1>3, GoodFacts
<1>5. /\ DataTypes'
      /\ \A x \in Int : t <= x /\ x < t + count => slot'[B[Num(x)]][x % BlockSize] = Mod(x)
      /\ \A b \in Blocks, k \in Offsets :
           \/ slot'[b][k] = slot[b][k]
           \/ \E x \in Int : /\ t <= x /\ x < t + count /\ b = B[Num(x)] /\ k = x % BlockSize
                             /\ Num(x) \in lo .. Before(t) + m
  BY <1>2, <1>3, ConstructIs
<1>6. /\ Shape' /\ HeaderTypes' /\ blockIndex' = blockIndex /\ pr_blockIndexSize' = pr_blockIndexSize
  BY <1>1, <1>2, HeadersSame
<1>7. Types'
  <2>1. front' \in 0 .. pr_blockIndexSize - 1
    BY <1>1, <1>2, Simple
  <2>2. step' \in {"construct", "entry", "front", "enter", "store", "place", "publish"}
    BY <1>1
  <2> QED
    BY <1>1, <1>2, <1>5, <1>6, <2>1, <2>2, StepTyped
<1>8. /\ step' \in {"publish", "front", "entry"}
      /\ step' = "entry" => ~bulk /\ step = "construct"
      /\ step' \in {"front", "entry"} => firstAllocated # Null
      /\ ~bulk /\ step = "construct" /\ step' # "entry" => firstAllocated = Null
  BY <1>1
<1>9. /\ InCall' /\ Cleared' /\ Cleared /\ End(t)' = t + count /\ End(t) = t
      /\ Span' = Span /\ (Waiting' => Waiting)
  <2>1. InCall' /\ Cleared' /\ Cleared
    BY <1>1, <1>8 DEF InCall, Cleared
  <2> QED
    BY <1>1, <1>2, <1>8, <2>1 DEF Waiting, End, Span
<1>10. (m = 0 <=> firstAllocated = Null) /\ (m = 0 => slotsUsed = originalUsed)
  BY <1>2, <1>4 DEF Locals
<1>11. Entered(t, m)' = Entered(t, m) /\ UsedThen' = UsedThen
  <2>1. CASE Waiting' <=> Waiting
    BY <1>1, <2>1 DEF Entered, UsedThen
  <2>2. CASE ~(Waiting' <=> Waiting)
    <3>1. Waiting /\ ~Waiting' /\ ~bulk /\ step = "construct" /\ step' # "entry"
      BY <1>1, <1>9, <2>2 DEF Waiting
    <3>2. m = 0 /\ slotsUsed = originalUsed
      BY <1>8, <1>10, <3>1
    <3> QED
      BY <1>1, <1>4, <3>1, <3>2 DEF Entered, UsedThen
  <2> QED
    BY <2>1, <2>2
<1>12. Control(t, m)'
  <2>1. LastNum(t)' = LastNum(t)
    BY <1>1 DEF LastNum
  <2>2. step' \in {"entry", "front"} => m >= 1
    BY <1>8, <1>10
  <2>3. Before(t) + m = LastNum(t)
    BY <1>1, <1>4 DEF Control
  <2> QED
    BY <1>1, <1>2, <1>4, <1>8, <1>9, <2>1, <2>2, <2>3 DEF Control
<1>13. Locals(t, B, lo, m)'
  BY <1>1, <1>2, <1>4, <1>9 DEF Locals
<1>14. Chain(t, B, lo, m)'
  BY <1>1, <1>4 DEF Chain, Dead
<1>15. IndexOK(t, B, lo, m, o)'
  BY <1>1, <1>4, <1>6, <1>11 DEF IndexOK
<1>16. h <= t
  BY <1>4 DEF Claimed
<1>17. Claimed(t, h, f)'
  <2>1. t + Span' - h < IndexSize \div 2
    BY <1>4, <1>9 DEF Claimed
  <2> QED
    BY <1>1, <1>4, <1>16, <2>1, ClaimedKept
<1>18. \A x \in Int : Undone(t, h, f, x)' <=> Undone(t, h, f, x) \/ (t <= x /\ x < t + count)
  <2> TAKE x \in Int
  <2>1. Undone(t, h, f, x)' <=> x < t + count /\ (h <= x \/ \E c \in Consumers : InHand(f, c, x))
    BY <1>1, <1>9 DEF Undone, InHand, consumerVars
  <2>2. Undone(t, h, f, x) <=> x < t /\ (h <= x \/ \E c \in Consumers : InHand(f, c, x))
    BY <1>9 DEF Undone
  <2>3. t <= x => h <= x
    BY <1>16
  <2>4. x < t => x < t + count
    BY <1>4
  <2> QED
    BY <2>1, <2>2, <2>3, <2>4
<1>19. Stored(t, h, f, B, lo)'
  <2> SUFFICES ASSUME NEW x \in Int, Undone(t, h, f, x)'
               PROVE  Num(x) >= lo /\ slot'[B[Num(x)]][x % BlockSize] = Mod(x)
    BY DEF Stored
  <2>1. CASE t <= x /\ x < t + count
    <3>1. Num(x) \in lo .. Before(t) + m
      BY <1>1, <1>2, <1>3, <2>1, PutsIs
    <3> QED
      BY <1>4, <1>5, <2>1, <3>1
  <2>2. CASE ~(t <= x /\ x < t + count)
    <3>1. Undone(t, h, f, x) /\ x < t
      BY <1>9, <1>18, <2>2 DEF Undone
    <3>2. Num(x) \in lo .. Before(t) + m /\ slot[B[Num(x)]][x % BlockSize] = Mod(x) /\ Num(x) >= lo
      BY <1>2, <1>4, <3>1, UndoneFacts DEF Stored
    <3>3. B[Num(x)] \in Blocks /\ x % BlockSize \in Offsets
      BY PlaceIs DEF Orders
    <3>4. slot'[B[Num(x)]][x % BlockSize] = slot[B[Num(x)]][x % BlockSize]
      <4> SUFFICES ASSUME NEW y \in Int, t <= y, B[Num(x)] = B[Num(y)],
                          x % BlockSize = y % BlockSize, Num(y) \in lo .. Before(t) + m
                   PROVE  FALSE
        BY <1>5, <3>3
      <4>1. x = y
        BY <1>4, <3>2, SamePut
      <4> QED
        BY <3>1, <4>1
    <3> QED
      BY <3>2, <3>4
  <2> QED
    BY <2>1, <2>2
<1>20. NoOther(t, h, f, B)'
  <2> SUFFICES ASSUME NEW b \in Blocks, NEW k \in Offsets, slot'[b][k] # Nothing
               PROVE  \E x \in Int : Undone(t, h, f, x)' /\ B[Num(x)] = b /\ x % BlockSize = k
    BY DEF NoOther
  <2>1. CASE slot'[b][k] = slot[b][k]
    <3>1. PICK x \in Int : Undone(t, h, f, x) /\ B[Num(x)] = b /\ x % BlockSize = k
      BY <1>4, <2>1 DEF NoOther
    <3> QED
      BY <1>18, <3>1
  <2>2. CASE slot'[b][k] # slot[b][k]
    BY <1>5, <1>18, <2>2
  <2> QED
    BY <2>1, <2>2
<1>21. Flags(t, h, f, B, lo, m)'
  <2> SUFFICES ASSUME NEW n \in lo .. Before(t) + m, NEW k \in Offsets
               PROVE  k \in emptyFlags[B[n]] <=> Begins(n) + k < t /\ ~Undone(t, h, f, Begins(n) + k)'
    BY <1>1 DEF Flags
  <2>1. PICK x \in Int : x = Begins(n) + k
    <3>1. n \in Int
      BY <1>4
    <3> QED
      BY <3>1, ElementAt
  <2>2. k \in emptyFlags[B[n]] <=> x < t /\ ~Undone(t, h, f, x)
    BY <1>4, <1>9, <2>1 DEF Flags
  <2>3. x < t => (Undone(t, h, f, x)' <=> Undone(t, h, f, x))
    BY <1>18
  <2> QED
    BY <2>1, <2>2, <2>3
<1>22. Seen(f, B)'
  <2>1. NotBefore(t, h, f, lo)
    BY <1>4 DEF Stored, NotBefore
  <2>2. \A n \in lo .. Before(t) : B[n] = B[n]
    OBVIOUS
  <2>3. Kept(B, lo, lo, Before(t)) /\ UNCHANGED consumerVars
    BY <1>1 DEF Kept
  <2> QED
    BY <1>2, <1>3, <2>1, <2>2, <2>3, SeenKept
<1>23. Good(t, h, f, B, lo, m, o)'
  BY <1>12, <1>13, <1>14, <1>15, <1>17, <1>19, <1>20, <1>21, <1>22 DEF Good, Elems
<1> QED
  BY <1>7, <1>23, InvAgain

(* A step on the index, with the elements in their slots or not yet.       *)
LEMMA LateStep ==
  ASSUME Types, "bulk" \notin excuses, NEW t \in Int, NEW h \in Int, NEW f \in Firsts,
         NEW B \in Orders, NEW lo \in Int, NEW m \in Nat, NEW o \in Int,
         Good(t, h, f, B, lo, m, o), m >= 1,
         \/ step = "entry" /\ step' = "front"
         \/ step = "front" /\ step' = "publish"
         \/ step = "enter" /\ step' = "store"
         \/ step = "store" /\ step' = "place",
         UNCHANGED <<ringVars, slotsUsed, localVars, restVars>>,
         Shape', HeaderTypes', headers' # <<>>, Len(headers') = Len(headers),
         pr_blockIndexSize' = pr_blockIndexSize, front' \in 0 .. pr_blockIndexSize - 1,
         IndexOK(t, B, lo, m, o)', Kept(B, lo, lo, Before(t))
  PROVE  Inv'
<1>1. UNCHANGED <<tailIndex, headIndex, tailBlock, next, allocated, emptyFlags, slot, slotsUsed,
                  bulk, count, startBlock, cur, firstAllocated, originalFront, originalUsed,
                  consumerVars, destroyed, sent, excuses>>
  BY DEF ringVars, localVars, restVars, callVars, endVars
<1>2. /\ TypeOK /\ Control(t, m) /\ Locals(t, B, lo, m) /\ Chain(t, B, lo, m)
      /\ Claimed(t, h, f) /\ Elems(t, h, f, B, lo, m) /\ Stored(t, h, f, B, lo)
      /\ Before(t) \in Int /\ DataTypes
  BY GoodFacts
<1>3. /\ InCall /\ InCall' /\ ~Waiting' /\ Cleared /\ Cleared' /\ End(t)' = End(t) /\ Span' = Span
  BY <1>1 DEF InCall, Waiting, Cleared, End, Span
<1>4. Types'
  <2>1. DataTypes'
    BY <1>1, <1>2 DEF DataTypes
  <2>2. step' \in {"construct", "entry", "front", "enter", "store", "place", "publish"}
    OBVIOUS
  <2> QED
    BY <1>1, <2>1, <2>2, StepTyped
<1>5. Control(t, m)'
  <2>1. LastNum(t)' = LastNum(t)
    BY <1>1 DEF LastNum
  <2>2. Before(t) + m = LastNum(t)
    BY <1>2 DEF Control
  <2> QED
    BY <1>1, <1>2, <1>3, <2>1, <2>2 DEF Control
<1>6. Locals(t, B, lo, m)'
  BY <1>1, <1>2, <1>3 DEF Locals
<1>7. Chain(t, B, lo, m)'
  BY <1>1, <1>2 DEF Chain, Dead
<1>8. Claimed(t, h, f)'
  <2>1. h <= t /\ t + Span' - h < IndexSize \div 2
    BY <1>2, <1>3 DEF Claimed
  <2> QED
    BY <1>1, <1>2, <2>1, ClaimedKept
<1>9. NotBefore(t, h, f, lo)
  BY <1>2 DEF Stored, NotBefore
<1>10. Elems(t, h, f, B, lo, m)'
  <2>1. m <= m /\ lo <= lo /\ \A n \in lo .. Before(t) + m : B[n] = B[n]
    OBVIOUS
  <2> QED
    BY <1>1, <1>2, <1>3, <1>9, <2>1, ElemsKept
<1>11. Seen(f, B)'
  <2>1. \A n \in lo .. Before(t) : B[n] = B[n]
    OBVIOUS
  <2> QED
    BY <1>1, <1>9, <2>1, SeenKept
<1>12. Good(t, h, f, B, lo, m, o)'
  BY <1>5, <1>6, <1>7, <1>8, <1>10, <1>11 DEF Good
<1> QED
  BY <1>4, <1>12, InvAgain

(* enqueue(): the entry of the new block, after its element or before it.  *)
LEMMA WriteEntryStep ==
  ASSUME Inv, WriteEntry
  PROVE  Inv'
<1>1. /\ \/ step = "entry" /\ step' = "front"
         \/ step = "enter" /\ step' = "store"
      /\ headers' = [headers EXCEPT ![Len(headers)].entries[front] =
                       [b |-> tailIndex, block |-> tailBlock]]
      /\ front' = Slot(front + 1)
      /\ UNCHANGED <<ringVars, slotsUsed, localVars, restVars>>
  BY DEF WriteEntry
<1>2. Types /\ TypeOK /\ Shape /\ "bulk" \notin excuses /\ InCall /\ bulk' = bulk
  BY <1>1 DEF Inv, Types, InCall, restVars, callVars
<1>3. PICK t \in Int, h \in Int, f \in Firsts, B \in Orders, lo \in Int, m \in Nat, o \in Int :
        Good(t, h, f, B, lo, m, o)
  BY <1>2 DEF Inv
<1>4. /\ Control(t, m) /\ Locals(t, B, lo, m) /\ Chain(t, B, lo, m) /\ IndexOK(t, B, lo, m, o)
      /\ Before(t) \in Int /\ slotsUsed \in Nat
  BY <1>2, <1>3, GoodFacts
<1>5. ~bulk /\ m >= 1 /\ Before(t) + m = LastNum(t) /\ tailIndex = Mod(t)
  BY <1>1, <1>4 DEF Control
<1>6. m = 1 /\ LastNum(t) = Num(t)
  BY <1>2, <1>4, <1>5, SingleCall
<1>7. PICK e \in Int, u \in Nat, v \in Nat, z \in Nat :
        /\ e = Before(t) + 1 /\ u = slotsUsed /\ v = originalUsed /\ z = pr_blockIndexSize
        /\ u <= z
  <2>1. originalUsed \in Nat /\ slotsUsed <= pr_blockIndexSize
    BY <1>2, <1>4, CountFacts
  <2>2. pr_blockIndexSize \in Nat
    BY <1>2, SizeIs
  <2> QED
    BY <1>4, <2>1, <2>2
<1>8. tailIndex = Blk(e)
  <2>1. AtBase(t)
    BY <1>4, <1>5, <1>6, AtBaseIs
  <2> QED
    BY <1>5, <1>7, <2>1 DEF AtBase, Begins, Blk
<1>9. Waiting /\ ~Waiting' /\ Entered(t, m) = Before(t) /\ UsedThen = v
      /\ Entered(t, m)' = e /\ UsedThen' = u
  <2>1. Waiting /\ ~Waiting'
    BY <1>1, <1>5 DEF Waiting
  <2> QED
    BY <1>1, <1>6, <1>7, <2>1 DEF Entered, UsedThen
<1>10. lo <= e /\ e - lo + 1 <= u /\ tailBlock = B[e]
  BY <1>4, <1>6, <1>7 DEF Chain
<1>11. u <= v + 1
  BY <1>2, <1>4, <1>5, <1>7 DEF Locals
<1>12. headers # <<>>
  BY <1>2, <1>3, <1>5, HasUsed
<1>13. e - lo < z
  BY <1>7, <1>10
<1>14. Enters(t, B, lo, m, B, lo, e)
  <2>1. headers' = [headers EXCEPT ![Len(headers)].entries[front] = EntryFor(B, e)]
    BY <1>1, <1>8, <1>10 DEF EntryFor
  <2>2. e = Entered(t, m) + 1 /\ lo <= lo /\ e - lo < pr_blockIndexSize
        /\ \A n \in lo .. e - 1 : B[n] = B[n]
    BY <1>7, <1>9, <1>13
  <2> QED
    BY <1>1, <2>1, <2>2 DEF Enters
<1>15. /\ Shape' /\ HeaderTypes' /\ headers' # <<>> /\ Len(headers') = Len(headers)
       /\ pr_blockIndexSize' = pr_blockIndexSize /\ front' \in 0 .. pr_blockIndexSize - 1
       /\ front' = (e + 1 - o) % Size(blockIndex')
       /\ \A n \in e - UsedThen .. e :
            e - n < pr_blockIndexSize => Listed(blockIndex', o, n)
       /\ \A n \in lo .. e : At(blockIndex', o, n).block = B[n]
       /\ Linear(blockIndex', o)
       /\ \A i \in 1 .. Len(headers') - 1 : \E k \in Int : Linear(headers'[i], k)
       /\ Kept(B, lo, lo, Before(t))
  <2>1. Types /\ Good(t, h, f, B, lo, m, o) /\ headers # <<>>
    BY <1>2, <1>3, <1>12
  <2> QED
    BY ONLY <1>14, <2>1, EntryWritten, f \in Firsts, B \in Orders, t \in Int, h \in Int,
            lo \in Int, m \in Nat, o \in Int, e \in Int
<1>16. \A n \in e - u + 1 .. e : Listed(blockIndex', o, n)
  <2> TAKE n \in e - u + 1 .. e
  <2>1. n \in e - v .. e /\ e - n < z
    BY ONLY <1>7, <1>11, e \in Int, u \in Nat, v \in Nat, z \in Nat, n \in e - u + 1 .. e
  <2> QED
    BY <1>7, <1>9, <1>15, <2>1
<1>17. IndexOK(t, B, lo, m, o)'
  BY <1>9, <1>15, <1>16 DEF IndexOK
<1> QED
  BY <1>1, <1>2, <1>3, <1>5, <1>15, <1>17, LateStep

(* The header gets the front that the entries of the call have moved.      *)
LEMMA StoreFrontStep ==
  ASSUME Inv, StoreFront
  PROVE  Inv'
<1>1. /\ \/ step = "front" /\ step' = "publish"
         \/ step = "store" /\ step' = "place"
      /\ headers' = [headers EXCEPT ![Len(headers)].front = Slot(front - 1)]
      /\ UNCHANGED <<ringVars, slotsUsed, front, localVars, restVars>>
  BY DEF StoreFront
<1>2. Types /\ TypeOK /\ Shape /\ HeaderTypes /\ "bulk" \notin excuses /\ InCall
  BY <1>1, HeaderTypesAre DEF Inv, Types, InCall
<1>3. PICK t \in Int, h \in Int, f \in Firsts, B \in Orders, lo \in Int, m \in Nat, o \in Int :
        Good(t, h, f, B, lo, m, o)
  BY <1>2 DEF Inv
<1>4. Control(t, m) /\ IndexOK(t, B, lo, m, o) /\ Len(headers) \in Nat
  BY <1>2, <1>3, GoodFacts
<1>5. m >= 1
  BY <1>1, <1>4 DEF Control
<1>6. headers # <<>>
  BY <1>2, <1>3, <1>5, HasUsed
<1>7. PICK p \in 0 .. Size(blockIndex) - 1 : p = Slot(front - 1)
  <2>1. PICK N \in Nat \ {0} : N = Size(blockIndex) /\ N = pr_blockIndexSize
    BY <1>2, <1>6, LatestFacts
  <2>2. front \in 0 .. pr_blockIndexSize - 1
    BY <1>2, Simple
  <2>3. PICK a \in Int : a = front - 1
    BY <2>1, <2>2
  <2>4. a % N \in 0 .. N - 1
    BY CongMod
  <2> QED
    BY <2>1, <2>3, <2>4 DEF Slot
<1>8. /\ Shape' /\ HeaderTypes' /\ headers' # <<>> /\ Len(headers') = Len(headers)
      /\ \A i \in 1 .. Len(headers) : headers'[i].entries = headers[i].entries
      /\ blockIndex'.entries = blockIndex.entries
      /\ Size(blockIndex') = Size(blockIndex) /\ pr_blockIndexSize' = pr_blockIndexSize
  <2>1. headers' = [headers EXCEPT ![Len(headers)].front = p]
    BY <1>1, <1>7
  <2> QED
    BY <1>2, <1>6, <2>1, FrontPut
<1>9. ~Waiting /\ ~Waiting' /\ Entered(t, m)' = Entered(t, m) /\ UsedThen' = UsedThen
  <2>1. ~Waiting /\ ~Waiting'
    BY <1>1 DEF Waiting
  <2> QED
    BY <1>1, <2>1 DEF Entered, UsedThen
<1>10. IndexOK(t, B, lo, m, o)'
  <2>1. /\ front = (Entered(t, m) + 1 - o) % Size(blockIndex)
        /\ \A n \in Entered(t, m) - UsedThen + 1 .. Entered(t, m) : Listed(blockIndex, o, n)
        /\ \A n \in lo .. Entered(t, m) : At(blockIndex, o, n).block = B[n]
        /\ Linear(blockIndex, o)
        /\ \A i \in 1 .. Len(headers) - 1 : \E k \in Int : Linear(headers[i], k)
    BY <1>4, <1>6 DEF IndexOK
  <2>2. \A n : At(blockIndex', o, n) = At(blockIndex, o, n)
    BY <1>8 DEF At
  <2>3. \A n : Listed(blockIndex', o, n) <=> Listed(blockIndex, o, n)
    BY <2>2 DEF Listed
  <2>4. Linear(blockIndex', o)
    BY <1>8, <2>1 DEF Linear
  <2>5. \A i \in 1 .. Len(headers') - 1 : \E k \in Int : Linear(headers'[i], k)
    <3> TAKE i \in 1 .. Len(headers') - 1
    <3>1. i \in 1 .. Len(headers) - 1 /\ i \in 1 .. Len(headers)
      BY <1>4, <1>8
    <3>2. headers'[i].entries = headers[i].entries
      BY <1>8, <3>1
    <3>3. PICK k \in Int : Linear(headers[i], k)
      BY <2>1, <3>1
    <3>4. Linear(headers'[i], k)
      BY <3>2, <3>3 DEF Linear, Size
    <3> QED
      BY <3>4
  <2>6. /\ front' = (Entered(t, m)' + 1 - o) % Size(blockIndex')
        /\ \A n \in Entered(t, m)' - UsedThen' + 1 .. Entered(t, m)' : Listed(blockIndex', o, n)
        /\ \A n \in lo .. Entered(t, m)' : At(blockIndex', o, n).block = B[n]
    BY <1>1, <1>8, <1>9, <2>1, <2>2, <2>3
  <2> QED
    BY <1>8, <2>4, <2>5, <2>6 DEF IndexOK
<1>11. Kept(B, lo, lo, Before(t))
  BY <1>8 DEF Kept
<1>12. front' \in 0 .. pr_blockIndexSize - 1
  BY <1>1, <1>2, Simple
<1>13. UNCHANGED <<ringVars, slotsUsed, localVars, restVars>>
  BY <1>1
<1> QED
  BY <1>1, <1>2, <1>3, <1>5, <1>8, <1>10, <1>11, <1>12, <1>13, LateStep

LEMMA PublishTyped ==
  ASSUME Types, Publish, "bulk" \notin excuses, sent + count <= MaxSent
  PROVE  Types'
<1>1. /\ step' = "idle" /\ bulk' = FALSE /\ count' = 0 /\ cur' = 0
      /\ startBlock' = Null /\ firstAllocated' = Null /\ originalFront' = 0 /\ originalUsed' = 0
      /\ tailIndex' = Plus(tailIndex, count) /\ sent' = sent + count
      /\ UNCHANGED <<headIndex, tailBlock, next, allocated, emptyFlags, slot, headers, slotsUsed,
                     front, consumerVars, destroyed, excuses>>
  BY DEF Publish, Leave, ringVars, indexVars
<1>2. TypeOK /\ Shape
  BY DEF Types
<1>3. /\ Shape' /\ HeaderTypes' /\ Len(headers) \in Nat /\ Len(headers') \in Nat
      /\ Len(headers) <= Len(headers') /\ pr_blockIndexSize' = pr_blockIndexSize
  BY <1>1, <1>2, HeadersSame
<1>4. DataTypes'
  BY <1>1, <1>2, DataStays
<1>5. /\ {tailIndex, cur} \subseteq Index
      /\ {tailBlock, startBlock, firstAllocated} \subseteq 1 .. allocated \cup {Null}
      /\ allocated \in 0 .. MaxBlocks /\ next \in [Blocks -> Blocks]
      /\ {slotsUsed, originalUsed} \subseteq 0 .. pr_blockIndexSize
      /\ {front, originalFront} \subseteq 0 .. pr_blockIndexSize - 1
      /\ bulk \in BOOLEAN /\ count \in 0 .. MaxBulk /\ destroyed \subseteq Blocks \X Offsets
      /\ sent \in 0 .. MaxSent /\ excuses \subseteq {"bulk", "single"}
  BY <1>2, Simple
<1>6. MaxBulk \in Nat /\ IndexSize \in Nat \ {0} /\ MaxSent \in Nat
      /\ pr_blockIndexSize \in Nat \ {0}
  BY <1>2, Kinds, Sizes, SizeIs
<1>7. 0 \in Index /\ 0 \in 0 .. MaxBulk /\ 0 \in 0 .. pr_blockIndexSize
      /\ 0 \in 0 .. pr_blockIndexSize - 1
  BY <1>6 DEF Index
<1>8. {tailIndex', cur'} \subseteq Index
  <2>1. tailIndex \in Int /\ count \in Int
    BY <1>5, <1>6, IndexIsInt
  <2> QED
    BY <1>1, <1>7, <2>1, CounterType
<1>9. sent' \in 0 .. MaxSent
  <2>1. sent \in Nat /\ count \in Nat
    BY <1>5, <1>6
  <2> QED
    BY <1>1, <1>6, <2>1
<1>10. TypeOK'
  <2>1. {tailBlock', startBlock', firstAllocated'} \subseteq 1 .. allocated' \cup {Null}
    BY <1>1, <1>5
  <2>2. {slotsUsed', originalUsed'} \subseteq 0 .. pr_blockIndexSize'
        /\ {front', originalFront'} \subseteq 0 .. pr_blockIndexSize' - 1
    BY <1>1, <1>3, <1>5, <1>7
  <2>3. /\ step' \in {"idle", "ahead", "room", "grow", "block", "ready", "construct",
                      "entry", "front", "enter", "store", "place", "publish", "gone"}
        /\ bulk' \in BOOLEAN
        /\ count' \in 0 .. MaxBulk /\ excuses' \subseteq {"bulk", "single"}
        /\ allocated' \in 0 .. MaxBlocks /\ next' \in [Blocks -> Blocks]
        /\ destroyed' \subseteq Blocks \X Offsets /\ UNCHANGED <<headIndex, consumerVars>>
    BY <1>1, <1>5, <1>7
  <2> QED
    BY <1>2, <1>3, <1>4, <1>8, <1>9, <2>1, <2>2, <2>3, ProducerTyped
<1>11. UNCHANGED consumerVars /\ step' # "gone" /\ ("bulk" \in excuses' => FALSE)
  BY <1>1
<1> QED
  BY <1>3, <1>10, <1>11, TypesKept

(* The tail moves over the elements, which are all there.                  *)
LEMMA PublishStep ==
  ASSUME Inv, Publish
  PROVE  Inv'
<1>1. /\ step = "publish" /\ step' = "idle" /\ bulk' = FALSE /\ count' = 0 /\ firstAllocated' = Null
      /\ tailIndex' = Plus(tailIndex, count) /\ sent' = sent + count
      /\ UNCHANGED <<headIndex, tailBlock, next, allocated, emptyFlags, slot, headers, slotsUsed,
                     front, consumerVars, destroyed, excuses>>
  BY DEF Publish, Leave, ringVars, indexVars
<1>2. Types /\ TypeOK /\ Shape /\ "bulk" \notin excuses /\ InCall
  BY <1>1 DEF Inv, Types, InCall
<1>3. PICK t \in Int, h \in Int, f \in Firsts, B \in Orders, lo \in Int, m \in Nat, o \in Int :
        Good(t, h, f, B, lo, m, o)
  BY <1>2 DEF Inv
<1>4. /\ Control(t, m) /\ Chain(t, B, lo, m) /\ IndexOK(t, B, lo, m, o)
      /\ Claimed(t, h, f) /\ Stored(t, h, f, B, lo) /\ NoOther(t, h, f, B)
      /\ Flags(t, h, f, B, lo, m) /\ Before(t) \in Int /\ count \in Nat
  BY <1>2, <1>3, GoodFacts
<1>5. tailIndex = Mod(t) /\ count >= 1 /\ sent + count <= MaxSent /\ Before(t) + m = LastNum(t)
  BY <1>1, <1>2, <1>4 DEF Control
<1>6. Types'
  BY <1>2, <1>5, PublishTyped
<1>7. PICK c \in Nat, s \in Int, p \in Int, hi \in Int :
        /\ c = count /\ s = t + c /\ p = Before(t) /\ hi = p + m /\ Before(s) = hi
        /\ hi = LastNum(t)
  <2>1. LastNum(t) = Before(t + count)
    BY <1>4, <1>5, LastFacts
  <2> QED
    BY <1>4, <1>5, <2>1
<1>8. lo <= hi /\ lo <= hi + 1
  <2>1. lo <= p + 1 /\ (~AtBase(t) => lo <= p)
    BY <1>4, <1>7 DEF Chain
  <2>2. CASE m = 0
    <3>1. LastNum(t) = Before(t)
      BY <1>7, <2>2
    <3>2. ~AtBase(t)
      BY <1>4, <1>5, <3>1, LastFacts
    <3> QED
      BY <1>7, <2>1, <2>2, <3>2
  <2>3. CASE m # 0
    BY <1>7, <2>1, <2>3
  <2> QED
    BY <2>2, <2>3
<1>9. /\ ~InCall' /\ ~Waiting /\ ~Waiting' /\ Cleared /\ ~Cleared' /\ End(t) = s /\ End(s)' = s
      /\ Span = c /\ Span' = 0 /\ Entered(t, m) = hi /\ Entered(s, 0)' = hi
      /\ UsedThen = slotsUsed /\ UsedThen' = slotsUsed
  <2>1. ~InCall' /\ ~Waiting /\ ~Waiting' /\ Cleared /\ ~Cleared'
    BY <1>1 DEF InCall, Waiting, Cleared
  <2> QED
    BY <1>1, <1>2, <1>7, <2>1 DEF End, Span, Entered, UsedThen
<1>10. Control(s, 0)'
  <2>1. tailIndex' = Mod(s)
    BY <1>1, <1>5, <1>7, ModFacts
  <2> QED
    BY <1>1, <1>9, <2>1 DEF Control
<1>11. Locals(s, B, lo, 0)'
  BY <1>9 DEF Locals
<1>12. Chain(s, B, lo, 0)'
  <2>1. hi + 0 = hi
    OBVIOUS
  <2>2. /\ hi - lo + 1 <= slotsUsed /\ slotsUsed <= allocated
        /\ \A n \in lo .. hi : B[n] \in 1 .. allocated
        /\ \A n, k \in lo .. hi : B[n] = B[k] => n = k
        /\ \A n \in lo .. hi - 1 : next[B[n]] = B[n + 1]
        /\ lo <= hi => tailBlock = B[hi]
        /\ \A b \in 1 .. allocated : next[b] \in 1 .. allocated
        /\ tailBlock = Null <=> allocated = 0
        /\ excuses = {} =>
             lo = hi - slotsUsed + 1 /\ slotsUsed = allocated /\ (lo <= hi => next[B[hi]] = B[lo])
        /\ excuses # {} =>
             /\ tailBlock # Null /\ Dead(next[tailBlock])
             /\ \A n \in lo .. hi : B[n] # next[tailBlock]
    BY <1>4, <1>7 DEF Chain
  <2>3. Dead(next[tailBlock])' <=> Dead(next[tailBlock])
    BY <1>1 DEF Dead
  <2> QED
    BY <1>1, <1>7, <1>8, <2>1, <2>2, <2>3 DEF Chain
<1>13. Shape' /\ blockIndex' = blockIndex
  BY <1>1, <1>2, HeadersSame
<1>14. IndexOK(s, B, lo, 0, o)'
  BY <1>1, <1>4, <1>9, <1>13 DEF IndexOK
<1>15. Claimed(s, h, f)'
  <2>1. h <= t /\ t + Span - h < IndexSize \div 2
    BY <1>4 DEF Claimed
  <2>2. t + c - h < IndexSize \div 2
    BY <1>9, <2>1
  <2>3. h <= s /\ s + 0 - h < IndexSize \div 2
    BY <1>7, <2>1, <2>2
  <2> QED
    BY <1>1, <1>4, <1>9, <2>3, ClaimedKept
<1>16. \A x : Undone(s, h, f, x)' <=> Undone(t, h, f, x)
  BY <1>1, <1>9 DEF Undone, InHand, consumerVars
<1>17. Stored(s, h, f, B, lo)' /\ NoOther(s, h, f, B)'
  BY <1>1, <1>4, <1>16 DEF Stored, NoOther
<1>18. Flags(s, h, f, B, lo, 0)'
  <2> SUFFICES ASSUME NEW n \in lo .. hi, NEW k \in Offsets
               PROVE  k \in emptyFlags[B[n]] <=> Begins(n) + k < s /\ ~Undone(t, h, f, Begins(n) + k)
    BY <1>1, <1>7, <1>9, <1>16 DEF Flags
  <2>1. PICK x \in Int : x = Begins(n) + k
    <3>1. n \in Int
      OBVIOUS
    <3> QED
      BY <3>1, ElementAt
  <2>2. k \in emptyFlags[B[n]] <=> x < t /\ ~Undone(t, h, f, x)
    BY <1>4, <1>7, <1>9, <2>1 DEF Flags
  <2>3. t <= x /\ x < s => Undone(t, h, f, x)
    <3>1. h <= t
      BY <1>4 DEF Claimed
    <3> QED
      BY <1>9, <3>1 DEF Undone
  <2>4. x < t => x < s
    BY <1>7
  <2> QED
    BY <2>1, <2>2, <2>3, <2>4
<1>19. Seen(f, B)'
  <2>1. NotBefore(t, h, f, lo)
    BY <1>4 DEF Stored, NotBefore
  <2>2. \A n \in lo .. Before(t) : B[n] = B[n]
    OBVIOUS
  <2>3. Kept(B, lo, lo, Before(t)) /\ UNCHANGED consumerVars
    BY <1>1 DEF Kept
  <2> QED
    BY <1>2, <1>3, <2>1, <2>2, <2>3, SeenKept
<1>20. 0 \in Nat
  OBVIOUS
<1>21. Good(s, h, f, B, lo, 0, o)'
  BY <1>10, <1>11, <1>12, <1>14, <1>15, <1>17, <1>18, <1>19 DEF Good, Elems
<1> QED
  BY <1>6, <1>20, <1>21, InvAgain

--------------------------------------------------------------------------------
(* The ring and the index between two calls, none of which has failed      *)
(* half-way.                                                               *)
LEMMA RestFacts ==
  ASSUME Types, NEW t \in Int, NEW h \in Int, NEW f \in Firsts, NEW B \in Orders,
         NEW lo \in Int, NEW m \in Nat, NEW o \in Int, Good(t, h, f, B, lo, m, o),
         step = "idle", excuses = {}
  PROVE  /\ Entered(t, m) = Before(t) /\ UsedThen = slotsUsed /\ m = 0 /\ tailIndex = Mod(t)
         /\ lo = Before(t) - slotsUsed + 1 /\ slotsUsed = allocated
         /\ lo <= Before(t) => tailBlock = B[Before(t)] /\ next[B[Before(t)]] = B[lo]
         /\ \A n \in lo .. Before(t) - 1 : next[B[n]] = B[n + 1]
         /\ \A n, k \in lo .. Before(t) : B[n] = B[k] => n = k
         /\ tailBlock = Null <=> allocated = 0
         /\ slotsUsed <= MaxBlocks /\ End(t) = t
<1>1. Control(t, m) /\ Chain(t, B, lo, m) /\ slotsUsed \in Nat /\ Before(t) \in Int /\ TypeOK
  BY GoodFacts
<1>2. m = 0 /\ tailIndex = Mod(t)
  BY <1>1 DEF Control, InCall
<1>3. PICK p \in Int : p = Before(t) /\ p + m = p
  BY <1>1, <1>2
<1>4. Entered(t, m) = p /\ UsedThen = slotsUsed /\ End(t) = t
  BY <1>3 DEF Entered, UsedThen, Waiting, End
<1>5. allocated <= MaxBlocks
  <2>1. allocated \in 0 .. MaxBlocks /\ MaxBlocks \in Nat
    BY <1>1, Simple, Kinds
  <2> QED
    BY <2>1
<1>6. /\ lo = p - slotsUsed + 1 /\ slotsUsed = allocated
      /\ lo <= p => tailBlock = B[p] /\ next[B[p]] = B[lo]
      /\ \A n \in lo .. p - 1 : next[B[n]] = B[n + 1]
      /\ \A n, k \in lo .. p : B[n] = B[k] => n = k
      /\ tailBlock = Null <=> allocated = 0
  BY <1>1, <1>3 DEF Chain
<1> QED
  BY <1>2, <1>3, <1>4, <1>5, <1>6

(* The ring is the blocks of the numbers from lo to the last.              *)
LEMMA RingIs ==
  ASSUME Types, NEW t \in Int, NEW h \in Int, NEW f \in Firsts, NEW B \in Orders,
         NEW lo \in Int, NEW m \in Nat, NEW o \in Int, Good(t, h, f, B, lo, m, o),
         step = "idle", excuses = {}, tailBlock # Null
  PROVE  /\ lo <= Before(t)
         /\ \A j \in 0 .. slotsUsed - 1 : After(tailBlock, j + 1) = B[lo + j]
         /\ \A b : b \in Ring <=> \E n \in lo .. Before(t) : b = B[n]
<1>0. /\ lo = Before(t) - slotsUsed + 1 /\ slotsUsed = allocated /\ slotsUsed <= MaxBlocks
      /\ lo <= Before(t) => tailBlock = B[Before(t)] /\ next[B[Before(t)]] = B[lo]
      /\ \A n \in lo .. Before(t) - 1 : next[B[n]] = B[n + 1]
      /\ tailBlock = Null <=> allocated = 0
  BY RestFacts
<1>1. TypeOK /\ slotsUsed \in Nat /\ Before(t) \in Int /\ next \in [Blocks -> Blocks]
      /\ MaxBlocks \in Nat /\ allocated \in Nat
  BY GoodFacts, Simple, Kinds
<1>2. PICK p \in Int, u \in Nat : p = Before(t) /\ u = slotsUsed
  BY <1>1
<1>3. /\ lo = p - u + 1 /\ slotsUsed = allocated
      /\ lo <= p => tailBlock = B[p] /\ next[B[p]] = B[lo]
      /\ \A n \in lo .. p - 1 : next[B[n]] = B[n + 1]
      /\ tailBlock = Null <=> allocated = 0
      /\ u <= MaxBlocks
  BY <1>0, <1>2
<1>4. u >= 1 /\ lo <= p
  BY <1>1, <1>2, <1>3
<1>5. PICK A \in Orders : \A n \in Int : A[n] = IF n <= p THEN B[n] ELSE B[n - u]
  <2>1. [n \in Int |-> IF n <= p THEN B[n] ELSE B[n - u]] \in Orders
    BY DEF Orders
  <2> QED
    BY <2>1
<1>6. ASSUME NEW n \in p .. p + u - 1 PROVE next[A[n]] = A[n + 1]
  <2>1. n \in Int /\ n + 1 \in Int /\ ~(n + 1 <= p) /\ A[n + 1] = B[n + 1 - u]
    BY <1>5
  <2>2. CASE n = p
    <3>1. n + 1 - u = lo /\ A[n] = B[p]
      BY <1>3, <1>5, <2>2
    <3> QED
      BY <1>3, <1>4, <2>1, <3>1
  <2>3. CASE n # p
    <3>1. A[n] = B[n - u] /\ n - u \in lo .. p - 1 /\ (n - u) + 1 = n + 1 - u
      BY <1>3, <1>5, <2>1, <2>3
    <3> QED
      BY <1>3, <2>1, <3>1
  <2> QED
    BY <2>2, <2>3
<1>7. u \in 0 .. MaxBlocks
  BY <1>1, <1>3
<1>8. \A k \in 0 .. u : After(A[p], k) = A[p + k]
  BY <1>1, <1>6, <1>7, AfterChain
<1>9. tailBlock = A[p] /\ tailBlock \in Blocks
  BY <1>3, <1>4, <1>5 DEF Orders
<1>10. ASSUME NEW j \in 0 .. u - 1 PROVE After(tailBlock, j + 1) = B[lo + j]
  <2>1. j + 1 \in 0 .. u /\ p + (j + 1) \in Int /\ ~(p + (j + 1) <= p) /\ p + (j + 1) - u = lo + j
    BY <1>3
  <2>2. A[p + (j + 1)] = B[lo + j]
    BY <1>5, <2>1
  <2> QED
    BY <1>8, <1>9, <2>1, <2>2
<1>11. \A n \in 1 .. MaxBlocks : \E k \in lo .. p : After(tailBlock, n) = B[k]
  <2> DEFINE S == {n \in 1 .. MaxBlocks : ~ \E k \in lo .. p : After(tailBlock, n) = B[k]}
  <2> SUFFICES ASSUME S # {} PROVE FALSE
    OBVIOUS
  <2>1. S \in SUBSET Nat
    OBVIOUS
  <2>2. PICK n \in Nat : SmallestOf(S, n)
    BY <2>1, Smallest
  <2>3. /\ n \in 1 .. MaxBlocks /\ ~ \E k \in lo .. p : After(tailBlock, n) = B[k]
        /\ \A j \in S : n <= j
    BY <2>2 DEF SmallestOf
  <2>4. n # 1
    <3>1. 0 \in 0 .. u - 1 /\ lo + 0 = lo /\ 0 + 1 = 1 /\ lo \in lo .. p
      BY <1>4
    <3>2. After(tailBlock, 1) = B[lo]
      BY <1>10, <3>1
    <3> QED
      BY <2>3, <3>1, <3>2
  <2>5. n - 1 \in 1 .. MaxBlocks
    BY <1>1, <2>3, <2>4
  <2>6. PICK k \in lo .. p : After(tailBlock, n - 1) = B[k]
    <3> SUFFICES ASSUME n - 1 \in S PROVE FALSE
      BY <2>5
    <3>1. n <= n - 1
      BY <2>3
    <3> QED
      BY <3>1
  <2>7. After(tailBlock, n) = next[B[k]]
    BY <1>1, <1>9, <2>3, <2>6, AfterIs
  <2>8. CASE k = p
    <3>1. next[B[k]] = B[lo] /\ lo \in lo .. p
      BY <1>3, <1>4, <2>8
    <3> QED
      BY <2>3, <2>7, <3>1
  <2>9. CASE k # p
    <3>1. k \in lo .. p - 1 /\ k + 1 \in lo .. p
      BY <2>9
    <3> QED
      BY <1>3, <2>3, <2>7, <3>1
  <2> QED
    BY <2>8, <2>9
<1>12. ASSUME NEW k \in lo .. p PROVE \E n \in Blocks : After(tailBlock, n) = B[k]
  <2>1. k - lo \in 0 .. u - 1 /\ lo + (k - lo) = k /\ (k - lo) + 1 \in 1 .. MaxBlocks
    BY <1>1, <1>3
  <2> QED
    BY <1>10, <2>1 DEF Blocks
<1>13. \A b : b \in Ring <=> \E n \in lo .. p : b = B[n]
  BY <1>11, <1>12 DEF Ring, Blocks
<1> QED
  BY <1>2, <1>4, <1>10, <1>13

(* The entries behind the front are those of the last numbers.             *)
LEMMA BehindIs ==
  ASSUME Types, NEW t \in Int, NEW h \in Int, NEW f \in Firsts, NEW B \in Orders,
         NEW lo \in Int, NEW m \in Nat, NEW o \in Int, Good(t, h, f, B, lo, m, o),
         step = "idle", excuses = {}
  PROVE  \A j \in 0 .. slotsUsed - 1 : Behind(j) = EntryFor(B, lo + j) /\ headers # <<>>
<1>0. Entered(t, m) = Before(t) /\ lo = Before(t) - slotsUsed + 1 /\ slotsUsed = allocated
  BY RestFacts
<1> SUFFICES ASSUME NEW j \in 0 .. slotsUsed - 1
             PROVE  Behind(j) = EntryFor(B, lo + j) /\ headers # <<>>
  OBVIOUS
<1>1. /\ TypeOK /\ Shape /\ slotsUsed \in Nat /\ Before(t) \in Int
      /\ Control(t, m) /\ Locals(t, B, lo, m) /\ Chain(t, B, lo, m) /\ IndexOK(t, B, lo, m, o)
  BY GoodFacts
<1>2. PICK p \in Int, u \in Nat : p = Before(t) /\ u = slotsUsed
  BY <1>1
<1>3. Entered(t, m) = p /\ lo = p - u + 1 /\ slotsUsed = allocated
  BY <1>0, <1>2
<1>4. headers # <<>>
  <2>1. slotsUsed # 0
    BY <1>1
  <2> QED
    BY <1>1, <2>1 DEF IndexOK
<1>5. PICK n \in Int : n = lo + j /\ lo <= n /\ n <= p
  BY <1>2, <1>3
<1>6. At(blockIndex, o, n) = EntryFor(B, n)
  BY <1>1, <1>3, <1>4, <1>5, ListedEntry
<1>7. PICK N \in Nat \ {0} : N = Size(blockIndex) /\ N = pr_blockIndexSize
  BY <1>1, <1>4, LatestFacts
<1>8. Slot(front - slotsUsed + j) = (n - o) % N
  <2>1. front = (p + 1 - o) % N
    BY <1>1, <1>2, <1>3, <1>4, <1>7 DEF IndexOK
  <2>2. PICK a \in Int, d \in Int : a = p + 1 - o /\ d = j - u /\ a + d = n - o
    BY <1>2, <1>3, <1>5
  <2>3. ((a % N) + d) % N = (a + d) % N /\ a % N \in 0 .. N - 1
    BY PlaceFrom
  <2>4. front - slotsUsed + j = (a % N) + d
    BY <1>2, <2>1, <2>2, <2>3
  <2> QED
    BY <1>7, <2>2, <2>3, <2>4 DEF Slot
<1> QED
  BY <1>4, <1>5, <1>6, <1>7, <1>8 DEF Behind, At

--------------------------------------------------------------------------------
(* The destructor.  Reaches(j) is what it looks for in the index.          *)
Reaches(j) ==
  Behind(j) # Nothing /\ ~CircularLessThan(Plus(Behind(j).b, BlockSize), headIndex)

LEMMA HalfDequeuedIs ==
  ASSUME pr_blockIndexSize \in Nat, NEW j \in 0 .. pr_blockIndexSize - 1, Reaches(j),
         \A i \in 0 .. j - 1 : ~Reaches(i), headIndex % BlockSize # 0
  PROVE  HalfDequeued = Behind(j).block
<1> DEFINE J == {i \in 0 .. pr_blockIndexSize - 1 : Reaches(i)}
           k == CHOOSE i \in J : \A n \in J : i <= n
<1>1. HalfDequeued = IF headIndex % BlockSize = 0 \/ J = {} THEN Null ELSE Behind(k).block
  BY DEF HalfDequeued, Reaches
<1>2. j \in J /\ \A n \in J : j <= n
  <2>1. j \in J
    OBVIOUS
  <2>2. ASSUME NEW n \in J, ~(j <= n) PROVE FALSE
    <3>1. n \in 0 .. j - 1
      BY <2>2
    <3> QED
      BY <3>1
  <2> QED
    BY <2>1, <2>2
<1>3. k \in J /\ \A n \in J : k <= n
  BY <1>2
<1>4. k = j
  <2>1. k \in Int /\ j \in Int /\ k <= j /\ j <= k
    BY <1>2, <1>3
  <2> QED
    BY <2>1
<1> QED
  BY <1>1, <1>2, <1>4

(* Where the head is in the middle of a block, that block is in the ring.  *)
LEMMA HeadIs ==
  ASSUME Types, NEW t \in Int, NEW h \in Int, NEW f \in Firsts, NEW B \in Orders,
         NEW lo \in Int, NEW m \in Nat, NEW o \in Int, Good(t, h, f, B, lo, m, o),
         step = "idle", excuses = {}
  PROVE  /\ headIndex = Mod(h) /\ h <= t /\ headIndex % BlockSize = h % BlockSize
         /\ h % BlockSize # 0 => Num(h) \in lo .. Before(t)
<1>1. m = 0 /\ End(t) = t
  BY RestFacts
<1>2. /\ TypeOK /\ Control(t, m) /\ Stored(t, h, f, B, lo) /\ Chain(t, B, lo, m)
      /\ Before(t) \in Int /\ Claimed(t, h, f)
  BY GoodFacts
<1>3. headIndex = Mod(h) /\ h <= t
  BY <1>2 DEF Claimed
<1>4. headIndex % BlockSize = h % BlockSize
  BY <1>3, BaseIs
<1>5. ASSUME h % BlockSize # 0 PROVE Num(h) \in lo .. Before(t)
  <2>1. CASE h = t
    <3>1. ~AtBase(t) /\ Num(t) = Before(t)
      BY <1>5, <2>1, AtBaseIs
    <3>2. lo <= Before(t)
      BY <1>2, <3>1 DEF Chain
    <3> QED
      BY <1>2, <2>1, <3>1, <3>2
  <2>2. CASE h < t
    <3>1. Undone(t, h, f, h)
      BY <1>1, <2>2 DEF Undone
    <3>2. Num(h) \in lo .. Before(t) + m
      BY <1>2, <3>1, UndoneFacts
    <3> QED
      BY <1>1, <1>2, <3>2
  <2> QED
    BY <1>3, <2>1, <2>2
<1> QED
  BY <1>3, <1>4, <1>5

(* Going back by less than half a turn makes a large number.               *)
LEMMA BackIsLarge ==
  ASSUME NEW d \in Int, d < 0, -(IndexSize \div 2) < d
  PROVE  Mod(d) > IndexSize \div 2
<1>1. PICK N \in Nat \ {0}, H \in Nat : N = IndexSize /\ H = IndexSize \div 2 /\ 2 * H <= N
  BY Kinds, Sizes
<1>2. PICK e \in Int : e = d + N
  BY <1>1
<1>3. e \in 0 .. N - 1 /\ e > H
  BY <1>1, <1>2
<1>4. d % N = e % N
  <2>1. PICK k \in Int : k = -1
    OBVIOUS
  <2>2. d = e + N * k
    BY <1>1, <1>2, <2>1
  <2> QED
    BY <2>2, WholeTurns
<1>5. Mod(e) = e
  BY <1>1, <1>3, ModSmall
<1> QED
  BY <1>1, <1>3, <1>4, <1>5 DEF Mod

(* The search of the destructor stops at the block of the head.            *)
LEMMA ReachesIs ==
  ASSUME Types, NEW t \in Int, NEW h \in Int, NEW f \in Firsts, NEW B \in Orders,
         NEW lo \in Int, NEW m \in Nat, NEW o \in Int, Good(t, h, f, B, lo, m, o),
         step = "idle", excuses = {}, h % BlockSize # 0
  PROVE  /\ Num(h) - lo \in 0 .. slotsUsed - 1 /\ Reaches(Num(h) - lo)
         /\ \A j \in 0 .. (Num(h) - lo) - 1 : ~Reaches(j)
<1>1. lo = Before(t) - slotsUsed + 1 /\ slotsUsed <= MaxBlocks /\ Before(t) \in Int
      /\ slotsUsed \in Nat
  <2>1. Before(t) \in Int /\ slotsUsed \in Nat
    BY GoodFacts
  <2>2. lo = Before(t) - slotsUsed + 1 /\ slotsUsed <= MaxBlocks
    BY RestFacts
  <2> QED
    BY <2>1, <2>2
<1>2. headIndex = Mod(h) /\ Num(h) \in lo .. Before(t)
  BY HeadIs
<1>3. \A j \in 0 .. slotsUsed - 1 : Behind(j) = EntryFor(B, lo + j)
  BY BehindIs
<1>4. PICK q \in Int, p \in Int, u \in Nat, H \in Nat :
        q = Num(h) /\ p = Before(t) /\ u = slotsUsed /\ H = IndexSize \div 2
  BY <1>1, <1>2, NumIs, Kinds
<1>5. q - lo \in 0 .. u - 1 /\ u - 1 <= MaxBlocks - 1 /\ lo + (u - 1) = p /\ MaxBlocks \in Nat
  BY <1>1, <1>2, <1>4, Kinds
<1>6. /\ Begins(q) < h /\ h < Begins(q + 1) /\ Begins(q) \in Int /\ Begins(q + 1) \in Int
      /\ Begins(q + 1) = Begins(q) + BlockSize
  <2>1. Begins(q) <= h /\ h < Begins(q + 1) /\ Begins(q) \in Int /\ h = Begins(q) + (h % BlockSize)
        /\ h % BlockSize \in Int
    BY <1>4, PlaceIs
  <2>2. Begins(q + 1) \in Int /\ Begins(q + 1) = Begins(q) + BlockSize
    <3>1. q + 1 \in Int
      OBVIOUS
    <3> QED
      BY <3>1, BeginsFacts
  <2>3. h # Begins(q)
    BY ONLY <2>1, h % BlockSize # 0, h \in Int
  <2> QED
    BY <2>1, <2>2, <2>3
<1>7. ASSUME NEW j \in 0 .. u - 1
      PROVE  Reaches(j) <=> ~(Mod(Begins(lo + j + 1) - h) > H)
  <2>1. Behind(j) = EntryFor(B, lo + j) /\ lo + j \in Int
    BY <1>3, <1>4
  <2>2. Behind(j) # Nothing /\ Behind(j).b = Blk(lo + j)
    BY <2>1, EntryForIs
  <2>3. Plus(Blk(lo + j), BlockSize) = Blk(lo + j + 1)
    BY <2>1, BlkSteps
  <2>4. Blk(lo + j + 1) = Mod(Begins(lo + j + 1)) /\ Begins(lo + j + 1) \in Int
    BY <2>1, BeginsFacts DEF Blk, Begins
  <2>5. Minus(Mod(Begins(lo + j + 1)), Mod(h)) = Mod(Begins(lo + j + 1) - h)
    BY <2>4, ModFacts
  <2> QED
    BY <1>2, <1>4, <2>2, <2>3, <2>4, <2>5 DEF Reaches, CircularLessThan
<1>8. Reaches(q - lo)
  <2>1. PICK d \in Int : d = Begins(q + 1) - h
    BY <1>6
  <2>2. BlockSize \in Nat /\ BlockSize <= H /\ 2 * H <= IndexSize /\ H \in Nat /\ IndexSize \in Nat \ {0}
    BY <1>4, Kinds, Sizes
  <2>3. d \in 0 .. IndexSize - 1 /\ d <= H
    BY <1>6, <2>1, <2>2
  <2>4. Mod(d) = d
    BY <2>3, ModSmall
  <2>5. lo + (q - lo) + 1 = q + 1
    OBVIOUS
  <2> QED
    BY <1>5, <1>7, <2>1, <2>3, <2>4, <2>5
<1>9. ASSUME NEW j \in 0 .. (q - lo) - 1 PROVE ~Reaches(j)
  <2>1. j \in 0 .. u - 1 /\ lo + j + 1 <= q /\ lo + 1 <= lo + j + 1 /\ lo + j + 1 \in Int
    BY <1>5
  <2>2. PICK a \in Int, b \in Int : a = Begins(lo + 1) /\ b = Begins(lo + j + 1)
                                    /\ a <= b /\ b <= Begins(q)
    <3>1. PICK k \in Int, n \in Int : k = lo + 1 /\ n = lo + j + 1 /\ k <= n /\ n <= q
      BY <2>1
    <3>2. Begins(k) <= Begins(n) /\ Begins(k) \in Int /\ Begins(n) \in Int
      BY <3>1, BeginsFacts
    <3>3. Begins(n) <= Begins(q)
      BY <3>1, BeginsFacts
    <3> QED
      BY <3>1, <3>2, <3>3
  <2>3. Begins(q + 1) <= Begins(p + 1) /\ Begins(p + 1) \in Int
    <3>1. q + 1 <= p + 1 /\ q + 1 \in Int /\ p + 1 \in Int
      BY <1>2, <1>4
    <3> QED
      BY <3>1, BeginsFacts
  <2>4. Begins(p + 1) = Begins(lo + 1) + Begins(u - 1)
    <3>1. p + 1 = (lo + 1) + (u - 1)
      BY <1>5
    <3>2. BlockSize \in Int
      BY Sizes
    <3> QED
      BY ONLY <3>1, <3>2, lo \in Int, u \in Nat, p \in Int DEF Begins
  <2>5. Begins(u - 1) <= H /\ Begins(u - 1) \in Int
    <3>1. Begins(MaxBlocks - 1) <= H
      BY <1>4, CountersAreWide DEF Begins
    <3>2. u - 1 <= MaxBlocks - 1 /\ u - 1 \in Int /\ MaxBlocks - 1 \in Int
      BY <1>5
    <3>3. Begins(u - 1) <= Begins(MaxBlocks - 1) /\ Begins(u - 1) \in Int
          /\ Begins(MaxBlocks - 1) \in Int
      BY <3>2, BeginsFacts
    <3> QED
      BY <3>1, <3>3
  <2>6. PICK d \in Int : d = b - h
    BY <2>2
  <2>7. d < 0 /\ -H < d
    BY <1>6, <2>2, <2>3, <2>4, <2>5, <2>6
  <2>8. Mod(d) > H
    BY <1>4, <2>7, BackIsLarge
  <2> QED
    BY <1>7, <2>1, <2>2, <2>6, <2>8
<1> QED
  BY <1>4, <1>5, <1>8, <1>9

(* HalfDequeued is the block of the head, if the head is inside one.       *)
LEMMA HalfIs ==
  ASSUME Types, NEW t \in Int, NEW h \in Int, NEW f \in Firsts, NEW B \in Orders,
         NEW lo \in Int, NEW m \in Nat, NEW o \in Int, Good(t, h, f, B, lo, m, o),
         step = "idle", excuses = {}
  PROVE  /\ h % BlockSize = 0 => HalfDequeued = Null
         /\ h % BlockSize # 0 => HalfDequeued = B[Num(h)]
<1>1. headIndex % BlockSize = h % BlockSize
  BY HeadIs
<1>2. h % BlockSize = 0 => HalfDequeued = Null
  BY <1>1 DEF HalfDequeued
<1>3. ASSUME h % BlockSize # 0 PROVE HalfDequeued = B[Num(h)]
  <2>1. \A j \in 0 .. slotsUsed - 1 : Behind(j) = EntryFor(B, lo + j)
    BY BehindIs
  <2>2. TypeOK /\ Shape /\ slotsUsed \in Nat
    BY GoodFacts
  <2>3. slotsUsed \in 0 .. pr_blockIndexSize /\ pr_blockIndexSize \in Nat
    BY <2>2, Simple, SizeIs
  <2>4. /\ Num(h) - lo \in 0 .. slotsUsed - 1 /\ Reaches(Num(h) - lo)
        /\ \A j \in 0 .. (Num(h) - lo) - 1 : ~Reaches(j)
    BY <1>3, ReachesIs
  <2>5. PICK j \in Int : j = Num(h) - lo /\ lo + j = Num(h) /\ Num(h) \in Int
    <3>1. Num(h) \in Int
      BY NumIs
    <3> QED
      BY <3>1
  <2>6. j \in 0 .. pr_blockIndexSize - 1 /\ j \in 0 .. slotsUsed - 1
    BY <2>3, <2>4, <2>5
  <2>7. HalfDequeued = Behind(j).block
    BY <1>1, <1>3, <2>3, <2>4, <2>5, <2>6, HalfDequeuedIs
  <2> QED
    BY <2>1, <2>5, <2>6, <2>7, EntryForIs
<1> QED
  BY <1>2, <1>3

(* Remains holds of the slots with an element that was not dequeued.       *)
LEMMA RemainsIs ==
  ASSUME Types, NEW t \in Int, NEW h \in Int, NEW f \in Firsts, NEW B \in Orders,
         NEW lo \in Int, NEW m \in Nat, NEW o \in Int, Good(t, h, f, B, lo, m, o),
         step = "idle", excuses = {}, \A c \in Consumers : pc[c] = "idle",
         NEW n \in lo .. Before(t), NEW k \in Offsets
  PROVE  Remains(B[n], k) <=> Undone(t, h, f, Begins(n) + k)
<1>1. /\ TypeOK /\ Claimed(t, h, f) /\ Flags(t, h, f, B, lo, m) /\ Before(t) \in Int
      /\ emptyFlags \in [Blocks -> SUBSET Offsets]
  <2>1. TypeOK /\ Claimed(t, h, f) /\ Flags(t, h, f, B, lo, m) /\ Before(t) \in Int /\ DataTypes
    BY GoodFacts
  <2> QED
    BY <2>1 DEF DataTypes
<1>2. m = 0 /\ End(t) = t /\ tailIndex = Mod(t)
  BY RestFacts
<1>3. \A i, j \in lo .. Before(t) : B[i] = B[j] => i = j
  BY RestFacts
<1>4. lo <= Before(t) => tailBlock = B[Before(t)]
  BY RestFacts
<1>5. /\ headIndex % BlockSize = h % BlockSize /\ h <= t
      /\ h % BlockSize # 0 => Num(h) \in lo .. Before(t)
  BY HeadIs
<1>6. /\ h % BlockSize = 0 => HalfDequeued = Null
      /\ h % BlockSize # 0 => HalfDequeued = B[Num(h)]
  BY HalfIs
<1>7. \A x \in Int : Undone(t, h, f, x) <=> h <= x /\ x < t
  <2>1. \A c \in Consumers : left[c] = 0 /\ f[c] \in Int
    BY <1>1 DEF Claimed, Firsts
  <2>2. \A c \in Consumers, x \in Int : ~InHand(f, c, x)
    BY <2>1 DEF InHand
  <2> QED
    BY <1>2, <2>2 DEF Undone
<1>8. PICK p \in Int, q \in Int : p = Before(t) /\ q = Num(h)
  BY <1>1, NumIs
<1>9. n \in Int /\ lo <= n /\ n <= p /\ B[n] \in Blocks
  BY <1>8 DEF Orders
<1>10. \A i \in Offsets : i \in emptyFlags[B[n]] <=>
         Begins(n) + i < t /\ ~Undone(t, h, f, Begins(n) + i)
  BY <1>1, <1>2, <1>8, <1>9 DEF Flags
<1>11. /\ \A i \in Offsets : Begins(n) + i \in Int /\ Num(Begins(n) + i) = n /\ i \in Int
       /\ Begins(n) \in Int
  BY <1>9, ElementAt, BeginsFacts
<1>12. \A i \in Offsets : i \in emptyFlags[B[n]] <=> Begins(n) + i < h
  BY <1>5, <1>7, <1>10, <1>11
<1>13. PICK x \in Int : x = Begins(n) + k
  BY <1>11
<1>14. tailIndex % BlockSize = t % BlockSize
  BY <1>2, BaseIs
<1>15. /\ h = Begins(q) + (h % BlockSize) /\ t = Begins(Num(t)) + (t % BlockSize)
       /\ {h % BlockSize, t % BlockSize, Begins(q), Begins(Num(t)), Num(t)} \subseteq Int
  <2>1. h = Begins(q) + (h % BlockSize) /\ h % BlockSize \in Int /\ Begins(q) \in Int
    BY <1>8, PlaceIs
  <2>2. t = Begins(Num(t)) + (t % BlockSize) /\ t % BlockSize \in Int /\ Begins(Num(t)) \in Int
        /\ Num(t) \in Int
    BY PlaceIs
  <2> QED
    BY <2>1, <2>2
<1>16. ASSUME Remains(B[n], k) PROVE Undone(t, h, f, x)
  <2>1. /\ emptyFlags[B[n]] # Offsets
        /\ B[n] = HalfDequeued => k >= h % BlockSize
        /\ B[n] = tailBlock /\ t % BlockSize # 0 => k < t % BlockSize
    BY <1>5, <1>14, <1>16 DEF Remains
  <2>2. PICK i \in Offsets : h <= Begins(n) + i
    <3>1. emptyFlags[B[n]] \in SUBSET Offsets
      BY <1>1, <1>9
    <3>2. PICK i \in Offsets : i \notin emptyFlags[B[n]]
      BY <2>1, <3>1
    <3>3. ~(Begins(n) + i < h) /\ Begins(n) + i \in Int
      BY <1>11, <1>12, <3>2
    <3> QED
      BY <3>3
  <2>3. q <= n
    <3>1. Num(Begins(n) + i) = n /\ Begins(n) + i \in Int
      BY <1>11
    <3> QED
      BY <1>8, <2>2, <3>1, NumMonotone
  <2>4. h <= x
    <3>1. CASE q = n
      <4>1. CASE h % BlockSize = 0
        <5>1. h = Begins(n)
          BY <1>15, <3>1, <4>1
        <5>2. k >= 0 /\ k \in Int
          BY <1>11 DEF Offsets
        <5> QED
          BY <1>11, <1>13, <5>1, <5>2
      <4>2. CASE h % BlockSize # 0
        <5>1. k >= h % BlockSize
          BY <1>6, <1>8, <2>1, <3>1, <4>2
        <5> QED
          BY <1>11, <1>13, <1>15, <3>1, <5>1
      <4> QED
        BY <4>1, <4>2
    <3>2. CASE q # n
      <4>1. q + 1 <= n /\ q + 1 \in Int
        BY <1>9, <2>3, <3>2
      <4>2. Begins(q + 1) <= Begins(n) /\ Begins(q + 1) \in Int
        BY <1>9, <4>1, BeginsFacts
      <4>3. h < Begins(q + 1)
        BY <1>8, PlaceIs
      <4>4. k >= 0 /\ k \in Int
        BY <1>11 DEF Offsets
      <4> QED
        BY <1>11, <1>13, <4>2, <4>3, <4>4
    <3> QED
      BY <3>1, <3>2
  <2>5. x < t
    <3>1. CASE n = p
      <4>1. B[n] = tailBlock
        BY <1>4, <1>8, <1>9, <3>1
      <4>2. CASE t % BlockSize = 0
        <5>1. t = Begins(n + 1)
          BY <1>8, <3>1, <4>2, AtBaseIs DEF AtBase
        <5>2. x < Begins(n + 1)
          <6>1. Num(x) = n
            BY <1>11, <1>13
          <6> QED
            BY <6>1, PlaceIs
        <5> QED
          BY <5>1, <5>2
      <4>3. CASE t % BlockSize # 0
        <5>1. Num(t) = n
          BY <1>8, <3>1, <4>3, AtBaseIs
        <5>2. k < t % BlockSize
          BY <2>1, <4>1, <4>3
        <5> QED
          BY <1>11, <1>13, <1>15, <5>1, <5>2
      <4> QED
        BY <4>2, <4>3
    <3>2. CASE n # p
      <4>1. n + 1 <= p /\ n + 1 \in Int
        BY <1>9, <3>2
      <4>2. Begins(n + 1) <= Begins(p) /\ Begins(n + 1) \in Int /\ Begins(p) \in Int
        BY <4>1, BeginsFacts
      <4>3. Begins(p) <= t - 1
        BY <1>8, BeforeFacts
      <4>4. x < Begins(n + 1)
        <5>1. Num(x) = n
          BY <1>11, <1>13
        <5> QED
          BY <5>1, PlaceIs
      <4> QED
        BY <4>2, <4>3, <4>4
    <3> QED
      BY <3>1, <3>2
  <2> QED
    BY <1>7, <2>4, <2>5
<1>17. ASSUME Undone(t, h, f, x) PROVE Remains(B[n], k)
  <2>1. h <= x /\ x < t
    BY <1>7, <1>17
  <2>2. emptyFlags[B[n]] # Offsets
    <3>1. k \notin emptyFlags[B[n]]
      BY <1>12, <1>13, <2>1
    <3> QED
      BY <3>1
  <2>3. ASSUME B[n] = HalfDequeued PROVE k >= h % BlockSize
    <3>1. Null \notin Blocks
      BY Kinds
    <3>2. h % BlockSize # 0 /\ B[n] = B[q] /\ q \in lo .. p
      BY <1>5, <1>6, <1>8, <1>9, <2>3, <3>1
    <3>3. n = q
      BY <1>3, <1>8, <1>9, <3>2
    <3> QED
      BY <1>11, <1>13, <1>15, <2>1, <3>3
  <2>4. ASSUME B[n] = tailBlock, t % BlockSize # 0 PROVE k < t % BlockSize
    <3>1. p \in lo .. p /\ lo <= p
      BY <1>9
    <3>2. n = p
      BY <1>3, <1>4, <1>8, <1>9, <2>4, <3>1
    <3>3. Num(t) = n
      BY <1>8, <2>4, <3>2, AtBaseIs
    <3> QED
      BY <1>11, <1>13, <1>15, <2>1, <3>3
  <2> QED
    BY <1>5, <1>14, <2>2, <2>3, <2>4 DEF Remains
<1> QED
  BY <1>13, <1>16, <1>17

(* Between calls, and with no consumer about, the rest is from h to t.     *)
LEMMA LeftOver ==
  ASSUME Types, NEW t \in Int, NEW h \in Int, NEW f \in Firsts, NEW B \in Orders,
         NEW lo \in Int, NEW m \in Nat, NEW o \in Int, Good(t, h, f, B, lo, m, o),
         step = "idle", excuses = {}, \A c \in Consumers : pc[c] = "idle",
         NEW b \in Blocks, NEW k \in Offsets
  PROVE  b \in Ring /\ Remains(b, k) <=> slot[b][k] # Nothing
<1>1. /\ TypeOK /\ Stored(t, h, f, B, lo) /\ NoOther(t, h, f, B) /\ Control(t, m)
      /\ Before(t) \in Int
  BY GoodFacts
<1>2. m = 0 /\ lo = Before(t) - slotsUsed + 1
  BY RestFacts
<1>3. tailBlock = Null => slotsUsed = 0
  <2>1. tailBlock = Null <=> allocated = 0
    BY RestFacts
  <2>2. slotsUsed = allocated
    BY RestFacts
  <2> QED
    BY <2>1, <2>2
<1>4. ASSUME b \in Ring, Remains(b, k) PROVE slot[b][k] # Nothing
  <2>1. tailBlock # Null
    BY <1>4 DEF Ring
  <2>2. PICK n \in lo .. Before(t) : b = B[n]
    BY <1>4, <2>1, RingIs
  <2>3. Undone(t, h, f, Begins(n) + k)
    BY <1>4, <2>2, RemainsIs
  <2>4. PICK x \in Int : x = Begins(n) + k /\ Num(x) = n /\ x % BlockSize = k
    <3>1. n \in Int
      BY <1>1
    <3> QED
      BY <3>1, ElementAt
  <2>5. slot[B[Num(x)]][x % BlockSize] = Mod(x)
    BY <1>1, <2>3, <2>4 DEF Stored
  <2>6. Mod(x) \in Index /\ Nothing \notin Index
    BY ModType, Kinds
  <2> QED
    BY <2>2, <2>4, <2>5, <2>6
<1>5. ASSUME slot[b][k] # Nothing PROVE b \in Ring /\ Remains(b, k)
  <2>1. PICK x \in Int : Undone(t, h, f, x) /\ B[Num(x)] = b /\ x % BlockSize = k
    BY <1>1, <1>5 DEF NoOther
  <2>2. Num(x) \in lo .. Before(t)
    <3>1. Num(x) \in lo .. Before(t) + m
      BY <1>1, <2>1, UndoneFacts
    <3> QED
      BY <1>1, <1>2, <3>1
  <2>3. tailBlock # Null
    <3> SUFFICES ASSUME tailBlock = Null PROVE FALSE
      OBVIOUS
    <3>1. lo = Before(t) + 1
      BY <1>1, <1>2, <1>3
    <3> QED
      BY <1>1, <2>2, <3>1
  <2>4. b \in Ring
    BY <2>1, <2>2, <2>3, RingIs
  <2>5. Begins(Num(x)) + k = x
    BY <2>1, PlaceIs
  <2>6. Remains(B[Num(x)], k)
    BY <2>1, <2>2, <2>5, RemainsIs
  <2> QED
    BY <2>1, <2>4, <2>6
<1> QED
  BY <1>4, <1>5

LEMMA DestroyTyped ==
  ASSUME Types, Destroy
  PROVE  /\ TypeOK' /\ Shape' /\ Ring \subseteq Blocks
         /\ step = "idle" /\ step' = "gone" /\ \A c \in Consumers : pc[c] = "idle"
         /\ UNCHANGED <<tailIndex, headIndex, tailBlock, next, allocated, emptyFlags, slot,
                        headers, slotsUsed, front, bulk, count, startBlock, cur, firstAllocated,
                        originalFront, originalUsed, consumerVars, sent, excuses>>
<1>1. /\ step = "idle" /\ step' = "gone" /\ \A c \in Consumers : pc[c] = "idle"
      /\ UNCHANGED <<tailIndex, headIndex, tailBlock, next, allocated, emptyFlags, slot,
                     headers, slotsUsed, front, bulk, count, startBlock, cur, firstAllocated,
                     originalFront, originalUsed, consumerVars, sent, excuses>>
  BY DEF Destroy, Quiet, ringVars, indexVars, callVars, localVars
<1>2. destroyed' = {p \in Ring \X Offsets : Remains(p[1], p[2])}
  BY DEF Destroy
<1>3. TypeOK /\ Shape
  BY DEF Types
<1>4. Ring \subseteq Blocks
  <2>1. MaxBlocks \in Nat /\ next \in [Blocks -> Blocks] /\ allocated \in 0 .. MaxBlocks
        /\ tailBlock \in 1 .. allocated \cup {Null}
    <3>1. MaxBlocks \in Nat
      BY Kinds
    <3>2. next \in [Blocks -> Blocks] /\ allocated \in 0 .. MaxBlocks
          /\ tailBlock \in 1 .. allocated \cup {Null}
      BY <1>3, Simple
    <3> QED
      BY <3>1, <3>2
  <2> SUFFICES ASSUME tailBlock # Null, NEW n \in Blocks PROVE After(tailBlock, n) \in Blocks
    BY DEF Ring
  <2>2. tailBlock \in Blocks /\ n \in 0 .. MaxBlocks
    BY <2>1 DEF Blocks
  <2> QED
    BY <2>1, <2>2, AfterIs
<1>5. destroyed' \subseteq Blocks \X Offsets
  BY <1>2, <1>4
<1>6. /\ Shape' /\ HeaderTypes' /\ Len(headers) \in Nat /\ Len(headers') \in Nat
      /\ Len(headers) <= Len(headers') /\ pr_blockIndexSize' = pr_blockIndexSize
  BY <1>1, <1>3, HeadersSame
<1>7. DataTypes'
  BY <1>1, <1>3, DataStays
<1>8. /\ {tailIndex, cur} \subseteq Index
      /\ {tailBlock, startBlock, firstAllocated} \subseteq 1 .. allocated \cup {Null}
      /\ allocated \in 0 .. MaxBlocks /\ next \in [Blocks -> Blocks]
      /\ {slotsUsed, originalUsed} \subseteq 0 .. pr_blockIndexSize
      /\ {front, originalFront} \subseteq 0 .. pr_blockIndexSize - 1
      /\ bulk \in BOOLEAN /\ count \in 0 .. MaxBulk
      /\ sent \in 0 .. MaxSent /\ excuses \subseteq {"bulk", "single"}
  BY <1>3, Simple
<1>9. TypeOK'
  <2>1. /\ {tailIndex', cur'} \subseteq Index
        /\ {tailBlock', startBlock', firstAllocated'} \subseteq 1 .. allocated' \cup {Null}
        /\ allocated' \in 0 .. MaxBlocks /\ next' \in [Blocks -> Blocks]
    BY <1>1, <1>8
  <2>2. /\ {slotsUsed', originalUsed'} \subseteq 0 .. pr_blockIndexSize'
        /\ {front', originalFront'} \subseteq 0 .. pr_blockIndexSize' - 1
    BY <1>1, <1>6, <1>8
  <2>3. /\ step' \in {"idle", "ahead", "room", "grow", "block", "ready", "construct",
                      "entry", "front", "enter", "store", "place", "publish", "gone"}
        /\ bulk' \in BOOLEAN
        /\ count' \in 0 .. MaxBulk /\ excuses' \subseteq {"bulk", "single"}
        /\ sent' \in 0 .. MaxSent /\ UNCHANGED <<headIndex, consumerVars>>
    BY <1>1, <1>8
  <2> QED
    BY <1>3, <1>5, <1>6, <1>7, <2>1, <2>2, <2>3, ProducerTyped
<1> QED
  BY <1>1, <1>4, <1>6, <1>9

(* So the destructor destroys what is there.                               *)
LEMMA DestroyExact ==
  ASSUME Inv, Destroy
  PROVE  DestroysExactly'
<1>1. Types
  BY DEF Inv
<1>2. /\ Ring \subseteq Blocks /\ step = "idle" /\ \A c \in Consumers : pc[c] = "idle"
      /\ UNCHANGED <<slot, excuses>>
  BY <1>1, DestroyTyped
<1> SUFFICES ASSUME excuses = {}
             PROVE  destroyed' = {p \in Blocks \X Offsets : slot[p[1]][p[2]] # Nothing}
  BY <1>2 DEF DestroysExactly
<1>3. PICK t \in Int, h \in Int, f \in Firsts, B \in Orders, lo \in Int, m \in Nat, o \in Int :
        Good(t, h, f, B, lo, m, o)
  BY DEF Inv
<1>4. \A b \in Blocks, k \in Offsets : b \in Ring /\ Remains(b, k) <=> slot[b][k] # Nothing
  BY <1>1, <1>2, <1>3, LeftOver
<1>5. destroyed' = {p \in Ring \X Offsets : Remains(p[1], p[2])}
  BY DEF Destroy
<1>6. ASSUME NEW p
      PROVE  p \in Ring \X Offsets /\ Remains(p[1], p[2])
               <=> p \in Blocks \X Offsets /\ slot[p[1]][p[2]] # Nothing
  <2>1. p \in Ring \X Offsets => p \in Blocks \X Offsets
    BY <1>2
  <2> SUFFICES ASSUME p \in Blocks \X Offsets
               PROVE  p \in Ring \X Offsets /\ Remains(p[1], p[2]) <=> slot[p[1]][p[2]] # Nothing
    BY <2>1
  <2>2. PICK b \in Blocks, k \in Offsets : p = <<b, k>>
    OBVIOUS
  <2>3. p \in Ring \X Offsets <=> b \in Ring
    BY <2>2
  <2>4. p[1] = b /\ p[2] = k
    BY <2>2
  <2> QED
    BY <1>4, <2>3, <2>4
<1> QED
  BY <1>5, <1>6

(* The destructor changes nothing the numbers speak of.                    *)
LEMMA DestroyStep ==
  ASSUME Inv, Destroy
  PROVE  Inv'
<1>1. Types
  BY DEF Inv
<1>2. /\ TypeOK' /\ Shape' /\ step = "idle" /\ step' = "gone"
      /\ \A c \in Consumers : pc[c] = "idle"
      /\ UNCHANGED <<tailIndex, headIndex, tailBlock, next, allocated, emptyFlags, slot,
                     headers, slotsUsed, front, bulk, count, startBlock, cur, firstAllocated,
                     originalFront, originalUsed, consumerVars, sent, excuses>>
  BY <1>1, DestroyTyped
<1>3. Types'
  <2>1. DestroysExactly'
    BY DestroyExact
  <2>2. \A c \in Consumers : pc'[c] = "idle" /\ header'[c] = header[c]
    BY <1>2 DEF consumerVars
  <2>3. "bulk" \in excuses => headers # <<>>
    BY <1>1 DEF Types
  <2> QED
    BY <1>2, <2>1, <2>2, <2>3 DEF Types, Ended
<1>4. CASE "bulk" \in excuses
  BY <1>2, <1>3, <1>4 DEF Inv
<1>5. CASE "bulk" \notin excuses
  <2>1. PICK t \in Int, h \in Int, f \in Firsts, B \in Orders, lo \in Int, m \in Nat, o \in Int :
          Good(t, h, f, B, lo, m, o)
    BY <1>5 DEF Inv
  <2>2. /\ Control(t, m) /\ Chain(t, B, lo, m) /\ IndexOK(t, B, lo, m, o)
        /\ Claimed(t, h, f) /\ Elems(t, h, f, B, lo, m) /\ Stored(t, h, f, B, lo)
        /\ Seen(f, B) /\ Before(t) \in Int /\ TypeOK
    BY <1>1, <2>1, GoodFacts
  <2>3. ~InCall /\ ~InCall' /\ ~Waiting /\ ~Waiting' /\ ~Cleared' /\ End(t)' = End(t) /\ Span' = Span
    BY <1>2 DEF InCall, Waiting, Cleared, End, Span
  <2>4. Control(t, m)'
    BY <1>2, <2>2, <2>3 DEF Control
  <2>5. Locals(t, B, lo, m)'
    BY <2>3 DEF Locals
  <2>6. Chain(t, B, lo, m)'
    BY <1>2, <2>2 DEF Chain, Dead
  <2>7. blockIndex' = blockIndex
    BY <1>2 DEF blockIndex
  <2>8. Entered(t, m)' = Entered(t, m) /\ UsedThen' = UsedThen
    BY <1>2, <2>3 DEF Entered, UsedThen
  <2>9. IndexOK(t, B, lo, m, o)'
    BY <1>2, <2>2, <2>7, <2>8 DEF IndexOK
  <2>10. Claimed(t, h, f)'
    <3>1. h <= t /\ t + Span' - h < IndexSize \div 2
      BY <2>2, <2>3 DEF Claimed
    <3> QED
      BY <1>2, <2>2, <3>1, ClaimedKept
  <2>11. NotBefore(t, h, f, lo)
    BY <2>2 DEF Stored, NotBefore
  <2>12. m = 0
    BY <2>2, <2>3 DEF Control
  <2>13. Elems(t, h, f, B, lo, m)'
    <3>1. lo <= lo /\ \A n \in lo .. Before(t) + m : B[n] = B[n]
      OBVIOUS
    <3> QED
      BY <1>2, <2>2, <2>3, <2>11, <2>12, <3>1, ElemsKept
  <2>14. Seen(f, B)'
    <3>1. Kept(B, lo, lo, Before(t)) /\ UNCHANGED consumerVars
          /\ \A n \in lo .. Before(t) : B[n] = B[n]
      BY <1>2 DEF Kept
    <3> QED
      BY <1>1, <2>1, <2>11, <3>1, SeenKept
  <2>15. Good(t, h, f, B, lo, m, o)'
    BY <2>4, <2>5, <2>6, <2>9, <2>10, <2>13, <2>14 DEF Good
  <2> QED
    BY <1>3, <2>15, InvAgain
<1> QED
  BY <1>4, <1>5

LEMMA StutterStep ==
  ASSUME Inv, UNCHANGED vars
  PROVE  Inv'
<1>1. /\ UNCHANGED <<tailIndex, headIndex, tailBlock, next, allocated, emptyFlags, slot,
                     headers, slotsUsed, front, step, bulk, count, startBlock>>
      /\ UNCHANGED <<cur, firstAllocated, originalFront, originalUsed>>
      /\ UNCHANGED <<pc, first, left, header, idx, destroyed, sent, excuses>>
  BY DEF vars, ringVars, indexVars, callVars, localVars, consumerVars, endVars
<1>2. blockIndex' = blockIndex /\ pr_blockIndexSize' = pr_blockIndexSize
  BY <1>1 DEF blockIndex, pr_blockIndexSize
<1>3. Types'
  <2>1. TypeOK' <=> TypeOK
    BY <1>1, <1>2 DEF TypeOK
  <2>2. Shape' <=> Shape
    BY <1>1 DEF Shape
  <2>3. Ended' <=> Ended
    BY <1>1 DEF Ended, DestroysExactly
  <2> QED
    BY <1>1, <2>1, <2>2, <2>3 DEF Inv, Types
<1>4. CASE "bulk" \in excuses
  BY <1>1, <1>3, <1>4 DEF Inv
<1>5. CASE "bulk" \notin excuses
  <2>1. PICK t \in Int, h \in Int, f \in Firsts, B \in Orders, lo \in Int, m \in Nat, o \in Int :
          Good(t, h, f, B, lo, m, o)
    BY <1>5 DEF Inv
  <2>2. /\ InCall' = InCall /\ Waiting' = Waiting /\ Cleared' = Cleared /\ Span' = Span
        /\ End(t)' = End(t) /\ LastNum(t)' = LastNum(t) /\ UsedThen' = UsedThen
        /\ Entered(t, m)' = Entered(t, m)
    BY <1>1 DEF InCall, Waiting, Cleared, Span, End, LastNum, UsedThen, Entered
  <2>3. Control(t, m)' <=> Control(t, m)
    BY <1>1, <1>2, <2>2 DEF Control
  <2>4. Locals(t, B, lo, m)' <=> Locals(t, B, lo, m)
    BY <1>1, <2>2 DEF Locals
  <2>5. Chain(t, B, lo, m)' <=> Chain(t, B, lo, m)
    BY <1>1 DEF Chain, Dead
  <2>6. IndexOK(t, B, lo, m, o)' <=> IndexOK(t, B, lo, m, o)
    BY <1>1, <1>2, <2>2 DEF IndexOK
  <2>7. Claimed(t, h, f)' <=> Claimed(t, h, f)
    BY <1>1, <2>2 DEF Claimed
  <2>8. \A x : Undone(t, h, f, x)' <=> Undone(t, h, f, x)
    BY <1>1, <2>2 DEF Undone, InHand
  <2>9. Elems(t, h, f, B, lo, m)' <=> Elems(t, h, f, B, lo, m)
    <3>1. Stored(t, h, f, B, lo)' <=> Stored(t, h, f, B, lo)
      BY <1>1, <2>8 DEF Stored
    <3>2. NoOther(t, h, f, B)' <=> NoOther(t, h, f, B)
      BY <1>1, <2>8 DEF NoOther
    <3>3. Flags(t, h, f, B, lo, m)' <=> Flags(t, h, f, B, lo, m)
      BY <1>1, <2>2, <2>8 DEF Flags
    <3> QED
      BY <3>1, <3>2, <3>3 DEF Elems
  <2>10. Seen(f, B)' <=> Seen(f, B)
    BY <1>1 DEF Seen, SeenBy, Entry
  <2> QED
    BY <1>3, <2>1, <2>3, <2>4, <2>5, <2>6, <2>7, <2>9, <2>10, InvAgain DEF Good
<1> QED
  BY <1>4, <1>5

--------------------------------------------------------------------------------
(* The start.  An entry of the index that a stream starts with is for the  *)
(* last block before the start whose number falls on its place.            *)
LEMMA OldEntries ==
  ASSUME NEW s \in Index, s % BlockSize = 0, NEW p \in Int, p = Before(s), NEW N \in Nat \ {0},
         NEW i \in 0 .. N - 1
  PROVE  /\ s \div BlockSize - 1 = p
         /\ \E n \in Int : /\ Minus(s, BlockSize * (1 + ((p - i) % N))) = Blk(n)
                           /\ Cong(n, i, N) /\ (i = p % N => n = p)
<1>1. s \in Int /\ s = Mod(s)
  <2>1. s \in 0 .. IndexSize - 1
    BY DEF Index
  <2> QED
    BY <2>1, ModSmall
<1>2. s \div BlockSize - 1 = p /\ s = BlockSize * (p + 1)
  <2>1. Num(s) = p + 1
    BY <1>1, AtBaseIs
  <2>2. Num(s) = s \div BlockSize
    BY DEF Num
  <2>3. s = Begins(Num(s)) + (s % BlockSize) /\ Begins(Num(s)) \in Int
    BY <1>1, PlaceIs
  <2> QED
    BY <2>1, <2>2, <2>3 DEF Begins
<1>3. PICK r \in Int : r = (p - i) % N /\ Cong(r, p - i, N)
  <2>1. p - i \in Int
    OBVIOUS
  <2> QED
    BY <2>1, CongMod
<1>4. PICK n \in Int : n = p - r
  OBVIOUS
<1>5. Minus(s, BlockSize * (1 + r)) = Blk(n)
  <2>1. s - BlockSize * (1 + r) = BlockSize * n
    <3>1. BlockSize \in Int
      BY Sizes
    <3> QED
      BY ONLY <1>2, <1>4, <3>1, p \in Int, r \in Int, n \in Int
  <2>2. BlockSize * (1 + r) \in Int
    <3>1. 1 + r \in Int
      OBVIOUS
    <3> QED
      BY <3>1, BlockApart
  <2>3. Minus(Mod(s), BlockSize * (1 + r)) = Mod(s - BlockSize * (1 + r))
    BY <1>1, <2>2, ModFacts
  <2> QED
    BY <1>1, <2>1, <2>3 DEF Blk
<1>6. Cong(n, i, N)
  <2>1. Cong(p, p, N)
    BY CongSame
  <2>2. Cong(p - r, p - (p - i), N)
    BY <1>3, <2>1, CongSum
  <2>3. p - (p - i) = i
    OBVIOUS
  <2> QED
    BY <1>4, <2>2, <2>3
<1>7. ASSUME i = p % N PROVE n = p
  <2>1. Cong(i, p, N)
    BY <1>7, CongMod
  <2>2. Cong(n, p, N)
    BY <1>6, <2>1, CongTurn
  <2>3. r \in 0 .. N - 1
    <3>1. p - i \in Int
      OBVIOUS
    <3> QED
      BY <1>3, <3>1, CongMod
  <2>4. n - p < N /\ p - n < N
    BY <1>4, <2>3
  <2> QED
    BY <2>2, <2>4, CongNear
<1> QED
  BY <1>2, <1>3, <1>5, <1>6, <1>7

(* The index of a stream that starts at s.                                 *)
StartsWith(s, N, g) ==
  /\ g \in Header(N)
  /\ s = 0 => \A i \in 0 .. N - 1 : g.entries[i] = Nothing
  /\ s # 0 => \A i \in 0 .. N - 1 :
       /\ g.entries[i] # Nothing /\ g.entries[i].block = 1
       /\ \E n \in Int : /\ g.entries[i].b = Blk(n) /\ Cong(n, i, N)
                         /\ (i = Before(s) % N => n = Before(s))

Starting(s, N) ==
  /\ tailIndex = s /\ headIndex = s
  /\ allocated = IF s = 0 THEN 0 ELSE 1
  /\ tailBlock = IF s = 0 THEN Null ELSE 1
  /\ slotsUsed = allocated
  /\ front = IF s = 0 THEN 0 ELSE (Before(s) + 1) % N
  /\ (headers = <<>> /\ s = 0) \/ \E g : headers = <<g>> /\ StartsWith(s, N, g)

LEMMA InitFacts ==
  ASSUME Init
  PROVE  \E s \in Index, N \in Nat \ {0} :
           N = InitialSize /\ s % BlockSize = 0 /\ Starting(s, N)
<1> DEFINE Old(s, i) == 1 + ((s \div BlockSize - 1 - i) % InitialSize)
           New(s) == [entries |-> [i \in 0 .. InitialSize - 1 |-> Nothing], front |-> -1]
           Drained(s) == [entries |-> [i \in 0 .. InitialSize - 1 |->
                                         [b |-> Minus(s, BlockSize * Old(s, i)), block |-> 1]],
                          front |-> (s \div BlockSize - 1) % InitialSize]
<1>1. PICK s \in Starts :
        /\ tailIndex = s /\ headIndex = s
        /\ allocated = IF s = 0 THEN 0 ELSE 1
        /\ tailBlock = IF s = 0 THEN Null ELSE 1
        /\ slotsUsed = allocated
        /\ front = IF s = 0 THEN 0 ELSE (s \div BlockSize) % InitialSize
        /\ headers \in IF s = 0 THEN {<<>>, <<New(s)>>} ELSE {<<Drained(s)>>}
  BY DEF Init
<1>2. s \in Index /\ s % BlockSize = 0
  BY StartsAreBases
<1>3. PICK N \in Nat \ {0} : N = InitialSize
  BY Sizes
<1>4. PICK p \in Int : p = Before(s)
  <2>1. s \in Int
    BY <1>2, IndexIsInt
  <2> QED
    BY <2>1, BeforeFacts
<1>5. \A i \in 0 .. N - 1 :
        /\ s \div BlockSize - 1 = p
        /\ \E n \in Int : /\ Minus(s, BlockSize * (1 + ((p - i) % N))) = Blk(n)
                          /\ Cong(n, i, N) /\ (i = p % N => n = p)
  BY <1>2, <1>4, OldEntries
<1>6. s \div BlockSize - 1 = p /\ s \div BlockSize \in Int
  <2>1. 0 \in 0 .. N - 1
    OBVIOUS
  <2>2. Num(s) \in Int
    BY <1>2, IndexIsInt, NumIs
  <2> QED
    BY <1>5, <2>1, <2>2 DEF Num
<1>7. ASSUME s = 0 PROVE StartsWith(s, N, New(s))
  <2>1. New(s).entries \in [0 .. N - 1 -> Used \cup {Nothing}]
    BY <1>3
  <2>2. New(s).front \in -1 .. N - 1
    OBVIOUS
  <2> QED
    BY <1>3, <1>7, <2>1, <2>2 DEF StartsWith, Header
<1>8. ASSUME s # 0 PROVE StartsWith(s, N, Drained(s))
  <2>1. ASSUME NEW i \in 0 .. N - 1
        PROVE  Drained(s).entries[i] = [b |-> Minus(s, BlockSize * (1 + ((p - i) % N))), block |-> 1]
    BY <1>3, <1>6
  <2>2. ASSUME NEW i \in 0 .. N - 1
        PROVE  /\ Drained(s).entries[i] \in Used /\ Drained(s).entries[i] # Nothing
               /\ Drained(s).entries[i].block = 1
               /\ \E n \in Int : /\ Drained(s).entries[i].b = Blk(n) /\ Cong(n, i, N)
                                 /\ (i = p % N => n = p)
    <3>1. PICK e : e = Drained(s).entries[i]
      OBVIOUS
    <3>2. PICK n \in Int : /\ Minus(s, BlockSize * (1 + ((p - i) % N))) = Blk(n)
                           /\ Cong(n, i, N) /\ (i = p % N => n = p)
      BY <1>5
    <3>3. e = [b |-> Blk(n), block |-> 1]
      BY <2>1, <3>1, <3>2
    <3>4. e \in Used /\ e # Nothing
      <4>1. Blk(n) \in Index
        BY BlkType
      <4>2. 1 \in Blocks /\ Nothing \notin Index \cup Used
        BY Kinds
      <4>3. e \in Used
        BY <3>3, <4>1, <4>2 DEF Used
      <4> QED
        BY <4>2, <4>3
    <3> HIDE DEF Drained
    <3> QED
      BY <3>1, <3>2, <3>3, <3>4
  <2>3. Drained(s).front \in -1 .. N - 1
    <3>1. p % N \in 0 .. N - 1
      BY CongMod
    <3>2. Drained(s).front = p % N
      BY <1>3, <1>6
    <3> QED
      BY <3>1, <3>2
  <2>4. Drained(s).entries \in [0 .. N - 1 -> Used \cup {Nothing}]
    <3>1. Drained(s).entries = [i \in 0 .. N - 1 |-> Drained(s).entries[i]]
      BY <1>3
    <3> HIDE DEF Drained
    <3> QED
      BY <2>2, <3>1
  <2>5. Drained(s) = [entries |-> Drained(s).entries, front |-> Drained(s).front]
    OBVIOUS
  <2> HIDE DEF Drained
  <2>6. Drained(s) \in Header(N)
    BY <2>3, <2>4, <2>5 DEF Header
  <2> QED
    BY <1>4, <1>8, <2>2, <2>6 DEF StartsWith
<1> HIDE DEF New, Drained
<1>9. (headers = <<>> /\ s = 0) \/ \E g : headers = <<g>> /\ StartsWith(s, N, g)
  BY <1>1, <1>7, <1>8
<1>10. front = IF s = 0 THEN 0 ELSE (Before(s) + 1) % N
  <2>1. s \div BlockSize = Before(s) + 1
    BY <1>4, <1>6
  <2> QED
    BY <1>1, <1>3, <2>1
<1> QED
  BY <1>1, <1>2, <1>3, <1>9, <1>10 DEF Starting

LEMMA InitHeaders ==
  ASSUME NEW s \in Index, NEW N \in Nat \ {0}, N = InitialSize, Starting(s, N)
  PROVE  /\ Shape /\ HeaderTypes /\ Len(headers) \in Nat
         /\ headers = <<>> => s = 0
         /\ headers # <<>> => /\ StartsWith(s, N, blockIndex) /\ Len(headers) = 1
                              /\ Size(blockIndex) = N /\ DOMAIN blockIndex.entries = 0 .. N - 1
                              /\ pr_blockIndexSize = N
<1>1. N \in 1 .. MaxSize /\ Divides(N, MaxSize)
  BY Kinds
<1>2. CASE headers = <<>>
  <2>1. s = 0
    BY <1>2 DEF Starting
  <2>2. DOMAIN headers = {} /\ Len(headers) = 0
    BY <1>2
  <2>3. Shape /\ HeaderTypes
    BY <1>2, <2>2 DEF Shape, HeaderTypes
  <2> QED
    BY <1>2, <2>1, <2>2, <2>3
<1>3. CASE headers # <<>>
  <2>1. PICK g : headers = <<g>> /\ StartsWith(s, N, g)
    BY <1>3 DEF Starting
  <2>2. g \in Header(N)
    BY <2>1 DEF StartsWith
  <2>3. Size(g) = N /\ DOMAIN g.entries = 0 .. N - 1
    BY <1>1, <2>2, HeaderSize
  <2>4. Len(headers) = 1 /\ headers[1] = g /\ DOMAIN headers = {1}
    BY <2>1
  <2>5. blockIndex = g /\ pr_blockIndexSize = N
    BY <1>3, <2>3, <2>4 DEF blockIndex, pr_blockIndexSize
  <2>6. HeaderTypes
    BY <1>1, <2>2, <2>4 DEF HeaderTypes
  <2>7. headers \in Seq(UNION {Header(n) : n \in 1 .. MaxSize})
    BY <1>1, <2>1, <2>2
  <2>8. Shape
    BY <1>1, <2>3, <2>4, <2>7 DEF Shape
  <2> QED
    BY <1>3, <2>1, <2>3, <2>4, <2>5, <2>6, <2>8
<1> QED
  BY <1>2, <1>3

LEMMA InitTyped ==
  ASSUME Init
  PROVE  Types
<1>1. PICK s \in Index, N \in Nat \ {0} : N = InitialSize /\ s % BlockSize = 0 /\ Starting(s, N)
  BY InitFacts
<1>2. /\ Shape /\ HeaderTypes /\ Len(headers) \in Nat
      /\ headers = <<>> => s = 0
      /\ headers # <<>> => pr_blockIndexSize = N
  BY <1>1, InitHeaders
<1>3. /\ next = [b \in Blocks |-> 1] /\ emptyFlags = [b \in Blocks |-> Offsets]
      /\ slot = [b \in Blocks |-> [k \in Offsets |-> Nothing]]
      /\ step = "idle" /\ bulk = FALSE /\ count = 0 /\ cur = 0
      /\ startBlock = Null /\ firstAllocated = Null
      /\ originalFront = 0 /\ originalUsed = 0
      /\ pc = [c \in Consumers |-> "idle"]
      /\ first = [c \in Consumers |-> 0] /\ left = [c \in Consumers |-> 0]
      /\ header = [c \in Consumers |-> 0] /\ idx = [c \in Consumers |-> 0]
      /\ destroyed = {} /\ sent = 0 /\ excuses = {}
  BY DEF Init
<1>4. /\ 1 \in Blocks /\ MaxBlocks \in Nat \ {0} /\ MaxBulk \in Nat /\ MaxSent \in Nat
      /\ MaxSize \in Nat \ {0} /\ IndexSize \in Nat \ {0}
  BY Kinds, Sizes, BoundsAreNat
<1>5. pr_blockIndexSize \in Nat \ {0}
  BY <1>2, SizeIs
<1>6. 0 \in Index /\ 0 \in 0 .. MaxBulk /\ 0 \in 0 .. MaxSent
  BY <1>4 DEF Index
<1>7. /\ tailIndex = s /\ headIndex = s
      /\ allocated \in {0, 1} /\ (s = 0 => allocated = 0) /\ (s # 0 => allocated = 1)
      /\ tailBlock \in 1 .. allocated \cup {Null} /\ slotsUsed = allocated
      /\ (s = 0 => front = 0) /\ (s # 0 => front = (Before(s) + 1) % N /\ headers # <<>>)
  BY <1>1, <1>2 DEF Starting
<1>8. front \in 0 .. pr_blockIndexSize - 1
  <2>1. CASE s = 0
    BY <1>5, <1>7, <2>1
  <2>2. CASE s # 0
    <3>1. Before(s) + 1 \in Int
      BY IndexIsInt, BeforeFacts
    <3>2. (Before(s) + 1) % N \in 0 .. N - 1
      BY <3>1, CongMod
    <3> QED
      BY <1>2, <1>7, <2>2, <3>2
  <2> QED
    BY <2>1, <2>2
<1>9. slotsUsed \in 0 .. pr_blockIndexSize /\ allocated \in 0 .. MaxBlocks
  BY <1>4, <1>5, <1>7
<1>10. SideTypes
  <2>1. HeaderTypes <=> \A i \in DOMAIN headers : \E n \in 1 .. MaxSize :
          /\ n = IF i = 1 THEN InitialSize ELSE 2 * Size(headers[i - 1])
          /\ headers[i] \in [entries : [0 .. n - 1 -> Used \cup {Nothing}], front : -1 .. n - 1]
    BY DEF HeaderTypes, Header
  <2>2. /\ {tailIndex, cur} \subseteq Index
        /\ {tailBlock, startBlock, firstAllocated} \subseteq 1 .. allocated \cup {Null}
        /\ next \in [Blocks -> Blocks]
    BY <1>3, <1>4, <1>6, <1>7
  <2>3. /\ {slotsUsed, originalUsed} \subseteq 0 .. pr_blockIndexSize
        /\ {front, originalFront} \subseteq 0 .. pr_blockIndexSize - 1
    BY <1>3, <1>5, <1>8, <1>9
  <2> QED
    BY <1>2, <1>3, <1>6, <1>9, <2>1, <2>2, <2>3 DEF SideTypes
<1>11. PlaceTypes
  <2>1. 0 \in 0 .. Len(headers) /\ 0 \in -1 .. MaxSize - 1
    BY <1>2, <1>4
  <2> QED
    BY <1>3, <1>6, <1>7, <2>1 DEF PlaceTypes
<1>12. DataTypes
  BY <1>3 DEF DataTypes
<1>13. TypeOK
  BY <1>10, <1>11, <1>12, TypeParts
<1> QED
  BY <1>2, <1>3, <1>13 DEF Types, Ended

(* The numbers of a stream that was just made.                             *)
LEMMA InitGood ==
  ASSUME Init
  PROVE  Inv
<1>1. PICK s \in Index, N \in Nat \ {0} : N = InitialSize /\ s % BlockSize = 0 /\ Starting(s, N)
  BY InitFacts
<1>2. /\ next = [b \in Blocks |-> 1] /\ emptyFlags = [b \in Blocks |-> Offsets]
      /\ slot = [b \in Blocks |-> [k \in Offsets |-> Nothing]]
      /\ step = "idle" /\ bulk = FALSE /\ count = 0 /\ firstAllocated = Null
      /\ pc = [c \in Consumers |-> "idle"] /\ left = [c \in Consumers |-> 0]
      /\ sent = 0 /\ excuses = {}
  BY DEF Init
<1>3. Types
  BY InitTyped
<1>4. /\ headers = <<>> => s = 0
      /\ headers # <<>> => /\ StartsWith(s, N, blockIndex) /\ Len(headers) = 1
                           /\ Size(blockIndex) = N /\ DOMAIN blockIndex.entries = 0 .. N - 1
  BY <1>1, InitHeaders
<1>5. s \in Int /\ s = Mod(s)
  <2>1. s \in 0 .. IndexSize - 1
    BY DEF Index
  <2> QED
    BY <2>1, ModSmall
<1>6. PICK p \in Int : p = Before(s)
  BY <1>5, BeforeFacts
<1>7. AtBase(s) /\ s = Begins(p + 1) /\ Begins(p + 1) \in Int
  <2>1. AtBase(s)
    BY <1>1, <1>5, AtBaseIs
  <2> QED
    BY <1>5, <1>6, <2>1 DEF AtBase
<1>8. /\ tailIndex = s /\ headIndex = s
      /\ allocated \in {0, 1} /\ slotsUsed = allocated
      /\ (s = 0 => allocated = 0 /\ tailBlock = Null /\ front = 0)
      /\ (s # 0 => allocated = 1 /\ tailBlock = 1 /\ front = (p + 1) % N)
  BY <1>1, <1>6 DEF Starting
<1>9. PICK u \in {0, 1}, lo \in Int : u = slotsUsed /\ lo = p + 1 - u
  BY <1>8
<1>10. PICK f \in Firsts : \A c \in Consumers : f[c] = 0
  <2>1. [c \in Consumers |-> 0] \in Firsts
    BY DEF Firsts
  <2> QED
    BY <2>1
<1>11. PICK B \in Orders : \A n \in Int : B[n] = 1
  <2>1. [n \in Int |-> 1] \in Orders
    BY Kinds DEF Orders
  <2> QED
    BY <2>1
<1>12. ~InCall /\ ~Waiting /\ ~Cleared /\ Span = 0 /\ End(s) = s /\ UsedThen = u
  BY <1>2, <1>9 DEF InCall, Waiting, Cleared, Span, End, UsedThen
<1>13. p + 0 = p /\ Entered(s, 0) = p
  BY <1>6, <1>12 DEF Entered
<1>14. Control(s, 0)
  BY <1>2, <1>5, <1>8, <1>12 DEF Control
<1>15. Locals(s, B, lo, 0)
  BY <1>12 DEF Locals
<1>16. Chain(s, B, lo, 0)
  <2>1. 1 \in Blocks /\ Null \notin Blocks
    BY Kinds
  <2>2. next[1] = 1
    BY <1>2, <2>1
  <2>3. \A n \in lo .. p : B[n] = 1 /\ n = p /\ allocated = 1 /\ tailBlock = 1
    BY <1>8, <1>9, <1>11
  <2>4. \A b \in 1 .. allocated : next[b] \in 1 .. allocated
    BY <1>2, <1>8, <2>2
  <2>5. tailBlock = Null <=> allocated = 0
    BY <1>8, <2>1
  <2>6. /\ lo <= p + 1 /\ p - lo + 1 <= slotsUsed /\ slotsUsed <= allocated
        /\ \A n \in lo .. p : B[n] \in 1 .. allocated
        /\ \A n, k \in lo .. p : B[n] = B[k] => n = k
        /\ \A n \in lo .. p - 1 : next[B[n]] = B[n + 1]
    BY <1>8, <1>9, <2>3
  <2>7. lo <= p => tailBlock = B[p] /\ next[B[p]] = B[lo]
    <3> SUFFICES ASSUME lo <= p PROVE tailBlock = B[p] /\ next[B[p]] = B[lo]
      OBVIOUS
    <3>1. p \in lo .. p /\ lo \in lo .. p
      OBVIOUS
    <3> QED
      BY <2>2, <2>3, <3>1
  <2>8. lo = p - slotsUsed + 1
    BY <1>9
  <2> QED
    BY <1>2, <1>6, <1>7, <1>8, <1>13, <2>4, <2>5, <2>6, <2>7, <2>8 DEF Chain
<1>17. IndexOK(s, B, lo, 0, 0)
  <2>1. headers = <<>> => allocated = 0 /\ slotsUsed = 0 /\ front = 0
    BY <1>4, <1>8
  <2>2. ASSUME headers # <<>>
        PROVE  /\ front = (p + 1 - 0) % N
               /\ \A n \in p - u + 1 .. p : Listed(blockIndex, 0, n)
               /\ \A n \in lo .. p : At(blockIndex, 0, n).block = B[n]
               /\ Linear(blockIndex, 0) /\ \A i \in 1 .. Len(headers) - 1 : FALSE
    <3>1. StartsWith(s, N, blockIndex) /\ Len(headers) = 1 /\ Size(blockIndex) = N
          /\ DOMAIN blockIndex.entries = 0 .. N - 1
      BY <1>4, <2>2
    <3>2. CASE s = 0
      <4>1. p + 1 = 0
        <5>1. p + 1 = Num(s)
          BY <1>5, <1>6, <1>7, AtBaseIs
        <5>2. Num(s) = 0
          <6>1. BlockSize * 0 <= 0 /\ 0 < BlockSize * 0 + BlockSize
            BY Sizes
          <6> QED
            BY <3>2, <6>1, NumUnique
        <5> QED
          BY <5>1, <5>2
      <4>2. (p + 1 - 0) % N = 0
        BY <4>1
      <4>3. \A i \in 0 .. N - 1 : blockIndex.entries[i] = Nothing
        BY <3>1, <3>2 DEF StartsWith
      <4>4. Linear(blockIndex, 0)
        BY <3>1, <4>3 DEF Linear
      <4>5. u = 0 /\ lo = p + 1 /\ front = 0
        BY <1>8, <1>9, <3>2
      <4> QED
        BY <3>1, <4>2, <4>4, <4>5
    <3>3. CASE s # 0
      <4>1. /\ u = 1 /\ lo = p /\ front = (p + 1) % N
        BY <1>8, <1>9, <3>3
      <4>2. \A i \in 0 .. N - 1 :
              /\ blockIndex.entries[i] # Nothing /\ blockIndex.entries[i].block = 1
              /\ \E n \in Int : /\ blockIndex.entries[i].b = Blk(n) /\ Cong(n, i, N)
                                /\ (i = p % N => n = p)
        BY <1>6, <3>1, <3>3 DEF StartsWith
      <4>3. Linear(blockIndex, 0)
        <5>1. \A i \in 0 .. N - 1 : i + 0 = i
          OBVIOUS
        <5> QED
          BY <3>1, <4>2, <5>1 DEF Linear
      <4>4. p % N \in 0 .. N - 1 /\ p - 0 = p
        BY CongMod
      <4>5. At(blockIndex, 0, p) = blockIndex.entries[p % N]
        BY <3>1, <4>4 DEF At
      <4>6. /\ At(blockIndex, 0, p) # Nothing /\ At(blockIndex, 0, p).b = Blk(p)
            /\ At(blockIndex, 0, p).block = 1
        BY <4>2, <4>4, <4>5
      <4>7. \A n \in p .. p : n = p
        OBVIOUS
      <4>8. p - u + 1 = p /\ p + 1 - 0 = p + 1
        BY <4>1
      <4> QED
        BY <1>11, <3>1, <4>1, <4>3, <4>6, <4>7, <4>8 DEF Listed
    <3> QED
      BY <3>2, <3>3
  <2>3. headers # <<>> => Size(blockIndex) = N
    BY <1>4
  <2> QED
    BY <1>9, <1>12, <1>13, <2>1, <2>2, <2>3 DEF IndexOK
<1>18. Claimed(s, s, f)
  <2>1. s + 0 - s = 0 /\ 0 < IndexSize \div 2
    <3>1. IndexSize \div 2 \in Nat /\ MaxBulk \in Nat /\ MaxBulk < IndexSize \div 2
      BY Kinds
    <3> QED
      BY <1>5, <3>1
  <2> QED
    BY <1>2, <1>5, <1>8, <1>12, <2>1 DEF Claimed
<1>19. \A x \in Int : ~Undone(s, s, f, x)
  <2>1. \A c \in Consumers, x \in Int : ~InHand(f, c, x)
    BY <1>2, <1>10 DEF InHand
  <2> QED
    BY <1>5, <1>12, <2>1 DEF Undone
<1>20. Elems(s, s, f, B, lo, 0)
  <2>1. Stored(s, s, f, B, lo) /\ NoOther(s, s, f, B)
    BY <1>2, <1>19 DEF Stored, NoOther
  <2>2. ASSUME NEW n \in lo .. p, NEW k \in Offsets
        PROVE  k \in emptyFlags[B[n]] /\ Begins(n) + k < s /\ ~Undone(s, s, f, Begins(n) + k)
    <3>1. n \in Int /\ p + 1 \in Int /\ n + 1 <= p + 1 /\ n + 1 \in Int
      OBVIOUS
    <3>2. Begins(n) + k \in Int /\ Num(Begins(n) + k) = n
      BY <3>1, ElementAt
    <3>3. Begins(n) + k < Begins(n + 1)
      BY <3>2, PlaceIs
    <3>4. Begins(n + 1) <= Begins(p + 1) /\ Begins(n + 1) \in Int
      BY <3>1, BeginsFacts
    <3>5. k \in emptyFlags[B[n]]
      BY <1>2, <1>11, <3>1, Kinds
    <3> QED
      BY <1>7, <1>19, <3>2, <3>3, <3>4, <3>5
  <2>3. Flags(s, s, f, B, lo, 0)
    BY <1>6, <1>13, <2>2 DEF Flags
  <2> QED
    BY <2>1, <2>3 DEF Elems
<1>21. Seen(f, B)
  BY <1>2 DEF Seen, SeenBy
<1>22. Good(s, s, f, B, lo, 0, 0)
  BY <1>14, <1>15, <1>16, <1>17, <1>18, <1>20, <1>21 DEF Good
<1>23. 0 \in Nat /\ 0 \in Int
  OBVIOUS
<1> QED
  BY <1>3, <1>5, <1>22, <1>23 DEF Inv

--------------------------------------------------------------------------------
(* Every step keeps the invariant.                                         *)
LEMMA ProduceStep ==
  ASSUME Inv, Produce
  PROVE  Inv'
<1>1. CASE Enqueue
  <2>1. 1 \in 1 .. MaxBulk /\ FALSE \in BOOLEAN
    BY Kinds
  <2> QED
    BY <1>1, <2>1, BeginStep DEF Enqueue
<1>2. CASE EnqueueBulk
  <2>1. PICK n \in 1 .. MaxBulk : Begin(TRUE, n)
    BY <1>2, Kinds DEF EnqueueBulk
  <2> QED
    BY <2>1, BeginStep
<1>3. CASE TakeAhead
  BY <1>3, TakeAheadStep
<1>4. CASE CheckRoom
  BY <1>4, CheckRoomStep
<1>5. CASE NoLeeway
  BY <1>5, UndoStep DEF NoLeeway
<1>6. CASE NewBlockIndex
  BY <1>6, NewBlockIndexStep
<1>7. CASE AllocationFails
  BY <1>7, UndoStep DEF AllocationFails
<1>8. CASE RequisitionBlock
  BY <1>8, RequisitionStep
<1>9. CASE ResetEmpty
  BY <1>9, ResetEmptyStep
<1>10. CASE Construct
  BY <1>10, ConstructStep
<1>11. CASE ConstructorThrows
  BY <1>11, UndoStep DEF ConstructorThrows
<1>12. CASE WriteEntry
  BY <1>12, WriteEntryStep
<1>13. CASE StoreFront
  BY <1>13, StoreFrontStep
<1>14. CASE Publish
  BY <1>14, PublishStep
<1> QED
  BY <1>1, <1>2, <1>3, <1>4, <1>5, <1>6, <1>7, <1>8, <1>9, <1>10, <1>11, <1>12, <1>13, <1>14
     DEF Produce

(* Every step keeps the invariant.                                         *)
LEMMA NextStep ==
  ASSUME Inv, [Next]_vars
  PROVE  Inv'
<1>1. CASE Produce
  BY <1>1, ProduceStep
<1>2. ASSUME NEW c \in Consumers, Consume(c) PROVE Inv'
  BY <1>2, ConsumeStep
<1>3. CASE Destroy
  BY <1>3, DestroyStep
<1>4. CASE UNCHANGED vars
  BY <1>4, StutterStep
<1> QED
  BY <1>1, <1>2, <1>3, <1>4 DEF Next

(* The invariant holds in every reachable state.                           *)
LEMMA Always == Spec => []Inv
<1>1. Init => Inv
  BY InitGood
<1>2. Inv /\ [Next]_vars => Inv'
  BY NextStep
<1> QED
  BY <1>1, <1>2, PTL DEF Spec

--------------------------------------------------------------------------------
(* What follows from it.                                                   *)
LEMMA InvLooksUp ==
  ASSUME Inv
  PROVE  LookupSound
<1> SUFFICES ASSUME "bulk" \notin excuses, NEW c \in Consumers, pc[c] = "block"
             PROVE  Finds(c)
  BY DEF LookupSound
<1>1. Types
  BY DEF Inv
<1>2. PICK t \in Int, h \in Int, f \in Firsts, B \in Orders, lo \in Int, m \in Nat, o \in Int :
        Good(t, h, f, B, lo, m, o)
  BY DEF Inv
<1>3. /\ TypeOK /\ Control(t, m) /\ Claimed(t, h, f) /\ Stored(t, h, f, B, lo) /\ Seen(f, B)
  BY <1>1, <1>2, GoodFacts
<1>4. left[c] >= 1 /\ first[c] = Mod(f[c])
  BY <1>3 DEF Claimed
<1>5. PICK x \in Int : x = f[c] /\ InHand(f, c, x)
  <2>1. f[c] \in Int /\ left[c] \in Nat
    BY <1>3, RunFacts
  <2> QED
    BY <1>4, <2>1 DEF InHand
<1>6. slot[B[Num(x)]][x % BlockSize] = Mod(x) /\ Num(x) \in Int
  <2>1. Undone(t, h, f, x)
    BY <1>3, <1>5, InHandFacts
  <2> QED
    BY <1>3, <2>1, NumIs DEF Stored
<1>7. Entry(c) = EntryFor(B, Num(x))
  BY <1>3, <1>5 DEF Seen, SeenBy
<1>8. Entry(c) # Nothing /\ Entry(c).block = B[Num(x)]
  BY <1>6, <1>7, EntryForIs
<1>9. first[c] % BlockSize = x % BlockSize
  BY <1>4, <1>5, BaseIs
<1> QED
  BY <1>4, <1>5, <1>6, <1>8, <1>9 DEF Finds

(* What the numbers say of the ring and of its index.                      *)
LEMMA InvIsRing ==
  ASSUME Inv
  PROVE  IndexIsRing
<1> SUFFICES ASSUME step = "idle", excuses = {}
             PROVE  /\ slotsUsed = allocated
                    /\ \A j \in 0 .. slotsUsed - 1 :
                         Behind(j) = [b |-> Minus(Base(Minus(tailIndex, 1)),
                                                  BlockSize * (slotsUsed - 1 - j)),
                                      block |-> After(tailBlock, j + 1)]
  BY DEF IndexIsRing
<1>1. Types
  BY DEF Inv
<1>2. PICK t \in Int, h \in Int, f \in Firsts, B \in Orders, lo \in Int, m \in Nat, o \in Int :
        Good(t, h, f, B, lo, m, o)
  BY DEF Inv
<1>3. slotsUsed = allocated /\ lo = Before(t) - slotsUsed + 1 /\ tailIndex = Mod(t)
      /\ (tailBlock = Null <=> allocated = 0)
  BY <1>1, <1>2, RestFacts
<1>4. slotsUsed \in Nat /\ Before(t) \in Int
  BY <1>1, <1>2, GoodFacts
<1>5. ASSUME NEW j \in 0 .. slotsUsed - 1
      PROVE  Behind(j) = [b |-> Minus(Base(Minus(tailIndex, 1)), BlockSize * (slotsUsed - 1 - j)),
                          block |-> After(tailBlock, j + 1)]
  <2>1. Behind(j) = EntryFor(B, lo + j)
    BY <1>1, <1>2, BehindIs
  <2>2. tailBlock # Null
    BY <1>3, <1>4
  <2>3. After(tailBlock, j + 1) = B[lo + j]
    BY <1>1, <1>2, <2>2, RingIs
  <2>4. Base(Minus(tailIndex, 1)) = Blk(Before(t))
    <3>1. Minus(tailIndex, 1) = Mod(t - 1) /\ t - 1 \in Int
      BY <1>3, ModFacts
    <3> QED
      BY <3>1, BaseIs DEF Before
  <2>5. Minus(Blk(Before(t)), BlockSize * (slotsUsed - 1 - j)) = Blk(lo + j)
    <3>1. PICK p \in Int, u \in Int, b \in Int :
            p = Before(t) /\ u = slotsUsed - 1 - j /\ b = BlockSize /\ lo + j = p - u
      <4>1. BlockSize \in Int
        BY Sizes
      <4> QED
        BY <1>3, <1>4, <4>1
    <3>2. b * p \in Int /\ b * u \in Int /\ b * p - b * u = b * (p - u)
      BY ONLY p \in Int, u \in Int, b \in Int
    <3>3. Minus(Mod(b * p), b * u) = Mod(b * p - b * u)
      BY <3>2, ModFacts
    <3> QED
      BY <3>1, <3>2, <3>3 DEF Blk
  <2> QED
    BY <2>1, <2>3, <2>4, <2>5 DEF EntryFor
<1> QED
  BY <1>3, <1>5

(* What the invariant says of a stream that is gone.                       *)
LEMMA InvDestroys ==
  ASSUME Inv
  PROVE  DestroysExactly
BY DEF Inv, Types, Ended, DestroysExactly

(***************************************************************************)
(* Every variable stays within its type: an index into a block index never *)
(* runs off its end, and nobody reads a header that is not there.          *)
(***************************************************************************)
THEOREM TypeCorrect == Spec => []TypeOK
<1>1. Inv => TypeOK
  BY DEF Inv, Types
<1> QED
  BY <1>1, Always, PTL

(***************************************************************************)
(* A consumer that has found an entry, in whatever version of the block    *)
(* index it has read and however long ago, finds its element in the block  *)
(* that the entry names, while the producer goes on, reuses blocks and     *)
(* overwrites entries; calls that fail included, but for an undone bulk    *)
(* call.                                                                   *)
(***************************************************************************)
THEOREM LookupSoundAlways == Spec => []LookupSound
<1>1. Inv => LookupSound
  BY InvLooksUp
<1> QED
  BY <1>1, Always, PTL

(***************************************************************************)
(* Between two calls, none of which has failed after it had put a block    *)
(* into the ring, the entries in use are the blocks of the ring in the     *)
(* order of the ring, each one block further on.                           *)
(***************************************************************************)
THEOREM IndexIsRingAlways == Spec => []IndexIsRing
<1>1. Inv => IndexIsRing
  BY InvIsRing
<1> QED
  BY <1>1, Always, PTL

(***************************************************************************)
(* The destructor finds the elements that are left, all of them and        *)
(* nothing else, wherever the head and the tail are in their blocks.       *)
(***************************************************************************)
THEOREM DestroysExactlyAlways == Spec => []DestroysExactly
<1>1. Inv => DestroysExactly
  BY InvDestroys
<1> QED
  BY <1>1, Always, PTL
================================================================================
