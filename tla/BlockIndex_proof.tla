--------------------------- MODULE BlockIndex_proof ----------------------------
(***************************************************************************)
(* Proofs about BlockIndex.  The argument is about numbers that do not     *)
(* wrap: places of elements, and numbers of blocks; block n has the places *)
(* from BlockSize * n on.                                                  *)
(***************************************************************************)
EXTENDS BlockIndex, FiniteSetTheorems, TLAPS

Mod(x) == x % IndexSize
Num(x) == x \div BlockSize
Blk(n) == Mod(BlockSize * n)
Turn1 == IndexSize \div BlockSize

Cong(a, b, m) == \E q \in Int : a - b = m * q

--------------------------------------------------------------------------------
(* Numbers.                                                                *)
LEMMA DivMod ==
  ASSUME NEW n \in Nat \ {0}, NEW x \in Int
  PROVE  x % n \in 0 .. n - 1 /\ x \div n \in Int /\ x = n * (x \div n) + (x % n)
OBVIOUS

LEMMA AtLeastOnce ==
  ASSUME NEW n \in Nat \ {0}, NEW d \in Int
  PROVE  (d >= 1 => n * d >= n) /\ (d <= -1 => n * d <= -n)
<1>1. d >= 1 => n * d >= n
  OBVIOUS
<1>2. d <= -1 => n * d <= -n
  OBVIOUS
<1> QED
  BY <1>1, <1>2

(* Remainder and quotient are unique.                                      *)
LEMMA Remainder ==
  ASSUME NEW n \in Nat \ {0}, NEW q \in Int, NEW r \in 0 .. n - 1
  PROVE  (n * q + r) % n = r /\ (n * q + r) \div n = q
<1>1. PICK x \in Int : x = n * q + r
  OBVIOUS
<1>2. PICK p \in Int, t \in 0 .. n - 1 : x = n * p + t /\ x % n = t /\ x \div n = p
  BY DivMod
<1>3. n * (q - p) = t - r
  BY <1>1, <1>2
<1>4. ~(q - p >= 1) /\ ~(q - p <= -1)
  BY <1>3, AtLeastOnce
<1> QED
  BY <1>1, <1>2, <1>4

LEMMA WholeTurns ==
  ASSUME NEW n \in Nat \ {0}, NEW x \in Int, NEW k \in Int
  PROVE  (x + n * k) % n = x % n
<1>1. PICK q \in Int, r \in 0 .. n - 1 : x = n * q + r /\ x % n = r
  BY DivMod
<1>2. x + n * k = n * (q + k) + r /\ q + k \in Int
  BY <1>1
<1>3. (n * (q + k) + r) % n = r
  BY <1>2, Remainder
<1> QED
  BY <1>1, <1>2, <1>3

--------------------------------------------------------------------------------
(* Congruence.                                                             *)
LEMMA CongSame ==
  ASSUME NEW m \in Int, NEW a \in Int
  PROVE  Cong(a, a, m) /\ Cong(a + m, a, m) /\ Cong(a - m, a, m)
<1>1. a - a = m * 0 /\ (a + m) - a = m * 1 /\ (a - m) - a = m * (-1)
  OBVIOUS
<1> QED
  BY <1>1 DEF Cong

LEMMA CongSum ==
  ASSUME NEW m \in Int, NEW a \in Int, NEW b \in Int, NEW c \in Int, NEW d \in Int,
         Cong(a, b, m), Cong(c, d, m)
  PROVE  Cong(a + c, b + d, m) /\ Cong(a - c, b - d, m)
<1>1. PICK q \in Int : a - b = m * q
  BY DEF Cong
<1>2. PICK p \in Int : c - d = m * p
  BY DEF Cong
<1>3. /\ (a + c) - (b + d) = m * (q + p) /\ q + p \in Int
      /\ (a - c) - (b - d) = m * (q - p) /\ q - p \in Int
  BY <1>1, <1>2
<1> QED
  BY <1>3 DEF Cong

LEMMA CongTurn ==
  ASSUME NEW m \in Int, NEW a \in Int, NEW b \in Int, NEW c \in Int, Cong(a, b, m)
  PROVE  /\ Cong(b, a, m)
         /\ Cong(b, c, m) => Cong(a, c, m)
         /\ Cong(c, b, m) => Cong(a, c, m)
<1>1. PICK q \in Int : a - b = m * q
  BY DEF Cong
<1>2. b - a = m * (-q) /\ -q \in Int
  BY <1>1
<1>3. Cong(b, c, m) => Cong(a, c, m)
  <2> SUFFICES ASSUME Cong(b, c, m) PROVE Cong(a, c, m)
    OBVIOUS
  <2>1. PICK p \in Int : b - c = m * p
    BY DEF Cong
  <2>2. a - c = m * (q + p) /\ q + p \in Int
    BY <1>1, <2>1
  <2> QED
    BY <2>2 DEF Cong
<1>4. Cong(c, b, m) => Cong(a, c, m)
  <2> SUFFICES ASSUME Cong(c, b, m) PROVE Cong(a, c, m)
    OBVIOUS
  <2>1. PICK p \in Int : c - b = m * p
    BY DEF Cong
  <2>2. a - c = m * (q - p) /\ q - p \in Int
    BY <1>1, <2>1
  <2> QED
    BY <2>2 DEF Cong
<1> QED
  BY <1>2, <1>3, <1>4 DEF Cong

LEMMA CongPart ==
  ASSUME NEW m \in Int, NEW k \in Int, NEW a \in Int, NEW b \in Int, Cong(a, b, m * k)
  PROVE  Cong(a, b, m)
<1>1. PICK q \in Int : a - b = (m * k) * q
  BY DEF Cong
<1>2. a - b = m * (k * q) /\ k * q \in Int
  BY <1>1
<1> QED
  BY <1>2 DEF Cong

LEMMA CongMod ==
  ASSUME NEW m \in Nat \ {0}, NEW a \in Int
  PROVE  Cong(a % m, a, m) /\ a % m \in 0 .. m - 1
<1>1. PICK q \in Int, r \in 0 .. m - 1 : a = m * q + r /\ a % m = r
  BY DivMod
<1>2. r - a = m * (-q) /\ -q \in Int
  BY <1>1
<1> QED
  BY <1>1, <1>2 DEF Cong

LEMMA CongNear ==
  ASSUME NEW m \in Nat \ {0}, NEW a \in Int, NEW b \in Int, Cong(a, b, m),
         a - b < m, b - a < m
  PROVE  a = b
<1>1. PICK q \in Int : a - b = m * q
  BY DEF Cong
<1>2. ~(q >= 1) /\ ~(q <= -1)
  BY <1>1, AtLeastOnce
<1> QED
  BY <1>1, <1>2

LEMMA CongIsMod ==
  ASSUME NEW m \in Nat \ {0}, NEW a \in Int, NEW r \in 0 .. m - 1, Cong(r, a, m)
  PROVE  a % m = r
<1>1. Cong(a % m, a, m) /\ a % m \in 0 .. m - 1 /\ r \in Int
  BY CongMod
<1>2. PICK s \in 0 .. m - 1 : s = a % m
  BY <1>1
<1>3. Cong(s, r, m)
  BY <1>1, <1>2, CongTurn
<1>4. s \in Int /\ s - r < m /\ r - s < m
  BY <1>1, <1>2
<1>5. s = r
  BY <1>1, <1>3, <1>4, CongNear
<1> QED
  BY <1>2, <1>5

--------------------------------------------------------------------------------
(* The sizes.                                                              *)
LEMMA Sizes ==
  /\ BlockSize \in Nat \ {0} /\ BlockSize >= 2 /\ IndexSize \in Nat \ {0}
  /\ MaxCapacity \in Nat \ {0} /\ InitialCapacity \in Nat \ {0}
  /\ Turn1 \in Nat \ {0} /\ IndexSize = BlockSize * Turn1
  /\ \E k \in Int : Turn1 = MaxCapacity * k
<1>1. /\ BlockSize \in Nat /\ BlockSize >= 2 /\ IndexSize \in Nat \ {0}
      /\ MaxCapacity \in Nat \ {0} /\ InitialCapacity \in Nat \ {0}
  BY SizesDivide
<1>2. PICK m \in Nat \ {0} : m = BlockSize * MaxCapacity
  <2>1. BlockSize \in Nat \ {0} /\ MaxCapacity >= 1
    BY <1>1
  <2>2. BlockSize * MaxCapacity >= BlockSize
    BY <1>1, <2>1, AtLeastOnce
  <2> QED
    BY <1>1, <2>2
<1>3. PICK k \in Int : IndexSize = m * k
  <2>1. IndexSize % m = 0
    BY <1>2, SizesDivide
  <2> QED
    BY <1>1, <1>2, <2>1, DivMod
<1>4. PICK t \in Int : t = MaxCapacity * k
  BY <1>1
<1>5. IndexSize = BlockSize * t + 0
  BY <1>1, <1>2, <1>3, <1>4
<1>6. (BlockSize * t + 0) \div BlockSize = t
  BY <1>1, Remainder
<1>7. Turn1 = t
  BY <1>5, <1>6 DEF Turn1
<1>8. t >= 1
  <2>1. t <= -1 => BlockSize * t <= -BlockSize
    BY <1>1, AtLeastOnce
  <2> QED
    BY <1>1, <1>5, <2>1
<1> QED
  BY <1>1, <1>4, <1>5, <1>7, <1>8

LEMMA ModType ==
  ASSUME NEW x \in Int
  PROVE  Mod(x) \in Index /\ Mod(x) \in Int /\ Cong(Mod(x), x, IndexSize)
BY Sizes, CongMod DEF Mod, Index

LEMMA ModSame ==
  ASSUME NEW x \in Int, NEW y \in Int
  PROVE  Mod(x) = Mod(y) <=> Cong(x, y, IndexSize)
<1>1. IndexSize \in Nat \ {0} /\ Mod(x) \in 0 .. IndexSize - 1 /\ Mod(y) \in 0 .. IndexSize - 1
  BY Sizes, CongMod DEF Mod
<1>2. PICK a \in 0 .. IndexSize - 1, b \in 0 .. IndexSize - 1 :
        a = Mod(x) /\ b = Mod(y) /\ Cong(a, x, IndexSize) /\ Cong(b, y, IndexSize)
  BY <1>1, ModType
<1>3. a \in Int /\ b \in Int /\ a - b < IndexSize /\ b - a < IndexSize /\ IndexSize \in Int
  BY <1>1
<1>4. ASSUME a = b PROVE Cong(x, y, IndexSize)
  BY <1>2, <1>3, <1>4, CongTurn
<1>5. ASSUME Cong(x, y, IndexSize) PROVE a = b
  <2>1. Cong(a, y, IndexSize)
    BY <1>2, <1>3, <1>5, CongTurn
  <2>2. Cong(a, b, IndexSize)
    BY <1>2, <1>3, <2>1, CongTurn
  <2> QED
    BY <1>1, <1>3, <2>2, CongNear
<1> QED
  BY <1>2, <1>4, <1>5

(* Adding and subtracting counters, and telling them apart.                *)
LEMMA ModFacts ==
  ASSUME NEW x \in Int, NEW y \in Int
  PROVE  /\ Plus(Mod(x), y) = Mod(x + y)
         /\ Minus(Mod(x), y) = Mod(x - y)
         /\ Minus(Mod(x), Mod(y)) = Mod(x - y)
<1>0. IndexSize \in Int /\ IndexSize \in Nat \ {0} /\ Mod(x) \in Int /\ Mod(y) \in Int
  BY Sizes, ModType
<1>1. Cong(Mod(x), x, IndexSize) /\ Cong(Mod(y), y, IndexSize) /\ Cong(y, y, IndexSize)
  BY <1>0, ModType, CongSame
<1>2. /\ Cong(Mod(x) + y, x + y, IndexSize) /\ Cong(Mod(x) - y, x - y, IndexSize)
      /\ Cong(Mod(x) - Mod(y), x - y, IndexSize)
  BY <1>0, <1>1, CongSum
<1>3. /\ Mod(Mod(x) + y) = Mod(x + y) /\ Mod(Mod(x) - y) = Mod(x - y)
      /\ Mod(Mod(x) - Mod(y)) = Mod(x - y)
  BY <1>0, <1>2, ModSame
<1> QED
  BY <1>3 DEF Mod, Plus, Minus

LEMMA ModNear ==
  ASSUME NEW x \in Int, NEW y \in Int, Mod(x) = Mod(y), x - y < IndexSize, y - x < IndexSize
  PROVE  x = y
BY Sizes, ModSame, CongNear

LEMMA ModSmall ==
  ASSUME NEW r \in 0 .. IndexSize - 1
  PROVE  Mod(r) = r
BY Sizes, CongSame, CongIsMod DEF Mod

--------------------------------------------------------------------------------
(* Blocks and places.                                                      *)
LEMMA NumIs ==
  ASSUME NEW x \in Int
  PROVE  /\ Num(x) \in Int /\ BlockSize * Num(x) <= x /\ x < BlockSize * Num(x) + BlockSize
         /\ x % BlockSize = x - BlockSize * Num(x)
         /\ BlockSize * Num(x) \in Int
BY Sizes, DivMod DEF Num

LEMMA NumUnique ==
  ASSUME NEW n \in Int, NEW x \in Int, BlockSize * n <= x, x < BlockSize * n + BlockSize
  PROVE  Num(x) = n
<1>1. PICK r \in 0 .. BlockSize - 1 : r = x - BlockSize * n
  BY Sizes
<1>2. x = BlockSize * n + r
  BY <1>1, Sizes
<1> QED
  BY <1>2, Sizes, Remainder DEF Num

LEMMA BlockApart ==
  ASSUME NEW n \in Int, NEW m \in Int
  PROVE  /\ n < m => BlockSize * n + BlockSize <= BlockSize * m
         /\ BlockSize * n < BlockSize * m => n < m
         /\ BlockSize * (n + 1) = BlockSize * n + BlockSize
         /\ BlockSize * n \in Int
<1>1. BlockSize \in Nat \ {0} /\ m - n \in Int
  BY Sizes
<1>2. m - n >= 1 => BlockSize * (m - n) >= BlockSize
  BY <1>1, AtLeastOnce
<1>3. n - m >= 1 => BlockSize * (n - m) >= BlockSize
  BY <1>1, AtLeastOnce
<1>4. BlockSize * (m - n) = BlockSize * m - BlockSize * n
  BY <1>1
<1>5. BlockSize * (n - m) = BlockSize * n - BlockSize * m
  BY <1>1
<1>6. BlockSize * m \in Int /\ BlockSize * n \in Int
  BY <1>1
<1>7. n < m => BlockSize * n + BlockSize <= BlockSize * m
  BY <1>1, <1>2, <1>4, <1>6
<1>8. BlockSize * n < BlockSize * m => n < m
  <2>1. ~(n - m >= 1) /\ n # m => n < m
    OBVIOUS
  <2> QED
    BY <1>1, <1>3, <1>5, <1>6, <2>1
<1>9. BlockSize * (n + 1) = BlockSize * n + BlockSize
  BY <1>1
<1> QED
  BY <1>6, <1>7, <1>8, <1>9

LEMMA NumMonotone ==
  ASSUME NEW x \in Int, NEW y \in Int, x <= y
  PROVE  Num(x) <= Num(y)
<1>1. ~(Num(y) < Num(x))
  <2> SUFFICES ASSUME Num(y) < Num(x) PROVE FALSE
    OBVIOUS
  <2>1. BlockSize * Num(y) + BlockSize <= BlockSize * Num(x)
    BY NumIs, BlockApart
  <2> QED
    BY <2>1, NumIs, Sizes
<1> QED
  BY <1>1, NumIs

(* The place where a block begins is a multiple of its size.               *)
LEMMA BlkType ==
  ASSUME NEW n \in Int
  PROVE  Blk(n) \in Bases /\ Blk(n) \in Index /\ Blk(n) = BlockSize * (n % Turn1)
<1>1. PICK q \in Int, r \in 0 .. Turn1 - 1 : n = Turn1 * q + r /\ n % Turn1 = r
  BY Sizes, DivMod
<1>2. PICK a \in Int : a = BlockSize * r
  BY Sizes
<1>3. BlockSize * n = IndexSize * q + a
  <2>1. BlockSize * (Turn1 * q + r) = (BlockSize * Turn1) * q + BlockSize * r
    BY Sizes
  <2> QED
    BY <1>1, <1>2, <2>1, Sizes
<1>4. a \in 0 .. IndexSize - 1
  <2>1. BlockSize * 0 <= a
    BY <1>1, <1>2, Sizes, BlockApart
  <2>2. BlockSize * r + BlockSize <= BlockSize * Turn1
    BY <1>1, Sizes, BlockApart
  <2> QED
    BY <1>2, <2>1, <2>2, Sizes
<1>5. (IndexSize * q + a) % IndexSize = a
  BY <1>4, Sizes, Remainder
<1>6. Blk(n) = a
  BY <1>3, <1>5 DEF Blk, Mod
<1>7. (BlockSize * r + 0) % BlockSize = 0
  BY <1>1, Sizes, Remainder
<1>8. a % BlockSize = 0
  BY <1>2, <1>7, Sizes
<1> QED
  BY <1>1, <1>2, <1>4, <1>6, <1>8 DEF Bases, Index

LEMMA BlkSame ==
  ASSUME NEW n \in Int, NEW m \in Int, Blk(n) = Blk(m),
         BlockSize * n - BlockSize * m < IndexSize,
         BlockSize * m - BlockSize * n < IndexSize
  PROVE  n = m
<1>1. BlockSize * n = BlockSize * m
  BY BlockApart, ModNear DEF Blk
<1> QED
  BY <1>1, BlockApart, Sizes

LEMMA BlkSteps ==
  ASSUME NEW n \in Int, NEW m \in Int
  PROVE  /\ Plus(Blk(n), BlockSize) = Blk(n + 1)
         /\ Minus(Blk(n), BlockSize) = Blk(n - 1)
         /\ Minus(Blk(n), Blk(m)) = Blk(n - m)
         /\ Minus(Blk(n), Blk(m)) \div BlockSize = (n - m) % Turn1
<1>1. /\ BlockSize * n \in Int /\ BlockSize * m \in Int /\ BlockSize \in Int
      /\ BlockSize * (n + 1) = BlockSize * n + BlockSize
      /\ BlockSize * (n - 1) = BlockSize * n - BlockSize
      /\ BlockSize * (n - m) = BlockSize * n - BlockSize * m
  BY Sizes
<1>2. /\ Plus(Blk(n), BlockSize) = Blk(n + 1) /\ Minus(Blk(n), BlockSize) = Blk(n - 1)
      /\ Minus(Blk(n), Blk(m)) = Blk(n - m)
  BY <1>1, ModFacts DEF Blk
<1>3. PICK r \in Int : r = (n - m) % Turn1 /\ Blk(n - m) = BlockSize * r + 0
  <2>1. PICK d \in Int : d = n - m
    OBVIOUS
  <2>2. Blk(d) = BlockSize * (d % Turn1) /\ d % Turn1 \in Int
    BY BlkType, Sizes, DivMod
  <2>3. BlockSize * (d % Turn1) = BlockSize * (d % Turn1) + 0
    BY <2>2, Sizes
  <2> QED
    BY <2>1, <2>2, <2>3
<1>4. (BlockSize * r + 0) \div BlockSize = r
  BY Sizes, Remainder
<1> QED
  BY <1>2, <1>3, <1>4

(* The block of a place.                                                   *)
LEMMA BaseIs ==
  ASSUME NEW x \in Int
  PROVE  /\ Base(Mod(x)) = Blk(Num(x))
         /\ Mod(x) % BlockSize = x % BlockSize
<1>1. PICK n \in Int, r \in 0 .. BlockSize - 1 :
        n = Num(x) /\ x = BlockSize * n + r /\ x % BlockSize = r
  BY Sizes, DivMod DEF Num
<1>2. PICK k \in Int : Blk(n) = BlockSize * k /\ k \in 0 .. Turn1 - 1
  <2>1. n % Turn1 \in 0 .. Turn1 - 1
    BY Sizes, CongMod
  <2>2. n % Turn1 \in Int
    BY <2>1, Sizes
  <2> QED
    BY <2>1, <2>2, BlkType
<1>3. PICK a \in Int : a = BlockSize * k
  BY Sizes
<1>4. BlockSize * k + BlockSize <= BlockSize * Turn1 /\ 0 <= a
  <2>1. BlockSize * 0 <= BlockSize * k
    BY <1>2, Sizes, BlockApart
  <2> QED
    BY <1>2, <1>3, <2>1, Sizes, BlockApart
<1>5. a + r \in 0 .. IndexSize - 1
  BY <1>1, <1>3, <1>4, Sizes
<1>6. Mod(x) = a + r
  <2>1. Mod(BlockSize * n) = a /\ BlockSize * n \in Int /\ r \in Int
    BY <1>1, <1>2, <1>3, Sizes DEF Blk
  <2>2. Plus(Mod(BlockSize * n), r) = Mod(BlockSize * n + r)
    BY <2>1, ModFacts
  <2>3. Plus(a, r) = a + r
    BY <1>5, ModSmall DEF Plus, Mod
  <2> QED
    BY <1>1, <2>1, <2>2, <2>3
<1>7. (BlockSize * k + r) % BlockSize = r
  BY Sizes, Remainder
<1>8. Mod(x) % BlockSize = r
  BY <1>3, <1>6, <1>7
<1> QED
  BY <1>1, <1>2, <1>3, <1>6, <1>8 DEF Base

(* The position of a block in an index, from that of another one.          *)
LEMMA PositionIs ==
  ASSUME NEW C \in Nat \ {0}, NEW k \in Int, Turn1 = C * k,
         NEW t \in Int, NEW n \in Int, NEW m \in Int, NEW p \in 0 .. C - 1,
         Cong(p, t + (n - m), C)
  PROVE  (t + (Minus(Blk(n), Blk(m)) \div BlockSize)) % C = p
<1>1. PICK r \in Int : r = (n - m) % Turn1 /\ Cong(r, n - m, Turn1)
  <2>1. PICK d \in Int : d = n - m
    OBVIOUS
  <2>2. Cong(d % Turn1, d, Turn1) /\ d % Turn1 \in 0 .. Turn1 - 1
    BY Sizes, CongMod
  <2>3. d % Turn1 \in Int
    BY <2>2, Sizes
  <2> QED
    BY <2>1, <2>2, <2>3
<1>2. Cong(r, n - m, C)
  <2>1. PICK d \in Int : d = n - m
    OBVIOUS
  <2>2. Cong(r, d, C * k) /\ C \in Int
    BY <1>1, <2>1
  <2> QED
    BY <2>1, <2>2, CongPart
<1>3. Cong(t + r, t + (n - m), C)
  <2>1. PICK d \in Int : d = n - m /\ C \in Int
    OBVIOUS
  <2>2. Cong(t, t, C) /\ Cong(r, d, C)
    BY <1>2, <2>1, CongSame
  <2>3. Cong(t + r, t + d, C)
    BY <2>1, <2>2, CongSum
  <2> QED
    BY <2>1, <2>3
<1>4. Cong(p, t + r, C)
  <2>1. PICK a \in Int, b \in Int : a = t + r /\ b = t + (n - m) /\ p \in Int /\ C \in Int
    OBVIOUS
  <2>2. Cong(a, b, C) /\ Cong(p, b, C)
    BY <1>3, <2>1
  <2> QED
    BY <2>1, <2>2, CongTurn
<1>5. (t + r) % C = p
  <2>1. PICK a \in Int : a = t + r
    OBVIOUS
  <2> QED
    BY <1>4, <2>1, CongIsMod
<1> QED
  BY <1>1, <1>5, BlkSteps

--------------------------------------------------------------------------------
(* What the proofs are about.  t and h are the places of the tail and the  *)
(* head, f[c] the first place of consumer c, K[e] the number of the block  *)
(* whose base is the key of entry e, and own the numbers of the blocks of  *)
(* the stream.                                                             *)
Begins(n) == BlockSize * n
Before(t) == Num(t - 1)     \* the last block before the call
AtBase(t) == t = Begins(Before(t) + 1)

InCall == step \notin {"idle", "crashed", "gone"}
Reverting == step \in {"revert", "revertRewind"}
SingleNew(t) == ~bulk /\ AtBase(t)

(* The call is about to add, or has just added, the block cur.             *)
Ensuing(t) == Before(t) + Len(fresh) + 1
HasCur(t) ==
  \/ step \in {"room", "insert", "grow", "key", "tail", "block", "value", "rewind",
               "unset"}
  \/ SingleNew(t) /\ step \in {"construct", "publish"}

Control(t) ==
  /\ tailIndex = Mod(t)
  /\ step \in Steps /\ bulk \in BOOLEAN /\ count \in 0 .. MaxBulk
  /\ cur \in Bases /\ fresh \in Seq(Bases) /\ undone \in 0 .. Len(fresh)
  /\ sent \in 0 .. MaxSent
  /\ InCall => count >= 1 /\ sent + count <= MaxSent
  /\ InCall /\ ~bulk => count = 1
  /\ ~InCall \/ ~bulk => fresh = <<>>
  /\ undone > 0 => Reverting
  /\ step = "revertRewind" => undone > 0
  /\ Reverting => bulk
  /\ HasCur(t) /\ ~bulk => AtBase(t)
  /\ HasCur(t) => cur = Blk(Ensuing(t)) /\ Begins(Ensuing(t)) < t + count
  /\ InCall => Begins(Ensuing(t) - 1) < t + count
  /\ \A i \in 1 .. Len(fresh) : fresh[i] = Blk(Before(t) + i)
  /\ step \in {"construct", "publish"} =>
       t + count <= Begins(IF SingleNew(t) THEN Ensuing(t) + 1 ELSE Ensuing(t))

(* The block that the tail of the index stands for.                        *)
Moved(t) ==
  step \in {"block", "value", "rewind", "revertRewind"}
    \/ (SingleNew(t) /\ step \in {"construct", "publish"})
TailNum(t) == Before(t) + (Len(fresh) - undone) + (IF Moved(t) THEN 1 ELSE 0)

--------------------------------------------------------------------------------
(* The index.                                                              *)
Divides(a, b) == \E k \in Int : b = a * k
Header(n) == [index : [0 .. n - 1 -> Entries], tail : 0 .. n - 1]

Formed(g) ==
  \E n \in 1 .. MaxCapacity :
    /\ g \in Header(n) /\ Divides(n, MaxCapacity)
    /\ \A p, q \in 0 .. n - 1 : g.index[p] = g.index[q] => p = q
    /\ \A p \in 0 .. n - 1 : g.index[p] \in 0 .. n - 1
    /\ \A e \in 0 .. n - 1 : \E p \in 0 .. n - 1 : g.index[p] = e

Shape ==
  /\ headers \in Seq({g \in UNION {Header(n) : n \in 1 .. MaxCapacity} : Formed(g)})
  /\ \A i \in 1 .. Len(headers) :
       /\ Capacity(headers[i]) =
            IF i = 1 THEN InitialCapacity ELSE 2 * Capacity(headers[i - 1])
       /\ Divides(Capacity(headers[i]), Capacity(blockIndex))

Valid(e) == key[e] # INVALID_BLOCK_BASE

(* A header that is not used any more is full, and its positions are those *)
(* of its blocks but for a whole number of turns.                          *)
Frozen(K, g) ==
  \E o \in Int : \A p \in DOMAIN g.index :
    Valid(g.index[p]) /\ Cong(K[g.index[p]], p + o, Capacity(g))

(* In the last one the blocks are less than a turn from the tail.          *)
Near(t, K, g) ==
  \A p \in DOMAIN g.index : LET n == K[g.index[p]] IN
    Valid(g.index[p]) =>
      /\ Cong(n, p + (TailNum(t) - g.tail), Capacity(g))
      /\ TailNum(t) - Capacity(g) < n /\ n <= TailNum(t) + Capacity(g)

Has(K, n) ==
  \E p \in DOMAIN blockIndex.index :
    Valid(blockIndex.index[p]) /\ K[blockIndex.index[p]] = n

Active(t, h) == h < t \/ ~AtBase(t) \/ \E c \in Consumers : pc[c] # "idle"

Keys(t, h, K) ==
  /\ key \in [Entries -> Bases \cup {INVALID_BLOCK_BASE}]
  /\ \A e \in Entries : Valid(e) => key[e] = Blk(K[e])
  /\ \A e \in Entries : headers = <<>> \/ e >= Capacity(blockIndex) =>
       ~Valid(e) /\ value[e] = Garbage
  /\ \A i \in 1 .. Len(headers) - 1 : Frozen(K, headers[i])
  /\ headers # <<>> =>
       /\ Near(t, K, blockIndex)
       /\ \A p \in DOMAIN blockIndex.index : LET e == blockIndex.index[p] IN
            Valid(e) => \A n \in K[e] .. TailNum(t) : Has(K, n)
       /\ \A n \in Before(t) + 1 .. TailNum(t) : Has(K, n)
       /\ Active(t, h) => \A n \in Before(t) .. TailNum(t) : Has(K, n)
  /\ headers = <<>> =>
       /\ step \in {"idle", "room", "insert", "crashed", "gone", "revert"}
       /\ fresh = <<>> /\ ~Active(t, h)

--------------------------------------------------------------------------------
(* The blocks.                                                             *)
Extra(t) == step = "value" \/ (SingleNew(t) /\ step \in {"construct", "publish"})

(* Blocks the stream owns and that are not in the index.                   *)
Unstored(t, n) ==
  \/ n \in Before(t) + 1 .. Before(t) + undone
  \/ n = Ensuing(t) /\ step # "publish"

Stored(K, n) ==
  headers # <<>> /\ \E p \in DOMAIN blockIndex.index :
    value[blockIndex.index[p]] = Blk(n) /\ K[blockIndex.index[p]] = n

(* An entry with a key that has no value yet.                              *)
InFlight(t, e) ==
  \/ step \in {"tail", "unset"} /\ e = idxEntry
  \/ (step \in {"block", "value", "rewind"} \/ (SingleNew(t) /\ step = "construct"))
       /\ e = tailEntry

Owning(t, own) ==
  /\ owned = {Blk(n) : n \in own}
  /\ \A n \in own : n <= Before(t) =>
       t + (IF InCall THEN count ELSE 0) - Begins(n) < IndexSize \div 2
  /\ \A n \in own : n < Ensuing(t)
                    \/ (n = Ensuing(t) /\ (Extra(t) \/ step \in {"rewind", "unset"}))
  /\ \A n \in Before(t) + 1 .. Ensuing(t) - 1 : n \in own
  /\ Extra(t) => Ensuing(t) \in own
  /\ ~AtBase(t) => Before(t) \in own

Old(t, own, b) == b = Blk(Before(t)) \/ (b = Null /\ \A n \in own : n > Before(t))

Tails(t, own) ==
  /\ tailBlock \in Bases \cup {Null} /\ startBlock \in Bases \cup {Null}
  /\ ~InCall => Old(t, own, tailBlock)
  /\ InCall => Old(t, own, startBlock)
  /\ InCall /\ ~Reverting =>
       tailBlock = IF SingleNew(t) /\ step = "publish" THEN Blk(Ensuing(t))
                   ELSE IF fresh = <<>> THEN startBlock ELSE Blk(Ensuing(t) - 1)

Values(t, K, own) ==
  /\ value \in [Entries -> Bases \cup {Null, Garbage}]
  /\ \A e \in Entries : value[e] \in Bases =>
       Valid(e) /\ value[e] = Blk(K[e]) /\ K[e] \in own /\ ~Unstored(t, K[e])
  /\ \A n \in own : Unstored(t, n) \/ Stored(K, n)
  /\ \A e \in Entries : Valid(e) /\ value[e] = Garbage => InFlight(t, e)
  /\ step = "grow" => Valid(idxEntry) /\ K[idxEntry] <= TailNum(t)
  /\ step = "key" => Usable(idxEntry)
  /\ step \in {"tail", "unset"} => Valid(idxEntry) /\ K[idxEntry] = Ensuing(t)

--------------------------------------------------------------------------------
(* The consumers.                                                          *)
Skipped(c) == IF pc[c] = "unset" THEN Here(c) ELSE 0
InHand(f, c, x) == f[c] + Skipped(c) <= x /\ x < f[c] + left[c]
Undone(h, f, x) == h <= x \/ \E c \in Consumers : InHand(f, c, x)
Places(n) == Begins(n) .. Begins(n) + BlockSize - 1
Finished(h, f, n) == {x \in Places(n) : ~Undone(h, f, x)}

Claimed(t, h, f) ==
  /\ headIndex = Mod(h) /\ h <= t
  /\ pc \in [Consumers -> {"idle", "header", "tail", "key", "value", "finish", "unset"}]
  /\ first \in [Consumers -> Index] /\ left \in [Consumers -> 0 .. MaxBulk]
  /\ \A c \in Consumers :
       IF pc[c] = "idle" THEN left[c] = 0
       ELSE left[c] >= 1 /\ first[c] = Mod(f[c]) /\ f[c] + left[c] <= h
  /\ \A c, d \in Consumers : c # d /\ pc[c] # "idle" /\ pc[d] # "idle" =>
       f[c] + left[c] <= f[d] \/ f[d] + left[d] <= f[c]

Counted(t, h, f, own) ==
  /\ elementsCompletelyDequeued \in [Bases -> 0 .. BlockSize]
  /\ \A n \in own : elementsCompletelyDequeued[Blk(n)] = Cardinality(Finished(h, f, n))
  /\ \A x \in Int : x < t /\ Undone(h, f, x) => Num(x) \in own
  /\ \A c \in Consumers : pc[c] = "unset" =>
       Num(f[c]) \in own /\ elementsCompletelyDequeued[Blk(Num(f[c]))] = BlockSize
  /\ \A c, d \in Consumers : pc[c] = "unset" /\ pc[d] = "unset" /\ Num(f[c]) = Num(f[d])
       => c = d
  /\ \A n \in own : elementsCompletelyDequeued[Blk(n)] = BlockSize =>
       \E c \in Consumers : pc[c] = "unset" /\ Num(f[c]) = n

Looking == {"tail", "key", "value", "finish", "unset"}

Holds(K, e, n) == value[e] = Blk(n) /\ K[e] = n

SeenBy(f, K, c) ==
  LET index == headers[header[c]].index IN
    /\ pc[c] \in Looking =>
         /\ header[c] # 0
         /\ \A x \in f[c] .. f[c] + left[c] - 1 :
              \E p \in DOMAIN index : Holds(K, index[p], Num(x))
    /\ pc[c] = "key" => tail[c] \in DOMAIN index /\ Valid(index[tail[c]])
    /\ pc[c] \in {"value", "finish", "unset"} =>
         idx[c] \in DOMAIN index /\ Holds(K, index[idx[c]], Num(f[c]))
    /\ pc[c] \in {"finish", "unset"} => block[c] = Blk(Num(f[c]))

Seen(f, K) ==
  /\ header \in [Consumers -> 0 .. Len(headers)]
  /\ {tail, idx} \subseteq [Consumers -> 0 .. MaxCapacity - 1]
  /\ block \in [Consumers -> Bases \cup {Null, Garbage}]
  /\ \A c \in Consumers : SeenBy(f, K, c)

Ended ==
  /\ destroyed \in Seq(Bases)
  /\ step = "gone" => DestroyedOnce /\ \A c \in Consumers : pc[c] = "idle"

Good(t, h, f, K, own) ==
  /\ Control(t) /\ Shape /\ Keys(t, h, K) /\ Owning(t, own) /\ Tails(t, own)
  /\ Values(t, K, own) /\ Claimed(t, h, f) /\ Counted(t, h, f, own) /\ Seen(f, K) /\ Ended

Firsts == [Consumers -> Int]
Numbers == [Entries -> Int]

Inv ==
  \E t \in Int, h \in Int, f \in Firsts, K \in Numbers, own \in SUBSET Int :
    Good(t, h, f, K, own)

--------------------------------------------------------------------------------
(* Simple facts.                                                           *)
LEMMA Kinds ==
  /\ Bases \subseteq Index /\ Null \notin Bases /\ Garbage \notin Bases /\ Null # Garbage
  /\ INVALID_BLOCK_BASE \notin Bases
  /\ MaxBulk \in Nat /\ MaxBulk < IndexSize \div 2 /\ MaxSent \in Nat
  /\ IndexSize \div 2 \in Nat /\ 2 * (IndexSize \div 2) <= IndexSize
  /\ \A e \in Entries : e \in Nat
<1>1. 1 % BlockSize = 1
  BY Sizes, CongSame, CongIsMod
<1>2. IndexSize \div 2 \in Nat /\ 2 * (IndexSize \div 2) <= IndexSize
  BY Sizes
<1> QED
  BY <1>1, <1>2, Sizes, NamesAreNew, BoundsAreNat DEF Bases, INVALID_BLOCK_BASE, Entries

(* Where a call stands.                                                    *)
LEMMA CallFacts ==
  ASSUME NEW t \in Int, Control(t)
  PROVE  /\ Before(t) \in Int /\ Len(fresh) \in Nat /\ undone \in Nat /\ undone <= Len(fresh)
         /\ Ensuing(t) \in Int /\ Ensuing(t) > Before(t) /\ TailNum(t) \in Int
         /\ TailNum(t) >= Before(t) /\ TailNum(t) <= Ensuing(t)
         /\ count \in Nat /\ count <= MaxBulk /\ sent \in Nat
         /\ Begins(Before(t)) <= t - 1 /\ t <= Begins(Before(t) + 1)
<1>1. t - 1 \in Int
  OBVIOUS
<1>2. Before(t) \in Int /\ Begins(Before(t)) <= t - 1 /\ t <= Begins(Before(t) + 1)
  <2>1. PICK x \in Int : x = t - 1
    OBVIOUS
  <2>2. /\ Num(x) \in Int /\ BlockSize * Num(x) <= x /\ x < BlockSize * Num(x) + BlockSize
        /\ BlockSize * Num(x) \in Int
    BY NumIs
  <2>3. BlockSize * (Num(x) + 1) = BlockSize * Num(x) + BlockSize
    BY <2>2, Sizes
  <2> QED
    BY <2>1, <2>2, <2>3, Sizes DEF Before, Begins
<1>3. Len(fresh) \in Nat /\ undone \in Nat /\ undone <= Len(fresh)
  BY DEF Control
<1>4. TailNum(t) \in Int /\ TailNum(t) >= Before(t) /\ TailNum(t) <= Ensuing(t)
  BY <1>2, <1>3 DEF TailNum, Ensuing
<1> QED
  BY <1>2, <1>3, <1>4, Kinds DEF Control, Ensuing

LEMMA BeginsFacts ==
  ASSUME NEW n \in Int, NEW m \in Int
  PROVE  /\ Begins(n) \in Int /\ Begins(n + 1) = Begins(n) + BlockSize
         /\ n < m => Begins(n) + BlockSize <= Begins(m)
         /\ n <= m => Begins(n) <= Begins(m)
         /\ Begins(n) < Begins(m) => n < m
<1>1. /\ n < m => BlockSize * n + BlockSize <= BlockSize * m
      /\ BlockSize * n < BlockSize * m => n < m
      /\ BlockSize * (n + 1) = BlockSize * n + BlockSize
      /\ BlockSize * n \in Int /\ BlockSize * m \in Int
  BY BlockApart
<1>2. n <= m => n < m \/ n = m
  OBVIOUS
<1> QED
  BY <1>1, <1>2, Sizes DEF Begins

(* Whether the tail is at the beginning of a block.                        *)
LEMMA AtBaseIs ==
  ASSUME NEW t \in Int
  PROVE  /\ AtBase(t) <=> Base(Mod(t)) = Mod(t)
         /\ AtBase(t) <=> t % BlockSize = 0
         /\ AtBase(t) => Num(t) = Before(t) + 1
         /\ ~AtBase(t) => Num(t) = Before(t) /\ t < Begins(Before(t) + 1)
         /\ Base(Plus(Mod(t), BlockSize - 1)) = Blk(Before(t) + 1)
<1>1. PICK x \in Int, n \in Int : x = t - 1 /\ n = Num(x)
  BY NumIs
<1>2. /\ Begins(n) <= x /\ x < Begins(n) + BlockSize /\ Begins(n) \in Int
      /\ Begins(n + 1) = Begins(n) + BlockSize /\ n = Before(t)
      /\ Begins(n + 1 + 1) = Begins(n) + BlockSize + BlockSize
  <2>1. BlockSize * (n + 1 + 1) = BlockSize * n + BlockSize + BlockSize
    BY Sizes
  <2> QED
    BY <1>1, <2>1, NumIs, BeginsFacts DEF Begins, Before
<1>3. AtBase(t) => Num(t) = n + 1
  <2> SUFFICES ASSUME AtBase(t) PROVE Num(t) = n + 1
    OBVIOUS
  <2>1. BlockSize * (n + 1) <= t /\ t < BlockSize * (n + 1) + BlockSize
    BY <1>2, Sizes DEF AtBase, Begins
  <2> QED
    BY <2>1, NumUnique
<1>4. ~AtBase(t) => Num(t) = n /\ t < Begins(n + 1)
  <2> SUFFICES ASSUME ~AtBase(t) PROVE Num(t) = n /\ t < Begins(n + 1)
    OBVIOUS
  <2>1. t < Begins(n + 1)
    BY <1>1, <1>2, Sizes DEF AtBase
  <2>2. BlockSize * n <= t /\ t < BlockSize * n + BlockSize
    BY <1>1, <1>2, <2>1, Sizes DEF Begins
  <2> QED
    BY <2>1, <2>2, NumUnique
<1>5. AtBase(t) <=> t % BlockSize = 0
  <2>1. t % BlockSize = t - Begins(Num(t))
    BY NumIs DEF Begins
  <2>2. AtBase(t) <=> t = Begins(n + 1)
    BY <1>2 DEF AtBase
  <2>3. ~AtBase(t) => t # Begins(n)
    <3>1. CASE ~AtBase(t) /\ t = Begins(n)
      BY <1>1, <1>2, <3>1
    <3> QED
      BY <3>1
  <2> QED
    BY <1>2, <1>3, <1>4, <2>1, <2>2, <2>3, Sizes
<1>6. AtBase(t) <=> Base(Mod(t)) = Mod(t)
  <2>1. Mod(t) % BlockSize = t % BlockSize /\ Mod(t) \in Int
    BY BaseIs, ModType
  <2>2. PICK r \in Int : r = t % BlockSize
    BY NumIs, Sizes
  <2> QED
    BY <1>5, <2>1, <2>2 DEF Base
<1>7. Base(Plus(Mod(t), BlockSize - 1)) = Blk(n + 1)
  <2>1. PICK y \in Int : y = t + (BlockSize - 1) /\ BlockSize - 1 \in Int
    BY Sizes
  <2>2. Plus(Mod(t), BlockSize - 1) = Mod(y)
    BY <2>1, ModFacts
  <2>3. BlockSize * (n + 1) <= y /\ y < BlockSize * (n + 1) + BlockSize
    BY <1>1, <1>2, <2>1, Sizes DEF Begins
  <2>4. Num(y) = n + 1
    BY <2>3, NumUnique
  <2> QED
    BY <2>2, <2>4, BaseIs
<1> QED
  BY <1>2, <1>3, <1>4, <1>5, <1>6, <1>7

(* The blocks of the stream, and the next one, have bases of their own.    *)
LEMMA OwnApart ==
  ASSUME NEW t \in Int, NEW own \in SUBSET Int, Control(t), Owning(t, own),
         NEW n \in own, NEW m \in Int, m \in own \/ (HasCur(t) /\ m = Ensuing(t)),
         Blk(n) = Blk(m)
  PROVE  n = m
<1>1. /\ Before(t) \in Int /\ Ensuing(t) \in Int /\ count \in Nat /\ count < IndexSize \div 2
      /\ Begins(Before(t)) <= t - 1 /\ t <= Begins(Before(t) + 1)
      /\ IndexSize \div 2 \in Nat /\ 2 * (IndexSize \div 2) <= IndexSize /\ IndexSize \in Nat
  BY CallFacts, Kinds, Sizes
<1>2. HasCur(t) => InCall /\ Begins(Ensuing(t)) < t + count
  BY DEF Control, HasCur, InCall
<1>3. Extra(t) \/ step \in {"rewind", "unset"} => HasCur(t)
  BY DEF Extra, HasCur
<1>0. PICK top \in Int : /\ top = t + (IF InCall THEN count ELSE 0) /\ t <= top
                         /\ InCall => top = t + count
                         /\ ~InCall => top = t
                         /\ top - t < IndexSize \div 2
  BY <1>1
<1>4. ASSUME NEW k \in Int, k \in own \/ (HasCur(t) /\ k = Ensuing(t))
      PROVE  /\ Begins(k) \in Int
             /\ top - IndexSize \div 2 < Begins(k) /\ Begins(k) < top
  <2>1. CASE k <= Before(t)
    <3>1. Begins(k) <= Begins(Before(t)) /\ Begins(k) \in Int /\ Begins(Before(t)) \in Int
      BY <1>1, <2>1, BeginsFacts
    <3>2. k \in own
      BY <1>1, <1>4, <2>1, CallFacts
    <3>3. top - Begins(k) < IndexSize \div 2
      <4>1. t + (IF InCall THEN count ELSE 0) - Begins(k) < IndexSize \div 2
        BY <2>1, <3>2 DEF Owning
      <4>2. CASE InCall
        BY <1>0, <1>1, <3>1, <4>1, <4>2
      <4>3. CASE ~InCall
        BY <1>0, <1>1, <3>1, <4>1, <4>3
      <4> QED
        BY <4>2, <4>3
    <3>4. Begins(k) < top
      BY <1>0, <1>1, <3>1
    <3> QED
      BY <1>0, <1>1, <3>1, <3>3, <3>4
  <2>2. CASE k > Before(t)
    <3>1. Before(t) + 1 <= k /\ Before(t) + 1 \in Int
      BY <1>1, <2>2
    <3>2. Begins(Before(t) + 1) <= Begins(k) /\ Begins(k) \in Int /\ Begins(Before(t) + 1) \in Int
      BY <3>1, BeginsFacts
    <3>3. InCall /\ Begins(k) < t + count
      <4>1. CASE HasCur(t) /\ k = Ensuing(t)
        BY <1>2, <4>1
      <4>2. CASE k \in own /\ k < Ensuing(t)
        <5>1. InCall
          BY <2>2, <4>2, <1>1 DEF Control, Ensuing
        <5>2. k <= Ensuing(t) - 1 /\ Ensuing(t) - 1 \in Int
          BY <1>1, <4>2
        <5>3. Begins(k) <= Begins(Ensuing(t) - 1) /\ Begins(Ensuing(t) - 1) \in Int
          BY <5>2, BeginsFacts
        <5> QED
          BY <1>1, <3>2, <5>1, <5>3 DEF Control
      <4>3. CASE k \in own /\ ~(k < Ensuing(t))
        <5>1. k = Ensuing(t) /\ HasCur(t)
          BY <1>3, <4>3 DEF Owning
        <5> QED
          BY <1>2, <5>1
      <4> QED
        BY <1>4, <4>1, <4>2, <4>3
    <3> QED
      BY <1>0, <1>1, <3>2, <3>3
  <2> QED
    BY <1>1, <2>1, <2>2
<1>5. n \in Int
  OBVIOUS
<1>7. /\ Begins(n) \in Int /\ top - IndexSize \div 2 < Begins(n) /\ Begins(n) < top
      /\ Begins(m) \in Int /\ top - IndexSize \div 2 < Begins(m) /\ Begins(m) < top
  BY <1>4, <1>5
<1>8. Begins(n) - Begins(m) < IndexSize /\ Begins(m) - Begins(n) < IndexSize
  BY <1>1, <1>7
<1> QED
  BY <1>5, <1>8, BlkSame DEF Begins

--------------------------------------------------------------------------------
(* Headers and positions in them.                                          *)
LEMMA FormedFacts ==
  ASSUME NEW g, Formed(g)
  PROVE  /\ Capacity(g) \in 1 .. MaxCapacity /\ Capacity(g) \in Nat \ {0}
         /\ g \in Header(Capacity(g)) /\ DOMAIN g.index = 0 .. Capacity(g) - 1
         /\ g.tail \in 0 .. Capacity(g) - 1 /\ Divides(Capacity(g), MaxCapacity)
         /\ \A p, q \in DOMAIN g.index : g.index[p] = g.index[q] => p = q
         /\ \A p \in DOMAIN g.index : g.index[p] \in 0 .. Capacity(g) - 1
                                      /\ g.index[p] \in Entries
         /\ \A e \in 0 .. Capacity(g) - 1 : \E p \in DOMAIN g.index : g.index[p] = e
         /\ \E k \in Int : Turn1 = Capacity(g) * k
<1>1. PICK n \in 1 .. MaxCapacity :
        /\ g \in Header(n) /\ Divides(n, MaxCapacity)
        /\ \A p, q \in 0 .. n - 1 : g.index[p] = g.index[q] => p = q
        /\ \A p \in 0 .. n - 1 : g.index[p] \in 0 .. n - 1
        /\ \A e \in 0 .. n - 1 : \E p \in 0 .. n - 1 : g.index[p] = e
  BY DEF Formed
<1>2. n \in Nat \ {0} /\ DOMAIN g.index = 0 .. n - 1 /\ g.index \in [0 .. n - 1 -> Entries]
      /\ g.tail \in 0 .. n - 1
  <2>1. g \in Header(n)
    BY <1>1
  <2> QED
    BY <2>1, Sizes DEF Header
<1>3. Cardinality(0 .. n - 1) = n
  BY <1>2, FS_Interval
<1>4. Capacity(g) = n
  BY <1>2, <1>3 DEF Capacity
<1>5. \E k \in Int : Turn1 = n * k
  <2>1. PICK j \in Int : MaxCapacity = n * j
    BY <1>1 DEF Divides
  <2>2. PICK i \in Int : Turn1 = MaxCapacity * i
    BY Sizes
  <2>3. Turn1 = n * (j * i) /\ j * i \in Int
    BY <1>2, <2>1, <2>2
  <2> QED
    BY <2>3
<1>6. \A p \in DOMAIN g.index : g.index[p] \in 0 .. Capacity(g) - 1
                                /\ g.index[p] \in Entries
  BY <1>1, <1>2, <1>4
<1>7. \A e \in 0 .. Capacity(g) - 1 : \E p \in DOMAIN g.index : g.index[p] = e
  BY <1>1, <1>2, <1>4
<1>8. \A p, q \in DOMAIN g.index : g.index[p] = g.index[q] => p = q
  BY <1>1, <1>2
<1> QED
  BY <1>1, <1>2, <1>4, <1>5, <1>6, <1>7, <1>8

LEMMA HeaderFacts ==
  ASSUME Shape, NEW i \in 1 .. Len(headers)
  PROVE  /\ Formed(headers[i])
         /\ headers # <<>> /\ Formed(blockIndex)
         /\ \E k \in Int : Capacity(blockIndex) = Capacity(headers[i]) * k
<1>1. Len(headers) \in 1 .. Len(headers) /\ blockIndex = headers[Len(headers)]
  BY DEF Shape, blockIndex, Last
<1> QED
  BY <1>1 DEF Shape, Divides

LEMMA LatestFacts ==
  ASSUME Shape, headers # <<>>
  PROVE  /\ Len(headers) \in 1 .. Len(headers) /\ blockIndex = headers[Len(headers)]
         /\ Formed(blockIndex)
<1>1. Len(headers) \in 1 .. Len(headers) /\ blockIndex = headers[Len(headers)]
  BY DEF Shape, blockIndex, Last
<1> QED
  BY <1>1 DEF Shape

(* The entries the producer looks at.                                      *)
LEMMA TailFacts ==
  ASSUME Shape, headers # <<>>
  PROVE  /\ NewTail \in DOMAIN blockIndex.index /\ idxEntry = blockIndex.index[NewTail]
         /\ blockIndex.tail \in DOMAIN blockIndex.index
         /\ tailEntry = blockIndex.index[blockIndex.tail]
         /\ idxEntry \in Entries /\ tailEntry \in Entries
         /\ NewTail \in Int /\ blockIndex.tail \in Int
         /\ Cong(NewTail, blockIndex.tail + 1, Capacity(blockIndex))
         /\ Back \in DOMAIN blockIndex.index
         /\ Cong(Back, blockIndex.tail - 1, Capacity(blockIndex))
<1>1. /\ Formed(blockIndex) /\ Capacity(blockIndex) \in Nat \ {0}
      /\ DOMAIN blockIndex.index = 0 .. Capacity(blockIndex) - 1
      /\ blockIndex.tail \in 0 .. Capacity(blockIndex) - 1
  BY LatestFacts, FormedFacts
<1>2. PICK x \in Int, y \in Int : x = blockIndex.tail + 1 /\ y = blockIndex.tail - 1
  BY <1>1
<1>3. /\ Cong(x % Capacity(blockIndex), x, Capacity(blockIndex))
      /\ x % Capacity(blockIndex) \in 0 .. Capacity(blockIndex) - 1
      /\ Cong(y % Capacity(blockIndex), y, Capacity(blockIndex))
      /\ y % Capacity(blockIndex) \in 0 .. Capacity(blockIndex) - 1
  BY <1>1, CongMod
<1>4. NewTail = x % Capacity(blockIndex) /\ Back = y % Capacity(blockIndex)
  BY <1>2 DEF NewTail, Next1, Back
<1>5. NewTail \in DOMAIN blockIndex.index /\ Back \in DOMAIN blockIndex.index
  BY <1>1, <1>3, <1>4
<1>6. /\ Cong(NewTail, blockIndex.tail + 1, Capacity(blockIndex))
      /\ Cong(Back, blockIndex.tail - 1, Capacity(blockIndex))
  BY <1>2, <1>3, <1>4
<1>7. NewTail \in Int /\ blockIndex.tail \in Int
  BY <1>1, <1>5
<1>8. /\ idxEntry = blockIndex.index[NewTail]
      /\ tailEntry = blockIndex.index[blockIndex.tail]
  BY DEF idxEntry, tailEntry
<1>9. idxEntry \in Entries /\ tailEntry \in Entries
  BY <1>1, <1>5, <1>8, FormedFacts
<1> QED
  BY <1>1, <1>5, <1>6, <1>7, <1>8, <1>9

(* Two positions of the same block are one.                                *)
LEMMA SamePlace ==
  ASSUME NEW C \in Nat \ {0}, NEW p \in 0 .. C - 1, NEW q \in 0 .. C - 1,
         NEW o \in Int, NEW n \in Int, Cong(n, p + o, C), Cong(n, q + o, C)
  PROVE  p = q
<1>1. PICK a \in Int, b \in Int : a = p + o /\ b = q + o
  OBVIOUS
<1>2. Cong(a, n, C) /\ C \in Int
  BY <1>1, CongTurn
<1>3. Cong(a, b, C)
  BY <1>1, <1>2, CongTurn
<1>4. Cong(a - o, b - o, C)
  BY <1>2, <1>3, CongSame, CongSum
<1>5. Cong(p, q, C)
  BY <1>1, <1>4
<1>6. p \in Int /\ q \in Int /\ p - q < C /\ q - p < C
  OBVIOUS
<1> QED
  BY <1>5, <1>6, CongNear

(* A block that is at most a turn from the tail has one of two numbers.    *)
LEMMA NearTwo ==
  ASSUME NEW C \in Nat \ {0}, NEW p \in Int, NEW r \in Int, NEW n \in Int, NEW T \in Int,
         Cong(n, p + (T - r), C), Cong(p, r + 1, C), T - C < n, n <= T + C
  PROVE  n = T + 1 - C \/ n = T + 1
<1>1. PICK a \in Int, b \in Int, d \in Int : a = p + d /\ b = r + 1 + d /\ d = T - r
  OBVIOUS
<1>2. PICK c \in Int : c = r + 1
  OBVIOUS
<1>3. C \in Int /\ Cong(d, d, C)
  BY <1>1, CongSame
<1>4. Cong(p + d, c + d, C)
  BY <1>2, <1>3, CongSum
<1>5. Cong(n, a, C) /\ Cong(a, b, C)
  BY <1>1, <1>2, <1>4
<1>6. Cong(n, b, C)
  BY <1>3, <1>5, CongTurn
<1>7. b = T + 1
  BY <1>1
<1>8. CASE n <= T
  <2>1. PICK e \in Int : e = b - C
    BY <1>3
  <2>2. Cong(e, b, C)
    BY <1>3, <2>1, CongSame
  <2>3. Cong(n, e, C)
    BY <1>3, <1>6, <2>2, CongTurn
  <2>4. n - e < C /\ e - n < C
    BY <1>3, <1>7, <1>8, <2>1
  <2>5. n = e
    BY <2>3, <2>4, CongNear
  <2> QED
    BY <1>7, <2>1, <2>5
<1>9. CASE n > T
  BY <1>6, <1>7, <1>9, CongNear
<1> QED
  BY <1>8, <1>9

(* The entry of the block the tail stands for is at the tail.              *)
LEMMA AtTail ==
  ASSUME NEW t \in Int, NEW h \in Int, NEW K \in Numbers, Control(t), Shape,
         Keys(t, h, K), headers # <<>>, Has(K, TailNum(t))
  PROVE  Valid(tailEntry) /\ K[tailEntry] = TailNum(t)
<1>1. /\ Formed(blockIndex) /\ Capacity(blockIndex) \in Nat \ {0}
      /\ DOMAIN blockIndex.index = 0 .. Capacity(blockIndex) - 1
      /\ blockIndex.tail \in 0 .. Capacity(blockIndex) - 1
      /\ \A p \in DOMAIN blockIndex.index : blockIndex.index[p] \in Entries
  BY LatestFacts, FormedFacts
<1>2. PICK p \in DOMAIN blockIndex.index :
        Valid(blockIndex.index[p]) /\ K[blockIndex.index[p]] = TailNum(t)
  BY DEF Has
<1>3. Cong(TailNum(t), p + (TailNum(t) - blockIndex.tail), Capacity(blockIndex))
  BY <1>2 DEF Keys, Near
<1>4. TailNum(t) \in Int
  BY CallFacts
<1>5. PICK o \in Int, r \in 0 .. Capacity(blockIndex) - 1 :
         o = TailNum(t) - blockIndex.tail /\ r = blockIndex.tail
  BY <1>1, <1>4
<1>6. Cong(TailNum(t), r + o, Capacity(blockIndex))
  <2>1. r + o = TailNum(t) /\ Capacity(blockIndex) \in Int
    BY <1>1, <1>4, <1>5
  <2> QED
    BY <1>4, <2>1, CongSame
<1>7. p = r
  BY <1>1, <1>3, <1>4, <1>5, <1>6, SamePlace
<1> QED
  BY <1>2, <1>5, <1>7 DEF tailEntry

(* The entry after the tail is the oldest one or ahead by one.             *)
LEMMA AfterTail ==
  ASSUME NEW t \in Int, NEW h \in Int, NEW K \in Numbers, Control(t), Shape,
         Keys(t, h, K), headers # <<>>, Valid(idxEntry)
  PROVE  \/ K[idxEntry] = TailNum(t) + 1 - Capacity(blockIndex)
         \/ K[idxEntry] = TailNum(t) + 1
<1>1. /\ Formed(blockIndex) /\ Capacity(blockIndex) \in Nat \ {0}
      /\ idxEntry \in Entries /\ NewTail \in DOMAIN blockIndex.index
      /\ idxEntry = blockIndex.index[NewTail]
      /\ Cong(NewTail, blockIndex.tail + 1, Capacity(blockIndex))
      /\ NewTail \in Int /\ blockIndex.tail \in Int
  BY LatestFacts, FormedFacts, TailFacts
<1>2. /\ Cong(K[idxEntry], NewTail + (TailNum(t) - blockIndex.tail), Capacity(blockIndex))
      /\ TailNum(t) - Capacity(blockIndex) < K[idxEntry]
      /\ K[idxEntry] <= TailNum(t) + Capacity(blockIndex)
  BY <1>1 DEF Keys, Near
<1>3. K[idxEntry] \in Int /\ TailNum(t) \in Int
  BY <1>1, CallFacts DEF Numbers
<1> QED
  BY <1>1, <1>2, <1>3, NearTwo

--------------------------------------------------------------------------------
(* The consumers' steps.  First, what no step of theirs changes.           *)
controlVars == <<tailIndex, step, bulk, count, cur, fresh, undone, sent>>

LEMMA ControlSame ==
  ASSUME NEW t \in Int, UNCHANGED controlVars
  PROVE  /\ Control(t)' <=> Control(t)
         /\ TailNum(t)' = TailNum(t) /\ Ensuing(t)' = Ensuing(t)
         /\ InCall' = InCall /\ Reverting' = Reverting /\ Extra(t)' = Extra(t)
         /\ HasCur(t)' = HasCur(t) /\ SingleNew(t)' = SingleNew(t)
         /\ \A n \in Int : Unstored(t, n)' <=> Unstored(t, n)
<1>1. /\ TailNum(t)' = TailNum(t) /\ Ensuing(t)' = Ensuing(t)
      /\ InCall' = InCall /\ Reverting' = Reverting /\ Extra(t)' = Extra(t)
      /\ HasCur(t)' = HasCur(t) /\ SingleNew(t)' = SingleNew(t)
  BY DEF controlVars, TailNum, Ensuing, InCall, Reverting, Extra, HasCur, SingleNew,
    Moved, Before, AtBase, Begins
<1>2. \A n \in Int : Unstored(t, n)' <=> Unstored(t, n)
  BY <1>1 DEF controlVars, Unstored
<1>3. Control(t)' <=> Control(t)
  BY <1>1 DEF controlVars, Control
<1> QED
  BY <1>1, <1>2, <1>3

LEMMA KeysKept ==
  ASSUME NEW t \in Int, NEW h \in Int, NEW i \in Int, NEW K \in Numbers,
         UNCHANGED <<controlVars, key, headers>>, Keys(t, h, K),
         Active(t, i)' => Active(t, h),
         \A e \in Entries : ~Valid(e) => value'[e] = value[e]
  PROVE  Keys(t, i, K)'
<1>1. TailNum(t)' = TailNum(t) /\ UNCHANGED <<key, headers, fresh, step>>
  BY ControlSame DEF controlVars
<1>2. blockIndex' = blockIndex /\ \A e \in Entries : Valid(e)' <=> Valid(e)
  BY <1>1 DEF blockIndex, Valid
<1>3. \A n \in Int : Has(K, n)' <=> Has(K, n)
  BY <1>1, <1>2 DEF Has, Valid
<1>4. \A j \in 1 .. Len(headers) - 1 : Frozen(K, headers[j])' <=> Frozen(K, headers[j])
  BY <1>1 DEF Frozen, Valid
<1>5. Near(t, K, blockIndex)' <=> Near(t, K, blockIndex)
  BY <1>1, <1>2 DEF Near, Valid
<1>6. Before(t)' = Before(t)
  BY DEF Before
<1> QED
  BY <1>1, <1>2, <1>3, <1>4, <1>5, <1>6 DEF Keys, Valid

LEMMA HereFacts ==
  ASSUME NEW t \in Int, NEW h \in Int, NEW f \in Firsts, Claimed(t, h, f),
         NEW c \in Consumers, pc[c] # "idle"
  PROVE  /\ Here(c) \in 1 .. left[c] /\ f[c] \in Int /\ left[c] \in Nat
         /\ Num(f[c]) \in Int /\ Begins(Num(f[c])) \in Int
         /\ Begins(Num(f[c])) <= f[c]
         /\ f[c] + Here(c) <= Begins(Num(f[c])) + BlockSize
         /\ Here(c) < left[c] => f[c] + Here(c) = Begins(Num(f[c])) + BlockSize
<1>1. f[c] \in Int /\ left[c] \in Nat /\ left[c] >= 1 /\ first[c] = Mod(f[c])
  BY Kinds DEF Firsts, Claimed
<1>2. first[c] % BlockSize = f[c] - Begins(Num(f[c]))
  BY <1>1, BaseIs, NumIs DEF Begins
<1>3. /\ Num(f[c]) \in Int /\ Begins(Num(f[c])) \in Int /\ Begins(Num(f[c])) <= f[c]
      /\ f[c] < Begins(Num(f[c])) + BlockSize
  BY <1>1, NumIs DEF Begins
<1>4. PICK r \in Int : /\ r = Room(first[c]) /\ r = Begins(Num(f[c])) + BlockSize - f[c]
                       /\ r >= 1
  BY <1>1, <1>2, <1>3, Sizes DEF Room
<1>5. Here(c) = IF left[c] < r THEN left[c] ELSE r
  BY <1>4 DEF Here
<1> QED
  BY <1>1, <1>3, <1>4, <1>5, Sizes

(* A step that leaves every consumer its elements.                         *)
LEMMA SameElements ==
  ASSUME NEW f \in Firsts, NEW h \in Int, UNCHANGED <<first, left>>,
         \A c \in Consumers : pc'[c] = "unset" <=> pc[c] = "unset"
  PROVE  /\ \A c \in Consumers : Here(c)' = Here(c)
         /\ \A c \in Consumers, x \in Int : InHand(f, c, x)' <=> InHand(f, c, x)
         /\ \A x \in Int : Undone(h, f, x)' <=> Undone(h, f, x)
         /\ \A n \in Int : Finished(h, f, n)' = Finished(h, f, n)
<1>1. \A c \in Consumers : Here(c)' = Here(c)
  BY DEF Here, Room
<1>2. \A c \in Consumers : Skipped(c)' = Skipped(c)
  BY <1>1 DEF Skipped
<1>3. \A c \in Consumers, x \in Int : InHand(f, c, x)' <=> InHand(f, c, x)
  BY <1>2 DEF InHand
<1>4. \A x \in Int : Undone(h, f, x)' <=> Undone(h, f, x)
  BY <1>3 DEF Undone
<1>5. \A n \in Int : \A x \in Places(n) : x \in Int
  BY BeginsFacts, Sizes DEF Places
<1>6. ASSUME NEW n \in Int PROVE Finished(h, f, n)' = Finished(h, f, n)
  <2>1. \A x \in Places(n) : Undone(h, f, x)' <=> Undone(h, f, x)
    BY <1>4, <1>5
  <2>2. Places(n)' = Places(n)
    BY DEF Places, Begins
  <2> QED
    BY <2>1, <2>2 DEF Finished
<1> QED
  BY <1>1, <1>3, <1>4, <1>6

(* What a consumer does before it is finished concerns itself only.        *)
LEMMA LoadKeeps ==
  ASSUME NEW t \in Int, NEW h \in Int, NEW f \in Firsts, NEW K \in Numbers,
         NEW own \in SUBSET Int, Good(t, h, f, K, own),
         NEW c \in Consumers, NEW from \in {"header", "tail", "key", "value"},
         NEW to \in {"tail", "key", "value", "finish"}, Goto(c, from, to),
         UNCHANGED <<headIndex, producerSide, sharedVars, first, left>>
  PROVE  /\ Control(t)' /\ Shape' /\ Keys(t, h, K)' /\ Owning(t, own)' /\ Tails(t, own)'
         /\ Values(t, K, own)' /\ Claimed(t, h, f)' /\ Counted(t, h, f, own)' /\ Ended'
<1>1. /\ UNCHANGED <<controlVars, key, headers, value, owned, elementsCompletelyDequeued,
                     tailBlock, startBlock, destroyed, first, left, headIndex, step>>
      /\ pc[c] = from /\ pc' = [pc EXCEPT ![c] = to]
      /\ Control(t) /\ Shape /\ Keys(t, h, K) /\ Owning(t, own) /\ Tails(t, own)
      /\ Values(t, K, own) /\ Claimed(t, h, f) /\ Counted(t, h, f, own) /\ Ended
  BY DEF producerSide, producerVars, sharedVars, controlVars, Goto, Good
<1>2. /\ TailNum(t)' = TailNum(t) /\ Ensuing(t)' = Ensuing(t)
      /\ InCall' = InCall /\ Reverting' = Reverting /\ Extra(t)' = Extra(t)
      /\ SingleNew(t)' = SingleNew(t)
      /\ \A n \in Int : Unstored(t, n)' <=> Unstored(t, n)
      /\ Control(t)'
  BY <1>1, ControlSame
<1>3. /\ pc' \in [Consumers -> {"idle", "header", "tail", "key", "value", "finish", "unset"}]
      /\ \A d \in Consumers : pc'[d] = "unset" <=> pc[d] = "unset"
      /\ \A d \in Consumers : pc'[d] = "idle" <=> pc[d] = "idle"
  BY <1>1 DEF Claimed
<1>4. Claimed(t, h, f)'
  BY <1>1, <1>3 DEF Claimed
<1>5. Counted(t, h, f, own)'
  <2>1. /\ \A x \in Int : Undone(h, f, x)' <=> Undone(h, f, x)
        /\ \A n \in Int : Finished(h, f, n)' = Finished(h, f, n)
    BY <1>1, <1>3, SameElements
  <2> QED
    BY <1>1, <1>3, <2>1 DEF Counted
<1>6. Keys(t, h, K)'
  <2>1. Active(t, h)' => Active(t, h)
    BY <1>1, <1>3 DEF Active, AtBase
  <2> QED
    BY <1>1, <2>1, KeysKept
<1>7. Shape'
  BY <1>1 DEF Shape, blockIndex
<1>8. Owning(t, own)' /\ Tails(t, own)'
  BY <1>1, <1>2 DEF Owning, Tails, Old, controlVars
<1>9. Values(t, K, own)'
  <2>1. blockIndex' = blockIndex /\ NewTail' = NewTail /\ idxEntry' = idxEntry
        /\ tailEntry' = tailEntry
    BY <1>1 DEF blockIndex, NewTail, idxEntry, tailEntry
  <2>2. \A n \in Int : Stored(K, n)' <=> Stored(K, n)
    BY <1>1, <2>1 DEF Stored
  <2>3. \A e \in Entries : InFlight(t, e)' <=> InFlight(t, e)
    BY <1>1, <1>2, <2>1 DEF InFlight
  <2> QED
    BY <1>1, <1>2, <2>1, <2>2, <2>3 DEF Values, Valid, Usable
<1>10. Ended'
  <2>1. step # "gone"
    BY <1>1 DEF Ended
  <2> QED
    BY <1>1, <2>1 DEF Ended
<1> QED
  BY <1>2, <1>4, <1>5, <1>6, <1>7, <1>8, <1>9, <1>10

--------------------------------------------------------------------------------
(* What a consumer has seen stays, unless somebody takes it out.           *)
LEMMA SeenKept ==
  ASSUME NEW f \in Firsts, NEW g \in Firsts, NEW K \in Numbers, NEW L \in Numbers,
         NEW c \in Consumers, SeenBy(f, K, c), Shape, g[c] = f[c],
         left[c] \in Nat, pc[c] # "idle" => left[c] >= 1, header[c] \in 0 .. Len(headers),
         UNCHANGED <<pc[c], left[c], header[c], tail[c], idx[c], block[c]>>,
         header[c] # 0 => headers'[header[c]].index = headers[header[c]].index,
         \A e \in Entries : Valid(e) => Valid(e)',
         \A e \in Entries : \A x \in f[c] .. f[c] + left[c] - 1 :
           Holds(K, e, Num(x)) => Holds(L, e, Num(x))'
  PROVE  SeenBy(g, L, c)'
<1>1. CASE pc[c] \notin Looking
  BY <1>1 DEF SeenBy, Looking
<1>2. CASE pc[c] \in Looking
  <2>1. /\ header[c] # 0 /\ header[c] \in 1 .. Len(headers) /\ pc[c] # "idle"
    BY <1>2 DEF SeenBy, Looking
  <2>2. PICK index : index = headers[header[c]].index
    OBVIOUS
  <2>3. index = headers'[header'[c]].index /\ \A p \in DOMAIN index : index[p] \in Entries
    BY <2>1, <2>2, HeaderFacts, FormedFacts
  <2>4. f[c] \in f[c] .. f[c] + left[c] - 1
    BY <2>1 DEF Firsts
  <2>5. \A p \in DOMAIN index : \A x \in f[c] .. f[c] + left[c] - 1 :
          Holds(K, index[p], Num(x)) => Holds(L, index[p], Num(x))'
    BY <2>3
  <2>6. \A p \in DOMAIN index : Valid(index[p]) => Valid(index[p])'
    BY <2>3
  <2> DEFINE range == f[c] .. f[c] + left[c] - 1
  <2>7. \A x \in range : \E p \in DOMAIN index : Holds(L, index[p], Num(x))'
    BY <1>2, <2>2, <2>5 DEF SeenBy
  <2>8. range' = range /\ range' = g[c] .. g[c] + left'[c] - 1
    OBVIOUS
  <2>9. pc'[c] = "key" => tail'[c] \in DOMAIN index /\ Valid(index[tail[c]])'
    BY <2>2, <2>6 DEF SeenBy
  <2>10. pc'[c] \in {"value", "finish", "unset"} =>
           idx'[c] \in DOMAIN index /\ Holds(L, index[idx[c]], Num(f[c]))'
    BY <2>2, <2>4, <2>5 DEF SeenBy
  <2>11. pc'[c] \in {"finish", "unset"} => block'[c] = Blk(Num(g[c]))
    BY DEF SeenBy
  <2> QED
    BY <1>2, <2>1, <2>2, <2>3, <2>7, <2>8, <2>9, <2>10, <2>11 DEF SeenBy, Holds, Valid
<1> QED
  BY <1>1, <1>2

(* The elements in a consumer's hand.                                      *)
LEMMA InHandFacts ==
  ASSUME NEW t \in Int, NEW h \in Int, NEW f \in Firsts, NEW own \in SUBSET Int,
         Claimed(t, h, f), Counted(t, h, f, own),
         NEW c \in Consumers, pc[c] # "idle", NEW x \in Int,
         f[c] + Skipped(c) <= x, x < f[c] + left[c]
  PROVE  InHand(f, c, x) /\ Undone(h, f, x) /\ x < t /\ Num(x) \in own
         /\ Num(x) <= Before(t) /\ Num(x) \in Int
<1>1. f[c] \in Int /\ left[c] \in Nat /\ f[c] + left[c] <= h /\ h <= t
  BY Kinds DEF Firsts, Claimed
<1>2. InHand(f, c, x) /\ Undone(h, f, x) /\ x < t
  BY <1>1 DEF InHand, Undone
<1>3. Num(x) <= Before(t) /\ Num(x) \in Int
  BY <1>1, <1>2, NumMonotone, NumIs DEF Before
<1> QED
  BY <1>2, <1>3 DEF Counted

(* The blocks of the elements in the stream are in the index.              *)
LEMMA StoredIs ==
  ASSUME NEW t \in Int, NEW K \in Numbers, NEW own \in SUBSET Int, Control(t),
         Values(t, K, own), NEW n \in own, n <= Before(t)
  PROVE  ~Unstored(t, n) /\ Stored(K, n)
<1>1. ~Unstored(t, n)
  BY CallFacts DEF Unstored
<1> QED
  BY <1>1 DEF Values

--------------------------------------------------------------------------------
LEMMA LoadHeaderStep ==
  ASSUME NEW t \in Int, NEW h \in Int, NEW f \in Firsts, NEW K \in Numbers,
         NEW own \in SUBSET Int, Good(t, h, f, K, own), NEW c \in Consumers, LoadHeader(c)
  PROVE  Good(t, h, f, K, own)'
<1>1. /\ Control(t) /\ Shape /\ Keys(t, h, K) /\ Values(t, K, own) /\ Claimed(t, h, f)
      /\ Counted(t, h, f, own) /\ Seen(f, K)
  BY DEF Good
<1>2. /\ pc[c] = "header" /\ pc' = [pc EXCEPT ![c] = "tail"]
      /\ header' = [header EXCEPT ![c] = Len(headers)]
      /\ UNCHANGED <<headers, key, value, first, left, tail, idx, block>>
  BY DEF LoadHeader, Goto, producerSide, sharedVars
<1>3. headers # <<>>
  BY <1>1, <1>2 DEF Keys, Active
<1>4. /\ pc'[c] = "tail" /\ header'[c] = Len(headers) /\ Len(headers) \in 1 .. Len(headers)
      /\ headers'[header'[c]] = blockIndex
  BY <1>1, <1>2, <1>3, LatestFacts DEF Claimed, Seen
<1>5. ASSUME NEW x \in f[c] .. f[c] + left[c] - 1
      PROVE  \E p \in DOMAIN blockIndex.index : Holds(K, blockIndex.index[p], Num(x))
  <2>1. f[c] \in Int /\ left[c] \in Nat /\ x \in Int /\ Skipped(c) = 0
    BY <1>1, <1>2, Kinds DEF Firsts, Claimed, Skipped
  <2>2. Num(x) \in own /\ Num(x) <= Before(t)
    BY <1>1, <1>2, <2>1, InHandFacts
  <2>3. Stored(K, Num(x))
    BY <1>1, <2>2, StoredIs
  <2> QED
    BY <2>3 DEF Stored, Holds
<1>6. SeenBy(f, K, c)'
  BY <1>2, <1>4, <1>5 DEF SeenBy, Holds
<1>7. ASSUME NEW d \in Consumers, d # c PROVE SeenBy(f, K, d)'
  <2>1. left[d] \in Nat /\ (pc[d] # "idle" => left[d] >= 1) /\ header[d] \in 0 .. Len(headers)
        /\ SeenBy(f, K, d)
    BY <1>1, Kinds DEF Claimed, Seen
  <2>2. UNCHANGED <<pc[d], left[d], header[d], tail[d], idx[d], block[d]>>
    BY <1>1, <1>2, <1>7 DEF Claimed, Seen
  <2> QED
    BY <1>1, <1>2, <2>1, <2>2, SeenKept DEF Holds, Valid
<1>8. Seen(f, K)'
  BY <1>1, <1>2, <1>4, <1>6, <1>7 DEF Seen
<1>9. UNCHANGED <<headIndex, producerSide, sharedVars, first, left>>
      /\ Goto(c, "header", "tail")
  BY DEF LoadHeader
<1> QED
  BY <1>8, <1>9, LoadKeeps DEF Good

LEMMA LoadTailStep ==
  ASSUME NEW t \in Int, NEW h \in Int, NEW f \in Firsts, NEW K \in Numbers,
         NEW own \in SUBSET Int, Good(t, h, f, K, own), NEW c \in Consumers, LoadTail(c)
  PROVE  Good(t, h, f, K, own)'
<1>1. /\ Control(t) /\ Shape /\ Keys(t, h, K) /\ Values(t, K, own) /\ Claimed(t, h, f)
      /\ Counted(t, h, f, own) /\ Seen(f, K)
  BY DEF Good
<1>2. /\ pc[c] = "tail" /\ pc' = [pc EXCEPT ![c] = "key"]
      /\ tail' = [tail EXCEPT ![c] = headers[header[c]].tail]
      /\ UNCHANGED <<headers, key, value, first, left, header, idx, block>>
  BY DEF LoadTail, Goto, producerSide, sharedVars
<1>3. SeenBy(f, K, c) /\ header[c] \in 1 .. Len(headers)
  BY <1>1, <1>2 DEF Seen, SeenBy, Looking
<1>4. PICK g : g = headers[header[c]] /\ Formed(g)
  BY <1>1, <1>3, HeaderFacts
<1>5. g.tail \in DOMAIN g.index /\ g.tail \in 0 .. MaxCapacity - 1
  <2>1. PICK n \in 1 .. MaxCapacity : g.tail \in 0 .. n - 1 /\ DOMAIN g.index = 0 .. n - 1
    BY <1>4, FormedFacts
  <2> QED
    BY <2>1, Sizes
<1>6. Valid(g.index[g.tail])
  <2>1. CASE header[c] = Len(headers)
    <3>1. headers # <<>> /\ g = blockIndex
      BY <1>1, <1>3, <1>4, <2>1, HeaderFacts, LatestFacts
    <3>2. Has(K, TailNum(t))
      BY <1>1, <1>2, <3>1, CallFacts DEF Keys, Active
    <3> QED
      BY <1>1, <3>1, <3>2, AtTail DEF tailEntry
  <2>2. CASE header[c] # Len(headers)
    <3>1. header[c] \in 1 .. Len(headers) - 1
      BY <1>1, <1>3, <2>2 DEF Shape
    <3> QED
      BY <1>1, <1>4, <1>5, <3>1 DEF Keys, Frozen
  <2> QED
    BY <2>1, <2>2
<1>7. pc'[c] = "key" /\ tail'[c] = g.tail
  BY <1>1, <1>2, <1>4 DEF Claimed, Seen
<1>8. SeenBy(f, K, c)'
  BY <1>2, <1>3, <1>4, <1>5, <1>6, <1>7 DEF SeenBy, Looking, Holds, Valid
<1>9. ASSUME NEW d \in Consumers, d # c PROVE SeenBy(f, K, d)'
  <2>1. left[d] \in Nat /\ (pc[d] # "idle" => left[d] >= 1) /\ header[d] \in 0 .. Len(headers)
        /\ SeenBy(f, K, d)
    BY <1>1, Kinds DEF Claimed, Seen
  <2>2. UNCHANGED <<pc[d], left[d], header[d], tail[d], idx[d], block[d]>>
    BY <1>1, <1>2, <1>9 DEF Claimed, Seen
  <2> QED
    BY <1>1, <1>2, <2>1, <2>2, SeenKept DEF Holds, Valid
<1>10. Seen(f, K)'
  BY <1>1, <1>2, <1>4, <1>5, <1>8, <1>9 DEF Seen
<1>11. UNCHANGED <<headIndex, producerSide, sharedVars, first, left>>
       /\ Goto(c, "tail", "key")
  BY DEF LoadTail
<1> QED
  BY <1>10, <1>11, LoadKeeps DEF Good

(* The keys of a header lie in it as their blocks do in the stream.        *)
LEMMA InLine ==
  ASSUME NEW t \in Int, NEW h \in Int, NEW K \in Numbers, Control(t), Shape, Keys(t, h, K),
         NEW i \in 1 .. Len(headers)
  PROVE  \E o \in Int : \A p \in DOMAIN headers[i].index :
           Valid(headers[i].index[p]) =>
             Cong(K[headers[i].index[p]], p + o, Capacity(headers[i]))
<1>1. CASE i = Len(headers)
  <2>1. headers # <<>> /\ headers[i] = blockIndex /\ blockIndex.tail \in Int
    BY <1>1, HeaderFacts, LatestFacts, TailFacts
  <2>2. TailNum(t) - blockIndex.tail \in Int
    BY <2>1, CallFacts
  <2> QED
    BY <2>1, <2>2 DEF Keys, Near
<1>2. CASE i # Len(headers)
  <2>1. i \in 1 .. Len(headers) - 1
    BY <1>2 DEF Shape
  <2> QED
    BY <2>1 DEF Keys, Frozen
<1> QED
  BY <1>1, <1>2

LEMMA LoadKeyStep ==
  ASSUME NEW t \in Int, NEW h \in Int, NEW f \in Firsts, NEW K \in Numbers,
         NEW own \in SUBSET Int, Good(t, h, f, K, own), NEW c \in Consumers, LoadKey(c)
  PROVE  Good(t, h, f, K, own)'
<1>1. /\ Control(t) /\ Shape /\ Keys(t, h, K) /\ Values(t, K, own) /\ Claimed(t, h, f)
      /\ Counted(t, h, f, own) /\ Seen(f, K)
  BY DEF Good
<1>2. PICK g : g = headers[header[c]]
  OBVIOUS
<1>3. /\ pc[c] = "key" /\ pc' = [pc EXCEPT ![c] = "value"]
      /\ idx' = [idx EXCEPT ![c] = Position(g, tail[c], key[g.index[tail[c]]],
                                            Base(first[c]))]
      /\ tail' = [tail EXCEPT ![c] = 0]
      /\ UNCHANGED <<headers, key, value, first, left, header, block>>
  BY <1>2 DEF LoadKey, Goto, producerSide, sharedVars
<1>4. /\ SeenBy(f, K, c) /\ header[c] \in 1 .. Len(headers)
      /\ tail[c] \in DOMAIN g.index /\ Valid(g.index[tail[c]])
  BY <1>1, <1>2, <1>3 DEF Seen, SeenBy, Looking
<1>5. /\ f[c] \in Int /\ Num(f[c]) \in Int /\ f[c] \in f[c] .. f[c] + left[c] - 1
      /\ Base(first[c]) = Blk(Num(f[c]))
  BY <1>1, <1>3, Kinds, NumIs, BaseIs DEF Firsts, Claimed
<1>6. PICK p \in DOMAIN g.index : Holds(K, g.index[p], Num(f[c]))
  BY <1>2, <1>3, <1>4, <1>5 DEF SeenBy, Looking
<1>7. /\ Formed(g) /\ Capacity(g) \in Nat \ {0} /\ DOMAIN g.index = 0 .. Capacity(g) - 1
      /\ g.index[p] \in Entries /\ g.index[tail[c]] \in Entries
      /\ \E k \in Int : Turn1 = Capacity(g) * k
      /\ Capacity(g) \in 1 .. MaxCapacity
  BY <1>1, <1>2, <1>4, HeaderFacts, FormedFacts
<1>8. Valid(g.index[p]) /\ K[g.index[p]] = Num(f[c])
  BY <1>1, <1>5, <1>6, <1>7, BlkType DEF Holds, Values
<1>9. PICK m \in Int : m = K[g.index[tail[c]]] /\ key[g.index[tail[c]]] = Blk(m)
  BY <1>1, <1>4, <1>7 DEF Keys, Numbers
<1>10. PICK o \in Int : /\ Cong(Num(f[c]), p + o, Capacity(g))
                        /\ Cong(m, tail[c] + o, Capacity(g))
  BY <1>1, <1>2, <1>4, <1>8, <1>9, InLine
<1>11. Cong(p, tail[c] + (Num(f[c]) - m), Capacity(g))
  <2>1. p \in Int /\ tail[c] \in Int
    BY <1>4, <1>7
  <2>2. PICK a, b \in Int : a = p + o /\ b = tail[c] + o
    BY <2>1
  <2>3. Cong(a, Num(f[c]), Capacity(g)) /\ Cong(b, m, Capacity(g))
    BY <1>5, <1>7, <1>10, <2>2, CongTurn
  <2>4. PICK q, r \in Int : a - Num(f[c]) = Capacity(g) * q /\ b - m = Capacity(g) * r
    BY <2>3 DEF Cong
  <2>5. p - (tail[c] + (Num(f[c]) - m)) = Capacity(g) * (q - r)
    <3>1. PICK C \in Nat : C = Capacity(g)
      BY <1>7
    <3>2. PICK y, z \in Int : y = C * q /\ z = C * r /\ C * (q - r) = y - z
      OBVIOUS
    <3> QED
      BY <1>5, <2>1, <2>2, <2>4, <3>1, <3>2
  <2> QED
    BY <2>5 DEF Cong
<1>12. Position(g, tail[c], key[g.index[tail[c]]], Base(first[c])) = p
  BY <1>4, <1>5, <1>7, <1>9, <1>11, PositionIs DEF Position
<1>13. pc'[c] = "value" /\ idx'[c] = p
  BY <1>1, <1>3, <1>12 DEF Claimed, Seen
<1>14. SeenBy(f, K, c)'
  BY <1>2, <1>3, <1>4, <1>6, <1>13 DEF SeenBy, Looking, Holds
<1>15. ASSUME NEW d \in Consumers, d # c PROVE SeenBy(f, K, d)'
  <2>1. left[d] \in Nat /\ (pc[d] # "idle" => left[d] >= 1) /\ header[d] \in 0 .. Len(headers)
        /\ SeenBy(f, K, d)
    BY <1>1, Kinds DEF Claimed, Seen
  <2>2. UNCHANGED <<pc[d], left[d], header[d], tail[d], idx[d], block[d]>>
    BY <1>1, <1>3, <1>15 DEF Claimed, Seen
  <2> QED
    BY <1>1, <1>3, <2>1, <2>2, SeenKept DEF Holds, Valid
<1>16. Seen(f, K)'
  <2>1. p \in 0 .. MaxCapacity - 1 /\ 0 \in 0 .. MaxCapacity - 1
    BY <1>7, Sizes
  <2> QED
    BY <1>1, <1>3, <1>12, <1>14, <1>15, <2>1 DEF Seen
<1>17. UNCHANGED <<headIndex, producerSide, sharedVars, first, left>>
       /\ Goto(c, "key", "value")
  BY DEF LoadKey
<1> QED
  BY <1>16, <1>17, LoadKeeps DEF Good

LEMMA LoadValueStep ==
  ASSUME NEW t \in Int, NEW h \in Int, NEW f \in Firsts, NEW K \in Numbers,
         NEW own \in SUBSET Int, Good(t, h, f, K, own), NEW c \in Consumers, LoadValue(c)
  PROVE  Good(t, h, f, K, own)'
<1>1. /\ Control(t) /\ Shape /\ Keys(t, h, K) /\ Values(t, K, own) /\ Claimed(t, h, f)
      /\ Counted(t, h, f, own) /\ Seen(f, K)
  BY DEF Good
<1>2. /\ pc[c] = "value" /\ pc' = [pc EXCEPT ![c] = "finish"]
      /\ block' = [block EXCEPT ![c] = value[Entry(c)]]
      /\ UNCHANGED <<headers, key, value, first, left, header, tail, idx>>
  BY DEF LoadValue, Goto, producerSide, sharedVars
<1>3. Holds(K, Entry(c), Num(f[c])) /\ f[c] \in Int
  BY <1>1, <1>2 DEF Seen, SeenBy, Entry, Firsts
<1>4. value[Entry(c)] = Blk(Num(f[c])) /\ Blk(Num(f[c])) \in Bases
  BY <1>3, NumIs, BlkType DEF Holds
<1>5. pc'[c] = "finish" /\ block'[c] = Blk(Num(f[c]))
  BY <1>1, <1>2, <1>4 DEF Claimed, Seen
<1>6. SeenBy(f, K, c)'
  <2>1. SeenBy(f, K, c)
    BY <1>1 DEF Seen
  <2> QED
    BY <1>2, <1>5, <2>1 DEF SeenBy, Looking, Holds
<1>7. ASSUME NEW d \in Consumers, d # c PROVE SeenBy(f, K, d)'
  <2>1. left[d] \in Nat /\ (pc[d] # "idle" => left[d] >= 1) /\ header[d] \in 0 .. Len(headers)
        /\ SeenBy(f, K, d)
    BY <1>1, Kinds DEF Claimed, Seen
  <2>2. UNCHANGED <<pc[d], left[d], header[d], tail[d], idx[d], block[d]>>
    BY <1>1, <1>2, <1>7 DEF Claimed, Seen
  <2> QED
    BY <1>1, <1>2, <2>1, <2>2, SeenKept DEF Holds, Valid
<1>8. Seen(f, K)'
  BY <1>1, <1>2, <1>4, <1>6, <1>7 DEF Seen
<1>9. UNCHANGED <<headIndex, producerSide, sharedVars, first, left>>
      /\ Goto(c, "value", "finish")
  BY DEF LoadValue
<1> QED
  BY <1>8, <1>9, LoadKeeps DEF Good

--------------------------------------------------------------------------------
(* A block has one entry.                                                  *)
LEMMA UniqueKey ==
  ASSUME NEW t \in Int, NEW h \in Int, NEW K \in Numbers, Control(t), Shape, Keys(t, h, K),
         NEW d \in Entries, NEW e \in Entries, Valid(d), Valid(e), K[d] = K[e]
  PROVE  d = e
<1>1. headers # <<>> /\ d \in 0 .. Capacity(blockIndex) - 1
      /\ e \in 0 .. Capacity(blockIndex) - 1
  <2>1. headers # <<>> /\ d < Capacity(blockIndex) /\ e < Capacity(blockIndex)
        /\ Capacity(blockIndex) \in Nat /\ d \in Nat /\ e \in Nat
    <3>1. headers # <<>>
      BY DEF Keys
    <3>2. Capacity(blockIndex) \in Nat
      BY <3>1, LatestFacts, FormedFacts
    <3> QED
      BY <3>1, <3>2, Kinds DEF Keys, Entries
  <2> QED
    BY <2>1
<1>2. Formed(blockIndex) /\ Capacity(blockIndex) \in Nat \ {0}
      /\ DOMAIN blockIndex.index = 0 .. Capacity(blockIndex) - 1
      /\ blockIndex.tail \in 0 .. Capacity(blockIndex) - 1
  BY <1>1, LatestFacts, FormedFacts
<1>3. PICK p \in DOMAIN blockIndex.index, q \in DOMAIN blockIndex.index :
        blockIndex.index[p] = d /\ blockIndex.index[q] = e
  <2>1. \A b \in 0 .. Capacity(blockIndex) - 1 :
          \E p \in DOMAIN blockIndex.index : blockIndex.index[p] = b
    BY <1>2, FormedFacts
  <2> QED
    BY <1>1, <2>1
<1>4. PICK o \in Int : o = TailNum(t) - blockIndex.tail
  BY <1>2, CallFacts
<1>5. Cong(K[d], p + o, Capacity(blockIndex)) /\ Cong(K[e], q + o, Capacity(blockIndex))
  BY <1>1, <1>3, <1>4 DEF Keys, Near
<1>6. K[d] \in Int
  BY DEF Numbers
<1>7. p = q
  BY <1>2, <1>4, <1>5, <1>6, SamePlace
<1> QED
  BY <1>3, <1>7

(* What a step of a consumer leaves alone.                                 *)
LEMMA SideKeeps ==
  ASSUME NEW t \in Int, NEW own \in SUBSET Int, UNCHANGED producerSide
  PROVE  /\ UNCHANGED <<controlVars, key, headers, tailBlock, startBlock, destroyed>>
         /\ Control(t) => Control(t)'
         /\ Shape => Shape'
         /\ Tails(t, own) => Tails(t, own)'
         /\ blockIndex' = blockIndex /\ NewTail' = NewTail /\ idxEntry' = idxEntry
         /\ tailEntry' = tailEntry
         /\ \A e \in Entries : Valid(e)' <=> Valid(e)
         /\ \A e \in Entries : InFlight(t, e)' <=> InFlight(t, e)
<1>1. UNCHANGED <<controlVars, key, headers, tailBlock, startBlock, destroyed>>
  BY DEF producerSide, producerVars, controlVars
<1>2. /\ TailNum(t)' = TailNum(t) /\ Ensuing(t)' = Ensuing(t)
      /\ InCall' = InCall /\ Reverting' = Reverting /\ Extra(t)' = Extra(t)
      /\ SingleNew(t)' = SingleNew(t)
      /\ Control(t)' <=> Control(t)
  BY <1>1, ControlSame
<1>3. blockIndex' = blockIndex /\ NewTail' = NewTail /\ idxEntry' = idxEntry
      /\ tailEntry' = tailEntry
  BY <1>1 DEF blockIndex, NewTail, idxEntry, tailEntry
<1>4. \A e \in Entries : Valid(e)' <=> Valid(e)
  BY <1>1 DEF Valid
<1>5. \A e \in Entries : InFlight(t, e)' <=> InFlight(t, e)
  BY <1>1, <1>2, <1>3 DEF InFlight, controlVars
<1>6. Shape => Shape'
  BY <1>1 DEF Shape, blockIndex
<1>7. Tails(t, own) => Tails(t, own)'
  BY <1>1, <1>2 DEF Tails, Old, controlVars
<1> QED
  BY <1>1, <1>2, <1>3, <1>4, <1>5, <1>6, <1>7

LEMMA SharedKeeps ==
  ASSUME NEW t \in Int, NEW K \in Numbers, NEW own \in SUBSET Int, UNCHANGED producerSide,
         UNCHANGED <<value, owned>>
  PROVE  /\ Owning(t, own) => Owning(t, own)'
         /\ Values(t, K, own) => Values(t, K, own)'
<1>1. /\ UNCHANGED <<controlVars, key, headers>>
      /\ blockIndex' = blockIndex /\ NewTail' = NewTail /\ idxEntry' = idxEntry
      /\ tailEntry' = tailEntry
      /\ \A e \in Entries : InFlight(t, e)' <=> InFlight(t, e)
  BY SideKeeps
<1>2. /\ TailNum(t)' = TailNum(t) /\ Ensuing(t)' = Ensuing(t)
      /\ InCall' = InCall /\ Extra(t)' = Extra(t)
      /\ \A n \in Int : Unstored(t, n)' <=> Unstored(t, n)
  BY <1>1, ControlSame
<1>3. Owning(t, own) => Owning(t, own)'
  BY <1>1, <1>2 DEF Owning, controlVars
<1>4. \A n \in Int : Stored(K, n)' <=> Stored(K, n)
  BY <1>1 DEF Stored
<1>5. Values(t, K, own) => Values(t, K, own)'
  BY <1>1, <1>2, <1>4 DEF Values, Valid, Usable, Numbers, controlVars
<1> QED
  BY <1>3, <1>5

--------------------------------------------------------------------------------
LEMMA ClaimCount ==
  ASSUME NEW t \in Int, NEW h \in Int, NEW f \in Firsts, NEW K \in Numbers,
         NEW own \in SUBSET Int, Good(t, h, f, K, own), NEW c \in Consumers, Claim(c)
  PROVE  /\ left'[c] \in 1 .. MaxBulk /\ h + left'[c] <= t
         /\ headIndex' = Plus(headIndex, left'[c])
<1>1. /\ Control(t) /\ Owning(t, own) /\ Claimed(t, h, f) /\ Counted(t, h, f, own)
  BY DEF Good
<1>2. headIndex = Mod(h) /\ tailIndex = Mod(t) /\ h < t
  BY <1>1 DEF Claim, Claimed, Control
<1>3. Num(h) \in own /\ Num(h) <= Before(t)
  <2>1. Undone(h, f, h)
    BY DEF Undone
  <2>2. Num(h) <= Before(t)
    BY <1>2, NumMonotone DEF Before
  <2> QED
    BY <1>1, <1>2, <2>1, <2>2 DEF Counted
<1>4. t - h < IndexSize /\ t - h >= 1
  <2>1. t + (IF InCall THEN count ELSE 0) - Begins(Num(h)) < IndexSize \div 2
    BY <1>1, <1>3 DEF Owning
  <2>2. Begins(Num(h)) <= h /\ Begins(Num(h)) \in Int
    BY NumIs DEF Begins
  <2>3. count \in Nat /\ IndexSize \div 2 \in Nat /\ 2 * (IndexSize \div 2) <= IndexSize
        /\ IndexSize \in Nat
    BY <1>1, CallFacts, Kinds, Sizes
  <2> QED
    BY <1>2, <2>1, <2>2, <2>3
<1>5. Minus(tailIndex, headIndex) = t - h
  <2>1. Minus(tailIndex, headIndex) = Mod(t - h)
    BY <1>2, ModFacts
  <2> QED
    BY <1>4, <2>1, ModSmall, Sizes
<1>6. PICK n \in {1} \cup {Min({max, t - h}) : max \in Bulks} :
        /\ left' = [left EXCEPT ![c] = n] /\ headIndex' = Plus(headIndex, n)
  BY <1>5 DEF Claim
<1>7. n \in 1 .. MaxBulk /\ n <= t - h
  <2>1. CASE n = 1
    BY <1>4, <2>1, BoundsAreNat
  <2>2. ASSUME NEW max \in Bulks, n = Min({max, t - h}) PROVE n \in 1 .. MaxBulk /\ n <= t - h
    <3>1. max \in 1 .. MaxBulk /\ t - h \in Nat /\ t - h >= 1
      BY <1>4, BulksAreBounded
    <3>2. CASE max <= t - h
      <4>1. Min({max, t - h}) = max
        BY <3>1, <3>2 DEF Min
      <4> QED
        BY <2>2, <3>1, <3>2, <4>1
    <3>3. CASE max > t - h
      <4>1. Min({max, t - h}) = t - h
        BY <3>1, <3>3 DEF Min
      <4> QED
        BY <2>2, <3>1, <3>3, <4>1, Kinds
    <3> QED
      BY <3>1, <3>2, <3>3
  <2> QED
    BY <1>6, <2>1, <2>2
<1>8. left'[c] = n
  BY <1>1, <1>6 DEF Claimed
<1> QED
  BY <1>4, <1>6, <1>7, <1>8

LEMMA ClaimStep ==
  ASSUME NEW t \in Int, NEW h \in Int, NEW f \in Firsts, NEW K \in Numbers,
         NEW own \in SUBSET Int, Good(t, h, f, K, own), NEW c \in Consumers, Claim(c)
  PROVE  \E i \in Int, g \in Firsts : Good(t, i, g, K, own)'
<1>1. /\ Control(t) /\ Shape /\ Keys(t, h, K) /\ Owning(t, own) /\ Tails(t, own)
      /\ Values(t, K, own) /\ Claimed(t, h, f) /\ Counted(t, h, f, own) /\ Seen(f, K)
      /\ Ended
  BY DEF Good
<1>2. /\ pc[c] = "idle" /\ pc' = [pc EXCEPT ![c] = "header"]
      /\ first' = [first EXCEPT ![c] = headIndex]
      /\ \E n : left' = [left EXCEPT ![c] = n]
      /\ UNCHANGED producerSide
      /\ UNCHANGED <<value, owned, elementsCompletelyDequeued, header, tail, idx, block>>
      /\ step # "gone" /\ tailIndex # headIndex
  BY DEF Claim, Goto, sharedVars
<1>3. PICK n \in 1 .. MaxBulk : n = left'[c] /\ h + n <= t /\ headIndex' = Plus(headIndex, n)
  BY ClaimCount
<1>4. PICK i \in Int : i = h + n
  OBVIOUS
<1>5. PICK g \in Firsts : g = [f EXCEPT ![c] = h]
  BY DEF Firsts
<1>6. /\ left' = [left EXCEPT ![c] = n] /\ left \in [Consumers -> Nat]
      /\ \A d \in Consumers : d # c => left'[d] = left[d] /\ pc'[d] = pc[d]
                                      /\ first'[d] = first[d] /\ g[d] = f[d]
      /\ left'[c] = n /\ pc'[c] = "header" /\ first'[c] = headIndex /\ g[c] = h
      /\ left[c] = 0
  BY <1>1, <1>2, <1>3, <1>5, Kinds DEF Claimed, Firsts
<1>7. UNCHANGED <<controlVars, key, headers, tailBlock, startBlock, destroyed>>
      /\ Control(t)' /\ Shape' /\ Tails(t, own)'
  BY <1>1, <1>2, SideKeeps
<1>8. Owning(t, own)' /\ Values(t, K, own)'
  BY <1>1, <1>2, SharedKeeps
<1>9. Keys(t, i, K)'
  <2>1. h < t
    BY <1>1, <1>2 DEF Claimed, Control
  <2> QED
    BY <1>1, <1>2, <1>7, <2>1, KeysKept DEF Active
<1>10. Claimed(t, i, g)'
  <2>1. headIndex' = Mod(i)
    <3>1. headIndex = Mod(h) /\ n \in Int
      BY <1>1 DEF Claimed
    <3> QED
      BY <1>3, <1>4, <3>1, ModFacts
  <2>2. i <= t /\ h <= i
    BY <1>3, <1>4
  <2>3. headIndex = Mod(h) /\ Mod(h) \in Index
    BY <1>1, ModType DEF Claimed
  <2>4. left' \in [Consumers -> 0 .. MaxBulk] /\ first' \in [Consumers -> Index]
    BY <1>1, <1>2, <1>3, <1>6, <2>3 DEF Claimed
  <2>5. pc' \in [Consumers -> {"idle", "header", "tail", "key", "value", "finish", "unset"}]
    BY <1>1, <1>2 DEF Claimed
  <2>6. ASSUME NEW d \in Consumers
        PROVE  IF pc'[d] = "idle" THEN left'[d] = 0
               ELSE left'[d] >= 1 /\ first'[d] = Mod(g[d]) /\ g[d] + left'[d] <= i
    <3>1. CASE d = c
      BY <1>3, <1>4, <1>6, <2>3, <3>1
    <3>2. CASE d # c
      <4>1. f[d] \in Int /\ left[d] \in Nat
        BY <1>6 DEF Firsts
      <4> QED
        BY <1>1, <1>6, <2>2, <3>2, <4>1 DEF Claimed
    <3> QED
      BY <3>1, <3>2
  <2>7. ASSUME NEW d \in Consumers, NEW e \in Consumers, d # e, pc'[d] # "idle", pc'[e] # "idle"
        PROVE  g[d] + left'[d] <= g[e] \/ g[e] + left'[e] <= g[d]
    <3>1. \A b \in Consumers : f[b] \in Int /\ left[b] \in Nat
      BY <1>6 DEF Firsts
    <3> QED
      BY <1>1, <1>6, <2>7, <3>1 DEF Claimed
  <2> QED
    BY <2>1, <2>2, <2>4, <2>5, <2>6, <2>7 DEF Claimed
<1>11. Counted(t, i, g, own)'
  <2>1. \A d \in Consumers : d # c => Skipped(d)' = Skipped(d)
    BY <1>6 DEF Skipped, Here, Room
  <2>2. Skipped(c)' = 0 /\ Skipped(c) = 0
    BY <1>2, <1>6 DEF Skipped
  <2>3. ASSUME NEW x \in Int PROVE Undone(i, g, x)' <=> Undone(h, f, x)
    <3>1. \A d \in Consumers : d # c => (InHand(g, d, x)' <=> InHand(f, d, x))
      BY <1>6, <2>1 DEF InHand
    <3>2. InHand(g, c, x)' <=> h <= x /\ x < i
      BY <1>4, <1>6, <2>2 DEF InHand
    <3>3. ~InHand(f, c, x)
      BY <1>6, <2>2 DEF InHand, Firsts
    <3>4. i <= x \/ (h <= x /\ x < i) <=> h <= x
      BY <1>3, <1>4
    <3> QED
      BY <3>1, <3>2, <3>3, <3>4 DEF Undone
  <2>4. ASSUME NEW n0 \in Int PROVE Finished(i, g, n0)' = Finished(h, f, n0)
    <3>1. \A x \in Places(n0) : x \in Int
      BY BeginsFacts, Sizes DEF Places
    <3>2. Places(n0)' = Places(n0)
      BY DEF Places, Begins
    <3> QED
      BY <2>3, <3>1, <3>2 DEF Finished
  <2>5. \A d \in Consumers : pc'[d] = "unset" <=> pc[d] = "unset"
    BY <1>2, <1>6
  <2>6. \A d \in Consumers : pc[d] = "unset" => g[d] = f[d]
    BY <1>2, <1>6
  <2> QED
    BY <1>1, <1>2, <2>3, <2>4, <2>5, <2>6 DEF Counted
<1>12. Seen(g, K)'
  <2>1. SeenBy(g, K, c)'
    BY <1>6 DEF SeenBy, Looking
  <2>2. ASSUME NEW d \in Consumers, d # c PROVE SeenBy(g, K, d)'
    <3>1. left[d] \in Nat /\ (pc[d] # "idle" => left[d] >= 1)
          /\ header[d] \in 0 .. Len(headers) /\ SeenBy(f, K, d)
      BY <1>1, <1>6 DEF Claimed, Seen
    <3>2. UNCHANGED <<pc[d], left[d], header[d], tail[d], idx[d], block[d]>>
          /\ g[d] = f[d]
      BY <1>2, <1>6, <2>2
    <3> QED
      BY <1>1, <1>2, <1>7, <3>1, <3>2, SeenKept DEF Holds, Valid
  <2> QED
    BY <1>1, <1>2, <1>7, <2>1, <2>2 DEF Seen
<1>13. Ended'
  BY <1>1, <1>2, <1>7 DEF Ended, controlVars
<1> QED
  BY <1>7, <1>8, <1>9, <1>10, <1>11, <1>12, <1>13 DEF Good

--------------------------------------------------------------------------------
(* The block a consumer is done with.                                      *)
LEMMA MineFacts ==
  ASSUME NEW t \in Int, NEW h \in Int, NEW f \in Firsts, NEW K \in Numbers,
         NEW own \in SUBSET Int, Good(t, h, f, K, own), NEW c \in Consumers,
         pc[c] \in {"finish", "unset"}
  PROVE  /\ Num(f[c]) \in own /\ Num(f[c]) \in Int /\ Num(f[c]) <= Before(t)
         /\ block[c] = Blk(Num(f[c])) /\ Blk(Num(f[c])) \in Bases
         /\ Entry(c) \in Entries /\ Valid(Entry(c)) /\ Holds(K, Entry(c), Num(f[c]))
         /\ header[c] \in 1 .. Len(headers) /\ idx[c] \in DOMAIN headers[header[c]].index
         /\ \A x \in f[c] .. f[c] + Here(c) - 1 : x \in Places(Num(f[c]))
<1>1. /\ Control(t) /\ Shape /\ Values(t, K, own) /\ Claimed(t, h, f)
      /\ Counted(t, h, f, own) /\ Seen(f, K) /\ pc[c] # "idle"
  BY DEF Good
<1>2. f[c] \in Int /\ left[c] \in Nat /\ left[c] >= 1 /\ f[c] + left[c] <= h /\ h <= t
  BY <1>1, Kinds DEF Claimed, Firsts
<1>3. Num(f[c]) \in Int /\ Num(f[c]) <= Before(t)
  <2>1. f[c] <= t - 1 /\ t - 1 \in Int
    BY <1>2
  <2> QED
    BY <1>2, <2>1, NumIs, NumMonotone DEF Before
<1>4. Num(f[c]) \in own
  <2>1. CASE pc[c] = "finish"
    <3>1. Skipped(c) = 0
      BY <2>1 DEF Skipped
    <3> QED
      BY <1>1, <1>2, <3>1, InHandFacts
  <2>2. CASE pc[c] = "unset"
    BY <1>1, <2>2 DEF Counted
  <2> QED
    BY <2>1, <2>2
<1>5. SeenBy(f, K, c) /\ header[c] \in 0 .. Len(headers)
  BY <1>1 DEF Seen
<1>6. /\ header[c] \in 1 .. Len(headers) /\ idx[c] \in DOMAIN headers[header[c]].index
      /\ Holds(K, Entry(c), Num(f[c])) /\ block[c] = Blk(Num(f[c]))
  BY <1>1, <1>5 DEF SeenBy, Looking, Entry
<1>7. Entry(c) \in Entries
  BY <1>1, <1>6, HeaderFacts, FormedFacts DEF Entry
<1>8. Blk(Num(f[c])) \in Bases
  BY <1>3, BlkType
<1>9. Valid(Entry(c))
  BY <1>1, <1>6, <1>7, <1>8 DEF Values, Holds
<1>10. \A x \in f[c] .. f[c] + Here(c) - 1 : x \in Places(Num(f[c]))
  <2>1. PICK b \in Int, l \in Int :
          /\ b = Begins(Num(f[c])) /\ l = Here(c) /\ b <= f[c]
          /\ f[c] + l <= b + BlockSize
    BY <1>1, <1>2, HereFacts
  <2> QED
    BY <1>2, <2>1, Sizes DEF Places
<1> QED
  BY <1>3, <1>4, <1>6, <1>7, <1>8, <1>9, <1>10

(* The next block is in the next entry.                                    *)
LEMMA NextEntry ==
  ASSUME NEW t \in Int, NEW h \in Int, NEW f \in Firsts, NEW K \in Numbers,
         NEW own \in SUBSET Int, Good(t, h, f, K, own), NEW c \in Consumers,
         pc[c] \in {"finish", "unset"}, Here(c) < left[c]
  PROVE  LET g == headers[header[c]] IN
           /\ Next1(g, idx[c]) \in DOMAIN g.index /\ Next1(g, idx[c]) \in 0 .. MaxCapacity - 1
           /\ Holds(K, g.index[Next1(g, idx[c])], Num(f[c] + Here(c)))
           /\ Num(f[c] + Here(c)) = Num(f[c]) + 1
<1>1. /\ Control(t) /\ Shape /\ Keys(t, h, K) /\ Values(t, K, own) /\ Claimed(t, h, f)
      /\ Seen(f, K) /\ pc[c] # "idle"
  BY DEF Good
<1>2. PICK g : g = headers[header[c]]
  OBVIOUS
<1>3. /\ header[c] \in 1 .. Len(headers) /\ idx[c] \in DOMAIN g.index
      /\ Entry(c) = g.index[idx[c]] /\ Valid(Entry(c)) /\ K[Entry(c)] = Num(f[c])
      /\ Num(f[c]) \in Int
  BY <1>2, MineFacts DEF Entry, Holds
<1>4. /\ Formed(g) /\ Capacity(g) \in Nat \ {0} /\ DOMAIN g.index = 0 .. Capacity(g) - 1
      /\ Capacity(g) \in 1 .. MaxCapacity
      /\ \A p \in DOMAIN g.index : g.index[p] \in Entries
  BY <1>1, <1>2, <1>3, HeaderFacts, FormedFacts
<1>5. PICK x \in Int : x = f[c] + Here(c) /\ x = Begins(Num(f[c])) + BlockSize
                       /\ x \in f[c] .. f[c] + left[c] - 1
  BY <1>1, HereFacts
<1>6. Num(x) = Num(f[c]) + 1
  <2>1. x = Begins(Num(f[c]) + 1)
    BY <1>3, <1>5, BeginsFacts
  <2> QED
    <3>1. PICK m \in Int : m = Num(f[c]) + 1 /\ x = BlockSize * m
      BY <1>3, <2>1 DEF Begins
    <3> QED
      BY <3>1, NumUnique, Sizes
<1>7. SeenBy(f, K, c)
  BY <1>1 DEF Seen
<1>8. PICK p \in DOMAIN g.index : Holds(K, g.index[p], Num(x))
  BY <1>2, <1>5, <1>7 DEF SeenBy, Looking
<1>9. Valid(g.index[p]) /\ K[g.index[p]] = Num(f[c]) + 1
  <2>1. Blk(Num(x)) \in Bases
    BY <1>3, <1>6, BlkType
  <2> QED
    BY <1>1, <1>4, <1>6, <1>8, <2>1 DEF Values, Holds
<1>10. PICK o \in Int : /\ Cong(Num(f[c]), idx[c] + o, Capacity(g))
                        /\ Cong(Num(f[c]) + 1, p + o, Capacity(g))
  BY <1>1, <1>2, <1>3, <1>9, InLine
<1>11. Cong(p, idx[c] + 1, Capacity(g))
  <2>1. PICK C \in Nat \ {0}, i \in Int, n \in Int : C = Capacity(g) /\ i = idx[c] /\ n = Num(f[c])
    BY <1>3, <1>4
  <2>2. p \in Int
    BY <1>4
  <2>3. PICK q \in Int : n - (i + o) = C * q
    BY <1>10, <2>1 DEF Cong
  <2>6. PICK r \in Int : n + 1 - (p + o) = C * r
    <3>1. PICK m \in Int, s \in Int : m = n + 1 /\ s = p + o
      BY <2>2
    <3>2. Cong(m, s, C)
      BY <1>10, <2>1, <3>1
    <3>3. PICK r \in Int : m - s = C * r
      BY <3>2 DEF Cong
    <3> QED
      BY <3>1, <3>3
  <2>4. PICK y \in Int, z \in Int : y = C * q /\ z = C * r /\ C * (q - r) = y - z
    <3>1. C * (q - r) = C * q - C * r /\ C * q \in Int /\ C * r \in Int
      BY C \in Nat, q \in Int, r \in Int
    <3> QED
      BY <3>1
  <2>7. y = n - (i + o) /\ z = n + 1 - (p + o)
    BY <2>3, <2>4, <2>6
  <2>8. y - z = p - (i + 1)
    BY <2>1, <2>2, <2>7
  <2>5. p - (i + 1) = C * (q - r)
    BY <2>4, <2>8
  <2> QED
    BY <2>1, <2>5 DEF Cong
<1>12. Next1(g, idx[c]) = p
  <2>1. PICK a \in Int : a = idx[c] + 1
    BY <1>3, <1>4
  <2>2. p \in 0 .. Capacity(g) - 1 /\ Cong(p, a, Capacity(g))
    BY <1>4, <1>11, <2>1
  <2>3. a % Capacity(g) = p
    BY <1>4, <2>2, CongIsMod
  <2> QED
    BY <2>1, <2>3 DEF Next1
<1>13. p \in 0 .. MaxCapacity - 1
  <2>1. PICK C \in 1 .. MaxCapacity : p \in 0 .. C - 1
    BY <1>4
  <2> QED
    BY <2>1, Sizes
<1>14. /\ Next1(g, idx[c]) \in DOMAIN g.index /\ Next1(g, idx[c]) \in 0 .. MaxCapacity - 1
       /\ Holds(K, g.index[Next1(g, idx[c])], Num(f[c] + Here(c)))
       /\ Num(f[c] + Here(c)) = Num(f[c]) + 1
  BY <1>5, <1>6, <1>8, <1>12, <1>13
<1> QED
  BY <1>2, <1>14

(* On to the next block.                                                   *)
Past(f, c) == [f EXCEPT ![c] = f[c] + Here(c)]
Kept(K, lo, hi) ==
  \A e \in Entries : \A x \in lo .. hi - 1 : Holds(K, e, Num(x)) => Holds(K, e, Num(x))'

LEMMA Advanced ==
  ASSUME NEW t \in Int, NEW h \in Int, NEW f \in Firsts, NEW K \in Numbers,
         NEW own \in SUBSET Int, Good(t, h, f, K, own), NEW c \in Consumers,
         NEW from \in {"finish", "unset"}, Advance(c, from),
         UNCHANGED <<headIndex, producerSide, tail>>,
         NEW g \in Firsts, g = Past(f, c)
  PROVE  /\ Claimed(t, h, g)'
         /\ \A d \in Consumers : d # c =>
              /\ g[d] = f[d]
              /\ UNCHANGED <<pc[d], first[d], left[d], header[d], tail[d], idx[d], block[d]>>
         /\ pc'[c] \in {"value", "idle"}
         /\ g[c] = f[c] + Here(c) /\ g[c] + left'[c] = f[c] + left[c]
         /\ header' \in [Consumers -> 0 .. Len(headers)]
         /\ idx' \in [Consumers -> 0 .. MaxCapacity - 1]
         /\ block' \in [Consumers -> Bases \cup {Null, Garbage}]
         /\ Kept(K, g[c], f[c] + left[c]) => SeenBy(g, K, c)'
<1>1. /\ Shape /\ Claimed(t, h, f) /\ Seen(f, K) /\ pc[c] = from /\ pc[c] # "idle"
  BY DEF Good, Advance, Goto
<1>2. /\ f[c] \in Int /\ left[c] \in Nat /\ Here(c) \in 1 .. left[c] /\ first[c] = Mod(f[c])
      /\ f[c] + left[c] <= h /\ left[c] <= MaxBulk
  BY <1>1, HereFacts, Kinds DEF Claimed
<1>3. /\ g[c] = f[c] + Here(c) /\ \A d \in Consumers : d # c => g[d] = f[d]
  BY DEF Firsts, Past
<1>4. /\ block' = [block EXCEPT ![c] = Null]
      /\ UNCHANGED <<headers, headIndex, tail>>
  BY DEF Advance, producerSide
<1>5. PICK p \in {"value", "idle"}, i \in Index, l \in 0 .. MaxBulk,
           j \in 0 .. MaxCapacity - 1, k \in 0 .. Len(headers) :
        /\ pc' = [pc EXCEPT ![c] = p] /\ first' = [first EXCEPT ![c] = i]
        /\ left' = [left EXCEPT ![c] = l] /\ idx' = [idx EXCEPT ![c] = j]
        /\ header' = [header EXCEPT ![c] = k]
        /\ l = left[c] - Here(c)
        /\ p = "idle" <=> l = 0
        /\ p = "value" => i = Mod(g[c]) /\ k = header[c] /\ Here(c) < left[c]
                          /\ j = Next1(headers[header[c]], idx[c])
  <2>1. CASE Here(c) < left[c]
    <3>1. /\ pc' = [pc EXCEPT ![c] = "value"]
          /\ first' = [first EXCEPT ![c] = Plus(first[c], Here(c))]
          /\ left' = [left EXCEPT ![c] = left[c] - Here(c)]
          /\ idx' = [idx EXCEPT ![c] = Next1(headers[header[c]], idx[c])]
          /\ header' = header
      BY <1>2, <2>1 DEF Advance, Goto
    <3>2. Plus(first[c], Here(c)) = Mod(g[c]) /\ Mod(g[c]) \in Index
      <4>1. Here(c) \in Int /\ f[c] + Here(c) \in Int
        BY <1>2
      <4>2. PICK x \in Int : x = f[c] + Here(c)
        BY <4>1
      <4>3. Plus(Mod(f[c]), Here(c)) = Mod(x) /\ Mod(x) \in Index
        BY <1>2, <4>1, <4>2, ModFacts, ModType
      <4> QED
        BY <1>2, <1>3, <4>2, <4>3
    <3>3. Next1(headers[header[c]], idx[c]) \in 0 .. MaxCapacity - 1
      BY <1>1, <2>1, NextEntry
    <3>4. left[c] - Here(c) \in 0 .. MaxBulk /\ left[c] - Here(c) # 0
      BY <1>2, <2>1, Kinds
    <3>5. header[c] \in 0 .. Len(headers) /\ header' = [header EXCEPT ![c] = header[c]]
      BY <1>1, <3>1 DEF Seen
    <3> QED
      BY <2>1, <3>1, <3>2, <3>3, <3>4, <3>5
  <2>2. CASE ~(Here(c) < left[c])
    <3>1. /\ pc' = [pc EXCEPT ![c] = "idle"] /\ first' = [first EXCEPT ![c] = 0]
          /\ left' = [left EXCEPT ![c] = 0] /\ idx' = [idx EXCEPT ![c] = 0]
          /\ header' = [header EXCEPT ![c] = 0]
      BY <1>2, <2>2 DEF Advance, Goto
    <3>2. left[c] - Here(c) = 0
      BY <1>2, <2>2
    <3>3. 0 \in Index /\ 0 \in 0 .. MaxBulk /\ 0 \in 0 .. MaxCapacity - 1
      BY Sizes, Kinds DEF Index
    <3>4. 0 \in 0 .. Len(headers)
      BY <1>1 DEF Shape
    <3> QED
      BY <3>1, <3>2, <3>3, <3>4
  <2> QED
    BY <2>1, <2>2
<1>6. /\ pc'[c] = p /\ first'[c] = i /\ left'[c] = l /\ idx'[c] = j /\ header'[c] = k
      /\ block'[c] = Null
      /\ \A d \in Consumers : d # c =>
           UNCHANGED <<pc[d], first[d], left[d], header[d], tail[d], idx[d], block[d]>>
  BY <1>1, <1>4, <1>5 DEF Claimed, Seen
<1>7. g[c] + left'[c] = f[c] + left[c]
  <2>1. left'[c] = left[c] - Here(c)
    BY <1>5, <1>6
  <2> QED
    BY <1>2, <1>3, <2>1
<1>8. Claimed(t, h, g)'
  <2>1. /\ pc' \in [Consumers -> {"idle", "header", "tail", "key", "value", "finish", "unset"}]
        /\ first' \in [Consumers -> Index] /\ left' \in [Consumers -> 0 .. MaxBulk]
        /\ headIndex' = Mod(h) /\ h <= t
    BY <1>1, <1>4, <1>5 DEF Claimed
  <2>2. ASSUME NEW d \in Consumers
        PROVE  IF pc'[d] = "idle" THEN left'[d] = 0
               ELSE left'[d] >= 1 /\ first'[d] = Mod(g[d]) /\ g[d] + left'[d] <= h
    <3>1. CASE d = c
      BY <1>2, <1>5, <1>6, <1>7, <3>1
    <3>2. CASE d # c
      BY <1>1, <1>3, <1>6, <3>2 DEF Claimed
    <3> QED
      BY <3>1, <3>2
  <2>3. ASSUME NEW d \in Consumers, NEW e \in Consumers, d # e, pc'[d] # "idle", pc'[e] # "idle"
        PROVE  g[d] + left'[d] <= g[e] \/ g[e] + left'[e] <= g[d]
    <3>1. \A b \in Consumers : f[b] \in Int /\ left[b] \in Nat
      <4>1. left \in [Consumers -> 0 .. MaxBulk]
        BY <1>1 DEF Claimed
      <4>2. \A b \in Consumers : left[b] \in Nat
        BY <4>1, Kinds
      <4>3. \A b \in Consumers : f[b] \in Int
        BY DEF Firsts
      <4> QED
        BY <4>2, <4>3
    <3>2. ASSUME NEW b \in Consumers, b # c, pc[b] # "idle"
          PROVE  f[b] + left[b] <= g[c] \/ f[c] + left[c] <= f[b]
      <4>1. f[b] + left[b] <= f[c] \/ f[c] + left[c] <= f[b]
        BY <1>1, <3>2 DEF Claimed
      <4> QED
        BY <1>2, <1>3, <3>1, <4>1
    <3>3. CASE d # c /\ e # c
      BY <1>1, <1>3, <1>6, <2>3, <3>3 DEF Claimed
    <3>4. CASE d = c
      BY <1>3, <1>6, <1>7, <2>3, <3>2, <3>4
    <3>5. CASE e = c
      BY <1>3, <1>6, <1>7, <2>3, <3>2, <3>5
    <3> QED
      BY <3>3, <3>4, <3>5
  <2> QED
    BY <2>1, <2>2, <2>3 DEF Claimed
<1>9. ASSUME Kept(K, g[c], f[c] + left[c])
      PROVE  SeenBy(g, K, c)'
  <2>1. CASE p = "idle"
    BY <1>6, <2>1 DEF SeenBy, Looking
  <2>2. CASE p = "value"
    <3>1. PICK index : index = headers[header[c]].index
      OBVIOUS
    <3>2. /\ SeenBy(f, K, c) /\ header[c] \in 1 .. Len(headers)
          /\ \A q \in DOMAIN index : index[q] \in Entries
      <4>1. SeenBy(f, K, c) /\ header[c] \in 1 .. Len(headers)
        BY <1>1, MineFacts DEF Seen
      <4> QED
        BY <1>1, <3>1, <4>1, HeaderFacts, FormedFacts
    <3>3. /\ j \in DOMAIN index /\ Holds(K, index[j], Num(g[c]))
          /\ Num(g[c]) = Num(f[c]) + 1
      BY <1>1, <1>3, <1>5, <2>2, <3>1, NextEntry
    <3>4. g[c] \in g[c] .. (f[c] + left[c]) - 1
      BY <1>2, <1>3, <1>5, <2>2
    <3>9. \A e \in Entries : \A x \in g[c] .. (f[c] + left[c]) - 1 :
            Holds(K, e, Num(x)) => Holds(K, e, Num(x))'
      BY <1>9 DEF Kept
    <3>5. Holds(K, index[j], Num(g[c]))'
      BY <3>2, <3>3, <3>4, <3>9
    <3>8. PICK y \in Int, z \in Int : y = g[c] /\ z = left'[c] /\ y + z = f[c] + left[c]
                                      /\ f[c] <= y
      <4>1. g[c] \in Int /\ f[c] <= g[c]
        BY <1>2, <1>3
      <4>2. left'[c] \in Int
        BY <1>6, Kinds
      <4> QED
        BY <1>7, <4>1, <4>2
    <3>6. ASSUME NEW x \in y .. y + z - 1
          PROVE  \E q \in DOMAIN index : Holds(K, index[q], Num(x))'
      <4>1. x \in f[c] .. f[c] + left[c] - 1 /\ x \in g[c] .. (f[c] + left[c]) - 1
        <5>1. x \in Int /\ y <= x /\ x <= y + z - 1
          OBVIOUS
        <5>2. PICK a \in Int, b \in Int : a = f[c] /\ b = y + z /\ a <= y
          BY <1>2, <3>8
        <5>3. x \in a .. b - 1 /\ x \in y .. b - 1
          BY <5>1, <5>2
        <5>4. f[c] \in Int /\ left[c] \in Int
          BY <1>2
        <5>5. x \in f[c] .. f[c] + left[c] - 1
          BY ONLY <3>8, <5>2, <5>3, <5>4, y \in Int, z \in Int
        <5>6. x \in g[c] .. (f[c] + left[c]) - 1
          BY ONLY <3>8, <5>2, <5>3, <5>4, y \in Int, z \in Int
        <5> QED
          BY <5>5, <5>6
      <4>2. PICK q \in DOMAIN index : Holds(K, index[q], Num(x))
        BY <1>1, <3>1, <3>2, <4>1 DEF SeenBy, Looking
      <4> QED
        BY <3>2, <3>9, <4>1, <4>2
    <3>7. headers'[header'[c]].index = index /\ header'[c] # 0
      BY <1>4, <1>5, <1>6, <2>2, <3>1, <3>2
    <3> QED
      BY <1>6, <2>2, <3>3, <3>5, <3>6, <3>7, <3>8 DEF SeenBy, Looking, Holds
  <2> QED
    BY <2>1, <2>2
<1>10. /\ header' \in [Consumers -> 0 .. Len(headers)]
       /\ idx' \in [Consumers -> 0 .. MaxCapacity - 1]
       /\ block' \in [Consumers -> Bases \cup {Null, Garbage}]
  BY <1>1, <1>4, <1>5 DEF Seen
<1> QED
  BY <1>3, <1>6, <1>7, <1>8, <1>9, <1>10

--------------------------------------------------------------------------------
(* How many elements of a block are finished.                              *)
LEMMA FinishedFacts ==
  ASSUME NEW h \in Int, NEW f \in Firsts, NEW n \in Int
  PROVE  /\ Finished(h, f, n) \subseteq Places(n) /\ IsFiniteSet(Finished(h, f, n))
         /\ Cardinality(Finished(h, f, n)) \in 0 .. BlockSize
         /\ Cardinality(Finished(h, f, n)) = BlockSize => Finished(h, f, n) = Places(n)
<1>1. PICK b \in Int : b = Begins(n) /\ Places(n) = b .. b + BlockSize - 1
  BY BeginsFacts DEF Places
<1>2. IsFiniteSet(Places(n)) /\ Cardinality(Places(n)) = BlockSize
  BY <1>1, Sizes, FS_Interval
<1>3. PICK S : S = Finished(h, f, n) /\ S \subseteq Places(n)
  BY DEF Finished
<1>4. /\ IsFiniteSet(S) /\ Cardinality(S) <= BlockSize
      /\ Cardinality(S) = BlockSize => S = Places(n)
  BY <1>2, <1>3, FS_Subset
<1>5. Cardinality(S) \in Nat
  BY <1>4, FS_CardinalityType
<1> QED
  BY <1>3, <1>4, <1>5, Sizes

LEMMA AddRange ==
  ASSUME NEW S, IsFiniteSet(S), NEW a \in Int, NEW l \in Nat \ {0},
         \A x \in a .. a + l - 1 : x \notin S
  PROVE  Cardinality(S \cup (a .. a + l - 1)) = Cardinality(S) + l
<1>1. PICK T : T = a .. a + l - 1
  OBVIOUS
<1>2. IsFiniteSet(T) /\ Cardinality(T) = l
  BY <1>1, FS_Interval
<1>3. S \cap T = {}
  BY <1>1
<1>4. Cardinality(S \cap T) = 0
  BY <1>3, FS_EmptySet
<1>5. Cardinality(S \cup T) = Cardinality(S) + Cardinality(T) - Cardinality(S \cap T)
  BY <1>2, FS_Union
<1>6. Cardinality(S) \in Nat
  BY FS_CardinalityType
<1> QED
  BY <1>1, <1>2, <1>4, <1>5, <1>6

(* A consumer's elements are finished.                                     *)
LEMMA Finishing ==
  ASSUME NEW t \in Int, NEW h \in Int, NEW f \in Firsts, NEW K \in Numbers,
         NEW own \in SUBSET Int, Good(t, h, f, K, own), NEW c \in Consumers,
         pc[c] = "finish", NEW g \in Firsts,
         \A x \in Int : Undone(h, g, x)' <=>
                          Undone(h, f, x) /\ x \notin f[c] .. f[c] + Here(c) - 1
  PROVE  LET n == Num(f[c]) IN
         /\ Cardinality(Finished(h, g, n)') = elementsCompletelyDequeued[Blk(n)] + Here(c)
         /\ elementsCompletelyDequeued[Blk(n)] + Here(c) \in 0 .. BlockSize
         /\ elementsCompletelyDequeued[Blk(n)] # BlockSize
         /\ \A m \in own : m # n => Finished(h, g, m)' = Finished(h, f, m)
<1>1. /\ Claimed(t, h, f) /\ Counted(t, h, f, own) /\ pc[c] # "idle"
  BY DEF Good
<1>2. PICK n \in own : /\ n = Num(f[c]) /\ n \in Int
                       /\ \A x \in f[c] .. f[c] + Here(c) - 1 : x \in Places(n)
  BY MineFacts
<1>3. PICK a \in Int, l \in Nat \ {0} : /\ a = f[c] /\ l = Here(c) /\ l <= left[c]
                                        /\ left[c] \in Nat
  BY <1>1, HereFacts
<1>4. PICK S : S = Finished(h, f, n) /\ Cardinality(S) = elementsCompletelyDequeued[Blk(n)]
  BY <1>1, <1>2 DEF Counted
<1>5. IsFiniteSet(S) /\ Cardinality(S) \in 0 .. BlockSize
  BY <1>2, <1>4, FinishedFacts
<1>6. \A m \in Int : Places(m)' = Places(m) /\ \A x \in Places(m) : x \in Int
  BY BeginsFacts, Sizes DEF Places, Begins
<1>7. \A x \in a .. a + l - 1 : x \notin S
  <2>1. Skipped(c) = 0
    BY DEF Skipped
  <2>2. ASSUME NEW x \in a .. a + l - 1 PROVE Undone(h, f, x)
    BY <1>1, <1>3, <2>1, InHandFacts
  <2> QED
    BY <1>4, <2>2 DEF Finished
<1>8. Finished(h, g, n)' = S \cup (a .. a + l - 1)
  <2>1. Finished(h, g, n)' = {x \in Places(n) : ~Undone(h, g, x)'}
    BY <1>6 DEF Finished
  <2>2. \A x \in Places(n) : ~Undone(h, g, x)' <=> ~Undone(h, f, x) \/ x \in a .. a + l - 1
    BY <1>2, <1>3, <1>6
  <2>3. S = {x \in Places(n) : ~Undone(h, f, x)}
    BY <1>4 DEF Finished
  <2>4. \A x \in a .. a + l - 1 : x \in Places(n)
    BY <1>2, <1>3
  <2> QED
    BY <2>1, <2>2, <2>3, <2>4
<1>9. Cardinality(Finished(h, g, n)') = Cardinality(S) + l
  <2>1. Cardinality(S \cup (a .. a + l - 1)) = Cardinality(S) + l
    BY <1>5, <1>7, AddRange
  <2> QED
    BY <1>8, <2>1
<1>10. Cardinality(Finished(h, g, n)') <= BlockSize
  <2>1. PICK b \in Int : Places(n) = b .. b + BlockSize - 1
    BY <1>2, BeginsFacts DEF Places
  <2>2. IsFiniteSet(Places(n)) /\ Cardinality(Places(n)) = BlockSize
    BY <2>1, Sizes, FS_Interval
  <2>3. Finished(h, g, n)' \subseteq Places(n)
    BY <1>6 DEF Finished
  <2> QED
    BY <2>2, <2>3, FS_Subset
<1>11. ASSUME NEW m \in own, m # n PROVE Finished(h, g, m)' = Finished(h, f, m)
  <2>1. \A x \in Places(m) : x \notin Places(n)
    <3>1. m \in Int
      OBVIOUS
    <3>2. n < m \/ m < n
      BY <1>2, <1>11, <3>1
    <3>3. PICK b \in Int, d \in Int : b = Begins(n) /\ d = Begins(m)
                                   /\ (b + BlockSize <= d \/ d + BlockSize <= b)
      BY <1>2, <3>1, <3>2, BeginsFacts
    <3> QED
      BY <3>3, Sizes DEF Places
  <2>2. \A x \in Places(m) : Undone(h, g, x)' <=> Undone(h, f, x)
    BY <1>2, <1>6, <2>1
  <2> QED
    BY <1>6, <2>2 DEF Finished
<1>12. Cardinality(S) + l \in 0 .. BlockSize /\ Cardinality(S) # BlockSize
  BY <1>3, <1>5, <1>9, <1>10, Sizes
<1> QED
  BY <1>2, <1>3, <1>4, <1>9, <1>11, <1>12

LEMMA FinishCounted ==
  ASSUME NEW t \in Int, NEW h \in Int, NEW f \in Firsts, NEW K \in Numbers,
         NEW own \in SUBSET Int, Good(t, h, f, K, own), NEW c \in Consumers,
         pc[c] = "finish", NEW g \in Firsts,
         \A x \in Int : Undone(h, g, x)' <=>
                          Undone(h, f, x) /\ x \notin f[c] .. f[c] + Here(c) - 1,
         NEW done, done = elementsCompletelyDequeued[block[c]] + Here(c),
         elementsCompletelyDequeued' = [elementsCompletelyDequeued EXCEPT ![block[c]] = done],
         \A d \in Consumers : d # c => g[d] = f[d] /\ pc'[d] = pc[d],
         pc'[c] = "unset" <=> done = BlockSize, done = BlockSize => g[c] = f[c]
  PROVE  Counted(t, h, g, own)'
<1>1. /\ Control(t) /\ Owning(t, own) /\ Claimed(t, h, f) /\ Counted(t, h, f, own)
  BY DEF Good
<1>2. PICK n \in own : /\ n = Num(f[c]) /\ n \in Int /\ block[c] = Blk(n) /\ Blk(n) \in Bases
  BY MineFacts
<1>3. /\ Cardinality(Finished(h, g, n)') = done /\ done \in 0 .. BlockSize
      /\ elementsCompletelyDequeued[Blk(n)] # BlockSize
      /\ \A m \in own : m # n => Finished(h, g, m)' = Finished(h, f, m)
  BY <1>2, Finishing
<1>4. /\ elementsCompletelyDequeued' \in [Bases -> 0 .. BlockSize]
      /\ elementsCompletelyDequeued'[Blk(n)] = done
      /\ \A b \in Bases : b # Blk(n) =>
           elementsCompletelyDequeued'[b] = elementsCompletelyDequeued[b]
  BY <1>1, <1>2, <1>3 DEF Counted
<1>5. \A m \in own : m # n =>
        /\ Blk(m) # Blk(n) /\ Blk(m) \in Bases
        /\ elementsCompletelyDequeued'[Blk(m)] = elementsCompletelyDequeued[Blk(m)]
  BY <1>1, <1>4, OwnApart, BlkType
<1>6. \A m \in own : elementsCompletelyDequeued'[Blk(m)] = Cardinality(Finished(h, g, m)')
  BY <1>1, <1>3, <1>4, <1>5 DEF Counted
<1>7. \A x \in Int : x < t /\ Undone(h, g, x)' => Num(x) \in own
  BY <1>1 DEF Counted
<1>8. ASSUME NEW d \in Consumers, pc[d] = "unset"
      PROVE  d # c /\ Num(f[d]) \in own /\ Num(f[d]) # n /\ g[d] = f[d]
             /\ elementsCompletelyDequeued[Blk(Num(f[d]))] = BlockSize
  <2>1. /\ Num(f[d]) \in own /\ elementsCompletelyDequeued[Blk(Num(f[d]))] = BlockSize
    BY <1>1, <1>8 DEF Counted
  <2> QED
    BY <1>3, <1>8, <2>1
<1>9. \A d \in Consumers : pc'[d] = "unset" <=>
        pc[d] = "unset" \/ (d = c /\ done = BlockSize)
  OBVIOUS
<1>10. \A d \in Consumers : pc'[d] = "unset" =>
         Num(g[d]) \in own /\ elementsCompletelyDequeued'[Blk(Num(g[d]))] = BlockSize
  BY <1>2, <1>4, <1>5, <1>8, <1>9
<1>11. \A d, e \in Consumers :
         pc'[d] = "unset" /\ pc'[e] = "unset" /\ Num(g[d]) = Num(g[e]) => d = e
  <2>1. \A d, e \in Consumers :
          pc[d] = "unset" /\ pc[e] = "unset" /\ Num(f[d]) = Num(f[e]) => d = e
    BY <1>1 DEF Counted
  <2> QED
    BY <1>2, <1>8, <1>9, <2>1
<1>12. ASSUME NEW m \in own, elementsCompletelyDequeued'[Blk(m)] = BlockSize
       PROVE  \E d \in Consumers : pc'[d] = "unset" /\ Num(g[d]) = m
  <2>1. CASE m = n
    BY <1>2, <1>4, <1>12, <2>1
  <2>2. CASE m # n
    <3>1. elementsCompletelyDequeued[Blk(m)] = BlockSize
      BY <1>5, <1>12, <2>2
    <3>2. PICK d \in Consumers : pc[d] = "unset" /\ Num(f[d]) = m
      BY <1>1, <3>1 DEF Counted
    <3> QED
      BY <1>8, <1>9, <3>2
  <2> QED
    BY <2>1, <2>2
<1> QED
  BY <1>4, <1>6, <1>7, <1>10, <1>11, <1>12 DEF Counted

LEMMA FinishStep ==
  ASSUME NEW t \in Int, NEW h \in Int, NEW f \in Firsts, NEW K \in Numbers,
         NEW own \in SUBSET Int, Good(t, h, f, K, own), NEW c \in Consumers, Finish(c)
  PROVE  \E g \in Firsts : Good(t, h, g, K, own)'
<1>1. /\ Control(t) /\ Shape /\ Keys(t, h, K) /\ Owning(t, own) /\ Tails(t, own)
      /\ Values(t, K, own) /\ Claimed(t, h, f) /\ Counted(t, h, f, own) /\ Seen(f, K)
      /\ Ended
  BY DEF Good
<1>2. PICK done : /\ done = elementsCompletelyDequeued[block[c]] + Here(c)
                  /\ pc[c] = "finish"
                  /\ elementsCompletelyDequeued' =
                       [elementsCompletelyDequeued EXCEPT ![block[c]] = done]
                  /\ UNCHANGED <<headIndex, producerSide, value, owned, tail>>
                  /\ \/ done = BlockSize /\ Goto(c, "finish", "unset")
                        /\ UNCHANGED <<first, left, header, idx, block>>
                     \/ done # BlockSize /\ Advance(c, "finish")
  BY DEF Finish
<1>3. PICK a \in Int, l \in Nat \ {0} :
        a = f[c] /\ l = Here(c) /\ l <= left[c] /\ left[c] \in Nat /\ a + left[c] <= h
  <2>1. Claimed(t, h, f) /\ pc[c] # "idle"
    BY <1>1, <1>2
  <2>2. Here(c) \in 1 .. left[c] /\ f[c] \in Int /\ left[c] \in Nat
    BY <2>1, HereFacts
  <2>3. f[c] + left[c] <= h
    BY <2>1 DEF Claimed
  <2> QED
    BY <2>2, <2>3
<1>4. UNCHANGED <<controlVars, key, headers, tailBlock, startBlock, destroyed>>
      /\ Control(t)' /\ Shape' /\ Tails(t, own)'
  BY <1>1, <1>2, SideKeeps
<1>5. Owning(t, own)' /\ Values(t, K, own)'
  BY <1>1, <1>2, SharedKeeps
<1>6. Keys(t, h, K)'
  BY <1>1, <1>2, <1>4, KeysKept DEF Active
<1>7. step # "gone" /\ Ended'
  BY <1>1, <1>2, <1>4 DEF Ended, controlVars
<1>8. Skipped(c) = 0 /\ \A x \in Int : InHand(f, c, x) <=> a <= x /\ x < a + left[c]
  BY <1>2, <1>3 DEF Skipped, InHand
<1>9. \A d \in Consumers, x \in Int : d # c /\ InHand(f, d, x) => ~InHand(f, c, x)
  <2> SUFFICES ASSUME NEW d \in Consumers, NEW x \in Int, d # c, InHand(f, d, x)
               PROVE  ~InHand(f, c, x)
    OBVIOUS
  <2>1. f[d] \in Int /\ left[d] \in Nat
    BY <1>1, Kinds DEF Claimed, Firsts
  <2>2. pc[d] # "idle"
    BY <1>1, <2>1 DEF InHand, Claimed, Skipped
  <2>3. Skipped(d) \in Nat
    BY <1>1, <2>1, <2>2, HereFacts DEF Skipped
  <2>4. f[d] <= x /\ x < f[d] + left[d]
    BY <2>1, <2>3 DEF InHand
  <2>5. f[c] + left[c] <= f[d] \/ f[d] + left[d] <= f[c]
    BY <1>1, <1>2, <2>2 DEF Claimed
  <2> QED
    BY <1>3, <1>8, <2>1, <2>4, <2>5
<1>10. ASSUME NEW g \in Firsts,
              \A d \in Consumers : d # c =>
                g[d] = f[d] /\ UNCHANGED <<pc[d], first[d], left[d]>>,
              \A x \in Int : InHand(g, c, x)' <=> a + l <= x /\ x < a + left[c]
       PROVE  \A x \in Int : Undone(h, g, x)' <=>
                          Undone(h, f, x) /\ x \notin f[c] .. f[c] + Here(c) - 1
  <2> SUFFICES ASSUME NEW x \in Int
               PROVE  Undone(h, g, x)' <=>
                        Undone(h, f, x) /\ x \notin f[c] .. f[c] + Here(c) - 1
    OBVIOUS
  <2>1. ASSUME NEW d \in Consumers, d # c PROVE InHand(g, d, x)' <=> InHand(f, d, x)
    BY <1>10, <2>1 DEF InHand, Skipped, Here, Room
  <2>2. InHand(g, c, x)' <=> InHand(f, c, x) /\ x \notin a .. a + l - 1
    BY <1>3, <1>8, <1>10
  <2>3. x \in a .. a + l - 1 => InHand(f, c, x) /\ ~(h <= x)
    BY <1>3, <1>8
  <2>4. \A d \in Consumers : d # c /\ InHand(f, d, x) => x \notin a .. a + l - 1
    BY <1>9, <2>3
  <2>5. f[c] .. f[c] + Here(c) - 1 = a .. a + l - 1
    BY <1>3
  <2> QED
    BY <2>1, <2>2, <2>3, <2>4, <2>5 DEF Undone
<1>11. \A g \in Firsts : \A d \in Consumers :
         d # c /\ g[d] = f[d]
               /\ UNCHANGED <<pc[d], left[d], header[d], tail[d], idx[d], block[d]>>
           => SeenBy(g, K, d)'
  <2> SUFFICES ASSUME NEW g \in Firsts, NEW d \in Consumers, d # c, g[d] = f[d],
                      UNCHANGED <<pc[d], left[d], header[d], tail[d], idx[d], block[d]>>
               PROVE  SeenBy(g, K, d)'
    OBVIOUS
  <2>1. left[d] \in Nat /\ (pc[d] # "idle" => left[d] >= 1) /\ header[d] \in 0 .. Len(headers)
        /\ SeenBy(f, K, d)
    BY <1>1, Kinds DEF Claimed, Seen
  <2> QED
    BY <1>1, <1>2, <1>4, <2>1, SeenKept DEF Holds, Valid
<1>12. CASE done = BlockSize
  <2>1. /\ pc' = [pc EXCEPT ![c] = "unset"]
        /\ UNCHANGED <<first, left, header, idx, block, tail>>
    BY <1>2, <1>12 DEF Goto, Advance
  <2>2. pc'[c] = "unset" /\ \A d \in Consumers : d # c => pc'[d] = pc[d]
    BY <1>1, <2>1 DEF Claimed
  <2>3. \A x \in Int : InHand(f, c, x)' <=> a + l <= x /\ x < a + left[c]
    <3>1. Here(c)' = Here(c)
      BY <2>1 DEF Here, Room
    <3> QED
      BY <1>3, <2>1, <2>2, <3>1 DEF InHand, Skipped
  <2>4. \A x \in Int : Undone(h, f, x)' <=>
                          Undone(h, f, x) /\ x \notin f[c] .. f[c] + Here(c) - 1
    BY <1>10, <2>1, <2>2, <2>3
  <2>5. Counted(t, h, f, own)'
    BY <1>2, <1>12, <2>2, <2>4, FinishCounted
  <2>6. Claimed(t, h, f)'
    BY <1>1, <1>2, <2>1, <2>2 DEF Claimed
  <2>7. SeenBy(f, K, c)'
    <3>1. SeenBy(f, K, c)
      BY <1>1 DEF Seen
    <3> QED
      BY <1>2, <1>4, <2>1, <2>2, <3>1 DEF SeenBy, Looking, Holds
  <2>8. Seen(f, K)'
    BY <1>1, <1>4, <1>11, <2>1, <2>2, <2>7 DEF Seen
  <2> QED
    BY <1>4, <1>5, <1>6, <1>7, <2>5, <2>6, <2>8 DEF Good
<1>13. CASE done # BlockSize
  <2>1. Advance(c, "finish") /\ UNCHANGED <<headIndex, producerSide, tail>>
    BY <1>2, <1>13
  <2>2. PICK g \in Firsts : g = Past(f, c)
    <3>1. f[c] + Here(c) \in Int
      BY <1>3
    <3> QED
      BY <3>1 DEF Firsts, Past
  <2>3. /\ Claimed(t, h, g)'
        /\ \A d \in Consumers : d # c =>
             /\ g[d] = f[d]
             /\ UNCHANGED <<pc[d], first[d], left[d], header[d], tail[d], idx[d], block[d]>>
        /\ pc'[c] \in {"value", "idle"}
        /\ g[c] = f[c] + Here(c) /\ g[c] + left'[c] = f[c] + left[c]
        /\ header' \in [Consumers -> 0 .. Len(headers)]
        /\ idx' \in [Consumers -> 0 .. MaxCapacity - 1]
        /\ block' \in [Consumers -> Bases \cup {Null, Garbage}]
        /\ Kept(K, g[c], f[c] + left[c]) => SeenBy(g, K, c)'
    <3>1. Claimed(t, h, g)'
      BY <2>1, <2>2, Advanced
    <3>2. \A d \in Consumers : d # c =>
            /\ g[d] = f[d]
            /\ UNCHANGED <<pc[d], first[d], left[d], header[d], tail[d], idx[d], block[d]>>
      BY <2>1, <2>2, Advanced, SMTT(30)
    <3>3. pc'[c] \in {"value", "idle"}
      BY <2>1, <2>2, Advanced
    <3>4. g[c] = f[c] + Here(c) /\ g[c] + left'[c] = f[c] + left[c]
      BY <2>1, <2>2, Advanced
    <3>5. header' \in [Consumers -> 0 .. Len(headers)]
      BY <2>1, <2>2, Advanced
    <3>6. idx' \in [Consumers -> 0 .. MaxCapacity - 1]
      BY <2>1, <2>2, Advanced
    <3>7. block' \in [Consumers -> Bases \cup {Null, Garbage}]
      BY <2>1, <2>2, Advanced
    <3>8. Kept(K, g[c], f[c] + left[c]) => SeenBy(g, K, c)'
      BY <2>1, <2>2, Advanced
    <3> QED
      BY ONLY <3>1, <3>2, <3>3, <3>4, <3>5, <3>6, <3>7, <3>8
  <2>4. \A x \in Int : InHand(g, c, x)' <=> a + l <= x /\ x < a + left[c]
    <3>1. Skipped(c)' = 0
      BY <2>3 DEF Skipped
    <3>2. g[c] = a + l /\ g[c] + left'[c] = a + left[c]
      BY <1>3, <2>3
    <3> QED
      BY <1>3, <3>1, <3>2 DEF InHand
  <2>5. \A x \in Int : Undone(h, g, x)' <=>
                          Undone(h, f, x) /\ x \notin f[c] .. f[c] + Here(c) - 1
    BY <1>10, <2>3, <2>4
  <2>6. Counted(t, h, g, own)'
    <3>1. \A d \in Consumers : d # c => g[d] = f[d] /\ pc'[d] = pc[d]
      BY <2>3
    <3>2. pc'[c] = "unset" <=> done = BlockSize
      BY <1>13, <2>3
    <3> QED
      BY <1>2, <1>13, <2>5, <3>1, <3>2, FinishCounted
  <2>7. SeenBy(g, K, c)'
    BY <1>2, <1>4, <2>3 DEF Kept, Holds
  <2>8. Seen(g, K)'
    BY <1>1, <1>2, <1>4, <1>11, <2>3, <2>7 DEF Seen
  <2> QED
    BY <1>4, <1>5, <1>6, <1>7, <2>3, <2>6, <2>8 DEF Good
<1> QED
  BY <1>12, <1>13

--------------------------------------------------------------------------------
(* A block whose elements are finished is out of everybody's hands.        *)
LEMMA EmptyBlock ==
  ASSUME NEW t \in Int, NEW h \in Int, NEW f \in Firsts, NEW K \in Numbers,
         NEW own \in SUBSET Int, Good(t, h, f, K, own), NEW c \in Consumers,
         pc[c] = "unset"
  PROVE  /\ \A x \in Int : Undone(h, f, x) => Num(x) # Num(f[c])
         /\ \A d \in Consumers : d # c =>
              \A x \in f[d] .. f[d] + left[d] - 1 : Num(x) # Num(f[c])
         /\ \A d \in Consumers : d # c /\ pc[d] = "unset" => Num(f[d]) # Num(f[c])
<1>1. /\ Claimed(t, h, f) /\ Counted(t, h, f, own)
  BY DEF Good
<1>2. PICK n \in own : n = Num(f[c]) /\ n \in Int
  <2>1. Num(f[c]) \in own /\ Num(f[c]) \in Int
    BY MineFacts
  <2> QED
    BY <2>1
<1>3. Finished(h, f, n) = Places(n)
  BY <1>1, <1>2, FinishedFacts DEF Counted
<1>4. ASSUME NEW x \in Int, Undone(h, f, x) PROVE Num(x) # n
  <2>1. x \in Places(Num(x))
    <3>1. PICK b \in Int : b = BlockSize * Num(x) /\ b <= x /\ x < b + BlockSize
      BY NumIs
    <3> QED
      BY <3>1, Sizes DEF Places, Begins
  <2> QED
    BY <1>3, <1>4, <2>1 DEF Finished
<1>5. \A d \in Consumers : d # c /\ pc[d] = "unset" => Num(f[d]) # n
  BY <1>1, <1>2 DEF Counted
<1>6. ASSUME NEW d \in Consumers, d # c, NEW x \in f[d] .. f[d] + left[d] - 1
      PROVE  Num(x) # n
  <2>1. f[d] \in Int /\ left[d] \in Nat /\ x \in Int /\ f[d] <= x /\ x < f[d] + left[d]
    BY <1>1, Kinds DEF Claimed, Firsts
  <2>2. pc[d] # "idle"
    BY <1>1, <2>1 DEF Claimed
  <2>3. CASE f[d] + Skipped(d) <= x
    <3>1. InHand(f, d, x)
      BY <2>1, <2>3 DEF InHand
    <3> QED
      BY <1>4, <2>1, <3>1 DEF Undone
  <2>4. CASE ~(f[d] + Skipped(d) <= x)
    <3>1. pc[d] = "unset" /\ ~(f[d] + Here(d) <= x)
      BY <2>1, <2>4 DEF Skipped
    <3>2. PICK b \in Int, l \in Int :
            /\ b = BlockSize * Num(f[d]) /\ l = Here(d) /\ b <= f[d]
            /\ f[d] + l <= b + BlockSize /\ Num(f[d]) \in Int
      BY <1>1, <2>2, HereFacts DEF Begins
    <3>3. b <= x /\ x < b + BlockSize
      BY <2>1, <3>1, <3>2, Sizes
    <3>4. Num(x) = Num(f[d])
      BY <2>1, <3>2, <3>3, NumUnique
    <3> QED
      BY <1>5, <1>6, <3>1, <3>4
  <2> QED
    BY <2>3, <2>4
<1> QED
  BY <1>2, <1>4, <1>5, <1>6

LEMMA UnsetOwning ==
  ASSUME NEW t \in Int, NEW h \in Int, NEW f \in Firsts, NEW K \in Numbers,
         NEW own \in SUBSET Int, Good(t, h, f, K, own), NEW c \in Consumers,
         pc[c] = "unset", UNCHANGED producerSide, owned' = owned \ {block[c]}
  PROVE  Owning(t, own \ {Num(f[c])})' /\ Tails(t, own \ {Num(f[c])})'
<1>1. /\ Control(t) /\ Owning(t, own) /\ Tails(t, own) /\ Claimed(t, h, f)
  BY DEF Good
<1>2. PICK n \in own : /\ n = Num(f[c]) /\ n \in Int /\ block[c] = Blk(n)
                       /\ n <= Before(t)
  <2>1. Num(f[c]) \in own /\ Num(f[c]) \in Int /\ Num(f[c]) <= Before(t)
    BY MineFacts
  <2>2. block[c] = Blk(Num(f[c]))
    BY MineFacts
  <2> QED
    BY <2>1, <2>2
<1>3. PICK rest : rest = own \ {n}
  OBVIOUS
<1>4. \A m \in own : Blk(m) = Blk(n) => m = n
  BY <1>1, OwnApart
<1>5. owned' = {Blk(m) : m \in rest}
  <2>1. owned' = {Blk(m) : m \in own} \ {Blk(n)}
    BY <1>1, <1>2 DEF Owning
  <2> QED
    BY <1>3, <1>4, <2>1
<1>6. ~AtBase(t) => Before(t) # n
  <2>1. ASSUME ~AtBase(t), Before(t) = n PROVE FALSE
    <3>1. Num(t) = n
      BY <2>1, AtBaseIs
    <3>2. Undone(h, f, t)
      BY <1>1 DEF Undone, Claimed
    <3> QED
      BY <1>2, <3>1, <3>2, EmptyBlock
  <2> QED
    BY <2>1
<1>7. UNCHANGED <<controlVars, tailBlock, startBlock>>
      /\ Ensuing(t)' = Ensuing(t) /\ InCall' = InCall /\ Extra(t)' = Extra(t)
      /\ Reverting' = Reverting /\ SingleNew(t)' = SingleNew(t)
      /\ Ensuing(t) \in Int /\ Before(t) \in Int /\ Ensuing(t) > Before(t)
  BY <1>1, SideKeeps, ControlSame, CallFacts
<1>8. Owning(t, rest)'
  <2>1. \A m \in rest : m \in own
    BY <1>3
  <2>2. \A m \in Before(t) + 1 .. Ensuing(t) - 1 : m \in rest
    <3>1. ASSUME NEW m \in Before(t) + 1 .. Ensuing(t) - 1 PROVE m \in rest
      <4>1. m \in own /\ m # n
        BY <1>1, <1>2, <1>7 DEF Owning
      <4> QED
        BY <1>3, <4>1
    <3> QED
      BY <3>1
  <2>3. Extra(t) => Ensuing(t) \in rest
    <3>1. Ensuing(t) # n
      BY <1>2, <1>7
    <3> QED
      BY <1>1, <1>3, <3>1 DEF Owning
  <2>4. ~AtBase(t) => Before(t) \in rest
    BY <1>1, <1>3, <1>6 DEF Owning
  <2>5. \A m \in rest : m <= Before(t) =>
          t + (IF InCall THEN count ELSE 0) - Begins(m) < IndexSize \div 2
    BY <1>1, <2>1 DEF Owning
  <2>6. \A m \in rest : m < Ensuing(t)
          \/ (m = Ensuing(t) /\ (Extra(t) \/ step \in {"rewind", "unset"}))
    BY <1>1, <2>1 DEF Owning
  <2> QED
    BY <1>5, <1>7, <2>2, <2>3, <2>4, <2>5, <2>6 DEF Owning, controlVars
<1>9. Tails(t, rest)'
  <2>1. \A b : Old(t, own, b) => Old(t, rest, b)
    BY <1>3 DEF Old
  <2> QED
    BY <1>1, <1>7, <2>1 DEF Tails, Old, controlVars
<1> QED
  BY <1>2, <1>3, <1>8, <1>9

LEMMA UnsetValues ==
  ASSUME NEW t \in Int, NEW h \in Int, NEW f \in Firsts, NEW K \in Numbers,
         NEW own \in SUBSET Int, Good(t, h, f, K, own), NEW c \in Consumers,
         pc[c] = "unset", UNCHANGED producerSide,
         value' = [value EXCEPT ![Entry(c)] = Null]
  PROVE  Values(t, K, own \ {Num(f[c])})'
<1>1. /\ Control(t) /\ Shape /\ Keys(t, h, K) /\ Values(t, K, own)
  BY DEF Good
<1>2. PICK n \in own : /\ n = Num(f[c]) /\ n \in Int
                       /\ Entry(c) \in Entries /\ Valid(Entry(c)) /\ K[Entry(c)] = n
  <2>1. Num(f[c]) \in own /\ Num(f[c]) \in Int
    BY MineFacts
  <2>2. Entry(c) \in Entries /\ Valid(Entry(c)) /\ Holds(K, Entry(c), Num(f[c]))
    BY MineFacts
  <2> QED
    BY <2>1, <2>2 DEF Holds
<1>3. PICK rest : rest = own \ {n}
  OBVIOUS
<1>4. /\ value' \in [Entries -> Bases \cup {Null, Garbage}]
      /\ value'[Entry(c)] = Null
      /\ \A e \in Entries : e # Entry(c) => value'[e] = value[e]
  BY <1>1, <1>2 DEF Values
<1>5. /\ UNCHANGED <<controlVars, key, headers>>
      /\ blockIndex' = blockIndex /\ NewTail' = NewTail /\ idxEntry' = idxEntry
      /\ tailEntry' = tailEntry
      /\ \A e \in Entries : Valid(e)' <=> Valid(e)
      /\ \A e \in Entries : InFlight(t, e)' <=> InFlight(t, e)
  BY SideKeeps
<1>6. /\ TailNum(t)' = TailNum(t) /\ Ensuing(t)' = Ensuing(t)
      /\ \A m \in Int : Unstored(t, m)' <=> Unstored(t, m)
  BY <1>5, ControlSame
<1>7. ASSUME NEW e \in Entries, value'[e] \in Bases
      PROVE  Valid(e)' /\ value'[e] = Blk(K[e]) /\ K[e] \in rest /\ ~Unstored(t, K[e])'
  <2>1. e # Entry(c) /\ value[e] \in Bases
    BY <1>4, <1>7, Kinds
  <2>2. Valid(e) /\ value[e] = Blk(K[e]) /\ K[e] \in own /\ ~Unstored(t, K[e])
    BY <1>1, <2>1 DEF Values
  <2>3. K[e] # n
    BY <1>1, <1>2, <2>1, <2>2, UniqueKey
  <2> QED
    BY <1>3, <1>4, <1>5, <1>6, <2>1, <2>2, <2>3
<1>8. ASSUME NEW m \in rest PROVE Unstored(t, m)' \/ Stored(K, m)'
  <2>1. m \in own /\ m # n
    BY <1>3
  <2>2. CASE Unstored(t, m)
    BY <1>6, <2>1, <2>2
  <2>3. CASE Stored(K, m)
    <3>1. PICK p \in DOMAIN blockIndex.index :
            headers # <<>> /\ value[blockIndex.index[p]] = Blk(m) /\ K[blockIndex.index[p]] = m
      BY <2>3 DEF Stored
    <3>2. blockIndex.index[p] \in Entries
      BY <1>1, <3>1, LatestFacts, FormedFacts
    <3>3. value'[blockIndex.index[p]] = Blk(m)
      BY <1>2, <1>4, <2>1, <3>1, <3>2
    <3> QED
      BY <1>5, <3>1, <3>3 DEF Stored
  <2> QED
    BY <1>1, <2>1, <2>2, <2>3 DEF Values
<1>9. \A e \in Entries : Valid(e)' /\ value'[e] = Garbage => InFlight(t, e)'
  BY <1>1, <1>4, <1>5, Kinds DEF Values
<1>10. (step = "grow")' => Valid(idxEntry)' /\ (K[idxEntry] <= TailNum(t))'
  BY <1>1, <1>5, <1>6 DEF Values, Valid, controlVars
<1>11. (step = "key")' => Usable(idxEntry)'
  <2>1. ASSUME step = "key" PROVE Usable(idxEntry)'
    <3>1. CASE idxEntry = Entry(c)
      BY <1>4, <1>5, <3>1 DEF Usable
    <3>2. CASE idxEntry # Entry(c)
      <4>1. key[idxEntry] = INVALID_BLOCK_BASE \/ value[idxEntry] = Null
        BY <1>1, <2>1 DEF Values, Usable
      <4>2. headers # <<>>
        BY <1>1, <2>1 DEF Keys
      <4>3. idxEntry \in Entries
        BY <1>1, <4>2, TailFacts
      <4>4. value'[idxEntry] = value[idxEntry]
        BY <1>4, <3>2, <4>3
      <4> QED
        BY <1>5, <4>1, <4>4 DEF Usable
    <3> QED
      BY <3>1, <3>2
  <2> QED
    BY <1>5, <2>1 DEF controlVars
<1>12. (step \in {"tail", "unset"})' => Valid(idxEntry)' /\ (K[idxEntry] = Ensuing(t))'
  BY <1>1, <1>5, <1>6 DEF Values, Valid, controlVars
<1>13. Values(t, K, rest)'
  BY <1>4, <1>7, <1>8, <1>9, <1>10, <1>11, <1>12 DEF Values
<1> QED
  BY <1>2, <1>3, <1>13

LEMMA UnsetCounted ==
  ASSUME NEW t \in Int, NEW h \in Int, NEW f \in Firsts, NEW K \in Numbers,
         NEW own \in SUBSET Int, Good(t, h, f, K, own), NEW c \in Consumers,
         pc[c] = "unset", NEW g \in Firsts, UNCHANGED elementsCompletelyDequeued,
         \A x \in Int : Undone(h, g, x)' <=> Undone(h, f, x),
         \A d \in Consumers : d # c => g[d] = f[d] /\ pc'[d] = pc[d],
         pc'[c] # "unset"
  PROVE  Counted(t, h, g, own \ {Num(f[c])})'
<1>1. Counted(t, h, f, own)
  BY DEF Good
<1>2. PICK n, rest : n = Num(f[c]) /\ rest = own \ {n}
  OBVIOUS
<1>3. \A m \in Int : Finished(h, g, m)' = Finished(h, f, m)
  <2>1. \A m \in Int : Places(m)' = Places(m) /\ \A x \in Places(m) : x \in Int
    BY BeginsFacts, Sizes DEF Places, Begins
  <2> QED
    BY <2>1 DEF Finished
<1>4. \A x \in Int : Undone(h, f, x) => Num(x) # n
  BY <1>2, EmptyBlock
<1>5. \A d \in Consumers : d # c /\ pc[d] = "unset" => Num(f[d]) # n
  BY <1>2, EmptyBlock
<1>6. \A d \in Consumers : pc'[d] = "unset" => d # c /\ pc[d] = "unset" /\ g[d] = f[d]
  OBVIOUS
<1>7. \A m \in rest : m \in own /\ m # n /\ m \in Int
  BY <1>2
<1>8. elementsCompletelyDequeued' \in [Bases -> 0 .. BlockSize]
  BY <1>1 DEF Counted
<1>9. \A m \in rest : elementsCompletelyDequeued'[Blk(m)] = Cardinality(Finished(h, g, m)')
  BY <1>1, <1>3, <1>7 DEF Counted
<1>10. \A x \in Int : x < t /\ Undone(h, g, x)' => Num(x) \in rest
  BY <1>1, <1>2, <1>4 DEF Counted
<1>11. \A d \in Consumers : pc'[d] = "unset" =>
         Num(g[d]) \in rest /\ elementsCompletelyDequeued'[Blk(Num(g[d]))] = BlockSize
  BY <1>1, <1>2, <1>5, <1>6 DEF Counted
<1>12. \A d, e \in Consumers :
         pc'[d] = "unset" /\ pc'[e] = "unset" /\ Num(g[d]) = Num(g[e]) => d = e
  BY <1>1, <1>6 DEF Counted
<1>13. ASSUME NEW m \in rest, elementsCompletelyDequeued'[Blk(m)] = BlockSize
       PROVE  \E d \in Consumers : pc'[d] = "unset" /\ Num(g[d]) = m
  <2>1. PICK d \in Consumers : pc[d] = "unset" /\ Num(f[d]) = m
    BY <1>1, <1>7, <1>13 DEF Counted
  <2> QED
    BY <1>2, <1>7, <2>1
<1>14. Counted(t, h, g, rest)'
  BY <1>8, <1>9, <1>10, <1>11, <1>12, <1>13 DEF Counted
<1> QED
  BY <1>2, <1>14

LEMMA UnsetStep ==
  ASSUME NEW t \in Int, NEW h \in Int, NEW f \in Firsts, NEW K \in Numbers,
         NEW own \in SUBSET Int, Good(t, h, f, K, own), NEW c \in Consumers, Unset(c)
  PROVE  \E g \in Firsts, rest \in SUBSET Int : Good(t, h, g, K, rest)'
<1>1. /\ Control(t) /\ Shape /\ Keys(t, h, K) /\ Owning(t, own) /\ Tails(t, own)
      /\ Values(t, K, own) /\ Claimed(t, h, f) /\ Counted(t, h, f, own) /\ Seen(f, K)
      /\ Ended
  BY DEF Good
<1>2. /\ pc[c] = "unset" /\ value' = [value EXCEPT ![Entry(c)] = Null]
      /\ owned' = owned \ {block[c]}
      /\ UNCHANGED <<headIndex, producerSide, elementsCompletelyDequeued, tail>>
  BY DEF Unset
<1>3. PICK a \in Int, l \in Nat \ {0} :
        a = f[c] /\ l = Here(c) /\ l <= left[c] /\ left[c] \in Nat
  BY <1>1, <1>2, HereFacts
<1>4. UNCHANGED <<controlVars, key, headers, tailBlock, startBlock, destroyed>>
      /\ Control(t)' /\ Shape'
  BY <1>1, <1>2, SideKeeps
<1>5. PICK n \in own : /\ n = Num(f[c]) /\ n \in Int
                       /\ Entry(c) \in Entries /\ Valid(Entry(c)) /\ K[Entry(c)] = n
  <2>1. Num(f[c]) \in own /\ Num(f[c]) \in Int
    BY <1>2, MineFacts
  <2>2. Entry(c) \in Entries /\ Valid(Entry(c)) /\ Holds(K, Entry(c), Num(f[c]))
    BY <1>2, MineFacts
  <2> QED
    BY <2>1, <2>2 DEF Holds
<1>6. PICK rest \in SUBSET Int : rest = own \ {Num(f[c])}
  OBVIOUS
<1>7. Owning(t, rest)' /\ Tails(t, rest)' /\ Values(t, K, rest)'
  BY <1>2, <1>6, UnsetOwning, UnsetValues
<1>8. Keys(t, h, K)'
  <2>1. \A e \in Entries : ~Valid(e) => value'[e] = value[e]
    BY <1>1, <1>2, <1>5 DEF Values
  <2> QED
    BY <1>1, <1>2, <1>4, <2>1, KeysKept DEF Active
<1>9. step # "gone" /\ Ended'
  BY <1>1, <1>2, <1>4 DEF Ended, controlVars
<1>10. \A e \in Entries : \A m \in Int : m # n /\ Holds(K, e, m) => Holds(K, e, m)'
  BY <1>1, <1>2, <1>5 DEF Holds, Values
<1>11. \E g \in Firsts : Good(t, h, g, K, rest)'
  <2>1. Advance(c, "unset") /\ UNCHANGED <<headIndex, producerSide, tail>>
    BY <1>2 DEF Unset
  <2>2. PICK g \in Firsts : g = Past(f, c)
    <3>1. f[c] + Here(c) \in Int
      BY <1>3
    <3> QED
      BY <3>1 DEF Firsts, Past
  <2>3. /\ Claimed(t, h, g)'
        /\ \A d \in Consumers : d # c =>
             /\ g[d] = f[d]
             /\ UNCHANGED <<pc[d], first[d], left[d], header[d], tail[d], idx[d], block[d]>>
        /\ pc'[c] \in {"value", "idle"}
        /\ g[c] = f[c] + Here(c) /\ g[c] + left'[c] = f[c] + left[c]
        /\ header' \in [Consumers -> 0 .. Len(headers)]
        /\ idx' \in [Consumers -> 0 .. MaxCapacity - 1]
        /\ block' \in [Consumers -> Bases \cup {Null, Garbage}]
        /\ Kept(K, g[c], f[c] + left[c]) => SeenBy(g, K, c)'
    <3>1. Claimed(t, h, g)'
      BY <2>1, <2>2, Advanced
    <3>2. \A d \in Consumers : d # c =>
            /\ g[d] = f[d]
            /\ UNCHANGED <<pc[d], first[d], left[d], header[d], tail[d], idx[d], block[d]>>
      BY <2>1, <2>2, Advanced, SMTT(30)
    <3>3. pc'[c] \in {"value", "idle"}
      BY <2>1, <2>2, Advanced
    <3>4. g[c] = f[c] + Here(c) /\ g[c] + left'[c] = f[c] + left[c]
      BY <2>1, <2>2, Advanced
    <3>5. header' \in [Consumers -> 0 .. Len(headers)]
      BY <2>1, <2>2, Advanced
    <3>6. idx' \in [Consumers -> 0 .. MaxCapacity - 1]
      BY <2>1, <2>2, Advanced
    <3>7. block' \in [Consumers -> Bases \cup {Null, Garbage}]
      BY <2>1, <2>2, Advanced
    <3>8. Kept(K, g[c], f[c] + left[c]) => SeenBy(g, K, c)'
      BY <2>1, <2>2, Advanced
    <3> QED
      BY ONLY <3>1, <3>2, <3>3, <3>4, <3>5, <3>6, <3>7, <3>8
  <2>4. \A x \in Int : InHand(g, c, x)' <=> InHand(f, c, x)
    <3>1. Skipped(c)' = 0 /\ Skipped(c) = l
      BY <1>2, <1>3, <2>3 DEF Skipped
    <3>2. g[c] = a + l /\ g[c] + left'[c] = a + left[c]
      BY <1>3, <2>3
    <3> QED
      BY <1>3, <3>1, <3>2 DEF InHand
  <2>5. \A x \in Int : Undone(h, g, x)' <=> Undone(h, f, x)
    <3> SUFFICES ASSUME NEW x \in Int PROVE Undone(h, g, x)' <=> Undone(h, f, x)
      OBVIOUS
    <3>1. ASSUME NEW d \in Consumers, d # c PROVE InHand(g, d, x)' <=> InHand(f, d, x)
      BY <2>3, <3>1 DEF InHand, Skipped, Here, Room
    <3> QED
      BY <2>4, <3>1 DEF Undone
  <2>6. Counted(t, h, g, rest)'
    <3>1. \A d \in Consumers : d # c => g[d] = f[d] /\ pc'[d] = pc[d]
      BY <2>3
    <3>2. pc'[c] # "unset"
      BY <2>3
    <3> QED
      BY <1>2, <1>6, <2>5, <3>1, <3>2, UnsetCounted
  <2>7. Kept(K, g[c], f[c] + left[c])
    <3>1. ASSUME NEW x \in Int, g[c] <= x, x < f[c] + left[c] PROVE Num(x) # n /\ Num(x) \in Int
      <4>1. InHand(f, c, x)
        BY <1>2, <1>3, <2>3, <3>1 DEF InHand, Skipped
      <4> QED
        BY <1>2, <1>5, <3>1, <4>1, EmptyBlock, NumIs DEF Undone
    <3>2. PICK y \in Int, z \in Int : y = g[c] /\ z = f[c] + left[c]
      BY <1>3, <2>3
    <3>3. \A x \in y .. z - 1 : Num(x) # n /\ Num(x) \in Int
      BY <3>1, <3>2
    <3>4. Kept(K, y, z)
      BY <1>10, <3>3 DEF Kept
    <3> QED
      BY <3>2, <3>4
  <2>8. ASSUME NEW d \in Consumers, d # c PROVE SeenBy(g, K, d)'
    <3>1. left[d] \in Nat /\ (pc[d] # "idle" => left[d] >= 1)
          /\ header[d] \in 0 .. Len(headers) /\ SeenBy(f, K, d) /\ f[d] \in Int
      BY <1>1, Kinds DEF Claimed, Seen, Firsts
    <3>2. \A x \in f[d] .. f[d] + left[d] - 1 : Num(x) # n /\ Num(x) \in Int
      BY <1>2, <1>5, <2>8, <3>1, EmptyBlock, NumIs
    <3>3. \A e \in Entries : \A x \in f[d] .. f[d] + left[d] - 1 :
            Holds(K, e, Num(x)) => Holds(K, e, Num(x))'
      BY <1>10, <3>2
    <3>4. g[d] = f[d] /\ UNCHANGED <<pc[d], left[d], header[d], tail[d], idx[d], block[d]>>
      BY <2>3, <2>8
    <3>5. \A e \in Entries : Valid(e) => Valid(e)'
      BY <1>4 DEF Valid
    <3> QED
      BY <1>1, <1>4, <3>1, <3>3, <3>4, <3>5, SeenKept
  <2>9. Seen(g, K)'
    <3>1. SeenBy(g, K, c)'
      BY <2>3, <2>7
    <3> QED
      BY <1>1, <1>2, <1>4, <2>3, <2>8, <3>1 DEF Seen
  <2> QED
    BY <1>4, <1>7, <1>8, <1>9, <2>3, <2>6, <2>9 DEF Good
<1> QED
  BY <1>11

--------------------------------------------------------------------------------
(* The producer's steps.  What they leave to the consumers.                *)
LEMMA ClaimedKept ==
  ASSUME NEW t \in Int, NEW u \in Int, t <= u, NEW h \in Int, NEW f \in Firsts,
         Claimed(t, h, f), UNCHANGED <<headIndex, consumerVars>>
  PROVE  Claimed(u, h, f)'
<1>1. UNCHANGED <<headIndex, pc, first, left>>
  BY DEF consumerVars
<1>2. h <= u
  BY DEF Claimed
<1> QED
  BY <1>1, <1>2 DEF Claimed

LEMMA CountedKept ==
  ASSUME NEW t \in Int, NEW h \in Int, NEW f \in Firsts, NEW own \in SUBSET Int,
         Counted(t, h, f, own), UNCHANGED <<elementsCompletelyDequeued, consumerVars>>
  PROVE  Counted(t, h, f, own)'
<1>1. UNCHANGED <<elementsCompletelyDequeued, pc, first, left>>
  BY DEF consumerVars
<1>2. /\ \A x \in Int : Undone(h, f, x)' <=> Undone(h, f, x)
      /\ \A n \in Int : Finished(h, f, n)' = Finished(h, f, n)
  BY <1>1, SameElements
<1> QED
  BY <1>1, <1>2 DEF Counted

LEMMA SeenStays ==
  ASSUME NEW t \in Int, NEW h \in Int, NEW f \in Firsts, NEW K \in Numbers, NEW L \in Numbers,
         Claimed(t, h, f), Seen(f, K), Shape, UNCHANGED consumerVars,
         Len(headers) \in 0 .. Len(headers'), Len(headers') \in Nat,
         \A i \in 1 .. Len(headers) : headers'[i].index = headers[i].index,
         \A e \in Entries : Valid(e) => Valid(e)',
         \A e \in Entries, n \in Int : n <= Before(t) /\ Holds(K, e, n) => Holds(L, e, n)'
  PROVE  Seen(f, L)'
<1>1. UNCHANGED <<pc, first, left, header, tail, idx, block>>
  BY DEF consumerVars
<1>2. ASSUME NEW c \in Consumers PROVE SeenBy(f, L, c)'
  <2>1. SeenBy(f, K, c) /\ header[c] \in 0 .. Len(headers) /\ left[c] \in Nat
        /\ f[c] \in Int /\ (pc[c] # "idle" => left[c] >= 1)
    BY Kinds DEF Seen, Claimed, Firsts
  <2>2. header[c] # 0 => headers'[header[c]].index = headers[header[c]].index
    BY <2>1
  <2>3. ASSUME NEW x \in f[c] .. f[c] + left[c] - 1 PROVE Num(x) \in Int /\ Num(x) <= Before(t)
    <3>1. pc[c] # "idle"
      BY <2>1, <2>3 DEF Claimed
    <3>2. x \in Int /\ x <= t - 1 /\ t - 1 \in Int
      BY <2>1, <2>3, <3>1 DEF Claimed
    <3> QED
      BY <3>2, NumIs, NumMonotone DEF Before
  <2>4. \A e \in Entries : \A x \in f[c] .. f[c] + left[c] - 1 :
           Holds(K, e, Num(x)) => Holds(L, e, Num(x))'
    BY <2>3
  <2>5. UNCHANGED <<pc[c], left[c], header[c], tail[c], idx[c], block[c]>>
    BY <1>1
  <2> QED
    BY <2>1, <2>2, <2>4, <2>5, SeenKept
<1>3. header' \in [Consumers -> 0 .. Len(headers')]
  <2>1. 0 .. Len(headers) \subseteq 0 .. Len(headers')
    OBVIOUS
  <2> QED
    BY <1>1, <2>1 DEF Seen
<1> QED
  BY <1>1, <1>2, <1>3 DEF Seen

(* A step that leaves the index, its blocks and the consumers alone.       *)
calmVars == <<tailIndex, headIndex, headers, key, value, owned, elementsCompletelyDequeued,
              fresh, undone, consumerVars, destroyed, sent>>

LEMMA CalmKeeps ==
  ASSUME NEW t \in Int, NEW h \in Int, NEW f \in Firsts, NEW K \in Numbers,
         NEW own \in SUBSET Int, Good(t, h, f, K, own), UNCHANGED calmVars,
         step # "gone", step' # "gone"
  PROVE  /\ Shape' /\ Claimed(t, h, f)' /\ Counted(t, h, f, own)' /\ Seen(f, K)' /\ Ended'
         /\ blockIndex' = blockIndex /\ NewTail' = NewTail /\ idxEntry' = idxEntry
         /\ tailEntry' = tailEntry /\ Active(t, h)' = Active(t, h)
         /\ Ensuing(t)' = Ensuing(t)
<1>1. /\ UNCHANGED <<headIndex, headers, key, value, elementsCompletelyDequeued, fresh,
                     consumerVars, destroyed, pc>>
      /\ Shape /\ Claimed(t, h, f) /\ Counted(t, h, f, own) /\ Seen(f, K) /\ Ended
  BY DEF calmVars, consumerVars, Good
<1>2. Shape' /\ blockIndex' = blockIndex
  BY <1>1 DEF Shape, blockIndex
<1>3. NewTail' = NewTail /\ idxEntry' = idxEntry /\ tailEntry' = tailEntry
  BY <1>1 DEF blockIndex, NewTail, idxEntry, tailEntry
<1>4. Claimed(t, h, f)' /\ Counted(t, h, f, own)'
  BY <1>1, ClaimedKept, CountedKept
<1>5. Seen(f, K)'
  <2>1. Len(headers) \in 0 .. Len(headers') /\ Len(headers') \in Nat
    BY <1>1 DEF Shape
  <2>2. \A i \in 1 .. Len(headers) : headers'[i].index = headers[i].index
    BY <1>1
  <2>3. \A e \in Entries : Valid(e) => Valid(e)'
    BY <1>1 DEF Valid
  <2>4. \A e \in Entries, n \in Int : n <= Before(t) /\ Holds(K, e, n) => Holds(K, e, n)'
    BY <1>1 DEF Holds
  <2> QED
    BY <1>1, <2>1, <2>2, <2>3, <2>4, SeenStays
<1>6. Ended'
  BY <1>1 DEF Ended
<1>7. Active(t, h)' = Active(t, h) /\ Ensuing(t)' = Ensuing(t)
  BY <1>1 DEF Active, AtBase, Ensuing, Before, Begins
<1> QED
  BY <1>2, <1>3, <1>4, <1>5, <1>6, <1>7

LEMMA CalmKeys ==
  ASSUME NEW t \in Int, NEW h \in Int, NEW K \in Numbers, Keys(t, h, K), UNCHANGED calmVars,
         TailNum(t)' = TailNum(t), blockIndex' = blockIndex,
         Active(t, h)' => Active(t, h),
         headers = <<>> => step' \in {"idle", "room", "insert", "crashed", "gone", "revert"}
  PROVE  Keys(t, h, K)'
<1>1. UNCHANGED <<key, value, headers, fresh>>
  BY DEF calmVars
<1>2. \A e \in Entries : Valid(e)' <=> Valid(e)
  BY <1>1 DEF Valid
<1>3. \A n \in Int : Has(K, n)' <=> Has(K, n)
  BY <1>1 DEF Has, Valid
<1>4. \A j \in 1 .. Len(headers) - 1 : Frozen(K, headers[j])' <=> Frozen(K, headers[j])
  BY <1>1 DEF Frozen, Valid
<1>5. Near(t, K, blockIndex)' <=> Near(t, K, blockIndex)
  BY <1>1 DEF Near, Valid
<1>6. Before(t)' = Before(t)
  BY DEF Before
<1> QED
  BY <1>1, <1>2, <1>3, <1>4, <1>5, <1>6 DEF Keys, Valid

LEMMA CalmValues ==
  ASSUME NEW t \in Int, NEW K \in Numbers, NEW own \in SUBSET Int, Values(t, K, own),
         UNCHANGED calmVars, blockIndex' = blockIndex,
         \A n \in own : Unstored(t, n)' <=> Unstored(t, n),
         \A e \in Entries : InFlight(t, e) => InFlight(t, e)',
         (step = "grow")' => (Valid(idxEntry) /\ K[idxEntry] <= TailNum(t))',
         (step = "key")' => Usable(idxEntry)',
         (step \in {"tail", "unset"})' => (Valid(idxEntry) /\ K[idxEntry] = Ensuing(t))'
  PROVE  Values(t, K, own)'
<1>1. UNCHANGED <<key, value, headers>>
  BY DEF calmVars
<1>2. \A e \in Entries : Valid(e)' <=> Valid(e)
  BY <1>1 DEF Valid
<1>3. \A n \in Int : Stored(K, n)' <=> Stored(K, n)
  BY <1>1 DEF Stored
<1>4. \A n \in own : Unstored(t, n)' \/ Stored(K, n)'
  BY <1>3 DEF Values
<1>5. \A e \in Entries : value'[e] \in Bases =>
        Valid(e)' /\ value'[e] = Blk(K[e]) /\ K[e] \in own /\ ~Unstored(t, K[e])'
  BY <1>1, <1>2 DEF Values
<1>6. \A e \in Entries : Valid(e)' /\ value'[e] = Garbage => InFlight(t, e)'
  BY <1>1, <1>2 DEF Values
<1>7. value' \in [Entries -> Bases \cup {Null, Garbage}]
  BY <1>1 DEF Values
<1> QED
  BY <1>4, <1>5, <1>6, <1>7 DEF Values

LEMMA CallFrame ==
  ASSUME NEW t \in Int, NEW h \in Int, NEW f \in Firsts, NEW K \in Numbers,
         NEW own \in SUBSET Int, Good(t, h, f, K, own), UNCHANGED calmVars,
         step # "gone", step' # "gone", Control(t)', Owning(t, own)', Tails(t, own)',
         Moved(t)' <=> Moved(t),
         headers = <<>> => step' \in {"idle", "room", "insert", "crashed", "gone", "revert"},
         \A n \in own : Unstored(t, n)' <=> Unstored(t, n),
         \A e \in Entries : InFlight(t, e) => InFlight(t, e)',
         (step = "grow")' => (Valid(idxEntry) /\ K[idxEntry] <= TailNum(t))',
         (step = "key")' => Usable(idxEntry)',
         (step \in {"tail", "unset"})' => (Valid(idxEntry) /\ K[idxEntry] = Ensuing(t))'
  PROVE  Good(t, h, f, K, own)'
<1>1. /\ Shape' /\ Claimed(t, h, f)' /\ Counted(t, h, f, own)' /\ Seen(f, K)' /\ Ended'
      /\ blockIndex' = blockIndex /\ Active(t, h)' = Active(t, h)
  BY CalmKeeps
<1>2. TailNum(t)' = TailNum(t)
  BY DEF TailNum, Before, calmVars
<1>3. Keys(t, h, K)'
  <2>1. Keys(t, h, K) /\ (Active(t, h)' => Active(t, h))
    BY <1>1 DEF Good
  <2> QED
    BY <1>1, <1>2, <2>1, CalmKeys
<1>4. Values(t, K, own)'
  <2>1. Values(t, K, own)
    BY DEF Good
  <2> QED
    BY <1>1, <2>1, CalmValues
<1> QED
  BY <1>1, <1>3, <1>4 DEF Good

--------------------------------------------------------------------------------
(* The bases a call looks at are less than a turn ahead.                   *)
LEMMA Ahead ==
  ASSUME NEW t \in Int, tailIndex = Mod(t), NEW n \in Int, t <= Begins(n),
         Begins(n) - t < IndexSize, NEW k \in Int
  PROVE  Minus(Blk(n), tailIndex) < k <=> Begins(n) < t + k
<1>1. Begins(n) \in Int
  BY BeginsFacts
<1>2. Minus(Blk(n), tailIndex) = Mod(Begins(n) - t)
  BY <1>1, ModFacts DEF Blk, Begins
<1>3. Mod(Begins(n) - t) = Begins(n) - t
  BY <1>1, ModSmall, Sizes
<1> QED
  BY <1>1, <1>2, <1>3

LEMMA BeginStep ==
  ASSUME NEW t \in Int, NEW h \in Int, NEW f \in Firsts, NEW K \in Numbers,
         NEW own \in SUBSET Int, Good(t, h, f, K, own),
         NEW isBulk \in BOOLEAN, NEW n \in 1 .. MaxBulk, ~isBulk => n = 1, Begin(isBulk, n)
  PROVE  Good(t, h, f, K, own)'
<1>1. /\ Control(t) /\ Keys(t, h, K) /\ Owning(t, own) /\ Tails(t, own) /\ Values(t, K, own)
  BY DEF Good
<1>2. /\ step = "idle" /\ sent + n <= MaxSent /\ NoBlockIsAncient
      /\ bulk' = isBulk /\ count' = n /\ startBlock' = tailBlock
      /\ UNCHANGED <<tailIndex, tailBlock, fresh, undone, owned, sent>> /\ UNCHANGED calmVars
      /\ \/ NeedsBlock(FirstBase) /\ cur' = FirstBase /\ step' = "room"
         \/ ~NeedsBlock(FirstBase) /\ cur' = cur /\ step' = "construct"
  BY DEF Begin, At, calmVars, ringVars
<1>3. /\ Before(t) \in Int /\ Ensuing(t) = Before(t) + 1 /\ Ensuing(t) \in Int
      /\ fresh = <<>> /\ Len(fresh) = 0 /\ undone = 0
      /\ sent \in Nat /\ n \in Nat /\ n >= 1 /\ n \in 0 .. MaxBulk
      /\ Begins(Before(t)) <= t - 1 /\ t <= Begins(Before(t) + 1)
  <2>1. fresh = <<>> /\ undone = 0
    BY <1>1, <1>2, CallFacts DEF Control, InCall, Reverting
  <2>2. Len(fresh) = 0
    BY <2>1
  <2> QED
    BY <1>1, <2>1, <2>2, CallFacts, Kinds DEF Ensuing
<1>4. PICK b \in Int, a \in Int :
        b = Begins(Ensuing(t)) /\ a = Begins(Before(t)) /\ b = a + BlockSize /\ a < t /\ t <= b
  <2>1. /\ Begins(Before(t)) \in Int /\ Begins(Ensuing(t)) \in Int
        /\ Begins(Ensuing(t)) = Begins(Before(t)) + BlockSize
        /\ Begins(Before(t)) < t /\ t <= Begins(Ensuing(t))
    <3>1. PICK n0 \in Int : n0 = Before(t)
      BY <1>3
    <3>2. /\ Begins(n0) \in Int /\ Begins(n0 + 1) = Begins(n0) + BlockSize
          /\ Begins(n0) + BlockSize \in Int
      BY Sizes DEF Begins
    <3>3. Begins(Before(t)) < t
      BY <1>3, <3>1, <3>2
    <3> QED
      BY <1>3, <3>1, <3>2, <3>3
  <2> QED
    BY <2>1
<1>5. FirstBase = Blk(Ensuing(t)) /\ FirstBase \in Bases
  BY <1>1, <1>3, AtBaseIs, BlkType DEF FirstBase, Control
<1>6. NeedsBlock(FirstBase) <=> b < t + n
  <2>1. b - t < IndexSize
    BY <1>4, Sizes, SizesDivide
  <2>2. tailIndex = Mod(t)
    BY <1>1 DEF Control
  <2>3. n \in Int
    BY <1>3
  <2>4. Minus(Blk(Ensuing(t)), tailIndex) < n <=> Begins(Ensuing(t)) < t + n
    BY <1>3, <1>4, <2>1, <2>2, <2>3, Ahead
  <2> QED
    BY <1>2, <1>4, <1>5, <2>4 DEF NeedsBlock
<1>7. AtBase(t) <=> t = b
  BY <1>3, <1>4 DEF AtBase
<1>8. step' = "construct" => ~AtBase(t) /\ t + n <= b
  BY <1>2, <1>3, <1>4, <1>6, <1>7
<1>9. step' = "room" => b < t + n /\ cur' = Blk(Ensuing(t)) /\ (~isBulk => AtBase(t))
  BY <1>2, <1>3, <1>4, <1>5, <1>6, <1>7
<1>10. Ensuing(t)' = Ensuing(t) /\ step' \in {"room", "construct"} /\ cur' \in Bases
  BY <1>1, <1>2, <1>5 DEF Ensuing, Before, Control
<1>11. Control(t)'
  <2>1. /\ tailIndex' = Mod(t) /\ step' \in Steps /\ bulk' \in BOOLEAN /\ count' \in 0 .. MaxBulk
        /\ cur' \in Bases /\ fresh' \in Seq(Bases) /\ undone' \in 0 .. Len(fresh')
        /\ sent' \in 0 .. MaxSent
    BY <1>1, <1>2, <1>3, <1>10 DEF Control, Steps
  <2>2. /\ (InCall => count >= 1 /\ sent + count <= MaxSent)'
        /\ (InCall /\ ~bulk => count = 1)' /\ (~InCall \/ ~bulk => fresh = <<>>)'
        /\ (undone > 0 => Reverting)' /\ (step = "revertRewind" => undone > 0)'
        /\ (Reverting => bulk)'
    BY <1>2, <1>3, <1>10 DEF InCall, Reverting
  <2>3. HasCur(t)' <=> step' = "room"
    BY <1>2, <1>8, <1>10 DEF HasCur, SingleNew
  <2>4. /\ (HasCur(t) /\ ~bulk => AtBase(t))'
        /\ (HasCur(t) => cur = Blk(Ensuing(t)) /\ Begins(Ensuing(t)) < t + count)'
    BY <1>2, <1>4, <1>9, <1>10, <2>3
  <2>5. (InCall => Begins(Ensuing(t) - 1) < t + count)'
    <3>1. Ensuing(t) - 1 = Before(t)
      BY <1>3
    <3> QED
      BY <1>2, <1>3, <1>4, <1>10, <3>1
  <2>6. (\A i \in 1 .. Len(fresh) : fresh[i] = Blk(Before(t) + i))'
    BY <1>2, <1>3
  <2>7. (step \in {"construct", "publish"} =>
          t + count <= Begins(IF SingleNew(t) THEN Ensuing(t) + 1 ELSE Ensuing(t)))'
    BY <1>2, <1>4, <1>8, <1>10 DEF SingleNew
  <2> QED
    BY <2>1, <2>2, <2>4, <2>5, <2>6, <2>7 DEF Control
<1>12. ~InCall /\ ~Extra(t) /\ InCall' /\ ~Extra(t)'
  BY <1>2, <1>8, <1>10 DEF InCall, Extra, SingleNew
<1>13. Owning(t, own)'
  <2>1. ASSUME NEW m \in own, m <= Before(t)
        PROVE  t + count' - Begins(m) < IndexSize \div 2
    <3>1. PICK d \in Int : d = Begins(m) /\ d <= t - 1
      <4>1. m \in Int /\ Begins(m) \in Int /\ Begins(m) <= Begins(Before(t))
        BY <1>3, <2>1, BeginsFacts
      <4>2. Begins(m) <= t - 1
        BY <1>4, <4>1
      <4> QED
        BY <4>1, <4>2
    <3>2. t - d < IndexSize \div 2
      BY <1>1, <1>12, <2>1, <3>1 DEF Owning
    <3>3. Minus(Plus(tailIndex, MaxBulk), Blk(m)) < IndexSize \div 2
      BY <1>1, <1>2, <2>1 DEF NoBlockIsAncient, Owning
    <3>4. Plus(tailIndex, MaxBulk) = Mod(t + MaxBulk)
      BY <1>1, ModFacts, Kinds DEF Control
    <3>5. Minus(Mod(t + MaxBulk), Blk(m)) = Mod((t + MaxBulk) - d)
      <4>1. t + MaxBulk \in Int /\ Blk(m) = Mod(d)
        BY <3>1, Kinds DEF Blk, Begins
      <4> QED
        BY <4>1, ModFacts
    <3>6. (t + MaxBulk) - d \in 0 .. IndexSize - 1
      BY <3>1, <3>2, Kinds, Sizes
    <3>7. Mod((t + MaxBulk) - d) = (t + MaxBulk) - d
      BY <3>6, ModSmall
    <3>8. (t + MaxBulk) - d < IndexSize \div 2
      BY <3>3, <3>4, <3>5, <3>7
    <3> QED
      BY <1>2, <1>3, <3>1, <3>8, Kinds
  <2>2. \A m \in own : m < Ensuing(t)
    BY <1>1, <1>2, <1>12 DEF Owning
  <2>3. \A m \in Before(t) + 1 .. Ensuing(t) - 1 : m \in own
    BY <1>3
  <2> QED
    BY <1>1, <1>2, <1>10, <1>12, <2>1, <2>2, <2>3 DEF Owning
<1>14. Tails(t, own)'
  BY <1>1, <1>2, <1>3, <1>12, <1>8 DEF Tails, Old, SingleNew
<1>15. ~Moved(t) /\ ~Moved(t)'
  BY <1>2, <1>8, <1>10 DEF Moved, SingleNew
<1>16. \A m \in own : Unstored(t, m)' <=> Unstored(t, m)
  BY <1>2, <1>10 DEF Unstored
<1>17. \A e \in Entries : ~InFlight(t, e)
  BY <1>2 DEF InFlight
<1>18. headers = <<>> => step' = "room"
  <2>1. headers = <<>> => AtBase(t)
    BY <1>1 DEF Keys, Active
  <2> QED
    BY <1>8, <1>10, <2>1
<1>19. step # "gone" /\ step' \notin {"gone", "grow", "key", "tail", "unset"}
  BY <1>2, <1>10
<1> QED
  BY <1>2, <1>11, <1>13, <1>14, <1>15, <1>16, <1>17, <1>18, <1>19, CallFrame

--------------------------------------------------------------------------------
(* A call goes on, or gives up, without touching anything.                 *)
stillVars == <<calmVars, tailBlock, bulk, count, startBlock, cur>>

LEMMA StillFacts ==
  ASSUME UNCHANGED <<ringVars, blockVars, callVars, restVars>>
  PROVE  UNCHANGED stillVars /\ UNCHANGED calmVars
BY DEF ringVars, blockVars, callVars, restVars, stillVars, calmVars

LEMMA GiveUpStep ==
  ASSUME NEW t \in Int, NEW h \in Int, NEW f \in Firsts, NEW K \in Numbers,
         NEW own \in SUBSET Int, Good(t, h, f, K, own),
         NEW from \in {"room", "grow"}, GiveUp(from), UNCHANGED stillVars
  PROVE  Good(t, h, f, K, own)'
<1>1. /\ Control(t) /\ Keys(t, h, K) /\ Owning(t, own) /\ Tails(t, own) /\ Values(t, K, own)
  BY DEF Good
<1>2. /\ step = from /\ step' = (IF bulk THEN "revert" ELSE "idle")
      /\ UNCHANGED <<tailIndex, tailBlock, fresh, undone, owned, sent, bulk, count, startBlock,
                     cur, headers, value>>
      /\ UNCHANGED calmVars
  BY DEF GiveUp, At, stillVars, calmVars
<1>3. /\ Ensuing(t)' = Ensuing(t) /\ undone = 0 /\ count \in Nat
      /\ Before(t) \in Int /\ Ensuing(t) \in Int
  <2>1. undone = 0
    BY <1>1, <1>2, CallFacts DEF Control, Reverting
  <2> QED
    BY <1>1, <1>2, <2>1, CallFacts DEF Ensuing, Before
<1>4. bulk \in BOOLEAN /\ ~HasCur(t)' /\ InCall /\ ~Extra(t) /\ ~Extra(t)'
  BY <1>1, <1>2 DEF Control, HasCur, InCall, Extra
<1>5. Control(t)'
  BY <1>1, <1>2, <1>3, <1>4 DEF Control, Steps, InCall, Reverting
<1>6. Owning(t, own)'
  <2>1. ASSUME NEW m \in own, m <= Before(t)
        PROVE  t + (IF InCall THEN count ELSE 0)' - Begins(m) < IndexSize \div 2
    <3>1. t + count - Begins(m) < IndexSize \div 2 /\ Begins(m) \in Int
      BY <1>1, <1>4, <2>1, BeginsFacts DEF Owning
    <3> QED
      BY <1>2, <1>3, <3>1, Kinds
  <2> QED
    BY <1>1, <1>2, <1>3, <1>4, <2>1 DEF Owning
<1>7. Tails(t, own)'
  BY <1>1, <1>2, <1>4 DEF Tails, Old, InCall, Reverting, Control, SingleNew
<1>8. ~Moved(t) /\ ~Moved(t)' /\ \A e \in Entries : ~InFlight(t, e)
  BY <1>2, <1>4 DEF Moved, InFlight
<1>9. \A m \in own : Unstored(t, m)' <=> Unstored(t, m)
  BY <1>2, <1>3, <1>4 DEF Unstored
<1>10. step # "gone" /\ step' \in {"idle", "revert"}
  BY <1>2
<1> QED
  BY <1>2, <1>5, <1>6, <1>7, <1>8, <1>9, <1>10, CallFrame

LEMMA StillStep ==
  ASSUME NEW t \in Int, NEW h \in Int, NEW f \in Firsts, NEW K \in Numbers,
         NEW own \in SUBSET Int, Good(t, h, f, K, own), UNCHANGED stillVars,
         NEW from \in {"room", "insert"}, NEW to \in {"insert", "grow", "key"}, At(from, to),
         headers = <<>> => to = "insert",
         to = "grow" => Valid(idxEntry) /\ K[idxEntry] <= TailNum(t),
         to = "key" => Usable(idxEntry)
  PROVE  Good(t, h, f, K, own)'
<1>1. /\ Control(t) /\ Keys(t, h, K) /\ Owning(t, own) /\ Tails(t, own) /\ Values(t, K, own)
  BY DEF Good
<1>2. /\ step = from /\ step' = to
      /\ UNCHANGED <<tailIndex, tailBlock, fresh, undone, owned, sent, bulk, count,
                     startBlock, cur, headers, key, value>>
      /\ UNCHANGED calmVars
  BY DEF At, stillVars, calmVars
<1>3. Ensuing(t)' = Ensuing(t)
  BY <1>2 DEF Ensuing, Before
<1>4. /\ HasCur(t) /\ HasCur(t)' /\ InCall /\ InCall' /\ ~Extra(t) /\ ~Extra(t)'
      /\ ~Reverting /\ ~Reverting'
  BY <1>2 DEF HasCur, InCall, Extra, Reverting
<1>5. Control(t)'
  BY <1>1, <1>2, <1>3, <1>4 DEF Control, Steps
<1>6. Owning(t, own)' /\ Tails(t, own)'
  BY <1>1, <1>2, <1>3, <1>4 DEF Owning, Tails, SingleNew
<1>7. ~Moved(t) /\ ~Moved(t)' /\ \A e \in Entries : ~InFlight(t, e)
  BY <1>2 DEF Moved, InFlight
<1>8. \A m \in own : Unstored(t, m)' <=> Unstored(t, m)
  BY <1>2, <1>3 DEF Unstored
<1>9. step # "gone" /\ step' \notin {"gone", "tail", "unset"}
  BY <1>2
<1>10. idxEntry' = idxEntry
  BY <1>9, <1>2, CalmKeeps
<1>11. TailNum(t)' = TailNum(t)
  BY <1>2, <1>7 DEF TailNum, Before
<1>12. (step = "grow")' => (Valid(idxEntry) /\ K[idxEntry] <= TailNum(t))'
  BY <1>2, <1>10, <1>11 DEF Valid
<1>13. (step = "key")' => Usable(idxEntry)'
  BY <1>2, <1>10 DEF Usable
<1>14. headers = <<>> => step' \in {"idle", "room", "insert", "crashed", "gone", "revert"}
  BY <1>2
<1> QED
  BY <1>2, <1>5, <1>6, <1>7, <1>8, <1>9, <1>12, <1>13, <1>14, CallFrame

LEMMA CheckRoomStep ==
  ASSUME NEW t \in Int, NEW h \in Int, NEW f \in Firsts, NEW K \in Numbers,
         NEW own \in SUBSET Int, Good(t, h, f, K, own), CheckRoom
  PROVE  Good(t, h, f, K, own)'
<1>1. UNCHANGED stillVars
  BY StillFacts DEF CheckRoom
<1>2. CASE At("room", "insert")
  BY <1>1, <1>2, StillStep
<1>3. CASE GiveUp("room")
  BY <1>1, <1>3, GiveUpStep
<1> QED
  BY <1>2, <1>3 DEF CheckRoom

LEMMA InsertEntryStep ==
  ASSUME NEW t \in Int, NEW h \in Int, NEW f \in Firsts, NEW K \in Numbers,
         NEW own \in SUBSET Int, Good(t, h, f, K, own), InsertEntry
  PROVE  Good(t, h, f, K, own)'
<1>1. /\ Control(t) /\ Keys(t, h, K) /\ Owning(t, own) /\ Values(t, K, own) /\ Shape
  BY DEF Good
<1>2. UNCHANGED stillVars /\ headers # <<>> /\ step = "insert"
  BY StillFacts DEF InsertEntry, At
<1>3. CASE At("insert", "key") /\ Usable(idxEntry)
  BY <1>2, <1>3, StillStep
<1>4. CASE At("insert", "grow") /\ ~Usable(idxEntry)
  <2>1. Valid(idxEntry) /\ value[idxEntry] # Null /\ idxEntry \in Entries
    BY <1>1, <1>2, <1>4, TailFacts DEF Usable, Valid
  <2>2. value[idxEntry] \in Bases
    BY <1>1, <1>2, <2>1 DEF Values, InFlight
  <2>3. K[idxEntry] \in own
    BY <1>1, <2>1, <2>2 DEF Values
  <2>4. K[idxEntry] < Ensuing(t)
    BY <1>1, <1>2, <2>3 DEF Owning, Extra
  <2>5. /\ TailNum(t) \in Int /\ Before(t) \in Int /\ Len(fresh) \in Nat /\ undone = 0
        /\ ~Moved(t)
    BY <1>1, <1>2, CallFacts DEF Control, Reverting, Moved
  <2>6. TailNum(t) + 1 = Ensuing(t)
    BY <2>5 DEF TailNum, Ensuing
  <2>7. K[idxEntry] <= TailNum(t)
    <3>1. K[idxEntry] \in Int
      BY <2>1 DEF Numbers
    <3> QED
      BY <2>4, <2>5, <2>6, <3>1
  <2> QED
    BY <1>2, <1>4, <2>1, <2>7, StillStep
<1> QED
  BY <1>3, <1>4 DEF InsertEntry

LEMMA NullIndexStep ==
  ASSUME NEW t \in Int, NEW h \in Int, NEW f \in Firsts, NEW K \in Numbers,
         NEW own \in SUBSET Int, Good(t, h, f, K, own), NullIndex
  PROVE  Good(t, h, f, K, own)'
<1>1. /\ Control(t) /\ Keys(t, h, K) /\ Owning(t, own) /\ Tails(t, own) /\ Values(t, K, own)
  BY DEF Good
<1>2. /\ step = "insert" /\ step' = "crashed" /\ headers = <<>>
      /\ UNCHANGED <<tailIndex, tailBlock, fresh, undone, owned, sent, bulk, count,
                     startBlock, cur, headers, key, value>>
      /\ UNCHANGED calmVars
  BY StillFacts DEF NullIndex, At, stillVars, calmVars
<1>3. Ensuing(t)' = Ensuing(t) /\ fresh = <<>> /\ undone = 0
  BY <1>1, <1>2 DEF Ensuing, Before, Keys, Control, Reverting
<1>4. /\ ~HasCur(t)' /\ InCall /\ ~InCall' /\ ~Extra(t) /\ ~Extra(t)'
      /\ ~Reverting /\ ~Reverting'
  BY <1>2 DEF HasCur, InCall, Extra, Reverting
<1>5. Control(t)'
  BY <1>1, <1>2, <1>3, <1>4 DEF Control, Steps
<1>6. Owning(t, own)'
  <2>1. ASSUME NEW m \in own, m <= Before(t)
        PROVE  t + (IF InCall THEN count ELSE 0)' - Begins(m) < IndexSize \div 2
    <3>1. t + count - Begins(m) < IndexSize \div 2 /\ Begins(m) \in Int
      BY <1>1, <1>4, <2>1, BeginsFacts DEF Owning
    <3>2. count \in Nat
      BY <1>1, CallFacts
    <3> QED
      BY <1>4, <3>1, <3>2, Kinds
  <2> QED
    BY <1>1, <1>2, <1>3, <1>4, <2>1 DEF Owning
<1>7. Tails(t, own)'
  BY <1>1, <1>2, <1>3, <1>4 DEF Tails, Old
<1>8. ~Moved(t) /\ ~Moved(t)' /\ \A e \in Entries : ~InFlight(t, e)
  BY <1>2 DEF Moved, InFlight
<1>9. \A m \in own : Unstored(t, m)' <=> Unstored(t, m)
  BY <1>2, <1>3 DEF Unstored
<1> QED
  BY <1>2, <1>5, <1>6, <1>7, <1>8, <1>9, CallFrame

--------------------------------------------------------------------------------
(* An index of twice the size.                                             *)
After(r, C, i) == (r + 1 + i) % C

LEMMA Rotated ==
  ASSUME NEW C \in Nat \ {0}, NEW r \in 0 .. C - 1
  PROVE  /\ \A i \in 0 .. C - 1 :
              After(r, C, i) \in 0 .. C - 1 /\ Cong(After(r, C, i), r + 1 + i, C)
         /\ \A i, j \in 0 .. C - 1 : After(r, C, i) = After(r, C, j) => i = j
         /\ \A q \in 0 .. C - 1 : \E i \in 0 .. C - 1 : After(r, C, i) = q
<1>1. ASSUME NEW i \in 0 .. C - 1
      PROVE  After(r, C, i) \in 0 .. C - 1 /\ Cong(After(r, C, i), r + 1 + i, C)
  <2>1. PICK x \in Int : x = r + 1 + i
    OBVIOUS
  <2> QED
    BY <2>1, CongMod DEF After
<1>2. ASSUME NEW i \in 0 .. C - 1, NEW j \in 0 .. C - 1, After(r, C, i) = After(r, C, j)
      PROVE  i = j
  <2>1. PICK n \in Int, o \in Int : n = After(r, C, i) /\ o = r + 1
    BY <1>1
  <2>2. /\ i + o = r + 1 + i /\ j + o = r + 1 + j
        /\ n = After(r, C, j)
    BY <1>2, <2>1
  <2>3. Cong(n, i + o, C) /\ Cong(n, j + o, C)
    BY <1>1, <2>1, <2>2
  <2> QED
    BY <2>3, SamePlace
<1>3. ASSUME NEW q \in 0 .. C - 1 PROVE \E i \in 0 .. C - 1 : After(r, C, i) = q
  <2>1. PICK d \in Int, i \in 0 .. C - 1 : d = q - (r + 1) /\ i = d % C /\ Cong(i, d, C)
    <3>1. PICK d \in Int : d = q - (r + 1)
      OBVIOUS
    <3> QED
      BY <3>1, CongMod
  <2>2. PICK x \in Int : x = r + 1 + i
    OBVIOUS
  <2>3. Cong(q, x, C)
    <3>1. C \in Int /\ i \in Int /\ q \in Int /\ r + 1 \in Int
      OBVIOUS
    <3>2. Cong(i + (r + 1), d + (r + 1), C)
      BY <2>1, <3>1, CongSame, CongSum
    <3>3. i + (r + 1) = x /\ d + (r + 1) = q
      BY <2>1, <2>2
    <3> QED
      BY <3>1, <3>2, <3>3, CongTurn
  <2>4. x % C = q
    BY <2>3, CongIsMod
  <2> QED
    BY <2>2, <2>4 DEF After
<1> QED
  BY <1>1, <1>2, <1>3

(* N has twice the entries of g, the old ones first.                       *)
Doubled(g, N) ==
  /\ Formed(N) /\ Capacity(N) = 2 * Capacity(g) /\ N.tail = Capacity(g) - 1
  /\ DOMAIN N.index = 0 .. 2 * Capacity(g) - 1
  /\ \A p \in DOMAIN g.index : \E i \in 0 .. Capacity(g) - 1 :
       i \in DOMAIN N.index /\ N.index[i] = g.index[p]
  /\ \A i \in 0 .. Capacity(g) - 1 : N.index[i] = g.index[After(g.tail, Capacity(g), i)]
  /\ \A i \in Capacity(g) .. 2 * Capacity(g) - 1 : N.index[i] = i

LEMMA NewHeaderFacts ==
  ASSUME NEW g, Formed(g), 2 * Capacity(g) <= MaxCapacity
  PROVE  Doubled(g, NewHeader(g))
<1>0. PICK N : N = NewHeader(g)
  OBVIOUS
<1>1. PICK C \in Nat \ {0} :
        /\ C = Capacity(g) /\ DOMAIN g.index = 0 .. C - 1 /\ g.tail \in 0 .. C - 1
        /\ Divides(C, MaxCapacity) /\ 2 * C <= MaxCapacity
        /\ \A p, q \in DOMAIN g.index : g.index[p] = g.index[q] => p = q
        /\ \A p \in DOMAIN g.index : g.index[p] \in 0 .. C - 1
        /\ \A e \in 0 .. C - 1 : \E p \in DOMAIN g.index : g.index[p] = e
  BY FormedFacts
<1>2. PICK r \in 0 .. C - 1 : r = g.tail
  BY <1>1
<1>3. /\ N.index = [i \in 0 .. 2 * C - 1 |-> IF i < C THEN g.index[After(r, C, i)] ELSE i]
      /\ N.tail = C - 1 /\ N = [index |-> N.index, tail |-> N.tail]
  BY <1>0, <1>1, <1>2 DEF NewHeader, After
<1>4. ASSUME NEW i \in 0 .. C - 1
      PROVE  i \in DOMAIN N.index /\ N.index[i] = g.index[After(r, C, i)]
  <2>1. i \in 0 .. 2 * C - 1 /\ i < C
    OBVIOUS
  <2> QED
    BY <1>3, <2>1
<1>5. ASSUME NEW i \in C .. 2 * C - 1 PROVE i \in DOMAIN N.index /\ N.index[i] = i
  <2>1. i \in 0 .. 2 * C - 1 /\ ~(i < C)
    OBVIOUS
  <2> QED
    BY <1>3, <2>1
<1>6. \A i \in 0 .. C - 1 : After(r, C, i) \in 0 .. C - 1
  BY Rotated
<1>7. ASSUME NEW i \in 0 .. C - 1 PROVE N.index[i] \in 0 .. C - 1
  <2>1. After(r, C, i) \in DOMAIN g.index
    BY <1>1, <1>6
  <2>2. g.index[After(r, C, i)] \in 0 .. C - 1
    BY <1>1, <2>1
  <2> QED
    BY <1>4, <2>2
<1>8. \A p \in 0 .. 2 * C - 1 : N.index[p] \in 0 .. 2 * C - 1
  <2> TAKE p \in 0 .. 2 * C - 1
  <2>1. CASE p \in 0 .. C - 1
    BY <1>7, <2>1
  <2>2. CASE p \in C .. 2 * C - 1
    BY <1>5, <2>2
  <2> QED
    BY <1>1, <2>1, <2>2
<1>9. \A p \in DOMAIN g.index : \E i \in 0 .. C - 1 :
        i \in DOMAIN N.index /\ N.index[i] = g.index[p]
  <2> TAKE p \in DOMAIN g.index
  <2>0. r \in 0 .. C - 1 /\ p \in 0 .. C - 1
    BY <1>1
  <2>1. PICK i \in 0 .. C - 1 : After(r, C, i) = p
    <3> HIDE <1>1
    <3> QED
      BY <2>0, Rotated
  <2> QED
    BY <1>4, <2>1
<1>10. \A p, q \in 0 .. 2 * C - 1 : N.index[p] = N.index[q] => p = q
  <2> SUFFICES ASSUME NEW p \in 0 .. 2 * C - 1, NEW q \in 0 .. 2 * C - 1,
                      N.index[p] = N.index[q]
               PROVE  p = q
    OBVIOUS
  <2>1. CASE p \in 0 .. C - 1 /\ q \in 0 .. C - 1
    <3>1. g.index[After(r, C, p)] = g.index[After(r, C, q)]
      BY <1>4, <2>1
    <3>2. After(r, C, p) = After(r, C, q)
      BY <1>1, <1>6, <2>1, <3>1
    <3> QED
      BY <2>1, <3>2, Rotated
  <2>2. CASE p \in C .. 2 * C - 1 /\ q \in C .. 2 * C - 1
    BY <1>5, <2>2
  <2>3. CASE p \in 0 .. C - 1 /\ q \in C .. 2 * C - 1
    BY <1>5, <1>7, <2>3
  <2>4. CASE q \in 0 .. C - 1 /\ p \in C .. 2 * C - 1
    BY <1>5, <1>7, <2>4
  <2> QED
    BY <1>1, <2>1, <2>2, <2>3, <2>4
<1>11. \A e \in 0 .. 2 * C - 1 : \E p \in 0 .. 2 * C - 1 : N.index[p] = e
  <2> TAKE e \in 0 .. 2 * C - 1
  <2>1. CASE e \in 0 .. C - 1
    <3>1. PICK p \in DOMAIN g.index : g.index[p] = e
      BY <1>1, <2>1
    <3>2. PICK i \in 0 .. C - 1 : N.index[i] = e
      BY <1>9, <3>1
    <3>3. i \in 0 .. 2 * C - 1
      BY <1>1
    <3> QED
      BY <3>2, <3>3
  <2>2. CASE e \in C .. 2 * C - 1
    BY <1>5, <2>2
  <2> QED
    BY <1>1, <2>1, <2>2
<1>12. 2 * C \in 1 .. MaxCapacity /\ C - 1 \in 0 .. 2 * C - 1
  <2>1. 2 * C <= MaxCapacity /\ MaxCapacity \in Nat
    BY <1>1, Sizes
  <2> QED
    BY ONLY <2>1, C \in Nat \ {0}
<1>13. N \in Header(2 * C)
  <2>1. \A p \in 0 .. 2 * C - 1 : N.index[p] \in Entries
    BY <1>8, <1>12, Sizes DEF Entries
  <2>2. N.index \in [0 .. 2 * C - 1 -> Entries]
    BY <1>3, <2>1
  <2> QED
    BY <1>3, <1>12, <2>2 DEF Header
<1>14. Divides(2 * C, MaxCapacity)
  <2>1. PICK k \in Int : MaxCapacity = C * k
    BY <1>1 DEF Divides
  <2>2. MaxCapacity % C = 0
    <3>1. (C * k + 0) % C = 0
      BY <1>1, Remainder
    <3> QED
      BY <2>1, <3>1
  <2>3. C \in 1 .. MaxCapacity \div 2
    BY <1>1, Sizes
  <2>4. PICK D \in Nat \ {0} : D = 2 * C
    BY <1>1
  <2>5. MaxCapacity % D = 0
    BY <2>2, <2>3, <2>4, SizesDivide
  <2>6. MaxCapacity = D * (MaxCapacity \div D) + (MaxCapacity % D) /\ MaxCapacity \div D \in Int
    BY Sizes, DivMod
  <2>7. MaxCapacity = D * (MaxCapacity \div D)
    BY <2>5, <2>6, Sizes
  <2> QED
    BY <2>4, <2>6, <2>7 DEF Divides
<1>15. Formed(N)
  BY <1>8, <1>10, <1>11, <1>12, <1>13, <1>14 DEF Formed
<1>16. DOMAIN N.index = 0 .. 2 * C - 1
  BY <1>3
<1>17. Capacity(N) = 2 * C
  <2>1. PICK M \in Nat : M = 2 * C
    BY <1>1
  <2>2. Cardinality(0 .. M - 1) = M
    BY <1>1, <2>1, FS_Interval
  <2> QED
    BY <1>16, <2>1, <2>2 DEF Capacity
<1> QED
  BY <1>0, <1>1, <1>2, <1>3, <1>4, <1>5, <1>9, <1>15, <1>16, <1>17 DEF Doubled

(* When the entry after the tail is taken, all are, by blocks in a row.    *)
LEMMA FullTurn ==
  ASSUME NEW t \in Int, NEW h \in Int, NEW K \in Numbers, Control(t), Shape,
         Keys(t, h, K), headers # <<>>, Valid(idxEntry), K[idxEntry] <= TailNum(t)
  PROVE  /\ \A p \in DOMAIN blockIndex.index : Valid(blockIndex.index[p])
         /\ \A i \in 0 .. Capacity(blockIndex) - 1 :
              LET e == blockIndex.index[After(blockIndex.tail, Capacity(blockIndex), i)]
              IN K[e] = TailNum(t) + 1 - Capacity(blockIndex) + i
<1>1. PICK C \in Nat \ {0}, T \in Int, r \in Int :
        /\ C = Capacity(blockIndex) /\ T = TailNum(t) /\ r = blockIndex.tail
        /\ r \in 0 .. C - 1 /\ DOMAIN blockIndex.index = 0 .. C - 1
  <2>1. /\ Formed(blockIndex) /\ TailNum(t) \in Int
    BY LatestFacts, CallFacts
  <2>2. /\ Capacity(blockIndex) \in Nat \ {0} /\ blockIndex.tail \in 0 .. Capacity(blockIndex) - 1
        /\ DOMAIN blockIndex.index = 0 .. Capacity(blockIndex) - 1
    BY <2>1, FormedFacts
  <2>3. blockIndex.tail \in Int
    BY <2>2
  <2> QED
    BY <2>1, <2>2, <2>3
<1>2. K[idxEntry] = T + 1 - C
  <2>1. K[idxEntry] = T + 1 - C \/ K[idxEntry] = T + 1
    BY <1>1, AfterTail
  <2> QED
    BY <1>1, <2>1
<1>3. \A n \in T + 1 - C .. T : Has(K, n)
  <2>1. NewTail \in DOMAIN blockIndex.index /\ idxEntry = blockIndex.index[NewTail]
    BY TailFacts
  <2> QED
    BY <1>1, <1>2, <2>1 DEF Keys
<1>4. \A p \in DOMAIN blockIndex.index : Valid(blockIndex.index[p]) =>
        Cong(K[blockIndex.index[p]], p + (T - r), C)
  BY <1>1 DEF Keys, Near
<1>5. ASSUME NEW i \in 0 .. C - 1, NEW p \in 0 .. C - 1, p = After(r, C, i)
      PROVE  /\ Valid(blockIndex.index[p])
             /\ K[blockIndex.index[p]] = T + 1 - C + i
  <2>1. PICK n \in Int, o \in Int : n = T + 1 - C + i /\ o = T - r
    OBVIOUS
  <2>2. PICK q \in 0 .. C - 1 : Valid(blockIndex.index[q]) /\ K[blockIndex.index[q]] = n
    <3>1. n \in T + 1 - C .. T
      BY <2>1
    <3>2. Has(K, n)
      BY <1>3, <3>1
    <3> QED
      BY <1>1, <3>2 DEF Has
  <2>3. Cong(n, q + o, C)
    BY <1>1, <1>4, <2>1, <2>2
  <2>4. Cong(n, p + o, C)
    <3>1. PICK x \in Int, y \in Int : x = r + 1 + i /\ y = n + C
      BY <2>1
    <3>0. r \in 0 .. C - 1
      BY <1>1
    <3>2. Cong(p, x, C) /\ C \in Int /\ p \in Int
      BY <1>5, <3>0, <3>1, Rotated
    <3>3. Cong(p + o, x + o, C)
      BY <2>1, <3>1, <3>2, CongSame, CongSum
    <3>4. x + o = y /\ p + o \in Int
      BY <2>1, <3>1
    <3>5. Cong(y, n, C)
      BY <2>1, <3>1, <3>2, CongSame
    <3>6. Cong(p + o, y, C)
      BY <3>3, <3>4
    <3>7. Cong(p + o, n, C)
      BY <2>1, <3>1, <3>2, <3>4, <3>5, <3>6, CongTurn
    <3> QED
      BY <2>1, <3>2, <3>4, <3>7, CongTurn
  <2>5. p = q
    BY <2>3, <2>4, SamePlace
  <2> QED
    BY <2>1, <2>2, <2>5
<1>6. ASSUME NEW p \in 0 .. C - 1 PROVE Valid(blockIndex.index[p])
  <2>0. r \in 0 .. C - 1 /\ p \in 0 .. C - 1
    BY <1>1
  <2>1. PICK i \in 0 .. C - 1 : After(r, C, i) = p
    <3> HIDE <1>1
    <3> QED
      BY <2>0, Rotated
  <2> QED
    BY <1>5, <2>1
<1>7. ASSUME NEW i \in 0 .. C - 1
      PROVE  K[blockIndex.index[After(r, C, i)]] = T + 1 - C + i
  <2>1. After(r, C, i) \in 0 .. C - 1
    BY <1>1, Rotated
  <2> QED
    BY <1>5, <2>1
<1> QED
  BY <1>1, <1>6, <1>7

LEMMA GrownShape ==
  ASSUME Shape, headers # <<>>, NEW N, Formed(N),
         Capacity(N) = 2 * Capacity(blockIndex), headers' = Append(headers, N)
  PROVE  /\ Shape' /\ blockIndex' = N /\ Len(headers') = Len(headers) + 1
         /\ Len(headers) \in Nat
         /\ \A i \in 1 .. Len(headers) : headers'[i] = headers[i]
         /\ headers' # <<>>
<1>1. /\ Len(headers) \in Nat /\ Len(headers) >= 1
      /\ blockIndex = headers[Len(headers)] /\ Formed(blockIndex)
      /\ Capacity(blockIndex) \in Nat \ {0}
  <2>1. /\ Len(headers) \in 1 .. Len(headers)
        /\ blockIndex = headers[Len(headers)] /\ Formed(blockIndex)
    BY LatestFacts
  <2>2. Capacity(blockIndex) \in Nat \ {0}
    BY <2>1, FormedFacts
  <2>3. Len(headers) \in Nat
    BY DEF Shape
  <2> QED
    BY <2>1, <2>2, <2>3
<1>2. N \in UNION {Header(n) : n \in 1 .. MaxCapacity}
  <2>1. N \in Header(Capacity(N)) /\ Capacity(N) \in 1 .. MaxCapacity
    BY FormedFacts
  <2> QED
    BY <2>1
<1>3. /\ headers' \in Seq({g \in UNION {Header(n) : n \in 1 .. MaxCapacity} : Formed(g)})
      /\ Len(headers') = Len(headers) + 1
      /\ \A i \in 1 .. Len(headers) : headers'[i] = headers[i]
      /\ headers'[Len(headers) + 1] = N
  <2> DEFINE S == {g \in UNION {Header(n) : n \in 1 .. MaxCapacity} : Formed(g)}
  <2>1. headers \in Seq(S) /\ N \in S
    BY <1>2 DEF Shape
  <2> HIDE DEF S
  <2>2. /\ headers' \in Seq(S) /\ Len(headers') = Len(headers) + 1
        /\ \A i \in 1 .. Len(headers) : headers'[i] = headers[i]
        /\ headers'[Len(headers) + 1] = N
    BY <2>1
  <2> QED
    BY <2>2 DEF S
<1>4. blockIndex' = N
  BY <1>1, <1>3 DEF blockIndex, Last
<1>5. ASSUME NEW i \in 1 .. Len(headers')
      PROVE  /\ Capacity(headers'[i]) =
                  IF i = 1 THEN InitialCapacity ELSE 2 * Capacity(headers'[i - 1])
             /\ Divides(Capacity(headers'[i]), Capacity(N))
  <2>1. CASE i \in 1 .. Len(headers)
    <3>1. headers'[i] = headers[i] /\ (i # 1 => headers'[i - 1] = headers[i - 1])
      BY <1>1, <1>3, <2>1
    <3>2. /\ Capacity(headers[i]) =
               IF i = 1 THEN InitialCapacity ELSE 2 * Capacity(headers[i - 1])
          /\ Divides(Capacity(headers[i]), Capacity(blockIndex))
      BY <2>1 DEF Shape
    <3>3. Divides(Capacity(headers[i]), Capacity(N))
      <4>1. PICK a \in Int : a = Capacity(headers[i])
        <5>1. Formed(headers[i])
          BY <2>1, HeaderFacts
        <5> QED
          BY <5>1, FormedFacts
      <4>2. PICK k \in Int : Capacity(blockIndex) = a * k
        BY <3>2, <4>1 DEF Divides
      <4>3. Capacity(N) = a * (2 * k) /\ 2 * k \in Int
        BY <4>2
      <4> QED
        BY <4>1, <4>3 DEF Divides
    <3> QED
      BY <3>1, <3>2, <3>3
  <2>2. CASE i = Len(headers) + 1
    <3>1. headers'[i] = N /\ headers'[i - 1] = blockIndex /\ i # 1
      BY <1>1, <1>3, <2>2
    <3>2. Divides(Capacity(N), Capacity(N))
      <4>1. PICK a \in Int : a = Capacity(N)
        BY FormedFacts
      <4>2. a = a * 1
        OBVIOUS
      <4> QED
        BY <4>1, <4>2 DEF Divides
    <3> QED
      BY <3>1, <3>2
  <2> QED
    BY <1>1, <1>3, <2>1, <2>2
<1>6. Shape'
  BY <1>3, <1>4, <1>5 DEF Shape
<1> QED
  BY <1>1, <1>3, <1>4, <1>6

(* The old index stays as it is, and the new one goes on from there.       *)
LEMMA GrownKeys ==
  ASSUME NEW t \in Int, NEW h \in Int, NEW K \in Numbers, Control(t), Shape, Keys(t, h, K),
         headers # <<>>, Valid(idxEntry), K[idxEntry] <= TailNum(t),
         2 * Capacity(blockIndex) <= MaxCapacity,
         headers' = Append(headers, NewHeader(blockIndex)),
         UNCHANGED <<key, value>>, TailNum(t)' = TailNum(t), Active(t, h)' => Active(t, h)
  PROVE  Keys(t, h, K)' /\ ~Valid(idxEntry)'
<1>1. PICK C \in Nat, T \in Int, r \in Int :
        /\ C = Capacity(blockIndex) /\ T = TailNum(t) /\ r = blockIndex.tail /\ C >= 1
        /\ Formed(blockIndex) /\ r \in 0 .. C - 1 /\ DOMAIN blockIndex.index = 0 .. C - 1
  <2>1. Formed(blockIndex) /\ TailNum(t) \in Int
    BY LatestFacts, CallFacts
  <2>2. Capacity(blockIndex) \in Nat \ {0} /\ blockIndex.tail \in 0 .. Capacity(blockIndex) - 1
    BY <2>1, FormedFacts
  <2>3. Capacity(blockIndex) \in Nat /\ Capacity(blockIndex) >= 1 /\ blockIndex.tail \in Int
    BY <2>2
  <2>4. DOMAIN blockIndex.index = 0 .. Capacity(blockIndex) - 1
    BY <2>1, FormedFacts
  <2> QED
    BY <2>1, <2>2, <2>3, <2>4
<1>0. C >= 1 /\ C \in Nat \ {0} /\ r \in 0 .. C - 1
  BY <1>1
<1>2. PICK N : N = NewHeader(blockIndex)
  OBVIOUS
<1>3. /\ Formed(N) /\ Capacity(N) = 2 * C /\ N.tail = C - 1
      /\ DOMAIN N.index = 0 .. 2 * C - 1
      /\ \A p \in DOMAIN blockIndex.index : \E i \in 0 .. C - 1 :
           i \in DOMAIN N.index /\ N.index[i] = blockIndex.index[p]
      /\ \A i \in 0 .. C - 1 : N.index[i] = blockIndex.index[After(r, C, i)]
      /\ \A i \in C .. 2 * C - 1 : N.index[i] = i
  <2>1. PICK g : g = blockIndex
    OBVIOUS
  <2>2. /\ Formed(g) /\ 2 * Capacity(g) <= MaxCapacity /\ N = NewHeader(g)
        /\ Capacity(g) = C /\ g.tail = r
    BY <1>1, <1>2, <2>1
  <2>3. /\ Formed(N) /\ Capacity(N) = 2 * Capacity(g) /\ N.tail = Capacity(g) - 1
        /\ DOMAIN N.index = 0 .. 2 * Capacity(g) - 1
        /\ \A p \in DOMAIN g.index : \E i \in 0 .. Capacity(g) - 1 :
             i \in DOMAIN N.index /\ N.index[i] = g.index[p]
        /\ \A i \in 0 .. Capacity(g) - 1 : N.index[i] = g.index[After(g.tail, Capacity(g), i)]
        /\ \A i \in Capacity(g) .. 2 * Capacity(g) - 1 : N.index[i] = i
    BY <2>2, NewHeaderFacts DEF Doubled
  <2> QED
    BY <2>1, <2>2, <2>3
<1>4. /\ blockIndex' = N /\ Len(headers') = Len(headers) + 1 /\ Len(headers) \in Nat
      /\ \A i \in 1 .. Len(headers) : headers'[i] = headers[i]
      /\ headers' # <<>>
  BY <1>1, <1>2, <1>3, GrownShape
<1>5. /\ \A p \in DOMAIN blockIndex.index : Valid(blockIndex.index[p])
      /\ \A i \in 0 .. C - 1 : K[blockIndex.index[After(r, C, i)]] = T + 1 - C + i
  BY <1>1, FullTurn
<1>6. \A e \in Entries : Valid(e)' <=> Valid(e)
  BY DEF Valid
<1>7. ASSUME NEW i \in 0 .. C - 1
      PROVE  Valid(N.index[i]) /\ K[N.index[i]] = T + 1 - C + i
  <2>1. After(r, C, i) \in DOMAIN blockIndex.index
    BY <1>0, <1>1, Rotated
  <2> QED
    BY <1>3, <1>5, <2>1
<1>8. /\ \A e \in Entries : Valid(e) => key[e] = Blk(K[e])
      /\ \A e \in Entries : e >= C => ~Valid(e) /\ value[e] = Garbage
      /\ \A i \in 1 .. Len(headers) - 1 : Frozen(K, headers[i])
      /\ key \in [Entries -> Bases \cup {INVALID_BLOCK_BASE}]
  BY <1>1 DEF Keys
<1>9. \A i \in C .. 2 * C - 1 : N.index[i] \in Entries /\ ~Valid(N.index[i])
  <2> TAKE i \in C .. 2 * C - 1
  <2>1. i \in DOMAIN N.index /\ N.index[i] = i /\ i >= C
    BY <1>1, <1>3
  <2>2. N.index[i] \in Entries
    BY <1>3, <2>1, FormedFacts
  <2> QED
    BY <1>8, <2>1, <2>2
<1>10. \A e \in Entries : e >= 2 * C => ~Valid(e) /\ value[e] = Garbage
  BY <1>1, <1>8, Kinds
<1>11. \A i \in 1 .. Len(headers') - 1 : Frozen(K, headers'[i])
  <2> TAKE i \in 1 .. Len(headers') - 1
  <2>1. i \in 1 .. Len(headers) /\ headers'[i] = headers[i]
    BY <1>4
  <2>2. CASE i \in 1 .. Len(headers) - 1
    BY <1>8, <2>1, <2>2
  <2>3. CASE i = Len(headers)
    <3>1. headers'[i] = blockIndex
      BY <2>1, <2>3, LatestFacts
    <3>2. \A p \in DOMAIN blockIndex.index :
            Cong(K[blockIndex.index[p]], p + (T - r), C)
      BY <1>1, <1>5 DEF Keys, Near
    <3>3. T - r \in Int
      BY <1>1
    <3>4. Frozen(K, blockIndex)
      BY <1>1, <1>5, <3>2, <3>3 DEF Frozen
    <3> QED
      BY <3>1, <3>4
  <2> QED
    BY <1>4, <2>1, <2>2, <2>3
<1>12. Near(t, K, N)
  <2> SUFFICES ASSUME NEW p \in DOMAIN N.index, Valid(N.index[p])
               PROVE  /\ Cong(K[N.index[p]], p + (T - N.tail), 2 * C)
                      /\ T - 2 * C < K[N.index[p]] /\ K[N.index[p]] <= T + 2 * C
    BY <1>1, <1>3 DEF Near
  <2>1. p \in 0 .. C - 1
    BY <1>1, <1>3, <1>9
  <2>7. K[N.index[p]] = T + 1 - C + p
    BY <1>7, <2>1
  <2>2. PICK n \in Int : n = K[N.index[p]] /\ n = T + 1 - C + p
    <3>1. T + 1 - C + p \in Int
      BY <1>0, <2>1
    <3> QED
      BY <2>7, <3>1
  <2>3. n = p + (T - N.tail)
    BY <1>1, <1>3, <2>1, <2>2
  <2>4. PICK M \in Int : M = 2 * C
    BY <1>1
  <2>5. Cong(n, n, M)
    BY CongSame
  <2>6. T - 2 * C < n /\ n <= T + 2 * C
    <3>1. n = T + 1 - C + p
      BY <2>2
    <3> QED
      BY <1>0, <2>1, <3>1
  <2> QED
    BY <2>2, <2>3, <2>4, <2>5, <2>6
<1>13. \A n \in Int : Has(K, n) => Has(K, n)'
  <2> SUFFICES ASSUME NEW n \in Int, Has(K, n)
               PROVE  \E i \in DOMAIN N.index : Valid(N.index[i])' /\ K[N.index[i]] = n
    BY <1>4 DEF Has
  <2>1. PICK p \in DOMAIN blockIndex.index :
          Valid(blockIndex.index[p]) /\ K[blockIndex.index[p]] = n
    BY DEF Has
  <2>2. PICK i \in 0 .. C - 1 : i \in DOMAIN N.index /\ N.index[i] = blockIndex.index[p]
    BY <1>3, <2>1
  <2> QED
    BY <2>1, <2>2 DEF Valid
<1>14. \A n \in T + 1 - C .. T : Has(K, n)'
  <2> SUFFICES ASSUME NEW n \in T + 1 - C .. T
               PROVE  \E i \in DOMAIN N.index : Valid(N.index[i])' /\ K[N.index[i]] = n
    BY <1>4 DEF Has
  <2>1. PICK i \in Int : i = n - (T + 1 - C)
    OBVIOUS
  <2>2. i \in 0 .. C - 1 /\ T + 1 - C + i = n
    BY <1>0, <2>1
  <2>3. i \in DOMAIN N.index
    BY <1>1, <1>3, <2>2
  <2> QED
    BY <1>7, <2>2, <2>3 DEF Valid
<1>15. ASSUME NEW p \in DOMAIN N.index, Valid(N.index[p])
       PROVE  \A n \in K[N.index[p]] .. T : Has(K, n)'
  <2>1. p \in 0 .. C - 1
    <3>1. p \in 0 .. 2 * C - 1 /\ p \notin C .. 2 * C - 1
      BY <1>3, <1>9, <1>15
    <3> QED
      BY <1>0, <3>1
  <2>2. K[N.index[p]] = T + 1 - C + p
    BY <1>7, <2>1
  <2>3. ASSUME NEW n \in K[N.index[p]] .. T PROVE n \in T + 1 - C .. T
    BY <1>1, <2>1, <2>2, <2>3
  <2> QED
    BY <1>14, <2>3
<1>16. \A n \in Before(t) + 1 .. T : Has(K, n)
  BY <1>1 DEF Keys
<1>17. Active(t, h) => \A n \in Before(t) .. T : Has(K, n)
  BY <1>1 DEF Keys
<1>18. Before(t) \in Int /\ Before(t)' = Before(t)
  BY CallFacts DEF Before
<1>19. Near(t, K, N)'
  BY <1>12 DEF Near, Valid
<1>20. (\A i \in 1 .. Len(headers) - 1 : Frozen(K, headers[i]))'
  BY <1>11 DEF Frozen, Valid
<1>21. Keys(t, h, K)'
  <2>1. /\ key' \in [Entries -> Bases \cup {INVALID_BLOCK_BASE}]
        /\ \A e \in Entries : Valid(e)' => key'[e] = Blk(K[e])
    BY <1>6, <1>8
  <2>2. \A e \in Entries : headers' = <<>> \/ e >= Capacity(blockIndex') =>
          ~Valid(e)' /\ value'[e] = Garbage
    BY <1>3, <1>4, <1>6, <1>10
  <2>3. (\A p \in DOMAIN blockIndex.index : LET e == blockIndex.index[p] IN
           Valid(e) => \A n \in K[e] .. TailNum(t) : Has(K, n))'
    <3>1. \A p \in DOMAIN N.index :
            key'[N.index[p]] # INVALID_BLOCK_BASE =>
              \A n \in K[N.index[p]] .. TailNum(t)' : Has(K, n)'
      BY <1>1, <1>15 DEF Valid
    <3> QED
      BY <1>4, <3>1 DEF Valid
  <2>4. \A n \in Before(t)' + 1 .. TailNum(t)' : Has(K, n)'
    BY <1>1, <1>13, <1>16, <1>18
  <2>5. Active(t, h)' => \A n \in Before(t)' .. TailNum(t)' : Has(K, n)'
    BY <1>1, <1>13, <1>17, <1>18
  <2>6. Near(t, K, blockIndex)'
    BY <1>4, <1>19 DEF Near, Valid
  <2> QED
    BY <1>4, <1>20, <2>1, <2>2, <2>3, <2>4, <2>5, <2>6 DEF Keys
<1>22. ~Valid(idxEntry)'
  <2>1. NewTail' = C
    <3>1. NewTail' = ((C - 1) + 1) % (2 * C)
      BY <1>3, <1>4 DEF NewTail, Next1
    <3>2. PICK M \in Nat \ {0} : M = 2 * C /\ C \in 0 .. M - 1
      BY <1>1
    <3>3. C % M = C
      <4>1. M \in Int /\ C \in Int /\ Cong(C, C, M)
        BY CongSame
      <4> QED
        BY <3>2, <4>1, CongIsMod
    <3>4. (C - 1) + 1 = C
      OBVIOUS
    <3> QED
      BY <3>1, <3>2, <3>3, <3>4
  <2>2. C \in C .. 2 * C - 1
    BY <1>1
  <2> QED
    BY <1>4, <1>9, <2>1, <2>2 DEF idxEntry, Valid
<1> QED
  BY <1>21, <1>22

LEMMA NewBlockIndexStep ==
  ASSUME NEW t \in Int, NEW h \in Int, NEW f \in Firsts, NEW K \in Numbers,
         NEW own \in SUBSET Int, Good(t, h, f, K, own), NewBlockIndex
  PROVE  Good(t, h, f, K, own)'
<1>1. /\ Control(t) /\ Shape /\ Keys(t, h, K) /\ Owning(t, own) /\ Tails(t, own)
      /\ Values(t, K, own) /\ Claimed(t, h, f) /\ Counted(t, h, f, own) /\ Seen(f, K)
      /\ Ended
  BY DEF Good
<1>2. CASE GiveUp("grow") /\ UNCHANGED headers
  <2>1. UNCHANGED stillVars
    BY <1>2 DEF NewBlockIndex, stillVars, calmVars, blockVars, callVars, restVars
  <2> QED
    BY <1>2, <2>1, GiveUpStep
<1>3. CASE /\ At("grow", "key")
           /\ 2 * Capacity(blockIndex) <= MaxCapacity
           /\ headers' = Append(headers, NewHeader(blockIndex))
  <2>1. /\ step = "grow" /\ step' = "key"
        /\ UNCHANGED <<tailIndex, headIndex, tailBlock, fresh, undone, owned, sent, bulk, count,
                       startBlock, cur, key, value, elementsCompletelyDequeued, destroyed>>
        /\ UNCHANGED consumerVars /\ UNCHANGED pc
        /\ 2 * Capacity(blockIndex) <= MaxCapacity
        /\ headers' = Append(headers, NewHeader(blockIndex))
    BY <1>3 DEF NewBlockIndex, At, blockVars, callVars, restVars, consumerVars
  <2>2. /\ headers # <<>> /\ Valid(idxEntry) /\ K[idxEntry] <= TailNum(t)
        /\ Formed(blockIndex)
    BY <1>1, <2>1, LatestFacts DEF Keys, Values
  <2>3. PICK N : N = NewHeader(blockIndex)
    OBVIOUS
  <2>4. Doubled(blockIndex, N)
    BY <2>1, <2>2, <2>3, NewHeaderFacts
  <2>5. /\ Shape' /\ blockIndex' = N /\ Len(headers') = Len(headers) + 1
        /\ Len(headers) \in Nat
        /\ \A i \in 1 .. Len(headers) : headers'[i] = headers[i]
        /\ headers' # <<>>
    BY <1>1, <2>1, <2>2, <2>3, <2>4, GrownShape DEF Doubled
  <2>6. Ensuing(t)' = Ensuing(t) /\ TailNum(t)' = TailNum(t) /\ Active(t, h)' = Active(t, h)
    BY <2>1 DEF Ensuing, Before, TailNum, Moved, SingleNew, AtBase, Begins, Active
  <2>7. /\ HasCur(t) /\ HasCur(t)' /\ InCall /\ InCall' /\ ~Extra(t) /\ ~Extra(t)'
        /\ ~Reverting /\ ~Reverting'
    BY <2>1 DEF HasCur, InCall, Extra, Reverting
  <2>8. Control(t)'
    BY <1>1, <2>1, <2>6, <2>7 DEF Control, Steps
  <2>9. Owning(t, own)' /\ Tails(t, own)'
    BY <1>1, <2>1, <2>6, <2>7 DEF Owning, Tails, SingleNew
  <2>10. Keys(t, h, K)' /\ ~Valid(idxEntry)'
    BY <1>1, <2>1, <2>2, <2>6, GrownKeys
  <2>11. Claimed(t, h, f)' /\ Counted(t, h, f, own)'
    BY <1>1, <2>1, ClaimedKept, CountedKept
  <2>12. Seen(f, K)'
    <3>1. Len(headers) \in 0 .. Len(headers') /\ Len(headers') \in Nat
      BY <2>5
    <3>2. \A i \in 1 .. Len(headers) : headers'[i].index = headers[i].index
      BY <2>5
    <3>3. \A e \in Entries : Valid(e) => Valid(e)'
      BY <2>1 DEF Valid
    <3>4. \A e \in Entries, n \in Int : n <= Before(t) /\ Holds(K, e, n) => Holds(K, e, n)'
      BY <2>1 DEF Holds
    <3> QED
      BY <1>1, <2>1, <3>1, <3>2, <3>3, <3>4, SeenStays
  <2>13. \A n \in Int : Stored(K, n) => Stored(K, n)'
    <3> SUFFICES ASSUME NEW n \in Int, Stored(K, n)
                 PROVE  \E i \in DOMAIN N.index : value[N.index[i]] = Blk(n) /\ K[N.index[i]] = n
      BY <2>1, <2>5 DEF Stored
    <3>1. PICK p \in DOMAIN blockIndex.index :
            value[blockIndex.index[p]] = Blk(n) /\ K[blockIndex.index[p]] = n
      BY DEF Stored
    <3>2. PICK i \in DOMAIN N.index : N.index[i] = blockIndex.index[p]
      BY <2>4, <3>1 DEF Doubled
    <3> QED
      BY <3>1, <3>2
  <2>14. Values(t, K, own)'
    <3>1. \A e \in Entries : Valid(e)' <=> Valid(e)
      BY <2>1 DEF Valid
    <3>2. \A n \in own : Unstored(t, n)' <=> Unstored(t, n)
      BY <2>1, <2>6 DEF Unstored, Before
    <3>3. \A e \in Entries : ~InFlight(t, e)
      BY <2>1 DEF InFlight
    <3>4. Usable(idxEntry)'
      BY <2>10 DEF Usable, Valid
    <3>5. value' \in [Entries -> Bases \cup {Null, Garbage}]
      BY <1>1, <2>1 DEF Values
    <3>6. \A e \in Entries : value'[e] \in Bases =>
            Valid(e)' /\ value'[e] = Blk(K[e]) /\ K[e] \in own /\ ~Unstored(t, K[e])'
      BY <1>1, <2>1, <3>1, <3>2 DEF Values
    <3>7. \A n \in own : Unstored(t, n)' \/ Stored(K, n)'
      BY <1>1, <2>13, <3>2 DEF Values
    <3>8. \A e \in Entries : ~(Valid(e)' /\ value'[e] = Garbage)
      BY <1>1, <2>1, <3>1, <3>3 DEF Values
    <3> QED
      BY <2>1, <3>4, <3>5, <3>6, <3>7, <3>8 DEF Values
  <2>15. Ended'
    BY <1>1, <2>1 DEF Ended
  <2> QED
    BY <2>5, <2>8, <2>9, <2>10, <2>11, <2>12, <2>14, <2>15 DEF Good
<1> QED
  BY <1>2, <1>3 DEF NewBlockIndex

--------------------------------------------------------------------------------
(* While there is something in the stream it has a block.                  *)
LEMMA ActiveOwns ==
  ASSUME NEW t \in Int, NEW h \in Int, NEW f \in Firsts, NEW own \in SUBSET Int,
         Control(t), Owning(t, own), Claimed(t, h, f), Counted(t, h, f, own), Active(t, h)
  PROVE  \E n \in own : n <= Before(t)
<1>1. CASE h < t
  <2>1. PICK x \in Int : x = t - 1
    OBVIOUS
  <2>2. h <= x /\ x < t
    BY <1>1, <2>1
  <2>3. Undone(h, f, x)
    BY <2>2 DEF Undone
  <2>4. Num(x) \in own
    BY <2>2, <2>3 DEF Counted
  <2>5. Num(x) = Before(t) /\ Before(t) \in Int
    BY <2>1, CallFacts DEF Before
  <2> QED
    BY <2>4, <2>5
<1>2. CASE ~AtBase(t)
  <2>1. Before(t) \in own /\ Before(t) \in Int
    BY <1>2, CallFacts DEF Owning
  <2> QED
    BY <2>1
<1>3. CASE \E c \in Consumers : pc[c] # "idle"
  <2>1. PICK c \in Consumers : pc[c] # "idle"
    BY <1>3
  <2>2. f[c] \in Int /\ left[c] \in Nat /\ left[c] >= 1 /\ f[c] + left[c] <= h /\ h <= t
    BY <2>1, Kinds DEF Firsts, Claimed
  <2>3. CASE pc[c] = "unset"
    <3>1. Num(f[c]) \in own
      BY <2>3 DEF Counted
    <3>2. PICK x \in Int : x = t - 1 /\ f[c] <= x
      BY <2>2
    <3>3. Num(f[c]) <= Num(x)
      BY <2>2, <3>2, NumMonotone
    <3> QED
      BY <3>1, <3>2, <3>3 DEF Before
  <2>4. CASE pc[c] # "unset"
    <3>1. f[c] + Skipped(c) <= f[c] /\ f[c] < f[c] + left[c]
      BY <2>2, <2>4 DEF Skipped
    <3>2. Num(f[c]) \in own /\ Num(f[c]) <= Before(t)
      BY <2>1, <2>2, <3>1, InHandFacts
    <3> QED
      BY <3>2
  <2> QED
    BY <2>3, <2>4
<1> QED
  BY <1>1, <1>2, <1>3 DEF Active

(* The new key takes the place of the oldest one, or of one left over.     *)
WithNext(t, K) == [K EXCEPT ![idxEntry] = Ensuing(t)]

Replaced(t, K, own, L) ==
  /\ L \in Numbers /\ idxEntry \in Entries /\ headers # <<>>
  /\ L[idxEntry] = Ensuing(t) /\ Ensuing(t) = TailNum(t) + 1
  /\ \A e \in Entries : e # idxEntry => L[e] = K[e] /\ (Valid(e)' <=> Valid(e))
  /\ Valid(idxEntry)' /\ key'[idxEntry] = Blk(Ensuing(t))
  /\ key' \in [Entries -> Bases \cup {INVALID_BLOCK_BASE}]
  /\ value[idxEntry] \notin Bases
  /\ \A e \in Entries : e # idxEntry => key'[e] = key[e]
  /\ \A n \in own : n <= TailNum(t) =>
       \E p \in DOMAIN blockIndex.index : LET e == blockIndex.index[p] IN
         e # idxEntry /\ Valid(e) /\ value[e] = Blk(n) /\ K[e] = n

LEMMA ReplacedKey ==
  ASSUME NEW t \in Int, NEW h \in Int, NEW f \in Firsts, NEW K \in Numbers,
         NEW own \in SUBSET Int, Good(t, h, f, K, own), StoreKey
  PROVE  Replaced(t, K, own, WithNext(t, K))
<1>0. PICK L : L = [K EXCEPT ![idxEntry] = Ensuing(t)] /\ L = WithNext(t, K)
  BY DEF WithNext
<1>1. /\ Control(t) /\ Shape /\ Keys(t, h, K) /\ Owning(t, own) /\ Values(t, K, own)
  BY DEF Good
<1>2. step = "key" /\ key' = [key EXCEPT ![idxEntry] = cur]
  BY DEF StoreKey, At
<1>3. headers # <<>> /\ idxEntry \in Entries
  BY <1>1, <1>2, TailFacts DEF Keys
<1>4. /\ Ensuing(t) \in Int /\ cur = Blk(Ensuing(t)) /\ cur \in Bases
      /\ TailNum(t) \in Int
  BY <1>1, <1>2, CallFacts DEF Control, HasCur
<1>5. Ensuing(t) = TailNum(t) + 1 /\ undone = 0
  <2>1. Before(t) \in Int /\ Len(fresh) \in Nat /\ undone = 0 /\ ~Moved(t)
    BY <1>1, <1>2, CallFacts DEF Control, Reverting, Moved
  <2> QED
    BY <2>1 DEF Ensuing, TailNum
<1>6. L \in Numbers /\ L[idxEntry] = Ensuing(t) /\ \A e \in Entries : e # idxEntry => L[e] = K[e]
  BY <1>0, <1>3, <1>4 DEF Numbers
<1>7. /\ key' \in [Entries -> Bases \cup {INVALID_BLOCK_BASE}]
      /\ key'[idxEntry] = cur /\ cur # INVALID_BLOCK_BASE
      /\ \A e \in Entries : e # idxEntry => key'[e] = key[e]
  BY <1>1, <1>2, <1>3, <1>4, Kinds DEF Keys
<1>8. idxEntry \in Entries => (key'[idxEntry] # INVALID_BLOCK_BASE)
  BY <1>7
<1>9. value[idxEntry] \notin Bases
  BY <1>1, <1>2, <1>3, Kinds DEF Values, Usable, Valid
<1>10. \A e \in Entries : e # idxEntry => (Valid(e)' <=> Valid(e))
  BY <1>7 DEF Valid
<1>11. ASSUME NEW n \in own, n <= TailNum(t)
       PROVE  \E p \in DOMAIN blockIndex.index : LET e == blockIndex.index[p] IN
                e # idxEntry /\ Valid(e) /\ value[e] = Blk(n) /\ K[e] = n
  <2>1. ~Unstored(t, n)
    <3>1. n # Ensuing(t)
      BY <1>4, <1>5, <1>11
    <3>2. n \notin Before(t) + 1 .. Before(t) + undone
      BY <1>1, <1>5, CallFacts
    <3> QED
      BY <3>1, <3>2 DEF Unstored
  <2>2. PICK p \in DOMAIN blockIndex.index :
          value[blockIndex.index[p]] = Blk(n) /\ K[blockIndex.index[p]] = n
    BY <1>1, <2>1 DEF Values, Stored
  <2>3. Blk(n) \in Bases /\ blockIndex.index[p] \in Entries
    BY <1>1, <1>3, <2>2, BlkType, LatestFacts, FormedFacts
  <2>4. Valid(blockIndex.index[p]) /\ blockIndex.index[p] # idxEntry
    BY <1>1, <1>9, <2>2, <2>3 DEF Values
  <2> QED
    BY <2>2, <2>4
<1>12. headers' = headers
  BY DEF StoreKey
<1>13. Valid(idxEntry)'
  <2>1. idxEntry' = idxEntry
    BY <1>12 DEF idxEntry, NewTail, blockIndex
  <2> QED
    BY <1>7, <2>1 DEF Valid
<1> QED
  BY <1>0, <1>3, <1>4, <1>5, <1>6, <1>7, <1>9, <1>10, <1>11, <1>13 DEF Replaced

LEMMA StoredKeys ==
  ASSUME NEW t \in Int, NEW h \in Int, NEW f \in Firsts, NEW K \in Numbers,
         NEW own \in SUBSET Int, Good(t, h, f, K, own), StoreKey
  PROVE  \E L \in Numbers : L = WithNext(t, K) /\ Keys(t, h, L)'
<1>0. PICK L : L = WithNext(t, K)
  OBVIOUS
<1> HIDE <1>0
<1>r. Replaced(t, K, own, L)
  BY <1>0, ReplacedKey
<1>1. /\ Control(t) /\ Shape /\ Keys(t, h, K) /\ Owning(t, own) /\ Values(t, K, own)
      /\ Claimed(t, h, f) /\ Counted(t, h, f, own)
  BY DEF Good
<1>2. /\ L \in Numbers /\ idxEntry \in Entries /\ headers # <<>>
      /\ L[idxEntry] = Ensuing(t) /\ Ensuing(t) = TailNum(t) + 1
      /\ \A e \in Entries : e # idxEntry => L[e] = K[e] /\ (Valid(e)' <=> Valid(e))
      /\ Valid(idxEntry)' /\ key'[idxEntry] = Blk(Ensuing(t))
      /\ key' \in [Entries -> Bases \cup {INVALID_BLOCK_BASE}]
      /\ \A e \in Entries : e # idxEntry => key'[e] = key[e]
  BY <1>r DEF Replaced
<1>3. /\ step = "key" /\ step' = "tail"
      /\ UNCHANGED <<headers, value, tailIndex, fresh, undone, bulk, pc>>
  BY DEF StoreKey, At, callVars, restVars, consumerVars
<1>4. /\ blockIndex' = blockIndex /\ idxEntry' = idxEntry /\ TailNum(t)' = TailNum(t)
      /\ Before(t)' = Before(t) /\ Active(t, h)' = Active(t, h)
  BY <1>3 DEF blockIndex, idxEntry, NewTail, TailNum, Moved, SingleNew, Before, Active,
    AtBase, Begins
<1>5. PICK C \in Nat, T \in Int, r \in Int :
        /\ C = Capacity(blockIndex) /\ T = TailNum(t) /\ r = blockIndex.tail /\ C >= 1
        /\ Formed(blockIndex) /\ r \in 0 .. C - 1 /\ DOMAIN blockIndex.index = 0 .. C - 1
  <2>1. Formed(blockIndex) /\ TailNum(t) \in Int
    BY <1>1, <1>2, LatestFacts, CallFacts
  <2>2. Capacity(blockIndex) \in Nat \ {0} /\ blockIndex.tail \in 0 .. Capacity(blockIndex) - 1
        /\ DOMAIN blockIndex.index = 0 .. Capacity(blockIndex) - 1
    BY <2>1, FormedFacts
  <2>3. Capacity(blockIndex) \in Nat /\ Capacity(blockIndex) >= 1 /\ blockIndex.tail \in Int
    BY <2>2
  <2> QED
    BY <2>1, <2>2, <2>3
<1>05. C >= 1 /\ T \in Int /\ C \in Nat
  BY <1>5
<1>6. Valid(idxEntry) => K[idxEntry] = T + 1 - C \/ K[idxEntry] = T + 1
  BY <1>1, <1>2, <1>5, AfterTail
<1>7. L[idxEntry] = T + 1 /\ C \in Int /\ C \in Nat \ {0}
  BY <1>2, <1>5
<1>8. \A e \in Entries : Valid(e)' => key'[e] = Blk(L[e])
  BY <1>1, <1>2 DEF Keys
<1>9. \A e \in Entries : e >= C => ~Valid(e)' /\ value'[e] = Garbage
  <2>1. idxEntry \in 0 .. C - 1
    <3>1. NewTail \in DOMAIN blockIndex.index /\ idxEntry = blockIndex.index[NewTail]
      BY <1>1, <1>2, TailFacts
    <3>2. \A p \in DOMAIN blockIndex.index : blockIndex.index[p] \in 0 .. Capacity(blockIndex) - 1
      BY <1>5, FormedFacts
    <3> QED
      BY <1>5, <3>1, <3>2
  <2>2. \A e \in Entries : e >= C => e # idxEntry
    BY <1>5, <2>1
  <2> QED
    BY <1>1, <1>2, <1>3, <1>5, <2>2 DEF Keys
<1>10. (\A i \in 1 .. Len(headers) - 1 : Frozen(L, headers[i]))'
  <2> SUFFICES ASSUME NEW i \in 1 .. Len(headers) - 1
               PROVE  Frozen(L, headers[i])'
    BY <1>3
  <2>1. i \in 1 .. Len(headers)
    BY <1>1 DEF Shape
  <2>2. PICK g : g = headers[i] /\ Formed(g)
    BY <1>1, <2>1, HeaderFacts
  <2>3. PICK B \in Int : B = Capacity(g)
    BY <2>2, FormedFacts
  <2>4. PICK k \in Int : C = B * k
    BY <1>1, <1>5, <2>1, <2>2, <2>3, HeaderFacts
  <2>5. PICK o \in Int : \A p \in DOMAIN g.index :
          Valid(g.index[p]) /\ Cong(K[g.index[p]], p + o, B)
    BY <1>1, <2>2, <2>3 DEF Keys, Frozen
  <2>6. ASSUME NEW p \in DOMAIN g.index
        PROVE  key'[g.index[p]] # INVALID_BLOCK_BASE /\ Cong(L[g.index[p]], p + o, B)
    <3>1. g.index[p] \in Entries
      BY <2>2, FormedFacts
    <3>2. CASE g.index[p] # idxEntry
      BY <1>2, <2>5, <3>1, <3>2 DEF Valid
    <3>3. CASE g.index[p] = idxEntry
      <4>1. key'[idxEntry] # INVALID_BLOCK_BASE
        BY <1>2, <1>4 DEF Valid
      <4>2. PICK m \in Int, x \in Int : m = K[idxEntry] /\ x = p + o
        <5>1. p \in Int
          BY <2>2, FormedFacts
        <5> QED
          BY <1>2, <5>1 DEF Numbers
      <4>3. Cong(m, x, B) /\ (m = T + 1 - C \/ m = T + 1)
        BY <1>6, <2>5, <3>3, <4>2
      <4>4. PICK l \in Int : l = T + 1
        OBVIOUS
      <4>5. Cong(l, m, B)
        <5>1. l - m = C \/ l - m = 0
          BY <1>7, <4>3, <4>4
        <5>2. CASE l - m = C
          BY <2>4, <5>2 DEF Cong
        <5>3. CASE l - m = 0
          <6>1. l - m = B * 0
            BY <5>3
          <6> QED
            BY <6>1 DEF Cong
        <5> QED
          BY <5>1, <5>2, <5>3
      <4>6. Cong(l, x, B)
        BY <4>3, <4>5, CongTurn
      <4> QED
        BY <1>7, <3>3, <4>1, <4>2, <4>4, <4>6
    <3> QED
      BY <3>2, <3>3
  <2> QED
    BY <1>3, <2>2, <2>3, <2>6 DEF Frozen, Valid
<1>11. Near(t, L, blockIndex)'
  <2> SUFFICES ASSUME NEW p \in DOMAIN blockIndex.index,
                      key'[blockIndex.index[p]] # INVALID_BLOCK_BASE
               PROVE  /\ Cong(L[blockIndex.index[p]], p + (T - r), C)
                      /\ T - C < L[blockIndex.index[p]]
                      /\ L[blockIndex.index[p]] <= T + C
    BY <1>4, <1>5 DEF Near, Valid
  <2>1. blockIndex.index[p] \in Entries
    BY <1>5, FormedFacts
  <2>2. CASE blockIndex.index[p] # idxEntry
    <3>1. Valid(blockIndex.index[p])
      BY <1>2, <2>1, <2>2 DEF Valid
    <3>2. L[blockIndex.index[p]] = K[blockIndex.index[p]]
      BY <1>2, <2>1, <2>2
    <3> QED
      BY <1>1, <1>2, <1>5, <3>1, <3>2 DEF Keys, Near
  <2>3. CASE blockIndex.index[p] = idxEntry
    <3>1. p = NewTail /\ p \in Int /\ Cong(p, r + 1, C)
      BY <1>1, <1>2, <1>5, <2>3, TailFacts, FormedFacts
    <3>2. PICK l \in Int, c \in Int, d \in Int : l = T + 1 /\ c = r + 1 /\ d = T - r
      OBVIOUS
    <3>3. Cong(p + d, c + d, C)
      BY <1>7, <3>1, <3>2, CongSame, CongSum
    <3>4. c + d = l /\ p + d \in Int
      BY <3>1, <3>2
    <3>5. Cong(l, p + d, C)
      BY <1>7, <3>3, <3>4, CongTurn
    <3>6. T - C < l /\ l <= T + C
      BY <1>05, <3>2
    <3> QED
      BY <1>7, <2>3, <3>2, <3>5, <3>6
  <2> QED
    BY <2>2, <2>3
<1>12. ASSUME NEW p \in DOMAIN blockIndex.index, Valid(blockIndex.index[p]),
              blockIndex.index[p] # idxEntry, NEW n \in K[blockIndex.index[p]] .. T
       PROVE  Has(L, n)'
  <2>1. PICK q \in DOMAIN blockIndex.index :
          Valid(blockIndex.index[q]) /\ K[blockIndex.index[q]] = n
    BY <1>1, <1>2, <1>5, <1>12 DEF Keys, Has
  <2>2. blockIndex.index[q] \in Entries /\ blockIndex.index[p] \in Entries
    BY <1>5, <1>12, FormedFacts
  <2>3. CASE blockIndex.index[q] # idxEntry
    <3>1. L[blockIndex.index[q]] = n /\ key'[blockIndex.index[q]] # INVALID_BLOCK_BASE
      BY <1>2, <2>1, <2>2, <2>3 DEF Valid
    <3> QED
      BY <1>4, <3>1 DEF Has, Valid
  <2>4. CASE blockIndex.index[q] = idxEntry
    <3>1. PICK m \in Int : m = K[blockIndex.index[p]]
      BY <2>2 DEF Numbers
    <3>2. T - C < m
      BY <1>1, <1>2, <1>5, <1>12, <3>1 DEF Keys, Near
    <3>3. n = T + 1 - C \/ n = T + 1
      BY <1>6, <2>1, <2>4
    <3>4. m <= n /\ n <= T /\ n \in Int
      BY <1>12, <3>1
    <3>5. m = n
      BY <1>5, <3>2, <3>3, <3>4
    <3>6. blockIndex.index[p] = idxEntry
      BY <1>1, <1>12, <2>1, <2>2, <2>4, <3>1, <3>5, UniqueKey
    <3> QED
      BY <1>12, <3>6
  <2> QED
    BY <2>3, <2>4
<1>13. (\A p \in DOMAIN blockIndex.index : LET e == blockIndex.index[p] IN
          Valid(e) => \A n \in L[e] .. TailNum(t) : Has(L, n))'
  <2> SUFFICES ASSUME NEW p \in DOMAIN blockIndex.index,
                      key'[blockIndex.index[p]] # INVALID_BLOCK_BASE,
                      NEW n \in L[blockIndex.index[p]] .. T
               PROVE  Has(L, n)'
    BY <1>4, <1>5 DEF Valid
  <2>1. blockIndex.index[p] \in Entries
    BY <1>5, FormedFacts
  <2>2. CASE blockIndex.index[p] # idxEntry
    BY <1>2, <1>12, <2>1, <2>2 DEF Valid
  <2>3. CASE blockIndex.index[p] = idxEntry
    <3>1. n \in T + 1 .. T
      BY <1>7, <2>3
    <3> QED
      BY <3>1
  <2> QED
    BY <2>2, <2>3
<1>14. ASSUME NEW n \in own, n <= T, NEW m \in n .. T PROVE Has(L, m)'
  <2>1. PICK p \in DOMAIN blockIndex.index :
          /\ blockIndex.index[p] # idxEntry /\ Valid(blockIndex.index[p])
          /\ K[blockIndex.index[p]] = n
    BY <1>r, <1>5, <1>14 DEF Replaced
  <2> QED
    BY <1>12, <1>14, <2>1
<1>15. Before(t) \in Int /\ T >= Before(t) /\ Ensuing(t) - 1 = T
  <2>1. Before(t) \in Int /\ TailNum(t) >= Before(t)
    BY <1>1, CallFacts
  <2> QED
    BY <1>2, <1>5, <2>1
<1>16. \A n \in Before(t) + 1 .. T : Has(L, n)'
  <2> TAKE n \in Before(t) + 1 .. T
  <2>1. n \in own /\ n \in n .. T /\ n <= T
    BY <1>1, <1>15 DEF Owning
  <2> QED
    BY <1>14, <2>1
<1>17. Active(t, h) => \A n \in Before(t) .. T : Has(L, n)'
  <2> SUFFICES ASSUME Active(t, h), NEW n \in Before(t) .. T PROVE Has(L, n)'
    OBVIOUS
  <2>1. PICK m \in own : m <= Before(t)
    BY <1>1, ActiveOwns
  <2>2. m <= T /\ n \in m .. T /\ m \in Int
    BY <1>15, <2>1
  <2> QED
    BY <1>14, <2>2
<1>18. \A e \in Entries : (headers' = <<>> \/ e >= Capacity(blockIndex)') =>
         ~Valid(e)' /\ value'[e] = Garbage
  BY <1>2, <1>3, <1>4, <1>5, <1>9
<1>19. (\A n \in Before(t) + 1 .. TailNum(t) : Has(L, n))'
  BY <1>4, <1>5, <1>16
<1>20. (Active(t, h) => \A n \in Before(t) .. TailNum(t) : Has(L, n))'
  BY <1>4, <1>5, <1>17
<1>21. headers' # <<>>
  BY <1>2, <1>3
<1>22. Keys(t, h, L)'
  BY <1>2, <1>8, <1>10, <1>11, <1>13, <1>18, <1>19, <1>20, <1>21 DEF Keys
<1> QED
  BY <1>0, <1>2, <1>22

LEMMA StoreKeyStep ==
  ASSUME NEW t \in Int, NEW h \in Int, NEW f \in Firsts, NEW K \in Numbers,
         NEW own \in SUBSET Int, Good(t, h, f, K, own), StoreKey
  PROVE  \E L \in Numbers : Good(t, h, f, L, own)'
<1>1. /\ Control(t) /\ Shape /\ Keys(t, h, K) /\ Owning(t, own) /\ Tails(t, own)
      /\ Values(t, K, own) /\ Claimed(t, h, f) /\ Counted(t, h, f, own) /\ Seen(f, K)
      /\ Ended
  BY DEF Good
<1>2. PICK L \in Numbers : L = WithNext(t, K) /\ Keys(t, h, L)'
  BY StoredKeys
<1>20. Replaced(t, K, own, L)
  BY <1>2, ReplacedKey
<1>3. /\ L \in Numbers /\ idxEntry \in Entries /\ headers # <<>>
      /\ L[idxEntry] = Ensuing(t) /\ Ensuing(t) = TailNum(t) + 1
      /\ \A e \in Entries : e # idxEntry => L[e] = K[e] /\ (Valid(e)' <=> Valid(e))
      /\ Valid(idxEntry)' /\ value[idxEntry] \notin Bases
      /\ \A n \in own : n <= TailNum(t) =>
           \E p \in DOMAIN blockIndex.index : LET e == blockIndex.index[p] IN
             e # idxEntry /\ Valid(e) /\ value[e] = Blk(n) /\ K[e] = n
  BY <1>20 DEF Replaced
<1>4. /\ step = "key" /\ step' = "tail"
      /\ UNCHANGED <<tailIndex, headIndex, tailBlock, fresh, undone, owned, sent, bulk, count,
                     startBlock, cur, headers, value, elementsCompletelyDequeued, destroyed,
                     pc>>
      /\ UNCHANGED consumerVars
  BY DEF StoreKey, At, blockVars, callVars, restVars, consumerVars
<1>5. /\ Ensuing(t)' = Ensuing(t) /\ blockIndex' = blockIndex /\ idxEntry' = idxEntry
      /\ Shape'
  BY <1>1, <1>4 DEF Ensuing, Before, blockIndex, idxEntry, NewTail, Shape
<1>6. /\ HasCur(t) /\ HasCur(t)' /\ InCall /\ InCall' /\ ~Extra(t) /\ ~Extra(t)'
      /\ ~Reverting /\ ~Reverting'
  BY <1>4 DEF HasCur, InCall, Extra, Reverting
<1>7. Control(t)'
  BY <1>1, <1>4, <1>5, <1>6 DEF Control, Steps
<1>8. Owning(t, own)' /\ Tails(t, own)'
  BY <1>1, <1>4, <1>5, <1>6 DEF Owning, Tails, SingleNew
<1>9. Keys(t, h, L)'
  BY <1>2
<1>10. Claimed(t, h, f)' /\ Counted(t, h, f, own)'
  BY <1>1, <1>4, ClaimedKept, CountedKept
<1>11. \A e \in Entries : Valid(e) => Valid(e)'
  BY <1>3, <1>5 DEF Valid
<1>12. Seen(f, L)'
  <2>1. Len(headers) \in 0 .. Len(headers') /\ Len(headers') \in Nat
    BY <1>1, <1>4 DEF Shape
  <2>2. \A i \in 1 .. Len(headers) : headers'[i].index = headers[i].index
    BY <1>4
  <2>3. \A e \in Entries, n \in Int : n <= Before(t) /\ Holds(K, e, n) => Holds(L, e, n)'
    <3> SUFFICES ASSUME NEW e \in Entries, NEW n \in Int, Holds(K, e, n)
                 PROVE  Holds(L, e, n)'
      OBVIOUS
    <3>1. e # idxEntry
      BY <1>3, BlkType DEF Holds
    <3> QED
      BY <1>3, <1>4, <3>1 DEF Holds
  <2> QED
    BY <1>1, <1>3, <1>4, <1>11, <2>1, <2>2, <2>3, SeenStays
<1>13. Values(t, L, own)'
  <2>1. \A n \in own : (Unstored(t, n)' <=> Unstored(t, n)) /\ (Unstored(t, n) \/ n <= TailNum(t))
    <3> TAKE n \in own
    <3>1. Unstored(t, n)' <=> Unstored(t, n)
      BY <1>4, <1>5 DEF Unstored, Before
    <3>2. n <= TailNum(t)
      <4>1. n < Ensuing(t)
        BY <1>1, <1>4, <1>6 DEF Owning
      <4>2. TailNum(t) \in Int /\ n \in Int
        BY <1>1, CallFacts
      <4> QED
        BY <1>3, <4>1, <4>2
    <3> QED
      BY <3>1, <3>2
  <2>2. \A e \in Entries : value'[e] \in Bases =>
          Valid(e)' /\ value'[e] = Blk(L[e]) /\ L[e] \in own /\ ~Unstored(t, L[e])'
    <3> SUFFICES ASSUME NEW e \in Entries, value'[e] \in Bases
                 PROVE  Valid(e)' /\ value'[e] = Blk(L[e]) /\ L[e] \in own
                        /\ ~Unstored(t, L[e])'
      OBVIOUS
    <3>1. e # idxEntry /\ L[e] = K[e] /\ value'[e] = value[e]
      BY <1>3, <1>4
    <3>2. Valid(e) /\ value[e] = Blk(K[e]) /\ K[e] \in own /\ ~Unstored(t, K[e])
      BY <1>1, <3>1 DEF Values
    <3> QED
      BY <1>11, <2>1, <3>1, <3>2
  <2>3. \A n \in own : Unstored(t, n)' \/ Stored(L, n)'
    <3> SUFFICES ASSUME NEW n \in own, n <= TailNum(t) PROVE Stored(L, n)'
      BY <2>1
    <3>1. PICK p \in DOMAIN blockIndex.index :
            /\ blockIndex.index[p] # idxEntry /\ value[blockIndex.index[p]] = Blk(n)
            /\ K[blockIndex.index[p]] = n
      BY <1>3
    <3>2. blockIndex.index[p] \in Entries
      BY <1>1, <1>3, <3>1, LatestFacts, FormedFacts
    <3>3. L[blockIndex.index[p]] = n
      BY <1>3, <3>1, <3>2
    <3> QED
      BY <1>3, <1>4, <1>5, <3>1, <3>3 DEF Stored
  <2>4. \A e \in Entries : Valid(e)' /\ value'[e] = Garbage => InFlight(t, e)'
    <3> SUFFICES ASSUME NEW e \in Entries, e # idxEntry, Valid(e)', value'[e] = Garbage
                 PROVE  FALSE
      BY <1>4, <1>5 DEF InFlight
    <3>1. Valid(e) /\ value[e] = Garbage
      BY <1>3, <1>4
    <3> QED
      BY <1>1, <1>4, <3>1 DEF Values, InFlight
  <2>5. Valid(idxEntry)' /\ L[idxEntry'] = Ensuing(t)'
    BY <1>3, <1>5
  <2>6. value' \in [Entries -> Bases \cup {Null, Garbage}]
    BY <1>1, <1>4 DEF Values
  <2> QED
    BY <1>4, <2>2, <2>3, <2>4, <2>5, <2>6 DEF Values
<1>14. Ended'
  BY <1>1, <1>4 DEF Ended
<1> QED
  BY <1>3, <1>5, <1>7, <1>8, <1>9, <1>10, <1>12, <1>13, <1>14 DEF Good

--------------------------------------------------------------------------------
(* The steps that move the tail of the index.                              *)
LEMMA MovedTail ==
  ASSUME Shape, headers # <<>>, NEW q \in DOMAIN blockIndex.index, MoveTail(q)
  PROVE  /\ Shape' /\ headers' # <<>> /\ Len(headers') = Len(headers) /\ Len(headers) \in Nat
         /\ blockIndex'.index = blockIndex.index /\ blockIndex'.tail = q
         /\ Capacity(blockIndex)' = Capacity(blockIndex)
         /\ \A i \in 1 .. Len(headers) : headers'[i].index = headers[i].index
         /\ tailEntry' = blockIndex.index[q]
<1>1. /\ Len(headers) \in Nat /\ Len(headers) \in 1 .. Len(headers)
      /\ blockIndex = headers[Len(headers)] /\ Formed(blockIndex)
      /\ \A i \in 1 .. Len(headers) : Formed(headers[i])
  <2>1. /\ Len(headers) \in 1 .. Len(headers)
        /\ blockIndex = headers[Len(headers)] /\ Formed(blockIndex)
    BY LatestFacts
  <2>2. \A i \in 1 .. Len(headers) : Formed(headers[i])
    BY HeaderFacts
  <2>3. Len(headers) \in Nat
    BY DEF Shape
  <2> QED
    BY <2>1, <2>2, <2>3
<1>2. PICK n \in 1 .. MaxCapacity :
        /\ blockIndex \in Header(n) /\ Divides(n, MaxCapacity)
        /\ \A p, r \in 0 .. n - 1 : blockIndex.index[p] = blockIndex.index[r] => p = r
        /\ \A p \in 0 .. n - 1 : blockIndex.index[p] \in 0 .. n - 1
        /\ \A e \in 0 .. n - 1 : \E p \in 0 .. n - 1 : blockIndex.index[p] = e
  BY <1>1 DEF Formed
<1>3. PICK N : N = [blockIndex EXCEPT !.tail = q]
  OBVIOUS
<1>4. q \in 0 .. n - 1 /\ N \in Header(n) /\ N.index = blockIndex.index /\ N.tail = q
  BY <1>2, <1>3 DEF Header
<1>5. Formed(N)
  <2>1. /\ N \in Header(n) /\ Divides(n, MaxCapacity)
        /\ \A p, r \in 0 .. n - 1 : N.index[p] = N.index[r] => p = r
        /\ \A p \in 0 .. n - 1 : N.index[p] \in 0 .. n - 1
        /\ \A e \in 0 .. n - 1 : \E p \in 0 .. n - 1 : N.index[p] = e
    BY <1>2, <1>4
  <2> QED
    BY <2>1 DEF Formed
<1>6. headers' = [headers EXCEPT ![Len(headers)] = N]
  BY <1>1, <1>3 DEF MoveTail
<1>7. /\ headers' \in Seq({g \in UNION {Header(m) : m \in 1 .. MaxCapacity} : Formed(g)})
      /\ Len(headers') = Len(headers)
      /\ headers'[Len(headers)] = N
      /\ \A i \in 1 .. Len(headers) : i # Len(headers) => headers'[i] = headers[i]
  <2> DEFINE S == {g \in UNION {Header(m) : m \in 1 .. MaxCapacity} : Formed(g)}
  <2>1. headers \in Seq(S) /\ N \in S
    BY <1>4, <1>5 DEF Shape
  <2> HIDE DEF S
  <2>2. /\ headers' \in Seq(S) /\ Len(headers') = Len(headers)
        /\ headers'[Len(headers)] = N
        /\ \A i \in 1 .. Len(headers) : i # Len(headers) => headers'[i] = headers[i]
    BY <1>1, <1>6, <2>1
  <2> QED
    BY <2>2 DEF S
<1>8. blockIndex' = N /\ headers' # <<>>
  BY <1>1, <1>7 DEF blockIndex, Last
<1>9. \A i \in 1 .. Len(headers) : headers'[i].index = headers[i].index
  BY <1>1, <1>4, <1>7
<1>10. \A i \in 1 .. Len(headers) : Capacity(headers'[i]) = Capacity(headers[i])
  BY <1>9 DEF Capacity
<1>11. Capacity(blockIndex)' = Capacity(blockIndex)
  BY <1>4, <1>8 DEF Capacity
<1>12. Shape'
  <2>1. \A i \in 1 .. Len(headers) :
          /\ Capacity(headers'[i]) =
               IF i = 1 THEN InitialCapacity ELSE 2 * Capacity(headers'[i - 1])
          /\ Divides(Capacity(headers'[i]), Capacity(blockIndex)')
    <3> TAKE i \in 1 .. Len(headers)
    <3>1. i # 1 => i - 1 \in 1 .. Len(headers)
      BY <1>1
    <3> QED
      BY <1>10, <1>11, <3>1 DEF Shape
  <2> QED
    BY <1>7, <2>1 DEF Shape
<1>13. tailEntry' = blockIndex.index[q]
  BY <1>4, <1>8 DEF tailEntry
<1> QED
  BY <1>1, <1>4, <1>7, <1>8, <1>9, <1>11, <1>12, <1>13

LEMMA MovedKeys ==
  ASSUME NEW t \in Int, NEW h \in Int, NEW K \in Numbers, Control(t), Shape, Keys(t, h, K),
         headers # <<>>, NEW q \in DOMAIN blockIndex.index, MoveTail(q),
         UNCHANGED <<key, value>>, Active(t, h)' => Active(t, h),
         NEW d \in Int, d = 1 \/ d = -1, TailNum(t)' = TailNum(t) + d,
         Cong(q, blockIndex.tail + d, Capacity(blockIndex)),
         \A p \in DOMAIN blockIndex.index : Valid(blockIndex.index[p]) =>
           /\ TailNum(t) + d - Capacity(blockIndex) < K[blockIndex.index[p]]
           /\ K[blockIndex.index[p]] <= TailNum(t) + d + Capacity(blockIndex),
         d = 1 => Has(K, TailNum(t) + 1)
  PROVE  Keys(t, h, K)'
<1>1. /\ headers' # <<>> /\ Len(headers') = Len(headers)
      /\ blockIndex'.index = blockIndex.index /\ blockIndex'.tail = q
      /\ Capacity(blockIndex)' = Capacity(blockIndex)
      /\ \A i \in 1 .. Len(headers) : headers'[i].index = headers[i].index
  BY MovedTail
<1>2. PICK C \in Nat, T \in Int, r \in Int :
        /\ C = Capacity(blockIndex) /\ T = TailNum(t) /\ r = blockIndex.tail
        /\ DOMAIN blockIndex.index = 0 .. C - 1
        /\ \A p \in DOMAIN blockIndex.index : blockIndex.index[p] \in Entries
  <2>1. Formed(blockIndex) /\ TailNum(t) \in Int
    BY LatestFacts, CallFacts
  <2>2. Capacity(blockIndex) \in Nat \ {0} /\ blockIndex.tail \in 0 .. Capacity(blockIndex) - 1
        /\ DOMAIN blockIndex.index = 0 .. Capacity(blockIndex) - 1
        /\ \A p \in DOMAIN blockIndex.index : blockIndex.index[p] \in Entries
    BY <2>1, FormedFacts
  <2>3. Capacity(blockIndex) \in Nat /\ blockIndex.tail \in Int
    BY <2>2
  <2> QED
    BY <2>1, <2>2, <2>3
<1>3. \A n \in Int : Has(K, n)' <=> Has(K, n)
  BY <1>1 DEF Has, Valid
<1>4. (\A i \in 1 .. Len(headers) - 1 : Frozen(K, headers[i]))'
  <2> SUFFICES ASSUME NEW i \in 1 .. Len(headers) - 1 PROVE Frozen(K, headers[i])'
    BY <1>1
  <2>1. Frozen(K, headers[i]) /\ headers'[i].index = headers[i].index
    <3>1. i \in 1 .. Len(headers)
      BY DEF Shape
    <3> QED
      BY <1>1, <3>1 DEF Keys
  <2> QED
    BY <2>1 DEF Frozen, Valid, Capacity
<1>5. Near(t, K, blockIndex)'
  <2> SUFFICES ASSUME NEW p \in DOMAIN blockIndex.index,
                      key'[blockIndex.index[p]] # INVALID_BLOCK_BASE
               PROVE  /\ Cong(K[blockIndex.index[p]], p + ((T + d) - q), C)
                      /\ T + d - C < K[blockIndex.index[p]]
                      /\ K[blockIndex.index[p]] <= T + d + C
    <3>1. /\ DOMAIN blockIndex'.index = DOMAIN blockIndex.index
          /\ TailNum(t)' = T + d /\ blockIndex'.tail = q /\ Capacity(blockIndex)' = C
          /\ blockIndex'.index = blockIndex.index
      BY <1>1, <1>2
    <3> QED
      BY <3>1 DEF Near, Valid
  <2>1. PICK n \in Int : n = K[blockIndex.index[p]]
    BY <1>2 DEF Numbers
  <2>2. Cong(n, p + (T - r), C)
    BY <1>2, <2>1 DEF Keys, Near, Valid
  <2>3. q \in Int /\ p \in Int /\ C \in Int
    BY <1>2
  <2>31. PICK x \in Int : x = p + (T - r)
    BY <2>3
  <2>32. PICK z \in Int : z = p + ((T + d) - q)
    BY <2>3
  <2>33. PICK w \in Int : w = p + T + d
    BY <2>3
  <2>34. PICK y \in Int : y = r + d
    OBVIOUS
  <2>4. z = w - q /\ x = w - y
    BY <2>3, <2>31, <2>32, <2>33, <2>34
  <2>5. Cong(q, y, C)
    BY <1>2, <2>34
  <2>6. Cong(z, x, C)
    <3>1. Cong(w, w, C)
      BY <2>3, CongSame
    <3>2. Cong(w - q, w - y, C)
      BY <2>3, <2>5, <3>1, CongSum
    <3> QED
      BY <2>4, <3>2
  <2>7. Cong(n, z, C)
    BY <2>2, <2>3, <2>31, <2>6, CongTurn
  <2>8. T + d - C < n /\ n <= T + d + C
    <3>1. Valid(blockIndex.index[p])
      BY DEF Valid
    <3>2. TailNum(t) + d - Capacity(blockIndex) < n /\ n <= TailNum(t) + d + Capacity(blockIndex)
      BY <2>1, <3>1
    <3> QED
      BY <1>2, <3>2
  <2> QED
    BY <2>1, <2>32, <2>7, <2>8
<1>6. \A p \in DOMAIN blockIndex.index : Valid(blockIndex.index[p]) =>
        \A n \in K[blockIndex.index[p]] .. T + d : Has(K, n)
  <2> SUFFICES ASSUME NEW p \in DOMAIN blockIndex.index, Valid(blockIndex.index[p]),
                      NEW n \in K[blockIndex.index[p]] .. T + d
               PROVE  Has(K, n)
    OBVIOUS
  <2>1. K[blockIndex.index[p]] \in Int
    BY <1>2 DEF Numbers
  <2>2. n \in K[blockIndex.index[p]] .. T \/ (d = 1 /\ n = T + 1)
    BY <2>1
  <2> QED
    BY <1>2, <2>2 DEF Keys
<1>7. ASSUME NEW b \in Int, \A n \in b .. T : Has(K, n)
      PROVE  \A n \in b .. T + d : Has(K, n)
  <2> TAKE n \in b .. T + d
  <2>1. n \in b .. T \/ (d = 1 /\ n = T + 1)
    OBVIOUS
  <2> QED
    BY <1>2, <1>7, <2>1
<1>8. Before(t) \in Int /\ Before(t)' = Before(t) /\ TailNum(t)' = T + d
  BY <1>2, CallFacts DEF Before
<1>9. (\A p \in DOMAIN blockIndex.index : LET e == blockIndex.index[p] IN
         Valid(e) => \A n \in K[e] .. TailNum(t) : Has(K, n))'
  <2> SUFFICES ASSUME NEW p \in DOMAIN blockIndex.index,
                      key'[blockIndex.index[p]] # INVALID_BLOCK_BASE,
                      NEW n \in K[blockIndex.index[p]] .. T + d
               PROVE  Has(K, n)'
    BY <1>1, <1>8 DEF Valid
  <2>1. K[blockIndex.index[p]] \in Int /\ n \in Int
    BY <1>2 DEF Numbers
  <2> QED
    BY <1>3, <1>6, <2>1 DEF Valid
<1>10. (\A n \in Before(t) + 1 .. TailNum(t) : Has(K, n))'
  <2>1. \A n \in Before(t) + 1 .. T : Has(K, n)
    BY <1>2 DEF Keys
  <2>2. Before(t) + 1 \in Int
    BY <1>8
  <2>3. \A n \in Before(t) + 1 .. T + d : Has(K, n)
    BY <1>7, <2>1, <2>2
  <2> QED
    BY <1>3, <1>8, <2>3
<1>11. (Active(t, h) => \A n \in Before(t) .. TailNum(t) : Has(K, n))'
  <2> SUFFICES ASSUME Active(t, h) PROVE \A n \in Before(t) .. T + d : Has(K, n)'
    BY <1>8
  <2>1. \A n \in Before(t) .. T : Has(K, n)
    BY <1>2 DEF Keys
  <2>2. \A n \in Before(t) .. T + d : Has(K, n)
    BY <1>7, <1>8, <2>1
  <2> QED
    BY <1>3, <1>8, <2>2
<1>12. /\ key' \in [Entries -> Bases \cup {INVALID_BLOCK_BASE}]
       /\ \A e \in Entries : Valid(e)' => key'[e] = Blk(K[e])
       /\ \A e \in Entries : (headers' = <<>> \/ e >= Capacity(blockIndex)') =>
            ~Valid(e)' /\ value'[e] = Garbage
  BY <1>1 DEF Keys, Valid
<1> QED
  BY <1>1, <1>4, <1>5, <1>9, <1>10, <1>11, <1>12 DEF Keys

LEMMA TailStep ==
  ASSUME NEW t \in Int, NEW h \in Int, NEW f \in Firsts, NEW K \in Numbers,
         NEW own \in SUBSET Int, Good(t, h, f, K, own), headers # <<>>,
         NEW q \in DOMAIN blockIndex.index, MoveTail(q),
         UNCHANGED <<key, value, blockVars, callVars, restVars>>,
         step # "gone", step' \notin {"gone", "grow", "key"},
         Control(t)', Owning(t, own)', Tails(t, own)', Keys(t, h, K)',
         \A n \in own : Unstored(t, n)' <=> Unstored(t, n),
         \A e \in Entries : InFlight(t, e) => InFlight(t, e)',
         (step \in {"tail", "unset"})' => (Valid(idxEntry) /\ K[idxEntry] = Ensuing(t))'
  PROVE  Good(t, h, f, K, own)'
<1>1. /\ Shape /\ Values(t, K, own) /\ Claimed(t, h, f) /\ Counted(t, h, f, own)
      /\ Seen(f, K) /\ Ended
  BY DEF Good
<1>2. /\ UNCHANGED <<headIndex, value, key, elementsCompletelyDequeued, destroyed>>
      /\ UNCHANGED consumerVars
  BY DEF blockVars, callVars, restVars
<1>3. /\ Shape' /\ headers' # <<>> /\ Len(headers') = Len(headers) /\ Len(headers) \in Nat
      /\ blockIndex'.index = blockIndex.index
      /\ \A i \in 1 .. Len(headers) : headers'[i].index = headers[i].index
  BY <1>1, MovedTail
<1>4. Claimed(t, h, f)' /\ Counted(t, h, f, own)'
  BY <1>1, <1>2, ClaimedKept, CountedKept
<1>5. Seen(f, K)'
  <2>1. Len(headers) \in 0 .. Len(headers') /\ Len(headers') \in Nat
    BY <1>3
  <2>2. \A e \in Entries : Valid(e) => Valid(e)'
    BY <1>2 DEF Valid
  <2>3. \A e \in Entries, n \in Int : n <= Before(t) /\ Holds(K, e, n) => Holds(K, e, n)'
    BY <1>2 DEF Holds
  <2> QED
    BY <1>1, <1>2, <1>3, <2>1, <2>2, <2>3, SeenStays
<1>6. Values(t, K, own)'
  <2>1. \A n \in Int : Stored(K, n)' <=> Stored(K, n)
    BY <1>2, <1>3 DEF Stored
  <2>2. \A e \in Entries : Valid(e)' <=> Valid(e)
    BY <1>2 DEF Valid
  <2>3. \A n \in own : Unstored(t, n)' \/ Stored(K, n)'
    BY <1>1, <2>1 DEF Values
  <2>4. \A e \in Entries : value'[e] \in Bases =>
          Valid(e)' /\ value'[e] = Blk(K[e]) /\ K[e] \in own /\ ~Unstored(t, K[e])'
    BY <1>1, <1>2, <2>2 DEF Values
  <2>5. \A e \in Entries : Valid(e)' /\ value'[e] = Garbage => InFlight(t, e)'
    BY <1>1, <1>2, <2>2 DEF Values
  <2>6. value' \in [Entries -> Bases \cup {Null, Garbage}]
    BY <1>1, <1>2 DEF Values
  <2> QED
    BY <2>3, <2>4, <2>5, <2>6 DEF Values
<1>7. Ended'
  BY <1>1, <1>2 DEF Ended
<1> QED
  BY <1>3, <1>4, <1>5, <1>6, <1>7 DEF Good

(* No block lies a turn before the one after the tail.                     *)
LEMMA AfterTailOnly ==
  ASSUME NEW t \in Int, NEW h \in Int, NEW K \in Numbers, Control(t), Shape,
         Keys(t, h, K), headers # <<>>, Valid(idxEntry), K[idxEntry] = TailNum(t) + 1
  PROVE  \A p \in DOMAIN blockIndex.index : Valid(blockIndex.index[p]) =>
           /\ TailNum(t) + 1 - Capacity(blockIndex) < K[blockIndex.index[p]]
           /\ K[blockIndex.index[p]] <= TailNum(t) + 1 + Capacity(blockIndex)
<1>1. /\ Formed(blockIndex) /\ Capacity(blockIndex) \in Nat \ {0}
      /\ DOMAIN blockIndex.index = 0 .. Capacity(blockIndex) - 1
      /\ blockIndex.tail \in 0 .. Capacity(blockIndex) - 1
      /\ \A p \in DOMAIN blockIndex.index : blockIndex.index[p] \in Entries
      /\ TailNum(t) \in Int
  BY LatestFacts, FormedFacts, CallFacts
<1>2. NewTail \in DOMAIN blockIndex.index /\ idxEntry = blockIndex.index[NewTail]
  BY TailFacts
<1>3. PICK C \in Nat \ {0}, T \in Int, o \in Int, s \in Int :
        /\ C = Capacity(blockIndex) /\ T = TailNum(t) /\ o = T - blockIndex.tail
        /\ s = NewTail /\ s \in 0 .. C - 1
  <2>1. blockIndex.tail \in Int /\ NewTail \in Int /\ TailNum(t) - blockIndex.tail \in Int
    BY <1>1, <1>2
  <2> QED
    BY <1>1, <1>2, <2>1
<1>4. \A p \in DOMAIN blockIndex.index : Valid(blockIndex.index[p]) =>
        /\ Cong(K[blockIndex.index[p]], p + o, C)
        /\ T - C < K[blockIndex.index[p]] /\ K[blockIndex.index[p]] <= T + C
  BY <1>3 DEF Keys, Near
<1>5. Cong(T + 1, s + o, C)
  BY <1>2, <1>3, <1>4
<1>6. C \in Int /\ C >= 1
  OBVIOUS
<1> SUFFICES ASSUME NEW p \in DOMAIN blockIndex.index, Valid(blockIndex.index[p])
             PROVE  /\ T + 1 - C < K[blockIndex.index[p]]
                    /\ K[blockIndex.index[p]] <= T + 1 + C
  BY <1>3
<1>7. PICK n \in Int : n = K[blockIndex.index[p]]
  BY <1>1 DEF Numbers
<1>8. T - C < n /\ n <= T + C /\ Cong(n, p + o, C) /\ p \in 0 .. C - 1
  BY <1>1, <1>3, <1>4, <1>7
<1>9. n # T + 1 - C
  <2> SUFFICES ASSUME n = T + 1 - C PROVE FALSE
    OBVIOUS
  <2>1. PICK m \in Int, x \in Int : m = T + 1 /\ n = m - C /\ x = p + o
    BY <1>8
  <2>2. Cong(n, m, C)
    BY <1>6, <2>1, CongSame
  <2>3. Cong(m, n, C)
    BY <1>6, <2>2, CongTurn
  <2>4. Cong(n, x, C)
    BY <1>8, <2>1
  <2>5. Cong(m, x, C)
    BY <1>6, <2>3, <2>4, CongTurn
  <2>6. Cong(m, s + o, C) /\ Cong(m, p + o, C)
    BY <1>5, <2>1, <2>5
  <2>7. p = s
    BY <1>3, <1>8, <2>6, SamePlace
  <2>8. n = T + 1
    BY <1>2, <1>3, <1>7, <2>7
  <2> QED
    BY <1>6, <2>8
<1> QED
  BY <1>6, <1>7, <1>8, <1>9

(* When there is a block at the tail, none lies a turn after it.           *)
LEMMA AtTailOnly ==
  ASSUME NEW t \in Int, NEW h \in Int, NEW K \in Numbers, Control(t), Shape,
         Keys(t, h, K), headers # <<>>, Has(K, TailNum(t))
  PROVE  \A p \in DOMAIN blockIndex.index : Valid(blockIndex.index[p]) =>
           /\ TailNum(t) + (-1) - Capacity(blockIndex) < K[blockIndex.index[p]]
           /\ K[blockIndex.index[p]] <= TailNum(t) + (-1) + Capacity(blockIndex)
<1>1. /\ Formed(blockIndex) /\ Capacity(blockIndex) \in Nat \ {0}
      /\ DOMAIN blockIndex.index = 0 .. Capacity(blockIndex) - 1
      /\ blockIndex.tail \in 0 .. Capacity(blockIndex) - 1
      /\ \A p \in DOMAIN blockIndex.index : blockIndex.index[p] \in Entries
      /\ TailNum(t) \in Int
  BY LatestFacts, FormedFacts, CallFacts
<1>2. PICK C \in Nat \ {0}, T \in Int, o \in Int, s \in Int :
        /\ C = Capacity(blockIndex) /\ T = TailNum(t) /\ o = T - blockIndex.tail
        /\ s = blockIndex.tail /\ s \in 0 .. C - 1
  <2>1. blockIndex.tail \in Int /\ TailNum(t) - blockIndex.tail \in Int
    BY <1>1
  <2> QED
    BY <1>1, <2>1
<1>3. Valid(tailEntry) /\ K[tailEntry] = T /\ tailEntry = blockIndex.index[s]
  BY <1>2, AtTail DEF tailEntry
<1>4. \A p \in DOMAIN blockIndex.index : Valid(blockIndex.index[p]) =>
        /\ Cong(K[blockIndex.index[p]], p + o, C)
        /\ T - C < K[blockIndex.index[p]] /\ K[blockIndex.index[p]] <= T + C
  BY <1>2 DEF Keys, Near
<1>5. Cong(T, s + o, C)
  BY <1>1, <1>2, <1>3, <1>4
<1>6. C \in Int /\ C >= 1
  OBVIOUS
<1> SUFFICES ASSUME NEW p \in DOMAIN blockIndex.index, Valid(blockIndex.index[p])
             PROVE  /\ T + (-1) - C < K[blockIndex.index[p]]
                    /\ K[blockIndex.index[p]] <= T + (-1) + C
  BY <1>2
<1>7. PICK n \in Int : n = K[blockIndex.index[p]]
  BY <1>1 DEF Numbers
<1>8. T - C < n /\ n <= T + C /\ Cong(n, p + o, C) /\ p \in 0 .. C - 1
  BY <1>1, <1>2, <1>4, <1>7
<1>9. n # T + C
  <2> SUFFICES ASSUME n = T + C PROVE FALSE
    OBVIOUS
  <2>1. PICK x \in Int : n = T + C /\ x = p + o
    BY <1>8
  <2>2. Cong(n, T, C)
    BY <1>6, <2>1, CongSame
  <2>3. Cong(T, n, C)
    BY <1>6, <2>2, CongTurn
  <2>4. Cong(n, x, C)
    BY <1>8, <2>1
  <2>5. Cong(T, x, C)
    BY <1>6, <2>3, <2>4, CongTurn
  <2>6. Cong(T, s + o, C) /\ Cong(T, p + o, C)
    BY <1>5, <2>1, <2>5
  <2>7. p = s
    BY <1>2, <1>8, <2>6, SamePlace
  <2>8. n = T
    BY <1>3, <1>7, <2>7
  <2> QED
    BY <1>6, <2>8
<1> QED
  BY <1>6, <1>7, <1>8, <1>9

LEMMA StoreTailStep ==
  ASSUME NEW t \in Int, NEW h \in Int, NEW f \in Firsts, NEW K \in Numbers,
         NEW own \in SUBSET Int, Good(t, h, f, K, own), StoreTail
  PROVE  Good(t, h, f, K, own)'
<1>1. /\ Control(t) /\ Shape /\ Keys(t, h, K) /\ Owning(t, own) /\ Tails(t, own)
      /\ Values(t, K, own)
  BY DEF Good
<1>2. /\ step = "tail" /\ step' = "block" /\ MoveTail(NewTail)
      /\ UNCHANGED <<key, value, blockVars, callVars, restVars>>
      /\ UNCHANGED <<tailIndex, tailBlock, fresh, undone, owned, sent, bulk, count,
                     startBlock, cur, pc>>
  BY DEF StoreTail, At, blockVars, callVars, restVars, consumerVars
<1>3. headers # <<>> /\ Valid(idxEntry) /\ K[idxEntry] = Ensuing(t)
  BY <1>1, <1>2 DEF Keys, Values
<1>4. /\ NewTail \in DOMAIN blockIndex.index /\ idxEntry = blockIndex.index[NewTail]
      /\ idxEntry \in Entries
      /\ Cong(NewTail, blockIndex.tail + 1, Capacity(blockIndex))
  BY <1>1, <1>3, TailFacts
<1>5. tailEntry' = idxEntry
  BY <1>1, <1>2, <1>3, <1>4, MovedTail
<1>6. /\ HasCur(t) /\ HasCur(t)' /\ InCall /\ InCall' /\ ~Extra(t) /\ ~Extra(t)'
      /\ ~Reverting /\ ~Reverting' /\ Ensuing(t)' = Ensuing(t)
  BY <1>2 DEF HasCur, InCall, Extra, Reverting, Ensuing, Before
<1>7. Control(t)'
  BY <1>1, <1>2, <1>6 DEF Control, Steps
<1>8. Owning(t, own)' /\ Tails(t, own)'
  BY <1>1, <1>2, <1>6 DEF Owning, Tails, SingleNew
<1>9. TailNum(t) + 1 = Ensuing(t) /\ TailNum(t)' = TailNum(t) + 1 /\ TailNum(t) \in Int
  <2>1. /\ Before(t) \in Int /\ Len(fresh) \in Nat /\ undone = 0 /\ ~Moved(t) /\ Moved(t)'
        /\ TailNum(t) \in Int
    BY <1>1, <1>2, CallFacts DEF Control, Reverting, Moved
  <2>2. Before(t)' = Before(t)
    BY DEF Before
  <2> QED
    BY <1>2, <2>1, <2>2 DEF TailNum, Ensuing
<1>10. Active(t, h)' = Active(t, h)
  BY <1>2 DEF Active, AtBase, Before, Begins
<1>11. Keys(t, h, K)'
  <2>1. \A p \in DOMAIN blockIndex.index : Valid(blockIndex.index[p]) =>
           /\ TailNum(t) + 1 - Capacity(blockIndex) < K[blockIndex.index[p]]
           /\ K[blockIndex.index[p]] <= TailNum(t) + 1 + Capacity(blockIndex)
    BY <1>1, <1>3, <1>9, AfterTailOnly
  <2>2. Has(K, TailNum(t) + 1)
    BY <1>3, <1>4, <1>9 DEF Has
  <2>3. PICK d \in Int : d = 1
    OBVIOUS
  <2> QED
    BY <1>1, <1>2, <1>3, <1>4, <1>9, <1>10, <2>1, <2>2, <2>3, MovedKeys
<1>12. \A n \in own : Unstored(t, n)' <=> Unstored(t, n)
  BY <1>2, <1>6 DEF Unstored, Before
<1>13. \A e \in Entries : InFlight(t, e) => InFlight(t, e)'
  BY <1>2, <1>5 DEF InFlight
<1>14. step # "gone" /\ step' \notin {"gone", "grow", "key", "tail", "unset"}
  BY <1>2
<1> QED
  BY <1>2, <1>3, <1>4, <1>7, <1>8, <1>11, <1>12, <1>13, <1>14, TailStep

(* One step back from the tail, and the tail is the entry after it.        *)
LEMMA BackStep ==
  ASSUME NEW t \in Int, NEW h \in Int, NEW f \in Firsts, NEW K \in Numbers,
         NEW own \in SUBSET Int, Good(t, h, f, K, own), MoveTail(Back),
         UNCHANGED <<key, value, blockVars, callVars, restVars>>,
         step \in {"rewind", "revertRewind"}, TailNum(t)' = TailNum(t) - 1
  PROVE  /\ Keys(t, h, K)' /\ headers # <<>> /\ Back \in DOMAIN blockIndex.index
         /\ idxEntry' = tailEntry /\ Valid(tailEntry) /\ K[tailEntry] = TailNum(t)
         /\ tailEntry \in Entries
<1>1. /\ Control(t) /\ Shape /\ Keys(t, h, K)
  BY DEF Good
<1>2. /\ headers # <<>> /\ Moved(t) /\ undone \in Nat /\ undone <= Len(fresh)
      /\ Before(t) \in Int /\ Len(fresh) \in Nat /\ TailNum(t) \in Int
  BY <1>1, CallFacts DEF Keys, Moved
<1>3. TailNum(t) \in Before(t) + 1 .. TailNum(t)
  BY <1>2 DEF TailNum
<1>4. Has(K, TailNum(t))
  BY <1>1, <1>2, <1>3 DEF Keys
<1>5. Valid(tailEntry) /\ K[tailEntry] = TailNum(t)
  BY <1>1, <1>2, <1>4, AtTail
<1>6. /\ Back \in DOMAIN blockIndex.index /\ tailEntry \in Entries
      /\ Cong(Back, blockIndex.tail - 1, Capacity(blockIndex))
  BY <1>1, <1>2, TailFacts
<1>7. Formed(blockIndex)
  BY <1>1, <1>2, LatestFacts
<1>8. PICK C \in Nat \ {0}, s \in Int, q \in Int :
        /\ C = Capacity(blockIndex) /\ s = blockIndex.tail /\ s \in 0 .. C - 1
        /\ q = Back /\ q \in 0 .. C - 1
  <2>1. /\ Capacity(blockIndex) \in Nat \ {0}
        /\ DOMAIN blockIndex.index = 0 .. Capacity(blockIndex) - 1
        /\ blockIndex.tail \in 0 .. Capacity(blockIndex) - 1
    BY <1>7, FormedFacts
  <2>2. blockIndex.tail \in Int /\ Back \in Int
    BY <1>6, <2>1
  <2> QED
    BY <1>6, <2>1, <2>2
<1>9. idxEntry' = tailEntry
  <2>1. /\ blockIndex'.index = blockIndex.index /\ blockIndex'.tail = q
        /\ Capacity(blockIndex') = C
    BY <1>1, <1>2, <1>6, <1>8, MovedTail
  <2>2. (q + 1) % C = s
    <3>1. PICK x \in Int, y \in Int : x = q + 1 /\ y = s - 1 /\ y + 1 = s
      OBVIOUS
    <3>2. C \in Int /\ Cong(q, y, C) /\ Cong(1, 1, C)
      BY <1>6, <1>8, <3>1, CongSame
    <3>3. Cong(q + 1, y + 1, C)
      BY <3>2, CongSum
    <3>4. Cong(s, x, C)
      BY <3>1, <3>2, <3>3, CongTurn
    <3>5. x % C = s
      BY <1>8, <3>4, CongIsMod
    <3> QED
      BY <3>1, <3>5
  <2>3. NewTail' = s
    BY <2>1, <2>2 DEF NewTail, Next1
  <2> QED
    BY <1>8, <2>1, <2>3 DEF idxEntry, tailEntry
<1>10. Active(t, h)' = Active(t, h)
  BY DEF Active, AtBase, Before, Begins, restVars, consumerVars
<1>11. Keys(t, h, K)'
  <2>1. \A p \in DOMAIN blockIndex.index : Valid(blockIndex.index[p]) =>
           /\ TailNum(t) + (-1) - Capacity(blockIndex) < K[blockIndex.index[p]]
           /\ K[blockIndex.index[p]] <= TailNum(t) + (-1) + Capacity(blockIndex)
    BY <1>1, <1>2, <1>4, AtTailOnly
  <2>2. PICK d \in Int : d = -1
    OBVIOUS
  <2>3. Cong(Back, blockIndex.tail + d, Capacity(blockIndex)) /\ TailNum(t)' = TailNum(t) + d
    <3>1. s - 1 = s + d /\ TailNum(t) - 1 = TailNum(t) + d
      BY <1>2, <2>2
    <3> QED
      BY <1>6, <1>8, <3>1
  <2> QED
    BY <1>1, <1>2, <1>6, <1>10, <2>1, <2>2, <2>3, MovedKeys
<1> QED
  BY <1>2, <1>5, <1>6, <1>9, <1>11

LEMMA RewindStep ==
  ASSUME NEW t \in Int, NEW h \in Int, NEW f \in Firsts, NEW K \in Numbers,
         NEW own \in SUBSET Int, Good(t, h, f, K, own), Rewind
  PROVE  Good(t, h, f, K, own)'
<1>1. /\ Control(t) /\ Shape /\ Keys(t, h, K) /\ Owning(t, own) /\ Tails(t, own)
      /\ Values(t, K, own)
  BY DEF Good
<1>2. /\ step = "rewind" /\ step' = "unset" /\ MoveTail(Back)
      /\ UNCHANGED <<key, value, blockVars, callVars, restVars>>
      /\ UNCHANGED <<tailIndex, tailBlock, fresh, undone, owned, sent, bulk, count,
                     startBlock, cur, pc>>
  BY DEF Rewind, At, blockVars, callVars, restVars, consumerVars
<1>3. /\ HasCur(t) /\ HasCur(t)' /\ InCall /\ InCall' /\ ~Extra(t) /\ ~Extra(t)'
      /\ ~Reverting /\ ~Reverting' /\ Ensuing(t)' = Ensuing(t)
  BY <1>2 DEF HasCur, InCall, Extra, Reverting, Ensuing, Before
<1>4. Control(t)'
  BY <1>1, <1>2, <1>3 DEF Control, Steps
<1>5. Owning(t, own)' /\ Tails(t, own)'
  BY <1>1, <1>2, <1>3 DEF Owning, Tails, SingleNew
<1>6. TailNum(t) = Ensuing(t) /\ TailNum(t)' = TailNum(t) - 1
  <2>1. /\ Before(t) \in Int /\ Len(fresh) \in Nat /\ undone = 0 /\ Moved(t) /\ ~Moved(t)'
    BY <1>1, <1>2, CallFacts DEF Control, Reverting, Moved
  <2>2. Before(t)' = Before(t)
    BY DEF Before
  <2> QED
    BY <1>2, <2>1, <2>2 DEF TailNum, Ensuing
<1>7. /\ Keys(t, h, K)' /\ headers # <<>> /\ Back \in DOMAIN blockIndex.index
      /\ idxEntry' = tailEntry /\ Valid(tailEntry) /\ K[tailEntry] = TailNum(t)
  BY <1>2, <1>6, BackStep
<1>8. \A n \in own : Unstored(t, n)' <=> Unstored(t, n)
  BY <1>2, <1>3 DEF Unstored, Before
<1>9. \A e \in Entries : InFlight(t, e) => InFlight(t, e)'
  BY <1>2, <1>7 DEF InFlight
<1>10. (Valid(idxEntry) /\ K[idxEntry] = Ensuing(t))'
  BY <1>2, <1>3, <1>6, <1>7 DEF Valid
<1>11. step # "gone" /\ step' \notin {"gone", "grow", "key"}
  BY <1>2
<1> QED
  BY <1>2, <1>4, <1>5, <1>7, <1>8, <1>9, <1>10, <1>11, TailStep

LEMMA RevertRewindStep ==
  ASSUME NEW t \in Int, NEW h \in Int, NEW f \in Firsts, NEW K \in Numbers,
         NEW own \in SUBSET Int, Good(t, h, f, K, own), RevertRewind
  PROVE  Good(t, h, f, K, own)'
<1>1. /\ Control(t) /\ Shape /\ Keys(t, h, K) /\ Owning(t, own) /\ Tails(t, own)
      /\ Values(t, K, own)
  BY DEF Good
<1>2. /\ step = "revertRewind" /\ step' = "revert" /\ MoveTail(Back)
      /\ UNCHANGED <<key, value, blockVars, callVars, restVars>>
      /\ UNCHANGED <<tailIndex, tailBlock, fresh, undone, owned, sent, bulk, count,
                     startBlock, cur, pc>>
  BY DEF RevertRewind, At, blockVars, callVars, restVars, consumerVars
<1>3. /\ bulk /\ ~HasCur(t) /\ ~HasCur(t)' /\ InCall /\ InCall' /\ ~Extra(t) /\ ~Extra(t)'
      /\ Reverting /\ Reverting' /\ Ensuing(t)' = Ensuing(t)
  BY <1>1, <1>2 DEF Control, HasCur, InCall, Extra, Reverting, Ensuing, Before
<1>4. Control(t)'
  BY <1>1, <1>2, <1>3 DEF Control, Steps
<1>5. Owning(t, own)' /\ Tails(t, own)'
  BY <1>1, <1>2, <1>3 DEF Owning, Tails, SingleNew, Old
<1>6. TailNum(t)' = TailNum(t) - 1
  <2>1. /\ Before(t) \in Int /\ Len(fresh) \in Nat /\ undone \in Nat /\ Moved(t) /\ ~Moved(t)'
    BY <1>1, <1>2, CallFacts DEF Moved
  <2>2. Before(t)' = Before(t)
    BY DEF Before
  <2> QED
    BY <1>2, <2>1, <2>2 DEF TailNum
<1>7. /\ Keys(t, h, K)' /\ headers # <<>> /\ Back \in DOMAIN blockIndex.index
  BY <1>2, <1>6, BackStep
<1>8. \A n \in own : Unstored(t, n)' <=> Unstored(t, n)
  BY <1>2, <1>3 DEF Unstored, Before
<1>9. \A e \in Entries : ~InFlight(t, e)
  BY <1>2 DEF InFlight
<1>10. step # "gone" /\ step' \notin {"gone", "grow", "key", "tail", "unset"}
  BY <1>2
<1> QED
  BY <1>2, <1>4, <1>5, <1>7, <1>8, <1>9, <1>10, TailStep

--------------------------------------------------------------------------------
(* The keys stay, and no value goes that has none.                         *)
LEMMA SameKeys ==
  ASSUME NEW t \in Int, NEW h \in Int, NEW K \in Numbers, Keys(t, h, K),
         UNCHANGED <<key, headers>>, \A e \in Entries : ~Valid(e) => value'[e] = value[e],
         TailNum(t)' = TailNum(t), Active(t, h)' => Active(t, h),
         headers = <<>> =>
           step' \in {"idle", "room", "insert", "crashed", "gone", "revert"} /\ fresh' = <<>>
  PROVE  Keys(t, h, K)'
<1>1. /\ \A e \in Entries : Valid(e)' <=> Valid(e)
      /\ blockIndex' = blockIndex
  BY DEF Valid, blockIndex
<1>2. \A n \in Int : Has(K, n)' <=> Has(K, n)
  BY <1>1 DEF Has, Valid
<1>3. \A j \in 1 .. Len(headers) - 1 : Frozen(K, headers[j])' <=> Frozen(K, headers[j])
  BY DEF Frozen, Valid
<1>4. Near(t, K, blockIndex)' <=> Near(t, K, blockIndex)
  BY <1>1 DEF Near, Valid
<1>5. Before(t)' = Before(t)
  BY DEF Before
<1>6. \A e \in Entries : headers' = <<>> \/ e >= Capacity(blockIndex') =>
        ~Valid(e)' /\ value'[e] = Garbage
  BY <1>1 DEF Keys
<1> QED
  BY <1>1, <1>2, <1>3, <1>4, <1>5, <1>6 DEF Keys, Valid

(* The blocks a call gives back have no elements.                          *)
LEMMA CountedShrunk ==
  ASSUME NEW t \in Int, NEW h \in Int, NEW f \in Firsts, NEW own \in SUBSET Int,
         NEW rest \in SUBSET own, \A n \in own : n <= Before(t) => n \in rest,
         Claimed(t, h, f), Counted(t, h, f, own),
         UNCHANGED <<elementsCompletelyDequeued, consumerVars>>
  PROVE  Counted(t, h, f, rest)'
<1>1. Counted(t, h, f, own)'
  BY CountedKept
<1>2. UNCHANGED <<pc, left, first, headIndex>> \/ UNCHANGED <<pc, left, first>>
  BY DEF consumerVars
<1>3. \A x \in Int : x < t => Num(x) <= Before(t) /\ Num(x) \in Int
  <2> TAKE x \in Int
  <2> HAVE x < t
  <2>1. PICK y \in Int : y = t - 1 /\ x <= y
    OBVIOUS
  <2> QED
    BY <2>1, NumIs, NumMonotone DEF Before
<1>4. \A x \in Int : x < t /\ Undone(h, f, x)' => Num(x) \in rest
  BY <1>1, <1>3 DEF Counted
<1>5. \A c \in Consumers : pc'[c] = "unset" => Num(f[c]) \in rest
  <2> TAKE c \in Consumers
  <2> HAVE pc'[c] = "unset"
  <2>1. f[c] \in Int /\ left[c] \in Nat /\ left[c] >= 1 /\ f[c] + left[c] <= h /\ h <= t
    BY <1>2, Kinds DEF Firsts, Claimed
  <2>2. f[c] < t
    BY <2>1
  <2> QED
    BY <1>1, <1>3, <2>1, <2>2 DEF Counted
<1> QED
  BY <1>1, <1>4, <1>5 DEF Counted

LEMMA UnsetValueStep ==
  ASSUME NEW t \in Int, NEW h \in Int, NEW f \in Firsts, NEW K \in Numbers,
         NEW own \in SUBSET Int, Good(t, h, f, K, own), UnsetValue
  PROVE  \E rest \in SUBSET Int : Good(t, h, f, K, rest)'
<1>1. /\ Control(t) /\ Shape /\ Keys(t, h, K) /\ Owning(t, own) /\ Tails(t, own)
      /\ Values(t, K, own) /\ Claimed(t, h, f) /\ Counted(t, h, f, own) /\ Seen(f, K)
      /\ Ended
  BY DEF Good
<1>2. /\ step = "unset" /\ step' = (IF bulk THEN "revert" ELSE "idle")
      /\ value' = [value EXCEPT ![idxEntry] = Null] /\ owned' = owned \ {cur}
      /\ UNCHANGED <<tailIndex, headIndex, tailBlock, fresh, undone, sent, bulk, count,
                     startBlock, cur, headers, key, elementsCompletelyDequeued, destroyed,
                     pc>>
      /\ UNCHANGED consumerVars
  BY DEF UnsetValue, GiveUp, At, callVars, restVars, consumerVars
<1>3. /\ Ensuing(t)' = Ensuing(t) /\ undone = 0 /\ count \in Nat
      /\ Before(t) \in Int /\ Ensuing(t) \in Int /\ Ensuing(t) > Before(t)
      /\ Before(t)' = Before(t)
  <2>1. undone = 0
    BY <1>1, <1>2, CallFacts DEF Control, Reverting
  <2> QED
    BY <1>1, <1>2, <2>1, CallFacts DEF Ensuing, Before
<1>4. /\ bulk \in BOOLEAN /\ HasCur(t) /\ ~HasCur(t)' /\ InCall /\ ~Extra(t) /\ ~Extra(t)'
      /\ cur = Blk(Ensuing(t)) /\ ~Reverting
  BY <1>1, <1>2 DEF Control, HasCur, InCall, Extra, Reverting
<1>5. Control(t)'
  BY <1>1, <1>2, <1>3, <1>4 DEF Control, Steps, InCall, Reverting
<1>6. PICK rest \in SUBSET own : rest = own \ {Ensuing(t)}
  OBVIOUS
<1>7. Owning(t, rest)'
  <2>1. ASSUME NEW m \in rest, m <= Before(t)
        PROVE  t + (IF InCall THEN count ELSE 0)' - Begins(m) < IndexSize \div 2
    <3>1. t + count - Begins(m) < IndexSize \div 2 /\ Begins(m) \in Int
      BY <1>1, <1>4, <1>6, <2>1, BeginsFacts DEF Owning
    <3> QED
      BY <1>2, <1>3, <3>1, Kinds
  <2>2. owned' = {Blk(n) : n \in rest}
    <3>1. \A n \in own : n # Ensuing(t) => Blk(n) # Blk(Ensuing(t))
      BY <1>1, <1>3, <1>4, OwnApart
    <3> QED
      BY <1>1, <1>2, <1>4, <1>6, <3>1 DEF Owning
  <2>3. \A n \in rest : n < Ensuing(t)
    BY <1>1, <1>3, <1>6 DEF Owning
  <2>4. \A n \in Before(t) + 1 .. Ensuing(t) - 1 : n \in rest
    BY <1>1, <1>3, <1>6 DEF Owning
  <2>5. ~AtBase(t)' => Before(t) \in rest
    BY <1>1, <1>3, <1>6 DEF Owning, AtBase, Begins
  <2> QED
    BY <1>3, <1>4, <2>1, <2>2, <2>3, <2>4, <2>5 DEF Owning
<1>8. Tails(t, rest)'
  <2>1. Old(t, own, startBlock) => Old(t, rest, startBlock)'
    BY <1>2, <1>3, <1>6 DEF Old
  <2>2. ~bulk => tailBlock = startBlock
    BY <1>1, <1>2, <1>4 DEF Tails, Control, SingleNew
  <2> QED
    BY <1>1, <1>2, <1>4, <2>1, <2>2 DEF Tails, InCall, Reverting, Old
<1>9. /\ headers # <<>> /\ Valid(idxEntry) /\ K[idxEntry] = Ensuing(t) /\ idxEntry \in Entries
  BY <1>1, <1>2, TailFacts DEF Keys, Values
<1>10. value[idxEntry] \notin Bases
  BY <1>1, <1>2, <1>9 DEF Values, Unstored
<1>11. /\ \A e \in Entries : e # idxEntry => value'[e] = value[e]
       /\ value'[idxEntry] = Null
       /\ value' \in [Entries -> Bases \cup {Null, Garbage}]
  BY <1>1, <1>2, <1>9 DEF Values
<1>12. \A e \in Entries : Valid(e)' <=> Valid(e)
  BY <1>2 DEF Valid
<1>13. Keys(t, h, K)'
  <2>1. TailNum(t)' = TailNum(t) /\ Active(t, h)' = Active(t, h)
    BY <1>2, <1>4 DEF TailNum, Moved, Before, SingleNew, Active, AtBase, Begins
  <2>2. \A e \in Entries : ~Valid(e) => value'[e] = value[e]
    BY <1>9, <1>11
  <2> QED
    BY <1>1, <1>2, <1>9, <2>1, <2>2, SameKeys
<1>14. Values(t, K, rest)'
  <2>1. \A n \in Int : Unstored(t, n)' <=> Unstored(t, n)
    BY <1>2, <1>3, <1>4 DEF Unstored
  <2>2. \A e \in Entries : value'[e] \in Bases =>
          Valid(e)' /\ value'[e] = Blk(K[e]) /\ K[e] \in rest /\ ~Unstored(t, K[e])'
    <3> SUFFICES ASSUME NEW e \in Entries, value'[e] \in Bases
                 PROVE  Valid(e)' /\ value'[e] = Blk(K[e]) /\ K[e] \in rest
                        /\ ~Unstored(t, K[e])'
      OBVIOUS
    <3>1. value'[e] = value[e]
      BY <1>11, Kinds
    <3>2. Valid(e) /\ value[e] = Blk(K[e]) /\ K[e] \in own /\ ~Unstored(t, K[e])
      BY <1>1, <3>1 DEF Values
    <3>3. K[e] # Ensuing(t)
      BY <1>2, <3>2 DEF Unstored
    <3> QED
      BY <1>6, <1>12, <2>1, <3>1, <3>2, <3>3
  <2>3. \A n \in rest : Unstored(t, n)' \/ Stored(K, n)'
    <3> SUFFICES ASSUME NEW n \in rest, ~Unstored(t, n) PROVE Stored(K, n)'
      BY <2>1
    <3>1. PICK p \in DOMAIN blockIndex.index :
            value[blockIndex.index[p]] = Blk(n) /\ K[blockIndex.index[p]] = n
      BY <1>1, <1>6 DEF Values, Stored
    <3>2. blockIndex.index[p] \in Entries /\ Blk(n) \in Bases
      BY <1>1, <1>6, <1>9, <3>1, LatestFacts, FormedFacts, BlkType
    <3>3. value'[blockIndex.index[p]] = Blk(n) /\ blockIndex' = blockIndex
      BY <1>2, <1>10, <1>11, <3>1, <3>2 DEF blockIndex
    <3> QED
      BY <1>2, <1>9, <3>1, <3>3 DEF Stored
  <2>4. \A e \in Entries : ~(Valid(e)' /\ value'[e] = Garbage)
    <3> SUFFICES ASSUME NEW e \in Entries, Valid(e)', value'[e] = Garbage PROVE FALSE
      OBVIOUS
    <3>1. e # idxEntry /\ value[e] = Garbage /\ Valid(e)
      BY <1>11, <1>12, Kinds
    <3> QED
      BY <1>1, <1>2, <3>1 DEF Values, InFlight
  <2> QED
    BY <1>2, <1>11, <2>2, <2>3, <2>4 DEF Values
<1>15. Claimed(t, h, f)' /\ Counted(t, h, f, rest)'
  <2>1. \A n \in own : n <= Before(t) => n \in rest
    BY <1>3, <1>6
  <2> QED
    BY <1>1, <1>2, <2>1, ClaimedKept, CountedShrunk
<1>16. Seen(f, K)'
  <2>1. Len(headers) \in 0 .. Len(headers') /\ Len(headers') \in Nat
    BY <1>1, <1>2 DEF Shape
  <2>2. \A i \in 1 .. Len(headers) : headers'[i].index = headers[i].index
    BY <1>2
  <2>3. \A e \in Entries : Valid(e) => Valid(e)'
    BY <1>12
  <2>4. \A e \in Entries, n \in Int : n <= Before(t) /\ Holds(K, e, n) => Holds(K, e, n)'
    <3> SUFFICES ASSUME NEW e \in Entries, NEW n \in Int, Holds(K, e, n)
                 PROVE  Holds(K, e, n)'
      OBVIOUS
    <3>1. e # idxEntry
      BY <1>10, BlkType DEF Holds
    <3> QED
      BY <1>11, <3>1 DEF Holds
  <2> QED
    BY <1>1, <1>2, <2>1, <2>2, <2>3, <2>4, SeenStays
<1>17. Shape' /\ Ended'
  BY <1>1, <1>2 DEF Shape, blockIndex, Ended
<1> QED
  BY <1>5, <1>7, <1>8, <1>13, <1>14, <1>15, <1>16, <1>17 DEF Good

--------------------------------------------------------------------------------
(* The new block.                                                          *)
LEMMA CountedGrown ==
  ASSUME NEW t \in Int, NEW h \in Int, NEW f \in Firsts, NEW own \in SUBSET Int,
         Control(t), Owning(t, own), Claimed(t, h, f), Counted(t, h, f, own),
         HasCur(t), NEW E \in Int, E = Ensuing(t), E \notin own, cur = Blk(E),
         elementsCompletelyDequeued' = [elementsCompletelyDequeued EXCEPT ![cur] = 0],
         UNCHANGED consumerVars
  PROVE  Counted(t, h, f, own \cup {E})'
<1>1. /\ Before(t) \in Int /\ E \in Int /\ Before(t) + 1 <= E
      /\ t <= Begins(Before(t) + 1) /\ h <= t
  BY CallFacts DEF Claimed
<1>2. UNCHANGED <<pc, first, left>> /\ cur \in Bases
  BY <1>1, BlkType DEF consumerVars
<1>3. /\ \A x \in Int : Undone(h, f, x)' <=> Undone(h, f, x)
      /\ \A n \in Int : Finished(h, f, n)' = Finished(h, f, n)
  BY <1>2, SameElements
<1>4. \A n \in own : Blk(n) # cur
  BY <1>1, OwnApart
<1>5. /\ elementsCompletelyDequeued \in [Bases -> 0 .. BlockSize]
      /\ elementsCompletelyDequeued' \in [Bases -> 0 .. BlockSize]
      /\ elementsCompletelyDequeued'[cur] = 0
      /\ \A b \in Bases : b # cur =>
           elementsCompletelyDequeued'[b] = elementsCompletelyDequeued[b]
  BY <1>2, Sizes DEF Counted
<1>6. \A n \in own :
        elementsCompletelyDequeued'[Blk(n)] = elementsCompletelyDequeued[Blk(n)]
  BY <1>4, <1>5, BlkType
<1>7. Finished(h, f, E)' = {}
  <2>1. PICK b \in Int : b = Begins(E) /\ t <= b
    <3>1. PICK n \in Int : n = Before(t) + 1
      BY <1>1
    <3>2. Begins(n) <= Begins(E) /\ Begins(n) \in Int /\ Begins(E) \in Int
      BY <1>1, <3>1, BeginsFacts
    <3> QED
      BY <1>1, <3>1, <3>2
  <2>2. \A x \in Places(E) : x \in Int /\ h <= x
    BY <1>1, <2>1, Sizes DEF Places
  <2>3. Finished(h, f, E) = {}
    BY <2>2 DEF Finished, Undone
  <2> QED
    BY <1>1, <1>3, <2>3
<1>8. \A n \in own \cup {E} :
        elementsCompletelyDequeued'[Blk(n)] = Cardinality(Finished(h, f, n)')
  <2>1. ASSUME NEW n \in own
        PROVE  elementsCompletelyDequeued'[Blk(n)] = Cardinality(Finished(h, f, n)')
    BY <1>3, <1>6 DEF Counted
  <2>2. elementsCompletelyDequeued'[Blk(E)] = Cardinality(Finished(h, f, E)')
    BY <1>5, <1>7, FS_EmptySet
  <2> QED
    BY <2>1, <2>2
<1>9. \A n \in own \cup {E} : elementsCompletelyDequeued'[Blk(n)] = BlockSize =>
        \E c \in Consumers : pc'[c] = "unset" /\ Num(f[c]) = n
  <2>1. elementsCompletelyDequeued'[Blk(E)] # BlockSize
    BY <1>5, Sizes
  <2> QED
    BY <1>2, <1>6, <2>1 DEF Counted
<1>10. \A c \in Consumers : pc'[c] = "unset" =>
         Num(f[c]) \in own /\ elementsCompletelyDequeued'[Blk(Num(f[c]))] = BlockSize
  BY <1>2, <1>6 DEF Counted
<1> QED
  BY <1>2, <1>3, <1>5, <1>8, <1>9, <1>10 DEF Counted

LEMMA RequisitionStep ==
  ASSUME NEW t \in Int, NEW h \in Int, NEW f \in Firsts, NEW K \in Numbers,
         NEW own \in SUBSET Int, Good(t, h, f, K, own), RequisitionBlock
  PROVE  \E more \in SUBSET Int : Good(t, h, f, K, more)'
<1>1. /\ Control(t) /\ Shape /\ Keys(t, h, K) /\ Owning(t, own) /\ Tails(t, own)
      /\ Values(t, K, own) /\ Claimed(t, h, f) /\ Counted(t, h, f, own) /\ Seen(f, K)
      /\ Ended
  BY DEF Good
<1>2. /\ step = "block"
      /\ UNCHANGED <<tailIndex, headIndex, tailBlock, fresh, undone, sent, bulk, count,
                     startBlock, cur, headers, key, value, destroyed, pc>>
      /\ UNCHANGED consumerVars
  BY DEF RequisitionBlock, At, callVars, restVars, consumerVars, ringVars
<1>3. /\ Ensuing(t)' = Ensuing(t) /\ undone = 0 /\ count \in Nat /\ count >= 1
      /\ Before(t) \in Int /\ Ensuing(t) \in Int /\ Ensuing(t) > Before(t)
      /\ Before(t)' = Before(t) /\ AtBase(t)' = AtBase(t)
  <2>1. undone = 0
    BY <1>1, <1>2, CallFacts DEF Control, Reverting
  <2> QED
    BY <1>1, <1>2, <2>1, CallFacts DEF Ensuing, Before, Control, InCall, AtBase, Begins
<1>4. /\ bulk \in BOOLEAN /\ HasCur(t) /\ InCall /\ ~Extra(t) /\ ~Reverting
      /\ cur = Blk(Ensuing(t)) /\ Begins(Ensuing(t)) < t + count /\ Moved(t)
      /\ (~bulk => AtBase(t) /\ fresh = <<>> /\ count = 1) /\ headers # <<>>
  BY <1>1, <1>2 DEF Control, HasCur, InCall, Extra, Reverting, Moved, Keys
<1>5. blockIndex' = blockIndex /\ tailEntry' = tailEntry /\ idxEntry' = idxEntry
  BY <1>2 DEF blockIndex, tailEntry, idxEntry, NewTail
<1>6. CASE step' = "rewind" /\ UNCHANGED <<owned, elementsCompletelyDequeued>>
  <2>1. /\ HasCur(t)' /\ InCall' /\ ~Extra(t)' /\ ~Reverting' /\ Moved(t)'
    BY <1>6 DEF HasCur, InCall, Extra, Reverting, Moved
  <2>2. Control(t)'
    BY <1>1, <1>2, <1>3, <1>4, <1>6, <2>1 DEF Control, Steps
  <2>3. Owning(t, own)' /\ Tails(t, own)'
    BY <1>1, <1>2, <1>3, <1>4, <1>6, <2>1 DEF Owning, Tails, SingleNew, Old
  <2>4. \A m \in own : Unstored(t, m)' <=> Unstored(t, m)
    BY <1>2, <1>3, <1>6 DEF Unstored
  <2>5. \A e \in Entries : InFlight(t, e) => InFlight(t, e)'
    BY <1>2, <1>5, <1>6 DEF InFlight
  <2>6. UNCHANGED calmVars /\ step # "gone" /\ step' \notin {"gone", "grow", "key", "tail", "unset"}
    BY <1>2, <1>6 DEF calmVars
  <2>7. Good(t, h, f, K, own)'
    BY <1>4, <2>1, <2>2, <2>3, <2>4, <2>5, <2>6, CallFrame
  <2> QED
    BY <2>7
<1>7. CASE /\ step' = (IF bulk THEN "value" ELSE "construct") /\ owned' = owned \cup {cur}
           /\ elementsCompletelyDequeued' = [elementsCompletelyDequeued EXCEPT ![cur] = 0]
  <2>1. /\ step' \in {"value", "construct"}
        /\ HasCur(t)' /\ InCall' /\ Extra(t)' /\ ~Reverting' /\ Moved(t)'
        /\ (step' = "construct" => SingleNew(t)' /\ ~bulk)
    BY <1>2, <1>3, <1>4, <1>7 DEF HasCur, InCall, Extra, Reverting, Moved, SingleNew
  <2>2. step' = "construct" => t + count <= Begins(Ensuing(t) + 1)
    <3>1. PICK n \in Int : n = Ensuing(t)
      BY <1>3
    <3>2. Begins(n + 1) = Begins(n) + BlockSize /\ Begins(n) \in Int
      BY BeginsFacts
    <3>3. ~bulk => t = Begins(n)
      BY <1>3, <1>4, <3>1 DEF AtBase, Ensuing
    <3> QED
      BY <1>4, <2>1, <3>1, <3>2, <3>3, Sizes
  <2>3. Control(t)'
    BY <1>1, <1>2, <1>3, <1>4, <2>1, <2>2 DEF Control, Steps
  <2>4. Ensuing(t) \notin own
    BY <1>1, <1>2, <1>3, <1>4 DEF Owning
  <2>5. PICK more \in SUBSET Int : more = own \cup {Ensuing(t)}
    BY <1>3
  <2>6. Owning(t, more)'
    <3>1. owned' = {Blk(n) : n \in more}
      BY <1>1, <1>4, <1>7, <2>5 DEF Owning
    <3>2. ASSUME NEW m \in more, m <= Before(t)
          PROVE  t + (IF InCall THEN count ELSE 0)' - Begins(m) < IndexSize \div 2
      <4>1. m \in own
        BY <1>3, <2>5, <3>2
      <4> QED
        BY <1>1, <1>2, <1>4, <2>1, <3>2, <4>1 DEF Owning
    <3> QED
      BY <1>1, <1>2, <1>3, <1>4, <2>1, <2>5, <3>1, <3>2 DEF Owning
  <2>7. Tails(t, more)'
    <3>1. Old(t, own, startBlock) => Old(t, more, startBlock)'
      BY <1>2, <1>3, <2>5 DEF Old
    <3> QED
      BY <1>1, <1>2, <1>3, <1>4, <2>1, <3>1 DEF Tails
  <2>8. Counted(t, h, f, more)' /\ Claimed(t, h, f)'
    BY <1>1, <1>2, <1>3, <1>4, <1>7, <2>4, <2>5, CountedGrown, ClaimedKept
  <2>9. Keys(t, h, K)'
    <3>1. TailNum(t)' = TailNum(t) /\ Active(t, h)' = Active(t, h)
      BY <1>2, <1>3, <1>4, <2>1 DEF TailNum, Active
    <3> QED
      BY <1>1, <1>2, <1>4, <3>1, SameKeys
  <2>10. Values(t, K, more)'
    <3>1. \A n \in Int : Unstored(t, n)' <=> Unstored(t, n)
      BY <1>2, <1>3, <2>1 DEF Unstored
    <3>2. \A e \in Entries : Valid(e)' <=> Valid(e)
      BY <1>2 DEF Valid
    <3>3. \A n \in Int : Stored(K, n)' <=> Stored(K, n)
      BY <1>2, <1>5 DEF Stored
    <3>4. \A e \in Entries : InFlight(t, e) => InFlight(t, e)'
      BY <1>2, <1>5, <2>1 DEF InFlight
    <3>5. Unstored(t, Ensuing(t))'
      BY <1>2, <1>3, <2>1 DEF Unstored
    <3>6. \A n \in more : Unstored(t, n)' \/ Stored(K, n)'
      BY <1>1, <1>3, <2>5, <3>1, <3>3, <3>5 DEF Values
    <3>7. \A e \in Entries : value'[e] \in Bases =>
            Valid(e)' /\ value'[e] = Blk(K[e]) /\ K[e] \in more /\ ~Unstored(t, K[e])'
      BY <1>1, <1>2, <2>5, <3>1, <3>2 DEF Values
    <3>8. \A e \in Entries : Valid(e)' /\ value'[e] = Garbage => InFlight(t, e)'
      BY <1>1, <1>2, <3>2, <3>4 DEF Values
    <3> QED
      BY <1>1, <1>2, <2>1, <3>6, <3>7, <3>8 DEF Values
  <2>11. Seen(f, K)'
    <3>1. Len(headers) \in 0 .. Len(headers') /\ Len(headers') \in Nat
      BY <1>1, <1>2 DEF Shape
    <3>2. \A i \in 1 .. Len(headers) : headers'[i].index = headers[i].index
      BY <1>2
    <3>3. \A e \in Entries : Valid(e) => Valid(e)'
      BY <1>2 DEF Valid
    <3>4. \A e \in Entries, n \in Int : n <= Before(t) /\ Holds(K, e, n) => Holds(K, e, n)'
      BY <1>2 DEF Holds
    <3> QED
      BY <1>1, <1>2, <3>1, <3>2, <3>3, <3>4, SeenStays
  <2>12. Shape' /\ Ended'
    BY <1>1, <1>2, <2>1 DEF Shape, blockIndex, Ended
  <2>13. Good(t, h, f, K, more)'
    BY <2>3, <2>6, <2>7, <2>8, <2>9, <2>10, <2>11, <2>12 DEF Good
  <2> QED
    BY <2>13
<1> QED
  BY <1>6, <1>7 DEF RequisitionBlock, At

--------------------------------------------------------------------------------
(* The new block gets into the index.                                      *)
LEMMA TailGetsBlock ==
  ASSUME NEW t \in Int, NEW h \in Int, NEW f \in Firsts, NEW K \in Numbers,
         NEW own \in SUBSET Int, Good(t, h, f, K, own), StoreValue,
         Control(t)', Owning(t, own)', Tails(t, own)', TailNum(t)' = TailNum(t),
         step' \in {"room", "construct", "publish"}, \A n \in own : ~Unstored(t, n)'
  PROVE  Good(t, h, f, K, own)'
<1>1. /\ Control(t) /\ Shape /\ Keys(t, h, K) /\ Owning(t, own) /\ Tails(t, own)
      /\ Values(t, K, own) /\ Claimed(t, h, f) /\ Counted(t, h, f, own) /\ Seen(f, K)
      /\ Ended
  BY DEF Good
<1>2. /\ step = "value"
      /\ value' = [value EXCEPT ![tailEntry] = cur]
      /\ UNCHANGED <<tailIndex, headIndex, undone, headers, key, destroyed, pc, owned,
                     elementsCompletelyDequeued>>
      /\ UNCHANGED consumerVars
  BY DEF StoreValue, restVars, consumerVars
<1>3. PICK E \in Int : /\ E = Ensuing(t) /\ E > Before(t) /\ undone = 0 /\ E = TailNum(t)
                       /\ cur = Blk(E) /\ E \in own
  <2>1. undone = 0 /\ Moved(t) /\ HasCur(t) /\ Extra(t)
    BY <1>1, <1>2, CallFacts DEF Control, Reverting, Moved, HasCur, Extra
  <2>2. /\ Ensuing(t) \in Int /\ Ensuing(t) > Before(t) /\ Ensuing(t) = TailNum(t)
    BY <1>1, <2>1, CallFacts DEF Ensuing, TailNum
  <2>3. cur = Blk(Ensuing(t)) /\ Ensuing(t) \in own
    BY <1>1, <2>1 DEF Control, Owning
  <2> QED
    BY <2>1, <2>2, <2>3
<1>4. Before(t) \in Int /\ headers # <<>> /\ Blk(E) \in Bases
  BY <1>1, <1>2, <1>3, CallFacts, BlkType DEF Keys
<1>5. /\ tailEntry \in Entries /\ Valid(tailEntry) /\ K[tailEntry] = E
      /\ tailEntry = blockIndex.index[blockIndex.tail]
      /\ blockIndex.tail \in DOMAIN blockIndex.index
  <2>1. Has(K, TailNum(t))
    BY <1>1, <1>3, <1>4 DEF Keys
  <2> QED
    BY <1>1, <1>3, <1>4, <2>1, AtTail, TailFacts
<1>6. value[tailEntry] \notin Bases
  BY <1>1, <1>2, <1>3, <1>5 DEF Values, Unstored
<1>7. /\ \A e \in Entries : e # tailEntry => value'[e] = value[e]
      /\ value'[tailEntry] = Blk(E)
      /\ value' \in [Entries -> Bases \cup {Null, Garbage}]
  BY <1>1, <1>2, <1>3, <1>4, <1>5 DEF Values
<1>8. blockIndex' = blockIndex /\ \A e \in Entries : Valid(e)' <=> Valid(e)
  BY <1>2 DEF Valid, blockIndex
<1>9. Keys(t, h, K)'
  <2>1. Active(t, h)' = Active(t, h)
    BY <1>2 DEF Active, AtBase, Before, Begins
  <2>2. \A e \in Entries : ~Valid(e) => value'[e] = value[e]
    BY <1>5, <1>7
  <2> QED
    BY <1>1, <1>2, <1>4, <2>1, <2>2, SameKeys
<1>10. Values(t, K, own)'
  <2>1. \A e \in Entries : value'[e] \in Bases =>
          Valid(e)' /\ value'[e] = Blk(K[e]) /\ K[e] \in own /\ ~Unstored(t, K[e])'
    <3> SUFFICES ASSUME NEW e \in Entries, value'[e] \in Bases
                 PROVE  Valid(e)' /\ value'[e] = Blk(K[e]) /\ K[e] \in own
      OBVIOUS
    <3>1. CASE e = tailEntry
      BY <1>3, <1>5, <1>7, <1>8, <3>1
    <3>2. CASE e # tailEntry
      BY <1>1, <1>7, <1>8, <3>2 DEF Values
    <3> QED
      BY <3>1, <3>2
  <2>2. \A n \in own : Stored(K, n)'
    <3> SUFFICES ASSUME NEW n \in own PROVE Stored(K, n)'
      OBVIOUS
    <3>1. CASE n = E
      BY <1>2, <1>4, <1>5, <1>7, <1>8, <3>1 DEF Stored
    <3>2. CASE n # E
      <4>1. ~Unstored(t, n)
        BY <1>3, <1>4, <3>2 DEF Unstored
      <4>2. PICK p \in DOMAIN blockIndex.index :
              value[blockIndex.index[p]] = Blk(n) /\ K[blockIndex.index[p]] = n
        BY <1>1, <4>1 DEF Values, Stored
      <4>3. blockIndex.index[p] \in Entries
        BY <1>1, <1>4, LatestFacts, FormedFacts
      <4>4. value'[blockIndex.index[p]] = Blk(n)
        BY <1>5, <1>7, <3>2, <4>2, <4>3
      <4> QED
        BY <1>2, <1>4, <1>8, <4>2, <4>4 DEF Stored
    <3> QED
      BY <3>1, <3>2
  <2>3. \A e \in Entries : ~(Valid(e)' /\ value'[e] = Garbage)
    <3> SUFFICES ASSUME NEW e \in Entries, Valid(e)', value'[e] = Garbage PROVE FALSE
      OBVIOUS
    <3>1. e # tailEntry /\ value[e] = Garbage /\ Valid(e)
      BY <1>4, <1>7, <1>8, Kinds
    <3> QED
      BY <1>1, <1>2, <3>1 DEF Values, InFlight
  <2> QED
    BY <1>7, <2>1, <2>2, <2>3 DEF Values
<1>11. Claimed(t, h, f)' /\ Counted(t, h, f, own)'
  BY <1>1, <1>2, ClaimedKept, CountedKept
<1>12. Seen(f, K)'
  <2>1. Len(headers) \in 0 .. Len(headers') /\ Len(headers') \in Nat
    BY <1>1, <1>2 DEF Shape
  <2>2. \A i \in 1 .. Len(headers) : headers'[i].index = headers[i].index
    BY <1>2
  <2>3. \A e \in Entries : Valid(e) => Valid(e)'
    BY <1>8
  <2>4. \A e \in Entries, n \in Int : n <= Before(t) /\ Holds(K, e, n) => Holds(K, e, n)'
    <3> SUFFICES ASSUME NEW e \in Entries, NEW n \in Int, n <= Before(t), Holds(K, e, n)
                 PROVE  Holds(K, e, n)'
      OBVIOUS
    <3>1. e # tailEntry
      BY <1>3, <1>4, <1>5 DEF Holds
    <3> QED
      BY <1>7, <3>1 DEF Holds
  <2> QED
    BY <1>1, <1>2, <2>1, <2>2, <2>3, <2>4, SeenStays
<1>13. Shape' /\ Ended'
  BY <1>1, <1>2 DEF Shape, blockIndex, Ended
<1> QED
  BY <1>9, <1>10, <1>11, <1>12, <1>13 DEF Good

LEMMA StoreValueStep ==
  ASSUME NEW t \in Int, NEW h \in Int, NEW f \in Firsts, NEW K \in Numbers,
         NEW own \in SUBSET Int, Good(t, h, f, K, own), StoreValue
  PROVE  Good(t, h, f, K, own)'
<1>1. Control(t) /\ Owning(t, own) /\ Tails(t, own)
  BY DEF Good
<1>2. /\ step = "value" /\ tailBlock' = cur
      /\ UNCHANGED <<tailIndex, undone, owned, sent, bulk, count, startBlock>>
  BY DEF StoreValue, restVars
<1>3. PICK E \in Int, B \in Int, L \in Nat :
        /\ E = Ensuing(t) /\ B = Before(t) /\ L = Len(fresh) /\ E = B + L + 1 /\ undone = 0
        /\ cur = Blk(E) /\ E \in own /\ Blk(E) \in Bases
  <2>1. undone = 0 /\ HasCur(t) /\ Extra(t)
    BY <1>1, <1>2, CallFacts DEF Control, Reverting, HasCur, Extra
  <2>2. /\ Ensuing(t) \in Int /\ Before(t) \in Int /\ Len(fresh) \in Nat
        /\ Ensuing(t) = Before(t) + Len(fresh) + 1
    BY <1>1, CallFacts DEF Ensuing
  <2>3. cur = Blk(Ensuing(t)) /\ Ensuing(t) \in own /\ Blk(Ensuing(t)) \in Bases
    BY <1>1, <2>1, <2>2, BlkType DEF Control, Owning
  <2> QED
    BY <2>1, <2>2, <2>3
<1>4. PICK b \in Int :
        /\ b = Begins(E) /\ b < t + count /\ t <= b /\ Begins(E + 1) = b + BlockSize
        /\ Begins(E + 1) \in Int /\ Begins(B + 1) \in Int /\ Begins(B + 1) <= b
        /\ t <= Begins(B + 1)
  <2>1. HasCur(t)
    BY <1>2 DEF HasCur
  <2>2. Begins(E) < t + count
    BY <1>1, <1>3, <2>1 DEF Control
  <2>3. Begins(E) \in Int /\ Begins(E + 1) = Begins(E) + BlockSize /\ Begins(E + 1) \in Int
    <3>1. Begins(E) \in Int /\ Begins(E + 1) = Begins(E) + BlockSize
      BY BeginsFacts
    <3> QED
      BY <3>1, Sizes
  <2>4. t <= Begins(B + 1)
    BY <1>1, <1>3, CallFacts
  <2>5. PICK m \in Int : m = B + 1 /\ m <= E
    BY <1>3
  <2>6. Begins(m) <= Begins(E) /\ Begins(m) \in Int
    BY <2>5, BeginsFacts
  <2> QED
    BY <2>2, <2>3, <2>4, <2>5, <2>6
<1>5. count \in Nat /\ count <= MaxBulk /\ count >= 1 /\ bulk \in BOOLEAN /\ InCall
      /\ sent + count <= MaxSent
  BY <1>1, <1>2, CallFacts DEF Control, InCall
<1>6. Before(t)' = B /\ AtBase(t)' = AtBase(t)
  BY <1>3 DEF Before, AtBase, Begins
<1>7. CASE ~bulk /\ step' = "publish" /\ UNCHANGED <<cur, fresh>>
  <2>1. AtBase(t) /\ count = 1 /\ fresh = <<>> /\ L = 0
    <3>1. AtBase(t) /\ count = 1 /\ fresh = <<>>
      BY <1>1, <1>2, <1>5, <1>7 DEF Control, HasCur
    <3> QED
      BY <1>3, <3>1
  <2>2. t = b
    BY <1>3, <1>4, <2>1 DEF AtBase
  <2>3. /\ SingleNew(t)' /\ HasCur(t)' /\ InCall' /\ Extra(t)' /\ ~Reverting' /\ Moved(t)'
        /\ Ensuing(t)' = E
    BY <1>2, <1>3, <1>6, <1>7, <2>1 DEF SingleNew, HasCur, InCall, Extra, Reverting, Moved,
       Ensuing
  <2>4. t + count <= Begins(E + 1)
    BY <1>4, <2>1, <2>2, Sizes
  <2>5. Control(t)'
    BY <1>1, <1>2, <1>3, <1>4, <1>5, <1>6, <1>7, <2>1, <2>3, <2>4 DEF Control, Steps
  <2>6. Owning(t, own)'
    BY <1>1, <1>2, <1>3, <1>5, <1>6, <1>7, <2>1, <2>3 DEF Owning
  <2>7. Tails(t, own)'
    <3>1. Old(t, own, startBlock) => Old(t, own, startBlock)'
      BY <1>2, <1>3, <1>6 DEF Old
    <3> QED
      BY <1>1, <1>2, <1>3, <1>5, <1>7, <2>3, <3>1 DEF Tails
  <2>8. TailNum(t)' = TailNum(t)
    BY <1>2, <1>3, <1>6, <1>7, <2>3 DEF TailNum, Moved
  <2>9. \A n \in own : ~Unstored(t, n)'
    BY <1>2, <1>3, <1>6, <1>7 DEF Unstored
  <2> QED
    BY <1>7, <2>5, <2>6, <2>7, <2>8, <2>9, TailGetsBlock
<1>8. CASE /\ bulk /\ fresh' = Append(fresh, cur)
           /\ LET next == Plus(cur, BlockSize) IN
                \/ Minus(next, tailIndex) < count /\ cur' = next /\ step' = "room"
                \/ Minus(next, tailIndex) >= count /\ cur' = cur /\ step' = "construct"
  <2>1. /\ fresh \in Seq(Bases) /\ fresh' \in Seq(Bases) /\ Len(fresh') = L + 1
        /\ fresh' # <<>> /\ fresh'[L + 1] = Blk(E)
        /\ \A i \in 1 .. L : fresh'[i] = fresh[i]
    <3>1. fresh \in Seq(Bases) /\ cur \in Bases
      BY <1>1, <1>3 DEF Control
    <3> QED
      BY <1>3, <1>8, <3>1
  <2>2. Ensuing(t)' = E + 1 /\ Plus(cur, BlockSize) = Blk(E + 1) /\ Blk(E + 1) \in Bases
    <3>1. Ensuing(t)' = E + 1
      BY <1>3, <1>6, <2>1 DEF Ensuing
    <3>2. Plus(cur, BlockSize) = Blk(E + 1)
      BY <1>3, BlkSteps
    <3> QED
      BY <3>1, <3>2, BlkType
  <2>3. Minus(Blk(E + 1), tailIndex) < count <=> Begins(E + 1) < t + count
    <3>1. Begins(E + 1) - t < IndexSize
      BY <1>4, <1>5, Kinds, Sizes, SizesDivide
    <3>2. t <= Begins(E + 1) /\ tailIndex = Mod(t)
      BY <1>1, <1>4, Sizes DEF Control
    <3>3. PICK n \in Int, k \in Int : n = E + 1 /\ k = count
      BY <1>5
    <3>4. Minus(Blk(n), tailIndex) < k <=> Begins(n) < t + k
      BY <3>1, <3>2, <3>3, Ahead
    <3> QED
      BY <3>3, <3>4
  <2>4. Minus(Blk(E + 1), tailIndex) >= count => t + count <= Begins(E + 1)
    <3>1. Minus(Blk(E + 1), tailIndex) \in Int
      <4>1. Blk(E + 1) \in Int /\ tailIndex \in Int
        BY <1>1, <2>2, ModType, Sizes DEF Control, Bases, Index
      <4> QED
        BY <4>1, Sizes DEF Minus
    <3> QED
      BY <1>4, <1>5, <2>3, <3>1
  <2>5. /\ ~SingleNew(t)' /\ InCall' /\ ~Reverting' /\ bulk'
        /\ ~Extra(t)' /\ ~Moved(t)' /\ (HasCur(t)' <=> step' = "room")
        /\ step' \in {"room", "construct"}
    BY <1>2, <1>8 DEF SingleNew, HasCur, InCall, Extra, Reverting, Moved
  <2>6. /\ step' = "room" => cur' = Blk(E + 1) /\ Begins(E + 1) < t + count
        /\ step' = "construct" => t + count <= Begins(E + 1)
        /\ cur' \in Bases
    BY <1>3, <1>8, <2>2, <2>3, <2>4
  <2>7. Control(t)'
    <3>1. \A i \in 1 .. L + 1 : fresh'[i] = Blk(B + i)
      <4>1. \A i \in 1 .. L : fresh[i] = Blk(B + i)
        BY <1>1, <1>3 DEF Control
      <4>2. E = B + (L + 1)
        BY <1>3
      <4>3. fresh'[L + 1] = Blk(B + (L + 1))
        BY <2>1, <4>2
      <4>4. \A i \in 1 .. L + 1 : i \in 1 .. L \/ i = L + 1
        BY <1>3
      <4> QED
        BY <2>1, <4>1, <4>3, <4>4
    <3>2. (InCall => Begins(Ensuing(t) - 1) < t + count)'
      <4>1. (E + 1) - 1 = E
        OBVIOUS
      <4> QED
        BY <1>2, <1>4, <2>2, <4>1
    <3>3. /\ tailIndex' = Mod(t) /\ step' \in Steps /\ bulk' \in BOOLEAN
          /\ count' \in 0 .. MaxBulk /\ cur' \in Bases /\ fresh' \in Seq(Bases)
          /\ undone' \in 0 .. Len(fresh') /\ sent' \in 0 .. MaxSent
      BY <1>1, <1>2, <1>3, <2>1, <2>5, <2>6 DEF Control, Steps
    <3>4. (HasCur(t) => cur = Blk(Ensuing(t)) /\ Begins(Ensuing(t)) < t + count)'
      BY <1>2, <2>2, <2>5, <2>6
    <3>5. (step \in {"construct", "publish"} =>
             t + count <= Begins(IF SingleNew(t) THEN Ensuing(t) + 1 ELSE Ensuing(t)))'
      BY <1>2, <2>2, <2>5, <2>6
    <3>6. (\A i \in 1 .. Len(fresh) : fresh[i] = Blk(Before(t) + i))'
      BY <1>6, <2>1, <3>1
    <3> QED
      BY <1>2, <1>3, <1>5, <2>5, <3>2, <3>3, <3>4, <3>5, <3>6 DEF Control
  <2>8. Owning(t, own)'
    <3>1. \A n \in own : n < E + 1
      <4>1. \A n \in own : n < E \/ n = E
        BY <1>1, <1>3 DEF Owning
      <4> QED
        BY <1>3, <4>1
    <3>2. \A n \in B + 1 .. (E + 1) - 1 : n \in own
      <4>1. \A n \in B + 1 .. E - 1 : n \in own
        BY <1>1, <1>3 DEF Owning
      <4> QED
        BY <1>3, <4>1
    <3> QED
      BY <1>1, <1>2, <1>3, <1>5, <1>6, <2>2, <2>5, <3>1, <3>2 DEF Owning
  <2>9. Tails(t, own)'
    <3>1. Old(t, own, startBlock) => Old(t, own, startBlock)'
      BY <1>2, <1>3, <1>6 DEF Old
    <3>2. tailBlock' = Blk((E + 1) - 1)
      BY <1>2, <1>3
    <3> QED
      BY <1>1, <1>2, <1>3, <1>5, <2>1, <2>2, <2>5, <3>1, <3>2 DEF Tails
  <2>10. TailNum(t)' = TailNum(t)
    <3>1. Moved(t)
      BY <1>2 DEF Moved
    <3> QED
      BY <1>2, <1>3, <1>6, <2>1, <2>5, <3>1 DEF TailNum
  <2>11. \A n \in own : ~Unstored(t, n)'
    <3>1. \A n \in own : n < E + 1
      <4>1. \A n \in own : n < E \/ n = E
        BY <1>1, <1>3 DEF Owning
      <4> QED
        BY <1>3, <4>1
    <3> QED
      BY <1>2, <1>3, <1>6, <2>2, <3>1 DEF Unstored
  <2> QED
    BY <2>5, <2>7, <2>8, <2>9, <2>10, <2>11, TailGetsBlock
<1> QED
  BY <1>7, <1>8 DEF StoreValue, At

--------------------------------------------------------------------------------
(* The elements.                                                           *)
LEMMA ConstructStep ==
  ASSUME NEW t \in Int, NEW h \in Int, NEW f \in Firsts, NEW K \in Numbers,
         NEW own \in SUBSET Int, Good(t, h, f, K, own), Construct
  PROVE  Good(t, h, f, K, own)'
<1>1. /\ Control(t) /\ Keys(t, h, K) /\ Owning(t, own) /\ Tails(t, own) /\ Values(t, K, own)
  BY DEF Good
<1>2. /\ step = "construct"
      /\ UNCHANGED <<tailIndex, tailBlock, fresh, undone, owned, sent, bulk, count,
                     startBlock, cur, headers, key, value>>
      /\ UNCHANGED calmVars
  BY StillFacts DEF Construct, At, stillVars, calmVars
<1>3. /\ Ensuing(t)' = Ensuing(t) /\ undone = 0 /\ count \in Nat
      /\ Before(t) \in Int /\ Ensuing(t) \in Int /\ bulk \in BOOLEAN
      /\ AtBase(t)' = AtBase(t) /\ SingleNew(t)' = SingleNew(t) /\ Before(t)' = Before(t)
  <2>1. undone = 0
    BY <1>1, <1>2, CallFacts DEF Control, Reverting
  <2> QED
    BY <1>1, <1>2, <2>1, CallFacts DEF Ensuing, Before, AtBase, Begins, SingleNew, Control
<1>4. /\ InCall /\ ~Reverting /\ headers # <<>> /\ step # "gone"
      /\ (HasCur(t) <=> SingleNew(t)) /\ (Extra(t) <=> SingleNew(t))
      /\ (Moved(t) <=> SingleNew(t))
  BY <1>1, <1>2 DEF InCall, Reverting, Keys, HasCur, Extra, Moved
<1>5. tailEntry' = tailEntry
  BY <1>2 DEF tailEntry, blockIndex
<1>6. AtBase(t) <=> Base(tailIndex) = tailIndex
  BY <1>1, AtBaseIs DEF Control
<1>7. CASE ~SingleNew(t)
  <2>1. /\ step' \in {"publish", "revert", "idle"}
        /\ step' = "revert" => bulk
        /\ step' = "idle" => ~bulk
    BY <1>3, <1>6, <1>7 DEF Construct, At, SingleNew
  <2>2. /\ ~HasCur(t)' /\ ~Extra(t)' /\ ~Moved(t)'
    BY <1>3, <1>7, <2>1 DEF HasCur, Extra, Moved
  <2>3. Control(t)'
    <3>1. t + count <= Begins(Ensuing(t))
      BY <1>1, <1>2, <1>7 DEF Control
    <3> QED
      BY <1>1, <1>2, <1>3, <1>4, <1>7, <2>1, <2>2, <3>1 DEF Control, Steps, InCall, Reverting
  <2>4. Owning(t, own)'
    <3>1. ASSUME NEW m \in own, m <= Before(t)
          PROVE  t + (IF InCall THEN count ELSE 0)' - Begins(m) < IndexSize \div 2
      <4>1. t + count - Begins(m) < IndexSize \div 2 /\ Begins(m) \in Int
        BY <1>1, <1>4, <3>1, BeginsFacts DEF Owning
      <4> QED
        BY <1>2, <1>3, <4>1, Kinds
    <3> QED
      BY <1>1, <1>2, <1>3, <1>4, <1>7, <2>2, <3>1 DEF Owning
  <2>5. Tails(t, own)'
    BY <1>1, <1>2, <1>3, <1>4, <1>7, <2>1 DEF Tails, Old, InCall, Reverting, Control
  <2>6. \A n \in own : n < Ensuing(t)
    BY <1>1, <1>2, <1>4, <1>7 DEF Owning
  <2>7. \A n \in own : Unstored(t, n)' <=> Unstored(t, n)
    BY <1>2, <1>3, <2>6 DEF Unstored
  <2>8. \A e \in Entries : ~InFlight(t, e)
    BY <1>2, <1>7 DEF InFlight
  <2>9. step' \notin {"gone", "grow", "key", "tail", "unset"}
    BY <2>1
  <2> QED
    BY <1>2, <1>4, <1>7, <2>2, <2>3, <2>4, <2>5, <2>7, <2>8, <2>9, CallFrame
<1>8. CASE SingleNew(t)
  <2>1. step' \in {"value", "rewind"} /\ ~bulk
    BY <1>6, <1>8 DEF Construct, At, SingleNew
  <2>2. /\ HasCur(t)' /\ Moved(t)' /\ InCall' /\ ~Reverting' /\ (Extra(t)' <=> step' = "value")
    BY <2>1 DEF HasCur, Moved, InCall, Reverting, Extra
  <2>3. Control(t)'
    BY <1>1, <1>2, <1>3, <1>4, <1>8, <2>1, <2>2 DEF Control, Steps
  <2>4. Owning(t, own)'
    BY <1>1, <1>2, <1>3, <1>4, <1>8, <2>1, <2>2 DEF Owning
  <2>5. Tails(t, own)'
    BY <1>1, <1>2, <1>3, <1>4, <1>8, <2>1, <2>2 DEF Tails, Old
  <2>6. \A n \in own : Unstored(t, n)' <=> Unstored(t, n)
    BY <1>2, <1>3, <2>1 DEF Unstored
  <2>7. \A e \in Entries : InFlight(t, e) => InFlight(t, e)'
    BY <1>2, <1>5, <2>1 DEF InFlight
  <2>8. step' \notin {"gone", "grow", "key", "tail", "unset"}
    BY <2>1
  <2> QED
    BY <1>2, <1>4, <1>8, <2>2, <2>3, <2>4, <2>5, <2>6, <2>7, <2>8, CallFrame
<1> QED
  BY <1>7, <1>8

(* What a call that has succeeded leaves: T is the block of its last one.  *)
LEMMA Published ==
  ASSUME NEW t \in Int, NEW h \in Int, NEW f \in Firsts, NEW K \in Numbers,
         NEW own \in SUBSET Int, Good(t, h, f, K, own), step = "publish"
  PROVE  \E T \in Int, u \in Int :
           /\ T = TailNum(t) /\ u = t + count /\ t < u /\ Before(u) = T /\ Before(t) <= T
           /\ undone = 0 /\ headers # <<>> /\ Has(K, T) /\ tailBlock = Blk(T)
           /\ \A n \in own : n <= T
           /\ \A n \in Int : Num(t) <= n /\ n <= T => n \in own
           /\ T \in own
<1>1. Control(t) /\ Keys(t, h, K) /\ Owning(t, own) /\ Tails(t, own)
  BY DEF Good
<1>2. PICK E \in Int, B \in Int, L \in Nat :
        /\ E = Ensuing(t) /\ B = Before(t) /\ L = Len(fresh) /\ E = B + L + 1 /\ undone = 0
        /\ count \in Nat /\ count >= 1 /\ bulk \in BOOLEAN
  <2>1. undone = 0
    BY <1>1, CallFacts DEF Control, Reverting
  <2>2. /\ Ensuing(t) \in Int /\ Before(t) \in Int /\ Len(fresh) \in Nat
        /\ Ensuing(t) = Before(t) + Len(fresh) + 1
    BY <1>1, CallFacts DEF Ensuing
  <2>3. count \in Nat /\ count >= 1 /\ bulk \in BOOLEAN
    BY <1>1, CallFacts DEF Control, InCall
  <2> QED
    BY <2>1, <2>2, <2>3
<1>3. /\ InCall /\ ~Reverting /\ headers # <<>> /\ (HasCur(t) <=> SingleNew(t))
      /\ (Extra(t) <=> SingleNew(t)) /\ (Moved(t) <=> SingleNew(t))
  BY <1>1 DEF InCall, Reverting, Keys, HasCur, Extra, Moved
<1>4. PICK T \in Int, u \in Int :
        T = (IF SingleNew(t) THEN E ELSE E - 1) /\ u = t + count
  BY <1>2
<1>5. T = TailNum(t) /\ B <= T /\ t < u
  BY <1>2, <1>3, <1>4 DEF TailNum
<1>6. Begins(T) < u /\ u <= Begins(T + 1) /\ Begins(T) \in Int /\ Begins(T + 1) = Begins(T) + BlockSize
  <2>1. t + count <= Begins(T + 1)
    <3>1. SingleNew(t) => T + 1 = Ensuing(t) + 1
      BY <1>2, <1>4
    <3>2. ~SingleNew(t) => T + 1 = Ensuing(t)
      BY <1>2, <1>4
    <3> QED
      BY <1>1, <3>1, <3>2 DEF Control
  <2>2. Begins(T) < t + count
    BY <1>1, <1>2, <1>3, <1>4 DEF Control
  <2> QED
    BY <1>4, <2>1, <2>2, BeginsFacts
<1>7. Before(u) = T
  <2>1. PICK x \in Int : x = u - 1
    OBVIOUS
  <2>2. BlockSize * T <= x /\ x < BlockSize * T + BlockSize
    BY <1>6, <2>1, Sizes DEF Begins
  <2> QED
    BY <2>1, <2>2, NumUnique DEF Before
<1>8. T = B => ~AtBase(t) /\ fresh = <<>>
  <2>1. SUFFICES ASSUME T = B PROVE ~AtBase(t) /\ fresh = <<>>
    OBVIOUS
  <2>2. ~SingleNew(t) /\ L = 0
    BY <1>2, <1>4, <2>1
  <2>3. t < Begins(B + 1)
    BY <1>5, <1>6, <2>1, Sizes
  <2>4. t # Begins(B + 1)
    BY <1>2, <1>6, <2>3, <2>1, Sizes
  <2>5. fresh = <<>>
    <3>1. fresh \in Seq(Bases) /\ Len(fresh) = 0
      BY <1>1, <1>2, <2>2 DEF Control
    <3> QED
      BY <3>1
  <2> QED
    BY <1>2, <2>4, <2>5 DEF AtBase
<1>9. \A n \in Int : B + 1 <= n /\ n <= T => n \in own
  <2> SUFFICES ASSUME NEW n \in Int, B + 1 <= n, n <= T PROVE n \in own
    OBVIOUS
  <2>1. CASE n = E
    BY <1>1, <1>2, <1>3, <1>4, <2>1 DEF Owning
  <2>2. CASE n # E
    <3>1. n \in B + 1 .. E - 1
      BY <1>4, <2>2
    <3> QED
      BY <1>1, <1>2, <3>1 DEF Owning
  <2> QED
    BY <2>1, <2>2
<1>10. \A n \in Int : Num(t) <= n /\ n <= T => n \in own
  <2> SUFFICES ASSUME NEW n \in Int, Num(t) <= n, n <= T PROVE n \in own
    OBVIOUS
  <2>1. CASE n >= B + 1
    BY <1>9, <2>1
  <2>2. CASE n < B + 1
    <3>1. ~AtBase(t) /\ n = B
      BY <1>2, <2>2, AtBaseIs
    <3> QED
      BY <1>1, <1>2, <3>1 DEF Owning
  <2> QED
    BY <1>2, <2>1, <2>2
<1>11. T \in own
  BY <1>1, <1>2, <1>5, <1>8, <1>9 DEF Owning
<1>12. Has(K, T)
  <2>1. CASE T = B
    <3>1. Active(t, h)
      BY <1>8, <2>1 DEF Active
    <3>2. B \in Before(t) .. TailNum(t)
      BY <1>2, <1>5
    <3> QED
      BY <1>1, <1>3, <2>1, <3>1, <3>2 DEF Keys
  <2>2. CASE T # B
    <3>1. T \in Before(t) + 1 .. TailNum(t)
      BY <1>2, <1>5, <2>2
    <3> QED
      BY <1>1, <1>3, <3>1 DEF Keys
  <2> QED
    BY <2>1, <2>2
<1>13. tailBlock = Blk(T)
  <2>1. CASE SingleNew(t)
    BY <1>1, <1>2, <1>3, <1>4, <2>1 DEF Tails
  <2>2. CASE ~SingleNew(t) /\ fresh # <<>>
    <3>1. tailBlock = Blk(Ensuing(t) - 1)
      BY <1>1, <1>3, <2>2 DEF Tails
    <3> QED
      BY <1>2, <1>4, <2>2, <3>1
  <2>3. CASE ~SingleNew(t) /\ fresh = <<>>
    <3>1. tailBlock = startBlock /\ Old(t, own, startBlock)
      BY <1>1, <1>3, <2>3 DEF Tails
    <3>2. T = B
      BY <1>2, <1>4, <2>3
    <3> QED
      BY <1>2, <1>11, <3>1, <3>2 DEF Old
  <2> QED
    BY <2>1, <2>2, <2>3
<1>14. \A n \in own : n <= T
  <2> SUFFICES ASSUME NEW n \in own PROVE n <= T
    OBVIOUS
  <2>1. n < E \/ (n = E /\ SingleNew(t))
    BY <1>1, <1>2, <1>3 DEF Owning
  <2> QED
    BY <1>4, <2>1
<1> QED
  BY <1>2, <1>3, <1>4, <1>5, <1>7, <1>10, <1>11, <1>12, <1>13, <1>14

LEMMA PublishStep ==
  ASSUME NEW t \in Int, NEW h \in Int, NEW f \in Firsts, NEW K \in Numbers,
         NEW own \in SUBSET Int, Good(t, h, f, K, own), Publish
  PROVE  \E u \in Int : Good(u, h, f, K, own)'
<1>1. /\ Control(t) /\ Shape /\ Keys(t, h, K) /\ Owning(t, own) /\ Tails(t, own)
      /\ Values(t, K, own) /\ Claimed(t, h, f) /\ Counted(t, h, f, own) /\ Seen(f, K)
      /\ Ended
  BY DEF Good
<1>2. /\ step = "publish" /\ step' = "idle" /\ fresh' = <<>> /\ sent' = sent + count
      /\ tailIndex' = Plus(tailIndex, count)
      /\ UNCHANGED <<headIndex, undone, owned, bulk, count, startBlock, cur, headers, key,
                     value, tailBlock, elementsCompletelyDequeued, destroyed, pc>>
      /\ UNCHANGED consumerVars
  BY DEF Publish, At, ringVars, blockVars, consumerVars
<1>3. PICK T \in Int, u \in Int :
        /\ T = TailNum(t) /\ u = t + count /\ t < u /\ Before(u) = T /\ Before(t) <= T
        /\ undone = 0 /\ headers # <<>> /\ Has(K, T) /\ tailBlock = Blk(T)
        /\ \A n \in own : n <= T
        /\ \A n \in Int : Num(t) <= n /\ n <= T => n \in own
        /\ T \in own
  BY <1>2, Published
<1>4. /\ Before(u)' = T /\ Len(fresh') = 0 /\ Ensuing(u)' = T + 1 /\ InCall /\ ~InCall'
      /\ ~Reverting' /\ ~Extra(u)' /\ ~HasCur(u)' /\ ~Moved(u)' /\ TailNum(u)' = T
  <2>1. Before(u)' = T /\ Len(fresh') = 0 /\ InCall /\ ~InCall'
    BY <1>2, <1>3 DEF Before, InCall
  <2>2. ~Reverting' /\ ~Extra(u)' /\ ~HasCur(u)' /\ ~Moved(u)'
    BY <1>2 DEF Reverting, Extra, HasCur, Moved
  <2> QED
    BY <1>2, <1>3, <2>1, <2>2 DEF Ensuing, TailNum
<1>5. count \in Nat /\ count <= MaxBulk /\ count >= 1 /\ sent + count <= MaxSent /\ sent \in Nat
  BY <1>1, <1>4, CallFacts DEF Control
<1>6. Control(u)'
  <2>1. tailIndex' = Mod(u)
    <3>1. tailIndex = Mod(t) /\ count \in Int
      BY <1>1, <1>5 DEF Control
    <3> QED
      BY <1>2, <1>3, <3>1, ModFacts
  <2>2. sent' \in 0 .. MaxSent
    BY <1>2, <1>5, Kinds
  <2>3. undone' \in 0 .. Len(fresh') /\ fresh' \in Seq(Bases)
    BY <1>2, <1>3, <1>4
  <2> QED
    BY <1>1, <1>2, <1>3, <1>4, <2>1, <2>2, <2>3 DEF Control, Steps
<1>7. Keys(u, h, K)'
  <2>1. /\ \A e \in Entries : Valid(e)' <=> Valid(e)
        /\ blockIndex' = blockIndex
    BY <1>2 DEF Valid, blockIndex
  <2>2. \A n \in Int : Has(K, n)' <=> Has(K, n)
    BY <1>2, <2>1 DEF Has, Valid
  <2>3. \A j \in 1 .. Len(headers) - 1 : Frozen(K, headers[j])' <=> Frozen(K, headers[j])
    BY <1>2 DEF Frozen, Valid
  <2>4. Near(u, K, blockIndex)' <=> Near(t, K, blockIndex)
    BY <1>2, <1>3, <1>4, <2>1 DEF Near, Valid
  <2>5. \A n \in Before(u)' .. TailNum(u)' : n = T
    BY <1>3, <1>4
  <2>6. \A n \in Before(u)' + 1 .. TailNum(u)' : FALSE
    BY <1>3, <1>4
  <2>7. \A p \in DOMAIN blockIndex.index : LET e == blockIndex.index[p] IN
          Valid(e)' => \A n \in K[e] .. TailNum(u)' : Has(K, n)'
    <3> SUFFICES ASSUME NEW p \in DOMAIN blockIndex.index, Valid(blockIndex.index[p])',
                        NEW n \in K[blockIndex.index[p]] .. T
                 PROVE  Has(K, n)'
      BY <1>4
    <3>1. blockIndex.index[p] \in Entries
      BY <1>1, <1>3, LatestFacts, FormedFacts
    <3>2. n \in Int /\ Valid(blockIndex.index[p])
      BY <2>1, <3>1 DEF Numbers
    <3>3. Has(K, n)
      BY <1>1, <1>3, <3>2 DEF Keys
    <3> QED
      BY <2>2, <3>2, <3>3
  <2>8. \A n \in Before(u)' .. TailNum(u)' : Has(K, n)'
    BY <1>3, <2>2, <2>5
  <2>9. /\ key' \in [Entries -> Bases \cup {INVALID_BLOCK_BASE}]
        /\ \A e \in Entries : Valid(e)' => key'[e] = Blk(K[e])
        /\ \A e \in Entries : headers' = <<>> \/ e >= Capacity(blockIndex)' =>
             ~Valid(e)' /\ value'[e] = Garbage
        /\ \A i \in 1 .. Len(headers') - 1 : Frozen(K, headers[i])'
        /\ Near(u, K, blockIndex)' /\ headers' # <<>>
    BY <1>1, <1>2, <1>3, <2>1, <2>3, <2>4 DEF Keys
  <2> QED
    BY <2>1, <2>6, <2>7, <2>8, <2>9 DEF Keys
<1>8. Owning(u, own)'
  <2>1. ASSUME NEW m \in own PROVE u - Begins(m) < IndexSize \div 2
    <3>1. Begins(m) \in Int
      BY BeginsFacts
    <3>2. CASE m <= Before(t)
      <4>1. t + count - Begins(m) < IndexSize \div 2
        BY <1>1, <1>4, <3>2 DEF Owning
      <4> QED
        BY <1>3, <1>5, <3>1, <4>1
    <3>3. CASE m > Before(t)
      <4>1. PICK n \in Int : n = Before(t) + 1 /\ n <= m /\ t <= Begins(n)
        <5>1. Before(t) \in Int /\ t <= Begins(Before(t) + 1)
          BY <1>1, CallFacts
        <5> QED
          BY <3>3, <5>1
      <4>2. Begins(n) <= Begins(m) /\ Begins(n) \in Int
        BY <4>1, BeginsFacts
      <4> QED
        BY <1>3, <1>5, <3>1, <4>1, <4>2, Kinds
    <3> QED
      <4>1. Before(t) \in Int /\ m \in Int
        BY <1>1, CallFacts
      <4> QED
        BY <3>2, <3>3, <4>1
  <2>2. \A m \in own : m <= Before(u)' =>
          u + (IF InCall THEN count ELSE 0)' - Begins(m) < IndexSize \div 2
    <3> SUFFICES ASSUME NEW m \in own
                 PROVE  u + (IF InCall THEN count ELSE 0)' - Begins(m) < IndexSize \div 2
      OBVIOUS
    <3>1. PICK d \in Int : d = Begins(m) /\ u - d < IndexSize \div 2
      BY <2>1, BeginsFacts
    <3>2. (IF InCall THEN count ELSE 0)' = 0
      BY <1>4
    <3> QED
      BY <3>1, <3>2, Kinds
  <2>3. \A m \in own : m < T + 1
    BY <1>3
  <2>4. \A m \in Before(u)' + 1 .. Ensuing(u)' - 1 : FALSE
    BY <1>4
  <2>5. owned' = {Blk(n) : n \in own}
    BY <1>1, <1>2 DEF Owning
  <2> QED
    BY <1>3, <1>4, <2>2, <2>3, <2>4, <2>5 DEF Owning
<1>9. Tails(u, own)'
  BY <1>1, <1>2, <1>3, <1>4 DEF Tails, Old
<1>10. Values(u, K, own)'
  <2>1. \A n \in own : ~Unstored(t, n) /\ ~Unstored(u, n)'
    <3> SUFFICES ASSUME NEW n \in own PROVE ~Unstored(t, n) /\ ~Unstored(u, n)'
      OBVIOUS
    <3>1. n # T + 1 /\ n \in Int /\ Before(t) \in Int
      BY <1>1, <1>3, CallFacts
    <3> QED
      BY <1>2, <1>3, <1>4, <3>1 DEF Unstored
  <2>2. \A e \in Entries : Valid(e)' <=> Valid(e)
    BY <1>2 DEF Valid
  <2>3. \A n \in own : Stored(K, n)'
    <3>1. \A n \in own : Stored(K, n)
      BY <1>1, <2>1 DEF Values
    <3> QED
      BY <1>2, <3>1 DEF Stored, blockIndex
  <2>4. \A e \in Entries : value'[e] \in Bases =>
          Valid(e)' /\ value'[e] = Blk(K[e]) /\ K[e] \in own /\ ~Unstored(u, K[e])'
    BY <1>1, <1>2, <2>1, <2>2 DEF Values
  <2>5. \A e \in Entries : ~(Valid(e)' /\ value'[e] = Garbage)
    <3>1. \A e \in Entries : ~InFlight(t, e)
      BY <1>2 DEF InFlight
    <3> QED
      BY <1>1, <1>2, <2>2, <3>1 DEF Values
  <2> QED
    BY <1>1, <1>2, <2>3, <2>4, <2>5 DEF Values
<1>11. Claimed(u, h, f)'
  BY <1>1, <1>2, <1>3, ClaimedKept
<1>12. Counted(u, h, f, own)'
  <2>1. Counted(t, h, f, own)'
    BY <1>1, <1>2, CountedKept
  <2>2. ASSUME NEW x \in Int, x < u, Undone(h, f, x)' PROVE Num(x) \in own
    <3>1. CASE x < t
      BY <2>1, <2>2, <3>1 DEF Counted
    <3>2. CASE x >= t
      <4>1. PICK y \in Int : y = u - 1 /\ x <= y
        BY <2>2
      <4>2. Num(t) <= Num(x) /\ Num(x) <= Num(y) /\ Num(x) \in Int
        BY <3>2, <4>1, NumMonotone, NumIs
      <4> QED
        BY <1>3, <4>1, <4>2 DEF Before
    <3> QED
      BY <3>1, <3>2
  <2> QED
    BY <2>1, <2>2 DEF Counted
<1>13. Seen(f, K)'
  <2>1. Len(headers) \in 0 .. Len(headers') /\ Len(headers') \in Nat
    BY <1>1, <1>2 DEF Shape
  <2>2. \A i \in 1 .. Len(headers) : headers'[i].index = headers[i].index
    BY <1>2
  <2>3. \A e \in Entries : Valid(e) => Valid(e)'
    BY <1>2 DEF Valid
  <2>4. \A e \in Entries, n \in Int : n <= Before(t) /\ Holds(K, e, n) => Holds(K, e, n)'
    BY <1>2 DEF Holds
  <2> QED
    BY <1>1, <1>2, <2>1, <2>2, <2>3, <2>4, SeenStays
<1>14. Shape' /\ Ended'
  BY <1>1, <1>2 DEF Shape, blockIndex, Ended
<1> QED
  BY <1>6, <1>7, <1>8, <1>9, <1>10, <1>11, <1>12, <1>13, <1>14 DEF Good

--------------------------------------------------------------------------------
(* The entry the producer finds for a block is the one of that block.      *)
LEMMA EntryIs ==
  ASSUME NEW t \in Int, NEW h \in Int, NEW K \in Numbers, NEW own \in SUBSET Int,
         Control(t), Shape, Keys(t, h, K), Values(t, K, own), headers # <<>>,
         Has(K, TailNum(t)), NEW n \in Int, Stored(K, n)
  PROVE  /\ EntryOf(Blk(n)) \in Entries /\ Valid(EntryOf(Blk(n)))
         /\ K[EntryOf(Blk(n))] = n /\ value[EntryOf(Blk(n))] = Blk(n)
<1>1. /\ Capacity(blockIndex) \in Nat \ {0}
      /\ DOMAIN blockIndex.index = 0 .. Capacity(blockIndex) - 1
      /\ blockIndex.tail \in 0 .. Capacity(blockIndex) - 1
      /\ \A p \in DOMAIN blockIndex.index : blockIndex.index[p] \in Entries
      /\ \E k \in Int : Turn1 = Capacity(blockIndex) * k
  BY LatestFacts, FormedFacts
<1>2. PICK C \in Nat \ {0}, T \in Int :
        /\ C = Capacity(blockIndex) /\ T = TailNum(t)
        /\ \E k \in Int : Turn1 = C * k
        /\ DOMAIN blockIndex.index = 0 .. C - 1
  BY <1>1, CallFacts
<1>3. PICK k \in Int : Turn1 = C * k
  BY <1>2
<1>4. PICK p \in 0 .. C - 1 :
        value[blockIndex.index[p]] = Blk(n) /\ K[blockIndex.index[p]] = n
  BY <1>2 DEF Stored
<1>5. PICK r \in 0 .. C - 1 : r = blockIndex.tail
  BY <1>1, <1>2
<1>6. blockIndex.index[p] \in Entries /\ Valid(blockIndex.index[p])
  <2>1. blockIndex.index[p] \in Entries /\ Blk(n) \in Bases
    BY <1>1, <1>2, BlkType
  <2> QED
    BY <1>4, <2>1 DEF Values
<1>7. Cong(n, p + (T - r), C)
  BY <1>2, <1>4, <1>5, <1>6 DEF Keys, Near
<1>8. Cong(p, r + (n - T), C)
  <2>1. PICK q \in Int : n - (p + (T - r)) = C * q
    BY <1>7 DEF Cong
  <2>2. p - (r + (n - T)) = C * (-q) /\ -q \in Int
    BY <2>1
  <2> QED
    BY <2>2 DEF Cong
<1>9. key[tailEntry] = Blk(T)
  <2>1. Valid(tailEntry) /\ K[tailEntry] = T /\ tailEntry \in Entries
    BY <1>2, AtTail, TailFacts
  <2> QED
    BY <2>1 DEF Keys
<1>10. (r + (Minus(Blk(n), Blk(T)) \div BlockSize)) % C = p
  <2>1. PICK R \in Int : R = r
    OBVIOUS
  <2>2. Cong(p, R + (n - T), C)
    BY <1>8, <2>1
  <2>3. (R + (Minus(Blk(n), Blk(T)) \div BlockSize)) % C = p
    BY ONLY C \in Nat \ {0}, k \in Int, <1>3, R \in Int, n \in Int, T \in Int,
            p \in 0 .. C - 1, <2>2, PositionIs
  <2> QED
    BY <2>1, <2>3
<1>11. EntryOf(Blk(n)) = blockIndex.index[p]
  BY <1>2, <1>5, <1>9, <1>10 DEF EntryOf, Position
<1> QED
  BY <1>4, <1>6, <1>11

(* What a failed call takes back is still there.                           *)
LEMMA RevertFacts ==
  ASSUME NEW t \in Int, NEW h \in Int, NEW f \in Firsts, NEW K \in Numbers,
         NEW own \in SUBSET Int, Good(t, h, f, K, own), step = "revert", undone < Len(fresh)
  PROVE  \E m \in Int, e \in Entries :
           /\ m = Before(t) + undone + 1 /\ Blk(m) = fresh[undone + 1] /\ headers # <<>>
           /\ e = EntryOf(fresh[undone + 1]) /\ Valid(e) /\ K[e] = m /\ value[e] = Blk(m)
           /\ key[e] = Blk(m) /\ m \in own
<1>1. /\ Control(t) /\ Shape /\ Keys(t, h, K) /\ Owning(t, own) /\ Values(t, K, own)
  BY DEF Good
<1>2. PICK B \in Int, L \in Nat, u \in Nat :
        /\ B = Before(t) /\ L = Len(fresh) /\ u = undone /\ u < L /\ Ensuing(t) = B + L + 1
        /\ TailNum(t) = B + (L - u)
  <2>1. /\ Before(t) \in Int /\ Len(fresh) \in Nat /\ undone \in Nat
        /\ Ensuing(t) = Before(t) + Len(fresh) + 1 /\ ~Moved(t)
    BY <1>1, CallFacts DEF Ensuing, Moved
  <2>2. TailNum(t) = Before(t) + (Len(fresh) - undone)
    BY <2>1 DEF TailNum
  <2> QED
    BY <2>1, <2>2
<1>3. headers # <<>>
  <2>1. fresh # <<>>
    BY <1>2
  <2> QED
    BY <1>1, <2>1 DEF Keys
<1>4. PICK m \in Int : m = B + u + 1
  OBVIOUS
<1>5. m \in own
  <2>1. m \in Before(t) + 1 .. Ensuing(t) - 1
    BY <1>2, <1>4
  <2> QED
    BY <1>1, <2>1 DEF Owning
<1>6. Stored(K, m)
  <2>1. ~Unstored(t, m)
    BY <1>2, <1>4 DEF Unstored
  <2> QED
    BY <1>1, <1>5, <2>1 DEF Values
<1>7. Has(K, TailNum(t))
  <2>1. TailNum(t) \in Before(t) + 1 .. TailNum(t)
    BY <1>2
  <2> QED
    BY <1>1, <1>3, <2>1 DEF Keys
<1>8. /\ EntryOf(Blk(m)) \in Entries /\ Valid(EntryOf(Blk(m)))
      /\ K[EntryOf(Blk(m))] = m /\ value[EntryOf(Blk(m))] = Blk(m)
  BY <1>1, <1>3, <1>6, <1>7, EntryIs
<1>9. fresh[undone + 1] = Blk(m)
  <2>1. undone + 1 \in 1 .. Len(fresh) /\ m = Before(t) + (undone + 1)
    BY <1>2, <1>4
  <2> QED
    BY <1>1, <2>1 DEF Control
<1>10. key[EntryOf(Blk(m))] = Blk(m)
  BY <1>1, <1>8 DEF Keys
<1> QED
  BY <1>2, <1>3, <1>4, <1>5, <1>8, <1>9, <1>10

LEMMA RevertOneStep ==
  ASSUME NEW t \in Int, NEW h \in Int, NEW f \in Firsts, NEW K \in Numbers,
         NEW own \in SUBSET Int, Good(t, h, f, K, own), undone < Len(fresh),
         At("revert", "revertRewind"),
         value' = [value EXCEPT ![EntryOf(fresh[undone + 1])] = Null], undone' = undone + 1,
         UNCHANGED <<headers, key, blockVars, bulk, count, startBlock, cur, fresh, restVars>>
  PROVE  Good(t, h, f, K, own)'
<1>1. /\ Control(t) /\ Shape /\ Keys(t, h, K) /\ Owning(t, own) /\ Tails(t, own)
      /\ Values(t, K, own) /\ Claimed(t, h, f) /\ Counted(t, h, f, own) /\ Seen(f, K)
      /\ Ended
  BY DEF Good
<1>2. /\ step = "revert" /\ step' = "revertRewind"
      /\ UNCHANGED <<tailIndex, headIndex, tailBlock, fresh, sent, bulk, count, owned,
                     startBlock, cur, headers, key, elementsCompletelyDequeued, destroyed,
                     pc>>
      /\ UNCHANGED consumerVars
  BY DEF At, blockVars, restVars, consumerVars
<1>3. PICK m \in Int, e \in Entries :
        /\ m = Before(t) + undone + 1 /\ Blk(m) = fresh[undone + 1] /\ headers # <<>>
        /\ e = EntryOf(fresh[undone + 1]) /\ Valid(e) /\ K[e] = m /\ value[e] = Blk(m)
        /\ key[e] = Blk(m) /\ m \in own
  <2>1. step = "revert"
    BY <1>2
  <2> QED
    BY ONLY Good(t, h, f, K, own), undone < Len(fresh), t \in Int, h \in Int, f \in Firsts,
       K \in Numbers, own \in SUBSET Int, <2>1, RevertFacts, SMTT(30)
<1>4. PICK B \in Int, L \in Nat, u \in Nat :
        /\ B = Before(t) /\ B = Before(t)' /\ L = Len(fresh) /\ u = undone /\ u < L
        /\ Ensuing(t) = B + L + 1 /\ Ensuing(t)' = B + L + 1
        /\ TailNum(t) = B + (L - u) /\ TailNum(t)' = TailNum(t)
  <2>1. /\ Before(t) \in Int /\ Len(fresh) \in Nat /\ undone \in Nat
        /\ Ensuing(t) = Before(t) + Len(fresh) + 1 /\ ~Moved(t) /\ Moved(t)'
        /\ Before(t)' = Before(t) /\ Ensuing(t)' = Ensuing(t)
    BY <1>1, <1>2, CallFacts DEF Ensuing, Moved, Before
  <2>2. TailNum(t) = Before(t) + (Len(fresh) - undone)
    BY <2>1 DEF TailNum
  <2>3. TailNum(t)' = Before(t) + (Len(fresh) - (undone + 1)) + 1
    BY <1>2, <2>1 DEF TailNum
  <2> QED
    BY <2>1, <2>2, <2>3
<1>5. /\ bulk /\ InCall /\ InCall' /\ Reverting /\ Reverting' /\ ~HasCur(t) /\ ~HasCur(t)'
      /\ ~Extra(t) /\ ~Extra(t)' /\ AtBase(t)' = AtBase(t)
  BY <1>1, <1>2, <1>4 DEF Control, InCall, Reverting, HasCur, Extra, AtBase, Begins
<1>6. Control(t)'
  <2>1. undone' \in 0 .. Len(fresh') /\ undone' > 0
    BY <1>2, <1>4
  <2> QED
    BY <1>1, <1>2, <1>4, <1>5, <2>1 DEF Control, Steps
<1>7. Owning(t, own)'
  BY <1>1, <1>2, <1>4, <1>5 DEF Owning
<1>8. Tails(t, own)'
  BY <1>1, <1>2, <1>4, <1>5 DEF Tails, Old
<1>9. /\ \A x \in Entries : x # e => value'[x] = value[x]
      /\ value'[e] = Null /\ value' \in [Entries -> Bases \cup {Null, Garbage}]
      /\ \A x \in Entries : Valid(x)' <=> Valid(x)
      /\ blockIndex' = blockIndex
  BY <1>1, <1>2, <1>3 DEF Values, Valid, blockIndex
<1>10. Keys(t, h, K)'
  <2>1. Active(t, h)' = Active(t, h)
    BY <1>2, <1>5 DEF Active
  <2>2. \A x \in Entries : ~Valid(x) => value'[x] = value[x]
    BY <1>3, <1>9
  <2> QED
    BY <1>1, <1>2, <1>3, <1>4, <2>1, <2>2, SameKeys
<1>11. Values(t, K, own)'
  <2>1. \A n \in Int : Unstored(t, n)' <=> (Unstored(t, n) \/ n = m)
    <3>1. undone' = u + 1 /\ m = B + u + 1
      BY <1>3, <1>4
    <3>2. \A n \in Int : n \in B + 1 .. B + (u + 1) <=> n \in B + 1 .. B + u \/ n = m
      BY <3>1
    <3> QED
      BY <1>2, <1>4, <3>1, <3>2 DEF Unstored
  <2>2. \A x \in Entries : value'[x] \in Bases =>
          Valid(x)' /\ value'[x] = Blk(K[x]) /\ K[x] \in own /\ ~Unstored(t, K[x])'
    <3> SUFFICES ASSUME NEW x \in Entries, value'[x] \in Bases
                 PROVE  Valid(x)' /\ value'[x] = Blk(K[x]) /\ K[x] \in own
                        /\ ~Unstored(t, K[x])'
      OBVIOUS
    <3>1. x # e /\ value'[x] = value[x]
      BY <1>9, Kinds
    <3>2. Valid(x) /\ value[x] = Blk(K[x]) /\ K[x] \in own /\ ~Unstored(t, K[x])
      BY <1>1, <3>1 DEF Values
    <3>3. K[x] # m
      BY <1>1, <1>3, <3>1, <3>2, UniqueKey
    <3> QED
      BY <1>9, <2>1, <3>1, <3>2, <3>3
  <2>3. \A n \in own : Unstored(t, n)' \/ Stored(K, n)'
    <3> SUFFICES ASSUME NEW n \in own, ~Unstored(t, n), n # m PROVE Stored(K, n)'
      BY <2>1
    <3>1. PICK p \in DOMAIN blockIndex.index :
            value[blockIndex.index[p]] = Blk(n) /\ K[blockIndex.index[p]] = n
      BY <1>1 DEF Values, Stored
    <3>2. blockIndex.index[p] \in Entries
      BY <1>1, <1>3, LatestFacts, FormedFacts
    <3>3. value'[blockIndex.index[p]] = Blk(n)
      BY <1>3, <1>9, <3>1, <3>2
    <3> QED
      BY <1>2, <1>3, <1>9, <3>1, <3>3 DEF Stored
  <2>4. \A x \in Entries : ~(Valid(x)' /\ value'[x] = Garbage)
    <3> SUFFICES ASSUME NEW x \in Entries, Valid(x)', value'[x] = Garbage PROVE FALSE
      OBVIOUS
    <3>1. value[x] = Garbage /\ Valid(x)
      BY <1>9, Kinds
    <3> QED
      BY <1>1, <1>2, <3>1 DEF Values, InFlight
  <2> QED
    BY <1>2, <1>9, <2>2, <2>3, <2>4 DEF Values
<1>12. Claimed(t, h, f)' /\ Counted(t, h, f, own)'
  BY <1>1, <1>2, ClaimedKept, CountedKept
<1>13. Seen(f, K)'
  <2>1. Len(headers) \in 0 .. Len(headers') /\ Len(headers') \in Nat
    BY <1>1, <1>2 DEF Shape
  <2>2. \A i \in 1 .. Len(headers) : headers'[i].index = headers[i].index
    BY <1>2
  <2>3. \A x \in Entries : Valid(x) => Valid(x)'
    BY <1>9
  <2>4. \A x \in Entries, n \in Int : n <= Before(t) /\ Holds(K, x, n) => Holds(K, x, n)'
    BY <1>3, <1>4, <1>9 DEF Holds
  <2> QED
    BY <1>1, <1>2, <2>1, <2>2, <2>3, <2>4, SeenStays
<1>14. Shape' /\ Ended'
  BY <1>1, <1>2 DEF Shape, blockIndex, Ended
<1> QED
  BY <1>6, <1>7, <1>8, <1>10, <1>11, <1>12, <1>13, <1>14 DEF Good

LEMMA RevertAllStep ==
  ASSUME NEW t \in Int, NEW h \in Int, NEW f \in Firsts, NEW K \in Numbers,
         NEW own \in SUBSET Int, Good(t, h, f, K, own), undone = Len(fresh),
         At("revert", "idle"), owned' = owned \ ToSet(fresh), tailBlock' = startBlock,
         fresh' = <<>>, undone' = 0,
         UNCHANGED <<ringVars, elementsCompletelyDequeued, bulk, count, startBlock, cur,
                     restVars>>
  PROVE  \E rest \in SUBSET Int : Good(t, h, f, K, rest)'
<1>1. /\ Control(t) /\ Shape /\ Keys(t, h, K) /\ Owning(t, own) /\ Tails(t, own)
      /\ Values(t, K, own) /\ Claimed(t, h, f) /\ Counted(t, h, f, own) /\ Seen(f, K)
      /\ Ended
  BY DEF Good
<1>2. /\ step = "revert" /\ step' = "idle"
      /\ UNCHANGED <<tailIndex, headIndex, sent, bulk, count, startBlock, cur, headers, key,
                     value, elementsCompletelyDequeued, destroyed, pc>>
      /\ UNCHANGED consumerVars
  BY DEF At, ringVars, restVars, consumerVars
<1>3. PICK B \in Int, L \in Nat :
        /\ B = Before(t) /\ B = Before(t)' /\ L = Len(fresh) /\ undone = L
        /\ Ensuing(t) = B + L + 1 /\ Ensuing(t)' = B + 1 /\ count \in Nat
        /\ TailNum(t) = B /\ TailNum(t)' = B
  <2>1. /\ Before(t) \in Int /\ Len(fresh) \in Nat /\ undone \in Nat /\ count \in Nat
        /\ Ensuing(t) = Before(t) + Len(fresh) + 1 /\ ~Moved(t) /\ ~Moved(t)'
        /\ Before(t)' = Before(t) /\ Len(fresh') = 0
    BY <1>1, <1>2, CallFacts DEF Ensuing, Moved, Before
  <2>2. TailNum(t) = Before(t) + (Len(fresh) - undone)
    BY <2>1 DEF TailNum
  <2>3. TailNum(t)' = Before(t) + (0 - 0) /\ Ensuing(t)' = Before(t) + 0 + 1
    BY <1>2, <2>1 DEF TailNum, Ensuing
  <2> QED
    BY <2>1, <2>2, <2>3
<1>4. /\ bulk /\ InCall /\ ~InCall' /\ Reverting /\ ~HasCur(t) /\ ~HasCur(t)'
      /\ ~Extra(t) /\ ~Extra(t)' /\ AtBase(t)' = AtBase(t)
  BY <1>1, <1>2, <1>3 DEF Control, InCall, Reverting, HasCur, Extra, AtBase, Begins
<1>5. PICK rest \in SUBSET own : rest = {n \in own : n <= B}
  OBVIOUS
<1>6. Control(t)'
  <2>1. undone' \in 0 .. Len(fresh') /\ fresh' \in Seq(Bases) /\ Len(fresh') = 0
    OBVIOUS
  <2> QED
    BY <1>1, <1>2, <1>3, <1>4, <2>1 DEF Control, Steps
<1>7. Owning(t, rest)'
  <2>1. owned' = {Blk(n) : n \in rest}
    <3>1. ToSet(fresh) = {Blk(B + i) : i \in 1 .. L}
      <4>1. \A i \in 1 .. L : fresh[i] = Blk(B + i)
        BY <1>1, <1>3 DEF Control
      <4>2. DOMAIN fresh = 1 .. L
        BY <1>1, <1>3 DEF Control
      <4> QED
        BY <4>1, <4>2 DEF ToSet
    <3>2. \A n \in rest, i \in 1 .. L : Blk(n) # Blk(B + i)
      <4> SUFFICES ASSUME NEW n \in rest, NEW i \in 1 .. L, Blk(n) = Blk(B + i) PROVE FALSE
        OBVIOUS
      <4>1. PICK j \in Int : j = B + i /\ j > B /\ j \in own
        <5>1. B + i \in Before(t) + 1 .. Ensuing(t) - 1
          BY <1>3
        <5>2. B + i \in own
          BY <1>1, <5>1 DEF Owning
        <5> QED
          BY <5>1, <5>2, <1>3
      <4>2. n = j
        BY <1>1, <1>5, <4>1, OwnApart
      <4> QED
        BY <1>5, <4>1, <4>2
    <3>3. \A n \in own : n \notin rest => \E i \in 1 .. L : n = B + i
      <4> SUFFICES ASSUME NEW n \in own, ~(n <= B) PROVE \E i \in 1 .. L : n = B + i
        BY <1>5
      <4>1. n < Ensuing(t)
        BY <1>1, <1>2, <1>4 DEF Owning
      <4>2. n - B \in 1 .. L /\ n = B + (n - B)
        BY <1>3, <4>1
      <4> QED
        BY <4>2
    <3>4. owned = {Blk(n) : n \in own}
      BY <1>1 DEF Owning
    <3> QED
      BY <3>1, <3>2, <3>3, <3>4
  <2>2. \A m \in rest : m <= Before(t) =>
          t + (IF InCall THEN count ELSE 0)' - Begins(m) < IndexSize \div 2
    <3> SUFFICES ASSUME NEW m \in rest
                 PROVE  t + (IF InCall THEN count ELSE 0)' - Begins(m) < IndexSize \div 2
      OBVIOUS
    <3>1. t + count - Begins(m) < IndexSize \div 2 /\ Begins(m) \in Int
      BY <1>1, <1>3, <1>4, <1>5, BeginsFacts DEF Owning
    <3>2. (IF InCall THEN count ELSE 0)' = 0
      BY <1>4
    <3>3. PICK d \in Int, k \in Nat : d = Begins(m) /\ k = count
      BY <1>3, <3>1
    <3>4. t + 0 - d < IndexSize \div 2
      BY <3>1, <3>3, Kinds
    <3> QED
      BY <3>2, <3>3, <3>4
  <2>3. \A m \in rest : m < B + 1
    BY <1>3, <1>5
  <2>4. \A n \in Before(t)' + 1 .. Ensuing(t)' - 1 : FALSE
    BY <1>3
  <2>5. ~AtBase(t)' => B \in rest
    BY <1>1, <1>3, <1>4, <1>5 DEF Owning
  <2> QED
    BY <1>3, <1>4, <2>1, <2>2, <2>3, <2>4, <2>5 DEF Owning
<1>8. Tails(t, rest)'
  <2>1. Old(t, own, startBlock) => Old(t, rest, startBlock)'
    BY <1>2, <1>3, <1>5 DEF Old
  <2> QED
    BY <1>1, <1>2, <1>4, <2>1 DEF Tails, Old
<1>9. Keys(t, h, K)'
  <2>1. Active(t, h)' = Active(t, h)
    BY <1>2, <1>4 DEF Active
  <2>2. UNCHANGED <<key, headers, value>> /\ TailNum(t)' = TailNum(t)
    BY <1>2, <1>3
  <2> QED
    BY <1>1, <1>2, <2>1, <2>2, SameKeys
<1>10. Values(t, K, rest)'
  <2>1. \A n \in rest : ~Unstored(t, n) /\ ~Unstored(t, n)'
    <3> SUFFICES ASSUME NEW n \in rest PROVE ~Unstored(t, n) /\ ~Unstored(t, n)'
      OBVIOUS
    <3>1. n <= B /\ n \in Int
      BY <1>5
    <3> QED
      BY <1>2, <1>3, <3>1 DEF Unstored
  <2>2. \A n \in own : ~Unstored(t, n) => n \in rest
    <3> SUFFICES ASSUME NEW n \in own, ~Unstored(t, n), ~(n <= B) PROVE FALSE
      BY <1>5
    <3>1. n < Ensuing(t)
      BY <1>1, <1>2, <1>4 DEF Owning
    <3>2. n \in Before(t) + 1 .. Before(t) + undone
      BY <1>3, <3>1
    <3> QED
      BY <3>2 DEF Unstored
  <2>3. \A e \in Entries : Valid(e)' <=> Valid(e)
    BY <1>2 DEF Valid
  <2>4. \A n \in rest : Stored(K, n)'
    <3>1. \A n \in rest : Stored(K, n)
      BY <1>1, <2>1 DEF Values
    <3> QED
      BY <1>2, <3>1 DEF Stored, blockIndex
  <2>5. \A e \in Entries : value'[e] \in Bases =>
          Valid(e)' /\ value'[e] = Blk(K[e]) /\ K[e] \in rest /\ ~Unstored(t, K[e])'
    BY <1>1, <1>2, <2>1, <2>2, <2>3 DEF Values
  <2>6. \A e \in Entries : ~(Valid(e)' /\ value'[e] = Garbage)
    <3>1. \A e \in Entries : ~InFlight(t, e)
      BY <1>2 DEF InFlight
    <3> QED
      BY <1>1, <1>2, <2>3, <3>1 DEF Values
  <2> QED
    BY <1>1, <1>2, <2>4, <2>5, <2>6 DEF Values
<1>11. Claimed(t, h, f)' /\ Counted(t, h, f, rest)'
  <2>1. \A n \in own : n <= Before(t) => n \in rest
    BY <1>3, <1>5
  <2> QED
    BY <1>1, <1>2, <2>1, ClaimedKept, CountedShrunk
<1>12. Seen(f, K)'
  <2>1. Len(headers) \in 0 .. Len(headers') /\ Len(headers') \in Nat
    BY <1>1, <1>2 DEF Shape
  <2>2. \A i \in 1 .. Len(headers) : headers'[i].index = headers[i].index
    BY <1>2
  <2>3. \A x \in Entries : Valid(x) => Valid(x)'
    BY <1>2 DEF Valid
  <2>4. \A x \in Entries, n \in Int : n <= Before(t) /\ Holds(K, x, n) => Holds(K, x, n)'
    BY <1>2 DEF Holds
  <2> QED
    BY <1>1, <1>2, <2>1, <2>2, <2>3, <2>4, SeenStays
<1>13. Shape' /\ Ended'
  BY <1>1, <1>2 DEF Shape, blockIndex, Ended
<1> QED
  BY <1>5, <1>6, <1>7, <1>8, <1>9, <1>10, <1>11, <1>12, <1>13 DEF Good

LEMMA RevertStep ==
  ASSUME NEW t \in Int, NEW h \in Int, NEW f \in Firsts, NEW K \in Numbers,
         NEW own \in SUBSET Int, Good(t, h, f, K, own), Revert
  PROVE  \E rest \in SUBSET Int : Good(t, h, f, K, rest)'
<1>1. CASE /\ undone < Len(fresh) /\ At("revert", "revertRewind")
           /\ value' = [value EXCEPT ![EntryOf(fresh[undone + 1])] = Null]
           /\ undone' = undone + 1
           /\ UNCHANGED <<headers, key, blockVars, bulk, count, startBlock, cur, fresh,
                          restVars>>
  BY <1>1, RevertOneStep
<1>2. CASE /\ undone = Len(fresh) /\ At("revert", "idle")
           /\ owned' = owned \ ToSet(fresh) /\ tailBlock' = startBlock
           /\ fresh' = <<>> /\ undone' = 0
           /\ UNCHANGED <<ringVars, elementsCompletelyDequeued, bulk, count, startBlock, cur,
                          restVars>>
  BY <1>2, RevertAllStep
<1> QED
  BY <1>1, <1>2 DEF Revert

--------------------------------------------------------------------------------
(* When nothing goes on the stream owns the blocks from that of the head   *)
(* to that of the last element, or the one before the tail.                *)
LEMMA QuietFacts ==
  ASSUME NEW t \in Int, NEW h \in Int, NEW f \in Firsts, NEW K \in Numbers,
         NEW own \in SUBSET Int, Good(t, h, f, K, own), Quiet
  PROVE  /\ fresh = <<>> /\ undone = 0 /\ Ensuing(t) = Before(t) + 1
         /\ TailNum(t) = Before(t) /\ Before(t) \in Int /\ Num(h) \in Int
         /\ Begins(Before(t)) <= t - 1 /\ t <= Begins(Before(t) + 1) /\ h <= t
         /\ \A x \in Int : Undone(h, f, x) <=> h <= x
         /\ \A n \in Int : n \in own <=> Num(h) <= n /\ n <= Before(t)
<1>1. /\ Control(t) /\ Owning(t, own) /\ Claimed(t, h, f) /\ Counted(t, h, f, own)
      /\ step = "idle" /\ \A c \in Consumers : pc[c] = "idle"
  BY DEF Good, Quiet
<1>2. /\ fresh = <<>> /\ undone = 0 /\ Len(fresh) = 0 /\ ~Moved(t) /\ ~InCall /\ ~Extra(t)
      /\ Before(t) \in Int /\ Num(h) \in Int /\ h <= t
      /\ Begins(Before(t)) <= t - 1 /\ t <= Begins(Before(t) + 1)
  <2>1. fresh = <<>> /\ undone = 0
    BY <1>1, CallFacts DEF Control, InCall, Reverting
  <2>2. ~Moved(t) /\ ~InCall /\ ~Extra(t)
    BY <1>1 DEF Moved, InCall, Extra
  <2> QED
    BY <1>1, <2>1, <2>2, CallFacts, NumIs DEF Claimed
<1>3. Ensuing(t) = Before(t) + 1 /\ TailNum(t) = Before(t)
  <2>1. Ensuing(t) = Before(t) + 0 + 1
    BY <1>2 DEF Ensuing
  <2>2. TailNum(t) = Before(t) + (0 - 0) + 0
    BY <1>2 DEF TailNum
  <2> QED
    BY <1>2, <2>1, <2>2
<1>4. \A x \in Int : Undone(h, f, x) <=> h <= x
  <2>1. ASSUME NEW c \in Consumers, NEW x \in Int PROVE ~InHand(f, c, x)
    <3>1. pc[c] = "idle" /\ left[c] = 0 /\ Skipped(c) = 0 /\ f[c] \in Int
      BY <1>1 DEF Claimed, Skipped, Firsts
    <3> QED
      BY <3>1 DEF InHand
  <2> QED
    BY <2>1 DEF Undone
<1>5. ASSUME NEW n \in own PROVE Num(h) <= n /\ n <= Before(t)
  <2>1. n <= Before(t)
    <3>1. n < Ensuing(t)
      BY <1>1, <1>2 DEF Owning
    <3> QED
      BY <1>2, <1>3, <3>1
  <2>2. ASSUME n < Num(h) PROVE FALSE
    <3>1. PICK b \in Int : b = Begins(n) /\ b + BlockSize <= h
      <4>1. Begins(n) \in Int /\ Begins(n) + BlockSize <= Begins(Num(h))
        BY <1>2, <2>2, BeginsFacts
      <4>2. Begins(Num(h)) <= h /\ Begins(Num(h)) \in Int
        BY NumIs DEF Begins
      <4> QED
        BY <4>1, <4>2, Sizes
    <3>2. Finished(h, f, n) = b .. b + BlockSize - 1
      <4>1. \A x \in b .. b + BlockSize - 1 : x \in Int /\ ~(h <= x)
        BY <3>1, Sizes
      <4> QED
        BY <1>4, <3>1, <4>1 DEF Finished, Places
    <3>3. Cardinality(b .. b + BlockSize - 1) = BlockSize
      <4>1. PICK z \in Int : z = b + BlockSize - 1 /\ ~(b > z) /\ z - b + 1 = BlockSize
        BY <3>1, Sizes
      <4> QED
        BY <4>1, FS_Interval
    <3> QED
      BY <1>1, <3>2, <3>3 DEF Counted
  <2> QED
    BY <1>2, <2>1, <2>2
<1>6. ASSUME NEW n \in Int, Num(h) <= n, n <= Before(t) PROVE n \in own
  <2>1. CASE n = Num(h) /\ h < t
    BY <1>1, <1>4, <2>1 DEF Counted
  <2>2. CASE n = Num(h) /\ h = t
    <3>1. ~AtBase(t) /\ n = Before(t)
      BY <1>2, <1>6, <2>2, AtBaseIs
    <3> QED
      BY <1>1, <3>1 DEF Owning
  <2>3. CASE n # Num(h)
    <3>1. PICK b \in Int : b = Begins(n) /\ h <= b /\ b < t
      <4>1. Begins(n) \in Int /\ Begins(Num(h)) + BlockSize <= Begins(n)
        BY <1>2, <1>6, <2>3, BeginsFacts
      <4>2. h < Begins(Num(h)) + BlockSize /\ Begins(Num(h)) \in Int
        BY NumIs DEF Begins
      <4>3. Begins(n) <= Begins(Before(t)) /\ Begins(Before(t)) \in Int
        BY <1>2, <1>6, BeginsFacts
      <4> QED
        BY <1>2, <4>1, <4>2, <4>3, Sizes
    <3>2. Num(b) = n
      BY <3>1, NumUnique, Sizes DEF Begins
    <3> QED
      BY <1>1, <1>4, <3>1, <3>2 DEF Counted
  <2> QED
    BY <1>2, <2>1, <2>2, <2>3
<1> QED
  BY <1>2, <1>3, <1>4, <1>5, <1>6

(* The elements that are left are less than a turn.                        *)
LEMMA QuietSpan ==
  ASSUME NEW t \in Int, NEW h \in Int, NEW f \in Firsts, NEW K \in Numbers,
         NEW own \in SUBSET Int, Good(t, h, f, K, own), Quiet, h < t
  PROVE  /\ Num(h) \in own /\ Num(h) <= Before(t) /\ Begins(Num(h)) \in Int
         /\ Begins(Num(h)) <= h /\ t - Begins(Num(h)) < IndexSize
<1>1. /\ Control(t) /\ Owning(t, own) /\ step = "idle"
  BY DEF Good, Quiet
<1>2. /\ Before(t) \in Int /\ Num(h) \in Int
      /\ \A n \in Int : n \in own <=> Num(h) <= n /\ n <= Before(t)
  BY QuietFacts
<1>3. Num(h) <= Before(t)
  <2>1. PICK x \in Int : x = t - 1 /\ h <= x
    OBVIOUS
  <2> QED
    BY <2>1, NumMonotone DEF Before
<1>4. Num(h) \in own
  BY <1>2, <1>3
<1>5. PICK d \in Int : d = Begins(Num(h)) /\ d <= h
  BY NumIs DEF Begins
<1>6. t + 0 - d < IndexSize \div 2
  <2>1. ~InCall
    BY <1>1 DEF InCall
  <2> QED
    BY <1>1, <1>3, <1>4, <1>5, <2>1 DEF Owning
<1>7. t - d < IndexSize
  BY <1>6, Kinds, Sizes
<1> QED
  BY <1>3, <1>4, <1>5, <1>7

(* The block of the tail, and the place of the index.                      *)
LEMMA QuietTail ==
  ASSUME NEW t \in Int, NEW h \in Int, NEW f \in Firsts, NEW K \in Numbers,
         NEW own \in SUBSET Int, Good(t, h, f, K, own), Quiet
  PROVE  /\ own # {} => tailBlock = Blk(Before(t)) /\ Blk(Before(t)) \in Bases
         /\ own = {} => h = t /\ AtBase(t)
         /\ h = t => own = IF AtBase(t) THEN {} ELSE {Before(t)}
         /\ headIndex = tailIndex <=> h = t
         /\ headIndex = Mod(h) /\ tailIndex = Mod(t)
<1>1. /\ Control(t) /\ Tails(t, own) /\ Claimed(t, h, f) /\ step = "idle"
  BY DEF Good, Quiet
<1>2. /\ Before(t) \in Int /\ Num(h) \in Int /\ h <= t
      /\ \A n \in Int : n \in own <=> Num(h) <= n /\ n <= Before(t)
  BY QuietFacts
<1>3. own # {} => tailBlock = Blk(Before(t)) /\ Blk(Before(t)) \in Bases
  <2>1. Old(t, own, tailBlock)
    BY <1>1 DEF Tails, InCall
  <2>2. Blk(Before(t)) \in Bases
    BY <1>2, BlkType
  <2>3. ASSUME own # {} PROVE ~(\A n \in own : n > Before(t))
    <3>1. PICK n \in own : n \in Int /\ n <= Before(t)
      BY <1>2, <2>3
    <3> QED
      BY <1>2, <3>1
  <2> QED
    BY <2>1, <2>2, <2>3 DEF Old
<1>4. h = t => own = IF AtBase(t) THEN {} ELSE {Before(t)}
  <2> SUFFICES ASSUME h = t PROVE own = IF AtBase(t) THEN {} ELSE {Before(t)}
    OBVIOUS
  <2>1. CASE AtBase(t)
    <3>1. Num(h) = Before(t) + 1
      BY <2>1, AtBaseIs
    <3>2. \A n \in own : FALSE
      BY <1>2, <3>1
    <3> QED
      BY <2>1, <3>2
  <2>2. CASE ~AtBase(t)
    <3>1. Num(h) = Before(t)
      BY <2>2, AtBaseIs
    <3>2. \A n \in Int : n \in own <=> n = Before(t)
      BY <1>2, <3>1
    <3> QED
      BY <1>2, <2>2, <3>2
  <2> QED
    BY <2>1, <2>2
<1>5. h < t => own # {}
  BY QuietSpan
<1>6. headIndex = tailIndex <=> h = t
  <2>1. headIndex = Mod(h) /\ tailIndex = Mod(t)
    BY <1>1 DEF Control, Claimed
  <2>2. h < t => Mod(h) # Mod(t)
    <3> SUFFICES ASSUME h < t, Mod(h) = Mod(t) PROVE FALSE
      OBVIOUS
    <3>0. PICK d \in Int : d = Begins(Num(h)) /\ d <= h /\ t - d < IndexSize
      BY QuietSpan
    <3>1. t - h < IndexSize
      BY <3>0, Sizes
    <3>2. h - t < IndexSize
      BY Sizes
    <3> QED
      BY <3>1, <3>2, ModNear
  <2> QED
    BY <1>2, <2>1, <2>2
<1>7. own = {} => h = t /\ AtBase(t)
  BY <1>2, <1>4, <1>5
<1>8. headIndex = Mod(h) /\ tailIndex = Mod(t)
  BY <1>1 DEF Control, Claimed
<1> QED
  BY <1>3, <1>4, <1>6, <1>7, <1>8

--------------------------------------------------------------------------------
(* The end of the stream.                                                  *)
LEMMA FrontAndLast ==
  ASSUME NEW S, NEW n \in Nat \ {0}, NEW w \in [1 .. n -> S]
  PROVE  /\ w \in Seq(S) /\ Len(w) = n /\ w # <<>> /\ Front(w) \in Seq(S)
         /\ Front(w) \o <<w[n]>> = w
<1>1. w \in Seq(S) /\ Len(w) = n /\ w # <<>> /\ w[n] \in S
  OBVIOUS
<1>2. PICK v \in Seq(S) : v = SubSeq(w, 1, n - 1) /\ Len(v) = n - 1
                          /\ \A i \in 1 .. n - 1 : v[i] = w[i]
  <2>1. PICK m \in Nat : m = n - 1
    OBVIOUS
  <2>2. /\ SubSeq(w, 1, m) \in Seq(S) /\ Len(SubSeq(w, 1, m)) = m
        /\ \A i \in 1 .. m : SubSeq(w, 1, m)[i] = w[i]
    BY <1>1, <2>1
  <2> QED
    BY <2>1, <2>2
<1>3. Front(w) = v
  BY <1>1, <1>2 DEF Front
<1>4. PICK x \in Seq(S) : x = v \o <<w[n]>> /\ Len(x) = n
  BY <1>1, <1>2
<1>5. \A i \in 1 .. n : x[i] = w[i]
  <2>1. \A i \in 1 .. n - 1 : x[i] = v[i]
    BY <1>1, <1>2, <1>4
  <2>2. x[n] = w[n]
    BY <1>1, <1>2, <1>4
  <2> QED
    BY <1>2, <2>1, <2>2
<1>6. x = w
  BY <1>1, <1>4, <1>5
<1> QED
  BY <1>1, <1>3, <1>4, <1>6

LEMMA TurnIs ==
  ASSUME NEW h \in Int, headIndex = Mod(h), NEW k \in Int
  PROVE  Turn(k) = Blk(Num(h) + k - 1)
<1>1. PICK N \in Int, j \in Int : N = Num(h) /\ j = k - 1
  BY NumIs
<1>2. BlockSize * (N + j) = BlockSize * N + BlockSize * j /\ BlockSize * N \in Int
      /\ BlockSize * j \in Int
  BY Sizes
<1>3. Base(headIndex) = Mod(BlockSize * N)
  BY <1>1, BaseIs DEF Blk
<1>4. Plus(Mod(BlockSize * N), BlockSize * j) = Mod(BlockSize * N + BlockSize * j)
  BY <1>2, ModFacts
<1>5. N + j = Num(h) + k - 1
  BY <1>1
<1> QED
  BY <1>1, <1>2, <1>3, <1>4, <1>5 DEF Turn, Blk

LEMMA LeftIs ==
  ASSUME NEW t \in Int, NEW h \in Int, NEW f \in Firsts, NEW K \in Numbers,
         NEW own \in SUBSET Int, Good(t, h, f, K, own), Quiet
  PROVE  Left = IF h = t THEN 0 ELSE Before(t) - Num(h) + 1
<1>1. /\ headIndex = tailIndex <=> h = t
      /\ headIndex = Mod(h) /\ tailIndex = Mod(t) /\ h <= t /\ Before(t) \in Int
  BY QuietTail, QuietFacts
<1>2. CASE h = t
  BY <1>1, <1>2 DEF Left
<1>3. CASE h < t
  <2>1. PICK N \in Int, B \in Int, r \in 0 .. BlockSize - 1 :
          N = Num(h) /\ B = Before(t) /\ t - 1 = BlockSize * B + r
    <3>1. PICK x \in Int : x = t - 1
      OBVIOUS
    <3>2. PICK r \in Int : r = x - BlockSize * Num(x)
      BY <3>1, NumIs
    <3>3. r \in 0 .. BlockSize - 1 /\ x = BlockSize * Num(x) + r
      <4>1. PICK a \in Int : a = BlockSize * Num(x) /\ a <= x /\ x < a + BlockSize
        BY NumIs
      <4> QED
        BY <3>2, <4>1, Sizes
    <3> QED
      BY <1>1, <3>1, <3>3, NumIs DEF Before
  <2>2. PICK b \in Int : b = Begins(N) /\ b = BlockSize * N /\ b <= h /\ t - b < IndexSize
    BY <1>3, <2>1, QuietSpan DEF Begins
  <2>3. Minus(tailIndex, Base(headIndex)) = t - b
    <3>1. Base(headIndex) = Mod(b)
      BY <1>1, <2>1, <2>2, BaseIs DEF Blk
    <3>2. Minus(Mod(t), Mod(b)) = Mod(t - b)
      BY <2>2, ModFacts
    <3>3. Mod(t - b) = t - b
      BY <1>3, <2>2, ModSmall, Sizes
    <3> QED
      BY <1>1, <3>1, <3>2, <3>3
  <2>4. PICK q \in Int : q = B - N + 1
    OBVIOUS
  <2>5. t - b + BlockSize - 1 = BlockSize * q + r
    <3>1. BlockSize * q = BlockSize * B - BlockSize * N + BlockSize
      BY <2>4, Sizes
    <3> QED
      BY <2>1, <2>2, <3>1, Sizes
  <2>6. (BlockSize * q + r) \div BlockSize = q
    BY Sizes, Remainder
  <2>7. Minus(tailIndex, Base(headIndex)) + BlockSize - 1 = BlockSize * q + r
    BY <2>3, <2>5
  <2>8. Left = q
    BY <1>1, <1>3, <2>6, <2>7 DEF Left
  <2> QED
    BY <1>3, <2>1, <2>4, <2>8
<1> QED
  BY <1>1, <1>2, <1>3

LEMMA WalkedIs ==
  ASSUME NEW t \in Int, NEW h \in Int, NEW f \in Firsts, NEW K \in Numbers,
         NEW own \in SUBSET Int, Good(t, h, f, K, own), Quiet
  PROVE  /\ h = t => Walked = <<>>
         /\ h < t => Walked = [k \in 1 .. Before(t) - Num(h) + 1 |-> Blk(Num(h) + k - 1)]
<1>1. /\ Control(t) /\ Shape /\ Keys(t, h, K) /\ Values(t, K, own)
  BY DEF Good
<1>2. /\ TailNum(t) = Before(t) /\ Before(t) \in Int /\ Num(h) \in Int
      /\ \A n \in Int : n \in own <=> Num(h) <= n /\ n <= Before(t)
      /\ Left = IF h = t THEN 0 ELSE Before(t) - Num(h) + 1
  BY QuietFacts, LeftIs
<1>3. CASE h = t
  <2>1. 1 .. Left = {}
    BY <1>2, <1>3
  <2> QED
    BY <1>3, <2>1 DEF Walked
<1>4. CASE h < t
  <2>1. headers # <<>> /\ Has(K, TailNum(t))
    <3>1. Active(t, h)
      BY <1>4 DEF Active
    <3>2. headers # <<>>
      BY <1>1, <3>1 DEF Keys
    <3>3. Before(t) \in Before(t) .. TailNum(t)
      BY <1>2
    <3> QED
      BY <1>1, <1>2, <3>1, <3>2, <3>3 DEF Keys
  <2>2. ASSUME NEW k \in 1 .. Before(t) - Num(h) + 1
        PROVE  value[EntryOf(Turn(k))] = Blk(Num(h) + k - 1)
    <3>1. PICK n \in Int : n = Num(h) + k - 1 /\ Num(h) <= n /\ n <= Before(t)
      BY <1>2
    <3>2. Stored(K, n)
      BY <1>1, <1>2, <3>1, StoredIs
    <3>3. value[EntryOf(Blk(n))] = Blk(n)
      BY <1>1, <2>1, <3>2, EntryIs
    <3>4. k \in Int /\ headIndex = Mod(h)
      BY <1>2, QuietTail
    <3>5. Turn(k) = Blk(n)
      BY <3>1, <3>4, TurnIs
    <3> QED
      BY <3>1, <3>3, <3>5
  <2>3. Left = Before(t) - Num(h) + 1
    BY <1>2, <1>4
  <2> QED
    BY <1>4, <2>2, <2>3 DEF Walked
<1> QED
  BY <1>3, <1>4

LEMMA Destroyed ==
  ASSUME NEW t \in Int, NEW h \in Int, NEW f \in Firsts, NEW K \in Numbers,
         NEW own \in SUBSET Int, Good(t, h, f, K, own), Destroy
  PROVE  destroyed' \in Seq(Bases) /\ ToSet(destroyed') = owned /\ IsInjective(destroyed')
<1>1. /\ Quiet /\ Control(t) /\ Owning(t, own)
      /\ destroyed' = (IF Walked = <<>> THEN <<>> ELSE Front(Walked))
                        \o (IF tailBlock # Null /\ (Walked # <<>> \/ Base(tailIndex) # tailIndex)
                              THEN <<tailBlock>> ELSE <<>>)
  BY DEF Destroy, Good
<1>2. /\ own # {} => tailBlock = Blk(Before(t)) /\ Blk(Before(t)) \in Bases
      /\ own = {} => h = t /\ AtBase(t)
      /\ h = t => own = IF AtBase(t) THEN {} ELSE {Before(t)}
      /\ h <= t /\ Before(t) \in Int /\ Num(h) \in Int
      /\ \A n \in Int : n \in own <=> Num(h) <= n /\ n <= Before(t)
      /\ AtBase(t) <=> Base(tailIndex) = tailIndex
      /\ owned = {Blk(n) : n \in own}
  BY <1>1, QuietTail, QuietFacts, AtBaseIs DEF Owning
<1>3. CASE h = t /\ AtBase(t)
  <2>1. destroyed' = <<>> /\ own = {}
    <3>1. Walked = <<>> /\ Base(tailIndex) = tailIndex /\ own = {}
      BY <1>1, <1>2, <1>3, WalkedIs
    <3>2. destroyed' = <<>> \o <<>>
      BY <1>1, <3>1
    <3> QED
      BY <3>1, <3>2
  <2> QED
    BY <1>2, <2>1 DEF ToSet, IsInjective
<1>4. CASE h = t /\ ~AtBase(t)
  <2>1. own = {Before(t)} /\ tailBlock = Blk(Before(t)) /\ tailBlock \in Bases
    BY <1>2, <1>4
  <2>2. destroyed' = <<tailBlock>>
    <3>1. Walked = <<>> /\ Base(tailIndex) # tailIndex /\ tailBlock # Null
      BY <1>1, <1>2, <1>4, <2>1, WalkedIs, Kinds
    <3>2. destroyed' = <<>> \o <<tailBlock>>
      BY <1>1, <3>1
    <3> QED
      BY <2>1, <3>2
  <2> QED
    BY <1>2, <2>1, <2>2 DEF ToSet, IsInjective
<1>5. CASE h < t
  <2>1. PICK N \in Int, B \in Int, m \in Nat \ {0} :
          N = Num(h) /\ B = Before(t) /\ m = B - N + 1
    <3>1. Num(h) <= Before(t)
      BY <1>1, <1>5, QuietSpan
    <3>2. Before(t) - Num(h) + 1 \in Nat \ {0}
      BY <1>2, <3>1
    <3> QED
      BY <1>2, <3>2
  <2>2. Walked = [k \in 1 .. m |-> Blk(N + k - 1)]
    BY <1>1, <1>5, <2>1, WalkedIs
  <2>3. \A k \in 1 .. m : Blk(N + k - 1) \in Bases
    BY BlkType
  <2>4. Walked \in [1 .. m -> Bases] /\ Walked[m] = Blk(B)
    <3>1. N + m - 1 = B
      BY <2>1
    <3>2. m \in 1 .. m
      OBVIOUS
    <3>3. Walked[m] = Blk(N + m - 1)
      BY <2>2, <3>2
    <3> QED
      BY <2>2, <2>3, <3>1, <3>3
  <2>5. Walked # <<>> /\ Walked \in Seq(Bases) /\ Front(Walked) \o <<Walked[m]>> = Walked
    BY <2>4, FrontAndLast
  <2>6. tailBlock = Blk(B) /\ tailBlock # Null
    <3>1. own # {}
      BY <1>2, <1>5
    <3> QED
      BY <1>2, <2>1, <3>1, Kinds
  <2>7. destroyed' = Walked
    BY <1>1, <2>4, <2>5, <2>6
  <2>8. ToSet(Walked) = {Blk(n) : n \in own}
    <3>1. DOMAIN Walked = 1 .. m
      BY <2>2
    <3>2. \A k \in 1 .. m : N + k - 1 \in own
      BY <1>2, <2>1
    <3>3. \A n \in own : n - N + 1 \in 1 .. m /\ N + (n - N + 1) - 1 = n
      BY <1>2, <2>1
    <3>4. \A k \in 1 .. m : Walked[k] = Blk(N + k - 1)
      BY <2>2
    <3>5. \A k \in DOMAIN Walked : Walked[k] \in {Blk(n) : n \in own}
      BY <3>1, <3>2, <3>4
    <3>6. \A n \in own : \E k \in DOMAIN Walked : Walked[k] = Blk(n)
      <4> TAKE n \in own
      <4>1. PICK k \in 1 .. m : N + k - 1 = n
        BY <3>3
      <4> QED
        BY <3>1, <3>4, <4>1
    <3> QED
      BY <3>5, <3>6 DEF ToSet
  <2>9. IsInjective(Walked)
    <3> SUFFICES ASSUME NEW a \in 1 .. m, NEW b \in 1 .. m, Walked[a] = Walked[b] PROVE a = b
      BY <2>2 DEF IsInjective
    <3>1. PICK x \in Int, y \in Int : x = N + a - 1 /\ y = N + b - 1
      OBVIOUS
    <3>2. x \in own /\ y \in own /\ Blk(x) = Blk(y)
      <4>1. x \in own /\ y \in own
        BY <1>2, <2>1, <3>1
      <4>2. Walked[a] = Blk(N + a - 1) /\ Walked[b] = Blk(N + b - 1)
        BY <2>2
      <4> QED
        BY <3>1, <4>1, <4>2
    <3>3. x = y
      BY <1>1, <3>2, OwnApart
    <3> QED
      BY <3>1, <3>3
  <2> QED
    BY <1>2, <2>5, <2>7, <2>8, <2>9
<1> QED
  BY <1>2, <1>3, <1>4, <1>5

LEMMA DestroyStep ==
  ASSUME NEW t \in Int, NEW h \in Int, NEW f \in Firsts, NEW K \in Numbers,
         NEW own \in SUBSET Int, Good(t, h, f, K, own), Destroy
  PROVE  Good(t, h, f, K, own)'
<1>1. /\ Control(t) /\ Shape /\ Keys(t, h, K) /\ Owning(t, own) /\ Tails(t, own)
      /\ Values(t, K, own) /\ Claimed(t, h, f) /\ Counted(t, h, f, own) /\ Seen(f, K)
  BY DEF Good
<1>2. /\ step = "idle" /\ step' = "gone" /\ \A c \in Consumers : pc[c] = "idle"
      /\ UNCHANGED <<tailIndex, headIndex, tailBlock, fresh, undone, sent, bulk, count, owned,
                     startBlock, cur, headers, key, value, elementsCompletelyDequeued, pc>>
      /\ UNCHANGED consumerVars
  BY DEF Destroy, Quiet, ringVars, blockVars, callVars, consumerVars
<1>3. /\ ~InCall /\ ~InCall' /\ ~Extra(t) /\ ~Extra(t)' /\ ~Reverting /\ ~Reverting'
      /\ ~HasCur(t) /\ ~HasCur(t)' /\ ~Moved(t) /\ ~Moved(t)'
  BY <1>2 DEF InCall, Extra, Reverting, HasCur, Moved
<1>4. /\ Before(t)' = Before(t) /\ Ensuing(t)' = Ensuing(t) /\ TailNum(t)' = TailNum(t)
      /\ AtBase(t)' = AtBase(t) /\ Active(t, h)' = Active(t, h)
  BY <1>2, <1>3 DEF Before, Ensuing, TailNum, AtBase, Begins, Active
<1>5. Control(t)'
  BY <1>1, <1>2, <1>3, <1>4 DEF Control, Steps
<1>6. Owning(t, own)' /\ Tails(t, own)'
  BY <1>1, <1>2, <1>3, <1>4 DEF Owning, Tails, Old
<1>7. Keys(t, h, K)'
  <2>1. headers = <<>> =>
          step' \in {"idle", "room", "insert", "crashed", "gone", "revert"} /\ fresh' = <<>>
    BY <1>1, <1>2 DEF Keys
  <2>2. UNCHANGED <<key, headers>> /\ \A e \in Entries : ~Valid(e) => value'[e] = value[e]
    BY <1>2
  <2>3. TailNum(t)' = TailNum(t) /\ (Active(t, h)' => Active(t, h))
    BY <1>4
  <2> QED
    BY <1>1, <2>1, <2>2, <2>3, SameKeys
<1>8. Values(t, K, own)'
  <2>1. \A n \in Int : Unstored(t, n)' <=> Unstored(t, n)
    BY <1>2, <1>4 DEF Unstored
  <2>2. \A e \in Entries : Valid(e)' <=> Valid(e)
    BY <1>2 DEF Valid
  <2>3. \A n \in Int : Stored(K, n)' <=> Stored(K, n)
    BY <1>2 DEF Stored, blockIndex
  <2>4. \A n \in own : Unstored(t, n)' \/ Stored(K, n)'
    BY <1>1, <2>1, <2>3 DEF Values
  <2>5. \A e \in Entries : value'[e] \in Bases =>
          Valid(e)' /\ value'[e] = Blk(K[e]) /\ K[e] \in own /\ ~Unstored(t, K[e])'
    BY <1>1, <1>2, <2>1, <2>2 DEF Values
  <2>6. \A e \in Entries : ~(Valid(e)' /\ value'[e] = Garbage)
    <3>1. \A e \in Entries : ~InFlight(t, e)
      BY <1>2 DEF InFlight
    <3> QED
      BY <1>1, <1>2, <2>2, <3>1 DEF Values
  <2> QED
    BY <1>1, <1>2, <2>4, <2>5, <2>6 DEF Values
<1>9. Claimed(t, h, f)' /\ Counted(t, h, f, own)'
  BY <1>1, <1>2, ClaimedKept, CountedKept
<1>10. Seen(f, K)'
  <2>1. Len(headers) \in 0 .. Len(headers') /\ Len(headers') \in Nat
    BY <1>1, <1>2 DEF Shape
  <2>2. \A i \in 1 .. Len(headers) : headers'[i].index = headers[i].index
    BY <1>2
  <2>3. \A x \in Entries : Valid(x) => Valid(x)'
    BY <1>2 DEF Valid
  <2>4. \A x \in Entries, n \in Int : n <= Before(t) /\ Holds(K, x, n) => Holds(K, x, n)'
    BY <1>2 DEF Holds
  <2> QED
    BY <1>1, <1>2, <2>1, <2>2, <2>3, <2>4, SeenStays
<1>11. Shape' /\ Ended'
  BY <1>1, <1>2, Destroyed DEF Shape, blockIndex, Ended, DestroyedOnce
<1> QED
  BY <1>5, <1>6, <1>7, <1>8, <1>9, <1>10, <1>11 DEF Good

LEMMA Stutter ==
  ASSUME NEW t \in Int, NEW h \in Int, NEW f \in Firsts, NEW K \in Numbers,
         NEW own \in SUBSET Int, Good(t, h, f, K, own), UNCHANGED vars
  PROVE  Good(t, h, f, K, own)'
<1>1. /\ Control(t) /\ Shape /\ Keys(t, h, K) /\ Owning(t, own) /\ Tails(t, own)
      /\ Values(t, K, own) /\ Claimed(t, h, f) /\ Counted(t, h, f, own) /\ Seen(f, K)
      /\ Ended
  BY DEF Good
<1>2. /\ UNCHANGED producerSide /\ UNCHANGED sharedVars /\ UNCHANGED consumerVars
      /\ UNCHANGED <<headIndex, key, headers, value, owned, elementsCompletelyDequeued,
                     destroyed, step, pc>>
      /\ UNCHANGED <<value, owned>>
  BY DEF vars, producerSide, sharedVars, ringVars, producerVars, consumerVars
<1>3. Control(t)' /\ Shape' /\ Tails(t, own)' /\ UNCHANGED controlVars
  BY <1>1, <1>2, SideKeeps
<1>4. Owning(t, own)' /\ Values(t, K, own)'
  BY <1>1, <1>2, SharedKeeps
<1>5. Keys(t, h, K)'
  <2>1. Active(t, h)' => Active(t, h)
    BY <1>2 DEF Active, AtBase, Begins, Before
  <2> QED
    BY <1>1, <1>2, <1>3, <2>1, KeysKept
<1>6. Claimed(t, h, f)' /\ Counted(t, h, f, own)'
  BY <1>1, <1>2, ClaimedKept, CountedKept
<1>7. Seen(f, K)'
  <2>1. Len(headers) \in 0 .. Len(headers') /\ Len(headers') \in Nat
    BY <1>1, <1>2 DEF Shape
  <2>2. \A i \in 1 .. Len(headers) : headers'[i].index = headers[i].index
    BY <1>2
  <2>3. \A x \in Entries : Valid(x) => Valid(x)'
    BY <1>2 DEF Valid
  <2>4. \A x \in Entries, n \in Int : n <= Before(t) /\ Holds(K, x, n) => Holds(K, x, n)'
    BY <1>2 DEF Holds
  <2> QED
    BY <1>1, <1>2, <2>1, <2>2, <2>3, <2>4, SeenStays
<1>8. Ended'
  BY <1>1, <1>2 DEF Ended, DestroyedOnce
<1> QED
  BY <1>3, <1>4, <1>5, <1>6, <1>7, <1>8 DEF Good

--------------------------------------------------------------------------------
(* The quiet streams to start from.                                        *)
StartAge(s, e) == 1 + ((s - 1 - e) % InitialCapacity)
StartKeys(s) == [e \in Entries |-> s - StartAge(s, e)]

LEMMA AgeFacts ==
  ASSUME NEW s \in Int, NEW e \in 0 .. InitialCapacity - 1
  PROVE  /\ StartAge(s, e) \in 1 .. InitialCapacity
         /\ Cong(s - StartAge(s, e), e + (s - 1 - ((s - 1) % InitialCapacity)),
                 InitialCapacity)
<1>1. PICK C \in Nat \ {0} : C = InitialCapacity
  BY Sizes
<1>2. PICK x \in Int, y \in Int : x = s - 1 - e /\ y = s - 1
  BY <1>1
<1>3. PICK p \in Int, q \in 0 .. C - 1 : x = C * p + q /\ x % C = q
  BY DivMod
<1>4. PICK i \in Int, j \in 0 .. C - 1 : y = C * i + j /\ y % C = j
  BY DivMod
<1>5. StartAge(s, e) = 1 + q
  BY <1>1, <1>2, <1>3 DEF StartAge
<1>6. (s - (1 + q)) - (e + (s - 1 - j)) = C * (p - i)
  <2>1. C * (p - i) = C * p - C * i
    BY <1>1
  <2>2. C * p = s - 1 - e - q /\ C * i = s - 1 - j
    BY <1>1, <1>2, <1>3, <1>4
  <2> QED
    BY <1>1, <2>1, <2>2
<1>7. Cong(s - (1 + q), e + (s - 1 - j), C)
  BY <1>6 DEF Cong
<1>8. (s - 1) % InitialCapacity = j
  BY <1>1, <1>2, <1>4
<1>9. 1 + q \in 1 .. InitialCapacity
  BY <1>1
<1> QED
  BY <1>1, <1>5, <1>7, <1>8, <1>9

LEMMA AgeCovers ==
  ASSUME NEW s \in Int, NEW n \in Int, s - InitialCapacity <= n, n <= s - 1
  PROVE  \E e \in 0 .. InitialCapacity - 1 : s - StartAge(s, e) = n
<1>1. PICK C \in Nat \ {0} : C = InitialCapacity
  BY Sizes
<1>2. PICK i \in Int, e \in 0 .. C - 1 : n = C * i + e
  BY DivMod
<1>3. PICK x \in Int, q \in 0 .. C - 1 : x = s - 1 - e /\ q = s - 1 - n
  BY <1>1
<1>4. x = C * i + q
  <2>1. C * i = n - e
    BY <1>1, <1>2
  <2> QED
    BY <1>3, <2>1
<1>5. (C * i + q) % C = q
  BY Remainder
<1>6. x % C = q
  BY <1>4, <1>5
<1>7. StartAge(s, e) = 1 + q
  BY <1>1, <1>3, <1>6 DEF StartAge
<1> QED
  BY <1>1, <1>3, <1>7

LEMMA PositionsOf ==
  ASSUME NEW C \in Nat \ {0}
  PROVE  Cardinality(0 .. C - 1) = C
BY FS_Interval

LEMMA FirstFacts ==
  ASSUME NEW r \in 0 .. InitialCapacity - 1, NEW g, g = [FirstHeader EXCEPT !.tail = r]
  PROVE  /\ Formed(g) /\ Capacity(g) = InitialCapacity /\ g.tail = r
         /\ DOMAIN g.index = 0 .. InitialCapacity - 1 /\ InitialCapacity <= MaxCapacity
         /\ \A p \in 0 .. InitialCapacity - 1 : g.index[p] = p
<1>1. PICK C \in Nat \ {0} : C = InitialCapacity
  BY Sizes
<1>2. PICK k \in Int : MaxCapacity = C * k
  <2>1. MaxCapacity % C = 0
    BY <1>1, SizesDivide
  <2> QED
    BY <1>1, <2>1, Sizes, DivMod
<1>3. C <= MaxCapacity
  <2>1. k >= 1 => C * k >= C
    BY <1>1, AtLeastOnce
  <2>2. k <= -1 => C * k <= -C
    BY <1>1, AtLeastOnce
  <2> QED
    BY <1>1, <1>2, <2>1, <2>2, Sizes
<1>4. g = [index |-> [i \in 0 .. C - 1 |-> i], tail |-> r]
  BY <1>1 DEF FirstHeader
<1>5. g.index = [i \in 0 .. C - 1 |-> i] /\ g.tail = r
  BY <1>4
<1>6. Capacity(g) = C
  <2>1. DOMAIN g.index = 0 .. C - 1
    BY <1>5
  <2>2. Cardinality(0 .. C - 1) = C
    BY <1>1, PositionsOf
  <2> QED
    BY <2>1, <2>2 DEF Capacity
<1>7. Formed(g)
  <2>1. g \in Header(C)
    <3>1. \A i \in 0 .. C - 1 : i \in Entries
      BY <1>1, <1>3, Sizes DEF Entries
    <3>2. g.index \in [0 .. C - 1 -> Entries] /\ r \in 0 .. C - 1
      BY <1>1, <1>5, <3>1
    <3> QED
      BY <1>4, <1>5, <3>2 DEF Header
  <2>2. Divides(C, MaxCapacity)
    BY <1>2 DEF Divides
  <2>3. C \in 1 .. MaxCapacity
    BY <1>1, <1>3, Sizes
  <2>4. \A p \in 0 .. C - 1 : g.index[p] = p
    BY <1>5
  <2> QED
    BY <2>1, <2>2, <2>3, <2>4 DEF Formed
<1> QED
  BY <1>1, <1>3, <1>5, <1>6, <1>7

LEMMA StartFacts ==
  ASSUME NEW start \in Starts, NEW s \in Int, s = Num(start)
  PROVE  /\ s \in Int /\ start \in Int /\ start = BlockSize * s /\ Mod(start) = start
         /\ start \div BlockSize = s
         /\ Before(start) = s - 1 /\ AtBase(start) /\ (start = 0 <=> s = 0)
<1>1. start \in Index /\ start % BlockSize = 0
  BY StartsAreBases
<1>2. start \in Int /\ Mod(start) = start
  BY <1>1, Sizes, ModSmall DEF Index
<1>3. s \in Int /\ BlockSize * s \in Int /\ start = BlockSize * s
  <2>1. PICK a \in Int : a = BlockSize * s /\ start % BlockSize = start - a
    BY <1>2, NumIs
  <2> QED
    BY <1>1, <1>2, <2>1
<1>4. start \div BlockSize = s
  BY DEF Num
<1>5. PICK u \in Int, x \in Int : u = s - 1 /\ x = start - 1
  BY <1>2, <1>3
<1>6. BlockSize * (u + 1) = BlockSize * u + BlockSize /\ BlockSize * u \in Int
  BY <1>5, BlockApart
<1>7. u + 1 = s
  BY <1>5
<1>8. BlockSize * u <= x /\ x < BlockSize * u + BlockSize
  BY <1>2, <1>3, <1>5, <1>6, <1>7, Sizes
<1>9. Num(x) = u
  BY <1>5, <1>8, NumUnique
<1>10. Before(start) = s - 1
  BY <1>5, <1>9 DEF Before
<1>11. AtBase(start)
  <2>1. Before(start) + 1 = s
    BY <1>3, <1>10
  <2> QED
    BY <1>3, <2>1 DEF AtBase, Begins
<1>12. start = 0 <=> s = 0
  <2>1. BlockSize * 0 = 0
    BY Sizes
  <2>2. s = 0 => start = 0
    BY <1>3, <2>1
  <2>3. start = 0 => s = 0
    <3>1. s >= 1 => BlockSize * s >= BlockSize
      BY <1>3, Sizes, AtLeastOnce
    <3>2. s <= -1 => BlockSize * s <= -BlockSize
      BY <1>3, Sizes, AtLeastOnce
    <3>3. PICK a \in Int : a = BlockSize * s /\ start = a
                           /\ (s >= 1 => a >= BlockSize) /\ (s <= -1 => a <= -BlockSize)
      BY <1>3, <3>1, <3>2
    <3>4. BlockSize \in Int /\ BlockSize >= 2
      BY Sizes
    <3>5. ~(s >= 1 /\ a = 0) /\ ~(s <= -1 /\ a = 0)
      BY <3>3, <3>4
    <3>6. start = 0 => ~(s >= 1) /\ ~(s <= -1)
      BY <3>3, <3>5, Zenon
    <3>7. ~(s >= 1) /\ ~(s <= -1) => s = 0
      OBVIOUS
    <3> QED
      BY <3>6, <3>7
  <2> QED
    BY <2>2, <2>3
<1> QED
  BY <1>2, <1>3, <1>4, <1>10, <1>11, <1>12

Opened(s) ==
  \/ headers = <<>> /\ s = 0
  \/ \E g : /\ headers = <<g>> /\ Formed(g) /\ Capacity(g) = InitialCapacity
            /\ DOMAIN g.index = 0 .. InitialCapacity - 1
            /\ InitialCapacity <= MaxCapacity
            /\ \A p \in 0 .. InitialCapacity - 1 : g.index[p] = p
            /\ s # 0 => g.tail = (s - 1) % InitialCapacity

LEMMA InitHeaders ==
  ASSUME NEW start \in Starts, NEW s \in Int, s = Num(start),
         \/ start = 0 /\ headers \in {<<>>, <<FirstHeader>>}
         \/ /\ start # 0
            /\ headers = <<[FirstHeader EXCEPT !.tail =
                              (start \div BlockSize - 1) % InitialCapacity]>>
  PROVE  Opened(s)
<1>1. start \div BlockSize = s /\ (start = 0 <=> s = 0) /\ s \in Int
  BY StartFacts
<1>2. InitialCapacity - 1 \in 0 .. InitialCapacity - 1
      /\ (s - 1) % InitialCapacity \in 0 .. InitialCapacity - 1
  BY <1>1, Sizes
<1>3. CASE headers = <<>>
  BY <1>1, <1>3 DEF Opened
<1>4. CASE start = 0 /\ headers = <<FirstHeader>>
  <2>1. PICK g : g = [FirstHeader EXCEPT !.tail = InitialCapacity - 1]
    OBVIOUS
  <2>2. g = FirstHeader
    BY <2>1 DEF FirstHeader
  <2> QED
    BY <1>1, <1>2, <1>4, <2>1, <2>2, FirstFacts DEF Opened
<1>5. CASE start # 0
  <2>1. PICK r \in 0 .. InitialCapacity - 1 : r = (s - 1) % InitialCapacity
    BY <1>2
  <2>2. PICK g : g = [FirstHeader EXCEPT !.tail = r]
    OBVIOUS
  <2>3. headers = <<g>>
    BY <1>1, <1>5, <2>1, <2>2
  <2> QED
    BY <2>1, <2>2, <2>3, FirstFacts DEF Opened
<1> QED
  BY <1>3, <1>4, <1>5

LEMMA InitEntries ==
  ASSUME NEW start \in Starts, NEW s \in Int, s = Num(start),
         LET used(e) == start # 0 /\ e < InitialCapacity
             age(e) == 1 + ((start \div BlockSize - 1 - e) % InitialCapacity)
         IN /\ key = [e \in Entries |->
                        IF used(e) THEN Minus(start, BlockSize * age(e))
                                   ELSE INVALID_BLOCK_BASE]
            /\ value = [e \in Entries |-> IF used(e) THEN Null ELSE Garbage]
  PROVE  /\ key \in [Entries -> Bases \cup {INVALID_BLOCK_BASE}]
         /\ value \in [Entries -> {Null, Garbage}]
         /\ \A e \in Entries : Valid(e) <=> s # 0 /\ e < InitialCapacity
         /\ \A e \in Entries : Valid(e) => key[e] = Blk(StartKeys(s)[e]) /\ value[e] = Null
         /\ \A e \in Entries : ~Valid(e) => value[e] = Garbage
<1>1. start \div BlockSize = s /\ (start = 0 <=> s = 0) /\ s \in Int
      /\ start = BlockSize * s /\ Mod(start) = start /\ start \in Int
  BY StartFacts
<1>2. /\ key = [e \in Entries |->
                  IF s # 0 /\ e < InitialCapacity
                    THEN Minus(start, BlockSize * StartAge(s, e)) ELSE INVALID_BLOCK_BASE]
      /\ value = [e \in Entries |-> IF s # 0 /\ e < InitialCapacity THEN Null ELSE Garbage]
  BY <1>1 DEF StartAge
<1>3. ASSUME NEW e \in Entries, s # 0, e < InitialCapacity
      PROVE  key[e] = Blk(StartKeys(s)[e]) /\ key[e] \in Bases
  <2>1. e \in 0 .. InitialCapacity - 1
    BY <1>3, Kinds, Sizes
  <2>2. PICK a \in Int : a = StartAge(s, e)
    BY <1>1, <2>1, AgeFacts
  <2>3. BlockSize * (s - a) = BlockSize * s - BlockSize * a /\ BlockSize * a \in Int
        /\ s - a \in Int
    BY <1>1, <2>2, Sizes
  <2>4. Minus(Mod(start), BlockSize * a) = Mod(start - BlockSize * a)
    BY <1>1, <2>3, ModFacts
  <2>5. key[e] = Mod(BlockSize * (s - a))
    BY <1>1, <1>2, <1>3, <2>2, <2>3, <2>4
  <2>6. StartKeys(s)[e] = s - a
    BY <2>2 DEF StartKeys
  <2> QED
    BY <2>3, <2>5, <2>6, BlkType DEF Blk
<1>4. \A e \in Entries : ~(s # 0 /\ e < InitialCapacity) =>
        key[e] = INVALID_BLOCK_BASE /\ value[e] = Garbage
  BY <1>2
<1>5. \A e \in Entries : s # 0 /\ e < InitialCapacity => value[e] = Null
  BY <1>2
<1>6. key \in [Entries -> Bases \cup {INVALID_BLOCK_BASE}]
  <2>1. \A e \in Entries : key[e] \in Bases \cup {INVALID_BLOCK_BASE}
    BY <1>3, <1>4
  <2> QED
    BY <1>2, <2>1
<1>7. value \in [Entries -> {Null, Garbage}]
  BY <1>2
<1> QED
  BY <1>3, <1>4, <1>5, <1>6, <1>7, Kinds DEF Valid

LEMMA InitKeys ==
  ASSUME NEW t \in Int, NEW s \in Int, Before(t) = s - 1, AtBase(t), TailNum(t) = s - 1,
         Opened(s), step = "idle", fresh = <<>>, \A c \in Consumers : pc[c] = "idle",
         key \in [Entries -> Bases \cup {INVALID_BLOCK_BASE}],
         \A e \in Entries : Valid(e) <=> s # 0 /\ e < InitialCapacity,
         \A e \in Entries : Valid(e) => key[e] = Blk(StartKeys(s)[e]),
         \A e \in Entries : ~Valid(e) => value[e] = Garbage
  PROVE  Shape /\ Keys(t, t, StartKeys(s))
<1> DEFINE K == StartKeys(s)
<1>1. ~Active(t, t)
  BY DEF Active
<1>2. CASE headers = <<>> /\ s = 0
  <2>1. \A e \in Entries : ~Valid(e)
    BY <1>2
  <2> QED
    BY <1>1, <1>2, <2>1 DEF Keys, Shape
<1>3. CASE ~(headers = <<>> /\ s = 0)
  <2>1. PICK g : /\ headers = <<g>> /\ Formed(g) /\ Capacity(g) = InitialCapacity
                 /\ DOMAIN g.index = 0 .. InitialCapacity - 1
                 /\ InitialCapacity <= MaxCapacity
                 /\ \A p \in 0 .. InitialCapacity - 1 : g.index[p] = p
                 /\ s # 0 => g.tail = (s - 1) % InitialCapacity
    BY <1>3 DEF Opened
  <2>2. headers # <<>> /\ Len(headers) = 1 /\ headers[1] = g /\ blockIndex = g
    BY <2>1 DEF blockIndex, Last
  <2>3. Shape
    <3>1. g \in UNION {Header(n) : n \in 1 .. MaxCapacity}
      BY <2>1, FormedFacts
    <3>2. headers \in Seq({x \in UNION {Header(n) : n \in 1 .. MaxCapacity} : Formed(x)})
      BY <2>1, <3>1
    <3>3. Divides(InitialCapacity, InitialCapacity)
      <4>1. InitialCapacity = InitialCapacity * 1
        BY Sizes
      <4> QED
        BY <4>1 DEF Divides
    <3>4. \A i \in 1 .. Len(headers) : i = 1
      BY <2>2
    <3> QED
      BY <2>1, <2>2, <3>2, <3>3, <3>4 DEF Shape
  <2>4. ASSUME NEW p \in DOMAIN g.index
        PROVE  /\ g.index[p] = p /\ p \in Entries /\ p < InitialCapacity
               /\ K[p] = s - StartAge(s, p)
    <3>1. p \in 0 .. InitialCapacity - 1
      BY <2>1
    <3>2. p \in Entries
      BY <2>1, <3>1, Sizes DEF Entries
    <3> QED
      BY <2>1, <3>1, <3>2, Sizes DEF StartKeys
  <2>5. ASSUME NEW p \in DOMAIN g.index, Valid(p)
        PROVE  /\ s # 0
               /\ Cong(K[p], p + (TailNum(t) - g.tail), Capacity(g))
               /\ TailNum(t) - Capacity(g) < K[p] /\ K[p] <= TailNum(t) + Capacity(g)
               /\ \A n \in K[p] .. TailNum(t) : Has(K, n)
    <3>1. s # 0 /\ g.tail = (s - 1) % InitialCapacity
      BY <2>1, <2>4, <2>5
    <3>2. StartAge(s, p) \in 1 .. InitialCapacity
          /\ Cong(s - StartAge(s, p), p + (s - 1 - ((s - 1) % InitialCapacity)),
                  InitialCapacity)
      BY <2>1, AgeFacts
    <3>3. Cong(K[p], p + (TailNum(t) - g.tail), Capacity(g))
      BY <2>1, <2>4, <3>1, <3>2
    <3>4. PICK a \in 1 .. InitialCapacity : a = StartAge(s, p)
      BY <3>2
    <3>5. TailNum(t) - Capacity(g) < K[p] /\ K[p] <= TailNum(t) + Capacity(g)
          /\ s - InitialCapacity <= K[p] /\ K[p] \in Int
      BY <2>1, <2>4, <3>4, Sizes
    <3>6. ASSUME NEW n \in K[p] .. TailNum(t) PROVE Has(K, n)
      <4>1. n \in Int /\ s - InitialCapacity <= n /\ n <= s - 1
        BY <3>5, Sizes
      <4>2. PICK q \in 0 .. InitialCapacity - 1 : s - StartAge(s, q) = n
        BY <4>1, AgeCovers
      <4>3. q \in DOMAIN g.index
        BY <2>1
      <4>4. Valid(q) /\ K[q] = n /\ g.index[q] = q
        BY <2>4, <3>1, <4>2, <4>3
      <4> QED
        BY <2>2, <4>3, <4>4 DEF Has
    <3> QED
      BY <3>1, <3>3, <3>5, <3>6
  <2>6. Near(t, K, blockIndex)
    BY <2>2, <2>4, <2>5 DEF Near
  <2>7. \A p \in DOMAIN blockIndex.index : LET e == blockIndex.index[p] IN
          Valid(e) => \A n \in K[e] .. TailNum(t) : Has(K, n)
    BY <2>2, <2>4, <2>5
  <2>8. Before(t) + 1 .. TailNum(t) = {}
    OBVIOUS
  <2>9. \A e \in Entries : e >= Capacity(blockIndex) => ~Valid(e) /\ value[e] = Garbage
    <3>1. \A e \in Entries : e >= InitialCapacity => ~(e < InitialCapacity)
      BY Kinds, Sizes
    <3> QED
      BY <2>1, <2>2, <3>1
  <2>10. 1 .. Len(headers) - 1 = {}
    BY <2>2
  <2> HIDE DEF K
  <2>11. Keys(t, t, K)
    BY <1>1, <2>2, <2>6, <2>7, <2>8, <2>9, <2>10 DEF Keys, K
  <2> QED
    BY <2>3, <2>11 DEF K
<1> QED
  BY <1>2, <1>3

LEMMA InitIsGood ==
  ASSUME Init
  PROVE  Inv
<1>1. PICK start \in Starts :
       /\ tailIndex = start /\ headIndex = start
       /\ \/ start = 0 /\ headers \in {<<>>, <<FirstHeader>>}
          \/ /\ start # 0
             /\ headers = <<[FirstHeader EXCEPT !.tail =
                               (start \div BlockSize - 1) % InitialCapacity]>>
       /\ LET used(e) == start # 0 /\ e < InitialCapacity
              age(e) == 1 + ((start \div BlockSize - 1 - e) % InitialCapacity)
          IN /\ key = [e \in Entries |->
                         IF used(e) THEN Minus(start, BlockSize * age(e))
                                    ELSE INVALID_BLOCK_BASE]
             /\ value = [e \in Entries |-> IF used(e) THEN Null ELSE Garbage]
       /\ tailBlock = IF start = 0 THEN Null ELSE Minus(start, BlockSize)
       /\ startBlock = tailBlock
  BY DEF Init
<1>2. start \in Int /\ Num(start) \in Int
  BY StartsAreBases, Sizes, NumIs DEF Index
<1>3. PICK s \in Int : s = Num(start)
  BY <1>2
<1>4. /\ start = BlockSize * s /\ Mod(start) = start /\ Before(start) = s - 1
      /\ AtBase(start) /\ (start = 0 <=> s = 0)
  BY <1>3, StartFacts
<1>5. Opened(s)
  BY <1>1, <1>3, InitHeaders
<1>6. /\ key \in [Entries -> Bases \cup {INVALID_BLOCK_BASE}]
      /\ value \in [Entries -> {Null, Garbage}]
      /\ \A e \in Entries : Valid(e) <=> s # 0 /\ e < InitialCapacity
      /\ \A e \in Entries : Valid(e) => key[e] = Blk(StartKeys(s)[e]) /\ value[e] = Null
      /\ \A e \in Entries : ~Valid(e) => value[e] = Garbage
  BY <1>1, <1>3, InitEntries
<1>7. /\ owned = {} /\ elementsCompletelyDequeued = [b \in Bases |-> BlockSize]
      /\ step = "idle" /\ bulk = FALSE /\ count = 0 /\ cur = 0 /\ fresh = <<>> /\ undone = 0
      /\ pc = [c \in Consumers |-> "idle"]
      /\ first = [c \in Consumers |-> 0] /\ left = [c \in Consumers |-> 0]
      /\ header = [c \in Consumers |-> 0] /\ tail = [c \in Consumers |-> 0]
      /\ idx = [c \in Consumers |-> 0] /\ block = [c \in Consumers |-> Null]
      /\ destroyed = <<>> /\ sent = 0
  BY DEF Init
<1>8. PICK f \in Firsts : f = [c \in Consumers |-> 0]
  <2>1. [c \in Consumers |-> 0] \in Firsts
    BY DEF Firsts
  <2> QED
    BY <2>1
<1>9. PICK K \in Numbers : K = StartKeys(s)
  <2>1. \A e \in Entries : s - StartAge(s, e) \in Int
    <3> TAKE e \in Entries
    <3>1. PICK x \in Int : x = s - 1 - e
      BY Kinds
    <3>2. x % InitialCapacity \in Int
      BY Sizes, CongMod
    <3> QED
      BY <3>1, <3>2 DEF StartAge
  <2>2. StartKeys(s) \in Numbers
    BY <2>1 DEF StartKeys, Numbers
  <2> QED
    BY <2>2
<1>10. /\ ~InCall /\ ~Extra(start) /\ ~Reverting /\ ~HasCur(start) /\ ~Moved(start)
       /\ Len(fresh) = 0 /\ TailNum(start) = s - 1 /\ Ensuing(start) = s
  <2>1. ~InCall /\ ~Extra(start) /\ ~Reverting /\ ~HasCur(start) /\ ~Moved(start)
    BY <1>7 DEF InCall, Extra, Reverting, HasCur, Moved
  <2>2. Len(fresh) = 0
    BY <1>7
  <2> QED
    BY <1>4, <1>7, <2>1, <2>2 DEF TailNum, Ensuing
<1>11. Control(start)
  <2>1. 0 \in Bases
    BY Sizes DEF Bases, Index
  <2>2. 0 \in 0 .. MaxBulk /\ 0 \in 0 .. MaxSent /\ 0 \in 0 .. Len(fresh)
    BY <1>10, Kinds
  <2>3. fresh \in Seq(Bases)
    BY <1>7
  <2>4. \A i \in 1 .. Len(fresh) : FALSE
    BY <1>10
  <2>5. tailIndex = Mod(start)
    BY <1>1, <1>4
  <2>6. step \in Steps /\ step \notin {"construct", "publish", "revertRewind"}
    BY <1>7 DEF Steps
  <2>7. /\ bulk \in BOOLEAN /\ count \in 0 .. MaxBulk /\ cur \in Bases
        /\ undone \in 0 .. Len(fresh) /\ ~(undone > 0) /\ fresh = <<>> /\ sent \in 0 .. MaxSent
    BY <1>7, <2>1, <2>2
  <2> QED
    BY <1>10, <2>3, <2>4, <2>5, <2>6, <2>7 DEF Control
<1>12. Shape /\ Keys(start, start, K)
  <2>1. \A c \in Consumers : pc[c] = "idle"
    BY <1>7
  <2> QED
    BY <1>2, <1>4, <1>5, <1>6, <1>7, <1>9, <1>10, <2>1, InitKeys
<1>13. Owning(start, {})
  <2>1. Before(start) + 1 .. Ensuing(start) - 1 = {}
    BY <1>4, <1>10
  <2> QED
    BY <1>4, <1>7, <1>10, <2>1 DEF Owning
<1>14. Tails(start, {})
  <2>1. s # 0 => tailBlock = Blk(Before(start))
    <3>1. start # 0 /\ s # 0 => tailBlock = Minus(Blk(s), BlockSize)
      BY <1>1, <1>4 DEF Blk
    <3> QED
      BY <1>4, <3>1, BlkSteps
  <2>2. s = 0 => tailBlock = Null
    BY <1>1, <1>4
  <2>3. Before(start) \in Int
    BY <1>4
  <2>4. tailBlock \in Bases \cup {Null}
    BY <2>1, <2>2, <2>3, BlkType
  <2> QED
    BY <1>1, <1>10, <2>1, <2>2, <2>4 DEF Tails, Old
<1>15. Values(start, K, {})
  <2>1. value \in [Entries -> Bases \cup {Null, Garbage}]
    BY <1>6
  <2>2. \A e \in Entries : value[e] \notin Bases
    BY <1>6, Kinds
  <2>3. \A e \in Entries : ~(Valid(e) /\ value[e] = Garbage)
    BY <1>6, Kinds
  <2> QED
    BY <1>7, <2>1, <2>2, <2>3 DEF Values
<1>16. Claimed(start, start, f)
  <2>1. 0 \in Index /\ 0 \in 0 .. MaxBulk
    BY Sizes, Kinds DEF Index
  <2> QED
    BY <1>1, <1>2, <1>4, <1>7, <2>1 DEF Claimed
<1>17. Counted(start, start, f, {})
  <2>1. \A c \in Consumers : pc[c] = "idle" /\ left[c] = 0 /\ f[c] = 0
    BY <1>7, <1>8
  <2>2. \A c \in Consumers, x \in Int : ~InHand(f, c, x)
    BY <2>1 DEF InHand, Skipped
  <2>3. \A x \in Int : ~(x < start /\ Undone(start, f, x))
    BY <1>2, <2>2 DEF Undone
  <2>4. elementsCompletelyDequeued \in [Bases -> 0 .. BlockSize]
    BY <1>7, Sizes
  <2> QED
    BY <2>1, <2>3, <2>4 DEF Counted
<1>18. Seen(f, K)
  <2>1. \A c \in Consumers : SeenBy(f, K, c)
    BY <1>7 DEF SeenBy, Looking
  <2>2. 0 \in 0 .. Len(headers) /\ 0 \in 0 .. MaxCapacity - 1
    BY <1>12, Sizes DEF Shape
  <2> QED
    BY <1>7, <2>1, <2>2 DEF Seen
<1>19. Ended
  BY <1>7 DEF Ended
<1>20. Good(start, start, f, K, {})
  BY <1>11, <1>12, <1>13, <1>14, <1>15, <1>16, <1>17, <1>18, <1>19 DEF Good
<1>21. {} \in SUBSET Int
  OBVIOUS
<1> QED
  BY <1>2, <1>20, <1>21 DEF Inv

LEMMA ProduceStep ==
  ASSUME NEW t \in Int, NEW h \in Int, NEW f \in Firsts, NEW K \in Numbers,
         NEW own \in SUBSET Int, Good(t, h, f, K, own), Produce
  PROVE  \E u \in Int, L \in Numbers, more \in SUBSET Int : Good(u, h, f, L, more)'
<1>0. 1 \in 1 .. MaxBulk /\ Bulks \subseteq 1 .. MaxBulk
  BY BoundsAreNat, BulksAreBounded
<1>1. CASE Enqueue
  <2>1. Begin(FALSE, 1)
    BY <1>1 DEF Enqueue
  <2>2. Good(t, h, f, K, own)'
    BY <1>0, <2>1, BeginStep
  <2> QED
    BY <2>2
<1>2. CASE EnqueueBulk
  <2>1. PICK n \in 1 .. MaxBulk : Begin(TRUE, n)
    BY <1>0, <1>2 DEF EnqueueBulk
  <2>2. Good(t, h, f, K, own)'
    BY <2>1, BeginStep
  <2> QED
    BY <2>2
<1>3. CASE CheckRoom
  <2>1. Good(t, h, f, K, own)'
    BY <1>3, CheckRoomStep
  <2> QED
    BY <2>1
<1>4. CASE InsertEntry
  <2>1. Good(t, h, f, K, own)'
    BY <1>4, InsertEntryStep
  <2> QED
    BY <2>1
<1>5. CASE NullIndex
  <2>1. Good(t, h, f, K, own)'
    BY <1>5, NullIndexStep
  <2> QED
    BY <2>1
<1>6. CASE NewBlockIndex
  <2>1. Good(t, h, f, K, own)'
    BY <1>6, NewBlockIndexStep
  <2> QED
    BY <2>1
<1>7. CASE StoreKey
  <2>1. \E L \in Numbers : Good(t, h, f, L, own)'
    BY <1>7, StoreKeyStep
  <2> QED
    BY <2>1
<1>8. CASE StoreTail
  <2>1. Good(t, h, f, K, own)'
    BY <1>8, StoreTailStep
  <2> QED
    BY <2>1
<1>9. CASE RequisitionBlock
  <2>1. \E more \in SUBSET Int : Good(t, h, f, K, more)'
    BY <1>9, RequisitionStep
  <2> QED
    BY <2>1
<1>10. CASE StoreValue
  <2>1. Good(t, h, f, K, own)'
    BY <1>10, StoreValueStep
  <2> QED
    BY <2>1
<1>11. CASE Construct
  <2>1. Good(t, h, f, K, own)'
    BY <1>11, ConstructStep
  <2> QED
    BY <2>1
<1>12. CASE Publish
  <2>1. \E u \in Int : Good(u, h, f, K, own)'
    BY <1>12, PublishStep
  <2> QED
    BY <2>1
<1>13. CASE Rewind
  <2>1. Good(t, h, f, K, own)'
    BY <1>13, RewindStep
  <2> QED
    BY <2>1
<1>14. CASE UnsetValue
  <2>1. \E rest \in SUBSET Int : Good(t, h, f, K, rest)'
    BY <1>14, UnsetValueStep
  <2> QED
    BY <2>1
<1>15. CASE Revert
  <2>1. \E rest \in SUBSET Int : Good(t, h, f, K, rest)'
    BY <1>15, RevertStep
  <2> QED
    BY <2>1
<1>16. CASE RevertRewind
  <2>1. Good(t, h, f, K, own)'
    BY <1>16, RevertRewindStep
  <2> QED
    BY <2>1
<1> QED
  BY <1>1, <1>2, <1>3, <1>4, <1>5, <1>6, <1>7, <1>8, <1>9, <1>10, <1>11, <1>12, <1>13,
     <1>14, <1>15, <1>16 DEF Produce

LEMMA ConsumeStep ==
  ASSUME NEW t \in Int, NEW h \in Int, NEW f \in Firsts, NEW K \in Numbers,
         NEW own \in SUBSET Int, Good(t, h, f, K, own), NEW c \in Consumers, Consume(c)
  PROVE  \E i \in Int, g \in Firsts, rest \in SUBSET Int : Good(t, i, g, K, rest)'
<1>1. CASE Claim(c)
  <2>1. \E i \in Int, g \in Firsts : Good(t, i, g, K, own)'
    BY <1>1, ClaimStep
  <2> QED
    BY <2>1
<1>2. CASE LoadHeader(c)
  <2>1. Good(t, h, f, K, own)'
    BY <1>2, LoadHeaderStep
  <2> QED
    BY <2>1
<1>3. CASE LoadTail(c)
  <2>1. Good(t, h, f, K, own)'
    BY <1>3, LoadTailStep
  <2> QED
    BY <2>1
<1>4. CASE LoadKey(c)
  <2>1. Good(t, h, f, K, own)'
    BY <1>4, LoadKeyStep
  <2> QED
    BY <2>1
<1>5. CASE LoadValue(c)
  <2>1. Good(t, h, f, K, own)'
    BY <1>5, LoadValueStep
  <2> QED
    BY <2>1
<1>6. CASE Finish(c)
  <2>1. \E g \in Firsts : Good(t, h, g, K, own)'
    BY <1>6, FinishStep
  <2> QED
    BY <2>1
<1>7. CASE Unset(c)
  <2>1. \E g \in Firsts, rest \in SUBSET Int : Good(t, h, g, K, rest)'
    BY <1>7, UnsetStep
  <2> QED
    BY <2>1
<1> QED
  BY <1>1, <1>2, <1>3, <1>4, <1>5, <1>6, <1>7 DEF Consume

LEMMA InvIsKept ==
  ASSUME Inv, [Next]_vars
  PROVE  Inv'
<1>1. PICK t \in Int, h \in Int, f \in Firsts, K \in Numbers, own \in SUBSET Int :
        Good(t, h, f, K, own)
  BY DEF Inv
<1>2. CASE Produce
  <2>1. \E u \in Int, L \in Numbers, more \in SUBSET Int : Good(u, h, f, L, more)'
    BY <1>1, <1>2, ProduceStep
  <2> QED
    BY <2>1 DEF Inv
<1>3. ASSUME NEW c \in Consumers, Consume(c) PROVE Inv'
  <2>1. \E i \in Int, g \in Firsts, rest \in SUBSET Int : Good(t, i, g, K, rest)'
    BY <1>1, <1>3, ConsumeStep
  <2> QED
    BY <2>1 DEF Inv
<1>4. CASE Destroy
  <2>1. Good(t, h, f, K, own)'
    BY <1>1, <1>4, DestroyStep
  <2> QED
    BY <2>1 DEF Inv
<1>5. CASE UNCHANGED vars
  <2>1. Good(t, h, f, K, own)'
    BY <1>1, <1>5, Stutter
  <2> QED
    BY <2>1 DEF Inv
<1> QED
  BY <1>2, <1>3, <1>4, <1>5 DEF Next

--------------------------------------------------------------------------------
(* What the invariant says of the properties.                              *)
LEMMA GoodIsTyped ==
  ASSUME NEW t \in Int, NEW h \in Int, NEW f \in Firsts, NEW K \in Numbers,
         NEW own \in SUBSET Int, Good(t, h, f, K, own)
  PROVE  TypeOK
<1>1. /\ Control(t) /\ Shape /\ Keys(t, h, K) /\ Owning(t, own) /\ Tails(t, own)
      /\ Values(t, K, own) /\ Claimed(t, h, f) /\ Counted(t, h, f, own) /\ Seen(f, K)
      /\ Ended
  BY DEF Good
<1>2. {tailIndex, headIndex} \subseteq Index
  BY <1>1, ModType DEF Control, Claimed
<1>3. \A i \in DOMAIN headers : \E n \in 1 .. MaxCapacity :
        /\ n = IF i = 1 THEN InitialCapacity ELSE 2 * Capacity(headers[i - 1])
        /\ headers[i] \in [index : [0 .. n - 1 -> Entries], tail : 0 .. n - 1]
  <2> TAKE i \in DOMAIN headers
  <2>1. i \in 1 .. Len(headers)
    BY <1>1 DEF Shape
  <2>2. Formed(headers[i])
    BY <1>1, <2>1, HeaderFacts
  <2>3. PICK n \in 1 .. MaxCapacity : n = Capacity(headers[i]) /\ headers[i] \in Header(n)
    BY <2>2, FormedFacts
  <2>4. n = IF i = 1 THEN InitialCapacity ELSE 2 * Capacity(headers[i - 1])
    BY <1>1, <2>1, <2>3 DEF Shape
  <2> QED
    BY <2>3, <2>4 DEF Header
<1>4. owned \subseteq Bases
  BY <1>1, BlkType DEF Owning
<1>5. tailBlock \in Bases \cup {Null} /\ startBlock \in Bases \cup {Null}
  BY <1>1 DEF Tails
<1>6. /\ step \in Steps /\ bulk \in BOOLEAN /\ count \in 0 .. MaxBulk
      /\ cur \in Bases /\ fresh \in Seq(Bases) /\ undone \in 0 .. Len(fresh)
      /\ sent \in 0 .. MaxSent
  BY <1>1 DEF Control
<1>7. /\ key \in [Entries -> Bases \cup {INVALID_BLOCK_BASE}]
      /\ value \in [Entries -> Bases \cup {Null, Garbage}]
      /\ elementsCompletelyDequeued \in [Bases -> 0 .. BlockSize]
      /\ destroyed \in Seq(Bases)
  BY <1>1 DEF Keys, Values, Counted, Ended
<1>8. /\ pc \in [Consumers -> {"idle", "header", "tail", "key", "value", "finish", "unset"}]
      /\ first \in [Consumers -> Index] /\ left \in [Consumers -> 0 .. MaxBulk]
  BY <1>1 DEF Claimed
<1>9. /\ header \in [Consumers -> 0 .. Len(headers)]
      /\ {tail, idx} \subseteq [Consumers -> 0 .. MaxCapacity - 1]
      /\ block \in [Consumers -> Bases \cup {Null, Garbage}]
  BY <1>1 DEF Seen
<1> QED
  BY <1>2, <1>3, <1>4, <1>5, <1>6, <1>7, <1>8, <1>9 DEF TypeOK

LEMMA GoodFinds ==
  ASSUME NEW t \in Int, NEW h \in Int, NEW f \in Firsts, NEW K \in Numbers,
         NEW own \in SUBSET Int, Good(t, h, f, K, own)
  PROVE  LookupSound
<1>1. ASSUME NEW c \in Consumers, pc[c] \in {"finish", "unset"}
      PROVE  block[c] = Base(first[c]) /\ block[c] \in owned
  <2>1. Num(f[c]) \in own /\ block[c] = Blk(Num(f[c]))
    <3>1. Num(f[c]) \in own
      BY ONLY Good(t, h, f, K, own), pc[c] \in {"finish", "unset"}, t \in Int, h \in Int,
         f \in Firsts, K \in Numbers, own \in SUBSET Int, c \in Consumers, <1>1, MineFacts
    <3>2. block[c] = Blk(Num(f[c]))
      BY ONLY Good(t, h, f, K, own), pc[c] \in {"finish", "unset"}, t \in Int, h \in Int,
         f \in Firsts, K \in Numbers, own \in SUBSET Int, c \in Consumers, <1>1, MineFacts
    <3> QED
      BY <3>1, <3>2
  <2>2. first[c] = Mod(f[c]) /\ f[c] \in Int
    BY <1>1 DEF Good, Claimed, Firsts
  <2>3. Base(first[c]) = Blk(Num(f[c]))
    BY <2>2, BaseIs
  <2>4. owned = {Blk(n) : n \in own}
    BY DEF Good, Owning
  <2> QED
    BY <2>1, <2>3, <2>4
<1>2. ASSUME step = "revert", undone < Len(fresh)
      PROVE  /\ key[EntryOf(fresh[undone + 1])] = fresh[undone + 1]
             /\ value[EntryOf(fresh[undone + 1])] = fresh[undone + 1]
  BY <1>2, RevertFacts
<1> QED
  BY <1>1, <1>2 DEF LookupSound

LEMMA QuietBlocks ==
  ASSUME NEW t \in Int, NEW h \in Int, NEW f \in Firsts, NEW K \in Numbers,
         NEW own \in SUBSET Int, Good(t, h, f, K, own), Quiet
  PROVE  owned = {Base(Plus(headIndex, k)) : k \in 0 .. Minus(tailIndex, headIndex) - 1}
                   \cup ({Base(tailIndex)} \ {tailIndex})
<1>1. /\ headIndex = Mod(h) /\ tailIndex = Mod(t) /\ h <= t
      /\ Before(t) \in Int /\ Num(h) \in Int /\ Num(t) \in Int
      /\ Begins(Before(t)) <= t - 1
      /\ \A n \in Int : n \in own <=> Num(h) <= n /\ n <= Before(t)
      /\ h = t => own = IF AtBase(t) THEN {} ELSE {Before(t)}
      /\ owned = {Blk(n) : n \in own}
  BY QuietFacts, QuietTail, NumIs DEF Good, Owning
<1>2. AtBase(t) <=> Base(tailIndex) = tailIndex
  BY <1>1, AtBaseIs
<1>3. ~AtBase(t) => Base(tailIndex) = Blk(Before(t)) /\ Before(t) \in own
  <2> SUFFICES ASSUME ~AtBase(t) PROVE Base(tailIndex) = Blk(Before(t)) /\ Before(t) \in own
    OBVIOUS
  <2>1. Num(t) = Before(t)
    BY AtBaseIs
  <2>2. Num(h) <= Before(t)
    BY <1>1, <2>1, NumMonotone
  <2> QED
    BY <1>1, <2>1, <2>2, BaseIs
<1>4. Minus(tailIndex, headIndex) = t - h
  <2>1. 0 <= t - h /\ t - h < IndexSize
    <3>1. CASE h = t
      BY <3>1, Sizes
    <3>2. CASE h < t
      <4>1. Begins(Num(h)) \in Int /\ Begins(Num(h)) <= h /\ t - Begins(Num(h)) < IndexSize
        BY <3>2, QuietSpan
      <4> QED
        BY <3>2, <4>1, Sizes
    <3> QED
      BY <1>1, <3>1, <3>2
  <2>2. Minus(Mod(t), Mod(h)) = Mod(t - h)
    BY ModFacts
  <2>3. Mod(t - h) = t - h
    BY <2>1, ModSmall, Sizes
  <2> QED
    BY <1>1, <2>2, <2>3
<1>5. ASSUME NEW k \in Int PROVE Base(Plus(headIndex, k)) = Blk(Num(h + k))
  <2>1. Plus(Mod(h), k) = Mod(h + k)
    BY ModFacts
  <2> QED
    BY <1>1, <2>1, BaseIs
<1>6. ASSUME NEW k \in 0 .. t - h - 1 PROVE Num(h + k) \in own
  <2>1. PICK x \in Int, y \in Int : x = h + k /\ y = t - 1
    OBVIOUS
  <2>2. h <= x /\ x <= y
    BY <2>1
  <2>3. Num(h) <= Num(x) /\ Num(x) <= Num(y) /\ Num(x) \in Int
    BY <2>2, NumMonotone, NumIs
  <2> QED
    BY <1>1, <2>1, <2>3 DEF Before
<1>7. ASSUME NEW n \in own, h < t PROVE \E k \in 0 .. t - h - 1 : Num(h + k) = n
  <2>1. Num(h) <= n /\ n <= Before(t) /\ n \in Int
    BY <1>1
  <2>2. CASE n = Num(h)
    <3>1. 0 \in 0 .. t - h - 1 /\ h + 0 = h
      BY <1>7
    <3> QED
      BY <2>2, <3>1
  <2>3. CASE n # Num(h)
    <3>1. PICK N \in Int, b \in Int, c \in Int :
             N = Num(h) /\ b = Begins(n) /\ c = Begins(Before(t)) /\ c <= t - 1
      BY <1>1, <2>1, BeginsFacts
    <3>2. b <= c
      BY <1>1, <2>1, <3>1, BeginsFacts
    <3>3. h < b
      <4>0. N < n
        BY <2>1, <2>3, <3>1
      <4>1. Begins(N) \in Int
        BY BeginsFacts
      <4>2. Begins(N) + BlockSize <= b
        BY <2>1, <3>1, <4>0, <4>1, BeginsFacts
      <4>3. h < Begins(N) + BlockSize
        BY <3>1, NumIs DEF Begins
      <4> QED
        BY <3>1, <4>1, <4>2, <4>3, Sizes
    <3>4. PICK k \in Int : k = b - h /\ k \in 0 .. t - h - 1 /\ h + k = b
      BY <3>1, <3>2, <3>3
    <3>5. Num(b) = n
      <4>1. BlockSize * n = b
        BY <3>1 DEF Begins
      <4>2. BlockSize * n <= b /\ b < BlockSize * n + BlockSize
        BY <4>1, Sizes
      <4> QED
        BY <2>1, <4>2, NumUnique
    <3> QED
      BY <3>4, <3>5
  <2> QED
    BY <2>2, <2>3
<1>8. ASSUME NEW b \in owned
      PROVE  \/ \E k \in 0 .. t - h - 1 : b = Base(Plus(headIndex, k))
             \/ b = Base(tailIndex) /\ b # tailIndex
  <2>1. PICK n \in own : b = Blk(n)
    BY <1>1
  <2>2. CASE h < t
    <3>1. PICK k \in 0 .. t - h - 1 : Num(h + k) = n
      BY <1>7, <2>2
    <3>2. Base(Plus(headIndex, k)) = Blk(Num(h + k))
      BY <1>5
    <3> QED
      BY <2>1, <3>1, <3>2
  <2>3. CASE h = t
    BY <1>1, <1>2, <1>3, <2>1, <2>3
  <2> QED
    BY <1>1, <2>2, <2>3
<1>9. ASSUME NEW k \in 0 .. t - h - 1 PROVE Base(Plus(headIndex, k)) \in owned
  <2>1. Base(Plus(headIndex, k)) = Blk(Num(h + k)) /\ Num(h + k) \in own
    BY <1>5, <1>6
  <2> QED
    BY <1>1, <2>1
<1>10. Base(tailIndex) # tailIndex => Base(tailIndex) \in owned
  BY <1>1, <1>2, <1>3
<1> QED
  BY <1>4, <1>8, <1>9, <1>10

LEMMA GoodLeaksNothing ==
  ASSUME NEW t \in Int, NEW h \in Int, NEW f \in Firsts, NEW K \in Numbers,
         NEW own \in SUBSET Int, Good(t, h, f, K, own)
  PROVE  NothingLeaks
<1> SUFFICES ASSUME Quiet PROVE NothingLeaks
  BY DEF NothingLeaks
<1>1. owned = {Base(Plus(headIndex, k)) : k \in 0 .. Minus(tailIndex, headIndex) - 1}
                \cup ({Base(tailIndex)} \ {tailIndex})
  BY QuietBlocks
<1>2. Control(t) /\ Shape /\ Values(t, K, own) /\ owned = {Blk(n) : n \in own}
  BY DEF Good, Owning
<1>3. owned # {} => tailBlock = Base(Minus(tailIndex, 1))
  <2>1. owned # {} => tailBlock = Blk(Before(t))
    BY <1>2, QuietTail
  <2>2. tailIndex = Mod(t)
    BY QuietTail
  <2>3. PICK x \in Int : x = t - 1
    OBVIOUS
  <2>4. Minus(Mod(t), 1) = Mod(x)
    BY <2>3, ModFacts
  <2>5. Base(Mod(x)) = Blk(Before(t))
    BY <2>3, BaseIs DEF Before
  <2> QED
    BY <2>1, <2>2, <2>4, <2>5
<1>4. ASSUME headers # <<>>
      PROVE  {value[blockIndex.index[i]] : i \in DOMAIN blockIndex.index} \ {Null, Garbage}
               = owned
  <2>1. \A p \in DOMAIN blockIndex.index : blockIndex.index[p] \in Entries
    BY <1>2, <1>4, LatestFacts, FormedFacts
  <2>2. ASSUME NEW p \in DOMAIN blockIndex.index,
               value[blockIndex.index[p]] \notin {Null, Garbage}
        PROVE  value[blockIndex.index[p]] \in owned
    <3>1. value[blockIndex.index[p]] \in Bases
      BY <1>2, <2>1, <2>2 DEF Values
    <3>2. value[blockIndex.index[p]] = Blk(K[blockIndex.index[p]])
          /\ K[blockIndex.index[p]] \in own
      BY <1>2, <2>1, <3>1 DEF Values
    <3> QED
      BY <1>2, <3>2
  <2>3. ASSUME NEW b \in owned
        PROVE  b \notin {Null, Garbage}
               /\ \E p \in DOMAIN blockIndex.index : value[blockIndex.index[p]] = b
    <3>1. PICK n \in own : b = Blk(n)
      BY <1>2
    <3>2. n \in Int /\ n <= Before(t)
      BY QuietFacts
    <3>3. Stored(K, n)
      BY <1>2, <3>2, StoredIs
    <3>4. b \in Bases
      BY <3>1, <3>2, BlkType
    <3> QED
      BY <3>1, <3>3, <3>4, Kinds DEF Stored
  <2> QED
    BY <2>2, <2>3
<1> QED
  BY <1>1, <1>3, <1>4 DEF NothingLeaks

--------------------------------------------------------------------------------
LEMMA Invariant == Spec => []Inv
<1>1. Init => Inv
  BY InitIsGood
<1>2. Inv /\ [Next]_vars => Inv'
  BY InvIsKept
<1> QED
  BY <1>1, <1>2, PTL DEF Spec

(***************************************************************************)
(* Every variable keeps its type: the counters stay in their width, every  *)
(* header has twice the entries of the one before, a block's count of      *)
(* finished elements never passes BLOCK_SIZE.                              *)
(***************************************************************************)
THEOREM TypeCorrect == Spec => []TypeOK
<1>1. Inv => TypeOK
  BY GoodIsTyped DEF Inv
<1> QED
  BY <1>1, Invariant, PTL

(***************************************************************************)
(* However old what a consumer has read of the index is by now, and        *)
(* whatever producers and consumers did to the index since, the lookup of  *)
(* dequeue() and dequeue_bulk() arrives at the block of the element, which *)
(* still belongs to the stream; and an enqueue_bulk() that fails finds its *)
(* blocks.  So for all sizes, index widths and numbers of consumers.       *)
(***************************************************************************)
THEOREM LookupSoundAlways == Spec => []LookupSound
<1>1. Inv => LookupSound
  BY GoodFinds DEF Inv
<1> QED
  BY <1>1, Invariant, PTL

(***************************************************************************)
(* Whatever calls succeeded or failed before, a stream that is at rest     *)
(* owns the blocks of its elements and of its next one, no other, and its  *)
(* index holds just those.                                                 *)
(***************************************************************************)
THEOREM NothingLeaksAlways == Spec => []NothingLeaks
<1>1. Inv => NothingLeaks
  BY GoodLeaksNothing DEF Inv
<1> QED
  BY <1>1, Invariant, PTL

(***************************************************************************)
(* ~ImplicitProducer() gives back each block of the stream once, and no    *)
(* block that is not the stream's.                                         *)
(***************************************************************************)
THEOREM DestroyedOnceAlways == Spec => []DestroyedOnce
<1>1. Inv => DestroyedOnce
  BY DEF Inv, Good, Ended, DestroyedOnce
<1> QED
  BY <1>1, Invariant, PTL

================================================================================
