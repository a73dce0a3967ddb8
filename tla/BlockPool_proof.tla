---------------------------- MODULE BlockPool_proof ----------------------------
(***************************************************************************)
(* Proofs about BlockPool, for any number of threads and of blocks.        *)
(*                                                                         *)
(* RefsBalance and NoneLost are not inductive.  What carries them is that  *)
(* a block that was handed out is in one place at a time (OnePlace), that  *)
(* a block with the flag and without references has one thread that adds   *)
(* it (FlaggedZero), and that the link of a block stands still for as long *)
(* as some thread counts as its user (Locals): this is the argument why a  *)
(* head that comes back meanwhile does no harm.                            *)
(***************************************************************************)
EXTENDS BlockPool, FiniteSetTheorems, SequenceTheorems, TLAPS

(* A thread adds n, and has not yet given the list its reference ...       *)
Before(t, n) == pc[t] \in {"load top", "link", "expose"} /\ node[t] = n

(* ... or has.                                                             *)
After(t, n) == pc[t] \in {"push", "retract"} /\ node[t] = n

Taking(t, n) == pc[t] = "take" /\ head[t] = n

Added(n) == \E t \in Threads : After(t, n)
Taken(n) == \E t \in Threads : Taking(t, n)

(* The list is the chain from freeListHead, without repetition.            *)
Chain ==
  /\ freeListHead = IF list = <<>> THEN Null ELSE list[1]
  /\ \A i \in 1 .. Len(list) :
       freeListNext[list[i]] = IF i = Len(list) THEN Null ELSE list[i + 1]
  /\ \A i, j \in 1 .. Len(list) : list[i] = list[j] => i = j

(* What the local variables of a thread hold, and know, at each place.     *)
LocalsOf(t) ==
  /\ pc[t] \in {"load refs", "acquire", "load next", "pop", "take"}
       => head[t] \in Blocks
  /\ pc[t] = "release" => prevHead[t] \in Blocks
  /\ pc[t] \in AddPoints => node[t] \in Blocks
  /\ pc[t] = "acquire" => refs[t][1] > 0
  /\ pc[t] = "pop" => next[t] = freeListNext[head[t]]
  /\ pc[t] \in {"expose", "push"} => freeListNext[node[t]] = top[t]

Locals == \A t \in Threads : LocalsOf(t)

(* Where a block is: with a stream, flagged, on the list, about to be on   *)
(* it, just off it, or not yet handed out.                                 *)
OnePlace(n) ==
  /\ n \in held => n \notin flagged /\ n \notin OnList /\ ~Added(n) /\ ~Taken(n)
  /\ n \in flagged => n \notin OnList /\ ~Added(n) /\ ~Taken(n)
  /\ n \in OnList => ~Added(n) /\ ~Taken(n)
  /\ Added(n) => ~Taken(n)
  /\ HandedOut(n)
       <=> n \in held \/ n \in flagged \/ n \in OnList \/ Added(n) \/ Taken(n)

FlaggedZero(n) ==
  n \in flagged /\ freeListRefs[n] = 0 <=> \E t \in Threads : Before(t, n)

Balanced(n) == freeListRefs[n] = Cardinality(Users(n)) + ListRef(n)

OneThread ==
  \A t, u \in Threads :
    /\ pc[t] \in AddPoints /\ pc[u] \in AddPoints /\ node[t] = node[u] => t = u
    /\ pc[t] = "take" /\ pc[u] = "take" /\ head[t] = head[u] => t = u

Inv ==
  /\ TypeOK
  /\ Chain
  /\ Locals
  /\ OneThread
  /\ \A n \in Blocks : OnePlace(n) /\ FlaggedZero(n) /\ Balanced(n)

--------------------------------------------------------------------------------
(* The users of a block are finitely many.                                 *)
LEMMA UsersFinite ==
  \A n : /\ Users(n) \subseteq Threads
         /\ IsFiniteSet(Users(n))
         /\ Cardinality(Users(n)) \in Nat
<1> SUFFICES ASSUME NEW n
             PROVE  /\ Users(n) \subseteq Threads
                    /\ IsFiniteSet(Users(n))
                    /\ Cardinality(Users(n)) \in Nat
  OBVIOUS
<1>1. Users(n) \subseteq Threads
  BY DEF Users
<1>2. IsFiniteSet(Users(n))
  BY <1>1, ThreadsAreFinite, FS_Subset
<1> QED
  BY <1>1, <1>2, FS_CardinalityType

LEMMA ListRefCases ==
  \A n : /\ ListRef(n) \in {0, 1}
         /\ ListRef(n) = 1 <=> n \in OnList \/ Taken(n) \/ Added(n)
BY DEF ListRef, Taken, Added, Taking, After

(* A thread that looks at a block keeps its count up, and so does the list *)
LEMMA RefsBound ==
  ASSUME NEW n \in Blocks, Balanced(n)
  PROVE  /\ freeListRefs[n] \in Nat
         /\ \A t \in Users(n) : freeListRefs[n] >= 1 + ListRef(n)
         /\ freeListRefs[n] >= ListRef(n)
         /\ freeListRefs[n] = ListRef(n) => Users(n) = {}
<1>1. freeListRefs[n] = Cardinality(Users(n)) + ListRef(n)
  BY DEF Balanced
<1>2. Cardinality(Users(n)) = 0 <=> Users(n) = {}
  BY UsersFinite, FS_EmptySet
<1> QED
  BY <1>1, <1>2, UsersFinite, ListRefCases

LEMMA UserJoins ==
  ASSUME NEW t \in Threads, NEW n, t \notin Users(n), Users(n)' = Users(n) \cup {t}
  PROVE  Cardinality(Users(n)') = Cardinality(Users(n)) + 1
BY UsersFinite, FS_AddElement

LEMMA UserLeaves ==
  ASSUME NEW t \in Threads, NEW n, t \in Users(n), Users(n)' = Users(n) \ {t}
  PROVE  Cardinality(Users(n)') = Cardinality(Users(n)) - 1
BY UsersFinite, FS_RemoveElement

--------------------------------------------------------------------------------
(* What a step of one thread leaves alone about the others.                *)
Still(u) ==
  /\ pc'[u] = pc[u] /\ head'[u] = head[u]
  /\ prevHead'[u] = prevHead[u] /\ refs'[u] = refs[u] /\ next'[u] = next[u]
  /\ node'[u] = node[u] /\ top'[u] = top[u]

OthersStill(t) == \A u \in Threads \ {t} : Still(u)

(* Whether t adds, takes or looks at n is as it was.                       *)
SameAdder(t, n) ==
  /\ Before(t, n)' <=> Before(t, n)
  /\ After(t, n)' <=> After(t, n)

SameUser(t, n) ==
  /\ Taking(t, n)' <=> Taking(t, n)
  /\ t \in Users(n)' <=> t \in Users(n)

LEMMA StillSame ==
  ASSUME NEW u \in Threads, Still(u), NEW n
  PROVE  SameAdder(u, n) /\ SameUser(u, n)
BY DEF Still, SameAdder, SameUser, Before, After, Taking, Users

LEMMA AddersKept ==
  ASSUME NEW t \in Threads, OthersStill(t), NEW n, SameAdder(t, n)
  PROVE  /\ Added(n)' <=> Added(n)
         /\ (\E u \in Threads : Before(u, n)') <=> \E u \in Threads : Before(u, n)
<1>1. \A u \in Threads : SameAdder(u, n)
  BY StillSame DEF OthersStill
<1> QED
  BY <1>1 DEF SameAdder, Added

LEMMA UsersKept ==
  ASSUME NEW t \in Threads, OthersStill(t), NEW n, SameUser(t, n)
  PROVE  Users(n)' = Users(n) /\ (Taken(n)' <=> Taken(n))
<1>1. \A u \in Threads : SameUser(u, n)
  BY StillSame DEF OthersStill
<1> QED
  BY <1>1 DEF SameUser, Taken, Users

LEMMA SameUsers ==
  ASSUME NEW n, \A u \in Threads : u \in Users(n)' <=> u \in Users(n)
  PROVE  Users(n)' = Users(n)
BY DEF Users

(* A step leaves the block n where it was.                                 *)
SamePlace(n) ==
  /\ n \in held' <=> n \in held
  /\ n \in flagged' <=> n \in flagged
  /\ n \in OnList' <=> n \in OnList
  /\ HandedOut(n)' <=> HandedOut(n)

LEMMA BlockKept ==
  ASSUME Inv, NEW t \in Threads, OthersStill(t), NEW n \in Blocks,
         SamePlace(n), freeListRefs'[n] = freeListRefs[n],
         SameAdder(t, n), SameUser(t, n)
  PROVE  OnePlace(n)' /\ FlaggedZero(n)' /\ Balanced(n)'
<1>1. OnePlace(n) /\ FlaggedZero(n) /\ Balanced(n)
  BY DEF Inv
<1>2. /\ Users(n)' = Users(n)
      /\ Added(n)' <=> Added(n)
      /\ Taken(n)' <=> Taken(n)
      /\ (\E u \in Threads : Before(u, n)') <=> \E u \in Threads : Before(u, n)
  BY AddersKept, UsersKept
<1>3. OnePlace(n)'
  BY <1>1, <1>2 DEF OnePlace, SamePlace
<1>4. FlaggedZero(n)'
  BY <1>1, <1>2 DEF FlaggedZero, SamePlace
<1>5. ListRef(n)' = ListRef(n)
  BY <1>2 DEF ListRef, Added, Taken, After, Taking, SamePlace
<1> QED
  BY <1>1, <1>2, <1>3, <1>4, <1>5 DEF Balanced

(* No thread becomes the second that adds or takes a block.                *)
LEMMA OneThreadKept ==
  ASSUME OneThread, NEW t \in Threads, OthersStill(t),
         pc'[t] \in AddPoints => pc[t] \in AddPoints /\ node'[t] = node[t],
         pc'[t] = "take" => pc[t] = "take" /\ head'[t] = head[t]
  PROVE  OneThread'
BY DEF OneThread, OthersStill, Still

(* A step of t that changes no link.                                       *)
LEMMA LinksKept ==
  ASSUME Locals, NEW t \in Threads, LocalsOf(t)', UNCHANGED freeListNext,
         OthersStill(t)
  PROVE  Locals'
<1> SUFFICES ASSUME NEW u \in Threads \ {t} PROVE LocalsOf(u)'
  BY DEF Locals
<1>1. Still(u) /\ LocalsOf(u)
  BY DEF OthersStill, Locals
<1> QED
  BY <1>1 DEF Still, LocalsOf

LEMMA WordType ==
  ASSUME NEW n \in Blocks, freeListRefs \in [Blocks -> Nat]
  PROVE  /\ Word(n) \in Nat \X {0, 1}
         /\ Word(n)[1] = freeListRefs[n]
         /\ Word(n) = <<1, 1>> <=> freeListRefs[n] = 1 /\ n \in flagged
BY DEF Word

LEMMA LoadedRefs ==
  ASSUME TypeOK, NEW t \in Threads, head[t] \in Blocks, freeListRefs[head[t]] # 0,
         refs' = [refs EXCEPT ![t] = Word(head[t])]
  PROVE  refs' \in [Threads -> Nat \X {0, 1}] /\ refs'[t][1] > 0
<1>1. freeListRefs \in [Blocks -> Nat] /\ refs \in [Threads -> Nat \X {0, 1}]
  BY DEF TypeOK
<1>2. Word(head[t])[1] > 0 /\ Word(head[t]) \in Nat \X {0, 1}
  BY <1>1, WordType
<1> QED
  BY <1>1, <1>2

(* The steps that only read.                                               *)
LEMMA LookStep ==
  ASSUME Inv, NEW t \in Threads,
         Requisition(t) \/ LoadHead(t) \/ LoadRefs(t) \/ LoadNext(t) \/ LoadTop(t)
  PROVE  Inv'
<1> USE DEF Goto, LookAt
<1>1. TypeOK /\ Locals /\ LocalsOf(t) /\ Chain /\ OneThread
  BY DEF Inv, Locals
<1>2. UNCHANGED <<poolVars, listVars, countVars, held>> /\ OthersStill(t)
  BY <1>1 DEF Requisition, LoadHead, LoadRefs, LoadNext, LoadTop, OthersStill, Still,
              poolVars, listVars, countVars, getVars, addVars, TypeOK
<1>3. \A n : SameAdder(t, n) /\ SameUser(t, n)
  <2> USE <1>1 DEF SameAdder, SameUser, Before, After, Taking, Users, TypeOK, addVars
  <2>1. CASE Requisition(t)
    BY <2>1 DEF Requisition, getVars
  <2>2. CASE LoadHead(t)
    BY <2>2 DEF LoadHead
  <2>3. CASE LoadRefs(t)
    BY <2>3 DEF LoadRefs
  <2>4. CASE LoadNext(t)
    BY <2>4 DEF LoadNext
  <2>5. CASE LoadTop(t)
    BY <2>5 DEF LoadTop, getVars
  <2> QED
    BY <2>1, <2>2, <2>3, <2>4, <2>5
<1>4. \A n : SamePlace(n)
  BY <1>2 DEF SamePlace, OnList, HandedOut, poolVars, listVars, countVars
<1>5. \A n \in Blocks : OnePlace(n)' /\ FlaggedZero(n)' /\ Balanced(n)'
  BY <1>2, <1>3, <1>4, BlockKept DEF countVars
<1>6. LocalsOf(t)' /\ TypeOK'
  <2> USE <1>1 DEF TypeOK, LocalsOf, GetPoints, AddPoints, BlockOrNull, getVars,
                   addVars, listVars, poolVars, countVars
  <2>1. CASE Requisition(t)
    BY <2>1 DEF Requisition
  <2>2. CASE LoadHead(t)
    BY <2>2 DEF LoadHead
  <2>3. CASE LoadRefs(t)
    <3>1. CASE freeListRefs[head[t]] = 0
      BY <2>3, <3>1 DEF LoadRefs
    <3>2. CASE freeListRefs[head[t]] # 0
      BY <2>3, <3>2, LoadedRefs DEF LoadRefs
    <3> QED
      BY <3>1, <3>2
  <2>4. CASE LoadNext(t)
    BY <2>4 DEF LoadNext
  <2>5. CASE LoadTop(t)
    BY <2>5 DEF LoadTop
  <2> QED
    BY <2>1, <2>2, <2>3, <2>4, <2>5
<1>7. Locals'
  BY <1>1, <1>2, <1>6, LinksKept DEF listVars
<1>8. Chain'
  BY <1>1, <1>2 DEF Chain, listVars
<1>9. OneThread'
  <2>1. /\ pc'[t] \in AddPoints => pc[t] \in AddPoints /\ node'[t] = node[t]
        /\ pc'[t] # "take"
    BY <1>1 DEF Requisition, LoadHead, LoadRefs, LoadNext, LoadTop, TypeOK, AddPoints,
                getVars, addVars
  <2> QED
    BY <1>1, <1>2, <2>1, OneThreadKept
<1> QED
  BY <1>5, <1>6, <1>7, <1>8, <1>9 DEF Inv

(* A block without references has no user: nobody holds an old link of it. *)
LEMMA LinkStep ==
  ASSUME Inv, NEW t \in Threads, Link(t)
  PROVE  Inv'
<1> USE DEF Goto
<1>1. TypeOK /\ Locals /\ LocalsOf(t) /\ Chain /\ OneThread
  BY DEF Inv, Locals
<1>2. UNCHANGED <<poolVars, freeListHead, list, countVars, held>> /\ OthersStill(t)
  BY <1>1 DEF Link, OthersStill, Still, getVars, addVars, TypeOK
<1>3. \A n : SameAdder(t, n) /\ SameUser(t, n)
  BY <1>1 DEF Link, SameAdder, SameUser, Before, After, Taking, Users, TypeOK, getVars,
              addVars
<1>4. \A n : SamePlace(n)
  BY <1>2 DEF SamePlace, OnList, HandedOut, poolVars, countVars
<1>5. \A n \in Blocks : OnePlace(n)' /\ FlaggedZero(n)' /\ Balanced(n)'
  BY <1>2, <1>3, <1>4, BlockKept DEF countVars
<1>6. LocalsOf(t)' /\ TypeOK'
  BY <1>1 DEF Link, TypeOK, LocalsOf, GetPoints, AddPoints, BlockOrNull, getVars,
              addVars, poolVars, countVars
<1>7. /\ node[t] \in Blocks /\ node[t] \in flagged
      /\ node[t] \notin OnList /\ Users(node[t]) = {}
  <2>1. node[t] \in Blocks /\ Before(t, node[t])
    BY <1>1 DEF Link, LocalsOf, AddPoints, Before
  <2>2. node[t] \in flagged /\ freeListRefs[node[t]] = 0
    BY <2>1 DEF Inv, FlaggedZero
  <2>3. node[t] \notin OnList /\ ~Added(node[t]) /\ ~Taken(node[t])
    BY <2>1, <2>2 DEF Inv, OnePlace
  <2>4. ListRef(node[t]) = 0
    BY <2>3, ListRefCases
  <2> QED
    BY <2>1, <2>2, <2>3, <2>4, RefsBound DEF Inv
<1>8. \A n : n # node[t] => freeListNext'[n] = freeListNext[n]
  BY <1>1 DEF Link, TypeOK
<1>9. Locals'
  <2> SUFFICES ASSUME NEW u \in Threads \ {t} PROVE LocalsOf(u)'
    BY <1>6 DEF Locals
  <2>1. LocalsOf(u) /\ Still(u)
    BY <1>1, <1>2 DEF Locals, OthersStill
  <2>2. pc[u] = "pop" => head[u] # node[t]
    BY <1>7 DEF Users
  <2>3. pc[u] \in {"expose", "push"} => node[u] # node[t]
    BY <1>1 DEF OneThread, Link, AddPoints
  <2> QED
    BY <1>8, <2>1, <2>2, <2>3 DEF LocalsOf, Still
<1>10. Chain'
  BY <1>1, <1>2, <1>7, <1>8 DEF Chain, OnList
<1>11. OneThread'
  <2>1. /\ pc'[t] \in AddPoints => pc[t] \in AddPoints /\ node'[t] = node[t]
        /\ pc'[t] # "take"
    BY <1>1 DEF Link, TypeOK, AddPoints, addVars
  <2> QED
    BY <1>1, <1>2, <2>1, OneThreadKept
<1> QED
  BY <1>5, <1>6, <1>9, <1>10, <1>11 DEF Inv

LEMMA AcquireStep ==
  ASSUME Inv, NEW t \in Threads, Acquire(t)
  PROVE  Inv'
<1> USE DEF Goto
<1>1. TypeOK /\ Locals /\ LocalsOf(t) /\ Chain /\ OneThread
  BY DEF Inv, Locals
<1>2. UNCHANGED <<poolVars, listVars, flagged, held>> /\ OthersStill(t)
  BY <1>1 DEF Acquire, OthersStill, Still, getVars, addVars, TypeOK
<1>3. PICK n \in Blocks : n = head[t]
  BY <1>1 DEF Acquire, LocalsOf
<1>4. \A m : SameAdder(t, m) /\ SamePlace(m) /\ (Taking(t, m)' <=> Taking(t, m))
  BY <1>1, <1>2 DEF Acquire, SameAdder, Before, After, Taking, TypeOK, addVars,
              SamePlace, OnList, HandedOut, poolVars, listVars
<1>5. CASE Word(n) # refs[t]
  <2>1. UNCHANGED freeListRefs
    BY <1>3, <1>5 DEF Acquire
  <2>2. \A m : SameUser(t, m)
    BY <1>1, <1>3, <1>4, <1>5 DEF Acquire, SameUser, Users, TypeOK
  <2>3. \A m \in Blocks : OnePlace(m)' /\ FlaggedZero(m)' /\ Balanced(m)'
    BY <1>2, <1>4, <2>1, <2>2, BlockKept
  <2>4. LocalsOf(t)' /\ TypeOK'
    BY <1>1, <1>3, <1>5, <2>1 DEF Acquire, TypeOK, LocalsOf, GetPoints, AddPoints,
       BlockOrNull, addVars, poolVars, listVars, NoRefs
  <2>5. Locals' /\ Chain'
    BY <1>1, <1>2, <2>4, LinksKept DEF listVars, Chain
  <2>6. pc'[t] = "load head"
    BY <1>1, <1>3, <1>5 DEF Acquire, TypeOK
  <2>7. OneThread'
    BY <1>1, <1>2, <2>6, OneThreadKept DEF AddPoints
  <2> QED
    BY <2>3, <2>4, <2>5, <2>7 DEF Inv
<1>6. CASE Word(n) = refs[t]
  <2>1. freeListRefs[n] > 0 /\ freeListRefs[n] \in Nat
    <3>1. freeListRefs \in [Blocks -> Nat] /\ refs[t][1] > 0
      BY <1>1 DEF TypeOK, LocalsOf, Acquire
    <3> QED
      BY <1>3, <1>6, <3>1, WordType
  <2>2. freeListRefs' = [freeListRefs EXCEPT ![n] = freeListRefs[n] + 1]
    BY <1>3, <1>6 DEF Acquire
  <2>3. /\ t \notin Users(n) /\ t \in Users(n)'
        /\ \A m : m # n => SameUser(t, m)
    BY <1>1, <1>3, <1>4, <1>6 DEF Acquire, SameUser, Users, TypeOK
  <2>4. Users(n)' = Users(n) \cup {t} /\ (Taken(n)' <=> Taken(n))
    <3>1. \A u \in Threads \ {t} : SameUser(u, n)
      BY <1>2, StillSame DEF OthersStill
    <3> QED
      BY <1>4, <2>3, <3>1, UsersFinite DEF SameUser, Taken, Users
  <2>5. OnePlace(n)' /\ FlaggedZero(n)' /\ Balanced(n)'
    <3>1. OnePlace(n) /\ FlaggedZero(n) /\ Balanced(n)
      BY <1>3 DEF Inv
    <3>2. /\ Added(n)' <=> Added(n)
          /\ (\E u \in Threads : Before(u, n)') <=> \E u \in Threads : Before(u, n)
      BY <1>2, <1>4, AddersKept
    <3>3. OnePlace(n)'
      BY <1>4, <2>4, <3>1, <3>2 DEF OnePlace, SamePlace
    <3>4. freeListRefs'[n] = freeListRefs[n] + 1 /\ freeListRefs'[n] # 0
      BY <1>1, <1>3, <2>1, <2>2 DEF TypeOK
    <3>5. FlaggedZero(n)'
      BY <1>4, <2>1, <3>1, <3>2, <3>4 DEF FlaggedZero, SamePlace
    <3>6. ListRef(n)' = ListRef(n)
      BY <1>4, <2>4, <3>2 DEF ListRef, Added, Taken, After, Taking, SamePlace
    <3>7. Cardinality(Users(n)') = Cardinality(Users(n)) + 1
      BY <2>3, <2>4, UserJoins
    <3>8. Balanced(n)'
      BY <3>1, <3>4, <3>6, <3>7, UsersFinite, ListRefCases DEF Balanced
    <3> QED
      BY <3>3, <3>5, <3>8
  <2>6. \A m \in Blocks \ {n} : OnePlace(m)' /\ FlaggedZero(m)' /\ Balanced(m)'
    <3>1. \A m \in Blocks \ {n} : freeListRefs'[m] = freeListRefs[m]
      BY <1>1, <2>2 DEF TypeOK
    <3> QED
      BY <1>2, <1>4, <2>3, <3>1, BlockKept
  <2>7. LocalsOf(t)' /\ TypeOK'
    <3>1. freeListRefs' \in [Blocks -> Nat]
      BY <1>1, <2>1, <2>2 DEF TypeOK
    <3>2. refs' \in [Threads -> Nat \X {0, 1}]
      BY <1>1 DEF Acquire, TypeOK, NoRefs
    <3>3. /\ pc' = [pc EXCEPT ![t] = "load next"]
          /\ UNCHANGED <<poolVars, listVars, flagged, held, getting, head, prevHead,
                         next, addVars>>
      BY <1>1, <1>3, <1>6 DEF Acquire
    <3>4. LocalsOf(t)'
      BY <1>1, <1>3, <3>3 DEF LocalsOf, TypeOK, AddPoints
    <3>5. TypeOK'
      BY <1>1, <3>1, <3>2, <3>3 DEF TypeOK, GetPoints, addVars, poolVars, listVars
    <3> QED
      BY <3>4, <3>5
  <2>8. Locals' /\ Chain'
    BY <1>1, <1>2, <2>7, LinksKept DEF listVars, Chain
  <2>9. pc'[t] = "load next"
    BY <1>1, <1>3, <1>6 DEF Acquire, TypeOK
  <2>10. OneThread'
    BY <1>1, <1>2, <2>9, OneThreadKept DEF AddPoints
  <2> QED
    BY <2>5, <2>6, <2>7, <2>8, <2>10 DEF Inv
<1> QED
  BY <1>5, <1>6

(* The blocks of new, not handed out before, go to a stream.               *)
HandsOut(new) ==
  /\ held' = held \cup new
  /\ \A n \in new : n \in Blocks /\ ~HandedOut(n)
  /\ \A n \in Blocks : HandedOut(n)' <=> HandedOut(n) \/ n \in new

LEMMA FreshStep ==
  ASSUME Inv, NEW t \in Threads, TakeFromPool(t) \/ Create(t)
  PROVE  Inv'
<1> USE DEF Goto
<1>1. TypeOK /\ Locals /\ LocalsOf(t) /\ Chain /\ OneThread
  BY DEF Inv, Locals
<1>2. UNCHANGED <<listVars, countVars, addVars>> /\ OthersStill(t)
  BY <1>1 DEF TakeFromPool, Create, OthersStill, Still, getVars, addVars, TypeOK
<1>3. \A n : SameAdder(t, n) /\ SameUser(t, n)
  BY <1>1 DEF TakeFromPool, Create, SameAdder, SameUser, Before, After, Taking, Users,
              TypeOK, getVars, addVars
<1>4. PICK new : HandsOut(new)
  <2>0. /\ initialBlockPoolIndex \in Nat /\ InitialPoolSize \in Nat /\ MaxBlocks \in Nat
        /\ created \in InitialPoolSize .. MaxBlocks /\ InitialPoolSize <= MaxBlocks
    BY <1>1, SizesAreNat DEF TypeOK
  <2> USE <2>0
  <2>1. CASE TakeFromPool(t) /\ initialBlockPoolIndex < InitialPoolSize
    <3>1. /\ initialBlockPoolIndex' = initialBlockPoolIndex + 1
          /\ created' = created
          /\ held' = held \cup {initialBlockPoolIndex}
      <4>1. ~(initialBlockPoolIndex >= InitialPoolSize)
        BY <2>1
      <4> QED
        BY <2>1, <4>1, Zenon DEF TakeFromPool
    <3>2. HandsOut({initialBlockPoolIndex})
      BY <2>1, <3>1 DEF HandsOut, HandedOut, Blocks
    <3> QED
      BY <3>2
  <2>2. CASE TakeFromPool(t) /\ initialBlockPoolIndex >= InitialPoolSize
    <3>1. /\ initialBlockPoolIndex' = initialBlockPoolIndex + 1
          /\ created' = created /\ held' = held
      <4>1. ~(initialBlockPoolIndex < InitialPoolSize)
        BY <2>2
      <4> QED
        BY <2>2, <4>1, Zenon DEF TakeFromPool
    <3>2. HandsOut({})
      BY <2>2, <3>1 DEF HandsOut, HandedOut, Blocks
    <3> QED
      BY <3>2
  <2>3. CASE Create(t) /\ UNCHANGED <<created, held>>
    <3>1. initialBlockPoolIndex' = initialBlockPoolIndex
      BY <2>3 DEF Create
    <3>2. HandsOut({})
      BY <2>3, <3>1 DEF HandsOut, HandedOut
    <3> QED
      BY <3>2
  <2>4. CASE Create(t) /\ created < MaxBlocks /\ created' = created + 1
             /\ held' = held \cup {created}
    <3>1. initialBlockPoolIndex' = initialBlockPoolIndex
      BY <2>4 DEF Create
    <3>2. HandsOut({created})
      BY <2>4, <3>1 DEF HandsOut, HandedOut, Blocks
    <3> QED
      BY <3>2
  <2> QED
    BY <2>1, <2>2, <2>3, <2>4 DEF Create
<1>5. \A n \in Blocks : OnePlace(n)' /\ FlaggedZero(n)' /\ Balanced(n)'
  <2> SUFFICES ASSUME NEW n \in Blocks PROVE OnePlace(n)' /\ FlaggedZero(n)' /\ Balanced(n)'
    OBVIOUS
  <2>1. CASE n \notin new
    <3>1. SamePlace(n)
      BY <1>2, <1>4, <2>1 DEF HandsOut, SamePlace, OnList, listVars, countVars
    <3> QED
      BY <1>2, <1>3, <3>1, BlockKept DEF countVars
  <2>2. CASE n \in new
    <3>1. OnePlace(n) /\ FlaggedZero(n) /\ Balanced(n)
      BY DEF Inv
    <3>2. /\ Users(n)' = Users(n)
          /\ Added(n)' <=> Added(n)
          /\ Taken(n)' <=> Taken(n)
          /\ (\E u \in Threads : Before(u, n)') <=> \E u \in Threads : Before(u, n)
      BY <1>2, <1>3, AddersKept, UsersKept
    <3>3. OnePlace(n)'
      BY <1>2, <1>4, <2>2, <3>1, <3>2 DEF HandsOut, OnePlace, OnList, listVars, countVars
    <3>4. FlaggedZero(n)'
      BY <1>2, <3>1, <3>2 DEF FlaggedZero, countVars
    <3>5. ListRef(n)' = ListRef(n)
      BY <1>2, <3>2 DEF ListRef, Added, Taken, After, Taking, OnList, listVars
    <3> QED
      BY <1>2, <3>1, <3>2, <3>3, <3>4, <3>5 DEF Balanced, countVars
  <2> QED
    BY <2>1, <2>2
<1>6. LocalsOf(t)'
  BY <1>1 DEF TakeFromPool, Create, LocalsOf, TypeOK, AddPoints
<1>7. TypeOK'
  <2>1. initialBlockPoolIndex' \in Nat /\ created' \in InitialPoolSize .. MaxBlocks
    <3>1. \/ initialBlockPoolIndex' = initialBlockPoolIndex + 1 /\ created' = created
          \/ initialBlockPoolIndex' = initialBlockPoolIndex /\ created' = created
          \/ /\ initialBlockPoolIndex' = initialBlockPoolIndex
             /\ created < MaxBlocks /\ created' = created + 1
      BY Zenon DEF TakeFromPool, Create
    <3>2. /\ initialBlockPoolIndex \in Nat /\ created \in InitialPoolSize .. MaxBlocks
          /\ InitialPoolSize \in Nat /\ MaxBlocks \in Nat
      BY <1>1, SizesAreNat DEF TypeOK
    <3> QED
      BY <3>1, <3>2
  <2>2. pc' \in [Threads -> {"idle", "pool"} \cup GetPoints \cup AddPoints]
    BY <1>1 DEF TakeFromPool, Create, TypeOK, GetPoints
  <2>4. getting' \subseteq Threads /\ UNCHANGED <<head, prevHead, refs, next>>
    BY <1>1 DEF TakeFromPool, Create, TypeOK
  <2>3. held' \subseteq Blocks
    BY <1>1, <1>4 DEF TypeOK, HandsOut
  <2> QED
    BY <1>1, <1>2, <2>1, <2>2, <2>3, <2>4 DEF TypeOK, listVars, countVars, addVars
<1>8. Locals' /\ Chain'
  BY <1>1, <1>2, <1>6, LinksKept DEF listVars, Chain
<1>9. OneThread'
  <2>1. pc'[t] \notin AddPoints \cup {"take"}
    BY <1>1 DEF TakeFromPool, Create, TypeOK, AddPoints
  <2> QED
    BY <1>1, <1>2, <2>1, OneThreadKept
<1> QED
  BY <1>5, <1>7, <1>8, <1>9 DEF Inv

(* The one thread that adds a block is the one that may.                   *)
LEMMA OnlyAdder ==
  ASSUME OneThread, NEW t \in Threads, OthersStill(t), pc[t] \in AddPoints,
         NEW n, n = node[t]
  PROVE  \A u \in Threads \ {t} :
           ~Before(u, n) /\ ~After(u, n) /\ ~Before(u, n)' /\ ~After(u, n)'
<1> SUFFICES ASSUME NEW u \in Threads \ {t}
             PROVE  ~Before(u, n) /\ ~After(u, n) /\ ~Before(u, n)' /\ ~After(u, n)'
  OBVIOUS
<1>1. ~Before(u, n) /\ ~After(u, n)
  BY DEF OneThread, Before, After, AddPoints
<1> QED
  BY <1>1 DEF OthersStill, Still, Before, After

LEMMA ExposeStep ==
  ASSUME Inv, NEW t \in Threads, Expose(t)
  PROVE  Inv'
<1> USE DEF Goto
<1>1. TypeOK /\ Locals /\ LocalsOf(t) /\ Chain /\ OneThread
  BY DEF Inv, Locals
<1>2. UNCHANGED <<poolVars, listVars, held, getVars, addVars>> /\ OthersStill(t)
  BY <1>1 DEF Expose, OthersStill, Still, getVars, addVars, TypeOK
<1>3. PICK n \in Blocks : n = node[t]
  BY <1>1 DEF Expose, LocalsOf, AddPoints
<1>4. /\ freeListRefs' = [freeListRefs EXCEPT ![n] = 1]
      /\ flagged' = flagged \ {n}
      /\ pc' = [pc EXCEPT ![t] = "push"]
      /\ pc[t] = "expose"
  BY <1>3 DEF Expose
<1>5. \A m : SameUser(t, m) /\ (m # n => SameAdder(t, m))
  BY <1>1, <1>2, <1>3, <1>4 DEF SameAdder, SameUser, Before, After, Taking, Users,
     TypeOK, getVars, addVars
<1>6. \A m \in Blocks \ {n} : OnePlace(m)' /\ FlaggedZero(m)' /\ Balanced(m)'
  <2>1. \A m \in Blocks \ {n} : SamePlace(m) /\ freeListRefs'[m] = freeListRefs[m]
    BY <1>1, <1>2, <1>4 DEF SamePlace, OnList, HandedOut, poolVars, listVars, TypeOK
  <2> QED
    BY <1>2, <1>5, <2>1, BlockKept
<1>7. OnePlace(n)' /\ FlaggedZero(n)' /\ Balanced(n)'
  <2>1. OnePlace(n) /\ FlaggedZero(n) /\ Balanced(n) /\ Before(t, n)
    BY <1>3, <1>4 DEF Inv, Before
  <2>2. n \in flagged /\ freeListRefs[n] = 0
    BY <2>1 DEF FlaggedZero
  <2>3. n \notin held /\ n \notin OnList /\ ~Added(n) /\ ~Taken(n) /\ HandedOut(n)
    BY <2>1, <2>2 DEF OnePlace
  <2>4. Users(n) = {}
    BY <2>1, <2>2, <2>3, RefsBound, ListRefCases
  <2>5. Users(n)' = Users(n) /\ (Taken(n)' <=> Taken(n))
    BY <1>2, <1>5, UsersKept
  <2>6. Added(n)' /\ ~(\E u \in Threads : Before(u, n)')
    <3>1. After(t, n)' /\ ~Before(t, n)'
      BY <1>1, <1>2, <1>3, <1>4 DEF After, Before, addVars, TypeOK
    <3>2. \A u \in Threads \ {t} : ~Before(u, n)'
      BY <1>1, <1>2, <1>3, <1>4, OnlyAdder DEF AddPoints
    <3> QED
      BY <3>1, <3>2 DEF Added
  <2>7. /\ n \notin flagged' /\ n \notin held' /\ n \notin OnList' /\ HandedOut(n)'
        /\ freeListRefs'[n] = 1
    BY <1>1, <1>2, <1>4, <2>3 DEF OnList, HandedOut, poolVars, listVars, TypeOK
  <2>8. OnePlace(n)' /\ FlaggedZero(n)'
    BY <2>3, <2>5, <2>6, <2>7 DEF OnePlace, FlaggedZero
  <2>9. ListRef(n)' = 1
    BY <2>6 DEF ListRef, Added, After
  <2>10. Cardinality(Users(n)') = 0
    BY <2>4, <2>5, FS_EmptySet
  <2> QED
    BY <2>7, <2>8, <2>9, <2>10 DEF Balanced
<1>8. LocalsOf(t)' /\ TypeOK'
  BY <1>1, <1>2, <1>3, <1>4 DEF LocalsOf, TypeOK, AddPoints, GetPoints, poolVars,
     listVars, getVars, addVars
<1>9. Locals' /\ Chain'
  BY <1>1, <1>2, <1>8, LinksKept DEF listVars, Chain
<1>10. OneThread'
  <2>1. pc[t] \in AddPoints /\ pc'[t] = "push" /\ node'[t] = node[t]
    BY <1>1, <1>2, <1>4 DEF TypeOK, AddPoints, addVars
  <2> QED
    BY <1>1, <1>2, <2>1, OneThreadKept
<1> QED
  BY <1>6, <1>7, <1>8, <1>9, <1>10 DEF Inv

LEMMA RetractStep ==
  ASSUME Inv, NEW t \in Threads, Retract(t)
  PROVE  Inv'
<1> USE DEF Goto
<1>1. TypeOK /\ Locals /\ LocalsOf(t) /\ Chain /\ OneThread
  BY DEF Inv, Locals
<1>2. UNCHANGED <<poolVars, listVars, held, getVars>> /\ OthersStill(t)
  BY <1>1 DEF Retract, OthersStill, Still, getVars, addVars, TypeOK
<1>3. PICK n \in Blocks : n = node[t]
  BY <1>1 DEF Retract, LocalsOf, AddPoints
<1>4. /\ freeListRefs' = [freeListRefs EXCEPT ![n] = freeListRefs[n] - 1]
      /\ flagged' = flagged \cup {n}
      /\ pc[t] = "retract"
  BY <1>3 DEF Retract
<1>5. \/ /\ freeListRefs[n] = 1 /\ pc'[t] = "link" /\ UNCHANGED addVars
      \/ /\ freeListRefs[n] # 1
         /\ pc'[t] \in {"idle", "create", "load refs"}
         /\ pc'[t] = "load refs" => head[t] # Null
         /\ node' = [node EXCEPT ![t] = Null]
         /\ top' = [top EXCEPT ![t] = Null]
  BY <1>1, <1>3 DEF Retract, TypeOK, Done, LookAt
<1>6. \A m : SameUser(t, m) /\ (m # n => SameAdder(t, m))
  BY <1>1, <1>2, <1>3, <1>4, <1>5 DEF SameAdder, SameUser, Before, After, Taking, Users,
     TypeOK, getVars, addVars
<1>7. \A m \in Blocks \ {n} : OnePlace(m)' /\ FlaggedZero(m)' /\ Balanced(m)'
  <2>1. \A m \in Blocks \ {n} : SamePlace(m) /\ freeListRefs'[m] = freeListRefs[m]
    BY <1>1, <1>2, <1>4 DEF SamePlace, OnList, HandedOut, poolVars, listVars, TypeOK
  <2> QED
    BY <1>2, <1>6, <2>1, BlockKept
<1>8. OnePlace(n) /\ FlaggedZero(n) /\ Balanced(n) /\ Added(n)
  BY <1>3, <1>4 DEF Inv, Added, After
<1>9. freeListRefs[n] \in Nat /\ freeListRefs[n] > 0
  BY <1>8, RefsBound, ListRefCases
<1>10. OnePlace(n)' /\ FlaggedZero(n)' /\ Balanced(n)'
  <2>1. n \notin held /\ n \notin flagged /\ n \notin OnList /\ ~Taken(n) /\ HandedOut(n)
    BY <1>8 DEF OnePlace
  <2>2. Users(n)' = Users(n) /\ (Taken(n)' <=> Taken(n))
    BY <1>2, <1>6, UsersKept
  <2>3. ~Added(n)' /\ ((\E u \in Threads : Before(u, n)') <=> freeListRefs[n] = 1)
    <3>1. \A u \in Threads \ {t} : ~Before(u, n)' /\ ~After(u, n)'
      BY <1>1, <1>2, <1>3, <1>4, OnlyAdder DEF AddPoints
    <3>2. ~After(t, n)' /\ (Before(t, n)' <=> freeListRefs[n] = 1)
      BY <1>3, <1>5 DEF After, Before, addVars
    <3> QED
      BY <3>1, <3>2 DEF Added
  <2>4. /\ n \in flagged' /\ n \notin held' /\ n \notin OnList' /\ HandedOut(n)'
        /\ freeListRefs'[n] = freeListRefs[n] - 1
    BY <1>1, <1>2, <1>4, <2>1 DEF OnList, HandedOut, poolVars, listVars, TypeOK
  <2>5. OnePlace(n)' /\ FlaggedZero(n)'
    BY <1>9, <2>1, <2>2, <2>3, <2>4 DEF OnePlace, FlaggedZero
  <2>6. ListRef(n) = 1 /\ ListRef(n)' = 0
    BY <1>8, <2>1, <2>2, <2>3, <2>4 DEF ListRef, Added, Taken, After, Taking
  <2> QED
    BY <1>8, <2>2, <2>4, <2>5, <2>6, UsersFinite DEF Balanced
<1>11. LocalsOf(t)'
  BY <1>1, <1>2, <1>3, <1>5 DEF LocalsOf, TypeOK, AddPoints, BlockOrNull, getVars, addVars
<1>12. TypeOK'
  <2>1. freeListRefs' \in [Blocks -> Nat] /\ flagged' \subseteq Blocks
    BY <1>1, <1>4, <1>9 DEF TypeOK
  <2>2. pc' \in [Threads -> {"idle", "pool"} \cup GetPoints \cup AddPoints]
    BY <1>1 DEF Retract, TypeOK, GetPoints, AddPoints, Done, LookAt
  <2> QED
    BY <1>1, <1>2, <1>5, <2>1, <2>2 DEF TypeOK, poolVars, listVars, getVars, addVars,
       BlockOrNull
<1>13. Locals' /\ Chain'
  BY <1>1, <1>2, <1>11, LinksKept DEF listVars, Chain
<1>14. OneThread'
  <2>1. /\ pc'[t] \in AddPoints => pc[t] \in AddPoints /\ node'[t] = node[t]
        /\ pc'[t] # "take"
    BY <1>4, <1>5 DEF AddPoints, addVars
  <2> QED
    BY <1>1, <1>2, <2>1, OneThreadKept
<1> QED
  BY <1>7, <1>10, <1>12, <1>13, <1>14 DEF Inv

LEMMA TakeStep ==
  ASSUME Inv, NEW t \in Threads, Take(t)
  PROVE  Inv'
<1> USE DEF Goto
<1>1. TypeOK /\ Locals /\ LocalsOf(t) /\ Chain /\ OneThread
  BY DEF Inv, Locals
<1>2. UNCHANGED <<poolVars, listVars, flagged, prevHead, refs, next, addVars>>
        /\ OthersStill(t)
  BY <1>1 DEF Take, OthersStill, Still, addVars, TypeOK
<1>3. PICK n \in Blocks : n = head[t]
  BY <1>1 DEF Take, LocalsOf
<1>4. /\ freeListRefs' = [freeListRefs EXCEPT ![n] = freeListRefs[n] - 2]
      /\ held' = held \cup {n}
      /\ pc[t] = "take" /\ pc' = [pc EXCEPT ![t] = "idle"]
      /\ head' = [head EXCEPT ![t] = Null]
  BY <1>3 DEF Take
<1>5. \A m : SameAdder(t, m) /\ (m # n => SameUser(t, m))
  BY <1>1, <1>2, <1>3, <1>4 DEF SameAdder, SameUser, Before, After, Taking, Users,
     TypeOK, addVars
<1>6. \A m \in Blocks \ {n} : OnePlace(m)' /\ FlaggedZero(m)' /\ Balanced(m)'
  <2>1. \A m \in Blocks \ {n} : SamePlace(m) /\ freeListRefs'[m] = freeListRefs[m]
    BY <1>1, <1>2, <1>4 DEF SamePlace, OnList, HandedOut, poolVars, listVars, TypeOK
  <2> QED
    BY <1>2, <1>5, <2>1, BlockKept
<1>7. /\ OnePlace(n) /\ FlaggedZero(n) /\ Balanced(n)
      /\ Taken(n) /\ t \in Users(n)
  BY <1>3, <1>4 DEF Inv, Taken, Taking, Users
<1>8. freeListRefs[n] \in Nat /\ freeListRefs[n] >= 2
  BY <1>7, RefsBound, ListRefCases
<1>9. OnePlace(n)' /\ FlaggedZero(n)' /\ Balanced(n)'
  <2>1. n \notin held /\ n \notin flagged /\ n \notin OnList /\ ~Added(n) /\ HandedOut(n)
    BY <1>7 DEF OnePlace
  <2>2. /\ Added(n)' <=> Added(n)
        /\ (\E u \in Threads : Before(u, n)') <=> \E u \in Threads : Before(u, n)
    BY <1>2, <1>5, AddersKept
  <2>3. ~Taken(n)'
    <3>1. ~Taking(t, n)'
      BY <1>1, <1>4 DEF Taking, TypeOK
    <3>2. \A u \in Threads \ {t} : ~Taking(u, n)'
      BY <1>1, <1>2, <1>3, <1>4 DEF OneThread, OthersStill, Still, Taking
    <3> QED
      BY <3>1, <3>2 DEF Taken
  <2>4. Users(n)' = Users(n) \ {t}
    <3>1. t \notin Users(n)'
      BY <1>1, <1>4 DEF Users, TypeOK
    <3>2. \A u \in Threads \ {t} : SameUser(u, n)
      BY <1>2, StillSame DEF OthersStill
    <3> QED
      BY <3>1, <3>2 DEF SameUser, Users
  <2>5. /\ n \in held' /\ n \notin flagged' /\ n \notin OnList' /\ HandedOut(n)'
        /\ freeListRefs'[n] = freeListRefs[n] - 2
    BY <1>1, <1>2, <1>4, <2>1 DEF OnList, HandedOut, poolVars, listVars, TypeOK
  <2>6. OnePlace(n)' /\ FlaggedZero(n)'
    BY <1>7, <2>1, <2>2, <2>3, <2>5 DEF OnePlace, FlaggedZero
  <2>7. ListRef(n) = 1 /\ ListRef(n)' = 0
    BY <1>7, <2>1, <2>2, <2>3, <2>5 DEF ListRef, Added, Taken, After, Taking
  <2>8. Cardinality(Users(n)') = Cardinality(Users(n)) - 1
    BY <1>7, <2>4, UserLeaves
  <2> QED
    BY <1>7, <2>5, <2>6, <2>7, <2>8, UsersFinite DEF Balanced
<1>10. LocalsOf(t)'
  BY <1>1, <1>4 DEF LocalsOf, TypeOK, AddPoints
<1>11. TypeOK'
  <2>1. freeListRefs' \in [Blocks -> Nat] /\ held' \subseteq Blocks
    BY <1>1, <1>4, <1>8 DEF TypeOK
  <2>2. getting' \subseteq Threads
    BY <1>1 DEF Take, TypeOK
  <2> QED
    BY <1>1, <1>2, <1>4, <2>1, <2>2 DEF TypeOK, poolVars, listVars, addVars, BlockOrNull
<1>12. Locals' /\ Chain'
  BY <1>1, <1>2, <1>10, LinksKept DEF listVars, Chain
<1>13. OneThread'
  <2>1. pc'[t] = "idle"
    BY <1>1, <1>4 DEF TypeOK
  <2> QED
    BY <1>1, <1>2, <2>1, OneThreadKept DEF AddPoints
<1> QED
  BY <1>6, <1>9, <1>11, <1>12, <1>13 DEF Inv

(* No thread may add a block whose count is not zero, or that has no flag. *)
LEMMA NoAdder ==
  ASSUME NEW n \in Blocks, FlaggedZero(n), ~Added(n), n \notin flagged \/ freeListRefs[n] # 0
  PROVE  \A u \in Threads : pc[u] \in AddPoints => node[u] # n
BY DEF FlaggedZero, Added, Before, After, AddPoints

(* A thread becomes the one that adds a block.                             *)
LEMMA AdderJoins ==
  ASSUME OneThread, NEW t \in Threads, OthersStill(t), NEW n, node'[t] = n,
         \A u \in Threads : pc[u] \in AddPoints => node[u] # n,
         pc'[t] = "load top"
  PROVE  OneThread'
<1>1. \A u \in Threads \ {t} : Still(u)
  BY DEF OthersStill
<1>2. ASSUME NEW u \in Threads, NEW w \in Threads, node'[u] = node'[w],
             pc'[u] \in AddPoints, pc'[w] \in AddPoints
      PROVE  u = w
  <2>1. CASE u # t /\ w # t
    BY <1>1, <1>2, <2>1 DEF OneThread, Still
  <2>2. CASE u = t /\ w # t
    BY <1>1, <1>2, <2>2 DEF Still
  <2>3. CASE u # t /\ w = t
    BY <1>1, <1>2, <2>3 DEF Still
  <2> QED
    BY <2>1, <2>2, <2>3
<1>3. ASSUME NEW u \in Threads, NEW w \in Threads, head'[u] = head'[w],
             pc'[u] = "take", pc'[w] = "take"
      PROVE  u = w
  BY <1>1, <1>3 DEF OneThread, Still
<1> QED
  BY <1>2, <1>3 DEF OneThread

LEMMA ReleaseStep ==
  ASSUME Inv, NEW t \in Threads, Release(t)
  PROVE  Inv'
<1> USE DEF Goto
<1>1. TypeOK /\ Locals /\ LocalsOf(t) /\ Chain /\ OneThread
  BY DEF Inv, Locals
<1>2. UNCHANGED <<poolVars, listVars, flagged, held, getting, head, refs, next, top>>
        /\ OthersStill(t)
  BY <1>1 DEF Release, OthersStill, Still, TypeOK
<1>3. PICK n \in Blocks : n = prevHead[t]
  BY <1>1 DEF Release, LocalsOf
<1>4. /\ freeListRefs' = [freeListRefs EXCEPT ![n] = freeListRefs[n] - 1]
      /\ prevHead' = [prevHead EXCEPT ![t] = Null]
      /\ pc[t] = "release"
  BY <1>3 DEF Release
<1>5. /\ OnePlace(n) /\ FlaggedZero(n) /\ Balanced(n) /\ t \in Users(n)
  BY <1>3, <1>4 DEF Inv, Users
<1>6. freeListRefs[n] \in Nat /\ freeListRefs[n] >= 1 + ListRef(n)
  BY <1>5, RefsBound
<1> DEFINE last == n \in flagged /\ freeListRefs[n] = 1
<1>7. \/ /\ last /\ pc' = [pc EXCEPT ![t] = "load top"]
         /\ node' = [node EXCEPT ![t] = n]
      \/ /\ ~last /\ pc' = [pc EXCEPT ![t] = LookAt(head[t])] /\ UNCHANGED node
  <2>1. Word(n) = <<1, 1>> <=> last
    BY <1>1, WordType DEF TypeOK
  <2> QED
    BY <1>3, <2>1 DEF Release
<1>8. /\ pc'[t] \in {"load top", "create", "load refs"}
      /\ pc'[t] = "load refs" => head[t] # Null
      /\ pc'[t] = "load top" <=> last
      /\ last => node'[t] = n
  BY <1>1, <1>7 DEF TypeOK, LookAt
<1>9. \A m : /\ After(t, m)' <=> After(t, m)
             /\ Taking(t, m)' <=> Taking(t, m)
             /\ m # n => SameUser(t, m) /\ SameAdder(t, m)
             /\ ~Before(t, m)
             /\ Before(t, m)' <=> last /\ m = n
  BY <1>3, <1>4, <1>8 DEF SameUser, SameAdder, After, Before, Taking, Users
<1>10. \A m \in Blocks \ {n} : OnePlace(m)' /\ FlaggedZero(m)' /\ Balanced(m)'
  <2>1. \A m \in Blocks \ {n} : SamePlace(m) /\ freeListRefs'[m] = freeListRefs[m]
    BY <1>1, <1>2, <1>4 DEF SamePlace, OnList, HandedOut, poolVars, listVars, TypeOK
  <2> QED
    BY <1>2, <1>9, <2>1, BlockKept
<1>11. OnePlace(n)' /\ FlaggedZero(n)' /\ Balanced(n)'
  <2>1. SamePlace(n) /\ freeListRefs'[n] = freeListRefs[n] - 1
    BY <1>1, <1>2, <1>4 DEF SamePlace, OnList, HandedOut, poolVars, listVars, TypeOK
  <2>2. \A u \in Threads \ {t} : SameAdder(u, n) /\ SameUser(u, n)
    BY <1>2, StillSame DEF OthersStill
  <2>3. (Added(n)' <=> Added(n)) /\ (Taken(n)' <=> Taken(n))
    BY <1>9, <2>2 DEF Added, Taken, SameAdder, SameUser
  <2>4. (\E u \in Threads : Before(u, n)') <=> last \/ \E u \in Threads : Before(u, n)
    BY <1>9, <2>2 DEF SameAdder
  <2>5. OnePlace(n)'
    BY <1>5, <2>1, <2>3 DEF OnePlace, SamePlace
  <2>6. FlaggedZero(n)'
    BY <1>5, <1>6, <2>1, <2>4, ListRefCases DEF FlaggedZero, SamePlace
  <2>7. Users(n)' = Users(n) \ {t}
    <3>1. t \notin Users(n)'
      BY <1>8 DEF Users
    <3> QED
      BY <2>2, <3>1 DEF SameUser, Users
  <2>8. Cardinality(Users(n)') = Cardinality(Users(n)) - 1
    BY <1>5, <2>7, UserLeaves
  <2>9. ListRef(n)' = ListRef(n)
    BY <2>1, <2>3 DEF ListRef, Added, Taken, After, Taking, SamePlace
  <2> QED
    BY <1>5, <1>6, <2>1, <2>5, <2>6, <2>8, <2>9, UsersFinite, ListRefCases DEF Balanced
<1>12. LocalsOf(t)'
  BY <1>1, <1>2, <1>3, <1>8 DEF LocalsOf, TypeOK, AddPoints, BlockOrNull
<1>13. TypeOK'
  <2>1. freeListRefs' \in [Blocks -> Nat]
    <3>1. freeListRefs[n] - 1 \in Nat
      BY <1>6, ListRefCases
    <3> QED
      BY <1>1, <1>4, <3>1 DEF TypeOK
  <2>2. /\ pc' \in [Threads -> {"idle", "pool"} \cup GetPoints \cup AddPoints]
        /\ node' \in [Threads -> BlockOrNull] /\ prevHead' \in [Threads -> BlockOrNull]
    BY <1>1, <1>3, <1>4, <1>7 DEF TypeOK, GetPoints, AddPoints, LookAt, BlockOrNull
  <2> QED
    BY <1>1, <1>2, <2>1, <2>2 DEF TypeOK, poolVars, listVars
<1>14. Locals' /\ Chain'
  BY <1>1, <1>2, <1>12, LinksKept DEF listVars, Chain
<1>15. OneThread'
  <2>1. CASE last
    <3>1. \A u \in Threads : pc[u] \in AddPoints => node[u] # n
      BY <1>5, <2>1, NoAdder DEF OnePlace
    <3> QED
      BY <1>1, <1>2, <1>8, <2>1, <3>1, AdderJoins
  <2>2. CASE ~last
    <3>1. pc'[t] \in {"create", "load refs"}
      BY <1>8, <2>2
    <3> QED
      BY <1>1, <1>2, <3>1, OneThreadKept DEF AddPoints
  <2> QED
    BY <2>1, <2>2
<1> QED
  BY <1>10, <1>11, <1>13, <1>14, <1>15 DEF Inv

LEMMA AddStep ==
  ASSUME Inv, NEW t \in Threads, NEW n \in Blocks, Add(t, n)
  PROVE  Inv'
<1> USE DEF Goto
<1>1. TypeOK /\ Locals /\ LocalsOf(t) /\ Chain /\ OneThread
  BY DEF Inv, Locals
<1>2. UNCHANGED <<poolVars, listVars, freeListRefs, getVars, top>> /\ OthersStill(t)
  BY <1>1 DEF Add, OthersStill, Still, getVars, TypeOK
<1>3. /\ n \in held /\ held' = held \ {n} /\ flagged' = flagged \cup {n}
      /\ pc[t] = "idle"
  BY DEF Add
<1> DEFINE zero == freeListRefs[n] = 0
<1>4. \/ /\ zero /\ pc' = [pc EXCEPT ![t] = "load top"]
         /\ node' = [node EXCEPT ![t] = n]
      \/ ~zero /\ pc' = [pc EXCEPT ![t] = "idle"] /\ UNCHANGED node
  BY DEF Add
<1>5. OnePlace(n) /\ FlaggedZero(n) /\ Balanced(n)
  BY DEF Inv
<1>6. /\ pc'[t] \in {"load top", "idle"}
      /\ pc'[t] = "load top" <=> zero
      /\ zero => node'[t] = n
  BY <1>1, <1>4 DEF TypeOK
<1>7. \A m : /\ SameUser(t, m)
             /\ m # n => SameAdder(t, m)
             /\ ~After(t, m) /\ ~After(t, m)'
             /\ ~Before(t, m)
             /\ Before(t, m)' <=> zero /\ m = n
  BY <1>3, <1>6 DEF SameUser, SameAdder, After, Before, Taking, Users
<1>8. \A m \in Blocks \ {n} : OnePlace(m)' /\ FlaggedZero(m)' /\ Balanced(m)'
  <2>1. \A m \in Blocks \ {n} : SamePlace(m)
    BY <1>2, <1>3 DEF SamePlace, OnList, HandedOut, poolVars, listVars
  <2> QED
    BY <1>2, <1>7, <2>1, BlockKept
<1>9. OnePlace(n)' /\ FlaggedZero(n)' /\ Balanced(n)'
  <2>1. n \notin flagged /\ n \notin OnList /\ ~Added(n) /\ ~Taken(n) /\ HandedOut(n)
    BY <1>3, <1>5 DEF OnePlace
  <2>2. \A u \in Threads \ {t} : SameAdder(u, n)
    BY <1>2, StillSame DEF OthersStill
  <2>3. ~Added(n)'
    BY <1>7, <2>1, <2>2 DEF Added, SameAdder
  <2>4. ~\E u \in Threads : Before(u, n)
    BY <1>5, <2>1 DEF FlaggedZero
  <2>5. (\E u \in Threads : Before(u, n)') <=> zero
    BY <1>7, <2>2, <2>4 DEF SameAdder
  <2>6. Users(n)' = Users(n) /\ (Taken(n)' <=> Taken(n))
    BY <1>2, <1>7, UsersKept
  <2>7. n \in flagged' /\ n \notin held' /\ n \notin OnList' /\ HandedOut(n)'
    BY <1>2, <1>3, <2>1 DEF OnList, HandedOut, poolVars, listVars
  <2>8. OnePlace(n)' /\ FlaggedZero(n)'
    BY <1>2, <2>1, <2>3, <2>5, <2>6, <2>7 DEF OnePlace, FlaggedZero
  <2>9. ListRef(n)' = ListRef(n)
    BY <2>1, <2>3, <2>6, <2>7 DEF ListRef, Added, Taken, After, Taking
  <2> QED
    BY <1>2, <1>5, <2>6, <2>8, <2>9 DEF Balanced
<1>10. LocalsOf(t)'
  BY <1>1, <1>2, <1>6 DEF LocalsOf, AddPoints
<1>11. TypeOK'
  <2>1. pc' \in [Threads -> {"idle", "pool"} \cup GetPoints \cup AddPoints]
    BY <1>1, <1>4 DEF TypeOK, GetPoints, AddPoints
  <2>2. node' \in [Threads -> BlockOrNull]
    BY <1>1, <1>4 DEF TypeOK, BlockOrNull
  <2>3. flagged' \subseteq Blocks /\ held' \subseteq Blocks
    BY <1>1, <1>3 DEF TypeOK
  <2> QED
    BY <1>1, <1>2, <2>1, <2>2, <2>3 DEF TypeOK, poolVars, listVars, getVars
<1>12. Locals' /\ Chain'
  BY <1>1, <1>2, <1>10, LinksKept DEF listVars, Chain
<1>13. OneThread'
  <2>1. CASE zero
    <3>1. \A u \in Threads : pc[u] \in AddPoints => node[u] # n
      BY <1>3, <1>5, NoAdder DEF OnePlace
    <3> QED
      BY <1>1, <1>2, <1>6, <2>1, <3>1, AdderJoins
  <2>2. CASE ~zero
    <3>1. pc'[t] = "idle"
      BY <1>6, <2>2
    <3> QED
      BY <1>1, <1>2, <3>1, OneThreadKept DEF AddPoints
  <2> QED
    BY <2>1, <2>2
<1> QED
  BY <1>8, <1>9, <1>11, <1>12, <1>13 DEF Inv

LEMMA Prepended ==
  ASSUME NEW S, NEW s \in Seq(S), NEW x \in S, NEW q, q = <<x>> \o s
  PROVE  /\ q \in Seq(S) /\ q # <<>> /\ Len(q) = Len(s) + 1 /\ q[1] = x
         /\ \A i \in 2 .. Len(q) : q[i] = s[i - 1]
BY ConcatProperties

LEMMA Shortened ==
  ASSUME NEW S, NEW s \in Seq(S), s # <<>>, NEW q, q = SubSeq(s, 2, Len(s))
  PROVE  /\ q \in Seq(S) /\ Len(q) = Len(s) - 1
         /\ q = <<>> <=> Len(s) = 1
         /\ \A i \in 1 .. Len(q) : q[i] = s[i + 1]
<1>1. q = Tail(s)
  BY TailIsSubSeq
<1>2. /\ q \in Seq(S) /\ Len(q) = Len(s) - 1
      /\ \A i \in 1 .. Len(s) - 1 : q[i] = s[i + 1]
  BY <1>1, HeadTailProperties
<1>3. q = <<>> <=> Len(q) = 0
  BY <1>2, EmptySeq
<1>4. Len(q) = 0 <=> Len(s) = 1
  BY <1>2
<1> QED
  BY <1>2, <1>3, <1>4

LEMMA PushStep ==
  ASSUME Inv, NEW t \in Threads, Push(t)
  PROVE  Inv'
<1> USE DEF Goto
<1>1. TypeOK /\ Locals /\ LocalsOf(t) /\ Chain /\ OneThread
  BY DEF Inv, Locals
<1>2. UNCHANGED <<poolVars, freeListNext, countVars, held, getVars>> /\ OthersStill(t)
  BY <1>1 DEF Push, OthersStill, Still, getVars, TypeOK
<1>3. PICK n \in Blocks : n = node[t] /\ pc[t] = "push"
  BY <1>1 DEF Push, LocalsOf, AddPoints
<1>4. CASE freeListHead # top[t]
  <2>1. /\ pc' = [pc EXCEPT ![t] = "retract"]
        /\ top' = [top EXCEPT ![t] = freeListHead]
        /\ UNCHANGED <<freeListHead, list, node>>
    BY <1>4 DEF Push
  <2>2. \A m : SameUser(t, m) /\ SameAdder(t, m)
    BY <1>1, <1>2, <1>3, <2>1 DEF SameAdder, SameUser, Before, After, Taking, Users,
       TypeOK, getVars
  <2>3. \A m \in Blocks : OnePlace(m)' /\ FlaggedZero(m)' /\ Balanced(m)'
    <3>1. \A m : SamePlace(m)
      BY <1>2, <2>1 DEF SamePlace, OnList, HandedOut, poolVars, countVars
    <3> QED
      BY <1>2, <2>2, <3>1, BlockKept DEF countVars
  <2>4. LocalsOf(t)'
    BY <1>1, <1>2, <1>3, <2>1 DEF LocalsOf, TypeOK, AddPoints, getVars
  <2>5. TypeOK'
    BY <1>1, <1>2, <2>1 DEF TypeOK, AddPoints, poolVars, countVars, getVars
  <2>6. Locals' /\ Chain'
    BY <1>1, <1>2, <2>1, <2>4, LinksKept DEF Chain
  <2>7. OneThread'
    <3>1. pc'[t] = "retract" /\ node'[t] = node[t]
      BY <1>1, <2>1 DEF TypeOK
    <3> QED
      BY <1>1, <1>2, <1>3, <3>1, OneThreadKept DEF AddPoints
  <2> QED
    BY <2>3, <2>5, <2>6, <2>7 DEF Inv
<1>5. CASE freeListHead = top[t]
  <2>1. /\ pc' = [pc EXCEPT ![t] = Done(t)]
        /\ freeListHead' = n /\ list' = <<n>> \o list
        /\ node' = [node EXCEPT ![t] = Null]
        /\ top' = [top EXCEPT ![t] = Null]
    BY <1>3, <1>5 DEF Push
  <2>2. /\ pc'[t] \in {"idle", "create", "load refs"}
        /\ pc'[t] = "load refs" => head[t] # Null
    BY <1>1, <2>1 DEF TypeOK, Done, LookAt
  <2>3. /\ list' \in Seq(Blocks) /\ list' # <<>>
        /\ Len(list) \in Nat /\ Len(list') = Len(list) + 1 /\ list'[1] = n
        /\ \A i \in 2 .. Len(list') : list'[i] = list[i - 1]
    BY <1>1, <2>1, Prepended DEF TypeOK
  <2>4. \A m : (m \in OnList' <=> m \in OnList \/ m = n)
    <3>1. OnList' = {list'[i] : i \in 1 .. Len(list')}
      BY DEF OnList
    <3>2. ASSUME NEW m, m \in OnList PROVE m \in OnList'
      <4>1. PICK i \in 1 .. Len(list) : m = list[i]
        BY <3>2 DEF OnList
      <4>2. i + 1 \in 2 .. Len(list') /\ list'[i + 1] = m
        BY <2>3, <4>1
      <4> QED
        BY <2>3, <3>1, <4>2
    <3>3. n \in OnList'
      BY <2>3, <3>1
    <3>4. ASSUME NEW m, m \in OnList', m # n PROVE m \in OnList
      <4>1. PICK i \in 1 .. Len(list') : m = list'[i]
        BY <3>1, <3>4
      <4>2. i \in 2 .. Len(list') /\ i - 1 \in 1 .. Len(list) /\ m = list[i - 1]
        BY <2>3, <3>4, <4>1
      <4> QED
        BY <4>2 DEF OnList
    <3> QED
      BY <3>2, <3>3, <3>4
  <2>5. \A m : SameUser(t, m) /\ (m # n => SameAdder(t, m))
    BY <1>1, <1>2, <1>3, <2>2 DEF SameAdder, SameUser, Before, After, Taking, Users,
       getVars
  <2>6. \A m \in Blocks \ {n} : OnePlace(m)' /\ FlaggedZero(m)' /\ Balanced(m)'
    <3>1. \A m \in Blocks \ {n} : SamePlace(m)
      BY <1>2, <2>4 DEF SamePlace, HandedOut, poolVars, countVars
    <3> QED
      BY <1>2, <2>5, <3>1, BlockKept DEF countVars
  <2>7. OnePlace(n) /\ FlaggedZero(n) /\ Balanced(n) /\ Added(n)
    BY <1>3 DEF Inv, Added, After
  <2>8. /\ n \notin held /\ n \notin flagged /\ n \notin OnList
        /\ ~Taken(n) /\ HandedOut(n)
    BY <2>7 DEF OnePlace
  <2>9. OnePlace(n)' /\ FlaggedZero(n)' /\ Balanced(n)'
    <3>1. Users(n)' = Users(n) /\ (Taken(n)' <=> Taken(n))
      BY <1>2, <2>5, UsersKept
    <3>2. ~Added(n)' /\ ~(\E u \in Threads : Before(u, n)')
      <4>1. ~After(t, n)' /\ ~Before(t, n)'
        BY <2>2 DEF After, Before
      <4>2. \A u \in Threads \ {t} : ~After(u, n)' /\ ~Before(u, n)'
        BY <1>1, <1>2, <1>3, OnlyAdder DEF AddPoints
      <4> QED
        BY <4>1, <4>2 DEF Added
    <3>3. n \notin flagged' /\ n \notin held' /\ n \in OnList' /\ HandedOut(n)'
      BY <1>2, <2>4, <2>8 DEF HandedOut, poolVars, countVars
    <3>4. OnePlace(n)' /\ FlaggedZero(n)'
      BY <2>8, <3>1, <3>2, <3>3 DEF OnePlace, FlaggedZero
    <3>5. ListRef(n) = 1 /\ ListRef(n)' = 1
      BY <2>7, <3>3, ListRefCases DEF ListRef
    <3> QED
      BY <1>2, <2>7, <3>1, <3>4, <3>5 DEF Balanced, countVars
  <2>10. LocalsOf(t)'
    BY <1>1, <1>2, <2>2 DEF LocalsOf, TypeOK, AddPoints, BlockOrNull, getVars
  <2>11. TypeOK'
    <3>1. pc' \in [Threads -> {"idle", "pool"} \cup GetPoints \cup AddPoints]
      BY <1>1, <2>1 DEF TypeOK, GetPoints, AddPoints, Done, LookAt
    <3> QED
      BY <1>1, <1>2, <2>1, <2>3, <3>1 DEF TypeOK, poolVars, countVars, getVars, BlockOrNull
  <2>12. Locals'
    BY <1>1, <1>2, <2>10, LinksKept
  <2>13. Chain'
    <3>1. freeListNext'[n] = IF Len(list') = 1 THEN Null ELSE list'[2]
      <4>1. freeListNext[n] = freeListHead
        BY <1>1, <1>3, <1>5 DEF LocalsOf
      <4>2. freeListHead = IF list = <<>> THEN Null ELSE list[1]
        BY <1>1 DEF Chain
      <4>3. list = <<>> <=> Len(list) = 0
        BY <1>1 DEF TypeOK
      <4> QED
        BY <1>2, <2>3, <4>1, <4>2, <4>3
    <3>2. \A i \in 2 .. Len(list') :
            freeListNext'[list'[i]] = IF i = Len(list') THEN Null ELSE list'[i + 1]
      <4> SUFFICES ASSUME NEW i \in 2 .. Len(list')
                   PROVE  freeListNext'[list'[i]]
                            = IF i = Len(list') THEN Null ELSE list'[i + 1]
        OBVIOUS
      <4>1. i - 1 \in 1 .. Len(list) /\ list'[i] = list[i - 1]
        BY <2>3
      <4>2. freeListNext[list[i - 1]] = IF i - 1 = Len(list) THEN Null ELSE list[(i - 1) + 1]
        BY <1>1, <4>1 DEF Chain
      <4>3. i # Len(list') => list'[i + 1] = list[(i - 1) + 1]
        <5>1. /\ (i + 1) - 1 = (i - 1) + 1
              /\ i # Len(list') => i + 1 \in 2 .. Len(list')
          BY <2>3
        <5> QED
          BY <2>3, <5>1
      <4> QED
        BY <1>2, <2>3, <4>1, <4>2, <4>3
    <3>3. \A i \in 2 .. Len(list') : list'[i] # n
      BY <2>3, <2>8 DEF OnList
    <3>4. \A i, j \in 1 .. Len(list') : list'[i] = list'[j] => i = j
      <4> SUFFICES ASSUME NEW i \in 1 .. Len(list'), NEW j \in 1 .. Len(list'),
                          list'[i] = list'[j]
                   PROVE  i = j
        OBVIOUS
      <4>1. CASE i = 1 \/ j = 1
        BY <2>3, <3>3, <4>1
      <4>2. CASE i # 1 /\ j # 1
        <5>1. /\ i \in 2 .. Len(list') /\ i - 1 \in 1 .. Len(list)
              /\ j \in 2 .. Len(list') /\ j - 1 \in 1 .. Len(list)
          BY <2>3, <4>2
        <5>2. list[i - 1] = list[j - 1]
          BY <2>3, <5>1
        <5>3. i - 1 = j - 1
          BY <1>1, <5>1, <5>2 DEF Chain
        <5> QED
          BY <5>1, <5>3
      <4> QED
        BY <4>1, <4>2
    <3>5. \A i \in 1 .. Len(list') :
            freeListNext'[list'[i]] = IF i = Len(list') THEN Null ELSE list'[i + 1]
      BY <2>3, <3>1, <3>2
    <3> QED
      BY <2>1, <2>3, <3>4, <3>5 DEF Chain
  <2>14. OneThread'
    BY <1>1, <1>2, <2>2, OneThreadKept DEF AddPoints
  <2> QED
    BY <2>6, <2>9, <2>11, <2>12, <2>13, <2>14 DEF Inv
<1> QED
  BY <1>4, <1>5

LEMMA PopStep ==
  ASSUME Inv, NEW t \in Threads, Pop(t)
  PROVE  Inv'
<1> USE DEF Goto
<1>1. TypeOK /\ Locals /\ LocalsOf(t) /\ Chain /\ OneThread
  BY DEF Inv, Locals
<1>2. UNCHANGED <<poolVars, freeListNext, countVars, held, getting, refs, addVars>>
        /\ OthersStill(t)
  BY <1>1 DEF Pop, OthersStill, Still, addVars, TypeOK
<1>3. PICK n \in Blocks : n = head[t] /\ pc[t] = "pop" /\ next' = [next EXCEPT ![t] = Null]
  BY <1>1 DEF Pop, LocalsOf
<1>4. CASE freeListHead # head[t]
  <2>1. /\ pc' = [pc EXCEPT ![t] = "release"]
        /\ prevHead' = [prevHead EXCEPT ![t] = n]
        /\ head' = [head EXCEPT ![t] = freeListHead]
        /\ UNCHANGED <<freeListHead, list>>
    BY <1>3, <1>4 DEF Pop
  <2>2. \A m : SameUser(t, m) /\ SameAdder(t, m)
    BY <1>1, <1>2, <1>3, <2>1 DEF SameAdder, SameUser, Before, After, Taking, Users,
       TypeOK, addVars
  <2>3. \A m \in Blocks : OnePlace(m)' /\ FlaggedZero(m)' /\ Balanced(m)'
    <3>1. \A m : SamePlace(m)
      BY <1>2, <2>1 DEF SamePlace, OnList, HandedOut, poolVars, countVars
    <3> QED
      BY <1>2, <2>2, <3>1, BlockKept DEF countVars
  <2>4. LocalsOf(t)'
    BY <1>1, <1>3, <2>1 DEF LocalsOf, TypeOK, AddPoints
  <2>5. TypeOK'
    BY <1>1, <1>2, <1>3, <2>1 DEF TypeOK, GetPoints, poolVars, countVars, addVars,
       BlockOrNull
  <2>6. Locals' /\ Chain'
    BY <1>1, <1>2, <2>1, <2>4, LinksKept DEF Chain
  <2>7. OneThread'
    <3>1. pc'[t] = "release"
      BY <1>1, <2>1 DEF TypeOK
    <3> QED
      BY <1>1, <1>2, <3>1, OneThreadKept DEF AddPoints
  <2> QED
    BY <2>3, <2>5, <2>6, <2>7 DEF Inv
<1>5. CASE freeListHead = head[t]
  <2>1. /\ pc' = [pc EXCEPT ![t] = "take"]
        /\ freeListHead' = next[t]
        /\ list' = SubSeq(list, 2, Len(list))
        /\ UNCHANGED <<head, prevHead>>
    BY <1>5 DEF Pop
  <2>2. /\ list # <<>> /\ list[1] = n
        /\ Len(list) \in Nat /\ Len(list) > 0
    BY <1>1, <1>3, <1>5, NullIsNoBlock DEF Chain, TypeOK
  <2>3. /\ list' \in Seq(Blocks) /\ Len(list') = Len(list) - 1
        /\ list' = <<>> <=> Len(list) = 1
        /\ \A i \in 1 .. Len(list') : list'[i] = list[i + 1]
    <3>1. list \in Seq(Blocks)
      BY <1>1 DEF TypeOK
    <3> QED
      BY <2>1, <2>2, <3>1, Shortened
  <2>4. \A i \in 1 .. Len(list') : i + 1 \in 2 .. Len(list)
    BY <2>2, <2>3
  <2>5. \A m : (m \in OnList' <=> m \in OnList /\ m # n)
    <3>1. OnList' = {list'[i] : i \in 1 .. Len(list')}
      BY DEF OnList
    <3>2. ASSUME NEW m, m \in OnList, m # n PROVE m \in OnList'
      <4>1. PICK i \in 1 .. Len(list) : m = list[i]
        BY <3>2 DEF OnList
      <4>2. i - 1 \in 1 .. Len(list') /\ (i - 1) + 1 = i
        BY <2>2, <2>3, <3>2, <4>1
      <4>3. list'[i - 1] = m
        BY <2>3, <4>1, <4>2
      <4> QED
        BY <3>1, <4>2, <4>3
    <3>3. ASSUME NEW m, m \in OnList' PROVE m \in OnList /\ m # n
      <4>1. PICK i \in 1 .. Len(list') : m = list'[i]
        BY <3>1, <3>3
      <4>2. m = list[i + 1] /\ i + 1 \in 1 .. Len(list) /\ i + 1 # 1 /\ 1 \in 1 .. Len(list)
        BY <2>2, <2>3, <2>4, <4>1
      <4>3. m # n
        BY <1>1, <2>2, <4>2 DEF Chain
      <4> QED
        BY <4>2, <4>3 DEF OnList
    <3> QED
      BY <3>2, <3>3
  <2>6. /\ \A m : SameAdder(t, m) /\ (m # n => SameUser(t, m))
        /\ t \in Users(n) /\ t \in Users(n)' /\ Taking(t, n)'
    BY <1>1, <1>2, <1>3, <2>1 DEF SameAdder, SameUser, Before, After, Taking, Users,
       TypeOK, addVars
  <2>7. \A m \in Blocks \ {n} : OnePlace(m)' /\ FlaggedZero(m)' /\ Balanced(m)'
    <3>1. \A m \in Blocks \ {n} : SamePlace(m)
      BY <1>2, <2>5 DEF SamePlace, HandedOut, poolVars, countVars
    <3> QED
      BY <1>2, <2>6, <3>1, BlockKept DEF countVars
  <2>8. OnePlace(n) /\ FlaggedZero(n) /\ Balanced(n) /\ n \in OnList
    BY <2>2 DEF Inv, OnList
  <2>9. /\ n \notin held /\ n \notin flagged /\ ~Added(n) /\ ~Taken(n) /\ HandedOut(n)
    BY <2>8 DEF OnePlace
  <2>10. OnePlace(n)' /\ FlaggedZero(n)' /\ Balanced(n)'
    <3>1. Users(n)' = Users(n)
      <4>1. \A u \in Threads \ {t} : SameUser(u, n)
        BY <1>2, StillSame DEF OthersStill
      <4>2. t \in Users(n)' <=> t \in Users(n)
        BY <2>6
      <4>3. \A u \in Threads : u \in Users(n)' <=> u \in Users(n)
        BY <4>1, <4>2 DEF SameUser
      <4> QED
        BY <4>3, SameUsers
    <3>2. /\ Taken(n)'
          /\ Added(n)' <=> Added(n)
          /\ (\E u \in Threads : Before(u, n)') <=> \E u \in Threads : Before(u, n)
      BY <1>2, <2>6, AddersKept DEF Taken
    <3>3. n \notin flagged' /\ n \notin held' /\ n \notin OnList' /\ HandedOut(n)'
      BY <1>2, <2>5, <2>9 DEF HandedOut, poolVars, countVars
    <3>4. OnePlace(n)' /\ FlaggedZero(n)'
      BY <1>2, <2>8, <2>9, <3>2, <3>3 DEF OnePlace, FlaggedZero, countVars
    <3>5. ListRef(n) = 1 /\ ListRef(n)' = 1
      BY <2>8, <3>2 DEF ListRef, Taken, Taking
    <3> QED
      BY <1>2, <2>8, <3>1, <3>4, <3>5 DEF Balanced, countVars
  <2>11. LocalsOf(t)'
    BY <1>1, <1>3, <2>1 DEF LocalsOf, TypeOK, AddPoints
  <2>12. TypeOK'
    <3>1. /\ freeListHead' \in BlockOrNull /\ next' \in [Threads -> BlockOrNull]
          /\ pc' \in [Threads -> {"idle", "pool"} \cup GetPoints \cup AddPoints]
      BY <1>1, <1>3, <2>1 DEF TypeOK, GetPoints, BlockOrNull
    <3> QED
      BY <1>1, <1>2, <2>1, <2>3, <3>1 DEF TypeOK, poolVars, countVars, addVars
  <2>13. Locals'
    BY <1>1, <1>2, <2>11, LinksKept
  <2>14. Chain'
    <3>1. freeListHead' = IF list' = <<>> THEN Null ELSE list'[1]
      <4>1. freeListHead' = IF 1 = Len(list) THEN Null ELSE list[1 + 1]
        <5>1. freeListHead' = freeListNext[list[1]]
          BY <1>1, <1>3, <2>1, <2>2 DEF LocalsOf
        <5>2. freeListNext[list[1]] = IF 1 = Len(list) THEN Null ELSE list[1 + 1]
          BY <1>1, <2>2 DEF Chain
        <5> QED
          BY <5>1, <5>2
      <4> QED
        BY <2>2, <2>3, <4>1
    <3>2. \A i \in 1 .. Len(list') :
            freeListNext'[list'[i]] = IF i = Len(list') THEN Null ELSE list'[i + 1]
      <4> SUFFICES ASSUME NEW i \in 1 .. Len(list')
                   PROVE  freeListNext'[list'[i]]
                            = IF i = Len(list') THEN Null ELSE list'[i + 1]
        OBVIOUS
      <4>1. i + 1 \in 1 .. Len(list) /\ list'[i] = list[i + 1]
        BY <2>2, <2>3, <2>4
      <4>2. freeListNext[list[i + 1]] = IF i + 1 = Len(list) THEN Null ELSE list[(i + 1) + 1]
        BY <1>1, <4>1 DEF Chain
      <4>3. i # Len(list') => list'[i + 1] = list[(i + 1) + 1]
        <5>1. i # Len(list') => i + 1 \in 1 .. Len(list')
          BY <2>2, <2>3
        <5> QED
          BY <2>3, <5>1
      <4>4. i = Len(list') <=> i + 1 = Len(list)
        BY <2>2, <2>3
      <4> QED
        BY <1>2, <4>1, <4>2, <4>3, <4>4
    <3>3. \A i, j \in 1 .. Len(list') : list'[i] = list'[j] => i = j
      <4> SUFFICES ASSUME NEW i \in 1 .. Len(list'), NEW j \in 1 .. Len(list'),
                          list'[i] = list'[j]
                   PROVE  i = j
        OBVIOUS
      <4>1. i + 1 \in 1 .. Len(list) /\ j + 1 \in 1 .. Len(list) /\ list[i + 1] = list[j + 1]
        BY <2>2, <2>3, <2>4
      <4>2. i + 1 = j + 1
        BY <1>1, <4>1 DEF Chain
      <4> QED
        BY <4>2
    <3> QED
      BY <3>1, <3>2, <3>3 DEF Chain
  <2>15. OneThread'
    <3>1. \A u \in Threads \ {t} : ~(pc'[u] = "take" /\ head'[u] = n)
      BY <1>2, <2>9 DEF Taken, Taking, OthersStill, Still
    <3>2. pc'[t] = "take" /\ head'[t] = n
      BY <1>1, <1>3, <2>1 DEF TypeOK
    <3> SUFFICES ASSUME NEW u \in Threads, NEW v \in Threads
                 PROVE  /\ pc'[u] \in AddPoints /\ pc'[v] \in AddPoints
                              /\ node'[u] = node'[v] => u = v
                        /\ pc'[u] = "take" /\ pc'[v] = "take"
                              /\ head'[u] = head'[v] => u = v
      BY DEF OneThread
    <3>3. CASE u = t \/ v = t
      BY <3>1, <3>2, <3>3 DEF AddPoints
    <3>4. CASE u # t /\ v # t
      BY <1>1, <1>2, <3>4 DEF OneThread, OthersStill, Still
    <3> QED
      BY <3>3, <3>4
  <2> QED
    BY <2>7, <2>10, <2>12, <2>13, <2>14, <2>15 DEF Inv
<1> QED
  BY <1>4, <1>5

LEMMA InvInit == Init => Inv
<1> SUFFICES ASSUME Init PROVE Inv
  OBVIOUS
<1> USE DEF Init
<1>1. TypeOK
  BY SizesAreNat DEF TypeOK, BlockOrNull, NoRefs
<1>2. Chain
  BY DEF Chain
<1>3. Locals
  BY DEF Locals, LocalsOf, AddPoints
<1>4. OneThread
  BY DEF OneThread, AddPoints
<1>5. ASSUME NEW n \in Blocks PROVE OnePlace(n) /\ FlaggedZero(n) /\ Balanced(n)
  <2>1. /\ OnList = {} /\ Users(n) = {}
        /\ \A t \in Threads : ~Before(t, n) /\ ~After(t, n) /\ ~Taking(t, n)
    <3>1. list = <<>> /\ 1 .. Len(list) = {}
      OBVIOUS
    <3>2. OnList = {}
      BY <3>1 DEF OnList
    <3>3. \A t \in Threads : pc[t] = "idle"
      OBVIOUS
    <3> QED
      BY <3>2, <3>3 DEF Users, Before, After, Taking
  <2>2. ~HandedOut(n)
    BY SizesAreNat DEF HandedOut, Blocks
  <2>3. OnePlace(n) /\ FlaggedZero(n)
    BY <2>1, <2>2 DEF OnePlace, FlaggedZero, Added, Taken
  <2>4. Cardinality(Users(n)) = 0 /\ ListRef(n) = 0
    BY <2>1, FS_EmptySet DEF ListRef, Taking, After
  <2> QED
    BY <2>3, <2>4 DEF Balanced
<1> QED
  BY <1>1, <1>2, <1>3, <1>4, <1>5 DEF Inv

LEMMA InvStutter == Inv /\ UNCHANGED vars => Inv'
<1> SUFFICES ASSUME Inv, UNCHANGED vars PROVE Inv'
  OBVIOUS
<1> USE DEF vars, poolVars, listVars, countVars, getVars, addVars
<1>1. TypeOK' /\ Chain' /\ Locals' /\ OneThread'
  BY DEF Inv, TypeOK, Chain, Locals, LocalsOf, OneThread
<1>2. ASSUME NEW n \in Blocks PROVE OnePlace(n)' /\ FlaggedZero(n)' /\ Balanced(n)'
  <2>1. \A t \in Threads : SameAdder(t, n) /\ SameUser(t, n)
    BY DEF SameAdder, SameUser, Before, After, Taking, Users
  <2>2. /\ Added(n)' <=> Added(n)
        /\ Taken(n)' <=> Taken(n)
        /\ (\E u \in Threads : Before(u, n)') <=> \E u \in Threads : Before(u, n)
    BY <2>1 DEF SameAdder, SameUser, Added, Taken
  <2>3. Users(n)' = Users(n)
    BY <2>1, SameUsers DEF SameUser
  <2>4. ListRef(n)' = ListRef(n) /\ (HandedOut(n)' <=> HandedOut(n)) /\ OnList' = OnList
    BY DEF ListRef, HandedOut, OnList
  <2> QED
    BY <2>2, <2>3, <2>4 DEF Inv, OnePlace, FlaggedZero, Balanced
<1> QED
  BY <1>1, <1>2 DEF Inv

LEMMA InvNext == Inv /\ [Next]_vars => Inv'
BY InvStutter, LookStep, LinkStep, AcquireStep, FreshStep, ExposeStep, RetractStep,
   TakeStep, ReleaseStep, AddStep, PushStep, PopStep, SMTT(30)
DEF Next, Call, GoOn, TryGet, AddNode

(* The inductive invariant holds throughout.                               *)
LEMMA Invariance == Spec => []Inv
  BY InvInit, InvNext, PTL DEF Spec

--------------------------------------------------------------------------------
(* Every variable keeps its type, for any number of threads and blocks: no *)
(* count is ever negative, none goes beyond the initial pool.              *)
THEOREM TypeCorrect == Spec => []TypeOK
<1>1. Inv => TypeOK
  BY DEF Inv
<1> QED
  BY <1>1, Invariance, PTL

(* The reference counts of the free list are exact, for any threads.       *)
THEOREM RefsAlwaysBalance == Spec => []RefsBalance
<1>1. Inv => RefsBalance
  BY DEF Inv, Balanced, RefsBalance
<1> QED
  BY <1>1, Invariance, PTL

(* When no call is under way, each block that was handed out is with a     *)
(* stream or on the list: what a thread was to add late has been added.    *)
THEOREM NeverLost == Spec => []NoneLost
<1>1. Inv => NoneLost
  <2> SUFFICES ASSUME Inv, \A t \in Threads : pc[t] = "idle"
               PROVE  {n \in Blocks : HandedOut(n)} = held \cup OnList /\ held \cap OnList = {}
    BY DEF NoneLost
  <2>1. held \subseteq Blocks /\ OnList \subseteq Blocks
    BY DEF Inv, TypeOK, OnList
  <2>2. ASSUME NEW n \in Blocks PROVE ~Added(n) /\ ~Taken(n) /\ n \notin flagged
    <3>1. /\ ~Added(n) /\ ~Taken(n) /\ ~(\E t \in Threads : Before(t, n))
          /\ Users(n) = {}
      BY DEF Added, Taken, Before, After, Taking, Users
    <3>2. OnePlace(n) /\ FlaggedZero(n) /\ Balanced(n)
      BY DEF Inv
    <3>3. n \in flagged => ListRef(n) = 0
      BY <3>1, <3>2, ListRefCases DEF OnePlace
    <3>4. n \in flagged => freeListRefs[n] = 0
      BY <3>1, <3>2, <3>3, FS_EmptySet DEF Balanced
    <3> QED
      BY <3>1, <3>2, <3>4 DEF FlaggedZero
  <2>3. \A n \in Blocks : /\ HandedOut(n) <=> n \in held \/ n \in OnList
                          /\ ~(n \in held /\ n \in OnList)
    BY <2>2 DEF Inv, OnePlace
  <2> QED
    BY <2>1, <2>3
<1> QED
  BY <1>1, Invariance, PTL

--------------------------------------------------------------------------------
LEMMA InUseCases ==
  ASSUME Inv, NEW n \in Blocks
  PROVE  n \in Ledger!InUse <=> n \in held \/ Taken(n)
BY NullIsNoBlock DEF Ledger!InUse, hand, Taken, Taking

LEMMA LedgerInit == Init => Ledger!Init
BY DEF Init, Ledger!Init, hand

LEMMA LedgerStep == Inv /\ [Next]_vars => [Ledger!Next]_(Ledger!ledgerVars)
<1> SUFFICES ASSUME Inv, [Next]_vars
             PROVE  Ledger!Next \/ UNCHANGED Ledger!ledgerVars
  OBVIOUS
<1>1. TypeOK /\ Locals
  BY DEF Inv
<1>2. CASE UNCHANGED vars
  BY <1>2 DEF vars, getVars, Ledger!ledgerVars, hand
<1>3. ASSUME NEW t \in Threads, TakeFromPool(t) \/ Create(t)
      PROVE  Ledger!Next \/ UNCHANGED Ledger!ledgerVars
  <2>1. UNCHANGED hand
    BY <1>1, <1>3 DEF TakeFromPool, Create, Goto, hand, TypeOK
  <2>2. CASE UNCHANGED held
    BY <2>1, <2>2 DEF Ledger!ledgerVars
  <2>3. ASSUME NEW n \in Blocks, ~HandedOut(n), held' = held \cup {n}
        PROVE  Ledger!Next
    <3>1. n \notin Ledger!InUse
      BY <2>3, InUseCases DEF Inv, OnePlace
    <3>2. Ledger!Fresh(n)
      BY <2>1, <2>3, <3>1 DEF Ledger!Fresh
    <3> QED
      BY <3>2 DEF Ledger!Next
  <2>4. \/ UNCHANGED held
        \/ held' = held \cup {initialBlockPoolIndex}
              /\ initialBlockPoolIndex < InitialPoolSize
        \/ held' = held \cup {created} /\ created < MaxBlocks
    BY <1>3 DEF TakeFromPool, Create
  <2>5. CASE held' = held \cup {initialBlockPoolIndex} /\ initialBlockPoolIndex < InitialPoolSize
    <3>1. initialBlockPoolIndex \in Blocks /\ ~HandedOut(initialBlockPoolIndex)
      BY <1>1, <2>5, SizesAreNat DEF TypeOK, Blocks, HandedOut
    <3> QED
      BY <2>3, <2>5, <3>1
  <2>6. CASE held' = held \cup {created} /\ created < MaxBlocks
    <3>1. created \in Blocks /\ ~HandedOut(created)
      BY <1>1, <2>6, SizesAreNat DEF TypeOK, Blocks, HandedOut
    <3> QED
      BY <2>3, <2>6, <3>1
  <2> QED
    BY <2>2, <2>4, <2>5, <2>6
<1>4. ASSUME NEW t \in Threads, Pop(t), freeListHead = head[t]
      PROVE  Ledger!Next
  <2>1. PICK n \in Blocks : n = head[t]
    BY <1>1, <1>4 DEF Pop, Goto, Locals, LocalsOf
  <2>2. pc[t] = "pop" /\ pc' = [pc EXCEPT ![t] = "take"] /\ UNCHANGED <<head, held>>
    BY <1>4 DEF Pop, Goto
  <2>3. n \notin Ledger!InUse
    <3>1. n \in OnList
      BY <1>1, <1>4, <2>1, NullIsNoBlock DEF Inv, Chain, TypeOK, OnList
    <3> QED
      BY <3>1, InUseCases DEF Inv, OnePlace
  <2>4. Ledger!Take(t, n)
    BY <1>1, <2>1, <2>2, <2>3 DEF Ledger!Take, hand, TypeOK
  <2> QED
    BY <2>4 DEF Ledger!Next
<1>5. ASSUME NEW t \in Threads, Take(t)
      PROVE  Ledger!Next
  <2>1. /\ pc[t] = "take" /\ head[t] \in Blocks
        /\ pc' = [pc EXCEPT ![t] = "idle"]
        /\ head' = [head EXCEPT ![t] = Null]
        /\ held' = held \cup {head[t]}
    BY <1>1, <1>5 DEF Take, Goto, Locals, LocalsOf
  <2>2. Ledger!Deliver(t)
    BY <1>1, <2>1, NullIsNoBlock DEF Ledger!Deliver, hand, TypeOK
  <2> QED
    BY <2>2 DEF Ledger!Next
<1>6. ASSUME NEW t \in Threads, NEW n \in Blocks, Add(t, n)
      PROVE  Ledger!Next
  <2>1. UNCHANGED hand
    BY <1>1, <1>6 DEF Add, Goto, getVars, hand, TypeOK
  <2>2. Ledger!GiveBack(n)
    BY <1>6, <2>1 DEF Ledger!GiveBack, Add
  <2> QED
    BY <2>2 DEF Ledger!Next
<1>7. ASSUME NEW t \in Threads,
             \/ Requisition(t) \/ LoadHead(t) \/ LoadRefs(t) \/ Acquire(t)
             \/ LoadNext(t) \/ Release(t) \/ (Pop(t) /\ freeListHead # head[t])
      PROVE  UNCHANGED Ledger!ledgerVars
  <2>1. pc[t] # "take" /\ pc'[t] # "take" /\ UNCHANGED held
    BY <1>1, <1>7 DEF TypeOK, Goto, LookAt, Requisition, LoadHead, LoadRefs, Acquire,
       LoadNext, Release, Pop
  <2>2. \A u \in Threads \ {t} : pc'[u] = pc[u] /\ head'[u] = head[u]
    BY <1>1, <1>7 DEF TypeOK, Goto, Requisition, LoadHead, LoadRefs, Acquire, LoadNext,
       Release, Pop
  <2> QED
    BY <2>1, <2>2 DEF Ledger!ledgerVars, hand
<1>8. ASSUME NEW t \in Threads, AddNode(t)
      PROVE  UNCHANGED Ledger!ledgerVars
  <2>1. pc[t] # "take" /\ pc'[t] # "take" /\ UNCHANGED <<held, head>>
    BY <1>1, <1>8 DEF TypeOK, Goto, LookAt, Done, getVars, AddNode, LoadTop, Link, Expose,
       Push, Retract
  <2>2. \A u \in Threads \ {t} : pc'[u] = pc[u]
    BY <1>1, <1>8 DEF TypeOK, Goto, AddNode, LoadTop, Link, Expose, Push, Retract
  <2> QED
    BY <2>1, <2>2 DEF Ledger!ledgerVars, hand
<1> QED
  BY <1>2, <1>3, <1>4, <1>5, <1>6, <1>7, <1>8 DEF Next, Call, GoOn, TryGet

(* The pool of blocks never hands out a block that somebody still has.     *)
THEOREM ImplementsLedger == Spec => LedgerSpec
<1> QED
  BY Invariance, LedgerInit, LedgerStep, PTL DEF Spec, LedgerSpec, Ledger!Spec

================================================================================
