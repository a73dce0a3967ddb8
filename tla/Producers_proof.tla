------------------------------ MODULE Producers_proof ----------------------------
(***************************************************************************)
(* Proofs about Producers, for any finite set of threads, any hash, any    *)
(* sizes of the tables and any number of producers.                        *)
(***************************************************************************)
EXTENDS Producers, FiniteSetTheorems, SequenceTheorems, TLAPS

--------------------------------------------------------------------------------
(* The tables: each has a slot at least, and a key in one of them leads to *)
(* the producer of the thread.                                             *)
SlotSet == [key : Threads \cup {Empty}, value : Producer \cup {Null}]
TableSet == UNION {[0 .. n - 1 -> SlotSet] : n \in Nat \ {0}}

Tables ==
  /\ implicitProducerHash \in Seq(TableSet) /\ implicitProducerHash # <<>>
  /\ \A h \in DOMAIN implicitProducerHash : \A i \in DOMAIN implicitProducerHash[h] :
       LET s == implicitProducerHash[h][i] IN
         s.key # Empty => s.value \in Created /\ owner[s.value] = s.key

(* Where a thread can be, and what its variables mean there.               *)
Hashing == {"search", "lazy", "count", "resize", "locked", "malloc", "refused",
            "unlockRefused", "unlock", "room", "uncount", "insert"}
Adding == {"create", "list", "link"}
Scanning == {"scan", "catch"}

(* From Count on a thread without a token has counted itself.              *)
HasCount(t) == pc[t] \in (Hashing \ {"search", "lazy", "count"}) \cup Adding

Place(t) ==
  /\ t \in tokenUsers => pc[t] \notin Hashing /\ newCount[t] = 0
  /\ t \notin tokenUsers => pc[t] \notin Scanning /\ token[t] = Null
  /\ t \notin tokenUsers => (HasCount(t) <=> newCount[t] # 0)
  /\ t \notin tokenUsers /\ pc[t] # "idle" => mainHash[t] # 0
  /\ pc[t] = "search" => hash[t] # 0
  /\ t \notin tokenUsers /\ (pc[t] = "count" \/ HasCount(t)) /\ pc[t] # "insert" =>
       index[t] = Hash[t]
  /\ pc[t] = "lazy" => value[t] # Null /\ owner[value[t]] = t
  /\ pc[t] \in {"list", "link", "insert"} =>
       /\ producer[t] # Null
       /\ owner[producer[t]] = IF t \in tokenUsers THEN Empty ELSE t
  /\ pc[t] \in Scanning => producer[t] # Null

Places == \A t \in Threads : Place(t)

(* Producers that are not in the list yet; each has one thread.            *)
Unlinked == {producer[t] : t \in {u \in Threads : pc[u] \in {"list", "link"}}}
Uncounted == {producer[t] : t \in {u \in Threads : pc[u] = "list"}}
Linked == Created \ Unlinked

OneAdds ==
  \A t, u \in Threads :
    pc[t] \in {"list", "link"} /\ pc[u] \in {"list", "link"} /\ producer[t] = producer[u]
      => t = u

(* The list is what is linked.                                             *)
Listed ==
  /\ Created \subseteq Producer
  /\ producerListTail \in Linked \cup {Null}
  /\ LeadsOn(Linked)
  /\ Linked \subseteq Reached
  /\ producerCount = Cardinality(Created \ Uncounted)

(* Nobody is told of a producer before it is linked.                       *)
ToldTo(t) ==
  /\ {token[t], result[t], value[t]} \subseteq Linked \cup {Null}
  /\ pc[t] \in {"insert"} \cup Scanning => producer[t] \in Linked

Told ==
  /\ \A t \in Threads : ToldTo(t)
  /\ inactive \subseteq Linked
  /\ \A h \in DOMAIN implicitProducerHash : \A i \in DOMAIN implicitProducerHash[h] :
       implicitProducerHash[h][i].value \in Linked \cup {Null}

Owns(t) == \E p \in Created : owner[p] = t

(* A producer is for tokens or for a thread.                               *)
Apart ==
  /\ \A p \in inactive : owner[p] = Empty
  /\ \A t \in tokenUsers : ~Owns(t)

(* The probes for t from slot i of table h on meet no free slot, before    *)
(* they meet t if they ever do.                                            *)
Path(t, h, i) ==
  \E P \in SUBSET Nat :
    /\ i \in P
    /\ \A j \in P : Key(h, j) # Empty /\ (Key(h, j) = t \/ Slot(h, j + 1) \in P)

(* The probes of t up to the one it is at met no free slot.                *)
Probed(t) ==
  \E P \in SUBSET Nat :
    /\ Hash[t] \in P \cup {index[t]}
    /\ \A j \in P : Key(mainHash[t], j) # Empty
                    /\ Slot(mainHash[t], j + 1) \in P \cup {index[t]}

(* A thread with a producer is found where it was put ...                  *)
Findable ==
  \A t \in Threads : Owns(t) =>
    \/ pc[t] \in {"list", "link", "insert"}
    \/ \E h \in DOMAIN implicitProducerHash : Path(t, h, Hash[t])

(* ... and a search has not passed that place.                             *)
Search(t) ==
  /\ pc[t] = "search" /\ Owns(t) =>
       \E h \in 1 .. hash[t] : Path(t, h, IF h = hash[t] THEN index[t] ELSE Hash[t])
  /\ pc[t] = "count" \/ (HasCount(t) /\ pc[t] \notin {"list", "link", "insert"}) => ~Owns(t)
  /\ pc[t] = "insert" => Probed(t)

Searches == \A t \in Threads : Search(t)

(* The count of the tables is of those that have, or will have, an entry.  *)
Counts(t) == t \notin tokenUsers /\ HasCount(t) /\ pc[t] # "unlockRefused"
CountedIn == {t \in Threads : Owns(t) \/ Counts(t)}

HashCounted == implicitProducerHashCount = Cardinality(CountedIn)

Inv ==
  /\ TypeOK /\ Tables /\ Places /\ OneAdds /\ Listed /\ Told /\ Apart
  /\ Findable /\ Searches /\ HashCounted /\ OneStreamEach

--------------------------------------------------------------------------------
LEMMA Constants ==
  /\ MaxProducers \in Nat /\ InitialHashSize \in Nat \ {0} /\ MaxHashSize \in Nat \ {0}
  /\ IsFiniteSet(Threads) /\ Empty \notin Threads /\ Hash \in [Threads -> Nat]
BY SizesArePositive, MaxProducersIsNat, ThreadsAreFinite, EmptyIsNoThread,
  HashesAreNat

(* The capacity of a table of n slots is n.                                *)
LEMMA CapacityIs ==
  ASSUME NEW n \in Nat \ {0}
  PROVE  Cardinality(0 .. n - 1) = n
<1>1. 0 \in Int /\ n - 1 \in Int  OBVIOUS
<1>2. Cardinality(0 .. n - 1) = IF 0 > n - 1 THEN 0 ELSE (n - 1) - 0 + 1
  BY <1>1, FS_Interval
<1> QED BY <1>2

LEMMA TableFacts ==
  ASSUME Tables, NEW h \in DOMAIN implicitProducerHash
  PROVE  /\ Capacity(h) \in Nat \ {0}
         /\ implicitProducerHash[h] \in [0 .. Capacity(h) - 1 -> SlotSet]
         /\ DOMAIN implicitProducerHash[h] = 0 .. Capacity(h) - 1
         /\ \A i \in Nat : Slot(h, i) \in 0 .. Capacity(h) - 1
         /\ \A i \in Nat : Slot(h, i) \in Nat
<1>1. PICK n \in Nat \ {0} : implicitProducerHash[h] \in [0 .. n - 1 -> SlotSet]
  BY DEF Tables, TableSet
<1>2. DOMAIN implicitProducerHash[h] = 0 .. n - 1
  BY <1>1
<1>3. Capacity(h) = n
  BY <1>2, CapacityIs DEF Capacity
<1>4. \A i \in Nat : i % n \in 0 .. n - 1
  OBVIOUS
<1> QED BY <1>1, <1>2, <1>3, <1>4 DEF Slot

LEMMA TableSetOK ==
  ASSUME NEW table \in TableSet
  PROVE  TableOK(table)
<1>1. PICK n \in Nat \ {0} : table \in [0 .. n - 1 -> SlotSet]
  BY DEF TableSet
<1>2. DOMAIN table = 0 .. n - 1
  BY <1>1
<1> QED BY <1>1, <1>2, CapacityIs DEF TableOK, SlotSet

LEMMA TablesLen ==
  ASSUME Tables
  PROVE  /\ Len(implicitProducerHash) \in Nat \ {0}
         /\ DOMAIN implicitProducerHash = 1 .. Len(implicitProducerHash)
BY DEF Tables

LEMMA LocalTypes ==
  ASSUME TypeOK, Tables, NEW u \in Threads
  PROVE  /\ mainHash[u] \in 0 .. Len(implicitProducerHash)
         /\ hash[u] \in 0 .. Len(implicitProducerHash)
         /\ mainHash[u] # 0 => mainHash[u] \in DOMAIN implicitProducerHash
         /\ hash[u] # 0 => hash[u] \in DOMAIN implicitProducerHash
         /\ index[u] \in Nat /\ Hash[u] \in Nat
<1>1. /\ mainHash[u] \in 0 .. Len(implicitProducerHash)
      /\ hash[u] \in 0 .. Len(implicitProducerHash)
      /\ index[u] \in Nat
  BY DEF TypeOK
<1> QED BY <1>1, TablesLen, Constants

LEMMA TableIsTable ==
  ASSUME NEW n \in Nat \ {0}
  PROVE  Table(n) \in TableSet
BY DEF Table, TableSet, SlotSet

(* The free slots of the tables are taken one by one, and nothing else     *)
(* happens to them.                                                        *)
Grows ==
  /\ DOMAIN implicitProducerHash \subseteq DOMAIN implicitProducerHash'
  /\ \A h \in DOMAIN implicitProducerHash :
       /\ DOMAIN implicitProducerHash'[h] = DOMAIN implicitProducerHash[h]
       /\ \A i \in DOMAIN implicitProducerHash[h] :
            implicitProducerHash[h][i].key # Empty =>
              implicitProducerHash'[h][i] = implicitProducerHash[h][i]

LEMMA PathStays ==
  ASSUME Tables, Grows, NEW t \in Threads, NEW h \in DOMAIN implicitProducerHash, NEW i \in Nat,
         Path(t, h, i)
  PROVE  Path(t, h, i)'
<1>1. \A j \in Nat : Slot(h, j)' = Slot(h, j)
  BY DEF Grows, Slot, Capacity
<1>2. \A j \in Nat : Key(h, j) # Empty => Key(h, j)' = Key(h, j)
  BY <1>1, TableFacts DEF Grows, Key
<1> QED BY <1>1, <1>2 DEF Path

--------------------------------------------------------------------------------
(* What a step of t does to the others: nothing to their variables.        *)
OthersStay(t) ==
  \A u \in Threads \ {t} :
    /\ pc'[u] = pc[u] /\ mainHash'[u] = mainHash[u] /\ hash'[u] = hash[u]
    /\ index'[u] = index[u] /\ value'[u] = value[u] /\ newCount'[u] = newCount[u]
    /\ producer'[u] = producer[u] /\ result'[u] = result[u] /\ token'[u] = token[u]

LEMMA ProbedSame ==
  ASSUME UNCHANGED implicitProducerHash, NEW u, mainHash'[u] = mainHash[u], index'[u] = index[u]
  PROVE  Probed(u)' <=> Probed(u)
<1>1. \A h, i : Key(h, i)' = Key(h, i) /\ Slot(h, i)' = Slot(h, i)
  BY DEF Key, Slot, Capacity
<1> QED BY <1>1 DEF Probed

(* A step of t that leaves the list and those about to be linked alone.    *)
LEMMA ListStays ==
  ASSUME Inv, NEW t \in Threads, OthersStay(t), UNCHANGED <<listVars, tokenUsers>>,
         pc[t] \notin {"list", "link"}, pc'[t] \notin {"list", "link"}
  PROVE  /\ Linked' = Linked /\ Created' = Created
         /\ Listed' /\ OneAdds' /\ Apart'
         /\ \A u : Owns(u)' <=> Owns(u)
<1>1. Created' = Created
  BY DEF Created, listVars
<1>2. Unlinked' = Unlinked /\ Uncounted' = Uncounted
  BY DEF Unlinked, Uncounted, OthersStay
<1>3. Linked' = Linked
  BY <1>1, <1>2 DEF Linked
<1>4. Reached' = Reached
  BY <1>1 DEF Reached, LeadsOn, listVars
<1>5. Listed'
  BY <1>1, <1>2, <1>3, <1>4 DEF Inv, Listed, LeadsOn, listVars
<1>6. OneAdds'
  BY DEF Inv, OneAdds, OthersStay
<1>7. Apart' /\ \A u : Owns(u)' <=> Owns(u)
  BY <1>1 DEF Inv, Apart, Owns, listVars
<1> QED BY <1>1, <1>3, <1>5, <1>6, <1>7

(* The count is right while nobody comes to count or ceases to.            *)
LEMMA CountStays ==
  ASSUME Inv, NEW t \in Threads, OthersStay(t), UNCHANGED <<implicitProducerHashCount, tokenUsers>>,
         \A u : Owns(u)' <=> Owns(u), Counts(t)' <=> Counts(t)
  PROVE  HashCounted'
<1>1. CountedIn' = CountedIn
  BY DEF CountedIn, Counts, HasCount, OthersStay
<1> QED BY <1>1 DEF Inv, HashCounted

(* t comes to count, or ceases to.                                         *)
LEMMA CountedType ==
  ASSUME Inv
  PROVE  IsFiniteSet(CountedIn) /\ implicitProducerHashCount \in 0 .. Cardinality(Threads)
         /\ Cardinality(Threads) \in Nat
<1>1. CountedIn \subseteq Threads
  BY DEF CountedIn
<1> QED BY <1>1, Constants, FS_Subset, FS_CardinalityType DEF Inv, TypeOK

LEMMA CountComes ==
  ASSUME Inv, NEW t \in Threads, OthersStay(t), UNCHANGED tokenUsers,
         implicitProducerHashCount' = implicitProducerHashCount + 1,
         \A u : Owns(u)' <=> Owns(u), ~Owns(t), ~Counts(t), Counts(t)'
  PROVE  HashCounted' /\ implicitProducerHashCount' \in 1 .. Cardinality(Threads)
<1>1. CountedIn' = CountedIn \cup {t} /\ t \notin CountedIn
  BY DEF CountedIn, Counts, HasCount, OthersStay
<1>2. IsFiniteSet(CountedIn) /\ Cardinality(CountedIn) \in Nat
  BY CountedType, FS_CardinalityType
<1>3. Cardinality(CountedIn') = Cardinality(CountedIn) + 1
  BY <1>1, <1>2, FS_AddElement
<1>4. CountedIn' \subseteq Threads
  BY DEF CountedIn
<1>5. Cardinality(CountedIn') <= Cardinality(Threads)
  BY <1>4, Constants, FS_Subset
<1>6. Cardinality(Threads) \in Nat
  BY CountedType
<1>7. implicitProducerHashCount' = Cardinality(CountedIn) + 1
  BY DEF Inv, HashCounted
<1> QED BY <1>2, <1>3, <1>5, <1>6, <1>7 DEF HashCounted

LEMMA CountGoes ==
  ASSUME Inv, NEW t \in Threads, OthersStay(t), UNCHANGED tokenUsers,
         implicitProducerHashCount' = implicitProducerHashCount - 1,
         \A u : Owns(u)' <=> Owns(u), ~Owns(t), Counts(t), ~Counts(t)'
  PROVE  HashCounted' /\ implicitProducerHashCount' \in 0 .. Cardinality(Threads)
<1>1. CountedIn' = CountedIn \ {t} /\ t \in CountedIn
  BY DEF CountedIn, Counts, HasCount, OthersStay
<1>2. IsFiniteSet(CountedIn) /\ Cardinality(CountedIn) \in Nat
  BY CountedType, FS_CardinalityType
<1>3. Cardinality(CountedIn') = Cardinality(CountedIn) - 1
  BY <1>1, <1>2, FS_RemoveElement
<1>4. Cardinality(CountedIn') \in Nat
  BY <1>1, <1>2, FS_RemoveElement, FS_CardinalityType
<1> QED BY <1>3, <1>4, CountedType DEF Inv, HashCounted

(* The end of a call.                                                      *)
LEMMA ReturnTypes ==
  ASSUME TypeOK, Tables, NEW t \in Threads, NEW from, NEW p \in Created \cup {Null},
         Return(t, from, p)
  PROVE  /\ pc' \in [Threads -> Points]
         /\ {mainHash', hash'} \subseteq [Threads -> 0 .. Len(implicitProducerHash)]
         /\ index' \in [Threads -> Nat] /\ newCount' \in [Threads -> 0 .. Cardinality(Threads)]
         /\ {value', producer', result'} \subseteq [Threads -> Created \cup {Null}]
<1>1. Cardinality(Threads) \in Nat /\ Len(implicitProducerHash) \in Nat
  BY Constants, FS_CardinalityType, TablesLen
<1>2. "idle" \in Points
  BY DEF Points
<1>3. 0 \in 0 .. Cardinality(Threads) /\ 0 \in 0 .. Len(implicitProducerHash)
  BY <1>1
<1> QED BY <1>2, <1>3 DEF Return, Goto, TypeOK

(* A step of t within its call that touches neither list nor tables.       *)
LEMMA QuietStep ==
  ASSUME Inv, NEW t \in Threads, OthersStay(t),
         UNCHANGED <<implicitProducerHash, listVars, tokenUsers, token>>,
         pc[t] \notin {"list", "link"}, pc'[t] \notin {"list", "link"},
         pc[t] = "insert" => pc'[t] = "insert",
         TypeOK', Place(t)', ToldTo(t)', Search(t)', HashCounted',
         result'[t] # Null => owner[result'[t]] = t
  PROVE  Inv'
<1>1. /\ Linked' = Linked /\ Created' = Created /\ Listed' /\ OneAdds' /\ Apart'
      /\ \A u : Owns(u)' <=> Owns(u)
  BY ListStays
<1>2. /\ \A u, h, i : Path(u, h, i)' <=> Path(u, h, i)
  BY DEF Path, Key, Slot, Capacity
<1>3. \A u \in Threads \ {t} : Probed(u)' <=> Probed(u)
  BY ProbedSame DEF OthersStay
<1>4. Tables'
  BY <1>1 DEF Inv, Tables, listVars
<1>5. Places'
  <2>1. ASSUME NEW u \in Threads \ {t}
        PROVE  Place(u)'
    BY DEF Inv, Places, Place, HasCount, OthersStay, listVars
  <2> QED BY <2>1 DEF Places
<1>6. Told'
  BY <1>1 DEF Inv, Told, ToldTo, OthersStay, listVars
<1>7. Findable'
  BY <1>1, <1>2 DEF Inv, Findable, OthersStay
<1>8. Searches'
  <2>1. ASSUME NEW u \in Threads \ {t}
        PROVE  Search(u)'
    BY <1>1, <1>2, <1>3 DEF Inv, Searches, Search, HasCount, OthersStay
  <2> QED BY <2>1 DEF Searches
<1>9. OneStreamEach'
  BY DEF Inv, OneStreamEach, OthersStay, listVars
<1> QED BY <1>1, <1>4, <1>5, <1>6, <1>7, <1>8, <1>9 DEF Inv

LEMMA GetOrAddStep ==
  ASSUME Inv, NEW t \in Threads, GetOrAdd(t), UNCHANGED tokenUsers
  PROVE  Inv'
<1>0. TypeOK /\ Tables /\ Findable /\ Place(t) /\ ToldTo(t) /\ Search(t) /\ Listed
  BY DEF Inv, Places, Told, Searches
<1>1. pc[t] = "idle" /\ pc'[t] \in {"search"}
  BY <1>0 DEF GetOrAdd, Goto, TypeOK
<1>2. OthersStay(t)
  BY <1>0 DEF GetOrAdd, Goto, OthersStay
<1>3. UNCHANGED <<implicitProducerHash, listVars, tokenUsers, token>>
  BY DEF GetOrAdd, Goto, hashVars
<1>4. TypeOK'
  <2>1. pc' \in [Threads -> Points] /\ index' \in [Threads -> Nat]
    BY <1>0, Constants DEF GetOrAdd, Goto, TypeOK, Points
  <2>2. {mainHash', hash'} \subseteq [Threads -> 0 .. Len(implicitProducerHash)]
    <3>1. Len(implicitProducerHash) \in 0 .. Len(implicitProducerHash)
      BY <1>0, TablesLen
    <3> QED BY <1>0, <3>1 DEF GetOrAdd, TypeOK
  <2> QED BY <1>0, <1>3, <2>1, <2>2 DEF GetOrAdd, TypeOK, Created, listVars, hashVars
<1>5. Place(t)'
  BY <1>0, <1>1, <1>3, TablesLen DEF GetOrAdd, TypeOK, Place, HasCount,
    Hashing, Adding, Scanning
<1>6. /\ Linked' = Linked /\ Created' = Created
      /\ \A u : Owns(u)' <=> Owns(u)
  BY <1>1, <1>2, <1>3, ListStays
<1>7. ToldTo(t)'
  BY <1>0, <1>1, <1>3, <1>6 DEF GetOrAdd, ToldTo, Scanning
<1>8. Search(t)'
  <2>1. \A u, h, i : Path(u, h, i)' <=> Path(u, h, i)
    BY <1>3 DEF Path, Key, Slot, Capacity
  <2>2. hash'[t] = Len(implicitProducerHash) /\ index'[t] = Hash[t]
    BY <1>0 DEF GetOrAdd, TypeOK
  <2>3. Owns(t) => \E h \in 1 .. hash'[t] : Path(t, h, Hash[t])
    BY <1>0, <1>1, <2>2 DEF Findable
  <2> QED BY <1>1, <1>6, <2>1, <2>2, <2>3 DEF Search, HasCount, Hashing, Adding
<1>9. HashCounted'
  <2>1. Counts(t)' <=> Counts(t)
    BY <1>0, <1>1, <1>3 DEF Counts, HasCount, Hashing, Adding
  <2> QED BY <1>2, <1>3, <1>6, <2>1, CountStays DEF GetOrAdd, Goto, hashVars
<1>10. result'[t] # Null => owner[result'[t]] = t
  BY <1>0, <1>1 DEF GetOrAdd, Inv, OneStreamEach
<1> QED BY <1>1, <1>2, <1>3, <1>4, <1>5, <1>7, <1>8, <1>9, <1>10, QuietStep

LEMMA FoundStep ==
  ASSUME Inv, NEW t \in Threads, Found(t), UNCHANGED tokenUsers
  PROVE  Inv'
<1>0. TypeOK /\ Tables /\ Place(t) /\ ToldTo(t) /\ Search(t) /\ Listed
  BY DEF Inv, Places, Told, Searches
<1>1. pc[t] = "search" /\ pc'[t] \in {"idle", "lazy"}
  BY <1>0 DEF Found, Goto, Return, TypeOK
<1>2. OthersStay(t)
  BY <1>0 DEF Found, Goto, Return, TypeOK, OthersStay
<1>3. UNCHANGED <<implicitProducerHash, listVars, tokenUsers, token>>
  BY DEF Found, hashVars
<1> DEFINE v == implicitProducerHash[hash[t]][Slot(hash[t], index[t])].value
<1>f. v \in Linked /\ owner[v] = t /\ v \in Created
  <2>1. hash[t] \in DOMAIN implicitProducerHash /\ index[t] \in Nat
    BY <1>0, <1>1 DEF Place, TypeOK
  <2>2. Slot(hash[t], index[t]) \in DOMAIN implicitProducerHash[hash[t]]
    BY <1>0, <2>1, TableFacts
  <2>3. implicitProducerHash[hash[t]][Slot(hash[t], index[t])].key = t
    BY DEF Found, Key
  <2>4. v \in Created /\ owner[v] = t
    BY <1>0, <2>1, <2>2, <2>3, Constants DEF Tables
  <2>5. v \in Linked \cup {Null}
    BY <2>1, <2>2 DEF Inv, Told
  <2> QED BY <2>4, <2>5 DEF Created, Null
<1> HIDE DEF v
<1>r. \/ Return(t, "search", v)
      \/ /\ pc' = [pc EXCEPT ![t] = "lazy"]
         /\ value' = [value EXCEPT ![t] = v]
         /\ index' = [index EXCEPT ![t] = Hash[t]]
         /\ hash' = [hash EXCEPT ![t] = 0]
         /\ UNCHANGED <<mainHash, newCount, producer, result>>
  BY DEF Found, v, Goto
<1>u. UNCHANGED <<hashVars, listVars, token>>
  BY DEF Found
<1>4. TypeOK'
  <2>1. CASE Return(t, "search", v)
    BY <1>0, <1>f, <1>u, <2>1, ReturnTypes DEF TypeOK, Created, listVars,
      hashVars
  <2>2. CASE pc' = [pc EXCEPT ![t] = "lazy"] /\ value' = [value EXCEPT ![t] = v]
             /\ index' = [index EXCEPT ![t] = Hash[t]] /\ hash' = [hash EXCEPT ![t] = 0]
             /\ UNCHANGED <<mainHash, newCount, producer, result>>
    <3>1. 0 \in 0 .. Len(implicitProducerHash) /\ "lazy" \in Points
      BY <1>0, TablesLen DEF Points
    <3>2. /\ pc' \in [Threads -> Points] /\ hash' \in [Threads -> 0 .. Len(implicitProducerHash)]
          /\ value' \in [Threads -> Created \cup {Null}]
      BY <1>0, <1>f, <2>2, <3>1 DEF TypeOK
    <3>3. index' \in [Threads -> Nat]
      BY <1>0, <2>2, Constants DEF TypeOK
    <3> QED BY <1>0, <1>u, <2>2, <3>2, <3>3 DEF TypeOK, Created, listVars, hashVars
  <2> QED BY <1>r, <2>1, <2>2
<1>5. Place(t)'
  BY <1>0, <1>1, <1>r, <1>u, <1>f DEF Return, Goto, TypeOK, Place, HasCount,
    Hashing, Adding, Scanning, listVars, Created, Null
<1>6. /\ Linked' = Linked /\ Created' = Created
      /\ \A u : Owns(u)' <=> Owns(u)
  BY <1>1, <1>2, <1>3, ListStays
<1>7. ToldTo(t)'
  BY <1>0, <1>1, <1>u, <1>r, <1>f, <1>6 DEF Return, TypeOK, ToldTo, Scanning
<1>8. Search(t)'
  BY <1>0, <1>1, <1>3, <1>6 DEF Search, HasCount, Hashing, Adding
<1>9. HashCounted'
  <2>1. Counts(t)' <=> Counts(t)
    BY <1>0, <1>1, <1>3 DEF Counts, HasCount, Hashing, Adding
  <2> QED BY <1>2, <1>3, <1>6, <2>1, CountStays DEF Found, Goto, Return, hashVars
<1>10. result'[t] # Null => owner[result'[t]] = t
  BY <1>0, <1>1, <1>r, <1>f DEF Return, TypeOK, Inv, OneStreamEach
<1> QED BY <1>1, <1>2, <1>3, <1>4, <1>5, <1>7, <1>8, <1>9, <1>10, QuietStep

LEMMA NotFoundStep ==
  ASSUME Inv, NEW t \in Threads, NotFound(t), UNCHANGED tokenUsers
  PROVE  Inv'
<1>0. TypeOK /\ Tables /\ Place(t) /\ ToldTo(t) /\ Search(t) /\ Listed
  BY DEF Inv, Places, Told, Searches
<1>1. pc[t] = "search" /\ pc'[t] \in {"search", "count"}
  BY <1>0 DEF NotFound, Goto, TypeOK
<1>2. OthersStay(t)
  BY <1>0 DEF NotFound, Goto, TypeOK, OthersStay
<1>3. UNCHANGED <<implicitProducerHash, listVars, tokenUsers, token>>
  BY DEF NotFound, Goto, hashVars
<1>h. hash[t] \in DOMAIN implicitProducerHash /\ hash[t] \in 1 .. Len(implicitProducerHash)
      /\ index[t] \in Nat /\ Hash[t] \in Nat /\ Slot(hash[t], index[t] + 1) \in Nat
  <2>1. hash[t] \in 1 .. Len(implicitProducerHash) /\ index[t] \in Nat /\ index[t] + 1 \in Nat
    BY <1>0, <1>1 DEF Place, TypeOK
  <2>2. hash[t] \in DOMAIN implicitProducerHash
    BY <1>0, <2>1, TablesLen
  <2> QED BY <1>0, <2>1, <2>2, TableFacts, Constants
<1>t. index' \in [Threads -> Nat] /\ hash' \in [Threads -> 0 .. Len(implicitProducerHash)]
      /\ pc' \in [Threads -> Points]
  <2>1. hash[t] - 1 \in 0 .. Len(implicitProducerHash)
    BY <1>h
  <2>2. CASE Key(hash[t], index[t]) # Empty
    <3>1. UNCHANGED <<pc, hash>> /\ index' = [index EXCEPT ![t] = Slot(hash[t], index[t] + 1)]
      BY <2>2 DEF NotFound
    <3> QED BY <1>0, <1>h, <3>1 DEF TypeOK
  <2>3. CASE Key(hash[t], index[t]) = Empty
    <3>1. index' = [index EXCEPT ![t] = Hash[t]] /\ hash' = [hash EXCEPT ![t] = hash[t] - 1]
      BY <2>3 DEF NotFound
    <3>2. pc' = [pc EXCEPT ![t] = IF hash[t] = 1 THEN "count" ELSE "search"]
      BY <2>3 DEF NotFound, Goto
    <3>3. pc' \in [Threads -> Points]
      BY <1>0, <3>2 DEF TypeOK, Points
    <3> QED BY <1>0, <1>h, <2>1, <3>1, <3>3 DEF TypeOK
  <2> QED BY <2>2, <2>3
<1>4. TypeOK'
  BY <1>0, <1>3, <1>t DEF NotFound, TypeOK, Created, listVars, hashVars
<1>5. Place(t)'
  BY <1>0, <1>1, <1>3 DEF NotFound, Goto, TypeOK, Place, HasCount, Hashing,
    Adding, Scanning
<1>6. /\ Linked' = Linked /\ Created' = Created
      /\ \A u : Owns(u)' <=> Owns(u)
  BY <1>1, <1>2, <1>3, ListStays
<1>7. ToldTo(t)'
  BY <1>0, <1>1, <1>3, <1>6 DEF NotFound, ToldTo, Scanning
<1>8. Search(t)'
  <2>1. \A u, h, i : Path(u, h, i)' <=> Path(u, h, i)
    BY <1>3 DEF Path, Key, Slot, Capacity
  <2>2. CASE Key(hash[t], index[t]) # Empty
    <3>1. /\ index'[t] = Slot(hash[t], index[t] + 1) /\ hash'[t] = hash[t]
          /\ pc'[t] = "search" /\ Key(hash[t], index[t]) # t
      BY <1>0, <1>1, <2>2 DEF NotFound, TypeOK
    <3>2. Path(t, hash[t], index[t]) => Path(t, hash[t], index'[t])
      BY <1>h, <3>1 DEF Path
    <3> QED BY <1>0, <1>1, <1>6, <2>1, <3>1, <3>2 DEF Search, HasCount, Hashing, Adding
  <2>3. CASE Key(hash[t], index[t]) = Empty
    <3>1. /\ index'[t] = Hash[t] /\ hash'[t] = hash[t] - 1
          /\ pc'[t] = IF hash[t] = 1 THEN "count" ELSE "search"
      BY <1>0, <1>1, <2>3 DEF NotFound, Goto, TypeOK
    <3>2. ~Path(t, hash[t], index[t])
      BY <2>3 DEF Path
    <3>3. Owns(t) => \E h \in 1 .. hash[t] - 1 : Path(t, h, Hash[t])
      BY <1>0, <1>1, <1>h, <3>2 DEF Search
    <3> QED BY <1>h, <1>6, <2>1, <3>1, <3>3 DEF Search, HasCount, Hashing, Adding
  <2> QED BY <2>2, <2>3
<1>9. HashCounted'
  <2>1. Counts(t)' <=> Counts(t)
    BY <1>0, <1>1, <1>3 DEF Counts, HasCount, Adding
  <2> QED BY <1>2, <1>3, <1>6, <2>1, CountStays DEF NotFound, Goto, hashVars
<1>10. result'[t] # Null => owner[result'[t]] = t
  BY <1>0, <1>1 DEF NotFound, Inv, OneStreamEach
<1> QED BY <1>1, <1>2, <1>3, <1>4, <1>5, <1>7, <1>8, <1>9, <1>10, QuietStep

LEMMA CountStep ==
  ASSUME Inv, NEW t \in Threads, Count(t), UNCHANGED tokenUsers
  PROVE  Inv'
<1>0. TypeOK /\ Tables /\ Place(t) /\ ToldTo(t) /\ Search(t) /\ Listed
  BY DEF Inv, Places, Told, Searches
<1>1. pc[t] = "count" /\ pc'[t] \in {"resize"}
  BY <1>0 DEF Count, Goto, TypeOK
<1>2. OthersStay(t)
  BY <1>0 DEF Count, Goto, OthersStay
<1>3. UNCHANGED <<implicitProducerHash, listVars, tokenUsers, token>>
  BY DEF Count, Goto, hashVars
<1>6. /\ Linked' = Linked /\ Created' = Created
      /\ \A u : Owns(u)' <=> Owns(u)
  BY <1>1, <1>2, <1>3, ListStays
<1>9. HashCounted' /\ implicitProducerHashCount' \in 1 .. Cardinality(Threads)
  <2>1. ~Owns(t) /\ (Counts(t) <=> ~Counts(t)') /\ (Counts(t) <=> FALSE)
    BY <1>0, <1>1, <1>3 DEF Counts, HasCount, Hashing, Adding, Place, Search
  <2> QED BY <1>2, <1>3, <1>6, <2>1, CountComes DEF Count, Goto
<1>4. TypeOK'
  <2>1. pc' \in [Threads -> Points]
    BY <1>0 DEF Count, Goto, TypeOK, Points
  <2>2. implicitProducerHashCount' \in 0 .. Cardinality(Threads)
        /\ newCount' \in [Threads -> 0 .. Cardinality(Threads)]
    <3>1. implicitProducerHashCount' \in 0 .. Cardinality(Threads)
      BY <1>9, CountedType
    <3> QED BY <1>0, <3>1 DEF Count, TypeOK
  <2> QED BY <1>0, <1>3, <2>1, <2>2 DEF Count, TypeOK, Created, listVars
<1>5. Place(t)'
  BY <1>0, <1>1, <1>3 DEF Count, TypeOK, Place, HasCount, Hashing, Scanning
<1>7. ToldTo(t)'
  BY <1>0, <1>1, <1>3, <1>6 DEF Count, ToldTo, Scanning
<1>8. Search(t)'
  BY <1>0, <1>1, <1>3, <1>6 DEF Search
<1>10. result'[t] # Null => owner[result'[t]] = t
  BY <1>0, <1>1 DEF Count, Inv, OneStreamEach
<1> QED BY <1>1, <1>2, <1>3, <1>4, <1>5, <1>7, <1>8, <1>9, <1>10, QuietStep

LEMMA TryResizeStep ==
  ASSUME Inv, NEW t \in Threads, TryResize(t), UNCHANGED tokenUsers
  PROVE  Inv'
<1>0. TypeOK /\ Tables /\ Place(t) /\ ToldTo(t) /\ Search(t) /\ Listed
  BY DEF Inv, Places, Told, Searches
<1>1. pc[t] = "resize" /\ pc'[t] \in {"locked", "room"}
  BY <1>0 DEF TryResize, Goto, TypeOK
<1>2. OthersStay(t)
  BY <1>0 DEF TryResize, Goto, TypeOK, localVars, OthersStay
<1>3. UNCHANGED <<implicitProducerHash, listVars, tokenUsers, token>>
  BY DEF TryResize, Goto, hashVars
<1>4. TypeOK'
  BY <1>0, <1>3 DEF TryResize, Goto, TypeOK, Points, Created, listVars,
    localVars
<1>5. Place(t)'
  BY <1>0, <1>1, <1>3 DEF TryResize, Place, HasCount, Hashing, Scanning,
    localVars
<1>6. /\ Linked' = Linked /\ Created' = Created
      /\ \A u : Owns(u)' <=> Owns(u)
  BY <1>1, <1>2, <1>3, ListStays
<1>7. ToldTo(t)'
  BY <1>0, <1>1, <1>3, <1>6 DEF TryResize, ToldTo, Scanning, localVars
<1>8. Search(t)'
  BY <1>0, <1>1, <1>3, <1>6 DEF Search, HasCount, Hashing
<1>9. HashCounted'
  <2>1. Counts(t)' <=> Counts(t)
    BY <1>0, <1>1, <1>3 DEF Counts, HasCount, Hashing
  <2> QED BY <1>2, <1>3, <1>6, <2>1, CountStays DEF TryResize, Goto, hashVars
<1>10. result'[t] # Null => owner[result'[t]] = t
  BY <1>0, <1>1 DEF TryResize, Inv, OneStreamEach
<1> QED BY <1>1, <1>2, <1>3, <1>4, <1>5, <1>7, <1>8, <1>9, <1>10, QuietStep

LEMMA LockedStep ==
  ASSUME Inv, NEW t \in Threads, Locked(t), UNCHANGED tokenUsers
  PROVE  Inv'
<1>0. TypeOK /\ Tables /\ Place(t) /\ ToldTo(t) /\ Search(t) /\ Listed
  BY DEF Inv, Places, Told, Searches
<1>1. pc[t] = "locked" /\ pc'[t] \in {"malloc", "unlock"}
  BY <1>0 DEF Locked, Goto, TypeOK
<1>2. OthersStay(t)
  BY <1>0 DEF Locked, Goto, OthersStay
<1>3. UNCHANGED <<implicitProducerHash, listVars, tokenUsers, token>>
  BY DEF Locked, Goto, hashVars
<1>4. TypeOK'
  <2>1. pc' \in [Threads -> Points]
    BY <1>0 DEF Locked, Goto, TypeOK, Points
  <2>2. mainHash' \in [Threads -> 0 .. Len(implicitProducerHash)]
    <3>1. Len(implicitProducerHash) \in 0 .. Len(implicitProducerHash)
      BY <1>0, TablesLen
    <3> QED BY <1>0, <3>1 DEF Locked, TypeOK
  <2> QED BY <1>0, <1>3, <2>1, <2>2 DEF Locked, TypeOK, Created, listVars, hashVars
<1>5. Place(t)'
  BY <1>0, <1>1, <1>3 DEF Locked, TypeOK, Place, HasCount, Hashing, Scanning
<1>6. /\ Linked' = Linked /\ Created' = Created
      /\ \A u : Owns(u)' <=> Owns(u)
  BY <1>1, <1>2, <1>3, ListStays
<1>7. ToldTo(t)'
  BY <1>0, <1>1, <1>3, <1>6 DEF Locked, ToldTo, Scanning
<1>8. Search(t)'
  BY <1>0, <1>1, <1>3, <1>6 DEF Search, HasCount, Hashing
<1>9. HashCounted'
  <2>1. Counts(t)' <=> Counts(t)
    BY <1>0, <1>1, <1>3 DEF Counts, HasCount, Hashing
  <2> QED BY <1>2, <1>3, <1>6, <2>1, CountStays DEF Locked, Goto, hashVars
<1>10. result'[t] # Null => owner[result'[t]] = t
  BY <1>0, <1>1 DEF Locked, Inv, OneStreamEach
<1> QED BY <1>1, <1>2, <1>3, <1>4, <1>5, <1>7, <1>8, <1>9, <1>10, QuietStep

LEMMA RefusedStep ==
  ASSUME Inv, NEW t \in Threads, Refused(t), UNCHANGED tokenUsers
  PROVE  Inv'
<1>0. TypeOK /\ Tables /\ Place(t) /\ ToldTo(t) /\ Search(t) /\ Listed
  BY DEF Inv, Places, Told, Searches
<1>1. pc[t] = "refused" /\ pc'[t] \in {"unlockRefused"}
  BY <1>0 DEF Refused, Goto, TypeOK
<1>2. OthersStay(t)
  BY <1>0 DEF Refused, Goto, localVars, OthersStay
<1>3. UNCHANGED <<implicitProducerHash, listVars, tokenUsers, token>>
  BY DEF Refused, Goto, hashVars
<1>6. /\ Linked' = Linked /\ Created' = Created
      /\ \A u : Owns(u)' <=> Owns(u)
  BY <1>1, <1>2, <1>3, ListStays
<1>9. HashCounted' /\ implicitProducerHashCount' \in 0 .. Cardinality(Threads)
  <2>1. ~Owns(t) /\ (Counts(t) <=> ~Counts(t)') /\ (Counts(t) <=> TRUE)
    BY <1>0, <1>1, <1>3 DEF Counts, HasCount, Hashing, Place, Search
  <2> QED BY <1>2, <1>3, <1>6, <2>1, CountGoes DEF Refused, Goto
<1>4. TypeOK'
  BY <1>0, <1>3, <1>9 DEF Refused, Goto, TypeOK, Points, Created, listVars,
    localVars
<1>5. Place(t)'
  BY <1>0, <1>1, <1>3 DEF Refused, Place, HasCount, Hashing, Scanning,
    localVars
<1>7. ToldTo(t)'
  BY <1>0, <1>1, <1>3, <1>6 DEF Refused, ToldTo, Scanning, localVars
<1>8. Search(t)'
  BY <1>0, <1>1, <1>3, <1>6 DEF Search, HasCount, Hashing
<1>10. result'[t] # Null => owner[result'[t]] = t
  BY <1>0, <1>1 DEF Refused, Inv, OneStreamEach
<1> QED BY <1>1, <1>2, <1>3, <1>4, <1>5, <1>7, <1>8, <1>9, <1>10, QuietStep

LEMMA UnlockRefusedStep ==
  ASSUME Inv, NEW t \in Threads, UnlockRefused(t), UNCHANGED tokenUsers
  PROVE  Inv'
<1>0. TypeOK /\ Tables /\ Place(t) /\ ToldTo(t) /\ Search(t) /\ Listed
  BY DEF Inv, Places, Told, Searches
<1>1. pc[t] = "unlockRefused" /\ pc'[t] \in {"idle"}
  BY <1>0 DEF UnlockRefused, Goto, Return, TypeOK
<1>2. OthersStay(t)
  BY <1>0 DEF UnlockRefused, Goto, Return, OthersStay
<1>3. UNCHANGED <<implicitProducerHash, listVars, tokenUsers, token>>
  BY DEF UnlockRefused
<1>4. TypeOK'
  BY <1>0, <1>3, ReturnTypes DEF UnlockRefused, TypeOK, Created, listVars
<1>5. Place(t)'
  BY <1>0, <1>1, <1>3 DEF UnlockRefused, Return, TypeOK, Place, HasCount,
    Hashing, Adding, Scanning
<1>6. /\ Linked' = Linked /\ Created' = Created
      /\ \A u : Owns(u)' <=> Owns(u)
  BY <1>1, <1>2, <1>3, ListStays
<1>7. ToldTo(t)'
  BY <1>0, <1>1, <1>3, <1>6 DEF UnlockRefused, Return, ToldTo, Scanning
<1>8. Search(t)'
  BY <1>0, <1>1, <1>3, <1>6 DEF Search, HasCount, Hashing
<1>9. HashCounted'
  <2>1. Counts(t)' <=> Counts(t)
    BY <1>0, <1>1, <1>3 DEF Counts, HasCount, Hashing, Adding
  <2> QED BY <1>2, <1>3, <1>6, <2>1, CountStays DEF UnlockRefused, Goto, Return, hashVars
<1>10. result'[t] # Null => owner[result'[t]] = t
  BY <1>0, <1>1 DEF UnlockRefused, Return, Inv, OneStreamEach
<1> QED BY <1>1, <1>2, <1>3, <1>4, <1>5, <1>7, <1>8, <1>9, <1>10, QuietStep

LEMMA UnlockStep ==
  ASSUME Inv, NEW t \in Threads, Unlock(t), UNCHANGED tokenUsers
  PROVE  Inv'
<1>0. TypeOK /\ Tables /\ Place(t) /\ ToldTo(t) /\ Search(t) /\ Listed
  BY DEF Inv, Places, Told, Searches
<1>1. pc[t] = "unlock" /\ pc'[t] \in {"room"}
  BY <1>0 DEF Unlock, Goto, TypeOK
<1>2. OthersStay(t)
  BY <1>0 DEF Unlock, Goto, localVars, OthersStay
<1>3. UNCHANGED <<implicitProducerHash, listVars, tokenUsers, token>>
  BY DEF Unlock, Goto, hashVars
<1>4. TypeOK'
  BY <1>0, <1>3 DEF Unlock, Goto, TypeOK, Points, Created, listVars, localVars
<1>5. Place(t)'
  BY <1>0, <1>1, <1>3 DEF Unlock, Place, HasCount, Hashing, Scanning, localVars
<1>6. /\ Linked' = Linked /\ Created' = Created
      /\ \A u : Owns(u)' <=> Owns(u)
  BY <1>1, <1>2, <1>3, ListStays
<1>7. ToldTo(t)'
  BY <1>0, <1>1, <1>3, <1>6 DEF Unlock, ToldTo, Scanning, localVars
<1>8. Search(t)'
  BY <1>0, <1>1, <1>3, <1>6 DEF Search, HasCount, Hashing
<1>9. HashCounted'
  <2>1. Counts(t)' <=> Counts(t)
    BY <1>0, <1>1, <1>3 DEF Counts, HasCount, Hashing
  <2> QED BY <1>2, <1>3, <1>6, <2>1, CountStays DEF Unlock, Goto, hashVars
<1>10. result'[t] # Null => owner[result'[t]] = t
  BY <1>0, <1>1 DEF Unlock, Inv, OneStreamEach
<1> QED BY <1>1, <1>2, <1>3, <1>4, <1>5, <1>7, <1>8, <1>9, <1>10, QuietStep

LEMMA CheckRoomStep ==
  ASSUME Inv, NEW t \in Threads, CheckRoom(t), UNCHANGED tokenUsers
  PROVE  Inv'
<1>0. TypeOK /\ Tables /\ Place(t) /\ ToldTo(t) /\ Search(t) /\ Listed
  BY DEF Inv, Places, Told, Searches
<1>1. pc[t] = "room" /\ pc'[t] \in {"create", "resize"}
  BY <1>0 DEF CheckRoom, Goto, TypeOK
<1>2. OthersStay(t)
  BY <1>0 DEF CheckRoom, Goto, TypeOK, OthersStay
<1>3. UNCHANGED <<implicitProducerHash, listVars, tokenUsers, token>>
  BY DEF CheckRoom, Goto, hashVars
<1>4. TypeOK'
  <2>1. Len(implicitProducerHash) \in 0 .. Len(implicitProducerHash)
    BY <1>0, TablesLen
  <2>2. mainHash' \in [Threads -> 0 .. Len(implicitProducerHash)] /\ pc' \in [Threads -> Points]
    <3>1. \/ pc' = [pc EXCEPT ![t] = "create"] /\ mainHash' = mainHash
          \/ /\ pc' = [pc EXCEPT ![t] = "resize"]
             /\ mainHash' = [mainHash EXCEPT ![t] = Len(implicitProducerHash)]
      BY DEF CheckRoom, Goto, localVars
    <3>2. mainHash \in [Threads -> 0 .. Len(implicitProducerHash)] /\ pc \in [Threads -> Points]
      BY <1>0 DEF TypeOK
    <3>3. "create" \in Points /\ "resize" \in Points
      BY DEF Points
    <3> QED BY <2>1, <3>1, <3>2, <3>3
  <2> QED BY <1>0, <1>3, <2>2 DEF CheckRoom, TypeOK, Created, listVars, hashVars
<1>5. Place(t)'
  BY <1>0, <1>1, <1>3 DEF CheckRoom, TypeOK, Place, HasCount, Hashing, Adding,
    Scanning
<1>6. /\ Linked' = Linked /\ Created' = Created
      /\ \A u : Owns(u)' <=> Owns(u)
  BY <1>1, <1>2, <1>3, ListStays
<1>7. ToldTo(t)'
  BY <1>0, <1>1, <1>3, <1>6 DEF CheckRoom, ToldTo, Scanning
<1>8. Search(t)'
  BY <1>0, <1>1, <1>3, <1>6 DEF Search, HasCount, Hashing
<1>9. HashCounted'
  <2>1. Counts(t)' <=> Counts(t)
    BY <1>0, <1>1, <1>3 DEF Counts, HasCount, Hashing, Adding
  <2> QED BY <1>2, <1>3, <1>6, <2>1, CountStays DEF CheckRoom, Goto, hashVars
<1>10. result'[t] # Null => owner[result'[t]] = t
  BY <1>0, <1>1 DEF CheckRoom, Inv, OneStreamEach
<1> QED BY <1>1, <1>2, <1>3, <1>4, <1>5, <1>7, <1>8, <1>9, <1>10, QuietStep

LEMMA UncountStep ==
  ASSUME Inv, NEW t \in Threads, Uncount(t), UNCHANGED tokenUsers
  PROVE  Inv'
<1>0. TypeOK /\ Tables /\ Place(t) /\ ToldTo(t) /\ Search(t) /\ Listed
  BY DEF Inv, Places, Told, Searches
<1>1. pc[t] = "uncount" /\ pc'[t] \in {"idle"}
  BY <1>0 DEF Uncount, Goto, Return, TypeOK
<1>2. OthersStay(t)
  BY <1>0 DEF Uncount, Goto, Return, OthersStay
<1>3. UNCHANGED <<implicitProducerHash, listVars, tokenUsers, token>>
  BY DEF Uncount
<1>6. /\ Linked' = Linked /\ Created' = Created
      /\ \A u : Owns(u)' <=> Owns(u)
  BY <1>1, <1>2, <1>3, ListStays
<1>9. HashCounted' /\ implicitProducerHashCount' \in 0 .. Cardinality(Threads)
  <2>1. ~Owns(t) /\ (Counts(t) <=> ~Counts(t)') /\ (Counts(t) <=> TRUE)
    BY <1>0, <1>1, <1>3 DEF Counts, HasCount, Hashing, Adding, Place, Search
  <2> QED BY <1>2, <1>3, <1>6, <2>1, CountGoes DEF Uncount, Goto, Return
<1>4. TypeOK'
  BY <1>0, <1>3, <1>9, ReturnTypes DEF Uncount, TypeOK, Created, listVars
<1>5. Place(t)'
  BY <1>0, <1>1, <1>3 DEF Uncount, Return, TypeOK, Place, HasCount, Hashing,
    Adding, Scanning
<1>7. ToldTo(t)'
  BY <1>0, <1>1, <1>3, <1>6 DEF Uncount, Return, ToldTo, Scanning
<1>8. Search(t)'
  BY <1>0, <1>1, <1>3, <1>6 DEF Search, HasCount, Hashing
<1>10. result'[t] # Null => owner[result'[t]] = t
  BY <1>0, <1>1 DEF Uncount, Return, Inv, OneStreamEach
<1> QED BY <1>1, <1>2, <1>3, <1>4, <1>5, <1>7, <1>8, <1>9, <1>10, QuietStep

LEMMA MakeTokenStep ==
  ASSUME Inv, NEW t \in Threads, MakeToken(t), UNCHANGED tokenUsers
  PROVE  Inv'
<1>0. TypeOK /\ Tables /\ Place(t) /\ ToldTo(t) /\ Search(t) /\ Listed
  BY DEF Inv, Places, Told, Searches
<1>1. pc[t] = "idle" /\ pc'[t] \in {"create", "scan"}
  BY <1>0 DEF MakeToken, Goto, TypeOK
<1>2. OthersStay(t)
  BY <1>0 DEF MakeToken, Goto, OthersStay
<1>3. UNCHANGED <<implicitProducerHash, listVars, tokenUsers, token>>
  BY DEF MakeToken, Goto, hashVars
<1>4. TypeOK'
  BY <1>0, <1>3 DEF MakeToken, Goto, TypeOK, Points, Created, listVars, hashVars, localVars
<1>5. Place(t)'
  BY <1>0, <1>1, <1>3 DEF MakeToken, Goto, TypeOK, Place, Hashing, Scanning
<1>6. /\ Linked' = Linked /\ Created' = Created
      /\ \A u : Owns(u)' <=> Owns(u)
  BY <1>1, <1>2, <1>3, ListStays
<1>7. ToldTo(t)'
  <2>1. producer'[t] = producerListTail /\ (pc'[t] \in Scanning => producerListTail # Null)
    BY <1>0 DEF MakeToken, Goto, TypeOK, Scanning
  <2>2. producerListTail \in Linked \cup {Null}
    BY <1>0 DEF Listed
  <2> QED BY <1>0, <1>1, <1>3, <1>6, <2>1, <2>2 DEF MakeToken, ToldTo
<1>8. Search(t)'
  BY <1>0, <1>1, <1>3, <1>6 DEF MakeToken, Inv, Apart, Search
<1>9. HashCounted'
  <2>1. Counts(t)' <=> Counts(t)
    BY <1>0, <1>1, <1>3 DEF MakeToken, Counts
  <2> QED BY <1>2, <1>3, <1>6, <2>1, CountStays DEF MakeToken, Goto, hashVars
<1>10. result'[t] # Null => owner[result'[t]] = t
  BY <1>0, <1>1 DEF MakeToken, Inv, OneStreamEach
<1> QED BY <1>1, <1>2, <1>3, <1>4, <1>5, <1>7, <1>8, <1>9, <1>10, QuietStep

LEMMA ScanStep ==
  ASSUME Inv, NEW t \in Threads, Scan(t), UNCHANGED tokenUsers
  PROVE  Inv'
<1>0. TypeOK /\ Tables /\ Place(t) /\ ToldTo(t) /\ Search(t) /\ Listed
  BY DEF Inv, Places, Told, Searches
<1>1. pc[t] = "scan" /\ pc'[t] \in {"scan", "catch", "create"}
  BY <1>0 DEF Scan, Goto, ScanOn, TypeOK
<1>2. OthersStay(t)
  BY <1>0 DEF Scan, Goto, ScanOn, TypeOK, OthersStay
<1>3. UNCHANGED <<implicitProducerHash, listVars, tokenUsers, token>>
  BY DEF Scan, hashVars
<1>n. /\ producer[t] \in Linked /\ producer[t] \in Created /\ producer[t] \in Producer
      /\ next[producer[t]] \in Linked \cup {Null} /\ next[producer[t]] \in Created \cup {Null}
      /\ t \in tokenUsers
  BY <1>0, <1>1 DEF ToldTo, Place, Scanning, Linked, Listed, LeadsOn
<1>4. TypeOK'
  <2>1. producer' \in [Threads -> Created \cup {Null}] /\ pc' \in [Threads -> Points]
    BY <1>0, <1>n DEF Scan, ScanOn, Goto, TypeOK, Points
  <2> QED BY <1>0, <1>3, <2>1 DEF Scan, TypeOK, Created, listVars, hashVars, localVars
<1>5. Place(t)'
  BY <1>0, <1>1, <1>3 DEF Scan, Goto, ScanOn, TypeOK, Place, Hashing, Scanning
<1>6. /\ Linked' = Linked /\ Created' = Created
      /\ \A u : Owns(u)' <=> Owns(u)
  BY <1>1, <1>2, <1>3, ListStays
<1>7. ToldTo(t)'
  BY <1>0, <1>1, <1>3, <1>6, <1>n DEF Scan, ScanOn, Goto, TypeOK, ToldTo,
    Scanning
<1>8. Search(t)'
  BY <1>1, <1>3, <1>6, <1>n DEF Inv, Apart, Search
<1>9. HashCounted'
  <2>1. Counts(t)' <=> Counts(t)
    BY <1>n, <1>3 DEF Counts
  <2> QED BY <1>2, <1>3, <1>6, <2>1, CountStays DEF Scan, Goto, ScanOn, hashVars
<1>10. result'[t] # Null => owner[result'[t]] = t
  BY <1>0, <1>1 DEF Scan, Inv, OneStreamEach
<1> QED BY <1>1, <1>2, <1>3, <1>4, <1>5, <1>7, <1>8, <1>9, <1>10, QuietStep

--------------------------------------------------------------------------------
(* A probe stays where it was.                                             *)
LEMMA ProbedStays ==
  ASSUME Tables, Grows, NEW u \in Threads, mainHash[u] \in DOMAIN implicitProducerHash,
         mainHash'[u] = mainHash[u], index'[u] = index[u], Probed(u)
  PROVE  Probed(u)'
<1> DEFINE h == mainHash[u]
<1>1. \A j \in Nat : Slot(h, j)' = Slot(h, j)
  BY DEF Grows, Slot, Capacity
<1>2. \A j \in Nat : Key(h, j) # Empty => Key(h, j)' = Key(h, j)
  BY <1>1, TableFacts DEF Grows, Key
<1>3. PICK P \in SUBSET Nat :
        /\ Hash[u] \in P \cup {index[u]}
        /\ \A j \in P : Key(h, j) # Empty /\ Slot(h, j + 1) \in P \cup {index[u]}
  BY DEF Probed
<1>4. \A j \in P : Key(h, j)' # Empty /\ Slot(h, j + 1)' \in P \cup {index[u]}
  BY <1>1, <1>2, <1>3
<1>5. (mainHash[u])' = h
  OBVIOUS
<1>6. \A j \in P : Key(mainHash[u], j)' # Empty /\ Slot(mainHash[u], j + 1)' \in P \cup {index'[u]}
  BY <1>4, <1>5 DEF Key, Slot, Capacity
<1> QED BY <1>3, <1>6 DEF Probed

(* A step of t within its call by which tables get entries, or one more.   *)
LEMMA GrowStep ==
  ASSUME Inv, NEW t \in Threads, OthersStay(t), Grows, Tables',
         UNCHANGED <<listVars, tokenUsers, token>>,
         \A h \in DOMAIN implicitProducerHash' : \A i \in DOMAIN implicitProducerHash'[h] :
           implicitProducerHash'[h][i].value \in Linked \cup {Null},
         pc[t] \notin {"list", "link"}, pc'[t] \notin {"list", "link"},
         pc[t] = "insert" => \E h \in DOMAIN implicitProducerHash' : Path(t, h, Hash[t])',
         TypeOK', Place(t)', ToldTo(t)', Search(t)', HashCounted',
         result'[t] # Null => owner[result'[t]] = t
  PROVE  Inv'
<1>1. /\ Linked' = Linked /\ Created' = Created /\ Listed' /\ OneAdds' /\ Apart'
      /\ \A u : Owns(u)' <=> Owns(u)
  BY ListStays
<1>2. \A u \in Threads : \A h \in DOMAIN implicitProducerHash : \A i \in Nat :
        h \in DOMAIN implicitProducerHash' /\ (Path(u, h, i) => Path(u, h, i)')
  BY PathStays DEF Inv, Grows
<1>5. Places'
  <2>1. ASSUME NEW u \in Threads \ {t}
        PROVE  Place(u)'
    BY DEF Inv, Places, Place, HasCount, OthersStay, listVars
  <2> QED BY <2>1 DEF Places
<1>6. Told'
  BY <1>1 DEF Inv, Told, ToldTo, OthersStay, listVars
<1>7. Findable'
  BY <1>1, <1>2, Constants DEF Inv, Findable, OthersStay
<1>8. Searches'
  <2>1. ASSUME NEW u \in Threads \ {t}
        PROVE  Search(u)'
    <3>1. TypeOK /\ Tables /\ Search(u) /\ Place(u)
      BY DEF Inv, Searches, Places
    <3>2. CASE pc[u] = "search"
      <4>1. hash[u] \in 1 .. Len(implicitProducerHash) /\ index[u] \in Nat
        BY <3>1, <3>2, LocalTypes DEF Place
      <4>2. 1 .. hash[u] \subseteq DOMAIN implicitProducerHash
        BY <3>1, <4>1, TablesLen
      <4>3. Owns(u) => \E h \in 1 .. hash[u] : Path(u, h, IF h = hash[u] THEN index[u] ELSE Hash[u])'
        <5>1. ASSUME Owns(u), NEW h \in 1 .. hash[u],
                     Path(u, h, IF h = hash[u] THEN index[u] ELSE Hash[u])
              PROVE  Path(u, h, IF h = hash[u] THEN index[u] ELSE Hash[u])'
          <6> DEFINE i == IF h = hash[u] THEN index[u] ELSE Hash[u]
          <6>1. i \in Nat /\ i' = i
            BY <4>1, Constants DEF OthersStay
          <6>2. Path(u, h, i)
            BY <5>1
          <6> HIDE DEF i
          <6>3. Path(u, h, i)'
            BY <1>2, <4>2, <6>1, <6>2
          <6> QED BY <6>3 DEF i
        <5> QED BY <3>1, <3>2, <5>1 DEF Search
      <4> QED BY <1>1, <3>2, <4>3 DEF Search, HasCount, Hashing, Adding, OthersStay
    <3>3. CASE pc[u] = "insert"
      <4>1. mainHash[u] \in DOMAIN implicitProducerHash
        BY <3>1, <3>3, LocalTypes DEF Place, Hashing
      <4>2. Probed(u)'
        BY <3>1, <3>3, <4>1, ProbedStays DEF Search, OthersStay
      <4> QED BY <3>3, <4>2 DEF Search, HasCount, OthersStay
    <3>4. CASE pc[u] \notin {"search", "insert"}
      BY <1>1, <3>1, <3>4 DEF Search, HasCount, OthersStay
    <3> QED BY <3>2, <3>3, <3>4
  <2> QED BY <2>1 DEF Searches
<1>9. OneStreamEach'
  BY DEF Inv, OneStreamEach, OthersStay, listVars
<1> QED BY <1>1, <1>5, <1>6, <1>7, <1>8, <1>9 DEF Inv

LEMMA OccupyGrows ==
  ASSUME Inv, NEW t \in Threads, NEW v \in Linked, owner[v] = t,
         mainHash[t] # 0, Occupy(t, v), UNCHANGED listVars
  PROVE  /\ Grows /\ Tables'
         /\ DOMAIN implicitProducerHash' = DOMAIN implicitProducerHash
         /\ Len(implicitProducerHash') = Len(implicitProducerHash)
         /\ \A h \in DOMAIN implicitProducerHash' : \A i \in DOMAIN implicitProducerHash'[h] :
              implicitProducerHash'[h][i].value \in Linked \cup {Null}
         /\ implicitProducerHash'[mainHash[t]][Slot(mainHash[t], index[t])].key = t
<1> DEFINE T == implicitProducerHash
           h == mainHash[t]
           s == Slot(h, index[t])
           e == [key |-> t, value |-> v]
<1>1. h \in DOMAIN T /\ index[t] \in Nat /\ Tables
  BY TablesLen DEF Inv, TypeOK
<1>2. s \in DOMAIN T[h] /\ DOMAIN T[h] = 0 .. Capacity(h) - 1 /\ Capacity(h) \in Nat \ {0}
  BY <1>1, TableFacts
<1>3. T[h][s].key = Empty
  BY DEF Occupy, Key
<1>4. e \in SlotSet
  BY DEF Inv, Listed, Linked, SlotSet
<1>5. T' = [T EXCEPT ![h] = [T[h] EXCEPT ![s] = e]]
  BY DEF Occupy
<1>6. T[h] \in [0 .. Capacity(h) - 1 -> SlotSet]
  BY <1>1, TableFacts
<1>7. [T[h] EXCEPT ![s] = e] \in [0 .. Capacity(h) - 1 -> SlotSet]
  BY <1>2, <1>4, <1>6
<1>8. [T[h] EXCEPT ![s] = e] \in TableSet
  BY <1>2, <1>7 DEF TableSet
<1>9. T \in Seq(TableSet) /\ T # <<>> /\ DOMAIN T = 1 .. Len(T)
  BY <1>1 DEF Tables
<1>10. T' \in Seq(TableSet) /\ T' # <<>> /\ Len(T') = Len(T) /\ DOMAIN T' = DOMAIN T
  BY <1>1, <1>5, <1>8, <1>9
<1> HIDE DEF s, e
<1>11. \A g \in DOMAIN T : g # h => T'[g] = T[g]
  BY <1>5
<1>12. /\ DOMAIN T'[h] = DOMAIN T[h] /\ T'[h][s] = e
       /\ \A i \in DOMAIN T[h] : i # s => T'[h][i] = T[h][i]
  BY <1>1, <1>2, <1>5
<1>13. e.key = t /\ e.value = v
  BY DEF e
<1>14. Grows
  BY <1>3, <1>10, <1>11, <1>12 DEF Grows
<1>15. Tables'
  <2>1. ASSUME NEW g \in DOMAIN T', NEW i \in DOMAIN T'[g], T'[g][i].key # Empty
        PROVE  T'[g][i].value \in Created /\ owner[T'[g][i].value] = T'[g][i].key
    <3>1. CASE g = h /\ i = s
      BY <1>12, <1>13, <3>1 DEF Linked
    <3>2. CASE ~(g = h /\ i = s)
      <4>1. g \in DOMAIN T /\ i \in DOMAIN T[g] /\ T'[g][i] = T[g][i]
        BY <1>10, <1>11, <1>12, <2>1, <3>2
      <4> QED BY <1>1, <2>1, <4>1 DEF Tables
    <3> QED BY <3>1, <3>2
  <2>2. UNCHANGED owner
    BY DEF listVars
  <2> QED BY <1>10, <2>1, <2>2 DEF Tables, Created
<1>16. \A g \in DOMAIN T' : \A i \in DOMAIN T'[g] : T'[g][i].value \in Linked \cup {Null}
  BY <1>10, <1>11, <1>12, <1>13 DEF Inv, Told
<1> QED BY <1>10, <1>12, <1>13, <1>14, <1>15, <1>16 DEF s

--------------------------------------------------------------------------------
(* The probes of a thread that adds itself to a table.                     *)
LEMMA InsertStep ==
  ASSUME Inv, NEW t \in Threads, Insert(t), UNCHANGED tokenUsers
  PROVE  Inv'
<1>0. TypeOK /\ Tables /\ Place(t) /\ ToldTo(t) /\ Search(t) /\ Listed
  BY DEF Inv, Places, Told, Searches
<1>1. pc[t] = "insert" /\ t \notin tokenUsers /\ mainHash[t] # 0
  BY <1>0 DEF Insert, Place, Hashing
<1>2. OthersStay(t)
  BY <1>0 DEF Insert, ProbeOn, Return, Goto, TypeOK, OthersStay
<1>3. UNCHANGED <<implicitProducerHashCount, resizeInProgress, listVars, tokenUsers, token>>
  BY DEF Insert
<1>4. producer[t] \in Linked /\ producer[t] \in Created /\ owner[producer[t]] = t
  BY <1>0, <1>1 DEF ToldTo, Place, Linked
<1>5. mainHash[t] \in DOMAIN implicitProducerHash /\ index[t] \in Nat /\ index[t] + 1 \in Nat
      /\ Slot(mainHash[t], index[t] + 1) \in Nat
  <2>1. mainHash[t] \in DOMAIN implicitProducerHash /\ index[t] \in Nat /\ index[t] + 1 \in Nat
    BY <1>0, <1>1, LocalTypes
  <2> QED BY <1>0, <2>1, TableFacts
<1>6. PICK P \in SUBSET Nat :
        /\ Hash[t] \in P \cup {index[t]}
        /\ \A j \in P : Key(mainHash[t], j) # Empty
                        /\ Slot(mainHash[t], j + 1) \in P \cup {index[t]}
  BY <1>0, <1>1 DEF Search, Probed
<1>7. CASE Occupy(t, producer[t]) /\ Return(t, "insert", producer[t])
  <2>1. /\ Grows /\ Tables'
        /\ DOMAIN implicitProducerHash' = DOMAIN implicitProducerHash
        /\ Len(implicitProducerHash') = Len(implicitProducerHash)
        /\ \A h \in DOMAIN implicitProducerHash' : \A i \in DOMAIN implicitProducerHash'[h] :
             implicitProducerHash'[h][i].value \in Linked \cup {Null}
        /\ implicitProducerHash'[mainHash[t]][Slot(mainHash[t], index[t])].key = t
    BY <1>1, <1>3, <1>4, <1>7, OccupyGrows
  <2>2. pc'[t] = "idle" /\ newCount'[t] = 0 /\ value'[t] = Null
        /\ result'[t] = producer[t]
    BY <1>0, <1>4, <1>7 DEF Return, Goto, TypeOK, Created, Null
  <2>3. TypeOK'
    <3>1. \A h \in DOMAIN implicitProducerHash' : TableOK(implicitProducerHash[h])'
      BY <2>1, TableSetOK DEF Tables
    <3> QED BY <1>0, <1>3, <1>4, <1>7, <2>1, <3>1, ReturnTypes DEF TypeOK, Created, listVars
  <2>4. Place(t)'
    BY <1>0, <1>1, <1>3, <2>2 DEF Place, HasCount, Hashing, Adding, Scanning
  <2>5. \A u : Owns(u)' <=> Owns(u)
    BY <1>3 DEF Owns, Created, listVars
  <2>6. Linked' = Linked
    BY <1>1, <1>2, <1>3, <2>2, ListStays
  <2>7. ToldTo(t)'
    BY <1>0, <1>3, <1>4, <2>2, <2>6 DEF ToldTo, Scanning
  <2>8. Search(t)'
    BY <2>2 DEF Search, HasCount, Hashing, Adding
  <2>9. HashCounted'
    <3>1. CountedIn' = CountedIn
      <4>1. Owns(t)
        BY <1>4 DEF Owns
      <4> QED BY <1>2, <1>3, <2>5, <4>1 DEF CountedIn, Counts, HasCount, OthersStay
    <3> QED BY <1>3, <3>1 DEF Inv, HashCounted
  <2>10. \E h \in DOMAIN implicitProducerHash' : Path(t, h, Hash[t])'
    <3>1. ASSUME NEW h \in DOMAIN implicitProducerHash, h = mainHash[t]
          PROVE  Path(t, h, Hash[t])'
      <4>1. \A k \in Nat : Slot(h, k)' = Slot(h, k) /\ Slot(h, k) \in DOMAIN implicitProducerHash[h]
        BY <1>0, <2>1, TableFacts DEF Grows, Slot, Capacity
      <4>3. \A k \in Nat : Key(h, k) # Empty => Key(h, k)' = Key(h, k)
        BY <2>1, <4>1 DEF Grows, Key
      <4>4. \E k \in Nat : k = index[t]
        BY <1>5
      <4>5. PICK k \in Nat : k = index[t]
        BY <4>4
      <4>6. Key(h, k)' = t
        BY <2>1, <3>1, <4>1, <4>5 DEF Key
      <4>7. \A l \in P : Key(h, l)' # Empty /\ Slot(h, l + 1)' \in P \cup {k}
        BY <1>6, <3>1, <4>1, <4>3, <4>5
      <4>8. Hash[t] \in P \cup {k}
        BY <1>6, <4>5
      <4> QED BY <4>6, <4>7, <4>8, Constants DEF Path
    <3> QED BY <1>5, <2>1, <3>1
  <2> QED BY <1>1, <1>2, <1>3, <1>4, <1>5, <2>1, <2>2, <2>3, <2>4, <2>7, <2>8, <2>9, <2>10, GrowStep DEF listVars
<1>8. CASE ProbeOn(t)
  <2>1. /\ index' = [index EXCEPT ![t] = Slot(mainHash[t], index[t] + 1)]
        /\ Key(mainHash[t], index[t]) # Empty
        /\ UNCHANGED <<implicitProducerHash, pc, mainHash, hash, value, newCount, producer, result>>
    BY <1>8 DEF ProbeOn
  <2>2. TypeOK'
    BY <1>0, <1>3, <1>5, <2>1 DEF TypeOK, Created, listVars
  <2>3. Place(t)'
    BY <1>0, <1>1, <1>3, <2>1 DEF Place, HasCount, listVars
  <2>4. Linked' = Linked /\ \A u : Owns(u)' <=> Owns(u)
    BY <1>1, <1>2, <1>3, <2>1, ListStays
  <2>5. ToldTo(t)'
    BY <1>0, <1>3, <2>1, <2>4 DEF ToldTo
  <2>6. Probed(t)'
    <3>1. index'[t] = Slot(mainHash[t], index[t] + 1)
      BY <1>0, <2>1 DEF TypeOK
    <3>2. PICK Q \in SUBSET Nat : Q = P \cup {index[t]}
      BY <1>5
    <3>3. Hash[t] \in Q \cup {index'[t]}
      BY <1>6, <3>2
    <3>4. \A j \in Q : Key(mainHash[t], j) # Empty /\ Slot(mainHash[t], j + 1) \in Q \cup {index'[t]}
      BY <1>6, <2>1, <3>1, <3>2
    <3>5. \A j \in Q : (Key(mainHash[t], j) # Empty)' /\ (Slot(mainHash[t], j + 1) \in Q \cup {index[t]})'
      BY <2>1, <3>4 DEF Key, Slot, Capacity
    <3> QED BY <3>3, <3>5 DEF Probed
  <2>7. Search(t)'
    BY <1>1, <2>1, <2>6 DEF Search, HasCount
  <2>8. HashCounted'
    <3>1. Counts(t)' <=> Counts(t)
      BY <1>3, <2>1 DEF Counts, HasCount
    <3> QED BY <1>2, <1>3, <2>4, <3>1, CountStays
  <2>9. result'[t] # Null => owner[result'[t]] = t
    BY <2>1 DEF Inv, OneStreamEach
  <2> QED BY <1>1, <1>2, <1>3, <2>1, <2>2, <2>3, <2>5, <2>7, <2>8, <2>9, QuietStep
<1> QED BY <1>7, <1>8 DEF Insert

LEMMA AddLazilyStep ==
  ASSUME Inv, NEW t \in Threads, AddLazily(t), UNCHANGED tokenUsers
  PROVE  Inv'
<1>0. TypeOK /\ Tables /\ Place(t) /\ ToldTo(t) /\ Search(t) /\ Listed
  BY DEF Inv, Places, Told, Searches
<1>1. pc[t] = "lazy" /\ t \notin tokenUsers /\ mainHash[t] # 0
  BY <1>0 DEF AddLazily, Place, Hashing
<1>2. OthersStay(t)
  BY <1>0 DEF AddLazily, ProbeOn, Return, Goto, TypeOK, OthersStay
<1>3. UNCHANGED <<implicitProducerHashCount, resizeInProgress, listVars, tokenUsers, token>>
  BY DEF AddLazily
<1>4. value[t] \in Linked /\ value[t] \in Created /\ owner[value[t]] = t
  BY <1>0, <1>1 DEF ToldTo, Place, Linked
<1>5. mainHash[t] \in DOMAIN implicitProducerHash /\ index[t] \in Nat /\ index[t] + 1 \in Nat
      /\ Slot(mainHash[t], index[t] + 1) \in Nat
  <2>1. mainHash[t] \in DOMAIN implicitProducerHash /\ index[t] \in Nat /\ index[t] + 1 \in Nat
    BY <1>0, <1>1, LocalTypes
  <2> QED BY <1>0, <2>1, TableFacts
<1>7. CASE Occupy(t, value[t]) /\ Return(t, "lazy", value[t])
  <2>1. /\ Grows /\ Tables'
        /\ DOMAIN implicitProducerHash' = DOMAIN implicitProducerHash
        /\ Len(implicitProducerHash') = Len(implicitProducerHash)
        /\ \A h \in DOMAIN implicitProducerHash' : \A i \in DOMAIN implicitProducerHash'[h] :
             implicitProducerHash'[h][i].value \in Linked \cup {Null}
        /\ implicitProducerHash'[mainHash[t]][Slot(mainHash[t], index[t])].key = t
    BY <1>1, <1>3, <1>4, <1>7, OccupyGrows
  <2>2. pc'[t] = "idle" /\ newCount'[t] = 0 /\ value'[t] = Null
        /\ result'[t] = value[t]
    BY <1>0, <1>4, <1>7 DEF Return, Goto, TypeOK, Created, Null
  <2>3. TypeOK'
    <3>1. \A h \in DOMAIN implicitProducerHash' : TableOK(implicitProducerHash[h])'
      BY <2>1, TableSetOK DEF Tables
    <3> QED BY <1>0, <1>3, <1>4, <1>7, <2>1, <3>1, ReturnTypes DEF TypeOK, Created, listVars
  <2>4. Place(t)'
    BY <1>0, <1>1, <1>3, <2>2 DEF Place, HasCount, Hashing, Adding, Scanning
  <2>5. \A u : Owns(u)' <=> Owns(u)
    BY <1>3 DEF Owns, Created, listVars
  <2>6. Linked' = Linked
    BY <1>1, <1>2, <1>3, <2>2, ListStays
  <2>7. ToldTo(t)'
    BY <1>0, <1>3, <1>4, <2>2, <2>6 DEF ToldTo, Scanning
  <2>8. Search(t)'
    BY <2>2 DEF Search, HasCount, Hashing, Adding
  <2>9. HashCounted'
    <3>1. CountedIn' = CountedIn
      <4>1. Owns(t)
        BY <1>4 DEF Owns
      <4> QED BY <1>2, <1>3, <2>5, <4>1 DEF CountedIn, Counts, HasCount, OthersStay
    <3> QED BY <1>3, <3>1 DEF Inv, HashCounted
  <2> QED BY <1>1, <1>2, <1>3, <1>4, <1>5, <2>1, <2>2, <2>3, <2>4, <2>7, <2>8, <2>9, GrowStep DEF listVars
<1>8. CASE ProbeOn(t)
  <2>1. /\ index' = [index EXCEPT ![t] = Slot(mainHash[t], index[t] + 1)]
        /\ Key(mainHash[t], index[t]) # Empty
        /\ UNCHANGED <<implicitProducerHash, pc, mainHash, hash, value, newCount, producer, result>>
    BY <1>8 DEF ProbeOn
  <2>2. TypeOK'
    BY <1>0, <1>3, <1>5, <2>1 DEF TypeOK, Created, listVars
  <2>3. Place(t)'
    BY <1>0, <1>1, <1>3, <2>1 DEF Place, HasCount, Adding, listVars
  <2>4. Linked' = Linked /\ \A u : Owns(u)' <=> Owns(u)
    BY <1>1, <1>2, <1>3, <2>1, ListStays
  <2>5. ToldTo(t)'
    BY <1>0, <1>3, <2>1, <2>4 DEF ToldTo
  <2>7. Search(t)'
    BY <1>1, <2>1 DEF Search, HasCount, Adding
  <2>8. HashCounted'
    <3>1. Counts(t)' <=> Counts(t)
      BY <1>3, <2>1 DEF Counts, HasCount
    <3> QED BY <1>2, <1>3, <2>4, <3>1, CountStays
  <2>9. result'[t] # Null => owner[result'[t]] = t
    BY <2>1 DEF Inv, OneStreamEach
  <2> QED BY <1>1, <1>2, <1>3, <2>1, <2>2, <2>3, <2>5, <2>7, <2>8, <2>9, QuietStep
<1> QED BY <1>7, <1>8 DEF AddLazily
LEMMA MallocStep ==
  ASSUME Inv, NEW t \in Threads, Malloc(t), UNCHANGED tokenUsers
  PROVE  Inv'
<1>0. TypeOK /\ Tables /\ Place(t) /\ ToldTo(t) /\ Search(t) /\ Listed
  BY DEF Inv, Places, Told, Searches
<1>1. pc[t] = "malloc" /\ t \notin tokenUsers /\ pc'[t] \in {"unlock", "refused"}
      /\ pc' \in [Threads -> Points]
  BY <1>0 DEF Malloc, Goto, Place, Hashing, TypeOK, Points
<1>2. OthersStay(t)
  BY <1>0 DEF Malloc, Goto, TypeOK, OthersStay
<1>3. UNCHANGED <<implicitProducerHashCount, resizeInProgress, listVars, tokenUsers, token, hash,
                  index, value, newCount, producer, result>>
  BY DEF Malloc
<1>4. /\ Linked' = Linked /\ Created' = Created
      /\ \A u : Owns(u)' <=> Owns(u)
  BY <1>1, <1>2, <1>3, ListStays
<1>5. ToldTo(t)'
  BY <1>0, <1>1, <1>3, <1>4 DEF ToldTo, Scanning
<1>6. Search(t)'
  BY <1>0, <1>1, <1>3, <1>4 DEF Search, HasCount, Hashing
<1>7. HashCounted'
  <2>1. Counts(t)' <=> Counts(t)
    BY <1>1, <1>3 DEF Counts, HasCount, Hashing
  <2> QED BY <1>2, <1>3, <1>4, <2>1, CountStays
<1>8. result'[t] # Null => owner[result'[t]] = t
  BY <1>3 DEF Inv, OneStreamEach
<1>9. CASE UNCHANGED <<implicitProducerHash, mainHash>>
  <2>1. TypeOK'
    BY <1>0, <1>1, <1>3, <1>9 DEF TypeOK, Created, listVars
  <2>2. Place(t)'
    BY <1>0, <1>1, <1>3, <1>9 DEF Place, HasCount, Hashing, Scanning
  <2> QED BY <1>1, <1>2, <1>3, <1>5, <1>6, <1>7, <1>8, <1>9, <2>1, <2>2, QuietStep
<1>10. CASE \E n \in 1 .. MaxHashSize :
              /\ implicitProducerHash' = Append(implicitProducerHash, Table(n))
              /\ mainHash' = [mainHash EXCEPT ![t] = Len(implicitProducerHash')]
  <2> DEFINE T == implicitProducerHash
  <2>1. PICK n \in Nat \ {0} : T' = Append(T, Table(n))
    BY <1>10, Constants
  <2>2. mainHash' = [mainHash EXCEPT ![t] = Len(T')]
    BY <1>10
  <2>3. T \in Seq(TableSet) /\ Table(n) \in TableSet
    BY <1>0, TableIsTable DEF Tables
  <2>4. /\ T' \in Seq(TableSet) /\ T' # <<>> /\ Len(T') = Len(T) + 1 /\ Len(T) \in Nat
        /\ DOMAIN T' = DOMAIN T \cup {Len(T')}
        /\ T'[Len(T')] = Table(n) /\ \A h \in DOMAIN T : T'[h] = T[h]
    BY <2>1, <2>3, AppendProperties
  <2>5. Grows
    BY <2>4 DEF Grows
  <2>6. \A i \in DOMAIN Table(n) : Table(n)[i].key = Empty /\ Table(n)[i].value = Null
    BY DEF Table
  <2>7. Tables'
    <3>1. ASSUME NEW h \in DOMAIN T', NEW i \in DOMAIN T'[h], T'[h][i].key # Empty
          PROVE  T'[h][i].value \in Created /\ owner[T'[h][i].value] = T'[h][i].key
      BY <1>0, <2>4, <2>6, <3>1 DEF Tables
    <3> QED BY <1>3, <1>4, <2>4, <3>1 DEF Tables, listVars
  <2>8. \A h \in DOMAIN T' : \A i \in DOMAIN T'[h] : T'[h][i].value \in Linked \cup {Null}
    BY <2>4, <2>6 DEF Inv, Told
  <2>9. TypeOK'
    <3>1. \A h \in DOMAIN T' : TableOK(T[h])'
      BY <2>7, TableSetOK DEF Tables
    <3>2. {mainHash', hash'} \subseteq [Threads -> 0 .. Len(T')]
      <4>1. 0 .. Len(T) \subseteq 0 .. Len(T') /\ Len(T') \in 0 .. Len(T')
        BY <2>4
      <4>2. {mainHash, hash} \subseteq [Threads -> 0 .. Len(T)]
        BY <1>0 DEF TypeOK
      <4> QED BY <1>3, <2>2, <4>1, <4>2
    <3> QED BY <1>0, <1>1, <1>3, <3>1, <3>2 DEF TypeOK, Created, listVars
  <2>10. Place(t)'
    <3>1. mainHash'[t] # 0
      BY <1>0, <2>2, <2>4 DEF TypeOK
    <3> QED BY <1>0, <1>1, <1>3, <3>1 DEF Place, HasCount, Hashing, Adding, Scanning, listVars
  <2> QED BY <1>1, <1>2, <1>3, <1>5, <1>6, <1>7, <1>8, <2>5, <2>7, <2>8, <2>9, <2>10, GrowStep
<1> QED BY <1>9, <1>10 DEF Malloc

--------------------------------------------------------------------------------
(* Steps by which tokens come and go.                                      *)
LEMMA TokenStep ==
  ASSUME Inv, NEW t \in Threads, OthersStay(t), t \in tokenUsers,
         UNCHANGED <<hashVars, tokenUsers, producerListTail, producerCount, next, owner, value,
                     result>>,
         pc[t] \in {"idle", "catch"}, pc'[t] = "idle", newCount'[t] = 0,
         TypeOK', ToldTo(t)', inactive' \subseteq Linked, Apart', OneStreamEach'
  PROVE  Inv'
<1>0. TypeOK /\ Tables /\ Place(t) /\ ToldTo(t) /\ Search(t) /\ Listed
  BY DEF Inv, Places, Told, Searches
<1>1. Created' = Created /\ \A u : Owns(u)' <=> Owns(u)
  BY DEF Created, Owns
<1>2. Unlinked' = Unlinked /\ Uncounted' = Uncounted
  BY DEF Unlinked, Uncounted, OthersStay
<1>3. Linked' = Linked
  BY <1>1, <1>2 DEF Linked
<1>4. Listed'
  BY <1>0, <1>1, <1>2, <1>3 DEF Listed, LeadsOn, Reached
<1>5. OneAdds'
  BY DEF Inv, OneAdds, OthersStay
<1>6. Tables'
  BY <1>0, <1>1 DEF Tables, hashVars
<1>7. \A u, h, i : Path(u, h, i)' <=> Path(u, h, i)
  BY DEF Path, Key, Slot, Capacity, hashVars
<1>8. Places'
  <2>1. ASSUME NEW u \in Threads \ {t}
        PROVE  Place(u)'
    BY DEF Inv, Places, Place, HasCount, OthersStay
  <2>2. Place(t)'
    BY <1>0 DEF Place, Hashing, Scanning
  <2> QED BY <2>1, <2>2 DEF Places
<1>9. Told'
  <2>1. \A u \in Threads \ {t} : ToldTo(u)'
    BY <1>3 DEF Inv, Told, ToldTo, OthersStay
  <2> QED BY <1>3, <2>1 DEF Inv, Told, hashVars
<1>10. Findable'
  BY <1>1, <1>7 DEF Inv, Findable, OthersStay, hashVars
<1>11. Searches'
  <2>1. \A u \in Threads \ {t} : Probed(u)' <=> Probed(u)
    BY ProbedSame DEF OthersStay, hashVars
  <2>2. ASSUME NEW u \in Threads \ {t}
        PROVE  Search(u)'
    BY <1>1, <1>7, <2>1 DEF Inv, Searches, Search, HasCount, OthersStay
  <2>3. Search(t)'
    BY DEF Search, HasCount, Hashing, Adding
  <2> QED BY <2>2, <2>3 DEF Searches
<1>12. HashCounted'
  <2>1. Counts(t)' <=> Counts(t)
    BY DEF Counts
  <2> QED BY <1>1, <2>1, CountStays DEF hashVars
<1> QED BY <1>4, <1>5, <1>6, <1>8, <1>9, <1>10, <1>11, <1>12 DEF Inv

LEMMA CatchStep ==
  ASSUME Inv, NEW t \in Threads, Catch(t), UNCHANGED tokenUsers
  PROVE  Inv'
<1>0. TypeOK /\ Tables /\ Place(t) /\ ToldTo(t) /\ Search(t) /\ Listed /\ Told /\ Apart
      /\ OneStreamEach
  BY DEF Inv, Places, Told, Searches
<1>1. /\ pc[t] = "catch" /\ t \in tokenUsers /\ newCount[t] = 0
      /\ producer[t] \in Linked /\ producer[t] \in Created /\ producer[t] \in Producer
      /\ next[producer[t]] \in Linked \cup {Null} /\ next[producer[t]] \in Created \cup {Null}
  BY <1>0 DEF Catch, ToldTo, Place, Scanning, Linked, Listed, LeadsOn
<1>2. OthersStay(t)
  BY <1>0 DEF Catch, ScanOn, Goto, TypeOK, OthersStay
<1>3. UNCHANGED <<hashVars, producerListTail, producerCount, next, owner, mainHash, hash,
                  index, value, newCount, result>>
  BY DEF Catch
<1>4. CASE /\ producer[t] \in inactive
           /\ Goto(t, "catch", "idle")
           /\ inactive' = inactive \ {producer[t]}
           /\ token' = [token EXCEPT ![t] = producer[t]]
           /\ producer' = [producer EXCEPT ![t] = Null]
  <2>1. pc'[t] = "idle" /\ token'[t] = producer[t] /\ owner[producer[t]] = Empty
    BY <1>0, <1>4 DEF Goto, TypeOK, Apart
  <2>2. TypeOK'
    <3>1. pc' \in [Threads -> Points] /\ token' \in [Threads -> Created \cup {Null}]
          /\ producer' \in [Threads -> Created \cup {Null}]
      BY <1>0, <1>1, <1>4 DEF TypeOK, Goto, Points
    <3>2. inactive' \subseteq Created
      BY <1>0, <1>4 DEF TypeOK
    <3>3. UNCHANGED <<implicitProducerHash, implicitProducerHashCount, resizeInProgress, owner>>
      BY <1>3 DEF hashVars
    <3> QED BY <1>0, <1>3, <3>1, <3>2, <3>3 DEF TypeOK, Created
  <2>3. Linked' = Linked
    BY <1>1, <1>2, <1>3, <2>1 DEF Linked, Unlinked, Created, OthersStay
  <2>4. ToldTo(t)'
    BY <1>0, <1>1, <1>3, <2>1, <2>3 DEF ToldTo, Scanning
  <2>5. inactive' \subseteq Linked /\ Apart'
    BY <1>0, <1>3, <1>4 DEF Told, Apart, Owns, Created
  <2>6. OneStreamEach'
    BY <1>0, <1>2, <1>3, <1>4, <2>1 DEF OneStreamEach, OthersStay
  <2> QED BY <1>1, <1>2, <1>3, <2>1, <2>2, <2>4, <2>5, <2>6, TokenStep
<1>5. CASE producer[t] \notin inactive /\ ScanOn(t, "catch") /\ UNCHANGED <<inactive, token>>
  <2>1. pc'[t] \in {"create", "scan"} /\ producer'[t] = next[producer[t]]
        /\ (pc'[t] = "scan" => producer'[t] # Null)
    BY <1>0, <1>5 DEF ScanOn, Goto, TypeOK
  <2>2. TypeOK'
    <3>1. producer' \in [Threads -> Created \cup {Null}] /\ pc' \in [Threads -> Points]
      BY <1>0, <1>1, <1>5 DEF ScanOn, Goto, TypeOK, Points
    <3> QED BY <1>0, <1>3, <1>5, <3>1 DEF TypeOK, Created, hashVars
  <2>3. UNCHANGED <<implicitProducerHash, listVars, tokenUsers, token>>
    BY <1>3, <1>5 DEF hashVars, listVars
  <2>4. Linked' = Linked /\ \A u : Owns(u)' <=> Owns(u)
    BY <1>1, <1>2, <2>1, <2>3, ListStays
  <2>5. Place(t)' /\ ToldTo(t)' /\ Search(t)'
    BY <1>0, <1>1, <1>3, <2>1, <2>3, <2>4 DEF Apart, Place, ToldTo, Search,
      Hashing, Scanning
  <2>6. HashCounted'
    <3>1. Counts(t)' <=> Counts(t)
      BY <1>1 DEF Counts
    <3> QED BY <1>2, <1>3, <2>4, <3>1, CountStays DEF hashVars
  <2>7. result'[t] # Null => owner[result'[t]] = t
    BY <1>0, <1>3 DEF OneStreamEach
  <2> QED BY <1>1, <1>2, <2>1, <2>2, <2>3, <2>5, <2>6, <2>7, QuietStep
<1> QED BY <1>4, <1>5 DEF Catch

LEMMA DropTokenStep ==
  ASSUME Inv, NEW t \in Threads, DropToken(t), UNCHANGED tokenUsers
  PROVE  Inv'
<1>0. TypeOK /\ Place(t) /\ ToldTo(t) /\ Told /\ Apart /\ OneStreamEach
  BY DEF Inv, Places, Told
<1>1. pc[t] = "idle" /\ t \in tokenUsers /\ newCount[t] = 0 /\ token[t] # Null
      /\ token[t] \in Linked /\ token[t] \in Created /\ owner[token[t]] = Empty
  BY <1>0 DEF DropToken, ToldTo, Place, OneStreamEach, Linked
<1>2. OthersStay(t)
  BY <1>0 DEF DropToken, OthersStay, localVars
<1>3. UNCHANGED <<hashVars, producerListTail, producerCount, next, owner, pc, mainHash, hash,
                  index, value, newCount, producer, result>>
  BY DEF DropToken, localVars
<1>4. token' = [token EXCEPT ![t] = Null] /\ inactive' = inactive \cup {token[t]}
  BY DEF DropToken
<1>5. TypeOK'
  BY <1>0, <1>1, <1>3, <1>4 DEF TypeOK, Created, hashVars
<1>6. Linked' = Linked
  BY <1>3 DEF Linked, Unlinked, Created
<1>7. ToldTo(t)'
  BY <1>0, <1>1, <1>3, <1>4, <1>6 DEF ToldTo, Scanning, TypeOK
<1>8. inactive' \subseteq Linked /\ Apart'
  BY <1>0, <1>1, <1>3, <1>4 DEF Told, Apart, Owns, Created
<1>9. OneStreamEach'
  BY <1>0, <1>1, <1>3, <1>4 DEF OneStreamEach, TypeOK
<1> QED BY <1>1, <1>2, <1>3, <1>5, <1>7, <1>8, <1>9, TokenStep

--------------------------------------------------------------------------------
(* How a producer gets into the list.                                      *)
LEMMA CreateStep ==
  ASSUME Inv, NEW t \in Threads, Create(t), UNCHANGED tokenUsers
  PROVE  Inv'
<1>0. TypeOK /\ Tables /\ Place(t) /\ ToldTo(t) /\ Search(t) /\ Listed /\ OneStreamEach
  BY DEF Inv, Places, Told, Searches
<1>1. pc[t] = "create" /\ (ForToken(t) <=> t \in tokenUsers)
  BY <1>0 DEF Create, Goto, Place, ForToken, HasCount, Adding
<1>2. OthersStay(t)
  BY <1>0 DEF Create, Goto, TypeOK, OthersStay
<1>3. UNCHANGED <<hashVars, producerListTail, producerCount, next, inactive, token, mainHash, hash,
                  index, value, newCount, result>>
  BY DEF Create
<1>4. CASE /\ Goto(t, "create", IF ForToken(t) THEN "idle" ELSE "uncount")
           /\ UNCHANGED <<owner, producer>>
  <2>1. pc'[t] = (IF t \in tokenUsers THEN "idle" ELSE "uncount") /\ pc' \in [Threads -> Points]
    BY <1>0, <1>1, <1>4 DEF Goto, TypeOK, Points
  <2>2. UNCHANGED <<implicitProducerHash, listVars, tokenUsers, token>>
    BY <1>3, <1>4 DEF hashVars, listVars
  <2>3. TypeOK'
    BY <1>0, <1>3, <1>4, <2>1, <2>2 DEF TypeOK, Created, hashVars
  <2>4. Linked' = Linked /\ \A u : Owns(u)' <=> Owns(u)
    BY <1>1, <1>2, <2>1, <2>2, ListStays
  <2>5. Place(t)' /\ ToldTo(t)' /\ Search(t)'
    BY <1>0, <1>1, <1>3, <2>1, <2>2, <2>4 DEF Place, ToldTo, Search, HasCount,
      Hashing, Adding, Scanning
  <2>6. HashCounted'
    <3>1. Counts(t)' <=> Counts(t)
      BY <1>1, <2>1 DEF Counts, HasCount, Hashing, Adding
    <3> QED BY <1>2, <1>3, <2>4, <3>1, CountStays DEF hashVars
  <2>7. result'[t] # Null => owner[result'[t]] = t
    BY <1>0, <1>3 DEF OneStreamEach
  <2> QED BY <1>1, <1>2, <2>1, <2>2, <2>3, <2>5, <2>6, <2>7, QuietStep
<1>5. CASE /\ Goto(t, "create", "list")
           /\ Len(owner) < MaxProducers
           /\ owner' = Append(owner, IF ForToken(t) THEN Empty ELSE t)
           /\ producer' = [producer EXCEPT ![t] = Len(owner')]
  <2> DEFINE p == Len(owner')
             o == IF t \in tokenUsers THEN Empty ELSE t
  <2>1. pc'[t] = "list" /\ pc' \in [Threads -> Points]
    BY <1>0, <1>5 DEF Goto, TypeOK, Points
  <2>2. /\ owner' \in Seq(Threads \cup {Empty}) /\ Len(owner') = Len(owner) + 1
        /\ Len(owner) \in Nat
        /\ owner'[p] = o /\ \A q \in Created : owner'[q] = owner[q]
    <3>1. owner \in Seq(Threads \cup {Empty}) /\ o \in Threads \cup {Empty}
      BY <1>0 DEF TypeOK
    <3>2. owner' = Append(owner, o)
      BY <1>1, <1>5
    <3> QED BY <3>1, <3>2, AppendProperties DEF Created
  <2>3. /\ Created' = Created \cup {p} /\ p \notin Created /\ p \in Producer
        /\ Created' \subseteq Producer
    BY <1>5, <2>2, Constants DEF Created, Producer
  <2>4. producer' \in [Threads -> Created' \cup {Null}] /\ producer'[t] = p
    BY <1>0, <1>5, <2>3 DEF TypeOK
  <2> HIDE DEF p
  <2>5. Linked' = Linked
    <3>1. Unlinked' = Unlinked \cup {p}
      BY <1>1, <1>2, <2>1, <2>4 DEF Unlinked, OthersStay
    <3> QED BY <2>3, <3>1 DEF Linked
  <2>6. (Created \ Uncounted)' = Created \ Uncounted
    <3>1. Uncounted' = Uncounted \cup {p}
      BY <1>1, <1>2, <2>1, <2>4 DEF Uncounted, OthersStay
    <3> QED BY <2>3, <3>1
  <2>7. Linked \subseteq Created
    BY DEF Linked
  <2>8. TypeOK'
    BY <1>0, <1>3, <2>1, <2>2, <2>3, <2>4 DEF TypeOK, hashVars
  <2>9. Listed'
    <3>1. LeadsOn(Linked)'
      BY <1>0, <1>3, <2>5 DEF Listed, LeadsOn
    <3>2. Linked' \subseteq Reached'
      <4>1. ASSUME NEW q \in Linked, NEW S \in SUBSET (Created \cup {p}),
                   producerListTail \in S \cup {Null}, LeadsOn(S)
            PROVE  q \in S
        <5>1. producerListTail \in (S \cap Linked) \cup {Null} /\ LeadsOn(S \cap Linked)
          BY <1>0, <4>1 DEF Listed, LeadsOn
        <5>2. S \cap Linked \in SUBSET Created /\ q \in Reached
          BY <1>0, <2>7 DEF Listed
        <5> QED BY <5>1, <5>2 DEF Reached
      <4> QED BY <1>3, <2>3, <2>5, <2>7, <4>1 DEF Reached, LeadsOn
    <3> QED BY <1>0, <1>3, <2>3, <2>5, <2>6, <3>1, <3>2 DEF Listed
  <2>o. \A u \in Threads :
          /\ pc[u] \in {"list", "link", "insert"} => producer[u] \in Created
          /\ pc[u] = "lazy" => value[u] \in Created
    BY <1>0 DEF Inv, Places, Place, TypeOK
  <2>10. OneAdds'
    BY <1>2, <2>3, <2>4, <2>o DEF Inv, OneAdds, OthersStay
  <2>11. Tables'
    BY <1>0, <1>3, <2>2, <2>3 DEF Tables, hashVars
  <2>12. Places'
    <3>1. ASSUME NEW u \in Threads \ {t}
          PROVE  Place(u)'
      BY <1>2, <2>2, <2>o DEF Inv, Places, Place, HasCount, OthersStay
    <3>2. Place(t)'
      BY <1>0, <1>1, <1>3, <2>1, <2>2, <2>3, <2>4 DEF Place, HasCount, Hashing,
        Adding, Scanning, Null, Producer
    <3> QED BY <3>1, <3>2 DEF Places
  <2>13. Told'
    <3>1. \A u \in Threads : ToldTo(u)'
      BY <1>2, <1>3, <2>1, <2>5 DEF Inv, Told, ToldTo, OthersStay, Scanning
    <3> QED BY <1>3, <2>5, <3>1 DEF Inv, Told, hashVars
  <2>14. Apart'
    <3>1. \A p0 \in inactive' : owner'[p0] = Empty
      BY <1>0, <1>3, <2>2 DEF Inv, Apart, TypeOK
    <3>2. \A u \in tokenUsers : u \in Threads
      BY <1>0, TokenUsersAreThreads DEF TypeOK
    <3>3. \A u \in tokenUsers : ~Owns(u)'
      BY <2>2, <2>3, <3>2, Constants DEF Inv, Apart, Owns
    <3> QED BY <3>1, <3>3 DEF Apart
  <2>15. \A u \in Threads \ {t} : Owns(u)' <=> Owns(u)
    BY <2>2, <2>3, Constants DEF Owns
  <2>16. \A u, h, i : Path(u, h, i)' <=> Path(u, h, i)
    BY <1>3 DEF Path, Key, Slot, Capacity, hashVars
  <2>17. Findable'
    BY <1>2, <1>3, <2>1, <2>15, <2>16 DEF Inv, Findable, OthersStay, hashVars
  <2>18. Searches'
    <3>1. \A u \in Threads \ {t} : Probed(u)' <=> Probed(u)
      BY <1>2, <1>3, ProbedSame DEF OthersStay, hashVars
    <3>2. ASSUME NEW u \in Threads \ {t}
          PROVE  Search(u)'
      BY <1>2, <2>15, <2>16, <3>1 DEF Inv, Searches, Search, HasCount,
        OthersStay
    <3>3. Search(t)'
      BY <2>1 DEF Search
    <3> QED BY <3>2, <3>3 DEF Searches
  <2>19. HashCounted'
    <3>1. CountedIn' = CountedIn
      <4>1. Owns(t)' <=> (Owns(t) \/ t \notin tokenUsers)
        BY <2>2, <2>3, Constants DEF Owns
      <4>2. Counts(t) <=> t \notin tokenUsers
        BY <1>1 DEF Counts, HasCount, Adding
      <4>3. Counts(t)' => t \notin tokenUsers
        BY DEF Counts
      <4>4. \A u \in Threads \ {t} : Counts(u)' <=> Counts(u)
        BY <1>2 DEF Counts, HasCount, OthersStay
      <4> QED BY <2>15, <4>1, <4>2, <4>3, <4>4 DEF CountedIn
    <3> QED BY <1>3, <3>1 DEF Inv, HashCounted, hashVars
  <2>20. OneStreamEach'
    <3>1. t \notin tokenUsers => ~Owns(t)
      BY <1>0, <1>1 DEF Search, HasCount, Adding
    <3>2. DOMAIN owner = Created /\ DOMAIN owner' = Created \cup {p}
      BY <1>0, <2>2, <2>3 DEF TypeOK, Created
    <3>3. ASSUME NEW q \in DOMAIN owner', NEW r \in DOMAIN owner', owner'[q] = owner'[r], owner'[q] # Empty
          PROVE  q = r
      BY <1>0, <2>2, <3>1, <3>2, <3>3 DEF OneStreamEach, Owns
    <3>4. \A u \in Threads : (result[u] # Null => result[u] \in Created) /\ (token[u] # Null => token[u] \in Created)
      BY <1>0 DEF TypeOK
    <3> QED BY <1>0, <1>3, <2>2, <3>3, <3>4 DEF OneStreamEach
  <2> QED BY <2>8, <2>9, <2>10, <2>11, <2>12, <2>13, <2>14, <2>17, <2>18, <2>19, <2>20 DEF Inv
<1> QED BY <1>4, <1>5 DEF Create

(* What does not depend on the list, when a step of t links a producer or  *)
(* gets ready to.                                                          *)
LEMMA LinkingStep ==
  ASSUME Inv, NEW t \in Threads, OthersStay(t),
         UNCHANGED <<hashVars, owner, inactive, tokenUsers, index, mainHash>>,
         pc[t] \in {"list", "link"}, pc'[t] \in {"link", "insert", "idle"},
         pc'[t] = "idle" => t \in tokenUsers, pc'[t] = "insert" => t \notin tokenUsers,
         Linked \subseteq Linked',
         TypeOK', Listed', OneAdds', Place(t)', ToldTo(t)', OneStreamEach'
  PROVE  Inv'
<1>0. TypeOK /\ Tables /\ Place(t) /\ ToldTo(t) /\ Search(t) /\ Listed /\ Findable
  BY DEF Inv, Places, Told, Searches
<1>1. Created' = Created /\ \A u : Owns(u)' <=> Owns(u)
  BY DEF Created, Owns
<1>2. Tables'
  BY <1>0, <1>1 DEF Tables, hashVars
<1>3. \A u, h, i : Path(u, h, i)' <=> Path(u, h, i)
  BY DEF Path, Key, Slot, Capacity, hashVars
<1>4. Places'
  <2>1. ASSUME NEW u \in Threads \ {t}
        PROVE  Place(u)'
    BY DEF Inv, Places, Place, HasCount, OthersStay
  <2> QED BY <2>1 DEF Places
<1>5. Told'
  <2>1. \A u \in Threads \ {t} : ToldTo(u)'
    BY DEF Inv, Told, ToldTo, OthersStay
  <2> QED BY <2>1 DEF Inv, Told, hashVars
<1>6. Apart'
  BY <1>1 DEF Inv, Apart
<1>7. Findable'
  <2>1. t \in tokenUsers => ~Owns(t)
    BY DEF Inv, Apart
  <2> QED BY <1>0, <1>1, <1>3, <2>1 DEF Findable, OthersStay, hashVars
<1>8. Searches'
  <2>1. ASSUME NEW u \in Threads \ {t}
        PROVE  Search(u)'
    <3>1. Probed(u)' <=> Probed(u)
      BY ProbedSame DEF OthersStay, hashVars
    <3> QED BY <1>1, <1>3, <3>1 DEF Inv, Searches, Search, HasCount, OthersStay
  <2>2. pc'[t] = "insert" => Probed(t)'
    <3>1. pc'[t] = "insert" => index'[t] = Hash[t]
      <4>1. HasCount(t) /\ pc[t] # "insert"
        BY DEF HasCount, Adding
      <4> QED BY <1>0, <4>1 DEF Place
    <3>2. {} \in SUBSET Nat
      OBVIOUS
    <3> QED BY <3>1, <3>2 DEF Probed
  <2>3. Search(t)'
    BY <2>2 DEF Search, HasCount, Hashing, Adding
  <2> QED BY <2>1, <2>3 DEF Searches
<1>9. HashCounted'
  <2>1. Counts(t)' <=> Counts(t)
    BY DEF Counts, HasCount, Hashing, Adding
  <2> QED BY <1>1, <2>1, CountStays DEF hashVars
<1> QED BY <1>2, <1>4, <1>5, <1>6, <1>7, <1>8, <1>9 DEF Inv

LEMMA CountProducerStep ==
  ASSUME Inv, NEW t \in Threads, CountProducer(t), UNCHANGED tokenUsers
  PROVE  Inv'
<1>0. TypeOK /\ Tables /\ Place(t) /\ ToldTo(t) /\ Search(t) /\ Listed /\ OneStreamEach /\ OneAdds
  BY DEF Inv, Places, Told, Searches
<1> DEFINE p == producer[t]
<1>1. pc[t] = "list" /\ pc'[t] = "link" /\ pc' \in [Threads -> Points]
  BY <1>0 DEF CountProducer, Goto, TypeOK, Points
<1>2. OthersStay(t)
  BY <1>0 DEF CountProducer, Goto, OthersStay, localVars
<1>3. UNCHANGED <<hashVars, producerListTail, owner, inactive, token, mainHash, hash, index, value,
                  newCount, producer, result>>
  BY DEF CountProducer, localVars
<1>4. p \in Created /\ p \in Producer /\ p \in Unlinked /\ p \notin Linked /\ p \in Uncounted
  BY <1>0, <1>1 DEF Place, TypeOK, Listed, Unlinked, Uncounted, Linked
<1>5. /\ next' \in [Producer -> Created \cup {Null}]
      /\ \A q \in Producer \ {p} : next'[q] = next[q]
  BY <1>0, <1>4 DEF CountProducer, TypeOK
<1>6. Created' = Created /\ Unlinked' = Unlinked /\ Linked' = Linked
      /\ \A u : Owns(u)' <=> Owns(u)
  <2>1. Created' = Created /\ \A u : Owns(u)' <=> Owns(u)
    BY <1>3 DEF Created, Owns
  <2>2. Unlinked' = Unlinked
    BY <1>1, <1>2, <1>3 DEF Unlinked, OthersStay
  <2> QED BY <2>1, <2>2 DEF Linked
<1>7. (Created \ Uncounted)' = (Created \ Uncounted) \cup {p}
  <2>1. Uncounted' = Uncounted \ {p}
    BY <1>0, <1>1, <1>2, <1>3 DEF Uncounted, OthersStay, OneAdds
  <2> QED BY <1>4, <1>6, <2>1
<1>8. producerCount' = Cardinality((Created \ Uncounted)') /\ producerCount' \in 0 .. Len(owner)
  <2>1. IsFiniteSet(Created) /\ Cardinality(Created) = Len(owner) /\ Len(owner) \in Nat
    <3>1. Len(owner) \in Nat
      BY <1>0 DEF TypeOK
    <3>2. 1 \in Int /\ Len(owner) \in Int
      BY <3>1
    <3>3. IsFiniteSet(1 .. Len(owner))
          /\ Cardinality(1 .. Len(owner)) = IF 1 > Len(owner) THEN 0 ELSE Len(owner) - 1 + 1
      BY <3>2, FS_Interval
    <3> QED BY <3>1, <3>3 DEF Created
  <2>2. IsFiniteSet(Created \ Uncounted) /\ Cardinality(Created \ Uncounted) \in Nat
    BY <2>1, FS_Subset, FS_CardinalityType
  <2>3. Cardinality((Created \ Uncounted) \cup {p}) = Cardinality(Created \ Uncounted) + 1
    BY <1>4, <2>2, FS_AddElement
  <2>4. Cardinality((Created \ Uncounted)') <= Cardinality(Created)
    BY <1>4, <1>7, <2>1, FS_Subset
  <2>5. producerCount' = producerCount + 1 /\ producerCount = Cardinality(Created \ Uncounted)
    BY <1>0 DEF CountProducer, Listed
  <2>6. producerCount' = Cardinality((Created \ Uncounted)')
    BY <1>7, <2>3, <2>5
  <2>7. producerCount' \in Nat /\ producerCount' <= Len(owner)
    BY <2>1, <2>2, <2>4, <2>5, <2>6
  <2> QED BY <2>1, <2>6, <2>7
<1>9. TypeOK'
  BY <1>0, <1>1, <1>3, <1>5, <1>8 DEF TypeOK, Created, hashVars
<1>10. Listed'
  <2>1. LeadsOn(Linked)'
    BY <1>0, <1>4, <1>5, <1>6 DEF Listed, LeadsOn, Linked
  <2>2. Linked \subseteq Reached'
    <3>1. ASSUME NEW q \in Linked, NEW S \in SUBSET Created,
                 producerListTail \in S \cup {Null}, LeadsOn(S)'
          PROVE  q \in S
      <4>1. producerListTail \in (S \cap Linked) \cup {Null} /\ LeadsOn(S \cap Linked)
        BY <1>0, <1>4, <1>5, <3>1 DEF Listed, LeadsOn, Linked
      <4>2. S \cap Linked \in SUBSET Created /\ q \in Reached
        BY <1>0 DEF Listed
      <4> QED BY <4>1, <4>2 DEF Reached
    <3>2. Linked \subseteq Created
      BY DEF Linked
    <3> QED BY <1>3, <1>6, <3>1, <3>2 DEF Reached, LeadsOn
  <2> QED BY <1>0, <1>3, <1>6, <1>8, <2>1, <2>2 DEF Listed
<1>11. OneAdds'
  BY <1>0, <1>1, <1>2, <1>3 DEF OneAdds, OthersStay
<1>12. Place(t)'
  BY <1>0, <1>1, <1>3 DEF Place, HasCount, Hashing, Adding, Scanning
<1>13. ToldTo(t)'
  BY <1>0, <1>1, <1>3, <1>6 DEF ToldTo, Scanning
<1>14. OneStreamEach'
  BY <1>0, <1>3 DEF OneStreamEach
<1> QED BY <1>1, <1>2, <1>3, <1>6, <1>9, <1>10, <1>11, <1>12, <1>13, <1>14, LinkingStep DEF hashVars


LEMMA LinkStep ==
  ASSUME Inv, NEW t \in Threads, Link(t), UNCHANGED tokenUsers
  PROVE  Inv'
<1>0. TypeOK /\ Tables /\ Place(t) /\ ToldTo(t) /\ Search(t) /\ Listed /\ OneStreamEach /\ OneAdds
  BY DEF Inv, Places, Told, Searches
<1>p. PICK p \in Producer : p = producer[t] /\ p \in Created /\ p \in Unlinked /\ p \notin Linked
      /\ owner[p] = IF t \in tokenUsers THEN Empty ELSE t
  BY <1>0 DEF Link, Place, TypeOK, Listed, Unlinked, Linked
<1>1. pc[t] = "link" /\ (ForToken(t) <=> t \in tokenUsers)
  BY <1>0 DEF Link, Place, ForToken, HasCount, Adding
<1>2. OthersStay(t)
  BY <1>0 DEF Link, Goto, TypeOK, OthersStay
<1>3. UNCHANGED <<hashVars, producerCount, owner, inactive, mainHash, hash, index, value, newCount,
                  result>>
  BY DEF Link
<1>4. Created' = Created /\ \A u : Owns(u)' <=> Owns(u)
  BY <1>3 DEF Created, Owns
<1>5. CASE /\ producerListTail # next[producer[t]]
           /\ next' = [next EXCEPT ![producer[t]] = producerListTail]
           /\ UNCHANGED <<pc, producerListTail, token, producer>>
  <2>1. /\ next' \in [Producer -> Created \cup {Null}]
        /\ \A q \in Producer \ {p} : next'[q] = next[q]
    BY <1>0, <1>p, <1>5 DEF TypeOK
  <2>2. Unlinked' = Unlinked /\ Uncounted' = Uncounted /\ Linked' = Linked
    BY <1>4, <1>5 DEF Unlinked, Uncounted, Linked
  <2>3. TypeOK'
    BY <1>0, <1>3, <1>5, <2>1 DEF TypeOK, Created, hashVars
  <2>4. Listed'
    <3>1. LeadsOn(Linked)'
      BY <1>0, <1>p, <2>1, <2>2 DEF Listed, LeadsOn, Linked
    <3>2. Linked \subseteq Reached'
      <4>1. ASSUME NEW q \in Linked, NEW S \in SUBSET Created,
                   producerListTail \in S \cup {Null}, LeadsOn(S)'
            PROVE  q \in S
        <5>1. producerListTail \in (S \cap Linked) \cup {Null} /\ LeadsOn(S \cap Linked)
          BY <1>0, <1>p, <2>1, <4>1 DEF Listed, LeadsOn, Linked
        <5>2. S \cap Linked \in SUBSET Created /\ q \in Reached
          BY <1>0 DEF Listed
        <5> QED BY <5>1, <5>2 DEF Reached
      <4>2. Linked \subseteq Created
        BY DEF Linked
      <4> QED BY <1>4, <1>5, <4>1, <4>2 DEF Reached, LeadsOn
    <3> QED BY <1>0, <1>3, <1>4, <1>5, <2>2, <3>1, <3>2 DEF Listed
  <2>5. OneAdds' /\ OneStreamEach' /\ Place(t)' /\ ToldTo(t)'
    BY <1>0, <1>3, <1>5, <2>2 DEF OneAdds, OneStreamEach, Place, HasCount,
      ToldTo
  <2> QED BY <1>1, <1>2, <1>3, <1>5, <2>2, <2>3, <2>4, <2>5, LinkingStep DEF hashVars
<1>6. CASE /\ producerListTail = next[producer[t]]
           /\ producerListTail' = producer[t]
           /\ UNCHANGED next
  <2>1. /\ pc'[t] = (IF t \in tokenUsers THEN "idle" ELSE "insert") /\ pc' \in [Threads -> Points]
        /\ token'[t] = (IF t \in tokenUsers THEN p ELSE token[t])
        /\ token' \in [Threads -> Created \cup {Null}]
        /\ producer'[t] = (IF t \in tokenUsers THEN Null ELSE p)
        /\ producer' \in [Threads -> Created \cup {Null}]
    <3>1. CASE t \in tokenUsers
      BY <1>0, <1>p, <1>1, <1>6, <3>1 DEF Link, Goto, TypeOK, Points
    <3>2. CASE t \notin tokenUsers
      BY <1>0, <1>p, <1>1, <1>6, <3>2 DEF Link, Goto, TypeOK, Points
    <3> QED BY <3>1, <3>2
  <2>2. Unlinked' = Unlinked \ {p} /\ Uncounted' = Uncounted
    BY <1>0, <1>p, <1>1, <1>2, <2>1 DEF Unlinked, Uncounted, OthersStay,
      OneAdds
  <2>3. Linked' = Linked \cup {p}
    BY <1>p, <1>4, <2>2 DEF Linked
  <2>4. TypeOK'
    BY <1>0, <1>p, <1>3, <1>6, <2>1 DEF TypeOK, Created, hashVars
  <2>5. Listed'
    <3>1. LeadsOn(Linked)'
      BY <1>0, <1>p, <1>6, <2>3 DEF Listed, LeadsOn, Linked
    <3>2. Linked' \subseteq Reached'
      <4>1. ASSUME NEW q \in Linked, NEW S \in SUBSET Created, p \in S, LeadsOn(S)
            PROVE  q \in S
        <5>1. producerListTail \in S \cup {Null} /\ q \in Reached
          BY <1>0, <1>p, <1>6, <4>1 DEF LeadsOn, Listed
        <5> QED BY <4>1, <5>1 DEF Reached
      <4>2. Linked \subseteq Created /\ p \notin {Null}
        BY <1>p DEF Linked, Producer, Null
      <4> QED BY <1>p, <1>4, <1>6, <2>3, <4>1, <4>2 DEF Reached, LeadsOn
    <3> QED BY <1>0, <1>p, <1>3, <1>4, <1>6, <2>2, <2>3, <3>1, <3>2 DEF Listed
  <2>6. OneAdds'
    BY <1>0, <1>2, <2>1 DEF OneAdds, OthersStay
  <2>7. Place(t)'
    BY <1>0, <1>p, <1>1, <1>3, <2>1 DEF Place, HasCount, Hashing, Adding,
      Scanning
  <2>8. ToldTo(t)'
    BY <1>0, <1>3, <2>1, <2>3 DEF ToldTo, Scanning
  <2>9. OneStreamEach'
    <3>1. p \notin inactive /\ \A u \in Threads : token[u] # p
      <4>1. p # Null /\ inactive \subseteq Linked /\ \A u \in Threads : ToldTo(u)
        BY <1>p DEF Inv, Told, Producer, Null
      <4> QED BY <1>p, <4>1 DEF ToldTo
    <3> QED BY <1>0, <1>p, <1>2, <1>3, <2>1, <3>1 DEF OneStreamEach, OthersStay
  <2> QED BY <1>1, <1>2, <1>3, <2>1, <2>3, <2>4, <2>5, <2>6, <2>7, <2>8, <2>9, LinkingStep DEF hashVars
<1> QED BY <1>5, <1>6 DEF Link

--------------------------------------------------------------------------------
LEMMA InitInv == Init => Inv
<1> SUFFICES ASSUME Init
             PROVE  Inv
  OBVIOUS
<1>1. InitialHashSize \in Nat \ {0} /\ Cardinality(Threads) \in Nat
  BY Constants, FS_CardinalityType
<1>2. Created = {} /\ Linked = {} /\ Uncounted = {} /\ Unlinked = {}
      /\ \A u : ~Owns(u)
  BY DEF Init, Created, Linked, Uncounted, Unlinked, Owns
<1>3. /\ Table(InitialHashSize) \in TableSet /\ implicitProducerHash = <<Table(InitialHashSize)>>
      /\ \A i \in DOMAIN Table(InitialHashSize) :
           Table(InitialHashSize)[i].key = Empty /\ Table(InitialHashSize)[i].value = Null
  BY <1>1, TableIsTable DEF Init, Table
<1>4. DOMAIN implicitProducerHash = {1} /\ implicitProducerHash[1] = Table(InitialHashSize)
      /\ implicitProducerHash \in Seq(TableSet) /\ implicitProducerHash # <<>>
      /\ Len(implicitProducerHash) = 1
  BY <1>3
<1>5. TypeOK
  <2>1. \A h \in DOMAIN implicitProducerHash : TableOK(implicitProducerHash[h])
    BY <1>3, <1>4, TableSetOK
  <2>2. 0 \in 0 .. Cardinality(Threads) /\ 0 \in 0 .. 1 /\ "idle" \in Points /\ Len(owner) = 0
        /\ owner \in Seq(Threads \cup {Empty})
    BY <1>1 DEF Points, Init
  <2>3. /\ implicitProducerHashCount \in 0 .. Cardinality(Threads)
        /\ newCount \in [Threads -> 0 .. Cardinality(Threads)]
        /\ {mainHash, hash} \subseteq [Threads -> 0 .. Len(implicitProducerHash)]
    BY <1>4, <2>2 DEF Init
  <2>4. /\ producerListTail \in Created \cup {Null} /\ producerCount \in 0 .. Len(owner)
        /\ next \in [Producer -> Created \cup {Null}]
        /\ token \in [Threads -> Created \cup {Null}]
        /\ {value, producer, result} \subseteq [Threads -> Created \cup {Null}]
        /\ inactive \subseteq Created
    BY <2>2 DEF Init
  <2>5. /\ resizeInProgress \in BOOLEAN /\ tokenUsers \in TokenUsers /\ pc \in [Threads -> Points]
        /\ index \in [Threads -> Nat]
    BY <2>2 DEF Init
  <2> QED BY <2>1, <2>2, <2>3, <2>4, <2>5 DEF TypeOK
<1>6. Tables /\ Told
  BY <1>2, <1>3, <1>4 DEF Init, Tables, Told, ToldTo, Scanning
<1>7. Places /\ Searches /\ Findable
  BY <1>2 DEF Init, Places, Place, Searches, Search, Findable, HasCount,
    Hashing, Adding, Scanning
<1>8. OneAdds /\ Apart /\ OneStreamEach
  BY <1>2 DEF Init, OneAdds, Apart, OneStreamEach
<1>9. Listed
  BY <1>2, FS_EmptySet DEF Init, Listed, LeadsOn
<1>10. HashCounted
  <2>1. CountedIn = {}
    BY <1>2 DEF Init, CountedIn, Counts, HasCount, Hashing, Adding
  <2> QED BY <2>1, FS_EmptySet DEF Init, HashCounted
<1> QED BY <1>5, <1>6, <1>7, <1>8, <1>9, <1>10 DEF Inv

LEMMA NextInv == Inv /\ [Next]_vars => Inv'
<1> SUFFICES ASSUME Inv, [Next]_vars
             PROVE  Inv'
  OBVIOUS
<1>1. CASE UNCHANGED vars
  <2>1. UNCHANGED <<hashVars, listVars, tokenUsers, token, pc, localVars, result>>
    BY <1>1 DEF vars
  <2>2. TypeOK' /\ Tables' /\ Places' /\ OneAdds' /\ OneStreamEach'
    BY <2>1 DEF Inv, TypeOK, Created, Tables, Places, Place, HasCount, OneAdds,
      OneStreamEach, hashVars, listVars, localVars
  <2>3. Created' = Created /\ Unlinked' = Unlinked /\ Linked' = Linked /\ Uncounted' = Uncounted
        /\ Reached' = Reached /\ \A u : Owns(u)' <=> Owns(u)
    BY <2>1 DEF Created, Unlinked, Linked, Uncounted, Reached, LeadsOn, Owns,
      listVars, localVars
  <2>4. Listed' /\ Told' /\ Apart'
    BY <2>1, <2>3 DEF Inv, Listed, LeadsOn, Told, ToldTo, Apart, hashVars,
      listVars, localVars
  <2>5. \A u, h, i : Path(u, h, i)' <=> Path(u, h, i)
    BY <2>1 DEF Path, Key, Slot, Capacity, hashVars
  <2>6. \A u : Probed(u)' <=> Probed(u)
    BY <2>1, ProbedSame DEF hashVars, localVars
  <2>7. Findable' /\ Searches'
    BY <2>1, <2>3, <2>5, <2>6 DEF Inv, Findable, Searches, Search, HasCount,
      hashVars, localVars
  <2>8. HashCounted'
    <3>1. CountedIn' = CountedIn
      BY <2>1, <2>3 DEF CountedIn, Counts, HasCount
    <3> QED BY <2>1, <3>1 DEF Inv, HashCounted, hashVars
  <2> QED BY <2>2, <2>4, <2>7, <2>8 DEF Inv
<1>2. ASSUME NEW t \in Threads, UNCHANGED tokenUsers,
             GetOrAdd(t) \/ MakeToken(t) \/ DropToken(t) \/ GoOn(t)
      PROVE  Inv'
  BY <1>2, GetOrAddStep, MakeTokenStep, DropTokenStep, FoundStep, NotFoundStep,
    AddLazilyStep, CountStep, TryResizeStep, LockedStep, MallocStep,
    RefusedStep, UnlockRefusedStep, UnlockStep, CheckRoomStep, UncountStep,
    InsertStep, CreateStep, CountProducerStep, LinkStep, ScanStep, CatchStep
    DEF GoOn
<1> QED BY <1>1, <1>2 DEF Next

LEMMA InvAlways == Spec => []Inv
BY InitInv, NextInv, PTL DEF Spec

--------------------------------------------------------------------------------
(* Every variable keeps its type; the count of the tables is that of the   *)
(* threads that have an entry or are about to get one.                     *)
THEOREM TypeCorrect == Spec => []TypeOK
<1>1. Inv => TypeOK
  BY DEF Inv
<1> QED BY <1>1, InvAlways, PTL

(* A thread without a token keeps its one stream, and tokens do not share. *)
THEOREM OneStreamEachAlways == Spec => []OneStreamEach
<1>1. Inv => OneStreamEach
  BY DEF Inv
<1> QED BY <1>1, InvAlways, PTL

(* Whoever walks the list meets every producer that somebody was told of.  *)
THEOREM ListCompleteAlways == Spec => []ListComplete
<1>1. ASSUME Inv
      PROVE  ListComplete
  <2>1. /\ Linked \subseteq Reached /\ producerCount = Cardinality(Created \ Uncounted) /\ TypeOK
        /\ producerListTail \in Linked \cup {Null} /\ LeadsOn(Linked)
    BY <1>1 DEF Inv, Listed
  <2>l. \A t \in Threads : {token[t], result[t]} \subseteq Linked \cup {Null}
    BY <1>1 DEF Inv, Told, ToldTo
  <2>2. {result[t] : t \in Threads} \cup {token[t] : t \in Threads} \cup inactive
          \subseteq Reached \cup {Null}
    BY <1>1, <2>1, <2>l DEF Inv, Told
  <2>3. Reached \subseteq Linked
    BY <2>1 DEF Reached, Linked
  <2>4. Linked \subseteq Created \ Uncounted
    BY DEF Linked, Unlinked, Uncounted
  <2>5. IsFiniteSet(Created \ Uncounted)
    <3>1. 1 \in Int /\ Len(owner) \in Int
      BY <2>1 DEF TypeOK
    <3> QED BY <3>1, FS_Interval, FS_Subset DEF Created
  <2>6. Cardinality(Reached) <= producerCount
    BY <2>1, <2>3, <2>4, <2>5, FS_Subset
  <2> QED BY <2>2, <2>6 DEF ListComplete
<1> QED BY <1>1, InvAlways, PTL

================================================================================
