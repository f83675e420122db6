---------------------------- MODULE MemoryProofs ----------------------------
(***************************************************************************)
(* Proofs about the memory framework, for any records, policies, queries   *)
(* and sizes of chunks: its index follows the records, every answer fits   *)
(* its query, and what hosts evict, merge and filter with keeps the best;  *)
(* and about the registries of its providers and of language models, for   *)
(* any number of them.                                                     *)
(***************************************************************************)
EXTENDS Memory, ProviderRegistries, FiniteSetTheorems, TLAPS

MemoryRecords == {Record(input, importance, n) : input \in Inputs, importance \in 0..10, n \in Nat}

LEMMA RecordIs ==
    ASSUME NEW r \in MemoryRecords
    PROVE  /\ r.id \in Nat /\ r.day \in Nat /\ r.importance \in Int /\ r.scope \in KnownScopes
           /\ r.length \in Nat /\ r.readOnly \in BOOLEAN
<1>1. PICK input \in Inputs, importance \in 0..10, n \in Nat : r = Record(input, importance, n)
  BY DEF MemoryRecords
<1> QED BY <1>1, MemoryAssumption DEF Record

LEMMA NewRecord ==
    ASSUME NEW input \in Inputs, NEW importance \in 0..10, NEW n \in Nat
    PROVE  /\ Record(input, importance, n) \in MemoryRecords
           /\ Record(input, importance, n).id = n
<1>1. Record(input, importance, n) \in MemoryRecords
  BY DEF MemoryRecords
<1> QED BY <1>1 DEF Record

LEMMA MinOfTwo ==
    ASSUME NEW a \in Int, NEW b \in Int
    PROVE  /\ Min({a, b}) \in {a, b} /\ Min({a, b}) <= a /\ Min({a, b}) <= b
           /\ a <= b => Min({a, b}) = a
           /\ b <= a => Min({a, b}) = b
<1>1. \E x \in {a, b} : \A y \in {a, b} : x <= y
  OBVIOUS
<1> QED BY <1>1 DEF Min

LEMMA MaxOfTwo ==
    ASSUME NEW a \in Int, NEW b \in Int
    PROVE  Max({a, b}) \in Int
<1>1. \E x \in {a, b} : \A y \in {a, b} : x >= y
  OBVIOUS
<1> QED BY <1>1 DEF Max

LEMMA ScoreIs ==
    ASSUME NEW r \in MemoryRecords, NEW now \in Int PROVE Score(r, now) \in Int
<1>1. r.day \in Int /\ r.importance \in Int /\ r.scope \in KnownScopes
  BY RecordIs
<1>2. Recency(r, now) \in Int
  <2>1. 30 + r.day - now \in Int
    BY <1>1
  <2> QED BY <2>1, MaxOfTwo DEF Recency
<1>3. SourcePriority(r.scope) \in Int
  BY <1>1 DEF KnownScopes, SourcePriority
<1> QED BY <1>1, <1>2, <1>3 DEF Score

LEMMA LoadedIs == Loaded \in Int
BY DEF Loaded

-----------------------------------------------------------------------------
(* Chunks                                                                   *)

(* The chunks of a content cover it, whatever the sizes.                    *)
LEMMA ChunksCover ==
    ASSUME NEW length \in Nat PROVE Covers(ChunkContent(length), length)
<1>1. CASE length <= ChunkSize
  <2>1. ChunkContent(length) = <<<<0, length>>>>
    BY <1>1 DEF ChunkContent
  <2> QED BY <2>1 DEF Covers, Last
<1>2. CASE length > ChunkSize
  <2> DEFINE step == ChunkSize - ChunkOverlap
             count == (length + step - 1) \div step
             End(i) == Min({(i - 1) * step + ChunkSize, length})
             pieces == [i \in 1..count |-> <<(i - 1) * step, End(i)>>]
  <2>1. /\ ChunkSize \in Nat /\ ChunkOverlap \in Nat /\ step \in Nat /\ step > 0
        /\ ChunkSize = step + ChunkOverlap /\ length > step - 1
    BY <1>2, MemoryAssumption
  <2>2. ChunkContent(length) = pieces
    BY <1>2, <2>1 DEF ChunkContent
  <2> HIDE DEF step
  <2>3. count \in Nat /\ length + step - 1 < step * count + step
    BY <2>1
  <2>4. count >= 1
    BY <2>1, <2>3
  <2>5. (count - 1) * step + ChunkSize >= length
    <3>1. (count - 1) * step = step * count - step
      BY <2>1, <2>3
    <3> QED BY <2>1, <2>3, <3>1
  <2> HIDE DEF count
  <2>6. Len(pieces) = count /\ \A i \in 1..count : pieces[i] = <<(i - 1) * step, End(i)>>
    BY <2>3
  <2>7. \A i \in 1..count : (i - 1) * step \in Int
    BY <2>1, <2>3
  <2>8. pieces[1][1] = 0
    <3>1. (1 - 1) * step = 0
      BY <2>1
    <3> QED BY <2>4, <2>6, <2>3, <3>1
  <2>9. Last(pieces)[2] = length
    <3>1. End(count) = length
      <4> DEFINE end == (count - 1) * step + ChunkSize
      <4>1. end \in Int /\ length <= end /\ length \in Int
        BY <2>1, <2>3, <2>5
      <4>2. End(count) = Min({end, length})
        OBVIOUS
      <4> HIDE DEF end, End
      <4>3. Min({end, length}) = length
        BY <4>1, MinOfTwo
      <4> QED BY <4>2, <4>3
    <3> QED BY <2>3, <2>4, <2>6, <3>1 DEF Last
  <2>10. ASSUME NEW k \in 1..(count - 1)
         PROVE  pieces[k][2] = Min({pieces[k + 1][1] + ChunkOverlap, length})
    <3>1. k \in 1..count /\ k + 1 \in 1..count /\ (k + 1) - 1 = k
      BY <2>3
    <3>2. (k - 1) * step + ChunkSize = k * step + ChunkOverlap
      <4>1. (k - 1) * step = k * step - step /\ k * step \in Int
        BY <2>1, <3>1
      <4> QED BY <2>1, <4>1
    <3>3. pieces[k][2] = End(k) /\ pieces[k + 1][1] = k * step
      BY <2>6, <3>1
    <3> QED BY <3>2, <3>3
  <2> HIDE DEF pieces
  <2> QED BY <2>2, <2>6, <2>8, <2>9, <2>10 DEF Covers
<1> QED BY <1>1, <1>2, MemoryAssumption

-----------------------------------------------------------------------------
(* The types of the state                                                   *)

Operations == [does : {"index", "remove"}, record : MemoryRecords]

Earlier == {p \in MemoryRecords \X MemoryRecords : p[1].id < p[2].id}

Ids(rs) == {r.id : r \in Range(rs)}

Asks ==
    [pc : {"idle", "asking", "answered", "failed"}, query : Queries \cup {Absent},
     found : Seq(MemoryRecords), answer : Seq(MemoryRecords)]

StoreInv ==
    /\ initialized \in BOOLEAN /\ stored \in 0..MaxRecords
    /\ initialized \/ records = <<>>
    /\ records \in Seq(MemoryRecords) /\ OrderedBy(records, Earlier)
    /\ Ids(records) \subseteq 1..stored
    /\ policy \in [Scopes -> Int]

QueueInv ==
    /\ queue \in Seq(Operations)
    /\ \A i \in 1..Len(queue) : queue[i].record.id \in 1..stored
    /\ DOMAIN chunks \subseteq 1..stored /\ lost \subseteq 1..stored

Types == StoreInv /\ QueueInv

(* What is recorded, waits and is indexed agrees: the last continuation     *)
(* that waits for an id, or the index if none does, has it as the provider  *)
(* has, and what waits is about the record the provider has.                *)
LastFor(q, i, id) ==
    /\ q[i].record.id = id
    /\ \A j \in 1..Len(q) : j > i => q[j].record.id # id

ToBeIndexed(q, index, id) ==
    \/ \E i \in 1..Len(q) : LastFor(q, i, id) /\ q[i].does = "index"
    \/ id \in DOMAIN index /\ \A i \in 1..Len(q) : q[i].record.id # id

Agree(q, index, rs, gone) ==
    /\ \A id \in Nat : ToBeIndexed(q, index, id) <=> id \in Ids(rs) \cup gone
    /\ Ids(rs) \cap gone = {}

SameRecords(q, rs) ==
    \A i \in 1..Len(q) : \A r \in Range(rs) : q[i].record.id = r.id => q[i].record = r

Whole(index, rs) ==
    \A r \in Range(rs) : r.id \in DOMAIN index => index[r.id] = ChunkContent(r.length)

IndexInv ==
    /\ Agree(queue, chunks, records, lost)
    /\ SameRecords(queue, records) /\ Whole(chunks, records)

(* A continuation is added: it is the last for its id.                      *)
LEMMA AddContinuation ==
    ASSUME NEW q \in Seq(Operations), NEW op \in Operations, NEW index, NEW id
    PROVE  ToBeIndexed(Append(q, op), index, id)
             <=> IF id = op.record.id THEN op.does = "index" ELSE ToBeIndexed(q, index, id)
<1> DEFINE n == Len(q)
           t == Append(q, op)
<1>1. n \in Nat /\ Len(t) = n + 1 /\ t[n + 1] = op /\ \A i \in 1..n : t[i] = q[i]
  OBVIOUS
<1> HIDE DEF n, t
<1>2. /\ n + 1 \in 1..(n + 1) /\ \A i \in 1..n : i \in 1..(n + 1) /\ n + 1 > i
      /\ \A i \in 1..(n + 1) : i \in 1..n \/ i = n + 1
  BY <1>1
<1>3. CASE id = op.record.id
  <2>1. \A i \in 1..n : ~LastFor(t, i, id)
    BY <1>1, <1>2, <1>3 DEF LastFor
  <2>2. LastFor(t, n + 1, id)
    <3>1. \A j \in 1..(n + 1) : ~(j > n + 1)
      BY <1>1
    <3> QED BY <1>1, <1>3, <3>1 DEF LastFor
  <2>3. ToBeIndexed(t, index, id) <=> op.does = "index"
    BY <1>1, <1>2, <1>3, <2>1, <2>2 DEF ToBeIndexed
  <2> QED BY <1>3, <2>3 DEF t
<1>4. CASE id # op.record.id
  <2>1. ~LastFor(t, n + 1, id)
    BY <1>1, <1>4 DEF LastFor
  <2>2. \A i \in 1..n : LastFor(t, i, id) <=> LastFor(q, i, id)
    BY <1>1, <1>2, <1>4 DEF LastFor, n
  <2>3. (\A i \in 1..(n + 1) : t[i].record.id # id) <=> (\A i \in 1..n : q[i].record.id # id)
    BY <1>1, <1>2, <1>4
  <2>4. (\E i \in 1..(n + 1) : LastFor(t, i, id) /\ t[i].does = "index")
           <=> (\E i \in 1..n : LastFor(q, i, id) /\ q[i].does = "index")
    BY <1>1, <1>2, <2>1, <2>2
  <2>5. ToBeIndexed(t, index, id) <=> ToBeIndexed(q, index, id)
    BY <1>1, <2>3, <2>4 DEF ToBeIndexed, n
  <2> QED BY <1>4, <2>5 DEF t
<1> QED BY <1>3, <1>4

(* The first one runs: no id is to be indexed that was not, and none is     *)
(* left out that was.                                                       *)
LEMMA RunContinuation ==
    ASSUME NEW q \in Seq(Operations), q # <<>>, NEW index, NEW next, NEW id,
           id # Head(q).record.id => (id \in DOMAIN next <=> id \in DOMAIN index),
           id = Head(q).record.id => (id \in DOMAIN next <=> Head(q).does = "index")
    PROVE  ToBeIndexed(Tail(q), next, id) <=> ToBeIndexed(q, index, id)
<1> DEFINE n == Len(q)
           t == Tail(q)
           m == Len(t)
<1>1. /\ n \in Nat /\ m \in Nat /\ n = m + 1 /\ Head(q) = q[1]
      /\ \A i \in 1..m : t[i] = q[i + 1]
  OBVIOUS
<1> HIDE DEF n, t, m
<1>2. /\ 1 \in 1..n
      /\ \A i \in 1..m : i + 1 \in 1..n /\ i + 1 > 1
      /\ \A i \in 1..n : i = 1 \/ \E k \in 1..m : i = k + 1
      /\ \A i, k \in 1..m : k > i <=> k + 1 > i + 1
  <2> SUFFICES ASSUME NEW i \in 1..n, i # 1 PROVE \E k \in 1..m : i = k + 1
    BY <1>1
  <2>1. i - 1 \in 1..m /\ i = (i - 1) + 1
    BY <1>1
  <2> QED BY <2>1
<1>3. \A i \in 1..m : LastFor(t, i, id) <=> LastFor(q, i + 1, id)
  <2> TAKE i \in 1..m
  <2>1. i + 1 > 1 /\ ~(1 > i + 1)
    BY <1>1
  <2>2. (\A k \in 1..m : k > i => t[k].record.id # id)
           <=> (\A j \in 1..n : j > i + 1 => q[j].record.id # id)
    <3>1. \A k \in 1..m : t[k] = q[k + 1] /\ k + 1 \in 1..n /\ (k > i <=> k + 1 > i + 1)
      BY <1>1, <1>2
    <3>2. \A j \in 1..n : j > i + 1 => \E k \in 1..m : j = k + 1
      BY <1>2, <2>1
    <3> QED BY <3>1, <3>2
  <2> QED BY <1>1, <2>2 DEF LastFor, n, m
<1>4. CASE \E i \in 1..m : t[i].record.id = id
  <2>1. PICK k \in 1..m : t[k].record.id = id
    BY <1>4
  <2>2. k + 1 \in 1..n /\ k + 1 > 1 /\ q[k + 1].record.id = id
    BY <1>1, <1>2, <2>1
  <2>3. ~LastFor(q, 1, id) /\ ~(\A i \in 1..n : q[i].record.id # id)
    BY <2>2 DEF LastFor, n
  <2>4. (\E i \in 1..m : LastFor(t, i, id) /\ t[i].does = "index")
           <=> (\E i \in 1..n : LastFor(q, i, id) /\ q[i].does = "index")
    <3>1. \A i \in 1..m : (LastFor(t, i, id) /\ t[i].does = "index")
                             <=> (LastFor(q, i + 1, id) /\ q[i + 1].does = "index")
      BY <1>1, <1>3
    <3>2. \A i \in 1..n : LastFor(q, i, id) => \E j \in 1..m : i = j + 1
      BY <1>2, <2>3
    <3> QED BY <1>2, <3>1, <3>2
  <2> QED BY <1>4, <2>3, <2>4 DEF ToBeIndexed, n, m, t
<1>5. CASE \A i \in 1..m : t[i].record.id # id
  <2>1. ToBeIndexed(t, next, id) <=> id \in DOMAIN next
    <3>1. \A i \in 1..m : ~LastFor(t, i, id)
      BY <1>5 DEF LastFor
    <3>2. ToBeIndexed(t, next, id)
             <=> \/ \E i \in 1..m : LastFor(t, i, id) /\ t[i].does = "index"
                 \/ id \in DOMAIN next /\ \A i \in 1..m : t[i].record.id # id
      BY DEF ToBeIndexed, m
    <3> QED BY <1>5, <3>1, <3>2
  <2>2. ASSUME NEW i \in 1..n, i # 1 PROVE q[i].record.id # id
    <3>1. PICK k \in 1..m : i = k + 1
      BY <1>2, <2>2
    <3> QED BY <1>1, <1>5, <3>1
  <2>3. CASE q[1].record.id = id
    <3>1. LastFor(q, 1, id)
      BY <2>2, <2>3 DEF LastFor, n
    <3>2. \A i \in 1..n : LastFor(q, i, id) => i = 1
      BY <2>2 DEF LastFor
    <3>3. ToBeIndexed(q, index, id) <=> q[1].does = "index"
      BY <1>2, <2>3, <3>1, <3>2 DEF ToBeIndexed, n
    <3> QED BY <1>1, <2>1, <2>3, <3>3 DEF t
  <2>4. CASE q[1].record.id # id
    <3>1. \A i \in 1..n : q[i].record.id # id
      BY <2>2, <2>4
    <3>2. ToBeIndexed(q, index, id) <=> id \in DOMAIN index
      BY <3>1 DEF ToBeIndexed, LastFor, n
    <3> QED BY <1>1, <2>1, <2>4, <3>2 DEF t
  <2> QED BY <2>3, <2>4
<1> QED BY <1>4, <1>5

-----------------------------------------------------------------------------
(* What each operation keeps                                                *)

IInv == StoreInv /\ QueueInv /\ IndexInv

LEMMA RangeIn ==
    ASSUME NEW S, NEW s \in Seq(S) PROVE Range(s) \subseteq S /\ \A i \in 1..Len(s) : s[i] \in Range(s)
BY DEF Range

LEMMA InitIInv == Init => IInv
<1> SUFFICES ASSUME Init PROVE IInv
  OBVIOUS
<1>1. Range(records) = {} /\ records = <<>> /\ queue = <<>> /\ chunks = <<>> /\ lost = {} /\ stored = 0
  BY DEF Init, Range
<1>2. OrderedBy(<<>>, Earlier)
  BY DEF OrderedBy
<1>3. \A scope \in KnownScopes : DefaultPolicy(scope) \in Int
  BY DEF KnownScopes, DefaultPolicy
<1>4. policy \in [Scopes -> Int]
  BY <1>3, MemoryAssumption DEF Init, Scopes
<1>5. StoreInv
  <2>1. Ids(records) = {}
    BY <1>1 DEF Ids
  <2>2. stored \in 0..MaxRecords /\ initialized = FALSE
    BY <1>1, MemoryAssumption DEF Init
  <2>3. records \in Seq(MemoryRecords) /\ OrderedBy(records, Earlier)
    BY <1>1, <1>2
  <2> QED BY <1>1, <1>4, <2>1, <2>2, <2>3 DEF StoreInv
<1>6. QueueInv
  BY <1>1 DEF QueueInv
<1>7. IndexInv
  BY <1>1 DEF IndexInv, Agree, SameRecords, Whole, ToBeIndexed, Ids
<1> QED BY <1>5, <1>6, <1>7 DEF IInv

LEMMA StoreKeeps == ASSUME IInv, NEW input \in Inputs, Store(input) PROVE IInv'
<1> DEFINE importance == IF input.importance = Unset THEN policy[input.scope] ELSE input.importance
           new == Record(input, importance, stored + 1)
           op == [does |-> "index", record |-> new]
<1>1. /\ stored < MaxRecords /\ initialized /\ importance \in 0..10
      /\ records' = Append(records, new) /\ queue' = Append(queue, op) /\ stored' = stored + 1
      /\ UNCHANGED <<initialized, policy, lost, chunks>>
  BY DEF Store
<1>2. stored \in Nat /\ MaxRecords \in Nat
  BY MemoryAssumption DEF IInv, StoreInv
<1>3. new \in MemoryRecords /\ new.id = stored + 1
  <2> HIDE DEF importance
  <2> QED BY <1>1, <1>2, NewRecord
<1> HIDE DEF importance, new
<1>4. op \in Operations /\ op.record = new /\ op.does = "index"
  BY <1>3 DEF Operations
<1>5. records \in Seq(MemoryRecords) /\ queue \in Seq(Operations)
  BY DEF IInv, StoreInv, QueueInv
<1>6. Range(Append(records, new)) = Range(records) \cup {new}
  BY <1>3, <1>5, RangeAppend
<1>7. Ids(records)' = Ids(records) \cup {stored + 1}
  BY <1>1, <1>3, <1>6 DEF Ids
<1>8. \A r \in Range(records) : r \in MemoryRecords /\ r.id \in 1..stored /\ r.id # stored + 1
  <2>1. \A r \in Range(records) : r \in MemoryRecords
    BY <1>5, RangeIn
  <2>2. \A r \in Range(records) : r.id \in 1..stored
    BY DEF IInv, StoreInv, Ids
  <2> QED BY <1>2, <2>1, <2>2
<1>9. StoreInv'
  <2>1. \A r \in Range(records) : <<r, new>> \in Earlier
    BY <1>2, <1>3, <1>8 DEF Earlier
  <2>2. OrderedBy(records, Earlier)
    BY DEF IInv, StoreInv
  <2>3. OrderedBy(Append(records, new), Earlier)
    BY <1>3, <1>5, <2>1, <2>2, OrderedByAppend
  <2>4. Append(records, new) \in Seq(MemoryRecords)
    BY <1>3, <1>5
  <2>5. Ids(records)' \subseteq 1..(stored + 1) /\ stored + 1 \in 0..MaxRecords
    BY <1>1, <1>2, <1>7 DEF IInv, StoreInv
  <2> QED BY <1>1, <2>3, <2>4, <2>5 DEF IInv, StoreInv
<1> DEFINE n == Len(queue)
<1>10. /\ n \in Nat /\ Len(queue') = n + 1 /\ queue'[n + 1] = op
       /\ \A i \in 1..n : queue'[i] = queue[i]
       /\ \A i \in 1..(n + 1) : i \in 1..n \/ i = n + 1
  BY <1>1, <1>5, <1>4
<1>11. \A i \in 1..n : queue[i].record.id \in 1..stored
  BY DEF IInv, QueueInv
<1> HIDE DEF n, op
<1>12. QueueInv'
  <2>1. queue' \in Seq(Operations)
    BY <1>1, <1>4, <1>5
  <2>2. \A i \in 1..(n + 1) : queue'[i].record.id \in 1..(stored + 1)
    BY <1>2, <1>3, <1>4, <1>10, <1>11
  <2>3. DOMAIN chunks' \subseteq 1..(stored + 1) /\ lost' \subseteq 1..(stored + 1)
    BY <1>1, <1>2 DEF IInv, QueueInv
  <2> QED BY <1>1, <1>10, <2>1, <2>2, <2>3 DEF QueueInv
<1>13. Agree(queue, chunks, records, lost)'
  <2>1. ASSUME NEW id \in Nat
        PROVE  ToBeIndexed(queue', chunks', id) <=> id \in Ids(records)' \cup lost'
    <3>1. ToBeIndexed(queue', chunks', id)
             <=> IF id = stored + 1 THEN TRUE ELSE ToBeIndexed(queue, chunks, id)
      BY <1>1, <1>3, <1>4, <1>5, AddContinuation
    <3>2. ToBeIndexed(queue, chunks, id) <=> id \in Ids(records) \cup lost
      BY DEF IInv, IndexInv, Agree
    <3> QED BY <1>1, <1>7, <3>1, <3>2
  <2>2. stored + 1 \notin lost /\ Ids(records) \cap lost = {}
    BY <1>2 DEF IInv, QueueInv, IndexInv, Agree
  <2> QED BY <1>1, <1>7, <2>1, <2>2 DEF Agree
<1>14. SameRecords(queue, records)'
  <2>1. SameRecords(queue, records)
    BY DEF IInv, IndexInv
  <2>2. ASSUME NEW i \in 1..(n + 1), NEW r \in Range(records) \cup {new},
               queue'[i].record.id = r.id
        PROVE  queue'[i].record = r
    <3>1. CASE i \in 1..n /\ r \in Range(records)
      BY <1>10, <2>1, <2>2, <3>1 DEF SameRecords, n
    <3>2. CASE i \in 1..n /\ r = new
      BY <1>2, <1>3, <1>10, <1>11, <2>2, <3>2
    <3>3. CASE i = n + 1 /\ r \in Range(records)
      BY <1>3, <1>4, <1>8, <1>10, <2>2, <3>3
    <3>4. CASE i = n + 1 /\ r = new
      BY <1>4, <1>10, <3>4
    <3> QED BY <1>10, <3>1, <3>2, <3>3, <3>4
  <2> QED BY <1>1, <1>6, <1>10, <2>2 DEF SameRecords
<1>15. Whole(chunks, records)'
  <2>1. stored + 1 \notin DOMAIN chunks
    BY <1>2 DEF IInv, QueueInv
  <2>2. Whole(chunks, records)
    BY DEF IInv, IndexInv
  <2> QED BY <1>1, <1>3, <1>6, <2>1, <2>2 DEF Whole
<1> QED BY <1>9, <1>12, <1>13, <1>14, <1>15 DEF IInv, IndexInv

LEMMA DeleteKeeps == ASSUME IInv, NEW id \in 1..stored, Delete(id) PROVE IInv'
<1> DEFINE others == {r \in Range(records) : r.id # id}
           rest == KeepIn(records, others)
<1>1. PICK r \in Range(records) :
         r.id = id /\ queue' = Append(queue, [does |-> "remove", record |-> r])
  BY DEF Delete
<1> DEFINE op == [does |-> "remove", record |-> r]
<1>2. /\ records' = rest /\ queue' = Append(queue, op) /\ initialized
      /\ UNCHANGED <<initialized, policy, stored, lost, chunks>>
  BY <1>1 DEF Delete
<1>3. records \in Seq(MemoryRecords) /\ queue \in Seq(Operations)
  BY DEF IInv, StoreInv, QueueInv
<1>4. op \in Operations /\ op.record = r /\ op.does = "remove" /\ r.id = id
  BY <1>1, <1>3, RangeIn DEF Operations
<1> HIDE DEF op
<1>5. rest \in Seq(MemoryRecords) /\ Range(rest) = others
  <2>1. rest \in Seq(MemoryRecords \cap others) /\ Range(rest) = Range(records) \cap others
    BY <1>3, KeepInRange
  <2>2. rest \in Seq(MemoryRecords)
    <3> HIDE DEF rest, others
    <3> QED BY <2>1
  <2> QED BY <2>1, <2>2
<1> HIDE DEF rest
<1>6. Ids(records)' = Ids(records) \ {id} /\ Ids(records)' \subseteq Ids(records)
  BY <1>2, <1>5 DEF Ids
<1>7. StoreInv'
  <2>1. OrderedBy(rest, Earlier)
    <3>1. OrderedBy(records, Earlier)
      BY DEF IInv, StoreInv
    <3> QED BY <1>3, <3>1, KeepInOrder DEF rest
  <2> QED BY <1>2, <1>5, <1>6, <2>1 DEF IInv, StoreInv
<1> DEFINE n == Len(queue)
<1>8. /\ n \in Nat /\ Len(queue') = n + 1 /\ queue'[n + 1] = op
      /\ \A i \in 1..n : queue'[i] = queue[i]
      /\ \A i \in 1..(n + 1) : i \in 1..n \/ i = n + 1
  BY <1>2, <1>3, <1>4
<1> HIDE DEF n
<1>9. QueueInv'
  <2>1. queue' \in Seq(Operations)
    BY <1>2, <1>3, <1>4
  <2>2. \A i \in 1..(n + 1) : queue'[i].record.id \in 1..stored
    BY <1>4, <1>8 DEF IInv, QueueInv, n
  <2> QED BY <1>2, <1>8, <2>1, <2>2 DEF IInv, QueueInv
<1>10. Agree(queue, chunks, records, lost)'
  <2>1. id \notin lost
    <3>1. id \in Ids(records)
      BY <1>1 DEF Ids
    <3> QED BY <3>1 DEF IInv, IndexInv, Agree
  <2>2. ASSUME NEW x \in Nat
        PROVE  ToBeIndexed(queue', chunks', x) <=> x \in Ids(records)' \cup lost'
    <3>1. ToBeIndexed(queue', chunks', x)
             <=> IF x = id THEN FALSE ELSE ToBeIndexed(queue, chunks, x)
      BY <1>2, <1>3, <1>4, AddContinuation
    <3>2. ToBeIndexed(queue, chunks, x) <=> x \in Ids(records) \cup lost
      BY DEF IInv, IndexInv, Agree
    <3> QED BY <1>2, <1>6, <2>1, <3>1, <3>2
  <2>3. Ids(records)' \cap lost' = {}
    BY <1>2, <1>6 DEF IInv, IndexInv, Agree
  <2> QED BY <2>2, <2>3 DEF Agree
<1>11. SameRecords(queue, records)'
  <2>1. SameRecords(queue, records)
    BY DEF IInv, IndexInv
  <2>2. ASSUME NEW i \in 1..(n + 1), NEW x \in others, queue'[i].record.id = x.id
        PROVE  queue'[i].record = x
    <3>1. i # n + 1
      BY <1>4, <1>8, <2>2
    <3> QED BY <1>8, <2>1, <2>2, <3>1 DEF SameRecords, n
  <2> QED BY <1>2, <1>5, <1>8, <2>2 DEF SameRecords
<1>12. Whole(chunks, records)'
  BY <1>2, <1>5 DEF IInv, IndexInv, Whole
<1> QED BY <1>7, <1>9, <1>10, <1>11, <1>12 DEF IInv, IndexInv

LEMMA ContinueKeeps == ASSUME IInv, Continue PROVE IInv'
<1> DEFINE op == Head(queue)
           id == op.record.id
<1>1. queue # <<>> /\ queue' = Tail(queue) /\ UNCHANGED store_
  BY DEF Continue
<1>2. queue \in Seq(Operations) /\ \A i \in 1..Len(queue) : queue[i].record.id \in 1..stored
  BY DEF IInv, QueueInv
<1>3. /\ op = queue[1] /\ 1 \in 1..Len(queue) /\ op \in Operations
      /\ Tail(queue) \in Seq(Operations)
      /\ \A i \in 1..Len(Tail(queue)) : i + 1 \in 1..Len(queue) /\ Tail(queue)[i] = queue[i + 1]
  BY <1>1, <1>2
<1>4. op.does \in {"index", "remove"} /\ op.record \in MemoryRecords /\ id \in 1..stored
  BY <1>2, <1>3 DEF Operations
<1>5. /\ DOMAIN chunks' = IF op.does = "index" THEN DOMAIN chunks \cup {id} ELSE DOMAIN chunks \ {id}
      /\ \A other \in DOMAIN chunks' :
            chunks'[other] = IF other = id THEN ChunkContent(op.record.length) ELSE chunks[other]
  BY DEF Continue
<1> HIDE DEF op, id
<1>6. StoreInv' /\ Ids(records)' = Ids(records) /\ lost' = lost
  BY <1>1 DEF IInv, StoreInv, store_, Ids
<1>7. QueueInv'
  <2>1. DOMAIN chunks' \subseteq 1..stored /\ lost \subseteq 1..stored
    BY <1>4, <1>5 DEF IInv, QueueInv
  <2> QED BY <1>1, <1>2, <1>3, <2>1 DEF QueueInv, store_
<1>8. Agree(queue, chunks, records, lost)'
  <2>1. ASSUME NEW x \in Nat
        PROVE  ToBeIndexed(queue', chunks', x) <=> x \in Ids(records) \cup lost
    <3>1. /\ x # Head(queue).record.id => (x \in DOMAIN chunks' <=> x \in DOMAIN chunks)
          /\ x = Head(queue).record.id => (x \in DOMAIN chunks' <=> Head(queue).does = "index")
      BY <1>4, <1>5 DEF op, id
    <3>2. ToBeIndexed(Tail(queue), chunks', x) <=> ToBeIndexed(queue, chunks, x)
      BY <1>1, <1>2, <3>1, RunContinuation
    <3>3. ToBeIndexed(queue, chunks, x) <=> x \in Ids(records) \cup lost
      BY DEF IInv, IndexInv, Agree
    <3> QED BY <1>1, <3>2, <3>3
  <2>2. Ids(records) \cap lost = {}
    BY DEF IInv, IndexInv, Agree
  <2> QED BY <1>6, <2>1, <2>2 DEF Agree
<1>9. SameRecords(queue, records)'
  <2>1. SameRecords(queue, records)
    BY DEF IInv, IndexInv
  <2> QED BY <1>1, <1>3, <2>1 DEF SameRecords, store_
<1>10. Whole(chunks, records)'
  <2>1. SameRecords(queue, records) /\ Whole(chunks, records)
    BY DEF IInv, IndexInv
  <2>2. ASSUME NEW r \in Range(records), r.id \in DOMAIN chunks'
        PROVE  chunks'[r.id] = ChunkContent(r.length)
    <3>1. CASE r.id = id
      <4>1. op.record = r
        BY <1>3, <2>1, <3>1 DEF SameRecords, id
      <4> QED BY <1>5, <2>2, <3>1, <4>1
    <3>2. CASE r.id # id
      <4>1. r.id \in DOMAIN chunks
        BY <1>5, <2>2, <3>2
      <4> QED BY <1>5, <2>1, <2>2, <3>2, <4>1 DEF Whole
    <3> QED BY <3>1, <3>2
  <2> QED BY <1>1, <2>2 DEF Whole, store_
<1> QED BY <1>6, <1>7, <1>8, <1>9, <1>10 DEF IInv, IndexInv

LEMMA CloseKeeps == ASSUME IInv, Close PROVE IInv'
<1>1. /\ initialized' = FALSE /\ records' = <<>> /\ lost' = lost \cup Ids(records)
      /\ UNCHANGED <<policy, stored, chunks, queue>>
  BY DEF Close, Ids
<1>2. Range(records') = {} /\ Ids(records)' = {}
  BY <1>1 DEF Range, Ids
<1>3. StoreInv'
  <2>1. OrderedBy(<<>>, Earlier) /\ <<>> \in Seq(MemoryRecords)
    BY DEF OrderedBy
  <2> QED BY <1>1, <1>2, <2>1 DEF IInv, StoreInv
<1>4. QueueInv'
  BY <1>1 DEF IInv, QueueInv, StoreInv
<1>5. Agree(queue, chunks, records, lost)'
  BY <1>1, <1>2 DEF IInv, IndexInv, Agree
<1>6. SameRecords(queue, records)' /\ Whole(chunks, records)'
  BY <1>2 DEF SameRecords, Whole
<1> QED BY <1>3, <1>4, <1>5, <1>6 DEF IInv, IndexInv

(* All other operations leave the provider and the index alone.             *)
LEMMA UntouchedKeeps ==
    ASSUME IInv, UNCHANGED <<records, stored, lost, chunks, queue>>,
           initialized' \in BOOLEAN, initialized => initialized',
           policy' \in [Scopes -> Int]
    PROVE  IInv'
<1>1. StoreInv'
  BY DEF IInv, StoreInv, Ids
<1>2. QueueInv'
  BY DEF IInv, QueueInv
<1>3. IndexInv'
  BY DEF IInv, IndexInv, Agree, SameRecords, Whole, ToBeIndexed, LastFor, Ids
<1> QED BY <1>1, <1>2, <1>3 DEF IInv

LEMMA StepIInv == IInv /\ [Next]_vars => IInv'
<1> SUFFICES ASSUME IInv, [Next]_vars PROVE IInv'
  OBVIOUS
<1>1. initialized \in BOOLEAN /\ policy \in [Scopes -> Int]
  BY DEF IInv, StoreInv
<1>2. CASE Initialize
  BY <1>1, <1>2, UntouchedKeeps DEF Initialize
<1>3. ASSUME NEW new \in Policies, SetPolicy(new) PROVE IInv'
  <2>1. policy' \in [Scopes -> Int]
    BY <1>1, <1>3, MemoryAssumption DEF SetPolicy
  <2> QED BY <1>1, <1>3, <2>1, UntouchedKeeps DEF SetPolicy
<1>4. ASSUME UNCHANGED <<store_, chunks, queue>> PROVE IInv'
  BY <1>1, <1>4, UntouchedKeeps DEF store_
<1>5. ASSUME NEW a \in Askers, NEW q \in Queries, Ask(a, q) \/ AnswerFromCache(a, q) PROVE IInv'
  BY <1>4, <1>5 DEF Ask, AnswerFromCache, Asked
<1>6. ASSUME NEW a \in Askers, Answer(a) PROVE IInv'
  BY <1>4, <1>6 DEF Answer, AnswerWith, Asked
<1>7. CASE ClearCache
  BY <1>4, <1>7 DEF ClearCache
<1>8. ASSUME NEW key \in DOMAIN cache, Expire(key) PROVE IInv'
  BY <1>4, <1>8 DEF Expire
<1>9. CASE UNCHANGED vars
  BY <1>4, <1>9 DEF vars, store_
<1> QED BY <1>2, <1>3, <1>5, <1>6, <1>7, <1>8, <1>9, StoreKeeps, DeleteKeeps, ContinueKeeps,
           CloseKeeps DEF Next

LEMMA IndexInductive == Spec => []IInv
BY InitIInv, StepIInv, PTL DEF Spec

LEMMA IndexFollows == ASSUME IInv PROVE IndexFollowsTheRecords
<1>1. ASSUME queue = <<>>
      PROVE  Ids(records) \subseteq DOMAIN chunks /\ DOMAIN chunks \ Ids(records) \subseteq lost
  <2>1. \A id \in Nat : ToBeIndexed(queue, chunks, id) <=> id \in DOMAIN chunks
    BY <1>1 DEF ToBeIndexed
  <2>2. \A id \in Nat : id \in DOMAIN chunks <=> id \in Ids(records) \cup lost
    BY <2>1 DEF IInv, IndexInv, Agree
  <2>3. Ids(records) \subseteq Nat /\ DOMAIN chunks \subseteq Nat
    BY DEF IInv, StoreInv, QueueInv
  <2> QED BY <2>2, <2>3
<1>2. ASSUME NEW r \in Range(records), r.id \in DOMAIN chunks
      PROVE  Covers(chunks[r.id], r.length)
  <2>1. r \in MemoryRecords
    BY RangeIn DEF IInv, StoreInv
  <2>2. chunks[r.id] = ChunkContent(r.length)
    BY <1>2 DEF IInv, IndexInv, Whole
  <2> QED BY <2>1, <2>2, RecordIs, ChunksCover
<1> QED BY <1>1, <1>2 DEF IndexFollowsTheRecords, Ids

(* MemoryManager, MemoryIndexer: however stores, deletes and a close()      *)
(* interleave with the continuations that index what was stored, an idle    *)
(* index has the provider's records and no other but what close() left in   *)
(* it, and the chunks of a record cover it.                                 *)
THEOREM IndexIsKept == Spec => []IndexFollowsTheRecords
<1>1. IInv => IndexFollowsTheRecords
  BY IndexFollows
<1> QED BY <1>1, IndexInductive, PTL

-----------------------------------------------------------------------------
(* Filters and the ranking                                                  *)

(* What an answer says of the filters that every query passes.              *)
Passes(r, q) == Matches(r, q) /\ (q.text # Absent => q.text \in r.words)

LEMMA FiltersKeep ==
    ASSUME NEW found \in Seq(MemoryRecords), NEW q \in Queries,
           \A r \in Range(found) : Matches(r, q)
    PROVE  /\ ApplyQueryFilters(found, q) \in Seq(MemoryRecords)
           /\ \A r \in Range(ApplyQueryFilters(found, q)) : Passes(r, q)
           /\ \A r \in Range(found) :
                 r \in Range(ApplyQueryFilters(found, q)) \/ (q.text # Absent /\ q.text \notin r.words)
<1>1. CASE q.text = Absent
  <2>1. ApplyQueryFilters(found, q) = found
    BY <1>1 DEF ApplyQueryFilters
  <2> QED BY <1>1, <2>1 DEF Passes
<1>2. CASE q.text # Absent
  <2> DEFINE T == {r \in Range(found) : q.text \in r.words}
             kept == KeepIn(found, T)
  <2>1. ApplyQueryFilters(found, q) = kept
    BY <1>2 DEF ApplyQueryFilters
  <2>2. kept \in Seq(MemoryRecords \cap T) /\ Range(kept) = Range(found) \cap T
    BY KeepInRange
  <2>3. kept \in Seq(MemoryRecords)
    <3> HIDE DEF kept, T
    <3> QED BY <2>2
  <2> HIDE DEF kept
  <2> QED BY <1>2, <2>1, <2>2, <2>3 DEF Passes
<1> QED BY <1>1, <1>2

LEMMA FitKeeps ==
    ASSUME NEW found \in Seq(MemoryRecords), NEW q \in Queries
    PROVE  /\ Fit(found, q) \in Seq(MemoryRecords)
           /\ Range(Fit(found, q)) = {r \in Range(found) : Score(r, Loaded) >= MinScore(q)}
<1> DEFINE T == {r \in Range(found) : Score(r, Loaded) >= MinScore(q)}
<1>1. Fit(found, q) = KeepIn(found, T)
  BY DEF Fit
<1>2. KeepIn(found, T) \in Seq(MemoryRecords \cap T) /\ Range(KeepIn(found, T)) = Range(found) \cap T
  BY KeepInRange
<1>3. T \subseteq Range(found)
  OBVIOUS
<1>4. Fit(found, q) \in Seq(MemoryRecords)
  <2> HIDE DEF T
  <2> QED BY <1>1, <1>2
<1>5. Range(Fit(found, q)) = T
  <2> HIDE DEF T
  <2> QED BY <1>1, <1>2, <1>3
<1> QED BY <1>4, <1>5

(* Keys and, where they are equal, places make an order.                    *)
LEMMA FallingOrders ==
    ASSUME NEW key \in Seq(Int)
    PROVE  /\ TotalOrder(Falling(key), Len(key))
           /\ \A i, j \in 1..Len(key) : <<i, j>> \in Falling(key) => key[i] >= key[j] /\ i # j
<1> DEFINE n == Len(key)
<1>1. n \in Nat /\ \A i \in 1..n : key[i] \in Int
  OBVIOUS
<1>2. \A i, j \in 1..n :
         <<i, j>> \in Falling(key) <=> (key[i] > key[j] \/ (key[i] = key[j] /\ i < j))
  BY DEF Falling
<1> HIDE DEF n
<1>3. \A i, j \in 1..n : i # j => <<i, j>> \in Falling(key) \/ <<j, i>> \in Falling(key)
  BY <1>1, <1>2
<1>4. \A i, j, k \in 1..n :
         <<i, j>> \in Falling(key) /\ <<j, k>> \in Falling(key) => <<i, k>> \in Falling(key)
  BY <1>1, <1>2
<1>5. \A i, j \in 1..n : <<i, j>> \in Falling(key) => key[i] >= key[j] /\ i # j
  BY <1>1, <1>2
<1> QED BY <1>3, <1>4, <1>5 DEF TotalOrder, n

(* What a sort by keys returns: every place once, from the greatest key to  *)
(* the least.                                                               *)
LEMMA FallingSorts ==
    ASSUME NEW key \in Seq(Int), NEW n, n = Len(key)
    PROVE  \E f \in [1..n -> 1..n] :
              /\ Ordering(n, Falling(key)) = f /\ Range(f) = 1..n
              /\ \A i, j \in 1..n : i < j => key[f[i]] >= key[f[j]] /\ f[i] # f[j]
<1>1. n \in Nat
  OBVIOUS
<1>2. Sorts(Ordering(n, Falling(key)), n, Falling(key))
  BY <1>1, FallingOrders, OrderingSorts
<1>3. PICK f \in [1..n -> 1..n] :
         /\ f = Ordering(n, Falling(key)) /\ Range(f) = 1..n
         /\ \A i, j \in 1..n : i < j => <<f[i], f[j]>> \in Falling(key)
  BY <1>2 DEF Sorts
<1>4. \A i, j \in 1..n : <<i, j>> \in Falling(key) => key[i] >= key[j] /\ i # j
  BY DEF Falling
<1>5. \A i, j \in 1..n : i < j => key[f[i]] >= key[f[j]] /\ f[i] # f[j]
  <2> TAKE i, j \in 1..n
  <2>1. f[i] \in 1..n /\ f[j] \in 1..n
    BY <1>3
  <2> QED BY <1>3, <1>4, <2>1
<1>6. Ordering(n, Falling(key)) = f
  BY <1>3
<1> HIDE DEF Falling
<1> QED BY <1>3, <1>5, <1>6

LEMMA BetterOrders ==
    ASSUME NEW fit \in Seq(MemoryRecords)
    PROVE  /\ TotalOrder(Better(fit), Len(fit))
           /\ \A i, j \in 1..Len(fit) :
                 <<i, j>> \in Better(fit) => Score(fit[i], Loaded) >= Score(fit[j], Loaded)
<1> DEFINE n == Len(fit)
           key == [i \in 1..n |-> Score(fit[i], Loaded)]
<1>1. n \in Nat /\ \A i \in 1..n : Score(fit[i], Loaded) \in Int
  <2>1. n \in Nat /\ \A i \in 1..n : fit[i] \in MemoryRecords
    OBVIOUS
  <2>2. \A i \in 1..n : Score(fit[i], Loaded) \in Int
    <3> HIDE DEF n
    <3> QED BY <2>1, LoadedIs, ScoreIs
  <2> QED BY <2>1, <2>2
<1>2. key \in Seq(Int) /\ Len(key) = n /\ \A i \in 1..n : key[i] = Score(fit[i], Loaded)
  BY <1>1
<1>3. Better(fit) = Falling(key)
  BY DEF Better
<1> HIDE DEF key
<1> QED BY <1>2, <1>3, FallingOrders

LEMMA LimitIs == ASSUME NEW q \in Queries PROVE ResultLimit(q) \in Nat
BY MemoryAssumption DEF ResultLimit, Unset

(* An answer is the best of what is fit, in order.                          *)
LEMMA RankIs ==
    ASSUME NEW found \in Seq(MemoryRecords), NEW q \in Queries,
           NEW answer, answer = RankMemories(found, q)
    PROVE  /\ answer \in Seq(MemoryRecords) /\ Len(answer) <= ResultLimit(q)
           /\ \A i \in 1..Len(answer) : answer[i] \in Range(Fit(found, q))
           /\ \A i \in 1..Len(answer) :
                 i > 1 => Score(answer[i - 1], Loaded) >= Score(answer[i], Loaded)
           /\ \A r \in Range(Fit(found, q)) :
                 \/ r \in Range(answer)
                 \/ /\ Len(answer) = ResultLimit(q)
                    /\ \A i \in 1..Len(answer) : Score(answer[i], Loaded) >= Score(r, Loaded)
<1> DEFINE fit == Fit(found, q)
           n == Len(fit)
           f == Ordering(n, Better(fit))
           m == Min({n, ResultLimit(q)})
<1>1. fit \in Seq(MemoryRecords) /\ n \in Nat /\ \A i \in 1..n : fit[i] \in MemoryRecords /\ fit[i] \in Range(fit)
  <2>1. fit \in Seq(MemoryRecords)
    BY FitKeeps
  <2> HIDE DEF fit
  <2> QED BY <2>1, RangeIn
<1>2. Sorts(f, n, Better(fit))
  <2> HIDE DEF fit
  <2>1. TotalOrder(Better(fit), n)
    BY <1>1, BetterOrders
  <2> HIDE DEF n
  <2> QED BY <1>1, <2>1, OrderingSorts
<1>3. answer = [i \in 1..m |-> fit[f[i]]]
  BY DEF RankMemories
<1> HIDE DEF fit, f
<1>4. m \in Nat /\ m <= n /\ m <= ResultLimit(q) /\ (m = n \/ m = ResultLimit(q))
  <2>1. n \in Int /\ n \in Nat /\ ResultLimit(q) \in Int /\ ResultLimit(q) \in Nat
    BY <1>1, LimitIs
  <2> HIDE DEF n
  <2>2. m \in {n, ResultLimit(q)} /\ m <= n /\ m <= ResultLimit(q)
    BY <2>1, MinOfTwo
  <2> HIDE DEF m
  <2> QED BY <2>1, <2>2
<1>5. f \in [1..n -> 1..n] /\ Range(f) = 1..n /\ \A i, j \in 1..n : i < j => <<f[i], f[j]>> \in Better(fit)
  BY <1>2 DEF Sorts
<1>6. \A i, j \in 1..n : <<i, j>> \in Better(fit) => Score(fit[i], Loaded) >= Score(fit[j], Loaded)
  BY <1>1, BetterOrders
<1> HIDE DEF n, m
<1>7. \A i \in 1..m : i \in 1..n /\ f[i] \in 1..n /\ answer[i] = fit[f[i]]
  BY <1>1, <1>3, <1>4, <1>5
<1>8. \A i \in 1..m, j \in 1..n : i < j => Score(answer[i], Loaded) >= Score(fit[f[j]], Loaded)
  <2> TAKE i \in 1..m, j \in 1..n
  <2>1. i \in 1..n /\ f[i] \in 1..n /\ f[j] \in 1..n /\ answer[i] = fit[f[i]]
    BY <1>5, <1>7
  <2>2. i < j => <<f[i], f[j]>> \in Better(fit)
    BY <1>5, <2>1
  <2> QED BY <1>6, <2>1, <2>2
<1>9. answer \in Seq(MemoryRecords) /\ Len(answer) = m /\ DOMAIN answer = 1..m
  <2>1. \A i \in 1..m : answer[i] \in MemoryRecords
    BY <1>1, <1>7
  <2>2. answer \in [1..m -> MemoryRecords]
    BY <1>3, <2>1
  <2> QED BY <1>4, <2>2
<1>10. \A i \in 1..m : answer[i] \in Range(fit)
  BY <1>1, <1>7
<1>11. \A i \in 1..m : i > 1 => Score(answer[i - 1], Loaded) >= Score(answer[i], Loaded)
  <2> TAKE i \in 1..m
  <2> HAVE i > 1
  <2>1. i - 1 \in 1..m /\ i \in 1..n /\ i - 1 < i
    BY <1>4, <1>7
  <2> QED BY <1>7, <1>8, <2>1
<1>12. ASSUME NEW r \in Range(fit), r \notin Range(answer)
       PROVE  /\ m = ResultLimit(q)
              /\ \A i \in 1..m : Score(answer[i], Loaded) >= Score(r, Loaded)
  <2>1. PICK k \in 1..n : fit[k] = r
    BY <1>1, <1>12 DEF Range, n
  <2>2. PICK j \in 1..n : f[j] = k
    BY <1>5 DEF Range
  <2>3. j \notin 1..m
    <3>1. \A i \in 1..m : answer[i] \in Range(answer)
      BY <1>9 DEF Range
    <3> QED BY <1>7, <1>12, <2>1, <2>2, <3>1
  <2>4. m < j /\ m # n
    BY <1>1, <1>4, <2>3
  <2>5. \A i \in 1..m : i < j
    BY <1>4, <2>4
  <2> QED BY <1>4, <1>8, <2>1, <2>2, <2>4, <2>5
<1> QED BY <1>4, <1>9, <1>10, <1>11, <1>12 DEF fit

-----------------------------------------------------------------------------
(* Answers                                                                  *)

(* What is asked for has been found in the provider; what is answered fits, *)
(* and what is cached fits every query of its key.                          *)
AnswerFits(ask) ==
    LET answer == ask.answer  q == ask.query IN
    /\ FitsTheKey(answer, q)
    /\ \A i \in 1..Len(answer) :
          /\ q.includeReadOnly \/ ~answer[i].readOnly
          /\ q.minImportance # Unset => answer[i].importance >= q.minImportance
    /\ \A r \in Range(ask.found) \ Range(answer) :
          \/ Score(r, Loaded) < MinScore(q)
          \/ q.text # Absent /\ q.text \notin r.words
          \/ /\ Len(answer) = ResultLimit(q)
             /\ \A i \in 1..Len(answer) : Score(answer[i], Loaded) >= Score(r, Loaded)

AskOK(a, ask) ==
    /\ ask \in Asks
    /\ ask.pc \in {"asking", "answered"} => ask.query \in Queries
    /\ ask.pc = "asking" => \A r \in Range(ask.found) : Matches(r, ask.query)
    /\ ask.pc = "answered" => FitsTheKey(ask.answer, ask.query)
    /\ ask.pc = "answered" /\ a \notin Cached => AnswerFits(ask)

EntryOK(key, answer) ==
    /\ answer \in Seq(MemoryRecords)
    /\ \A q \in Queries : CacheKey(q) = key => FitsTheKey(answer, q)

CacheInv == \A key \in DOMAIN cache : EntryOK(key, cache[key])

AskInv == asked \in [Askers -> Asks] /\ \A a \in Askers : AskOK(a, asked[a])

LEMMA RankFits ==
    ASSUME NEW found \in Seq(MemoryRecords), NEW q \in Queries,
           \A r \in Range(found) : Matches(r, q), NEW answer,
           answer = RankMemories(ApplyQueryFilters(found, q), q),
           NEW ask, ask.found = found, ask.answer = answer, ask.query = q
    PROVE  answer \in Seq(MemoryRecords) /\ AnswerFits(ask)
<1> DEFINE kept == ApplyQueryFilters(found, q)
<1>1. /\ kept \in Seq(MemoryRecords) /\ \A r \in Range(kept) : Passes(r, q)
      /\ \A r \in Range(found) : r \in Range(kept) \/ (q.text # Absent /\ q.text \notin r.words)
  BY FiltersKeep
<1> HIDE DEF kept
<1>2. /\ answer \in Seq(MemoryRecords) /\ Len(answer) <= ResultLimit(q)
      /\ \A i \in 1..Len(answer) : answer[i] \in Range(Fit(kept, q))
      /\ \A i \in 1..Len(answer) :
            i > 1 => Score(answer[i - 1], Loaded) >= Score(answer[i], Loaded)
      /\ \A r \in Range(Fit(kept, q)) :
            \/ r \in Range(answer)
            \/ /\ Len(answer) = ResultLimit(q)
               /\ \A i \in 1..Len(answer) : Score(answer[i], Loaded) >= Score(r, Loaded)
  <2>1. answer = RankMemories(kept, q)
    BY DEF kept
  <2> QED BY <1>1, <2>1, RankIs
<1>3. Range(Fit(kept, q)) = {r \in Range(kept) : Score(r, Loaded) >= MinScore(q)}
  BY <1>1, FitKeeps
<1>4. \A i \in 1..Len(answer) : Passes(answer[i], q)
  BY <1>1, <1>2, <1>3
<1>5. FitsTheKey(answer, q)
  BY <1>2, <1>4 DEF FitsTheKey, Passes, Matches
<1>6. \A i \in 1..Len(answer) :
         /\ q.includeReadOnly \/ ~answer[i].readOnly
         /\ q.minImportance # Unset => answer[i].importance >= q.minImportance
  BY <1>4 DEF Passes, Matches
<1>7. ASSUME NEW r \in Range(found) \ Range(answer)
      PROVE  \/ Score(r, Loaded) < MinScore(q)
             \/ q.text # Absent /\ q.text \notin r.words
             \/ /\ Len(answer) = ResultLimit(q)
                /\ \A i \in 1..Len(answer) : Score(answer[i], Loaded) >= Score(r, Loaded)
  <2>1. r \in MemoryRecords /\ Score(r, Loaded) \in Int /\ MinScore(q) \in Int
    BY RangeIn, LoadedIs, ScoreIs, MemoryAssumption DEF MinScore
  <2>2. Score(r, Loaded) >= MinScore(q) \/ Score(r, Loaded) < MinScore(q)
    BY <2>1
  <2> QED BY <1>1, <1>2, <1>3, <2>2
<1> QED BY <1>2, <1>5, <1>6, <1>7 DEF AnswerFits

(* Two queries of one key differ in nothing that the key's part tells.      *)
LEMMA SameKeyFits ==
    ASSUME NEW p \in Queries, NEW q \in Queries, CacheKey(p) = CacheKey(q),
           NEW answer, FitsTheKey(answer, p)
    PROVE  FitsTheKey(answer, q)
<1>1. /\ p.text = q.text /\ p.scopes = q.scopes /\ p.pluginIds = q.pluginIds
      /\ p.userId = q.userId /\ p.projectId = q.projectId /\ p.tags = q.tags
      /\ p.maxResults = q.maxResults
  BY DEF CacheKey
<1> QED BY <1>1 DEF FitsTheKey, ResultLimit

LEMMA MatchingIs ==
    ASSUME IInv, NEW q \in Queries
    PROVE  Matching(q) \in Seq(MemoryRecords) /\ \A r \in Range(Matching(q)) : Matches(r, q)
<1> DEFINE T == {r \in Range(records) : Matches(r, q)}
<1>1. records \in Seq(MemoryRecords)
  BY DEF IInv, StoreInv
<1>2. Matching(q) \in Seq(MemoryRecords \cap T) /\ Range(Matching(q)) = Range(records) \cap T
  BY <1>1, KeepInRange DEF Matching
<1>3. Matching(q) \in Seq(MemoryRecords)
  <2> HIDE DEF T
  <2> QED BY <1>2
<1> QED BY <1>2, <1>3

LEMMA AskedKeeps ==
    ASSUME AskInv, NEW a \in Askers, NEW pc, NEW q, NEW found, NEW answer, NEW ask,
           ask = [pc |-> pc, query |-> q, found |-> found, answer |-> answer],
           Asked(a, pc, q, found, answer), AskOK(a, ask)
    PROVE  AskInv'
<1>1. asked' = [asked EXCEPT ![a] = ask]
  BY DEF Asked
<1>2. asked' \in [Askers -> Asks] /\ asked'[a] = ask /\ \A b \in Askers : b # a => asked'[b] = asked[b]
  BY <1>1 DEF AskInv, AskOK
<1>3. \A b \in Askers : AskOK(b, asked'[b])
  BY <1>2 DEF AskInv
<1> QED BY <1>2, <1>3 DEF AskInv

LEMMA AnswerFromCacheKeeps ==
    ASSUME AskInv, CacheInv, NEW a \in Askers, NEW q \in Queries, AnswerFromCache(a, q)
    PROVE  AskInv' /\ CacheInv'
<1> DEFINE answer == cache[CacheKey(q)]
           ask == [pc |-> "answered", query |-> q, found |-> <<>>, answer |-> answer]
<1>1. /\ a \in Cached /\ CacheKey(q) \in DOMAIN cache /\ cache' = cache
      /\ Asked(a, "answered", q, <<>>, answer)
  BY DEF AnswerFromCache, HitsCache
<1>2. answer \in Seq(MemoryRecords) /\ FitsTheKey(answer, q)
  BY <1>1 DEF CacheInv, EntryOK
<1> HIDE DEF answer
<1>3. ask \in Asks
  BY <1>2 DEF Asks
<1>4. AskOK(a, ask)
  BY <1>1, <1>2, <1>3 DEF AskOK
<1>5. AskInv'
  <2> HIDE DEF ask
  <2>1. ask = [pc |-> "answered", query |-> q, found |-> <<>>, answer |-> answer]
    BY DEF ask
  <2> QED BY <1>1, <1>4, <2>1, AskedKeeps
<1> QED BY <1>1, <1>5 DEF CacheInv

LEMMA AskKeeps ==
    ASSUME IInv, AskInv, CacheInv, NEW a \in Askers, NEW q \in Queries, Ask(a, q)
    PROVE  AskInv' /\ CacheInv'
<1>1. cache' = cache
  BY DEF Ask
<1>2. CASE initialized
  <2> DEFINE found == Matching(q)
             ask == [pc |-> "asking", query |-> q, found |-> found, answer |-> <<>>]
  <2>1. Asked(a, "asking", q, found, <<>>)
    BY <1>2 DEF Ask
  <2>2. found \in Seq(MemoryRecords) /\ \A r \in Range(found) : Matches(r, q)
    BY MatchingIs
  <2> HIDE DEF found
  <2>3. ask \in Asks
    BY <2>2 DEF Asks
  <2>4. AskOK(a, ask)
    BY <2>2, <2>3 DEF AskOK
  <2>5. ask = [pc |-> "asking", query |-> q, found |-> found, answer |-> <<>>]
    OBVIOUS
  <2> HIDE DEF ask
  <2> QED BY <1>1, <2>1, <2>4, <2>5, AskedKeeps DEF CacheInv
<1>3. CASE ~initialized
  <2> DEFINE ask == [pc |-> "failed", query |-> Absent, found |-> <<>>, answer |-> <<>>]
  <2>1. Asked(a, "failed", Absent, <<>>, <<>>)
    BY <1>3 DEF Ask
  <2>2. ask \in Asks
    BY DEF Asks
  <2>3. AskOK(a, ask)
    BY <2>2 DEF AskOK
  <2>4. ask = [pc |-> "failed", query |-> Absent, found |-> <<>>, answer |-> <<>>]
    OBVIOUS
  <2> HIDE DEF ask
  <2> QED BY <1>1, <2>1, <2>3, <2>4, AskedKeeps DEF CacheInv
<1> QED BY <1>2, <1>3

LEMMA AnswerKeeps ==
    ASSUME AskInv, CacheInv, NEW a \in Askers, Answer(a)
    PROVE  AskInv' /\ CacheInv'
<1> DEFINE q == asked[a].query
           found == asked[a].found
           kept == IF a \in Cached THEN <<>> ELSE found
           answer == RankMemories(ApplyQueryFilters(found, q), q)
           ask == [pc |-> "answered", query |-> q, found |-> kept, answer |-> answer]
           full == [pc |-> "answered", query |-> q, found |-> found, answer |-> answer]
<1>1. /\ asked[a].pc = "asking" /\ Asked(a, "answered", q, kept, answer)
      /\ cache' = IF a \notin Cached THEN cache
                  ELSE [k \in DOMAIN cache \cup {CacheKey(q)} |->
                           IF k = CacheKey(q) THEN answer ELSE cache[k]]
  BY DEF Answer, AnswerWith
<1>2. /\ q \in Queries /\ found \in Seq(MemoryRecords) /\ \A r \in Range(found) : Matches(r, q)
  BY <1>1 DEF AskInv, AskOK, Asks
<1> HIDE DEF q, found
<1>3. full.found = found /\ full.answer = answer /\ full.query = q
  OBVIOUS
<1>4. answer \in Seq(MemoryRecords) /\ AnswerFits(full)
  <2> HIDE DEF full
  <2> QED BY <1>2, <1>3, RankFits
<1> HIDE DEF answer
<1>5. FitsTheKey(answer, q)
  BY <1>4 DEF AnswerFits
<1>6. ask \in Asks
  BY <1>2, <1>4 DEF Asks
<1>7. AskOK(a, ask)
  <2>1. a \notin Cached => ask = full
    OBVIOUS
  <2>2. ask.pc = "answered" /\ ask.query = q /\ ask.answer = answer
    OBVIOUS
  <2> HIDE DEF ask, full
  <2> QED BY <1>2, <1>4, <1>5, <1>6, <2>1, <2>2 DEF AskOK
<1>8. AskInv'
  <2>1. ask = [pc |-> "answered", query |-> q, found |-> kept, answer |-> answer]
    OBVIOUS
  <2> HIDE DEF ask, kept
  <2> QED BY <1>1, <1>7, <2>1, AskedKeeps
<1>9. EntryOK(CacheKey(q), answer)
  BY <1>2, <1>4, <1>5, SameKeyFits DEF EntryOK
<1>10. CacheInv'
  <2>1. \A key \in DOMAIN cache' :
           \/ cache'[key] = answer /\ key = CacheKey(q)
           \/ key \in DOMAIN cache /\ cache'[key] = cache[key]
    <3> HIDE DEF ask, full
    <3> QED BY <1>1
  <2> QED BY <1>9, <2>1 DEF CacheInv
<1> QED BY <1>8, <1>10

LEMMA AskInit == Init => AskInv /\ CacheInv
<1> SUFFICES ASSUME Init PROVE AskInv /\ CacheInv
  OBVIOUS
<1> DEFINE ask == [pc |-> "idle", query |-> Absent, found |-> <<>>, answer |-> <<>>]
<1>1. asked = [a \in Askers |-> ask] /\ cache = <<>>
  BY DEF Init
<1>2. ask \in Asks
  BY DEF Asks
<1>3. \A a \in Askers : AskOK(a, ask)
  BY <1>2 DEF AskOK
<1>4. CacheInv
  BY <1>1 DEF CacheInv
<1> HIDE DEF ask
<1> QED BY <1>1, <1>2, <1>3, <1>4 DEF AskInv

LEMMA AskStep == IInv /\ AskInv /\ CacheInv /\ [Next]_vars => AskInv' /\ CacheInv'
<1> SUFFICES ASSUME IInv, AskInv, CacheInv, [Next]_vars PROVE AskInv' /\ CacheInv'
  OBVIOUS
<1>1. ASSUME UNCHANGED asked, \A key \in DOMAIN cache' : key \in DOMAIN cache /\ cache'[key] = cache[key]
      PROVE  AskInv' /\ CacheInv'
  BY <1>1 DEF AskInv, CacheInv
<1>2. ASSUME UNCHANGED <<asked, cache>> PROVE AskInv' /\ CacheInv'
  BY <1>1, <1>2
<1>3. CASE Initialize \/ Continue \/ Close
  BY <1>2, <1>3 DEF Initialize, Continue, Close
<1>4. CASE ClearCache
  BY <1>1, <1>4 DEF ClearCache
<1>5. ASSUME NEW input \in Inputs, Store(input) PROVE AskInv' /\ CacheInv'
  BY <1>2, <1>5 DEF Store
<1>6. ASSUME NEW new \in Policies, SetPolicy(new) PROVE AskInv' /\ CacheInv'
  BY <1>2, <1>6 DEF SetPolicy
<1>7. ASSUME NEW id \in 1..stored, Delete(id) PROVE AskInv' /\ CacheInv'
  BY <1>2, <1>7 DEF Delete
<1>8. ASSUME NEW key \in DOMAIN cache, Expire(key) PROVE AskInv' /\ CacheInv'
  BY <1>1, <1>8 DEF Expire
<1>9. CASE UNCHANGED vars
  BY <1>2, <1>9 DEF vars
<1> QED BY <1>3, <1>4, <1>5, <1>6, <1>7, <1>8, <1>9, AskKeeps, AnswerFromCacheKeeps, AnswerKeeps
        DEF Next

LEMMA AskInductive == Spec => [](AskInv /\ CacheInv)
<1>1. Init => AskInv /\ CacheInv
  BY AskInit
<1>2. IInv /\ (AskInv /\ CacheInv) /\ [Next]_vars => (AskInv /\ CacheInv)'
  BY AskStep
<1> QED BY <1>1, <1>2, IndexInductive, PTL DEF Spec

(* MemoryRetriever, MemoryRanking: whoever asks what, through the cache or  *)
(* not, an answer keeps to its query, best first, no better record is left  *)
(* out of one from the provider, and no cached one shows a user another's.  *)
THEOREM AnswersAreFit == Spec => []AnswersFitTheQuery
<1>1. AskInv => AnswersFitTheQuery
  <2> SUFFICES ASSUME AskInv, NEW a \in Askers, asked[a].pc = "answered"
               PROVE  /\ FitsTheKey(asked[a].answer, asked[a].query)
                      /\ a \notin Cached => AnswerFits(asked[a])
    BY DEF AnswersFitTheQuery, AnswerFits
  <2> QED BY DEF AskInv, AskOK
<1> QED BY <1>1, AskInductive, PTL

(* Of any records and queries, the state has its type.                      *)
THEOREM TypeCorrect == Spec => []TypeOK
<1>1. IInv /\ AskInv => TypeOK
  <2> SUFFICES ASSUME IInv, AskInv PROVE TypeOK
    OBVIOUS
  <2>1. records \in Seq(MemoryRecords) /\ OrderedBy(records, Earlier)
    BY DEF IInv, StoreInv
  <2>2. ASSUME NEW i \in 1..Len(records)
        PROVE  records[i].id \in 1..stored /\ (i > 1 => records[i - 1].id < records[i].id)
    <3>1. records[i].id \in 1..stored
      BY <2>1, RangeIn DEF IInv, StoreInv, Ids
    <3>2. ASSUME i > 1 PROVE records[i - 1].id < records[i].id
      <4>1. i - 1 \in 1..Len(records) /\ i - 1 < i
        BY <2>1, <3>2
      <4>2. <<records[i - 1], records[i]>> \in Earlier
        BY <2>1, <4>1 DEF OrderedBy
      <4> QED BY <4>2 DEF Earlier
    <3> QED BY <3>1, <3>2
  <2>3. \A i \in 1..Len(queue) : queue[i].does \in {"index", "remove"}
    <3>1. queue \in Seq(Operations)
      BY DEF IInv, QueueInv
    <3>2. \A i \in 1..Len(queue) : queue[i] \in Operations
      BY <3>1
    <3> QED BY <3>2 DEF Operations
  <2>4. \A a \in Askers : asked[a].pc \in {"idle", "asking", "answered", "failed"}
    BY DEF AskInv, Asks
  <2> QED BY <2>2, <2>3, <2>4 DEF TypeOK, IInv, StoreInv, QueueInv
<1> QED BY <1>1, IndexInductive, AskInductive, PTL

-----------------------------------------------------------------------------
(* Housekeeping                                                             *)

(* The filters for hosts, one after the other, are the provider's at once.  *)
LEMMA FiltersMatch ==
    ASSUME records \in Seq(MemoryRecords), NEW q \in Queries
    PROVE  ApplyFilter(records, q) = Matching(q)
<1> DEFINE all == Range(records)
           T1 == {r \in all : q.scopes # {} => r.scope \in q.scopes}
           T2 == {r \in T1 : q.pluginIds # {} => r.pluginId \in q.pluginIds}
           T3 == {r \in T2 : q.userId # Absent => r.userId = q.userId}
           T4 == {r \in T3 : q.projectId # Absent => r.projectId = q.projectId}
           T5 == {r \in T4 : q.tags # {} => \E t \in r.tags : t \in q.tags}
           T6 == {r \in T5 : q.minImportance # Unset => r.importance >= q.minImportance}
           T7 == {r \in T6 : q.includeReadOnly \/ ~r.readOnly}
           f1 == FilterByScope(records, q.scopes)
           f2 == FilterByPluginId(f1, q.pluginIds)
           f3 == IF q.userId = Absent THEN f2 ELSE FilterByUserId(f2, q.userId)
           f4 == IF q.projectId = Absent THEN f3 ELSE FilterByProjectId(f3, q.projectId)
           f5 == FilterByTags(f4, q.tags)
           f6 == IF q.minImportance = Unset THEN f5 ELSE FilterByImportance(f5, q.minImportance)
           f7 == IF q.includeReadOnly THEN f6 ELSE ExcludeReadOnly(f6)
           Kept(T) == KeepIn(records, T)
<1>1. ApplyFilter(records, q) = f7
  BY DEF ApplyFilter
<1>2. /\ T1 \subseteq all /\ T2 \subseteq T1 /\ T3 \subseteq T2 /\ T4 \subseteq T3
      /\ T5 \subseteq T4 /\ T6 \subseteq T5 /\ T7 \subseteq T6
  OBVIOUS
<1>3. \A T \in SUBSET all : /\ Range(Kept(T)) = T
                            /\ \A U \in SUBSET T : KeepIn(Kept(T), U) = Kept(U)
  BY KeepInFewer
<1>4. Kept(all) = records
  BY KeepInAll
<1>5. f1 = Kept(T1)
  <2>1. CASE q.scopes = {}
    <3>1. T1 = all
      BY <2>1
    <3> QED BY <1>4, <2>1, <3>1 DEF FilterByScope
  <2>2. CASE q.scopes # {}
    <3>1. T1 = {r \in Range(records) : r.scope \in q.scopes}
      BY <2>2
    <3> HIDE DEF T1
    <3> QED BY <2>2, <3>1 DEF FilterByScope
  <2> QED BY <2>1, <2>2
<1> HIDE DEF f1, Kept
<1>6. f2 = Kept(T2)
  <2>1. CASE q.pluginIds = {}
    <3>1. T2 = T1
      BY <2>1
    <3> QED BY <1>5, <2>1, <3>1 DEF FilterByPluginId
  <2>2. CASE q.pluginIds # {}
    <3>1. Range(f1) = T1
      BY <1>5, <1>3
    <3>2. {r \in Range(f1) : r.pluginId \in q.pluginIds} = T2
      BY <2>2, <3>1
    <3>3. f2 = KeepIn(f1, T2)
      BY <2>2, <3>2 DEF FilterByPluginId
    <3>4. T1 \in SUBSET all /\ T2 \in SUBSET T1
      OBVIOUS
    <3> HIDE DEF T1, T2, f2
    <3> QED BY <1>5, <1>3, <3>3, <3>4
  <2> QED BY <2>1, <2>2
<1> HIDE DEF f2
<1>7. f3 = Kept(T3)
  <2>1. CASE q.userId = Absent
    <3>1. T3 = T2
      BY <2>1
    <3> QED BY <1>6, <2>1, <3>1
  <2>2. CASE q.userId # Absent
    <3>1. T2 \in SUBSET all /\ T3 \in SUBSET T2
      OBVIOUS
    <3>2. Range(f2) = T2
      BY <1>6, <1>3, <3>1
    <3>3. {r \in Range(f2) : r.userId = q.userId} = T3
      BY <2>2, <3>2
    <3>4. f3 = KeepIn(f2, T3)
      BY <2>2, <3>3 DEF FilterByUserId
    <3> HIDE DEF T2, T3, f3
    <3> QED BY <1>6, <1>3, <3>1, <3>4
  <2> QED BY <2>1, <2>2
<1> HIDE DEF f3
<1>8. f4 = Kept(T4)
  <2>1. CASE q.projectId = Absent
    <3>1. T4 = T3
      BY <2>1
    <3> QED BY <1>7, <2>1, <3>1
  <2>2. CASE q.projectId # Absent
    <3>1. T3 \in SUBSET all /\ T4 \in SUBSET T3
      OBVIOUS
    <3>2. Range(f3) = T3
      BY <1>7, <1>3, <3>1
    <3>3. {r \in Range(f3) : r.projectId = q.projectId} = T4
      BY <2>2, <3>2
    <3>4. f4 = KeepIn(f3, T4)
      BY <2>2, <3>3 DEF FilterByProjectId
    <3> HIDE DEF T3, T4, f4
    <3> QED BY <1>7, <1>3, <3>1, <3>4
  <2> QED BY <2>1, <2>2
<1> HIDE DEF f4
<1>9. f5 = Kept(T5)
  <2>1. CASE q.tags = {}
    <3>1. T5 = T4
      BY <2>1
    <3> QED BY <1>8, <2>1, <3>1 DEF FilterByTags
  <2>2. CASE q.tags # {}
    <3>1. T4 \in SUBSET all /\ T5 \in SUBSET T4
      OBVIOUS
    <3>2. Range(f4) = T4
      BY <1>8, <1>3, <3>1
    <3>3. {r \in Range(f4) : \E t \in r.tags : t \in q.tags} = T5
      BY <2>2, <3>2
    <3>4. f5 = KeepIn(f4, T5)
      BY <2>2, <3>3 DEF FilterByTags
    <3> HIDE DEF T4, T5, f5
    <3> QED BY <1>8, <1>3, <3>1, <3>4
  <2> QED BY <2>1, <2>2
<1> HIDE DEF f5
<1>10. f6 = Kept(T6)
  <2>1. CASE q.minImportance = Unset
    <3>1. T6 = T5
      BY <2>1
    <3> QED BY <1>9, <2>1, <3>1
  <2>2. CASE q.minImportance # Unset
    <3>1. T5 \in SUBSET all /\ T6 \in SUBSET T5
      OBVIOUS
    <3>2. Range(f5) = T5
      BY <1>9, <1>3, <3>1
    <3>3. {r \in Range(f5) : r.importance >= q.minImportance} = T6
      BY <2>2, <3>2
    <3>4. f6 = KeepIn(f5, T6)
      BY <2>2, <3>3 DEF FilterByImportance
    <3> HIDE DEF T5, T6, f6
    <3> QED BY <1>9, <1>3, <3>1, <3>4
  <2> QED BY <2>1, <2>2
<1> HIDE DEF f6
<1>11. f7 = Kept(T7)
  <2>1. CASE q.includeReadOnly
    <3>1. T7 = T6
      BY <2>1
    <3> QED BY <1>10, <2>1, <3>1
  <2>2. CASE ~q.includeReadOnly
    <3>1. T6 \in SUBSET all /\ T7 \in SUBSET T6
      OBVIOUS
    <3>2. Range(f6) = T6
      BY <1>10, <1>3, <3>1
    <3>3. {r \in Range(f6) : ~r.readOnly} = T7
      BY <2>2, <3>2
    <3>4. f7 = KeepIn(f6, T7)
      BY <2>2, <3>3 DEF ExcludeReadOnly
    <3> HIDE DEF T6, T7, f7
    <3> QED BY <1>10, <1>3, <3>1, <3>4
  <2> QED BY <2>1, <2>2
<1>12. T7 = {r \in all : Matches(r, q)}
  BY DEF Matches
<1> HIDE DEF f7, T7, all
<1> QED BY <1>1, <1>11, <1>12 DEF Matching, Kept, all

(* So many things, all different.                                           *)
Firsts(g, n) == {g[i] : i \in 1..n}

LEMMA DifferentCount ==
    ASSUME NEW n \in Nat, NEW g, \A i, j \in 1..n : g[i] = g[j] => i = j
    PROVE  IsFiniteSet(Firsts(g, n)) /\ Cardinality(Firsts(g, n)) = n
<1> DEFINE these(k) == Firsts(g, k)
           A == {k \in Nat : k <= n => IsFiniteSet(these(k)) /\ Cardinality(these(k)) = k}
<1>1. 0 \in A
  <2>1. these(0) = {}
    BY DEF Firsts
  <2> QED BY <2>1, FS_EmptySet
<1>2. ASSUME NEW k \in Nat, k \in A PROVE k + 1 \in A
  <2> SUFFICES ASSUME k + 1 <= n
               PROVE  IsFiniteSet(these(k + 1)) /\ Cardinality(these(k + 1)) = k + 1
    OBVIOUS
  <2>1. IsFiniteSet(these(k)) /\ Cardinality(these(k)) = k
    BY <1>2
  <2>2. 1..(k + 1) = 1..k \cup {k + 1} /\ (k + 1) \notin 1..k /\ k + 1 \in 1..n /\ 1..k \subseteq 1..n
    OBVIOUS
  <2>3. these(k + 1) = these(k) \cup {g[k + 1]} /\ g[k + 1] \notin these(k)
    BY <2>2 DEF Firsts
  <2> HIDE DEF these
  <2> QED BY <2>1, <2>3, FS_AddElement
<1> HIDE DEF A
<1>3. n \in A
  BY <1>1, <1>2, SetInduction
<1> QED BY <1>3 DEF A

(* Records of different ids, in order.                                      *)
LEMMA RecordsDiffer ==
    ASSUME StoreInv
    PROVE  \A i, j \in 1..Len(records) : records[i].id = records[j].id => i = j
<1> SUFFICES ASSUME NEW i \in 1..Len(records), NEW j \in 1..Len(records),
                    records[i].id = records[j].id, i # j
             PROVE  FALSE
  OBVIOUS
<1>1. records[i] \in MemoryRecords /\ records[j] \in MemoryRecords
  BY DEF StoreInv
<1>2. records[i].id \in Nat /\ records[j].id \in Nat
  BY <1>1, RecordIs
<1>3. <<records[i], records[j]>> \in Earlier \/ <<records[j], records[i]>> \in Earlier
  BY DEF StoreInv, OrderedBy
<1>4. records[i].id < records[j].id \/ records[j].id < records[i].id
  BY <1>3 DEF Earlier
<1> QED BY <1>2, <1>4

(* The records to go: the first so many of those that may go, in order.     *)
EvictsRight(gone, limit) ==
    LET all == ToSet(records) IN
    /\ \A r \in gone : ~r.readOnly
    /\ \/ Cardinality(all \ gone) = limit
       \/ Cardinality(all \ gone) > limit /\ \A r \in all \ gone : r.readOnly
    /\ \A r \in gone, other \in all \ gone : other.readOnly \/ r.importance <= other.importance

(* The m that may go, the least important first, and the k that do.         *)
Evicts(found, count, gone, first, m, k) ==
    /\ m \in Nat /\ k \in 0..m /\ k = Min({count, m})
    /\ gone = Firsts(first, k)
    /\ {r \in Range(found) : ~r.readOnly} = Firsts(first, m)
    /\ \A i, j \in 1..m : first[i] = first[j] => i = j
    /\ \A i, j \in 1..m : i < j => first[i].importance <= first[j].importance

LEMMA EvictionIs ==
    ASSUME NEW found \in Seq(MemoryRecords), NoRepeats(found), NEW count \in Nat
    PROVE  \E first, m, k :
              Evicts(found, count, SelectEvictionCandidates(found, count), first, m, k)
<1> DEFINE T == {r \in Range(found) : ~r.readOnly}
<1>1. PICK may \in Seq(MemoryRecords) : /\ may = ExcludeReadOnly(found) /\ Range(may) = T
                                        /\ NoRepeats(may)
  <2>1. ExcludeReadOnly(found) = KeepIn(found, T)
    BY DEF ExcludeReadOnly
  <2>2. KeepIn(found, T) \in Seq(MemoryRecords \cap T) /\ Range(KeepIn(found, T)) = Range(found) \cap T
    BY KeepInRange
  <2>3. KeepIn(found, T) \in Seq(MemoryRecords)
    BY <2>2
  <2>4. NoRepeats(KeepIn(found, T))
    BY KeepInNoRepeats
  <2>5. Range(found) \cap T = T
    OBVIOUS
  <2> HIDE DEF T
  <2> QED BY <2>1, <2>2, <2>3, <2>4, <2>5
<1> HIDE DEF T
<1>2. PICK m \in Nat : m = Len(may)
  OBVIOUS
<1>3. PICK key \in Seq(Int) : /\ key = [i \in 1..m |-> -may[i].importance] /\ Len(key) = m
                              /\ \A i \in 1..m : key[i] = -may[i].importance
  <2> DEFINE keys == [i \in 1..m |-> -may[i].importance]
  <2>1. \A i \in 1..m : may[i] \in MemoryRecords
    BY <1>2
  <2>2. \A i \in 1..m : -may[i].importance \in Int
    BY <2>1, RecordIs
  <2>3. keys \in Seq(Int) /\ Len(keys) = m
    BY <2>2
  <2> QED BY <2>3
<1>4. PICK f \in [1..m -> 1..m] :
         /\ Ordering(m, Falling(key)) = f /\ Range(f) = 1..m
         /\ \A i, j \in 1..m : i < j => key[f[i]] >= key[f[j]] /\ f[i] # f[j]
  BY <1>3, FallingSorts
<1>5. PICK k \in 0..m : k = Min({count, m})
  <2>0. count \in Int /\ m \in Int
    OBVIOUS
  <2>1. Min({count, m}) \in {count, m} /\ Min({count, m}) <= m
    BY <2>0, MinOfTwo
  <2>2. Min({count, m}) \in 0..m
    BY <2>1
  <2> QED BY <2>2
<1> DEFINE first == [i \in 1..m |-> may[f[i]]]
<1>6. \A i \in 1..m : first[i] = may[f[i]]
  OBVIOUS
<1>7. SelectEvictionCandidates(found, count) = {first[i] : i \in 1..k}
  <2>1. LeastImportant(may) = Falling(key)
    BY <1>2, <1>3 DEF LeastImportant
  <2>2. SelectEvictionCandidates(found, count) = {may[f[i]] : i \in 1..k}
    BY <1>1, <1>2, <1>4, <1>5, <2>1 DEF SelectEvictionCandidates
  <2>3. \A i \in 1..k : i \in 1..m
    OBVIOUS
  <2> HIDE DEF first
  <2>4. \A i \in 1..k : first[i] = may[f[i]]
    BY <1>6, <2>3
  <2>5. {may[f[i]] : i \in 1..k} = {first[i] : i \in 1..k}
    BY <2>4
  <2> QED BY <2>2, <2>5
<1> HIDE DEF first
<1>8. T = {first[i] : i \in 1..m}
  <2>1. T = {may[i] : i \in 1..m}
    <3>1. DOMAIN may = 1..m
      BY <1>2
    <3> QED BY <1>1, <3>1 DEF Range
  <2>2. \A k1 \in 1..m : \E i \in 1..m : f[i] = k1
    BY <1>4 DEF Range
  <2>3. \A i \in 1..m : first[i] \in T
    <3>1. \A i \in 1..m : f[i] \in 1..m
      BY <1>4
    <3> QED BY <1>6, <2>1, <3>1
  <2>4. \A r \in T : \E i \in 1..m : r = first[i]
    <3> TAKE r \in T
    <3>1. PICK k1 \in 1..m : r = may[k1]
      BY <2>1
    <3>2. PICK i \in 1..m : f[i] = k1
      BY <2>2
    <3>3. r = first[i]
      BY <1>6, <3>1, <3>2
    <3> QED BY <3>3
  <2> QED BY <2>3, <2>4
<1>9. \A i, j \in 1..m : first[i] = first[j] => i = j
  <2> SUFFICES ASSUME NEW i \in 1..m, NEW j \in 1..m, first[i] = first[j], i # j PROVE FALSE
    OBVIOUS
  <2>1. f[i] \in 1..m /\ f[j] \in 1..m /\ f[i] # f[j]
    <3>1. i < j \/ j < i
      OBVIOUS
    <3> QED BY <1>4, <3>1
  <2>2. may[f[i]] = may[f[j]]
    BY <1>6
  <2> QED BY <1>1, <1>2, <2>1, <2>2 DEF NoRepeats
<1>10. \A i, j \in 1..m : i < j => first[i].importance <= first[j].importance
  <2> SUFFICES ASSUME NEW i \in 1..m, NEW j \in 1..m, i < j
               PROVE  first[i].importance <= first[j].importance
    OBVIOUS
  <2>1. f[i] \in 1..m /\ f[j] \in 1..m /\ key[f[i]] >= key[f[j]]
    BY <1>4
  <2>2. may[f[i]].importance \in Int /\ may[f[j]].importance \in Int
    BY <1>2, <2>1, RecordIs
  <2>3. -may[f[i]].importance >= -may[f[j]].importance
    BY <1>3, <2>1
  <2>4. may[f[i]].importance <= may[f[j]].importance
    <3>1. \A a, b \in Int : -a >= -b => a <= b
      OBVIOUS
    <3> QED BY <2>2, <2>3, <3>1
  <2> QED BY <1>6, <2>4
<1>11. Evicts(found, count, SelectEvictionCandidates(found, count), first, m, k)
  <2>1. SelectEvictionCandidates(found, count) = Firsts(first, k) /\ T = Firsts(first, m)
    BY <1>7, <1>8 DEF Firsts
  <2>2. {r \in Range(found) : ~r.readOnly} = Firsts(first, m)
    BY <2>1 DEF T
  <2> QED BY <1>5, <1>9, <1>10, <2>1, <2>2 DEF Evicts
<1> QED BY <1>11

LEMMA EvictionIsRight ==
    ASSUME StoreInv, NEW limit \in 0..Len(records)
    PROVE  EvictsRight(SelectEvictionCandidates(records, CalculateEvictionCount(records, limit)), limit)
<1> DEFINE n == Len(records)
           all == Range(records)
           gone == SelectEvictionCandidates(records, CalculateEvictionCount(records, limit))
<1>1. records \in Seq(MemoryRecords) /\ n \in Nat /\ limit \in Nat /\ limit <= n
  BY DEF StoreInv
<1>2. NoRepeats(records)
  BY RecordsDiffer DEF NoRepeats
<1>3. CalculateEvictionCount(records, limit) = n - limit /\ n - limit \in Nat
  <2>1. n - limit \in Nat
    BY <1>1
  <2>2. \E x \in {0, n - limit} : \A y \in {0, n - limit} : x >= y
    BY <2>1
  <2>3. Max({0, n - limit}) = n - limit
    BY <2>1, <2>2 DEF Max
  <2> QED BY <2>1, <2>3 DEF CalculateEvictionCount
<1>11. PICK first, m, k : Evicts(records, n - limit, gone, first, m, k)
  <2> HIDE DEF n
  <2> QED BY <1>1, <1>2, <1>3, EvictionIs
<1>4. /\ m \in Nat /\ k \in 0..m
      /\ k = Min({n - limit, m}) /\ gone = Firsts(first, k)
      /\ {r \in all : ~r.readOnly} = Firsts(first, m)
      /\ \A i, j \in 1..m : first[i] = first[j] => i = j
      /\ \A i, j \in 1..m : i < j => first[i].importance <= first[j].importance
  <2> HIDE DEF gone
  <2> QED BY <1>11 DEF Evicts
<1>5. all = ToSet(records) /\ IsFiniteSet(all) /\ Cardinality(all) = n
  <2>1. all = Firsts(records, n) /\ all = ToSet(records)
    BY <1>1 DEF Range, ToSet, Firsts
  <2>2. \A i, j \in 1..n : records[i] = records[j] => i = j
    BY <1>2 DEF NoRepeats
  <2> HIDE DEF all
  <2> QED BY <1>1, <2>1, <2>2, DifferentCount
<1> HIDE DEF n, all, gone
<1>6. IsFiniteSet(gone) /\ Cardinality(gone) = k /\ gone \subseteq all
  <2>0. m \in Nat /\ k \in 0..m
    BY <1>4
  <2>1. k \in Nat /\ \A i \in 1..k : i \in 1..m
    BY <2>0
  <2>9. \A i, j \in 1..k : first[i] = first[j] => i = j
    BY <1>4, <2>1
  <2>2. IsFiniteSet(Firsts(first, k)) /\ Cardinality(Firsts(first, k)) = k
    BY <2>1, <2>9, DifferentCount
  <2>3. Firsts(first, k) \subseteq Firsts(first, m)
    BY <2>1 DEF Firsts
  <2>4. Firsts(first, m) \subseteq all
    BY <1>4
  <2> QED BY <1>4, <2>2, <2>3, <2>4
<1>7. Cardinality(all \ gone) = n - k
  <2>1. all \cap gone = gone
    BY <1>6
  <2>2. Cardinality(all \ gone) = Cardinality(all) - Cardinality(all \cap gone)
    BY <1>5, FS_Difference
  <2> QED BY <1>5, <1>6, <2>1, <2>2
<1>8. \A r \in gone : ~r.readOnly
  <2>1. Firsts(first, k) \subseteq Firsts(first, m)
    BY <1>4 DEF Firsts
  <2>2. \A r \in Firsts(first, m) : ~r.readOnly
    BY <1>4
  <2> QED BY <1>4, <2>1, <2>2
<1>9. \/ Cardinality(all \ gone) = limit
      \/ Cardinality(all \ gone) > limit /\ \A r \in all \ gone : r.readOnly
  <2>0. k \in Int /\ m \in Int /\ n - limit \in Int
    BY <1>3, <1>4
  <2>1. k = n - limit \/ (k = m /\ m < n - limit)
    <3>1. /\ n - limit <= m => k = n - limit
          /\ m <= n - limit => k = m
      BY <1>4, <2>0, MinOfTwo
    <3> QED BY <2>0, <3>1
  <2>2. CASE k = n - limit
    BY <1>1, <1>7, <2>2
  <2>3. CASE k = m /\ m < n - limit
    <3>1. gone = {r \in all : ~r.readOnly}
      BY <1>4, <2>3
    <3>2. \A r \in all \ gone : r.readOnly
      BY <3>1
    <3>3. n - k > limit
      BY <1>1, <2>0, <2>3
    <3> QED BY <1>7, <3>2, <3>3
  <2> QED BY <2>1, <2>2, <2>3
<1>10. \A r \in gone, other \in all \ gone : other.readOnly \/ r.importance <= other.importance
  <2> SUFFICES ASSUME NEW r \in gone, NEW other \in all \ gone, ~other.readOnly
               PROVE  r.importance <= other.importance
    OBVIOUS
  <2>1. PICK i \in 1..k : r = first[i]
    BY <1>4 DEF Firsts
  <2>2. PICK j \in 1..m : other = first[j]
    BY <1>4 DEF Firsts
  <2>3. ~(j \in 1..k)
    BY <1>4, <2>2 DEF Firsts
  <2>4. i \in 1..m /\ i < j
    BY <1>4, <2>3
  <2> QED BY <1>4, <2>1, <2>2, <2>4
<1> QED BY <1>5, <1>8, <1>9, <1>10 DEF EvictsRight, gone

LEMMA ExpiredStays ==
    ASSUME records \in Seq(MemoryRecords), NEW now \in Nat
    PROVE  ToSet(FilterExpired(records, now + 1)) \subseteq ToSet(FilterExpired(records, now))
<1> DEFINE fresh(t) == {r \in Range(records) : ~IsExpired(r, t)}
<1>1. \A t : Range(FilterExpired(records, t)) = fresh(t)
  <2> TAKE t
  <2>1. Range(KeepIn(records, fresh(t))) = Range(records) \cap fresh(t)
    BY KeepInRange
  <2> QED BY <2>1 DEF FilterExpired
<1>2. fresh(now + 1) \subseteq fresh(now)
  <2> SUFFICES ASSUME NEW r \in Range(records), IsExpired(r, now) PROVE IsExpired(r, now + 1)
    OBVIOUS
  <2>1. r \in MemoryRecords
    BY RangeIn
  <2>2. PICK input \in Inputs, importance \in 0..10, n \in Nat : r = Record(input, importance, n)
    BY <2>1 DEF MemoryRecords
  <2>3. r.day = n /\ r.ttl = DefaultTtl(input.scope) /\ input.scope \in KnownScopes
    BY <2>2, MemoryAssumption DEF Record
  <2>4. r.ttl \in Int
    BY <2>3 DEF DefaultTtl, KnownScopes, Unset
  <2>5. 24 * (now - r.day) > r.ttl => 24 * ((now + 1) - r.day) > r.ttl
    BY <2>3, <2>4
  <2> QED BY <2>5 DEF IsExpired
<1>3. \A s : ToSet(s) = Range(s)
  BY DEF ToSet, Range
<1> HIDE DEF fresh
<1> QED BY <1>1, <1>2, <1>3

(* The places where things were met first, out of those kept in order, when *)
(* the things kept are the first n.                                         *)
LEMMA PlacesKept ==
    ASSUME NEW n \in Nat, NEW p \in Nat, n <= p
    PROVE  LET first == KeepIn([k \in 1..p |-> k], 1..n) IN
           Len(first) = n /\ \A i \in 1..n : first[i] \in 1..n
<1> DEFINE id == [k \in 1..p |-> k]
           T == 1..n
           first == KeepIn(id, T)
<1>1. id \in Seq(Nat) /\ Len(id) = p /\ NoRepeats(id) /\ Range(id) = 1..p
  <2>1. id \in Seq(Nat) /\ Len(id) = p /\ DOMAIN id = 1..p /\ \A k \in 1..p : id[k] = k
    OBVIOUS
  <2> HIDE DEF id
  <2>2. NoRepeats(id)
    BY <2>1 DEF NoRepeats
  <2>3. Range(id) = 1..p
    BY <2>1 DEF Range
  <2> QED BY <2>1, <2>2, <2>3
<1>2. T \subseteq 1..p
  OBVIOUS
<1>3. IsFiniteSet(T) /\ Cardinality(T) = n
  <2> DEFINE g == [k \in 1..n |-> k]
  <2>1. \A i, j \in 1..n : g[i] = g[j] => i = j
    OBVIOUS
  <2>2. Firsts(g, n) = T
    BY DEF Firsts
  <2> HIDE DEF g, T
  <2> QED BY <2>1, <2>2, DifferentCount
<1> HIDE DEF id, T
<1>4. first \in Seq(Nat \cap T) /\ Range(first) = T /\ NoRepeats(first)
  <2>1. first \in Seq(Nat \cap T) /\ Range(first) = Range(id) \cap T
    BY <1>1, KeepInRange
  <2>2. NoRepeats(first)
    BY <1>1, KeepInNoRepeats
  <2> QED BY <1>1, <1>2, <2>1, <2>2
<1> DEFINE l == Len(first)
<1> HIDE DEF first
<1>5. l \in Nat /\ DOMAIN first = 1..l
  BY <1>4
<1>6. Firsts(first, l) = T
  BY <1>4, <1>5 DEF Firsts, Range
<1>7. l = Cardinality(T)
  <2>1. \A i, j \in 1..l : first[i] = first[j] => i = j
    BY <1>4 DEF NoRepeats
  <2> HIDE DEF l
  <2> QED BY <1>5, <1>6, <2>1, DifferentCount
<1>8. \A i \in 1..l : first[i] \in T
  BY <1>6 DEF Firsts
<1>9. l = n
  BY <1>3, <1>7
<1> QED BY <1>8, <1>9 DEF first, id, T, l

(* What deduplicateScores() is given and what it owes: of each record the   *)
(* better of two scores, from the best to the least.                        *)
Scored(now) ==
    [i \in 1..Len(records) |-> [record |-> records[i], score |-> Score(records[i], now)]]

BestOf(r, a, b) == Max({Score(r, a), Score(r, b)})

MergesRight(merged, a, b) ==
    /\ Len(merged) = Len(records)
    /\ \A i \in 1..Len(merged) :
          /\ merged[i].score = Max({Score(merged[i].record, a), Score(merged[i].record, b)})
          /\ i > 1 => merged[i - 1].score >= merged[i].score

SameRecord(scores, k) == {m \in DOMAIN scores : scores[m].record.id = scores[k].record.id}

FirstMet(scores) == {k \in DOMAIN scores : \A m \in SameRecord(scores, k) : k <= m}

ItsScores(scores, k) == {scores[m].score : m \in SameRecord(scores, k)}

(* The two lists one after the other: a record's two scores are as far      *)
(* apart as there are records.                                              *)
ScoredTwice(scores, n, a, b) ==
    /\ DOMAIN scores = 1..(2 * n) /\ FirstMet(scores) = 1..n
    /\ \A k \in 1..n : /\ scores[k].record = records[k]
                       /\ ItsScores(scores, k) = {Score(records[k], a), Score(records[k], b)}

LEMMA ScoredIs ==
    ASSUME records \in Seq(MemoryRecords), NEW now \in Int, NEW n, n = Len(records)
    PROVE  /\ Scored(now) \in Seq([record : MemoryRecords, score : Int]) /\ Len(Scored(now)) = n
           /\ \A k \in 1..n : /\ Scored(now)[k].record = records[k]
                              /\ Scored(now)[k].score = Score(records[k], now)
<1>1. n \in Nat /\ \A k \in 1..n : records[k] \in MemoryRecords /\ Score(records[k], now) \in Int
  BY ScoreIs
<1>2. Scored(now) = [k \in 1..n |-> [record |-> records[k], score |-> Score(records[k], now)]]
  BY DEF Scored
<1>3. \A k \in 1..n : [record |-> records[k], score |-> Score(records[k], now)]
                         \in [record : MemoryRecords, score : Int]
  BY <1>1
<1> QED BY <1>1, <1>2, <1>3

LEMMA TwiceScored ==
    ASSUME StoreInv, NEW a \in Int, NEW b \in Int, NEW n, n = Len(records),
           NEW scores, scores = Scored(a) \o Scored(b)
    PROVE  ScoredTwice(scores, n, a, b)
<1>1. /\ records \in Seq(MemoryRecords) /\ n \in Nat
      /\ \A i \in 1..n : records[i] \in MemoryRecords /\ records[i].id \in Nat
  <2>1. records \in Seq(MemoryRecords)
    BY DEF StoreInv
  <2> QED BY <2>1, RecordIs
<1>2. \A i, j \in 1..n : records[i].id = records[j].id => i = j
  BY RecordsDiffer
<1>3. /\ DOMAIN scores = 1..(2 * n)
      /\ \A k \in 1..n : /\ scores[k].record = records[k]
                         /\ scores[k].score = Score(records[k], a)
                         /\ scores[k + n].record = records[k]
                         /\ scores[k + n].score = Score(records[k], b)
  <2>1. PICK S : S = [record : MemoryRecords, score : Int]
    OBVIOUS
  <2>2. PICK s : /\ s = Scored(a) /\ s \in Seq(S) /\ Len(s) = n
                 /\ \A k \in 1..n : s[k].record = records[k] /\ s[k].score = Score(records[k], a)
    BY <1>1, <2>1, ScoredIs
  <2>3. PICK t : /\ t = Scored(b) /\ t \in Seq(S) /\ Len(t) = n
                 /\ \A k \in 1..n : t[k].record = records[k] /\ t[k].score = Score(records[k], b)
    BY <1>1, <2>1, ScoredIs
  <2>4. s \in Seq(S) /\ t \in Seq(S)
    BY <2>2, <2>3
  <2>7. Len(s) = n /\ Len(t) = n /\ scores = s \o t
    BY <2>2, <2>3
  <2>5. /\ DOMAIN (s \o t) = 1..(Len(s) + Len(t))
        /\ \A i \in 1..Len(s) : (s \o t)[i] = s[i]
        /\ \A i \in 1..Len(t) : (s \o t)[i + Len(s)] = t[i]
    BY <2>4, ConcatIs
  <2>6. Len(s) + Len(t) = 2 * n
    BY <1>1, <2>7
  <2> QED BY <2>2, <2>3, <2>5, <2>6, <2>7
<1>4. \A k \in 1..(2 * n) : k \in 1..n \/ \E j \in 1..n : k = j + n
  <2> SUFFICES ASSUME NEW k \in 1..(2 * n), k \notin 1..n PROVE \E j \in 1..n : k = j + n
    OBVIOUS
  <2>1. k - n \in 1..n /\ k = (k - n) + n
    BY <1>1
  <2> QED BY <2>1
<1>5. \A k \in 1..n : k \in 1..(2 * n) /\ k + n \in 1..(2 * n) /\ k + n > k /\ k \in Int
  BY <1>1
<1>6. \A k \in 1..n : /\ SameRecord(scores, k) = {k, k + n}
                      /\ k \in SameRecord(scores, k + n)
  <2> TAKE k \in 1..n
  <2>1. k \in 1..(2 * n) /\ k + n \in 1..(2 * n)
    BY <1>5
  <2>2. scores[k].record = records[k] /\ scores[k + n].record = records[k]
    BY <1>3
  <2>3. ASSUME NEW m \in 1..(2 * n), scores[m].record.id = records[k].id PROVE m \in {k, k + n}
    <3>1. CASE m \in 1..n
      <4>1. records[m].id = records[k].id
        BY <1>3, <2>3, <3>1
      <4> QED BY <1>2, <3>1, <4>1
    <3>2. ASSUME NEW j \in 1..n, m = j + n PROVE m \in {k, k + n}
      <4>1. records[j].id = records[k].id
        BY <1>3, <2>3, <3>2
      <4> QED BY <1>2, <3>2, <4>1
    <3> QED BY <1>4, <3>1, <3>2
  <2> QED BY <1>3, <2>1, <2>2, <2>3 DEF SameRecord
<1>7. FirstMet(scores) = 1..n
  <2>1. \A k \in 1..n : k \in DOMAIN scores /\ \A m \in SameRecord(scores, k) : k <= m
    <3> TAKE k \in 1..n
    <3>1. k \in DOMAIN scores /\ SameRecord(scores, k) = {k, k + n} /\ k <= k /\ k <= k + n
      BY <1>1, <1>3, <1>5, <1>6
    <3> QED BY <3>1
  <2>2. ASSUME NEW k \in DOMAIN scores, k \notin 1..n
        PROVE  ~(\A m \in SameRecord(scores, k) : k <= m)
    <3>1. PICK j \in 1..n : k = j + n
      BY <1>3, <1>4, <2>2
    <3>2. j \in SameRecord(scores, k) /\ ~(k <= j)
      BY <1>1, <1>6, <3>1
    <3> QED BY <3>2
  <2> QED BY <2>1, <2>2 DEF FirstMet
<1>8. \A k \in 1..n : ItsScores(scores, k) = {Score(records[k], a), Score(records[k], b)}
  <2> TAKE k \in 1..n
  <2>1. SameRecord(scores, k) = {k, k + n}
    BY <1>6
  <2>2. scores[k].score = Score(records[k], a) /\ scores[k + n].score = Score(records[k], b)
    BY <1>3
  <2> QED BY <2>1, <2>2 DEF ItsScores
<1> QED BY <1>3, <1>7, <1>8 DEF ScoredTwice

LEMMA MergeIsRight ==
    ASSUME StoreInv, NEW a \in Int, NEW b \in Int
    PROVE  MergesRight(DeduplicateScores(Scored(a) \o Scored(b)), a, b)
<1> DEFINE n == Len(records)
           scores == Scored(a) \o Scored(b)
           first == KeepIn([k \in DOMAIN scores |-> k], FirstMet(scores))
           seen == [i \in 1..Len(first) |-> [record |-> scores[first[i]].record,
                                             score |-> Max(ItsScores(scores, first[i]))]]
           keys == [i \in 1..Len(seen) |-> seen[i].score]
           merged == [i \in 1..Len(seen) |-> seen[Ordering(Len(seen), Falling(keys))[i]]]
<1>1. DeduplicateScores(scores) = merged
  <2> HIDE DEF scores
  <2> QED BY DEF DeduplicateScores, SameRecord, FirstMet, ItsScores
<1>2. n \in Nat /\ \A i \in 1..n : records[i] \in MemoryRecords
  BY DEF StoreInv
<1>3. /\ DOMAIN scores = 1..(2 * n) /\ FirstMet(scores) = 1..n
      /\ \A k \in 1..n : /\ scores[k].record = records[k]
                         /\ ItsScores(scores, k) = {Score(records[k], a), Score(records[k], b)}
  <2>1. ScoredTwice(scores, n, a, b)
    BY TwiceScored
  <2> HIDE DEF scores, n
  <2> QED BY <2>1 DEF ScoredTwice
<1> HIDE DEF scores, n
<1>4. Len(first) = n /\ \A i \in 1..n : first[i] \in 1..n
  <2>1. 2 * n \in Nat /\ n <= 2 * n
    BY <1>2
  <2> QED BY <1>2, <1>3, <2>1, PlacesKept
<1> HIDE DEF first
<1>5. Len(seen) = n
  BY <1>2, <1>4
<1>6. \A i \in 1..n : /\ seen[i].record = records[first[i]]
                      /\ seen[i].score = BestOf(records[first[i]], a, b)
                      /\ seen[i].score \in Int
  <2> TAKE i \in 1..n
  <2>1. first[i] \in 1..n
    BY <1>4
  <2>2. seen[i] = [record |-> scores[first[i]].record, score |-> Max(ItsScores(scores, first[i]))]
    BY <1>4
  <2> HIDE DEF seen
  <2>3. seen[i].record = scores[first[i]].record /\ seen[i].score = Max(ItsScores(scores, first[i]))
    BY <2>2
  <2>4. /\ scores[first[i]].record = records[first[i]]
        /\ ItsScores(scores, first[i]) = {Score(records[first[i]], a), Score(records[first[i]], b)}
    BY <1>3, <2>1
  <2>5. Score(records[first[i]], a) \in Int /\ Score(records[first[i]], b) \in Int
    BY <1>2, <2>1, ScoreIs
  <2>6. BestOf(records[first[i]], a, b) \in Int
    BY <2>5, MaxOfTwo DEF BestOf
  <2>7. seen[i].score = BestOf(records[first[i]], a, b)
    BY <2>3, <2>4 DEF BestOf
  <2> QED BY <2>3, <2>4, <2>6, <2>7
<1> HIDE DEF seen
<1>7. keys \in Seq(Int) /\ Len(keys) = n /\ \A i \in 1..n : keys[i] = seen[i].score
  BY <1>2, <1>5, <1>6
<1> HIDE DEF keys
<1>8. PICK f \in [1..n -> 1..n] :
         /\ Ordering(n, Falling(keys)) = f
         /\ \A i, j \in 1..n : i < j => keys[f[i]] >= keys[f[j]]
  BY <1>7, FallingSorts
<1>9. merged = [i \in 1..n |-> seen[f[i]]]
  BY <1>5, <1>8
<1> HIDE DEF merged
<1>10. Len(merged) = n /\ \A i \in 1..n : merged[i] = seen[f[i]] /\ f[i] \in 1..n
  BY <1>2, <1>8, <1>9
<1>11. ASSUME NEW i \in 1..n
       PROVE  /\ merged[i].score = Max({Score(merged[i].record, a), Score(merged[i].record, b)})
              /\ i > 1 => merged[i - 1].score >= merged[i].score
  <2>1. merged[i] = seen[f[i]] /\ f[i] \in 1..n
    BY <1>10
  <2>2. merged[i].score = BestOf(merged[i].record, a, b)
    BY <1>6, <2>1
  <2>3. ASSUME i > 1 PROVE merged[i - 1].score >= merged[i].score
    <3>1. i - 1 \in 1..n /\ i - 1 < i
      BY <1>2, <2>3
    <3>2. keys[f[i - 1]] >= keys[f[i]]
      BY <1>8, <3>1
    <3>3. f[i - 1] \in 1..n /\ merged[i - 1] = seen[f[i - 1]]
      BY <1>10, <3>1
    <3> QED BY <1>7, <2>1, <3>2, <3>3
  <2> QED BY <2>2, <2>3 DEF BestOf
<1> QED BY <1>1, <1>10, <1>11 DEF MergesRight, n, scores

LEMMA HousekeepingKeeps == ASSUME IInv PROVE HousekeepingKeepsTheBest
<1>1. StoreInv /\ records \in Seq(MemoryRecords) /\ stored \in Nat
  BY MemoryAssumption DEF IInv, StoreInv
<1>2. \A limit \in 0..Len(records) :
         EvictsRight(SelectEvictionCandidates(records, CalculateEvictionCount(records, limit)), limit)
  BY <1>1, EvictionIsRight
<1>3. \A now \in 0..(stored + 1) :
         ToSet(FilterExpired(records, now + 1)) \subseteq ToSet(FilterExpired(records, now))
  BY <1>1, ExpiredStays
<1>4. MergesRight(DeduplicateScores(Scored(stored) \o Scored(Loaded)), stored, Loaded)
  <2>1. stored \in Int /\ Loaded \in Int
    BY <1>1, LoadedIs
  <2> QED BY <1>1, <2>1, MergeIsRight
<1>5. \A q \in Queries : ApplyFilter(records, q) = Matching(q)
  BY <1>1, FiltersMatch
<1> QED BY <1>2, <1>3, <1>4, <1>5, Zenon DEF HousekeepingKeepsTheBest, EvictsRight, MergesRight, Scored

(* MemoryPolicies.ts, deduplicateScores(), applyFilter(): whatever was      *)
(* stored and deleted, a host that evicts down to a limit loses no          *)
(* read-only record and none that outweighs one it keeps, the merged scores *)
(* of two days are each record's best, in order, and its filters let        *)
(* through what the provider does.                                          *)
THEOREM BestIsKept == Spec => []HousekeepingKeepsTheBest
<1>1. IInv => HousekeepingKeepsTheBest
  BY HousekeepingKeeps
<1> QED BY <1>1, IndexInductive, PTL

-----------------------------------------------------------------------------
(* The registries of providers: with the types, the property is inductive   *)
(* by itself.                                                               *)

RegistriesTypes ==
    /\ providers \in [Kinds -> Seq(ProviderIds)]
    /\ default \in [Kinds -> ProviderIds \cup {None}]

RegistriesInv == RegistriesTypes /\ DefaultIsRegistered

LEMMA AppendKeepsDefault ==
    ASSUME NEW s \in Seq(ProviderIds), NEW d \in ProviderIds \cup {None}, WellKept(s, d), NEW id \in ProviderIds,
           id # None, ~\E i \in 1..Len(s) : s[i] = id
    PROVE  WellKept(Append(s, id), IF s = <<>> THEN id ELSE d)
<1> DEFINE n == Len(s)
           t == Append(s, id)
<1>1. /\ n \in Nat /\ Len(t) = n + 1 /\ t # <<>> /\ t[n + 1] = id
      /\ \A i \in 1..n : t[i] = s[i]
      /\ s = <<>> <=> n = 0
  OBVIOUS
<1> HIDE DEF n, t
<1>2. \A i \in 1..(n + 1) : i \in 1..n \/ i = n + 1
  BY <1>1
<1>3. \A i, j \in 1..(n + 1) : i # j => t[i] # t[j]
  BY <1>1, <1>2 DEF WellKept, n
<1>4. ASSUME s # <<>> PROVE \E i \in 1..(n + 1) : t[i] = d
  <2>1. PICK i \in 1..n : s[i] = d
    BY <1>4 DEF WellKept, n
  <2>2. i \in 1..(n + 1) /\ t[i] = d
    BY <1>1, <2>1
  <2> QED BY <2>2
<1>5. n + 1 \in 1..(n + 1)
  BY <1>1
<1> QED BY <1>1, <1>3, <1>4, <1>5 DEF WellKept, t

LEMMA RemoveKeepsDefault ==
    ASSUME NEW s \in Seq(ProviderIds), NEW d \in ProviderIds \cup {None}, WellKept(s, d),
           None \notin ProviderIds, NEW i \in 1..Len(s), NEW left, left = RemoveAt(s, i)
    PROVE  /\ left \in Seq(ProviderIds)
           /\ d # s[i] => WellKept(left, d)
           /\ d = s[i] => WellKept(left, IF left = <<>> THEN None ELSE left[1])
<1>1. /\ left \in Seq(ProviderIds) /\ Len(left) = Len(s) - 1
      /\ \A j \in 1..Len(left) : left[j] = IF j < i THEN s[j] ELSE s[j + 1]
  BY RemoveAtIs
<1>2. \A j, k \in 1..Len(left) : j # k => left[j] # left[k]
  BY <1>1 DEF WellKept
<1>3. ASSUME d # s[i] PROVE WellKept(left, d)
  <2>1. CASE d = None
    BY <1>1, <1>2, <2>1 DEF WellKept
  <2>2. CASE d # None
    <3>1. PICK n \in 1..Len(s) : s[n] = d
      BY <2>2 DEF WellKept
    <3>2. n # i
      BY <1>3, <3>1
    <3>3. \E j \in 1..Len(left) : left[j] = d
      <4>1. CASE n < i
        BY <1>1, <3>1, <4>1
      <4>2. CASE n > i
        <5>1. n - 1 \in 1..Len(left) /\ left[n - 1] = d
          BY <1>1, <3>1, <4>2
        <5> QED BY <5>1
      <4> QED BY <3>2, <4>1, <4>2
    <3>4. left # <<>>
      BY <1>1, <3>3
    <3> QED BY <1>2, <2>2, <3>3, <3>4 DEF WellKept
  <2> QED BY <2>1, <2>2
<1>4. CASE left = <<>>
  BY <1>1, <1>3, <1>4 DEF WellKept
<1>5. CASE left # <<>>
  <2>1. 1 \in 1..Len(left) /\ left[1] \in ProviderIds
    BY <1>1, <1>5
  <2> QED BY <1>1, <1>2, <1>3, <1>5, <2>1 DEF WellKept
<1> QED BY <1>4, <1>5

LEMMA StepRegistries ==
    ASSUME None \notin ProviderIds
    PROVE  RegistriesInv /\ [RegistriesNext]_registryVars => RegistriesInv'
<1> SUFFICES ASSUME RegistriesInv, [RegistriesNext]_registryVars PROVE RegistriesInv'
  OBVIOUS
<1>1. /\ providers \in [Kinds -> Seq(ProviderIds)] /\ default \in [Kinds -> ProviderIds \cup {None}]
      /\ \A k \in Kinds : WellKept(providers[k], default[k])
  BY DEF RegistriesInv, RegistriesTypes, DefaultIsRegistered
<1>2. ASSUME NEW k \in Kinds, NEW s \in Seq(ProviderIds), NEW d \in ProviderIds \cup {None}, WellKept(s, d),
             providers' = [providers EXCEPT ![k] = s],
             default' = [default EXCEPT ![k] = d]
      PROVE  RegistriesInv'
  <2>1. providers' \in [Kinds -> Seq(ProviderIds)]
    BY <1>1, <1>2
  <2>2. default' \in [Kinds -> ProviderIds \cup {None}]
    BY <1>1, <1>2
  <2>3. \A l \in Kinds : WellKept(providers'[l], default'[l])
    BY <1>1, <1>2
  <2> QED BY <2>1, <2>2, <2>3 DEF RegistriesInv, RegistriesTypes, DefaultIsRegistered
<1>3. ASSUME NEW k \in Kinds
      PROVE  /\ providers[k] \in Seq(ProviderIds) /\ default[k] \in ProviderIds \cup {None}
             /\ WellKept(providers[k], default[k])
             /\ providers = [providers EXCEPT ![k] = providers[k]]
             /\ default = [default EXCEPT ![k] = default[k]]
             /\ \A id : Has(k, id) <=> \E i \in 1..Len(providers[k]) : providers[k][i] = id
  <2>1. providers[k] \in Seq(ProviderIds)
    BY <1>1
  <2>2. \A id : Has(k, id) <=> \E i \in 1..Len(providers[k]) : providers[k][i] = id
    BY <2>1 DEF Has, ToSet
  <2> QED BY <1>1, <2>1, <2>2
<1>4. "llm" \in Kinds /\ "memory" \in Kinds
  BY DEF Kinds
<1>5. ASSUME NEW id \in ProviderIds, RegisterLLM(id)
      PROVE  RegistriesInv'
  <2> DEFINE s == providers["llm"]
             d == default["llm"]
  <2>1. /\ s \in Seq(ProviderIds) /\ d \in ProviderIds \cup {None} /\ WellKept(s, d)
        /\ Has("llm", id) <=> \E i \in 1..Len(s) : s[i] = id
    BY <1>3, <1>4
  <2>2. CASE Has("llm", id)
    <3>1. s # <<>>
      BY <2>1, <2>2
    <3>2. UNCHANGED registryVars
      BY <1>5, <2>1, <2>2, <3>1 DEF RegisterLLM, WellKept, registryVars
    <3> QED BY <3>2 DEF registryVars, RegistriesInv, RegistriesTypes, DefaultIsRegistered, WellKept
  <2>3. CASE ~Has("llm", id)
    <3>1. WellKept(Append(s, id), IF s = <<>> THEN id ELSE d) /\ Append(s, id) \in Seq(ProviderIds)
      BY <2>1, <2>3, AppendKeepsDefault
    <3>2. default' = [default EXCEPT !["llm"] = IF s = <<>> THEN id ELSE d]
      <4>1. d = None <=> s = <<>>
        BY <2>1 DEF WellKept
      <4> QED BY <1>3, <1>4, <1>5, <4>1 DEF RegisterLLM
    <3>3. providers' = [providers EXCEPT !["llm"] = Append(s, id)]
      BY <1>5, <2>3 DEF RegisterLLM
    <3> HIDE DEF s, d
    <3> QED BY <1>2, <1>4, <2>1, <3>1, <3>2, <3>3
  <2> QED BY <2>2, <2>3
<1>6. ASSUME NEW id \in ProviderIds, RegisterMemory(id)
      PROVE  RegistriesInv'
  <2> DEFINE s == providers["memory"]
             d == default["memory"]
  <2>1. /\ s \in Seq(ProviderIds) /\ d \in ProviderIds \cup {None} /\ WellKept(s, d)
        /\ ~\E i \in 1..Len(s) : s[i] = id
    BY <1>3, <1>4, <1>6 DEF RegisterMemory
  <2>2. WellKept(Append(s, id), IF s = <<>> THEN id ELSE d) /\ Append(s, id) \in Seq(ProviderIds)
    BY <2>1, AppendKeepsDefault
  <2>3. default' = [default EXCEPT !["memory"] = IF s = <<>> THEN id ELSE d]
    <3>1. Len(s) = 0 <=> s = <<>>
      BY <2>1
    <3> QED BY <1>3, <1>4, <1>6, <3>1 DEF RegisterMemory
  <2>4. providers' = [providers EXCEPT !["memory"] = Append(s, id)]
    BY <1>6 DEF RegisterMemory
  <2> HIDE DEF s, d
  <2> QED BY <1>2, <1>4, <2>1, <2>2, <2>3, <2>4
<1>7. ASSUME NEW k \in Kinds, NEW id \in ProviderIds, Unregister(k, id)
      PROVE  RegistriesInv'
  <2> DEFINE s == providers[k]
             d == default[k]
  <2>1. s \in Seq(ProviderIds) /\ d \in ProviderIds \cup {None} /\ WellKept(s, d)
    BY <1>3
  <2>2. PICK i \in 1..Len(s) :
            /\ s[i] = id
            /\ providers' = [providers EXCEPT ![k] = RemoveAt(s, i)]
            /\ default' = IF d # id THEN default
                          ELSE [default EXCEPT ![k] = IF RemoveAt(s, i) = <<>> THEN None
                                                      ELSE RemoveAt(s, i)[1]]
    BY <1>7 DEF Unregister
  <2> DEFINE left == RemoveAt(s, i)
  <2>3. /\ left \in Seq(ProviderIds)
        /\ d # id => WellKept(left, d)
        /\ d = id => WellKept(left, IF left = <<>> THEN None ELSE left[1])
    BY <2>1, <2>2, RemoveKeepsDefault
  <2>4. left # <<>> => left[1] \in ProviderIds
    BY <2>3
  <2>5. default = [default EXCEPT ![k] = d]
    BY <1>3
  <2>6. CASE d # id
    BY <1>2, <2>1, <2>2, <2>3, <2>5, <2>6
  <2>7. CASE d = id
    <3>1. (IF left = <<>> THEN None ELSE left[1]) \in ProviderIds \cup {None}
      BY <2>4
    <3> QED BY <1>2, <2>2, <2>3, <2>7, <3>1
  <2> QED BY <2>6, <2>7
<1>8. ASSUME NEW k \in Kinds, NEW id \in ProviderIds, SetDefault(k, id)
      PROVE  RegistriesInv'
  <2>1. WellKept(providers[k], id)
    BY <1>3, <1>8 DEF SetDefault, WellKept
  <2> QED BY <1>2, <1>3, <1>8, <2>1 DEF SetDefault
<1>9. ASSUME NEW k \in Kinds, ClearProviders(k)
      PROVE  RegistriesInv'
  <2>1. WellKept(<<>>, None) /\ <<>> \in Seq(ProviderIds)
    BY DEF WellKept
  <2> QED BY <1>2, <1>9, <2>1 DEF ClearProviders
<1>10. CASE UNCHANGED registryVars
  BY <1>10 DEF registryVars, RegistriesInv, RegistriesTypes, DefaultIsRegistered, WellKept
<1> QED BY <1>5, <1>6, <1>7, <1>8, <1>9, <1>10 DEF RegistriesNext

(* defaultProvider() never fails with a provider registered, whatever was   *)
(* registered and unregistered, if no provider is called "none".            *)
THEOREM DefaultAlwaysRegistered ==
    ASSUME None \notin ProviderIds
    PROVE  RegistriesSpec => []DefaultIsRegistered
<1>1. RegistriesInit => RegistriesInv
  <2> SUFFICES ASSUME RegistriesInit PROVE RegistriesInv
    OBVIOUS
  <2>1. <<>> \in Seq(ProviderIds) /\ WellKept(<<>>, None)
    BY DEF WellKept
  <2> QED BY <2>1 DEF RegistriesInit, RegistriesInv, RegistriesTypes, DefaultIsRegistered
<1>2. RegistriesInv /\ [RegistriesNext]_registryVars => RegistriesInv'
  BY StepRegistries
<1>3. RegistriesInv => DefaultIsRegistered
  BY DEF RegistriesInv
<1> QED BY <1>1, <1>2, <1>3, PTL DEF RegistriesSpec
=============================================================================
