------------------------- MODULE CacheManagerProofs -------------------------
(***************************************************************************)
(* Proofs about CacheManager, for every set of categories, instances,      *)
(* limits and processes: the types, the counters, the limits, and what     *)
(* the disk has to do with memory.                                         *)
(***************************************************************************)
EXTENDS CacheManager, FiniteSetTheorems, TLAPS

(***************************************************************************)
(* What is live is finite, and so is what it is charged for.               *)
(***************************************************************************)
Finite ==
    /\ \A k \in Keys : IsFiniteSet(Live(k))
    /\ IsFiniteSet(LiveSlots) /\ IsFiniteSet(Bytes(LiveSlots))

(***************************************************************************)
(* An operation is under way only while the manager serves, and what it    *)
(* will store is what it has constructed.                                  *)
(***************************************************************************)
OpOK(o) ==
    /\ o.at # "idle" => boot = "up" /\ o.key \in Keys /\ o.id \in Ids
    /\ o.at \in {"build", "commit"} => o.config \in Bodies
    /\ o.at = "commit" => o.built = o.config

TypeInv == TypeOK /\ Finite /\ \A p \in Procs : OpOK(op[p])

(***************************************************************************)
(* Memory and disk, from the first record the start loads on: a record is  *)
(* live or is still to be loaded, no two records are of one instance and   *)
(* no two instances have one record.                                       *)
(***************************************************************************)
Failed == {"no factory", "limits", "broken"}
Starting == {"load", "resolver", "apply", "ensure"}

Distinct == \A r, q \in storage :
                r.rid = q.rid \/ (r.key = q.key /\ r.id = q.id) => r = q

IsLoaded(r) ==
    LET e == caches[r.key][r.id]
    IN  e # None /\ e.record = r.rid /\ e.config = r.config

\* An instance with a record.
Persisted(k, id) == id \in Live(k) /\ caches[k][id].record # None

HasRecord(k, id) ==
    \E r \in storage \ loading :
        r.key = k /\ r.id = id /\ r.rid = caches[k][id].record

EntryOK(k, id) ==
    LET e == caches[k][id]
    IN  /\ e.config \in Bodies /\ e.built = e.config /\ e.size = Size[e.config]
        /\ drift.times = 0 => HasRecord(k, id)

\* While the start loads, some records are still to be loaded.
LoadingOK == loading \subseteq storage /\ (boot # "load" => loading = {})
RecordsLoaded == \A r \in storage \ loading : IsLoaded(r)
OthersNotYet == \A r \in loading : caches[r.key][r.id] = None

EntriesOK == \A k \in Keys, id \in Ids : Persisted(k, id) => EntryOK(k, id)
RecordsApart ==
    \A k, j \in Keys, id, i \in Ids :
        Persisted(k, id) /\ Persisted(j, i) /\ caches[k][id].record = caches[j][i].record
            => k = j /\ id = i

\* Until the process serves there are only persisted instances.
StartOK == boot \in Starting =>
               drift.times = 0 /\ \A k \in Keys : \A id \in Live(k) : Persisted(k, id)

Agrees == LoadingOK /\ RecordsLoaded /\ OthersNotYet /\ EntriesOK /\ RecordsApart /\ StartOK

DiskInv == Distinct /\ (boot \notin Failed => Agrees)

(***************************************************************************)
(* The next start, for a cautious host: what is live and what is on disk   *)
(* are within the limits of the start, and a record is only ever written   *)
(* for a category that has a factory at the start.                         *)
(***************************************************************************)
Within(n, limit) == limit > 0 => n <= limit

LiveFits(k) ==
    /\ Within(Cardinality(Live(k)), BootOf(k).maxInstances)
    /\ Within(SizeOf(k, Live(k)), BootOf(k).maxSize)

StoredIds(k) == {r.id : r \in {r \in storage : r.key = k}}
StoredBytes(k) ==
    UNION {{<<k, r.id>>} \X (1 .. Size[r.config]) : r \in {r \in storage : r.key = k}}

StoredFits(k) ==
    /\ IsFiniteSet(StoredIds(k)) /\ IsFiniteSet(StoredBytes(k))
    /\ Within(Cardinality(StoredIds(k)), BootOf(k).maxInstances)
    /\ Within(Cardinality(StoredBytes(k)), BootOf(k).maxSize)

AllLiveFit == \A k \in Keys : LiveFits(k)
AllStoredFit == \A k \in Keys : StoredFits(k)

\* Nothing is on disk, or on its way there, that the start has no factory for.
RecordsLoadable == \A r \in storage : BootOf(r.key).factory # None
CommitsLoadable == \A p \in Procs : op[p].at = "commit" => BootOf(op[p].key).factory # None

ConfigsKept == \A k \in Keys : NoLooser(k, ConfigOf(k))
BootConfigured == boot = "load" => configs = BootConfigs

StartInv ==
    /\ RestartSucceeds /\ BootConfigured /\ ConfigsKept
    /\ AllLiveFit /\ AllStoredFit /\ RecordsLoadable /\ CommitsLoadable

-----------------------------------------------------------------------------
(***************************************************************************)
(* Counting.                                                               *)
(***************************************************************************)

\* The bytes of one instance.
Charge(s, n) == {s} \X (1 .. n)

\* An instance is charged for as many bytes as its size says.
LEMMA ChargeCounts ==
    ASSUME NEW s, NEW n \in Nat
    PROVE  IsFiniteSet(Charge(s, n)) /\ Cardinality(Charge(s, n)) = n
<1>1. IsFiniteSet(1 .. n) /\ Cardinality(1 .. n) = n
  BY FS_Interval
<1>2. IsFiniteSet({s}) /\ Cardinality({s}) = 1
  BY FS_Singleton
<1>3. IsFiniteSet(Charge(s, n)) /\ Cardinality(Charge(s, n)) = Cardinality({s}) * Cardinality(1 .. n)
  BY <1>1, <1>2, FS_Product DEF Charge
<1> QED  BY <1>1, <1>2, <1>3

\* A part is exchanged for another one that is apart from the rest.
LEMMA Exchange ==
    ASSUME NEW A, NEW B, NEW C, NEW D, IsFiniteSet(A), IsFiniteSet(C), B \subseteq A,
           (A \ B) \cap C = {}, D = (A \ B) \cup C
    PROVE  /\ IsFiniteSet(D)
           /\ Cardinality(D) = Cardinality(A) - Cardinality(B) + Cardinality(C)
           /\ Cardinality(A) \in Nat /\ Cardinality(B) \in Nat /\ Cardinality(C) \in Nat
           /\ Cardinality(B) <= Cardinality(A)
<1>1. A \cap B = B
  OBVIOUS
<1>2. IsFiniteSet(B) /\ Cardinality(B) <= Cardinality(A)
  BY FS_Subset
<1>3. IsFiniteSet(A \ B) /\ Cardinality(A \ B) = Cardinality(A) - Cardinality(B)
  BY <1>1, FS_Difference
<1>4. /\ IsFiniteSet(D)
      /\ Cardinality(D) = Cardinality(A \ B) + Cardinality(C) - Cardinality({})
  BY <1>3, FS_Union
<1>5. Cardinality({}) = 0
  BY FS_EmptySet
<1>6. Cardinality(A) \in Nat /\ Cardinality(B) \in Nat /\ Cardinality(C) \in Nat
  BY <1>2, FS_CardinalityType
<1> QED  BY <1>2, <1>3, <1>4, <1>5, <1>6

\* A part is taken away.
LEMMA TakenAway ==
    ASSUME NEW A, NEW B, NEW D, IsFiniteSet(A), B \subseteq A, D = A \ B
    PROVE  /\ IsFiniteSet(D) /\ Cardinality(D) = Cardinality(A) - Cardinality(B)
           /\ Cardinality(A) \in Nat /\ Cardinality(B) \in Nat /\ Cardinality(D) \in Nat
           /\ Cardinality(B) <= Cardinality(A)
<1>1. A \cap B = B
  OBVIOUS
<1>2. IsFiniteSet(B) /\ Cardinality(B) <= Cardinality(A)
  BY FS_Subset
<1>3. IsFiniteSet(A \ B) /\ Cardinality(A \ B) = Cardinality(A) - Cardinality(B)
  BY <1>1, FS_Difference
<1>4. Cardinality(A) \in Nat /\ Cardinality(B) \in Nat /\ Cardinality(D) \in Nat
  BY <1>2, <1>3, FS_CardinalityType
<1> QED  BY <1>2, <1>3, <1>4

\* The bytes of a set of instances, for given contents of the caches.
BytesIn(c, slots) == UNION {{s} \X (1 .. c[s[1]][s[2]].size) : s \in slots}

LEMMA ByteIn ==
    ASSUME NEW c, NEW S, NEW x
    PROVE  x \in BytesIn(c, S) <=> \E s \in S : x \in Charge(s, c[s[1]][s[2]].size)
BY Zenon DEF BytesIn, Charge

\* Two instances have no byte in common.
LEMMA ChargeOwner ==
    ASSUME NEW s, NEW t, NEW m, NEW n, NEW x \in Charge(s, m), x \in Charge(t, n)
    PROVE  s = t
BY DEF Charge

\* Storing an instance exchanges its bytes.
LEMMA StoreBytes ==
    ASSUME NEW c, NEW d, NEW S, NEW s, NEW old \in Nat, NEW n \in Nat, IsFiniteSet(BytesIn(c, S)),
           s \in S => c[s[1]][s[2]].size = old,
           s \notin S => old = 0,
           d[s[1]][s[2]].size = n,
           \A u \in S : u # s => d[u[1]][u[2]].size = c[u[1]][u[2]].size
    PROVE  /\ IsFiniteSet(BytesIn(d, S \cup {s}))
           /\ Cardinality(BytesIn(d, S \cup {s})) = Cardinality(BytesIn(c, S)) - old + n
           /\ Cardinality(BytesIn(c, S)) \in Nat
<1>1. Charge(s, old) \subseteq BytesIn(c, S)
  <2>1. CASE s \in S
    BY <2>1, ByteIn
  <2>2. CASE s \notin S
    <3>1. old = 0
      BY <2>2
    <3> QED  BY <3>1 DEF Charge
  <2> QED  BY <2>1, <2>2
<1>2. \A x \in BytesIn(c, S) : x \notin Charge(s, old) => \E u \in S : u # s /\ x \in Charge(u, c[u[1]][u[2]].size)
  BY ByteIn
<1>3. (BytesIn(c, S) \ Charge(s, old)) \cap Charge(s, n) = {}
  BY <1>2, ChargeOwner
<1>4. BytesIn(d, S \cup {s}) = (BytesIn(c, S) \ Charge(s, old)) \cup Charge(s, n)
  <2>1. ASSUME NEW x \in BytesIn(d, S \cup {s})
        PROVE  x \in (BytesIn(c, S) \ Charge(s, old)) \cup Charge(s, n)
    <3>1. PICK u \in S \cup {s} : x \in Charge(u, d[u[1]][u[2]].size)
      BY <2>1, ByteIn
    <3>2. CASE u = s
      BY <3>1, <3>2
    <3>3. CASE u # s
      <4>1. u \in S /\ x \in Charge(u, c[u[1]][u[2]].size)
        BY <3>1, <3>3
      <4>2. x \in BytesIn(c, S)
        BY <4>1, ByteIn
      <4>3. x \notin Charge(s, old)
        BY <3>3, <4>1, ChargeOwner
      <4> QED  BY <4>2, <4>3
    <3> QED  BY <3>2, <3>3
  <2>2. ASSUME NEW x \in BytesIn(c, S), x \notin Charge(s, old)
        PROVE  x \in BytesIn(d, S \cup {s})
    <3>1. PICK u \in S : u # s /\ x \in Charge(u, c[u[1]][u[2]].size)
      BY <1>2, <2>2
    <3>2. x \in Charge(u, d[u[1]][u[2]].size)
      BY <3>1
    <3> QED  BY <3>1, <3>2, ByteIn
  <2>3. ASSUME NEW x \in Charge(s, n)
        PROVE  x \in BytesIn(d, S \cup {s})
    BY <2>3, ByteIn
  <2> QED  BY <2>1, <2>2, <2>3
<1>5. /\ IsFiniteSet(Charge(s, old)) /\ Cardinality(Charge(s, old)) = old
      /\ IsFiniteSet(Charge(s, n)) /\ Cardinality(Charge(s, n)) = n
  BY ChargeCounts
<1>6. PICK A, B, C, D : A = BytesIn(c, S) /\ B = Charge(s, old) /\ C = Charge(s, n)
                       /\ D = BytesIn(d, S \cup {s})
  OBVIOUS
<1>7. /\ IsFiniteSet(A) /\ IsFiniteSet(C) /\ B \subseteq A
      /\ (A \ B) \cap C = {} /\ D = (A \ B) \cup C
  BY <1>1, <1>3, <1>4, <1>5, <1>6
<1>8. /\ IsFiniteSet(D) /\ Cardinality(A) \in Nat
      /\ Cardinality(D) = Cardinality(A) - Cardinality(B) + Cardinality(C)
  BY ONLY <1>7, Exchange
<1> QED  BY <1>5, <1>6, <1>8

\* Removing instances takes their bytes away.
LEMMA RemoveBytes ==
    ASSUME NEW c, NEW d, NEW S, NEW R, R \subseteq S, IsFiniteSet(BytesIn(c, S)),
           \A u \in S \ R : d[u[1]][u[2]].size = c[u[1]][u[2]].size
    PROVE  /\ IsFiniteSet(BytesIn(d, S \ R)) /\ BytesIn(c, R) \subseteq BytesIn(c, S)
           /\ Cardinality(BytesIn(d, S \ R)) = Cardinality(BytesIn(c, S)) - Cardinality(BytesIn(c, R))
           /\ Cardinality(BytesIn(c, S)) \in Nat /\ Cardinality(BytesIn(c, R)) \in Nat
           /\ Cardinality(BytesIn(d, S \ R)) \in Nat
<1>1. BytesIn(c, R) \subseteq BytesIn(c, S)
  <2>1. ASSUME NEW x \in BytesIn(c, R) PROVE x \in BytesIn(c, S)
    BY <2>1, ByteIn
  <2> QED  BY <2>1
<1>2. BytesIn(d, S \ R) = BytesIn(c, S) \ BytesIn(c, R)
  <2>1. ASSUME NEW x \in BytesIn(d, S \ R) PROVE x \in BytesIn(c, S) /\ x \notin BytesIn(c, R)
    <3>1. PICK u \in S \ R : x \in Charge(u, d[u[1]][u[2]].size)
      BY <2>1, ByteIn
    <3>2. x \in Charge(u, c[u[1]][u[2]].size)
      BY <3>1
    <3>3. x \in BytesIn(c, S)
      BY <3>2, ByteIn
    <3>4. ASSUME x \in BytesIn(c, R) PROVE FALSE
      <4>1. PICK v \in R : x \in Charge(v, c[v[1]][v[2]].size)
        BY <3>4, ByteIn
      <4>2. u = v
        BY <3>2, <4>1, ChargeOwner
      <4> QED  BY <4>2
    <3> QED  BY <3>3, <3>4
  <2>2. ASSUME NEW x \in BytesIn(c, S), x \notin BytesIn(c, R) PROVE x \in BytesIn(d, S \ R)
    <3>1. PICK u \in S : x \in Charge(u, c[u[1]][u[2]].size)
      BY <2>2, ByteIn
    <3>2. u \notin R
      BY <2>2, <3>1, ByteIn
    <3>3. x \in Charge(u, d[u[1]][u[2]].size)
      BY <3>1, <3>2
    <3> QED  BY <3>2, <3>3, ByteIn
  <2> QED  BY <2>1, <2>2
<1> QED  BY <1>1, <1>2, TakenAway

\* The instances of one category are as many as its slots.
LEMMA SlotsCount ==
    ASSUME NEW k, NEW ids, IsFiniteSet(ids)
    PROVE  IsFiniteSet({k} \X ids) /\ Cardinality({k} \X ids) = Cardinality(ids)
<1>1. IsFiniteSet({k}) /\ Cardinality({k}) = 1
  BY FS_Singleton
<1>2. Cardinality(ids) \in Nat
  BY FS_CardinalityType
<1>3. IsFiniteSet({k} \X ids) /\ Cardinality({k} \X ids) = Cardinality({k}) * Cardinality(ids)
  BY <1>1, FS_Product
<1> QED  BY <1>1, <1>2, <1>3

\* Part of the bytes.
LEMMA FewerBytes ==
    ASSUME NEW c, NEW S, NEW T, S \subseteq T, IsFiniteSet(BytesIn(c, T))
    PROVE  /\ BytesIn(c, S) \subseteq BytesIn(c, T) /\ IsFiniteSet(BytesIn(c, S))
           /\ Cardinality(BytesIn(c, S)) \in Nat
           /\ Cardinality(BytesIn(c, S)) <= Cardinality(BytesIn(c, T))
<1>1. ASSUME NEW x \in BytesIn(c, S) PROVE x \in BytesIn(c, T)
  BY <1>1, ByteIn
<1>2. PICK A, B : A = BytesIn(c, S) /\ B = BytesIn(c, T)
  OBVIOUS
<1>3. A \subseteq B /\ IsFiniteSet(B)
  BY <1>1, <1>2
<1>4. IsFiniteSet(A) /\ Cardinality(A) <= Cardinality(B)
  BY ONLY <1>3, FS_Subset
<1>5. Cardinality(A) \in Nat
  BY ONLY <1>4, FS_CardinalityType
<1> QED  BY <1>2, <1>3, <1>4, <1>5

\* The same instances have the same bytes.
LEMMA SameBytes ==
    ASSUME NEW c, NEW d, NEW S, \A u \in S : d[u[1]][u[2]].size = c[u[1]][u[2]].size
    PROVE  BytesIn(d, S) = BytesIn(c, S)
<1>1. ASSUME NEW x PROVE x \in BytesIn(d, S) <=> x \in BytesIn(c, S)
  BY ByteIn
<1> QED  BY <1>1

-----------------------------------------------------------------------------
(***************************************************************************)
(* What a step does to the caches: an instance is put in, some of a        *)
(* category are taken out, or all are gone.                                *)
(***************************************************************************)
Put(k, id, e) == caches' = [caches EXCEPT ![k][id] = e]

Taken(k, R) ==
    /\ R \subseteq Live(k)
    /\ caches' = [caches EXCEPT ![k] = [i \in Ids |-> IF i \in R THEN None ELSE caches[k][i]]]

\* An instance is put in: the others stay as they are.
LEMMA PutSlots ==
    ASSUME caches \in [Keys -> [Ids -> Instance \cup {None}]],
           NEW k \in Keys, NEW id \in Ids, NEW e \in Instance, Put(k, id, e)
    PROVE  /\ caches' \in [Keys -> [Ids -> Instance \cup {None}]]
           /\ caches'[k][id] = e /\ e # None
           /\ \A j \in Keys, i \in Ids : <<j, i>> # <<k, id>> => caches'[j][i] = caches[j][i]
           /\ Live(k)' = Live(k) \cup {id} /\ \A j \in Keys : j # k => Live(j)' = Live(j)
           /\ LiveSlots' = LiveSlots \cup {<<k, id>>}
<1>1. e # None
  BY CacheAssumption
<1>2. /\ caches' \in [Keys -> [Ids -> Instance \cup {None}]]
      /\ caches'[k][id] = e
      /\ \A j \in Keys, i \in Ids : <<j, i>> # <<k, id>> => caches'[j][i] = caches[j][i]
  BY DEF Put
<1>3. /\ Live(k)' = Live(k) \cup {id}
      /\ \A j \in Keys : j # k => Live(j)' = Live(j)
  BY <1>1, <1>2 DEF Live
<1>4. LiveSlots' = LiveSlots \cup {<<k, id>>}
  <2>1. ASSUME NEW s \in Keys \X Ids
        PROVE  s \in LiveSlots' <=> s \in LiveSlots \/ s = <<k, id>>
    BY <1>3 DEF LiveSlots
  <2> QED  BY <2>1 DEF LiveSlots
<1> QED  BY <1>1, <1>2, <1>3, <1>4

\* Instances are taken out: the others stay as they are.
LEMMA TakenSlots ==
    ASSUME caches \in [Keys -> [Ids -> Instance \cup {None}]],
           NEW k \in Keys, NEW R, Taken(k, R)
    PROVE  /\ caches' \in [Keys -> [Ids -> Instance \cup {None}]]
           /\ \A i \in R : caches'[k][i] = None
           /\ \A j \in Keys, i \in Ids : ~(j = k /\ i \in R) => caches'[j][i] = caches[j][i]
           /\ Live(k)' = Live(k) \ R /\ \A j \in Keys : j # k => Live(j)' = Live(j)
           /\ LiveSlots' = LiveSlots \ ({k} \X R) /\ {k} \X R \subseteq LiveSlots
<1>1. R \subseteq Live(k) /\ R \subseteq Ids
  BY DEF Taken, Live
<1>2. /\ caches' \in [Keys -> [Ids -> Instance \cup {None}]]
      /\ \A i \in R : caches'[k][i] = None
      /\ \A j \in Keys, i \in Ids : ~(j = k /\ i \in R) => caches'[j][i] = caches[j][i]
  BY <1>1 DEF Taken
<1>3. /\ Live(k)' = Live(k) \ R
      /\ \A j \in Keys : j # k => Live(j)' = Live(j)
  BY <1>1, <1>2 DEF Live
<1>4. {k} \X R \subseteq LiveSlots
  BY <1>1 DEF LiveSlots
<1>5. LiveSlots' = LiveSlots \ ({k} \X R)
  <2>1. ASSUME NEW s \in Keys \X Ids
        PROVE  s \in LiveSlots' <=> s \in LiveSlots /\ s \notin {k} \X R
    BY <1>3 DEF LiveSlots
  <2> QED  BY <2>1 DEF LiveSlots
<1> QED  BY <1>2, <1>3, <1>4, <1>5

\* The bytes of the model are those of the current caches.
LEMMA BytesNow ==
    ASSUME NEW S
    PROVE  Bytes(S) = BytesIn(caches, S)
BY DEF Bytes, BytesIn

\* What is live of one category is a part of what is live.
LEMMA LivePart ==
    ASSUME NEW k \in Keys
    PROVE  {k} \X Live(k) \subseteq LiveSlots
BY DEF LiveSlots, Live

\* The size of an instance is a number of bytes.
LEMMA OldSizeType ==
    ASSUME caches \in [Keys -> [Ids -> Instance \cup {None}]], NEW k \in Keys, NEW id \in Ids
    PROVE  OldSize(k, id) \in Nat
BY DEF OldSize, Live, Instance

\* Of what is live of a category, everything can be counted.
LEMMA PartsCount ==
    ASSUME Finite, NEW k \in Keys, NEW ids, ids \subseteq Live(k)
    PROVE  /\ IsFiniteSet(ids) /\ Cardinality(ids) \in Nat /\ Cardinality(ids) <= Cardinality(Live(k))
           /\ IsFiniteSet(Bytes({k} \X ids)) /\ SizeOf(k, ids) \in Nat
           /\ SizeOf(k, ids) <= SizeOf(k, Live(k))
           /\ Cardinality(Live(k)) \in Nat /\ SizeOf(k, Live(k)) \in Nat
<1>1. IsFiniteSet(Live(k)) /\ IsFiniteSet(BytesIn(caches, LiveSlots))
  BY BytesNow DEF Finite
<1>2. IsFiniteSet(ids) /\ Cardinality(ids) <= Cardinality(Live(k))
  BY <1>1, FS_Subset
<1>3. Cardinality(ids) \in Nat /\ Cardinality(Live(k)) \in Nat
  BY <1>1, <1>2, FS_CardinalityType
<1>4. /\ IsFiniteSet(BytesIn(caches, {k} \X Live(k)))
      /\ Cardinality(BytesIn(caches, {k} \X Live(k))) \in Nat
  BY <1>1, LivePart, FewerBytes
<1>5. {k} \X ids \subseteq {k} \X Live(k)
  OBVIOUS
<1>6. /\ IsFiniteSet(BytesIn(caches, {k} \X ids))
      /\ Cardinality(BytesIn(caches, {k} \X ids)) \in Nat
      /\ Cardinality(BytesIn(caches, {k} \X ids)) <= Cardinality(BytesIn(caches, {k} \X Live(k)))
  BY <1>4, <1>5, FewerBytes
<1> QED  BY <1>2, <1>3, <1>4, <1>6, BytesNow DEF SizeOf

\* One more instance, or the same number.
LEMMA OneMore ==
    ASSUME NEW A, NEW x, NEW B, IsFiniteSet(A), B = A \cup {x}
    PROVE  /\ IsFiniteSet(B) /\ Cardinality(A) \in Nat
           /\ x \in A => Cardinality(B) = Cardinality(A)
           /\ x \notin A => Cardinality(B) = Cardinality(A) + 1
<1>1. Cardinality(A) \in Nat
  BY FS_CardinalityType
<1>2. CASE x \in A
  <2>1. B = A
    BY <1>2
  <2> QED  BY <1>1, <1>2, <2>1
<1>3. CASE x \notin A
  BY <1>1, <1>3, FS_AddElement
<1> QED  BY <1>2, <1>3

\* An instance is put in: the counts change by it, and only those of its category.
LEMMA PutCounts ==
    ASSUME caches \in [Keys -> [Ids -> Instance \cup {None}]], Finite,
           NEW k \in Keys, NEW id \in Ids, NEW e \in Instance, Put(k, id, e)
    PROVE  /\ Finite'
           /\ Cardinality(LiveSlots)' =
                Cardinality(LiveSlots) + (IF id \in Live(k) THEN 0 ELSE 1)
           /\ Cardinality(Bytes(LiveSlots))' =
                Cardinality(Bytes(LiveSlots)) - OldSize(k, id) + e.size
           /\ Cardinality(Live(k))' = Cardinality(Live(k)) + (IF id \in Live(k) THEN 0 ELSE 1)
           /\ SizeOf(k, Live(k))' = SizeOf(k, Live(k)) - OldSize(k, id) + e.size
           /\ \A j \in Keys : j # k => /\ Live(j)' = Live(j)
                                       /\ SizeOf(j, Live(j))' = SizeOf(j, Live(j))
<1> DEFINE s == <<k, id>>
<1>1. /\ caches' \in [Keys -> [Ids -> Instance \cup {None}]]
      /\ caches'[k][id] = e /\ e # None
      /\ \A j \in Keys, i \in Ids : <<j, i>> # <<k, id>> => caches'[j][i] = caches[j][i]
      /\ Live(k)' = Live(k) \cup {id} /\ \A j \in Keys : j # k => Live(j)' = Live(j)
      /\ LiveSlots' = LiveSlots \cup {<<k, id>>}
  BY PutSlots
<1>2. e.size \in Nat /\ OldSize(k, id) \in Nat
  BY OldSizeType DEF Instance
<1>3. /\ IsFiniteSet(Live(k)') /\ \A j \in Keys : j # k => IsFiniteSet(Live(j)')
      /\ Cardinality(Live(k))' = Cardinality(Live(k)) + (IF id \in Live(k) THEN 0 ELSE 1)
  <2>1. IsFiniteSet(Live(k)) /\ Cardinality(Live(k)) \in Nat
    BY FS_CardinalityType DEF Finite
  <2>2. PICK A, B : A = Live(k) /\ B = Live(k)'
    OBVIOUS
  <2>3. IsFiniteSet(A) /\ B = A \cup {id}
    BY <1>1, <2>1, <2>2
  <2>4. /\ IsFiniteSet(B) /\ (id \in A => Cardinality(B) = Cardinality(A))
        /\ (id \notin A => Cardinality(B) = Cardinality(A) + 1)
    BY ONLY <2>3, OneMore
  <2>5. \A j \in Keys : j # k => IsFiniteSet(Live(j)')
    BY <1>1 DEF Finite
  <2> QED  BY <2>1, <2>2, <2>4, <2>5
<1>4. s \in LiveSlots <=> id \in Live(k)
  BY DEF LiveSlots
<1>5. /\ IsFiniteSet(LiveSlots')
      /\ Cardinality(LiveSlots)' = Cardinality(LiveSlots) + (IF id \in Live(k) THEN 0 ELSE 1)
  <2>1. IsFiniteSet(LiveSlots) /\ Cardinality(LiveSlots) \in Nat
    BY FS_CardinalityType DEF Finite
  <2>2. PICK A, B, x : A = LiveSlots /\ B = LiveSlots' /\ x = <<k, id>>
    OBVIOUS
  <2>3. IsFiniteSet(A) /\ B = A \cup {x}
    BY <1>1, <2>1, <2>2
  <2>4. /\ IsFiniteSet(B) /\ (x \in A => Cardinality(B) = Cardinality(A))
        /\ (x \notin A => Cardinality(B) = Cardinality(A) + 1)
    BY ONLY <2>3, OneMore
  <2> QED  BY <1>4, <2>1, <2>2, <2>4
<1>6. /\ s[1] = k /\ s[2] = id /\ caches'[s[1]][s[2]].size = e.size
      /\ id \in Live(k) => caches[s[1]][s[2]].size = OldSize(k, id)
      /\ id \notin Live(k) => OldSize(k, id) = 0
  BY <1>1 DEF OldSize
<1>7. \A u \in Keys \X Ids : u # s => caches'[u[1]][u[2]].size = caches[u[1]][u[2]].size
  <2>1. ASSUME NEW u \in Keys \X Ids, u # s PROVE caches'[u[1]][u[2]] = caches[u[1]][u[2]]
    <3>1. u = <<u[1], u[2]>> /\ u[1] \in Keys /\ u[2] \in Ids
      OBVIOUS
    <3> QED  BY <1>1, <2>1, <3>1
  <2> QED  BY <2>1
<1>8. LiveSlots \subseteq Keys \X Ids /\ \A j \in Keys : {j} \X Live(j) \subseteq Keys \X Ids
  BY DEF LiveSlots, Live
<1> HIDE DEF s
<1>9. /\ IsFiniteSet(Bytes(LiveSlots)')
      /\ Cardinality(Bytes(LiveSlots))' = Cardinality(Bytes(LiveSlots)) - OldSize(k, id) + e.size
  <2>1. PICK c, d, S, old, n : c = caches /\ d = caches' /\ S = LiveSlots /\ old = OldSize(k, id) /\ n = e.size
    OBVIOUS
  <2>2. /\ old \in Nat /\ n \in Nat /\ IsFiniteSet(BytesIn(c, S))
        /\ s \in S => c[s[1]][s[2]].size = old
        /\ s \notin S => old = 0
        /\ d[s[1]][s[2]].size = n
        /\ \A u \in S : u # s => d[u[1]][u[2]].size = c[u[1]][u[2]].size
    BY <1>2, <1>4, <1>6, <1>7, <1>8, <2>1, BytesNow DEF Finite
  <2>3. /\ IsFiniteSet(BytesIn(d, S \cup {s}))
        /\ Cardinality(BytesIn(d, S \cup {s})) = Cardinality(BytesIn(c, S)) - old + n
    BY ONLY <2>2, StoreBytes
  <2>4. Bytes(LiveSlots) = BytesIn(c, S) /\ Bytes(LiveSlots)' = BytesIn(d, S \cup {s})
    BY <1>1, <2>1 DEF Bytes, BytesIn, s
  <2> QED  BY <2>1, <2>3, <2>4
<1>10. SizeOf(k, Live(k))' = SizeOf(k, Live(k)) - OldSize(k, id) + e.size
  <2>1. PICK c, d, S, old, n : c = caches /\ d = caches' /\ S = {k} \X Live(k) /\ old = OldSize(k, id) /\ n = e.size
    OBVIOUS
  <2>2. IsFiniteSet(BytesIn(c, S))
    BY <2>1, PartsCount, BytesNow
  <2>3. s \in S <=> id \in Live(k)
    BY <2>1 DEF s
  <2>4. /\ old \in Nat /\ n \in Nat
        /\ s \in S => c[s[1]][s[2]].size = old
        /\ s \notin S => old = 0
        /\ d[s[1]][s[2]].size = n
        /\ \A u \in S : u # s => d[u[1]][u[2]].size = c[u[1]][u[2]].size
    BY <1>2, <1>6, <1>7, <1>8, <2>1, <2>3
  <2>5. Cardinality(BytesIn(d, S \cup {s})) = Cardinality(BytesIn(c, S)) - old + n
    BY ONLY <2>2, <2>4, StoreBytes
  <2>6. {k} \X (Live(k)') = S \cup {s}
    BY <1>1, <2>1 DEF s
  <2>7. SizeOf(k, Live(k)) = Cardinality(BytesIn(c, S))
    BY <2>1 DEF SizeOf, Bytes, BytesIn
  <2>8. SizeOf(k, Live(k))' = Cardinality(BytesIn(d, S \cup {s}))
    BY <2>1, <2>6 DEF SizeOf, Bytes, BytesIn
  <2> QED  BY <2>1, <2>5, <2>7, <2>8
<1>11. ASSUME NEW j \in Keys, j # k PROVE SizeOf(j, Live(j))' = SizeOf(j, Live(j))
  <2>1. PICK c, d, S : c = caches /\ d = caches' /\ S = {j} \X Live(j)
    OBVIOUS
  <2>2. \A u \in S : u \in Keys \X Ids /\ u # s
    BY <1>8, <1>11, <2>1 DEF s
  <2>3. \A u \in S : d[u[1]][u[2]].size = c[u[1]][u[2]].size
    BY <1>7, <2>1, <2>2
  <2>4. BytesIn(d, S) = BytesIn(c, S)
    BY ONLY <2>3, SameBytes
  <2>5. SizeOf(j, Live(j)) = Cardinality(BytesIn(c, S))
    BY <2>1 DEF SizeOf, Bytes, BytesIn
  <2>6. SizeOf(j, Live(j))' = Cardinality(BytesIn(d, S))
    <3>1. {j} \X (Live(j)') = S
      BY <1>1, <1>11, <2>1
    <3> QED  BY <2>1, <3>1 DEF SizeOf, Bytes, BytesIn
  <2> QED  BY <2>4, <2>5, <2>6
<1>12. Finite'
  BY <1>3, <1>5, <1>9 DEF Finite
<1> QED  BY <1>1, <1>3, <1>5, <1>9, <1>10, <1>11, <1>12

\* Instances are taken out: the totals lose them, and no category grows.
LEMMA TakenCounts ==
    ASSUME caches \in [Keys -> [Ids -> Instance \cup {None}]], Finite,
           NEW k \in Keys, NEW R, Taken(k, R)
    PROVE  /\ Finite'
           /\ Cardinality(LiveSlots)' = Cardinality(LiveSlots) - Cardinality(R)
           /\ Cardinality(Bytes(LiveSlots))' = Cardinality(Bytes(LiveSlots)) - SizeOf(k, R)
           /\ \A j \in Keys : /\ Cardinality(Live(j))' <= Cardinality(Live(j))
                              /\ SizeOf(j, Live(j))' <= SizeOf(j, Live(j))
                              /\ Cardinality(Live(j))' \in Nat /\ SizeOf(j, Live(j))' \in Nat
<1>1. /\ \A j \in Keys, i \in Ids : ~(j = k /\ i \in R) => caches'[j][i] = caches[j][i]
      /\ Live(k)' = Live(k) \ R /\ \A j \in Keys : j # k => Live(j)' = Live(j)
      /\ LiveSlots' = LiveSlots \ ({k} \X R) /\ {k} \X R \subseteq LiveSlots
      /\ R \subseteq Live(k)
  BY TakenSlots DEF Taken
<1>2. \A u \in Keys \X Ids : u \notin {k} \X R => caches'[u[1]][u[2]] = caches[u[1]][u[2]]
  BY <1>1
<1>3. LiveSlots \subseteq Keys \X Ids /\ \A j \in Keys : {j} \X Live(j) \subseteq Keys \X Ids
  BY DEF LiveSlots, Live
<1>4. IsFiniteSet(R) /\ IsFiniteSet({k} \X R) /\ Cardinality({k} \X R) = Cardinality(R)
  BY <1>1, PartsCount, SlotsCount
<1>5. /\ IsFiniteSet(LiveSlots')
      /\ Cardinality(LiveSlots)' = Cardinality(LiveSlots) - Cardinality(R)
  <2>1. PICK A, B, D : A = LiveSlots /\ B = {k} \X R /\ D = LiveSlots'
    OBVIOUS
  <2>2. IsFiniteSet(A) /\ B \subseteq A /\ D = A \ B
    BY <1>1, <2>1 DEF Finite
  <2>3. IsFiniteSet(D) /\ Cardinality(D) = Cardinality(A) - Cardinality(B)
    BY ONLY <2>2, TakenAway
  <2> QED  BY <1>4, <2>1, <2>3
<1>6. /\ IsFiniteSet(Bytes(LiveSlots)')
      /\ Cardinality(Bytes(LiveSlots))' = Cardinality(Bytes(LiveSlots)) - SizeOf(k, R)
  <2>1. PICK c, d, S, Q : c = caches /\ d = caches' /\ S = LiveSlots /\ Q = {k} \X R
    OBVIOUS
  <2>2. /\ Q \subseteq S /\ IsFiniteSet(BytesIn(c, S))
        /\ \A u \in S \ Q : d[u[1]][u[2]].size = c[u[1]][u[2]].size
    BY <1>1, <1>2, <1>3, <2>1, BytesNow DEF Finite
  <2>3. /\ IsFiniteSet(BytesIn(d, S \ Q))
        /\ Cardinality(BytesIn(d, S \ Q)) = Cardinality(BytesIn(c, S)) - Cardinality(BytesIn(c, Q))
    BY ONLY <2>2, RemoveBytes
  <2>4. Bytes(LiveSlots) = BytesIn(c, S) /\ SizeOf(k, R) = Cardinality(BytesIn(c, Q))
    BY <2>1, BytesNow DEF SizeOf
  <2>5. Bytes(LiveSlots)' = BytesIn(d, S \ Q)
    BY <1>1, <2>1 DEF Bytes, BytesIn
  <2> QED  BY <2>3, <2>4, <2>5
<1>7. ASSUME NEW j \in Keys
      PROVE  /\ IsFiniteSet(Live(j)') /\ Cardinality(Live(j))' <= Cardinality(Live(j))
             /\ SizeOf(j, Live(j))' <= SizeOf(j, Live(j))
             /\ Cardinality(Live(j))' \in Nat /\ SizeOf(j, Live(j))' \in Nat
  <2>1. PICK c, d, A, B : c = caches /\ d = caches' /\ A = Live(j) /\ B = Live(j)'
    OBVIOUS
  <2>2. B \subseteq A /\ \A i \in B : ~(j = k /\ i \in R)
    BY <1>1, <2>1
  <2>3. IsFiniteSet(A) /\ IsFiniteSet(BytesIn(c, {j} \X A))
    BY <2>1, PartsCount, BytesNow DEF Finite
  <2>4. IsFiniteSet(B) /\ Cardinality(B) <= Cardinality(A)
    BY ONLY <2>2, <2>3, FS_Subset
  <2>11. Cardinality(B) \in Nat
    BY ONLY <2>4, FS_CardinalityType
  <2>5. {j} \X B \subseteq {j} \X A
    BY <2>2
  <2>6. /\ Cardinality(BytesIn(c, {j} \X B)) <= Cardinality(BytesIn(c, {j} \X A))
        /\ Cardinality(BytesIn(c, {j} \X B)) \in Nat
    BY ONLY <2>3, <2>5, FewerBytes
  <2>7. \A u \in {j} \X B : d[u[1]][u[2]].size = c[u[1]][u[2]].size
    <3>1. ASSUME NEW u \in {j} \X B PROVE u \in Keys \X Ids /\ u \notin {k} \X R
      BY <1>3, <2>1, <2>2
    <3> QED  BY <1>2, <2>1, <3>1
  <2>8. BytesIn(d, {j} \X B) = BytesIn(c, {j} \X B)
    BY ONLY <2>7, SameBytes
  <2>9. SizeOf(j, Live(j)) = Cardinality(BytesIn(c, {j} \X A))
    BY <2>1, BytesNow DEF SizeOf
  <2>10. SizeOf(j, Live(j))' = Cardinality(BytesIn(d, {j} \X B))
    BY <2>1 DEF SizeOf, Bytes, BytesIn
  <2> QED  BY <2>1, <2>4, <2>6, <2>8, <2>9, <2>10, <2>11
<1>8. Finite'
  BY <1>5, <1>6, <1>7 DEF Finite
<1> QED  BY <1>5, <1>6, <1>7, <1>8

\* Nothing changes: neither do the counts.
LEMMA SameCounts ==
    ASSUME caches' = caches
    PROVE  /\ LiveSlots' = LiveSlots /\ Bytes(LiveSlots)' = Bytes(LiveSlots)
           /\ \A k \in Keys : Live(k)' = Live(k) /\ SizeOf(k, Live(k))' = SizeOf(k, Live(k))
           /\ Finite => Finite'
BY DEF LiveSlots, Live, Bytes, SizeOf, Finite

NothingLive ==
    /\ Finite /\ Cardinality(LiveSlots) = 0 /\ Cardinality(Bytes(LiveSlots)) = 0
    /\ \A k \in Keys : Live(k) = {} /\ Cardinality(Live(k)) = 0 /\ SizeOf(k, Live(k)) = 0

\* Nothing is left: the counts are zero.
LEMMA EmptyCounts == caches = EmptyCaches => NothingLive
<1> SUFFICES ASSUME caches = EmptyCaches PROVE NothingLive
  OBVIOUS
<1>1. IsFiniteSet({}) /\ Cardinality({}) = 0
  BY FS_EmptySet
<1>2. \A k \in Keys : Live(k) = {}
  BY DEF Live, EmptyCaches
<1>3. LiveSlots = {}
  BY <1>2 DEF LiveSlots
<1>4. Bytes({}) = {}
  BY DEF Bytes
<1>5. \A k \in Keys : {k} \X Live(k) = {}
  BY <1>2
<1> QED  BY <1>1, <1>2, <1>3, <1>4, <1>5 DEF Finite, SizeOf, NothingLive

\* The same after a step.
LEMMA EmptiedCounts == (caches = EmptyCaches)' => NothingLive'
BY EmptyCounts, PTL

\* One instance has its size.
LEMMA OneSize ==
    ASSUME caches \in [Keys -> [Ids -> Instance \cup {None}]],
           NEW k \in Keys, NEW id \in Live(k)
    PROVE  SizeOf(k, {id}) = OldSize(k, id) /\ Cardinality({id}) = 1
<1>1. OldSize(k, id) \in Nat /\ OldSize(k, id) = caches[k][id].size
  BY OldSizeType DEF Live, OldSize
<1>2. {k} \X {id} = {<<k, id>>}
  OBVIOUS
<1>3. Bytes({<<k, id>>}) = Charge(<<k, id>>, OldSize(k, id))
  BY <1>1 DEF Bytes, Charge
<1>4. Cardinality({id}) = 1
  BY FS_Singleton
<1> QED  BY <1>1, <1>2, <1>3, <1>4, ChargeCounts DEF SizeOf

-----------------------------------------------------------------------------
(***************************************************************************)
(* Types.                                                                  *)
(***************************************************************************)
CachesType == caches \in [Keys -> [Ids -> Instance \cup {None}]]

OpsOK == \A p \in Procs : OpOK(op[p])

OpType == [at: {"idle", "build", "commit", "remove"}, key: Keys \cup {None}, id: Ids \cup {None},
           config: Bodies \cup {None}, built: Bodies \cup {None}]

\* The configuration in force is a configuration.
LEMMA ConfigOfType ==
    ASSUME TypeOK, NEW k \in Keys
    PROVE  ConfigOf(k) \in CacheConfig
BY DEF TypeOK, ConfigOf, CacheConfig, NoConfig

\* A fresh identity is one, and neither a record nor an instance has it.
LEMMA FreshIsNew ==
    ASSUME HasFreshRecord
    PROVE  /\ FreshRecord \in RecordIds
           /\ \A r \in storage : r.rid # FreshRecord
           /\ \A k \in Keys, id \in Ids : OldRecord(k, id) # FreshRecord
BY DEF HasFreshRecord, FreshRecord

\* The record of an instance.
LEMMA OldRecordType ==
    ASSUME CachesType, NEW k \in Keys, NEW id \in Ids
    PROVE  OldRecord(k, id) \in RecordIds \cup {None}
BY DEF CachesType, OldRecord, Live, Instance

\* What a runtime instance stores.
LEMMA RuntimeType ==
    ASSUME NEW n \in Nat
    PROVE  Runtime(n) \in Instance /\ Runtime(n).size = n /\ Runtime(n).record = None
BY DEF Runtime, Instance

\* Storing an instance keeps the types of what it touches.
LEMMA StoreTypes ==
    ASSUME TypeInv, NEW k \in Keys, NEW id \in Ids, NEW e \in Instance,
           NEW replacing \in BOOLEAN, NEW old \in Nat, Store(k, id, e, replacing, old)
    PROVE  CachesType' /\ Finite' /\ instances' \in Int /\ sizeBytes' \in Int
<1>1. CachesType /\ Finite /\ Put(k, id, e) /\ instances \in Int /\ sizeBytes \in Int
  BY DEF TypeInv, TypeOK, CachesType, Store, Put
<1>2. e.size \in Nat
  BY DEF Instance
<1>3. instances' \in Int /\ sizeBytes' \in Int
  BY <1>1, <1>2 DEF Store
<1> QED  BY <1>1, <1>3, PutSlots, PutCounts DEF CachesType

\* Leaving the caches alone does.
LEMMA SameTypes ==
    ASSUME TypeInv, UNCHANGED <<caches, instances, sizeBytes>>
    PROVE  CachesType' /\ Finite' /\ instances' \in Int /\ sizeBytes' \in Int
BY SameCounts DEF TypeInv, TypeOK, CachesType

\* A step that leaves the operations alone and the process serving or starting.
LEMMA SameOps ==
    ASSUME OpsOK, op' = op, boot' = boot \/ boot # "up"
    PROVE  OpsOK'
BY DEF OpsOK, OpOK

\* A step of one operation.
LEMMA OneOp ==
    ASSUME OpsOK, op \in [Procs -> OpType], NEW p \in Procs, NEW o \in OpType, OpOK(o), Now(p, o),
           boot' = boot
    PROVE  OpsOK' /\ op' \in [Procs -> OpType]
<1>1. op' \in [Procs -> OpType] /\ \A q \in Procs : op'[q] = IF q = p THEN o ELSE op[q]
  BY DEF Now
<1>2. ASSUME NEW q \in Procs PROVE OpOK(op'[q])
  BY <1>1 DEF OpsOK
<1>3. OpsOK'
  BY <1>2 DEF OpsOK, OpOK
<1> QED  BY <1>1, <1>3

\* No operation is under way.
LEMMA IdleOp ==
    Idle \in OpType /\ OpOK(Idle)
BY DEF Idle, OpType, OpOK

TypedParts ==
    /\ CachesType /\ Finite /\ instances \in Int /\ sizeBytes \in Int /\ OpsOK
    /\ op \in [Procs -> OpType] /\ configs \in [Keys -> CacheConfig \cup {None}]
    /\ storage \subseteq Record /\ loading \subseteq Record
    /\ boot \in Starting \cup Failed \cup {"up"}
    /\ drift \in [count: Nat, size: Nat, times: Nat]

\* The parts of the type invariant.
LEMMA TypeParts == TypeInv <=> TypedParts
BY DEF TypedParts, TypeInv, TypeOK, CachesType, OpsOK, OpType, Starting, Failed

\* The same after a step.
LEMMA TypePartsAfter == TypeInv' <=> TypedParts'
BY TypeParts, PTL

Started ==
    \/ \E r \in loading : AddLoaded(r)
    \/ Loaded \/ ConfigureConfigResolver \/ Apply \/ EnsureRegexpCache

\* A registered configuration completes another one.
LEMMA CompletedConfig ==
    ASSUME NEW existing \in CacheConfig \cup {None}, NEW c \in CacheConfig
    PROVE  /\ ConfigureCacheIfMissing(existing, c) \in CacheConfig
           /\ existing # None =>
                /\ ConfigureCacheIfMissing(existing, c).maxInstances = existing.maxInstances
                /\ ConfigureCacheIfMissing(existing, c).maxSize = existing.maxSize
                /\ ConfigureCacheIfMissing(existing, c).factory =
                        IF existing.factory = None THEN c.factory ELSE existing.factory
<1>1. CASE existing = None
  BY <1>1 DEF ConfigureCacheIfMissing
<1>2. CASE existing # None
  <2> DEFINE f == IF existing.factory = None THEN c.factory ELSE existing.factory
             u == existing.user \/ c.user
  <2>1. f \in {None, "built-in", "replaced"} /\ existing \in CacheConfig
    BY <1>2 DEF CacheConfig
  <2>2. u \in BOOLEAN
    BY Zenon
  <2>3. ConfigureCacheIfMissing(existing, c) = [existing EXCEPT !.factory = f, !.user = u]
    BY <1>2 DEF ConfigureCacheIfMissing
  <2> HIDE DEF f, u
  <2>4. /\ [existing EXCEPT !.factory = f, !.user = u] \in CacheConfig
        /\ [existing EXCEPT !.factory = f, !.user = u].maxInstances = existing.maxInstances
        /\ [existing EXCEPT !.factory = f, !.user = u].maxSize = existing.maxSize
        /\ [existing EXCEPT !.factory = f, !.user = u].factory = f
    BY <2>1, <2>2 DEF CacheConfig
  <2> QED  BY <1>2, <2>3, <2>4 DEF f
<1> QED  BY <1>1, <1>2

\* A step of the start keeps the types.
LEMMA StartTypes ==
    ASSUME TypeInv, Started
    PROVE  TypeInv'
<1>1. /\ CachesType /\ Finite /\ instances \in Int /\ sizeBytes \in Int /\ OpsOK
      /\ op \in [Procs -> OpType] /\ configs \in [Keys -> CacheConfig \cup {None}]
      /\ storage \subseteq Record /\ loading \subseteq Record
      /\ drift \in [count: Nat, size: Nat, times: Nat]
  BY TypeParts DEF TypedParts
<1>2. boot \in Starting /\ op' = op /\ storage' = storage /\ drift' = drift /\ loading' \subseteq Record
  BY <1>1 DEF Started, AddLoaded, Loaded, ConfigureConfigResolver, Apply, EnsureRegexpCache, Starting
<1>3. boot' \in Starting \cup Failed \cup {"up"}
  BY <1>2 DEF Started, AddLoaded, Loaded, ConfigureConfigResolver, Apply, EnsureRegexpCache, Starting, Failed
<1>4. OpsOK'
  BY <1>1, <1>2, SameOps DEF Starting
<1>5. configs' \in [Keys -> CacheConfig \cup {None}]
  <2>1. CASE Apply
    <3>1. ASSUME NEW k \in Keys
          PROVE  ConfigureCacheIfMissing(configs[k], Registered[k]) \in CacheConfig
      BY <1>1, CompletedConfig, CacheAssumption
    <3> QED  BY <2>1, <3>1 DEF Apply
  <2>2. CASE ~Apply
    BY <1>1, <2>2 DEF Started, AddLoaded, Loaded, ConfigureConfigResolver, EnsureRegexpCache
  <2> QED  BY <2>1, <2>2
<1>6. CachesType' /\ Finite' /\ instances' \in Int /\ sizeBytes' \in Int
  <2>1. CASE UNCHANGED <<caches, instances, sizeBytes>>
    BY <2>1, SameTypes
  <2>2. ASSUME NEW r \in loading, AddLoaded(r), ~UNCHANGED <<caches, instances, sizeBytes>>
        PROVE  CachesType' /\ Finite' /\ instances' \in Int /\ sizeBytes' \in Int
    <3> DEFINE e == [built |-> r.config, size |-> Size[r.config], record |-> r.rid, config |-> r.config]
    <3>1. r.key \in Keys /\ r.id \in Ids /\ e \in Instance
      BY <1>1, CacheAssumption DEF Record, Instance
    <3>2. Store(r.key, r.id, e, FALSE, 0)
      BY <2>2 DEF AddLoaded
    <3> HIDE DEF e
    <3> QED  BY <3>1, <3>2, StoreTypes
  <2>3. CASE EnsureRegexpCache /\ ~UNCHANGED <<caches, instances, sizeBytes>>
    <3>1. Store(RegexpKey, Default, Runtime(0), FALSE, 0)
      BY <2>3 DEF EnsureRegexpCache
    <3>2. Runtime(0) \in Instance /\ RegexpKey \in Keys /\ Default \in Ids
      BY RuntimeType, CacheAssumption
    <3> QED  BY <3>1, <3>2, StoreTypes
  <2> QED  BY <2>1, <2>2, <2>3 DEF Started, Loaded, ConfigureConfigResolver, Apply
<1> QED  BY <1>1, <1>2, <1>3, <1>4, <1>5, <1>6, TypePartsAfter DEF TypedParts

(***************************************************************************)
(* The shapes of the steps that change the caches while the manager        *)
(* serves.                                                                 *)
(***************************************************************************)
Entry(c, rid) == [built |-> c, size |-> Size[c], record |-> rid, config |-> c]

\* The record of the instance, or one that nothing has.
RecordFor(k, id, rid) ==
    \/ rid = OldRecord(k, id)
    \/ /\ OldRecord(k, id) = None
       /\ \A r \in storage : r.rid # rid
       /\ \A j \in Keys, i \in Ids : OldRecord(j, i) # rid

Persists(k, id, c, rid) ==
    /\ RecordFor(k, id, rid)
    /\ WithinLimits(k, id \in Live(k), OldSize(k, id), Size[c])
    /\ storage' = Saved([rid |-> rid, key |-> k, id |-> id, config |-> c])
    /\ Store(k, id, Entry(c, rid), id \in Live(k), OldSize(k, id))

\* An update under the lock persists what was built, or changes nothing.
LEMMA CommitShape ==
    ASSUME TypeInv, NEW p \in Procs, Commit(p)
    PROVE  /\ op[p].key \in Keys /\ op[p].id \in Ids /\ op[p].config \in Bodies
           /\ boot = "up" /\ Now(p, Idle) /\ UNCHANGED <<configs, boot, loading, drift>>
           /\ \/ UNCHANGED <<caches, instances, sizeBytes, storage>>
              \/ \E rid \in RecordIds : Persists(op[p].key, op[p].id, op[p].config, rid)
<1>1. /\ op[p].key \in Keys /\ op[p].id \in Ids /\ op[p].config \in Bodies
      /\ op[p].built = op[p].config /\ boot = "up" /\ CachesType
  BY TypeParts DEF TypedParts, Commit, At, OpsOK, OpOK
<1>2. PICK k, id, c : k = op[p].key /\ id = op[p].id /\ c = op[p].config
  OBVIOUS
<1>3. k \in Keys /\ id \in Ids /\ c \in Bodies
  BY <1>1, <1>2
<1>4. Now(p, Idle) /\ UNCHANGED <<configs, boot, loading, drift>>
  BY DEF Commit
<1>5. PICK rid : rid = IF OldRecord(k, id) = None THEN FreshRecord ELSE OldRecord(k, id)
  OBVIOUS
<1>6. rid \in RecordIds /\ RecordFor(k, id, rid)
  <2>1. CASE OldRecord(k, id) = None
    <3>1. HasFreshRecord
      BY <1>2, <2>1 DEF Commit
    <3> QED  BY <1>5, <2>1, <3>1, FreshIsNew DEF RecordFor
  <2>2. CASE OldRecord(k, id) # None
    BY <1>1, <1>3, <1>5, <2>2, OldRecordType DEF RecordFor
  <2> QED  BY <2>1, <2>2
<1>7. \/ UNCHANGED <<caches, instances, sizeBytes, storage>>
      \/ /\ WithinLimits(k, id \in Live(k), OldSize(k, id), Size[c])
         /\ storage' = Saved([rid |-> rid, key |-> k, id |-> id, config |-> c])
         /\ Store(k, id, Entry(c, rid), id \in Live(k), OldSize(k, id))
  BY <1>1, <1>2, <1>5, Zenon DEF Commit, Entry
<1> QED  BY <1>1, <1>2, <1>4, <1>6, <1>7 DEF Persists

\* What is persisted is an instance.
LEMMA EntryType ==
    ASSUME NEW c \in Bodies, NEW rid \in RecordIds
    PROVE  /\ Entry(c, rid) \in Instance
           /\ Entry(c, rid).size = Size[c] /\ Entry(c, rid).record = rid
           /\ Entry(c, rid).config = c /\ Entry(c, rid).built = c
BY CacheAssumption DEF Entry, Instance

\* The removal of an instance takes it out, with its part of the totals.
LEMMA RemoveShape ==
    ASSUME CachesType, NEW k \in Keys, NEW id \in Ids, Remove(k, id)
    PROVE  /\ id \in Live(k) /\ Taken(k, {id})
           /\ storage' = WithoutRecords({OldRecord(k, id)})
           /\ instances' = instances - Cardinality({id})
           /\ sizeBytes' = sizeBytes - SizeOf(k, {id})
<1>1. id \in Live(k) /\ caches' = [caches EXCEPT ![k][id] = None]
  BY DEF Remove
<1>2. [caches EXCEPT ![k][id] = None] =
      [caches EXCEPT ![k] = [i \in Ids |-> IF i \in {id} THEN None ELSE caches[k][i]]]
  BY DEF CachesType
<1>3. Taken(k, {id})
  BY <1>1, <1>2 DEF Taken
<1> QED  BY <1>1, <1>3, OneSize DEF Remove, CachesType

\* So does the removal of a category, with all of its instances.
LEMMA RemoveCacheShape ==
    ASSUME CachesType, NEW k \in Keys, RemoveCache(k)
    PROVE  Taken(k, Live(k))
<1>1. [id \in Ids |-> None] = [i \in Ids |-> IF i \in Live(k) THEN None ELSE caches[k][i]]
  BY DEF CachesType, Live
<1> QED  BY <1>1 DEF RemoveCache, Taken

\* Taking instances out keeps the types.
LEMMA TakenTypes ==
    ASSUME TypeInv, NEW k \in Keys, NEW R, Taken(k, R),
           instances' = instances - Cardinality(R), sizeBytes' = sizeBytes - SizeOf(k, R)
    PROVE  CachesType' /\ Finite' /\ instances' \in Int /\ sizeBytes' \in Int
<1>1. CachesType /\ Finite /\ R \subseteq Live(k) /\ instances \in Int /\ sizeBytes \in Int
  BY TypeParts DEF TypedParts, Taken
<1>2. Cardinality(R) \in Nat /\ SizeOf(k, R) \in Nat
  BY <1>1, PartsCount
<1> QED  BY <1>1, <1>2, TakenSlots, TakenCounts DEF CachesType

\* Steps that touch nothing but one operation.
Asked ==
    \/ \E s \in Slots, p \in Procs :
         \/ \E body \in Bodies : UpdateCacheInstance(p, s[1], s[2], body)
                               \/ SaveInstance(p, s[1], s[2], body)
         \/ DeleteInstance(p, s[1], s[2])
    \/ \E p \in Procs : Build(p)

\* Steps that set one configuration.
Reconfigured == \E k \in Keys : \E c \in {r[2] : r \in Reconfigs} : ConfigureCache(k, c)

\* Steps on instances and records.
Changed ==
    \/ \E p \in Procs : Commit(p) \/ RemoveInstance(p)
    \/ \E s \in Slots, size \in Estimates : UpdateRuntimeCacheInstance(s[1], s[2], size)
    \/ \E k \in Keys : RemoveCache(k) \/ \E done \in SUBSET Ids : RemoveCacheFails(k, done)

\* The steps there are.
LEMMA NextSteps ==
    ASSUME Next
    PROVE  Started \/ Restart \/ Asked \/ Reconfigured \/ Changed
<1> USE DEF Next
<1>1. CASE Started \/ Restart
  BY <1>1
<1>2. CASE \E s \in Slots, p \in Procs :
             \/ \E body \in Bodies : UpdateCacheInstance(p, s[1], s[2], body)
                                   \/ SaveInstance(p, s[1], s[2], body)
             \/ DeleteInstance(p, s[1], s[2])
  BY <1>2 DEF Asked
<1>3. CASE \E s \in Slots, size \in Estimates : UpdateRuntimeCacheInstance(s[1], s[2], size)
  BY <1>3 DEF Changed
<1>4. CASE \E p \in Procs : Build(p) \/ Commit(p) \/ RemoveInstance(p)
  BY <1>4 DEF Asked, Changed
<1>5. CASE \E k \in Keys :
             \/ \E c \in {r[2] : r \in Reconfigs} : ConfigureCache(k, c)
             \/ RemoveCache(k)
             \/ \E done \in SUBSET Ids : RemoveCacheFails(k, done)
  BY <1>5 DEF Reconfigured, Changed
<1> QED  BY <1>1, <1>2, <1>3, <1>4, <1>5 DEF Started

\* What these steps leave alone, and the operation they change.
LEMMA AskedShape ==
    ASSUME TypeInv, Asked
    PROVE  /\ UNCHANGED <<configs, caches, instances, sizeBytes, storage, boot, loading, drift>>
           /\ OpsOK' /\ op' \in [Procs -> OpType]
<1>1. op \in [Procs -> OpType] /\ OpsOK
  BY TypeParts DEF TypedParts
<1>2. UNCHANGED <<configs, caches, instances, sizeBytes, storage, boot, loading, drift>>
  BY DEF Asked, UpdateCacheInstance, SaveInstance, DeleteInstance, Build, disk
<1>3. ASSUME NEW s \in Slots, NEW p \in Procs, NEW body \in Bodies,
             UpdateCacheInstance(p, s[1], s[2], body)
      PROVE  OpsOK' /\ op' \in [Procs -> OpType]
  <2> DEFINE o == [at |-> "build", key |-> s[1], id |-> s[2], config |-> body, built |-> None]
  <2>1. o \in OpType /\ OpOK(o) /\ Now(p, o)
    BY <1>3, CacheAssumption DEF UpdateCacheInstance, OpType, OpOK, Serving
  <2> HIDE DEF o
  <2> QED  BY <1>1, <1>2, <2>1, OneOp
<1>4. ASSUME NEW s \in Slots, NEW p \in Procs, DeleteInstance(p, s[1], s[2])
      PROVE  OpsOK' /\ op' \in [Procs -> OpType]
  <2> DEFINE o == [at |-> "remove", key |-> s[1], id |-> s[2], config |-> None, built |-> None]
  <2>1. o \in OpType /\ OpOK(o) /\ Now(p, o)
    BY <1>4, CacheAssumption DEF DeleteInstance, OpType, OpOK, Serving
  <2> HIDE DEF o
  <2> QED  BY <1>1, <1>2, <2>1, OneOp
<1>5. ASSUME NEW p \in Procs, Build(p)
      PROVE  OpsOK' /\ op' \in [Procs -> OpType]
  <2> DEFINE o == [op[p] EXCEPT !.at = "commit", !.built = op[p].config]
  <2>1. CASE Now(p, Idle)
    BY <1>1, <1>2, <2>1, OneOp, IdleOp
  <2>2. CASE Now(p, o)
    <3>1. op[p] \in OpType /\ OpOK(op[p]) /\ op[p].at = "build"
      BY <1>1, <1>5 DEF Build, At, OpsOK
    <3>2. o \in OpType /\ OpOK(o)
      BY <3>1 DEF OpType, OpOK
    <3> HIDE DEF o
    <3> QED  BY <1>1, <1>2, <2>2, <3>2, OneOp
  <2> QED  BY <1>5, <2>1, <2>2 DEF Build
<1> QED  BY <1>2, <1>3, <1>4, <1>5 DEF Asked, SaveInstance

\* A removal by a request takes out one instance, or changes nothing.
LEMMA RemoveInstanceShape ==
    ASSUME TypeInv, NEW p \in Procs, RemoveInstance(p)
    PROVE  /\ op[p].key \in Keys /\ op[p].id \in Ids
           /\ boot = "up" /\ Now(p, Idle) /\ UNCHANGED <<configs, boot, loading, drift>>
           /\ \/ UNCHANGED <<caches, instances, sizeBytes, storage>>
              \/ Remove(op[p].key, op[p].id)
BY TypeParts DEF TypedParts, RemoveInstance, At, OpsOK, OpOK

\* Records are kept or deleted.
LEMMA RecordTypes ==
    ASSUME storage \subseteq Record
    PROVE  /\ \A rids : WithoutRecords(rids) \subseteq Record
           /\ \A r \in Record : Saved(r) \subseteq Record
BY DEF WithoutRecords, Saved

\* A failing removal of a category takes a countable part off the totals.
LEMMA FailingShape ==
    ASSUME TypeInv, NEW k \in Keys, NEW done \in SUBSET Ids, RemoveCacheFails(k, done)
    PROVE  /\ caches' = caches /\ instances' \in Int /\ sizeBytes' \in Int
           /\ drift' \in [count: Nat, size: Nat, times: Nat] /\ drift'.times > 0
           /\ instances' + drift'.count = instances + drift.count
           /\ sizeBytes' + drift'.size = sizeBytes + drift.size
<1>1. done \subseteq Live(k) /\ Finite /\ instances \in Int /\ sizeBytes \in Int
  BY TypeParts DEF TypedParts, RemoveCacheFails
<1>2. drift \in [count: Nat, size: Nat, times: Nat]
  BY TypeParts DEF TypedParts
<1>3. PICK n, m : n = Cardinality(done) /\ m = SizeOf(k, done)
  OBVIOUS
<1>4. n \in Nat /\ m \in Nat
  BY <1>1, <1>3, PartsCount
<1>5. /\ caches' = caches /\ instances' = instances - n /\ sizeBytes' = sizeBytes - m
      /\ drift' = [count |-> drift.count + n, size |-> drift.size + m, times |-> drift.times + 1]
  BY <1>3 DEF RemoveCacheFails
<1> QED  BY <1>1, <1>2, <1>4, <1>5

\* A step on instances and records keeps the types.
LEMMA ChangedTypes ==
    ASSUME TypeInv, Changed
    PROVE  TypeInv'
<1>1. /\ CachesType /\ Finite /\ instances \in Int /\ sizeBytes \in Int /\ OpsOK
      /\ op \in [Procs -> OpType] /\ configs \in [Keys -> CacheConfig \cup {None}]
      /\ storage \subseteq Record /\ loading \subseteq Record
      /\ boot \in Starting \cup Failed \cup {"up"}
      /\ drift \in [count: Nat, size: Nat, times: Nat]
  BY TypeParts DEF TypedParts
<1>2. ASSUME NEW p \in Procs, Commit(p)
      PROVE  TypeInv'
  <2>1. PICK k, id, c : k = op[p].key /\ id = op[p].id /\ c = op[p].config
    OBVIOUS
  <2>2. /\ k \in Keys /\ id \in Ids /\ c \in Bodies
        /\ Now(p, Idle) /\ UNCHANGED <<configs, boot, loading, drift>>
        /\ \/ UNCHANGED <<caches, instances, sizeBytes, storage>>
           \/ \E rid \in RecordIds : Persists(k, id, c, rid)
    BY <1>2, <2>1, CommitShape
  <2>3. OpsOK' /\ op' \in [Procs -> OpType]
    BY <1>1, <2>2, IdleOp, OneOp
  <2>4. CachesType' /\ Finite' /\ instances' \in Int /\ sizeBytes' \in Int /\ storage' \subseteq Record
    <3>1. CASE UNCHANGED <<caches, instances, sizeBytes, storage>>
      BY <1>1, <3>1, SameTypes
    <3>2. ASSUME NEW rid \in RecordIds, Persists(k, id, c, rid)
          PROVE  CachesType' /\ Finite' /\ instances' \in Int /\ sizeBytes' \in Int /\ storage' \subseteq Record
      <4>1. [rid |-> rid, key |-> k, id |-> id, config |-> c] \in Record
        BY <2>2 DEF Record
      <4>2. storage' \subseteq Record
        BY <1>1, <3>2, <4>1, RecordTypes DEF Persists
      <4>3. OldSize(k, id) \in Nat /\ (id \in Live(k)) \in BOOLEAN
        BY <1>1, <2>2, OldSizeType DEF CachesType
      <4>4. Entry(c, rid) \in Instance /\ Store(k, id, Entry(c, rid), id \in Live(k), OldSize(k, id))
        BY <2>2, <3>2, EntryType DEF Persists
      <4> QED  BY <2>2, <4>2, <4>3, <4>4, StoreTypes
    <3> QED  BY <2>2, <3>1, <3>2
  <2> QED  BY <1>1, <2>2, <2>3, <2>4, TypePartsAfter DEF TypedParts
<1>3. ASSUME NEW p \in Procs, RemoveInstance(p)
      PROVE  TypeInv'
  <2>1. PICK k, id : k = op[p].key /\ id = op[p].id
    OBVIOUS
  <2>2. /\ k \in Keys /\ id \in Ids
        /\ Now(p, Idle) /\ UNCHANGED <<configs, boot, loading, drift>>
        /\ \/ UNCHANGED <<caches, instances, sizeBytes, storage>> \/ Remove(k, id)
    BY <1>3, <2>1, RemoveInstanceShape
  <2>3. OpsOK' /\ op' \in [Procs -> OpType]
    BY <1>1, <2>2, IdleOp, OneOp
  <2>4. CachesType' /\ Finite' /\ instances' \in Int /\ sizeBytes' \in Int /\ storage' \subseteq Record
    <3>1. CASE UNCHANGED <<caches, instances, sizeBytes, storage>>
      BY <1>1, <3>1, SameTypes
    <3>2. CASE Remove(k, id)
      BY <1>1, <2>2, <3>2, RemoveShape, TakenTypes, RecordTypes
    <3> QED  BY <2>2, <3>1, <3>2
  <2> QED  BY <1>1, <2>2, <2>3, <2>4, TypePartsAfter DEF TypedParts
<1>4. ASSUME NEW s \in Slots, NEW n \in Estimates, UpdateRuntimeCacheInstance(s[1], s[2], n)
      PROVE  TypeInv'
  <2>1. PICK k, id : k = s[1] /\ id = s[2]
    OBVIOUS
  <2>2. k \in Keys /\ id \in Ids /\ n \in Nat
    BY <2>1, CacheAssumption
  <2>3. /\ Store(k, id, Runtime(n), id \in Live(k), OldSize(k, id))
        /\ storage' = WithoutRecords({OldRecord(k, id)})
        /\ UNCHANGED <<configs, boot, loading, op, drift>>
    BY <1>4, <2>1 DEF UpdateRuntimeCacheInstance
  <2>4. OldSize(k, id) \in Nat /\ (id \in Live(k)) \in BOOLEAN /\ Runtime(n) \in Instance
    BY <1>1, <2>2, OldSizeType, RuntimeType DEF CachesType
  <2>5. CachesType' /\ Finite' /\ instances' \in Int /\ sizeBytes' \in Int
    BY <2>2, <2>3, <2>4, StoreTypes
  <2>6. OpsOK' /\ storage' \subseteq Record
    BY <1>1, <2>3, SameOps, RecordTypes
  <2> QED  BY <1>1, <2>3, <2>5, <2>6, TypePartsAfter DEF TypedParts
<1>5. ASSUME NEW k \in Keys, RemoveCache(k)
      PROVE  TypeInv'
  <2>1. CachesType' /\ Finite' /\ instances' \in Int /\ sizeBytes' \in Int
    BY <1>1, <1>5, RemoveCacheShape, TakenTypes DEF RemoveCache
  <2>2. OpsOK' /\ storage' \subseteq Record /\ UNCHANGED <<configs, boot, loading, op, drift>>
    BY <1>1, <1>5, SameOps, RecordTypes DEF RemoveCache
  <2> QED  BY <1>1, <2>1, <2>2, TypePartsAfter DEF TypedParts
<1>6. ASSUME NEW k \in Keys, NEW done \in SUBSET Ids, RemoveCacheFails(k, done)
      PROVE  TypeInv'
  <2>1. /\ caches' = caches /\ instances' \in Int /\ sizeBytes' \in Int
        /\ drift' \in [count: Nat, size: Nat, times: Nat]
    BY <1>6, FailingShape
  <2>2. CachesType' /\ Finite'
    BY <1>1, <2>1, SameCounts DEF CachesType
  <2>3. OpsOK' /\ storage' \subseteq Record /\ UNCHANGED <<configs, boot, loading, op>>
    BY <1>1, <1>6, SameOps, RecordTypes DEF RemoveCacheFails
  <2> QED  BY <1>1, <2>1, <2>2, <2>3, TypePartsAfter DEF TypedParts
<1> QED  BY <1>2, <1>3, <1>4, <1>5, <1>6 DEF Changed

\* A start of the process has the types of the first one.
LEMMA BootTypes ==
    /\ Booted /\ storage \subseteq Record /\ loading \subseteq Record => TypeInv
    /\ Restart /\ TypeInv => TypeInv'
<1> DEFINE ops == [p \in Procs |-> Idle]
<1>1. EmptyCaches \in [Keys -> [Ids -> Instance \cup {None}]]
  BY DEF EmptyCaches
<1>2. ops \in [Procs -> OpType] /\ \A p \in Procs : ops[p].at = "idle"
  BY IdleOp DEF Idle
<1>3. ASSUME Booted, storage \subseteq Record, loading \subseteq Record PROVE TypeInv
  <2>1. CachesType /\ Finite
    BY <1>1, <1>3, EmptyCounts DEF Booted, CachesType, NothingLive
  <2>2. op \in [Procs -> OpType] /\ OpsOK
    BY <1>2, <1>3 DEF Booted, OpsOK, OpOK
  <2> QED  BY <1>3, <2>1, <2>2, TypeParts, CacheAssumption DEF TypedParts, Booted, Starting
<1>4. ASSUME Restart, TypeInv PROVE TypeInv'
  <2>1. CachesType' /\ Finite'
    <3>1. (caches = EmptyCaches)'
      BY <1>4 DEF Restart, EmptyCaches
    <3> QED  BY <1>1, <1>4, <3>1, EmptiedCounts DEF CachesType, NothingLive, Restart
  <2>2. op' \in [Procs -> OpType] /\ OpsOK'
    BY <1>2, <1>4 DEF Restart, OpsOK, OpOK
  <2>3. storage \subseteq Record
    BY <1>4, TypeParts DEF TypedParts
  <2> QED  BY <1>4, <2>1, <2>2, <2>3, TypePartsAfter, CacheAssumption DEF TypedParts, Restart, Starting
<1> QED  BY <1>3, <1>4

\* Every step keeps the types.
LEMMA TypeStep == TypeInv /\ [Next]_vars => TypeInv'
<1> SUFFICES ASSUME TypeInv, [Next]_vars PROVE TypeInv'
  OBVIOUS
<1>1. /\ CachesType /\ Finite /\ instances \in Int /\ sizeBytes \in Int /\ OpsOK
      /\ op \in [Procs -> OpType] /\ configs \in [Keys -> CacheConfig \cup {None}]
      /\ storage \subseteq Record /\ loading \subseteq Record
      /\ boot \in Starting \cup Failed \cup {"up"}
      /\ drift \in [count: Nat, size: Nat, times: Nat]
  BY TypeParts DEF TypedParts
<1>2. CASE Started
  BY <1>2, StartTypes
<1>3. CASE Restart
  BY <1>3, BootTypes
<1>4. CASE Asked
  BY <1>1, <1>4, AskedShape, SameTypes, TypePartsAfter DEF TypedParts
<1>5. CASE Reconfigured
  <2>1. /\ UNCHANGED <<caches, instances, sizeBytes, storage, boot, loading, op, drift>>
        /\ configs' \in [Keys -> CacheConfig \cup {None}]
    <3>1. PICK k \in Keys, c \in {r[2] : r \in Reconfigs} : ConfigureCache(k, c)
      BY <1>5 DEF Reconfigured
    <3>2. c \in CacheConfig
      BY CacheAssumption
    <3> QED  BY <1>1, <3>1, <3>2 DEF ConfigureCache, disk
  <2> QED  BY <1>1, <2>1, SameTypes, SameOps, TypePartsAfter DEF TypedParts
<1>6. CASE Changed
  BY <1>6, ChangedTypes
<1>7. CASE UNCHANGED vars
  <2>1. UNCHANGED <<configs, caches, instances, sizeBytes, storage, boot, loading, op, drift>>
    BY <1>7 DEF vars
  <2> QED  BY <1>1, <2>1, SameTypes, SameOps, TypePartsAfter DEF TypedParts
<1> QED  BY <1>2, <1>3, <1>4, <1>5, <1>6, <1>7, NextSteps

\* Every state is of the right types, what is live can always be counted, and an
\* operation past the construction carries what it constructed.
THEOREM CacheInvariant == Spec => []TypeInv
<1>1. Init => TypeInv
  BY BootTypes DEF Init
<1> QED  BY <1>1, TypeStep, PTL DEF Spec

\* The variables of the manager keep their types, for every set of categories,
\* instances and processes.
THEOREM CacheTypeCorrect == Spec => []TypeOK
<1>1. TypeInv => TypeOK
  BY DEF TypeInv
<1> QED  BY <1>1, CacheInvariant, PTL

-----------------------------------------------------------------------------
(***************************************************************************)
(* Memory and disk.                                                        *)
(***************************************************************************)

\* A step that leaves instances and records alone and goes on with the start, ends
\* it or gives it up.
LEMMA DiskSame ==
    ASSUME DiskInv, UNCHANGED <<caches, storage, loading, drift>>,
           \/ boot' = boot
           \/ boot' \in Failed
           \/ /\ boot \in Starting /\ boot' \in Starting \cup {"up"}
              /\ boot' # "load" /\ loading = {}
    PROVE  DiskInv'
<1>1. Distinct'
  BY DEF DiskInv, Distinct
<1>2. ASSUME boot' \notin Failed PROVE Agrees'
  <2>1. Agrees
    BY <1>2 DEF DiskInv, Starting, Failed
  <2>2. LoadingOK' /\ OthersNotYet'
    BY <1>2, <2>1 DEF Agrees, LoadingOK, OthersNotYet
  <2>3. RecordsLoaded'
    BY <2>1 DEF Agrees, RecordsLoaded, IsLoaded
  <2>4. EntriesOK'
    BY <2>1 DEF Agrees, EntriesOK, Persisted, Live, EntryOK, HasRecord
  <2>5. RecordsApart'
    BY <2>1 DEF Agrees, RecordsApart, Persisted, Live
  <2>6. StartOK'
    BY <1>2, <2>1 DEF Agrees, StartOK, Persisted, Live, Starting
  <2> QED  BY <2>2, <2>3, <2>4, <2>5, <2>6 DEF Agrees
<1> QED  BY <1>1, <1>2 DEF DiskInv

\* The instance at a slot that a step leaves alone.
LEMMA SlotSame ==
    ASSUME NEW k \in Keys, NEW id \in Ids, caches'[k][id] = caches[k][id]
    PROVE  /\ Persisted(k, id)' <=> Persisted(k, id)
           /\ (id \in Live(k))' <=> id \in Live(k)
BY DEF Persisted, Live

\* A record that is loaded.
LEMMA LoadedSlot ==
    ASSUME TypeInv, NEW r \in storage, IsLoaded(r)
    PROVE  /\ r \in Record /\ r.key \in Keys /\ r.id \in Ids /\ r.rid # None
           /\ Persisted(r.key, r.id) /\ caches[r.key][r.id].record = r.rid
           /\ OldRecord(r.key, r.id) = r.rid
<1>1. r \in Record
  BY TypeParts DEF TypedParts
<1>2. r.key \in Keys /\ r.id \in Ids /\ r.rid # None
  BY <1>1, CacheAssumption DEF Record
<1> QED  BY <1>1, <1>2 DEF IsLoaded, Persisted, Live, OldRecord

\* A record that the start loads.
LEMMA AddedRecord ==
    ASSUME TypeInv, DiskInv, NEW r \in loading, AddLoaded(r), boot' \notin Failed
    PROVE  /\ r \in Record /\ r.rid # None /\ boot = "load" /\ Agrees
           /\ Put(r.key, r.id, Entry(r.config, r.rid)) /\ r \in storage
           /\ loading' = loading \ {r} /\ UNCHANGED <<storage, drift, boot>>
<1>1. r \in Record /\ boot = "load" /\ Agrees
  BY TypeParts DEF TypedParts, DiskInv, AddLoaded, Failed
<1>2. r.rid # None /\ r \in storage
  BY <1>1, CacheAssumption DEF Record, Agrees, LoadingOK
<1>3. Put(r.key, r.id, Entry(r.config, r.rid)) /\ loading' = loading \ {r} /\ UNCHANGED <<storage, drift, boot>>
  BY DEF AddLoaded, Put, Store, Entry, Failed
<1> QED  BY <1>1, <1>2, <1>3

\* Loading a record keeps memory and disk together: no other record is of its
\* instance, so nothing is overwritten.
LEMMA AddedDisk ==
    ASSUME TypeInv, DiskInv, NEW r \in loading, AddLoaded(r), boot' \notin Failed
    PROVE  DiskInv'
<1>1. /\ r \in Record /\ r.rid # None /\ boot = "load" /\ Agrees
      /\ Put(r.key, r.id, Entry(r.config, r.rid)) /\ r \in storage
      /\ loading' = loading \ {r} /\ UNCHANGED <<storage, drift, boot>>
  BY AddedRecord
<1>2. PICK k, id, e : k = r.key /\ id = r.id /\ e = Entry(r.config, r.rid)
  OBVIOUS
<1>3. /\ k \in Keys /\ id \in Ids /\ e \in Instance /\ e # None
      /\ e.record = r.rid /\ e.config = r.config /\ e.built = r.config
      /\ e.size = Size[r.config] /\ r.config \in Bodies
  BY <1>1, <1>2, EntryType, CacheAssumption DEF Record
<1>4. caches'[k][id] = e /\ \A j \in Keys, i \in Ids : <<j, i>> # <<k, id>> => caches'[j][i] = caches[j][i]
  BY <1>1, <1>2, <1>3, PutSlots, TypeParts DEF TypedParts, CachesType
<1>5. \A q \in storage : q # r => <<q.key, q.id>> # <<k, id>> /\ q.rid # r.rid
  BY <1>1, <1>2 DEF DiskInv, Distinct
<1>6. \A q \in storage : q \in Record /\ q.key \in Keys /\ q.id \in Ids
  BY TypeParts DEF TypedParts, Record
<1>7. RecordsLoaded'
  <2>1. ASSUME NEW q \in storage, q \notin loading \ {r} PROVE IsLoaded(q)'
    <3>1. CASE q = r
      BY <1>2, <1>3, <1>4, <3>1 DEF IsLoaded
    <3>2. CASE q # r
      <4>1. IsLoaded(q)
        BY <1>1, <2>1, <3>2 DEF Agrees, RecordsLoaded
      <4>2. caches'[q.key][q.id] = caches[q.key][q.id]
        BY <1>4, <1>5, <1>6, <3>2
      <4> QED  BY <4>1, <4>2 DEF IsLoaded
    <3> QED  BY <3>1, <3>2
  <2> QED  BY <1>1, <2>1 DEF RecordsLoaded
<1>8. OthersNotYet' /\ LoadingOK'
  <2>1. loading \subseteq storage
    BY <1>1 DEF Agrees, LoadingOK
  <2>2. ASSUME NEW q \in loading \ {r} PROVE caches'[q.key][q.id] = None
    BY <1>1, <1>4, <1>5, <1>6, <2>1 DEF Agrees, OthersNotYet
  <2> QED  BY <1>1, <2>1, <2>2 DEF OthersNotYet, LoadingOK
<1>9. ASSUME NEW j \in Keys, NEW i \in Ids, Persisted(j, i)'
      PROVE  /\ EntryOK(j, i)'
             /\ <<j, i>> # <<k, id>> => Persisted(j, i) /\ caches[j][i].record # r.rid
             /\ <<j, i>> # <<k, id>> => caches'[j][i] = caches[j][i]
  <2>1. CASE <<j, i>> = <<k, id>>
    <3>1. r \in (storage \ loading)'
      BY <1>1
    <3>2. HasRecord(j, i)'
      BY <1>2, <1>3, <1>4, <2>1, <3>1 DEF HasRecord
    <3> QED  BY <1>3, <1>4, <2>1, <3>2 DEF EntryOK
  <2>2. CASE <<j, i>> # <<k, id>>
    <3>1. caches'[j][i] = caches[j][i] /\ Persisted(j, i)
      BY <1>4, <1>9, <2>2, SlotSame
    <3>2. drift.times = 0 /\ EntryOK(j, i)
      BY <1>1, <3>1 DEF Agrees, EntriesOK, StartOK, Starting
    <3>3. PICK q \in storage \ loading : q.key = j /\ q.id = i /\ q.rid = caches[j][i].record
      BY <3>2 DEF EntryOK, HasRecord
    <3>4. q # r /\ q \in (storage \ loading)'
      BY <1>1
    <3>5. HasRecord(j, i)'
      BY <3>1, <3>3, <3>4 DEF HasRecord
    <3>6. EntryOK(j, i)'
      BY <3>1, <3>2, <3>5 DEF EntryOK
    <3> QED  BY <1>5, <3>1, <3>3, <3>4, <3>6
  <2> QED  BY <2>1, <2>2
<1>10. RecordsApart'
  <2>1. ASSUME NEW j \in Keys, NEW i \in Ids, NEW h \in Keys, NEW g \in Ids,
               Persisted(j, i)', Persisted(h, g)', caches'[j][i].record = caches'[h][g].record
        PROVE  j = h /\ i = g
    <3>1. CASE <<j, i>> # <<k, id>> /\ <<h, g>> # <<k, id>>
      BY <1>1, <1>9, <2>1, <3>1 DEF Agrees, RecordsApart
    <3>2. CASE <<j, i>> = <<k, id>> \/ <<h, g>> = <<k, id>>
      BY <1>3, <1>4, <1>9, <2>1, <3>2
    <3> QED  BY <3>1, <3>2
  <2> QED  BY <2>1 DEF RecordsApart
<1>11. StartOK'
  <2>1. drift.times = 0
    BY <1>1 DEF Agrees, StartOK, Starting
  <2>2. ASSUME NEW j \in Keys, NEW i \in Live(j)' PROVE Persisted(j, i)'
    <3>1. i \in Ids
      BY DEF Live
    <3>2. CASE <<j, i>> = <<k, id>>
      BY <1>1, <1>3, <1>4, <3>2 DEF Persisted, Live
    <3>3. CASE <<j, i>> # <<k, id>>
      <4>1. caches'[j][i] = caches[j][i]
        BY <1>4, <3>1, <3>3
      <4>2. i \in Live(j)
        BY <2>2, <3>1, <4>1, SlotSame
      <4> QED  BY <1>1, <3>1, <4>1, <4>2, SlotSame DEF Agrees, StartOK, Starting
    <3> QED  BY <3>2, <3>3
  <2> QED  BY <1>1, <2>1, <2>2 DEF StartOK
<1>12. Distinct' /\ EntriesOK'
  BY <1>1, <1>9 DEF DiskInv, Distinct, EntriesOK
<1> QED  BY <1>7, <1>8, <1>10, <1>11, <1>12 DEF DiskInv, Agrees

\* Instances go, with their records, or runtime instances take their place: what is
\* left on disk belongs to other instances, and these keep their records.
LEMMA DroppedDisk ==
    ASSUME TypeInv, DiskInv, boot \notin Failed, loading = {}, loading' = {}, boot' = "up",
           NEW k \in Keys, NEW R, R \subseteq Ids, storage' = WithoutRecords(RecordsOf(k, R)),
           drift' = drift,
           \A i \in R : ~Persisted(k, i)',
           \A j \in Keys, i \in Ids : ~(j = k /\ i \in R) => caches'[j][i] = caches[j][i]
    PROVE  DiskInv'
<1>1. Agrees /\ storage' \subseteq storage
  BY DEF DiskInv, WithoutRecords
<1>2. Distinct'
  BY <1>1 DEF DiskInv, Distinct
<1>3. LoadingOK' /\ OthersNotYet' /\ StartOK'
  BY DEF LoadingOK, OthersNotYet, StartOK, Starting
<1>4. RecordsLoaded'
  <2>1. ASSUME NEW r \in storage' PROVE IsLoaded(r)'
    <3>1. r \in storage /\ r.rid \notin RecordsOf(k, R) /\ IsLoaded(r)
      BY <1>1, <2>1 DEF WithoutRecords, Agrees, RecordsLoaded
    <3>2. r.key \in Keys /\ r.id \in Ids /\ OldRecord(r.key, r.id) = r.rid
      BY <3>1, LoadedSlot
    <3>3. ~(r.key = k /\ r.id \in R)
      BY <3>1, <3>2 DEF RecordsOf
    <3>4. caches'[r.key][r.id] = caches[r.key][r.id]
      BY <3>2, <3>3
    <3> QED  BY <3>1, <3>4 DEF IsLoaded
  <2> QED  BY <2>1 DEF RecordsLoaded
<1>5. ASSUME NEW j \in Keys, NEW i \in Ids, Persisted(j, i)'
      PROVE  /\ ~(j = k /\ i \in R) /\ caches'[j][i] = caches[j][i] /\ Persisted(j, i)
             /\ caches[j][i].record \notin RecordsOf(k, R)
  <2>1. ~(j = k /\ i \in R)
    BY <1>5
  <2>2. caches'[j][i] = caches[j][i] /\ Persisted(j, i)
    BY <1>5, <2>1, SlotSame
  <2>3. ASSUME NEW g \in R PROVE caches[j][i].record # OldRecord(k, g)
    <3>1. CASE ~Persisted(k, g)
      BY <2>2, <3>1 DEF Persisted, OldRecord
    <3>2. CASE Persisted(k, g)
      <4>1. OldRecord(k, g) = caches[k][g].record /\ g \in Ids
        BY <3>2 DEF Persisted, OldRecord
      <4>2. ~(j = k /\ i = g)
        BY <2>1
      <4> QED  BY <1>1, <2>2, <3>2, <4>1, <4>2 DEF Agrees, RecordsApart
    <3> QED  BY <3>1, <3>2
  <2> QED  BY <2>1, <2>2, <2>3 DEF RecordsOf
<1>6. EntriesOK'
  <2>1. ASSUME NEW j \in Keys, NEW i \in Ids, Persisted(j, i)' PROVE EntryOK(j, i)'
    <3>1. /\ caches'[j][i] = caches[j][i] /\ EntryOK(j, i)
          /\ caches[j][i].record \notin RecordsOf(k, R)
      BY <1>1, <1>5, <2>1 DEF Agrees, EntriesOK
    <3>2. ASSUME drift.times = 0 PROVE HasRecord(j, i)'
      <4>1. PICK r \in storage : r.key = j /\ r.id = i /\ r.rid = caches[j][i].record
        BY <3>1, <3>2 DEF EntryOK, HasRecord
      <4>2. r \in storage'
        BY <3>1, <4>1 DEF WithoutRecords
      <4> QED  BY <3>1, <4>1, <4>2 DEF HasRecord
    <3> QED  BY <3>1, <3>2 DEF EntryOK
  <2> QED  BY <2>1 DEF EntriesOK
<1>7. RecordsApart'
  <2>1. ASSUME NEW j \in Keys, NEW i \in Ids, NEW h \in Keys, NEW g \in Ids,
               Persisted(j, i)', Persisted(h, g)', caches'[j][i].record = caches'[h][g].record
        PROVE  j = h /\ i = g
    BY <1>1, <1>5, <2>1 DEF Agrees, RecordsApart
  <2> QED  BY <2>1 DEF RecordsApart
<1> QED  BY <1>2, <1>3, <1>4, <1>6, <1>7 DEF DiskInv, Agrees

\* A runtime instance takes a slot.
LEMMA RuntimeDisk ==
    ASSUME TypeInv, DiskInv, boot \notin Failed, loading = {}, loading' = {}, boot' = "up",
           NEW k \in Keys, NEW id \in Ids, NEW n \in Nat, Put(k, id, Runtime(n)),
           storage' = WithoutRecords({OldRecord(k, id)}), drift' = drift
    PROVE  DiskInv'
<1>1. Runtime(n) \in Instance /\ Runtime(n).record = None
  BY RuntimeType
<1>2. /\ caches'[k][id] = Runtime(n)
      /\ \A j \in Keys, i \in Ids : <<j, i>> # <<k, id>> => caches'[j][i] = caches[j][i]
  BY <1>1, PutSlots, TypeParts DEF TypedParts, CachesType
<1>3. ~Persisted(k, id)'
  BY <1>1, <1>2 DEF Persisted
<1>4. RecordsOf(k, {id}) = {OldRecord(k, id)}
  BY DEF RecordsOf
<1>5. PICK R : R = {id}
  OBVIOUS
<1>6. /\ R \subseteq Ids /\ storage' = WithoutRecords(RecordsOf(k, R))
      /\ \A i \in R : ~Persisted(k, i)'
      /\ \A j \in Keys, i \in Ids : ~(j = k /\ i \in R) => caches'[j][i] = caches[j][i]
  BY <1>2, <1>3, <1>4, <1>5
<1>7. /\ TypeInv /\ DiskInv /\ boot \notin Failed /\ loading = {} /\ loading' = {}
      /\ boot' = "up" /\ drift' = drift /\ k \in Keys
  OBVIOUS
<1> QED  BY ONLY <1>6, <1>7, DroppedDisk

\* Instances are taken out, with their records.
LEMMA TakenDisk ==
    ASSUME TypeInv, DiskInv, boot = "up", boot' = boot, loading' = loading, drift' = drift,
           NEW k \in Keys, NEW R, Taken(k, R), storage' = WithoutRecords(RecordsOf(k, R))
    PROVE  DiskInv'
<1>1. loading = {} /\ R \subseteq Ids
  BY DEF DiskInv, Agrees, LoadingOK, Failed, Taken, Live
<1>2. /\ \A i \in R : caches'[k][i] = None
      /\ \A j \in Keys, i \in Ids : ~(j = k /\ i \in R) => caches'[j][i] = caches[j][i]
  BY TakenSlots, TypeParts DEF TypedParts, CachesType
<1>3. \A i \in R : ~Persisted(k, i)'
  BY <1>1, <1>2 DEF Persisted, Live
<1> QED  BY <1>1, <1>2, <1>3, DroppedDisk DEF Failed

\* A removal of a category that fails takes records of live instances, and says so.
LEMMA FailingDisk ==
    ASSUME TypeInv, DiskInv, NEW k \in Keys, NEW done \in SUBSET Ids, RemoveCacheFails(k, done)
    PROVE  DiskInv'
<1>1. /\ boot = "up" /\ boot' = boot /\ loading' = loading /\ caches' = caches
      /\ storage' \subseteq storage
  BY DEF RemoveCacheFails, Serving, WithoutRecords
<1>2. drift'.times # 0
  BY FailingShape
<1>3. Agrees /\ loading = {}
  BY <1>1 DEF DiskInv, Agrees, LoadingOK, Failed
<1>4. Distinct'
  BY <1>1 DEF DiskInv, Distinct
<1>5. LoadingOK' /\ OthersNotYet' /\ StartOK'
  BY <1>1, <1>3 DEF LoadingOK, OthersNotYet, StartOK, Starting
<1>6. RecordsLoaded'
  BY <1>1, <1>3 DEF Agrees, RecordsLoaded, IsLoaded
<1>7. EntriesOK'
  BY <1>1, <1>2, <1>3 DEF Agrees, EntriesOK, EntryOK, Persisted, Live
<1>8. RecordsApart'
  BY <1>1, <1>3 DEF Agrees, RecordsApart, Persisted, Live
<1> QED  BY <1>4, <1>5, <1>6, <1>7, <1>8 DEF DiskInv, Agrees

\* An update writes the record of its instance, and no other one: the identity it
\* writes under is that of the instance or is new.
LEMMA PersistsDisk ==
    ASSUME TypeInv, DiskInv, boot = "up", boot' = boot, loading' = loading, drift' = drift,
           NEW k \in Keys, NEW id \in Ids, NEW c \in Bodies, NEW rid \in RecordIds,
           Persists(k, id, c, rid)
    PROVE  DiskInv'
<1> DEFINE new == [rid |-> rid, key |-> k, id |-> id, config |-> c]
<1>1. Agrees /\ loading = {} /\ rid # None
  BY CacheAssumption DEF DiskInv, Agrees, LoadingOK, Failed
<1>2. PICK e : e = Entry(c, rid)
  OBVIOUS
<1>3. /\ e \in Instance /\ e # None /\ e.record = rid /\ e.config = c /\ e.built = c
      /\ e.size = Size[c]
  BY <1>2, EntryType, CacheAssumption
<1>4. /\ caches'[k][id] = e
      /\ \A j \in Keys, i \in Ids : <<j, i>> # <<k, id>> => caches'[j][i] = caches[j][i]
  <2>1. Put(k, id, e) /\ caches \in [Keys -> [Ids -> Instance \cup {None}]]
    BY <1>2, TypeParts DEF TypedParts, CachesType, Persists, Put, Store
  <2> QED  BY <1>3, <2>1, PutSlots
<1>5. /\ new.rid = rid /\ new.key = k /\ new.id = id /\ new.config = c
      /\ storage' = {r \in storage : r.rid # rid} \cup {new}
  BY DEF Persists, Saved
<1> HIDE DEF new
<1>6. \A r \in storage : r \in Record /\ r.key \in Keys /\ r.id \in Ids
  BY TypeParts DEF TypedParts, Record
<1>7. ASSUME NEW r \in storage, r.rid # rid
      PROVE  <<r.key, r.id>> # <<k, id>> /\ IsLoaded(r)'
  <2>1. IsLoaded(r)
    BY <1>1 DEF Agrees, RecordsLoaded
  <2>2. OldRecord(r.key, r.id) = r.rid /\ r.rid # None
    BY <2>1, LoadedSlot
  <2>3. <<r.key, r.id>> # <<k, id>>
    BY <1>7, <2>2 DEF Persists, RecordFor
  <2>4. caches'[r.key][r.id] = caches[r.key][r.id]
    BY <1>4, <1>6, <2>3
  <2> QED  BY <2>1, <2>3, <2>4 DEF IsLoaded
<1>8. ASSUME NEW j \in Keys, NEW i \in Ids, Persisted(j, i)', <<j, i>> # <<k, id>>
      PROVE  /\ caches'[j][i] = caches[j][i] /\ Persisted(j, i) /\ caches[j][i].record # rid
  <2>1. caches'[j][i] = caches[j][i] /\ Persisted(j, i)
    BY <1>4, <1>8, SlotSame
  <2>2. OldRecord(j, i) = caches[j][i].record
    BY <2>1 DEF Persisted, OldRecord
  <2>3. CASE rid = OldRecord(k, id)
    <3>1. Persisted(k, id) /\ caches[k][id].record = rid
      BY <1>1, <2>3 DEF OldRecord, Persisted
    <3> QED  BY <1>1, <1>8, <2>1, <3>1 DEF Agrees, RecordsApart
  <2>4. CASE rid # OldRecord(k, id)
    BY <2>1, <2>2, <2>4 DEF Persists, RecordFor
  <2> QED  BY <2>1, <2>3, <2>4
<1>9. Distinct'
  <2>1. ASSUME NEW r \in storage', NEW q \in storage',
               r.rid = q.rid \/ (r.key = q.key /\ r.id = q.id)
        PROVE  r = q
    <3>1. CASE r = new \/ q = new
      BY <1>5, <1>7, <2>1, <3>1
    <3>2. CASE r # new /\ q # new
      BY <1>5, <2>1, <3>2 DEF DiskInv, Distinct
    <3> QED  BY <3>1, <3>2
  <2> QED  BY <2>1 DEF Distinct
<1>10. LoadingOK' /\ OthersNotYet' /\ StartOK'
  BY <1>1 DEF LoadingOK, OthersNotYet, StartOK, Starting
<1>11. RecordsLoaded'
  <2>1. ASSUME NEW r \in storage' PROVE IsLoaded(r)'
    <3>1. CASE r = new
      BY <1>3, <1>4, <1>5, <3>1 DEF IsLoaded
    <3>2. CASE r # new
      BY <1>5, <1>7, <3>2
    <3> QED  BY <3>1, <3>2
  <2> QED  BY <2>1 DEF RecordsLoaded
<1>12. EntriesOK'
  <2>1. ASSUME NEW j \in Keys, NEW i \in Ids, Persisted(j, i)' PROVE EntryOK(j, i)'
    <3>1. CASE <<j, i>> = <<k, id>>
      <4>1. new \in (storage \ loading)'
        BY <1>1, <1>5
      <4>2. HasRecord(j, i)'
        BY <1>3, <1>4, <1>5, <3>1, <4>1 DEF HasRecord
      <4> QED  BY <1>3, <1>4, <3>1, <4>2 DEF EntryOK
    <3>2. CASE <<j, i>> # <<k, id>>
      <4>1. caches'[j][i] = caches[j][i] /\ EntryOK(j, i) /\ caches[j][i].record # rid
        BY <1>1, <1>8, <2>1, <3>2 DEF Agrees, EntriesOK
      <4>2. ASSUME drift.times = 0 PROVE HasRecord(j, i)'
        <5>1. PICK r \in storage : r.key = j /\ r.id = i /\ r.rid = caches[j][i].record
          BY <4>1, <4>2 DEF EntryOK, HasRecord
        <5>2. r \in (storage \ loading)'
          BY <1>1, <1>5, <4>1, <5>1
        <5> QED  BY <4>1, <5>1, <5>2 DEF HasRecord
      <4> QED  BY <4>1, <4>2 DEF EntryOK
    <3> QED  BY <3>1, <3>2
  <2> QED  BY <2>1 DEF EntriesOK
<1>13. RecordsApart'
  <2>1. ASSUME NEW j \in Keys, NEW i \in Ids, NEW h \in Keys, NEW g \in Ids,
               Persisted(j, i)', Persisted(h, g)', caches'[j][i].record = caches'[h][g].record
        PROVE  j = h /\ i = g
    <3>1. CASE <<j, i>> # <<k, id>> /\ <<h, g>> # <<k, id>>
      BY <1>1, <1>8, <2>1, <3>1 DEF Agrees, RecordsApart
    <3>2. CASE <<j, i>> = <<k, id>> \/ <<h, g>> = <<k, id>>
      BY <1>3, <1>4, <1>8, <2>1, <3>2
    <3> QED  BY <3>1, <3>2
  <2> QED  BY <2>1 DEF RecordsApart
<1> QED  BY <1>9, <1>10, <1>11, <1>12, <1>13 DEF DiskInv, Agrees

\* A start has everything on disk still to load.
LEMMA RestartDisk ==
    ASSUME TypeInv, DiskInv, Restart
    PROVE  DiskInv'
<1>1. \A k \in Keys : Live(k)' = {}
  BY DEF Restart, EmptyCaches, Live
<1>2. \A k \in Keys, id \in Ids : ~Persisted(k, id)'
  BY <1>1 DEF Persisted
<1>3. Distinct' /\ LoadingOK' /\ RecordsLoaded'
  BY DEF Restart, DiskInv, Distinct, LoadingOK, RecordsLoaded
<1>4. EntriesOK' /\ RecordsApart'
  BY <1>2 DEF EntriesOK, RecordsApart
<1>5. StartOK'
  BY <1>1 DEF Restart, StartOK
<1>6. OthersNotYet'
  BY TypeParts DEF TypedParts, Record, Restart, EmptyCaches, OthersNotYet
<1> QED  BY <1>3, <1>4, <1>5, <1>6 DEF DiskInv, Agrees

\* A step of the start keeps memory and disk together, or gives the start up.
LEMMA StartDisk ==
    ASSUME TypeInv, DiskInv, Started
    PROVE  DiskInv'
<1>1. CASE boot' \in Failed
  <2>1. storage' = storage
    BY DEF Started, AddLoaded, Loaded, ConfigureConfigResolver, Apply, EnsureRegexpCache
  <2> QED  BY <1>1, <2>1 DEF DiskInv, Distinct
<1>2. ASSUME boot' \notin Failed, NEW r \in loading, AddLoaded(r) PROVE DiskInv'
  BY <1>2, AddedDisk
<1>3. CASE Loaded \/ ConfigureConfigResolver \/ Apply
  <2>1. boot \in Starting /\ Agrees /\ loading = {}
    BY <1>3 DEF DiskInv, Agrees, LoadingOK, Loaded, ConfigureConfigResolver, Apply, Starting, Failed
  <2>2. /\ UNCHANGED <<caches, storage, loading, drift>>
        /\ boot' \in Starting \cup {"up"} /\ boot' # "load"
    BY <1>3 DEF Loaded, ConfigureConfigResolver, Apply, Starting
  <2> QED  BY <2>1, <2>2, DiskSame
<1>4. CASE EnsureRegexpCache /\ boot' \notin Failed
  <2>1. /\ boot = "ensure" /\ boot' = "up" /\ UNCHANGED <<storage, loading, drift>>
    BY <1>4 DEF EnsureRegexpCache, Failed
  <2>2. boot \notin Failed /\ boot \in Starting /\ loading = {}
    BY <2>1 DEF DiskInv, Agrees, LoadingOK, Failed, Starting
  <2>3. CASE caches' = caches
    BY <2>1, <2>2, <2>3, DiskSame DEF Starting
  <2>4. CASE caches' # caches
    <3>1. /\ Default \notin Live(RegexpKey) /\ Put(RegexpKey, Default, Runtime(0))
      BY <1>4, <2>4 DEF EnsureRegexpCache, Store, Put
    <3>2. RegexpKey \in Keys /\ Default \in Ids /\ OldRecord(RegexpKey, Default) = None
      BY <3>1, CacheAssumption DEF OldRecord
    <3>3. \A r \in storage : r.rid # None
      BY TypeParts, CacheAssumption DEF TypedParts, Record
    <3>4. storage' = WithoutRecords({OldRecord(RegexpKey, Default)})
      BY <2>1, <3>2, <3>3 DEF WithoutRecords
    <3> QED  BY <2>1, <2>2, <3>1, <3>2, <3>4, RuntimeDisk
  <2> QED  BY <2>3, <2>4
<1> QED  BY <1>1, <1>2, <1>3, <1>4 DEF Started

\* So does a step on instances and records.
LEMMA ChangedDisk ==
    ASSUME TypeInv, DiskInv, Changed
    PROVE  DiskInv'
<1>1. ASSUME NEW p \in Procs, Commit(p) PROVE DiskInv'
  <2>1. PICK k, id, c : k = op[p].key /\ id = op[p].id /\ c = op[p].config
    OBVIOUS
  <2>2. /\ k \in Keys /\ id \in Ids /\ c \in Bodies /\ boot = "up"
        /\ UNCHANGED <<configs, boot, loading, drift>>
        /\ \/ UNCHANGED <<caches, instances, sizeBytes, storage>>
           \/ \E rid \in RecordIds : Persists(k, id, c, rid)
    BY <1>1, <2>1, CommitShape
  <2>3. CASE UNCHANGED <<caches, instances, sizeBytes, storage>>
    BY <2>2, <2>3, DiskSame
  <2>4. ASSUME NEW rid \in RecordIds, Persists(k, id, c, rid) PROVE DiskInv'
    BY <2>2, <2>4, PersistsDisk
  <2> QED  BY <2>2, <2>3, <2>4
<1>2. ASSUME NEW p \in Procs, RemoveInstance(p) PROVE DiskInv'
  <2>1. PICK k, id : k = op[p].key /\ id = op[p].id
    OBVIOUS
  <2>2. /\ k \in Keys /\ id \in Ids /\ boot = "up" /\ UNCHANGED <<configs, boot, loading, drift>>
        /\ \/ UNCHANGED <<caches, instances, sizeBytes, storage>> \/ Remove(k, id)
    BY <1>2, <2>1, RemoveInstanceShape
  <2>3. CASE UNCHANGED <<caches, instances, sizeBytes, storage>>
    BY <2>2, <2>3, DiskSame
  <2>4. CASE Remove(k, id)
    <3>1. Taken(k, {id}) /\ storage' = WithoutRecords({OldRecord(k, id)})
      BY <2>2, <2>4, RemoveShape, TypeParts DEF TypedParts
    <3>2. RecordsOf(k, {id}) = {OldRecord(k, id)}
      BY DEF RecordsOf
    <3> QED  BY <2>2, <3>1, <3>2, TakenDisk
  <2> QED  BY <2>2, <2>3, <2>4
<1>3. ASSUME NEW s \in Slots, NEW n \in Estimates, UpdateRuntimeCacheInstance(s[1], s[2], n)
      PROVE  DiskInv'
  <2>1. PICK k, id : k = s[1] /\ id = s[2]
    OBVIOUS
  <2>2. k \in Keys /\ id \in Ids /\ n \in Nat
    BY <2>1, CacheAssumption
  <2>3. /\ Put(k, id, Runtime(n)) /\ storage' = WithoutRecords({OldRecord(k, id)})
        /\ boot = "up" /\ UNCHANGED <<boot, loading, drift>>
    BY <1>3, <2>1 DEF UpdateRuntimeCacheInstance, Store, Put, Serving
  <2>4. boot \notin Failed /\ loading = {}
    BY <2>3 DEF DiskInv, Agrees, LoadingOK, Failed
  <2> QED  BY <2>2, <2>3, <2>4, RuntimeDisk
<1>4. ASSUME NEW k \in Keys, RemoveCache(k) PROVE DiskInv'
  <2>1. Taken(k, Live(k)) /\ boot = "up" /\ UNCHANGED <<boot, loading, drift>>
        /\ storage' = WithoutRecords(RecordsOf(k, Live(k)))
    BY <1>4, RemoveCacheShape, TypeParts DEF TypedParts, RemoveCache, Serving
  <2> QED  BY <2>1, TakenDisk
<1>5. ASSUME NEW k \in Keys, NEW done \in SUBSET Ids, RemoveCacheFails(k, done) PROVE DiskInv'
  BY <1>5, FailingDisk
<1> QED  BY <1>1, <1>2, <1>3, <1>4, <1>5 DEF Changed

\* Every step keeps memory and disk together.
LEMMA DiskStep == TypeInv /\ DiskInv /\ [Next]_vars => DiskInv'
<1> SUFFICES ASSUME TypeInv, DiskInv, [Next]_vars PROVE DiskInv'
  OBVIOUS
<1>1. CASE Started
  BY <1>1, StartDisk
<1>2. CASE Restart
  BY <1>2, RestartDisk
<1>3. CASE Asked
  BY <1>3, AskedShape, DiskSame
<1>4. CASE Reconfigured
  <2>1. UNCHANGED <<caches, storage, boot, loading, drift>>
    BY <1>4 DEF Reconfigured, ConfigureCache, disk
  <2> QED  BY <2>1, DiskSame
<1>5. CASE Changed
  BY <1>5, ChangedDisk
<1>6. CASE UNCHANGED vars
  BY <1>6, DiskSame DEF vars
<1> QED  BY <1>1, <1>2, <1>3, <1>4, <1>5, <1>6, NextSteps

\* Records and instances belong together in every state from which the process may
\* still serve, those of the start included.
THEOREM DiskInvariant == Spec => [](TypeInv /\ DiskInv)
<1>1. Init => DiskInv
  <2>1. ASSUME Init PROVE DiskInv
    <3>1. \A k \in Keys : Live(k) = {}
      BY <2>1 DEF Init, Booted, EmptyCaches, Live
    <3> QED  BY <2>1, <3>1 DEF Init, Booted, DiskInv, Distinct, Agrees, LoadingOK, RecordsLoaded,
                 OthersNotYet, EntriesOK, RecordsApart, StartOK, Persisted
  <2> QED  BY <2>1
<1> QED  BY <1>1, CacheInvariant, DiskStep, PTL DEF Spec

\* While the manager serves, memory and disk tell the same story: each record is the
\* record of a live instance that was built from the configuration in it, and a
\* persisted instance has its record unless a removal of its category failed.
THEOREM MemoryMatchesDisk == Spec => []LiveMatchesDisk
<1>1. TypeInv /\ DiskInv => LiveMatchesDisk
  <2> SUFFICES ASSUME TypeInv, DiskInv, Serving PROVE LiveMatchesDisk
    BY DEF LiveMatchesDisk
  <2>1. Agrees /\ loading = {}
    BY DEF Serving, DiskInv, Agrees, LoadingOK, Failed
  <2>2. ASSUME NEW r \in storage
        PROVE  /\ r.id \in Live(r.key) /\ caches[r.key][r.id].record = r.rid
               /\ caches[r.key][r.id].config = r.config
    <3>1. IsLoaded(r)
      BY <2>1 DEF Agrees, RecordsLoaded
    <3> QED  BY <3>1, LoadedSlot DEF IsLoaded, Persisted
  <2>3. ASSUME NEW k \in Keys, NEW id \in Live(k), caches[k][id].record # None
        PROVE  /\ caches[k][id].built = caches[k][id].config
               /\ drift.times = 0 => \E r \in storage : r.rid = caches[k][id].record
    <3>1. id \in Ids /\ Persisted(k, id)
      BY <2>3 DEF Live, Persisted
    <3>2. EntryOK(k, id)
      BY <2>1, <3>1 DEF Agrees, EntriesOK
    <3> QED  BY <3>2 DEF EntryOK, HasRecord
  <2> QED  BY <2>2, <2>3 DEF LiveMatchesDisk
<1> QED  BY <1>1, DiskInvariant, PTL

-----------------------------------------------------------------------------
(***************************************************************************)
(* Totals and limits.                                                      *)
(***************************************************************************)
TotalsSame ==
    /\ caches' = caches
    /\ instances' + drift'.count = instances + drift.count
    /\ sizeBytes' + drift'.size = sizeBytes + drift.size

Accepts(k, id, e) ==
    /\ Store(k, id, e, id \in Live(k), OldSize(k, id))
    /\ WithinLimits(k, id \in Live(k), OldSize(k, id), e.size)
    /\ drift' = drift

Drops(k, R) ==
    /\ Taken(k, R)
    /\ instances' = instances - Cardinality(R) /\ sizeBytes' = sizeBytes - SizeOf(k, R)
    /\ drift' = drift

\* What a step does to instances and totals: nothing, or it accepts an instance that
\* the limits allow, or it drops some of a category, or the process starts again.
LEMMA StepShapes ==
    ASSUME TypeInv, DiskInv, [Next]_vars
    PROVE  \/ TotalsSame
           \/ \E k \in Keys, id \in Ids, e \in Instance : Accepts(k, id, e)
           \/ \E k \in Keys : \E R : Drops(k, R)
           \/ Restart
<1>1. CASE UNCHANGED <<caches, instances, sizeBytes, drift>>
  BY <1>1 DEF TotalsSame
<1>2. CASE Started
  <2>1. ASSUME NEW r \in loading, AddLoaded(r), ~UNCHANGED <<caches, instances, sizeBytes>>
        PROVE  \E k \in Keys, id \in Ids, e \in Instance : Accepts(k, id, e)
    <3>1. boot' \notin Failed
      BY <2>1 DEF AddLoaded, Failed
    <3>2. r \in Record /\ Agrees
      BY <2>1, <3>1, AddedRecord
    <3>3. r.key \in Keys /\ r.id \in Ids /\ r.config \in Bodies /\ r.rid \in RecordIds
      BY <3>2 DEF Record
    <3>4. r.id \notin Live(r.key) /\ OldSize(r.key, r.id) = 0
      BY <3>2 DEF Agrees, OthersNotYet, Live, OldSize
    <3>5. /\ Store(r.key, r.id, Entry(r.config, r.rid), FALSE, 0) /\ drift' = drift
          /\ WithinLimits(r.key, FALSE, 0, Size[r.config])
      BY <2>1 DEF AddLoaded, Entry
    <3>6. Entry(r.config, r.rid) \in Instance /\ Entry(r.config, r.rid).size = Size[r.config]
      BY <3>3, EntryType
    <3>7. (r.id \in Live(r.key)) = FALSE
      BY <3>4
    <3>8. Accepts(r.key, r.id, Entry(r.config, r.rid))
      BY <3>4, <3>5, <3>6, <3>7 DEF Accepts
    <3> QED  BY <3>3, <3>6, <3>8
  <2>2. CASE EnsureRegexpCache /\ ~UNCHANGED <<caches, instances, sizeBytes>>
    <3>1. /\ Store(RegexpKey, Default, Runtime(0), FALSE, 0) /\ drift' = drift
          /\ WithinLimits(RegexpKey, FALSE, 0, 0) /\ Default \notin Live(RegexpKey)
      BY <2>2 DEF EnsureRegexpCache
    <3>2. /\ Runtime(0) \in Instance /\ Runtime(0).size = 0 /\ RegexpKey \in Keys /\ Default \in Ids
      BY RuntimeType, CacheAssumption
    <3>3. OldSize(RegexpKey, Default) = 0 /\ (Default \in Live(RegexpKey)) = FALSE
      BY <3>1 DEF OldSize
    <3>4. Accepts(RegexpKey, Default, Runtime(0))
      BY <3>1, <3>2, <3>3 DEF Accepts
    <3> QED  BY <3>2, <3>4
  <2>3. drift' = drift
    BY <1>2 DEF Started, AddLoaded, Loaded, ConfigureConfigResolver, Apply, EnsureRegexpCache
  <2> QED  BY <1>1, <1>2, <2>1, <2>2, <2>3 DEF Started, Loaded, ConfigureConfigResolver, Apply
<1>3. CASE Asked
  BY <1>1, <1>3, AskedShape
<1>4. CASE Reconfigured
  BY <1>1, <1>4 DEF Reconfigured, ConfigureCache
<1>5. CASE Changed
  <2>1. ASSUME NEW p \in Procs, Commit(p), ~UNCHANGED <<caches, instances, sizeBytes, drift>>
        PROVE  \E k \in Keys, id \in Ids, e \in Instance : Accepts(k, id, e)
    <3>1. PICK k, id, c : k = op[p].key /\ id = op[p].id /\ c = op[p].config
      OBVIOUS
    <3>2. /\ k \in Keys /\ id \in Ids /\ c \in Bodies /\ drift' = drift
          /\ \E rid \in RecordIds : Persists(k, id, c, rid)
      BY <2>1, <3>1, CommitShape
    <3>3. PICK rid \in RecordIds : Persists(k, id, c, rid)
      BY <3>2
    <3>4. Entry(c, rid) \in Instance /\ Entry(c, rid).size = Size[c]
      BY <3>2, EntryType
    <3>5. Accepts(k, id, Entry(c, rid))
      BY <3>2, <3>3, <3>4 DEF Persists, Accepts
    <3> QED  BY <3>2, <3>4, <3>5
  <2>2. ASSUME NEW p \in Procs, RemoveInstance(p), ~UNCHANGED <<caches, instances, sizeBytes, drift>>
        PROVE  \E k \in Keys : \E R : Drops(k, R)
    <3>1. PICK k, id : k = op[p].key /\ id = op[p].id
      OBVIOUS
    <3>2. k \in Keys /\ id \in Ids /\ drift' = drift /\ Remove(k, id)
      BY <2>2, <3>1, RemoveInstanceShape
    <3>3. Drops(k, {id})
      BY <3>2, RemoveShape, TypeParts DEF TypedParts, Drops
    <3> QED  BY <3>2, <3>3
  <2>3. ASSUME NEW s \in Slots, NEW n \in Estimates, UpdateRuntimeCacheInstance(s[1], s[2], n)
        PROVE  \E k \in Keys, id \in Ids, e \in Instance : Accepts(k, id, e)
    <3>1. PICK k, id : k = s[1] /\ id = s[2]
      OBVIOUS
    <3>2. k \in Keys /\ id \in Ids /\ n \in Nat
      BY <3>1, CacheAssumption
    <3>3. Runtime(n) \in Instance /\ Runtime(n).size = n
      BY <3>2, RuntimeType
    <3>4. Accepts(k, id, Runtime(n))
      BY <2>3, <3>1, <3>3 DEF UpdateRuntimeCacheInstance, Accepts
    <3> QED  BY <3>2, <3>3, <3>4
  <2>4. ASSUME NEW k \in Keys, RemoveCache(k)
        PROVE  \E j \in Keys : \E R : Drops(j, R)
    <3>1. Drops(k, Live(k))
      BY <2>4, RemoveCacheShape, TypeParts DEF TypedParts, RemoveCache, Drops
    <3> QED  BY <3>1
  <2>5. ASSUME NEW k \in Keys, NEW done \in SUBSET Ids, RemoveCacheFails(k, done)
        PROVE  TotalsSame
    BY <2>5, FailingShape DEF TotalsSame
  <2> QED  BY <1>1, <1>5, <2>1, <2>2, <2>3, <2>4, <2>5 DEF Changed
<1>6. CASE UNCHANGED vars
  BY <1>1, <1>6 DEF vars
<1> QED  BY <1>2, <1>3, <1>4, <1>5, <1>6, NextSteps

\* The totals follow what is live.
LEMMA CountersStep == TypeInv /\ DiskInv /\ CountersExact /\ [Next]_vars => CountersExact'
<1> SUFFICES ASSUME TypeInv, DiskInv, CountersExact, [Next]_vars PROVE CountersExact'
  OBVIOUS
<1>1. /\ CachesType /\ Finite /\ instances \in Int /\ sizeBytes \in Int
      /\ drift.count \in Nat /\ drift.size \in Nat
  BY TypeParts DEF TypedParts
<1>2. CASE TotalsSame
  BY <1>2, SameCounts DEF TotalsSame, CountersExact
<1>3. ASSUME NEW k \in Keys, NEW id \in Ids, NEW e \in Instance, Accepts(k, id, e)
      PROVE  CountersExact'
  <2>1. /\ Cardinality(LiveSlots)' = Cardinality(LiveSlots) + (IF id \in Live(k) THEN 0 ELSE 1)
        /\ Cardinality(Bytes(LiveSlots))' = Cardinality(Bytes(LiveSlots)) - OldSize(k, id) + e.size
    <3>1. Put(k, id, e)
      BY <1>3 DEF Accepts, Store, Put
    <3> QED  BY <1>1, <3>1, PutCounts DEF CachesType
  <2>2. OldSize(k, id) \in Nat /\ e.size \in Nat
    BY <1>1, OldSizeType DEF Instance, CachesType
  <2>3. /\ instances' = IF id \in Live(k) THEN instances ELSE instances + 1
        /\ sizeBytes' = sizeBytes + e.size - OldSize(k, id) /\ drift' = drift
    BY <1>3 DEF Accepts, Store
  <2>4. instances' + drift'.count = Cardinality(LiveSlots)'
    BY <1>1, <2>1, <2>3 DEF CountersExact
  <2>5. sizeBytes' + drift'.size = Cardinality(Bytes(LiveSlots))'
    BY <1>1, <2>1, <2>2, <2>3 DEF CountersExact
  <2> QED  BY <2>4, <2>5 DEF CountersExact
<1>4. ASSUME NEW k \in Keys, NEW R, Drops(k, R) PROVE CountersExact'
  <2>1. /\ Cardinality(LiveSlots)' = Cardinality(LiveSlots) - Cardinality(R)
        /\ Cardinality(Bytes(LiveSlots))' = Cardinality(Bytes(LiveSlots)) - SizeOf(k, R)
        /\ R \subseteq Live(k)
    BY <1>1, <1>4, TakenCounts DEF Drops, Taken, CachesType
  <2>2. Cardinality(R) \in Nat /\ SizeOf(k, R) \in Nat
    BY <1>1, <2>1, PartsCount
  <2>3. instances' + drift'.count = Cardinality(LiveSlots)'
    BY <1>1, <1>4, <2>1, <2>2 DEF CountersExact, Drops
  <2>4. sizeBytes' + drift'.size = Cardinality(Bytes(LiveSlots))'
    BY <1>1, <1>4, <2>1, <2>2 DEF CountersExact, Drops
  <2> QED  BY <2>3, <2>4 DEF CountersExact
<1>5. CASE Restart
  <2>1. (caches = EmptyCaches)'
    BY <1>5 DEF Restart, EmptyCaches
  <2> QED  BY <1>5, <2>1, EmptiedCounts DEF Restart, NothingLive, CountersExact
<1> QED  BY <1>2, <1>3, <1>4, <1>5, StepShapes

\* Stats reports what is live: the running totals are the number of the live
\* instances and the sum of their sizes, up to what failed removals took off them.
THEOREM CountersAreExact == Spec => []CountersExact
<1>1. Init => CountersExact
  BY EmptyCounts DEF Init, Booted, CountersExact, NothingLive
<1> QED  BY <1>1, DiskInvariant, CountersStep, PTL DEF Spec

LimitsKept ==
    \A k \in Keys :
        LET max == ConfigOf(k)
        IN  /\ Cardinality(Live(k)') > Cardinality(Live(k)) /\ max.maxInstances > 0
                => Cardinality(Live(k)') <= max.maxInstances
            /\ CacheStats(k)'.size > CacheStats(k).size /\ max.maxSize > 0
                => CacheStats(k)'.size <= max.maxSize

\* No step takes a category past its limits.
LEMMA LimitsStep == TypeInv /\ DiskInv /\ [Next]_vars => LimitsKept
<1> SUFFICES ASSUME TypeInv, DiskInv, [Next]_vars, NEW k \in Keys
             PROVE  /\ Cardinality(Live(k)') > Cardinality(Live(k)) /\ ConfigOf(k).maxInstances > 0
                          => Cardinality(Live(k)') <= ConfigOf(k).maxInstances
                    /\ SizeOf(k, Live(k))' > SizeOf(k, Live(k)) /\ ConfigOf(k).maxSize > 0
                          => SizeOf(k, Live(k))' <= ConfigOf(k).maxSize
  BY DEF LimitsKept, CacheStats
<1>1. CachesType /\ Finite
  BY TypeParts DEF TypedParts
<1>2. Cardinality(Live(k)) \in Nat /\ SizeOf(k, Live(k)) \in Nat
  BY <1>1, PartsCount
<1>3. ConfigOf(k).maxInstances \in Nat /\ ConfigOf(k).maxSize \in Nat
  BY ConfigOfType DEF TypeInv, CacheConfig
<1>4. CASE TotalsSame
  BY <1>2, <1>4, SameCounts DEF TotalsSame
<1>5. ASSUME NEW j \in Keys, NEW id \in Ids, NEW e \in Instance, Accepts(j, id, e)
      PROVE  /\ Cardinality(Live(k)') > Cardinality(Live(k)) /\ ConfigOf(k).maxInstances > 0
                  => Cardinality(Live(k)') <= ConfigOf(k).maxInstances
             /\ SizeOf(k, Live(k))' > SizeOf(k, Live(k)) /\ ConfigOf(k).maxSize > 0
                  => SizeOf(k, Live(k))' <= ConfigOf(k).maxSize
  <2>1. Put(j, id, e)
    BY <1>5 DEF Accepts, Store, Put
  <2>2. CASE j # k
    BY <1>1, <1>2, <2>1, <2>2, PutCounts DEF CachesType
  <2>3. CASE j = k
    <3>1. /\ Cardinality(Live(k))' = Cardinality(Live(k)) + (IF id \in Live(k) THEN 0 ELSE 1)
          /\ SizeOf(k, Live(k))' = SizeOf(k, Live(k)) - OldSize(k, id) + e.size
      BY <1>1, <2>1, <2>3, PutCounts DEF CachesType
    <3>2. /\ id \in Live(k) \/ ConfigOf(k).maxInstances = 0
                           \/ Cardinality(Live(k)) + 1 <= ConfigOf(k).maxInstances
          /\ ConfigOf(k).maxSize = 0
               \/ SizeOf(k, Live(k)) - OldSize(k, id) + e.size <= ConfigOf(k).maxSize
      BY <1>5, <2>3 DEF Accepts, WithinLimits, CacheStats
    <3> QED  BY <1>2, <1>3, <3>1, <3>2
  <2> QED  BY <2>2, <2>3
<1>6. ASSUME NEW j \in Keys, NEW R, Drops(j, R)
      PROVE  /\ Cardinality(Live(k))' <= Cardinality(Live(k))
             /\ SizeOf(k, Live(k))' <= SizeOf(k, Live(k))
             /\ Cardinality(Live(k))' \in Nat /\ SizeOf(k, Live(k))' \in Nat
  BY <1>1, <1>6, TakenCounts DEF Drops, CachesType
<1>7. CASE Restart
  <2>1. (caches = EmptyCaches)'
    BY <1>7 DEF Restart, EmptyCaches
  <2>2. Cardinality(Live(k))' = 0 /\ SizeOf(k, Live(k))' = 0
    BY <2>1, EmptiedCounts DEF NothingLive
  <2> QED  BY <1>2, <2>2
<1> QED  BY <1>2, <1>4, <1>5, <1>6, <1>7, StepShapes

\* No step takes a category past the limits in force, whatever was built before.
THEOREM LimitsAreKept == Spec => LimitsHold
<1>1. TypeInv /\ DiskInv /\ [Next]_vars => [LimitsKept]_vars
  BY LimitsStep
<1>2. LimitsHold <=> [][LimitsKept]_vars
  BY PTL DEF LimitsHold, LimitsKept
<1> QED  BY <1>1, <1>2, DiskInvariant, PTL DEF Spec

-----------------------------------------------------------------------------
(***************************************************************************)
(* The next start.                                                         *)
(***************************************************************************)

\* The bytes of the records of a category.
LEMMA StoredByte ==
    ASSUME NEW k, NEW x
    PROVE  x \in StoredBytes(k) <=>
              \E r \in storage : r.key = k /\ x \in Charge(<<k, r.id>>, Size[r.config])
BY Zenon DEF StoredBytes, Charge

\* A live byte belongs to a live instance.
LEMMA LiveByte ==
    ASSUME NEW k, NEW ids, NEW x
    PROVE  x \in Bytes({k} \X ids) <=> \E id \in ids : x \in Charge(<<k, id>>, caches[k][id].size)
<1>1. x \in Bytes({k} \X ids) <=> \E s \in {k} \X ids : x \in Charge(s, caches[s[1]][s[2]].size)
  BY BytesNow, ByteIn
<1>2. ASSUME NEW s \in {k} \X ids, x \in Charge(s, caches[s[1]][s[2]].size)
      PROVE  \E id \in ids : x \in Charge(<<k, id>>, caches[k][id].size)
  <2>1. s = <<k, s[2]>> /\ s[1] = k /\ s[2] \in ids
    OBVIOUS
  <2> QED  BY <1>2, <2>1
<1>3. ASSUME NEW id \in ids, x \in Charge(<<k, id>>, caches[k][id].size)
      PROVE  \E s \in {k} \X ids : x \in Charge(s, caches[s[1]][s[2]].size)
  <2>1. <<k, id>> \in {k} \X ids /\ <<k, id>>[1] = k /\ <<k, id>>[2] = id
    OBVIOUS
  <2> QED  BY <1>3, <2>1
<1> QED  BY <1>1, <1>2, <1>3

\* Once everything is loaded, what is on disk is live.
LEMMA StoredIsLive ==
    ASSUME TypeInv, DiskInv, boot \notin Failed, loading = {}, NEW k \in Keys
    PROVE  StoredIds(k) \subseteq Live(k) /\ StoredBytes(k) \subseteq Bytes({k} \X Live(k))
<1>1. Agrees
  BY DEF DiskInv
<1>2. ASSUME NEW r \in storage, r.key = k
      PROVE  r.id \in Live(k) /\ caches[k][r.id].size = Size[r.config]
  <2>1. IsLoaded(r)
    BY <1>1 DEF Agrees, RecordsLoaded
  <2>2. r.id \in Ids /\ Persisted(k, r.id)
    BY <1>2, <2>1, LoadedSlot
  <2>3. EntryOK(k, r.id)
    BY <1>1, <2>2 DEF Agrees, EntriesOK
  <2> QED  BY <1>2, <2>1, <2>2, <2>3 DEF IsLoaded, EntryOK, Persisted
<1>3. StoredIds(k) \subseteq Live(k)
  BY <1>2 DEF StoredIds
<1>4. ASSUME NEW x \in StoredBytes(k) PROVE x \in Bytes({k} \X Live(k))
  <2>1. PICK r \in storage : r.key = k /\ x \in Charge(<<k, r.id>>, Size[r.config])
    BY <1>4, StoredByte
  <2>2. r.id \in Live(k) /\ x \in Charge(<<k, r.id>>, caches[k][r.id].size)
    BY <1>2, <2>1
  <2> QED  BY <2>2, LiveByte
<1> QED  BY <1>3, <1>4

\* Until the process serves, what is live is on disk, and is not one of the records
\* still to be loaded.
LEMMA LiveIsStored ==
    ASSUME TypeInv, DiskInv, boot \in Starting, NEW k \in Keys, NEW id \in Live(k)
    PROVE  \E r \in storage \ loading :
               r.key = k /\ r.id = id /\ caches[k][id].size = Size[r.config]
<1>1. Agrees /\ id \in Ids /\ drift.times = 0 /\ Persisted(k, id)
  BY DEF DiskInv, Starting, Failed, Live, Agrees, StartOK
<1>2. EntryOK(k, id)
  BY <1>1 DEF Agrees, EntriesOK
<1>3. PICK r \in storage \ loading : r.key = k /\ r.id = id
  BY <1>1, <1>2 DEF EntryOK, HasRecord
<1>4. IsLoaded(r)
  BY <1>1 DEF Agrees, RecordsLoaded
<1> QED  BY <1>2, <1>3, <1>4 DEF EntryOK, IsLoaded

\* A part of what is within a limit is within it.
LEMMA PartWithin ==
    ASSUME NEW A, NEW B, A \subseteq B, IsFiniteSet(B), NEW limit \in Nat, Within(Cardinality(B), limit)
    PROVE  IsFiniteSet(A) /\ Within(Cardinality(A), limit)
<1>1. IsFiniteSet(A) /\ Cardinality(A) <= Cardinality(B)
  BY FS_Subset
<1>2. Cardinality(A) \in Nat /\ Cardinality(B) \in Nat
  BY <1>1, FS_CardinalityType
<1> QED  BY <1>1, <1>2 DEF Within

\* The limits at the start are numbers.
LEMMA BootLimits ==
    ASSUME NEW k \in Keys
    PROVE  /\ BootOf(k) \in CacheConfig
           /\ BootOf(k).maxInstances \in Nat /\ BootOf(k).maxSize \in Nat
<1>1. BootOf(k) \in CacheConfig
  BY CacheAssumption DEF BootOf, NoConfig, CacheConfig
<1> QED  BY <1>1 DEF CacheConfig

\* While the process serves, the disk holds no more than memory does.
LEMMA ServedFits == TypeInv /\ DiskInv /\ boot = "up" /\ AllLiveFit => AllStoredFit
<1> SUFFICES ASSUME TypeInv, DiskInv, boot = "up", AllLiveFit, NEW k \in Keys PROVE StoredFits(k)
  BY DEF AllStoredFit
<1>1. boot \notin Failed /\ loading = {}
  BY DEF DiskInv, Agrees, LoadingOK, Failed
<1>2. StoredIds(k) \subseteq Live(k) /\ StoredBytes(k) \subseteq Bytes({k} \X Live(k))
  BY <1>1, StoredIsLive
<1>3. IsFiniteSet(Live(k)) /\ IsFiniteSet(Bytes({k} \X Live(k)))
  BY PartsCount DEF TypeInv, Finite
<1>4. /\ Within(Cardinality(Live(k)), BootOf(k).maxInstances)
      /\ Within(Cardinality(Bytes({k} \X Live(k))), BootOf(k).maxSize)
  BY DEF AllLiveFit, LiveFits, SizeOf
<1>5. IsFiniteSet(StoredIds(k)) /\ Within(Cardinality(StoredIds(k)), BootOf(k).maxInstances)
  BY <1>2, <1>3, <1>4, PartWithin, BootLimits
<1>6. IsFiniteSet(StoredBytes(k)) /\ Within(Cardinality(StoredBytes(k)), BootOf(k).maxSize)
  BY <1>2, <1>3, <1>4, PartWithin, BootLimits
<1> QED  BY <1>5, <1>6 DEF StoredFits

\* The same after a step.
LEMMA ServedFitsAfter == TypeInv' /\ DiskInv' /\ (boot = "up")' /\ AllLiveFit' => AllStoredFit'
BY ServedFits, PTL

\* With what is loaded, the next record to load is a part of what the disk holds: the
\* limits at the start allow it.
LEMMA LoadFits ==
    ASSUME TypeInv, DiskInv, AllStoredFit, boot = "load", configs = BootConfigs, NEW r \in loading
    PROVE  WithinLimits(r.key, FALSE, 0, Size[r.config])
<1>1. Agrees /\ r \in storage /\ r \in Record
  BY TypeParts DEF DiskInv, Agrees, LoadingOK, Failed, TypedParts
<1>2. PICK k, id, n : k = r.key /\ id = r.id /\ n = Size[r.config]
  OBVIOUS
<1>3. k \in Keys /\ id \in Ids /\ n \in Nat
  BY <1>1, <1>2, CacheAssumption DEF Record
<1>4. id \notin Live(k)
  BY <1>1, <1>2 DEF Agrees, OthersNotYet, Live
<1>5. /\ IsFiniteSet(Live(k)) /\ IsFiniteSet(Bytes({k} \X Live(k)))
      /\ Cardinality(Live(k)) \in Nat /\ SizeOf(k, Live(k)) \in Nat
  BY <1>3, PartsCount DEF TypeInv, Finite
<1>6. /\ IsFiniteSet(StoredIds(k)) /\ Within(Cardinality(StoredIds(k)), BootOf(k).maxInstances)
      /\ IsFiniteSet(StoredBytes(k)) /\ Within(Cardinality(StoredBytes(k)), BootOf(k).maxSize)
  BY <1>3 DEF AllStoredFit, StoredFits
<1>7. BootOf(k).maxInstances \in Nat /\ BootOf(k).maxSize \in Nat /\ ConfigOf(k) = BootOf(k)
  BY <1>3, BootLimits DEF ConfigOf, BootOf
<1>8. Within(Cardinality(Live(k)) + 1, BootOf(k).maxInstances)
  <2>1. PICK A : A = Live(k) \cup {id}
    OBVIOUS
  <2>2. A \subseteq StoredIds(k)
    <3>1. id \in StoredIds(k)
      BY <1>1, <1>2 DEF StoredIds
    <3>2. ASSUME NEW i \in Live(k) PROVE i \in StoredIds(k)
      BY <1>3, LiveIsStored DEF Starting, StoredIds
    <3> QED  BY <2>1, <3>1, <3>2
  <2>3. Cardinality(A) = Cardinality(Live(k)) + 1
    BY <1>4, <1>5, <2>1, OneMore
  <2> QED  BY <1>6, <1>7, <2>2, <2>3, PartWithin
<1>9. Within(SizeOf(k, Live(k)) + n, BootOf(k).maxSize)
  <2>1. PICK A, C, D : A = Bytes({k} \X Live(k)) /\ C = Charge(<<k, id>>, n) /\ D = A \cup C
    OBVIOUS
  <2>2. IsFiniteSet(C) /\ Cardinality(C) = n
    BY <1>3, <2>1, ChargeCounts
  <2>3. A \cap C = {}
    <3>1. ASSUME NEW x \in A, x \in C PROVE FALSE
      <4>1. PICK i \in Live(k) : x \in Charge(<<k, i>>, caches[k][i].size)
        BY <2>1, <3>1, LiveByte
      <4>2. <<k, i>> = <<k, id>>
        BY <2>1, <3>1, <4>1, ChargeOwner
      <4> QED  BY <1>4, <4>2
    <3> QED  BY <3>1
  <2>4. D \subseteq StoredBytes(k)
    <3>1. ASSUME NEW x \in C PROVE x \in StoredBytes(k)
      BY <1>1, <1>2, <2>1, <3>1, StoredByte
    <3>2. ASSUME NEW x \in A PROVE x \in StoredBytes(k)
      <4>1. PICK i \in Live(k) : x \in Charge(<<k, i>>, caches[k][i].size)
        BY <2>1, <3>2, LiveByte
      <4>2. PICK q \in storage : q.key = k /\ q.id = i /\ caches[k][i].size = Size[q.config]
        BY <1>3, LiveIsStored DEF Starting
      <4> QED  BY <4>1, <4>2, StoredByte
    <3> QED  BY <2>1, <3>1, <3>2
  <2>5. IsFiniteSet(A) /\ A \ {} = A /\ Cardinality({}) = 0
    BY <1>5, <2>1, FS_EmptySet
  <2>6. Cardinality(D) = Cardinality(A) + n
    <3>1. Cardinality(D) = Cardinality(A) + Cardinality(C) - Cardinality(A \cap C)
      BY <2>1, <2>2, <2>5, FS_Union
    <3>2. Cardinality(A) \in Nat
      BY <2>5, FS_CardinalityType
    <3>3. Cardinality(A \cap C) = 0
      BY <2>3, <2>5
    <3> QED  BY ONLY <1>3, <2>2, <3>1, <3>2, <3>3
  <2>7. SizeOf(k, Live(k)) = Cardinality(A)
    BY <2>1 DEF SizeOf
  <2> QED  BY <1>6, <1>7, <2>4, <2>6, <2>7, PartWithin
<1>10. WithinLimits(k, FALSE, 0, n)
  BY <1>3, <1>5, <1>7, <1>8, <1>9 DEF WithinLimits, CacheStats, Within
<1> QED  BY <1>2, <1>10

\* What a step accepts fits into the limits of the start.
LEMMA LiveFitStep ==
    ASSUME TypeInv, DiskInv, ConfigsKept, AllLiveFit, [Next]_vars
    PROVE  AllLiveFit'
<1> SUFFICES ASSUME NEW k \in Keys
             PROVE  /\ Within(Cardinality(Live(k))', BootOf(k).maxInstances)
                    /\ Within(SizeOf(k, Live(k))', BootOf(k).maxSize)
  BY DEF AllLiveFit, LiveFits, BootOf, Within, NoConfig
<1>1. CachesType /\ Finite
  BY TypeParts DEF TypedParts
<1>2. Cardinality(Live(k)) \in Nat /\ SizeOf(k, Live(k)) \in Nat
  BY <1>1, PartsCount
<1>3. /\ BootOf(k).maxInstances \in Nat /\ BootOf(k).maxSize \in Nat
      /\ ConfigOf(k).maxInstances \in Nat /\ ConfigOf(k).maxSize \in Nat
  BY BootLimits, ConfigOfType DEF TypeInv, CacheConfig
<1>4. /\ Within(Cardinality(Live(k)), BootOf(k).maxInstances)
      /\ Within(SizeOf(k, Live(k)), BootOf(k).maxSize)
  BY DEF AllLiveFit, LiveFits
<1>5. CASE TotalsSame
  BY <1>4, <1>5, SameCounts DEF TotalsSame
<1>6. ASSUME NEW j \in Keys, NEW id \in Ids, NEW e \in Instance, Accepts(j, id, e)
      PROVE  /\ Within(Cardinality(Live(k))', BootOf(k).maxInstances)
             /\ Within(SizeOf(k, Live(k))', BootOf(k).maxSize)
  <2>1. Put(j, id, e)
    BY <1>6 DEF Accepts, Store, Put
  <2>2. CASE j # k
    BY <1>1, <1>4, <2>1, <2>2, PutCounts DEF CachesType
  <2>3. CASE j = k
    <3>1. PICK n, m : n = Cardinality(Live(k))' /\ m = SizeOf(k, Live(k))'
      OBVIOUS
    <3>2. /\ n = Cardinality(Live(k)) + (IF id \in Live(k) THEN 0 ELSE 1)
          /\ m = SizeOf(k, Live(k)) - OldSize(k, id) + e.size
      BY <1>1, <2>1, <2>3, <3>1, PutCounts DEF CachesType
    <3>3. /\ id \in Live(k) \/ ConfigOf(k).maxInstances = 0
                           \/ Cardinality(Live(k)) + 1 <= ConfigOf(k).maxInstances
          /\ ConfigOf(k).maxSize = 0
               \/ SizeOf(k, Live(k)) - OldSize(k, id) + e.size <= ConfigOf(k).maxSize
      BY <1>6, <2>3 DEF Accepts, WithinLimits, CacheStats
    <3>4. /\ LimitKept(ConfigOf(k).maxInstances, BootOf(k).maxInstances)
          /\ LimitKept(ConfigOf(k).maxSize, BootOf(k).maxSize)
      BY DEF ConfigsKept, NoLooser
    <3>5. Within(n, BootOf(k).maxInstances)
      BY <1>2, <1>3, <1>4, <3>2, <3>3, <3>4 DEF LimitKept, Within
    <3>6. Within(m, BootOf(k).maxSize)
      <4>1. PICK max, top : max = ConfigOf(k).maxSize /\ top = BootOf(k).maxSize
        OBVIOUS
      <4>2. max \in Nat /\ top \in Nat /\ LimitKept(max, top) /\ (max = 0 \/ m <= max) /\ m \in Int
        <5>1. OldSize(k, id) \in Nat /\ e.size \in Nat
          BY <1>1, OldSizeType DEF Instance, CachesType
        <5> QED  BY <1>2, <1>3, <3>2, <3>3, <3>4, <4>1, <5>1
      <4>3. Within(m, top)
        BY ONLY <4>2 DEF LimitKept, Within
      <4> QED  BY <4>1, <4>3
    <3> QED  BY <3>1, <3>5, <3>6
  <2> QED  BY <2>2, <2>3
<1>7. ASSUME NEW j \in Keys, NEW R, Drops(j, R)
      PROVE  /\ Within(Cardinality(Live(k))', BootOf(k).maxInstances)
             /\ Within(SizeOf(k, Live(k))', BootOf(k).maxSize)
  <2>1. /\ Cardinality(Live(k))' <= Cardinality(Live(k)) /\ Cardinality(Live(k))' \in Nat
        /\ SizeOf(k, Live(k))' <= SizeOf(k, Live(k)) /\ SizeOf(k, Live(k))' \in Nat
    BY <1>1, <1>7, TakenCounts DEF Drops, CachesType
  <2> QED  BY <1>2, <1>3, <1>4, <2>1 DEF Within
<1>8. CASE Restart
  <2>1. (caches = EmptyCaches)'
    BY <1>8 DEF Restart, EmptyCaches
  <2>2. Cardinality(Live(k))' = 0 /\ SizeOf(k, Live(k))' = 0
    BY <2>1, EmptiedCounts DEF NothingLive
  <2> QED  BY <1>3, <2>2 DEF Within
<1> QED  BY <1>5, <1>6, <1>7, <1>8, StepShapes

\* A cautious host never loosens a configuration.
LEMMA ConfigStep ==
    ASSUME HostIsCautious, TypeInv, ConfigsKept, BootConfigured, [Next]_vars
    PROVE  ConfigsKept' /\ BootConfigured'
<1>1. CASE Apply
  <2>1. ASSUME NEW k \in Keys PROVE NoLooser(k, ConfigOf(k))'
    <3>1. PICK old, c, new : old = configs[k] /\ c = Registered[k] /\ new = ConfigureCacheIfMissing(old, c)
      OBVIOUS
    <3>2. old \in CacheConfig \cup {None} /\ c \in CacheConfig
      BY <3>1, TypeParts, CacheAssumption DEF TypedParts
    <3>3. configs'[k] = new /\ new \in CacheConfig /\ new # None
      BY <1>1, <3>1, <3>2, CompletedConfig, CacheAssumption DEF Apply
    <3>4. ConfigOf(k)' = new
      BY <3>3 DEF ConfigOf
    <3>5. c.factory # None => BootOf(k).factory # None
      BY <3>1 DEF HostIsCautious
    <3>6. CASE old = None
      <4>1. new = c /\ ConfigOf(k) = NoConfig
        BY <3>1, <3>6 DEF ConfigureCacheIfMissing, ConfigOf
      <4>2. NoLooser(k, NoConfig)
        BY <4>1 DEF ConfigsKept
      <4>3. ~(BootOf(k).maxInstances > 0) /\ ~(BootOf(k).maxSize > 0)
        BY <4>2 DEF NoLooser, LimitKept, NoConfig
      <4>4. NoLooser(k, new)
        BY <3>5, <4>1, <4>3 DEF NoLooser, LimitKept
      <4> QED  BY <3>4, <4>4 DEF NoLooser, BootOf, LimitKept
    <3>7. CASE old # None
      <4>1. /\ new.maxInstances = old.maxInstances /\ new.maxSize = old.maxSize
            /\ new.factory = IF old.factory = None THEN c.factory ELSE old.factory
        BY <3>1, <3>2, <3>7, CompletedConfig
      <4>2. NoLooser(k, old)
        BY <3>1, <3>7 DEF ConfigsKept, ConfigOf
      <4>3. NoLooser(k, new)
        BY <3>5, <4>1, <4>2 DEF NoLooser
      <4> QED  BY <3>4, <4>3 DEF NoLooser, BootOf, LimitKept
    <3> QED  BY <3>6, <3>7
  <2>2. BootConfigured'
    BY <1>1 DEF Apply, BootConfigured
  <2> QED  BY <2>1, <2>2 DEF ConfigsKept
<1>2. CASE Restart
  <2>1. ASSUME NEW k \in Keys PROVE NoLooser(k, ConfigOf(k))'
    <3>1. ConfigOf(k)' = BootOf(k)
      BY <1>2 DEF Restart, ConfigOf, BootOf
    <3>2. NoLooser(k, BootOf(k))
      BY BootLimits DEF NoLooser, LimitKept
    <3> QED  BY <3>1, <3>2 DEF NoLooser, BootOf, LimitKept
  <2> QED  BY <1>2, <2>1 DEF ConfigsKept, BootConfigured, Restart
<1>3. CASE Reconfigured
  <2>1. PICK j \in Keys, c \in {r[2] : r \in Reconfigs} : ConfigureCache(j, c)
    BY <1>3 DEF Reconfigured
  <2>2. /\ <<j, c>> \in Reconfigs /\ configs' = [configs EXCEPT ![j] = c]
        /\ boot = "up" /\ boot' = boot
    BY <2>1 DEF ConfigureCache, Serving, disk
  <2>3. c \in CacheConfig /\ c # None /\ NoLooser(j, c)
    <3>1. NoLooser(<<j, c>>[1], <<j, c>>[2])
      BY <2>2 DEF HostIsCautious
    <3> QED  BY <2>2, <3>1, CacheAssumption
  <2>4. ASSUME NEW k \in Keys PROVE NoLooser(k, ConfigOf(k))'
    <3>1. configs \in [Keys -> CacheConfig \cup {None}]
      BY TypeParts DEF TypedParts
    <3>2. CASE k = j
      <4>1. ConfigOf(k)' = c
        BY <2>2, <2>3, <3>1, <3>2 DEF ConfigOf
      <4> QED  BY <2>3, <3>2, <4>1 DEF NoLooser, BootOf, LimitKept
    <3>3. CASE k # j
      <4>1. ConfigOf(k)' = ConfigOf(k)
        BY <2>2, <3>1, <3>3 DEF ConfigOf
      <4> QED  BY <4>1 DEF ConfigsKept, NoLooser, BootOf, LimitKept
    <3> QED  BY <3>2, <3>3
  <2> QED  BY <2>2, <2>4 DEF ConfigsKept, BootConfigured
<1>4. CASE UNCHANGED configs /\ (boot' = "load" => boot = "load")
  BY <1>4 DEF ConfigsKept, BootConfigured, ConfigOf
<1>5. CASE Started /\ ~Apply
  <2>1. UNCHANGED configs /\ (boot' = "load" => boot = "load")
    BY <1>5 DEF Started, AddLoaded, Loaded, ConfigureConfigResolver, EnsureRegexpCache
  <2> QED  BY <1>4, <2>1
<1>6. CASE Asked
  BY <1>4, <1>6, AskedShape
<1>7. CASE Changed
  <2>1. UNCHANGED <<configs, boot>>
    BY <1>7 DEF Changed, Commit, RemoveInstance, UpdateRuntimeCacheInstance, RemoveCache, RemoveCacheFails
  <2> QED  BY <1>4, <2>1
<1>8. CASE UNCHANGED vars
  BY <1>4, <1>8 DEF vars
<1> QED  BY <1>1, <1>2, <1>3, <1>5, <1>6, <1>7, <1>8, NextSteps

\* Only what was constructed is on its way to the disk.
LEMMA LoadableStep ==
    ASSUME TypeInv, ConfigsKept, CommitsLoadable, RecordsLoadable, [Next]_vars
    PROVE  CommitsLoadable' /\ RecordsLoadable'
<1>1. op \in [Procs -> OpType] /\ OpsOK
  BY TypeParts DEF TypedParts
<1>2. ASSUME NEW p \in Procs, NEW o, Now(p, o),
             o.at = "commit" => BootOf(o.key).factory # None
      PROVE  CommitsLoadable'
  <2>1. ASSUME NEW q \in Procs, op'[q].at = "commit" PROVE BootOf(op'[q].key).factory # None
    <3>1. op'[q] = IF q = p THEN o ELSE op[q]
      BY <1>1, <1>2 DEF Now
    <3> QED  BY <1>2, <2>1, <3>1 DEF CommitsLoadable
  <2> QED  BY <2>1 DEF CommitsLoadable, BootOf
<1>3. ASSUME UNCHANGED op PROVE CommitsLoadable'
  BY <1>3 DEF CommitsLoadable, BootOf
<1>4. ASSUME storage' \subseteq storage PROVE RecordsLoadable'
  BY <1>4 DEF RecordsLoadable, BootOf
<1>5. CASE Started
  <2>1. UNCHANGED <<op, storage>>
    BY <1>5 DEF Started, AddLoaded, Loaded, ConfigureConfigResolver, Apply, EnsureRegexpCache
  <2> QED  BY <1>3, <1>4, <2>1
<1>6. CASE Restart
  <2>1. \A q \in Procs : op'[q].at = "idle"
    BY <1>6 DEF Restart, Idle
  <2> QED  BY <1>4, <1>6, <2>1 DEF CommitsLoadable, Restart
<1>7. CASE Reconfigured
  BY <1>3, <1>4, <1>7 DEF Reconfigured, ConfigureCache, disk
<1>8. CASE Asked
  <2>1. storage' = storage
    BY <1>8, AskedShape
  <2>2. ASSUME NEW s \in Slots, NEW p \in Procs, NEW body \in Bodies,
               UpdateCacheInstance(p, s[1], s[2], body)
        PROVE  CommitsLoadable'
    <3> DEFINE o == [at |-> "build", key |-> s[1], id |-> s[2], config |-> body, built |-> None]
    <3>1. Now(p, o) /\ o.at # "commit"
      BY <2>2 DEF UpdateCacheInstance
    <3> HIDE DEF o
    <3> QED  BY <1>2, <3>1
  <2>3. ASSUME NEW s \in Slots, NEW p \in Procs, DeleteInstance(p, s[1], s[2])
        PROVE  CommitsLoadable'
    <3> DEFINE o == [at |-> "remove", key |-> s[1], id |-> s[2], config |-> None, built |-> None]
    <3>1. Now(p, o) /\ o.at # "commit"
      BY <2>3 DEF DeleteInstance
    <3> HIDE DEF o
    <3> QED  BY <1>2, <3>1
  <2>4. ASSUME NEW p \in Procs, Build(p) PROVE CommitsLoadable'
    <3> DEFINE o == [op[p] EXCEPT !.at = "commit", !.built = op[p].config]
    <3>1. op[p] \in OpType /\ op[p].key \in Keys
      BY <1>1, <2>4 DEF Build, At, OpsOK, OpOK
    <3>2. CASE Now(p, Idle)
      BY <1>2, <3>2 DEF Idle
    <3>3. CASE ConfigOf(op[p].key).factory # None /\ Now(p, o)
      <4>1. o.key = op[p].key
        BY <3>1 DEF OpType
      <4>2. BootOf(op[p].key).factory # None
        BY <3>1, <3>3 DEF ConfigsKept, NoLooser
      <4> HIDE DEF o
      <4> QED  BY <1>2, <3>3, <4>1, <4>2
    <3> QED  BY <2>4, <3>2, <3>3 DEF Build
  <2> QED  BY <1>4, <1>8, <2>1, <2>2, <2>3, <2>4 DEF Asked, SaveInstance
<1>9. CASE Changed
  <2>1. ASSUME NEW p \in Procs, Commit(p) PROVE CommitsLoadable' /\ RecordsLoadable'
    <3>1. PICK k, id, c : k = op[p].key /\ id = op[p].id /\ c = op[p].config
      OBVIOUS
    <3>2. /\ Now(p, Idle)
          /\ \/ UNCHANGED <<caches, instances, sizeBytes, storage>>
             \/ \E rid \in RecordIds : Persists(k, id, c, rid)
      BY <2>1, <3>1, CommitShape
    <3>3. CommitsLoadable'
      BY <1>2, <3>2 DEF Idle
    <3>4. BootOf(k).factory # None
      BY <2>1, <3>1 DEF Commit, At, CommitsLoadable
    <3>5. ASSUME NEW rid \in RecordIds, Persists(k, id, c, rid) PROVE RecordsLoadable'
      <4> DEFINE new == [rid |-> rid, key |-> k, id |-> id, config |-> c]
      <4>1. storage' \subseteq storage \cup {new} /\ new.key = k
        BY <3>5 DEF Persists, Saved
      <4> HIDE DEF new
      <4>2. ASSUME NEW r \in storage' PROVE BootOf(r.key).factory # None
        BY <3>4, <4>1, <4>2 DEF RecordsLoadable
      <4> QED  BY <4>2 DEF RecordsLoadable, BootOf
    <3> QED  BY <1>4, <3>2, <3>3, <3>5
  <2>2. ASSUME NEW p \in Procs, RemoveInstance(p) PROVE CommitsLoadable' /\ RecordsLoadable'
    <3>1. Now(p, Idle) /\ storage' \subseteq storage
      BY <2>2 DEF RemoveInstance, Remove, WithoutRecords
    <3> QED  BY <1>2, <1>4, <3>1 DEF Idle
  <2>3. CASE ~\E p \in Procs : Commit(p) \/ RemoveInstance(p)
    <3>1. UNCHANGED op /\ storage' \subseteq storage
      BY <1>9, <2>3 DEF Changed, UpdateRuntimeCacheInstance, RemoveCache, RemoveCacheFails, WithoutRecords
    <3> QED  BY <1>3, <1>4, <3>1
  <2> QED  BY <2>1, <2>2, <2>3
<1>10. CASE UNCHANGED vars
  BY <1>3, <1>4, <1>10 DEF vars
<1> QED  BY <1>5, <1>6, <1>7, <1>8, <1>9, <1>10, NextSteps

\* The category of the regular-expression cache is empty when the cache is installed,
\* for nothing of it can be on disk: no limit forbids it.
LEMMA RegexpFits ==
    ASSUME HostIsCautious, TypeInv, DiskInv, RecordsLoadable, boot = "ensure"
    PROVE  WithinLimits(RegexpKey, FALSE, 0, 0)
<1>1. RegexpKey \in Keys
  BY CacheAssumption
<1>2. Live(RegexpKey) = {}
  <2>1. ASSUME NEW id \in Live(RegexpKey) PROVE FALSE
    <3>1. PICK r \in storage \ loading : r.key = RegexpKey
      BY <1>1, LiveIsStored DEF Starting
    <3> QED  BY <3>1 DEF RecordsLoadable, HostIsCautious
  <2> QED  BY <2>1
<1>3. Cardinality(Live(RegexpKey)) = 0 /\ SizeOf(RegexpKey, Live(RegexpKey)) = 0
  <2>1. Bytes({RegexpKey} \X Live(RegexpKey)) = {}
    BY <1>2 DEF Bytes
  <2> QED  BY <1>2, <2>1, FS_EmptySet DEF SizeOf
<1>4. ConfigOf(RegexpKey).maxInstances \in Nat /\ ConfigOf(RegexpKey).maxSize \in Nat
  BY <1>1, ConfigOfType DEF TypeInv, CacheConfig
<1> QED  BY <1>3, <1>4 DEF WithinLimits, CacheStats

\* The start stops neither at a record without a factory nor at a limit.
LEMMA StartGoesOn ==
    ASSUME HostIsCautious, TypeInv, DiskInv, StartInv, [Next]_vars
    PROVE  RestartSucceeds'
<1>1. ASSUME NEW r \in loading, AddLoaded(r) PROVE RestartSucceeds'
  <2>1. boot = "load" /\ configs = BootConfigs /\ AllStoredFit
    BY <1>1 DEF AddLoaded, StartInv, BootConfigured
  <2>2. r \in storage /\ r.key \in Keys
    BY <2>1, TypeParts DEF DiskInv, Agrees, LoadingOK, Failed, TypedParts, Record
  <2>3. ConfigOf(r.key).factory # None
    BY <2>1, <2>2 DEF StartInv, RecordsLoadable, ConfigOf, BootOf
  <2>4. WithinLimits(r.key, FALSE, 0, Size[r.config])
    BY <2>1, LoadFits
  <2> QED  BY <1>1, <2>1, <2>3, <2>4 DEF AddLoaded, RestartSucceeds
<1>2. CASE EnsureRegexpCache
  <2>1. WithinLimits(RegexpKey, FALSE, 0, 0)
    BY <1>2, RegexpFits DEF EnsureRegexpCache, StartInv
  <2> QED  BY <1>2, <2>1 DEF EnsureRegexpCache, RestartSucceeds
<1>3. CASE Loaded \/ ConfigureConfigResolver \/ Apply \/ Restart
  BY <1>3 DEF Loaded, ConfigureConfigResolver, Apply, Restart, RestartSucceeds
<1>4. CASE boot' = boot
  BY <1>4 DEF StartInv, RestartSucceeds
<1>5. CASE Asked \/ Reconfigured \/ Changed \/ UNCHANGED vars
  <2>1. boot' = boot
    <3>1. CASE Asked
      BY <3>1, AskedShape
    <3>2. CASE Reconfigured \/ Changed \/ UNCHANGED vars
      BY <3>2 DEF Reconfigured, ConfigureCache, disk, Changed, Commit, RemoveInstance,
                  UpdateRuntimeCacheInstance, RemoveCache, RemoveCacheFails, vars
    <3> QED  BY <1>5, <3>1, <3>2
  <2> QED  BY <1>4, <2>1
<1> QED  BY <1>1, <1>2, <1>3, <1>5, NextSteps DEF Started

\* What is on disk fits into the limits of the start, after every step.
LEMMA StoredFitStep ==
    ASSUME HostIsCautious, TypeInv, DiskInv, StartInv, [Next]_vars
    PROVE  AllStoredFit'
<1>1. CASE storage' = storage
  BY <1>1 DEF StartInv, AllStoredFit, StoredFits, StoredIds, StoredBytes, Within, BootOf
<1>2. CASE storage' # storage
  <2>1. Changed
    BY <1>2, NextSteps, AskedShape
       DEF Started, AddLoaded, Loaded, ConfigureConfigResolver, Apply, EnsureRegexpCache, Restart,
           Reconfigured, ConfigureCache, disk, vars
  <2>2. (boot = "up")'
    BY <2>1, CommitShape, RemoveInstanceShape
       DEF Changed, UpdateRuntimeCacheInstance, RemoveCache, RemoveCacheFails, Serving
  <2>3. TypeInv' /\ DiskInv' /\ AllLiveFit'
    BY TypeStep, DiskStep, LiveFitStep DEF StartInv
  <2> QED  BY <2>2, <2>3, ServedFitsAfter
<1> QED  BY <1>1, <1>2

\* What holds when the process starts for the first time.
LEMMA FirstStart == Init => StartInv
<1> SUFFICES ASSUME Init PROVE StartInv
  OBVIOUS
<1>1. /\ configs = BootConfigs /\ caches = EmptyCaches /\ boot = "load" /\ storage = {}
      /\ op = [p \in Procs |-> Idle]
  BY DEF Init, Booted
<1>2. ConfigsKept
  BY <1>1, BootLimits DEF ConfigsKept, ConfigOf, BootOf, NoLooser, LimitKept
<1>3. AllLiveFit
  BY <1>1, EmptyCounts, BootLimits DEF NothingLive, AllLiveFit, LiveFits, Within
<1>4. AllStoredFit
  <2>1. \A k \in Keys : StoredIds(k) = {} /\ StoredBytes(k) = {}
    BY <1>1 DEF StoredIds, StoredBytes
  <2> QED  BY <2>1, FS_EmptySet, BootLimits DEF AllStoredFit, StoredFits, Within
<1> QED  BY <1>1, <1>2, <1>3, <1>4 DEF StartInv, RestartSucceeds, BootConfigured, RecordsLoadable,
             CommitsLoadable, Idle

\* The disk is sound: it agrees with memory while the manager serves, and the next
\* start can load it, if the host never loosens the configuration it starts with.
THEOREM DiskStaysSound ==
    ASSUME HostIsCautious
    PROVE  Spec => []DiskIsSound
<1>1. TypeInv /\ DiskInv /\ StartInv /\ [Next]_vars => StartInv'
  <2> SUFFICES ASSUME TypeInv, DiskInv, StartInv, [Next]_vars PROVE StartInv'
    OBVIOUS
  <2>1. RestartSucceeds' /\ AllStoredFit'
    BY HostIsCautious, StartGoesOn, StoredFitStep
  <2>2. ConfigsKept' /\ BootConfigured'
    BY HostIsCautious, ConfigStep DEF StartInv
  <2>3. AllLiveFit' /\ CommitsLoadable' /\ RecordsLoadable'
    BY LiveFitStep, LoadableStep DEF StartInv
  <2> QED  BY <2>1, <2>2, <2>3 DEF StartInv
<1>2. Spec => []StartInv
  BY <1>1, FirstStart, DiskInvariant, PTL DEF Spec
<1>3. StartInv => RestartSucceeds
  BY DEF StartInv
<1>4. LiveMatchesDisk /\ RestartSucceeds => DiskIsSound
  BY DEF DiskIsSound
<1> QED  BY <1>2, <1>3, <1>4, MemoryMatchesDisk, PTL
=============================================================================
