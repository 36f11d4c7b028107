---------------------------- MODULE CacheManager ----------------------------
(***************************************************************************)
(* The registry of shared instances (cache/manager.go): HTTP clients, LDAP *)
(* pools, route tables, storages.  A category (key) maps instance ids to   *)
(* live values.  A persisted instance is rebuilt from the configuration on *)
(* disk when the process starts; a runtime instance is gone with it.       *)
(* The instance routes of rest.api.go and the start of a journey manager   *)
(* (journey.go) are its users.                                             *)
(*                                                                         *)
(* Reads and the swap of an instance are critical sections.  Constructing  *)
(* a value is not: an update reads the factory, builds, and only then      *)
(* takes the lock.                                                         *)
(***************************************************************************)
EXTENDS Integers, FiniteSets

CONSTANTS
    Keys,          \* categories
    Ids,           \* instance ids
    Slots,         \* the <<key, id>> that clients and the host use
    Bodies,        \* constructor configurations a client may send
    Size,          \* the encoded length of each of them
    Estimates,     \* sizes the host gives runtime instances
    Procs,         \* requests and host goroutines
    BootConfigs,   \* ManagerConfig.Caches, None for a category left out
    Registered,    \* what the instance registry adds to each category
    Reconfigs,     \* configurations the host sets while the process runs
    Default,       \* DefaultInstanceID
    RegexpKey,     \* RegexpCacheKey, a category of runtime instances
    RecordIds,     \* bound: identities of records on disk
    Faults,        \* what may fail: "disk", "construct"
    MaxStripped,   \* bound: failed removals of a whole category
    None

(***************************************************************************)
(* A CacheConfig: its factory (None if there is none), the two limits (0:  *)
(* no limit) and UserConfigurable.  Description and schema are left out.   *)
(***************************************************************************)
CacheConfig == [factory: {None, "built-in", "replaced"}, maxInstances: Nat,
                maxSize: Nat, user: BOOLEAN]
NoConfig == [factory |-> None, maxInstances |-> 0, maxSize |-> 0, user |-> FALSE]

(***************************************************************************)
(* An instance remembers what it was built from, its size and the record   *)
(* that persists it.  built and config differ only if the manager mixes    *)
(* two updates up.                                                         *)
(***************************************************************************)
Instance == [built: Bodies \cup {None}, size: Nat, record: RecordIds \cup {None},
             config: Bodies \cup {None}]
Record == [rid: RecordIds, key: Keys, id: Ids, config: Bodies]

ASSUME CacheAssumption ==
    /\ BootConfigs \in [Keys -> CacheConfig \cup {None}]
    /\ Registered \in [Keys -> CacheConfig]
    /\ Reconfigs \subseteq Keys \X CacheConfig
    /\ Size \in [Bodies -> Nat] /\ Estimates \subseteq Nat
    /\ Slots \subseteq Keys \X Ids
    /\ Default \in Ids /\ RegexpKey \in Keys
    /\ None \notin Bodies \cup RecordIds \cup CacheConfig \cup Instance

VARIABLES
    configs,    \* Manager.configs
    caches,     \* Manager.caches
    instances,  \* Manager.instances
    sizeBytes,  \* Manager.sizeBytes
    storage,    \* the records on disk
    boot,       \* how far the start of the process has come
    loading,    \* records the start has still to construct
    op,         \* the operation of each process
    drift       \* history: what failed removals took off the counters

vars == <<configs, caches, instances, sizeBytes, storage, boot, loading, op, drift>>
disk == <<storage, boot, loading>>

Idle == [at |-> "idle", key |-> None, id |-> None, config |-> None, built |-> None]

TypeOK ==
    /\ configs \in [Keys -> CacheConfig \cup {None}]
    /\ caches \in [Keys -> [Ids -> Instance \cup {None}]]
    /\ instances \in Int /\ sizeBytes \in Int
    /\ storage \subseteq Record
    /\ boot \in {"load", "resolver", "apply", "ensure", "up", "no factory",
                 "limits", "broken"}
    /\ loading \subseteq Record
    /\ op \in [Procs -> [at: {"idle", "build", "commit", "remove"},
                         key: Keys \cup {None}, id: Ids \cup {None},
                         config: Bodies \cup {None}, built: Bodies \cup {None}]]
    /\ drift \in [count: Nat, size: Nat, times: Nat]

-----------------------------------------------------------------------------
(***************************************************************************)
(* The sections under the lock.                                            *)
(***************************************************************************)
Live(k) == {id \in Ids : caches[k][id] # None}
ConfigOf(k) == IF configs[k] = None THEN NoConfig ELSE configs[k]

\* The bytes that instances are charged for, one by one: counting them adds their
\* sizes up.
Bytes(slots) == UNION {{s} \X (1 .. caches[s[1]][s[2]].size) : s \in slots}
SizeOf(k, ids) == Cardinality(Bytes({k} \X ids))

\* cacheStatsLocked
CacheStats(k) == [instances |-> Cardinality(Live(k)), size |-> SizeOf(k, Live(k))]

\* Faulty WithinLimits: the instance that is added is not counted.
WithinOldLimits(k, replacing, oldSize, newSize) ==
    /\ replacing \/ ConfigOf(k).maxInstances = 0
                 \/ CacheStats(k).instances <= ConfigOf(k).maxInstances
    /\ ConfigOf(k).maxSize = 0
         \/ CacheStats(k).size - oldSize + newSize <= ConfigOf(k).maxSize

\* checkLimits
WithinLimits(k, replacing, oldSize, newSize) ==
    /\ replacing \/ ConfigOf(k).maxInstances = 0
                 \/ CacheStats(k).instances + 1 <= ConfigOf(k).maxInstances
    /\ ConfigOf(k).maxSize = 0
         \/ CacheStats(k).size - oldSize + newSize <= ConfigOf(k).maxSize

OldSize(k, id) == IF id \in Live(k) THEN caches[k][id].size ELSE 0
OldRecord(k, id) == IF id \in Live(k) THEN caches[k][id].record ELSE None

\* Faulty Store: a replacement is counted as a new instance.
StoreCounted(k, id, entry, replacing, oldSize) ==
    /\ caches' = [caches EXCEPT ![k][id] = entry]
    /\ instances' = instances + 1
    /\ sizeBytes' = sizeBytes + entry.size - oldSize

\* store
Store(k, id, entry, replacing, oldSize) ==
    /\ caches' = [caches EXCEPT ![k][id] = entry]
    /\ instances' = IF replacing THEN instances ELSE instances + 1
    /\ sizeBytes' = sizeBytes + entry.size - oldSize

\* nstore gives a record without identity a fresh one.
FreshRecord ==
    CHOOSE rid \in RecordIds :
        /\ \A r \in storage : r.rid # rid
        /\ \A k \in Keys, id \in Ids : OldRecord(k, id) # rid
HasFreshRecord ==
    \E rid \in RecordIds :
        /\ \A r \in storage : r.rid # rid
        /\ \A k \in Keys, id \in Ids : OldRecord(k, id) # rid

\* Save replaces the record with the same identity.
Saved(record) == {r \in storage : r.rid # record.rid} \cup {record}

\* deleteRecord; a record that is not there counts as deleted.
WithoutRecords(rids) == {r \in storage : r.rid \notin rids}

Serving == boot = "up"
At(p, label) == op[p].at = label
Now(p, o) == op' = [op EXCEPT ![p] = o]

-----------------------------------------------------------------------------
(***************************************************************************)
(* The start: NewManager constructs every record on disk, in the order the *)
(* storage lists them, and gives up at the first one it cannot; then the   *)
(* journey manager sets its resolver, applies the instance registry and    *)
(* installs the regular-expression cache.                                  *)
(***************************************************************************)
EmptyCaches == [k \in Keys |-> [id \in Ids |-> None]]

Booted ==
    /\ configs = BootConfigs
    /\ caches = EmptyCaches
    /\ instances = 0 /\ sizeBytes = 0
    /\ boot = "load"
    /\ op = [p \in Procs |-> Idle]
    /\ drift = [count |-> 0, size |-> 0, times |-> 0]

Init == Booted /\ storage = {} /\ loading = {}

\* One round of the loop: factory, resolver, constructor, limits.
AddLoaded(r) ==
    /\ boot = "load" /\ r \in loading
    /\ loading' = loading \ {r}
    /\ \/ /\ ConfigOf(r.key).factory = None
          /\ boot' = "no factory"
          /\ UNCHANGED <<caches, instances, sizeBytes>>
       \/ /\ ConfigOf(r.key).factory # None /\ "construct" \in Faults
          /\ boot' = "broken"
          /\ UNCHANGED <<caches, instances, sizeBytes>>
       \/ /\ ConfigOf(r.key).factory # None
          /\ ~WithinLimits(r.key, FALSE, 0, Size[r.config])
          /\ boot' = "limits"
          /\ UNCHANGED <<caches, instances, sizeBytes>>
       \/ /\ ConfigOf(r.key).factory # None
          /\ WithinLimits(r.key, FALSE, 0, Size[r.config])
          /\ Store(r.key, r.id, [built |-> r.config, size |-> Size[r.config],
                                 record |-> r.rid, config |-> r.config], FALSE, 0)
          /\ UNCHANGED boot
    /\ UNCHANGED <<configs, storage, op, drift>>

Loaded ==
    /\ boot = "load" /\ loading = {}
    /\ boot' = "resolver"
    /\ UNCHANGED <<configs, caches, instances, sizeBytes, storage, loading, op, drift>>

\* The resolver of the journey manager replaces the one the records were
\* loaded with.
ConfigureConfigResolver ==
    /\ boot = "resolver"
    /\ boot' = "apply"
    /\ UNCHANGED <<configs, caches, instances, sizeBytes, storage, loading, op, drift>>

\* A configuration that is there keeps its limits and gets what it lacks.
ConfigureCacheIfMissing(existing, c) ==
    IF existing = None THEN c
    ELSE [existing EXCEPT !.factory = IF @ = None THEN c.factory ELSE @,
                          !.user = @ \/ c.user]

Apply ==
    /\ boot = "apply"
    /\ configs' = [k \in Keys |-> ConfigureCacheIfMissing(configs[k], Registered[k])]
    /\ boot' = "ensure"
    /\ UNCHANGED <<caches, instances, sizeBytes, storage, loading, op, drift>>

\* Faulty Runtime: an estimate of zero means unknown.
RuntimeUnknown(size) ==
    [built |-> None, size |-> IF size = 0 THEN -1 ELSE size, record |-> None,
     config |-> None]

\* What UpdateRuntimeCacheInstance stores.
Runtime(size) == [built |-> None, size |-> size, record |-> None, config |-> None]

\* The cache is installed if it is not there; a limit that forbids it ends the start.
EnsureRegexpCache ==
    /\ boot = "ensure"
    /\ IF Default \in Live(RegexpKey)
       THEN boot' = "up" /\ UNCHANGED <<caches, instances, sizeBytes>>
       ELSE IF WithinLimits(RegexpKey, FALSE, 0, 0)
       THEN boot' = "up" /\ Store(RegexpKey, Default, Runtime(0), FALSE, 0)
       ELSE boot' = "limits" /\ UNCHANGED <<caches, instances, sizeBytes>>
    /\ UNCHANGED <<configs, storage, loading, op, drift>>

\* The process is killed and started again, at any time.
Restart ==
    /\ boot # "load"
    /\ configs' = BootConfigs
    /\ caches' = EmptyCaches
    /\ instances' = 0 /\ sizeBytes' = 0
    /\ boot' = "load" /\ loading' = storage
    /\ op' = [p \in Procs |-> Idle]
    /\ drift' = [count |-> 0, size |-> 0, times |-> 0]
    /\ UNCHANGED storage

-----------------------------------------------------------------------------
(***************************************************************************)
(* Updates.                                                                *)
(***************************************************************************)

\* ConfigureCache replaces a configuration; live instances are not looked at.
ConfigureCache(k, c) ==
    /\ Serving /\ <<k, c>> \in Reconfigs
    /\ configs' = [configs EXCEPT ![k] = c]
    /\ UNCHANGED <<caches, instances, sizeBytes, disk, op, drift>>

\* A goroutine of the host calls UpdateCacheInstance.
UpdateCacheInstance(p, k, id, body) ==
    /\ Serving /\ At(p, "idle")
    /\ Now(p, [at |-> "build", key |-> k, id |-> id, config |-> body, built |-> None])
    /\ UNCHANGED <<configs, caches, instances, sizeBytes, disk, drift>>

\* saveInstance does if the category is open to users, which only one with a
\* factory is.
SaveInstance(p, k, id, body) ==
    /\ ConfigOf(k).factory # None /\ ConfigOf(k).user
    /\ UpdateCacheInstance(p, k, id, body)

\* Faulty Build: the record is written before the lock is taken.
BuildAndSave(p) ==
    /\ At(p, "build")
    /\ Now(p, [op[p] EXCEPT !.at = "commit", !.built = op[p].config])
    /\ HasFreshRecord
    /\ storage' = IF OldRecord(op[p].key, op[p].id) = None THEN storage
                  ELSE Saved([rid |-> OldRecord(op[p].key, op[p].id), key |-> op[p].key,
                              id |-> op[p].id, config |-> op[p].config])
    /\ UNCHANGED <<configs, caches, instances, sizeBytes, boot, loading, drift>>

\* UpdateCacheInstance up to the lock: resolve and construct.
Build(p) ==
    /\ At(p, "build")
    /\ \/ /\ ConfigOf(op[p].key).factory # None
          /\ Now(p, [op[p] EXCEPT !.at = "commit", !.built = op[p].config])
       \/ /\ ConfigOf(op[p].key).factory = None \/ "construct" \in Faults
          /\ Now(p, Idle)
    /\ UNCHANGED <<configs, caches, instances, sizeBytes, disk, drift>>

\* The rest of UpdateCacheInstance, under the lock: limits, record, swap.
Commit(p) ==
    LET k == op[p].key
        id == op[p].id
        replacing == id \in Live(k)
        size == Size[op[p].config]
        rid == IF OldRecord(k, id) = None THEN FreshRecord ELSE OldRecord(k, id)
    IN  /\ At(p, "commit")
        /\ OldRecord(k, id) # None \/ HasFreshRecord
        /\ Now(p, Idle)
        /\ \/ /\ WithinLimits(k, replacing, OldSize(k, id), size)
              /\ storage' = Saved([rid |-> rid, key |-> k, id |-> id,
                                   config |-> op[p].config])
              /\ Store(k, id, [built |-> op[p].built, size |-> size, record |-> rid,
                               config |-> op[p].config], replacing, OldSize(k, id))
           \/ /\ ~WithinLimits(k, replacing, OldSize(k, id), size) \/ "disk" \in Faults
              /\ UNCHANGED <<caches, instances, sizeBytes, storage>>
        /\ UNCHANGED <<configs, boot, loading, drift>>

\* UpdateRuntimeCacheInstance: the record of what it replaces is deleted; a
\* limit or a failing deletion leaves all as it was.
UpdateRuntimeCacheInstance(k, id, size) ==
    /\ Serving
    /\ WithinLimits(k, id \in Live(k), OldSize(k, id), size)
    /\ storage' = WithoutRecords({OldRecord(k, id)})
    /\ Store(k, id, Runtime(size), id \in Live(k), OldSize(k, id))
    /\ UNCHANGED <<configs, boot, loading, op, drift>>

-----------------------------------------------------------------------------
(***************************************************************************)
(* Removals.                                                               *)
(***************************************************************************)

\* RemoveCacheInstance; if the deletion fails nothing happens.
Remove(k, id) ==
    /\ id \in Live(k)
    /\ storage' = WithoutRecords({OldRecord(k, id)})
    /\ caches' = [caches EXCEPT ![k][id] = None]
    /\ instances' = instances - 1
    /\ sizeBytes' = sizeBytes - OldSize(k, id)

\* The instances the routes list and read: the persisted ones of the categories
\* that are open to users.
Listed(k, id) ==
    /\ OldRecord(k, id) # None
    /\ ConfigOf(k).factory # None /\ ConfigOf(k).user

\* deleteInstance looks whether the instance is one of those, and removes it
\* in a step of its own.
DeleteInstance(p, k, id) ==
    /\ Serving /\ At(p, "idle")
    /\ Listed(k, id)
    /\ Now(p, [at |-> "remove", key |-> k, id |-> id, config |-> None, built |-> None])
    /\ UNCHANGED <<configs, caches, instances, sizeBytes, disk, drift>>

RemoveInstance(p) ==
    /\ At(p, "remove")
    /\ Now(p, Idle)
    /\ \/ Remove(op[p].key, op[p].id)
       \/ /\ op[p].id \notin Live(op[p].key) \/ "disk" \in Faults
          /\ UNCHANGED <<caches, instances, sizeBytes, storage>>
    /\ UNCHANGED <<configs, boot, loading, drift>>

RecordsOf(k, ids) == {OldRecord(k, id) : id \in ids}

\* RemoveCache goes through the instances in any order.
RemoveCache(k) ==
    /\ Serving /\ Live(k) # {}
    /\ storage' = WithoutRecords(RecordsOf(k, Live(k)))
    /\ caches' = [caches EXCEPT ![k] = [id \in Ids |-> None]]
    /\ instances' = instances - Cardinality(Live(k))
    /\ sizeBytes' = sizeBytes - SizeOf(k, Live(k))
    /\ UNCHANGED <<configs, boot, loading, op, drift>>

\* The deletion of a record fails after the instances in done: their records
\* are gone and they are off the counters, but all of them stay live.
RemoveCacheFails(k, done) ==
    /\ Serving /\ "disk" \in Faults /\ drift.times < MaxStripped
    /\ done \subseteq Live(k)
    /\ \E id \in Live(k) \ done : OldRecord(k, id) # None
    /\ storage' = WithoutRecords(RecordsOf(k, done))
    /\ instances' = instances - Cardinality(done)
    /\ sizeBytes' = sizeBytes - SizeOf(k, done)
    /\ drift' = [count |-> drift.count + Cardinality(done),
                 size |-> drift.size + SizeOf(k, done), times |-> drift.times + 1]
    /\ UNCHANGED <<configs, caches, boot, loading, op>>

Next ==
    \/ \E r \in loading : AddLoaded(r)
    \/ Loaded \/ ConfigureConfigResolver \/ Apply \/ EnsureRegexpCache \/ Restart
    \/ \E s \in Slots :
         \/ \E p \in Procs :
              \/ \E body \in Bodies : UpdateCacheInstance(p, s[1], s[2], body)
                                    \/ SaveInstance(p, s[1], s[2], body)
              \/ DeleteInstance(p, s[1], s[2])
         \/ \E size \in Estimates : UpdateRuntimeCacheInstance(s[1], s[2], size)
    \/ \E p \in Procs : Build(p) \/ Commit(p) \/ RemoveInstance(p)
    \/ \E k \in Keys :
         \/ \E c \in {r[2] : r \in Reconfigs} : ConfigureCache(k, c)
         \/ RemoveCache(k)
         \/ \E done \in SUBSET Ids : RemoveCacheFails(k, done)

Spec == Init /\ [][Next]_vars

-----------------------------------------------------------------------------
(***************************************************************************)
(* Properties.                                                             *)
(***************************************************************************)

\* While the manager serves, memory and disk tell the same story, whatever
\* updates, replacements and removals were interleaved: each record is the
\* record of a live instance that was built from the configuration in it, so
\* no instance has two records and nothing removed comes back with the next
\* start.  A persisted instance has its record, unless a removal of its
\* category failed half way.
LiveMatchesDisk ==
    Serving =>
        /\ \A r \in storage :
             /\ r.id \in Live(r.key)
             /\ caches[r.key][r.id].record = r.rid
             /\ caches[r.key][r.id].config = r.config
        /\ \A k \in Keys : \A id \in Live(k) :
             LET entry == caches[k][id]
             IN  entry.record # None =>
                   /\ entry.built = entry.config
                   /\ drift.times = 0 => \E r \in storage : r.rid = entry.record

LiveSlots == {s \in Keys \X Ids : s[2] \in Live(s[1])}

\* Stats reports what is live: the running totals, which every operation
\* adjusts by a difference, equal the sums over all categories, up to what
\* failed removals of a category took off them for good.
CountersExact ==
    /\ instances + drift.count = Cardinality(LiveSlots)
    /\ sizeBytes + drift.size = Cardinality(Bytes(LiveSlots))

(***************************************************************************)
(* A host is cautious if it does not loosen the configuration it starts    *)
(* with: no category gets a factory that it does not have at the start, no *)
(* limit is raised or dropped, and the category of the regular-expression  *)
(* cache is no category of persisted instances.                            *)
(***************************************************************************)
BootOf(k) == IF BootConfigs[k] = None THEN NoConfig ELSE BootConfigs[k]

LimitKept(limit, atBoot) == atBoot > 0 => limit > 0 /\ limit <= atBoot

NoLooser(k, c) ==
    /\ c.factory # None => BootOf(k).factory # None
    /\ LimitKept(c.maxInstances, BootOf(k).maxInstances)
    /\ LimitKept(c.maxSize, BootOf(k).maxSize)

HostIsCautious ==
    /\ \A r \in Reconfigs : NoLooser(r[1], r[2])
    /\ \A k \in Keys : Registered[k].factory # None => BootOf(k).factory # None
    /\ BootOf(RegexpKey).factory = None

\* What was accepted while the process ran can be loaded again: the start never
\* stops at a record without a factory or above the limits, as long as the host
\* is cautious.
RestartSucceeds == boot \notin {"no factory", "limits"}

\* The disk is sound: it agrees with memory while the manager serves, and the next
\* start can load it.
DiskIsSound == LiveMatchesDisk /\ RestartSucceeds

\* No step takes a category past the limits in force: not a replacement, not
\* two updates that were both built before either was stored, not a load.
LimitsHold ==
    [][\A k \in Keys :
        LET max == ConfigOf(k)
        IN  /\ Cardinality(Live(k)') > Cardinality(Live(k)) /\ max.maxInstances > 0
                => Cardinality(Live(k)') <= max.maxInstances
            /\ CacheStats(k)'.size > CacheStats(k).size /\ max.maxSize > 0
                => CacheStats(k)'.size <= max.maxSize]_vars
=============================================================================
