---------------------------- MODULE RuntimeConfig ----------------------------
(***************************************************************************)
(* The runtime configuration: the table runtime_config, the migrations     *)
(* that seed it at every start, the cache in front of it, the endpoint     *)
(* that writes both, and the token bucket that follows the version number  *)
(* instead of reading the cache.                                           *)
(*                                                                         *)
(* A block under _lock is one step; set_config commits before it takes the *)
(* lock, and the bucket looks at the version before it takes its own. The  *)
(* two clocks are flags: fresh, while the cache is younger than its TTL,   *)
(* and cooling, in the window after a failed read. The guard-rail clamp is *)
(* a function of the value and is left out. A start runs the migrations    *)
(* one by one, each in a transaction; a process that is killed, or that    *)
(* cannot finish its start, loses everything but the table.                *)
(***************************************************************************)
EXTENDS Integers, Sequences

CONSTANTS
  Key,        \* the configuration keys
  QpsKey,     \* akshare_qps
  Value,      \* the values a key can have
  Default,    \* the env snapshot or the hard default
  Scripts,    \* the migrations in their order, each the set of keys it seeds
  Seed,       \* the value a key is seeded with
  Admin,      \* who calls the endpoint
  Thread,     \* the threads that call acquire
  MaxChanges, \* bound: changes of the table
  MaxOutages, \* bound: how often the database goes away
  MaxCrashes  \* bound: how often the process is killed

Unset == "unset"
Setting == Value \cup {Unset}

ASSUME ConfigAssumption ==
  /\ QpsKey \in Key /\ Default \in Value /\ Unset \notin Value
  /\ Scripts \in Seq(SUBSET Key) /\ Seed \in Value
  /\ MaxChanges \in Nat /\ MaxOutages \in Nat /\ MaxCrashes \in Nat

VARIABLES
  db,       \* the table, Unset where there is no row
  dbup,     \* the database answers
  chosen,   \* history: what an operator has last asked for, Unset for nothing
  booted,   \* how many migrations this process has run
  cache,    \* _cache
  fresh,    \* less than _CACHE_TTL since _cache_ts
  cooling,  \* before _db_fail_until
  version,  \* _version
  writing,  \* what set_config has committed and not cached yet, per admin
  looked,   \* the version a thread has read in _sync_qps, -1 for none
  seen,     \* the bucket's _version
  qps,      \* the bucket's _qps
  changes,  \* changes of the table so far
  outages,  \* outages so far
  crashes   \* kills so far

table == <<db, chosen, changes>>
config == <<cache, fresh, cooling, version>>
bucket == <<looked, seen, qps>>
life == <<booted, crashes>>
power == <<dbup, outages>>
vars == <<table, config, writing, bucket, life, power>>

NoWrite == [key |-> Unset, value |-> Unset]

\* What a process has in its memory when it starts.
Blank(c, w, l) ==
  /\ c = [k \in Key |-> Unset]
  /\ w = [a \in Admin |-> NoWrite]
  /\ l = [t \in Thread |-> -1]

\* The table may have been left by an older release.
Init ==
  /\ db \in [Key -> Setting] /\ chosen = [k \in Key |-> Unset] /\ dbup = TRUE
  /\ Blank(cache, writing, looked)
  /\ fresh = FALSE /\ cooling = FALSE /\ version = 0 /\ seen = -1 /\ qps = Default
  /\ booted = 0
  /\ changes = 0 /\ outages = 0 /\ crashes = 0

\* The process ends and is started again.
Restarted ==
  /\ booted' = 0
  /\ Blank(cache', writing', looked')
  /\ fresh' = FALSE /\ cooling' = FALSE /\ version' = 0 /\ seen' = -1 /\ qps' = Default

Running == booted = Len(Scripts)

\* Mutant: there is nothing to fall back to.
NoDefault(c, k) == c[k]

\* get, once the cache has been looked after.
Effective(c, k) == IF c[k] = Unset THEN Default ELSE c[k]

-----------------------------------------------------------------------------
(* The start: run_migrations.                                              *)

\* Mutant: the seeds replace what is in the table.
Replaced(k) == Seed

\* INSERT IGNORE
Inserted(k) == IF db[k] = Unset THEN Seed ELSE db[k]

\* The next script runs and is committed.
Migrate ==
  /\ ~Running /\ dbup
  /\ db' = [k \in Key |-> IF k \in Scripts[booted + 1] THEN Inserted(k) ELSE db[k]]
  /\ booted' = booted + 1
  /\ UNCHANGED <<chosen, changes, config, writing, bucket, crashes, power>>

\* A script fails: its transaction is rolled back and the start with it.
MigrateRaises ==
  /\ ~Running /\ ~dbup
  /\ Restarted
  /\ UNCHANGED <<table, crashes, power>>

Crash ==
  /\ crashes < MaxCrashes /\ crashes' = crashes + 1
  /\ Restarted
  /\ UNCHANGED <<table, power>>

-----------------------------------------------------------------------------
(* The module runtime_config.                                              *)

\* Mutant: the version stays behind.
LoadUnversioned ==
  IF dbup
  THEN /\ cache' = db /\ fresh' = TRUE
       /\ UNCHANGED <<cooling, version>>
  ELSE /\ cooling' = TRUE /\ fresh' = FALSE
       /\ UNCHANGED <<cache, version>>

\* _load_all_from_db
Load ==
  IF dbup
  THEN /\ cache' = db /\ fresh' = TRUE
       /\ version' = IF cache = db THEN version ELSE version + 1
       /\ UNCHANGED cooling
  ELSE /\ cooling' = TRUE /\ fresh' = FALSE
       /\ UNCHANGED <<cache, version>>

\* _ensure_fresh
EnsureFresh == IF fresh \/ cooling THEN UNCHANGED config ELSE Load

\* get by any reader
Get ==
  /\ Running
  /\ EnsureFresh
  /\ UNCHANGED <<table, writing, bucket, life, power>>

\* refresh, at the beginning of a tick
Refresh ==
  /\ Running
  /\ IF cooling THEN fresh' = FALSE /\ UNCHANGED <<cache, cooling, version>> ELSE Load
  /\ UNCHANGED <<table, writing, bucket, life, power>>

\* The row of k becomes v; Unset deletes it.
Put(k, v) ==
  /\ dbup
  /\ changes < MaxChanges /\ changes' = changes + 1
  /\ db' = [db EXCEPT ![k] = v]
  /\ chosen' = [chosen EXCEPT ![k] = v]

\* set_config up to its commit
Commit(a, k, v) ==
  /\ Running /\ writing[a] = NoWrite
  /\ Put(k, v)
  /\ writing' = [writing EXCEPT ![a] = [key |-> k, value |-> v]]
  /\ UNCHANGED <<config, bucket, life, power>>

\* Mutant: the cached value has no version of its own.
ApplyUnversioned(a) ==
  /\ writing[a] # NoWrite
  /\ cache' = [cache EXCEPT ![writing[a].key] = writing[a].value]
  /\ fresh' = TRUE
  /\ writing' = [writing EXCEPT ![a] = NoWrite]
  /\ UNCHANGED <<table, cooling, version, bucket, life, power>>

\* set_config after its commit
Apply(a) ==
  /\ writing[a] # NoWrite
  /\ cache' = [cache EXCEPT ![writing[a].key] = writing[a].value]
  /\ fresh' = TRUE
  /\ version' = version + 1
  /\ writing' = [writing EXCEPT ![a] = NoWrite]
  /\ UNCHANGED <<table, cooling, bucket, life, power>>

-----------------------------------------------------------------------------
(* _sync_qps of the token bucket.                                          *)

SyncLook(t) ==
  /\ Running /\ looked[t] = -1
  /\ version # seen
  /\ looked' = [looked EXCEPT ![t] = version]
  /\ UNCHANGED <<table, config, writing, seen, qps, life, power>>

\* Another thread has been faster.
SyncDone(t) ==
  /\ looked[t] # -1 /\ looked[t] = seen
  /\ looked' = [looked EXCEPT ![t] = -1]
  /\ UNCHANGED <<table, config, writing, seen, qps, life, power>>

\* get_float may itself load the table and move the version on.
SyncApply(t) ==
  /\ looked[t] # -1 /\ looked[t] # seen
  /\ EnsureFresh
  /\ qps' = Effective(cache', QpsKey)
  /\ seen' = looked[t]
  /\ looked' = [looked EXCEPT ![t] = -1]
  /\ UNCHANGED <<table, writing, life, power>>

-----------------------------------------------------------------------------
(* The operators, the database and the clocks.                             *)

\* The table is changed by hand.
Edit(k, v) ==
  /\ Put(k, v)
  /\ UNCHANGED <<config, writing, bucket, life, power>>

Outage ==
  /\ dbup /\ outages < MaxOutages
  /\ dbup' = FALSE /\ outages' = outages + 1
  /\ UNCHANGED <<table, config, writing, bucket, life>>

Return ==
  /\ ~dbup /\ dbup' = TRUE
  /\ UNCHANGED <<outages, table, config, writing, bucket, life>>

CacheExpires ==
  /\ fresh /\ fresh' = FALSE
  /\ UNCHANGED <<cache, cooling, version, table, writing, bucket, life, power>>

CooldownEnds ==
  /\ cooling /\ cooling' = FALSE
  /\ UNCHANGED <<cache, fresh, version, table, writing, bucket, life, power>>

Sync(t) == SyncLook(t) \/ SyncDone(t) \/ SyncApply(t)

Next ==
  \/ Migrate \/ MigrateRaises \/ Crash
  \/ Get \/ Refresh
  \/ \E a \in Admin : Apply(a) \/ \E k \in Key, v \in Value : Commit(a, k, v)
  \/ \E t \in Thread : Sync(t)
  \/ \E k \in Key, v \in Setting : Edit(k, v)
  \/ Outage \/ Return \/ CacheExpires \/ CooldownEnds

Spec == Init /\ [][Next]_vars

\* A start goes on and is tried again, ticks and outside calls go on, time
\* passes, and the database comes back.
FairSpec ==
  /\ Spec
  /\ WF_vars(Migrate)
  /\ SF_vars(Refresh /\ ~cooling /\ dbup) /\ \A a \in Admin : WF_vars(Apply(a))
  /\ \A t \in Thread : WF_vars(Sync(t))
  /\ WF_vars(Return) /\ WF_vars(CooldownEnds)

-----------------------------------------------------------------------------
TableType ==
  /\ db \in [Key -> Setting] /\ chosen \in [Key -> Setting]
  /\ booted \in 0..Len(Scripts)
  /\ changes \in Nat /\ outages \in Nat /\ crashes \in Nat

DataType ==
  /\ TableType
  /\ cache \in [Key -> Setting]
  /\ version \in Nat
  /\ writing \in [Admin -> [key : Key, value : Value] \cup {NoWrite}]
  /\ looked \in [Thread -> Nat \cup {-1}]
  /\ seen \in Nat \cup {-1} /\ seen <= version
  /\ qps \in Value

FlagType == dbup \in BOOLEAN /\ fresh \in BOOLEAN /\ cooling \in BOOLEAN

TypeOK == DataType /\ FlagType

\* The bucket believes to be up to date only if it is: whoever changes the
\* cache moves the version on, and a change between the look at the version
\* and the read of the value is seen at the next call. Comparing the version
\* is all that acquire does (docstring of _RateLimiter).
LimiterInStep == seen = version => qps = Effective(cache, QpsKey)

\* Starts, however often they are broken off and tried again, never undo what
\* an operator has set: the seeds only fill rows that are missing (the comment
\* at the head of V5__runtime_config.sql).
SettingsSurvive == \A k \in Key : chosen[k] # Unset => db[k] = chosen[k]

\* When the table is no longer changed, the bucket comes to run at its value
\* for good, after restarts, outages, late writers and threads that have
\* looked too early.
LimiterConverges == <>[](qps = Effective(db, QpsKey))
=============================================================================
