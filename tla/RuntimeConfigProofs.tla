------------------------ MODULE RuntimeConfigProofs ------------------------
(***************************************************************************)
(* The token bucket never believes to be up to date with an outdated QPS,  *)
(* for any number of keys, values, scripts, writers and threads, and no    *)
(* start undoes what an operator has set. What makes the first inductive   *)
(* is that no thread has looked at a version of the future.                *)
(***************************************************************************)
EXTENDS RuntimeConfig, TLAPS

LookedBack == \A t \in Thread : looked[t] <= version

IInv == DataType /\ LookedBack /\ LimiterInStep

\* The cache only changes together with the version, which never goes back.
Versioned ==
  /\ cache' \in [Key -> Setting]
  /\ version' \in Nat /\ version' >= version
  /\ version' = version => cache' = cache

LEMMA LoadVersioned == DataType /\ Load => Versioned
<1> SUFFICES ASSUME DataType, Load PROVE Versioned
  OBVIOUS
<1>1. db \in [Key -> Setting]
  BY DEF DataType, TableType
<1>2. CASE dbup
  BY <1>1, <1>2 DEF DataType, Load, Versioned
<1>3. CASE ~dbup
  BY <1>3 DEF DataType, Load, Versioned
<1> QED BY <1>2, <1>3

LEMMA EnsureFreshVersioned == DataType /\ EnsureFresh => Versioned
BY LoadVersioned DEF DataType, EnsureFresh, Versioned, config

LEMMA EffectiveType ==
  ASSUME NEW c \in [Key -> Setting], NEW k \in Key
  PROVE  Effective(c, k) \in Value
BY ConfigAssumption DEF Effective, Setting

THEOREM InitIInv == Init => IInv
<1> SUFFICES ASSUME Init PROVE IInv
  OBVIOUS
<1>1. TableType
  BY ConfigAssumption DEF Init, TableType, Setting
<1>2. DataType
  BY <1>1, ConfigAssumption DEF Init, Blank, DataType, Setting
<1>3. LookedBack /\ LimiterInStep
  BY DEF Init, Blank, LookedBack, LimiterInStep
<1> QED BY <1>2, <1>3 DEF IInv

\* A process that starts knows nothing, so its bucket is out of date.
LEMMA RestartedIInv ==
  ASSUME IInv, Restarted, TableType'
  PROVE  IInv'
<1>1. DataType'
  BY ConfigAssumption DEF Restarted, Blank, DataType, Setting
<1>2. LookedBack' /\ LimiterInStep'
  BY DEF Restarted, Blank, LookedBack, LimiterInStep
<1> QED BY <1>1, <1>2 DEF IInv

\* A step that leaves the bucket alone and changes the cache with the version.
LEMMA BucketUntouched ==
  ASSUME IInv, Versioned, UNCHANGED bucket,
         TableType',
         writing' \in [Admin -> [key : Key, value : Value] \cup {NoWrite}]
  PROVE  IInv'
<1>1. DataType'
  BY DEF IInv, DataType, Versioned, bucket
<1>2. LookedBack'
  BY DEF IInv, DataType, LookedBack, Versioned, bucket
<1>3. LimiterInStep'
  BY DEF IInv, DataType, LimiterInStep, Effective, Versioned, bucket
<1> QED BY <1>1, <1>2, <1>3 DEF IInv

LEMMA SyncKeepsIInv ==
  ASSUME IInv, NEW t \in Thread, Sync(t), TableType'
  PROVE  IInv'
<1> USE DEF IInv
<1>1. CASE SyncLook(t)
  BY <1>1 DEF SyncLook, DataType, LookedBack, LimiterInStep, Effective, config
<1>2. CASE SyncDone(t)
  BY <1>2 DEF SyncDone, DataType, LookedBack, LimiterInStep, Effective, config
<1>3. CASE SyncApply(t)
  <2>1. Versioned
    BY <1>3, EnsureFreshVersioned DEF SyncApply
  <2>2. qps' \in Value
    BY <1>3, <2>1, EffectiveType, ConfigAssumption DEF SyncApply, Versioned
  <2>3. seen' = looked[t] /\ looked[t] \in Nat /\ looked[t] <= version
    BY <1>3 DEF SyncApply, DataType, LookedBack
  <2>4. DataType'
    BY <1>3, <2>1, <2>2, <2>3 DEF SyncApply, DataType, Versioned
  <2>5. LookedBack'
    BY <1>3, <2>1 DEF SyncApply, DataType, LookedBack, Versioned
  <2>6. LimiterInStep'
    BY <1>3 DEF SyncApply, LimiterInStep, Effective
  <2> QED BY <2>4, <2>5, <2>6
<1> QED BY <1>1, <1>2, <1>3 DEF Sync

\* The table and the counters, whichever step is taken.
LEMMA TableTyped ==
  ASSUME TableType, [Next]_vars
  PROVE  TableType'
<1> USE ConfigAssumption DEF TableType
<1>1. ASSUME NEW k \in Key, NEW v \in Setting, Put(k, v), UNCHANGED <<life, outages>>
      PROVE  TableType'
  BY <1>1 DEF Put, life
<1>2. CASE Migrate
  <2>1. db' \in [Key -> Setting]
    BY <1>2 DEF Migrate, Inserted, Setting
  <2>2. booted' \in 0..Len(Scripts)
    <3>1. Len(Scripts) \in Nat
      OBVIOUS
    <3> QED BY <1>2, <3>1 DEF Migrate, Running
  <2> QED BY <1>2, <2>1, <2>2 DEF Migrate, power
<1>3. CASE MigrateRaises \/ Crash
  <2>1. Len(Scripts) \in Nat
    OBVIOUS
  <2> QED BY <1>3, <2>1 DEF MigrateRaises, Crash, Restarted, table, power
<1>4. ASSUME NEW a \in Admin, NEW k \in Key, NEW v \in Value, Commit(a, k, v)
      PROVE  TableType'
  BY <1>1, <1>4 DEF Commit, life, power, Setting
<1>5. ASSUME NEW k \in Key, NEW v \in Setting, Edit(k, v) PROVE TableType'
  BY <1>1, <1>5 DEF Edit, life, power
<1>6. CASE Get \/ Refresh
  BY <1>6 DEF Get, Refresh, table, life, power
<1>7. ASSUME NEW a \in Admin, Apply(a) PROVE TableType'
  BY <1>7 DEF Apply, table, life, power
<1>8. ASSUME NEW t \in Thread, Sync(t) PROVE TableType'
  BY <1>8 DEF Sync, SyncLook, SyncDone, SyncApply, table, life, power
<1>9. CASE Outage \/ Return
  BY <1>9 DEF Outage, Return, table, life
<1>10. CASE CacheExpires \/ CooldownEnds \/ UNCHANGED vars
  BY <1>10 DEF CacheExpires, CooldownEnds, vars, table, life, power
<1> QED BY <1>2, <1>3, <1>4, <1>5, <1>6, <1>7, <1>8, <1>9, <1>10 DEF Next

THEOREM NextIInv == IInv /\ [Next]_vars => IInv'
<1> SUFFICES ASSUME IInv, [Next]_vars PROVE IInv'
  OBVIOUS
<1>0. DataType
  BY DEF IInv
<1>t. TableType'
  BY <1>0, TableTyped DEF DataType
<1>c. UNCHANGED config => Versioned
  BY <1>0 DEF DataType, Versioned, config
<1>w. UNCHANGED writing =>
        writing' \in [Admin -> [key : Key, value : Value] \cup {NoWrite}]
  BY <1>0 DEF DataType
<1>1. CASE Get
  BY <1>0, <1>t, <1>w, <1>1, EnsureFreshVersioned, BucketUntouched DEF Get
<1>2. CASE Refresh
  <2>1. Versioned
    BY <1>0, <1>2, LoadVersioned DEF Refresh, DataType, Versioned
  <2> QED BY <1>t, <1>w, <1>2, <2>1, BucketUntouched DEF Refresh
<1>3. ASSUME NEW a \in Admin, Apply(a) PROVE IInv'
  <2>1. writing[a] \in [key : Key, value : Value]
    BY <1>0, <1>3 DEF Apply, DataType
  <2>2. Versioned
    BY <1>0, <1>3, <2>1 DEF Apply, DataType, Versioned, Setting
  <2>3. writing' \in [Admin -> [key : Key, value : Value] \cup {NoWrite}]
    BY <1>0, <1>3 DEF Apply, DataType
  <2> QED BY <1>t, <1>3, <2>2, <2>3, BucketUntouched DEF Apply
<1>4. ASSUME NEW a \in Admin, NEW k \in Key, NEW v \in Value, Commit(a, k, v)
      PROVE  IInv'
  <2>1. writing' \in [Admin -> [key : Key, value : Value] \cup {NoWrite}]
    BY <1>0, <1>4 DEF Commit, DataType
  <2> QED BY <1>t, <1>c, <1>4, <2>1, BucketUntouched DEF Commit
<1>5. ASSUME NEW t \in Thread, Sync(t) PROVE IInv'
  BY <1>t, <1>5, SyncKeepsIInv
<1>6. ASSUME NEW k \in Key, NEW v \in Setting, Edit(k, v) PROVE IInv'
  BY <1>t, <1>c, <1>w, <1>6, BucketUntouched DEF Edit
<1>7. CASE Outage \/ Return
  BY <1>t, <1>c, <1>w, <1>7, BucketUntouched DEF Outage, Return
<1>8. CASE CacheExpires \/ CooldownEnds
  <2>1. Versioned
    BY <1>0, <1>8 DEF CacheExpires, CooldownEnds, DataType, Versioned
  <2> QED BY <1>t, <1>w, <1>8, <2>1, BucketUntouched DEF CacheExpires, CooldownEnds
<1>9. CASE Migrate
  BY <1>t, <1>c, <1>w, <1>9, BucketUntouched DEF Migrate
<1>10. CASE MigrateRaises \/ Crash
  BY <1>t, <1>10, RestartedIInv DEF MigrateRaises, Crash
<1>11. CASE UNCHANGED vars
  BY <1>t, <1>c, <1>w, <1>11, BucketUntouched DEF vars
<1> QED
  BY <1>1, <1>2, <1>3, <1>4, <1>5, <1>6, <1>7, <1>8, <1>9, <1>10, <1>11 DEF Next

LEMMA NextFlags == FlagType /\ [Next]_vars => FlagType'
<1> SUFFICES ASSUME FlagType, [Next]_vars PROVE FlagType'
  OBVIOUS
<1> USE DEF FlagType
<1>1. ASSUME Load, dbup' = dbup PROVE FlagType'
  BY <1>1, Zenon DEF Load
<1>2. ASSUME EnsureFresh, dbup' = dbup PROVE FlagType'
  BY <1>1, <1>2, Zenon DEF EnsureFresh, config
<1>3. CASE Get
  BY <1>2, <1>3, Zenon DEF Get, power
<1>4. CASE Refresh
  BY <1>1, <1>4, Zenon DEF Refresh, power
<1>5. ASSUME NEW a \in Admin, Apply(a) PROVE FlagType'
  BY <1>5, Zenon DEF Apply, power
<1>6. ASSUME NEW a \in Admin, NEW k \in Key, NEW v \in Value, Commit(a, k, v)
      PROVE  FlagType'
  BY <1>6, Zenon DEF Commit, config, power
<1>7. ASSUME NEW t \in Thread, Sync(t) PROVE FlagType'
  BY <1>2, <1>7, Zenon DEF Sync, SyncLook, SyncDone, SyncApply, config, power
<1>8. ASSUME NEW k \in Key, NEW v \in Setting, Edit(k, v) PROVE FlagType'
  BY <1>8, Zenon DEF Edit, config, power
<1>9. CASE Outage \/ Return \/ CacheExpires \/ CooldownEnds
  BY <1>9, Zenon DEF Outage, Return, CacheExpires, CooldownEnds, config, power
<1>10. CASE Migrate \/ MigrateRaises \/ Crash
  BY <1>10, Zenon DEF Migrate, MigrateRaises, Crash, Restarted, config, power
<1>11. CASE UNCHANGED vars
  BY <1>11, Zenon DEF vars, config, power
<1> QED
  BY <1>3, <1>4, <1>5, <1>6, <1>7, <1>8, <1>9, <1>10, <1>11, Zenon DEF Next

\* Only Put and Migrate touch the table. Put moves what is chosen along, and
\* a script leaves a row that an operator has set as it is.
LEMMA NextSurvive ==
  ASSUME TableType, SettingsSurvive, [Next]_vars
  PROVE  SettingsSurvive'
<1> USE DEF SettingsSurvive
<1>1. ASSUME NEW k \in Key, NEW v \in Setting, Put(k, v) PROVE SettingsSurvive'
  BY <1>1 DEF Put, TableType
<1>2. CASE Migrate
  <2> SUFFICES ASSUME NEW k \in Key, chosen[k] # Unset PROVE db'[k] = chosen[k]
    BY <1>2 DEF Migrate
  <2> QED BY <1>2 DEF Migrate, Inserted
<1>3. CASE \E a \in Admin, k \in Key, v \in Value : Commit(a, k, v)
  BY <1>1, <1>3 DEF Commit, Setting
<1>4. CASE \E k \in Key, v \in Setting : Edit(k, v)
  BY <1>1, <1>4 DEF Edit
<1>5. CASE UNCHANGED table
  BY <1>5 DEF table
<1>6. MigrateRaises \/ Crash \/ Get \/ Refresh => UNCHANGED table
  BY DEF MigrateRaises, Crash, Get, Refresh
<1>7. (\E a \in Admin : Apply(a)) \/ (\E t \in Thread : Sync(t)) => UNCHANGED table
  BY DEF Apply, Sync, SyncLook, SyncDone, SyncApply
<1>8. Outage \/ Return \/ CacheExpires \/ CooldownEnds \/ UNCHANGED vars => UNCHANGED table
  BY DEF Outage, Return, CacheExpires, CooldownEnds, vars
<1> QED BY <1>2, <1>3, <1>4, <1>5, <1>6, <1>7, <1>8 DEF Next

\* The configuration's and the bucket's variables keep their types.
THEOREM ConfigTyped == Spec => []TypeOK
<1>1. IInv => DataType
  BY DEF IInv
<1>2. Init => FlagType
  BY DEF Init, FlagType
<1> QED BY <1>1, <1>2, InitIInv, NextIInv, NextFlags, PTL DEF Spec, TypeOK

\* A bucket whose version is the current one runs at the current QPS (_sync_qps).
THEOREM BucketInStep == Spec => []LimiterInStep
<1>1. IInv => LimiterInStep
  BY DEF IInv
<1> QED BY <1>1, InitIInv, NextIInv, PTL DEF Spec

\* No number of starts, whole or broken off, undoes a setting (INSERT IGNORE).
THEOREM SettingsKept == Spec => []SettingsSurvive
<1>1. Init => SettingsSurvive
  BY DEF Init, SettingsSurvive
<1>2. TypeOK => TableType
  BY DEF TypeOK, DataType
<1> QED BY <1>1, <1>2, ConfigTyped, NextSurvive, PTL DEF Spec
=============================================================================
