--------------------------- MODULE RuleStoreProofs ---------------------------
(***************************************************************************)
(* Proofs about RuleCache and the rule table of RuleSeeding below it: for  *)
(* any scopes, rules, seeders, edits and TTL, and a daemon's clock that is *)
(* set back as often as may be.                                            *)
(***************************************************************************)
EXTENDS RuleCache, TLAPS

-----------------------------------------------------------------------------
\* The history holds the table of the present.
HistoryKept ==
    /\ time \in 0 .. MaxTime /\ setBack \in Nat
    /\ DOMAIN tables = 0 .. MaxTime
    /\ rows \in tables[time]
    /\ use # NoUse => use.at \in 0 .. time

\* An entry was read from a table of the past, by the clock of that time.
EntriesHaveSource ==
    /\ DOMAIN cache = Scopes
    /\ \A k \in Scopes : cache[k] # NoEntry =>
         \E t \in 0 .. time : \E back \in 0 .. setBack : \E table \in tables[t] :
            /\ cache[k].ts = t - back
            /\ cache[k].rules = ListActiveRules(table, t - back, k)

CacheInvariant ==
    HistoryKept /\ EntriesHaveSource /\ BoundedStaleness

\* The history only grows, and the sources of the past stay.
LEMMA SourcesStay ==
    ASSUME CacheInvariant, time' \in time .. MaxTime, setBack' \in Nat, setBack <= setBack',
           DOMAIN tables' = DOMAIN tables, \A t \in 0 .. MaxTime : tables[t] \subseteq tables'[t],
           rows' \in tables'[time'], cache' \in {cache, EmptyCache}, use' = use
    PROVE  CacheInvariant'
<1>1. \A t \in 0 .. time : t \in 0 .. time' /\ t \in 0 .. MaxTime
  BY SeedingAssumption DEF CacheInvariant, HistoryKept
<1>2. HistoryKept'
  BY <1>1, SeedingAssumption DEF CacheInvariant, HistoryKept
<1>3. EntriesHaveSource'
  <2>1. DOMAIN cache' = Scopes
    BY DEF CacheInvariant, EntriesHaveSource, EmptyCache
  <2>2. ASSUME NEW k \in Scopes, cache'[k] # NoEntry
        PROVE  \E t \in 0 .. time' : \E back \in 0 .. setBack' : \E table \in tables'[t] :
                  /\ cache'[k].ts = t - back
                  /\ cache'[k].rules = ListActiveRules(table, t - back, k)
    <3>1. cache' = cache
      BY <2>2 DEF EmptyCache
    <3>2. PICK t \in 0 .. time, back \in 0 .. setBack : \E table \in tables[t] :
             /\ cache[k].ts = t - back
             /\ cache[k].rules = ListActiveRules(table, t - back, k)
      BY <2>2, <3>1 DEF CacheInvariant, EntriesHaveSource
    <3>3. back \in 0 .. setBack' /\ tables[t] \subseteq tables'[t] /\ t \in 0 .. time'
      BY <1>1 DEF CacheInvariant, HistoryKept
    <3> QED
      BY <3>1, <3>2, <3>3
  <2> QED
    BY <2>1, <2>2 DEF EntriesHaveSource
<1>4. BoundedStaleness'
  <2> SUFFICES ASSUME use' # NoUse PROVE BoundedStaleness'
    BY DEF BoundedStaleness
  <2>1. PICK t \in 0 .. use.at, back \in 0 .. use.setBack : \E table \in tables[t] :
            /\ use.at - t <= TtlSeconds + use.setBack
            /\ use.rules = {r \in ListActiveRules(table, t - back, use.scope) :
                               IsValidAt(r, use.now)}
    BY DEF CacheInvariant, BoundedStaleness
  <2>2. tables[t] \subseteq tables'[t]
    BY <1>1 DEF CacheInvariant, HistoryKept
  <2> QED
    BY <2>1, <2>2 DEF BoundedStaleness
<1> QED
  BY <1>2, <1>3, <1>4 DEF CacheInvariant

\* An order is given rules that were read at a time of the past, no longer ago
\* than the TTL and the clock allow.
LEMMA RulesApplied ==
    ASSUME CacheInvariant, NEW s \in Scopes, NEW rules, Apply(s, rules),
           NEW t \in 0 .. time, NEW back \in 0 .. setBack, NEW table \in tables[t],
           rules = ListActiveRules(table, t - back, s),
           time - t <= TtlSeconds + setBack, UNCHANGED tables
    PROVE  BoundedStaleness' /\ (use' # NoUse => use'.at = time)
<1>1. /\ use'.at = time /\ use'.scope = s /\ use'.setBack = setBack
      /\ use'.now = Now /\ use'.rules = {r \in rules : IsValidAt(r, use'.now)}
  BY DEF Apply
<1>2. BoundedStaleness'
  BY <1>1 DEF BoundedStaleness
<1> QED
  BY <1>1, <1>2

LEMMA CacheStep == CacheInvariant /\ [Next]_vars => CacheInvariant'
<1> SUFFICES ASSUME CacheInvariant, [Next]_vars PROVE CacheInvariant'
  OBVIOUS
<1> USE DEF storeVars, seederVars
<1>1. /\ time \in 0 .. MaxTime /\ time \in Nat /\ setBack \in Nat /\ MaxTime \in Nat
      /\ rows \in tables[time] /\ DOMAIN tables = 0 .. MaxTime
      /\ TtlSeconds \in Nat
  BY SeedingAssumption, CacheAssumption DEF CacheInvariant, HistoryKept
<1>2. CASE Store
  <2>1. time' \in time .. MaxTime
    <3>1. time' = time \/ (time < MaxTime /\ time' = time + 1)
      BY <1>2 DEF Store, StoreNext, Tick, Edit, CountActive, Load, Commit, CommitRaises
    <3> QED
      BY <1>1, <3>1
  <2>2. tables' = [tables EXCEPT ![time'] = @ \cup {rows'}] /\ UNCHANGED <<cache, setBack, use>>
    BY <1>2 DEF Store
  <2>3. time' \in DOMAIN tables
    BY <1>1, <2>1
  <2>4. /\ DOMAIN tables' = DOMAIN tables /\ rows' \in tables'[time']
        /\ \A t \in 0 .. MaxTime : tables[t] \subseteq tables'[t]
    BY <1>1, <2>2, <2>3
  <2> QED
    BY <1>1, <2>1, <2>2, <2>4, SourcesStay
<1>3. CASE SetBack \/ Restart \/ UNCHANGED vars
  <2>1. /\ UNCHANGED <<rows, time, use, tables>> /\ cache' \in {cache, EmptyCache}
        /\ setBack' \in {setBack, setBack + 1}
    BY <1>3 DEF SetBack, Restart, vars, cacheVars
  <2>2. time' \in time .. MaxTime /\ setBack' \in Nat /\ setBack <= setBack'
    BY <1>1, <2>1
  <2> QED
    BY <1>1, <2>1, <2>2, SourcesStay
<1>4. ASSUME NEW s \in Scopes, Hit(s)
      PROVE  CacheInvariant'
  <2>1. UNCHANGED <<rows, time, cache, setBack, tables>> /\ Apply(s, cache[s].rules)
        /\ cache[s] # NoEntry /\ Now - cache[s].ts <= TtlSeconds
    BY <1>4 DEF Hit, Fresh, Key
  <2>2. PICK t \in 0 .. time, back \in 0 .. setBack : \E table \in tables[t] :
           cache[s].ts = t - back /\ cache[s].rules = ListActiveRules(table, t - back, s)
    BY <2>1 DEF CacheInvariant, EntriesHaveSource
  <2>3. time - t <= TtlSeconds + setBack
    BY <1>1, <2>1, <2>2 DEF Now
  <2>4. BoundedStaleness' /\ (use' # NoUse => use'.at = time)
    BY <2>1, <2>2, <2>3, RulesApplied
  <2>5. HistoryKept'
    BY <1>1, <2>1, <2>4 DEF HistoryKept
  <2>6. EntriesHaveSource'
    BY <2>1 DEF CacheInvariant, EntriesHaveSource
  <2> QED
    BY <2>4, <2>5, <2>6 DEF CacheInvariant
<1>5. ASSUME NEW s \in Scopes, Refresh(s)
      PROVE  CacheInvariant'
  <2> DEFINE rules == ListActiveRules(rows, Now, s)
             entry == [ts |-> Now, rules |-> rules]
  <2>1. UNCHANGED <<rows, time, setBack, tables>> /\ Apply(s, rules)
        /\ cache' = [cache EXCEPT ![s] = entry]
    BY <1>5 DEF Refresh, Key
  <2>2. time \in 0 .. time /\ setBack \in 0 .. setBack /\ Now = time - setBack
        /\ time - time <= TtlSeconds + setBack
    BY <1>1 DEF Now
  <2>3. entry.ts = Now /\ entry.rules = rules
    OBVIOUS
  <2>4. BoundedStaleness' /\ (use' # NoUse => use'.at = time)
    BY <1>1, <2>1, <2>2, RulesApplied
  <2> HIDE DEF entry
  <2>5. EntriesHaveSource'
    <3>1. DOMAIN cache' = Scopes /\ cache'[s] = entry
          /\ \A k \in Scopes \ {s} : cache'[k] = cache[k]
      BY <2>1 DEF CacheInvariant, EntriesHaveSource
    <3>2. \E t \in 0 .. time : \E back \in 0 .. setBack : \E table \in tables[t] :
              /\ cache'[s].ts = t - back
              /\ cache'[s].rules = ListActiveRules(table, t - back, s)
      BY <1>1, <2>2, <2>3, <3>1
    <3>3. ASSUME NEW k \in Scopes \ {s}, cache'[k] # NoEntry
          PROVE  \E t \in 0 .. time : \E back \in 0 .. setBack : \E table \in tables[t] :
                    /\ cache'[k].ts = t - back
                    /\ cache'[k].rules = ListActiveRules(table, t - back, k)
      BY <3>1, <3>3 DEF CacheInvariant, EntriesHaveSource
    <3> QED
      BY <2>1, <3>1, <3>2, <3>3 DEF EntriesHaveSource
  <2> QED
    BY <1>1, <2>1, <2>4, <2>5 DEF CacheInvariant, HistoryKept
<1> QED
  BY <1>2, <1>3, <1>4, <1>5 DEF Next

\* Where the rules that are applied to an order come from, in every reachable
\* state (refresh_rules_cache.py:21-36, enrichment_rule.py:20-27).
THEOREM CacheSound == Spec => []CacheInvariant
<1>1. Init => CacheInvariant
  <2> SUFFICES ASSUME Init PROVE CacheInvariant
    OBVIOUS
  <2>1. time = 0 /\ 0 \in 0 .. MaxTime /\ setBack = 0 /\ use = NoUse
    BY SeedingAssumption DEF Init, StoreInit
  <2>2. DOMAIN tables = 0 .. MaxTime /\ rows \in tables[time]
    BY <2>1 DEF Init
  <2>3. cache = EmptyCache
    BY DEF Init
  <2> QED
    BY <2>1, <2>2, <2>3 DEF CacheInvariant, HistoryKept, EntriesHaveSource, EmptyCache,
                            BoundedStaleness
<1> QED
  BY <1>1, CacheStep, PTL DEF Spec

\* No order gets rules that are older than the TTL and what the clock was set
\* back, whatever maintainers and seeders do (refresh_rules_cache.py:21-36).
THEOREM StalenessIsBounded == Spec => []BoundedStaleness
<1>1. CacheInvariant => BoundedStaleness
  BY DEF CacheInvariant
<1> QED
  BY <1>1, CacheSound, PTL

-----------------------------------------------------------------------------
\* The table has one row per rule and contains all of the baseline or none.
HasRule(table, id) == \E r \in table : r.ruleId = id
Keyed(table) == \A r, s \in table : r.ruleId = s.ruleId => r = s

\* An upsert that the key lets through keeps the rows of the table, adds those
\* of the new rules that were not loaded, and keeps the key.
LEMMA UpsertKeepsKey ==
    ASSUME NEW table, NEW seen, NEW rules, Keyed(table), Keyed(rules),
           \A n \in rules : "ruleId" \in DOMAIN n,
           ~ UpsertConflict(table, seen, rules)
    PROVE  /\ Keyed(UpsertMany(table, seen, rules))
           /\ \A id : HasRule(UpsertMany(table, seen, rules), id) <=>
                 \/ HasRule(table, id)
                 \/ \E n \in rules : n.ruleId = id /\ ~ HasRule(seen, n.ruleId)
<1> DEFINE of(T, id) == CHOOSE r \in T : r.ruleId = id
           known(n) == \E r \in seen : r.ruleId = n.ruleId
           changed(r) == \E n \in rules : n.ruleId = r.ruleId /\ known(n)
           updated(r) == [c \in DOMAIN of(rules, r.ruleId) |->
                             IF of(rules, r.ruleId)[c] = of(seen, r.ruleId)[c]
                             THEN r[c] ELSE of(rules, r.ruleId)[c]]
           after(r) == IF changed(r) THEN updated(r) ELSE r
           added == {n \in rules : ~known(n)}
<1>1. UpsertMany(table, seen, rules) = added \cup {after(r) : r \in table}
  BY DEF UpsertMany
<1>2. ASSUME NEW r \in table
      PROVE  after(r).ruleId = r.ruleId
  <2>1. CASE changed(r)
    <3>1. of(rules, r.ruleId) \in rules /\ of(rules, r.ruleId).ruleId = r.ruleId
      BY <2>1
    <3>2. "ruleId" \in DOMAIN of(rules, r.ruleId)
      BY <3>1
    <3> HIDE DEF of
    <3>3. updated(r).ruleId = r.ruleId
      BY <3>1, <3>2
    <3> QED
      BY <2>1, <3>3
  <2> QED
    BY <2>1
<1>3. \A n \in added : ~ HasRule(table, n.ruleId)
  BY DEF UpsertConflict, HasRule
<1>4. \A n \in added : n \in rules /\ ~ HasRule(seen, n.ruleId)
      /\ \A m \in rules : ~ HasRule(seen, m.ruleId) => m \in added
  BY DEF HasRule
<1> HIDE DEF after, added
<1>5. Keyed(added \cup {after(r) : r \in table})
  BY <1>2, <1>3, <1>4 DEF Keyed, HasRule
<1>6. \A id : HasRule(added \cup {after(r) : r \in table}, id) <=>
         HasRule(table, id) \/ \E n \in rules : n.ruleId = id /\ ~ HasRule(seen, n.ruleId)
  <2> SUFFICES ASSUME NEW id
               PROVE  HasRule(added \cup {after(r) : r \in table}, id) <=>
                         \/ HasRule(table, id)
                         \/ \E n \in rules : n.ruleId = id /\ ~ HasRule(seen, n.ruleId)
    OBVIOUS
  <2>1. HasRule({after(r) : r \in table}, id) <=> HasRule(table, id)
    BY <1>2 DEF HasRule
  <2>2. HasRule(added, id) <=> \E n \in rules : n.ruleId = id /\ ~ HasRule(seen, n.ruleId)
    BY <1>4 DEF HasRule, added
  <2>3. HasRule(added \cup {after(r) : r \in table}, id) <=>
           HasRule(added, id) \/ HasRule({after(r) : r \in table}, id)
    BY DEF HasRule
  <2> QED
    BY <2>1, <2>2, <2>3
<1> QED
  BY <1>1, <1>5, <1>6

\* The rules a seeder upserts are the baseline rules, with a new validFrom.
LEMMA BaselineToday ==
    ASSUME NEW t
    PROVE  LET N == {[b EXCEPT !.validFrom = t] : b \in Baseline}
           IN /\ Keyed(N)
              /\ \A n \in N : "ruleId" \in DOMAIN n
              /\ \A id : HasRule(N, id) <=> HasRule(Baseline, id)
<1> DEFINE today(b) == [b EXCEPT !.validFrom = t]
<1>1. ASSUME NEW b \in Baseline
      PROVE  "ruleId" \in DOMAIN today(b) /\ today(b).ruleId = b.ruleId
  BY SeedingAssumption
<1> HIDE DEF today
<1>2. Keyed({today(b) : b \in Baseline})
  BY <1>1, SeedingAssumption DEF Keyed
<1>3. \A id : HasRule({today(b) : b \in Baseline}, id) <=> HasRule(Baseline, id)
  BY <1>1 DEF HasRule
<1> QED
  BY <1>1, <1>2, <1>3 DEF today

\* The table has its key; a seeder upserts baseline rules, all of them once it
\* has counted, and what it has loaded is still in the table.
StoreInvariant ==
    /\ Keyed(rows)
    /\ DOMAIN step = Seeders /\ DOMAIN new = Seeders /\ DOMAIN loaded = Seeders
    /\ \A s \in Seeders :
         /\ Keyed(new[s])
         /\ \A n \in new[s] : "ruleId" \in DOMAIN n
         /\ \A id : HasRule(loaded[s], id) => HasRule(rows, id)
         /\ \A id : HasRule(new[s], id) => HasRule(Baseline, id)
         /\ step[s] \in {"load", "commit", "seeded"} =>
               \A id : HasRule(Baseline, id) => HasRule(new[s], id)

\* Ids are only added, by maintainers one at a time, or all of the baseline.
LEMMA StoreStep ==
    ASSUME StoreInvariant, [StoreNext]_storeVars
    PROVE  /\ StoreInvariant'
           /\ \/ \E r \in MaintainedRows :
                    \A id : HasRule(rows', id) <=> HasRule(rows, id) \/ id = r.ruleId
              \/ \A id : HasRule(rows', id) <=> HasRule(rows, id)
              \/ \A id : HasRule(rows', id) <=> HasRule(rows, id) \/ HasRule(Baseline, id)
           /\ \A s \in Seeders : step'[s] = "seeded" =>
                \/ step[s] = "seeded"
                \/ \A id : HasRule(Baseline, id) => HasRule(rows', id)
<1> DEFINE Grows == \/ \E r \in MaintainedRows :
                          \A id : HasRule(rows', id) <=> HasRule(rows, id) \/ id = r.ruleId
                    \/ \A id : HasRule(rows', id) <=> HasRule(rows, id)
                    \/ \A id : HasRule(rows', id) <=> HasRule(rows, id) \/ HasRule(Baseline, id)
           Seeds == \A s \in Seeders : step'[s] = "seeded" =>
                       \/ step[s] = "seeded"
                       \/ \A id : HasRule(Baseline, id) => HasRule(rows', id)
<1> USE DEF seederVars
<1>1. CASE Tick \/ UNCHANGED storeVars
  BY <1>1 DEF Tick, storeVars, StoreInvariant
<1>2. CASE Edit
  <2>1. PICK r \in MaintainedRows : rows' = {q \in rows : q.ruleId # r.ruleId} \cup {r}
    BY <1>2 DEF Edit
  <2>2. \A id : HasRule(rows', id) <=> HasRule(rows, id) \/ id = r.ruleId
    BY <2>1 DEF HasRule
  <2>3. Keyed(rows')
    BY <2>1 DEF Keyed, StoreInvariant
  <2>4. UNCHANGED <<step, new, loaded>>
    BY <1>2 DEF Edit
  <2>5. StoreInvariant'
    BY <2>2, <2>3, <2>4 DEF StoreInvariant
  <2> QED
    BY <2>2, <2>4, <2>5
<1>3. ASSUME NEW s \in Seeders, CountActive(s)
      PROVE  StoreInvariant' /\ Grows /\ Seeds
  <2> DEFINE N == {[b EXCEPT !.validFrom = time] : b \in Baseline}
  <2>1. UNCHANGED <<rows, loaded>>
        /\ \/ step' = [step EXCEPT ![s] = "skipped"] /\ UNCHANGED new
           \/ step' = [step EXCEPT ![s] = "load"] /\ new' = [new EXCEPT ![s] = N]
    BY <1>3 DEF CountActive
  <2>2. /\ Keyed(N) /\ \A n \in N : "ruleId" \in DOMAIN n
        /\ \A id : HasRule(N, id) <=> HasRule(Baseline, id)
    BY BaselineToday
  <2> HIDE DEF N
  <2>3. StoreInvariant'
    BY <2>1, <2>2 DEF StoreInvariant
  <2> QED
    BY <2>1, <2>3 DEF StoreInvariant
<1>4. ASSUME NEW s \in Seeders, Load(s)
      PROVE  StoreInvariant' /\ Grows /\ Seeds
  <2> DEFINE L == {r \in rows : \E n \in new[s] : n.ruleId = r.ruleId}
  <2>1. /\ step[s] = "load" /\ UNCHANGED <<rows, new>>
        /\ step' = [step EXCEPT ![s] = "commit"] /\ loaded' = [loaded EXCEPT ![s] = L]
    BY <1>4 DEF Load
  <2>2. \A id : HasRule(L, id) => HasRule(rows, id)
    BY DEF HasRule
  <2> HIDE DEF L
  <2>3. StoreInvariant'
    BY <2>1, <2>2 DEF StoreInvariant
  <2> QED
    BY <2>1, <2>3 DEF StoreInvariant
<1>5. ASSUME NEW s \in Seeders, step[s] = "commit", StoreBoth(s),
             NEW end \in {"seeded", "failed"}, step' = [step EXCEPT ![s] = end],
             UNCHANGED <<new, loaded>>
      PROVE  StoreInvariant' /\ Grows /\ Seeds
  <2>1. /\ ~ UpsertConflict(rows, loaded[s], new[s])
        /\ rows' = UpsertMany(rows, loaded[s], new[s])
    BY <1>5 DEF StoreBoth
  <2>2. /\ Keyed(rows')
        /\ \A id : HasRule(rows', id) <=>
              HasRule(rows, id) \/ \E n \in new[s] : n.ruleId = id /\ ~ HasRule(loaded[s], n.ruleId)
    BY <2>1, UpsertKeepsKey DEF StoreInvariant
  <2>3. \A id : HasRule(Baseline, id) <=> HasRule(new[s], id)
    BY <1>5 DEF StoreInvariant
  <2>4. \A id : HasRule(loaded[s], id) => HasRule(rows, id)
    BY DEF StoreInvariant
  <2>5. \A id : HasRule(rows', id) <=> HasRule(rows, id) \/ HasRule(Baseline, id)
    <3>1. \A id : (\E n \in new[s] : n.ruleId = id /\ ~ HasRule(loaded[s], n.ruleId))
                   <=> HasRule(new[s], id) /\ ~ HasRule(loaded[s], id)
      BY DEF HasRule
    <3> QED
      BY <2>2, <2>3, <2>4, <3>1
  <2>6. StoreInvariant'
    BY <1>5, <2>2, <2>3, <2>5 DEF StoreInvariant
  <2> QED
    BY <1>5, <2>5, <2>6 DEF StoreInvariant
<1>6. ASSUME NEW s \in Seeders, Commit(s)
      PROVE  StoreInvariant' /\ Grows /\ Seeds
  BY <1>5, <1>6 DEF Commit
<1>7. ASSUME NEW s \in Seeders, CommitRaises(s)
      PROVE  StoreInvariant' /\ Grows /\ Seeds
  <2>1. CASE rows' = rows
    <3>1. step' = [step EXCEPT ![s] = "failed"] /\ UNCHANGED <<rows, new, loaded>>
      BY <1>7, <2>1 DEF CommitRaises
    <3> QED
      BY <3>1 DEF StoreInvariant
  <2>2. CASE StoreBoth(s)
    BY <1>5, <1>7, <2>2 DEF CommitRaises
  <2> QED
    BY <1>7, <2>1, <2>2 DEF CommitRaises
<1> QED
  BY <1>1, <1>2, <1>3, <1>4, <1>6, <1>7 DEF StoreNext

LEMMA StoreInvariantInit == Init => StoreInvariant
<1> SUFFICES ASSUME Init PROVE StoreInvariant
  OBVIOUS
<1>1. Keyed(rows)
  BY SeedingAssumption DEF Init, StoreInit, Keyed
<1> QED
  BY <1>1 DEF Init, StoreInit, StoreInvariant, Keyed, HasRule

\* The other actions of the cache leave the table and the seeders alone.
LEMMA StoreAlone == [Next]_vars => [StoreNext]_storeVars
  BY DEF Next, vars, Store, SetBack, Restart, Hit, Refresh, storeVars, seederVars

\* Every reachable table has one row per rule, with any number of seeders that
\* overlap (rule_repository_sqlalchemy.py:36-51, models.py:14).
THEOREM OneRowEach == Spec => []OneRowPerRule
<1>1. StoreInvariant /\ [Next]_vars => StoreInvariant'
  BY StoreStep, StoreAlone
<1>2. StoreInvariant => OneRowPerRule
  BY DEF StoreInvariant, Keyed, OneRowPerRule
<1> QED
  BY <1>1, <1>2, StoreInvariantInit, PTL DEF Spec

\* Where nobody but seed-rules writes baseline rules, they are in the table all
\* together or not at all, and are there once a seeder has succeeded
\* (main.py:39-84).
THEOREM SeedsComeTogether ==
    ASSUME \A r \in MaintainedRows : ~ HasRule(Baseline, r.ruleId),
           \A T \in InitialTables : \A r \in T : ~ HasRule(Baseline, r.ruleId)
    PROVE  Spec => []SeedingIsAtomic
<1> DEFINE None == \A id : HasRule(Baseline, id) => ~ HasRule(rows, id)
           All == \A id : HasRule(Baseline, id) => HasRule(rows, id)
           Together == /\ None \/ All
                       /\ \A s \in Seeders : step[s] = "seeded" => All
           IInv == StoreInvariant /\ Together
<1>1. Init => IInv
  <2> SUFFICES ASSUME Init PROVE Together
    BY StoreInvariantInit
  <2>1. None
    BY DEF Init, StoreInit, HasRule
  <2>2. \A s \in Seeders : step[s] = "count"
    BY DEF Init, StoreInit
  <2> QED
    BY <2>1, <2>2
<1>2. IInv /\ [Next]_vars => IInv'
  <2> SUFFICES ASSUME IInv, [Next]_vars PROVE IInv'
    OBVIOUS
  <2>1. /\ StoreInvariant'
        /\ \/ \E r \in MaintainedRows :
                 \A id : HasRule(rows', id) <=> HasRule(rows, id) \/ id = r.ruleId
           \/ \A id : HasRule(rows', id) <=> HasRule(rows, id)
           \/ \A id : HasRule(rows', id) <=> HasRule(rows, id) \/ HasRule(Baseline, id)
        /\ \A s \in Seeders : step'[s] = "seeded" =>
                \/ step[s] = "seeded"
                \/ \A id : HasRule(Baseline, id) => HasRule(rows', id)
    BY StoreStep, StoreAlone
  <2>2. All => All'
    BY <2>1
  <2>3. None => None' \/ All'
    BY <2>1
  <2> QED
    BY <2>1, <2>2, <2>3
<1>3. IInv => SeedingIsAtomic
  <2> SUFFICES ASSUME Together PROVE SeedingIsAtomic
    OBVIOUS
  <2> DEFINE there == {b \in Baseline : \E r \in rows : r.ruleId = b.ruleId}
  <2>1. None => there = {}
    BY DEF HasRule
  <2>2. All => there = Baseline
    BY DEF HasRule
  <2>3. /\ there \in {{}, Baseline}
        /\ (\E s \in Seeders : step[s] = "seeded") => there = Baseline
    BY <2>1, <2>2
  <2> QED
    BY <2>3 DEF SeedingIsAtomic
<1> QED
  BY <1>1, <1>2, <1>3, PTL DEF Spec
=============================================================================
