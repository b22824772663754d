----------------------------- MODULE RuleSeeding -----------------------------
(***************************************************************************)
(* Who writes table enrichment_rules while daemons read it: the seed-rules *)
(* command, of which several may run (with or without --force), each with  *)
(* one transaction to count the active rules and another one to upsert the *)
(* baseline rules; and the people who maintain the rules.                  *)
(***************************************************************************)
EXTENDS RuleRepository, FiniteSets

CONSTANTS
    Seeders,         \* runs of seed-rules
    Forced,          \* those with --force
    Baseline,        \* the baseline rules (SeedRules.tla)
    MaintainedRows,  \* rows that the maintainers may write
    InitialTables,   \* tables to begin with
    MaxTime,         \* bound: clock
    MaxEdits         \* bound: edits of the maintainers

ASSUME SeedingAssumption ==
    /\ Forced \subseteq Seeders
    /\ {MaxTime, MaxEdits} \subseteq Nat
    /\ \A r \in Baseline : "ruleId" \in DOMAIN r
    /\ \A r, s \in Baseline : r.ruleId = s.ruleId => r = s
    /\ \A T \in InitialTables : \A r, s \in T : r.ruleId = s.ruleId => r = s

VARIABLES
    rows,      \* table enrichment_rules
    time,      \* the clock
    step,      \* seeder: "count", "load", "commit", or how it ended
    new,       \* seeder: the rules it upserts
    loaded,    \* seeder: the rows session.get has found
    edits      \* edits of the maintainers so far

seederVars == <<step, new, loaded>>
storeVars == <<rows, time, seederVars, edits>>

StoreInit ==
    /\ rows \in InitialTables
    /\ time = 0
    /\ step = [s \in Seeders |-> "count"]
    /\ new = [s \in Seeders |-> {}]
    /\ loaded = [s \in Seeders |-> {}]
    /\ edits = 0

Tick ==
    /\ time < MaxTime
    /\ time' = time + 1
    /\ UNCHANGED <<rows, seederVars, edits>>

\* A rule is added, changed, activated or deactivated.
Edit ==
    /\ edits < MaxEdits
    /\ edits' = edits + 1
    /\ \E r \in MaintainedRows : rows' = {q \in rows : q.ruleId # r.ruleId} \cup {r}
    /\ UNCHANGED <<time, seederVars>>

\* The first transaction: only rules that are active and valid now count.
CountActive(s) ==
    /\ step[s] = "count"
    /\ LET existing == ListActiveRules(rows, time, EveryScope)
       IN IF existing # {} /\ s \notin Forced
          THEN step' = [step EXCEPT ![s] = "skipped"] /\ UNCHANGED new
          ELSE /\ step' = [step EXCEPT ![s] = "load"]
               /\ new' = [new EXCEPT ![s] = {[b EXCEPT !.validFrom = time] : b \in Baseline}]
    /\ UNCHANGED <<rows, time, loaded, edits>>

\* The second transaction begins: the rows of the baseline rules are loaded.
Load(s) ==
    /\ step[s] = "load"
    /\ step' = [step EXCEPT ![s] = "commit"]
    /\ loaded' = [loaded EXCEPT ![s] =
                    {r \in rows : \E n \in new[s] : n.ruleId = r.ruleId}]
    /\ UNCHANGED <<rows, time, new, edits>>

\* The upsert of both rules, which a key conflict with another seeder refuses.
StoreBoth(s) ==
    /\ ~UpsertConflict(rows, loaded[s], new[s])
    /\ rows' = UpsertMany(rows, loaded[s], new[s])

\* It ends, and both rules are stored.
Commit(s) ==
    /\ step[s] = "commit"
    /\ StoreBoth(s)
    /\ step' = [step EXCEPT ![s] = "seeded"]
    /\ UNCHANGED <<time, new, loaded, edits>>

\* Or it raises, and neither is stored; or both are, when what failed is only
\* the answer of the database.
CommitRaises(s) ==
    /\ step[s] = "commit"
    /\ rows' = rows \/ StoreBoth(s)
    /\ step' = [step EXCEPT ![s] = "failed"]
    /\ UNCHANGED <<time, new, loaded, edits>>

StoreNext ==
    \/ Tick \/ Edit
    \/ \E s \in Seeders : CountActive(s) \/ Load(s) \/ Commit(s) \/ CommitRaises(s)

StoreSpec == StoreInit /\ [][StoreNext]_storeVars

-----------------------------------------------------------------------------
\* What the primary key is there for: no two rows of one rule, whatever seeders
\* run at the same time.
OneRowPerRule == \A r, s \in rows : r.ruleId = s.ruleId => r = s

\* The baseline rules come together: where they were not in the table at first
\* and nobody else adds them, all of them are there or none, also when seeders
\* overlap and fail; and a seeder that says it has seeded has.
SeedingIsAtomic ==
    LET there == {b \in Baseline : \E r \in rows : r.ruleId = b.ruleId}
    IN /\ there \in {{}, Baseline}
       /\ (\E s \in Seeders : step[s] = "seeded") => there = Baseline
=============================================================================
