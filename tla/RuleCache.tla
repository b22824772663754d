------------------------------ MODULE RuleCache ------------------------------
(***************************************************************************)
(* RefreshRulesCacheUseCase in front of the rule table of RuleSeeding, and *)
(* the test of validity that every evaluation begins with: which rules a   *)
(* daemon applies to the orders of a scope, and how old they are.          *)
(*                                                                         *)
(* The daemon's clock shows the time, less what it has been set back.      *)
(***************************************************************************)
EXTENDS RuleSeeding

CONSTANTS
    Scopes,        \* client, facility and zone codes of orders
    NoEntry,       \* nothing in the cache
    NoUse,         \* no rules applied yet
    TtlSeconds,    \* settings.rule_cache_ttl_seconds
    MaxSetBack     \* bound: by how much the daemon's clock is set back, in total

ASSUME CacheAssumption == TtlSeconds \in Nat \ {0} /\ MaxSetBack \in Nat

VARIABLES
    cache,      \* scope -> the time of the entry and its rules
    setBack,    \* by how much the daemon's clock is behind
    use,        \* history: the last use, with the rules applied to the order
    tables      \* history: the tables there were at each time

cacheVars == <<cache, setBack, use, tables>>
vars == <<storeVars, cacheVars>>

\* The key of the cache: all three codes of the order.
Key(scope) == scope

EmptyCache == [k \in Scopes |-> NoEntry]

Init ==
    /\ StoreInit
    /\ cache = EmptyCache
    /\ setBack = 0
    /\ use = NoUse
    /\ tables = [t \in 0 .. MaxTime |-> IF t = 0 THEN {rows} ELSE {}]

Store ==
    /\ StoreNext
    /\ tables' = [tables EXCEPT ![time'] = @ \cup {rows'}]
    /\ UNCHANGED <<cache, setBack, use>>

SetBack ==
    /\ setBack < MaxSetBack
    /\ setBack' = setBack + 1
    /\ UNCHANGED <<storeVars, cache, use, tables>>

Now == time - setBack

\* evaluate() looks at the rules it is given once more.
Apply(scope, rules) ==
    use' = [scope |-> scope, at |-> time, now |-> Now, setBack |-> setBack,
            rules |-> {r \in rules : IsValidAt(r, Now)}]

Fresh(scope) ==
    /\ cache[Key(scope)] # NoEntry
    /\ Now - cache[Key(scope)].ts <= TtlSeconds

\* Mutant of Hit: an entry that is used stays fresh.
Hit_Touches(scope) ==
    /\ Fresh(scope)
    /\ Apply(scope, cache[Key(scope)].rules)
    /\ cache' = [cache EXCEPT ![Key(scope)].ts = Now]
    /\ UNCHANGED <<storeVars, setBack, tables>>

Hit(scope) ==
    /\ Fresh(scope)
    /\ Apply(scope, cache[Key(scope)].rules)
    /\ UNCHANGED <<storeVars, cache, setBack, tables>>

Refresh(scope) ==
    /\ ~Fresh(scope)
    /\ LET rules == ListActiveRules(rows, Now, scope)
       IN /\ cache' = [cache EXCEPT ![Key(scope)] = [ts |-> Now, rules |-> rules]]
          /\ Apply(scope, rules)
    /\ UNCHANGED <<storeVars, setBack, tables>>

\* The process ends (a query that raises is not caught) and starts again.
Restart ==
    /\ cache' = EmptyCache
    /\ UNCHANGED <<storeVars, setBack, use, tables>>

Next == Store \/ SetBack \/ Restart \/ \E s \in Scopes : Hit(s) \/ Refresh(s)

Spec == Init /\ [][Next]_vars

-----------------------------------------------------------------------------
\* An order is evaluated with the rules of one state of the table, and that
\* state is no older than the TTL plus what the clock was set back: those in
\* the order's scope that were active and valid then, and are valid now.
BoundedStaleness ==
    use # NoUse =>
        \E t \in 0 .. use.at : \E back \in 0 .. use.setBack : \E table \in tables[t] :
            /\ use.at - t <= TtlSeconds + use.setBack
            /\ use.rules = {r \in ListActiveRules(table, t - back, use.scope) :
                               IsValidAt(r, use.now)}
=============================================================================
