--------------------------- MODULE RuleRepository ---------------------------
(***************************************************************************)
(* The entity EnrichmentRule, table enrichment_rules, and                  *)
(* SqlAlchemyEnrichmentRuleRepository on it.  The table is a set of rows,  *)
(* and a row, which to_rule turns into an entity column by column, is a    *)
(* record; what its users do not look at may be missing.  Times are        *)
(* instants (a time without a zone is taken for UTC).                      *)
(***************************************************************************)
EXTENDS Integers

CONSTANTS
    NoCode,    \* NULL or an empty text in a code
    NoTime     \* NULL in valid_from and valid_to

\* EnrichmentRule.is_valid_at: both ends belong to the interval.
IsValidAt(r, t) ==
    /\ r.validFrom # NoTime => r.validFrom <= t
    /\ r.validTo # NoTime => t <= r.validTo
    /\ r.isActive

\* A code of the order selects its own rows and those without the code; an
\* order without the code gets the rows of every code.
CodeApplies(rowCode, code) == code # NoCode => rowCode \in {code, NoCode}

InScope(row, scope) ==
    /\ CodeApplies(row.clientCode, scope.client)
    /\ CodeApplies(row.facilityCode, scope.facility)
    /\ CodeApplies(row.zoneCode, scope.zone)

\* list_active_rules; the rows come by priority, equal ones in any order.
ListActiveRules(rows, now, scope) ==
    {r \in rows : /\ r.isActive
                  /\ r.validFrom # NoTime => r.validFrom <= now
                  /\ r.validTo # NoTime => r.validTo >= now
                  /\ InScope(r, scope)}

EveryScope == [client |-> NoCode, facility |-> NoCode, zone |-> NoCode]

\* Mutant of UpsertMany: the loop is left after its first rule.
UpsertMany_First(rows, loaded, new) == rows \cup {CHOOSE n \in new : TRUE}

\* upsert_many: absent rules are inserted.  Of the columns of a row that was
\* loaded, the UPDATE names those whose value is new, and leaves the others as
\* they are by then.
UpsertMany(rows, loaded, new) ==
    LET of(table, id) == CHOOSE r \in table : r.ruleId = id
        known(n) == \E r \in loaded : r.ruleId = n.ruleId
        changed(r) == \E n \in new : n.ruleId = r.ruleId /\ known(n)
        updated(r) == LET n == of(new, r.ruleId)
                      IN [c \in DOMAIN n |->
                             IF n[c] = of(loaded, r.ruleId)[c] THEN r[c] ELSE n[c]]
    IN {n \in new : ~known(n)} \cup {IF changed(r) THEN updated(r) ELSE r : r \in rows}

\* Mutant of UpsertConflict: a table without the primary key.
UpsertConflict_NoKey(rows, loaded, new) == FALSE

\* The primary key refuses a second row of a rule that was not there before.
UpsertConflict(rows, loaded, new) ==
    \E n \in new : /\ \A r \in loaded : r.ruleId # n.ruleId
                   /\ \E r \in rows : r.ruleId = n.ruleId
=============================================================================
