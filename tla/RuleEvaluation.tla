--------------------------- MODULE RuleEvaluation ---------------------------
(***************************************************************************)
(* RuleEvaluationService.evaluate, call after call, and the payload that   *)
(* is built from a decision.  The rules come as a list (from the cache, in *)
(* the order the database has given them), are filtered by validity,       *)
(* sorted by priority and tried one after the other; what a later one      *)
(* contributes overwrites what an earlier one has.                         *)
(*                                                                         *)
(* Outcome says how asking a rule's conditions about an order ends         *)
(* (Conditions.tla has the conditions themselves).                         *)
(***************************************************************************)
EXTENDS RuleRepository, Sequences

CONSTANTS
    Calls,         \* arguments of evaluate(): order, list of rules, now
    Keys,          \* keys of enrichment_json
    Absent,        \* no value under a key
    NoOrder,       \* no call
    NoPayload,     \* None instead of a payload
    Outcome(_, _)  \* of a rule's conditions for an order: "true", "false" or "raise"

IsRuleList(rules) ==
    /\ Len(rules) \in Nat /\ DOMAIN rules = 1 .. Len(rules)
    /\ \A i \in DOMAIN rules : /\ rules[i].priority \in Int
                              /\ rules[i].validFrom \in Int \cup {NoTime}
                              /\ rules[i].validTo \in Int \cup {NoTime}
                              /\ rules[i].isActive \in BOOLEAN
                              /\ DOMAIN rules[i].enrichment = Keys

ASSUME EvaluationAssumption ==
    /\ NoTime \notin Int
    /\ \A call \in Calls :
          /\ call.now \in Int
          /\ IsRuleList(call.list)
          /\ \A i \in DOMAIN call.list :
                Outcome(call.list[i], call.order) \in {"true", "false", "raise"}

VARIABLES
    pc,         \* "idle", "loop", "decided" or "raised"
    order,      \* the argument `order`
    list,       \* the argument `rules`
    now,        \* the argument `now`
    todo,       \* positions in the list that are valid and not yet tried
    matched,    \* positions of matched_rules, in order
    fields,     \* enriched_fields
    payload     \* what is built from the decision

args == <<order, list, now>>
vars == <<pc, args, todo, matched, fields, payload>>

NoFields == [k \in Keys |-> Absent]

Init ==
    /\ pc = "idle"
    /\ order = NoOrder /\ list = <<>> /\ now = 0
    /\ todo = {}
    /\ matched = <<>>
    /\ fields = NoFields
    /\ payload = NoPayload

\* A call begins; the list is filtered.
Begin ==
    /\ pc = "idle"
    /\ pc' = "loop"
    /\ \E call \in Calls : order' = call.order /\ list' = call.list /\ now' = call.now
    /\ todo' = {i \in DOMAIN list' : IsValidAt(list'[i], now')}
    /\ matched' = <<>>
    /\ fields' = NoFields
    /\ UNCHANGED payload

\* Mutant of Precedes: the list is not sorted.
Precedes_Unsorted(i, j) == i < j

\* The sort by priority is stable.
Precedes(i, j) ==
    \/ list[i].priority < list[j].priority
    \/ list[i].priority = list[j].priority /\ i < j
IsNext(i) == i \in todo /\ \A j \in todo \ {i} : Precedes(i, j)
OutcomeAt(i) == Outcome(list[i], order)

\* Mutant of Update: the first value stays.
Update_First(e) ==
    fields' = [k \in Keys |-> IF fields[k] = Absent THEN e[k] ELSE fields[k]]

\* dict.update.
Update(e) == fields' = [k \in Keys |-> IF e[k] # Absent THEN e[k] ELSE fields[k]]

TurnMatches ==
    /\ pc = "loop"
    /\ \E i \in todo :
         /\ IsNext(i)
         /\ OutcomeAt(i) = "true"
         /\ todo' = todo \ {i}
         /\ matched' = Append(matched, i)
         /\ Update(list[i].enrichment)
    /\ UNCHANGED <<pc, args, payload>>

TurnFails ==
    /\ pc = "loop"
    /\ \E i \in todo :
         /\ IsNext(i)
         /\ OutcomeAt(i) = "false"
         /\ todo' = todo \ {i}
    /\ UNCHANGED <<pc, args, matched, fields, payload>>

\* Mutant of TurnRaises: a rule that raises is left out.
TurnRaises_Skipped ==
    /\ pc = "loop"
    /\ \E i \in todo :
         /\ IsNext(i)
         /\ OutcomeAt(i) = "raise"
         /\ todo' = todo \ {i}
    /\ UNCHANGED <<pc, args, matched, fields, payload>>

\* Nobody catches it before run_once does: the evaluation has no decision.
TurnRaises ==
    /\ pc = "loop"
    /\ \E i \in todo : IsNext(i) /\ OutcomeAt(i) = "raise"
    /\ pc' = "raised"
    /\ UNCHANGED <<args, todo, matched, fields, payload>>

\* The payload of a decision that has matches: applied_rule_details and
\* enriched_fields, copied from the decision.
HasMatches == matched # <<>>
Payload ==
    [appliedRules |-> [n \in DOMAIN matched |->
        [ruleId |-> list[matched[n]].ruleId, priority |-> list[matched[n]].priority]],
     enrichedFields |-> fields]

Decide ==
    /\ pc = "loop"
    /\ todo = {}
    /\ pc' = "decided"
    /\ payload' = IF HasMatches THEN Payload ELSE NoPayload
    /\ UNCHANGED <<args, todo, matched, fields>>

\* The caller has the decision or the exception; what the call kept is gone.
Return ==
    /\ pc \in {"decided", "raised"}
    /\ pc' = "idle"
    /\ order' = NoOrder /\ list' = <<>> /\ now' = 0
    /\ todo' = {} /\ matched' = <<>> /\ fields' = NoFields /\ payload' = NoPayload

Next == Begin \/ TurnMatches \/ TurnFails \/ TurnRaises \/ Decide \/ Return

Spec == Init /\ [][Next]_vars

-----------------------------------------------------------------------------
\* Types; no rule is tried twice, and nothing is left over between two calls.
TypeOK ==
    /\ pc \in {"idle", "loop", "decided", "raised"}
    /\ IsRuleList(list)
    /\ now \in Int
    /\ todo \subseteq DOMAIN list
    /\ matched \in Seq(DOMAIN list)
    /\ \A n \in DOMAIN matched : matched[n] \notin todo
    /\ DOMAIN fields = Keys
    /\ pc = "idle" => matched = <<>> /\ fields = NoFields

\* The valid rules that the order satisfies, up to those that are not tried yet.
Satisfied ==
    {i \in DOMAIN list \ todo : IsValidAt(list[i], now) /\ OutcomeAt(i) = "true"}

\* The decision names every valid rule that the order satisfies, and no other,
\* each once and in the order of the priorities, whatever the order of the list.
MatchedInOrder ==
    pc \in {"loop", "decided"} =>
        /\ {matched[n] : n \in DOMAIN matched} = Satisfied
        /\ \A m, n \in DOMAIN matched : m < n =>
              list[matched[m]].priority <= list[matched[n]].priority

\* Under each key stands what the satisfied rule of the greatest priority says
\* that has the key at all (the last one in the list, among equals).
GreatestPriorityWins ==
    pc \in {"loop", "decided"} => \A k \in Keys :
        LET having == {i \in Satisfied : list[i].enrichment[k] # Absent}
        IN IF having = {} THEN fields[k] = Absent
           ELSE \E i \in having : /\ fields[k] = list[i].enrichment[k]
                                  /\ \A j \in having \ {i} : Precedes(j, i)

\* A rule that cannot be evaluated stops every order it is valid for, whatever
\* its priority, and a rule that is not valid stops none.
BadRuleStopsOrder ==
    LET bad == \E i \in DOMAIN list : IsValidAt(list[i], now) /\ OutcomeAt(i) = "raise"
    IN (pc = "raised" => bad) /\ (pc = "decided" => ~bad)

\* The inductive invariant of the loop.
LoopInvariant ==
    /\ TypeOK
    /\ pc = "loop" => \A i \in todo : IsValidAt(list[i], now)
    /\ pc = "loop" => \A i \in DOMAIN list \ todo :
          IsValidAt(list[i], now) =>
             OutcomeAt(i) # "raise" /\ \A j \in todo : Precedes(i, j)
    /\ MatchedInOrder
    /\ GreatestPriorityWins
    /\ BadRuleStopsOrder
=============================================================================
