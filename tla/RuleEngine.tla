------------------------------ MODULE RuleEngine ------------------------------
(***************************************************************************)
(* The rule engine as a whole: RuleEvaluation, asking the conditions of    *)
(* Conditions.  A rule is the row of RuleRepository, whose conditions are  *)
(* a tree.                                                                 *)
(***************************************************************************)
EXTENDS RuleEvaluation, Conditions

\* Numbers, texts and lists of them as they are compared with each other.
Ordered == {"gt", "gte", "lt", "lte"}
IsScalar(v) ==
    /\ v.kind = "num" => v.num \in Int /\ v = Num(v.num)
    /\ v.kind = "str" => v.words \in Seq(DOMAIN Rank) /\ v = Text(v.words)
IsComparable(v) ==
    /\ IsScalar(v)
    /\ v.kind = "list" =>
         /\ v = List(v.items) /\ v.items \in Seq({v.items[i] : i \in DOMAIN v.items})
         /\ \A i \in DOMAIN v.items : v.items[i].kind # "list" /\ IsScalar(v.items[i])

ASSUME EngineAssumption ==
    \A call \in Calls : \A i \in DOMAIN call.list :
        LET c == call.list[i].conditions
        IN /\ c \in Trees
           /\ Outcome(call.list[i], call.order) = ConditionOutcome(c, call.order)
           /\ IsLeaf(c) /\ c.op \in Ordered =>
                 IsComparable(c.value) /\ IsComparable(Extract(call.order, c.field))

-----------------------------------------------------------------------------
\* The predicates of a tree, and the sets of them that suffice to satisfy it.
Leaves(c) ==
    LET leaves[d \in Trees] ==
            IF IsLeaf(d) THEN {d} ELSE UNION {leaves[p] : p \in ToSet(Parts(d))}
    IN leaves[c]
Clauses(c) ==
    LET clauses[d \in Trees] ==
            IF IsLeaf(d) THEN {{d}}
            ELSE LET ofParts == {clauses[p] : p \in ToSet(Parts(d))}
                 IN IF IsAnd(d) THEN {UNION choice : choice \in Choices(ofParts)}
                    ELSE UNION ofParts
    IN clauses[c]

ValidAt == {i \in DOMAIN list : IsValidAt(list[i], now)}
Condition(i) == list[i].conditions
Matches(i) == \E n \in DOMAIN matched : matched[n] = i

\* One ill-formed predicate anywhere in one valid rule keeps the order from any
\* decision, also where the order would never let it be reached: a broken rule
\* shows at once (rule_specification_factory.py builds the whole tree first).
IllFormedRaises ==
    pc = "decided" => \A i \in ValidAt : \A leaf \in Leaves(Condition(i)) : WellFormedLeaf(leaf)

\* A rule none of whose predicates raises does not stop the order, and matches
\* exactly when one of its clauses holds: and, or and their nesting mean what
\* they say, an empty "and" is always satisfied, an empty "or" never.
Harmless(c) == \A leaf \in Leaves(c) : WellFormedLeaf(leaf) /\ Predicate(leaf, order) # "raise"
Holds(c) == \E clause \in Clauses(c) : \A leaf \in clause : Predicate(leaf, order) = "true"
MeansItsClauses ==
    /\ pc = "raised" => \E i \in ValidAt : ~Harmless(Condition(i))
    /\ pc = "decided" =>
          \A i \in ValidAt : Harmless(Condition(i)) => (Matches(i) <=> Holds(Condition(i)))

Opposite == [op \in {"eq", "gt", "lt", "in"} |->
    CASE op = "eq" -> "neq" [] op = "gt" -> "lte" [] op = "lt" -> "gte" [] OTHER -> "not_in"]
LeafOutcome(leaf) == IF WellFormedLeaf(leaf) THEN Predicate(leaf, order) ELSE "raise"

\* Of two rules that differ in an operator and its opposite, exactly one matches
\* an order that has the attribute, or both stop it; an order without the
\* attribute (None, or no such path) neither matches nor is stopped by either.
OppositesDisagree ==
    LET comparable(i) == /\ IsLeaf(Condition(i)) /\ Condition(i).op \in DOMAIN Opposite
                         /\ Condition(i).field # <<>>
        opposite(i) == LeafOutcome([Condition(i) EXCEPT !.op = Opposite[@]])
        present(i) == Extract(order, Condition(i).field) # None
    IN /\ pc = "decided" => \A i \in ValidAt : comparable(i) =>
             opposite(i) = Truth(present(i) /\ ~Matches(i))
       /\ pc = "raised" /\ Len(list) = 1 =>
             (comparable(1) => present(1) /\ opposite(1) = "raise")
=============================================================================
