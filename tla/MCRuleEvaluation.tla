-------------------------- MODULE MCRuleEvaluation --------------------------
(***************************************************************************)
(* SeedEngine for TLC.  The calls are about                                *)
(*   - conditions: one rule whose condition is any predicate over the      *)
(*     attributes of nine orders, or a tree of up to three levels.         *)
(*   - lists of rules: every list of up to three of six rules, at the ends *)
(*     of their intervals of validity, and all the seeded rules that the   *)
(*     database lists for orders of some clients, on the day of the        *)
(*     seeding.                                                            *)
(***************************************************************************)
EXTENDS SeedEngine

LowerCaseOfWords == [w \in {"Via", "Roma"} |-> IF w = "Via" THEN "via" ELSE "roma"]
RankOfWords == [w \in {"(", ".", "7", "Roma", "Via", "roma", "via"} |->
    CASE w = "(" -> 1 [] w = "." -> 2 [] w = "7" -> 3 [] w = "Roma" -> 4 [] w = "Via" -> 5
      [] w = "roma" -> 6 [] OTHER -> 7]

\* A parenthesis that is not closed is an error, as are the two brackets of an
\* empty list (another list prints longer than MaxPattern); a point matches any
\* word.
CompilesAsRegex(pattern) == ToSet(pattern) \cap {"(", "["} = {}
FoundAsRegex(pattern, text) ==
    \E i \in 0 .. Len(text) - Len(pattern) :
        \A j \in DOMAIN pattern : pattern[j] \in {".", text[i + j]}

EngineKeys == {"lane", "source", "treatment", "zone", "constraints"}
Enrichment(lane, zone) ==
    [lane |-> lane, source |-> NoValue, treatment |-> NoValue, zone |-> zone,
     constraints |-> NoValue]
Rule(id, priority, from, to, active, condition, lane, zone) ==
    [ruleId |-> id, clientCode |-> NoCode, facilityCode |-> NoCode, zoneCode |-> NoCode,
     priority |-> priority, isActive |-> active, conditions |-> condition,
     enrichment |-> Enrichment(lane, zone), validFrom |-> from, validTo |-> to]
Call(o, rules, t) == [order |-> o, list |-> rules, now |-> t]

-----------------------------------------------------------------------------
\* An order has a weight, may have a zone, and has an address and lines; one has
\* a list for a zone, as the client takes what the response has.
Via == Text(<<"Via", "Roma">>)
Lines(n) == List([i \in 1 .. n |-> Object([uom |-> Text(<<"Via">>)])])
PlainOrder(weight, zone, line, n) ==
    Object([weight |-> Num(weight), zone |-> zone, lines |-> Lines(n),
            address |-> Object([line |-> line, city |-> Text(<<"Roma">>)])])
PlainOrders ==
    {PlainOrder(w, z, l, IF w = 0 THEN 0 ELSE 1) :
        w \in {0, 7}, z \in {None, Text(<<"via">>)}, l \in {Via, Text(<<>>)}}
       \cup {PlainOrder(7, List(<<Num(7), Via>>), Via, 0)}
Paths == {<<"weight">>, <<"zone">>, <<"address">>, <<"address", "line">>, <<"lines">>,
          <<"address", "line", "city">>, <<"line">>, <<>>}
Values == {None, Num(7), Num(3), Text(<<"via">>), Text(<<"Via">>), Via, Text(<<>>),
           Text(<<"7">>), Text(<<"Via", "Roma", "Via">>), Text(<<"(">>), Text(<<"Via", ".">>),
           List(<<>>), List(<<Num(7), Via>>), List(<<Num(7), Num(3)>>), List(<<Num(3)>>),
           Dict([via |-> Num(7)])}
Predicates == {Is(f, op, v) : f \in Paths, op \in AllowedOps \cup {"like", ""}, v \in Values}

\* Leaves that are true, false or raise, depending on the order or not.
Heavy == Is(<<"weight">>, "gte", Num(7))
HasZone == Is(<<"zone">>, "exists", None)
OnVia == Is(<<"address", "line">>, "contains", Text(<<"via">>))
Incomparable == Is(<<"weight">>, "lt", Via)
IllFormed == Is(<<"weight">>, "like", Num(7))
Chosen == {Heavy, HasZone, OnVia, Incomparable, IllFormed}
And(parts) == [and |-> parts]
Or(parts) == [or |-> parts]
Pairs == UNION {{And(p), Or(p)} : p \in BoundedSeq(Chosen, 2)}
Nested == UNION {{And(<<p, q>>), Or(<<p, q>>), And(<<Or(<<p, q>>), p>>)} :
                    p \in Pairs, q \in Chosen}
         \cup {[and |-> <<p>>, or |-> <<q>>] : p \in Chosen, q \in Chosen}
AnyConditions == UNION {Predicates, Pairs, Nested}
ConditionRules == {Rule("r0", 1, NoTime, NoTime, TRUE, c, "ES00", NoValue) : c \in AnyConditions}

-----------------------------------------------------------------------------
\* Two of equal priority that may match both, one of them with an end and the
\* other with a beginning, one that raises and begins late, one that contributes
\* after it, one that is inactive and ill-formed.
SixRules == {
    Rule("r1", 1, NoTime, NoTime, TRUE, And(<<>>), "ES01", "Z1"),
    Rule("r2", 2, NoTime, 1, TRUE, Heavy, "ES02", NoValue),
    Rule("r3", 2, 1, NoTime, TRUE, Or(<<HasZone, OnVia>>), NoValue, "Z3"),
    Rule("r4", 3, 2, 2, TRUE, And(<<OnVia, Incomparable>>), "ES04", "Z4"),
    Rule("r5", 4, NoTime, NoTime, TRUE, OnVia, "ES05", NoValue),
    Rule("r6", 0, NoTime, NoTime, FALSE, IllFormed, "ES06", NoValue)}
ListsOfThree == UNION {SetToSeqs(S) : S \in UNION {kSubset(k, SixRules) : k \in 0 .. 3}}
Lists == (ListsOfThree \X {0, 1, 2}) \cup {<<<<r>>, 0>> : r \in ConditionRules}
PlainCalls == {Call(o, rules[1], rules[2]) : o \in PlainOrders, rules \in Lists}

-----------------------------------------------------------------------------
\* Voluminous orders from Via Roma 10, heavy or without a weight.
SeedOrders ==
    {Object([priority |-> Num(5), total_weight_kg |-> weight, total_volume_m3 |-> Num(120),
             destination_address |-> Object([country_code |-> Text(<<country>>)]),
             source_address |-> Object([address_line_1 |-> Text(<<"Via", "Roma", "10">>)])]) :
        weight \in {Num(40), None}, country \in {"ES", "IT"}}
ClientScope(client) ==
    [client |-> Code("SIMC", <<client>>),
     facility |-> Code("SIMF", <<client, Facility(client)>>), zone |-> NoCode]

SeededInOrder ==
    [i \in 1 .. BulkCount |-> BulkRule(i)]
        \o [i \in 1 .. LongTailCount |-> LongTailRule(i)] \o SetToSeq(Baseline)
ByPriority(s) ==
    LET precedes(i, j) == \/ s[i].priority < s[j].priority
                          \/ s[i].priority = s[j].priority /\ i < j
        positions == SortSeq([i \in DOMAIN s |-> i], precedes)
    IN [k \in DOMAIN s |-> s[positions[k]]]
Listed(client) ==
    LET rows == ListActiveRules(SeededRules, 0, ClientScope(client))
    IN ByPriority(SelectSeq(SeededInOrder, LAMBDA r : r \in rows))
SeedCalls == {Call(o, Listed(client), 0) : o \in SeedOrders, client \in {1, 4, 12}}

AllCalls == SeedCalls \cup PlainCalls

\* Conditions with what is in them.
RECURSIVE WithParts(_)
WithParts(c) == {c} \cup (IF IsLeaf(c) THEN {} ELSE UNION {WithParts(p) : p \in ToSet(Parts(c))})
RECURSIVE HeightOf(_)
HeightOf(c) ==
    IF IsLeaf(c) THEN 0 ELSE 1 + Max({0} \cup {HeightOf(p) : p \in ToSet(Parts(c))})
TreesOf(conditions) == UNION {WithParts(c) : c \in conditions}
AllTrees == TreesOf(AnyConditions) \cup TreesOf({r.conditions : r \in SixRules \cup SeededRules})

\* TLC keeps the value of a definition, but not that of a constant's substitute.
EngineTrees == AllTrees
OutcomeOf(rule, o) == ConditionOutcome(rule.conditions, o)
=============================================================================
