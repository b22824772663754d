------------------------------ MODULE SeedEngine ------------------------------
(***************************************************************************)
(* The rule engine on the rules the repository brings along.               *)
(***************************************************************************)
EXTENDS SeedRules, RuleEngine

\* What a long-tail rule says something about.
LongTailKeys == {"lane", "source", "treatment", "zone"}

ASSUME SeedAssumption ==
    \A i \in 1 .. LongTailCount : \A k \in LongTailKeys : LongTailRule(i).enrichment[k] # Absent

OnlySeeded == \A i \in DOMAIN list : list[i] \in SeededRules
IsLongTail(rule) == "or" \in DOMAIN rule.conditions

\* The attributes that the seeded rules compare with a number.
Measures == {<<"priority">>, <<"total_weight_kg">>, <<"total_volume_m3">>}
HasMeasures(o) == \A path \in Measures : Extract(o, path) = None \/ Extract(o, path).kind = "num"

\* Whichever of the seeded rules are listed, and whatever else is in the order:
\* none of them stops an order whose measures are numbers or missing (the client
\* takes them from the response as they are, manhattan_simulator_client.py:98-103).
SeededRulesNeverRaise == pc = "raised" /\ OnlySeeded => ~HasMeasures(order)

\* An order that a seeded long-tail rule matches gets its lane, source, treatment
\* and zone from one and the same long-tail rule, never mixed with those of a
\* bulk or a baseline rule; only the shipping constraints are left from those.
LongTailDecides ==
    LET last == matched[Len(matched)]
    IN OnlySeeded /\ pc = "decided" /\ (\E n \in DOMAIN matched : IsLongTail(list[matched[n]]))
       => /\ IsLongTail(list[last])
          /\ \A k \in LongTailKeys : payload.enrichedFields[k] = list[last].enrichment[k]
=============================================================================
