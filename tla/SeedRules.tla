----------------------------- MODULE SeedRules ------------------------------
(***************************************************************************)
(* The rules the repository itself brings along: 3200 bulk rules and 2800  *)
(* long-tail rules of the migrations 0002 and 0003, and the two baseline   *)
(* rules of the seed-rules command.  Times are days since the seeding,     *)
(* volumes thousandths of a cubic metre.                                   *)
(***************************************************************************)
EXTENDS RuleRepository, Conditions

BulkCount == 3200
LongTailCount == 2800

Code(prefix, numbers) == FoldLeft(LAMBDA s, n : s \o "-" \o ToString(n), prefix, numbers)
\* No value under a key of enrichment_json.
NoValue == "no value"

Client(i) == ((i - 1) % 60) + 1
Facility(i) == ((i - 1) % 3) + 1
Is(field, op, value) == [field |-> field, op |-> op, value |-> value]
Country == <<"destination_address", "country_code">>
Line1 == <<"source_address", "address_line_1">>

BulkCountry(i) == <<"ES", "FR", "DE", "IT", "PT", "NL">>[(i % 6) + 1]

\* Mutant of BulkConditions: the greatest priority is given as a text.
BulkConditions_TextValue(i) ==
    [and |-> <<Is(Country, "eq", Text(<<BulkCountry(i)>>)),
               Is(<<"priority">>, "lte", Text(<<"5">>))>>]

BulkConditions(i) ==
    [and |-> <<Is(Country, "eq", Text(<<BulkCountry(i)>>)),
               Is(<<"total_weight_kg">>, "gte", Num((i % 30) + 1)),
               Is(Line1, "contains", Text(<<"Via">>)),
               Is(<<"priority">>, "lte", Num(5))>>]

\* Row i of migration 0002.
BulkRule(i) ==
    [ruleId |-> Code("BULK", <<i>>),
     clientCode |-> Code("SIMC", <<Client(i)>>),
     facilityCode |-> Code("SIMF", <<Client(i), Facility(i)>>),
     zoneCode |-> IF i % 4 # 0 THEN NoCode ELSE Code("SIMZ", <<Client(i), Facility(i), 1>>),
     priority |-> (i % 250) + 1,
     isActive |-> TRUE,
     conditions |-> BulkConditions(i),
     enrichment |-> [lane |-> Code(BulkCountry(i), <<(i % 7) + 1>>),
                     source |-> Code("SRC", <<(i % 12) + 1>>),
                     treatment |-> IF i % 3 # 0 THEN "STANDARD" ELSE "PRIORITY",
                     zone |-> Code("Z", <<(i % 18) + 1>>),
                     constraints |-> Code("CONSTRAINTS", <<i % 5, i % 3>>)],
     validFrom |-> -(i % 10),
     validTo |-> IF i % 9 # 0 THEN NoTime ELSE 180]

\* Mutant of LongTailPriority: a digit short.
LongTailPriority_Short(i) == 30 + (i % 40)

LongTailPriority(i) == 300 + (i % 400)

\* Row i of migration 0003.  A long-tail rule says nothing about constraints.
LongTailRule(i) ==
    LET country == <<"ES", "FR", "DE", "IT", "PT", "NL", "BE", "AT">>[(i % 8) + 1]
        op == <<"contains", "starts_with", "ends_with">>[(i % 3) + 1]
    IN [ruleId |-> Code("LTAIL", <<i>>),
        clientCode |-> Code("SIMC", <<Client(i)>>),
        facilityCode |-> IF i % 6 # 0 THEN NoCode
                         ELSE Code("SIMF", <<Client(i), Facility(i)>>),
        zoneCode |-> NoCode,
        priority |-> LongTailPriority(i),
        isActive |-> TRUE,
        conditions |-> [or |-> <<
            [and |-> <<Is(Country, "eq", Text(<<country>>)),
                       Is(Line1, op, Text(<<IF op # "ends_with" THEN "Via" ELSE "10">>))>>],
            [and |-> <<Is(<<"total_volume_m3">>, "gt", Num((i % 20) * 50)),
                       Is(<<"priority">>, "in", List([n \in 1 .. 5 |-> Num(n)]))>>]>>],
        enrichment |-> [lane |-> Code("LN-" \o country, <<(i % 9) + 1>>),
                        source |-> Code("LTAIL", <<(i % 40) + 1>>),
                        treatment |-> IF i % 4 = 0 THEN "BULK" ELSE "STANDARD",
                        zone |-> Code("LT", <<(i % 30) + 1>>),
                        constraints |-> NoValue],
        validFrom |-> -(i % 45),
        validTo |-> IF i % 8 = 0 THEN 365 ELSE NoTime]

\* The baseline rules of seed-rules, seeded at day zero.
Baseline ==
    LET rule(id, client, facility, priority, condition, lane, source, treatment, zone) ==
            [ruleId |-> id, clientCode |-> client, facilityCode |-> facility,
             zoneCode |-> NoCode, priority |-> priority, isActive |-> TRUE,
             conditions |-> [and |-> <<condition>>],
             enrichment |-> [lane |-> lane, source |-> source, treatment |-> treatment,
                             zone |-> zone, constraints |-> NoValue],
             validFrom |-> 0, validTo |-> NoTime]
    IN {rule("RULE-DEST-ES-001", NoCode, NoCode, 10,
             Is(Country, "eq", Text(<<"ES">>)), "ES01", NoValue, "STANDARD", NoValue),
        rule("RULE-ORIGIN-ROMA-002", "DHL", "FC-MIL-01", 20,
             Is(Line1, "contains", Text(<<"Via", "Roma">>)), NoValue, "SPECIAL_ORIGIN", NoValue,
             "A1")}

SeededRules == {BulkRule(i) : i \in 1 .. BulkCount}
                  \cup {LongTailRule(i) : i \in 1 .. LongTailCount} \cup Baseline
=============================================================================
