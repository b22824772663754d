---------------------------- MODULE MCRuleCache -----------------------------
(***************************************************************************)
(* The rule table with everybody who uses it, for TLC: daemons' caches     *)
(* (RuleCache), runs of seed-rules and maintainers (RuleSeeding).  The     *)
(* maintainers have a rule of one zone, which they deactivate or replace,  *)
(* and add one of another zone; the baseline rules are for every zone.     *)
(***************************************************************************)
EXTENDS RuleCache

Row(id, zone, active, from, to, content) ==
    [ruleId |-> id, clientCode |-> NoCode, facilityCode |-> NoCode, zoneCode |-> zone,
     isActive |-> active, validFrom |-> from, validTo |-> to, content |-> content]

ZoneRule == Row("r", "z1", TRUE, NoTime, 1, "old")
ZoneRows == {[ZoneRule EXCEPT !.isActive = FALSE],
             Row("r", "z1", TRUE, 1, NoTime, "new"),
             Row("q", "z2", TRUE, NoTime, NoTime, "old")}
OneZoneRule == {{ZoneRule}}
BaselineRules == {Row("b1", NoCode, TRUE, 0, NoTime, "old"), Row("b2", NoCode, TRUE, 0, NoTime, "old")}
Scope(zone) == [client |-> "c", facility |-> NoCode, zone |-> zone]
TwoScopes == {Scope("z1"), Scope(NoCode)}
=============================================================================
