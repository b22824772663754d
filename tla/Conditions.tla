----------------------------- MODULE Conditions -----------------------------
(***************************************************************************)
(* The condition language of the rules: RuleSpecificationFactory builds a  *)
(* specification from a rule's conditions_json, and the specification is   *)
(* asked whether it is satisfied by an order.  Either may raise.           *)
(*                                                                         *)
(* Python values are records with a kind: numbers, texts, lists, the       *)
(* objects of the domain (which are hashable) and dictionaries, for JSON   *)
(* objects.  A text is a sequence of words; contains, starts_with and      *)
(* ends_with look for words in it (a word stands for the characters a rule *)
(* writes, a number prints as one word, a key is one word).  A list has no *)
(* list in it.  A condition is a record: of its parts under "and" or "or", *)
(* or else of field, op and value, where an absent field or op is empty,   *)
(* and an absent value None, as dict.get has it.                           *)
(***************************************************************************)
EXTENDS Integers, SequencesExt

CONSTANTS
    Trees,         \* the conditions_json there are, and the objects in them
    Height(_),     \* how deep a condition is nested
    LowerCase,     \* str.lower of the words that it changes: a function
    Rank,          \* the alphabetical order of words: a function
    MaxPattern,    \* words in the longest regex that is accepted (128 characters)
    Compiles(_),   \* Python's re: a regex has no error in it
    Found(_, _)    \* Python's re: there is a match of the regex in a text

ASSUME WordsAssumption ==
    \A v, w \in DOMAIN Rank : Rank[v] \in Int /\ (Rank[v] = Rank[w] => v = w)

None == [kind |-> "None"]
Num(n) == [kind |-> "num", num |-> n]
Text(words) == [kind |-> "str", words |-> words]
List(items) == [kind |-> "list", items |-> items]
Object(attrs) == [kind |-> "object", attrs |-> attrs]
Dict(attrs) == [kind |-> "dict", attrs |-> attrs]

\* How an evaluation ends.
Outcomes == {"true", "false", "raise"}
Truth(b) == IF b THEN "true" ELSE "false"

-----------------------------------------------------------------------------
\* The value at a dotted path, None as soon as there is no such attribute.
Extract(order, path) ==
    LET attr(value, token) ==
            IF value.kind \in {"object", "dict"} /\ token \in DOMAIN value.attrs
            THEN value.attrs[token] ELSE None
    IN FoldLeft(attr, order, path)

AllowedOps == {"eq", "neq", "gt", "gte", "lt", "lte", "contains", "in", "not_in",
               "starts_with", "ends_with", "exists", "regex"}

\* str(value) as words; what objects and dictionaries print as is nobody's
\* condition.
ScalarStr(v) ==
    CASE v.kind = "str" -> v.words
      [] v.kind = "num" -> <<ToString(v.num)>>
      [] OTHER -> <<v.kind>>
Str(v) ==
    IF v.kind # "list" THEN ScalarStr(v)
    ELSE <<"[">> \o FoldLeft(LAMBDA s, item : s \o ScalarStr(item), <<>>, v.items) \o <<"]">>
Lower(words) ==
    [i \in DOMAIN words |-> IF words[i] \in DOMAIN LowerCase THEN LowerCase[words[i]]
                            ELSE words[i]]
Occurs(part, whole) ==
    \E i \in 0 .. Len(whole) - Len(part) : SubSeq(whole, i + 1, i + Len(part)) = part

\* How far two sequences are equal, and whether one comes before the other: it
\* ends first, or its first different item is less.
Agreement(a, b) ==
    Min({i \in 0 .. Min({Len(a), Len(b)}) : i \in {Len(a), Len(b)} \/ a[i + 1] # b[i + 1]})
ComesBefore(a, b, lessAt(_)) ==
    LET k == Agreement(a, b) IN k < Len(b) /\ (k = Len(a) \/ lessAt(k + 1))

\* Numbers compare with numbers, texts with texts in alphabetical order, and
\* lists with lists up to the first different item; other pairs raise.
SameSort(v, w) == v.kind = w.kind /\ v.kind \in {"num", "str"}
ScalarLess(v, w) ==
    IF v.kind = "num" THEN v.num < w.num
    ELSE ComesBefore(v.words, w.words, LAMBDA i : Rank[v.words[i]] < Rank[w.words[i]])
Less(v, w) ==
    IF v.kind # "list" THEN ScalarLess(v, w)
    ELSE ComesBefore(v.items, w.items, LAMBDA i : ScalarLess(v.items[i], w.items[i]))
ListsCompare(a, b) ==
    LET k == Agreement(a, b) IN k \in {Len(a), Len(b)} \/ SameSort(a[k + 1], b[k + 1])
CanCompare(v, w) ==
    \/ SameSort(v, w)
    \/ v.kind = "list" /\ w.kind = "list" /\ ListsCompare(v.items, w.items)
Compare(left, right, less, equal) ==
    IF CanCompare(left, right) THEN Truth(less \/ equal) ELSE "raise"

\* Python's `in`: an item of a list, a part of a text, a key of a dictionary
\* (which needs something hashable), else TypeError.
IsKey(v, attrs) == v.kind = "str" /\ Len(v.words) = 1 /\ v.words[1] \in DOMAIN attrs
Within(left, right) ==
    CASE right.kind = "list" -> Truth(\E i \in DOMAIN right.items : right.items[i] = left)
      [] right.kind = "str" /\ left.kind = "str" -> Truth(Occurs(left.words, right.words))
      [] right.kind = "dict" /\ left.kind \notin {"list", "dict"} ->
            Truth(IsKey(left, right.attrs))
      [] OTHER -> "raise"

Negate(outcome) ==
    CASE outcome = "true" -> "false" [] outcome = "false" -> "true" [] OTHER -> "raise"

\* The operators on a value that is there, `value` being None when the rule
\* gives no value.
Apply(op, left, value) ==
    CASE op = "eq" -> Truth(left = value)
      [] op = "neq" -> Truth(left # value)
      [] op = "gt" -> Compare(left, value, Less(value, left), FALSE)
      [] op = "gte" -> Compare(left, value, Less(value, left), left = value)
      [] op = "lt" -> Compare(left, value, Less(left, value), FALSE)
      [] op = "lte" -> Compare(left, value, Less(left, value), left = value)
      [] op = "contains" -> Truth(Occurs(Lower(Str(value)), Lower(Str(left))))
      [] op = "in" -> Within(left, value)
      [] op = "not_in" -> Negate(Within(left, value))
      [] op = "starts_with" -> Truth(IsPrefix(Str(value), Str(left)))
      [] op = "ends_with" -> Truth(IsSuffix(Str(value), Str(left)))
      [] op = "regex" -> IF Len(Str(value)) > MaxPattern \/ ~Compiles(Str(value)) THEN "raise"
                         ELSE Truth(Found(Str(value), Str(left)))
      [] OTHER -> "false"

\* Mutant of Predicate: a missing value is compared like any other.
Predicate_NoNoneCheck(leaf, order) ==
    LET left == Extract(order, leaf.field)
    IN IF leaf.op = "exists" THEN Truth(left # None) ELSE Apply(leaf.op, left, leaf.value)

\* PredicateSpecification.is_satisfied_by.
Predicate(leaf, order) ==
    LET left == Extract(order, leaf.field)
    IN CASE leaf.op = "exists" -> Truth(left # None)
         [] leaf.op # "exists" /\ left = None -> "false"
         [] OTHER -> Apply(leaf.op, left, leaf.value)

-----------------------------------------------------------------------------
\* "and" wins over "or", and both over a predicate.
IsAnd(c) == "and" \in DOMAIN c
IsOr(c) == ~IsAnd(c) /\ "or" \in DOMAIN c
IsLeaf(c) == ~IsAnd(c) /\ ~IsOr(c)
Parts(c) == IF IsAnd(c) THEN c.and ELSE c.or

\* A JSON value is finite: what is in it is less deep than itself.
ASSUME TreesAssumption ==
    \A c \in Trees :
        /\ Height(c) \in Nat
        /\ IsLeaf(c) => c = [field |-> c.field, op |-> c.op, value |-> c.value]
        /\ ~IsLeaf(c) => /\ Parts(c) \in Seq(Trees)
                         /\ \A i \in DOMAIN Parts(c) : Height(Parts(c)[i]) < Height(c)

WellFormedLeaf(c) == c.field # <<>> /\ c.op \in AllowedOps

\* Mutant of Builds: only the first part of a list is looked at.
Builds_First(c) ==
    IF IsLeaf(c) THEN WellFormedLeaf(c)
    ELSE Parts(c) # <<>> => (IsLeaf(Parts(c)[1]) => WellFormedLeaf(Parts(c)[1]))

\* from_json: the whole tree is built before any of it is evaluated, and one
\* ill-formed part anywhere raises.
Builds(c) ==
    LET builds[d \in Trees] ==
            IF IsLeaf(d) THEN WellFormedLeaf(d)
            ELSE \A i \in DOMAIN Parts(d) : builds[Parts(d)[i]]
    IN builds[c]

\* Mutant of FirstUnlike: the last one decides.
FirstUnlike_Last(neutral, outcomes) == IF outcomes = <<>> THEN neutral ELSE Last(outcomes)

\* all() and any() stop at the first outcome that is not the neutral one.
FirstUnlike(neutral, outcomes) ==
    LET others == {i \in DOMAIN outcomes : outcomes[i] # neutral}
    IN IF others = {} THEN neutral ELSE outcomes[Min(others)]

\* all() and any() of the parts; a predicate asks the order.
IsSatisfied(c, order) ==
    LET satisfied[d \in Trees] ==
            IF IsLeaf(d) THEN Predicate(d, order)
            ELSE FirstUnlike(IF IsAnd(d) THEN "true" ELSE "false",
                             [i \in DOMAIN Parts(d) |-> satisfied[Parts(d)[i]]])
    IN satisfied[c]

\* What one turn of the loop of RuleEvaluationService.evaluate finds out.
ConditionOutcome(c, order) == IF Builds(c) THEN IsSatisfied(c, order) ELSE "raise"
=============================================================================
