------------------------- MODULE RuleEvaluationProofs -------------------------
(***************************************************************************)
(* Proofs about RuleEvaluation, for all rules, orders, calls, keys and     *)
(* outcomes of the conditions; about RuleEngine, for conditions of any     *)
(* depth; and about SeedEngine, for all the seeded rules.                  *)
(***************************************************************************)
EXTENDS SeedEngine, WellFoundedInduction, TLAPS

\* The rules that have had their turn were evaluated and precede the others.
DonePrecede ==
    pc = "loop" => \A i \in DOMAIN list \ todo :
        IsValidAt(list[i], now) =>
           OutcomeAt(i) # "raise" /\ \A j \in todo : Precedes(i, j)

TodoValid == pc = "loop" => \A i \in todo : IsValidAt(list[i], now)

LEMMA LoopParts ==
    LoopInvariant <=> /\ TypeOK /\ TodoValid /\ DonePrecede
                      /\ MatchedInOrder /\ GreatestPriorityWins /\ BadRuleStopsOrder
  BY DEF LoopInvariant, TodoValid, DonePrecede

LEMMA ListTyped ==
    ASSUME TypeOK
    PROVE  \A i \in DOMAIN list : list[i].priority \in Int /\ i \in Int
  BY DEF TypeOK, IsRuleList

\* An appended sequence.
LEMMA Appended ==
    ASSUME NEW S, NEW s \in Seq(S), NEW x \in S
    PROVE  /\ Append(s, x) \in Seq(S)
           /\ DOMAIN Append(s, x) = 1 .. Len(s) + 1 /\ DOMAIN s = 1 .. Len(s) /\ Len(s) \in Nat
           /\ \A n \in DOMAIN s : Append(s, x)[n] = s[n]
           /\ Append(s, x)[Len(s) + 1] = x
  OBVIOUS

LEMMA EvaluationInit == Init => LoopInvariant
<1> SUFFICES ASSUME Init PROVE LoopInvariant
  OBVIOUS
<1>1. TypeOK
  BY DEF Init, TypeOK, NoFields, IsRuleList
<1> QED
  BY <1>1 DEF Init, LoopInvariant, MatchedInOrder, GreatestPriorityWins, BadRuleStopsOrder

\* A call begins with nothing done.
LEMMA BeginStep == LoopInvariant /\ Begin => LoopInvariant'
<1> SUFFICES ASSUME LoopInvariant, Begin PROVE LoopInvariant'
  OBVIOUS
<1>1. /\ pc' = "loop" /\ IsRuleList(list') /\ now' \in Int
      /\ todo' = {i \in DOMAIN list' : IsValidAt(list'[i], now')}
      /\ matched' = <<>> /\ fields' = NoFields
  BY EvaluationAssumption DEF Begin
<1>2. TypeOK'
  BY <1>1 DEF TypeOK, NoFields
<1>3. Satisfied' = {}
  BY <1>1 DEF Satisfied, OutcomeAt
<1>4. MatchedInOrder'
  BY <1>1, <1>3 DEF MatchedInOrder
<1>5. GreatestPriorityWins'
  BY <1>1, <1>3 DEF GreatestPriorityWins, NoFields
<1>6. BadRuleStopsOrder' /\ TodoValid' /\ DonePrecede'
  BY <1>1 DEF BadRuleStopsOrder, TodoValid, DonePrecede
<1> QED
  BY <1>2, <1>4, <1>5, <1>6 DEF LoopInvariant, TodoValid, DonePrecede

\* A turn takes the next rule out of todo.
LEMMA TurnDone ==
    ASSUME TypeOK, TodoValid, DonePrecede, pc = "loop", pc' = pc, UNCHANGED <<order, list, now>>,
           NEW i \in todo, IsNext(i), OutcomeAt(i) # "raise", todo' = todo \ {i}
    PROVE  TodoValid' /\ DonePrecede'
<1>1. TodoValid'
  BY DEF TodoValid
<1>2. \A j \in todo' : Precedes(i, j)
  BY DEF IsNext
<1>3. ASSUME NEW x \in DOMAIN list \ todo', IsValidAt(list[x], now)
      PROVE  OutcomeAt(x) # "raise" /\ \A j \in todo' : Precedes(x, j)
  BY <1>2, <1>3 DEF DonePrecede
<1>4. \A x, j : /\ Precedes(x, j)' <=> Precedes(x, j)
                /\ OutcomeAt(x)' = OutcomeAt(x)
  BY DEF Precedes, OutcomeAt
<1>5. DonePrecede'
  BY <1>3, <1>4 DEF DonePrecede
<1> QED
  BY <1>1, <1>5

LEMMA FailsStep == LoopInvariant /\ TurnFails => LoopInvariant'
<1> SUFFICES ASSUME LoopInvariant, TurnFails PROVE LoopInvariant'
  OBVIOUS
<1> USE LoopParts
<1>1. PICK i \in todo : IsNext(i) /\ OutcomeAt(i) = "false" /\ todo' = todo \ {i}
  BY DEF TurnFails
<1>2. pc = "loop" /\ UNCHANGED <<pc, order, list, now, matched, fields>>
  BY DEF TurnFails, args
<1>3. TypeOK'
  BY <1>1, <1>2 DEF TypeOK
<1>4. TodoValid' /\ DonePrecede'
  BY <1>1, <1>2, TurnDone
<1>5. Satisfied' = Satisfied
  BY <1>1, <1>2 DEF Satisfied, OutcomeAt
<1>6. MatchedInOrder'
  BY <1>2, <1>5 DEF MatchedInOrder
<1>7. \A x, j : Precedes(x, j)' <=> Precedes(x, j)
  BY <1>2 DEF Precedes
<1>8. GreatestPriorityWins'
  BY <1>2, <1>5, <1>7 DEF GreatestPriorityWins
<1>9. BadRuleStopsOrder'
  BY <1>2 DEF BadRuleStopsOrder
<1> QED
  BY <1>3, <1>4, <1>6, <1>8, <1>9 DEF LoopInvariant, TodoValid, DonePrecede

LEMMA MatchesStep == LoopInvariant /\ TurnMatches => LoopInvariant'
<1> SUFFICES ASSUME LoopInvariant, TurnMatches PROVE LoopInvariant'
  OBVIOUS
<1>0. TypeOK /\ TodoValid /\ DonePrecede /\ MatchedInOrder /\ GreatestPriorityWins
  BY LoopParts
<1>1. PICK i \in todo : /\ IsNext(i) /\ OutcomeAt(i) = "true"
                        /\ todo' = todo \ {i}
                        /\ matched' = Append(matched, i)
                        /\ Update(list[i].enrichment)
  BY DEF TurnMatches
<1>2. pc = "loop" /\ UNCHANGED <<pc, order, list, now>>
  BY DEF TurnMatches, args
<1>3. i \in DOMAIN list /\ matched \in Seq(DOMAIN list) /\ todo \subseteq DOMAIN list
  BY <1>0, <1>1 DEF TypeOK
<1> DEFINE n == Len(matched) + 1
<1>4. /\ matched' \in Seq(DOMAIN list)
      /\ DOMAIN matched' = 1 .. n /\ DOMAIN matched = 1 .. Len(matched) /\ Len(matched) \in Nat
      /\ \A m \in DOMAIN matched : matched'[m] = matched[m]
      /\ matched'[n] = i
  BY <1>1, <1>3, Appended
<1>5. \A m \in DOMAIN matched' : m \in DOMAIN matched \/ m = n
  BY <1>4
<1>6. fields' = [k \in Keys |-> IF list[i].enrichment[k] # Absent
                               THEN list[i].enrichment[k] ELSE fields[k]]
  BY <1>1 DEF Update
<1>7. TypeOK'
  <2>1. \A m \in DOMAIN matched' : matched'[m] \notin todo'
    BY <1>0, <1>1, <1>4, <1>5 DEF TypeOK
  <2> QED
    BY <1>0, <1>1, <1>2, <1>4, <1>6, <2>1 DEF TypeOK
<1>8. TodoValid' /\ DonePrecede'
  BY <1>0, <1>1, <1>2, TurnDone
<1>9. Satisfied' = Satisfied \cup {i}
  BY <1>0, <1>1, <1>2, <1>3 DEF Satisfied, OutcomeAt, TodoValid
<1>10. \A j \in Satisfied : Precedes(j, i) /\ j \in DOMAIN list
  BY <1>0, <1>1, <1>2 DEF DonePrecede, Satisfied
<1>11. \A j \in Satisfied : list[j].priority <= list[i].priority
  <2>1. \A j \in DOMAIN list : list[j].priority \in Int
    BY <1>0, ListTyped
  <2> QED
    BY <1>3, <1>10, <2>1 DEF Precedes
<1>12. {matched[m] : m \in DOMAIN matched} = Satisfied
  BY <1>0, <1>2 DEF MatchedInOrder
<1>13. {matched'[m] : m \in DOMAIN matched'} = Satisfied'
  <2>1. n \in DOMAIN matched' /\ \A m \in DOMAIN matched : m \in DOMAIN matched'
    BY <1>4
  <2>2. \A x : (\E m \in DOMAIN matched' : x = matched'[m])
               <=> (\E m \in DOMAIN matched : x = matched[m]) \/ x = i
    BY <1>4, <1>5, <2>1
  <2> QED
    BY <1>9, <1>12, <2>2
<1>14. MatchedInOrder'
  <2>1. ASSUME NEW l \in DOMAIN matched', NEW m \in DOMAIN matched', l < m
        PROVE  list[matched'[l]].priority <= list[matched'[m]].priority
    <3>1. l \in DOMAIN matched
      BY <1>4, <2>1
    <3>2. CASE m = n
      <4>1. matched[l] \in Satisfied
        BY <1>12, <3>1
      <4> QED
        BY <1>4, <1>11, <3>1, <3>2, <4>1
    <3>3. CASE m \in DOMAIN matched
      BY <1>0, <1>2, <1>4, <2>1, <3>1, <3>3 DEF MatchedInOrder
    <3> QED
      BY <1>5, <3>2, <3>3
  <2> QED
    BY <1>2, <1>13, <2>1 DEF MatchedInOrder
<1>15. GreatestPriorityWins'
  <2> SUFFICES ASSUME NEW k \in Keys
               PROVE  LET having == {j \in Satisfied' : list[j].enrichment[k] # Absent}
                      IN IF having = {} THEN fields'[k] = Absent
                         ELSE \E j \in having : /\ fields'[k] = list[j].enrichment[k]
                                                /\ \A x \in having \ {j} : Precedes(x, j)
    <3>1. \A x, j : Precedes(x, j)' <=> Precedes(x, j)
      BY <1>2 DEF Precedes
    <3> QED
      BY <1>2, <3>1 DEF GreatestPriorityWins
  <2> DEFINE having == {j \in Satisfied : list[j].enrichment[k] # Absent}
             havingNow == {j \in Satisfied' : list[j].enrichment[k] # Absent}
  <2>1. IF having = {} THEN fields[k] = Absent
        ELSE \E j \in having : /\ fields[k] = list[j].enrichment[k]
                               /\ \A x \in having \ {j} : Precedes(x, j)
    BY <1>0, <1>2 DEF GreatestPriorityWins
  <2>2. CASE list[i].enrichment[k] = Absent
    <3>1. havingNow = having /\ fields'[k] = fields[k]
      BY <1>6, <1>9, <2>2
    <3> QED
      BY <2>1, <3>1
  <2>3. CASE list[i].enrichment[k] # Absent
    <3>1. i \in havingNow /\ fields'[k] = list[i].enrichment[k]
      BY <1>6, <1>9, <2>3
    <3>2. \A x \in havingNow \ {i} : Precedes(x, i)
      BY <1>9, <1>10
    <3> QED
      BY <3>1, <3>2
  <2> QED
    BY <2>2, <2>3
<1>16. BadRuleStopsOrder'
  BY <1>2, LoopParts DEF BadRuleStopsOrder
<1> QED
  BY <1>7, <1>8, <1>14, <1>15, <1>16 DEF LoopInvariant, TodoValid, DonePrecede

\* A rule that raises, and the end of the loop.
LEMMA EndStep ==
    LoopInvariant /\ (TurnRaises \/ Decide \/ UNCHANGED vars) => LoopInvariant'
<1> SUFFICES ASSUME LoopInvariant, TurnRaises \/ Decide \/ UNCHANGED vars
             PROVE  LoopInvariant'
  OBVIOUS
<1>0. TypeOK /\ TodoValid /\ DonePrecede /\ MatchedInOrder /\ GreatestPriorityWins
      /\ BadRuleStopsOrder
  BY LoopParts
<1>1. UNCHANGED <<order, list, now, todo, matched, fields>>
  BY DEF TurnRaises, Decide, vars, args
<1>2. pc' \in {"raised", "decided"} \/ pc' = pc
  BY DEF TurnRaises, Decide, vars
<1>3. TypeOK'
  BY <1>0, <1>1, <1>2 DEF TypeOK, NoFields
<1>4. /\ Satisfied' = Satisfied
      /\ \A x, j : Precedes(x, j)' <=> Precedes(x, j)
      /\ \A x : OutcomeAt(x)' = OutcomeAt(x)
  BY <1>1 DEF Satisfied, Precedes, OutcomeAt
<1>5. pc' \in {"loop", "decided"} => pc \in {"loop", "decided"}
  BY DEF TurnRaises, Decide, vars
<1>6. MatchedInOrder'
  BY <1>0, <1>1, <1>4, <1>5 DEF MatchedInOrder
<1>7. GreatestPriorityWins'
  BY <1>0, <1>1, <1>4, <1>5 DEF GreatestPriorityWins
<1>8. pc' = "loop" => pc = "loop"
  BY DEF TurnRaises, Decide, vars
<1>9. TodoValid' /\ DonePrecede'
  BY <1>0, <1>1, <1>4, <1>8 DEF TodoValid, DonePrecede
<1>10. BadRuleStopsOrder'
  <2>1. CASE TurnRaises
    BY <1>0, <1>1, <1>4, <2>1 DEF TurnRaises, TodoValid, TypeOK, BadRuleStopsOrder
  <2>2. CASE Decide
    BY <1>0, <1>1, <1>4, <2>2 DEF Decide, DonePrecede, BadRuleStopsOrder
  <2>3. CASE UNCHANGED vars
    BY <1>0, <1>1, <1>4, <2>3 DEF vars, BadRuleStopsOrder
  <2> QED
    BY <2>1, <2>2, <2>3
<1> QED
  BY <1>3, <1>6, <1>7, <1>9, <1>10 DEF LoopInvariant, TodoValid, DonePrecede

\* The return leaves nothing behind.
LEMMA ReturnStep == LoopInvariant /\ Return => LoopInvariant'
<1> SUFFICES ASSUME Return PROVE LoopInvariant'
  OBVIOUS
<1>1. TypeOK'
  BY DEF Return, TypeOK, NoFields, IsRuleList
<1> QED
  BY <1>1 DEF Return, LoopInvariant, MatchedInOrder, GreatestPriorityWins, BadRuleStopsOrder

\* The loop of evaluate() keeps its invariant (rule_evaluation_service.py:13-42).
THEOREM LoopCorrect == Spec => []LoopInvariant
<1>1. LoopInvariant /\ [Next]_vars => LoopInvariant'
  BY BeginStep, MatchesStep, FailsStep, EndStep, ReturnStep DEF Next
<1> QED
  BY <1>1, EvaluationInit, PTL DEF Spec

\* A decision names exactly the valid rules the order satisfies, by priority.
THEOREM MatchesAreInOrder == Spec => []MatchedInOrder
<1>1. LoopInvariant => MatchedInOrder
  BY DEF LoopInvariant
<1> QED
  BY <1>1, LoopCorrect, PTL

\* The rule of the greatest priority decides each field
\* (rule_evaluation_service.py:31-33).
THEOREM FieldsAreByPriority == Spec => []GreatestPriorityWins
<1>1. LoopInvariant => GreatestPriorityWins
  BY DEF LoopInvariant
<1> QED
  BY <1>1, LoopCorrect, PTL

\* An order is evaluated unless a rule valid for it raises, and not otherwise.
THEOREM OnlyBadRulesStop == Spec => []BadRuleStopsOrder
<1>1. LoopInvariant => BadRuleStopsOrder
  BY DEF LoopInvariant
<1> QED
  BY <1>1, LoopCorrect, PTL

-----------------------------------------------------------------------------
\* Of the natural numbers in a set that is not empty, one is the least.
LEMMA LeastNatural ==
    ASSUME NEW T, T \subseteq Nat, T # {}
    PROVE  \E n \in T : \A m \in T : n <= m
<1> DEFINE R == OpToRel(<, Nat)
<1>1. IsWellFoundedOn(R, Nat)
  BY NatLessThanWellFounded
<1> HIDE DEF R
<1>2. PICK n \in T : \A m \in T : ~(<<m, n>> \in R)
  BY <1>1, WFMin
<1>3. \A m \in T : ~(m < n)
  BY <1>2 DEF R, OpToRel
<1> QED
  BY <1>3

\* What D says of an element of S and a function depends on what the function is
\* below the element, h being how high an element is.
DependsOnLower(S, V, h, D) ==
    /\ D \in [S \X [S -> V] -> V]
    /\ \A c \in S : \A f, g \in [S -> V] :
          (\A d \in S : h[d] < h[c] => f[d] = g[d]) => D[<<c, f>>] = D[<<c, g>>]
IsSolvable(S, V, D) == \E f \in [S -> V] : f = [c \in S |-> D[<<c, f>>]]

\* A function may be defined by what it is for lower elements.
LEMMA Recursion ==
    ASSUME NEW S, NEW V, V # {}, NEW h \in [S -> Nat], NEW D, DependsOnLower(S, V, h, D)
    PROVE  IsSolvable(S, V, D)
<1> SUFFICES ASSUME D \in [S \X [S -> V] -> V],
                    \A c \in S : \A f, g \in [S -> V] :
                       (\A d \in S : h[d] < h[c] => f[d] = g[d]) => D[<<c, f>>] = D[<<c, g>>]
             PROVE  IsSolvable(S, V, D)
  BY DEF DependsOnLower
<1>0. PICK v \in V : TRUE
  OBVIOUS
<1> DEFINE Upto(n) == {f \in [S -> V] : \A c \in S : h[c] < n => f[c] = D[<<c, f>>]}
           Without == {n \in Nat : Upto(n) = {}}
<1>1. \A n \in Nat : Upto(n) # {}
  <2> SUFFICES ASSUME Without # {} PROVE FALSE
    OBVIOUS
  <2>1. PICK n \in Without : \A m \in Without : n <= m
    BY LeastNatural
  <2>2. n # 0
    <3>1. [c \in S |-> v] \in Upto(0)
      OBVIOUS
    <3> QED
      BY <3>1, <2>1
  <2>3. n - 1 \in Nat /\ n - 1 \notin Without
    <3> HIDE DEF Upto
    <3> QED
      BY <2>1, <2>2
  <2>4. PICK f \in Upto(n - 1) : TRUE
    BY <2>3
  <2> DEFINE g == [c \in S |-> D[<<c, f>>]]
  <2>5. f \in [S -> V] /\ g \in [S -> V]
    BY <2>4
  <2>6. ASSUME NEW c \in S, h[c] < n PROVE g[c] = D[<<c, g>>]
    <3>1. \A d \in S : h[d] < h[c] => f[d] = g[d]
      BY <2>1, <2>3, <2>4, <2>6
    <3> HIDE DEF g, Upto, Without
    <3>2. D[<<c, f>>] = D[<<c, g>>]
      BY <3>1, <2>5
    <3>3. g[c] = D[<<c, f>>]
      BY DEF g
    <3> QED
      BY <3>2, <3>3
  <2>7. g \in Upto(n)
    BY <2>5, <2>6
  <2> QED
    BY <2>1, <2>7
<1>2. ASSUME NEW n \in Nat, NEW m \in Nat, NEW f \in Upto(n), NEW g \in Upto(m),
             NEW x \in S, h[x] < n, h[x] < m
      PROVE  f[x] = g[x]
  <2> DEFINE Unlike == {c \in S : f[c] # g[c] /\ h[c] < n /\ h[c] < m}
             Levels == {h[c] : c \in Unlike}
  <2> SUFFICES ASSUME Unlike # {} PROVE FALSE
    BY <1>2
  <2>1. PICK k \in Levels : \A j \in Levels : k <= j
    <3>1. Levels \subseteq Nat
      OBVIOUS
    <3>2. Levels # {}
      <4>1. PICK c \in Unlike : TRUE
        OBVIOUS
      <4>2. h[c] \in Levels
        BY <4>1
      <4> QED
        BY <4>2
    <3> QED
      BY <3>1, <3>2, LeastNatural
  <2>2. PICK c \in Unlike : h[c] = k
    BY <2>1
  <2>3. ASSUME NEW d \in S, h[d] < h[c] PROVE f[d] = g[d]
    <3>1. h[c] < n /\ h[c] < m /\ h[c] \in Nat /\ h[d] \in Nat
      OBVIOUS
    <3>2. h[d] < n /\ h[d] < m
      BY <2>3, <3>1
    <3>3. d \notin Unlike
      <4> SUFFICES ASSUME d \in Unlike PROVE FALSE
        OBVIOUS
      <4>1. h[d] \in Levels
        OBVIOUS
      <4> HIDE DEF Levels, Unlike
      <4> QED
        BY <2>1, <2>2, <2>3, <3>1, <4>1
    <3> QED
      BY <3>2, <3>3
  <2>4. f[c] = D[<<c, f>>] /\ g[c] = D[<<c, g>>]
    BY <2>2
  <2>5. f \in [S -> V] /\ g \in [S -> V]
    OBVIOUS
  <2>6. D[<<c, f>>] = D[<<c, g>>]
    BY <2>2, <2>3, <2>5
  <2> QED
    BY <2>2, <2>4, <2>6
<1> DEFINE At(c) == CHOOSE f : f \in Upto(h[c] + 1)
           F == [c \in S |-> At(c)[c]]
<1>3. \A c \in S : At(c) \in Upto(h[c] + 1)
  <2> TAKE c \in S
  <2>1. h[c] + 1 \in Nat
    OBVIOUS
  <2> QED
    BY <1>1, <2>1
<1> HIDE DEF At
<1>4. F \in [S -> V]
  <2> SUFFICES ASSUME NEW c \in S PROVE At(c)[c] \in V
    OBVIOUS
  <2>1. At(c) \in [S -> V]
    BY <1>3
  <2> QED
    BY <2>1
<1>5. ASSUME NEW c \in S PROVE F[c] = D[<<c, F>>]
  <2>1. At(c) \in [S -> V] /\ At(c)[c] = D[<<c, At(c)>>]
    <3>1. h[c] < h[c] + 1
      OBVIOUS
    <3> QED
      BY <1>3, <3>1
  <2>2. ASSUME NEW d \in S, h[d] < h[c] PROVE At(c)[d] = F[d]
    <3>1. /\ h[c] + 1 \in Nat /\ h[d] + 1 \in Nat
          /\ h[d] < h[c] + 1 /\ h[d] < h[d] + 1
      BY <2>2
    <3>2. At(c) \in Upto(h[c] + 1) /\ At(d) \in Upto(h[d] + 1)
      BY <1>3
    <3> HIDE DEF Upto
    <3> QED
      BY <3>1, <3>2, <1>2
  <2> HIDE DEF Upto, F
  <2>3. D[<<c, At(c)>>] = D[<<c, F>>]
    BY <2>1, <2>2, <1>4
  <2>4. F[c] = At(c)[c]
    BY DEF F
  <2> QED
    BY <2>1, <2>3, <2>4
<1>6. F = [c \in S |-> D[<<c, F>>]]
  <2> HIDE DEF F
  <2> QED
    BY <1>4, <1>5
<1> QED
  BY <1>4, <1>6 DEF IsSolvable

-----------------------------------------------------------------------------
\* What is in a condition is a tree, and lower.
LEMMA PartsAreLower ==
    ASSUME NEW c \in Trees, ~IsLeaf(c)
    PROVE  /\ Parts(c) \in Seq(Trees)
           /\ \A i \in DOMAIN Parts(c) : Parts(c)[i] \in Trees /\ Height(Parts(c)[i]) < Height(c)
  BY TreesAssumption

\* Of some trees, one contains none of the others.
LEMMA LowestTree ==
    ASSUME NEW T, T \subseteq Trees, T # {}
    PROVE  \E c \in T : ~IsLeaf(c) => \A i \in DOMAIN Parts(c) : Parts(c)[i] \notin T
<1> DEFINE Heights == {Height(c) : c \in T}
<1>1. Heights \subseteq Nat
  BY TreesAssumption
<1>2. Heights # {}
  <2>1. PICK c \in T : TRUE
    OBVIOUS
  <2>2. Height(c) \in Heights
    OBVIOUS
  <2> QED
    BY <2>2
<1>3. PICK n \in Heights : \A m \in Heights : n <= m
  BY <1>1, <1>2, LeastNatural
<1>4. PICK c \in T : Height(c) = n
  BY <1>3
<1>5. ASSUME ~IsLeaf(c), NEW i \in DOMAIN Parts(c), Parts(c)[i] \in T PROVE FALSE
  <2>1. Height(Parts(c)[i]) < n
    BY <1>4, <1>5, PartsAreLower
  <2>2. Height(Parts(c)[i]) \in Heights
    BY <1>5
  <2> HIDE DEF Heights
  <2>3. n <= Height(Parts(c)[i])
    BY <1>3, <2>2
  <2>4. n \in Nat /\ Height(Parts(c)[i]) \in Nat
    BY <1>1, <1>3, <2>2
  <2> QED
    BY <2>1, <2>3, <2>4
<1> QED
  BY <1>5

\* What D says of a tree and a function depends on what the function is for its parts.
DependsOnParts(V, D) ==
    /\ D \in [Trees \X [Trees -> V] -> V]
    /\ \A c \in Trees : \A f, g \in [Trees -> V] :
          (~IsLeaf(c) => \A i \in DOMAIN Parts(c) : f[Parts(c)[i]] = g[Parts(c)[i]])
          => D[<<c, f>>] = D[<<c, g>>]

\* A function of the trees may be defined by what it is for their parts.
LEMMA TreeRecursion ==
    ASSUME NEW V, V # {}, NEW D, DependsOnParts(V, D)
    PROVE  IsSolvable(Trees, V, D)
<1> USE DEF DependsOnParts
<1> DEFINE h == [c \in Trees |-> Height(c)]
<1>1. h \in [Trees -> Nat]
  BY TreesAssumption
<1>2. ASSUME NEW c \in Trees, NEW f \in [Trees -> V], NEW g \in [Trees -> V],
             \A d \in Trees : h[d] < h[c] => f[d] = g[d]
      PROVE  D[<<c, f>>] = D[<<c, g>>]
  <2>1. ASSUME ~IsLeaf(c), NEW i \in DOMAIN Parts(c) PROVE f[Parts(c)[i]] = g[Parts(c)[i]]
    <3>1. Parts(c)[i] \in Trees /\ Height(Parts(c)[i]) < Height(c)
      BY <2>1, PartsAreLower
    <3> QED
      BY <1>2, <3>1
  <2> QED
    BY <2>1
<1>3. DependsOnLower(Trees, V, h, D)
  BY <1>2 DEF DependsOnLower
<1> HIDE DEF h, DependsOnParts
<1> QED
  BY <1>1, <1>3, Recursion

-----------------------------------------------------------------------------
\* The equations of the operators that are defined by recursion.
LEMMA BuildsOf ==
    /\ \A c \in Trees : Builds(c) \in BOOLEAN
    /\ \A c \in Trees : IsLeaf(c) => (Builds(c) <=> WellFormedLeaf(c))
    /\ \A c \in Trees : ~IsLeaf(c) => (Builds(c) <=> \A i \in DOMAIN Parts(c) : Builds(Parts(c)[i]))
<1> DEFINE B(c, f) == IF IsLeaf(c) THEN WellFormedLeaf(c)
                      ELSE \A i \in DOMAIN Parts(c) : f[Parts(c)[i]]
           D == [x \in Trees \X [Trees -> BOOLEAN] |-> B(x[1], x[2])]
           fix == CHOOSE f : f = [c \in Trees |-> B(c, f)]
<1>1. ASSUME NEW c \in Trees, NEW f \in [Trees -> BOOLEAN] PROVE B(c, f) \in BOOLEAN
  BY DEF WellFormedLeaf
<1>2. ASSUME NEW c \in Trees, NEW f \in [Trees -> BOOLEAN], NEW g \in [Trees -> BOOLEAN],
             ~IsLeaf(c) => \A i \in DOMAIN Parts(c) : f[Parts(c)[i]] = g[Parts(c)[i]]
      PROVE  B(c, f) = B(c, g)
  BY <1>2, <1>1
<1>3. \E f \in [Trees -> BOOLEAN] : f = [c \in Trees |-> B(c, f)]
  <2> HIDE DEF B
  <2>1. D \in [Trees \X [Trees -> BOOLEAN] -> BOOLEAN]
    BY <1>1
  <2>2. \A c \in Trees : \A f \in [Trees -> BOOLEAN] : D[<<c, f>>] = B(c, f)
    OBVIOUS
  <2> HIDE DEF D
  <2>3. DependsOnParts(BOOLEAN, D)
    BY <1>2, <2>1, <2>2 DEF DependsOnParts
  <2>4. IsSolvable(Trees, BOOLEAN, D)
    BY <2>3, TreeRecursion
  <2> QED
    BY <2>2, <2>4 DEF IsSolvable
<1>4. fix = [c \in Trees |-> B(c, fix)]
  <2> HIDE DEF B
  <2> QED
    BY <1>3
<1>5. \A c : Builds(c) = fix[c]
  BY DEF Builds
<1>6. \A c \in Trees : fix[c] = B(c, fix)
  <2> HIDE DEF B, fix
  <2> QED
    BY <1>4
<1> HIDE DEF fix
<1> QED
  BY <1>5, <1>6 DEF WellFormedLeaf

LEMMA LeavesOf ==
    /\ \A c \in Trees : Leaves(c) \in SUBSET Trees
    /\ \A c \in Trees : IsLeaf(c) => Leaves(c) = {c}
    /\ \A c \in Trees : ~IsLeaf(c) =>
          Leaves(c) = UNION {Leaves(p) : p \in ToSet(Parts(c))}
<1> DEFINE V == SUBSET Trees
           OfParts(c, f) == {f[p] : p \in ToSet(Parts(c))}
           B(c, f) == IF IsLeaf(c) THEN {c} ELSE UNION OfParts(c, f)
           D == [x \in Trees \X [Trees -> V] |-> B(x[1], x[2])]
           fix == CHOOSE f : f = [c \in Trees |-> B(c, f)]
<1>1. ASSUME NEW c \in Trees, NEW f,
             ~IsLeaf(c) => \A i \in DOMAIN Parts(c) : f[Parts(c)[i]] \in V
      PROVE  B(c, f) \in V
  BY <1>1 DEF ToSet
<1>2. ASSUME NEW c \in Trees, NEW f \in [Trees -> V], NEW g \in [Trees -> V],
             ~IsLeaf(c) => \A i \in DOMAIN Parts(c) : f[Parts(c)[i]] = g[Parts(c)[i]]
      PROVE  B(c, f) = B(c, g)
  <2>1. ~IsLeaf(c) => OfParts(c, f) = OfParts(c, g)
    BY <1>2 DEF ToSet
  <2> HIDE DEF OfParts
  <2> QED
    BY <2>1
<1>3. \E f \in [Trees -> V] : f = [c \in Trees |-> B(c, f)]
  <2>1. \A c \in Trees : \A f \in [Trees -> V] : B(c, f) \in V
    <3> HIDE DEF B, V
    <3> QED
      BY <1>1, PartsAreLower
  <2> HIDE DEF B, V
  <2>2. D \in [Trees \X [Trees -> V] -> V]
    BY <2>1
  <2>3. \A c \in Trees : \A f \in [Trees -> V] : D[<<c, f>>] = B(c, f)
    OBVIOUS
  <2> HIDE DEF D
  <2>4. DependsOnParts(V, D)
    BY <1>2, <2>2, <2>3 DEF DependsOnParts
  <2>5. V # {}
    BY DEF V
  <2>6. IsSolvable(Trees, V, D)
    BY <2>4, <2>5, TreeRecursion
  <2> QED
    BY <2>3, <2>6 DEF IsSolvable
<1>4. fix = [c \in Trees |-> B(c, fix)]
  <2> HIDE DEF B, V
  <2> QED
    BY <1>3
<1>5. \A c : Leaves(c) = fix[c]
  BY DEF Leaves
<1>6. \A c \in Trees : fix[c] = B(c, fix)
  <2> HIDE DEF B, fix
  <2> QED
    BY <1>4
<1> HIDE DEF fix
<1>7. \A c \in Trees : fix[c] \in V
  <2> HIDE DEF B, V
  <2> DEFINE T == {c \in Trees : fix[c] \notin V}
  <2> SUFFICES ASSUME T # {} PROVE FALSE
    OBVIOUS
  <2>1. PICK c \in T : ~IsLeaf(c) => \A i \in DOMAIN Parts(c) : Parts(c)[i] \notin T
    BY LowestTree
  <2>2. ~IsLeaf(c) => \A i \in DOMAIN Parts(c) : fix[Parts(c)[i]] \in V
    BY <2>1, PartsAreLower
  <2>3. fix[c] \in V
    BY <1>1, <1>6, <2>2
  <2> QED
    BY <2>3
<1>9. \A c \in Trees : Leaves(c) \in SUBSET Trees
  BY <1>5, <1>7 DEF V
<1>10. \A c \in Trees : {Leaves(p) : p \in ToSet(Parts(c))} = OfParts(c, fix)
  BY <1>5
<1> HIDE DEF OfParts
<1> QED
  BY <1>5, <1>6, <1>9, <1>10

LEMMA ClausesOf ==
    /\ \A c \in Trees : Clauses(c) \in SUBSET SUBSET Trees
    /\ \A c \in Trees : IsLeaf(c) => Clauses(c) = {{c}}
    /\ \A c \in Trees : ~IsLeaf(c) /\ IsAnd(c) =>
          Clauses(c) = {UNION choice : choice \in Choices({Clauses(p) : p \in ToSet(Parts(c))})}
    /\ \A c \in Trees : ~IsLeaf(c) /\ ~IsAnd(c) =>
          Clauses(c) = UNION {Clauses(p) : p \in ToSet(Parts(c))}
<1> DEFINE V == SUBSET SUBSET Trees
           OfParts(c, f) == {f[p] : p \in ToSet(Parts(c))}
           B(c, f) == IF IsLeaf(c) THEN {{c}}
                      ELSE IF IsAnd(c) THEN {UNION choice : choice \in Choices(OfParts(c, f))}
                           ELSE UNION OfParts(c, f)
           D == [x \in Trees \X [Trees -> V] |-> B(x[1], x[2])]
           fix == CHOOSE f : f = [c \in Trees |-> B(c, f)]
<1>1. ASSUME NEW c \in Trees, NEW f,
             ~IsLeaf(c) => \A i \in DOMAIN Parts(c) : f[Parts(c)[i]] \in V
      PROVE  B(c, f) \in V
  <2>1. ~IsLeaf(c) => OfParts(c, f) \subseteq V
    BY <1>1 DEF ToSet
  <2> HIDE DEF OfParts
  <2>2. \A Ps \in SUBSET V : \A choice \in Choices(Ps) : UNION choice \in SUBSET Trees
    BY DEF Choices, Range
  <2> QED
    BY <2>1, <2>2
<1>2. ASSUME NEW c \in Trees, NEW f \in [Trees -> V], NEW g \in [Trees -> V],
             ~IsLeaf(c) => \A i \in DOMAIN Parts(c) : f[Parts(c)[i]] = g[Parts(c)[i]]
      PROVE  B(c, f) = B(c, g)
  <2>1. ~IsLeaf(c) => OfParts(c, f) = OfParts(c, g)
    BY <1>2 DEF ToSet
  <2> HIDE DEF OfParts
  <2> QED
    BY <2>1
<1>3. \E f \in [Trees -> V] : f = [c \in Trees |-> B(c, f)]
  <2>1. \A c \in Trees : \A f \in [Trees -> V] : B(c, f) \in V
    <3> HIDE DEF B, V
    <3> QED
      BY <1>1, PartsAreLower
  <2> HIDE DEF B, V
  <2>2. D \in [Trees \X [Trees -> V] -> V]
    BY <2>1
  <2>3. \A c \in Trees : \A f \in [Trees -> V] : D[<<c, f>>] = B(c, f)
    OBVIOUS
  <2> HIDE DEF D
  <2>4. DependsOnParts(V, D)
    BY <1>2, <2>2, <2>3 DEF DependsOnParts
  <2>5. V # {}
    BY DEF V
  <2>6. IsSolvable(Trees, V, D)
    BY <2>4, <2>5, TreeRecursion
  <2> QED
    BY <2>3, <2>6 DEF IsSolvable
<1>4. fix = [c \in Trees |-> B(c, fix)]
  <2> HIDE DEF B, V
  <2> QED
    BY <1>3
<1>5. \A c : Clauses(c) = fix[c]
  BY DEF Clauses
<1>6. \A c \in Trees : fix[c] = B(c, fix)
  <2> HIDE DEF B, fix
  <2> QED
    BY <1>4
<1> HIDE DEF fix
<1>7. \A c \in Trees : fix[c] \in V
  <2> HIDE DEF B, V
  <2> DEFINE T == {c \in Trees : fix[c] \notin V}
  <2> SUFFICES ASSUME T # {} PROVE FALSE
    OBVIOUS
  <2>1. PICK c \in T : ~IsLeaf(c) => \A i \in DOMAIN Parts(c) : Parts(c)[i] \notin T
    BY LowestTree
  <2>2. ~IsLeaf(c) => \A i \in DOMAIN Parts(c) : fix[Parts(c)[i]] \in V
    BY <2>1, PartsAreLower
  <2>3. fix[c] \in V
    BY <1>1, <1>6, <2>2
  <2> QED
    BY <2>3
<1>9. \A c \in Trees : Clauses(c) \in SUBSET SUBSET Trees
  BY <1>5, <1>7 DEF V
<1>10. \A c \in Trees : {Clauses(p) : p \in ToSet(Parts(c))} = OfParts(c, fix)
  BY <1>5
<1> HIDE DEF OfParts
<1> QED
  BY <1>5, <1>6, <1>9, <1>10

\* However a predicate is asked, it is true, false or raises.
LEMMA PredicateEnds == \A c, o : Predicate(c, o) \in Outcomes
<1> TAKE c, o
<1>1. \A b : Truth(b) \in Outcomes
  BY DEF Truth, Outcomes
<1>2. \A l, r, less, equal : Compare(l, r, less, equal) \in Outcomes
  BY <1>1 DEF Compare, Outcomes
<1>3. \A l, r : Within(l, r) \in Outcomes
  BY <1>1 DEF Within, Outcomes
<1>4. \A x : Negate(x) \in Outcomes
  BY DEF Negate, Outcomes
<1>5. "raise" \in Outcomes /\ "false" \in Outcomes
  BY DEF Outcomes
<1>6. \A op, l, r : Apply(op, l, r) \in Outcomes
  BY <1>1, <1>2, <1>3, <1>4, <1>5 DEF Apply
<1> QED
  BY <1>1, <1>5, <1>6 DEF Predicate

\* The first that is unlike the neutral outcome decides.
LEMMA FirstUnlikeOf ==
    ASSUME NEW neutral \in Outcomes, NEW s, NEW n \in Nat, s \in [1 .. n -> Outcomes]
    PROVE  \/ /\ \A i \in DOMAIN s : s[i] = neutral
              /\ FirstUnlike(neutral, s) = neutral
           \/ \E i \in DOMAIN s : /\ s[i] # neutral
                                  /\ \A j \in DOMAIN s : j < i => s[j] = neutral
                                  /\ FirstUnlike(neutral, s) = s[i]
<1> DEFINE others == {i \in DOMAIN s : s[i] # neutral}
<1>1. CASE others = {}
  BY <1>1 DEF FirstUnlike
<1>2. CASE others # {}
  <2>1. \E i \in others : \A j \in others : i <= j
    <3>1. others \subseteq Nat
      OBVIOUS
    <3> HIDE DEF others
    <3> QED
      BY <1>2, <3>1, LeastNatural
  <2>2. Min(others) \in others /\ \A j \in others : Min(others) <= j
    <3> HIDE DEF others
    <3> QED
      BY <2>1 DEF Min
  <2>3. FirstUnlike(neutral, s) = s[Min(others)]
    BY <1>2 DEF FirstUnlike
  <2> DEFINE m == Min(others)
  <2>4. m \in DOMAIN s /\ s[m] # neutral
    BY <2>2
  <2>5. ASSUME NEW j \in DOMAIN s, j < m PROVE s[j] = neutral
    <3>1. m <= j => FALSE
      BY <2>4, <2>5
    <3> HIDE DEF m
    <3>2. j \notin others
      BY <2>2, <3>1 DEF m
    <3> QED
      BY <3>2
  <2> HIDE DEF m
  <2> QED
    BY <2>3, <2>4, <2>5 DEF m
<1> QED
  BY <1>1, <1>2

Neutral(c) == IF IsAnd(c) THEN "true" ELSE "false"

LEMMA IsSatisfiedOf ==
    ASSUME NEW o
    PROVE  /\ \A c \in Trees : IsSatisfied(c, o) \in Outcomes
           /\ \A c \in Trees : IsLeaf(c) => IsSatisfied(c, o) = Predicate(c, o)
           /\ \A c \in Trees : ~IsLeaf(c) =>
                 IsSatisfied(c, o) =
                    FirstUnlike(Neutral(c), [i \in DOMAIN Parts(c) |-> IsSatisfied(Parts(c)[i], o)])
<1> DEFINE V == Outcomes
           OfParts(c, f) == [i \in DOMAIN Parts(c) |-> f[Parts(c)[i]]]
           B(c, f) == IF IsLeaf(c) THEN Predicate(c, o)
                      ELSE FirstUnlike(IF IsAnd(c) THEN "true" ELSE "false", OfParts(c, f))
           D == [x \in Trees \X [Trees -> V] |-> B(x[1], x[2])]
           fix == CHOOSE f : f = [c \in Trees |-> B(c, f)]
<1>1. ASSUME NEW c \in Trees, NEW f,
             ~IsLeaf(c) => \A i \in DOMAIN Parts(c) : f[Parts(c)[i]] \in V
      PROVE  B(c, f) \in V
  <2>1. CASE IsLeaf(c)
    BY <2>1, PredicateEnds
  <2>2. CASE ~IsLeaf(c)
    <3>1. PICK n \in Nat : DOMAIN Parts(c) = 1 .. n
      BY <2>2, PartsAreLower
    <3>2. OfParts(c, f) \in [1 .. n -> Outcomes]
      BY <1>1, <2>2, <3>1
    <3> HIDE DEF OfParts
    <3>3. "true" \in Outcomes /\ "false" \in Outcomes
      BY DEF Outcomes
    <3>4. \A neutral \in Outcomes : FirstUnlike(neutral, OfParts(c, f)) \in Outcomes
      BY <3>2, FirstUnlikeOf
    <3> QED
      BY <2>2, <3>3, <3>4
  <2> QED
    BY <2>1, <2>2
<1>2. ASSUME NEW c \in Trees, NEW f \in [Trees -> V], NEW g \in [Trees -> V],
             ~IsLeaf(c) => \A i \in DOMAIN Parts(c) : f[Parts(c)[i]] = g[Parts(c)[i]]
      PROVE  B(c, f) = B(c, g)
  <2>1. ~IsLeaf(c) => OfParts(c, f) = OfParts(c, g)
    BY <1>2
  <2> HIDE DEF OfParts
  <2> QED
    BY <2>1
<1>3. \E f \in [Trees -> V] : f = [c \in Trees |-> B(c, f)]
  <2>1. \A c \in Trees : \A f \in [Trees -> V] : B(c, f) \in V
    <3> HIDE DEF B, V
    <3> QED
      BY <1>1, PartsAreLower
  <2> HIDE DEF B, V
  <2>2. D \in [Trees \X [Trees -> V] -> V]
    BY <2>1
  <2>3. \A c \in Trees : \A f \in [Trees -> V] : D[<<c, f>>] = B(c, f)
    OBVIOUS
  <2> HIDE DEF D
  <2>4. DependsOnParts(V, D)
    BY <1>2, <2>2, <2>3 DEF DependsOnParts
  <2>5. V # {}
    BY DEF V, Outcomes
  <2>6. IsSolvable(Trees, V, D)
    BY <2>4, <2>5, TreeRecursion
  <2> QED
    BY <2>3, <2>6 DEF IsSolvable
<1>4. fix = [c \in Trees |-> B(c, fix)]
  <2> HIDE DEF B, V
  <2> QED
    BY <1>3
<1>5. \A c : IsSatisfied(c, o) = fix[c]
  BY DEF IsSatisfied
<1>6. \A c \in Trees : fix[c] = B(c, fix)
  <2> HIDE DEF B, fix
  <2> QED
    BY <1>4
<1> HIDE DEF fix
<1>7. \A c \in Trees : fix[c] \in V
  <2> HIDE DEF B, V
  <2> DEFINE T == {c \in Trees : fix[c] \notin V}
  <2> SUFFICES ASSUME T # {} PROVE FALSE
    OBVIOUS
  <2>1. PICK c \in T : ~IsLeaf(c) => \A i \in DOMAIN Parts(c) : Parts(c)[i] \notin T
    BY LowestTree
  <2>2. ~IsLeaf(c) => \A i \in DOMAIN Parts(c) : fix[Parts(c)[i]] \in V
    BY <2>1, PartsAreLower
  <2>3. fix[c] \in V
    BY <1>1, <1>6, <2>2
  <2> QED
    BY <2>3
<1>8. \A c \in Trees : [i \in DOMAIN Parts(c) |-> IsSatisfied(Parts(c)[i], o)] = OfParts(c, fix)
  BY <1>5
<1> HIDE DEF OfParts
<1> QED
  BY <1>5, <1>6, <1>7, <1>8 DEF Neutral

-----------------------------------------------------------------------------
\* A condition is built exactly when all the predicates in it are well formed.
LEMMA BuildsMeans == \A c \in Trees : Builds(c) <=> \A leaf \in Leaves(c) : WellFormedLeaf(leaf)
<1> DEFINE Wrong(c) == ~(Builds(c) <=> \A leaf \in Leaves(c) : WellFormedLeaf(leaf))
           T == {c \in Trees : Wrong(c)}
<1> SUFFICES ASSUME T # {} PROVE FALSE
  OBVIOUS
<1>1. PICK c \in T : ~IsLeaf(c) => \A i \in DOMAIN Parts(c) : Parts(c)[i] \notin T
  BY LowestTree
<1>2. CASE IsLeaf(c)
  BY <1>2, BuildsOf, LeavesOf
<1>3. CASE ~IsLeaf(c)
  <2>1. \A i \in DOMAIN Parts(c) :
           Builds(Parts(c)[i]) <=> \A leaf \in Leaves(Parts(c)[i]) : WellFormedLeaf(leaf)
    BY <1>1, <1>3, PartsAreLower
  <2>2. Builds(c) <=> \A i \in DOMAIN Parts(c) : Builds(Parts(c)[i])
    BY <1>3, BuildsOf
  <2>3. \A leaf : leaf \in Leaves(c) <=> \E i \in DOMAIN Parts(c) : leaf \in Leaves(Parts(c)[i])
    BY <1>3, LeavesOf DEF ToSet
  <2> QED
    BY <2>1, <2>2, <2>3
<1> QED
  BY <1>2, <1>3

IsTrue(clause, o) == \A leaf \in clause : Predicate(leaf, o) = "true"

\* One of each of some sets of clauses, taken together.
LEMMA ChosenTogether ==
    ASSUME NEW o, NEW Sets
    PROVE  (\E choice \in Choices(Sets) : IsTrue(UNION choice, o))
           <=> \A S \in Sets : \E clause \in S : IsTrue(clause, o)
<1>1. ASSUME NEW choice \in Choices(Sets), IsTrue(UNION choice, o), NEW S \in Sets
      PROVE  \E clause \in S : IsTrue(clause, o)
  <2>1. PICK f \in [Sets -> UNION Sets] : /\ \A T \in Sets : f[T] \in T
                                          /\ choice = Range(f)
    BY DEF Choices
  <2>2. f[S] \in choice /\ f[S] \in S
    BY <2>1 DEF Range
  <2> QED
    BY <1>1, <2>2 DEF IsTrue
<1>2. ASSUME \A S \in Sets : \E clause \in S : IsTrue(clause, o)
      PROVE  \E choice \in Choices(Sets) : IsTrue(UNION choice, o)
  <2> DEFINE f == [S \in Sets |-> CHOOSE clause \in S : IsTrue(clause, o)]
  <2>1. \A S \in Sets : f[S] \in S /\ IsTrue(f[S], o)
    BY <1>2
  <2>2. f \in [Sets -> UNION Sets]
    BY <2>1
  <2> HIDE DEF f
  <2>3. Range(f) \in Choices(Sets)
    BY <2>1, <2>2 DEF Choices
  <2>4. \A clause \in Range(f) : IsTrue(clause, o)
    BY <2>1, <2>2 DEF Range
  <2>5. IsTrue(UNION Range(f), o)
    BY <2>4 DEF IsTrue
  <2> QED
    BY <2>3, <2>5
<1> QED
  BY <1>1, <1>2

\* A condition none of whose predicates raises does not raise, and is satisfied
\* exactly when one of its clauses is.
Agrees(c, o) ==
    (\A leaf \in Leaves(c) : Predicate(leaf, o) # "raise")
    => /\ IsSatisfied(c, o) # "raise"
       /\ IsSatisfied(c, o) = "true" <=> \E clause \in Clauses(c) : IsTrue(clause, o)

LEMMA SatisfiedMeans == ASSUME NEW o PROVE \A c \in Trees : Agrees(c, o)
<1> DEFINE T == {c \in Trees : ~Agrees(c, o)}
<1> SUFFICES ASSUME T # {} PROVE FALSE
  OBVIOUS
<1>1. PICK c \in T : ~IsLeaf(c) => \A i \in DOMAIN Parts(c) : Parts(c)[i] \notin T
  BY LowestTree
<1>2. \A leaf \in Leaves(c) : Predicate(leaf, o) # "raise"
  BY <1>1 DEF Agrees
<1>3. CASE IsLeaf(c)
  <2>1. Leaves(c) = {c} /\ Clauses(c) = {{c}} /\ IsSatisfied(c, o) = Predicate(c, o)
    BY <1>3, LeavesOf, ClausesOf, IsSatisfiedOf
  <2> QED
    BY <1>1, <2>1 DEF Agrees, IsTrue
<1>4. CASE ~IsLeaf(c)
  <2> DEFINE out == [i \in DOMAIN Parts(c) |-> IsSatisfied(Parts(c)[i], o)]
             Sets == {Clauses(p) : p \in ToSet(Parts(c))}
             TrueAt(i) == \E clause \in Clauses(Parts(c)[i]) : IsTrue(clause, o)
  <2>1. \A i \in DOMAIN Parts(c) : out[i] \in Outcomes
    BY <1>4, PartsAreLower, IsSatisfiedOf
  <2>2. \A i \in DOMAIN Parts(c) : out[i] # "raise" /\ (out[i] = "true" <=> TrueAt(i))
    <3> TAKE i \in DOMAIN Parts(c)
    <3>1. Parts(c)[i] \in Trees /\ Agrees(Parts(c)[i], o)
      BY <1>1, <1>4, PartsAreLower
    <3>2. Leaves(Parts(c)[i]) \subseteq Leaves(c)
      BY <1>4, LeavesOf DEF ToSet
    <3> QED
      BY <1>2, <3>1, <3>2 DEF Agrees
  <2>3. PICK n \in Nat : DOMAIN Parts(c) = 1 .. n
    BY <1>4, PartsAreLower
  <2>4. out \in [1 .. n -> Outcomes]
    BY <2>1, <2>3
  <2>5. IsSatisfied(c, o) = FirstUnlike(Neutral(c), out)
    BY <1>4, IsSatisfiedOf
  <2>6. Neutral(c) \in Outcomes
    BY DEF Neutral, Outcomes
  <2>7. DOMAIN out = DOMAIN Parts(c)
    OBVIOUS
  <2> HIDE DEF out, TrueAt
  <2>8. \/ /\ \A i \in DOMAIN Parts(c) : out[i] = Neutral(c)
           /\ IsSatisfied(c, o) = Neutral(c)
        \/ \E i \in DOMAIN Parts(c) : out[i] # Neutral(c) /\ IsSatisfied(c, o) = out[i]
    BY <2>4, <2>5, <2>6, <2>7, FirstUnlikeOf
  <2>9. IsSatisfied(c, o) # "raise"
    BY <2>2, <2>8 DEF Neutral
  <2>10. \A i \in DOMAIN Parts(c) : out[i] \in {"true", "false"}
    BY <2>1, <2>2 DEF Outcomes
  <2>11. CASE IsAnd(c)
    <3>1. IsSatisfied(c, o) = "true" <=> \A i \in DOMAIN Parts(c) : out[i] = "true"
      BY <2>8, <2>10, <2>11 DEF Neutral
    <3>2. Clauses(c) = {UNION choice : choice \in Choices(Sets)}
      BY <1>4, <2>11, ClausesOf
    <3>3. (\A i \in DOMAIN Parts(c) : TrueAt(i)) <=> \A S \in Sets : \E clause \in S : IsTrue(clause, o)
      BY DEF TrueAt, ToSet
    <3> HIDE DEF Sets
    <3>4. (\E clause \in Clauses(c) : IsTrue(clause, o))
          <=> \E choice \in Choices(Sets) : IsTrue(UNION choice, o)
      BY <3>2
    <3> QED
      BY <1>1, <2>2, <2>9, <3>1, <3>3, <3>4, ChosenTogether DEF Agrees
  <2>12. CASE ~IsAnd(c)
    <3>1. IsSatisfied(c, o) = "true" <=> \E i \in DOMAIN Parts(c) : out[i] = "true"
      BY <2>8, <2>10, <2>12 DEF Neutral
    <3>2. Clauses(c) = UNION Sets
      BY <1>4, <2>12, ClausesOf
    <3>3. (\E i \in DOMAIN Parts(c) : TrueAt(i)) <=> \E clause \in UNION Sets : IsTrue(clause, o)
      BY DEF TrueAt, ToSet
    <3> QED
      BY <1>1, <2>2, <2>9, <3>1, <3>2, <3>3 DEF Agrees
  <2> QED
    BY <2>11, <2>12
<1> QED
  BY <1>3, <1>4

-----------------------------------------------------------------------------
\* Two sequences agree up to the first place where they differ or one of them
\* ends, whichever of them is named first.
LEMMA AgreementOf ==
    ASSUME NEW S, NEW T, NEW a \in Seq(S), NEW b \in Seq(T)
    PROVE  LET k == Agreement(a, b)
           IN /\ k \in Nat /\ k <= Len(a) /\ k <= Len(b)
              /\ \A j \in 1 .. k : a[j] = b[j]
              /\ k = Len(a) \/ k = Len(b) \/ a[k + 1] # b[k + 1]
              /\ Agreement(b, a) = k
<1> DEFINE shorter == Min({Len(a), Len(b)})
           Ks == {i \in 0 .. shorter : i \in {Len(a), Len(b)} \/ a[i + 1] # b[i + 1]}
           Js == {i \in 0 .. shorter : i \in {Len(b), Len(a)} \/ b[i + 1] # a[i + 1]}
<1>1. Len(a) \in Nat /\ Len(b) \in Nat
  OBVIOUS
<1>2. shorter \in {Len(a), Len(b)} /\ shorter <= Len(a) /\ shorter <= Len(b)
  <2>1. \E x \in {Len(a), Len(b)} : \A y \in {Len(a), Len(b)} : x <= y
    BY <1>1
  <2> QED
    BY <2>1 DEF Min
<1>3. {Len(a), Len(b)} = {Len(b), Len(a)}
  OBVIOUS
<1>4. Agreement(a, b) = Min(Ks) /\ Agreement(b, a) = Min(Js) /\ Js = Ks
  BY <1>3 DEF Agreement
<1> HIDE DEF shorter
<1>5. shorter \in Ks /\ Ks \subseteq Nat
  BY <1>1, <1>2
<1>6. Min(Ks) \in Ks /\ \A m \in Ks : Min(Ks) <= m
  <2> HIDE DEF Ks
  <2>1. \E k \in Ks : \A m \in Ks : k <= m
    BY <1>5, LeastNatural
  <2> QED
    BY <2>1 DEF Min
<1> DEFINE k == Min(Ks)
<1>7. k \in 0 .. shorter /\ (k \in {Len(a), Len(b)} \/ a[k + 1] # b[k + 1])
  <2> HIDE DEF k
  <2>1. k \in Ks
    BY <1>6 DEF k
  <2> QED
    BY <2>1
<1>8. ASSUME NEW j \in 1 .. k PROVE a[j] = b[j]
  <2>1. j - 1 \notin Ks
    <3> HIDE DEF Ks
    <3>1. k \in Nat
      BY <1>5, <1>6
    <3>2. j - 1 < k /\ j - 1 \in Nat
      BY <1>8, <3>1
    <3> QED
      BY <1>6, <3>1, <3>2
  <2> HIDE DEF k
  <2>2. j - 1 \in 0 .. shorter /\ j - 1 < Len(a) /\ j - 1 < Len(b) /\ (j - 1) + 1 = j
    BY <1>1, <1>2, <1>7, <1>8
  <2> QED
    BY <1>1, <2>1, <2>2
<1> HIDE DEF k
<1>9. k \in Nat /\ k <= Len(a) /\ k <= Len(b)
  BY <1>1, <1>2, <1>7
<1> QED
  BY <1>4, <1>7, <1>8, <1>9 DEF k

\* Which of two different sequences comes before the other, when the items where
\* they differ are ordered.
LEMMA BeforeOrAfter ==
    ASSUME NEW S, NEW T, NEW a \in Seq(S), NEW b \in Seq(T), NEW k, k = Agreement(a, b),
           NEW less, NEW greater,
           k < Len(a) /\ k < Len(b) => (less <=> ~greater)
    PROVE  (k < Len(b) /\ (k = Len(a) \/ less))
              <=> ~((k < Len(a) /\ (k = Len(b) \/ greater)) \/ a = b)
<1>1. /\ k \in Nat /\ k <= Len(a) /\ k <= Len(b)
      /\ \A j \in 1 .. k : a[j] = b[j]
      /\ k = Len(a) \/ k = Len(b) \/ a[k + 1] # b[k + 1]
  BY AgreementOf
<1>2. a = b <=> k = Len(a) /\ k = Len(b)
  BY <1>1
<1>3. Len(a) \in Nat /\ Len(b) \in Nat
  OBVIOUS
<1> QED
  BY <1>1, <1>2, <1>3

\* Two numbers, or two texts, are equal, or one of them is less: exactly one of
\* the three.
LEMMA ScalarTrichotomy ==
    ASSUME NEW v, NEW w, IsScalar(v), IsScalar(w), SameSort(v, w)
    PROVE  ScalarLess(v, w) <=> ~(ScalarLess(w, v) \/ v = w)
<1>0. v.kind = w.kind /\ v.kind \in {"num", "str"}
  BY DEF SameSort
<1>1. CASE v.kind = "num"
  <2>1. v = Num(v.num) /\ w = Num(w.num) /\ v.num \in Int /\ w.num \in Int
    BY <1>0, <1>1 DEF IsScalar
  <2>2. v = w <=> v.num = w.num
    BY <2>1
  <2>3. (ScalarLess(v, w) <=> v.num < w.num) /\ (ScalarLess(w, v) <=> w.num < v.num)
    BY <1>0, <1>1 DEF ScalarLess
  <2>4. v.num < w.num <=> ~(w.num < v.num \/ v.num = w.num)
    BY <2>1
  <2> QED
    BY <2>2, <2>3, <2>4
<1>2. CASE v.kind = "str"
  <2>1. /\ v = Text(v.words) /\ w = Text(w.words)
        /\ v.words \in Seq(DOMAIN Rank) /\ w.words \in Seq(DOMAIN Rank)
    BY <1>0, <1>2 DEF IsScalar
  <2> DEFINE a == v.words  b == w.words  k == Agreement(a, b)
             less == Rank[a[k + 1]] < Rank[b[k + 1]]
             greater == Rank[b[k + 1]] < Rank[a[k + 1]]
  <2>2. v = w <=> a = b
    BY <2>1
  <2>3. Agreement(b, a) = k
    BY <2>1, AgreementOf
  <2>4. /\ ScalarLess(v, w) <=> k < Len(b) /\ (k = Len(a) \/ less)
        /\ ScalarLess(w, v) <=> k < Len(a) /\ (k = Len(b) \/ greater)
    BY <1>0, <1>2, <2>3 DEF ScalarLess, ComesBefore
  <2>5. k < Len(a) /\ k < Len(b) => (less <=> ~greater)
    <3> SUFFICES ASSUME k < Len(a), k < Len(b) PROVE less <=> ~greater
      OBVIOUS
    <3>1. k \in Nat /\ a[k + 1] # b[k + 1]
      BY <2>1, AgreementOf
    <3> HIDE DEF k
    <3>2. a[k + 1] \in DOMAIN Rank /\ b[k + 1] \in DOMAIN Rank
      BY <2>1, <3>1
    <3> QED
      BY <3>1, <3>2, WordsAssumption
  <2> HIDE DEF less, greater
  <2>6. (k < Len(b) /\ (k = Len(a) \/ less))
           <=> ~((k < Len(a) /\ (k = Len(b) \/ greater)) \/ a = b)
    BY <2>1, <2>5, BeforeOrAfter
  <2> QED
    BY <2>2, <2>4, <2>6
<1> QED
  BY <1>0, <1>1, <1>2

\* So it is with lists that can be compared; and they can, whichever is named
\* first.
LEMMA Trichotomy ==
    ASSUME NEW v, NEW w, IsComparable(v), IsComparable(w), CanCompare(v, w)
    PROVE  Less(v, w) <=> ~(Less(w, v) \/ v = w)
<1>1. CASE SameSort(v, w)
  <2>1. Less(v, w) = ScalarLess(v, w) /\ Less(w, v) = ScalarLess(w, v)
    BY <1>1 DEF Less, SameSort
  <2>2. IsScalar(v) /\ IsScalar(w)
    BY DEF IsComparable
  <2> QED
    BY <1>1, <2>1, <2>2, ScalarTrichotomy
<1>2. CASE v.kind = "list" /\ w.kind = "list" /\ ListsCompare(v.items, w.items)
  <2> DEFINE a == v.items  b == w.items  k == Agreement(a, b)
             less == ScalarLess(a[k + 1], b[k + 1])
             greater == ScalarLess(b[k + 1], a[k + 1])
             S == {a[i] : i \in DOMAIN a}
             T == {b[i] : i \in DOMAIN b}
  <2>1. /\ v = List(a) /\ w = List(b) /\ a \in Seq(S) /\ b \in Seq(T)
        /\ \A i \in DOMAIN a : IsScalar(a[i])
        /\ \A i \in DOMAIN b : IsScalar(b[i])
    BY <1>2 DEF IsComparable
  <2> HIDE DEF S, T
  <2>2. v = w <=> a = b
    BY <2>1
  <2>3. Agreement(b, a) = k
    BY <2>1, AgreementOf
  <2>4. /\ Less(v, w) <=> k < Len(b) /\ (k = Len(a) \/ less)
        /\ Less(w, v) <=> k < Len(a) /\ (k = Len(b) \/ greater)
    BY <1>2, <2>3 DEF Less, ComesBefore
  <2>5. k < Len(a) /\ k < Len(b) => (less <=> ~greater)
    <3> SUFFICES ASSUME k < Len(a), k < Len(b) PROVE less <=> ~greater
      OBVIOUS
    <3>1. k \in Nat /\ a[k + 1] # b[k + 1]
      BY <2>1, AgreementOf
    <3>2. SameSort(a[k + 1], b[k + 1])
      BY <1>2, <2>1, <3>1 DEF ListsCompare
    <3> HIDE DEF k
    <3>3. IsScalar(a[k + 1]) /\ IsScalar(b[k + 1])
      BY <2>1, <3>1
    <3> QED
      BY <3>1, <3>2, <3>3, ScalarTrichotomy
  <2> HIDE DEF less, greater
  <2>6. (k < Len(b) /\ (k = Len(a) \/ less))
           <=> ~((k < Len(a) /\ (k = Len(b) \/ greater)) \/ a = b)
    BY <2>1, <2>5, BeforeOrAfter
  <2> QED
    BY <2>2, <2>4, <2>6
<1> QED
  BY <1>1, <1>2 DEF CanCompare

LEMMA CanCompareBoth ==
    ASSUME NEW v, NEW w, IsComparable(v), IsComparable(w), CanCompare(v, w)
    PROVE  CanCompare(w, v)
<1>1. CASE SameSort(v, w)
  BY <1>1 DEF SameSort, CanCompare
<1>2. CASE v.kind = "list" /\ w.kind = "list" /\ ListsCompare(v.items, w.items)
  <2>1. Agreement(v.items, w.items) = Agreement(w.items, v.items)
    BY <1>2, AgreementOf DEF IsComparable
  <2> QED
    BY <1>2, <2>1 DEF ListsCompare, SameSort, CanCompare
<1> QED
  BY <1>1, <1>2 DEF CanCompare

\* On an attribute that is there, the opposite operator ends the other way.
LEMMA OppositeOutcome ==
    ASSUME NEW o, NEW c \in Trees, IsLeaf(c), c.op \in DOMAIN Opposite, c.field # <<>>,
           c.op \in Ordered => IsComparable(c.value) /\ IsComparable(Extract(o, c.field))
    PROVE  LET d == [c EXCEPT !.op = Opposite[@]]
           IN /\ WellFormedLeaf(c) /\ WellFormedLeaf(d)
              /\ Extract(o, c.field) = None =>
                    Predicate(c, o) = "false" /\ Predicate(d, o) = "false"
              /\ Extract(o, c.field) # None => Predicate(d, o) = Negate(Predicate(c, o))
<1> DEFINE d == [c EXCEPT !.op = Opposite[@]]
           l == Extract(o, c.field)
           v == c.value
<1>1. c.op \in {"eq", "gt", "lt", "in"}
  BY DEF Opposite
<1>2. d.field = c.field /\ d.value = v /\ d.op = Opposite[c.op]
  <2>1. c = [field |-> c.field, op |-> c.op, value |-> c.value]
    BY TreesAssumption
  <2> QED
    BY <2>1
<1>3. /\ c.op = "eq" => Opposite[c.op] = "neq"
      /\ c.op = "gt" => Opposite[c.op] = "lte"
      /\ c.op = "lt" => Opposite[c.op] = "gte"
      /\ c.op = "in" => Opposite[c.op] = "not_in"
  BY DEF Opposite
<1> HIDE DEF d
<1>4. WellFormedLeaf(c) /\ WellFormedLeaf(d)
  BY <1>1, <1>2, <1>3 DEF WellFormedLeaf, AllowedOps
<1>5. l = None => Predicate(c, o) = "false" /\ Predicate(d, o) = "false"
  BY <1>1, <1>2, <1>3 DEF Predicate
<1>6. ASSUME l # None PROVE Predicate(d, o) = Negate(Predicate(c, o))
  <2>1. Predicate(c, o) = Apply(c.op, l, v) /\ Predicate(d, o) = Apply(d.op, l, v)
    BY <1>1, <1>2, <1>3, <1>6 DEF Predicate
  <2> HIDE DEF l, v
  <2>3. CASE c.op = "eq"
    BY <1>2, <1>3, <2>1, <2>3 DEF Apply, Truth, Negate
  <2>4. CASE c.op = "in"
    BY <1>2, <1>3, <2>1, <2>4 DEF Apply
  <2>5. ASSUME c.op \in {"gt", "lt"}, CanCompare(l, v)
        PROVE  /\ Less(l, v) <=> ~(Less(v, l) \/ l = v)
               /\ Less(v, l) <=> ~(Less(l, v) \/ l = v)
    <3>1. IsComparable(l) /\ IsComparable(v)
      BY <2>5 DEF Ordered, l, v
    <3>2. CanCompare(v, l)
      BY <2>5, <3>1, CanCompareBoth
    <3> QED
      BY <2>5, <3>1, <3>2, Trichotomy
  <2>6. CASE c.op = "gt"
    <3>1. /\ Predicate(c, o) = Compare(l, v, Less(v, l), FALSE)
          /\ Predicate(d, o) = Compare(l, v, Less(l, v), l = v)
      BY <1>2, <1>3, <2>1, <2>6 DEF Apply
    <3> QED
      BY <2>5, <2>6, <3>1 DEF Compare, Truth, Negate
  <2>7. CASE c.op = "lt"
    <3>1. /\ Predicate(c, o) = Compare(l, v, Less(l, v), FALSE)
          /\ Predicate(d, o) = Compare(l, v, Less(v, l), l = v)
      BY <1>2, <1>3, <2>1, <2>7 DEF Apply
    <3> QED
      BY <2>5, <2>7, <3>1 DEF Compare, Truth, Negate
  <2> QED
    BY <1>1, <2>3, <2>4, <2>6, <2>7
<1> QED
  BY <1>4, <1>5, <1>6 DEF d

-----------------------------------------------------------------------------
\* What is evaluated is one of the calls, and a decision comes after all its rules.
OfACall ==
    /\ pc # "idle" => \E call \in Calls : order = call.order /\ list = call.list /\ now = call.now
    /\ pc = "decided" => todo = {}

LEMMA CallKept == Spec => []OfACall
<1>1. Init => OfACall
  BY DEF Init, OfACall
<1>2. OfACall /\ [Next]_vars => OfACall'
  <2> SUFFICES ASSUME OfACall, [Next]_vars PROVE OfACall'
    OBVIOUS
  <2>1. CASE Begin
    BY <2>1 DEF Begin, OfACall
  <2>2. CASE TurnMatches \/ TurnFails \/ TurnRaises \/ Decide \/ UNCHANGED vars
    BY <2>2 DEF TurnMatches, TurnFails, TurnRaises, Decide, args, vars, OfACall
  <2>3. CASE Return
    BY <2>3 DEF Return, OfACall
  <2> QED
    BY <2>1, <2>2, <2>3 DEF Next
<1> QED
  BY <1>1, <1>2, PTL DEF Spec

\* How the rules of a call end, in terms of their conditions.
LEMMA OutcomeOfRule ==
    ASSUME OfACall, pc # "idle", NEW i \in DOMAIN list
    PROVE  /\ Condition(i) \in Trees
           /\ OutcomeAt(i) = ConditionOutcome(Condition(i), order)
           /\ IsLeaf(Condition(i)) /\ Condition(i).op \in Ordered =>
                 /\ IsComparable(Condition(i).value)
                 /\ IsComparable(Extract(order, Condition(i).field))
  BY EngineAssumption DEF OfACall, Condition, OutcomeAt

\* What a decision says of a valid rule is how its conditions ended.
LEMMA DecidedOf ==
    ASSUME LoopInvariant, OfACall, pc = "decided", NEW i \in ValidAt
    PROVE  /\ i \in DOMAIN list /\ Condition(i) \in Trees
           /\ Builds(Condition(i))
           /\ IsSatisfied(Condition(i), order) \in {"true", "false"}
           /\ Matches(i) <=> IsSatisfied(Condition(i), order) = "true"
<1>1. i \in DOMAIN list /\ IsValidAt(list[i], now) /\ i \notin todo
  BY DEF ValidAt, OfACall
<1>2. OutcomeAt(i) # "raise"
  BY <1>1, LoopParts DEF BadRuleStopsOrder
<1>3. Condition(i) \in Trees /\ OutcomeAt(i) = ConditionOutcome(Condition(i), order)
  BY <1>1, OutcomeOfRule
<1>4. Builds(Condition(i)) /\ OutcomeAt(i) = IsSatisfied(Condition(i), order)
  BY <1>2, <1>3 DEF ConditionOutcome
<1>5. IsSatisfied(Condition(i), order) \in {"true", "false"}
  BY <1>2, <1>3, <1>4, IsSatisfiedOf DEF Outcomes
<1>6. Matches(i) <=> i \in Satisfied
  BY LoopParts DEF MatchedInOrder, Matches
<1> QED
  BY <1>1, <1>3, <1>4, <1>5, <1>6 DEF Satisfied

\* A call that ends with an exception has a valid rule whose conditions raise.
LEMMA RaisedOf ==
    ASSUME LoopInvariant, OfACall, pc = "raised"
    PROVE  \E i \in ValidAt : /\ i \in DOMAIN list /\ Condition(i) \in Trees
                              /\ ConditionOutcome(Condition(i), order) = "raise"
<1>1. PICK i \in DOMAIN list : IsValidAt(list[i], now) /\ OutcomeAt(i) = "raise"
  BY LoopParts DEF BadRuleStopsOrder
<1> QED
  BY <1>1, OutcomeOfRule DEF ValidAt

\* A decision is only made on rules all of whose predicates are well formed
\* (rule_specification_factory.py builds the tree before it is evaluated).
THEOREM BrokenRulesShow == Spec => []IllFormedRaises
<1>1. LoopInvariant /\ OfACall => IllFormedRaises
  BY DecidedOf, BuildsMeans DEF IllFormedRaises
<1> QED
  BY <1>1, LoopCorrect, CallKept, PTL

\* A rule matches exactly when one of its clauses holds, unless it raises
\* (and_specification.py, or_specification.py).
THEOREM RulesMeanTheirClauses == Spec => []MeansItsClauses
<1>1. \A c \in Trees :
         Harmless(c) => /\ ConditionOutcome(c, order) # "raise"
                        /\ IsSatisfied(c, order) = "true" <=> Holds(c)
  BY BuildsMeans, SatisfiedMeans DEF Harmless, Holds, Agrees, IsTrue, ConditionOutcome
<1>2. LoopInvariant /\ OfACall => MeansItsClauses
  BY <1>1, DecidedOf, RaisedOf DEF MeansItsClauses
<1> QED
  BY <1>2, LoopCorrect, CallKept, PTL

\* An operator and its opposite never agree on an attribute that is there
\* (predicate_specification.py).
THEOREM OppositesNeverAgree == Spec => []OppositesDisagree
<1> DEFINE Comparable(i) == /\ IsLeaf(Condition(i)) /\ Condition(i).op \in DOMAIN Opposite
                            /\ Condition(i).field # <<>>
           Other(i) == [Condition(i) EXCEPT !.op = Opposite[@]]
           Present(i) == Extract(order, Condition(i).field) # None
<1>1. ASSUME OfACall, pc # "idle", NEW i \in DOMAIN list, Comparable(i)
      PROVE  /\ ConditionOutcome(Condition(i), order) = Predicate(Condition(i), order)
             /\ IsSatisfied(Condition(i), order) = Predicate(Condition(i), order)
             /\ LeafOutcome(Other(i)) = Predicate(Other(i), order)
             /\ ~Present(i) => /\ Predicate(Condition(i), order) = "false"
                               /\ Predicate(Other(i), order) = "false"
             /\ Present(i) => Predicate(Other(i), order) = Negate(Predicate(Condition(i), order))
  <2>1. /\ Condition(i) \in Trees
        /\ Condition(i).op \in Ordered => /\ IsComparable(Condition(i).value)
                                          /\ IsComparable(Extract(order, Condition(i).field))
    BY <1>1, OutcomeOfRule
  <2>2. /\ WellFormedLeaf(Condition(i)) /\ WellFormedLeaf(Other(i))
        /\ ~Present(i) => /\ Predicate(Condition(i), order) = "false"
                          /\ Predicate(Other(i), order) = "false"
        /\ Present(i) => Predicate(Other(i), order) = Negate(Predicate(Condition(i), order))
    BY <1>1, <2>1, OppositeOutcome
  <2> HIDE DEF Other
  <2>3. Builds(Condition(i)) /\ IsSatisfied(Condition(i), order) = Predicate(Condition(i), order)
    BY <1>1, <2>1, <2>2, BuildsOf, IsSatisfiedOf
  <2> QED
    BY <2>2, <2>3 DEF ConditionOutcome, LeafOutcome
<1>2. ASSUME LoopInvariant, OfACall, pc = "decided", NEW i \in ValidAt, Comparable(i)
      PROVE  LeafOutcome(Other(i)) = Truth(Present(i) /\ ~Matches(i))
  <2>1. /\ i \in DOMAIN list
        /\ IsSatisfied(Condition(i), order) \in {"true", "false"}
        /\ Matches(i) <=> IsSatisfied(Condition(i), order) = "true"
    BY <1>2, DecidedOf
  <2>2. pc # "idle"
    BY <1>2
  <2> HIDE DEF Other, Present
  <2> QED
    BY <1>1, <1>2, <2>1, <2>2 DEF Truth, Negate
<1>3. ASSUME LoopInvariant, OfACall, pc = "raised", Len(list) = 1, Comparable(1)
      PROVE  Present(1) /\ LeafOutcome(Other(1)) = "raise"
  <2>1. DOMAIN list = {1} /\ pc # "idle"
    BY <1>3, LoopParts DEF TypeOK, IsRuleList
  <2>2. ConditionOutcome(Condition(1), order) = "raise"
    BY <1>3, <2>1, RaisedOf
  <2> HIDE DEF Other, Present
  <2> QED
    BY <1>1, <1>3, <2>1, <2>2 DEF Negate
<1>4. LoopInvariant /\ OfACall => OppositesDisagree
  <2> HIDE DEF Present
  <2> QED
    BY <1>2, <1>3 DEF OppositesDisagree, Present
<1> QED
  BY <1>4, LoopCorrect, CallKept, PTL

-----------------------------------------------------------------------------
\* A tree none of whose predicates stops the order.
Tame(c, o) == \A leaf \in Leaves(c) : WellFormedLeaf(leaf) /\ Predicate(leaf, o) # "raise"

LEMMA TameDoesNotRaise ==
    ASSUME NEW o, NEW c \in Trees, Tame(c, o)
    PROVE  ConditionOutcome(c, o) # "raise"
  BY BuildsMeans, SatisfiedMeans DEF Tame, Agrees, ConditionOutcome

LEMMA TameNode ==
    ASSUME NEW o, NEW c \in Trees, ~IsLeaf(c), \A i \in DOMAIN Parts(c) : Tame(Parts(c)[i], o)
    PROVE  Tame(c, o)
  BY LeavesOf DEF Tame, ToSet

\* The predicates that the seeded rules are made of.
Careless == {"eq", "contains", "starts_with", "ends_with"}
LEMMA TamePredicate ==
    ASSUME NEW o, HasMeasures(o), NEW path, path # <<>>, NEW op, NEW value, Is(path, op, value) \in Trees,
           \/ op \in Careless
           \/ op = "in" /\ value.kind = "list"
           \/ op \in {"gt", "gte", "lte"} /\ path \in Measures /\ value.kind = "num"
    PROVE  Tame(Is(path, op, value), o)
<1> DEFINE leaf == Is(path, op, value)
           left == Extract(o, path)
<1>1. leaf.field = path /\ leaf.op = op /\ leaf.value = value /\ IsLeaf(leaf)
  BY DEF Is, IsLeaf, IsAnd, IsOr
<1> HIDE DEF leaf
<1>2. Leaves(leaf) = {leaf}
  BY <1>1, LeavesOf DEF leaf
<1>3. WellFormedLeaf(leaf)
  BY <1>1 DEF WellFormedLeaf, AllowedOps, Careless
<1>4. Predicate(leaf, o) = IF left = None THEN "false" ELSE Apply(op, left, value)
  BY <1>1 DEF Predicate, Careless
<1>5. left # None => Apply(op, left, value) # "raise"
  <2> SUFFICES ASSUME left # None PROVE Apply(op, left, value) # "raise"
    OBVIOUS
  <2>1. path \in Measures => left.kind = "num"
    BY DEF HasMeasures
  <2> HIDE DEF left
  <2>2. CASE op \in Careless
    BY <2>2 DEF Careless, Apply, Truth
  <2>3. CASE op = "in" /\ value.kind = "list"
    BY <2>3 DEF Apply, Within, Truth
  <2>4. CASE op \in {"gt", "gte", "lte"} /\ path \in Measures /\ value.kind = "num"
    BY <2>1, <2>4 DEF Apply, Compare, CanCompare, SameSort, Truth
  <2> QED
    BY <2>2, <2>3, <2>4
<1> QED
  BY <1>2, <1>3, <1>4, <1>5 DEF Tame, leaf

LEMMA TameAnd ==
    ASSUME NEW o, NEW parts, [and |-> parts] \in Trees, \A i \in DOMAIN parts : Tame(parts[i], o)
    PROVE  Tame([and |-> parts], o)
  BY TameNode DEF IsLeaf, IsAnd, Parts

\* What is in a tree is a tree.
LEMMA InAnd ==
    ASSUME NEW parts, [and |-> parts] \in Trees, NEW i \in DOMAIN parts
    PROVE  parts[i] \in Trees
  BY PartsAreLower DEF IsLeaf, IsAnd, Parts
LEMMA InOr ==
    ASSUME NEW parts, [or |-> parts] \in Trees, NEW i \in DOMAIN parts
    PROVE  parts[i] \in Trees
  BY PartsAreLower DEF IsLeaf, IsAnd, IsOr, Parts

LEMMA BulkIsTame ==
    ASSUME NEW o, HasMeasures(o), NEW i \in 1 .. BulkCount, BulkConditions(i) \in Trees
    PROVE  Tame(BulkConditions(i), o)
<1> DEFINE p1 == Is(Country, "eq", Text(<<BulkCountry(i)>>))
           p2 == Is(<<"total_weight_kg">>, "gte", Num((i % 30) + 1))
           p3 == Is(Line1, "contains", Text(<<"Via">>))
           p4 == Is(<<"priority">>, "lte", Num(5))
<1>1. BulkConditions(i) = [and |-> <<p1, p2, p3, p4>>]
  BY DEF BulkConditions
<1>2. p1 \in Trees /\ p2 \in Trees /\ p3 \in Trees /\ p4 \in Trees
  <2> HIDE DEF p1, p2, p3, p4
  <2>1. \A k \in 1 .. 4 : <<p1, p2, p3, p4>>[k] \in Trees
    BY <1>1, InAnd
  <2> QED
    BY <2>1
<1>3. Tame(p1, o) /\ Tame(p3, o)
  BY <1>2, TamePredicate DEF Careless, Country, Line1
<1>4. Tame(p2, o) /\ Tame(p4, o)
  BY <1>2, TamePredicate DEF Measures, Num
<1> HIDE DEF p1, p2, p3, p4
<1>5. \A k \in DOMAIN <<p1, p2, p3, p4>> : Tame(<<p1, p2, p3, p4>>[k], o)
  BY <1>3, <1>4
<1> QED
  BY <1>1, <1>5, TameAnd

LEMMA LongTailIsTame ==
    ASSUME NEW o, HasMeasures(o), NEW i \in 1 .. LongTailCount, LongTailRule(i).conditions \in Trees
    PROVE  Tame(LongTailRule(i).conditions, o)
<1> DEFINE country == <<"ES", "FR", "DE", "IT", "PT", "NL", "BE", "AT">>[(i % 8) + 1]
           op == <<"contains", "starts_with", "ends_with">>[(i % 3) + 1]
           p1 == Is(Country, "eq", Text(<<country>>))
           p2 == Is(Line1, op, Text(<<IF op # "ends_with" THEN "Via" ELSE "10">>))
           p3 == Is(<<"total_volume_m3">>, "gt", Num((i % 20) * 50))
           p4 == Is(<<"priority">>, "in", List([n \in 1 .. 5 |-> Num(n)]))
           left == [and |-> <<p1, p2>>]
           right == [and |-> <<p3, p4>>]
<1>1. LongTailRule(i).conditions = [or |-> <<left, right>>]
  BY DEF LongTailRule
<1>2. op \in Careless
  <2>1. (i % 3) + 1 \in 1 .. 3
    OBVIOUS
  <2> QED
    BY <2>1 DEF Careless
<1> HIDE DEF op
<1>3. left \in Trees /\ right \in Trees
  <2> HIDE DEF left, right
  <2>1. \A k \in 1 .. 2 : <<left, right>>[k] \in Trees
    BY <1>1, InOr
  <2> QED
    BY <2>1
<1>4. p1 \in Trees /\ p2 \in Trees /\ p3 \in Trees /\ p4 \in Trees
  <2> HIDE DEF p1, p2, p3, p4
  <2>1. \A k \in 1 .. 2 : <<p1, p2>>[k] \in Trees /\ <<p3, p4>>[k] \in Trees
    BY <1>3, InAnd
  <2> QED
    BY <2>1
<1>5. Tame(p1, o) /\ Tame(p2, o)
  BY <1>2, <1>4, TamePredicate DEF Careless, Country, Line1
<1>6. Tame(p3, o)
  BY <1>4, TamePredicate DEF Measures, Num
<1>7. Tame(p4, o)
  BY <1>4, TamePredicate DEF List
<1>8. Tame(left, o) /\ Tame(right, o)
  <2> HIDE DEF p1, p2, p3, p4
  <2>1. /\ \A k \in DOMAIN <<p1, p2>> : Tame(<<p1, p2>>[k], o)
        /\ \A k \in DOMAIN <<p3, p4>> : Tame(<<p3, p4>>[k], o)
    BY <1>5, <1>6, <1>7
  <2> QED
    BY <1>3, <2>1, TameAnd
<1> HIDE DEF left, right
<1>9. \A k \in DOMAIN <<left, right>> : Tame(<<left, right>>[k], o)
  BY <1>8
<1> QED
  BY <1>1, <1>9, TameNode DEF IsLeaf, IsAnd, IsOr, Parts

LEMMA BaselineIsTame ==
    ASSUME NEW o, HasMeasures(o), NEW r \in Baseline, r.conditions \in Trees
    PROVE  Tame(r.conditions, o)
<1>0. \/ r.conditions = [and |-> <<Is(Country, "eq", Text(<<"ES">>))>>]
      \/ r.conditions = [and |-> <<Is(Line1, "contains", Text(<<"Via", "Roma">>))>>]
  BY DEF Baseline
<1>1. PICK path, op, value : /\ path \in {Country, Line1} /\ op \in {"eq", "contains"}
                             /\ r.conditions = [and |-> <<Is(path, op, value)>>]
  BY <1>0
<1> DEFINE p == Is(path, op, value)
<1>2. p \in Trees
  <2> HIDE DEF p
  <2>1. \A k \in 1 .. 1 : <<p>>[k] \in Trees
    BY <1>1, InAnd DEF p
  <2> QED
    BY <2>1
<1>3. Tame(p, o)
  BY <1>1, <1>2, TamePredicate DEF Careless, Country, Line1
<1> HIDE DEF p
<1>4. \A k \in DOMAIN <<p>> : Tame(<<p>>[k], o)
  BY <1>3
<1> QED
  BY <1>1, <1>4, TameAnd DEF p

\* No seeded rule stops an order whose measures are numbers or missing
\* (migrations 0002 and 0003, cli/main.py:53-81).
THEOREM SeededRulesAreHarmless == Spec => []SeededRulesNeverRaise
<1>1. ASSUME LoopInvariant, OfACall, pc = "raised", OnlySeeded, HasMeasures(order) PROVE FALSE
  <2>1. PICK i \in DOMAIN list : /\ Condition(i) \in Trees
                                 /\ ConditionOutcome(Condition(i), order) = "raise"
    BY <1>1, RaisedOf
  <2>2. list[i] \in SeededRules
    BY <1>1 DEF OnlySeeded
  <2>3. Tame(Condition(i), order)
    <3>1. CASE \E k \in 1 .. BulkCount : list[i] = BulkRule(k)
      BY <1>1, <2>1, <3>1, BulkIsTame DEF Condition, BulkRule
    <3>2. CASE \E k \in 1 .. LongTailCount : list[i] = LongTailRule(k)
      BY <1>1, <2>1, <3>2, LongTailIsTame DEF Condition
    <3>3. CASE list[i] \in Baseline
      BY <1>1, <2>1, <3>3, BaselineIsTame DEF Condition
    <3> QED
      BY <2>2, <3>1, <3>2, <3>3 DEF SeededRules
  <2> QED
    BY <2>1, <2>3, TameDoesNotRaise
<1>2. LoopInvariant /\ OfACall => SeededRulesNeverRaise
  BY <1>1 DEF SeededRulesNeverRaise
<1> QED
  BY <1>2, LoopCorrect, CallKept, PTL

\* The matches come in the order of the turns, also those of equal priority, and
\* the payload is that of the decision.
DecisionKept ==
    /\ pc \in {"loop", "decided"} =>
          \A m, n \in DOMAIN matched : m < n => Precedes(matched[m], matched[n])
    /\ pc = "decided" => payload = IF HasMatches THEN Payload ELSE NoPayload

LEMMA DecisionStep == LoopInvariant /\ DecisionKept /\ [Next]_vars => DecisionKept'
<1> SUFFICES ASSUME LoopInvariant, DecisionKept, [Next]_vars PROVE DecisionKept'
  OBVIOUS
<1>1. CASE Begin
  BY <1>1 DEF Begin, DecisionKept
<1>2. CASE TurnMatches
  <2>1. PICK i \in todo : matched' = Append(matched, i)
    BY <1>2 DEF TurnMatches
  <2>2. pc = "loop" /\ pc' = "loop" /\ UNCHANGED list
    BY <1>2 DEF TurnMatches, args
  <2>3. /\ matched \in Seq(DOMAIN list) /\ todo \subseteq DOMAIN list
        /\ \A m \in DOMAIN matched : matched[m] \in Satisfied
    BY <2>2, LoopParts DEF TypeOK, MatchedInOrder
  <2>4. \A m \in DOMAIN matched : Precedes(matched[m], i)
    BY <2>1, <2>2, <2>3, LoopParts DEF DonePrecede, Satisfied
  <2> DEFINE l == Len(matched) + 1
  <2>5. /\ DOMAIN matched' = 1 .. l /\ DOMAIN matched = 1 .. Len(matched) /\ Len(matched) \in Nat
        /\ \A m \in DOMAIN matched : matched'[m] = matched[m]
        /\ matched'[l] = i
    <3>1. i \in DOMAIN list /\ matched \in Seq(DOMAIN list)
      BY <2>1, <2>3
    <3> QED
      BY <2>1, <3>1, Appended
  <2>6. ASSUME NEW m \in DOMAIN matched', NEW n \in DOMAIN matched', m < n
        PROVE  Precedes(matched'[m], matched'[n])
    <3>1. m \in DOMAIN matched
      BY <2>5, <2>6
    <3>2. CASE n = l
      BY <2>4, <2>5, <3>1, <3>2
    <3>3. CASE n \in DOMAIN matched
      BY <2>2, <2>5, <2>6, <3>1, <3>3 DEF DecisionKept
    <3> QED
      BY <2>5, <3>2, <3>3
  <2>7. \A x, y : Precedes(x, y)' <=> Precedes(x, y)
    BY <2>2 DEF Precedes
  <2> QED
    BY <2>2, <2>6, <2>7 DEF DecisionKept
<1>3. CASE TurnFails \/ TurnRaises
  BY <1>3 DEF TurnFails, TurnRaises, args, DecisionKept, Precedes
<1>4. CASE Decide
  BY <1>4 DEF Decide, args, DecisionKept, Precedes, HasMatches, Payload
<1>5. CASE Return
  BY <1>5 DEF Return, DecisionKept
<1>6. CASE UNCHANGED vars
  BY <1>6 DEF vars, args, DecisionKept, Precedes, HasMatches, Payload
<1> QED
  BY <1>1, <1>2, <1>3, <1>4, <1>5, <1>6 DEF Next

LEMMA DecisionIsKept == Spec => []DecisionKept
<1>1. Init => DecisionKept
  BY DEF Init, DecisionKept
<1> QED
  BY <1>1, DecisionStep, LoopCorrect, PTL DEF Spec

\* A long-tail rule comes after any other seeded rule.
LEMMA LongTailIsLast ==
    ASSUME NEW r \in SeededRules
    PROVE  /\ r.priority \in Int
           /\ IsLongTail(r) => /\ r.priority >= 300
                              /\ \E i \in 1 .. LongTailCount : r = LongTailRule(i)
           /\ ~IsLongTail(r) => r.priority <= 250
<1>1. CASE \E i \in 1 .. BulkCount : r = BulkRule(i)
  <2>1. PICK i \in 1 .. BulkCount : r = BulkRule(i)
    BY <1>1
  <2>2. r.priority = (i % 250) + 1 /\ r.conditions = BulkConditions(i)
    BY <2>1 DEF BulkRule
  <2>3. ~IsLongTail(r)
    BY <2>2 DEF IsLongTail, BulkConditions
  <2> QED
    BY <2>2, <2>3
<1>2. CASE \E i \in 1 .. LongTailCount : r = LongTailRule(i)
  <2>1. PICK i \in 1 .. LongTailCount : r = LongTailRule(i)
    BY <1>2
  <2>2. r.priority = LongTailPriority(i) /\ DOMAIN r.conditions = {"or"}
    BY <2>1 DEF LongTailRule
  <2>3. IsLongTail(r)
    BY <2>2 DEF IsLongTail
  <2>4. r.priority \in Int /\ r.priority >= 300
    BY <2>2 DEF LongTailPriority
  <2> QED
    BY <1>2, <2>3, <2>4
<1>3. CASE r \in Baseline
  <2>1. r.priority \in {10, 20} /\ DOMAIN r.conditions = {"and"}
    BY <1>3 DEF Baseline
  <2> QED
    BY <2>1 DEF IsLongTail
<1> QED
  BY <1>1, <1>2, <1>3 DEF SeededRules

\* The fields of a long-tail rule are never mixed with those of another seeded rule
\* (0003_seed_longtail_rules.py:58).
THEOREM LongTailRulesDecide == Spec => []LongTailDecides
<1> DEFINE last == matched[Len(matched)]
<1>1. ASSUME LoopInvariant, DecisionKept, pc = "decided", OnlySeeded,
             NEW n \in DOMAIN matched, IsLongTail(list[matched[n]])
      PROVE  /\ IsLongTail(list[last])
             /\ \A k \in LongTailKeys : payload.enrichedFields[k] = list[last].enrichment[k]
  <2>1. /\ matched \in Seq(DOMAIN list) /\ IsRuleList(list)
        /\ {matched[m] : m \in DOMAIN matched} = Satisfied
        /\ \A l, m \in DOMAIN matched : l < m =>
              list[matched[l]].priority <= list[matched[m]].priority
    BY <1>1, LoopParts DEF TypeOK, MatchedInOrder
  <2>2. DOMAIN matched = 1 .. Len(matched) /\ Len(matched) \in Nat /\ n \in 1 .. Len(matched)
    BY <2>1
  <2>3. Len(matched) \in DOMAIN matched /\ (n < Len(matched) \/ n = Len(matched))
    BY <2>2
  <2>4. last \in DOMAIN list /\ last \in Satisfied /\ matched[n] \in DOMAIN list
    BY <2>1, <2>3
  <2>5. IsLongTail(list[last])
    <3>1. list[last] \in SeededRules /\ list[matched[n]] \in SeededRules
      BY <1>1, <2>4 DEF OnlySeeded
    <3>2. list[matched[n]].priority >= 300 /\ list[matched[n]].priority \in Int
      BY <1>1, <3>1, LongTailIsLast
    <3>3. list[matched[n]].priority <= list[last].priority \/ n = Len(matched)
      BY <2>1, <2>3
    <3>4. list[last].priority \in Int /\ (~IsLongTail(list[last]) => list[last].priority <= 250)
      BY <3>1, LongTailIsLast
    <3> QED
      BY <1>1, <3>2, <3>3, <3>4
  <2>6. payload.enrichedFields = fields
    BY <1>1, <2>2 DEF DecisionKept, HasMatches, Payload
  <2>7. ASSUME NEW k \in LongTailKeys PROVE fields[k] = list[last].enrichment[k]
    <3>1. list[last] \in SeededRules
      BY <1>1, <2>4 DEF OnlySeeded
    <3>2. PICK i \in 1 .. LongTailCount : list[last] = LongTailRule(i)
      BY <2>5, <3>1, LongTailIsLast
    <3>3. list[last].enrichment[k] # Absent
      BY <3>2, SeedAssumption
    <3>4. k \in DOMAIN LongTailRule(i).enrichment
      BY DEF LongTailRule, LongTailKeys
    <3>5. k \in Keys
      BY <2>1, <2>4, <3>2, <3>4 DEF IsRuleList
    <3> DEFINE having == {j \in Satisfied : list[j].enrichment[k] # Absent}
    <3>6. last \in having
      BY <2>4, <3>3
    <3>7. PICK j \in having : /\ fields[k] = list[j].enrichment[k]
                              /\ \A x \in having \ {j} : Precedes(x, j)
      BY <1>1, <3>5, <3>6, LoopParts DEF GreatestPriorityWins
    <3>8. j = last
      <4> SUFFICES ASSUME j # last PROVE FALSE
        OBVIOUS
      <4>1. Precedes(last, j)
        BY <3>6, <3>7
      <4>2. PICK m \in DOMAIN matched : matched[m] = j
        BY <2>1, <3>7
      <4>3. m < Len(matched)
        BY <2>2, <4>2
      <4>4. Precedes(j, last)
        BY <1>1, <2>3, <4>2, <4>3 DEF DecisionKept
      <4>5. j \in DOMAIN list
        BY <3>7 DEF Satisfied
      <4>6. /\ list[j].priority \in Int /\ list[last].priority \in Int
            /\ j \in Int /\ last \in Int
        BY <1>1, <2>4, <4>5, ListTyped, LoopParts
      <4> HIDE DEF last
      <4> QED
        BY <4>1, <4>4, <4>6 DEF Precedes
    <3> QED
      BY <3>7, <3>8
  <2> QED
    BY <2>5, <2>6, <2>7
<1>2. LoopInvariant /\ DecisionKept => LongTailDecides
  BY <1>1 DEF LongTailDecides
<1> QED
  BY <1>2, LoopCorrect, DecisionIsKept, PTL
=============================================================================
