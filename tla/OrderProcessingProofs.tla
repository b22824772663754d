------------------------ MODULE OrderProcessingProofs ------------------------
(***************************************************************************)
(* Proofs about OrderProcessing, for any number of daemons, orders, crashes *)
(* and database faults; and, at the end, for a daemon that runs alone.     *)
(***************************************************************************)
EXTENDS OrderProcessing, FiniteSetTheorems, TLAPS

-----------------------------------------------------------------------------
\* The maximum of a non-empty initial interval is its upper end.
LEMMA MaxOfInterval ==
    ASSUME NEW k \in Nat, k # 0
    PROVE  Max(1 .. k) = k
<1>1. k \in 1 .. k /\ \A n \in 1 .. k : k >= n
  OBVIOUS
<1>2. \A m \in 1 .. k : (\A n \in 1 .. k : m >= n) => m = k
  BY <1>1
<1> QED
  BY <1>1, <1>2 DEF Max

\* The next attempt number after 1 .. k is k + 1, with or without attempts.
LEMMA NextAfterInterval ==
    ASSUME NEW T, NEW o, NEW k \in Nat, AttemptNumbers(T, o) = 1 .. k
    PROVE  GetNextAttemptNumber(T, o) = k + 1
<1>1. CASE k = 0
  <2>1. 1 .. k = {}
    BY <1>1
  <2> QED
    BY <1>1, <2>1 DEF GetNextAttemptNumber
<1>2. CASE k # 0
  <2>1. 1 .. k # {}
    BY <1>2
  <2> QED
    BY <1>2, <2>1, MaxOfInterval DEF GetNextAttemptNumber
<1> QED
  BY <1>1, <1>2

\* Saving an attempt adds its number to those of its order only.
LEMMA NumbersAfterSave ==
    ASSUME NEW T, NEW o, NEW p, NEW c, NEW n, NEW s
    PROVE  AttemptNumbers(SaveAttempt(T, o, c, n, s), p) =
               AttemptNumbers(T, p) \cup (IF p = o THEN {n} ELSE {})
<1> DEFINE r == [order |-> o, corr |-> c, number |-> n, status |-> s]
           R == {b \in T : b.order = p}
           RR == {b \in T \cup {r} : b.order = p}
<1>1. r.order = o /\ r.number = n
  OBVIOUS
<1> HIDE DEF r
<1>2. RR = R \cup (IF p = o THEN {r} ELSE {})
  BY <1>1
<1> HIDE DEF R, RR
<1>3. {a.number : a \in RR} = {a.number : a \in R} \cup (IF p = o THEN {n} ELSE {})
  <2>1. CASE p = o
    BY <1>1, <1>2, <2>1
  <2>2. CASE p # o
    BY <1>2, <2>2
  <2> QED
    BY <2>1, <2>2
<1> QED
  BY <1>3 DEF AttemptNumbers, SaveAttempt, r, R, RR

\* The snapshot of an order cannot be encoded in a JSON column.
LEMMA OrderNotEncodable == ~ JsonEncodable({"str"} \cup OrderLeafTypes)
  BY DEF JsonEncodable, OrderLeafTypes, JsonTypes

-----------------------------------------------------------------------------
\* Types.
LEMMA TypeInit == Init => TypeOK
  BY DEF Init, TypeOK, Labels

\* A daemon that is inside execute() has a job, with what follows from its type.
LEMMA JobTyped ==
    ASSUME TypeOK, NEW d \in Daemons, pc[d] # "idle"
    PROVE  /\ job[d] # NoJob
           /\ job[d] \in Jobs
           /\ job[d].order \in Orders
           /\ job[d].version \in Nat
           /\ job[d].corr \in Nat
           /\ job[d].number \in Nat
           /\ job[d].matched \in BOOLEAN
           /\ job[d].fields \in AllFields
           /\ job[d].loaded \in ProcessedRows \cup {NoRow}
<1>1. job[d] # NoJob /\ job[d] \in Jobs
  BY DEF TypeOK
<1> QED
  BY <1>1 DEF Jobs

LEMMA HashTyped ==
    ASSUME TypeOK, NEW d \in Daemons, pc[d] # "idle"
    PROVE  JobHash(job[d]) \in Hashes
  BY JobTyped DEF JobHash, Compute, Hashes

LEMMA AcceptedTyped ==
    ASSUME TypeOK, NEW d \in Daemons, pc[d] # "idle"
    PROVE  Accepted(job[d]) \in [order : Orders, corr : Nat, hash : Hashes]
  BY JobTyped, HashTyped DEF Accepted

\* What execute() leaves behind when it ends.
LEMMA LeaveTyped ==
    ASSUME TypeOK, NEW d \in Daemons, Leave(d)
    PROVE  /\ pc' \in [Daemons -> Labels]
           /\ job' \in [Daemons -> Jobs \cup {NoJob}]
           /\ \A x \in Daemons : pc'[x] = "idle" <=> job'[x] = NoJob
  BY DEF TypeOK, Leave, Labels

\* A move inside execute() that keeps a job.
LEMMA GotoTyped ==
    ASSUME TypeOK, NEW d \in Daemons, NEW l \in Labels \ {"idle"}, Goto(d, l),
           NEW j \in Jobs, job' = [job EXCEPT ![d] = j]
    PROVE  /\ pc' \in [Daemons -> Labels]
           /\ job' \in [Daemons -> Jobs \cup {NoJob}]
           /\ \A x \in Daemons : pc'[x] = "idle" <=> job'[x] = NoJob
<1>1. j # NoJob
  BY ConstantsAssumption
<1> QED
  BY <1>1 DEF TypeOK, Goto

LEMMA FaultsTyped ==
    ASSUME TypeOK, NEW b, NEW r, CountFault(b, r)
    PROVE  faults' \in Nat
  BY DEF TypeOK, CountFault

\* An evaluation without a match yields no fields.
LEMMA DecisionTyped ==
    ASSUME NEW dec \in Decisions
    PROVE  /\ dec.matched \in BOOLEAN
           /\ dec.fields \in AllFields
           /\ ~ dec.matched => dec.fields = NoFields
<1>1. CASE dec \in [matched : {TRUE}, fields : Fields]
  <2>1. dec.matched = TRUE /\ dec.fields \in Fields
    BY <1>1
  <2> QED
    BY <2>1 DEF AllFields
<1>2. CASE dec = [matched |-> FALSE, fields |-> NoFields]
  <2>1. dec.matched = FALSE /\ dec.fields = NoFields
    BY <1>2
  <2> QED
    BY <2>1 DEF AllFields
<1> QED
  BY <1>1, <1>2 DEF Decisions

\* A decision turns the job of a run into a job.
LEMMA EvaluatedTyped ==
    ASSUME TypeOK, NEW d \in Daemons, pc[d] # "idle", NEW dec \in Decisions
    PROVE  Evaluated(d, dec) \in Jobs
<1>1. dec.matched \in BOOLEAN /\ dec.fields \in AllFields
  BY DecisionTyped
<1> QED
  BY <1>1, JobTyped DEF Evaluated, Jobs

LEMMA AttemptTyped ==
    ASSUME TypeOK, NEW d \in Daemons, pc[d] # "idle", NEW s \in Statuses
    PROVE  SaveAttempt(attempts, job[d].order, job[d].corr, job[d].number, s)
               \subseteq Attempts
  BY JobTyped DEF TypeOK, SaveAttempt, Attempts

LEMMA MessageTyped ==
    ASSUME TypeOK, NEW d \in Daemons, pc[d] # "idle",
           NEW type \in {"OrderEnrichmentSucceeded", "OrderEnrichmentFailed"},
           NEW event \in {"OrderEnrichmentSucceeded", "NoRulesMatched",
                          "OrderEnrichmentFailed"}
    PROVE  Enqueue(outbox, RunMessageId(job[d].corr, job[d].order), job[d].order,
                   type, event) \subseteq RunMessages
  BY JobTyped DEF TypeOK, Enqueue, RunMessageId, RunMessages

LEMMA ProcessedTyped ==
    ASSUME TypeOK, NEW d \in Daemons, pc[d] # "idle",
           job[d].loaded # NoRow => processed[job[d].order] # NoRow
    PROVE  LET P == SaveProcessed(processed, job[d].order, job[d].loaded, NoRow,
                                  JobHash(job[d]), job[d].corr)
           IN  /\ P \in [Orders -> ProcessedRows \cup {NoRow}]
               /\ P[job[d].order] \in ProcessedRows
<1> DEFINE o == job[d].order
           h == IF job[d].loaded # NoRow /\ job[d].loaded.hash = JobHash(job[d])
                THEN processed[o].hash ELSE JobHash(job[d])
<1>1. o \in Orders /\ job[d].corr \in Nat /\ JobHash(job[d]) \in Hashes
  BY JobTyped, HashTyped
<1>2. processed \in [Orders -> ProcessedRows \cup {NoRow}]
  BY DEF TypeOK
<1>3. processed[o] # NoRow => processed[o].hash \in Hashes
  BY <1>1, <1>2 DEF ProcessedRows
<1>4. h \in Hashes
  BY <1>1, <1>3
<1>5. [hash |-> h, corr |-> job[d].corr] \in ProcessedRows
  BY <1>1, <1>4 DEF ProcessedRows
<1>6. SaveProcessed(processed, o, job[d].loaded, NoRow, JobHash(job[d]), job[d].corr)
        = [processed EXCEPT ![o] = [hash |-> h, corr |-> job[d].corr]]
  BY <1>1, <1>2 DEF SaveProcessed
<1> HIDE DEF h
<1> QED
  BY <1>1, <1>2, <1>5, <1>6

\* Every step preserves the types.
LEMMA TypeStep == InductiveInvariant /\ [Next]_vars => TypeOK'
<1> SUFFICES ASSUME TypeOK, AttemptNumbersInterval, SuccessJustified, [Next]_vars
             PROVE  TypeOK'
  BY DEF InductiveInvariant
<1> USE DEF wmsVars, dbVars, memVars, boundVars
<1>1. ASSUME NEW o \in Orders, UpdateOrder(o)
      PROVE  TypeOK'
  BY <1>1 DEF UpdateOrder, TypeOK
<1>2. CASE LateArrival
  BY <1>2 DEF LateArrival, TypeOK
<1>3. ASSUME NEW d \in Daemons, Fetch(d)
      PROVE  TypeOK'
  <2>1. PICK S \in SUBSET Orders :
          /\ fetched' = fetched + Cardinality(S)
          /\ fetched + Cardinality(S) <= MaxFetched
          /\ batch' = [batch EXCEPT ![d] = {[order |-> o, version |-> version[o]] : o \in S}]
    BY <1>3 DEF Fetch
  <2>2. batch' \in [Daemons -> SUBSET [order : Orders, version : Nat]]
    <3>1. {[order |-> o, version |-> version[o]] : o \in S}
              \subseteq [order : Orders, version : Nat]
      BY DEF TypeOK
    <3> QED
      BY <2>1, <3>1 DEF TypeOK
  <2>3. fetched' \in Nat
    BY <2>1, ConstantsAssumption, FS_Subset, FS_CardinalityType DEF TypeOK
  <2> QED
    BY <1>3, <2>2, <2>3 DEF Fetch, TypeOK
<1>4. ASSUME NEW d \in Daemons, Start(d)
      PROVE  TypeOK'
  <2>1. PICK s \in batch[d] :
          /\ batch' = [batch EXCEPT ![d] = @ \ {s}]
          /\ job' = [job EXCEPT ![d] =
               [order |-> s.order, version |-> s.version, corr |-> runs + 1,
                number |-> GetNextAttemptNumber(attempts, s.order),
                matched |-> FALSE, fields |-> NoFields, loaded |-> NoRow]]
    BY <1>4 DEF Start
  <2>2. s \in [order : Orders, version : Nat]
    BY DEF TypeOK
  <2>3. GetNextAttemptNumber(attempts, s.order) \in Nat
    <3>1. PICK k \in 0 .. runs : AttemptNumbers(attempts, s.order) = 1 .. k
      BY <2>2 DEF AttemptNumbersInterval
    <3>2. k \in Nat
      BY DEF TypeOK
    <3> QED
      BY <3>1, <3>2, NextAfterInterval
  <2>4. [order |-> s.order, version |-> s.version, corr |-> runs + 1,
         number |-> GetNextAttemptNumber(attempts, s.order),
         matched |-> FALSE, fields |-> NoFields, loaded |-> NoRow] \in Jobs
    BY <2>2, <2>3 DEF Jobs, AllFields, TypeOK
  <2>5. Goto(d, "evaluate") /\ "evaluate" \in Labels \ {"idle"}
    BY <1>4 DEF Start, Labels
  <2>6. /\ pc' \in [Daemons -> Labels]
        /\ job' \in [Daemons -> Jobs \cup {NoJob}]
        /\ \A x \in Daemons : pc'[x] = "idle" <=> job'[x] = NoJob
    BY <2>1, <2>4, <2>5, GotoTyped
  <2>7. batch' \in [Daemons -> SUBSET [order : Orders, version : Nat]]
    BY <2>1 DEF TypeOK
  <2> QED
    BY <1>4, <2>6, <2>7 DEF Start, TypeOK
<1>5. ASSUME NEW d \in Daemons, RaiseBeforeSubmit(d) \/ SkipDuplicate(d)
      PROVE  TypeOK'
  <2>1. Leave(d)
    BY <1>5 DEF RaiseBeforeSubmit, SkipDuplicate
  <2> QED
    BY <1>5, <2>1, LeaveTyped DEF RaiseBeforeSubmit, SkipDuplicate, TypeOK
<1>6. ASSUME NEW d \in Daemons, DecideNoMatch(d) \/ DecideMatch(d)
      PROVE  TypeOK'
  <2>1. PICK dec \in Decisions : job' = [job EXCEPT ![d] = Evaluated(d, dec)]
    BY <1>6 DEF DecideNoMatch, DecideMatch
  <2>2. PICK l \in Labels \ {"idle"} : Goto(d, l)
    BY <1>6 DEF DecideNoMatch, DecideMatch, Labels
  <2>3. Evaluated(d, dec) \in Jobs
    BY <1>6, EvaluatedTyped DEF DecideNoMatch, DecideMatch
  <2> QED
    BY <1>6, <2>1, <2>2, <2>3, GotoTyped DEF DecideNoMatch, DecideMatch, TypeOK
<1>7. ASSUME NEW d \in Daemons, SubmitReturns(d) \/ SubmitRaises(d)
      PROVE  TypeOK'
  <2>1. PICK l \in Labels \ {"idle"} : Goto(d, l)
    BY <1>7 DEF SubmitReturns, SubmitRaises, Labels
  <2>2. job[d] \in Jobs /\ job' = [job EXCEPT ![d] = job[d]]
    BY <1>7, JobTyped DEF SubmitReturns, SubmitRaises, TypeOK
  <2>3. (applied \cup late)' \subseteq [order : Orders, corr : Nat, hash : Hashes]
    BY <1>7, AcceptedTyped DEF SubmitReturns, SubmitRaises, TypeOK
  <2> QED
    BY <1>7, <2>1, <2>2, <2>3, GotoTyped DEF SubmitReturns, SubmitRaises, TypeOK
<1>8. ASSUME NEW d \in Daemons, StageSuccess(d)
      PROVE  TypeOK'
  <2>1. Goto(d, "commit_success") /\ "commit_success" \in Labels \ {"idle"}
    BY <1>8 DEF StageSuccess, Labels
  <2>2. job[d] \in Jobs /\ processed[job[d].order] \in ProcessedRows \cup {NoRow}
    BY <1>8, JobTyped DEF StageSuccess, TypeOK
  <2>3. [job[d] EXCEPT !.loaded = processed[job[d].order]] \in Jobs
    BY <2>2 DEF Jobs
  <2>4. job' = [job EXCEPT ![d] = [job[d] EXCEPT !.loaded = processed[job[d].order]]]
    BY <1>8 DEF StageSuccess
  <2> QED
    BY <1>8, <2>1, <2>3, <2>4, GotoTyped DEF StageSuccess, TypeOK
<1>9. ASSUME NEW d \in Daemons, CommitSuccess(d)
      PROVE  TypeOK'
  <2> DEFINE j == job[d]
             id == RunMessageId(j.corr, j.order)
             storable == /\ ~MessageRefused(j.order, id)
                         /\ ~ProcessedConflict(processed, j.order, j.loaded, NoRow)
  <2>1. PICK outcome \in CommitOutcomes(storable) :
          /\ CountFault(storable, outcome)
          /\ IF Stored(outcome)
             THEN /\ attempts' = SaveAttempt(attempts, j.order, j.corr, j.number, "SUCCESS")
                  /\ processed' = SaveProcessed(processed, j.order, j.loaded, NoRow,
                                                JobHash(j), j.corr)
                  /\ outbox' = Enqueue(outbox, id, j.order,
                                       "OrderEnrichmentSucceeded", SuccessEvent(j))
             ELSE UNCHANGED <<attempts, processed, outbox>>
          /\ IF Raised(outcome) /\ j.matched
             THEN Goto(d, "persist_failure") /\ UNCHANGED job
             ELSE Leave(d)
    BY <1>9 DEF CommitSuccess
  <2>2. pc[d] # "idle" /\ pc[d] = "commit_success"
    BY <1>9 DEF CommitSuccess
  <2>3. attempts' \subseteq Attempts
    BY <2>1, <2>2, AttemptTyped DEF TypeOK, Statuses
  <2>4. processed' \in [Orders -> ProcessedRows \cup {NoRow}]
    <3>1. j.loaded # NoRow => processed[j.order] # NoRow
      BY <2>2, JobTyped DEF SuccessJustified
    <3> QED
      BY <2>1, <2>2, <3>1, ProcessedTyped DEF TypeOK
  <2>5. outbox' \subseteq RunMessages
    <3>1. SuccessEvent(j) \in {"OrderEnrichmentSucceeded", "NoRulesMatched",
                               "OrderEnrichmentFailed"}
      BY DEF SuccessEvent
    <3> QED
      BY <2>1, <2>2, <3>1, MessageTyped DEF TypeOK
  <2>6. /\ pc' \in [Daemons -> Labels]
        /\ job' \in [Daemons -> Jobs \cup {NoJob}]
        /\ \A x \in Daemons : pc'[x] = "idle" <=> job'[x] = NoJob
    <3>1. CASE Leave(d)
      BY <3>1, LeaveTyped
    <3>2. CASE Goto(d, "persist_failure") /\ UNCHANGED job
      <4>1. job[d] \in Jobs /\ job' = [job EXCEPT ![d] = job[d]]
        BY <2>2, <3>2, JobTyped DEF TypeOK
      <4> QED
        BY <3>2, <4>1, GotoTyped DEF Labels
    <3> QED
      BY <2>1, <3>1, <3>2
  <2>7. faults' \in Nat
    BY <2>1, FaultsTyped
  <2> QED
    BY <1>9, <2>3, <2>4, <2>5, <2>6, <2>7 DEF CommitSuccess, TypeOK
<1>10. ASSUME NEW d \in Daemons, PersistFailure(d)
       PROVE  TypeOK'
  <2> DEFINE j == job[d]
             id == RunMessageId(j.corr, j.order)
             storable == ~MessageRefused(j.order, id)
  <2>1. PICK outcome \in CommitOutcomes(storable) :
          /\ CountFault(storable, outcome)
          /\ IF Stored(outcome)
             THEN /\ attempts' = SaveAttempt(attempts, j.order, j.corr, j.number, "FAILED")
                  /\ outbox' = Enqueue(outbox, id, j.order,
                                       "OrderEnrichmentFailed", "OrderEnrichmentFailed")
             ELSE UNCHANGED <<attempts, outbox>>
          /\ IF ~Raised(outcome) /\ j.number >= MaxProcessingAttempts
             THEN Goto(d, "dead_letter") /\ UNCHANGED job
             ELSE Leave(d)
    BY <1>10 DEF PersistFailure
  <2>2. pc[d] # "idle"
    BY <1>10 DEF PersistFailure
  <2>3. attempts' \subseteq Attempts
    BY <2>1, <2>2, AttemptTyped DEF TypeOK, Statuses
  <2>4. outbox' \subseteq RunMessages
    BY <2>1, <2>2, MessageTyped DEF TypeOK
  <2>5. /\ pc' \in [Daemons -> Labels]
        /\ job' \in [Daemons -> Jobs \cup {NoJob}]
        /\ \A x \in Daemons : pc'[x] = "idle" <=> job'[x] = NoJob
    <3>1. CASE Leave(d)
      BY <3>1, LeaveTyped
    <3>2. CASE Goto(d, "dead_letter") /\ UNCHANGED job
      <4>1. job[d] \in Jobs /\ job' = [job EXCEPT ![d] = job[d]]
        BY <2>2, <3>2, JobTyped DEF TypeOK
      <4> QED
        BY <3>2, <4>1, GotoTyped DEF Labels
    <3> QED
      BY <2>1, <3>1, <3>2
  <2>6. faults' \in Nat
    BY <2>1, FaultsTyped
  <2> QED
    BY <1>10, <2>3, <2>4, <2>5, <2>6 DEF PersistFailure, TypeOK
<1>11. ASSUME NEW d \in Daemons, MoveOrderToDeadLetter(d)
       PROVE  TypeOK'
  <2> DEFINE storable == JsonEncodable({"str"} \cup OrderLeafTypes)
  <2>1. PICK outcome \in CommitOutcomes(storable) :
          /\ CountFault(storable, outcome)
          /\ ~Stored(outcome) => UNCHANGED <<deadLetters, outbox>>
    BY <1>11 DEF MoveOrderToDeadLetter
  <2>2. ~Stored(outcome)
    BY OrderNotEncodable DEF CommitOutcomes, Stored
  <2>3. Leave(d) /\ faults' \in Nat
    BY <1>11, <2>1, FaultsTyped DEF MoveOrderToDeadLetter
  <2> QED
    BY <1>11, <2>1, <2>2, <2>3, LeaveTyped DEF MoveOrderToDeadLetter, TypeOK
<1>12. ASSUME NEW d \in Daemons, Crash(d)
       PROVE  TypeOK'
  <2>1. Leave(d)
    BY <1>12 DEF Crash
  <2> QED
    BY <1>12, <2>1, LeaveTyped DEF Crash, TypeOK
<1>13. CASE UNCHANGED vars
  BY <1>13 DEF vars, TypeOK
<1> QED
  BY <1>1, <1>2, <1>3, <1>4, <1>5, <1>6, <1>7, <1>8, <1>9, <1>10, <1>11, <1>12, <1>13
  DEF Next

-----------------------------------------------------------------------------
\* Correlation ids.
LEMMA CorrelationIdsStep == InductiveInvariant /\ [Next]_vars => CorrelationIds'
<1> SUFFICES ASSUME TypeOK, CorrelationIds, [Next]_vars
             PROVE  CorrelationIds'
  BY DEF InductiveInvariant
<1> USE DEF wmsVars, dbVars, memVars, boundVars
\* A run that ends takes its job with it.
<1>1. ASSUME NEW d \in Daemons, Leave(d), UNCHANGED <<attempts, runs>>
      PROVE  CorrelationIds'
  BY <1>1 DEF Leave, CorrelationIds, TypeOK
\* A run that goes on keeps its correlation id and its order.
<1>2. ASSUME NEW d \in Daemons, pc[d] # "idle", NEW j \in Jobs,
             j.corr = job[d].corr, j.order = job[d].order,
             job' = [job EXCEPT ![d] = j], UNCHANGED <<attempts, runs>>
      PROVE  CorrelationIds'
  BY <1>2 DEF CorrelationIds, TypeOK
\* An attempt of the run under way is saved; the run goes on or ends.
<1>3. ASSUME NEW d \in Daemons, pc[d] # "idle", NEW s,
             attempts' = SaveAttempt(attempts, job[d].order, job[d].corr, job[d].number, s),
             Leave(d) \/ UNCHANGED job, UNCHANGED runs
      PROVE  CorrelationIds'
  <2> DEFINE r == [order |-> job[d].order, corr |-> job[d].corr,
                   number |-> job[d].number, status |-> s]
  <2>1. attempts' = attempts \cup {r}
    BY <1>3 DEF SaveAttempt
  <2>2. r.order = job[d].order /\ r.corr = job[d].corr
    OBVIOUS
  <2>3. job[d] # NoJob
    BY <1>3 DEF TypeOK
  <2>4. \A x \in Daemons : job'[x] # NoJob => job'[x] = job[x]
    BY <1>3 DEF Leave, TypeOK
  <2> HIDE DEF r
  <2>5. \A a \in attempts' : a.corr \in 1 .. runs
    BY <2>1, <2>2, <2>3 DEF CorrelationIds
  <2>6. ASSUME NEW x \in Daemons, job'[x] # NoJob, NEW a \in attempts', a.corr = job[x].corr
        PROVE  a.order = job[x].order
    <3>1. job[x] # NoJob
      BY <2>4, <2>6
    <3>2. CASE a \in attempts
      BY <2>6, <3>1, <3>2 DEF CorrelationIds
    <3>3. CASE a = r
      BY <2>2, <2>3, <2>6, <3>1, <3>3 DEF CorrelationIds
    <3> QED
      BY <2>1, <2>6, <3>2, <3>3
  <2> QED
    BY <1>3, <2>4, <2>5, <2>6 DEF CorrelationIds
<1>4. ASSUME NEW d \in Daemons, Start(d)
      PROVE  CorrelationIds'
  <2>1. PICK s \in batch[d] : job' = [job EXCEPT ![d] =
               [order |-> s.order, version |-> s.version, corr |-> runs + 1,
                number |-> GetNextAttemptNumber(attempts, s.order),
                matched |-> FALSE, fields |-> NoFields, loaded |-> NoRow]]
    BY <1>4 DEF Start
  <2>2. runs' = runs + 1 /\ runs \in Nat /\ UNCHANGED attempts
    BY <1>4 DEF Start, TypeOK
  <2>3. job'[d].corr = runs + 1
    BY <2>1 DEF TypeOK
  <2>4. \A x \in Daemons \ {d} : job'[x] = job[x]
    BY <2>1 DEF TypeOK
  <2> QED
    BY <2>2, <2>3, <2>4 DEF CorrelationIds
<1>5. ASSUME NEW d \in Daemons, DecideNoMatch(d) \/ DecideMatch(d)
      PROVE  CorrelationIds'
  <2>1. PICK dec \in Decisions : job' = [job EXCEPT ![d] = Evaluated(d, dec)]
    BY <1>5 DEF DecideNoMatch, DecideMatch
  <2>2. pc[d] # "idle" /\ UNCHANGED <<attempts, runs>>
    BY <1>5 DEF DecideNoMatch, DecideMatch
  <2>3. Evaluated(d, dec) \in Jobs
    BY <2>2, EvaluatedTyped
  <2>4. /\ Evaluated(d, dec).corr = job[d].corr
        /\ Evaluated(d, dec).order = job[d].order
    BY <2>2, JobTyped DEF Evaluated, Jobs
  <2> QED
    BY <1>2, <2>1, <2>2, <2>3, <2>4
<1>6. ASSUME NEW d \in Daemons, StageSuccess(d)
      PROVE  CorrelationIds'
  <2> DEFINE j == [job[d] EXCEPT !.loaded = processed[job[d].order]]
  <2>1. job' = [job EXCEPT ![d] = j] /\ pc[d] # "idle" /\ UNCHANGED <<attempts, runs>>
    BY <1>6 DEF StageSuccess
  <2>2. job[d] \in Jobs /\ processed[job[d].order] \in ProcessedRows \cup {NoRow}
    BY <2>1, JobTyped DEF TypeOK
  <2>3. j \in Jobs /\ j.corr = job[d].corr /\ j.order = job[d].order
    BY <2>2 DEF Jobs
  <2> HIDE DEF j
  <2> QED
    BY <1>2, <2>1, <2>3
<1>7. ASSUME NEW d \in Daemons, CommitSuccess(d) \/ PersistFailure(d)
      PROVE  CorrelationIds'
  <2>1. PICK s \in Statuses :
          \/ attempts' = SaveAttempt(attempts, job[d].order, job[d].corr, job[d].number, s)
          \/ UNCHANGED attempts
    BY <1>7 DEF CommitSuccess, PersistFailure, Statuses
  <2>2. pc[d] # "idle" /\ UNCHANGED runs /\ (Leave(d) \/ UNCHANGED job)
    BY <1>7 DEF CommitSuccess, PersistFailure
  <2>3. CASE UNCHANGED attempts /\ UNCHANGED job
    BY <2>2, <2>3 DEF CorrelationIds
  <2> QED
    BY <1>1, <1>3, <2>1, <2>2, <2>3
<1>8. ASSUME NEW d \in Daemons,
             \/ RaiseBeforeSubmit(d) \/ SkipDuplicate(d)
             \/ MoveOrderToDeadLetter(d) \/ Crash(d)
      PROVE  CorrelationIds'
  <2>1. Leave(d) /\ UNCHANGED <<attempts, runs>>
    BY <1>8 DEF RaiseBeforeSubmit, SkipDuplicate, MoveOrderToDeadLetter, Crash
  <2> QED
    BY <1>1, <2>1
<1>9. ASSUME UNCHANGED <<attempts, job, runs>>
      PROVE  CorrelationIds'
  BY <1>9 DEF CorrelationIds
<1> QED
  BY <1>4, <1>5, <1>6, <1>7, <1>8, <1>9
  DEF Next, UpdateOrder, LateArrival, Fetch, SubmitReturns, SubmitRaises, vars

-----------------------------------------------------------------------------
\* What steps do to jobs and attempts, whichever action they are of.

\* A run under way keeps its order, correlation id and attempt number.
LEMMA JobsKept ==
    ASSUME TypeOK, [Next]_vars, ~ \E d \in Daemons : Start(d)
    PROVE  /\ runs' = runs
           /\ \A x \in Daemons : job'[x] # NoJob =>
                /\ job[x] # NoJob
                /\ job'[x].order = job[x].order
                /\ job'[x].corr = job[x].corr
                /\ job'[x].number = job[x].number
<1> DEFINE Kept == \A x \in Daemons : job'[x] # NoJob =>
                     /\ job[x] # NoJob
                     /\ job'[x].order = job[x].order
                     /\ job'[x].corr = job[x].corr
                     /\ job'[x].number = job[x].number
<1>1. ASSUME NEW d \in Daemons, Leave(d) \/ UNCHANGED job
      PROVE  Kept
  BY <1>1 DEF Leave, TypeOK
<1>2. ASSUME NEW d \in Daemons, DecideNoMatch(d) \/ DecideMatch(d)
      PROVE  Kept
  <2>1. PICK dec \in Decisions : job' = [job EXCEPT ![d] = Evaluated(d, dec)]
    BY <1>2 DEF DecideNoMatch, DecideMatch
  <2>2. job[d] # NoJob /\ job[d] \in Jobs
    BY <1>2, JobTyped DEF DecideNoMatch, DecideMatch
  <2>3. /\ Evaluated(d, dec).order = job[d].order
        /\ Evaluated(d, dec).corr = job[d].corr
        /\ Evaluated(d, dec).number = job[d].number
    BY <2>2 DEF Evaluated, Jobs
  <2> QED
    BY <2>1, <2>2, <2>3 DEF TypeOK
<1>3. ASSUME NEW d \in Daemons, StageSuccess(d)
      PROVE  Kept
  <2> DEFINE j == [job[d] EXCEPT !.loaded = processed[job[d].order]]
  <2>1. job' = [job EXCEPT ![d] = j]
    BY <1>3 DEF StageSuccess
  <2>2. job[d] # NoJob /\ job[d] \in Jobs
    BY <1>3, JobTyped DEF StageSuccess
  <2>3. j.order = job[d].order /\ j.corr = job[d].corr /\ j.number = job[d].number
    BY <2>2 DEF Jobs
  <2> HIDE DEF j
  <2> QED
    BY <2>1, <2>2, <2>3 DEF TypeOK
<1>4. ASSUME NEW d \in Daemons, CommitSuccess(d) \/ PersistFailure(d)
      PROVE  runs' = runs /\ (Leave(d) \/ UNCHANGED job)
  BY <1>4 DEF CommitSuccess, PersistFailure
<1> HIDE DEF Kept
<1>5. runs' = runs /\ Kept
  <2>1. CASE UNCHANGED vars
    BY <2>1 DEF vars, memVars, Kept
  <2>2. CASE (\E o \in Orders : UpdateOrder(o)) \/ LateArrival
    BY <2>2 DEF UpdateOrder, LateArrival, memVars, Kept
  <2>3. ASSUME NEW d \in Daemons,
               \/ Fetch(d) \/ RaiseBeforeSubmit(d) \/ SkipDuplicate(d)
               \/ SubmitReturns(d) \/ SubmitRaises(d)
               \/ MoveOrderToDeadLetter(d) \/ Crash(d)
        PROVE  runs' = runs /\ Kept
    BY <1>1, <2>3 DEF Fetch, RaiseBeforeSubmit, SkipDuplicate, SubmitReturns,
                      SubmitRaises, MoveOrderToDeadLetter, Crash
  <2>4. ASSUME NEW d \in Daemons, DecideNoMatch(d) \/ DecideMatch(d) \/ StageSuccess(d)
        PROVE  runs' = runs /\ Kept
    BY <1>2, <1>3, <2>4 DEF DecideNoMatch, DecideMatch, StageSuccess
  <2> QED
    BY <1>1, <1>4, <2>1, <2>2, <2>3, <2>4 DEF Next
<1> QED
  BY <1>5 DEF Kept

\* Attempts are saved by runs at one of the two commits, with an event of the
\* same meaning that was not there before.
LEMMA AttemptsSaved ==
    ASSUME TypeOK, [Next]_vars
    PROVE  \/ UNCHANGED <<attempts, outbox>>
           \/ \E d \in Daemons, s \in Statuses :
                \E event \in {SuccessEvent(job[d]), "OrderEnrichmentFailed"} :
                /\ pc[d] = IF s = "SUCCESS" THEN "commit_success" ELSE "persist_failure"
                /\ s = "SUCCESS" <=> event = SuccessEvent(job[d])
                /\ ~ MessageConflict(outbox, RunMessageId(job[d].corr, job[d].order))
                /\ attempts' = SaveAttempt(attempts, job[d].order, job[d].corr,
                                           job[d].number, s)
                /\ outbox' = Enqueue(outbox, RunMessageId(job[d].corr, job[d].order),
                                     job[d].order, EventType(s), event)
<1> DEFINE Saved == \E d \in Daemons, s \in Statuses :
                \E event \in {SuccessEvent(job[d]), "OrderEnrichmentFailed"} :
                /\ pc[d] = IF s = "SUCCESS" THEN "commit_success" ELSE "persist_failure"
                /\ s = "SUCCESS" <=> event = SuccessEvent(job[d])
                /\ ~ MessageConflict(outbox, RunMessageId(job[d].corr, job[d].order))
                /\ attempts' = SaveAttempt(attempts, job[d].order, job[d].corr,
                                           job[d].number, s)
                /\ outbox' = Enqueue(outbox, RunMessageId(job[d].corr, job[d].order),
                                     job[d].order, EventType(s), event)
<1>1. ASSUME NEW d \in Daemons, CommitSuccess(d)
      PROVE  UNCHANGED <<attempts, outbox>> \/ Saved
  <2> DEFINE j == job[d]
             id == RunMessageId(j.corr, j.order)
             storable == /\ ~MessageRefused(j.order, id)
                         /\ ~ProcessedConflict(processed, j.order, j.loaded, NoRow)
  <2>1. PICK outcome \in CommitOutcomes(storable) :
          IF Stored(outcome)
          THEN /\ attempts' = SaveAttempt(attempts, j.order, j.corr, j.number, "SUCCESS")
               /\ outbox' = Enqueue(outbox, id, j.order,
                                    "OrderEnrichmentSucceeded", SuccessEvent(j))
          ELSE UNCHANGED <<attempts, outbox>>
    BY <1>1 DEF CommitSuccess
  <2>2. CASE Stored(outcome)
    <3>1. storable
      BY <2>2 DEF CommitOutcomes, Stored
    <3>4. ~ MessageConflict(outbox, id)
      BY <3>1 DEF MessageRefused
    <3>2. pc[d] = "commit_success"
      BY <1>1 DEF CommitSuccess
    <3>3. EventType("SUCCESS") = "OrderEnrichmentSucceeded" /\ "SUCCESS" \in Statuses
      BY DEF EventType, Statuses
    <3> QED
      BY <2>1, <2>2, <3>4, <3>2, <3>3
  <2> QED
    BY <2>1, <2>2
<1>2. ASSUME NEW d \in Daemons, PersistFailure(d)
      PROVE  UNCHANGED <<attempts, outbox>> \/ Saved
  <2> DEFINE j == job[d]
             id == RunMessageId(j.corr, j.order)
             storable == ~MessageRefused(j.order, id)
  <2>1. PICK outcome \in CommitOutcomes(storable) :
          IF Stored(outcome)
          THEN /\ attempts' = SaveAttempt(attempts, j.order, j.corr, j.number, "FAILED")
               /\ outbox' = Enqueue(outbox, id, j.order,
                                    "OrderEnrichmentFailed", "OrderEnrichmentFailed")
          ELSE UNCHANGED <<attempts, outbox>>
    BY <1>2 DEF PersistFailure
  <2>2. CASE Stored(outcome)
    <3>1. storable
      BY <2>2 DEF CommitOutcomes, Stored
    <3>5. ~ MessageConflict(outbox, id)
      BY <3>1 DEF MessageRefused
    <3>2. pc[d] = "persist_failure"
      BY <1>2 DEF PersistFailure
    <3>3. EventType("FAILED") = "OrderEnrichmentFailed" /\ "FAILED" \in Statuses
      BY DEF EventType, Statuses
    <3>4. SuccessEvent(j) # "OrderEnrichmentFailed"
      BY DEF SuccessEvent
    <3> QED
      BY <2>1, <2>2, <3>5, <3>2, <3>3, <3>4
  <2> QED
    BY <2>1, <2>2
<1>3. ASSUME NEW d \in Daemons, MoveOrderToDeadLetter(d)
      PROVE  UNCHANGED <<attempts, outbox>>
  <2>1. PICK outcome \in CommitOutcomes(JsonEncodable({"str"} \cup OrderLeafTypes)) :
          ~Stored(outcome) => UNCHANGED <<deadLetters, outbox>>
    BY <1>3 DEF MoveOrderToDeadLetter
  <2>2. ~Stored(outcome)
    BY OrderNotEncodable DEF CommitOutcomes, Stored
  <2> QED
    BY <1>3, <2>1, <2>2 DEF MoveOrderToDeadLetter
<1> HIDE DEF Saved
<1>4. UNCHANGED <<attempts, outbox>> \/ Saved
  <2>1. ASSUME NEW d \in Daemons,
               \/ Fetch(d) \/ Start(d) \/ RaiseBeforeSubmit(d) \/ SkipDuplicate(d)
               \/ DecideNoMatch(d) \/ DecideMatch(d) \/ SubmitReturns(d)
               \/ SubmitRaises(d) \/ StageSuccess(d) \/ Crash(d)
        PROVE  UNCHANGED <<attempts, outbox>>
    BY <2>1 DEF Fetch, Start, RaiseBeforeSubmit, SkipDuplicate, DecideNoMatch,
                DecideMatch, SubmitReturns, SubmitRaises, StageSuccess, Crash, dbVars
  <2>2. CASE (\E o \in Orders : UpdateOrder(o)) \/ LateArrival \/ UNCHANGED vars
    BY <2>2 DEF UpdateOrder, LateArrival, vars, dbVars
  <2> QED
    BY <1>1, <1>2, <1>3, <2>1, <2>2 DEF Next
<1> QED
  BY <1>4 DEF Saved

-----------------------------------------------------------------------------
\* Attempt numbers.
LEMMA AttemptNumbersStep ==
    InductiveInvariant /\ [Next]_vars => AttemptNumbersInterval'
<1> SUFFICES ASSUME TypeOK, AttemptNumbersInterval, [Next]_vars
             PROVE  AttemptNumbersInterval'
  BY DEF InductiveInvariant
<1>1. runs \in Nat /\ runs' \in {runs, runs + 1}
  <2>1. ASSUME NEW d \in Daemons, Start(d)
        PROVE  runs' = runs + 1
    BY <2>1 DEF Start
  <2> QED
    BY <2>1, JobsKept DEF TypeOK
\* The attempts table.
<1>2. \A o \in Orders :
         /\ AttemptNumbers(attempts, o) \subseteq AttemptNumbers(attempts', o)
         /\ \E k \in 0 .. runs : AttemptNumbers(attempts', o) = 1 .. k
  <2>1. CASE UNCHANGED attempts
    BY <2>1 DEF AttemptNumbersInterval
  <2>2. ASSUME NEW d \in Daemons, NEW s \in Statuses, pc[d] # "idle",
               attempts' = SaveAttempt(attempts, job[d].order, job[d].corr,
                                       job[d].number, s),
               NEW o \in Orders
        PROVE  /\ AttemptNumbers(attempts, o) \subseteq AttemptNumbers(attempts', o)
               /\ \E k \in 0 .. runs : AttemptNumbers(attempts', o) = 1 .. k
    <3>1. AttemptNumbers(attempts', o) = AttemptNumbers(attempts, o)
              \cup (IF o = job[d].order THEN {job[d].number} ELSE {})
      BY <2>2, NumbersAfterSave
    <3>2. PICK k \in 0 .. runs : AttemptNumbers(attempts, o) = 1 .. k
      BY DEF AttemptNumbersInterval
    <3>3. job[d].number \in 1 .. runs
          /\ (job[d].number = 1
                \/ job[d].number - 1 \in AttemptNumbers(attempts, job[d].order))
      BY <2>2, JobTyped DEF AttemptNumbersInterval
    <3>4. CASE o = job[d].order /\ job[d].number = k + 1
      <4>1. AttemptNumbers(attempts', o) = 1 .. (k + 1)
        BY <1>1, <3>1, <3>2, <3>4
      <4> QED
        BY <1>1, <3>1, <3>3, <3>4, <4>1
    <3>5. CASE o = job[d].order /\ job[d].number # k + 1
      <4>1. job[d].number \in 1 .. k
        BY <1>1, <3>2, <3>3, <3>5
      <4> QED
        BY <3>1, <3>2, <3>5, <4>1
    <3>6. CASE o # job[d].order
      BY <3>1, <3>2, <3>6
    <3> QED
      BY <3>4, <3>5, <3>6
  <2> QED
    BY <2>1, <2>2, AttemptsSaved
\* The numbers the runs under way have read.
<1>3. ASSUME ~ \E d \in Daemons : Start(d)
      PROVE  AttemptNumbersInterval'
  <2>1. ASSUME NEW x \in Daemons, job'[x] # NoJob
        PROVE  /\ job'[x].number \in 1 .. runs
               /\ \/ job'[x].number = 1
                  \/ job'[x].number - 1 \in AttemptNumbers(attempts', job'[x].order)
    <3>1. /\ job[x] # NoJob
          /\ job'[x].order = job[x].order
          /\ job'[x].number = job[x].number
      BY <1>3, <2>1, JobsKept
    <3>2. job[x].order \in Orders
      BY <3>1, JobTyped DEF TypeOK
    <3> QED
      BY <1>2, <3>1, <3>2 DEF AttemptNumbersInterval
  <2>2. runs' = runs
    BY <1>3, JobsKept
  <2> QED
    BY <1>2, <2>1, <2>2 DEF AttemptNumbersInterval
<1>4. ASSUME NEW d \in Daemons, Start(d)
      PROVE  AttemptNumbersInterval'
  <2>1. PICK s \in batch[d] : job' = [job EXCEPT ![d] =
               [order |-> s.order, version |-> s.version, corr |-> runs + 1,
                number |-> GetNextAttemptNumber(attempts, s.order),
                matched |-> FALSE, fields |-> NoFields, loaded |-> NoRow]]
    BY <1>4 DEF Start
  <2>2. s.order \in Orders
    <3>1. batch[d] \subseteq [order : Orders, version : Nat]
      BY DEF TypeOK
    <3> QED
      BY <3>1
  <2>3. UNCHANGED attempts /\ runs' = runs + 1
    BY <1>4 DEF Start, dbVars
  <2>4. PICK k \in 0 .. runs : AttemptNumbers(attempts, s.order) = 1 .. k
    BY <2>2 DEF AttemptNumbersInterval
  <2>5. /\ job'[d].order = s.order
        /\ job'[d].number = k + 1
        /\ \A x \in Daemons \ {d} : job'[x] = job[x]
    <3>1. GetNextAttemptNumber(attempts, s.order) = k + 1
      BY <1>1, <2>4, NextAfterInterval
    <3> QED
      BY <2>1, <3>1 DEF TypeOK
  <2>6. /\ job'[d].number \in 1 .. runs'
        /\ \/ job'[d].number = 1
           \/ job'[d].number - 1 \in AttemptNumbers(attempts', job'[d].order)
    BY <1>1, <2>3, <2>4, <2>5
  <2>7. ASSUME NEW x \in Daemons \ {d}, job'[x] # NoJob
        PROVE  /\ job'[x].number \in 1 .. runs'
               /\ \/ job'[x].number = 1
                  \/ job'[x].number - 1 \in AttemptNumbers(attempts', job'[x].order)
    BY <1>1, <2>3, <2>5, <2>7 DEF AttemptNumbersInterval
  <2>8. \A o \in Orders : \E n \in 0 .. runs' : AttemptNumbers(attempts', o) = 1 .. n
    BY <1>1, <1>2, <2>3
  <2> QED
    BY <2>6, <2>7, <2>8 DEF AttemptNumbersInterval
<1> QED
  BY <1>3, <1>4

\* What the interval says of the numbers, read one by one.
LEMMA IntervalHasNoGaps == TypeOK /\ AttemptNumbersInterval => NoAttemptGaps
<1> SUFFICES ASSUME TypeOK, AttemptNumbersInterval,
                    NEW o \in Orders, NEW n \in AttemptNumbers(attempts, o)
             PROVE  n = 1 \/ (n > 1 /\ n - 1 \in AttemptNumbers(attempts, o))
  BY DEF NoAttemptGaps
<1>1. PICK k \in 0 .. runs : AttemptNumbers(attempts, o) = 1 .. k
  BY DEF AttemptNumbersInterval
<1> QED
  BY <1>1 DEF TypeOK

-----------------------------------------------------------------------------
\* One record per run.
LEMMA RunRecordedOnceStep ==
    InductiveInvariant /\ [Next]_vars => RunRecordedOnce'
<1> SUFFICES ASSUME TypeOK, CorrelationIds, RunRecordedOnce, [Next]_vars
             PROVE  RunRecordedOnce'
  BY DEF InductiveInvariant
<1>1. CASE UNCHANGED <<attempts, outbox>>
  BY <1>1 DEF RunRecordedOnce
<1>2. ASSUME NEW d \in Daemons, NEW s \in Statuses, NEW event, pc[d] # "idle",
             ~ MessageConflict(outbox, RunMessageId(job[d].corr, job[d].order)),
             attempts' = SaveAttempt(attempts, job[d].order, job[d].corr,
                                     job[d].number, s),
             outbox' = Enqueue(outbox, RunMessageId(job[d].corr, job[d].order),
                               job[d].order, EventType(s), event)
      PROVE  RunRecordedOnce'
  <2> DEFINE r == [order |-> job[d].order, corr |-> job[d].corr,
                   number |-> job[d].number, status |-> s]
             m == [id |-> RunMessageId(job[d].corr, job[d].order),
                   order |-> job[d].order, type |-> EventType(s), event |-> event,
                   status |-> "PENDING"]
  <2>1. attempts' = attempts \cup {r} /\ outbox' = outbox \cup {m}
    BY <1>2 DEF SaveAttempt, Enqueue
  <2>2. r.order = job[d].order /\ r.corr = job[d].corr /\ r.status = s
    OBVIOUS
  <2>3. m.id = RunMessageId(r.corr, r.order) /\ m.type = EventType(r.status)
    OBVIOUS
  <2>4. job[d] # NoJob
    BY <1>2, JobTyped
  <2> HIDE DEF r, m
  \* An attempt of this run would have left its event in the outbox.
  <2>5. \A a \in attempts : a.corr # r.corr
    <3>1. ASSUME NEW a \in attempts, a.corr = r.corr
          PROVE  FALSE
      <4>1. a.order = r.order
        BY <2>2, <2>4, <3>1 DEF CorrelationIds
      <4>2. PICK x \in outbox : x.id = RunMessageId(a.corr, a.order)
        BY DEF RunRecordedOnce
      <4> QED
        BY <1>2, <2>2, <3>1, <4>1, <4>2 DEF MessageConflict
    <3> QED
      BY <3>1
  <2>6. \A a, b \in attempts' : a.corr = b.corr => a = b
    BY <2>1, <2>5 DEF RunRecordedOnce
  <2>7. \A a \in attempts' : \E x \in outbox' :
           x.id = RunMessageId(a.corr, a.order) /\ x.type = EventType(a.status)
    BY <2>1, <2>3 DEF RunRecordedOnce
  <2>8. \A x \in outbox' : \E a \in attempts' :
           x.id = RunMessageId(a.corr, a.order) /\ x.type = EventType(a.status)
    BY <2>1, <2>3 DEF RunRecordedOnce
  <2> QED
    BY <2>6, <2>7, <2>8 DEF RunRecordedOnce
<1> QED
  BY <1>1, <1>2, AttemptsSaved

-----------------------------------------------------------------------------
\* What success means.

\* Committed rows of processed_orders come from CommitSuccess only, and only
\* with them do attempts that have succeeded.
LEMMA ProcessedSaved ==
    ASSUME TypeOK, [Next]_vars
    PROVE  \/ /\ UNCHANGED processed
              /\ \A a \in attempts' \ attempts : a.status = "FAILED"
           \/ \E d \in Daemons :
                /\ pc[d] = "commit_success"
                /\ attempts' = SaveAttempt(attempts, job[d].order, job[d].corr,
                                           job[d].number, "SUCCESS")
                /\ processed' = SaveProcessed(processed, job[d].order, job[d].loaded,
                                              NoRow, JobHash(job[d]), job[d].corr)
<1>1. ASSUME NEW d \in Daemons, CommitSuccess(d)
      PROVE  \/ UNCHANGED <<processed, attempts>>
             \/ /\ pc[d] = "commit_success"
                /\ attempts' = SaveAttempt(attempts, job[d].order, job[d].corr,
                                           job[d].number, "SUCCESS")
                /\ processed' = SaveProcessed(processed, job[d].order, job[d].loaded,
                                              NoRow, JobHash(job[d]), job[d].corr)
  BY <1>1 DEF CommitSuccess
<1>2. ASSUME NEW d \in Daemons, PersistFailure(d)
      PROVE  UNCHANGED processed /\ \A a \in attempts' \ attempts : a.status = "FAILED"
  <2>1. \/ UNCHANGED attempts
        \/ attempts' = SaveAttempt(attempts, job[d].order, job[d].corr,
                                   job[d].number, "FAILED")
    BY <1>2 DEF PersistFailure
  <2> QED
    BY <1>2, <2>1 DEF PersistFailure, SaveAttempt
<1>3. ASSUME NEW d \in Daemons,
             \/ Fetch(d) \/ Start(d) \/ RaiseBeforeSubmit(d) \/ SkipDuplicate(d)
             \/ DecideNoMatch(d) \/ DecideMatch(d) \/ SubmitReturns(d)
             \/ SubmitRaises(d) \/ StageSuccess(d)
             \/ MoveOrderToDeadLetter(d) \/ Crash(d)
      PROVE  UNCHANGED <<processed, attempts>>
  BY <1>3 DEF Fetch, Start, RaiseBeforeSubmit, SkipDuplicate, DecideNoMatch,
              DecideMatch, SubmitReturns, SubmitRaises, StageSuccess,
              MoveOrderToDeadLetter, Crash, dbVars
<1>4. CASE (\E o \in Orders : UpdateOrder(o)) \/ LateArrival \/ UNCHANGED vars
  BY <1>4 DEF UpdateOrder, LateArrival, vars, dbVars
<1> QED
  BY <1>1, <1>2, <1>3, <1>4 DEF Next

\* The row that SaveProcessed leaves.
LEMMA SavedRow ==
    ASSUME TypeOK, NEW o \in Orders, NEW loaded, NEW hash, NEW c,
           NEW P, P = SaveProcessed(processed, o, loaded, NoRow, hash, c)
    PROVE  P[o] = [hash |-> IF loaded # NoRow /\ loaded.hash = hash
                            THEN processed[o].hash ELSE hash,
                   corr |-> c]
<1>1. processed \in [Orders -> ProcessedRows \cup {NoRow}]
  BY DEF TypeOK
<1> QED
  BY <1>1 DEF SaveProcessed

\* A commit that is stored leaves a row.
LEMMA CommittedRow ==
    ASSUME InductiveInvariant, NEW d \in Daemons, pc[d] = "commit_success",
           processed' = SaveProcessed(processed, job[d].order, job[d].loaded,
                                      NoRow, JobHash(job[d]), job[d].corr)
    PROVE  processed'[job[d].order] # NoRow
<1>1. TypeOK /\ SuccessJustified /\ pc[d] # "idle"
  BY DEF InductiveInvariant
<1>2. job[d].loaded # NoRow => processed[job[d].order] # NoRow
  BY <1>1, JobTyped DEF SuccessJustified
<1>3. processed'[job[d].order] \in ProcessedRows
  BY <1>1, <1>2, ProcessedTyped
<1> QED
  BY <1>3, ConstantsAssumption

\* What the WMS has taken in stays, and so do the rows of processed_orders.
LEMMA NothingForgotten ==
    ASSUME InductiveInvariant, [Next]_vars
    PROVE  /\ applied \subseteq applied'
           /\ \A o \in Orders : processed[o] # NoRow => processed'[o] # NoRow
<1>1. TypeOK /\ TypeOK'
  BY TypeStep DEF InductiveInvariant
<1>2. applied \subseteq applied'
  BY DEF Next, UpdateOrder, LateArrival, Fetch, Start, RaiseBeforeSubmit,
         SkipDuplicate, DecideNoMatch, DecideMatch, SubmitReturns, SubmitRaises,
         StageSuccess, CommitSuccess, PersistFailure, MoveOrderToDeadLetter,
         Crash, vars, wmsVars
<1>3. ASSUME NEW d \in Daemons, pc[d] = "commit_success",
             processed' = SaveProcessed(processed, job[d].order, job[d].loaded,
                                        NoRow, JobHash(job[d]), job[d].corr)
      PROVE  \A o \in Orders : processed[o] # NoRow => processed'[o] # NoRow
  <2>1. job[d].order \in Orders
    BY <1>1, <1>3, JobTyped
  <2>2. \A x \in Orders \ {job[d].order} : processed'[x] = processed[x]
    BY <1>1, <1>3, <2>1 DEF SaveProcessed, TypeOK
  <2>3. processed'[job[d].order] # NoRow
    BY <1>3, CommittedRow
  <2> QED
    BY <2>2, <2>3
<1> QED
  BY <1>1, <1>2, <1>3, ProcessedSaved

LEMMA SuccessJustifiedStep ==
    InductiveInvariant /\ [Next]_vars => SuccessJustified'
<1> SUFFICES ASSUME InductiveInvariant, [Next]_vars, NEW d \in Daemons
             PROVE  /\ pc'[d] = "submit" => job'[d].matched
                    /\ pc'[d] \in {"stage", "commit_success"} =>
                         IF job'[d].matched THEN Accepted(job'[d]) \in applied'
                                            ELSE job'[d].fields = NoFields
                    /\ job'[d] # NoJob /\ job'[d].loaded # NoRow =>
                         processed'[job'[d].order] # NoRow
  BY DEF SuccessJustified, Accepted, JobHash, Compute
<1>1. TypeOK /\ SuccessJustified /\ TypeOK'
  BY TypeStep DEF InductiveInvariant
<1> DEFINE Justified == pc'[d] \in {"stage", "commit_success"} =>
                            IF job'[d].matched THEN Accepted(job'[d]) \in applied'
                                               ELSE job'[d].fields = NoFields
           LoadedKept == job'[d] # NoJob /\ job'[d].loaded # NoRow =>
                            processed'[job'[d].order] # NoRow
<1>2. CASE pc'[d] = pc[d] /\ job'[d] = job[d]
  BY <1>1, <1>2, NothingForgotten, JobTyped DEF SuccessJustified, TypeOK
<1>3. CASE Leave(d)
  BY <1>1, <1>3 DEF Leave, TypeOK
<1>4. CASE Start(d)
  <2>1. PICK s \in batch[d] : job' = [job EXCEPT ![d] =
               [order |-> s.order, version |-> s.version, corr |-> runs + 1,
                number |-> GetNextAttemptNumber(attempts, s.order),
                matched |-> FALSE, fields |-> NoFields, loaded |-> NoRow]]
    BY <1>4 DEF Start
  <2>2. job'[d].loaded = NoRow /\ pc'[d] = "evaluate"
    BY <1>1, <1>4, <2>1 DEF Start, Goto, TypeOK
  <2> QED
    BY <2>2
<1>5. CASE DecideNoMatch(d)
  <2>1. PICK dec \in Decisions :
          ~dec.matched /\ job' = [job EXCEPT ![d] = Evaluated(d, dec)]
    BY <1>5 DEF DecideNoMatch
  <2>2. dec.fields = NoFields
    BY <2>1, DecisionTyped
  <2>3. job[d] \in Jobs /\ job[d] # NoJob
    BY <1>1, <1>5, JobTyped DEF DecideNoMatch
  <2>4. /\ Evaluated(d, dec).matched = dec.matched
        /\ Evaluated(d, dec).fields = dec.fields
        /\ Evaluated(d, dec).order = job[d].order
        /\ Evaluated(d, dec).loaded = job[d].loaded
    BY <2>3 DEF Evaluated, Jobs
  <2>5. job'[d] = Evaluated(d, dec)
    BY <1>1, <2>1 DEF TypeOK
  <2>6. Justified
    BY <2>1, <2>2, <2>4, <2>5
  <2>7. LoadedKept
    BY <1>1, <2>3, <2>4, <2>5, NothingForgotten, JobTyped DEF SuccessJustified, TypeOK, Jobs
  <2>8. pc'[d] = "stage"
    BY <1>1, <1>5 DEF DecideNoMatch, Goto, TypeOK
  <2> QED
    BY <2>6, <2>7, <2>8
<1>6. CASE DecideMatch(d)
  <2>1. PICK dec \in Decisions :
          dec.matched /\ job' = [job EXCEPT ![d] = Evaluated(d, dec)]
    BY <1>6 DEF DecideMatch
  <2>2. pc'[d] = "submit"
    BY <1>1, <1>6 DEF DecideMatch, Goto, TypeOK
  <2>3. job[d] \in Jobs /\ job[d] # NoJob
    BY <1>1, <1>6, JobTyped DEF DecideMatch
  <2>4. /\ Evaluated(d, dec).order = job[d].order
        /\ Evaluated(d, dec).loaded = job[d].loaded
        /\ Evaluated(d, dec).matched = dec.matched
    BY <2>3 DEF Evaluated, Jobs
  <2>5. job'[d] = Evaluated(d, dec)
    BY <1>1, <2>1 DEF TypeOK
  <2>6. LoadedKept
    BY <1>1, <2>3, <2>4, <2>5, NothingForgotten, JobTyped DEF SuccessJustified, TypeOK, Jobs
  <2>7. job'[d].matched
    <3>1. dec.matched
      BY <2>1
    <3> QED
      BY <2>4, <2>5, <3>1
  <2> QED
    BY <2>2, <2>6, <2>7
<1>7. CASE SubmitReturns(d)
  <2>1. job' = job /\ pc'[d] = "stage" /\ Accepted(job[d]) \in applied'
    BY <1>1, <1>7 DEF SubmitReturns, Goto, TypeOK
  <2>2. job[d].matched
    BY <1>1, <1>7 DEF SuccessJustified, SubmitReturns
  <2>3. LoadedKept
    BY <1>1, <1>7, <2>1, NothingForgotten, JobTyped DEF SuccessJustified, SubmitReturns
  <2> QED
    BY <2>1, <2>2, <2>3
<1>8. ASSUME job' = job, pc[d] # "idle", pc'[d] \in {"persist_failure", "dead_letter"}
      PROVE  /\ pc'[d] \notin {"submit", "stage", "commit_success"}
             /\ LoadedKept
  BY <1>1, <1>8, NothingForgotten, JobTyped DEF SuccessJustified
<1>9. CASE SubmitRaises(d) \/ CommitSuccess(d) \/ PersistFailure(d)
  <2>1. \/ Leave(d)
        \/ /\ job' = job /\ pc[d] # "idle"
           /\ pc'[d] \in {"persist_failure", "dead_letter"}
    BY <1>1, <1>9 DEF SubmitRaises, CommitSuccess, PersistFailure, Goto, TypeOK
  <2> QED
    BY <1>3, <1>8, <2>1
<1>10. CASE StageSuccess(d)
  <2> DEFINE j == [job[d] EXCEPT !.loaded = processed[job[d].order]]
  <2>1. job'[d] = j /\ pc'[d] = "commit_success" /\ UNCHANGED <<processed, applied>>
    BY <1>1, <1>10 DEF StageSuccess, Goto, TypeOK, wmsVars, dbVars
  <2>2. job[d] \in Jobs /\ pc[d] = "stage"
    BY <1>1, <1>10, JobTyped DEF StageSuccess
  <2>3. /\ j.order = job[d].order /\ j.version = job[d].version /\ j.corr = job[d].corr
        /\ j.matched = job[d].matched /\ j.fields = job[d].fields
        /\ j.loaded = processed[job[d].order]
    BY <2>2 DEF Jobs
  <2> HIDE DEF j
  <2>4. Accepted(j) = Accepted(job[d])
    BY <2>3 DEF Accepted, JobHash, Compute
  <2>5. Justified
    <3>1. CASE job[d].matched
      <4>1. Accepted(job[d]) \in applied
        BY <1>1, <2>2, <3>1 DEF SuccessJustified
      <4> QED
        BY <2>1, <2>3, <2>4, <3>1, <4>1
    <3>2. CASE ~ job[d].matched
      <4>1. job[d].fields = NoFields
        BY <1>1, <2>2, <3>2 DEF SuccessJustified
      <4> QED
        BY <2>1, <2>3, <3>2, <4>1
    <3> QED
      BY <3>1, <3>2
  <2>6. LoadedKept
    BY <2>1, <2>3
  <2> QED
    BY <2>1, <2>5, <2>6
\* The other daemons' steps leave this one's job alone.
<1>11. ASSUME NEW x \in Daemons, x # d,
              \/ Fetch(x) \/ Start(x) \/ RaiseBeforeSubmit(x) \/ SkipDuplicate(x)
              \/ DecideNoMatch(x) \/ DecideMatch(x) \/ SubmitReturns(x)
              \/ SubmitRaises(x) \/ StageSuccess(x) \/ CommitSuccess(x)
              \/ PersistFailure(x) \/ MoveOrderToDeadLetter(x) \/ Crash(x)
       PROVE  pc'[d] = pc[d] /\ job'[d] = job[d]
  BY <1>1, <1>11 DEF Fetch, Start, RaiseBeforeSubmit, SkipDuplicate, DecideNoMatch,
         DecideMatch, SubmitReturns, SubmitRaises, StageSuccess, CommitSuccess,
         PersistFailure, MoveOrderToDeadLetter, Crash, Goto, Leave, TypeOK
<1>12. ASSUME \/ (\E o \in Orders : UpdateOrder(o)) \/ LateArrival \/ UNCHANGED vars
              \/ Fetch(d)
       PROVE  pc'[d] = pc[d] /\ job'[d] = job[d]
  BY <1>12 DEF UpdateOrder, LateArrival, Fetch, vars, memVars
<1>13. CASE RaiseBeforeSubmit(d) \/ SkipDuplicate(d) \/ MoveOrderToDeadLetter(d) \/ Crash(d)
  BY <1>3, <1>13 DEF RaiseBeforeSubmit, SkipDuplicate, MoveOrderToDeadLetter, Crash
<1> QED
  BY <1>2, <1>4, <1>5, <1>6, <1>7, <1>9, <1>10, <1>11, <1>12, <1>13 DEF Next

LEMMA SuccessWasAppliedStep ==
    InductiveInvariant /\ [Next]_vars => SuccessWasApplied'
<1> SUFFICES ASSUME InductiveInvariant, [Next]_vars,
                    NEW m \in outbox', m.event = "OrderEnrichmentSucceeded"
             PROVE  \E e \in applied' : e.order = m.order /\ e.corr = m.id.corr
  BY DEF SuccessWasApplied
<1>1. TypeOK /\ SuccessJustified /\ SuccessWasApplied
  BY DEF InductiveInvariant
<1>2. applied \subseteq applied'
  BY NothingForgotten
<1>3. CASE m \in outbox
  BY <1>1, <1>2, <1>3 DEF SuccessWasApplied
<1>4. ASSUME NEW d \in Daemons, NEW s \in Statuses,
             NEW event \in {SuccessEvent(job[d]), "OrderEnrichmentFailed"},
             pc[d] = IF s = "SUCCESS" THEN "commit_success" ELSE "persist_failure",
             s = "SUCCESS" <=> event = SuccessEvent(job[d]),
             outbox' = Enqueue(outbox, RunMessageId(job[d].corr, job[d].order),
                               job[d].order, EventType(s), event),
             m \notin outbox
      PROVE  \E e \in applied' : e.order = m.order /\ e.corr = m.id.corr
  <2>1. m = [id |-> RunMessageId(job[d].corr, job[d].order), order |-> job[d].order,
             type |-> EventType(s), event |-> event, status |-> "PENDING"]
    BY <1>4 DEF Enqueue
  <2>2. m.event = event /\ m.order = job[d].order /\ m.id.corr = job[d].corr
    BY <2>1 DEF RunMessageId
  <2>3. event = SuccessEvent(job[d]) /\ pc[d] = "commit_success"
    BY <1>4, <2>2
  <2>4. job[d].matched
    BY <2>2, <2>3 DEF SuccessEvent
  <2>5. Accepted(job[d]) \in applied
    BY <1>1, <2>3, <2>4 DEF SuccessJustified
  <2>6. Accepted(job[d]).order = job[d].order /\ Accepted(job[d]).corr = job[d].corr
    BY DEF Accepted
  <2> QED
    BY <1>2, <2>2, <2>5, <2>6
<1> QED
  BY <1>1, <1>3, <1>4, AttemptsSaved

LEMMA IdempotencyRecordBackedStep ==
    InductiveInvariant /\ [Next]_vars => IdempotencyRecordBacked'
<1> SUFFICES ASSUME InductiveInvariant, [Next]_vars, NEW o \in Orders
             PROVE  /\ processed'[o] # NoRow =>
                         /\ processed'[o].hash.fields = NoFields
                              \/ \E e \in applied' :
                                    e.order = o /\ e.hash = processed'[o].hash
                         /\ \E a \in attempts' : /\ a.order = o
                                                 /\ a.corr = processed'[o].corr
                                                 /\ a.status = "SUCCESS"
                    /\ (\E a \in attempts' : a.order = o /\ a.status = "SUCCESS")
                          => processed'[o] # NoRow
  BY DEF IdempotencyRecordBacked
<1>1. TypeOK /\ SuccessJustified /\ IdempotencyRecordBacked /\ TypeOK'
  BY TypeStep DEF InductiveInvariant
<1>2. applied \subseteq applied' /\ (processed[o] # NoRow => processed'[o] # NoRow)
  BY NothingForgotten
<1>3. attempts \subseteq attempts'
  BY <1>1, AttemptsSaved DEF SaveAttempt
\* The row is backed.
<1>4. ASSUME processed'[o] # NoRow
      PROVE  /\ processed'[o].hash.fields = NoFields
                  \/ \E e \in applied' : e.order = o /\ e.hash = processed'[o].hash
             /\ \E a \in attempts' : /\ a.order = o
                                     /\ a.corr = processed'[o].corr
                                     /\ a.status = "SUCCESS"
  <2>1. CASE processed'[o] = processed[o]
    BY <1>1, <1>2, <1>3, <1>4, <2>1 DEF IdempotencyRecordBacked
  <2>2. ASSUME NEW d \in Daemons, pc[d] = "commit_success", o = job[d].order,
               attempts' = SaveAttempt(attempts, job[d].order, job[d].corr,
                                       job[d].number, "SUCCESS"),
               processed' = SaveProcessed(processed, job[d].order, job[d].loaded,
                                          NoRow, JobHash(job[d]), job[d].corr)
        PROVE  /\ processed'[o].hash.fields = NoFields
                    \/ \E e \in applied' : e.order = o /\ e.hash = processed'[o].hash
               /\ \E a \in attempts' : /\ a.order = o
                                       /\ a.corr = processed'[o].corr
                                       /\ a.status = "SUCCESS"
    <3> DEFINE kept == job[d].loaded # NoRow /\ job[d].loaded.hash = JobHash(job[d])
               r == [order |-> job[d].order, corr |-> job[d].corr,
                     number |-> job[d].number, status |-> "SUCCESS"]
    <3>1. processed'[o] = [hash |-> IF kept THEN processed[o].hash ELSE JobHash(job[d]),
                           corr |-> job[d].corr]
      BY <1>1, <2>2, SavedRow
    <3>2. r \in attempts' /\ r.order = o /\ r.corr = processed'[o].corr
          /\ r.status = "SUCCESS"
      BY <2>2, <3>1 DEF SaveAttempt
    <3>3. CASE kept
      <4>1. processed[o] # NoRow
        BY <1>1, <2>2, <3>3, JobTyped DEF SuccessJustified
      <4>2. processed'[o].hash = processed[o].hash
        BY <3>1, <3>3
      <4> QED
        BY <1>1, <1>2, <3>2, <4>1, <4>2 DEF IdempotencyRecordBacked
    <3>4. CASE ~ kept /\ job[d].matched
      <4>1. Accepted(job[d]) \in applied'
        BY <1>1, <1>2, <2>2, <3>4 DEF SuccessJustified
      <4>2. Accepted(job[d]).order = o /\ Accepted(job[d]).hash = processed'[o].hash
        BY <2>2, <3>1, <3>4 DEF Accepted
      <4> QED
        BY <3>2, <4>1, <4>2
    <3>5. CASE ~ kept /\ ~ job[d].matched
      <4>1. job[d].fields = NoFields
        BY <1>1, <2>2, <3>5 DEF SuccessJustified
      <4>2. processed'[o].hash.fields = NoFields
        BY <3>1, <3>5, <4>1 DEF JobHash, Compute
      <4> QED
        BY <3>2, <4>2
    <3> QED
      BY <3>3, <3>4, <3>5
  <2>3. ASSUME NEW d \in Daemons, pc[d] = "commit_success", o # job[d].order,
               processed' = SaveProcessed(processed, job[d].order, job[d].loaded,
                                          NoRow, JobHash(job[d]), job[d].corr)
        PROVE  processed'[o] = processed[o]
    <3>1. job[d].order \in Orders
      BY <1>1, <2>3, JobTyped
    <3>2. \A x \in Orders \ {job[d].order} : processed'[x] = processed[x]
      BY <1>1, <2>3, <3>1 DEF SaveProcessed, TypeOK
    <3> QED
      BY <2>3, <3>2
  <2> QED
    BY <1>1, <2>1, <2>2, <2>3, ProcessedSaved
\* A recorded success has a row.
<1>5. ASSUME NEW a \in attempts', a.order = o, a.status = "SUCCESS"
      PROVE  processed'[o] # NoRow
  <2>1. CASE a \in attempts
    BY <1>1, <1>2, <1>5, <2>1 DEF IdempotencyRecordBacked
  <2>2. CASE a \notin attempts
    <3>1. PICK d \in Daemons :
            /\ pc[d] = "commit_success"
            /\ attempts' = SaveAttempt(attempts, job[d].order, job[d].corr,
                                       job[d].number, "SUCCESS")
            /\ processed' = SaveProcessed(processed, job[d].order, job[d].loaded,
                                          NoRow, JobHash(job[d]), job[d].corr)
      BY <1>1, <1>5, <2>2, ProcessedSaved
    <3>2. o = job[d].order
      BY <1>5, <2>2, <3>1 DEF SaveAttempt
    <3> QED
      BY <3>1, <3>2, CommittedRow
  <2> QED
    BY <2>1, <2>2
<1> QED
  BY <1>4, <1>5

-----------------------------------------------------------------------------
\* The invariant, and the properties it was made for.

LEMMA InductiveInit == Init => InductiveInvariant
<1> SUFFICES ASSUME Init PROVE InductiveInvariant
  OBVIOUS
<1>1. TypeOK
  BY TypeInit
<1>2. CorrelationIds /\ RunRecordedOnce /\ SuccessWasApplied
  BY DEF Init, CorrelationIds, RunRecordedOnce, SuccessWasApplied
<1>3. AttemptNumbersInterval
  <2>1. \A o \in Orders : AttemptNumbers(attempts, o) = 1 .. 0 /\ 0 \in 0 .. runs
    BY DEF Init, AttemptNumbers
  <2> QED
    BY <2>1 DEF Init, AttemptNumbersInterval
<1>4. SuccessJustified
  BY DEF Init, SuccessJustified
<1>5. IdempotencyRecordBacked
  BY DEF Init, IdempotencyRecordBacked
<1> QED
  BY <1>1, <1>2, <1>3, <1>4, <1>5 DEF InductiveInvariant

LEMMA InductiveStep == InductiveInvariant /\ [Next]_vars => InductiveInvariant'
  BY TypeStep, CorrelationIdsStep, AttemptNumbersStep, SuccessJustifiedStep,
     RunRecordedOnceStep, SuccessWasAppliedStep, IdempotencyRecordBackedStep
  DEF InductiveInvariant

\* The inductive invariant holds in every reachable state.
THEOREM Invariance == Spec => []InductiveInvariant
  BY InductiveInit, InductiveStep, PTL DEF Spec

\* The tables and the daemons' memory keep their types; in particular no dead
\* letter is ever stored (move_dead_letter.py:13-36).
THEOREM TypeCorrect == Spec => []TypeOK
<1>1. InductiveInvariant => TypeOK
  BY DEF InductiveInvariant
<1> QED
  BY <1>1, Invariance, PTL

\* Attempt row and integration event of a run are recorded together and once
\* (persist_processing_result.py:24-58), with any number of daemons, crashes
\* and commits that raise.
THEOREM RunsRecordedOnce == Spec => []RunRecordedOnce
<1>1. InductiveInvariant => RunRecordedOnce
  BY DEF InductiveInvariant
<1> QED
  BY <1>1, Invariance, PTL

\* The attempt numbers of an order have no gap
\* (processing_attempt_repository_sqlalchemy.py:13-16).
THEOREM AttemptsHaveNoGaps == Spec => []NoAttemptGaps
<1>1. InductiveInvariant => NoAttemptGaps
  BY IntervalHasNoGaps DEF InductiveInvariant
<1> QED
  BY <1>1, Invariance, PTL

\* A success event follows an enrichment the WMS has taken in from the same run
\* (process_order.py:68-83).
THEOREM SuccessesWereApplied == Spec => []SuccessWasApplied
<1>1. InductiveInvariant => SuccessWasApplied
  BY DEF InductiveInvariant
<1> QED
  BY <1>1, Invariance, PTL

\* The idempotency record of an order is backed by the WMS and by an attempt
\* (persist_processing_result.py:34-42).
THEOREM RecordsAreBacked == Spec => []IdempotencyRecordBacked
<1>1. InductiveInvariant => IdempotencyRecordBacked
  BY DEF InductiveInvariant
<1> QED
  BY <1>1, Invariance, PTL

-----------------------------------------------------------------------------
\* How many attempts of an order share a number.
Sharing(o, n) == {a \in attempts : a.order = o /\ a.number = n}

\* The daemons that may still store one with it.
Holding(o, n) ==
    {d \in Daemons : /\ job[d] # NoJob /\ job[d].order = o /\ job[d].number = n
                     /\ \A a \in attempts : a.corr # job[d].corr}

\* A number is stored at most once by each daemon.
SharesAreCounted ==
    \A o \in Orders, n \in Nat :
        /\ IsFiniteSet(Sharing(o, n))
        /\ Cardinality(Sharing(o, n)) + Cardinality(Holding(o, n)) <= Cardinality(Daemons)

\* An attempt is saved by a run that has none yet.
LEMMA NoAttemptYet ==
    ASSUME InductiveInvariant, NEW d \in Daemons, pc[d] # "idle",
           ~ MessageConflict(outbox, RunMessageId(job[d].corr, job[d].order)),
           NEW a \in attempts, a.corr = job[d].corr
    PROVE  FALSE
<1>1. a.order = job[d].order
  BY JobTyped DEF InductiveInvariant, CorrelationIds
<1>2. PICK m \in outbox : m.id = RunMessageId(a.corr, a.order)
  BY DEF InductiveInvariant, RunRecordedOnce
<1> QED
  BY <1>1, <1>2 DEF MessageConflict

\* A number that has just been read is nobody's attempt.
LEMMA NumberReadIsNew ==
    ASSUME InductiveInvariant, NEW o \in Orders,
           NEW a \in attempts, a.order = o, a.number = GetNextAttemptNumber(attempts, o)
    PROVE  FALSE
<1>1. PICK k \in 0 .. runs : AttemptNumbers(attempts, o) = 1 .. k
  BY DEF InductiveInvariant, AttemptNumbersInterval
<1>2. runs \in Nat /\ k \in Nat
  BY <1>1 DEF InductiveInvariant, TypeOK
<1>3. a.number = k + 1
  BY <1>1, <1>2, NextAfterInterval
<1>4. a.number \in AttemptNumbers(attempts, o)
  BY DEF AttemptNumbers
<1> QED
  BY <1>1, <1>2, <1>3, <1>4

\* Fewer daemons hold a number, and as many attempts share it.
LEMMA FewerHolders ==
    ASSUME IsFiniteSet(Daemons), SharesAreCounted, NEW o \in Orders, NEW n \in Nat,
           Holding(o, n)' \subseteq Holding(o, n), Sharing(o, n)' = Sharing(o, n)
    PROVE  /\ IsFiniteSet(Sharing(o, n)')
           /\ Cardinality(Sharing(o, n)') + Cardinality(Holding(o, n)') <= Cardinality(Daemons)
<1>1. IsFiniteSet(Holding(o, n))
  BY FS_Subset DEF Holding
<1>2. /\ IsFiniteSet(Holding(o, n)')
      /\ Cardinality(Holding(o, n)') <= Cardinality(Holding(o, n))
  BY <1>1, FS_Subset
<1>3. IsFiniteSet(Sharing(o, n))
  BY DEF SharesAreCounted
<1>4. /\ Cardinality(Holding(o, n)') \in Nat /\ Cardinality(Holding(o, n)) \in Nat
      /\ Cardinality(Sharing(o, n)) \in Nat /\ Cardinality(Daemons) \in Nat
  BY <1>1, <1>2, <1>3, FS_CardinalityType
<1>5. Cardinality(Sharing(o, n)) + Cardinality(Holding(o, n)) <= Cardinality(Daemons)
  BY DEF SharesAreCounted
<1> QED
  BY <1>2, <1>3, <1>4, <1>5

\* A run that begins holds a number that no attempt has.
LEMMA StartHolds ==
    ASSUME IsFiniteSet(Daemons), InductiveInvariant, SharesAreCounted,
           NEW d \in Daemons, Start(d)
    PROVE  SharesAreCounted'
<1> SUFFICES ASSUME NEW o \in Orders, NEW n \in Nat
             PROVE  /\ IsFiniteSet(Sharing(o, n)')
                    /\ Cardinality(Sharing(o, n)') + Cardinality(Holding(o, n)')
                         <= Cardinality(Daemons)
  BY DEF SharesAreCounted
<1>1. PICK s \in batch[d] :
        job' = [job EXCEPT ![d] =
                  [order |-> s.order, version |-> s.version, corr |-> runs + 1,
                   number |-> GetNextAttemptNumber(attempts, s.order),
                   matched |-> FALSE, fields |-> NoFields, loaded |-> NoRow]]
  BY DEF Start
<1>2. /\ job'[d].order = s.order
      /\ job'[d].number = GetNextAttemptNumber(attempts, s.order)
      /\ \A x \in Daemons : x # d => job'[x] = job[x]
  BY <1>1 DEF InductiveInvariant, TypeOK
<1>3. attempts' = attempts
  BY DEF Start, dbVars
<1>4. Sharing(o, n)' = Sharing(o, n)
  BY <1>3 DEF Sharing
<1>5. CASE o = s.order /\ n = GetNextAttemptNumber(attempts, s.order)
  <2>1. Sharing(o, n) = {}
    BY <1>5, NumberReadIsNew DEF Sharing
  <2>2. /\ IsFiniteSet(Holding(o, n)')
        /\ Cardinality(Holding(o, n)') <= Cardinality(Daemons)
    BY FS_Subset DEF Holding
  <2>3. Cardinality(Holding(o, n)') \in Nat /\ Cardinality(Daemons) \in Nat
    BY <2>2, FS_CardinalityType
  <2> QED
    BY <1>4, <2>1, <2>2, <2>3, FS_EmptySet
<1>6. CASE ~ (o = s.order /\ n = GetNextAttemptNumber(attempts, s.order))
  <2>1. Holding(o, n)' \subseteq Holding(o, n)
    BY <1>2, <1>3, <1>6 DEF Holding
  <2> QED
    BY <1>4, <2>1, FewerHolders
<1> QED
  BY <1>5, <1>6

\* A run that stores its attempt does not hold its number any more.
LEMMA SaveShares ==
    ASSUME IsFiniteSet(Daemons), InductiveInvariant, SharesAreCounted,
           \A x \in Daemons : job'[x] # NoJob =>
             /\ job[x] # NoJob
             /\ job'[x].order = job[x].order
             /\ job'[x].corr = job[x].corr
             /\ job'[x].number = job[x].number,
           NEW d \in Daemons, NEW s \in Statuses, pc[d] # "idle",
           ~ MessageConflict(outbox, RunMessageId(job[d].corr, job[d].order)),
           attempts' = SaveAttempt(attempts, job[d].order, job[d].corr, job[d].number, s)
    PROVE  SharesAreCounted'
<1> SUFFICES ASSUME NEW o \in Orders, NEW n \in Nat
             PROVE  /\ IsFiniteSet(Sharing(o, n)')
                    /\ Cardinality(Sharing(o, n)') + Cardinality(Holding(o, n)')
                         <= Cardinality(Daemons)
  BY DEF SharesAreCounted
<1> DEFINE r == [order |-> job[d].order, corr |-> job[d].corr,
                 number |-> job[d].number, status |-> s]
<1>1. attempts' = attempts \cup {r}
  BY DEF SaveAttempt
<1>2. r.order = job[d].order /\ r.corr = job[d].corr /\ r.number = job[d].number
  OBVIOUS
<1> HIDE DEF r
<1>3. Holding(o, n)' \subseteq Holding(o, n) \ {d}
  BY <1>1, <1>2 DEF Holding
<1>4. CASE o = job[d].order /\ n = job[d].number
  <2>1. d \in Holding(o, n)
    BY <1>4, NoAttemptYet, JobTyped DEF InductiveInvariant, Holding
  <2>2. IsFiniteSet(Holding(o, n)) /\ IsFiniteSet(Sharing(o, n))
    BY FS_Subset DEF Holding, SharesAreCounted
  <2>3. /\ IsFiniteSet(Holding(o, n) \ {d})
        /\ Cardinality(Holding(o, n) \ {d}) = Cardinality(Holding(o, n)) - 1
    BY <2>1, <2>2, FS_RemoveElement
  <2>4. /\ IsFiniteSet(Holding(o, n)')
        /\ Cardinality(Holding(o, n)') <= Cardinality(Holding(o, n)) - 1
    BY <1>3, <2>3, FS_Subset
  <2>5. Sharing(o, n)' = Sharing(o, n) \cup {r}
    BY <1>1, <1>2, <1>4 DEF Sharing
  <2>6. /\ IsFiniteSet(Sharing(o, n)')
        /\ Cardinality(Sharing(o, n)') <= Cardinality(Sharing(o, n)) + 1
    <3>1. Cardinality(Sharing(o, n)) \in Nat
      BY <2>2, FS_CardinalityType
    <3>2. /\ IsFiniteSet(Sharing(o, n) \cup {r})
          /\ \/ Cardinality(Sharing(o, n) \cup {r}) = Cardinality(Sharing(o, n))
             \/ Cardinality(Sharing(o, n) \cup {r}) = Cardinality(Sharing(o, n)) + 1
      BY <2>2, FS_AddElement
    <3> QED
      BY <2>5, <3>1, <3>2
  <2>7. /\ Cardinality(Holding(o, n)) \in Nat /\ Cardinality(Holding(o, n)') \in Nat
        /\ Cardinality(Sharing(o, n)) \in Nat /\ Cardinality(Sharing(o, n)') \in Nat
        /\ Cardinality(Daemons) \in Nat
    BY <2>2, <2>4, <2>6, FS_CardinalityType
  <2>8. Cardinality(Sharing(o, n)) + Cardinality(Holding(o, n)) <= Cardinality(Daemons)
    BY DEF SharesAreCounted
  <2> QED
    BY <2>4, <2>6, <2>7, <2>8
<1>5. CASE ~ (o = job[d].order /\ n = job[d].number)
  <2>1. Sharing(o, n)' = Sharing(o, n)
    BY <1>1, <1>2, <1>5 DEF Sharing
  <2> QED
    BY <1>3, <2>1, FewerHolders
<1> QED
  BY <1>4, <1>5

\* Every step keeps the count.
LEMMA SharesStep ==
    ASSUME IsFiniteSet(Daemons)
    PROVE  InductiveInvariant /\ SharesAreCounted /\ [Next]_vars => SharesAreCounted'
<1> SUFFICES ASSUME InductiveInvariant, SharesAreCounted, [Next]_vars
             PROVE  SharesAreCounted'
  OBVIOUS
<1>1. TypeOK
  BY DEF InductiveInvariant
<1>2. CASE \E d \in Daemons : Start(d)
  BY <1>2, StartHolds
<1>3. CASE ~ \E d \in Daemons : Start(d)
  <2>1. \A x \in Daemons : job'[x] # NoJob =>
           /\ job[x] # NoJob
           /\ job'[x].order = job[x].order
           /\ job'[x].corr = job[x].corr
           /\ job'[x].number = job[x].number
    BY <1>1, <1>3, JobsKept
  <2>2. CASE UNCHANGED attempts
    <3> SUFFICES ASSUME NEW o \in Orders, NEW n \in Nat
                 PROVE  /\ IsFiniteSet(Sharing(o, n)')
                        /\ Cardinality(Sharing(o, n)') + Cardinality(Holding(o, n)')
                             <= Cardinality(Daemons)
      BY DEF SharesAreCounted
    <3>1. Holding(o, n)' \subseteq Holding(o, n) /\ Sharing(o, n)' = Sharing(o, n)
      BY <2>1, <2>2 DEF Holding, Sharing
    <3> QED
      BY <3>1, FewerHolders
  <2>3. ASSUME NEW d \in Daemons, NEW s \in Statuses, pc[d] # "idle",
               ~ MessageConflict(outbox, RunMessageId(job[d].corr, job[d].order)),
               attempts' = SaveAttempt(attempts, job[d].order, job[d].corr,
                                       job[d].number, s)
        PROVE  SharesAreCounted'
    BY <2>1, <2>3, SaveShares
  <2> QED
    BY <1>1, <2>2, <2>3, AttemptsSaved
<1> QED
  BY <1>2, <1>3

\* The count holds in every reachable state.
LEMMA NumbersCounted ==
    ASSUME IsFiniteSet(Daemons) PROVE Spec => []SharesAreCounted
<1>1. Init => SharesAreCounted
  <2> SUFFICES ASSUME Init, NEW o \in Orders, NEW n \in Nat
               PROVE  /\ IsFiniteSet(Sharing(o, n))
                      /\ Cardinality(Sharing(o, n)) + Cardinality(Holding(o, n))
                           <= Cardinality(Daemons)
    BY DEF SharesAreCounted
  <2>1. Sharing(o, n) = {} /\ Holding(o, n) = {}
    BY DEF Init, Sharing, Holding
  <2> QED
    BY <2>1, FS_EmptySet, FS_CardinalityType
<1>2. Init => InductiveInvariant
  BY InductiveInit
<1>3. InductiveInvariant /\ [Next]_vars => InductiveInvariant'
  BY InductiveStep
<1> QED
  BY <1>1, <1>2, <1>3, SharesStep, PTL DEF Spec

\* A number read by several daemons at once
\* (processing_attempt_repository_sqlalchemy.py:13-16, process_order.py:42-43) is
\* stored at most once by each of them, whatever ends their runs.
THEOREM NumbersAreShared ==
    ASSUME IsFiniteSet(Daemons) PROVE Spec => []NumbersShared
<1>1. InductiveInvariant /\ SharesAreCounted => NumbersShared
  <2> SUFFICES ASSUME TypeOK, SharesAreCounted, NEW a \in attempts
               PROVE  Cardinality(Sharing(a.order, a.number)) <= Cardinality(Daemons)
    BY DEF NumbersShared, Sharing, InductiveInvariant
  <2>1. a.order \in Orders /\ a.number \in Nat
    BY DEF TypeOK, Attempts
  <2>2. IsFiniteSet(Holding(a.order, a.number))
    BY FS_Subset DEF Holding
  <2>3. /\ IsFiniteSet(Sharing(a.order, a.number))
        /\ Cardinality(Sharing(a.order, a.number)) + Cardinality(Holding(a.order, a.number))
             <= Cardinality(Daemons)
    BY <2>1 DEF SharesAreCounted
  <2>4. /\ Cardinality(Sharing(a.order, a.number)) \in Nat
        /\ Cardinality(Holding(a.order, a.number)) \in Nat /\ Cardinality(Daemons) \in Nat
    BY <2>2, <2>3, FS_CardinalityType
  <2> QED
    BY <2>3, <2>4
<1> QED
  BY <1>1, Invariance, NumbersCounted, PTL

-----------------------------------------------------------------------------
\* What holds beyond this when one daemon runs alone: attempt numbers are
\* unique, nothing is submitted that the idempotency record holds, and that
\* record never goes back.  Crashes, database faults and late requests are as
\* before.
Alone == \A x, y \in Daemons : x = y

\* The attempt numbers of an order are unique: what get_next_attempt_number
\* returned (processing_attempt_repository_sqlalchemy.py:13-16) is still free
\* when it is stored, whatever the commits in between did.
THEOREM NumbersAreUnique ==
    ASSUME Alone PROVE Spec => []UniqueAttemptNumbers
<1>1. IsFiniteSet(Daemons) /\ Cardinality(Daemons) \in {0, 1}
  <2>1. CASE Daemons = {}
    BY <2>1, FS_EmptySet
  <2>2. ASSUME NEW d \in Daemons PROVE IsFiniteSet(Daemons) /\ Cardinality(Daemons) = 1
    <3>1. Daemons = {d}
      BY DEF Alone
    <3> QED
      BY <3>1, FS_Singleton
  <2> QED
    BY <2>1, <2>2
<1>2. InductiveInvariant /\ SharesAreCounted /\ NumbersShared => UniqueAttemptNumbers
  <2> SUFFICES ASSUME TypeOK, SharesAreCounted, NumbersShared, NEW a \in attempts,
                      NEW b \in attempts, a.order = b.order, a.number = b.number
               PROVE  a = b
    BY DEF UniqueAttemptNumbers, InductiveInvariant
  <2> DEFINE S == Sharing(a.order, a.number)
  <2>1. a \in S /\ b \in S
    BY DEF Sharing
  <2>2. IsFiniteSet(S)
    BY DEF SharesAreCounted, TypeOK, Attempts
  <2>3. Cardinality(S) <= Cardinality(Daemons)
    BY DEF NumbersShared, Sharing
  <2> HIDE DEF S
  <2>4. Cardinality(S) \in Nat /\ Cardinality(S) # 0
    BY <2>1, <2>2, FS_CardinalityType, FS_EmptySet
  <2>5. Cardinality(S) = 1
    BY <1>1, <2>3, <2>4
  <2> QED
    BY <2>1, <2>2, <2>5, FS_Singleton
<1> QED
  BY <1>1, <1>2, Invariance, NumbersCounted, NumbersAreShared, PTL

-----------------------------------------------------------------------------
\* The idempotency record holds an enrichment.
Recorded(e) == processed[e.order] # NoRow /\ processed[e.order].hash = e.hash

\* What a run is about to submit, or may still have under way to the WMS, is
\* not what the record holds.
SubmissionIsNew ==
    /\ \A e \in late : e.corr \in 1 .. runs
    /\ \A d \in Daemons : pc[d] = "submit" => ~Recorded(Accepted(job[d]))
    /\ \A d \in Daemons, e \in late : job[d] # NoJob /\ e.corr = job[d].corr =>
          pc[d] \in {"persist_failure", "dead_letter"} /\ ~Recorded(e)

\* A job that has been left, or that keeps its correlation id and its place
\* behind the submission, while record and requests stay as they are.
LEMMA QuietStep ==
    ASSUME Alone, TypeOK, SubmissionIsNew, NEW d \in Daemons,
           processed' = processed, late' = late, runs' = runs,
           \/ Leave(d)
           \/ /\ job' = job
              /\ \/ pc' = pc
                 \/ /\ pc[d] \in {"persist_failure", "dead_letter"}
                    /\ Goto(d, "dead_letter")
    PROVE  SubmissionIsNew'
  BY DEF Alone, TypeOK, SubmissionIsNew, Recorded, Accepted, JobHash, Leave, Goto

\* Every step keeps submissions new.
LEMMA SubmissionStep ==
    ASSUME Alone
    PROVE  InductiveInvariant /\ SubmissionIsNew /\ [Next]_vars => SubmissionIsNew'
<1> SUFFICES ASSUME TypeOK, CorrelationIds, SubmissionIsNew, [Next]_vars
             PROVE  SubmissionIsNew'
  BY DEF InductiveInvariant
<1>1. CASE (\E o \in Orders : UpdateOrder(o)) \/ UNCHANGED vars
  BY <1>1 DEF UpdateOrder, vars, wmsVars, dbVars, memVars, SubmissionIsNew,
              Recorded, Accepted, JobHash
<1>2. CASE LateArrival
  BY <1>2 DEF LateArrival, dbVars, memVars, SubmissionIsNew, Recorded, Accepted, JobHash
<1>3. ASSUME NEW d \in Daemons, Fetch(d) PROVE SubmissionIsNew'
  BY <1>3, QuietStep DEF Fetch, wmsVars, dbVars
<1>4. ASSUME NEW d \in Daemons, Start(d) PROVE SubmissionIsNew'
  <2>1. job'[d].corr = runs + 1 /\ pc'[d] = "evaluate"
    BY <1>4 DEF Start, Goto, TypeOK
  <2> QED
    BY <1>4, <2>1 DEF Start, wmsVars, dbVars, Alone, TypeOK, SubmissionIsNew
<1>5. ASSUME NEW d \in Daemons,
             RaiseBeforeSubmit(d) \/ SkipDuplicate(d) \/ Crash(d)
      PROVE  SubmissionIsNew'
  BY <1>5, QuietStep DEF RaiseBeforeSubmit, SkipDuplicate, Crash, wmsVars, dbVars
<1>6. ASSUME NEW d \in Daemons, DecideNoMatch(d) \/ DecideMatch(d)
      PROVE  SubmissionIsNew'
  <2>1. PICK dec \in Decisions : /\ ~IsDuplicate(Evaluated(d, dec))
                                 /\ job' = [job EXCEPT ![d] = Evaluated(d, dec)]
    BY <1>6 DEF DecideNoMatch, DecideMatch
  <2>2. pc[d] = "evaluate" /\ job[d] \in Jobs
    BY <1>6, JobTyped DEF DecideNoMatch, DecideMatch
  <2>3. job'[d] = Evaluated(d, dec) /\ job'[d].corr = job[d].corr
    BY <2>1, <2>2 DEF TypeOK, Evaluated, Jobs
  <2>4. ~Recorded(Accepted(job'[d]))
    BY <2>1, <2>3 DEF IsDuplicate, Recorded, Accepted
  <2>5. UNCHANGED <<processed, late, runs>>
    BY <1>6 DEF DecideNoMatch, DecideMatch, wmsVars, dbVars
  <2>6. job[d] # NoJob
    BY <2>2, JobTyped
  <2>7. \A e \in late : e.corr # job'[d].corr
    BY <2>2, <2>3, <2>6 DEF SubmissionIsNew
  <2> QED
    BY <2>4, <2>5, <2>7 DEF Alone, SubmissionIsNew, Recorded, Accepted, JobHash
<1>7. ASSUME NEW d \in Daemons, SubmitReturns(d) \/ StageSuccess(d)
      PROVE  SubmissionIsNew'
  <2>1. pc[d] \in {"submit", "stage"} /\ pc'[d] \in {"stage", "commit_success"}
    BY <1>7 DEF SubmitReturns, StageSuccess, Goto, TypeOK
  <2>2. job[d] # NoJob /\ job[d] \in Jobs
    BY <2>1, JobTyped
  <2>3. job'[d].corr = job[d].corr
    BY <1>7, <2>2 DEF SubmitReturns, StageSuccess, TypeOK, Jobs
  <2>4. UNCHANGED <<late, runs>>
    BY <1>7 DEF SubmitReturns, StageSuccess, wmsVars
  <2> QED
    BY <2>1, <2>2, <2>3, <2>4 DEF Alone, SubmissionIsNew
<1>8. ASSUME NEW d \in Daemons, SubmitRaises(d) PROVE SubmissionIsNew'
  <2>1. /\ pc[d] = "submit" /\ pc'[d] = "persist_failure"
        /\ late' \in {late, late \cup {Accepted(job[d])}}
        /\ UNCHANGED <<processed, job, runs>>
    BY <1>8 DEF SubmitRaises, Goto, TypeOK, dbVars
  <2>2. ~Recorded(Accepted(job[d]))
    BY <2>1 DEF SubmissionIsNew
  <2>3. job[d] # NoJob /\ Accepted(job[d]).corr = job[d].corr
    BY <2>1, JobTyped DEF Accepted
  <2>4. \A e \in late : e.corr # job[d].corr
    BY <2>1, <2>3 DEF SubmissionIsNew
  <2>5. job[d].corr \in 1 .. runs
    BY <2>3 DEF CorrelationIds
  <2> QED
    BY <2>1, <2>2, <2>3, <2>4, <2>5 DEF Alone, SubmissionIsNew, Recorded
<1>9. ASSUME NEW d \in Daemons, CommitSuccess(d) PROVE SubmissionIsNew'
  <2>1. /\ pc[d] = "commit_success"
        /\ UNCHANGED <<late, runs>>
        /\ \/ Goto(d, "persist_failure") /\ UNCHANGED job
           \/ Leave(d)
    BY <1>9 DEF CommitSuccess, wmsVars
  <2>2. job[d] # NoJob
    BY <2>1, JobTyped
  <2>3. \A e \in late : e.corr # job[d].corr
    BY <2>1, <2>2 DEF SubmissionIsNew
  <2>4. pc'[d] # "submit" /\ (job'[d] # NoJob => job'[d].corr = job[d].corr)
    BY <2>1 DEF Goto, Leave, TypeOK
  <2> QED
    BY <2>1, <2>3, <2>4 DEF Alone, SubmissionIsNew
<1>10. ASSUME NEW d \in Daemons, PersistFailure(d) \/ MoveOrderToDeadLetter(d)
       PROVE  SubmissionIsNew'
  BY <1>10, QuietStep DEF PersistFailure, MoveOrderToDeadLetter, wmsVars
<1> QED
  BY <1>1, <1>2, <1>3, <1>4, <1>5, <1>6, <1>7, <1>8, <1>9, <1>10 DEF Next

\* What the WMS takes in from a run that is under way is never what the
\* idempotency record holds already (process_order.py:48-52), also after
\* crashes, lost commit answers and requests given up.
THEOREM NothingIsRepeated ==
    ASSUME Alone PROVE Spec => NoRepeatSubmission
<1>1. Init => InductiveInvariant /\ SubmissionIsNew
  BY InductiveInit DEF Init, SubmissionIsNew
<1>2. InductiveInvariant /\ [Next]_vars => InductiveInvariant'
  BY InductiveStep
<1>3. ASSUME TypeOK, SubmissionIsNew, [Next]_vars,
             NEW d \in Daemons, NEW e \in applied' \ applied,
             job[d] # NoJob, job[d].corr = e.corr
      PROVE  ~Recorded(e)
  <2>1. CASE LateArrival
    BY <1>3, <2>1 DEF LateArrival, SubmissionIsNew
  <2>2. ASSUME NEW x \in Daemons, SubmitReturns(x) PROVE ~Recorded(e)
    BY <1>3, <2>2 DEF SubmitReturns, SubmissionIsNew
  <2>3. CASE UNCHANGED applied
    BY <1>3, <2>3
  <2>4. ASSUME NEW x \in Daemons,
               \/ Fetch(x) \/ Start(x) \/ RaiseBeforeSubmit(x) \/ SkipDuplicate(x)
               \/ DecideNoMatch(x) \/ DecideMatch(x) \/ SubmitRaises(x)
               \/ StageSuccess(x) \/ CommitSuccess(x) \/ PersistFailure(x)
               \/ MoveOrderToDeadLetter(x) \/ Crash(x)
        PROVE  UNCHANGED applied
    BY <2>4 DEF Fetch, Start, RaiseBeforeSubmit, SkipDuplicate, DecideNoMatch,
                DecideMatch, SubmitRaises, StageSuccess, CommitSuccess,
                PersistFailure, MoveOrderToDeadLetter, Crash, wmsVars
  <2>5. CASE (\E o \in Orders : UpdateOrder(o)) \/ UNCHANGED vars
    BY <2>3, <2>5 DEF UpdateOrder, vars, wmsVars
  <2> QED
    BY <1>3, <2>1, <2>2, <2>3, <2>4, <2>5 DEF Next
<1>4. InductiveInvariant /\ SubmissionIsNew /\ [Next]_vars
        => [\A d \in Daemons : \A e \in applied' \ applied :
              job[d] # NoJob /\ job[d].corr = e.corr =>
                 processed[e.order] = NoRow \/ processed[e.order].hash # e.hash]_vars
  BY <1>3 DEF InductiveInvariant, Recorded
<1> QED
  BY <1>1, <1>2, <1>4, SubmissionStep, PTL DEF Spec, NoRepeatSubmission
-----------------------------------------------------------------------------
\* The record of an order is no newer than any snapshot of it in memory, and
\* the snapshots are no newer than the order.
SnapshotsAreNewer ==
    /\ \A o \in Orders : processed[o] # NoRow => processed[o].hash.version <= version[o]
    /\ \A d \in Daemons : \A s \in batch[d] :
         /\ s.version <= version[s.order]
         /\ processed[s.order] # NoRow => processed[s.order].hash.version <= s.version
         /\ \A t \in batch[d] : t.order = s.order => t.version = s.version
         /\ job[d] # NoJob /\ job[d].order = s.order => job[d].version <= s.version
    /\ \A d \in Daemons : job[d] # NoJob =>
         /\ job[d].version <= version[job[d].order]
         /\ processed[job[d].order] # NoRow =>
              processed[job[d].order].hash.version <= job[d].version

\* What a step does to the record of an order: nothing, or it is now from the
\* version of a run that commits its success.
LEMMA RecordStep ==
    ASSUME InductiveInvariant, [Next]_vars
    PROVE  \/ processed' = processed
           \/ \E d \in Daemons :
                /\ pc[d] = "commit_success" /\ job[d] # NoJob
                /\ job[d].order \in Orders
                /\ \A o \in Orders \ {job[d].order} : processed'[o] = processed[o]
                /\ \/ processed'[job[d].order].hash = JobHash(job[d])
                   \/ /\ processed[job[d].order] # NoRow
                      /\ processed'[job[d].order].hash = processed[job[d].order].hash
<1>1. TypeOK /\ SuccessJustified
  BY DEF InductiveInvariant
<1>2. ASSUME NEW d \in Daemons, pc[d] = "commit_success",
             processed' = SaveProcessed(processed, job[d].order, job[d].loaded,
                                        NoRow, JobHash(job[d]), job[d].corr)
      PROVE  /\ job[d] # NoJob /\ job[d].order \in Orders
             /\ \A o \in Orders \ {job[d].order} : processed'[o] = processed[o]
             /\ \/ processed'[job[d].order].hash = JobHash(job[d])
                \/ /\ processed[job[d].order] # NoRow
                   /\ processed'[job[d].order].hash = processed[job[d].order].hash
  <2>1. job[d] # NoJob /\ job[d].order \in Orders
    BY <1>1, <1>2, JobTyped
  <2>2. \A o \in Orders \ {job[d].order} : processed'[o] = processed[o]
    BY <1>1, <1>2 DEF SaveProcessed, TypeOK
  <2>3. processed'[job[d].order].hash =
          IF job[d].loaded # NoRow /\ job[d].loaded.hash = JobHash(job[d])
          THEN processed[job[d].order].hash ELSE JobHash(job[d])
    <3>1. processed'[job[d].order] =
            [hash |-> IF job[d].loaded # NoRow /\ job[d].loaded.hash = JobHash(job[d])
                      THEN processed[job[d].order].hash ELSE JobHash(job[d]),
             corr |-> job[d].corr]
      BY <1>1, <1>2, <2>1, SavedRow
    <3> QED
      BY <3>1
  <2>4. job[d].loaded # NoRow => processed[job[d].order] # NoRow
    BY <1>1, <2>1 DEF SuccessJustified
  <2> QED
    BY <2>1, <2>2, <2>3, <2>4
<1> QED
  BY <1>1, <1>2, ProcessedSaved

\* A run under way keeps its snapshot; batches grow with Fetch only.
LEMMA SnapshotsKept ==
    ASSUME TypeOK, [Next]_vars, ~ (\E d \in Daemons : Start(d) \/ Fetch(d))
    PROVE  \A x \in Daemons :
              /\ batch'[x] \subseteq batch[x]
              /\ job'[x] # NoJob => /\ job[x] # NoJob
                                    /\ job'[x].order = job[x].order
                                    /\ job'[x].version = job[x].version
<1> DEFINE Kept == \A x \in Daemons :
              /\ batch'[x] \subseteq batch[x]
              /\ job'[x] # NoJob => /\ job[x] # NoJob
                                    /\ job'[x].order = job[x].order
                                    /\ job'[x].version = job[x].version
<1>1. CASE (\E o \in Orders : UpdateOrder(o)) \/ LateArrival \/ UNCHANGED vars
  BY <1>1 DEF UpdateOrder, LateArrival, vars, memVars
<1>2. ASSUME NEW d \in Daemons,
             \/ RaiseBeforeSubmit(d) \/ SkipDuplicate(d) \/ SubmitReturns(d)
             \/ SubmitRaises(d) \/ CommitSuccess(d) \/ PersistFailure(d)
             \/ MoveOrderToDeadLetter(d)
      PROVE  Kept
  <2>1. batch' = batch /\ (Leave(d) \/ job' = job)
    BY <1>2 DEF RaiseBeforeSubmit, SkipDuplicate, SubmitReturns, SubmitRaises,
                CommitSuccess, PersistFailure, MoveOrderToDeadLetter
  <2> QED
    BY <2>1 DEF Leave, TypeOK
<1>3. ASSUME NEW d \in Daemons, Crash(d) PROVE Kept
  BY <1>3 DEF Crash, Leave, TypeOK
<1>4. ASSUME NEW d \in Daemons, DecideNoMatch(d) \/ DecideMatch(d) \/ StageSuccess(d)
      PROVE  Kept
  <2>1. job[d] # NoJob /\ job[d] \in Jobs /\ batch' = batch
    BY <1>4, JobTyped DEF DecideNoMatch, DecideMatch, StageSuccess
  <2>2. CASE StageSuccess(d)
    <3> DEFINE j == [job[d] EXCEPT !.loaded = processed[job[d].order]]
    <3>1. job' = [job EXCEPT ![d] = j]
      BY <2>2 DEF StageSuccess
    <3>2. j.order = job[d].order /\ j.version = job[d].version
      BY <2>1 DEF Jobs
    <3> HIDE DEF j
    <3> QED
      BY <2>1, <3>1, <3>2 DEF TypeOK
  <2>3. CASE DecideNoMatch(d) \/ DecideMatch(d)
    <3>1. PICK dec \in Decisions : job' = [job EXCEPT ![d] = Evaluated(d, dec)]
      BY <2>3 DEF DecideNoMatch, DecideMatch
    <3>2. /\ Evaluated(d, dec).order = job[d].order
          /\ Evaluated(d, dec).version = job[d].version
      BY <2>1 DEF Evaluated, Jobs
    <3> QED
      BY <2>1, <3>1, <3>2 DEF TypeOK
  <2> QED
    BY <1>4, <2>2, <2>3
<1> QED
  BY <1>1, <1>2, <1>3, <1>4 DEF Next

\* Every step keeps the snapshots between the record and the order.
LEMMA SnapshotsStep ==
    ASSUME Alone
    PROVE  InductiveInvariant /\ SnapshotsAreNewer /\ [Next]_vars => SnapshotsAreNewer'
<1> SUFFICES ASSUME InductiveInvariant, SnapshotsAreNewer, [Next]_vars
             PROVE  SnapshotsAreNewer'
  OBVIOUS
<1>0. TypeOK
  BY DEF InductiveInvariant
<1>1. version' \in [Orders -> Nat] /\ \A o \in Orders : version[o] <= version'[o]
  <2>1. ASSUME NEW o \in Orders, UpdateOrder(o)
        PROVE  version' \in [Orders -> Nat] /\ \A p \in Orders : version[p] <= version'[p]
    BY <1>0, <2>1 DEF UpdateOrder, TypeOK
  <2>2. CASE version' = version
    BY <1>0, <2>2 DEF TypeOK
  <2>3. (\E o \in Orders : UpdateOrder(o)) \/ version' = version
    BY DEF Next, LateArrival, Fetch, Start, RaiseBeforeSubmit, SkipDuplicate,
           DecideNoMatch, DecideMatch, SubmitReturns, SubmitRaises, StageSuccess,
           CommitSuccess, PersistFailure, MoveOrderToDeadLetter, Crash, vars, wmsVars
  <2> QED
    BY <2>1, <2>2, <2>3
<1>2. /\ \A d \in Daemons : \A s \in batch[d] : s.order \in Orders /\ s.version \in Nat
      /\ \A d \in Daemons : job[d] # NoJob =>
            job[d].order \in Orders /\ job[d].version \in Nat
      /\ \A o \in Orders : processed[o] # NoRow => processed[o].hash.version \in Nat
  <2>1. \A o \in Orders : processed[o] # NoRow => processed[o].hash.version \in Nat
    BY <1>0 DEF TypeOK, ProcessedRows, Hashes
  <2>2. \A d \in Daemons : job[d] # NoJob => job[d] \in Jobs
    BY <1>0 DEF TypeOK
  <2> QED
    BY <1>0, <2>1, <2>2 DEF TypeOK, Jobs
<1>3. ASSUME NEW d \in Daemons, Fetch(d) PROVE SnapshotsAreNewer'
  <2>1. PICK S \in SUBSET Orders :
          batch' = [batch EXCEPT ![d] = {[order |-> o, version |-> version[o]] : o \in S}]
    BY <1>3 DEF Fetch
  <2>2. job[d] = NoJob /\ UNCHANGED <<job, processed, version>>
    BY <1>0, <1>3 DEF Fetch, TypeOK, wmsVars, dbVars
  <2>3. \A x \in Daemons : x = d
    BY DEF Alone
  <2>4. ASSUME NEW s \in batch'[d]
        PROVE  s.order \in Orders /\ s.version = version[s.order]
    BY <1>0, <2>1, <2>4 DEF TypeOK
  <2>5. version \in [Orders -> Nat]
    BY <1>0 DEF TypeOK
  <2> QED
    BY <2>2, <2>3, <2>4, <2>5 DEF SnapshotsAreNewer
<1>4. ASSUME NEW d \in Daemons, Start(d) PROVE SnapshotsAreNewer'
  <2>1. PICK s \in batch[d] :
          /\ batch' = [batch EXCEPT ![d] = @ \ {s}]
          /\ job' = [job EXCEPT ![d] =
                [order |-> s.order, version |-> s.version, corr |-> runs + 1,
                 number |-> GetNextAttemptNumber(attempts, s.order),
                 matched |-> FALSE, fields |-> NoFields, loaded |-> NoRow]]
    BY <1>4 DEF Start
  <2>2. /\ batch'[d] = batch[d] \ {s}
        /\ job'[d].order = s.order /\ job'[d].version = s.version
    BY <1>0, <2>1 DEF TypeOK
  <2>3. UNCHANGED <<processed, version>>
    BY <1>4 DEF Start, wmsVars, dbVars
  <2>4. \A x \in Daemons : x = d
    BY DEF Alone
  <2>5. \A t \in batch[d] : t.order = s.order => s.version <= t.version
    BY <1>2 DEF SnapshotsAreNewer
  <2> QED
    BY <2>2, <2>3, <2>4, <2>5 DEF SnapshotsAreNewer
<1>5. CASE ~ (\E d \in Daemons : Start(d) \/ Fetch(d)) /\ processed' = processed
  <2>1. \A x \in Daemons :
          /\ batch'[x] \subseteq batch[x]
          /\ job'[x] # NoJob => /\ job[x] # NoJob
                                /\ job'[x].order = job[x].order
                                /\ job'[x].version = job[x].version
    BY <1>0, <1>5, SnapshotsKept
  <2> QED
    BY <1>0, <1>1, <1>2, <1>5, <2>1 DEF SnapshotsAreNewer, TypeOK
<1>6. CASE ~ (\E d \in Daemons : Start(d) \/ Fetch(d)) /\ processed' # processed
  <2>1. \A x \in Daemons :
          /\ batch'[x] \subseteq batch[x]
          /\ job'[x] # NoJob => /\ job[x] # NoJob
                                /\ job'[x].order = job[x].order
                                /\ job'[x].version = job[x].version
    BY <1>0, <1>6, SnapshotsKept
  <2>2. PICK d \in Daemons :
          /\ pc[d] = "commit_success" /\ job[d] # NoJob
          /\ job[d].order \in Orders
          /\ \A o \in Orders \ {job[d].order} : processed'[o] = processed[o]
          /\ \/ processed'[job[d].order].hash = JobHash(job[d])
             \/ /\ processed[job[d].order] # NoRow
                /\ processed'[job[d].order].hash = processed[job[d].order].hash
    BY <1>6, RecordStep
  <2> DEFINE p == job[d].order
  <2>3. /\ \A o \in Orders \ {p} : processed'[o].hash.version = processed[o].hash.version
        /\ \/ processed'[p].hash.version = job[d].version
           \/ processed[p] # NoRow /\ processed'[p].hash.version = processed[p].hash.version
    BY <2>2 DEF JobHash, Compute
  <2>4. \A x \in Daemons : x = d
    BY DEF Alone
  <2>5. version \in [Orders -> Nat]
    BY <1>0 DEF TypeOK
  <2>6. \A o \in Orders : processed'[o] # NoRow =>
          \/ processed[o] # NoRow /\ processed'[o].hash.version = processed[o].hash.version
          \/ o = p /\ processed'[o].hash.version = job[d].version
    BY <2>2, <2>3
  <2> HIDE DEF p
  <2>7. \A o \in Orders : processed'[o] # NoRow => processed'[o].hash.version <= version'[o]
    BY <1>1, <1>2, <2>2, <2>5, <2>6 DEF SnapshotsAreNewer, p
  <2>8. \A s \in batch'[d] :
          /\ s.version <= version'[s.order]
          /\ processed'[s.order] # NoRow => processed'[s.order].hash.version <= s.version
          /\ \A t \in batch'[d] : t.order = s.order => t.version = s.version
          /\ job'[d] # NoJob /\ job'[d].order = s.order => job'[d].version <= s.version
    BY <1>1, <1>2, <2>1, <2>2, <2>5, <2>6 DEF SnapshotsAreNewer, p
  <2>9. job'[d] # NoJob =>
          /\ job'[d].version <= version'[job'[d].order]
          /\ processed'[job'[d].order] # NoRow =>
               processed'[job'[d].order].hash.version <= job'[d].version
    BY <1>1, <1>2, <2>1, <2>2, <2>5, <2>6 DEF SnapshotsAreNewer, p
  <2> QED
    BY <2>4, <2>7, <2>8, <2>9 DEF SnapshotsAreNewer
<1> QED
  BY <1>3, <1>4, <1>5, <1>6

\* The idempotency record never goes back to an older version of the order
\* (processed_order_repository_sqlalchemy.py:18-25).
THEOREM RecordMovesForward ==
    ASSUME Alone PROVE Spec => ProcessedNeverRegresses
<1>1. Init => InductiveInvariant /\ SnapshotsAreNewer
  BY InductiveInit DEF Init, SnapshotsAreNewer
<1>2. InductiveInvariant /\ [Next]_vars => InductiveInvariant'
  BY InductiveStep
<1>3. ASSUME InductiveInvariant, SnapshotsAreNewer, [Next]_vars,
             NEW o \in Orders, processed[o] # NoRow
      PROVE  processed'[o] # NoRow /\ processed'[o].hash.version >= processed[o].hash.version
  <2>1. processed'[o] # NoRow
    BY <1>3, NothingForgotten
  <2>2. processed[o].hash.version \in Nat
    BY <1>3 DEF InductiveInvariant, TypeOK, ProcessedRows, Hashes
  <2>3. CASE processed' = processed
    BY <2>1, <2>2, <2>3
  <2>4. CASE processed' # processed
    <3>1. PICK d \in Daemons :
            /\ job[d] # NoJob
            /\ \A p \in Orders \ {job[d].order} : processed'[p] = processed[p]
            /\ \/ processed'[job[d].order].hash = JobHash(job[d])
               \/ processed'[job[d].order].hash = processed[job[d].order].hash
      BY <1>3, <2>4, RecordStep
    <3>2. job[d].order = o =>
            job[d].version \in Nat /\ processed[o].hash.version <= job[d].version
      BY <1>3, <3>1 DEF InductiveInvariant, TypeOK, Jobs, SnapshotsAreNewer
    <3>3. JobHash(job[d]).version = job[d].version
      BY DEF JobHash, Compute
    <3> QED
      BY <2>1, <2>2, <3>1, <3>2, <3>3
  <2> QED
    BY <2>3, <2>4
<1>4. InductiveInvariant /\ SnapshotsAreNewer /\ [Next]_vars
        => [\A o \in Orders : processed[o] # NoRow =>
              /\ processed'[o] # NoRow
              /\ processed'[o].hash.version >= processed[o].hash.version]_vars
  BY <1>3
<1> QED
  BY <1>1, <1>2, <1>4, SnapshotsStep, PTL DEF Spec, ProcessedNeverRegresses
=============================================================================
