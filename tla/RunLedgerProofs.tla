--------------------------- MODULE RunLedgerProofs ---------------------------
(***************************************************************************)
(* OrderProcessing implements RunLedger, for any number of daemons,        *)
(* orders, crashes and database faults: a step that stores the result of a *)
(* run is an entry into the ledger, a step that reaches the WMS is a Take, *)
(* and every other step leaves the ledger alone.                           *)
(* What the ledger may miss is counted at the end of the module.           *)
(***************************************************************************)
EXTENDS OrderProcessingProofs

\* The attempt and the event that a run enters.
AttemptOf(d, s) == [order |-> job[d].order, corr |-> job[d].corr,
                    number |-> job[d].number, status |-> s]
MessageOf(d, s, event) ==
    [id |-> RunMessageId(job[d].corr, job[d].order), order |-> job[d].order,
     type |-> EventType(s), event |-> event, status |-> "PENDING"]

\* A run that has not left its event yet is not in the ledger, and its number
\* is due.
LEMMA RunIsDue ==
    ASSUME InductiveInvariant, NEW d \in Daemons, pc[d] # "idle", NEW s \in Statuses,
           NEW event,
           ~ MessageConflict(outbox, RunMessageId(job[d].corr, job[d].order))
    PROVE  /\ AttemptOf(d, s) \notin attempts
           /\ MessageOf(d, s, event) \notin outbox
           /\ Ledger!Due(AttemptOf(d, s))
<1> DEFINE a == AttemptOf(d, s)
<1>1. a.order = job[d].order /\ a.corr = job[d].corr /\ a.number = job[d].number
  BY DEF AttemptOf
<1>2. job[d] # NoJob
  BY JobTyped DEF InductiveInvariant
<1> HIDE DEF a
<1>3. \A b \in attempts : b.corr # a.corr
  <2> SUFFICES ASSUME NEW b \in attempts, b.corr = a.corr PROVE FALSE
    OBVIOUS
  <2>1. b.order = a.order
    BY <1>1, <1>2 DEF InductiveInvariant, CorrelationIds
  <2>2. PICK x \in outbox : x.id = RunMessageId(b.corr, b.order)
    BY DEF InductiveInvariant, RunRecordedOnce
  <2> QED
    BY <1>1, <2>1, <2>2 DEF MessageConflict
<1>4. MessageOf(d, s, event) \notin outbox
  <2>1. MessageOf(d, s, event).id = RunMessageId(job[d].corr, job[d].order)
    BY DEF MessageOf
  <2> QED
    BY <2>1 DEF MessageConflict
<1>5. a.number = 1 \/ \E b \in attempts : b.order = a.order /\ b.number + 1 = a.number
  <2>1. job[d].number \in 1 .. runs
        /\ (job[d].number = 1 \/ job[d].number - 1 \in AttemptNumbers(attempts, job[d].order))
    BY <1>2 DEF InductiveInvariant, AttemptNumbersInterval
  <2>2. CASE job[d].number = 1
    BY <1>1, <2>2
  <2>3. CASE job[d].number - 1 \in AttemptNumbers(attempts, job[d].order)
    <3>1. PICK b \in attempts : b.order = job[d].order /\ b.number = job[d].number - 1
      BY <2>3 DEF AttemptNumbers
    <3>2. job[d].number \in Int
      BY <2>1 DEF InductiveInvariant, TypeOK
    <3> QED
      BY <1>1, <3>1, <3>2
  <2> QED
    BY <2>1, <2>2, <2>3
<1> QED
  BY <1>3, <1>4, <1>5 DEF a, Ledger!Due

\* Storing a success is an entry of the ledger.
LEMMA SuccessEntered ==
    ASSUME InductiveInvariant, Next, NEW d \in Daemons, pc[d] = "commit_success",
           ~ MessageConflict(outbox, RunMessageId(job[d].corr, job[d].order)),
           attempts' = SaveAttempt(attempts, job[d].order, job[d].corr,
                                   job[d].number, "SUCCESS"),
           outbox' = Enqueue(outbox, RunMessageId(job[d].corr, job[d].order),
                             job[d].order, "OrderEnrichmentSucceeded", SuccessEvent(job[d])),
           processed' = SaveProcessed(processed, job[d].order, job[d].loaded,
                                      NoRow, JobHash(job[d]), job[d].corr),
           UNCHANGED applied
    PROVE  Ledger!EnterSuccess
<1> DEFINE a == AttemptOf(d, "SUCCESS")
           m == MessageOf(d, "SUCCESS", SuccessEvent(job[d]))
           o == job[d].order
<1>1. TypeOK /\ TypeOK' /\ SuccessJustified /\ IdempotencyRecordBacked'
  BY TypeStep, IdempotencyRecordBackedStep DEF InductiveInvariant
<1>2. attempts' = attempts \cup {a} /\ outbox' = outbox \cup {m}
  BY DEF SaveAttempt, Enqueue, AttemptOf, MessageOf, EventType
<1>3. /\ a.order = o /\ a.corr = job[d].corr /\ a.status = "SUCCESS"
      /\ m.order = o /\ m.id.corr = job[d].corr /\ m.type = "OrderEnrichmentSucceeded"
      /\ m.event = SuccessEvent(job[d])
  BY DEF AttemptOf, MessageOf, RunMessageId, EventType
<1>4. a \notin attempts /\ m \notin outbox /\ Ledger!Due(a)
  BY RunIsDue DEF Statuses
<1>5. o \in Orders
  BY <1>1, JobTyped
<1> HIDE DEF a, m
<1>6. m.event = "NoRulesMatched" \/ \E e \in applied : e.order = a.order /\ e.corr = a.corr
  <2>1. CASE ~ job[d].matched
    BY <1>3, <2>1 DEF SuccessEvent
  <2>2. CASE job[d].matched
    <3>1. Accepted(job[d]) \in applied
      BY <1>1, <2>2 DEF SuccessJustified
    <3>2. Accepted(job[d]).order = o /\ Accepted(job[d]).corr = job[d].corr
      BY DEF Accepted
    <3> QED
      BY <1>3, <3>1, <3>2
  <2>3. job[d].matched \in BOOLEAN
    BY <1>1, JobTyped
  <2> QED
    BY <2>1, <2>2, <2>3
<1>7. processed'[o].corr = job[d].corr
  <2>1. processed'[o] = [hash |-> IF job[d].loaded # NoRow /\ job[d].loaded.hash = JobHash(job[d])
                                  THEN processed[o].hash ELSE JobHash(job[d]),
                         corr |-> job[d].corr]
    BY <1>1, <1>5, SavedRow
  <2> QED
    BY <2>1
<1>8. processed' = [processed EXCEPT ![o] = processed'[o]]
  <2>1. DOMAIN processed = Orders
    BY <1>1 DEF TypeOK
  <2> QED
    BY <1>5, <2>1 DEF SaveProcessed
<1>9. Ledger!Backed(o, processed'[o])
  <2>1. processed'[o] # NoRow
    BY CommittedRow
  <2> QED
    BY <1>1, <1>5, <2>1 DEF IdempotencyRecordBacked, Ledger!Backed
<1>10. a \in attempts' \ attempts /\ m \in outbox' \ outbox
  BY <1>2, <1>4
<1>11. Ledger!Enter(a, m, "SUCCESS", "OrderEnrichmentSucceeded")
  BY <1>2, <1>3, <1>4 DEF Ledger!Enter
<1> QED
  BY <1>3, <1>6, <1>7, <1>8, <1>9, <1>10, <1>11 DEF Ledger!EnterSuccess

\* So is storing a failure.
LEMMA FailureEntered ==
    ASSUME InductiveInvariant, NEW d \in Daemons, pc[d] = "persist_failure",
           ~ MessageConflict(outbox, RunMessageId(job[d].corr, job[d].order)),
           attempts' = SaveAttempt(attempts, job[d].order, job[d].corr,
                                   job[d].number, "FAILED"),
           outbox' = Enqueue(outbox, RunMessageId(job[d].corr, job[d].order),
                             job[d].order, "OrderEnrichmentFailed", "OrderEnrichmentFailed"),
           UNCHANGED <<applied, processed>>
    PROVE  Ledger!EnterFailure
<1> DEFINE a == AttemptOf(d, "FAILED")
           m == MessageOf(d, "FAILED", "OrderEnrichmentFailed")
<1>1. attempts' = attempts \cup {a} /\ outbox' = outbox \cup {m}
  BY DEF SaveAttempt, Enqueue, AttemptOf, MessageOf, EventType
<1>2. /\ a.order = job[d].order /\ a.corr = job[d].corr /\ a.status = "FAILED"
      /\ m.order = job[d].order /\ m.id.corr = job[d].corr
      /\ m.type = "OrderEnrichmentFailed"
  BY DEF AttemptOf, MessageOf, RunMessageId, EventType
<1>3. a \notin attempts /\ m \notin outbox /\ Ledger!Due(a)
  BY RunIsDue DEF Statuses
<1> HIDE DEF a, m
<1>4. Ledger!Enter(a, m, "FAILED", "OrderEnrichmentFailed")
  BY <1>1, <1>2, <1>3 DEF Ledger!Enter
<1> QED
  BY <1>1, <1>3, <1>4 DEF Ledger!EnterFailure

\* Every step of the use cases is a step of the ledger or leaves it alone.
LEMMA LedgerStep == InductiveInvariant /\ [Next]_vars => [Ledger!Next]_(Ledger!vars)
<1> SUFFICES ASSUME InductiveInvariant, [Next]_vars
             PROVE  Ledger!Next \/ UNCHANGED <<applied, attempts, outbox, processed>>
  BY DEF Ledger!vars, Ledger!tables
<1>1. ASSUME NEW d \in Daemons, CommitSuccess(d)
      PROVE  Ledger!EnterSuccess \/ UNCHANGED <<applied, attempts, outbox, processed>>
  <2> DEFINE j == job[d]
             id == RunMessageId(j.corr, j.order)
             storable == /\ ~MessageRefused(j.order, id)
                         /\ ~ProcessedConflict(processed, j.order, j.loaded, NoRow)
  <2>1. PICK outcome \in CommitOutcomes(storable) :
          IF Stored(outcome)
          THEN /\ attempts' = SaveAttempt(attempts, j.order, j.corr, j.number, "SUCCESS")
               /\ processed' = SaveProcessed(processed, j.order, j.loaded, NoRow,
                                             JobHash(j), j.corr)
               /\ outbox' = Enqueue(outbox, id, j.order,
                                    "OrderEnrichmentSucceeded", SuccessEvent(j))
          ELSE UNCHANGED <<attempts, processed, outbox>>
    BY <1>1 DEF CommitSuccess
  <2>2. UNCHANGED applied /\ pc[d] = "commit_success"
    BY <1>1 DEF CommitSuccess, wmsVars
  <2>3. CASE Stored(outcome)
    <3>1. storable
      BY <2>3 DEF CommitOutcomes, Stored
    <3>2. ~ MessageConflict(outbox, id)
      BY <3>1 DEF MessageRefused
    <3>3. Next
      BY <1>1 DEF Next
    <3> QED
      BY <2>1, <2>2, <2>3, <3>2, <3>3, SuccessEntered
  <2> QED
    BY <2>1, <2>2, <2>3
<1>2. ASSUME NEW d \in Daemons, PersistFailure(d)
      PROVE  Ledger!EnterFailure \/ UNCHANGED <<applied, attempts, outbox, processed>>
  <2> DEFINE j == job[d]
             id == RunMessageId(j.corr, j.order)
             storable == ~MessageRefused(j.order, id)
  <2>1. PICK outcome \in CommitOutcomes(storable) :
          IF Stored(outcome)
          THEN /\ attempts' = SaveAttempt(attempts, j.order, j.corr, j.number, "FAILED")
               /\ outbox' = Enqueue(outbox, id, j.order,
                                    "OrderEnrichmentFailed", "OrderEnrichmentFailed")
          ELSE UNCHANGED <<attempts, outbox>>
    BY <1>2 DEF PersistFailure
  <2>2. UNCHANGED <<applied, processed>> /\ pc[d] = "persist_failure"
    BY <1>2 DEF PersistFailure, wmsVars
  <2>3. CASE Stored(outcome)
    <3>1. storable
      BY <2>3 DEF CommitOutcomes, Stored
    <3>2. ~ MessageConflict(outbox, id)
      BY <3>1 DEF MessageRefused
    <3> QED
      BY <2>1, <2>2, <2>3, <3>2, FailureEntered
  <2> QED
    BY <2>1, <2>2, <2>3
<1>3. ASSUME NEW d \in Daemons, MoveOrderToDeadLetter(d)
      PROVE  UNCHANGED <<applied, attempts, outbox, processed>>
  <2>1. PICK outcome \in CommitOutcomes(JsonEncodable({"str"} \cup OrderLeafTypes)) :
          ~Stored(outcome) => UNCHANGED outbox
    BY <1>3 DEF MoveOrderToDeadLetter
  <2>2. ~ Stored(outcome)
    BY OrderNotEncodable DEF CommitOutcomes, Stored
  <2> QED
    BY <1>3, <2>1, <2>2 DEF MoveOrderToDeadLetter, wmsVars
<1>4. ASSUME NEW d \in Daemons, SubmitReturns(d)
      PROVE  Ledger!Take
  <2>1. applied' = applied \cup {Accepted(job[d])} /\ Accepted(job[d]) \in applied'
    BY <1>4 DEF SubmitReturns
  <2>2. UNCHANGED <<attempts, outbox, processed>>
    BY <1>4 DEF SubmitReturns, dbVars
  <2> QED
    BY <2>1, <2>2 DEF Ledger!Take, Ledger!tables
<1>5. CASE LateArrival
  <2>1. \E e \in applied' : applied' = applied \cup {e}
    BY <1>5 DEF LateArrival
  <2> QED
    BY <1>5, <2>1 DEF LateArrival, dbVars, Ledger!Take, Ledger!tables, Ledger!Next
<1>6. ASSUME NEW d \in Daemons,
             \/ Fetch(d) \/ Start(d) \/ RaiseBeforeSubmit(d) \/ SkipDuplicate(d)
             \/ DecideNoMatch(d) \/ DecideMatch(d) \/ SubmitRaises(d)
             \/ StageSuccess(d) \/ Crash(d)
      PROVE  UNCHANGED <<applied, attempts, outbox, processed>>
  BY <1>6 DEF Fetch, Start, RaiseBeforeSubmit, SkipDuplicate, DecideNoMatch,
              DecideMatch, SubmitRaises, StageSuccess, Crash, wmsVars, dbVars
<1>7. CASE (\E o \in Orders : UpdateOrder(o)) \/ UNCHANGED vars
  BY <1>7 DEF UpdateOrder, vars, wmsVars, dbVars
<1> QED
  BY <1>1, <1>2, <1>3, <1>4, <1>5, <1>6, <1>7 DEF Next, Ledger!Next

\* Whatever the use cases do, with crashes, lost commit answers, late requests
\* and daemons side by side (process_order.py:41-105), is a behaviour of the
\* ledger.
THEOREM LedgerImplemented == Spec => ImplementsRunLedger
<1>1. Init => Ledger!Init
  BY DEF Init, Ledger!Init
<1> QED
  BY <1>1, LedgerStep, Invariance, PTL DEF Spec, Ledger!Spec, ImplementsRunLedger

-----------------------------------------------------------------------------
\* What the ledger may miss: a run whose enrichment the WMS has, or may still
\* get, and that was cut off by a crash or by a commit that raised.

\* A request belongs to a run that has got to its submission, and no run reaches
\* the dead letters without an attempt.
RequestsOwned ==
    /\ \A e \in applied \cup late : e.corr \in 1 .. runs
    /\ \A d \in Daemons, e \in applied \cup late : job[d] # NoJob /\ e.corr = job[d].corr =>
          /\ e.order = job[d].order
          /\ pc[d] \notin {"evaluate", "submit"}
          /\ pc[d] \in {"stage", "commit_success"} => job[d].matched
    /\ \A d \in Daemons : pc[d] = "dead_letter" => \E a \in attempts : a.corr = job[d].corr

\* A saved attempt is an attempt of its run.
LEMMA SavedAttempt ==
    ASSUME NEW T, NEW o, NEW c, NEW n, NEW s
    PROVE  \E a \in SaveAttempt(T, o, c, n, s) : a.corr = c
<1> DEFINE r == [order |-> o, corr |-> c, number |-> n, status |-> s]
<1>1. r.corr = c
  OBVIOUS
<1> HIDE DEF r
<1>2. r \in T \cup {r}
  OBVIOUS
<1> QED
  BY <1>1, <1>2 DEF SaveAttempt, r

\* A run goes on and keeps its order and correlation id.
LEMMA OwnedByMove ==
    ASSUME InductiveInvariant, RequestsOwned, NEW d \in Daemons, pc[d] # "idle",
           NEW l \in Labels, Goto(d, l), NEW j \in Jobs, job' = [job EXCEPT ![d] = j],
           j.corr = job[d].corr, j.order = job[d].order,
           applied' = applied, late' = late, attempts \subseteq attempts', runs' = runs,
           l = "dead_letter" => \E a \in attempts' : a.corr = j.corr,
           \A e \in applied \cup late : e.corr = j.corr =>
               l \notin {"evaluate", "submit"} /\ (l \in {"stage", "commit_success"} => j.matched)
    PROVE  RequestsOwned'
<1>1. job[d] # NoJob
  BY JobTyped DEF InductiveInvariant
<1>2. pc'[d] = l /\ job'[d] = j
  BY DEF Goto, InductiveInvariant, TypeOK
<1>3. \A x \in Daemons : x # d => pc'[x] = pc[x] /\ job'[x] = job[x]
  BY DEF Goto, InductiveInvariant, TypeOK
<1> QED
  BY <1>1, <1>2, <1>3 DEF RequestsOwned

LEMMA OwnedByLeave ==
    ASSUME InductiveInvariant, RequestsOwned, NEW d \in Daemons, Leave(d),
           applied' \cup late' = applied \cup late, attempts \subseteq attempts', runs' = runs
    PROVE  RequestsOwned'
<1>1. pc'[d] = "idle" /\ job'[d] = NoJob
  BY DEF Leave, InductiveInvariant, TypeOK
<1>2. \A x \in Daemons : x # d => pc'[x] = pc[x] /\ job'[x] = job[x]
  BY DEF Leave, InductiveInvariant, TypeOK
<1> QED
  BY <1>1, <1>2 DEF RequestsOwned

\* A request is sent, taken in at once or late.
LEMMA OwnedBySubmission ==
    ASSUME InductiveInvariant, RequestsOwned, NEW d \in Daemons,
           SubmitReturns(d) \/ SubmitRaises(d)
    PROVE  RequestsOwned'
<1>1. /\ applied' \cup late' \subseteq applied \cup late \cup {Accepted(job[d])}
      /\ pc[d] = "submit" /\ UNCHANGED <<attempts, job, runs>>
      /\ Goto(d, "stage") \/ Goto(d, "persist_failure")
  BY DEF SubmitReturns, SubmitRaises, dbVars
<1>2. pc'[d] \in {"stage", "persist_failure"} /\ \A x \in Daemons : x # d => pc'[x] = pc[x]
  BY <1>1 DEF Goto, InductiveInvariant, TypeOK
<1>3. /\ job[d] # NoJob /\ job[d].matched
      /\ Accepted(job[d]).corr = job[d].corr /\ Accepted(job[d]).order = job[d].order
  BY <1>1, JobTyped DEF InductiveInvariant, SuccessJustified, Accepted
<1>4. job[d].corr \in 1 .. runs
      /\ \A x \in Daemons : x # d /\ job[x] # NoJob => job[x].corr # job[d].corr
  BY <1>3 DEF InductiveInvariant, CorrelationIds
<1> QED
  BY <1>1, <1>2, <1>3, <1>4 DEF RequestsOwned

LEMMA OwnedByStart ==
    ASSUME InductiveInvariant, RequestsOwned, NEW d \in Daemons, Start(d)
    PROVE  RequestsOwned'
<1>1. PICK s \in batch[d] : job' = [job EXCEPT ![d] =
             [order |-> s.order, version |-> s.version, corr |-> runs + 1,
              number |-> GetNextAttemptNumber(attempts, s.order),
              matched |-> FALSE, fields |-> NoFields, loaded |-> NoRow]]
  BY DEF Start
<1>2. job'[d].corr = runs + 1 /\ \A x \in Daemons : x # d => job'[x] = job[x]
  BY <1>1 DEF InductiveInvariant, TypeOK
<1>3. pc'[d] = "evaluate" /\ \A x \in Daemons : x # d => pc'[x] = pc[x]
  BY DEF Start, Goto, InductiveInvariant, TypeOK
<1>4. runs \in Nat /\ runs' = runs + 1 /\ UNCHANGED <<applied, late, attempts>>
  BY DEF Start, InductiveInvariant, TypeOK, wmsVars, dbVars
<1> QED
  BY <1>2, <1>3, <1>4 DEF RequestsOwned

LEMMA OwnedByCommit ==
    ASSUME InductiveInvariant, RequestsOwned, NEW d \in Daemons,
           CommitSuccess(d) \/ PersistFailure(d)
    PROVE  RequestsOwned'
<1>1. /\ pc[d] \in {"commit_success", "persist_failure"}
      /\ UNCHANGED <<applied, late, runs>> /\ attempts \subseteq attempts'
  BY DEF CommitSuccess, PersistFailure, wmsVars, SaveAttempt
<1>2. /\ job[d] \in Jobs /\ job[d] # NoJob
      /\ job' = job => job' = [job EXCEPT ![d] = job[d]]
  BY <1>1, JobTyped DEF InductiveInvariant, TypeOK
<1>3. CASE Leave(d)
  BY <1>1, <1>3, OwnedByLeave
<1>4. CASE Goto(d, "persist_failure") /\ UNCHANGED job
  BY <1>1, <1>2, <1>4, OwnedByMove DEF Labels
<1>5. CASE Goto(d, "dead_letter") /\ UNCHANGED job /\ PersistFailure(d)
  <2>1. PICK outcome : /\ Stored(outcome) => attempts' =
                            SaveAttempt(attempts, job[d].order, job[d].corr, job[d].number, "FAILED")
                       /\ IF ~Raised(outcome) /\ job[d].number >= MaxProcessingAttempts
                          THEN TRUE ELSE Leave(d)
    BY <1>5 DEF PersistFailure
  <2>2. ~ Leave(d)
    BY <1>5 DEF Leave, Goto, InductiveInvariant, TypeOK
  <2>3. attempts' = SaveAttempt(attempts, job[d].order, job[d].corr, job[d].number, "FAILED")
    BY <2>1, <2>2 DEF Raised, Stored
  <2>4. \E a \in attempts' : a.corr = job[d].corr
    BY <2>3, SavedAttempt
  <2> QED
    BY <1>1, <1>2, <1>5, <2>4, OwnedByMove DEF Labels
<1> QED
  BY <1>3, <1>4, <1>5 DEF CommitSuccess, PersistFailure

LEMMA OwnedStep == InductiveInvariant /\ RequestsOwned /\ [Next]_vars => RequestsOwned'
<1> SUFFICES ASSUME InductiveInvariant, RequestsOwned, [Next]_vars
             PROVE  RequestsOwned'
  OBVIOUS
<1> USE DEF wmsVars, dbVars, memVars
<1>1. ASSUME NEW d \in Daemons, DecideNoMatch(d) \/ DecideMatch(d)
      PROVE  RequestsOwned'
  <2>1. PICK dec \in Decisions, l \in {"stage", "submit"} :
          job' = [job EXCEPT ![d] = Evaluated(d, dec)] /\ Goto(d, l)
    BY <1>1 DEF DecideNoMatch, DecideMatch
  <2>2. pc[d] = "evaluate" /\ UNCHANGED <<applied, late, attempts, runs>>
    BY <1>1 DEF DecideNoMatch, DecideMatch
  <2>3. Evaluated(d, dec) \in Jobs /\ job[d] # NoJob
    BY <2>2, EvaluatedTyped, JobTyped DEF InductiveInvariant
  <2>4. Evaluated(d, dec).corr = job[d].corr /\ Evaluated(d, dec).order = job[d].order
    BY <2>2, JobTyped DEF InductiveInvariant, Evaluated, Jobs
  <2>5. \A e \in applied \cup late : e.corr # job[d].corr
    BY <2>2, <2>3 DEF RequestsOwned
  <2> QED
    BY <2>1, <2>2, <2>3, <2>4, <2>5, OwnedByMove DEF Labels
<1>2. ASSUME NEW d \in Daemons, StageSuccess(d)
      PROVE  RequestsOwned'
  <2> DEFINE j == [job[d] EXCEPT !.loaded = processed[job[d].order]]
  <2>1. /\ job' = [job EXCEPT ![d] = j] /\ Goto(d, "commit_success") /\ pc[d] = "stage"
        /\ UNCHANGED <<applied, late, attempts, runs>>
    BY <1>2 DEF StageSuccess
  <2>2. job[d] # NoJob /\ job[d] \in Jobs /\ processed[job[d].order] \in ProcessedRows \cup {NoRow}
    BY <2>1, JobTyped DEF InductiveInvariant, TypeOK
  <2>3. j \in Jobs /\ j.corr = job[d].corr /\ j.order = job[d].order /\ j.matched = job[d].matched
    BY <2>2 DEF Jobs
  <2> HIDE DEF j
  <2>4. \A e \in applied \cup late : e.corr = j.corr => j.matched
    BY <2>1, <2>2, <2>3 DEF RequestsOwned
  <2> QED
    BY <2>1, <2>3, <2>4, OwnedByMove DEF Labels
<1>3. ASSUME NEW d \in Daemons,
             RaiseBeforeSubmit(d) \/ SkipDuplicate(d) \/ MoveOrderToDeadLetter(d) \/ Crash(d)
      PROVE  RequestsOwned'
  <2>1. Leave(d) /\ UNCHANGED <<applied, late, attempts, runs>>
    BY <1>3 DEF RaiseBeforeSubmit, SkipDuplicate, MoveOrderToDeadLetter, Crash
  <2> QED
    BY <2>1, OwnedByLeave
<1>4. ASSUME applied' \cup late' = applied \cup late, UNCHANGED <<attempts, pc, job, runs>>
      PROVE  RequestsOwned'
  BY <1>4 DEF RequestsOwned
<1>5. CASE LateArrival
  BY <1>4, <1>5 DEF LateArrival
<1>6. CASE (\E o \in Orders : UpdateOrder(o)) \/ (\E d \in Daemons : Fetch(d)) \/ UNCHANGED vars
  BY <1>4, <1>6 DEF UpdateOrder, Fetch, vars
<1> QED
  BY <1>1, <1>2, <1>3, <1>5, <1>6, OwnedBySubmission, OwnedByStart, OwnedByCommit DEF Next

-----------------------------------------------------------------------------
\* Runs that have a request, have ended and have left no attempt.
Gone == {c \in 1 .. runs :
           /\ \E e \in applied \cup late : e.order \notin LongIds /\ e.corr = c
           /\ \A a \in attempts : a.corr # c
           /\ \A d \in Daemons : job[d] # NoJob => job[d].corr # c}

\* While runs go on, only a run under way sends a request.
LEMMA GoneByMove ==
    ASSUME RequestsOwned', runs \in Nat, CorrelationIds,
           \A e \in applied \cup late : e.corr \in 1 .. runs,
           \A x \in Daemons : job[x] # NoJob =>
               job'[x] # NoJob /\ job'[x].corr = job[x].corr,
           attempts \subseteq attempts',
           \A e \in applied' \cup late' : e \in applied \cup late
               \/ \E x \in Daemons : job'[x] # NoJob /\ job'[x].corr = e.corr
    PROVE  Gone' \subseteq Gone
  BY DEF Gone

\* When a run ends, it is the only one that can be gone by that, and it is not
\* if it has an attempt or if there is no request of it that could be stored.
LEMMA GoneByLeave ==
    ASSUME TypeOK, RequestsOwned, NEW d \in Daemons, Leave(d),
           UNCHANGED <<applied, late, runs>>, attempts \subseteq attempts'
    PROVE  /\ job[d] = NoJob => Gone' \subseteq Gone
           /\ Gone' \subseteq Gone \cup {job[d].corr}
           /\ \/ \E a \in attempts' : a.corr = job[d].corr
              \/ \A e \in applied \cup late : e.corr = job[d].corr => e.order \in LongIds
              => Gone' \subseteq Gone
<1>1. \A x \in Daemons \ {d} : job'[x] = job[x]
  BY DEF Leave, TypeOK
<1>2. Gone' \subseteq {c \in 1 .. runs :
           /\ \E e \in applied \cup late : e.order \notin LongIds /\ e.corr = c
           /\ \A a \in attempts : a.corr # c
           /\ \A a \in attempts' : a.corr # c
           /\ \A x \in Daemons \ {d} : job[x] # NoJob => job[x].corr # c}
  BY <1>1 DEF Gone
<1> QED
  BY <1>2 DEF Gone

\* A failure that is not recorded is a database fault, or its message was
\* refused: the run has an attempt already, or the order has too long an id.
LEMMA GoneByFailure ==
    ASSUME InductiveInvariant, RequestsOwned, RequestsOwned', NEW d \in Daemons,
           PersistFailure(d)
    PROVE  \/ Gone' \subseteq Gone
           \/ faults' = faults + 1 /\ Gone' \subseteq Gone \cup {job[d].corr}
<1> DEFINE id == RunMessageId(job[d].corr, job[d].order)
           storable == ~MessageRefused(job[d].order, id)
<1>1. PICK outcome \in CommitOutcomes(storable) :
        /\ CountFault(storable, outcome)
        /\ IF Stored(outcome)
           THEN attempts' = SaveAttempt(attempts, job[d].order, job[d].corr, job[d].number,
                                        "FAILED")
           ELSE UNCHANGED attempts
        /\ IF ~Raised(outcome) /\ job[d].number >= MaxProcessingAttempts
           THEN Goto(d, "dead_letter") /\ UNCHANGED job
           ELSE Leave(d)
  BY DEF PersistFailure
<1>2. pc[d] = "persist_failure" /\ UNCHANGED <<applied, late, runs>>
  BY DEF PersistFailure, wmsVars
<1>3. attempts \subseteq attempts'
  BY <1>1 DEF SaveAttempt
<1>4. TypeOK /\ CorrelationIds /\ runs \in Nat /\ job[d] # NoJob
  BY <1>2, JobTyped DEF InductiveInvariant, TypeOK
<1>5. CASE Goto(d, "dead_letter") /\ UNCHANGED job
  BY <1>2, <1>3, <1>4, <1>5, GoneByMove DEF RequestsOwned
<1>6. CASE Leave(d) /\ Stored(outcome)
  <2>1. \E a \in attempts' : a.corr = job[d].corr
    BY <1>1, <1>6, SavedAttempt
  <2> QED
    BY <1>2, <1>3, <1>4, <1>6, <2>1, GoneByLeave
<1>7. CASE Leave(d) /\ ~Stored(outcome) /\ storable
  <2>1. Gone' \subseteq Gone \cup {job[d].corr}
    BY <1>2, <1>3, <1>4, <1>7, GoneByLeave
  <2>2. faults' = faults + 1
    BY <1>1, <1>7 DEF CountFault, Stored, Raised
  <2> QED
    BY <2>1, <2>2
<1>8. CASE Leave(d) /\ ~storable
  <2>1. CASE job[d].order \in LongIds
    <3>1. \A e \in applied \cup late : e.corr = job[d].corr => e.order \in LongIds
      BY <1>4, <2>1 DEF RequestsOwned
    <3> QED
      BY <1>2, <1>3, <1>4, <1>8, <3>1, GoneByLeave
  <2>2. CASE MessageConflict(outbox, id)
    <3>1. PICK m \in outbox : m.id = id
      BY <2>2 DEF MessageConflict
    <3>2. PICK a \in attempts : m.id = RunMessageId(a.corr, a.order)
      BY DEF InductiveInvariant, RunRecordedOnce
    <3>3. RunMessageId(a.corr, a.order).corr = a.corr
          /\ RunMessageId(job[d].corr, job[d].order).corr = job[d].corr
      BY DEF RunMessageId
    <3>4. a.corr = job[d].corr /\ a \in attempts'
      BY <1>3, <3>1, <3>2, <3>3
    <3> QED
      BY <1>2, <1>3, <1>4, <1>8, <3>4, GoneByLeave
  <2> QED
    BY <1>8, <2>1, <2>2 DEF MessageRefused
<1> QED
  BY <1>1, <1>5, <1>6, <1>7, <1>8

\* A success that is not recorded goes on to the failure, or had no request.
LEMMA GoneBySuccess ==
    ASSUME InductiveInvariant, RequestsOwned, RequestsOwned', NEW d \in Daemons,
           CommitSuccess(d)
    PROVE  Gone' \subseteq Gone
<1>1. PICK outcome :
        /\ IF Stored(outcome)
           THEN attempts' = SaveAttempt(attempts, job[d].order, job[d].corr, job[d].number,
                                        "SUCCESS")
           ELSE UNCHANGED attempts
        /\ IF Raised(outcome) /\ job[d].matched
           THEN Goto(d, "persist_failure") /\ UNCHANGED job
           ELSE Leave(d)
  BY DEF CommitSuccess
<1>2. pc[d] = "commit_success" /\ UNCHANGED <<applied, late, runs>>
  BY DEF CommitSuccess, wmsVars
<1>3. attempts \subseteq attempts'
  BY <1>1 DEF SaveAttempt
<1>4. TypeOK /\ CorrelationIds /\ runs \in Nat /\ job[d] # NoJob
  BY <1>2, JobTyped DEF InductiveInvariant, TypeOK
<1>5. CASE UNCHANGED job
  BY <1>2, <1>3, <1>4, <1>5, GoneByMove DEF RequestsOwned
<1>6. CASE Leave(d) /\ Stored(outcome)
  <2>1. \E a \in attempts' : a.corr = job[d].corr
    BY <1>1, <1>6, SavedAttempt
  <2> QED
    BY <1>2, <1>3, <1>4, <1>6, <2>1, GoneByLeave
<1>7. CASE Leave(d) /\ ~Stored(outcome) /\ ~job[d].matched
  <2>1. \A e \in applied \cup late : e.corr # job[d].corr
    BY <1>2, <1>4, <1>7 DEF RequestsOwned
  <2> QED
    BY <1>2, <1>3, <1>4, <1>7, <2>1, GoneByLeave
<1> QED
  BY <1>1, <1>5, <1>6, <1>7 DEF Stored, Raised

\* A step adds no run to those that are gone, or one for a crash or a fault.
LEMMA GoneStep ==
    ASSUME InductiveInvariant, RequestsOwned, RequestsOwned', TypeOK', [Next]_vars
    PROVE  \/ Gone' \subseteq Gone /\ crashes' >= crashes /\ faults' >= faults
           \/ \E c : /\ Gone' \subseteq Gone \cup {c}
                     /\ crashes' + faults' = crashes + faults + 1
<1> DEFINE Bounded == \/ Gone' \subseteq Gone /\ crashes' >= crashes /\ faults' >= faults
                      \/ \E c : /\ Gone' \subseteq Gone \cup {c}
                                /\ crashes' + faults' = crashes + faults + 1
<1>1. TypeOK /\ CorrelationIds /\ {runs, crashes, faults, crashes', faults'} \subseteq Nat
      /\ \A e \in applied \cup late : e.corr \in 1 .. runs
  BY DEF InductiveInvariant, TypeOK, RequestsOwned
<1> USE DEF wmsVars, dbVars, memVars, boundVars
<1>2. ASSUME NEW d \in Daemons, PersistFailure(d)
      PROVE  Bounded
  <2>1. crashes' = crashes /\ faults' >= faults
    BY <1>1, <1>2 DEF PersistFailure, CountFault
  <2> QED
    BY <1>1, <1>2, <2>1, GoneByFailure
<1>3. ASSUME NEW d \in Daemons, CommitSuccess(d)
      PROVE  Bounded
  <2>1. crashes' = crashes /\ faults' >= faults
    BY <1>1, <1>3 DEF CommitSuccess, CountFault
  <2> QED
    BY <1>1, <1>3, <2>1, GoneBySuccess
<1>4. ASSUME NEW d \in Daemons, RaiseBeforeSubmit(d) \/ SkipDuplicate(d)
      PROVE  Bounded
  <2>1. Leave(d) /\ pc[d] = "evaluate" /\ UNCHANGED <<applied, late, runs, attempts>>
        /\ crashes' = crashes /\ faults' = faults
    BY <1>4 DEF RaiseBeforeSubmit, SkipDuplicate
  <2>2. \A e \in applied \cup late : e.corr # job[d].corr
    BY <1>1, <2>1, JobTyped DEF RequestsOwned
  <2> QED
    BY <1>1, <2>1, <2>2, GoneByLeave
<1>5. ASSUME NEW d \in Daemons, MoveOrderToDeadLetter(d)
      PROVE  Bounded
  <2>1. Leave(d) /\ pc[d] = "dead_letter" /\ UNCHANGED <<applied, late, runs, attempts>>
        /\ crashes' = crashes /\ faults' >= faults
    BY <1>1, <1>5 DEF MoveOrderToDeadLetter, CountFault
  <2>2. \E a \in attempts' : a.corr = job[d].corr
    BY <2>1 DEF RequestsOwned
  <2> QED
    BY <1>1, <2>1, <2>2, GoneByLeave
<1>6. ASSUME NEW d \in Daemons, Crash(d)
      PROVE  Bounded
  <2>1. Leave(d) /\ UNCHANGED <<applied, late, runs, attempts>>
        /\ crashes' = crashes + 1 /\ faults' = faults
    BY <1>6 DEF Crash
  <2>2. Gone' \subseteq Gone \cup {job[d].corr}
    BY <1>1, <2>1, GoneByLeave
  <2> QED
    BY <1>1, <2>1, <2>2
\* The other steps end no run.
<1>7. ASSUME \A x \in Daemons : job[x] # NoJob =>
                 job'[x] # NoJob /\ job'[x].corr = job[x].corr,
             \A e \in applied' \cup late' : e \in applied \cup late
                 \/ \E x \in Daemons : job'[x] # NoJob /\ job'[x].corr = e.corr,
             UNCHANGED <<attempts, crashes, faults>>
      PROVE  Bounded
  BY <1>1, <1>7, GoneByMove
<1>8. ASSUME NEW d \in Daemons, DecideNoMatch(d) \/ DecideMatch(d)
      PROVE  Bounded
  <2>1. PICK dec \in Decisions : job' = [job EXCEPT ![d] = Evaluated(d, dec)]
    BY <1>8 DEF DecideNoMatch, DecideMatch
  <2>2. pc[d] = "evaluate" /\ UNCHANGED <<applied, late, attempts, crashes, faults>>
    BY <1>8 DEF DecideNoMatch, DecideMatch
  <2>3. Evaluated(d, dec) # NoJob /\ Evaluated(d, dec).corr = job[d].corr
    <3>1. Evaluated(d, dec) \in Jobs
      BY <1>1, <2>2, EvaluatedTyped
    <3>2. Evaluated(d, dec).corr = job[d].corr
      BY <1>1, <2>2, JobTyped DEF Evaluated, Jobs
    <3> QED
      BY <3>1, <3>2, ConstantsAssumption
  <2> QED
    BY <1>1, <1>7, <2>1, <2>2, <2>3 DEF TypeOK
<1>9. ASSUME NEW d \in Daemons, StageSuccess(d)
      PROVE  Bounded
  <2> DEFINE j == [job[d] EXCEPT !.loaded = processed[job[d].order]]
  <2>1. job' = [job EXCEPT ![d] = j] /\ pc[d] = "stage"
        /\ UNCHANGED <<applied, late, attempts, crashes, faults>>
    BY <1>9 DEF StageSuccess
  <2>2. j \in Jobs /\ j.corr = job[d].corr
    BY <1>1, <2>1, JobTyped DEF Jobs, TypeOK
  <2> HIDE DEF j
  <2>3. j # NoJob
    BY <2>2, ConstantsAssumption
  <2> QED
    BY <1>1, <1>7, <2>1, <2>2, <2>3 DEF TypeOK
<1>10. ASSUME NEW d \in Daemons, Start(d)
       PROVE  Bounded
  <2>1. PICK j : job' = [job EXCEPT ![d] = j]
    BY <1>10 DEF Start
  <2>2. job[d] = NoJob
    BY <1>1, <1>10 DEF Start, TypeOK
  <2>3. UNCHANGED <<applied, late, attempts, crashes, faults>>
    BY <1>10 DEF Start
  <2> QED
    BY <1>1, <1>7, <2>1, <2>2, <2>3 DEF TypeOK
<1>11. ASSUME NEW d \in Daemons, SubmitReturns(d) \/ SubmitRaises(d)
       PROVE  Bounded
  <2>1. /\ \A e \in applied' \cup late' : e \in applied \cup late \/ e = Accepted(job[d])
        /\ pc[d] = "submit" /\ UNCHANGED <<job, attempts, crashes, faults>>
    BY <1>11 DEF SubmitReturns, SubmitRaises
  <2>2. job[d] # NoJob /\ Accepted(job[d]).corr = job[d].corr
    BY <1>1, <2>1, JobTyped DEF Accepted
  <2> QED
    BY <1>7, <2>1, <2>2
<1>12. CASE LateArrival \/ (\E o \in Orders : UpdateOrder(o))
            \/ (\E d \in Daemons : Fetch(d)) \/ UNCHANGED vars
  BY <1>7, <1>12 DEF LateArrival, UpdateOrder, Fetch, vars
<1> QED
  BY <1>2, <1>3, <1>4, <1>5, <1>6, <1>8, <1>9, <1>10, <1>11, <1>12 DEF Next

\* What is gone is paid for by crashes and faults.
AccountKept == RequestsOwned /\ Cardinality(Gone) <= crashes + faults

LEMMA GoneIsFinite == TypeOK => IsFiniteSet(Gone) /\ Cardinality(Gone) \in Nat
<1> SUFFICES ASSUME TypeOK PROVE IsFiniteSet(Gone) /\ Cardinality(Gone) \in Nat
  OBVIOUS
<1>1. IsFiniteSet(1 .. runs)
  BY FS_Interval DEF TypeOK
<1>2. Gone \in SUBSET (1 .. runs)
  BY DEF Gone
<1> QED
  BY <1>1, <1>2, FS_Subset, FS_CardinalityType

LEMMA AccountInit == Init => AccountKept
<1> SUFFICES ASSUME Init PROVE AccountKept
  OBVIOUS
<1>1. Gone = {} /\ RequestsOwned
  BY DEF Init, Gone, RequestsOwned
<1> QED
  BY <1>1, FS_EmptySet DEF Init, AccountKept

LEMMA AccountStep ==
    InductiveInvariant /\ InductiveInvariant' /\ AccountKept /\ [Next]_vars => AccountKept'
<1> SUFFICES ASSUME InductiveInvariant, InductiveInvariant', AccountKept, [Next]_vars
             PROVE  AccountKept'
  OBVIOUS
<1>1. TypeOK /\ TypeOK' /\ RequestsOwned /\ RequestsOwned'
  BY OwnedStep DEF InductiveInvariant, AccountKept
<1>2. IsFiniteSet(Gone) /\ Cardinality(Gone) \in Nat /\ Cardinality(Gone) <= crashes + faults
  BY <1>1, GoneIsFinite DEF AccountKept
<1>3. Cardinality(Gone') \in Nat
  <2>1. IsFiniteSet(1 .. runs')
    BY <1>1, FS_Interval DEF TypeOK
  <2>2. Gone' \in SUBSET (1 .. runs')
    BY DEF Gone
  <2> QED
    BY <2>1, <2>2, FS_Subset, FS_CardinalityType
<1>4. {crashes, faults, crashes', faults'} \subseteq Nat
  BY <1>1 DEF TypeOK
<1>5. CASE Gone' \subseteq Gone /\ crashes' >= crashes /\ faults' >= faults
  <2>1. Cardinality(Gone') <= Cardinality(Gone)
    BY <1>2, <1>5, FS_Subset
  <2> QED
    BY <1>1, <1>2, <1>3, <1>4, <1>5, <2>1 DEF AccountKept
<1>6. ASSUME NEW c, Gone' \subseteq Gone \cup {c}, crashes' + faults' = crashes + faults + 1
      PROVE  AccountKept'
  <2>1. IsFiniteSet(Gone \cup {c}) /\ Cardinality(Gone \cup {c}) <= Cardinality(Gone) + 1
    BY <1>2, FS_AddElement
  <2>2. Cardinality(Gone \cup {c}) \in Nat /\ Cardinality(Gone') <= Cardinality(Gone \cup {c})
    BY <1>6, <2>1, FS_Subset, FS_CardinalityType
  <2> QED
    BY <1>1, <1>2, <1>3, <1>4, <1>6, <2>1, <2>2 DEF AccountKept
<1> QED
  BY <1>1, <1>5, <1>6, GoneStep

\* Everything the WMS has taken in has an attempt row, or belongs to a run
\* that is under way, or is one of at most as many runs as there were crashes
\* and failed commits (process_order.py:59-105).
THEOREM AppliedAreAccounted == Spec => []AppliedIsAccounted
<1>1. InductiveInvariant /\ AccountKept => AppliedIsAccounted
  <2> SUFFICES ASSUME TypeOK, AccountKept PROVE AppliedIsAccounted
    BY DEF InductiveInvariant
  <2>1. Unaccounted \in SUBSET Gone
    BY DEF Unaccounted, Gone, AccountKept, RequestsOwned
  <2>2. IsFiniteSet(Gone) /\ Cardinality(Gone) \in Nat
    BY GoneIsFinite
  <2>3. Cardinality(Unaccounted) \in Nat /\ Cardinality(Unaccounted) <= Cardinality(Gone)
    BY <2>1, <2>2, FS_Subset, FS_CardinalityType
  <2>4. crashes \in Nat /\ faults \in Nat
    BY DEF TypeOK
  <2> QED
    BY <2>2, <2>3, <2>4 DEF AccountKept, AppliedIsAccounted
<1> QED
  BY <1>1, AccountInit, AccountStep, Invariance, PTL DEF Spec
=============================================================================
