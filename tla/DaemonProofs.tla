----------------------------- MODULE DaemonProofs -----------------------------
(***************************************************************************)
(* What run_daemon guarantees as a whole, for any number of orders, any    *)
(* sizes of the batches, any number of updates, of changed decisions, of   *)
(* failed runs and of ends of the process.  To the WMS it is Polling; to   *)
(* its tables it is the idempotency record that makes the difference       *)
(* between an order that comes back and one that is new.                   *)
(***************************************************************************)
EXTENDS Daemon, PollingProofs

Events == [order : Orders, number : Nat]

\* What DaemonTypeOK leaves open: what a decision, a hash and an event are.
TablesTyped ==
    /\ decision \in [Orders -> AllDecisions]
    /\ record \in [Orders -> Hashes \cup {NoRecord}]
    /\ pending \in Seq(Events)

\* The batch has one snapshot of an order, and it is no older than what is on
\* record: the order has been updated since, or has not come back yet.
BatchIsAhead ==
    /\ \A s, t \in batch : s.order = t.order => s = t
    /\ \A s \in batch : record[s.order] = NoRecord \/ record[s.order].updatedAt <= s.updatedAt

\* The hash of the present version under the present rules.
Present(o) == [updatedAt |-> updated[o], fields |-> decision[o].fields]

\* Before that hash is on record, whatever the WMS has of the version came from
\* a process that ended, a run that failed, or another decision.
EnrichmentsCounted ==
    \A o \in Orders :
        applied[o] <= (IF record[o] = Present(o) THEN 1 ELSE 0) + crashes + failures + changes

DaemonInvariant ==
    /\ DaemonTypeOK /\ TablesTyped /\ BatchIsAhead
    /\ EnrichmentsCounted /\ RecordIsOfPresentVersion

-----------------------------------------------------------------------------
LEMMA DaemonConstants ==
    /\ OutboxBatch \in Nat \ {0} /\ AttemptCap \in Nat \ {0} /\ MaxMishaps \in Nat
    /\ \A o \in Orders : Decisions[o] \subseteq AllDecisions
    /\ NoRecord \notin Hashes
  BY DaemonAssumption

USE ConstantTypes

\* An order that is handled leaves the batch, whatever its run came to; what the
\* run did is nothing, or an attempt with its event and perhaps the hash.
LEMMA RunEffects ==
    ASSUME NEW s \in batch, Run(s)
    PROVE  /\ HandleOrder(s) /\ Done(s)
           /\ UNCHANGED <<turn, decision, changes>>
           /\ failures' \in {failures, failures + 1}
           /\ UNCHANGED inWms \/ (Submits(s) /\ TakeIn(s))
           /\ \/ UNCHANGED dbVars
              \/ RecordAttempt(s) /\ (record' = record \/ (~AlreadyDone(s) /\ Remember(s)))
<1>1. CASE RaiseEvaluation(s) \/ SkipDuplicate(s)
  BY <1>1 DEF RaiseEvaluation, SkipDuplicate, Turn, dbVars, inWms
<1>2. CASE SucceedWithoutMatch(s)
  BY <1>2 DEF SucceedWithoutMatch, Turn, MatchesNothing, inWms
<1>3. CASE Succeed(s)
  BY <1>3 DEF Succeed, Turn, Submits
<1>4. CASE Fail(s) \/ FailUnrecorded(s)
  BY <1>4 DEF Fail, FailUnrecorded, Turn, MayTakeIn, dbVars, inWms
<1>5. CASE FailRefused(s)
  BY <1>5 DEF FailRefused, Turn, inWms
<1> QED
  BY <1>1, <1>2, <1>3, <1>4, <1>5 DEF Run

\* To the WMS, each step of the daemon is one of Polling, or none.
LEMMA DaemonStepPolls == [DaemonNext]_allVars => [Next]_vars
<1> SUFFICES ASSUME [DaemonNext]_allVars PROVE [Next]_vars
  OBVIOUS
<1>1. CASE World
  BY <1>1 DEF World, Update, ChangeDecision, Next
<1>2. CASE Poll
  BY <1>2 DEF Poll, Next, DaemonStep
<1>3. CASE Process
  <2>1. PICK s \in batch : Run(s)
    BY <1>3 DEF Process
  <2>2. HandleOrder(s)
    BY <2>1, RunEffects
  <2> QED
    BY <2>2 DEF Next, DaemonStep, HandleOrders
<1>4. CASE EndPolling
  BY <1>4 DEF EndPolling, Next, DaemonStep
<1>5. CASE CrashAnywhere
  BY <1>5 DEF CrashAnywhere, Next
<1>6. CASE Publish \/ UNCHANGED allVars
  BY <1>6 DEF Publish, allVars
<1> QED
  BY <1>1, <1>2, <1>3, <1>4, <1>5, <1>6 DEF DaemonNext, LoopStep

\* run_daemon (main.py:24-27) polls like the worker alone: whatever happens to
\* the orders of a batch, the publishing cycles and the ends of the process add
\* nothing to what Polling has.
THEOREM DaemonPolls == DaemonSpec => Spec
<1>1. DaemonInit => Init
  BY DEF DaemonInit
<1> QED
  BY <1>1, DaemonStepPolls, PTL DEF DaemonSpec, Spec

\* With room for all orders in a batch, and clocks that agree, the daemon's
\* watermark passes no order by, also when runs fail or the process ends in the
\* middle of a batch.
THEOREM DaemonLosesNothing == ASSUME Roomy PROVE DaemonSpec => []NothingIsLost
  BY DaemonPolls, NothingLost, PTL

-----------------------------------------------------------------------------
\* The steps of the loop, as far as the tables, the rules and the WMS go.
LEMMA StepCases ==
    ASSUME [DaemonNext]_allVars
    PROVE  \/ \E o \in Orders : Update(o) /\ UNCHANGED <<turn, dbVars, failures>>
           \/ \E o \in Orders : ChangeDecision(o) /\ UNCHANGED <<turn, dbVars, failures>>
           \/ \E s \in batch : Run(s)
           \/ Publish
           \/ CrashAnywhere
           \/ Poll
           \/ EndPolling
           \/ /\ UNCHANGED <<updated, pc, batch, crashes>>
              /\ UNCHANGED daemonVars
  BY DEF DaemonNext, LoopStep, World, Process, Tick, allVars, daemonVars, inWms,
         vars, wmsVars, memVars

\* Polling alone leaves tables, rules and what the WMS took in as they are.
LEMMA PollCases ==
    ASSUME Poll \/ EndPolling
    PROVE  /\ UNCHANGED <<decision, dbVars, inWms, changes, handled, failures>>
           /\ UNCHANGED <<updated, crashes>>
           /\ PollReturns \/ batch' \in {batch, {}}
  BY DEF Poll, EndPolling, BeginCycle, PollReturns, PollRaises, EndCycle, Restart,
         wmsVars, daemonVars

\* A number below the cap has a successor, the cap has itself.
LEMMA NextAttemptTyped ==
    ASSUME DaemonTypeOK, NEW o \in Orders
    PROVE  NextAttempt(o) \in 1 .. AttemptCap /\ attempts[o] <= NextAttempt(o)
  BY DaemonConstants DEF DaemonTypeOK, NextAttempt

\* What a snapshot of the batch is, and the decision on it.
LEMMA SnapshotTyped ==
    ASSUME TypeOK, TablesTyped, NEW s \in batch
    PROVE  /\ s.order \in Orders /\ s.updatedAt \in Nat
           /\ s.updatedAt <= updated[s.order] /\ updated[s.order] \in Nat
           /\ Compute(s) \in Hashes
           /\ Compute(s).updatedAt = s.updatedAt
           /\ Compute(s).fields = decision[s.order].fields
           /\ Submits(s) => decision[s.order].fields \in Fields
           /\ ~decision[s.order].matched => decision[s.order].fields = NoFields
<1>1. /\ s.order \in Orders /\ s.updatedAt \in Nat
      /\ s.updatedAt <= updated[s.order] /\ updated[s.order] \in Nat
  BY DEF TypeOK
<1>2. \/ decision[s.order] \in [matched : {TRUE}, fields : Fields]
      \/ decision[s.order] = [matched |-> FALSE, fields |-> NoFields]
  BY <1>1 DEF TablesTyped, AllDecisions
<1>3. CASE decision[s.order] \in [matched : {TRUE}, fields : Fields]
  <2>1. decision[s.order].fields \in Fields /\ decision[s.order].matched
    BY <1>3
  <2> QED
    BY <1>1, <2>1 DEF Compute, Hashes
<1>4. CASE decision[s.order] = [matched |-> FALSE, fields |-> NoFields]
  <2>1. decision[s.order].fields = NoFields /\ ~decision[s.order].matched
    BY <1>4
  <2> QED
    BY <1>1, <2>1 DEF Compute, Hashes, Submits
<1> QED
  BY <1>2, <1>3, <1>4

\* Every step keeps decisions, rows and events what they are.
LEMMA TablesStep ==
    TypeOK /\ DaemonTypeOK /\ TablesTyped /\ [DaemonNext]_allVars => TablesTyped'
<1> SUFFICES ASSUME TypeOK, DaemonTypeOK, TablesTyped, [DaemonNext]_allVars
             PROVE  TablesTyped'
  OBVIOUS
<1>1. CASE UNCHANGED <<decision, dbVars>>
  BY <1>1 DEF dbVars, TablesTyped
<1>2. ASSUME NEW o \in Orders, UNCHANGED dbVars,
             Update(o) \/ ChangeDecision(o)
      PROVE  TablesTyped'
  <2>1. decision' = decision
            \/ \E d \in Decisions[o] : decision' = [decision EXCEPT ![o] = d]
    BY <1>2 DEF Update, NewVersion, ChangeDecision
  <2>2. decision' \in [Orders -> AllDecisions]
    BY <2>1, DaemonConstants DEF TablesTyped
  <2> QED
    BY <1>2, <2>2 DEF TablesTyped, dbVars
<1>3. CASE Publish
  <2>1. pending' \in Seq(Events) /\ UNCHANGED <<record, decision>>
    BY <1>3, DaemonConstants DEF Publish, TablesTyped
  <2> QED
    BY <2>1 DEF TablesTyped
<1>4. ASSUME NEW s \in batch, Run(s)
      PROVE  TablesTyped'
  <2>1. record' \in [Orders -> Hashes \cup {NoRecord}]
    BY <1>4, RunEffects, SnapshotTyped DEF TablesTyped, Remember, dbVars
  <2>2. ASSUME RecordAttempt(s) PROVE pending' \in Seq(Events)
    <3>1. NextAttempt(s.order) \in Nat
      BY SnapshotTyped, NextAttemptTyped
    <3>2. [order |-> s.order, number |-> NextAttempt(s.order)] \in Events
      BY SnapshotTyped, <3>1 DEF Events
    <3> QED
      BY <2>2, <3>2 DEF RecordAttempt, TablesTyped
  <2>3. pending' \in Seq(Events) /\ decision' = decision
    BY <1>4, <2>2, RunEffects DEF TablesTyped, dbVars
  <2> QED
    BY <2>1, <2>3 DEF TablesTyped
<1> QED
  BY <1>1, <1>2, <1>3, <1>4, StepCases, PollCases DEF CrashAnywhere, daemonVars

\* An enrichment that is taken in counts once more at most, of fields that a
\* rule can contribute.
LEMMA TakeInTyped ==
    ASSUME TypeOK, DaemonTypeOK, TablesTyped, NEW s \in batch,
           UNCHANGED inWms \/ (Submits(s) /\ TakeIn(s))
    PROVE  /\ applied' \in [Orders -> Nat] /\ taken' \in [Orders -> SUBSET Fields]
           /\ \A o \in Orders : taken[o] \subseteq taken'[o]
           /\ \A o \in Orders : applied'[o] = applied[o] \/ applied'[o] = applied[o] + 1
           /\ \A o \in Orders \ {s.order} : applied'[o] = applied[o]
           /\ ~Current(s) => applied' = applied
  BY SnapshotTyped DEF inWms, TakeIn, DaemonTypeOK

\* Every step keeps the counters, and the events' numbers below those of the
\* attempts.
LEMMA DaemonTypeStep ==
    TypeOK /\ TypeOK' /\ DaemonTypeOK /\ TablesTyped /\ [DaemonNext]_allVars => DaemonTypeOK'
<1> SUFFICES ASSUME TypeOK, TypeOK', DaemonTypeOK, TablesTyped, [DaemonNext]_allVars
             PROVE  DaemonTypeOK'
  OBVIOUS
<1>1. ASSUME NEW o \in Orders, Update(o), UNCHANGED <<turn, dbVars, failures>>
      PROVE  DaemonTypeOK'
  <2>1. \A p \in Orders : record[p] = NoRecord \/ record[p].updatedAt <= updated'[p]
    <3>1. \A p \in Orders : record[p] \in Hashes => record[p].updatedAt \in Nat
      BY DEF Hashes
    <3>2. \A p \in Orders : updated[p] <= updated'[p] /\ updated[p] \in Nat /\ updated'[p] \in Nat
      BY <1>1 DEF Update, UpdateOrder, TypeOK
    <3> QED
      BY <3>1, <3>2 DEF DaemonTypeOK, TablesTyped
  <2>2. applied' \in [Orders -> Nat] /\ taken' \in [Orders -> SUBSET Fields]
    BY <1>1 DEF DaemonTypeOK, Update, NewVersion, inWms
  <2>3. \A p \in Orders : decision'[p] \in Decisions[p]
    BY <1>1 DEF DaemonTypeOK, TablesTyped, Update, NewVersion
  <2>4. handled' \subseteq Orders /\ changes' = changes /\ pc' = pc
    BY <1>1 DEF DaemonTypeOK, Update, UpdateOrder, memVars
  <2> QED
    BY <1>1, <2>1, <2>2, <2>3, <2>4 DEF DaemonTypeOK, dbVars
<1>2. ASSUME NEW o \in Orders, ChangeDecision(o), UNCHANGED <<turn, dbVars, failures>>
      PROVE  DaemonTypeOK'
  <2>1. \A p \in Orders : decision'[p] \in Decisions[p]
    BY <1>2 DEF DaemonTypeOK, TablesTyped, ChangeDecision
  <2>2. /\ changes' \in Nat
        /\ UNCHANGED <<updated, pc, applied, taken, handled>>
    BY <1>2 DEF DaemonTypeOK, ChangeDecision, vars, wmsVars, memVars, inWms
  <2> QED
    BY <1>2, <2>1, <2>2 DEF DaemonTypeOK, dbVars
<1>3. CASE UNCHANGED <<updated, pc, batch, crashes>> /\ UNCHANGED daemonVars
  BY <1>3 DEF DaemonTypeOK, daemonVars, dbVars, inWms
<1>4. CASE Poll
  BY <1>4 DEF Poll, BeginCycle, PollReturns, PollRaises, Restart, wmsVars,
              DaemonTypeOK, daemonVars, dbVars, inWms
<1>5. ASSUME NEW s \in batch, Run(s)
      PROVE  DaemonTypeOK'
  <2>1. updated' = updated /\ turn' = turn /\ pc' = pc
    BY <1>5, RunEffects DEF HandleOrder, wmsVars
  <2>2. \A p \in Orders : record'[p] = NoRecord \/ record'[p].updatedAt <= updated[p]
    BY <1>5, RunEffects, SnapshotTyped DEF DaemonTypeOK, TablesTyped, Remember, dbVars
  <2>3. applied' \in [Orders -> Nat] /\ taken' \in [Orders -> SUBSET Fields]
    BY <1>5, RunEffects, TakeInTyped
  <2>4. /\ failures' \in Nat /\ changes' \in Nat /\ handled' \subseteq Orders
        /\ decision' = decision
    BY <1>5, RunEffects, SnapshotTyped DEF Done, DaemonTypeOK
  <2>5. ASSUME RecordAttempt(s)
        PROVE  /\ attempts' \in [Orders -> 0 .. AttemptCap]
               /\ \A i \in DOMAIN pending' : pending'[i].number <= attempts'[pending'[i].order]
    <3> DEFINE e == [order |-> s.order, number |-> NextAttempt(s.order)]
    <3>0. s.order \in Orders
      BY SnapshotTyped
    <3>1. NextAttempt(s.order) \in 1 .. AttemptCap /\ attempts[s.order] <= NextAttempt(s.order)
      BY <3>0, NextAttemptTyped
    <3>2. attempts' = [attempts EXCEPT ![s.order] = NextAttempt(s.order)]
      BY <2>5 DEF RecordAttempt
    <3>3. /\ attempts' \in [Orders -> 0 .. AttemptCap]
          /\ \A p \in Orders : attempts[p] <= attempts'[p]
      BY <3>0, <3>1, <3>2, DaemonConstants DEF DaemonTypeOK
    <3>4. /\ pending' = Append(pending, e)
          /\ e.order = s.order /\ e.number = attempts'[s.order]
      BY <2>5, <3>0, <3>2 DEF RecordAttempt, DaemonTypeOK
    <3> HIDE DEF e
    <3>5. ASSUME NEW i \in DOMAIN pending'
          PROVE  pending'[i].number <= attempts'[pending'[i].order]
      <4>1. CASE i = Len(pending) + 1
        <5>1. pending'[i] = e
          BY <3>4, <4>1 DEF TablesTyped
        <5> QED
          BY <3>0, <3>3, <3>4, <5>1
      <4>2. CASE i # Len(pending) + 1
        <5>1. i \in DOMAIN pending /\ pending'[i] = pending[i]
          BY <3>4, <4>2 DEF TablesTyped
        <5>2. pending[i] \in Events
          BY <5>1 DEF TablesTyped
        <5>3. pending[i].number \in Nat /\ pending[i].order \in Orders
          BY <5>2 DEF Events
        <5> QED
          BY <3>3, <5>1, <5>3 DEF DaemonTypeOK
      <4> QED
        BY <4>1, <4>2
    <3> QED
      BY <3>3, <3>5
  <2>6. /\ attempts' \in [Orders -> 0 .. AttemptCap]
        /\ \A i \in DOMAIN pending' : pending'[i].number <= attempts'[pending'[i].order]
    BY <1>5, <2>5, RunEffects DEF DaemonTypeOK, dbVars
  <2> QED
    BY <2>1, <2>2, <2>3, <2>4, <2>6 DEF DaemonTypeOK
<1>6. CASE EndPolling
  BY <1>6 DEF EndPolling, EndCycle, DaemonTypeOK, dbVars, inWms, wmsVars
<1>7. CASE Publish
  <2>1. /\ turn' = "poll"
        /\ UNCHANGED <<pc, updated, decision, attempts, record, applied, taken, changes,
                       handled, failures>>
    BY <1>7 DEF Publish, vars, wmsVars, memVars, inWms
  <2>2. ASSUME NEW i \in DOMAIN pending' PROVE \E k \in DOMAIN pending : pending'[i] = pending[k]
    <3>1. CASE Len(pending) > OutboxBatch
      <4>1. pending' = SubSeq(pending, OutboxBatch + 1, Len(pending))
        BY <1>7, <3>1 DEF Publish
      <4>2. i + OutboxBatch \in DOMAIN pending /\ pending'[i] = pending[i + OutboxBatch]
        BY <3>1, <4>1, DaemonConstants DEF TablesTyped
      <4> QED
        BY <4>2
    <3>2. CASE ~(Len(pending) > OutboxBatch)
      <4>1. pending' = <<>>
        BY <1>7, <3>2 DEF Publish
      <4> QED
        BY <4>1
    <3> QED
      BY <3>1, <3>2
  <2> QED
    BY <2>1, <2>2 DEF DaemonTypeOK
<1>8. CASE CrashAnywhere
  <2>1. applied' \in [Orders -> Nat] /\ taken' \in [Orders -> SUBSET Fields]
    <3>1. UNCHANGED inWms \/ (\E s \in batch : Submits(s) /\ TakeIn(s))
      BY <1>8 DEF CrashAnywhere, MayTakeIn
    <3>2. CASE UNCHANGED inWms
      BY <3>2 DEF inWms, DaemonTypeOK
    <3> QED
      BY <3>1, <3>2, TakeInTyped
  <2>2. /\ UNCHANGED <<updated, decision, attempts, record, pending, changes, handled, failures>>
        /\ turn' = "poll" /\ pc' = "idle"
    BY <1>8 DEF CrashAnywhere, Crash, Restart, dbVars, wmsVars
  <2> QED
    BY <2>1, <2>2 DEF DaemonTypeOK
<1> QED
  BY <1>1, <1>2, <1>3, <1>4, <1>5, <1>6, <1>7, <1>8, StepCases

-----------------------------------------------------------------------------
\* A poll brings one snapshot per order, and it is the present version; only its
\* own snapshot can change the record of an order.
LEMMA BatchStep ==
    TypeOK /\ DaemonTypeOK /\ TablesTyped /\ BatchIsAhead /\ [DaemonNext]_allVars
        => BatchIsAhead'
<1> SUFFICES ASSUME TypeOK, DaemonTypeOK, TablesTyped, BatchIsAhead, [DaemonNext]_allVars
             PROVE  BatchIsAhead'
  OBVIOUS
<1>1. CASE PollReturns /\ UNCHANGED <<updated, record>>
  <2>1. PICK S \in Pages : batch' = {[order |-> o, updatedAt |-> updated[o]] : o \in S}
    BY <1>1 DEF PollReturns
  <2>2. S \subseteq Orders
    BY <2>1 DEF Pages, Candidates, TypeOK
  <2> QED
    BY <1>1, <2>1, <2>2 DEF BatchIsAhead, DaemonTypeOK
<1>2. CASE batch' \in {batch, {}} /\ UNCHANGED record
  BY <1>2 DEF BatchIsAhead
<1>3. ASSUME NEW s \in batch, Run(s) PROVE BatchIsAhead'
  <2>1. /\ batch' = batch \ {s}
        /\ record' = record \/ record' = [record EXCEPT ![s.order] = Compute(s)]
    BY <1>3, RunEffects DEF HandleOrder, Remember, dbVars
  <2>2. \A t \in batch' : record'[t.order] = record[t.order]
    BY <2>1 DEF BatchIsAhead, TypeOK, TablesTyped
  <2> QED
    BY <2>1, <2>2 DEF BatchIsAhead
<1>4. CASE CrashAnywhere
  BY <1>4 DEF CrashAnywhere, Crash, Restart, BatchIsAhead, dbVars
<1>5. ASSUME NEW o \in Orders, Update(o) \/ ChangeDecision(o), UNCHANGED dbVars
      PROVE  batch' = batch /\ record' = record
  BY <1>5 DEF Update, UpdateOrder, ChangeDecision, dbVars, vars, memVars
<1>6. CASE Publish
  BY <1>6, <1>2 DEF Publish, vars, memVars
<1>7. CASE Poll \/ EndPolling
  BY <1>1, <1>2, <1>7, PollCases DEF dbVars
<1>8. CASE UNCHANGED <<updated, pc, batch, crashes>> /\ UNCHANGED daemonVars
  BY <1>2, <1>8 DEF daemonVars, dbVars
<1> QED
  BY <1>2, <1>3, <1>4, <1>5, <1>6, <1>7, <1>8, StepCases

\* A hash that a run puts on record is new to it: what is there is no older than
\* the snapshot, and is not that hash.
LEMMA NewHash ==
    ASSUME TypeOK, TablesTyped, BatchIsAhead, NEW s \in batch, ~AlreadyDone(s)
    PROVE  /\ record[s.order] # Present(s.order)
           /\ Current(s) => Compute(s) = Present(s.order)
<1>1. Current(s) => Compute(s) = Present(s.order)
  BY DEF Current, Compute, Present
<1>2. CASE Current(s)
  BY <1>1, <1>2 DEF AlreadyDone
<1>3. CASE ~Current(s)
  <2>1. s.updatedAt < updated[s.order] /\ s.updatedAt \in Nat /\ updated[s.order] \in Nat
    BY <1>3, SnapshotTyped DEF Current
  <2>2. record[s.order] = NoRecord \/ record[s.order].updatedAt <= s.updatedAt
    BY DEF BatchIsAhead
  <2>3. record[s.order] = Present(s.order) => record[s.order].updatedAt = updated[s.order]
    BY DEF Present
  <2>4. Present(s.order) # NoRecord
    <3>1. decision[s.order].fields \in Fields \cup {NoFields}
      BY SnapshotTyped DEF Hashes
    <3> QED
      BY <2>1, <3>1, DaemonConstants DEF Present, Hashes
  <2> QED
    BY <1>1, <1>3, <2>1, <2>2, <2>3, <2>4
<1> QED
  BY <1>1, <1>2, <1>3

\* An enrichment of the present version whose hash is not on record counts for a
\* crash, a failure or another decision; the one whose hash is put on record is
\* the one that the bound allows.
LEMMA CountStep ==
    TypeOK /\ DaemonTypeOK /\ TablesTyped /\ BatchIsAhead /\ EnrichmentsCounted
           /\ [DaemonNext]_allVars
        => EnrichmentsCounted'
<1> SUFFICES ASSUME TypeOK, DaemonTypeOK, TablesTyped, BatchIsAhead, EnrichmentsCounted,
                    [DaemonNext]_allVars, NEW p \in Orders
             PROVE  applied'[p] <= (IF record'[p] = Present(p)' THEN 1 ELSE 0)
                                      + crashes' + failures' + changes'
  BY DEF EnrichmentsCounted
<1> DEFINE Goal == applied'[p] <= (IF record'[p] = Present(p)' THEN 1 ELSE 0)
                                      + crashes' + failures' + changes'
<1>0. /\ applied \in [Orders -> Nat] /\ applied[p] \in Nat
      /\ updated \in [Orders -> Nat] /\ time \in Nat
      /\ crashes \in Nat /\ failures \in Nat /\ changes \in Nat
      /\ record \in [Orders -> Hashes \cup {NoRecord}]
      /\ applied[p] <= (IF record[p] = Present(p) THEN 1 ELSE 0)
                           + crashes + failures + changes
  BY DaemonConstants DEF TypeOK, DaemonTypeOK, TablesTyped, EnrichmentsCounted
<1>1. ASSUME NEW o \in Orders, Update(o), UNCHANGED <<dbVars, failures>> PROVE Goal
  <2>1. UNCHANGED <<record, failures, changes, crashes>>
    BY <1>1 DEF Update, UpdateOrder, dbVars, memVars
  <2>2. updated' = [updated EXCEPT ![o] = time]
    BY <1>1 DEF Update, UpdateOrder
  <2>3. CASE updated[o] = time
    <3>1. UNCHANGED <<updated, decision, applied>>
      BY <1>0, <1>1, <2>2, <2>3 DEF Update, inWms
    <3> QED
      BY <1>0, <2>1, <3>1 DEF Present
  <2>4. CASE updated[o] # time
    <3>1. /\ applied' = [applied EXCEPT ![o] = 0]
          /\ \E d \in Decisions[o] : decision' = [decision EXCEPT ![o] = d]
      BY <1>1, <2>4 DEF Update, NewVersion
    <3>2. CASE p = o
      BY <1>0, <2>1, <3>1, <3>2
    <3>3. CASE p # o
      <4>1. Present(p)' = Present(p) /\ applied'[p] = applied[p]
        BY <1>0, <2>2, <3>1, <3>3 DEF Present, TablesTyped
      <4> QED
        BY <1>0, <2>1, <4>1
    <3> QED
      BY <3>2, <3>3
  <2> QED
    BY <2>3, <2>4
<1>2. ASSUME NEW o \in Orders, ChangeDecision(o), UNCHANGED <<dbVars, failures>> PROVE Goal
  <2>1. UNCHANGED <<record, applied, failures, crashes>> /\ changes' = changes + 1
    BY <1>2 DEF ChangeDecision, dbVars, inWms, vars, memVars
  <2> QED
    BY <1>0, <2>1
<1>3. CASE UNCHANGED <<updated, decision, record, applied, failures, crashes, changes>>
  BY <1>0, <1>3 DEF Present
<1>4. ASSUME NEW s \in batch, Run(s) PROVE Goal
  <2>1. UNCHANGED <<updated, decision, crashes, changes>>
    BY <1>4, RunEffects DEF HandleOrder, wmsVars
  <2>2. Present(p)' = Present(p)
    BY <2>1 DEF Present
  <2>3. CASE UNCHANGED <<record, inWms>> /\ failures' \in {failures, failures + 1}
    BY <1>0, <2>1, <2>2, <2>3 DEF inWms
  <2>4. CASE SucceedWithoutMatch(s) \/ Succeed(s)
    <3>1. /\ ~AlreadyDone(s) /\ failures' = failures
          /\ record' = [record EXCEPT ![s.order] = Compute(s)]
      BY <2>4 DEF SucceedWithoutMatch, MatchesNothing, Succeed, Submits, Remember
    <3>2. UNCHANGED inWms \/ (Submits(s) /\ TakeIn(s))
      BY <1>4, RunEffects
    <3>3. CASE p # s.order
      BY <1>0, <2>1, <2>2, <3>1, <3>2, <3>3, TakeInTyped
    <3>4. CASE p = s.order /\ ~Current(s)
      BY <1>0, <2>1, <2>2, <3>1, <3>2, <3>4, TakeInTyped, NewHash
    <3>5. CASE p = s.order /\ Current(s)
      <4>1. record'[p] = Present(p)' /\ record[p] # Present(p)
        BY <1>0, <2>2, <3>1, <3>5, NewHash
      <4>2. applied'[p] <= applied[p] + 1
        BY <1>0, <3>2, TakeInTyped
      <4>3. applied'[p] \in Nat
        BY <3>2, TakeInTyped
      <4> QED
        BY <1>0, <2>1, <3>1, <4>1, <4>2, <4>3
    <3> QED
      BY <3>3, <3>4, <3>5
  <2>5. CASE Fail(s) \/ FailUnrecorded(s)
    <3>1. record' = record /\ failures' = failures + 1
      BY <2>5 DEF Fail, FailUnrecorded, dbVars
    <3>2. applied'[p] \in Nat /\ applied'[p] <= applied[p] + 1
      BY <1>0, <1>4, RunEffects, TakeInTyped
    <3> QED
      BY <1>0, <2>1, <2>2, <3>1, <3>2
  <2> QED
    BY <1>4, <2>3, <2>4, <2>5
    DEF Run, RaiseEvaluation, SkipDuplicate, FailRefused, dbVars
<1>5. CASE CrashAnywhere
  <2>1. /\ crashes' = crashes + 1
        /\ UNCHANGED <<updated, decision, record, failures, changes>>
        /\ UNCHANGED inWms \/ (\E s \in batch : Submits(s) /\ TakeIn(s))
    BY <1>5 DEF CrashAnywhere, MayTakeIn, Crash, Restart, dbVars, wmsVars
  <2>2. Present(p)' = Present(p)
    BY <2>1 DEF Present
  <2>3. applied'[p] \in Nat /\ applied'[p] <= applied[p] + 1
    <3>1. CASE UNCHANGED inWms
      BY <1>0, <3>1 DEF inWms
    <3> QED
      BY <1>0, <2>1, <3>1, TakeInTyped
  <2> QED
    BY <1>0, <2>1, <2>2, <2>3
<1>6. CASE Publish
  BY <1>3, <1>6 DEF Publish, vars, wmsVars, memVars, inWms
<1>7. CASE Poll \/ EndPolling
  BY <1>3, <1>7, PollCases DEF dbVars, inWms
<1>8. CASE UNCHANGED <<updated, pc, batch, crashes>> /\ UNCHANGED daemonVars
  BY <1>3, <1>8 DEF daemonVars, dbVars, inWms
<1> QED
  BY <1>1, <1>2, <1>4, <1>5, <1>6, <1>7, <1>8, StepCases

\* What is put on record has just been taken in, or there was nothing to send,
\* with an attempt; an update that makes a new version leaves no record of it.
LEMMA PresentStep ==
    TypeOK /\ DaemonTypeOK /\ TablesTyped /\ BatchIsAhead /\ RecordIsOfPresentVersion
           /\ [DaemonNext]_allVars
        => RecordIsOfPresentVersion'
<1> SUFFICES ASSUME TypeOK, DaemonTypeOK, TablesTyped, BatchIsAhead,
                    RecordIsOfPresentVersion, [DaemonNext]_allVars,
                    NEW p \in Orders, record'[p] # NoRecord, record'[p].updatedAt = updated'[p]
             PROVE  attempts'[p] > 0 /\ record'[p].fields \in taken'[p] \cup {NoFields}
  BY DEF RecordIsOfPresentVersion
<1> DEFINE Goal == attempts'[p] > 0 /\ record'[p].fields \in taken'[p] \cup {NoFields}
<1>0. /\ attempts \in [Orders -> 0 .. AttemptCap]
      /\ taken \in [Orders -> SUBSET Fields]
      /\ updated \in [Orders -> Nat] /\ time \in Nat
      /\ record \in [Orders -> Hashes \cup {NoRecord}]
      /\ record[p] # NoRecord /\ record[p].updatedAt = updated[p]
            => attempts[p] > 0 /\ record[p].fields \in taken[p] \cup {NoFields}
  BY DEF TypeOK, DaemonTypeOK, TablesTyped, RecordIsOfPresentVersion
<1>1. ASSUME NEW o \in Orders, Update(o), UNCHANGED dbVars PROVE Goal
  <2>1. UNCHANGED <<record, attempts>> /\ updated' = [updated EXCEPT ![o] = time]
    BY <1>1 DEF Update, UpdateOrder, dbVars
  <2>2. CASE updated[o] = time
    <3>1. UNCHANGED <<updated, taken>>
      BY <1>0, <1>1, <2>1, <2>2 DEF Update, inWms
    <3> QED
      BY <1>0, <2>1, <3>1
  <2>3. CASE updated[o] # time /\ p = o
    <3>1. record[p].updatedAt = time /\ record[p] # NoRecord
      BY <1>0, <2>1, <2>3
    <3>2. record[p].updatedAt <= updated[p]
      BY <3>1 DEF DaemonTypeOK
    <3>3. updated[p] <= time
      BY DEF TypeOK
    <3> QED
      BY <1>0, <2>3, <3>1, <3>2, <3>3
  <2>4. CASE updated[o] # time /\ p # o
    <3>1. taken'[p] = taken[p] /\ updated'[p] = updated[p]
      BY <1>0, <1>1, <2>1, <2>4 DEF Update, NewVersion
    <3> QED
      BY <1>0, <2>1, <3>1
  <2> QED
    BY <2>2, <2>3, <2>4
<1>2. CASE UNCHANGED <<updated, record, taken, attempts>>
  BY <1>0, <1>2
<1>3. ASSUME NEW s \in batch, Run(s) PROVE Goal
  <2>1. updated' = updated
    BY <1>3, RunEffects DEF HandleOrder, wmsVars
  <2>2. UNCHANGED inWms \/ (Submits(s) /\ TakeIn(s))
    BY <1>3, RunEffects
  <2>3. taken[p] \subseteq taken'[p]
    BY <2>2, TakeInTyped
  <2>4. attempts'[p] >= attempts[p] /\ attempts'[p] \in Nat
    <3>1. CASE UNCHANGED dbVars
      BY <1>0, <3>1 DEF dbVars
    <3>2. CASE RecordAttempt(s)
      <4>1. /\ s.order \in Orders /\ NextAttempt(s.order) \in 1 .. AttemptCap
            /\ attempts[s.order] <= NextAttempt(s.order)
        BY SnapshotTyped, NextAttemptTyped
      <4>2. attempts' = [attempts EXCEPT ![s.order] = NextAttempt(s.order)]
        BY <3>2 DEF RecordAttempt
      <4> QED
        BY <1>0, <4>1, <4>2, DaemonConstants
    <3> QED
      BY <1>3, <3>1, <3>2, RunEffects
  <2>5. CASE record' = record
    BY <1>0, <2>1, <2>3, <2>4, <2>5
  <2>6. CASE SucceedWithoutMatch(s) \/ Succeed(s)
    <3>1. RecordAttempt(s) /\ record' = [record EXCEPT ![s.order] = Compute(s)]
      BY <2>6 DEF SucceedWithoutMatch, Succeed, Remember
    <3>2. CASE p # s.order
      BY <1>0, <2>1, <2>3, <2>4, <3>1, <3>2
    <3>3. CASE p = s.order
      <4>1. attempts'[p] > 0
        BY <1>0, <3>1, <3>3, NextAttemptTyped, DaemonConstants DEF RecordAttempt
      <4>2. record'[p] = Compute(s) /\ Current(s)
        BY <1>0, <2>1, <3>1, <3>3, SnapshotTyped DEF Current
      <4>3. CASE SucceedWithoutMatch(s)
        BY <4>1, <4>2, <4>3, SnapshotTyped DEF SucceedWithoutMatch, MatchesNothing
      <4>4. CASE Succeed(s)
        <5>1. taken' = [taken EXCEPT ![s.order] = @ \cup {decision[s.order].fields}]
          BY <4>2, <4>4 DEF Succeed, TakeIn
        <5>2. record'[p].fields \in taken'[p]
          BY <1>0, <3>3, <4>2, <5>1, SnapshotTyped
        <5> QED
          BY <4>1, <5>2
      <4> QED
        BY <2>6, <4>3, <4>4
    <3> QED
      BY <3>2, <3>3
  <2> QED
    BY <1>3, <2>5, <2>6
    DEF Run, RaiseEvaluation, SkipDuplicate, Fail, FailUnrecorded, FailRefused, dbVars
<1>4. CASE CrashAnywhere
  <2>1. /\ UNCHANGED <<updated, record, attempts>>
        /\ UNCHANGED inWms \/ (\E s \in batch : Submits(s) /\ TakeIn(s))
    BY <1>4 DEF CrashAnywhere, MayTakeIn, Crash, Restart, dbVars, wmsVars
  <2>2. taken[p] \subseteq taken'[p]
    <3>1. CASE UNCHANGED inWms
      BY <3>1 DEF inWms
    <3> QED
      BY <2>1, <3>1, TakeInTyped
  <2> QED
    BY <1>0, <2>1, <2>2
<1>5. ASSUME NEW o \in Orders, ChangeDecision(o), UNCHANGED dbVars PROVE Goal
  BY <1>2, <1>5 DEF ChangeDecision, vars, wmsVars, inWms, dbVars
<1>6. CASE Publish
  BY <1>2, <1>6 DEF Publish, vars, wmsVars, inWms
<1>7. CASE Poll \/ EndPolling
  BY <1>2, <1>7, PollCases DEF dbVars, inWms
<1>8. CASE UNCHANGED <<updated, pc, batch, crashes>> /\ UNCHANGED daemonVars
  BY <1>2, <1>8 DEF daemonVars, dbVars, inWms
<1> QED
  BY <1>1, <1>3, <1>4, <1>5, <1>6, <1>7, <1>8, StepCases

-----------------------------------------------------------------------------
\* The inductive invariant holds: the types of Polling come from DaemonPolls, the
\* rest step by step.
THEOREM DaemonInvariance == DaemonSpec => []DaemonInvariant
<1>1. DaemonInit /\ TypeOK => DaemonInvariant
  <2> SUFFICES ASSUME DaemonInit, TypeOK PROVE DaemonInvariant
    OBVIOUS
  <2>1. DaemonTypeOK
    BY DaemonConstants DEF DaemonInit, Init, DaemonTypeOK
  <2>2. TablesTyped /\ BatchIsAhead
    BY DEF DaemonInit, Init, TablesTyped, BatchIsAhead
  <2>3. /\ \A o \in Orders : applied[o] = 0 /\ record[o] = NoRecord
        /\ crashes = 0 /\ failures = 0 /\ changes = 0
    BY DEF DaemonInit, Init
  <2>4. EnrichmentsCounted
    <3> SUFFICES ASSUME NEW o \in Orders
                 PROVE  applied[o] <= (IF record[o] = Present(o) THEN 1 ELSE 0)
                                          + crashes + failures + changes
      BY DEF EnrichmentsCounted
    <3> DEFINE b == IF record[o] = Present(o) THEN 1 ELSE 0
    <3>1. b \in Nat
      OBVIOUS
    <3> HIDE DEF b
    <3>2. applied[o] <= b + crashes + failures + changes
      BY <2>3, <3>1
    <3> QED
      BY <3>2 DEF b
  <2>5. RecordIsOfPresentVersion
    BY <2>3 DEF RecordIsOfPresentVersion
  <2> QED
    BY <2>1, <2>2, <2>4, <2>5 DEF DaemonInvariant
<1>2. TypeOK /\ TypeOK' /\ DaemonInvariant /\ [DaemonNext]_allVars => DaemonInvariant'
  BY DaemonTypeStep, TablesStep, BatchStep, CountStep, PresentStep DEF DaemonInvariant
<1>3. DaemonSpec => []TypeOK
  BY DaemonPolls, TypeCorrect, PTL
<1> QED
  BY <1>1, <1>2, <1>3, PTL DEF DaemonSpec

\* The types of the worker's memory and of the tables: the record is never ahead
\* of the order.
THEOREM DaemonTypeCorrect == DaemonSpec => []DaemonTypeOK
<1>1. DaemonInvariant => DaemonTypeOK
  BY DEF DaemonInvariant
<1> QED
  BY <1>1, DaemonInvariance, PTL

\* Each version of an order is enriched once (process_order.py:46-51), and once
\* more at most for each end of the process, each run that failed and each time
\* the rules came to another decision on it: the poll that returns the order
\* again and again, restarts, and updates in the middle of a cycle add nothing.
THEOREM EachVersionOnce == DaemonSpec => []EnrichedOnce
<1>1. DaemonInvariant => EnrichedOnce
  <2> SUFFICES ASSUME DaemonInvariant, NEW o \in Orders
               PROVE  applied[o] <= 1 + crashes + failures + changes
    BY DEF EnrichedOnce
  <2>1. applied[o] \in Nat /\ crashes \in Nat /\ failures \in Nat /\ changes \in Nat
    BY DaemonConstants DEF DaemonInvariant, DaemonTypeOK, TypeOK
  <2> QED
    BY <2>1 DEF DaemonInvariant, EnrichmentsCounted
<1> QED
  BY <1>1, DaemonInvariance, PTL

\* A record of the present version of an order has left an attempt, and its
\* fields have reached the WMS or are none (persist_processing_result.py:34-42,
\* process_order.py:54-64), so that no enrichment is skipped that was never sent.
THEOREM RecordIsOfPresent == DaemonSpec => []RecordIsOfPresentVersion
<1>1. DaemonInvariant => RecordIsOfPresentVersion
  BY DEF DaemonInvariant
<1> QED
  BY <1>1, DaemonInvariance, PTL
=============================================================================
