-------------------------------- MODULE Daemon --------------------------------
(***************************************************************************)
(* The run-daemon command: one process that takes turns between a polling  *)
(* cycle (Polling) and a publishing cycle, with what processing an order   *)
(* of the batch does to the tables and to the WMS (OrderProcessing, one    *)
(* step per order here, as one daemon is alone with its database).         *)
(*                                                                         *)
(* The composition is about the same order coming back: the poll includes  *)
(* the watermark, a restart begins without one, and only the idempotency   *)
(* record tells a new order from one that was done.  The record holds a    *)
(* hash of the version and of what the rules made of it, and the rules     *)
(* change meanwhile: by an edit, the end of their validity or of the       *)
(* cache's TTL, or another order of rules of equal priority.               *)
(***************************************************************************)
EXTENDS Polling, Sequences

CONSTANTS
    Fields,                 \* what matching rules can put into enriched_fields
    NoFields,               \* the empty enriched_fields
    Decisions,              \* order -> the decisions that its rules may come to
    NoRecord,               \* no row in processed_orders
    Unevaluable,            \* orders that have a rule that raises, at times
    Refused,                \* orders whose enrichment the WMS refuses (4xx)
    OutboxBatch,            \* batch_size of OutboxPublisherWorker.run_once
    MaxMishaps,             \* bound: failed runs, changed decisions, crashes, together
    AttemptCap              \* bound: attempt numbers told apart

\* has_matches and enriched_fields.  A rule may match and contribute nothing,
\* when NoFields \in Fields.
AllDecisions == [matched : {TRUE}, fields : Fields]
                   \cup {[matched |-> FALSE, fields |-> NoFields]}
Hashes == [updatedAt : Nat, fields : Fields \cup {NoFields}]

ASSUME DaemonAssumption ==
    /\ Decisions \in [Orders -> SUBSET AllDecisions]
    /\ NoRecord \notin Hashes
    /\ Unevaluable \cup Refused \subseteq Orders
    /\ {OutboxBatch, AttemptCap} \subseteq Nat \ {0}
    /\ MaxMishaps \in Nat

VARIABLES
    turn,       \* the loop: "poll" or "publish"
    decision,   \* what the rules make of each order now
    attempts,   \* processing_attempts: the largest number of each order
    record,     \* processed_orders: the hash of each order
    pending,    \* outbox_messages: PENDING events, the oldest first
    applied,    \* history: how often the WMS took in the present version
    taken,      \* history: the enriched_fields that it took in
    changes,    \* changes of a decision on a version so far
    handled,    \* history: orders processed since their last update
    failures    \* runs that failed for another reason so far

dbVars == <<attempts, record, pending>>
inWms == <<applied, taken>>
daemonVars == <<turn, decision, dbVars, inWms, changes, handled, failures>>
allVars == <<vars, daemonVars>>

DaemonInit ==
    /\ Init
    /\ turn = "poll"
    /\ attempts = [o \in Orders |-> 0]
    /\ decision \in [Orders -> AllDecisions] /\ \A o \in Orders : decision[o] \in Decisions[o]
    /\ record = [o \in Orders |-> NoRecord]
    /\ pending = <<>>
    /\ applied = [o \in Orders |-> 0]
    /\ taken = [o \in Orders |-> {}]
    /\ changes = 0
    /\ handled = {}
    /\ failures = 0

MayMishap == crashes + failures + changes < MaxMishaps

\* An update makes a new version of the order, which the rules may see in
\* another way, unless updated_at has not moved since the one before.
NewVersion(o) ==
    /\ applied' = [applied EXCEPT ![o] = 0]
    /\ taken' = [taken EXCEPT ![o] = {}]
    /\ \E d \in Decisions[o] : decision' = [decision EXCEPT ![o] = d]

Update(o) ==
    /\ UpdateOrder(o)
    /\ IF updated[o] = time THEN UNCHANGED <<decision, inWms>> ELSE NewVersion(o)
    /\ handled' = handled \ {o}
    /\ UNCHANGED changes

\* The rules come to another decision on an order.
ChangeDecision(o) ==
    /\ MayMishap
    /\ changes' = changes + 1
    /\ \E d \in Decisions[o] \ {decision[o]} : decision' = [decision EXCEPT ![o] = d]
    /\ UNCHANGED <<vars, inWms, handled>>

\* The clock, the WMS and those who maintain the rules.
World ==
    /\ \/ Tick /\ UNCHANGED <<decision, inWms, changes, handled>>
       \/ \E o \in Orders : Update(o) \/ ChangeDecision(o)
    /\ UNCHANGED <<turn, dbVars, failures>>

\* The worker's turn begins, and the answer comes or raises (Polling).
Poll ==
    /\ turn = "poll"
    /\ BeginCycle \/ PollReturns \/ PollRaises
    /\ UNCHANGED daemonVars

-----------------------------------------------------------------------------
\* One order of the batch.  What the WMS takes in is an enrichment of the
\* snapshot; it counts for the order if that is still its version.
Current(s) == updated[s.order] = s.updatedAt
NextAttempt(o) == IF attempts[o] < AttemptCap THEN attempts[o] + 1 ELSE AttemptCap
TakeIn(s) ==
    IF Current(s)
    THEN /\ applied' = [applied EXCEPT ![s.order] = @ + 1]
         /\ taken' = [taken EXCEPT ![s.order] = @ \cup {decision[s.order].fields}]
    ELSE UNCHANGED inWms
Done(s) == handled' = IF Current(s) THEN handled \cup {s.order} ELSE handled

\* Mutant of RecordAttempt: the attempt is not saved.
RecordAttempt_EventOnly(s) ==
    /\ UNCHANGED attempts
    /\ pending' = Append(pending, [order |-> s.order, number |-> NextAttempt(s.order)])

\* persist_processing_result: the attempt and its event, in one transaction.
RecordAttempt(s) ==
    /\ attempts' = [attempts EXCEPT ![s.order] = NextAttempt(s.order)]
    /\ pending' = Append(pending, [order |-> s.order, number |-> NextAttempt(s.order)])

\* The hash over what was fetched and what the rules make of it.  (A snapshot
\* that an update has overtaken is decided as the present version is; nothing
\* below depends on its fields.)
Compute(s) == [updatedAt |-> s.updatedAt, fields |-> decision[s.order].fields]

\* Mutant of Remember: the version is read when the result is stored.
Remember_Latest(s) ==
    record' = [record EXCEPT ![s.order] = [Compute(s) EXCEPT !.updatedAt = updated[s.order]]]

\* processed_orders gets the hash that was computed before the submission.
Remember(s) == record' = [record EXCEPT ![s.order] = Compute(s)]

\* Mutant of AlreadyDone: the record is not looked at.
AlreadyDone_Never(s) == FALSE

AlreadyDone(s) == record[s.order] = Compute(s)

\* The runs that store a result without a submission, and those with one.
MatchesNothing(s) == ~AlreadyDone(s) /\ ~decision[s.order].matched
Submits(s) == ~AlreadyDone(s) /\ decision[s.order].matched

\* A submission that gets no answer: the WMS may have taken it in all the same.
MayTakeIn(s) ==
    \/ UNCHANGED inWms
    \/ Submits(s) /\ s.order \notin Refused /\ TakeIn(s)

\* run_once goes on to the next order, however the run of this one has ended.
Turn(s) ==
    /\ HandleOrder(s)
    /\ Done(s)
    /\ UNCHANGED <<turn, decision, changes>>

\* The evaluation comes first.
RaiseEvaluation(s) ==
    /\ s.order \in Unevaluable
    /\ Turn(s)
    /\ UNCHANGED <<dbVars, inWms, failures>>

\* What was done is not submitted again, and leaves no attempt.
SkipDuplicate(s) ==
    /\ AlreadyDone(s)
    /\ Turn(s)
    /\ UNCHANGED <<dbVars, inWms, failures>>

\* No rule matches: a success is stored, and the WMS hears nothing of it.
SucceedWithoutMatch(s) ==
    /\ MatchesNothing(s)
    /\ Turn(s)
    /\ RecordAttempt(s)
    /\ Remember(s)
    /\ UNCHANGED <<inWms, failures>>

\* The WMS takes the enrichment in and the success is stored (the commit may
\* have raised all the same; the failure is then refused by its message_id).
Succeed(s) ==
    /\ Submits(s) /\ s.order \notin Refused
    /\ Turn(s)
    /\ TakeIn(s)
    /\ RecordAttempt(s)
    /\ Remember(s)
    /\ UNCHANGED failures

\* The submission raises, or the success could not be stored: the failure is
\* recorded.
Fail(s) ==
    /\ Submits(s)
    /\ MayMishap
    /\ failures' = failures + 1
    /\ Turn(s)
    /\ MayTakeIn(s)
    /\ RecordAttempt(s)
    /\ UNCHANGED record

\* A transaction of the run raises and nothing is stored: what it reads, the
\* result without a match, or the record of the failure.
FailUnrecorded(s) ==
    /\ MayMishap
    /\ failures' = failures + 1
    /\ Turn(s)
    /\ MayTakeIn(s)
    /\ UNCHANGED dbVars

\* The WMS refuses each enrichment of the order.
FailRefused(s) ==
    /\ Submits(s) /\ s.order \in Refused
    /\ Turn(s)
    /\ RecordAttempt(s)
    /\ UNCHANGED <<record, inWms, failures>>

Run(s) ==
    \/ RaiseEvaluation(s) \/ SkipDuplicate(s) \/ SucceedWithoutMatch(s)
    \/ Succeed(s) \/ Fail(s) \/ FailUnrecorded(s) \/ FailRefused(s)

\* The orders of the batch, one after the other.
Process ==
    /\ turn = "poll"
    /\ \E s \in batch : Run(s)

\* run_once of the polling worker returns.
EndPolling ==
    /\ EndCycle
    /\ turn' = "publish"
    /\ UNCHANGED <<decision, dbVars, inWms, changes, handled, failures>>

\* Mutant of Publish: the newest events first.
Publish_NewestFirst ==
    /\ turn = "publish"
    /\ turn' = "poll"
    /\ LET n == Len(pending) IN
         pending' = IF n > OutboxBatch THEN SubSeq(pending, 1, n - OutboxBatch) ELSE <<>>
    /\ UNCHANGED <<vars, decision, attempts, record, inWms, changes, handled, failures>>

\* run_once of the outbox worker: up to a batch of pending events is settled,
\* the oldest first (OutboxPublisher).
Publish ==
    /\ turn = "publish"
    /\ turn' = "poll"
    /\ pending' = IF Len(pending) > OutboxBatch
                  THEN SubSeq(pending, OutboxBatch + 1, Len(pending)) ELSE <<>>
    /\ UNCHANGED <<vars, decision, attempts, record, inWms, changes, handled, failures>>

\* The process ends anywhere, also between the answer of the WMS to one order
\* of the batch and the transaction that would record it.
CrashAnywhere ==
    /\ MayMishap
    /\ Crash
    /\ turn' = "poll"
    /\ UNCHANGED inWms \/ \E s \in batch : MayTakeIn(s)
    /\ UNCHANGED <<decision, dbVars, changes, handled, failures>>

LoopStep == Poll \/ Process \/ EndPolling \/ Publish

DaemonNext == World \/ LoopStep \/ CrashAnywhere

\* while True (main.py:24): the process takes step after step, and is started
\* again when it ends.
DaemonSpec == DaemonInit /\ [][DaemonNext]_allVars /\ WF_allVars(LoopStep)

-----------------------------------------------------------------------------
\* Types; the worker's memory is that of Polling.  The record is never ahead
\* of the order, nor an event ahead of the attempts.
DaemonTypeOK ==
    /\ TypeOK
    /\ turn \in {"poll", "publish"}
    /\ turn = "publish" => pc = "idle"
    /\ \A o \in Orders : decision[o] \in Decisions[o]
    /\ attempts \in [Orders -> 0 .. AttemptCap]
    /\ \A o \in Orders : record[o] = NoRecord \/ record[o].updatedAt <= updated[o]
    /\ \A i \in DOMAIN pending : pending[i].number <= attempts[pending[i].order]
    /\ applied \in [Orders -> Nat]
    /\ taken \in [Orders -> SUBSET Fields]
    /\ changes \in Nat
    /\ handled \subseteq Orders
    /\ failures \in Nat

\* The poll returns the order at the watermark again and again, and every ready
\* order after a restart.  Still, each version of an order is enriched once,
\* plus once for each crash, each run that failed, and each time the rules came
\* to another decision on it.
EnrichedOnce ==
    \A o \in Orders : applied[o] <= 1 + crashes + failures + changes

\* If the record is of the order's present version, there is an attempt, and the
\* WMS has that enrichment of it, or there was nothing to send.
RecordIsOfPresentVersion ==
    \A o \in Orders : record[o] # NoRecord /\ record[o].updatedAt = updated[o] =>
        /\ attempts[o] > 0
        /\ record[o].fields \in taken[o] \cup {NoFields}

\* Every order that awaits enrichment is processed in its present version, or
\* leaves the list: batches lost to a crash, orders that fail, rules that raise
\* and updates in the middle of a cycle do not change that (when the orders fit
\* into a batch and can be read).
ReadyOrdersAreProcessed ==
    \A o \in Orders : o \in ready \ handled ~> o \notin ready \ handled

Waits(o, n) == \E i \in DOMAIN pending : pending[i].order = o /\ pending[i].number = n

\* No event waits for ever, though an order that fails each time brings another
\* one with every cycle, and no order's event is lost to a crash.  (Events with
\* numbers below the cap, which one event alone has.)
EventsAreSettled ==
    \A o \in Orders, n \in 1 .. AttemptCap - 1 :
        Waits(o, n) ~> ~Waits(o, n)
=============================================================================
