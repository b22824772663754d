--------------------------- MODULE OrderProcessing ---------------------------
(***************************************************************************)
(* ProcessOrderForEnrichmentUseCase with the use cases it calls: what one  *)
(* or several daemon processes do to the database and to the external WMS  *)
(* for every order they have fetched.                                      *)
(*                                                                         *)
(* A daemon is single threaded; two of them overlap during a rolling       *)
(* update (the Deployment names no strategy).  Every `with uow` block is a *)
(* database transaction of its own, so the other daemon, the WMS and a     *)
(* crash can come between any two of them.  Rules are data here: an        *)
(* evaluation yields any decision.  Polling is abstracted to "fetch the    *)
(* current version of some orders" (Polling.tla has the watermark).        *)
(***************************************************************************)
EXTENDS Naturals, FiniteSets, Repositories

CONSTANTS
    Daemons,                 \* daemon processes that run at the same time
    Orders,                  \* orders of the WMS
    LongIds,                 \* those whose id makes a message_id of over 120 characters
    Fields,                  \* what matching rules can put into enriched_fields
    NoFields,                \* the empty enriched_fields
    NoRow,                   \* no row in processed_orders
    NoJob,                   \* the daemon handles no order
    MaxProcessingAttempts,   \* settings.max_processing_attempts
    MaxVersion,              \* bound: updates of an order by the WMS
    MaxFetched,              \* bound: order snapshots fetched, in total
    MaxCrashes,              \* bound: daemon crashes, in total
    MaxFaults                \* bound: commits that raise for an external reason

\* EnrichmentHashService.compute: SHA-256 over order id, updated_at and fields.
Compute(o, v, f) == [order |-> o, version |-> v, fields |-> f]

AllFields == Fields \cup {NoFields}
Hashes == [order : Orders, version : Nat, fields : AllFields]
ProcessedRows == [hash : Hashes, corr : Nat]
Jobs == [order : Orders, version : Nat, corr : Nat, number : Nat,
         matched : BOOLEAN, fields : AllFields, loaded : ProcessedRows \cup {NoRow}]

ASSUME ConstantsAssumption ==
    /\ IsFiniteSet(Orders)
    /\ LongIds \subseteq Orders
    /\ MaxProcessingAttempts \in Nat \ {0}
    /\ {MaxVersion, MaxFetched, MaxCrashes, MaxFaults} \subseteq Nat
    /\ NoRow \notin ProcessedRows
    /\ NoJob \notin Jobs

VARIABLES
    version,      \* WMS: [Orders -> Nat], the order's updated_at
    applied,      \* WMS: enrichments it has taken in
    late,         \* requests the daemon has given up that may still arrive
    attempts,     \* table processing_attempts
    processed,    \* table processed_orders
    outbox,       \* table outbox_messages
    deadLetters,  \* table dead_letter_items
    pc,           \* daemon: where it is in execute()
    batch,        \* daemon: snapshots fetched and not yet handled
    job,          \* daemon: the local variables of execute()
    runs,         \* correlation ids handed out so far
    fetched,      \* snapshots fetched so far
    crashes,      \* crashes so far
    faults        \* commits that raised for an external reason so far

wmsVars    == <<version, applied, late>>
dbVars     == <<attempts, processed, outbox, deadLetters>>
memVars    == <<pc, batch, job>>
boundVars  == <<fetched, crashes, faults>>
vars == <<wmsVars, dbVars, memVars, runs, boundVars>>

-----------------------------------------------------------------------------
\* What an evaluation returns: has_matches and enriched_fields.  A rule may
\* match and contribute nothing, when NoFields \in Fields.
Decisions == [matched : {TRUE}, fields : Fields]
                \cup {[matched |-> FALSE, fields |-> NoFields]}

JobHash(j) == Compute(j.order, j.version, j.fields)

\* How session.commit() ends: it returns, it raises and nothing is stored, or
\* it raises although the database has stored the transaction.  A transaction
\* that violates a key or cannot be encoded is always rolled back.
CommitOutcomes(storable) ==
    IF ~storable THEN {"rolled_back"}
    ELSE {"committed"} \cup IF faults < MaxFaults THEN {"rolled_back", "ack_lost"} ELSE {}
Stored(outcome) == outcome # "rolled_back"
Raised(outcome) == outcome # "committed"

\* outbox_messages refuses a key it has, and one that does not fit the column:
\* "outbox-", a uuid, "-" and an order id of up to 80 characters.
MessageRefused(o, id) == o \in LongIds \/ MessageConflict(outbox, id)

CountFault(storable, outcome) ==
    faults' = IF storable /\ Raised(outcome) THEN faults + 1 ELSE faults

Goto(d, label) == pc' = [pc EXCEPT ![d] = label]
\* Mutant of Leave: the local variables outlive the call.
Leave_KeepsJob(d) == pc' = [pc EXCEPT ![d] = "idle"] /\ UNCHANGED job

\* execute() is left, by return or by exception, and run_once turns to the
\* next order.
Leave(d) ==
    /\ pc' = [pc EXCEPT ![d] = "idle"]
    /\ job' = [job EXCEPT ![d] = NoJob]

Init ==
    /\ version = [o \in Orders |-> 0]
    /\ applied = {}
    /\ late = {}
    /\ attempts = {}
    /\ processed = [o \in Orders |-> NoRow]
    /\ outbox = {}
    /\ deadLetters = {}
    /\ pc = [d \in Daemons |-> "idle"]
    /\ batch = [d \in Daemons |-> {}]
    /\ job = [d \in Daemons |-> NoJob]
    /\ runs = 0
    /\ fetched = 0
    /\ crashes = 0
    /\ faults = 0

-----------------------------------------------------------------------------
\* The WMS changes an order; its updated_at moves on.
UpdateOrder(o) ==
    /\ version[o] < MaxVersion
    /\ version' = [version EXCEPT ![o] = @ + 1]
    /\ UNCHANGED <<applied, late, dbVars, memVars, runs, boundVars>>

\* Mutant of Fetch: new orders join those of an unfinished batch.
Fetch_KeepsLeftovers(d) ==
    /\ pc[d] = "idle"
    /\ \E S \in SUBSET Orders :
         /\ fetched + Cardinality(S) <= MaxFetched
         /\ fetched' = fetched + Cardinality(S)
         /\ batch' = [batch EXCEPT ![d] =
                        @ \cup {[order |-> o, version |-> version[o]] : o \in S}]
    /\ UNCHANGED <<wmsVars, dbVars, pc, job, runs, crashes, faults>>

\* A polling cycle begins: the list of fetched orders, possibly empty.
Fetch(d) ==
    /\ pc[d] = "idle"
    /\ batch[d] = {}
    /\ \E S \in SUBSET Orders :
         /\ fetched + Cardinality(S) <= MaxFetched
         /\ fetched' = fetched + Cardinality(S)
         /\ batch' = [batch EXCEPT ![d] =
                        {[order |-> o, version |-> version[o]] : o \in S}]
    /\ UNCHANGED <<wmsVars, dbVars, pc, job, runs, crashes, faults>>

\* execute() begins: a fresh correlation id, and the attempt number read in a
\* transaction that ends at once.
Start(d) ==
    /\ pc[d] = "idle"
    /\ \E s \in batch[d] :
         /\ batch' = [batch EXCEPT ![d] = @ \ {s}]
         /\ job' = [job EXCEPT ![d] =
              [order |-> s.order, version |-> s.version, corr |-> runs + 1,
               number |-> GetNextAttemptNumber(attempts, s.order),
               matched |-> FALSE, fields |-> NoFields, loaded |-> NoRow]]
    /\ runs' = runs + 1
    /\ Goto(d, "evaluate")
    /\ UNCHANGED <<wmsVars, dbVars, boundVars>>

\* A read transaction or the evaluation of an ill-formed rule raises: nothing
\* of the run is recorded.
RaiseBeforeSubmit(d) ==
    /\ pc[d] = "evaluate"
    /\ Leave(d)
    /\ UNCHANGED <<wmsVars, dbVars, batch, runs, boundVars>>

\* The decision is taken and the idempotency record is read in one step: the
\* evaluation touches nothing that is shared.
Evaluated(d, dec) == [job[d] EXCEPT !.matched = dec.matched, !.fields = dec.fields]
\* Mutant of IsDuplicate: compares correlation ids in place of hashes.
IsDuplicate_ByRun(j) ==
    processed[j.order] # NoRow /\ processed[j.order].corr = j.corr

IsDuplicate(j) ==
    processed[j.order] # NoRow /\ processed[j.order].hash = JobHash(j)

SkipDuplicate(d) ==
    /\ pc[d] = "evaluate"
    /\ \E dec \in Decisions : IsDuplicate(Evaluated(d, dec))
    /\ Leave(d)
    /\ UNCHANGED <<wmsVars, dbVars, batch, runs, boundVars>>

DecideNoMatch(d) ==
    /\ pc[d] = "evaluate"
    /\ \E dec \in Decisions :
         /\ ~dec.matched
         /\ ~IsDuplicate(Evaluated(d, dec))
         /\ job' = [job EXCEPT ![d] = Evaluated(d, dec)]
    /\ Goto(d, "stage")
    /\ UNCHANGED <<wmsVars, dbVars, batch, runs, boundVars>>

DecideMatch(d) ==
    /\ pc[d] = "evaluate"
    /\ \E dec \in Decisions :
         /\ dec.matched
         /\ ~IsDuplicate(Evaluated(d, dec))
         /\ job' = [job EXCEPT ![d] = Evaluated(d, dec)]
    /\ Goto(d, "submit")
    /\ UNCHANGED <<wmsVars, dbVars, batch, runs, boundVars>>

-----------------------------------------------------------------------------
\* POST .../enrichment.  A 2xx answer means that the WMS has taken the
\* enrichment in.  An exception (timeout, transport error, any other status,
\* after all the retries) says nothing: a request may still be on its way.
Accepted(j) == [order |-> j.order, corr |-> j.corr, hash |-> JobHash(j)]

SubmitReturns(d) ==
    /\ pc[d] = "submit"
    /\ applied' = applied \cup {Accepted(job[d])}
    /\ Goto(d, "stage")
    /\ UNCHANGED <<version, late, dbVars, batch, job, runs, boundVars>>

\* Mutant of SubmitRaises: the exception is swallowed.
SubmitRaises_Swallowed(d) ==
    /\ pc[d] = "submit"
    /\ late' \in {late, late \cup {Accepted(job[d])}}
    /\ Goto(d, "stage")
    /\ UNCHANGED <<version, applied, dbVars, batch, job, runs, boundVars>>

\* Mutant of SubmitRaises: the exception leaves execute() at once.
SubmitRaises_NotRecorded(d) ==
    /\ pc[d] = "submit"
    /\ late' \in {late, late \cup {Accepted(job[d])}}
    /\ Leave(d)
    /\ UNCHANGED <<version, applied, dbVars, batch, runs, boundVars>>

SubmitRaises(d) ==
    /\ pc[d] = "submit"
    /\ late' \in {late, late \cup {Accepted(job[d])}}
    /\ Goto(d, "persist_failure")
    /\ UNCHANGED <<version, applied, dbVars, batch, job, runs, boundVars>>

\* The WMS takes in a request whose sender has already given up.
LateArrival ==
    /\ \E e \in late : /\ applied' = applied \cup {e}
                      /\ late' = late \ {e}
    /\ UNCHANGED <<version, dbVars, memVars, runs, boundVars>>

-----------------------------------------------------------------------------
\* PersistProcessingResultUseCase.execute(success=True), first half: the
\* processed_orders row is loaded into the session.
StageSuccess(d) ==
    /\ pc[d] = "stage"
    /\ job' = [job EXCEPT ![d].loaded = processed[job[d].order]]
    /\ Goto(d, "commit_success")
    /\ UNCHANGED <<wmsVars, dbVars, batch, runs, boundVars>>

\* Mutant of SuccessEvent: one event for both kinds of success.
SuccessEvent_IgnoresMatch(j) == "OrderEnrichmentSucceeded"

SuccessEvent(j) == IF j.matched THEN "OrderEnrichmentSucceeded" ELSE "NoRulesMatched"

\* Second half: flush and commit of the three tables.  If it raises, a run
\* with matches falls into the except branch; a run without is abandoned.
CommitSuccess(d) ==
    /\ pc[d] = "commit_success"
    /\ LET j == job[d]
           id == RunMessageId(j.corr, j.order)
           storable == /\ ~MessageRefused(j.order, id)
                       /\ ~ProcessedConflict(processed, j.order, j.loaded, NoRow)
       IN \E outcome \in CommitOutcomes(storable) :
            /\ CountFault(storable, outcome)
            /\ IF Stored(outcome)
               THEN /\ attempts' = SaveAttempt(attempts, j.order, j.corr, j.number, "SUCCESS")
                    /\ processed' = SaveProcessed(processed, j.order, j.loaded, NoRow,
                                                  JobHash(j), j.corr)
                    /\ outbox' = Enqueue(outbox, id, j.order,
                                         "OrderEnrichmentSucceeded", SuccessEvent(j))
               ELSE UNCHANGED <<attempts, processed, outbox>>
            /\ IF Raised(outcome) /\ j.matched
               THEN Goto(d, "persist_failure") /\ UNCHANGED job
               ELSE Leave(d)
    /\ UNCHANGED <<wmsVars, deadLetters, batch, runs, fetched, crashes>>

\* The except branch: PersistProcessingResultUseCase.execute(success=False),
\* then the dead letter once the attempt number has reached the maximum.  If
\* the transaction raises, the exception leaves execute() from here.
PersistFailure(d) ==
    /\ pc[d] = "persist_failure"
    /\ LET j == job[d]
           id == RunMessageId(j.corr, j.order)
           storable == ~MessageRefused(j.order, id)
       IN \E outcome \in CommitOutcomes(storable) :
            /\ CountFault(storable, outcome)
            /\ IF Stored(outcome)
               THEN /\ attempts' = SaveAttempt(attempts, j.order, j.corr, j.number, "FAILED")
                    /\ outbox' = Enqueue(outbox, id, j.order,
                                         "OrderEnrichmentFailed", "OrderEnrichmentFailed")
               ELSE UNCHANGED <<attempts, outbox>>
            /\ IF ~Raised(outcome) /\ j.number >= MaxProcessingAttempts
               THEN Goto(d, "dead_letter") /\ UNCHANGED job
               ELSE Leave(d)
    /\ UNCHANGED <<wmsVars, processed, deadLetters, batch, runs, fetched, crashes>>

\* MoveOrderToDeadLetterUseCase.execute with payload {"order": asdict(order)}.
\* Whatever its transaction does, execute() ends with an exception.
MoveOrderToDeadLetter(d) ==
    /\ pc[d] = "dead_letter"
    /\ LET j == job[d]
           storable == JsonEncodable({"str"} \cup OrderLeafTypes)
       IN \E outcome \in CommitOutcomes(storable) :
            /\ CountFault(storable, outcome)
            /\ IF Stored(outcome)
               THEN /\ deadLetters' = deadLetters \cup {[order |-> j.order, corr |-> j.corr]}
                    /\ outbox' = Enqueue(outbox, DeadLetterMessageId(j.corr), j.order,
                                         "OrderMovedToDeadLetter", "OrderMovedToDeadLetter")
               ELSE UNCHANGED <<deadLetters, outbox>>
    /\ Leave(d)
    /\ UNCHANGED <<wmsVars, attempts, processed, batch, runs, fetched, crashes>>

-----------------------------------------------------------------------------
\* The process dies (kill, out of memory, an exception that run_once does not
\* catch) and is started again: its memory is gone, an open transaction is
\* rolled back.
Crash(d) ==
    /\ crashes < MaxCrashes
    /\ crashes' = crashes + 1
    /\ batch' = [batch EXCEPT ![d] = {}]
    /\ Leave(d)
    /\ UNCHANGED <<wmsVars, dbVars, runs, fetched, faults>>

Next ==
    \/ \E o \in Orders : UpdateOrder(o)
    \/ LateArrival
    \/ \E d \in Daemons :
         \/ Fetch(d) \/ Start(d) \/ RaiseBeforeSubmit(d)
         \/ SkipDuplicate(d) \/ DecideNoMatch(d) \/ DecideMatch(d)
         \/ SubmitReturns(d) \/ SubmitRaises(d)
         \/ StageSuccess(d) \/ CommitSuccess(d) \/ PersistFailure(d)
         \/ MoveOrderToDeadLetter(d) \/ Crash(d)

Spec == Init /\ [][Next]_vars

-----------------------------------------------------------------------------
Labels == {"idle", "evaluate", "submit", "stage", "commit_success",
           "persist_failure", "dead_letter"}

Attempts == [order : Orders, corr : Nat, number : Nat, status : Statuses]
RunMessages ==
    [id : [prefix : {"outbox"}, corr : Nat, order : Orders], order : Orders,
     type : {"OrderEnrichmentSucceeded", "OrderEnrichmentFailed"},
     event : {"OrderEnrichmentSucceeded", "NoRulesMatched", "OrderEnrichmentFailed"},
     status : {"PENDING"}]

\* Types of the tables and of the daemons' memory.  A daemon has a job exactly
\* while it is inside execute().  No dead letter ever reaches the database:
\* its payload cannot be encoded, see DeadLetterAfterMaxAttempts.
TypeOK ==
    /\ version \in [Orders -> Nat]
    /\ applied \cup late \subseteq [order : Orders, corr : Nat, hash : Hashes]
    /\ attempts \subseteq Attempts
    /\ processed \in [Orders -> ProcessedRows \cup {NoRow}]
    /\ outbox \subseteq RunMessages
    /\ deadLetters = {}
    /\ pc \in [Daemons -> Labels]
    /\ batch \in [Daemons -> SUBSET [order : Orders, version : Nat]]
    /\ job \in [Daemons -> Jobs \cup {NoJob}]
    /\ \A d \in Daemons : pc[d] = "idle" <=> job[d] = NoJob
    /\ runs \in Nat /\ fetched \in Nat /\ crashes \in Nat /\ faults \in Nat

EventType(status) ==
    IF status = "SUCCESS" THEN "OrderEnrichmentSucceeded" ELSE "OrderEnrichmentFailed"

\* The attempt row of a run and its integration event are written together or
\* not at all, say the same thing, and are written once, even when a commit is
\* stored but raises and the except branch writes the failure of the same run:
\* the outbox primary key is what keeps the second record out.
RunRecordedOnce ==
    /\ \A a, b \in attempts : a.corr = b.corr => a = b
    /\ \A a \in attempts : \E m \in outbox :
         m.id = RunMessageId(a.corr, a.order) /\ m.type = EventType(a.status)
    /\ \A m \in outbox : \E a \in attempts :
         m.id = RunMessageId(a.corr, a.order) /\ m.type = EventType(a.status)

\* The attempt numbers of an order have no gap, whatever crashes, failed
\* commits and overlapping daemons do between reading the next number and
\* storing it; they are what the dead-letter limit counts.
NoAttemptGaps ==
    \A o \in Orders : \A n \in AttemptNumbers(attempts, o) :
        n = 1 \/ (n > 1 /\ n - 1 \in AttemptNumbers(attempts, o))

\* An event OrderEnrichmentSucceeded tells the truth: the WMS has taken in an
\* enrichment of this order that this very run has sent.
SuccessWasApplied ==
    \A m \in outbox : m.event = "OrderEnrichmentSucceeded" =>
        \E e \in applied : e.order = m.order /\ e.corr = m.id.corr

\* A row of processed_orders makes later runs skip the order, so it must be
\* backed: the WMS has an enrichment with that hash (or there was nothing to
\* send), and the run named in the row is a recorded success of that order.
\* Conversely an order with a recorded success has a row.
IdempotencyRecordBacked ==
    \A o \in Orders :
        /\ processed[o] # NoRow =>
             /\ processed[o].hash.fields = NoFields
                  \/ \E e \in applied : e.order = o /\ e.hash = processed[o].hash
             /\ \E a \in attempts : /\ a.order = o
                                    /\ a.corr = processed[o].corr
                                    /\ a.status = "SUCCESS"
        /\ (\E a \in attempts : a.order = o /\ a.status = "SUCCESS") => processed[o] # NoRow

\* Runs whose enrichment is in the WMS, that have ended and have no attempt row.
Unaccounted ==
    {e.corr : e \in {x \in applied : x.order \notin LongIds}} \ ({a.corr : a \in attempts}
        \cup {job[d].corr : d \in {x \in Daemons : job[x] # NoJob}})

\* An enrichment in the WMS has an attempt row, unless its run is still under
\* way, or was cut off by one of the crashes or failed commits there have been.
\* (Orders whose ids are too long are the exception: nothing of theirs can be
\* stored, however often the WMS takes them in.)
AppliedIsAccounted == Cardinality(Unaccounted) <= crashes + faults

\* An attempt number is given to no more runs of an order than there are
\* daemons: each daemon may have read it before the first run with it is
\* stored, and reads a greater one afterwards.
NumbersShared ==
    \A a \in attempts :
        Cardinality({b \in attempts : b.order = a.order /\ b.number = a.number})
            <= Cardinality(Daemons)

-----------------------------------------------------------------------------
\* What holds for a daemon that runs alone (one element in Daemons).

\* Attempt numbers are unique per order: a number read is stored before the
\* next one is read, or lost with its run (NumbersShared says so for one daemon).
UniqueAttemptNumbers ==
    \A a, b \in attempts : a.order = b.order /\ a.number = b.number => a = b

\* Idempotency: what the WMS takes in from a run that is under way is never an
\* enrichment whose hash the idempotency record already holds, also after
\* crashes and lost commit answers.  (A request of an earlier run that arrives
\* late may well be one: only the WMS could refuse it.)
NoRepeatSubmission ==
    [][\A d \in Daemons : \A e \in applied' \ applied :
          job[d] # NoJob /\ job[d].corr = e.corr =>
             processed[e.order] = NoRow \/ processed[e.order].hash # e.hash]_vars

\* The idempotency record never goes back to an older version of the order.
ProcessedNeverRegresses ==
    [][\A o \in Orders : processed[o] # NoRow =>
          /\ processed'[o] # NoRow
          /\ processed'[o].hash.version >= processed[o].hash.version]_vars

-----------------------------------------------------------------------------
\* The invariant the proofs induct on: how the memory of a run under way
\* relates to the tables.

\* Correlation ids belong to one run, and a run to one order.
CorrelationIds ==
    /\ \A a \in attempts : a.corr \in 1 .. runs
    /\ \A d \in Daemons : job[d] # NoJob =>
          /\ job[d].corr \in 1 .. runs
          /\ \A a \in attempts : a.corr = job[d].corr => a.order = job[d].order
          /\ \A x \in Daemons \ {d} : job[x] # NoJob => job[x].corr # job[d].corr

\* The attempt numbers of an order are an interval, and the number a run has
\* read still extends it or falls into it.
AttemptNumbersInterval ==
    /\ \A o \in Orders : \E k \in 0 .. runs : AttemptNumbers(attempts, o) = 1 .. k
    /\ \A d \in Daemons : job[d] # NoJob =>
          /\ job[d].number \in 1 .. runs
          /\ \/ job[d].number = 1
             \/ job[d].number - 1 \in AttemptNumbers(attempts, job[d].order)

\* A run that is about to record a success has something to show for it, and
\* a row of processed_orders that a run has loaded is still there.
SuccessJustified ==
    \A d \in Daemons :
        /\ pc[d] = "submit" => job[d].matched
        /\ pc[d] \in {"stage", "commit_success"} =>
              IF job[d].matched THEN Accepted(job[d]) \in applied
                                ELSE job[d].fields = NoFields
        /\ job[d] # NoJob /\ job[d].loaded # NoRow => processed[job[d].order] # NoRow

\* The inductive invariant as a whole.
InductiveInvariant ==
    /\ TypeOK
    /\ CorrelationIds
    /\ AttemptNumbersInterval
    /\ SuccessJustified
    /\ RunRecordedOnce
    /\ SuccessWasApplied
    /\ IdempotencyRecordBacked

-----------------------------------------------------------------------------
Ledger == INSTANCE RunLedger WITH events <- outbox, records <- processed

\* The use cases, with all their crashes, faults, retries of runs and daemons
\* side by side, do to the tables and to the WMS only what the ledger allows.
ImplementsRunLedger == Ledger!Spec

-----------------------------------------------------------------------------
\* What process_order.py:98-105 is there for: a failed attempt whose number
\* has reached the maximum leaves a dead letter, once its run has ended (in a
\* system without crashes and database faults).
DeadLetterAfterMaxAttempts ==
    \A a \in attempts :
        /\ a.status = "FAILED"
        /\ a.number >= MaxProcessingAttempts
        /\ \A d \in Daemons : job[d] # NoJob => job[d].corr # a.corr
        => \E x \in deadLetters : x.order = a.order /\ x.corr = a.corr
=============================================================================
