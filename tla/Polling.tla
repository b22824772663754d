------------------------------- MODULE Polling -------------------------------
(***************************************************************************)
(* PollingWorker and EnrichmentFacade.run_once: which orders of the WMS a  *)
(* daemon gets to see.  The worker keeps one value from cycle to cycle,    *)
(* _updated_since, in memory only; the facade asks for at most             *)
(* poll_batch_size orders that are READY_FOR_ENRICHMENT and were updated   *)
(* since then, always with offset 0, and moves the value forward.          *)
(*                                                                         *)
(* What happens to an order it has fetched is OrderProcessing's matter: it *)
(* succeeds or fails here, and the WMS may then take it out of the list.   *)
(***************************************************************************)
EXTENDS Naturals, FiniteSets

CONSTANTS
    Orders,        \* orders of the WMS
    Unparsable,    \* those that _to_order cannot make an ExternalOrder of
    NoTime,        \* None
    BatchSize,     \* settings.poll_batch_size
    SortedByAge,   \* the WMS lists orders by updated_at (else in any order)
    ClockAhead,    \* by how much the daemon's clock is ahead of the WMS's
    MaxTime,       \* bound: clock of the WMS
    MaxUpdates,    \* bound: updates of orders
    MaxCrashes     \* bound: ends of the daemon process

ASSUME PollingAssumption ==
    /\ IsFiniteSet(Orders) /\ Unparsable \subseteq Orders
    /\ BatchSize \in Nat \ {0}
    /\ SortedByAge \in BOOLEAN
    /\ {ClockAhead, MaxTime, MaxUpdates, MaxCrashes} \subseteq Nat
    /\ NoTime \notin Nat

VARIABLES
    time,          \* WMS: its clock
    updated,       \* WMS: updated_at of the orders
    ready,         \* WMS: orders that are READY_FOR_ENRICHMENT
    since,         \* PollingWorker._updated_since
    pc,            \* run_once: "idle", "polling" or "processing"
    started,       \* run_once: clock at its beginning
    batch,         \* run_once: fetched orders not yet handled
    maxUpdatedAt,  \* run_once: max_updated_at
    seen,          \* history: orders fetched since their last update
    firstStart,    \* history: `started` of the process's first cycle
    updates,       \* updates so far
    crashes        \* process ends so far

wmsVars == <<time, updated, ready>>
memVars == <<since, pc, started, batch, maxUpdatedAt, firstStart>>
vars == <<wmsVars, memVars, seen, updates, crashes>>

\* Mutant of Later: the wrong end of the batch.
Later_Min(s, t) == IF s <= t THEN s ELSE t

Later(s, t) == IF s >= t THEN s ELSE t

\* The process begins with no memory; the WMS may have a backlog by then.
Init ==
    /\ time = 1
    /\ updated = [o \in Orders |-> 0]
    /\ ready \in SUBSET Orders
    /\ since = NoTime
    /\ pc = "idle"
    /\ started = 0
    /\ batch = {}
    /\ maxUpdatedAt = 0
    /\ seen = {}
    /\ firstStart = NoTime
    /\ updates = 0
    /\ crashes = 0

-----------------------------------------------------------------------------
Tick ==
    /\ time < MaxTime
    /\ time' = time + 1
    /\ UNCHANGED <<updated, ready, memVars, seen, updates, crashes>>

\* The WMS creates or changes an order that awaits enrichment.
UpdateOrder(o) ==
    /\ updates < MaxUpdates
    /\ updates' = updates + 1
    /\ updated' = [updated EXCEPT ![o] = time]
    /\ ready' = ready \cup {o}
    /\ seen' = seen \ {o}
    /\ UNCHANGED <<time, memVars, crashes>>

-----------------------------------------------------------------------------
\* run_once: the clock is read before the request is sent.
BeginCycle ==
    /\ pc = "idle"
    /\ pc' = "polling"
    /\ started' = time + ClockAhead
    /\ firstStart' = IF firstStart = NoTime THEN started' ELSE firstStart
    /\ UNCHANGED <<wmsVars, since, batch, maxUpdatedAt, seen, updates, crashes>>

\* The orders that GET /api/v1/orders chooses from, for a status and an
\* updated_since.  That it includes orders updated at that very time is an
\* assumption about the WMS: the client only passes the value on.
Candidates == {o \in ready : since = NoTime \/ updated[o] >= since}

\* The answer: at most BatchSize of them, and all of them if they fit.
Pages ==
    {S \in SUBSET Candidates :
        /\ Cardinality(S) <= BatchSize
        /\ S # Candidates => Cardinality(S) = BatchSize
        /\ SortedByAge => \A o \in S, p \in Candidates \ S : updated[o] <= updated[p]}

\* Mutant of FirstWatermark: the clock is read after the answer has come.
FirstWatermark_Now == IF since = NoTime THEN time + ClockAhead ELSE since

\* The watermark a cycle starts from.
FirstWatermark == IF since = NoTime THEN started ELSE since

\* The answer has come and every order of it can be read.
PollReturns ==
    /\ pc = "polling"
    /\ pc' = "processing"
    /\ \E S \in Pages :
         /\ S \cap Unparsable = {}
         /\ batch' = {[order |-> o, updatedAt |-> updated[o]] : o \in S}
         /\ seen' = seen \cup S
    /\ maxUpdatedAt' = FirstWatermark
    /\ UNCHANGED <<wmsVars, since, started, firstStart, updates, crashes>>

\* Mutant of HandleOrder: the loop is left after an order.
HandleOrder_LeavesRest(s) ==
    /\ pc = "processing"
    /\ s \in batch
    /\ batch' = {}
    /\ maxUpdatedAt' = Later(maxUpdatedAt, s.updatedAt)
    /\ ready' \in {ready, ready \ {s.order}}
    /\ UNCHANGED <<time, updated, since, pc, started, firstStart, seen, updates, crashes>>

\* One order of the batch: run_once goes on whether it succeeds or fails.
HandleOrder(s) ==
    /\ pc = "processing"
    /\ s \in batch
    /\ batch' = batch \ {s}
    /\ maxUpdatedAt' = Later(maxUpdatedAt, s.updatedAt)
    /\ ready' \in {ready, ready \ {s.order}}
    /\ UNCHANGED <<time, updated, since, pc, started, firstStart, seen, updates, crashes>>

\* Mutant of EndCycle: the worker remembers the time of the end.
EndCycle_Now ==
    /\ pc = "processing"
    /\ batch = {}
    /\ since' = Later(maxUpdatedAt, time)
    /\ pc' = "idle" /\ started' = 0 /\ maxUpdatedAt' = 0
    /\ UNCHANGED <<wmsVars, batch, firstStart, seen, updates, crashes>>

\* run_once returns, and only now the worker remembers how far it has come.
EndCycle ==
    /\ pc = "processing"
    /\ batch = {}
    /\ since' = maxUpdatedAt
    /\ pc' = "idle" /\ started' = 0 /\ maxUpdatedAt' = 0
    /\ UNCHANGED <<wmsVars, batch, firstStart, seen, updates, crashes>>

\* The process ends and is started again; its memory is gone.
Restart ==
    /\ since' = NoTime
    /\ pc' = "idle"
    /\ batch' = {}
    /\ started' = 0 /\ maxUpdatedAt' = 0
    /\ firstStart' = NoTime
    /\ UNCHANGED <<wmsVars, seen, updates>>

\* One order of the answer cannot be read: no one catches the exception.
PollRaises ==
    /\ pc = "polling"
    /\ \E S \in Pages : S \cap Unparsable # {}
    /\ Restart
    /\ UNCHANGED crashes

\* The process ends for another reason (kill, or an exception of the poll
\* request or of the rule refresh, which nobody catches either).
Crash ==
    /\ crashes < MaxCrashes
    /\ crashes' = crashes + 1
    /\ Restart

HandleOrders == \E s \in batch : HandleOrder(s)

DaemonStep == BeginCycle \/ PollReturns \/ PollRaises \/ HandleOrders \/ EndCycle

Next == Tick \/ (\E o \in Orders : UpdateOrder(o)) \/ DaemonStep \/ Crash

Spec == Init /\ [][Next]_vars

\* The loop of run_daemon (main.py:24-27) goes on for ever.
FairSpec == Spec /\ WF_vars(DaemonStep)

-----------------------------------------------------------------------------
\* Types; the watermark never falls behind the start of the process's first
\* cycle, and a snapshot is never newer than the order.
TypeOK ==
    /\ time \in Nat
    /\ updated \in [Orders -> 0 .. time]
    /\ ready \subseteq Orders /\ seen \subseteq Orders
    /\ since \in Nat \cup {NoTime} /\ firstStart \in Nat \cup {NoTime}
    /\ pc \in {"idle", "polling", "processing"}
    /\ started \in Nat /\ maxUpdatedAt \in Nat
    /\ batch \subseteq [order : Orders, updatedAt : Nat]
    /\ \A s \in batch : s.updatedAt <= updated[s.order]
    /\ since # NoTime => firstStart # NoTime /\ since >= firstStart
    /\ pc # "idle" => firstStart # NoTime /\ started >= firstStart
    /\ pc = "processing" => maxUpdatedAt >= firstStart
    /\ updates \in Nat /\ crashes \in Nat

\* Orders that were never fetched in their present version and that no later
\* poll of this process can return.
Unreachable == {o \in ready \ seen : since # NoTime /\ updated[o] < since}

\* An unreachable order is an old one: it was last updated before the first
\* cycle of this process began, as the daemon's clock has it.  (For a WMS that
\* lists the oldest orders first; its clock may lag behind the daemon's.)
OnlyBacklogIsLost == \A o \in Unreachable : updated[o] < firstStart

\* With room for all the orders in one batch nothing is lost at all: whatever
\* is updated during a cycle comes with a later one (when the clocks agree).
NothingIsLost == Unreachable = {}

\* Every order that awaits enrichment is fetched in the end, also across restarts
\* (when a batch has room for all of them and the clocks agree).
ReadyOrdersAreFetched ==
    \A o \in Orders : o \in ready \ seen ~> o \notin ready \ seen
=============================================================================
