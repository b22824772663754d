--------------------------- MODULE OutboxPublisher ---------------------------
(***************************************************************************)
(* PublishOutboxMessagesUseCase: how the integration events that the       *)
(* daemon has committed to outbox_messages reach the sink.                 *)
(*                                                                         *)
(* A publisher is a process that runs the use case: the daemon calls it    *)
(* once per cycle, the publish-outbox command may run next to it, and two  *)
(* daemons overlap during a rolling update.  One call is one transaction   *)
(* that stays open while the messages are sent one by one; the statuses it *)
(* sets are written by the commit at its end.                              *)
(***************************************************************************)
EXTENDS Naturals, FiniteSets

CONSTANTS
    Publishers,      \* processes that run the use case
    Messages,        \* outbox messages, by message id
    BatchSize,       \* OutboxPublishCommand.batch_size (100 in the worker)
    Skew,            \* how far created_at may lie behind the newest one
    MaxClock,        \* bound: values of created_at
    MaxAborts,       \* bound: calls that are cut off, in total
    MaxSinkFaults    \* bound: sink calls that raise, in total

ASSUME PublisherAssumption ==
    /\ IsFiniteSet(Messages)
    /\ BatchSize \in Nat \ {0}
    /\ {Skew, MaxClock, MaxAborts, MaxSinkFaults} \subseteq Nat

VARIABLES
    row,         \* outbox_messages: [Messages -> status], "ABSENT" is no row
    created,     \* outbox_messages: [Messages -> created_at]
    clock,       \* the newest created_at
    active,      \* publishers inside execute()
    todo,        \* publisher: listed messages it has not sent yet
    staged,      \* publisher: statuses in its session, not yet committed
    sent,        \* sink: how often publish() was called with the message
    accepted,    \* sink: messages it has taken in
    aborts,      \* calls cut off so far
    sinkFaults   \* sink calls that raised so far

tableVars   == <<row, created, clock>>
sessionVars == <<active, todo, staged>>
sinkVars    == <<sent, accepted>>
vars == <<tableVars, sessionVars, sinkVars, aborts, sinkFaults>>

OutboxStatus == {"PENDING", "PUBLISHED", "FAILED"}

Init ==
    /\ row = [m \in Messages |-> "ABSENT"]
    /\ created = [m \in Messages |-> 0]
    /\ clock = 0
    /\ active = {}
    /\ todo = [p \in Publishers |-> {}]
    /\ staged = [p \in Publishers |-> {}]
    /\ sent = [m \in Messages |-> 0]
    /\ accepted = {}
    /\ aborts = 0
    /\ sinkFaults = 0

-----------------------------------------------------------------------------
\* A run of ProcessOrder commits its event.  created_at is the time at which
\* the order's turn began, not the time of the commit: with several daemons, or
\* a clock that is set back, it may lie behind that of committed messages.
Enqueue(m) ==
    /\ row[m] = "ABSENT"
    /\ \E now \in clock .. clock + 1 : \E at \in 0 .. now :
         /\ now <= MaxClock
         /\ at + Skew >= now
         /\ clock' = now
         /\ created' = [created EXCEPT ![m] = at]
    /\ row' = [row EXCEPT ![m] = "PENDING"]
    /\ UNCHANGED <<sessionVars, sinkVars, aborts, sinkFaults>>

\* Mutant of Pending: failed messages are listed again.
Pending_AndFailed == {m \in Messages : row[m] \in {"PENDING", "FAILED"}}

Pending == {m \in Messages : row[m] = "PENDING"}

\* Mutant of OldestPending: no ORDER BY.
OldestPending_Unordered(limit) ==
    {S \in SUBSET Pending :
        /\ Cardinality(S) <= limit
        /\ S # Pending => Cardinality(S) = limit}

\* list_pending(limit): the oldest pending messages; SQL leaves the order of
\* equal created_at open.
OldestPending(limit) ==
    {S \in SUBSET Pending :
        /\ Cardinality(S) <= limit
        /\ S # Pending => Cardinality(S) = limit
        /\ \A m \in S, n \in Pending \ S : created[m] <= created[n]}

ListPending(p) ==
    /\ p \notin active
    /\ Pending # {}
    /\ active' = active \cup {p}
    /\ \E S \in OldestPending(BatchSize) : todo' = [todo EXCEPT ![p] = S]
    /\ UNCHANGED <<tableVars, staged, sinkVars, aborts, sinkFaults>>

\* mark_published and mark_failed load the row again and set its status; a
\* status equal to the loaded one is not part of the UPDATE.
Mark(p, m, status) ==
    staged' = IF row[m] = status THEN staged
              ELSE [staged EXCEPT ![p] = @ \cup {[msg |-> m, status |-> status]}]

\* Mutant of IsNext: messages of the same time wait for each other.
IsNext_Strict(p, m) == m \in todo[p] /\ \A n \in todo[p] \ {m} : created[m] < created[n]

IsNext(p, m) == m \in todo[p] /\ \A n \in todo[p] : created[m] <= created[n]

PublishReturns(p) ==
    /\ p \in active
    /\ \E m \in Messages :
         /\ IsNext(p, m)
         /\ todo' = [todo EXCEPT ![p] = @ \ {m}]
         /\ sent' = [sent EXCEPT ![m] = @ + 1]
         /\ accepted' = accepted \cup {m}
         /\ Mark(p, m, "PUBLISHED")
    /\ UNCHANGED <<tableVars, active, aborts, sinkFaults>>

\* The sink raises: it may have taken the message in all the same.
PublishRaises(p) ==
    /\ p \in active
    /\ sinkFaults < MaxSinkFaults
    /\ sinkFaults' = sinkFaults + 1
    /\ \E m \in Messages :
         /\ IsNext(p, m)
         /\ todo' = [todo EXCEPT ![p] = @ \ {m}]
         /\ sent' = [sent EXCEPT ![m] = @ + 1]
         /\ accepted' \in {accepted, accepted \cup {m}}
         /\ Mark(p, m, "FAILED")
    /\ UNCHANGED <<tableVars, active, aborts>>

\* Mutant of Close: the session is used again by the next call.
Close_KeepsSession(p) == active' = active \ {p} /\ UNCHANGED <<todo, staged>>

\* The session is closed; what it has staged is forgotten.
Close(p) ==
    /\ active' = active \ {p}
    /\ todo' = [todo EXCEPT ![p] = {}]
    /\ staged' = [staged EXCEPT ![p] = {}]

\* Mutants of Flushed: every message sent is marked PUBLISHED; a failed one is
\* marked PENDING; the commit is missing.
Flushed_AllPublished(p) ==
    [m \in Messages |-> IF \E w \in staged[p] : w.msg = m THEN "PUBLISHED" ELSE row[m]]
Flushed_FailedRetried(p) ==
    [m \in Messages |->
        IF [msg |-> m, status |-> "FAILED"] \in staged[p] THEN "PENDING"
        ELSE IF \E w \in staged[p] : w.msg = m THEN "PUBLISHED" ELSE row[m]]
Flushed_Nothing(p) == row

\* The staged statuses become the rows'.
Flushed(p) ==
    [m \in Messages |->
        IF \E w \in staged[p] : w.msg = m
        THEN (CHOOSE w \in staged[p] : w.msg = m).status
        ELSE row[m]]

Commit(p) ==
    /\ p \in active
    /\ todo[p] = {}
    /\ row' = Flushed(p)
    /\ Close(p)
    /\ UNCHANGED <<created, clock, sinkVars, aborts, sinkFaults>>

\* A crash, or a database error, which no one catches: the process ends, and
\* is started again.  A commit may have been stored although it raised.
Abort(p) ==
    /\ p \in active
    /\ aborts < MaxAborts
    /\ aborts' = aborts + 1
    /\ row' \in IF todo[p] = {} THEN {row, Flushed(p)} ELSE {row}
    /\ Close(p)
    /\ UNCHANGED <<created, clock, sinkVars, sinkFaults>>

PublisherStep(p) ==
    ListPending(p) \/ PublishReturns(p) \/ PublishRaises(p) \/ Commit(p)

Next ==
    \/ \E m \in Messages : Enqueue(m)
    \/ \E p \in Publishers : PublisherStep(p) \/ Abort(p)

Spec == Init /\ [][Next]_vars

\* The daemon's loop (main.py:24-27) calls the use case again and again, and a
\* call goes on until it ends.
FairSpec == Spec /\ \A p \in Publishers : WF_vars(PublisherStep(p))

-----------------------------------------------------------------------------
\* Types.  A publisher works only inside execute(), and stages one status per
\* message.
TypeOK ==
    /\ row \in [Messages -> OutboxStatus \cup {"ABSENT"}]
    /\ created \in [Messages -> Nat]
    /\ clock \in Nat
    /\ active \subseteq Publishers
    /\ todo \in [Publishers -> SUBSET Messages]
    /\ staged \in [Publishers -> SUBSET [msg : Messages, status : {"PUBLISHED", "FAILED"}]]
    /\ \A p \in Publishers : \A w, x \in staged[p] : w.msg = x.msg => w = x
    /\ \A p \in Publishers : \A w \in staged[p] : w.msg \notin todo[p]
    /\ \A p \in Publishers \ active : todo[p] = {} /\ staged[p] = {}
    /\ sent \in [Messages -> Nat]
    /\ accepted \subseteq Messages
    /\ aborts \in Nat /\ sinkFaults \in Nat

\* No event is marked PUBLISHED that the sink has not taken in, whatever
\* publishers run at the same time and however their calls end.
PublishedWasAccepted ==
    \A m \in Messages : row[m] = "PUBLISHED" => m \in accepted

\* At-least-once has a price with a bound: beyond the first time, a message is
\* sent again only by a publisher that had listed it before another one
\* committed, or after a call that was cut off.
BoundedRedelivery ==
    \A m \in Messages : sent[m] <= Cardinality(Publishers) + aborts

\* Events are first sent in the order of created_at, also across the batches
\* of publishers that run at the same time (for producers whose created_at
\* follows the order of their commits: Skew = 0).
OldestFirst ==
    \A m, n \in Messages :
        /\ sent[m] > 0
        /\ row[n] # "ABSENT"
        /\ created[n] < created[m]
        => sent[n] > 0

\* A publisher that runs alone never changes the status of a message that has
\* been settled; two of them can turn PUBLISHED into FAILED and back.
SettledIsFinal ==
    [][\A m \in Messages : row[m] \in {"PUBLISHED", "FAILED"} => row'[m] = row[m]]_vars

\* Every committed event is settled in the end, however small the batches are.
EveryMessageSettles ==
    \A m \in Messages : row[m] = "PENDING" ~> row[m] \in {"PUBLISHED", "FAILED"}

Delivery == INSTANCE EventDelivery

\* To those who consume the events, publishers that overlap, fail and are cut
\* off look like a sink that gets events after their commit and rows that are
\* settled once and for good, PUBLISHED only with an event in the sink.
ImplementsEventDelivery == Delivery!Spec

\* The invariant the proofs induct on: what a publisher holds is committed, and
\* what it has staged as published has been taken in.
SessionsBacked ==
    /\ \A p \in Publishers : \A m \in todo[p] : row[m] # "ABSENT"
    /\ \A p \in Publishers : \A w \in staged[p] :
          row[w.msg] # "ABSENT" /\ (w.status = "PUBLISHED" => w.msg \in accepted)
    /\ PublishedWasAccepted

\* What README.md:18 promises with "a transactional outbox for reliable
\* publishing": when sink calls fail only finitely often, every event gets out.
EveryMessageIsPublished ==
    \A m \in Messages : row[m] = "PENDING" ~> row[m] = "PUBLISHED"
=============================================================================
