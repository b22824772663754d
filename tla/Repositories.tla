---------------------------- MODULE Repositories ----------------------------
(***************************************************************************)
(* The rows the daemon keeps in its database and the operations of the     *)
(* SQLAlchemy repositories on them.  A table is a set of rows, or, for     *)
(* processed_orders, a function from its primary key.  An operator takes   *)
(* the committed table and returns what the repository reads from it or    *)
(* the table as it is after the flush.                                     *)
(*                                                                         *)
(* A "run" is one call of ProcessOrderForEnrichmentUseCase.execute; its    *)
(* correlation id (a uuid4) is a number here, never handed out twice.      *)
(***************************************************************************)
EXTENDS Naturals, FiniteSets, FiniteSetsExt

Statuses == {"SUCCESS", "FAILED"}

\* processing_attempts: the attempt numbers of an order.
AttemptNumbers(attempts, o) == {a.number : a \in {b \in attempts : b.order = o}}

\* Mutant of GetNextAttemptNumber: COUNT(*) in place of MAX.
GetNextAttemptNumber_Count(attempts, o) ==
    Cardinality({a \in attempts : a.order = o}) + 1

\* Mutant of GetNextAttemptNumber: the largest number itself.
GetNextAttemptNumber_NoIncrement(attempts, o) ==
    IF AttemptNumbers(attempts, o) = {} THEN 1
    ELSE Max(AttemptNumbers(attempts, o))

\* The largest attempt number plus one, or one when there is no attempt.
GetNextAttemptNumber(attempts, o) ==
    IF AttemptNumbers(attempts, o) = {} THEN 1
    ELSE Max(AttemptNumbers(attempts, o)) + 1

SaveAttempt(attempts, o, c, n, s) ==
    attempts \cup {[order |-> o, corr |-> c, number |-> n, status |-> s]}

\* processed_orders: save() loads the row; an absent row is inserted, a loaded
\* one is updated, and the UPDATE names only the columns whose value differs
\* from the loaded one, so an equal hash leaves whatever the row holds by then.
SaveProcessed(processed, o, loaded, noRow, hash, c) ==
    [processed EXCEPT ![o] =
        [hash |-> IF loaded # noRow /\ loaded.hash = hash THEN @.hash ELSE hash,
         corr |-> c]]

\* A second INSERT under one primary key is refused by the database.
ProcessedConflict(processed, o, loaded, noRow) ==
    loaded = noRow /\ processed[o] # noRow

\* outbox_messages: message ids of a run's result and of its dead letter.
RunMessageId(c, o) == [prefix |-> "outbox", corr |-> c, order |-> o]
DeadLetterMessageId(c) == [prefix |-> "outbox-dead-letter", corr |-> c]

\* Mutant of MessageConflict: the message id is not a key.
MessageConflict_NoKey(outbox, id) == FALSE

MessageConflict(outbox, id) == \E m \in outbox : m.id = id

Enqueue(outbox, id, o, type, event) ==
    outbox \cup {[id |-> id, order |-> o, type |-> type, event |-> event,
                  status |-> "PENDING"]}

\* The JSON columns are written with json.dumps, which knows no datetime.
JsonTypes == {"str", "int", "float", "bool", "NoneType"}
JsonEncodable(leafTypes) == leafTypes \subseteq JsonTypes

\* Python types of the values in asdict(order) of an ExternalOrder.
OrderLeafTypes == JsonTypes \cup {"datetime"}
=============================================================================
