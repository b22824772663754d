------------------------ MODULE OutboxPublisherProofs ------------------------
(***************************************************************************)
(* Proofs about OutboxPublisher, for any number of publishers, messages,   *)
(* cut-off calls and sink faults.                                          *)
(***************************************************************************)
EXTENDS OutboxPublisher, FiniteSetTheorems, TLAPS

\* The steps inside one call, after the messages have been listed.
Publish(p, m, status) ==
    /\ IsNext(p, m)
    /\ todo' = [todo EXCEPT ![p] = @ \ {m}]
    /\ Mark(p, m, status)

\* Statuses that a publisher stages.
LEMMA MarkStages ==
    ASSUME TypeOK, NEW p \in Publishers, NEW m \in Messages,
           NEW s \in {"PUBLISHED", "FAILED"}, Publish(p, m, s)
    PROVE  /\ m \in todo[p]
           /\ \A q \in Publishers : todo'[q] \subseteq todo[q] /\ (q # p => todo'[q] = todo[q])
           /\ m \notin todo'[p]
           /\ \A q \in Publishers : q # p => staged'[q] = staged[q]
           /\ \/ staged'[p] = staged[p] /\ row[m] = s
              \/ staged'[p] = staged[p] \cup {[msg |-> m, status |-> s]}
           /\ todo' \in [Publishers -> SUBSET Messages]
           /\ staged' \in [Publishers -> SUBSET [msg : Messages, status : {"PUBLISHED", "FAILED"}]]
<1>1. m \in todo[p]
  BY DEF Publish, IsNext
<1>2. todo' = [todo EXCEPT ![p] = @ \ {m}]
  BY DEF Publish
<1>3. staged' = IF row[m] = s THEN staged
                ELSE [staged EXCEPT ![p] = @ \cup {[msg |-> m, status |-> s]}]
  BY DEF Publish, Mark
<1>4. [msg |-> m, status |-> s] \in [msg : Messages, status : {"PUBLISHED", "FAILED"}]
  OBVIOUS
<1> QED
  BY <1>1, <1>2, <1>3, <1>4 DEF TypeOK

\* A closed session holds nothing.
LEMMA CloseTyped ==
    ASSUME TypeOK, NEW p \in Publishers, Close(p)
    PROVE  /\ active' = active \ {p}
           /\ todo'[p] = {} /\ staged'[p] = {}
           /\ \A q \in Publishers : q # p => todo'[q] = todo[q] /\ staged'[q] = staged[q]
           /\ todo' \in [Publishers -> SUBSET Messages]
           /\ staged' \in [Publishers -> SUBSET [msg : Messages, status : {"PUBLISHED", "FAILED"}]]
  BY DEF TypeOK, Close

\* What a commit makes of the rows.
LEMMA FlushedRow ==
    ASSUME TypeOK, NEW p \in Publishers, NEW m \in Messages
    PROVE  \/ Flushed(p)[m] = row[m]
           \/ \E w \in staged[p] : w.msg = m /\ Flushed(p)[m] = w.status
<1>1. CASE \E w \in staged[p] : w.msg = m
  <2>1. LET w == CHOOSE w \in staged[p] : w.msg = m
        IN w \in staged[p] /\ w.msg = m /\ Flushed(p)[m] = w.status
    BY <1>1 DEF Flushed
  <2> QED
    BY <2>1
<1>2. CASE ~ \E w \in staged[p] : w.msg = m
  BY <1>2 DEF Flushed
<1> QED
  BY <1>1, <1>2

LEMMA FlushedTyped ==
    ASSUME TypeOK, NEW p \in Publishers
    PROVE  Flushed(p) \in [Messages -> OutboxStatus \cup {"ABSENT"}]
<1>1. \A m \in Messages : Flushed(p)[m] \in OutboxStatus \cup {"ABSENT"}
  <2> TAKE m \in Messages
  <2>1. CASE Flushed(p)[m] = row[m]
    BY <2>1 DEF TypeOK
  <2>2. ASSUME NEW w \in staged[p], Flushed(p)[m] = w.status
        PROVE  Flushed(p)[m] \in OutboxStatus \cup {"ABSENT"}
    <3>1. w.status \in {"PUBLISHED", "FAILED"}
      BY DEF TypeOK
    <3> QED
      BY <2>2, <3>1 DEF OutboxStatus
  <2> QED
    BY <2>1, <2>2, FlushedRow
<1> QED
  BY <1>1 DEF Flushed

LEMMA TypeInit == Init => TypeOK
  BY DEF Init, TypeOK

LEMMA TypeStep == TypeOK /\ [Next]_vars => TypeOK'
<1> SUFFICES ASSUME TypeOK, [Next]_vars PROVE TypeOK'
  OBVIOUS
<1>1. ASSUME NEW m \in Messages, Enqueue(m)
      PROVE  TypeOK'
  <2>1. clock' \in Nat /\ created' \in [Messages -> Nat]
    BY <1>1 DEF Enqueue, TypeOK
  <2>2. row' \in [Messages -> OutboxStatus \cup {"ABSENT"}]
    BY <1>1 DEF Enqueue, TypeOK, OutboxStatus
  <2> QED
    BY <1>1, <2>1, <2>2 DEF Enqueue, TypeOK, sessionVars, sinkVars
<1>2. ASSUME NEW p \in Publishers, ListPending(p)
      PROVE  TypeOK'
  <2>1. PICK S \in OldestPending(BatchSize) : todo' = [todo EXCEPT ![p] = S]
    BY <1>2 DEF ListPending
  <2>2. S \subseteq Messages
    BY DEF OldestPending, Pending
  <2>3. staged[p] = {}
    BY <1>2 DEF ListPending, TypeOK
  <2> QED
    BY <1>2, <2>1, <2>2, <2>3 DEF ListPending, TypeOK, tableVars, sinkVars
<1>3. ASSUME NEW p \in Publishers, NEW m \in Messages, NEW s \in {"PUBLISHED", "FAILED"},
             p \in active, Publish(p, m, s), UNCHANGED <<tableVars, active, aborts>>,
             sent' = [sent EXCEPT ![m] = @ + 1],
             accepted' \in {accepted, accepted \cup {m}}, sinkFaults' \in Nat
      PROVE  TypeOK'
  <2> DEFINE w == [msg |-> m, status |-> s]
  <2>0. w.msg = m
    OBVIOUS
  <2> HIDE DEF w
  <2>1. \/ staged'[p] = staged[p]
        \/ staged'[p] = staged[p] \cup {w}
    BY <1>3, MarkStages DEF w
  <2>2. \A q \in Publishers : q # p => staged'[q] = staged[q] /\ todo'[q] = todo[q]
    BY <1>3, MarkStages
  <2>3. m \in todo[p] /\ m \notin todo'[p] /\ todo'[p] \subseteq todo[p]
    BY <1>3, MarkStages
  <2>4. \A q \in Publishers : \A x, y \in staged'[q] : x.msg = y.msg => x = y
    BY <2>0, <2>1, <2>2, <2>3 DEF TypeOK
  <2>5. \A q \in Publishers : \A x \in staged'[q] : x.msg \notin todo'[q]
    BY <2>0, <2>1, <2>2, <2>3 DEF TypeOK
  <2>6. sent' \in [Messages -> Nat] /\ accepted' \subseteq Messages
    BY <1>3 DEF TypeOK
  <2>7. \A q \in Publishers \ active' : todo'[q] = {} /\ staged'[q] = {}
    BY <1>3, <2>2 DEF TypeOK
  <2>8. todo' \in [Publishers -> SUBSET Messages]
        /\ staged' \in [Publishers -> SUBSET [msg : Messages, status : {"PUBLISHED", "FAILED"}]]
    BY <1>3, MarkStages
  <2> QED
    BY <1>3, <2>4, <2>5, <2>6, <2>7, <2>8 DEF TypeOK, tableVars
<1>4. ASSUME NEW p \in Publishers, PublishReturns(p)
      PROVE  TypeOK'
  <2>1. sinkFaults' \in Nat
    BY <1>4 DEF PublishReturns, TypeOK
  <2> QED
    BY <1>3, <1>4, <2>1 DEF PublishReturns, Publish
<1>5. ASSUME NEW p \in Publishers, PublishRaises(p)
      PROVE  TypeOK'
  <2>1. sinkFaults' \in Nat
    BY <1>5 DEF PublishRaises, TypeOK
  <2> QED
    BY <1>3, <1>5, <2>1 DEF PublishRaises, Publish
<1>6. ASSUME NEW p \in Publishers, Close(p), row' \in {row, Flushed(p)},
             UNCHANGED <<created, clock, sinkVars, sinkFaults>>, aborts' \in Nat
      PROVE  TypeOK'
  <2>1. row' \in [Messages -> OutboxStatus \cup {"ABSENT"}]
    BY <1>6, FlushedTyped DEF TypeOK
  <2> QED
    BY <1>6, <2>1, CloseTyped DEF TypeOK, sinkVars
<1>7. ASSUME NEW p \in Publishers, Commit(p)
      PROVE  TypeOK'
  BY <1>6, <1>7 DEF Commit, TypeOK
<1>8. ASSUME NEW p \in Publishers, Abort(p)
      PROVE  TypeOK'
  <2>1. aborts' \in Nat /\ row' \in {row, Flushed(p)}
    BY <1>8 DEF Abort, TypeOK
  <2> QED
    BY <1>6, <1>8, <2>1 DEF Abort
<1>9. CASE UNCHANGED vars
  BY <1>9 DEF TypeOK, vars, tableVars, sessionVars, sinkVars
<1> QED
  BY <1>1, <1>2, <1>4, <1>5, <1>7, <1>8, <1>9 DEF Next, PublisherStep

-----------------------------------------------------------------------------
\* What publishers hold is backed.

\* A commit marks PUBLISHED only what the sink has taken in.
LEMMA FlushedBacked ==
    ASSUME TypeOK, SessionsBacked, NEW p \in Publishers, NEW m \in Messages
    PROVE  /\ Flushed(p)[m] = "PUBLISHED" => m \in accepted
           /\ row[m] # "ABSENT" => Flushed(p)[m] # "ABSENT"
           /\ Flushed(p)[m] # row[m] =>
                 row[m] # "ABSENT" /\ Flushed(p)[m] \in {"PUBLISHED", "FAILED"}
<1>1. CASE Flushed(p)[m] = row[m]
  BY <1>1 DEF SessionsBacked, PublishedWasAccepted
<1>2. ASSUME NEW w \in staged[p], w.msg = m, Flushed(p)[m] = w.status
      PROVE  /\ Flushed(p)[m] = "PUBLISHED" => m \in accepted
             /\ row[m] # "ABSENT" => Flushed(p)[m] # "ABSENT"
             /\ Flushed(p)[m] # row[m] =>
                   row[m] # "ABSENT" /\ Flushed(p)[m] \in {"PUBLISHED", "FAILED"}
  <2>1. w.status \in {"PUBLISHED", "FAILED"}
    BY DEF TypeOK
  <2> QED
    BY <1>2, <2>1 DEF SessionsBacked
<1> QED
  BY <1>1, <1>2, FlushedRow

LEMMA BackedStep == TypeOK /\ SessionsBacked /\ [Next]_vars => SessionsBacked'
<1> SUFFICES ASSUME TypeOK, SessionsBacked, [Next]_vars PROVE SessionsBacked'
  OBVIOUS
<1> USE DEF SessionsBacked
<1>1. ASSUME NEW m \in Messages, Enqueue(m)
      PROVE  SessionsBacked'
  <2>1. \A n \in Messages : (row[n] # "ABSENT" => row'[n] # "ABSENT")
                             /\ (row'[n] = "PUBLISHED" => row[n] = "PUBLISHED")
    BY <1>1 DEF Enqueue, TypeOK
  <2>2. \A q \in Publishers : todo[q] \subseteq Messages /\ \A w \in staged[q] : w.msg \in Messages
    BY DEF TypeOK
  <2> QED
    BY <1>1, <2>1, <2>2 DEF Enqueue, sessionVars, sinkVars, PublishedWasAccepted
<1>2. ASSUME NEW p \in Publishers, ListPending(p)
      PROVE  SessionsBacked'
  <2>1. PICK S \in OldestPending(BatchSize) : todo' = [todo EXCEPT ![p] = S]
    BY <1>2 DEF ListPending
  <2>2. \A m \in S : row[m] # "ABSENT"
    BY DEF OldestPending, Pending
  <2> QED
    BY <1>2, <2>1, <2>2 DEF ListPending, TypeOK, tableVars, sinkVars, PublishedWasAccepted
<1>3. ASSUME NEW p \in Publishers, NEW m \in Messages, NEW s \in {"PUBLISHED", "FAILED"},
             Publish(p, m, s), UNCHANGED row,
             accepted' \in {accepted, accepted \cup {m}},
             s = "PUBLISHED" => m \in accepted'
      PROVE  SessionsBacked'
  <2> DEFINE w == [msg |-> m, status |-> s]
  <2>0. w.msg = m /\ w.status = s
    OBVIOUS
  <2> HIDE DEF w
  <2>1. staged'[p] = staged[p] \/ staged'[p] = staged[p] \cup {w}
    BY <1>3, MarkStages DEF w
  <2>2. \A q \in Publishers : todo'[q] \subseteq todo[q] /\ (q # p => staged'[q] = staged[q])
    BY <1>3, MarkStages
  <2>3. m \in todo[p] /\ row[m] # "ABSENT"
    BY <1>3, MarkStages
  <2>4. accepted \subseteq accepted'
    BY <1>3
  <2>5. \A q \in Publishers : \A x \in staged'[q] :
          row'[x.msg] # "ABSENT" /\ (x.status = "PUBLISHED" => x.msg \in accepted')
    BY <1>3, <2>0, <2>1, <2>2, <2>3, <2>4
  <2> QED
    BY <1>3, <2>2, <2>4, <2>5 DEF PublishedWasAccepted
<1>4. ASSUME NEW p \in Publishers, PublishReturns(p) \/ PublishRaises(p)
      PROVE  SessionsBacked'
  <2>1. UNCHANGED row
    BY <1>4 DEF PublishReturns, PublishRaises, tableVars
  <2> QED
    BY <1>3, <1>4, <2>1 DEF PublishReturns, PublishRaises, Publish
<1>5. ASSUME NEW p \in Publishers, Commit(p) \/ Abort(p)
      PROVE  SessionsBacked'
  <2>1. row' \in {row, Flushed(p)} /\ Close(p) /\ UNCHANGED accepted
    BY <1>5 DEF Commit, Abort, sinkVars
  <2>2. \A m \in Messages : /\ row'[m] = "PUBLISHED" => m \in accepted
                            /\ row[m] # "ABSENT" => row'[m] # "ABSENT"
    BY <2>1, FlushedBacked DEF PublishedWasAccepted
  <2>3. \A q \in Publishers : todo'[q] \subseteq todo[q] /\ staged'[q] \subseteq staged[q]
    BY <2>1, CloseTyped
  <2>4. \A q \in Publishers : todo[q] \subseteq Messages /\ \A w \in staged[q] : w.msg \in Messages
    BY DEF TypeOK
  <2> QED
    BY <2>1, <2>2, <2>3, <2>4 DEF PublishedWasAccepted
<1>6. CASE UNCHANGED vars
  BY <1>6 DEF vars, tableVars, sessionVars, sinkVars, PublishedWasAccepted
<1> QED
  BY <1>1, <1>2, <1>4, <1>5, <1>6 DEF Next, PublisherStep

\* Tables and sessions keep their types (publish_outbox.py:13-26).
THEOREM TypeCorrect == Spec => []TypeOK
  BY TypeInit, TypeStep, PTL DEF Spec

THEOREM Backed == Spec => []SessionsBacked
<1>1. Init => SessionsBacked
  BY DEF Init, SessionsBacked, PublishedWasAccepted
<1> QED
  BY <1>1, BackedStep, TypeCorrect, PTL DEF Spec

\* No event counts as published that the sink has not taken in, with any number
\* of publishers, cut-off calls and sink faults (publish_outbox.py:18-22).
THEOREM PublishedAreAccepted == Spec => []PublishedWasAccepted
<1>1. SessionsBacked => PublishedWasAccepted
  BY DEF SessionsBacked
<1> QED
  BY <1>1, Backed, PTL

-----------------------------------------------------------------------------
\* The publishers implement event delivery.

LEMMA DeliveryStep ==
    TypeOK /\ SessionsBacked /\ [Next]_vars => [Delivery!Next]_(Delivery!vars)
<1> SUFFICES ASSUME TypeOK, SessionsBacked, [Next]_vars
             PROVE  Delivery!Next \/ UNCHANGED <<row, accepted>>
  BY DEF Delivery!vars
<1>1. ASSUME NEW m \in Messages, Enqueue(m)
      PROVE  Delivery!Next
  BY <1>1 DEF Enqueue, sinkVars, Delivery!Next, Delivery!CommitEvent
<1>2. ASSUME NEW p \in Publishers, PublishReturns(p) \/ PublishRaises(p)
      PROVE  Delivery!Next \/ UNCHANGED <<row, accepted>>
  <2>1. PICK m \in Messages : IsNext(p, m) /\ accepted' \in {accepted, accepted \cup {m}}
    BY <1>2 DEF PublishReturns, PublishRaises
  <2>2. row[m] # "ABSENT" /\ UNCHANGED row
    BY <1>2, <2>1 DEF PublishReturns, PublishRaises, tableVars, IsNext, SessionsBacked
  <2> QED
    BY <2>1, <2>2 DEF Delivery!Next, Delivery!Accept
<1>3. ASSUME NEW p \in Publishers, Commit(p) \/ Abort(p)
      PROVE  Delivery!Next \/ UNCHANGED <<row, accepted>>
  <2>1. row' \in {row, Flushed(p)} /\ UNCHANGED accepted
    BY <1>3 DEF Commit, Abort, sinkVars
  <2>2. CASE row' = Flushed(p)
    <3>1. row' = [m \in Messages |-> row'[m]]
      BY <2>2 DEF Flushed
    <3>2. \A m \in Messages : row'[m] # row[m] =>
             /\ row[m] # "ABSENT"
             /\ row'[m] \in {"PUBLISHED", "FAILED"}
             /\ row'[m] = "PUBLISHED" => m \in accepted
      BY <2>2, FlushedBacked
    <3> QED
      BY <2>1, <3>1, <3>2 DEF Delivery!Next, Delivery!Settle, Delivery!Settled
  <2> QED
    BY <2>1, <2>2
<1>4. ASSUME NEW p \in Publishers, ListPending(p)
      PROVE  UNCHANGED <<row, accepted>>
  BY <1>4 DEF ListPending, tableVars, sinkVars
<1>5. CASE UNCHANGED vars
  BY <1>5 DEF vars, tableVars, sinkVars
<1> QED
  BY <1>1, <1>2, <1>3, <1>4, <1>5 DEF Next, PublisherStep

\* Whatever publishers run, overlap, fail and are cut off, consumers see the
\* behaviour of EventDelivery (publish_outbox.py:13-26).
THEOREM DeliveryImplemented == Spec => ImplementsEventDelivery
<1>1. Init => Delivery!Init
  BY DEF Init, Delivery!Init
<1> QED
  BY <1>1, DeliveryStep, TypeCorrect, Backed, PTL
  DEF Spec, Delivery!Spec, ImplementsEventDelivery

-----------------------------------------------------------------------------
\* The order of delivery, when created_at follows the order of the commits.

\* What a publisher has listed is preceded only by what was sent, or is in the
\* same list; what is settled, or staged, was sent.
ListsAreOldest ==
    /\ \A m \in Messages : created[m] <= clock
    /\ \A m \in Messages : row[m] = "ABSENT" => sent[m] = 0
    /\ \A m \in Messages : row[m] \in {"PUBLISHED", "FAILED"} => sent[m] > 0
    /\ \A p \in Publishers : \A w \in staged[p] : sent[w.msg] > 0
    /\ \A p \in Publishers : \A m \in todo[p], n \in Messages :
          row[n] # "ABSENT" /\ created[n] < created[m] => sent[n] > 0 \/ n \in todo[p]
    /\ OldestFirst

\* A new event is no older than those that are committed.
LEMMA EnqueueKeepsOrder ==
    ASSUME Skew = 0, TypeOK, SessionsBacked, ListsAreOldest,
           NEW m \in Messages, Enqueue(m)
    PROVE  ListsAreOldest'
<1>1. PICK now \in clock .. clock + 1 : \E at \in 0 .. now :
        now <= at + Skew /\ clock' = now /\ created' = [created EXCEPT ![m] = at]
  BY DEF Enqueue, TypeOK
<1>2. clock \in Nat /\ clock' \in Nat /\ clock' >= clock /\ created'[m] = clock'
  BY <1>1 DEF TypeOK
<1>3. \A n \in Messages : n # m => created'[n] = created[n] /\ row'[n] = row[n]
  BY <1>1 DEF Enqueue, TypeOK
<1>4. row[m] = "ABSENT" /\ row'[m] = "PENDING" /\ UNCHANGED <<todo, staged, sent>>
  BY DEF Enqueue, TypeOK, sessionVars, sinkVars
<1>5. \A n \in Messages : created[n] \in Nat /\ created'[n] \in Nat /\ sent[n] \in Nat
  BY <1>2, <1>3 DEF TypeOK
<1>6. \A n \in Messages : created'[n] <= clock'
  BY <1>2, <1>3, <1>5 DEF ListsAreOldest
<1>7. sent[m] = 0
  BY <1>4 DEF ListsAreOldest
<1>8. \A p \in Publishers : \A k \in todo[p] : k \in Messages /\ k # m
  BY <1>4 DEF SessionsBacked, TypeOK
<1>9. \A p \in Publishers : \A k \in todo'[p], n \in Messages :
        row'[n] # "ABSENT" /\ created'[n] < created'[k] => sent'[n] > 0 \/ n \in todo'[p]
  <2> TAKE p \in Publishers
  <2> TAKE k \in todo'[p], n \in Messages
  <2>1. k \in todo[p] /\ k \in Messages /\ k # m /\ created'[k] = created[k]
    BY <1>3, <1>4, <1>8
  <2>2. CASE n = m
    BY <1>2, <1>5, <2>1, <2>2 DEF ListsAreOldest
  <2>3. CASE n # m
    BY <1>3, <1>4, <2>1, <2>3 DEF ListsAreOldest
  <2> QED
    BY <2>2, <2>3
<1>10. OldestFirst'
  <2> SUFFICES ASSUME NEW k \in Messages, NEW n \in Messages,
                      sent'[k] > 0, row'[n] # "ABSENT", created'[n] < created'[k]
               PROVE  sent'[n] > 0
    BY DEF OldestFirst
  <2>1. k # m /\ created'[k] = created[k] /\ sent[k] > 0
    BY <1>3, <1>4, <1>7
  <2>2. n # m
    BY <1>2, <1>5, <2>1 DEF ListsAreOldest
  <2> QED
    BY <1>3, <1>4, <2>1, <2>2 DEF ListsAreOldest, OldestFirst
<1> QED
  BY <1>3, <1>4, <1>6, <1>9, <1>10 DEF ListsAreOldest

\* What is sent next is the oldest of its list.
LEMMA SendKeepsOrder ==
    ASSUME TypeOK, SessionsBacked, ListsAreOldest, NEW p \in Publishers, NEW m \in Messages,
           NEW s \in {"PUBLISHED", "FAILED"}, Publish(p, m, s), UNCHANGED tableVars,
           sent' = [sent EXCEPT ![m] = @ + 1]
    PROVE  ListsAreOldest'
<1> DEFINE w == [msg |-> m, status |-> s]
<1>1. w.msg = m
  OBVIOUS
<1> HIDE DEF w
<1>2. staged'[p] = staged[p] \/ staged'[p] = staged[p] \cup {w}
  BY MarkStages DEF w
<1>3. /\ m \in todo[p]
      /\ \A q \in Publishers : todo'[q] \subseteq todo[q] /\ (q # p => todo'[q] = todo[q])
      /\ \A q \in Publishers : q # p => staged'[q] = staged[q]
  BY MarkStages
<1>4. \A n \in Messages : sent[n] \in Nat /\ sent'[n] \in Nat /\ sent'[n] >= sent[n]
  BY DEF TypeOK
<1>5. sent'[m] > 0 /\ \A n \in Messages : n # m => sent'[n] = sent[n]
  BY DEF TypeOK
<1>6. UNCHANGED <<row, created, clock>>
  BY DEF tableVars
<1>7. row[m] # "ABSENT" /\ todo'[p] = todo[p] \ {m}
  BY <1>3 DEF SessionsBacked, Publish, TypeOK
<1>8. \A q \in Publishers : \A x \in staged'[q] : x.msg \in Messages /\ sent'[x.msg] > 0
  <2>1. \A q \in Publishers : \A x \in staged[q] : x.msg \in Messages /\ sent[x.msg] > 0
    BY DEF TypeOK, ListsAreOldest
  <2> QED
    BY <1>1, <1>2, <1>3, <1>4, <1>5, <2>1
<1>9. \A q \in Publishers : \A k \in todo'[q], n \in Messages :
        row'[n] # "ABSENT" /\ created'[n] < created'[k] => sent'[n] > 0 \/ n \in todo'[q]
  <2> TAKE q \in Publishers
  <2> TAKE k \in todo'[q], n \in Messages
  <2> HAVE row'[n] # "ABSENT" /\ created'[n] < created'[k]
  <2>1. sent[n] > 0 \/ n \in todo[q]
    BY <1>3, <1>6 DEF ListsAreOldest
  <2> QED
    BY <1>3, <1>4, <1>5, <1>7, <2>1
<1>10. OldestFirst'
  <2> SUFFICES ASSUME NEW k \in Messages, NEW n \in Messages,
                      sent'[k] > 0, row'[n] # "ABSENT", created'[n] < created'[k]
               PROVE  sent'[n] > 0
    BY DEF OldestFirst
  <2>1. CASE k = m
    <3>1. \A l \in todo[p] : created[k] <= created[l]
      BY <2>1 DEF Publish, IsNext
    <3>2. created[n] \in Nat /\ created[k] \in Nat
      BY DEF TypeOK
    <3>3. sent[n] > 0
      BY <1>3, <1>6, <2>1, <3>1, <3>2 DEF ListsAreOldest
    <3> QED
      BY <1>4, <3>3
  <2>2. CASE k # m
    BY <1>4, <1>5, <1>6, <2>2 DEF ListsAreOldest, OldestFirst
  <2> QED
    BY <2>1, <2>2
<1> QED
  <2>1. /\ \A n \in Messages : created'[n] <= clock'
        /\ \A n \in Messages : row'[n] = "ABSENT" => sent'[n] = 0
        /\ \A n \in Messages : row'[n] \in {"PUBLISHED", "FAILED"} => sent'[n] > 0
    BY <1>4, <1>5, <1>6, <1>7 DEF ListsAreOldest
  <2> QED
    BY <1>8, <1>9, <1>10, <2>1 DEF ListsAreOldest

\* A list is a page of the oldest that wait.
LEMMA ListingKeepsOrder ==
    ASSUME TypeOK, ListsAreOldest, NEW p \in Publishers, ListPending(p)
    PROVE  ListsAreOldest'
<1>1. PICK S \in OldestPending(BatchSize) : todo' = [todo EXCEPT ![p] = S]
  BY DEF ListPending
<1>2. UNCHANGED <<row, created, clock, staged, sent>>
  BY DEF ListPending, tableVars, sinkVars
<1>3. todo'[p] = S /\ \A q \in Publishers : q # p => todo'[q] = todo[q]
  BY <1>1 DEF TypeOK
<1>4. ASSUME NEW k \in S, NEW n \in Messages, row[n] # "ABSENT", created[n] < created[k]
      PROVE  sent[n] > 0 \/ n \in S
  <2>1. k \in Messages /\ created[k] \in Nat /\ created[n] \in Nat
    BY DEF OldestPending, Pending, TypeOK
  <2>2. CASE row[n] = "PENDING"
    BY <1>4, <2>1, <2>2 DEF OldestPending, Pending
  <2>3. CASE row[n] # "PENDING"
    BY <1>4, <2>3 DEF ListsAreOldest, TypeOK, OutboxStatus
  <2> QED
    BY <2>2, <2>3
<1>5. \A q \in Publishers : \A k \in todo'[q], n \in Messages :
        row'[n] # "ABSENT" /\ created'[n] < created'[k] => sent'[n] > 0 \/ n \in todo'[q]
  BY <1>2, <1>3, <1>4 DEF ListsAreOldest
<1> QED
  BY <1>2, <1>5 DEF ListsAreOldest, OldestFirst

\* A commit settles what was sent.
LEMMA CloseKeepsOrder ==
    ASSUME TypeOK, SessionsBacked, ListsAreOldest, NEW p \in Publishers, Close(p),
           row' \in {row, Flushed(p)}, UNCHANGED <<created, clock, sent>>
    PROVE  ListsAreOldest'
<1>1. \A q \in Publishers : todo'[q] \in {todo[q], {}} /\ staged'[q] \subseteq staged[q]
  BY CloseTyped
<1>2. \A m \in Messages : row'[m] = "ABSENT" <=> row[m] = "ABSENT"
  BY FlushedBacked
<1>3. ASSUME NEW m \in Messages, row'[m] \in {"PUBLISHED", "FAILED"}
      PROVE  sent[m] > 0
  <2>1. row'[m] = row[m] \/ \E w \in staged[p] : w.msg = m
    BY FlushedRow
  <2> QED
    BY <1>3, <2>1 DEF ListsAreOldest
<1> QED
  BY <1>1, <1>2, <1>3 DEF ListsAreOldest, OldestFirst

LEMMA OrderStep ==
    ASSUME Skew = 0
    PROVE  TypeOK /\ SessionsBacked /\ ListsAreOldest /\ [Next]_vars => ListsAreOldest'
<1> SUFFICES ASSUME TypeOK, SessionsBacked, ListsAreOldest, [Next]_vars
             PROVE  ListsAreOldest'
  OBVIOUS
<1>1. ASSUME NEW p \in Publishers, PublishReturns(p) \/ PublishRaises(p)
      PROVE  ListsAreOldest'
  BY <1>1, SendKeepsOrder DEF PublishReturns, PublishRaises, Publish
<1>2. ASSUME NEW p \in Publishers, Commit(p) \/ Abort(p)
      PROVE  ListsAreOldest'
  <2>1. Close(p) /\ row' \in {row, Flushed(p)} /\ UNCHANGED <<created, clock, sent>>
    BY <1>2 DEF Commit, Abort, sinkVars
  <2> QED
    BY <2>1, CloseKeepsOrder
<1>3. CASE UNCHANGED vars
  BY <1>3 DEF vars, tableVars, sessionVars, sinkVars, ListsAreOldest, OldestFirst
<1> QED
  BY <1>1, <1>2, <1>3, EnqueueKeepsOrder, ListingKeepsOrder DEF Next, PublisherStep

\* Any number of publishers with batches of any size, cut off or not, first send
\* the events in the order of created_at, when that follows the order of their
\* commits (outbox_repository_sqlalchemy.py:31-37).
THEOREM OldestIsFirst ==
    ASSUME Skew = 0
    PROVE  Spec => []OldestFirst
<1>1. Init => ListsAreOldest
  BY DEF Init, ListsAreOldest, OldestFirst
<1>2. ListsAreOldest => OldestFirst
  BY DEF ListsAreOldest
<1> QED
  BY <1>1, <1>2, OrderStep, TypeCorrect, Backed, PTL DEF Spec

-----------------------------------------------------------------------------
\* The bound on redelivery, when there are finitely many publishers.

Listing(m) == {p \in Publishers : m \in todo[p]}
Staging(m) == {p \in Publishers : \E w \in staged[p] : w.msg = m}

\* Each time a waiting message was sent, the status is staged or the call was cut
\* off; once the message is settled, only those send it that have it listed.
SendsAreCounted ==
    \A m \in Messages :
        /\ row[m] = "ABSENT" => sent[m] = 0
        /\ row[m] = "PENDING" => sent[m] <= Cardinality(Staging(m)) + aborts
        /\ row[m] \in {"PUBLISHED", "FAILED"} =>
              sent[m] + Cardinality(Listing(m)) <= Cardinality(Publishers) + aborts

\* A publisher that has staged a message's status has it listed no more.
LEMMA PublisherSets ==
    ASSUME IsFiniteSet(Publishers), TypeOK, NEW m \in Messages
    PROVE  /\ IsFiniteSet(Staging(m)) /\ IsFiniteSet(Listing(m))
           /\ Cardinality(Staging(m)) \in Nat /\ Cardinality(Listing(m)) \in Nat
           /\ Cardinality(Publishers) \in Nat
           /\ Cardinality(Staging(m)) + Cardinality(Listing(m)) <= Cardinality(Publishers)
<1>1. Staging(m) \in SUBSET Publishers
  BY DEF Staging
<1>2. Listing(m) \in SUBSET (Publishers \ Staging(m))
  BY DEF Listing, Staging, TypeOK
<1>3. IsFiniteSet(Staging(m)) /\ Publishers \cap Staging(m) = Staging(m)
  BY <1>1, FS_Subset
<1>4. /\ IsFiniteSet(Publishers \ Staging(m))
      /\ Cardinality(Publishers \ Staging(m)) = Cardinality(Publishers) - Cardinality(Staging(m))
  BY <1>3, FS_Difference
<1>5. IsFiniteSet(Listing(m)) /\ Cardinality(Listing(m)) <= Cardinality(Publishers \ Staging(m))
  BY <1>2, <1>4, FS_Subset
<1>6. /\ Cardinality(Staging(m)) \in Nat /\ Cardinality(Listing(m)) \in Nat
      /\ Cardinality(Publishers) \in Nat
  BY <1>3, <1>5, FS_CardinalityType
<1> QED
  BY <1>3, <1>4, <1>5, <1>6

\* One more call of the sink, which is staged, or one listing fewer.
LEMMA SendIsCounted ==
    ASSUME IsFiniteSet(Publishers), TypeOK, SessionsBacked, SendsAreCounted,
           NEW p \in Publishers, NEW m \in Messages, NEW s \in {"PUBLISHED", "FAILED"},
           Publish(p, m, s), UNCHANGED <<row, aborts>>, sent' = [sent EXCEPT ![m] = @ + 1]
    PROVE  SendsAreCounted'
<1> DEFINE w == [msg |-> m, status |-> s]
<1>1. w.msg = m
  OBVIOUS
<1> HIDE DEF w
<1>2. \/ staged'[p] = staged[p] /\ row[m] = s
      \/ staged'[p] = staged[p] \cup {w}
  BY MarkStages DEF w
<1>3. /\ m \in todo[p]
      /\ \A q \in Publishers : q # p => todo'[q] = todo[q] /\ staged'[q] = staged[q]
  BY MarkStages
<1>4. todo'[p] = todo[p] \ {m} /\ \A x \in staged[p] : x.msg # m
  BY <1>3 DEF Publish, TypeOK
<1>5. sent[m] \in Nat /\ sent'[m] = sent[m] + 1 /\ aborts \in Nat
  BY DEF TypeOK
<1>6. ASSUME NEW k \in Messages, k # m
      PROVE  sent'[k] = sent[k] /\ Staging(k)' = Staging(k) /\ Listing(k)' = Listing(k)
  <2>1. sent'[k] = sent[k]
    BY <1>6 DEF TypeOK
  <2>2. \A q \in Publishers : /\ k \in todo'[q] <=> k \in todo[q]
                              /\ (\E x \in staged'[q] : x.msg = k) <=> (\E x \in staged[q] : x.msg = k)
    BY <1>1, <1>2, <1>3, <1>4, <1>6
  <2> QED
    BY <2>1, <2>2 DEF Staging, Listing
<1>7. row[m] # "ABSENT"
  BY <1>3 DEF SessionsBacked
<1>8. CASE row[m] = "PENDING"
  <2>1. Staging(m)' = Staging(m) \cup {p} /\ p \notin Staging(m)
    BY <1>1, <1>2, <1>3, <1>4, <1>8 DEF Staging
  <2>2. Cardinality(Staging(m)') = Cardinality(Staging(m)) + 1
    BY <2>1, PublisherSets, FS_AddElement
  <2>3. sent'[m] <= Cardinality(Staging(m)') + aborts
    BY <1>5, <1>8, <2>2, PublisherSets DEF SendsAreCounted
  <2> QED
    BY <1>6, <1>8, <2>3 DEF SendsAreCounted
<1>9. CASE row[m] \in {"PUBLISHED", "FAILED"}
  <2>1. Listing(m)' = Listing(m) \ {p} /\ p \in Listing(m)
    BY <1>3, <1>4 DEF Listing
  <2>2. Cardinality(Listing(m)') = Cardinality(Listing(m)) - 1
    BY <2>1, PublisherSets, FS_RemoveElement
  <2>3. sent'[m] + Cardinality(Listing(m)') <= Cardinality(Publishers) + aborts
    BY <1>5, <1>9, <2>2, PublisherSets DEF SendsAreCounted
  <2> QED
    BY <1>6, <1>9, <2>3 DEF SendsAreCounted
<1> QED
  BY <1>7, <1>8, <1>9 DEF TypeOK, OutboxStatus

\* A session that ends settles what it has staged, or is one of the calls that
\* were cut off.
LEMMA CloseIsCounted ==
    ASSUME IsFiniteSet(Publishers), TypeOK, SessionsBacked, SendsAreCounted,
           NEW p \in Publishers, Close(p), UNCHANGED sent,
           \/ row' = Flushed(p) /\ aborts' \in {aborts, aborts + 1}
           \/ row' = row /\ aborts' = aborts + 1
    PROVE  SendsAreCounted'
<1> SUFFICES ASSUME NEW k \in Messages
             PROVE  /\ row'[k] = "ABSENT" => sent[k] = 0
                    /\ row'[k] = "PENDING" => sent[k] <= Cardinality(Staging(k)') + aborts'
                    /\ row'[k] \in {"PUBLISHED", "FAILED"} =>
                          sent[k] + Cardinality(Listing(k)') <= Cardinality(Publishers) + aborts'
  BY DEF SendsAreCounted
<1>1. Staging(k)' = Staging(k) \ {p} /\ Listing(k)' = Listing(k) \ {p}
  BY CloseTyped DEF Staging, Listing
<1>2. /\ Cardinality(Staging(k)') \in {Cardinality(Staging(k)), Cardinality(Staging(k)) - 1}
      /\ Cardinality(Listing(k)') \in {Cardinality(Listing(k)), Cardinality(Listing(k)) - 1}
  BY <1>1, PublisherSets, FS_RemoveElement
<1>3. sent[k] \in Nat /\ aborts \in Nat /\ aborts' \in Nat /\ aborts' >= aborts
  BY DEF TypeOK
<1>4. /\ row'[k] = "ABSENT" => row[k] = "ABSENT"
      /\ row'[k] = "PENDING" => row[k] = "PENDING"
      /\ row'[k] \in {"PUBLISHED", "FAILED"} => row[k] # "ABSENT"
  BY FlushedBacked
<1>5. row'[k] = "PENDING" => sent[k] <= Cardinality(Staging(k)') + aborts'
  <2> HAVE row'[k] = "PENDING"
  <2>1. sent[k] <= Cardinality(Staging(k)) + aborts
    BY <1>4 DEF SendsAreCounted
  <2>2. CASE aborts' = aborts + 1
    BY <1>2, <1>3, <2>1, <2>2, PublisherSets
  <2>3. CASE row' = Flushed(p)
    <3>1. \A w \in staged[p] : w.msg = k => Flushed(p)[k] # "PENDING"
      <4> TAKE w \in staged[p]
      <4> HAVE w.msg = k
      <4> DEFINE v == CHOOSE x \in staged[p] : x.msg = k
      <4>1. v \in staged[p] /\ Flushed(p)[k] = v.status
        BY DEF Flushed
      <4> QED
        BY <4>1 DEF TypeOK
    <3>2. p \notin Staging(k)
      BY <2>3, <3>1 DEF Staging
    <3>3. Staging(k)' = Staging(k)
      BY <1>1, <3>2
    <3> QED
      BY <1>3, <2>1, <3>3, PublisherSets
  <2> QED
    BY <2>2, <2>3
<1>6. row'[k] \in {"PUBLISHED", "FAILED"} =>
        sent[k] + Cardinality(Listing(k)') <= Cardinality(Publishers) + aborts'
  <2> HAVE row'[k] \in {"PUBLISHED", "FAILED"}
  <2>1. CASE row[k] = "PENDING"
    BY <1>2, <1>3, <2>1, PublisherSets DEF SendsAreCounted
  <2>2. CASE row[k] \in {"PUBLISHED", "FAILED"}
    BY <1>2, <1>3, <2>2, PublisherSets DEF SendsAreCounted
  <2> QED
    BY <1>4, <2>1, <2>2 DEF TypeOK, OutboxStatus
<1> QED
  BY <1>4, <1>5, <1>6 DEF SendsAreCounted

LEMMA CountStep ==
    ASSUME IsFiniteSet(Publishers)
    PROVE  TypeOK /\ SessionsBacked /\ SendsAreCounted /\ [Next]_vars => SendsAreCounted'
<1> SUFFICES ASSUME TypeOK, SessionsBacked, SendsAreCounted, [Next]_vars
             PROVE  SendsAreCounted'
  OBVIOUS
<1>1. ASSUME NEW m \in Messages, Enqueue(m)
      PROVE  SendsAreCounted'
  <2>1. UNCHANGED <<todo, staged, sent, aborts>>
    BY <1>1 DEF Enqueue, sessionVars, sinkVars
  <2>2. \A k \in Messages : Staging(k)' = Staging(k) /\ Listing(k)' = Listing(k)
    BY <2>1 DEF Staging, Listing
  <2>3. /\ row[m] = "ABSENT" /\ row'[m] = "PENDING"
        /\ \A k \in Messages : k # m => row'[k] = row[k]
    BY <1>1 DEF Enqueue, TypeOK
  <2>4. sent'[m] <= Cardinality(Staging(m)') + aborts'
    BY <2>1, <2>2, <2>3, PublisherSets DEF SendsAreCounted, TypeOK
  <2> QED
    BY <2>1, <2>2, <2>3, <2>4 DEF SendsAreCounted
<1>2. ASSUME NEW p \in Publishers, ListPending(p)
      PROVE  SendsAreCounted'
  <2>1. PICK S \in OldestPending(BatchSize) : todo' = [todo EXCEPT ![p] = S]
    BY <1>2 DEF ListPending
  <2>2. UNCHANGED <<row, staged, sent, aborts>> /\ todo[p] = {}
    BY <1>2 DEF ListPending, tableVars, sinkVars, TypeOK
  <2>3. \A k \in Messages : Staging(k)' = Staging(k)
    BY <2>2 DEF Staging
  <2>4. \A k \in Messages : row[k] \in {"PUBLISHED", "FAILED"} => Listing(k)' = Listing(k)
    BY <2>1, <2>2 DEF Listing, OldestPending, Pending, TypeOK
  <2> QED
    BY <2>2, <2>3, <2>4 DEF SendsAreCounted
<1>3. ASSUME NEW p \in Publishers, PublishReturns(p) \/ PublishRaises(p)
      PROVE  SendsAreCounted'
  <2>1. UNCHANGED <<row, aborts>>
    BY <1>3 DEF PublishReturns, PublishRaises, tableVars
  <2> QED
    BY <1>3, <2>1, SendIsCounted DEF PublishReturns, PublishRaises, Publish
<1>4. ASSUME NEW p \in Publishers, Commit(p) \/ Abort(p)
      PROVE  SendsAreCounted'
  <2>1. /\ Close(p) /\ UNCHANGED sent
        /\ \/ row' = Flushed(p) /\ aborts' \in {aborts, aborts + 1}
           \/ row' = row /\ aborts' = aborts + 1
    BY <1>4 DEF Commit, Abort, sinkVars
  <2> QED
    BY <2>1, CloseIsCounted
<1>5. CASE UNCHANGED vars
  BY <1>5 DEF vars, tableVars, sessionVars, sinkVars, SendsAreCounted, Staging, Listing
<1> QED
  BY <1>1, <1>2, <1>3, <1>4, <1>5 DEF Next, PublisherStep

\* Beyond one call of the sink per publisher, each further one is paid for by a
\* call of the use case that was cut off (publish_outbox.py:13-26).
THEOREM RedeliveryIsBounded ==
    ASSUME IsFiniteSet(Publishers)
    PROVE  Spec => []BoundedRedelivery
<1>1. Init => SendsAreCounted
  BY DEF Init, SendsAreCounted
<1>2. TypeOK /\ SendsAreCounted => BoundedRedelivery
  <2> SUFFICES ASSUME TypeOK, SendsAreCounted, NEW m \in Messages
               PROVE  sent[m] <= Cardinality(Publishers) + aborts
    BY DEF BoundedRedelivery
  <2>1. sent[m] \in Nat /\ aborts \in Nat /\ row[m] \in OutboxStatus \cup {"ABSENT"}
    BY DEF TypeOK
  <2> QED
    BY <2>1, PublisherSets DEF SendsAreCounted, OutboxStatus
<1> QED
  BY <1>1, <1>2, CountStep, TypeCorrect, Backed, PTL DEF Spec

-----------------------------------------------------------------------------
\* One publisher alone.

OnePublisher == \A p, q \in Publishers : p = q

\* What it holds waits in the table.
HeldArePending ==
    \A p \in Publishers :
        /\ \A m \in todo[p] : row[m] = "PENDING"
        /\ \A w \in staged[p] : row[w.msg] = "PENDING"

LEMMA HeldStep ==
    ASSUME OnePublisher
    PROVE  TypeOK /\ HeldArePending /\ [Next]_vars => HeldArePending'
<1> SUFFICES ASSUME TypeOK, HeldArePending, [Next]_vars PROVE HeldArePending'
  OBVIOUS
<1> USE DEF HeldArePending
<1>1. ASSUME NEW m \in Messages, Enqueue(m)
      PROVE  HeldArePending'
  <2>1. \A n \in Messages : row[n] = "PENDING" => row'[n] = "PENDING"
    BY <1>1 DEF Enqueue, TypeOK
  <2>2. \A q \in Publishers : todo[q] \subseteq Messages /\ \A w \in staged[q] : w.msg \in Messages
    BY DEF TypeOK
  <2> QED
    BY <1>1, <2>1, <2>2 DEF Enqueue, sessionVars
<1>2. ASSUME NEW p \in Publishers, ListPending(p)
      PROVE  HeldArePending'
  <2>1. PICK S \in OldestPending(BatchSize) : todo' = [todo EXCEPT ![p] = S]
    BY <1>2 DEF ListPending
  <2>2. \A m \in S : row[m] = "PENDING"
    BY DEF OldestPending, Pending
  <2> QED
    BY <1>2, <2>1, <2>2 DEF ListPending, TypeOK, tableVars
<1>3. ASSUME NEW p \in Publishers, PublishReturns(p) \/ PublishRaises(p)
      PROVE  HeldArePending'
  <2>1. PICK m \in Messages, s \in {"PUBLISHED", "FAILED"} : Publish(p, m, s)
    BY <1>3 DEF PublishReturns, PublishRaises, Publish
  <2>2. UNCHANGED row
    BY <1>3 DEF PublishReturns, PublishRaises, tableVars
  <2> DEFINE w == [msg |-> m, status |-> s]
  <2>3. w.msg = m
    OBVIOUS
  <2> HIDE DEF w
  <2>4. staged'[p] = staged[p] \/ staged'[p] = staged[p] \cup {w}
    BY <2>1, MarkStages DEF w
  <2>5. m \in todo[p] /\ \A q \in Publishers : todo'[q] \subseteq todo[q] /\ (q # p => staged'[q] = staged[q])
    BY <2>1, MarkStages
  <2> QED
    BY <2>2, <2>3, <2>4, <2>5
<1>4. ASSUME NEW p \in Publishers, Commit(p) \/ Abort(p)
      PROVE  HeldArePending'
  <2>1. todo'[p] = {} /\ staged'[p] = {}
    BY <1>4, CloseTyped DEF Commit, Abort
  <2> QED
    BY <2>1 DEF OnePublisher
<1>5. CASE UNCHANGED vars
  BY <1>5 DEF vars, tableVars, sessionVars
<1> QED
  BY <1>1, <1>2, <1>3, <1>4, <1>5 DEF Next, PublisherStep

\* A publisher that runs alone never changes a status that is settled, however
\* its calls end (outbox_repository_sqlalchemy.py:18-44).
THEOREM SettledStays ==
    ASSUME OnePublisher
    PROVE  Spec => SettledIsFinal
<1>1. Init => HeldArePending
  BY DEF Init, HeldArePending
<1>2. ASSUME TypeOK, HeldArePending, [Next]_vars, NEW m \in Messages,
             row[m] \in {"PUBLISHED", "FAILED"}
      PROVE  row'[m] = row[m]
  <2>1. ASSUME NEW p \in Publishers, row' \in {row, Flushed(p)}
        PROVE  row'[m] = row[m]
    <3>1. \A w \in staged[p] : w.msg # m
      BY <1>2 DEF HeldArePending
    <3> QED
      BY <1>2, <2>1, <3>1, FlushedRow
  <2>2. ASSUME NEW p \in Publishers, Commit(p) \/ Abort(p)
        PROVE  row'[m] = row[m]
    <3>1. row' \in {row, Flushed(p)}
      BY <2>2 DEF Commit, Abort
    <3> QED
      BY <2>1, <3>1
  <2>3. ASSUME NEW n \in Messages, Enqueue(n)
        PROVE  row'[m] = row[m]
    BY <1>2, <2>3 DEF Enqueue, TypeOK
  <2>4. ASSUME NEW p \in Publishers,
               ListPending(p) \/ PublishReturns(p) \/ PublishRaises(p)
        PROVE  row'[m] = row[m]
    BY <2>4 DEF ListPending, PublishReturns, PublishRaises, tableVars
  <2>5. CASE UNCHANGED vars
    BY <2>5 DEF vars, tableVars
  <2> QED
    BY <1>2, <2>2, <2>3, <2>4, <2>5 DEF Next, PublisherStep
<1>3. TypeOK /\ HeldArePending /\ [Next]_vars
      => [\A m \in Messages : row[m] \in {"PUBLISHED", "FAILED"} => row'[m] = row[m]]_vars
  BY <1>2
<1> QED
  BY <1>1, <1>3, HeldStep, TypeCorrect, PTL DEF Spec, SettledIsFinal
=============================================================================
