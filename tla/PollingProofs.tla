---------------------------- MODULE PollingProofs ----------------------------
(***************************************************************************)
(* What polling can lose, for any number of orders, any batch size, any    *)
(* number of updates and any number of ends of the process.                *)
(***************************************************************************)
EXTENDS Polling, FiniteSetTheorems, TLAPS

\* Every order fits into a batch, and the clocks agree.
Roomy == Cardinality(Orders) <= BatchSize /\ ClockAhead = 0

\* The orders that polling must keep in reach: all of them when there is room,
\* else those of the time since the process began.
MustKeep(o) == Roomy \/ (firstStart # NoTime /\ updated[o] >= firstStart)

\* No watermark is ahead of the clock of the WMS, unless it is the start of the
\* first cycle; the first cycle has no other start.
WatermarkIsPast ==
    /\ firstStart # NoTime => firstStart <= time + ClockAhead
    /\ since # NoTime => since = firstStart \/ since <= time
    /\ pc = "processing" => maxUpdatedAt = firstStart \/ maxUpdatedAt <= time
    /\ since = NoTime => IF pc = "idle" THEN firstStart = NoTime ELSE started = firstStart
    /\ pc = "processing" /\ since # NoTime => maxUpdatedAt >= since

\* An order not fetched yet is behind neither the watermark nor, during a
\* cycle, what the watermark is about to become.
UnseenIsAhead ==
    \A o \in ready \ seen :
        MustKeep(o) =>
            /\ pc # "processing" /\ since # NoTime => updated[o] >= since
            /\ pc = "processing" => /\ updated[o] >= maxUpdatedAt
                                    /\ \A s \in batch : updated[o] >= s.updatedAt

InReach == TypeOK /\ WatermarkIsPast /\ UnseenIsAhead

-----------------------------------------------------------------------------
\* The constants that the steps compute with.
LEMMA ConstantTypes == /\ ClockAhead \in Nat /\ NoTime \notin Nat
                       /\ BatchSize \in Nat /\ IsFiniteSet(Orders)
  BY PollingAssumption

USE ConstantTypes

\* The types hold when the process begins.
LEMMA InitTyped == Init => TypeOK
  BY DEF Init, TypeOK

\* Every step keeps the types: a cycle begins no earlier than the first one did.
LEMMA TypeStep == TypeOK /\ WatermarkIsPast /\ [Next]_vars => TypeOK'
<1> SUFFICES ASSUME TypeOK, WatermarkIsPast, [Next]_vars PROVE TypeOK'
  OBVIOUS
<1>1. CASE Tick
  BY <1>1, SMTT(30) DEF Tick, TypeOK, memVars
<1>2. ASSUME NEW o \in Orders, UpdateOrder(o) PROVE TypeOK'
  BY <1>2, SMTT(30) DEF UpdateOrder, TypeOK, memVars
<1>3. CASE BeginCycle
  BY <1>3, SMTT(30) DEF BeginCycle, TypeOK, WatermarkIsPast, wmsVars
<1>4. CASE PollReturns
  <2>1. PICK S \in Pages : /\ batch' = {[order |-> o, updatedAt |-> updated[o]] : o \in S}
                           /\ seen' = seen \cup S
    BY <1>4 DEF PollReturns
  <2>2. S \subseteq Orders
    BY <2>1 DEF Pages, Candidates, TypeOK
  <2>3. /\ batch' \subseteq [order : Orders, updatedAt : Nat]
        /\ \A s \in batch' : s.updatedAt <= updated[s.order]
    BY <2>1, <2>2 DEF TypeOK
  <2> QED
    BY <1>4, <2>1, <2>2, <2>3, SMTT(30) DEF PollReturns, FirstWatermark, TypeOK, wmsVars
<1>5. ASSUME NEW s \in batch, HandleOrder(s) PROVE TypeOK'
  BY <1>5, SMTT(30) DEF HandleOrder, Later, TypeOK
<1>6. CASE EndCycle
  BY <1>6, SMTT(30) DEF EndCycle, TypeOK, wmsVars
<1>7. CASE Restart /\ crashes' \in Nat
  BY <1>7, SMTT(30) DEF Restart, TypeOK, wmsVars
<1>8. CASE UNCHANGED vars
  BY <1>8 DEF vars, wmsVars, memVars, TypeOK
<1> QED
  BY <1>1, <1>2, <1>3, <1>4, <1>5, <1>6, <1>7, <1>8
  DEF Next, DaemonStep, HandleOrders, PollRaises, Crash, TypeOK

-----------------------------------------------------------------------------
\* With room for all the orders, the answer has every candidate.
LEMMA PageIsComplete ==
    ASSUME TypeOK, Roomy, NEW S \in Pages PROVE S = Candidates
<1>1. S \subseteq Candidates /\ Candidates \subseteq Orders
  BY DEF Pages, Candidates, TypeOK
<1>2. IsFiniteSet(Candidates) /\ Cardinality(Candidates) <= Cardinality(Orders)
  BY <1>1, FS_Subset
<1>3. /\ S # Candidates => Cardinality(S) < Cardinality(Candidates)
      /\ Cardinality(S) \in Nat /\ Cardinality(Candidates) \in Nat
      /\ Cardinality(Orders) \in Nat
  BY <1>1, <1>2, FS_Subset, FS_CardinalityType
<1> QED
  BY <1>2, <1>3 DEF Pages, Roomy

\* The watermarks stay behind the clock.
LEMMA WatermarkStep ==
    TypeOK /\ WatermarkIsPast /\ [Next]_vars => WatermarkIsPast'
<1> SUFFICES ASSUME TypeOK, WatermarkIsPast, [Next]_vars PROVE WatermarkIsPast'
  OBVIOUS
<1>1. CASE Tick
  BY <1>1, SMTT(30) DEF Tick, TypeOK, WatermarkIsPast, memVars
<1>2. ASSUME NEW o \in Orders, UpdateOrder(o) PROVE WatermarkIsPast'
  BY <1>2, SMTT(30) DEF UpdateOrder, TypeOK, WatermarkIsPast, memVars
<1>3. CASE BeginCycle
  BY <1>3, SMTT(30) DEF BeginCycle, TypeOK, WatermarkIsPast, wmsVars
<1>4. CASE PollReturns
  BY <1>4, SMTT(30) DEF PollReturns, FirstWatermark, TypeOK, WatermarkIsPast, wmsVars
<1>5. ASSUME NEW s \in batch, HandleOrder(s) PROVE WatermarkIsPast'
  <2>1. s.updatedAt \in Nat /\ s.updatedAt <= time
    BY DEF TypeOK
  <2> QED
    BY <1>5, <2>1, SMTT(30) DEF HandleOrder, Later, TypeOK, WatermarkIsPast
<1>6. CASE EndCycle
  BY <1>6, SMTT(30) DEF EndCycle, TypeOK, WatermarkIsPast, wmsVars
<1>7. CASE Restart
  BY <1>7, SMTT(30) DEF Restart, TypeOK, WatermarkIsPast, wmsVars
<1>8. CASE UNCHANGED vars
  BY <1>8 DEF vars, wmsVars, memVars, WatermarkIsPast
<1> QED
  BY <1>1, <1>2, <1>3, <1>4, <1>5, <1>6, <1>7, <1>8
  DEF Next, DaemonStep, HandleOrders, PollRaises, Crash

\* Types, and a watermark that never falls behind the start of the first cycle.
THEOREM TypeCorrect == Spec => []TypeOK
<1>1. Init => TypeOK /\ WatermarkIsPast
  BY InitTyped DEF Init, WatermarkIsPast
<1>2. TypeOK /\ WatermarkIsPast /\ [Next]_vars => (TypeOK /\ WatermarkIsPast)'
  BY TypeStep, WatermarkStep
<1> QED
  BY <1>1, <1>2, PTL DEF Spec

-----------------------------------------------------------------------------
\* A page leaves only orders behind that are ahead of all it has.
LEMMA PollStep ==
    ASSUME SortedByAge \/ Roomy, InReach, PollReturns PROVE UnseenIsAhead'
<1>1. PICK S \in Pages : /\ batch' = {[order |-> p, updatedAt |-> updated[p]] : p \in S}
                         /\ seen' = seen \cup S
  BY DEF PollReturns
<1>2. /\ pc = "polling" /\ pc' = "processing"
      /\ maxUpdatedAt' = FirstWatermark
      /\ UNCHANGED <<time, updated, ready, since, started, firstStart>>
  BY DEF PollReturns, wmsVars
<1> SUFFICES ASSUME NEW o \in ready \ seen, o \notin S, MustKeep(o)
             PROVE  /\ updated[o] >= FirstWatermark
                    /\ \A p \in S : updated[o] >= updated[p]
  BY <1>1, <1>2 DEF UnseenIsAhead, MustKeep, Roomy
<1>3. since # NoTime => updated[o] >= since
  BY <1>2 DEF InReach, UnseenIsAhead
<1>4. o \in Candidates
  BY <1>3 DEF Candidates, InReach, TypeOK
<1>5. ~Roomy
  BY <1>4, PageIsComplete DEF InReach
<1>6. updated[o] >= FirstWatermark
  BY <1>2, <1>3, <1>5 DEF FirstWatermark, MustKeep, InReach, WatermarkIsPast
<1>7. \A p \in S : updated[p] <= updated[o]
  BY <1>4, <1>5 DEF Pages
<1>8. S \subseteq Orders /\ o \in Orders
  BY DEF Pages, Candidates, InReach, TypeOK
<1>9. updated \in [Orders -> Nat]
  BY DEF InReach, TypeOK
<1> QED
  BY <1>6, <1>7, <1>8, <1>9

\* Every step keeps what must be kept ahead of the watermark.
LEMMA ReachStep ==
    ASSUME SortedByAge \/ Roomy PROVE InReach /\ [Next]_vars => UnseenIsAhead'
<1> SUFFICES ASSUME InReach, [Next]_vars PROVE UnseenIsAhead'
  OBVIOUS
<1> USE DEF InReach
<1>1. CASE Tick
  BY <1>1 DEF Tick, UnseenIsAhead, MustKeep, Roomy, memVars
<1>2. ASSUME NEW o \in Orders, UpdateOrder(o) PROVE UnseenIsAhead'
  <2> SUFFICES ASSUME NEW p \in ready' \ seen', MustKeep(p)'
               PROVE  /\ pc # "processing" /\ since # NoTime => updated'[p] >= since
                      /\ pc = "processing" => /\ updated'[p] >= maxUpdatedAt
                                              /\ \A s \in batch : updated'[p] >= s.updatedAt
    BY <1>2 DEF UpdateOrder, UnseenIsAhead, memVars
  <2>1. CASE p # o
    BY <1>2, <2>1 DEF UpdateOrder, UnseenIsAhead, MustKeep, Roomy, memVars, TypeOK
  <2>2. CASE p = o
    <3>1. updated'[p] = time
      BY <1>2, <2>2 DEF UpdateOrder, TypeOK
    <3>2. Roomy \/ time >= firstStart
      BY <1>2, <3>1 DEF MustKeep, Roomy, UpdateOrder, memVars
    <3>3. firstStart # NoTime => time >= firstStart
      BY <3>2 DEF Roomy, WatermarkIsPast, TypeOK
    <3>4. \A s \in batch : s.updatedAt <= time
      BY DEF TypeOK
    <3> QED
      BY <3>1, <3>3, <3>4 DEF WatermarkIsPast, TypeOK
  <2> QED
    BY <2>1, <2>2
<1>3. CASE BeginCycle
  BY <1>3 DEF BeginCycle, UnseenIsAhead, MustKeep, Roomy, TypeOK, wmsVars
<1>4. CASE PollReturns
  BY <1>4, PollStep
<1>5. ASSUME NEW s \in batch, HandleOrder(s) PROVE UnseenIsAhead'
  BY <1>5 DEF HandleOrder, Later, UnseenIsAhead, MustKeep, Roomy
<1>6. CASE EndCycle
  BY <1>6 DEF EndCycle, UnseenIsAhead, MustKeep, Roomy, wmsVars
<1>7. CASE Restart
  BY <1>7 DEF Restart, UnseenIsAhead
<1>8. CASE UNCHANGED vars
  BY <1>8 DEF vars, wmsVars, memVars, UnseenIsAhead, MustKeep, Roomy
<1> QED
  BY <1>1, <1>2, <1>3, <1>4, <1>5, <1>6, <1>7, <1>8
  DEF Next, DaemonStep, HandleOrders, PollRaises, Crash

\* The inductive invariant, when the WMS lists the oldest orders first or all
\* orders fit into a batch.
THEOREM ReachIsKept == ASSUME SortedByAge \/ Roomy PROVE Spec => []InReach
<1>1. Init => InReach
  BY InitTyped DEF Init, InReach, WatermarkIsPast, UnseenIsAhead
<1>2. InReach /\ [Next]_vars => InReach'
  BY TypeStep, WatermarkStep, ReachStep DEF InReach
<1> QED
  BY <1>1, <1>2, PTL DEF Spec

\* A WMS that lists the oldest orders first: what no poll can return any more
\* was last updated before the process began.
THEOREM OnlyBacklogLost == ASSUME SortedByAge PROVE Spec => []OnlyBacklogIsLost
<1>1. InReach => OnlyBacklogIsLost
  <2> SUFFICES ASSUME InReach, NEW o \in Unreachable PROVE updated[o] < firstStart
    BY DEF OnlyBacklogIsLost
  <2>1. /\ o \in ready \ seen /\ o \in Orders
        /\ since # NoTime /\ updated[o] < since
    BY DEF Unreachable, InReach, TypeOK
  <2>2. /\ updated[o] \in Nat /\ since \in Nat /\ firstStart \in Nat
        /\ maxUpdatedAt \in Nat
    BY <2>1 DEF InReach, TypeOK
  <2>3. pc = "processing" /\ since # NoTime => maxUpdatedAt >= since
    BY DEF InReach, WatermarkIsPast
  <2> QED
    BY <2>1, <2>2, <2>3 DEF InReach, UnseenIsAhead, MustKeep
<1> QED
  BY <1>1, ReachIsKept, PTL

\* With room for all orders, and clocks that agree, the watermark passes no
\* order by.
THEOREM NothingLost == ASSUME Roomy PROVE Spec => []NothingIsLost
<1>1. InReach => NothingIsLost
  <2> SUFFICES ASSUME InReach, NEW o \in Unreachable PROVE FALSE
    BY DEF NothingIsLost
  <2>1. /\ o \in ready \ seen /\ o \in Orders
        /\ since # NoTime /\ updated[o] < since
    BY DEF Unreachable, InReach, TypeOK
  <2>2. /\ updated[o] \in Nat /\ since \in Nat /\ maxUpdatedAt \in Nat
        /\ pc = "processing" => maxUpdatedAt >= since
    BY <2>1 DEF InReach, TypeOK, WatermarkIsPast
  <2>3. MustKeep(o)
    BY DEF MustKeep
  <2> QED
    BY <2>1, <2>2, <2>3 DEF InReach, UnseenIsAhead, TypeOK
<1> QED
  BY <1>1, ReachIsKept, PTL
=============================================================================
