--------------------------- MODULE HttpRetryProofs ---------------------------
(***************************************************************************)
(* HttpRetry implements SubmitCall and sleeps no longer than its pauses    *)
(* allow, for every number of attempts and every limit of the pauses.      *)
(***************************************************************************)
EXTENDS HttpRetry, FiniteSetTheorems, TLAPS

\* What the refinement needs of TypeOK: the pauses play no part in it.
RequestsTyped ==
    /\ pc \in {"send", "wait", "returned", "raised"}
    /\ attempt \in 1 .. MaxAttempts
    /\ wire \cup taken \subseteq Sent

\* A failed request is the last one, or another attempt begins.
LEMMA RetryStep ==
    ASSUME RequestsTyped, pc = "wait", RetryOrRaise
    PROVE  \/ attempt = MaxAttempts /\ pc' = "raised" /\ attempt' = attempt
           \/ attempt < MaxAttempts /\ pc' = "send" /\ attempt' = attempt + 1
<1>1. attempt \in 1 .. MaxAttempts /\ MaxAttempts \in Nat
  BY RetryAssumption DEF RequestsTyped
<1>2. CASE attempt = MaxAttempts
  BY <1>2 DEF RetryOrRaise
<1>3. CASE attempt # MaxAttempts
  <2>1. pc' = "send" /\ attempt' = attempt + 1
    BY <1>3 DEF RetryOrRaise
  <2> QED
    BY <1>1, <1>3, <2>1
<1> QED
  BY <1>2, <1>3

\* The set of requests sent does not change while the call waits for an answer
\* or gives up waiting for one.
LEMMA SentKept ==
    ASSUME RequestsTyped, pc = "wait", RetryOrRaise
    PROVE  Sent' = Sent
<1>1. attempt \in Int
  BY RetryAssumption DEF RequestsTyped
<1>2. CASE pc' = "raised" /\ attempt' = attempt
  BY <1>2 DEF Sent
<1>3. CASE pc' = "send" /\ attempt' = attempt + 1
  <2>1. attempt' - 1 = attempt
    BY <1>1, <1>3
  <2> QED
    BY <1>3, <2>1 DEF Sent
<1> QED
  BY <1>2, <1>3, RetryStep

LEMMA TypedStep == RequestsTyped /\ [Next]_vars => RequestsTyped'
<1> SUFFICES ASSUME RequestsTyped, [Next]_vars PROVE RequestsTyped'
  OBVIOUS
<1>1. CASE Send
  <2>1. Sent \cup {attempt} \subseteq Sent'
    BY <1>1, RetryAssumption DEF Send, Sent, RequestsTyped
  <2> QED
    BY <1>1, <2>1 DEF Send, RequestsTyped
<1>2. CASE Succeed \/ Refuse \/ BrokenAnswer
  <2>1. Sent' = Sent
    BY <1>2 DEF Succeed, Refuse, BrokenAnswer, Sent
  <2> QED
    BY <1>2, <2>1 DEF Succeed, Refuse, BrokenAnswer, RequestsTyped
<1>3. CASE ServerError \/ NoAnswer
  <2>1. pc = "wait" /\ RetryOrRaise /\ UNCHANGED <<wire, taken>>
    BY <1>3 DEF ServerError, NoAnswer
  <2>2. Sent' = Sent
    BY <2>1, SentKept
  <2>3. pc' \in {"send", "raised"} /\ attempt' \in 1 .. MaxAttempts
    BY <2>1, RetryStep, RetryAssumption DEF RequestsTyped
  <2> QED
    BY <2>1, <2>2, <2>3 DEF RequestsTyped
<1>4. CASE Arrive
  <2>1. Sent' = Sent
    BY <1>4 DEF Arrive, Sent
  <2> QED
    BY <1>4, <2>1 DEF Arrive, RequestsTyped
<1>5. CASE UNCHANGED vars
  BY <1>5 DEF vars, RequestsTyped, Sent
<1> QED
  BY <1>1, <1>2, <1>3, <1>4, <1>5 DEF Next, ClientStep

\* Every step of the retry loop is a step of the call or leaves it alone.
LEMMA CallStep == RequestsTyped /\ [Next]_vars => [Call!Next]_(Call!vars)
<1> SUFFICES ASSUME RequestsTyped, [Next]_vars
             PROVE  Call!Next \/ UNCHANGED <<Outcome, Sent, wire, taken>>
  BY DEF Call!vars
<1> DEFINE Requests == 1 .. MaxAttempts
<1>1. CASE Send
  <2>1. attempt \in Requests \ Sent
    BY <1>1, RetryAssumption DEF Send, Sent, RequestsTyped
  <2>2. Sent' = Sent \cup {attempt}
    <3>1. \A n \in Int : n \in 1 .. attempt <=> n \in 1 .. (attempt - 1) \/ n = attempt
      BY <2>1
    <3> QED
      BY <1>1, <2>1, <3>1 DEF Send, Sent
  <2>3. Outcome = "open" /\ Outcome' = "open"
    BY <1>1 DEF Send, Outcome
  <2>4. wire' = wire \cup {attempt} /\ UNCHANGED taken
    BY <1>1 DEF Send
  <2> QED
    BY <2>1, <2>2, <2>3, <2>4 DEF Call!Next, Call!Send
<1>2. CASE Succeed
  <2>1. Outcome = "open" /\ Outcome' = "returned" /\ taken # {}
    BY <1>2 DEF Succeed, Outcome
  <2>2. UNCHANGED <<Sent, wire, taken>>
    BY <1>2 DEF Succeed, Sent
  <2> QED
    BY <2>1, <2>2 DEF Call!Next, Call!Return
<1>3. CASE Refuse \/ BrokenAnswer
  <2>1. Outcome = "open" /\ Outcome' = "raised"
    BY <1>3 DEF Refuse, BrokenAnswer, Outcome
  <2>2. UNCHANGED <<Sent, taken>> /\ wire' \in SUBSET wire
    BY <1>3 DEF Refuse, BrokenAnswer, Sent
  <2> QED
    BY <2>1, <2>2 DEF Call!Next, Call!Raise
<1>4. CASE ServerError \/ NoAnswer
  <2>1. pc = "wait" /\ RetryOrRaise /\ UNCHANGED <<wire, taken>>
    BY <1>4 DEF ServerError, NoAnswer
  <2>2. Sent' = Sent
    BY <2>1, SentKept
  <2>3. Outcome = "open"
    BY <2>1 DEF Outcome
  <2>4. CASE pc' = "raised"
    <3>1. Outcome' = "raised" /\ wire' \in SUBSET wire
      BY <2>1, <2>4 DEF Outcome
    <3> QED
      BY <2>1, <2>2, <2>3, <3>1 DEF Call!Next, Call!Raise
  <2>5. CASE pc' = "send"
    <3>1. Outcome' = Outcome
      BY <2>1, <2>5 DEF Outcome
    <3> QED
      BY <2>1, <2>2, <3>1
  <2> QED
    BY <2>1, <2>4, <2>5, RetryStep
<1>5. CASE Arrive
  <2>1. UNCHANGED <<Outcome, Sent>>
    BY <1>5 DEF Arrive, Outcome, Sent
  <2> QED
    BY <1>5, <2>1 DEF Arrive, Call!Next, Call!Arrive
<1>6. CASE UNCHANGED vars
  BY <1>6 DEF vars, Outcome, Sent
<1> QED
  BY <1>1, <1>2, <1>3, <1>4, <1>5, <1>6 DEF Next, ClientStep

\* A call of _request with its retries (retry_policy.py:17-29,
\* manhattan_simulator_client.py:54-82) returns only when the WMS has taken a
\* request in, and sends none once it has ended.
THEOREM CallImplemented == Spec => ImplementsSubmitCall
<1>1. Init => RequestsTyped
  BY RetryAssumption DEF Init, RequestsTyped, Sent
<1>2. Init => Call!Init
  BY DEF Init, Call!Init, Outcome, Sent
<1> QED
  BY <1>1, <1>2, TypedStep, CallStep, PTL DEF Spec, Call!Spec, ImplementsSubmitCall

-----------------------------------------------------------------------------
\* A call has slept once for each attempt after the first; a request is either
\* on its way or taken in.
PausesBounded ==
    /\ slept \in 0 .. (attempt - 1) * MaxDelay
    /\ wire \cap taken = {}

\* Powers of two are natural: they count the sets of naturals up to a bound.
LEMMA PowerIsNatural == ASSUME NEW n \in Nat PROVE 2 ^ n \in Nat
<1>1. IsFiniteSet(1 .. n) /\ Cardinality(1 .. n) = n
  BY FS_Interval
<1>2. IsFiniteSet(SUBSET (1 .. n)) /\ Cardinality(SUBSET (1 .. n)) = 2 ^ n
  BY <1>1, FS_SUBSET
<1> QED
  BY <1>2, FS_CardinalityType

\* A pause is a time, and no longer than the limit.
LEMMA DelayBounded ==
    ASSUME RequestsTyped, NEW jitter \in 0 .. 1
    PROVE  Delay(jitter) \in 0 .. MaxDelay
<1>1. attempt - 1 \in Nat /\ MaxDelay \in Nat
  BY RetryAssumption DEF RequestsTyped
<1> DEFINE power == 2 ^ (attempt - 1)
<1>2. power \in Nat
  BY <1>1, PowerIsNatural
<1>3. Delay(jitter) = IF power + jitter > MaxDelay THEN MaxDelay ELSE power + jitter
  BY DEF Delay
<1> HIDE DEF power
<1> QED
  BY <1>1, <1>2, <1>3

\* Time for some pauses is time for one more of the same length.
LEMMA OneMorePause ==
    ASSUME NEW n \in Nat, NEW d \in Nat
    PROVE  n * d \in Nat /\ (n + 1) * d = n * d + d
  OBVIOUS

\* With each pause there is one attempt more.
LEMMA PauseStep == RequestsTyped /\ PausesBounded /\ [Next]_vars => PausesBounded'
<1> SUFFICES ASSUME RequestsTyped, PausesBounded, [Next]_vars PROVE PausesBounded'
  OBVIOUS
<1>0. attempt \in Nat /\ attempt - 1 \in Nat /\ MaxDelay \in Nat
  BY RetryAssumption DEF RequestsTyped
<1>1. CASE Send
  <2>1. attempt \notin taken
    BY <1>0, <1>1 DEF Send, RequestsTyped, Sent
  <2> QED
    BY <1>1, <2>1 DEF Send, PausesBounded
<1>2. CASE Succeed \/ Refuse \/ BrokenAnswer \/ Arrive \/ UNCHANGED vars
  BY <1>2 DEF Succeed, Refuse, BrokenAnswer, Arrive, vars, PausesBounded
<1>3. CASE ServerError \/ NoAnswer
  <2>1. RetryOrRaise /\ UNCHANGED <<wire, taken>>
    BY <1>3 DEF ServerError, NoAnswer
  <2>2. CASE attempt = MaxAttempts
    BY <2>1, <2>2 DEF RetryOrRaise, PausesBounded
  <2>3. CASE attempt # MaxAttempts
    <3>1. PICK jitter \in 0 .. 1 : slept' = slept + Delay(jitter)
      BY <2>1, <2>3 DEF RetryOrRaise
    <3>2. Delay(jitter) \in 0 .. MaxDelay
      BY DelayBounded
    <3>3. attempt' = attempt + 1
      BY <2>1, <2>3 DEF RetryOrRaise
    <3> DEFINE n == attempt - 1
    <3>4. attempt' - 1 = n + 1
      BY <1>0, <3>3
    <3>5. n * MaxDelay \in Nat /\ (n + 1) * MaxDelay = n * MaxDelay + MaxDelay
      BY <1>0, OneMorePause
    <3>6. slept \in 0 .. n * MaxDelay
      BY DEF PausesBounded
    <3> HIDE DEF n
    <3>7. slept' \in 0 .. (n + 1) * MaxDelay
      BY <1>0, <3>1, <3>2, <3>5, <3>6
    <3> QED
      BY <2>1, <3>4, <3>7 DEF PausesBounded
  <2> QED
    BY <2>2, <2>3
<1> QED
  BY <1>1, <1>2, <1>3 DEF Next, ClientStep

\* More pauses take no less time.
LEMMA FewerPauses ==
    ASSUME NEW m \in Nat, NEW n \in Nat, m <= n, NEW d \in Nat
    PROVE  m * d <= n * d
  OBVIOUS

\* The types of a call: requests are not taken in before they are sent, and what
\* the daemon sleeps in one call (retry_policy.py:27-29) is bounded by the number
\* of attempts and the limit of a pause.
THEOREM TypeCorrect == Spec => []TypeOK
<1>1. Init => RequestsTyped /\ PausesBounded
  BY RetryAssumption DEF Init, RequestsTyped, PausesBounded, Sent
<1>2. RequestsTyped /\ PausesBounded => TypeOK
  <2> SUFFICES ASSUME RequestsTyped, PausesBounded PROVE TypeOK
    OBVIOUS
  <2>1. /\ attempt - 1 \in Nat /\ MaxAttempts - 1 \in Nat /\ MaxDelay \in Nat
        /\ attempt - 1 <= MaxAttempts - 1
    BY RetryAssumption DEF RequestsTyped
  <2> DEFINE most == (MaxAttempts - 1) * MaxDelay
             some == (attempt - 1) * MaxDelay
  <2>2. some <= most /\ some \in Int /\ most \in Int
    BY <2>1, FewerPauses
  <2>3. slept \in 0 .. some
    BY DEF PausesBounded
  <2> HIDE DEF most, some
  <2>4. slept \in 0 .. most
    BY <2>2, <2>3
  <2> QED
    BY <2>4 DEF TypeOK, RequestsTyped, PausesBounded, Sent, most
<1> QED
  BY <1>1, <1>2, TypedStep, PauseStep, PTL DEF Spec
=============================================================================
