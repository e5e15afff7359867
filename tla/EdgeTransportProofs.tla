------------------------ MODULE EdgeTransportProofs ------------------------
(***************************************************************************)
(* What the transport guarantees for every client policy, every override a *)
(* call may bring, any number of requests and any error statuses.          *)
(***************************************************************************)
EXTENDS EdgeTransport, RetryPoliciesProofs

-----------------------------------------------------------------------------
(* What every request keeps *)

\* The delays that may have been waited before attempt a, or after it.
Allowance(r, a) == a * Policy(r).max_delay_ms

RequestInv(r) ==
    /\ ~Begun(r) =>
          /\ pc[r] \in {"new", "raised"}
          /\ attempt[r] = 0 /\ waited[r] = 0 /\ received[r] = 0
          /\ ~retryable[r]
    /\ Begun(r) =>
          /\ pc[r] # "new"
          /\ 1 <= attempt[r] /\ attempt[r] <= MaxAttempts(Policy(r))
          /\ received[r] <= attempt[r]
          /\ pc[r] = "sending" => received[r] < attempt[r]
          /\ pc[r] = "backoff" =>
                attempt[r] < MaxAttempts(Policy(r)) /\ waited[r] <= Allowance(r, attempt[r])
          /\ pc[r] # "backoff" => waited[r] <= Allowance(r, attempt[r] - 1)
          /\ pc[r] = "raised" /\ retryable[r] => attempt[r] = MaxAttempts(Policy(r))

VariablesTyped ==
    /\ pc \in [Requests -> {"new", "sending", "backoff", "returned", "raised"}]
    /\ override \in [Requests -> RetryOverrides \cup {None}]
    /\ attempt \in [Requests -> Nat]
    /\ waited \in [Requests -> Nat]
    /\ retryable \in [Requests -> BOOLEAN]
    /\ received \in [Requests -> Nat]

TransportInv ==
    /\ VariablesTyped
    /\ \A r \in Requests : RequestInv(r)

\* A request that has begun has a policy.
LEMMA PolicyType ==
    ASSUME NEW r \in Requests, VariablesTyped, Begun(r)
    PROVE  Policy(r) \in EffectiveRetryPolicies
  <1>1. override[r] \in RetryOverrides
    BY DEF VariablesTyped, Begun
  <1>2. ClientOverride \in RetryOverrides
    BY TransportAssumption DEF TransportAssumption
  <1> QED BY <1>1, <1>2, MergedOverride, NormalizedPolicy, RetryAssumption DEF Policy

\* A step of r leaves the other requests as they were.
OthersKept(r) ==
    \A q \in Requests \ {r} :
        /\ pc'[q] = pc[q] /\ override'[q] = override[q] /\ attempt'[q] = attempt[q]
        /\ waited'[q] = waited[q] /\ retryable'[q] = retryable[q]
        /\ received'[q] = received[q]

\* So it is enough to look at r.
LEMMA OneRequest ==
    ASSUME TransportInv, NEW r \in Requests, OthersKept(r),
           VariablesTyped', RequestInv(r)'
    PROVE  TransportInv'
  <1>1. ASSUME NEW q \in Requests, q # r PROVE RequestInv(q)'
    <2>1. RequestInv(q) /\ override'[q] = override[q]
      BY <1>1 DEF TransportInv, OthersKept
    <2>2. Policy(q)' = Policy(q) /\ Begun(q)' = Begun(q)
      BY <2>1 DEF Policy, Begun
    <2> QED BY <1>1, <2>1, <2>2 DEF RequestInv, OthersKept, Allowance
  <1> QED BY <1>1 DEF TransportInv

\* An attempt that fails, whatever the reason, leaves its request either out of
\* attempts or with one more delay behind it.
LEMMA FailureKeeps ==
    ASSUME TransportInv, NEW r \in Requests, NEW again \in BOOLEAN,
           pc[r] = "sending", AttemptFails(r, again),
           NEW seen \in {0, 1}, received' = [received EXCEPT ![r] = @ + seen]
    PROVE  TransportInv'
  <1> DEFINE p == Policy(r)
  <1>1. /\ VariablesTyped /\ RequestInv(r) /\ Begun(r)
        /\ attempt[r] \in Nat \ {0} /\ waited[r] \in Nat /\ received[r] \in Nat
    BY DEF TransportInv, RequestInv, VariablesTyped
  <1>2. p \in EffectiveRetryPolicies /\ p.max_delay_ms \in Nat
    BY <1>1, PolicyType DEF EffectiveRetryPolicies
  <1>3. MaxAttempts(p) \in Nat \ {0}
    BY <1>2, SomeAttempt
  <1>4. Policy(r)' = p /\ Begun(r)' = Begun(r) /\ override' = override
        /\ attempt' = attempt
    BY DEF AttemptFails, Policy, Begun
  <1>5. received' \in [Requests -> Nat] /\ received'[r] = received[r] + seen
    BY <1>1 DEF VariablesTyped
  <1>6. retryable' \in [Requests -> BOOLEAN] /\ retryable'[r] = again
    BY <1>1 DEF VariablesTyped, AttemptFails
  <1>7. waited[r] <= (attempt[r] - 1) * p.max_delay_ms /\ received[r] < attempt[r]
    BY <1>1 DEF RequestInv, Allowance
  <1>8. CASE ~again \/ attempt[r] >= MaxAttempts(p)
    <2>1. /\ waited' = waited /\ pc' = [pc EXCEPT ![r] = "raised"]
      BY <1>8 DEF AttemptFails, GoTo
    <2>2. VariablesTyped'
      BY <1>1, <1>4, <1>5, <1>6, <2>1 DEF VariablesTyped
    <2>3. OthersKept(r)
      BY <1>1, <1>4, <2>1 DEF OthersKept, AttemptFails, VariablesTyped
    <2>4. pc'[r] = "raised"
      BY <1>1, <2>1 DEF VariablesTyped
    <2>5. RequestInv(r)'
      BY <1>1, <1>3, <1>4, <1>5, <1>6, <1>7, <1>8, <2>1, <2>4 DEF RequestInv, Allowance
    <2> QED BY <2>2, <2>3, <2>5, OneRequest
  <1>9. CASE again /\ attempt[r] < MaxAttempts(p)
    <2>1. PICK delay \in BackoffDelays(attempt[r], p) :
             waited' = [waited EXCEPT ![r] = @ + delay]
      BY <1>1, <1>3, <1>9 DEF AttemptFails
    <2>2. pc' = [pc EXCEPT ![r] = "backoff"]
      BY <1>1, <1>3, <1>9 DEF AttemptFails, GoTo
    <2>3. delay \in Nat /\ delay <= p.max_delay_ms
      BY <1>1, <1>2, DelayCapped
    <2>4. waited'[r] \in Nat /\ waited'[r] = waited[r] + delay
      BY <1>1, <2>1, <2>3 DEF VariablesTyped
    <2>5. VariablesTyped'
      BY <1>1, <1>4, <1>5, <1>6, <2>1, <2>2, <2>3 DEF VariablesTyped
    <2>6. OthersKept(r)
      BY <1>1, <1>4, <2>1, <2>2 DEF OthersKept, AttemptFails, VariablesTyped
    <2>7. pc'[r] = "backoff"
      BY <1>1, <1>9, <2>2 DEF VariablesTyped
    <2>8. waited'[r] <= attempt[r] * p.max_delay_ms
      BY <1>1, <1>2, <1>7, <2>3, <2>4, AllowanceGrows
    <2>9. RequestInv(r)'
      BY <1>1, <1>3, <1>4, <1>5, <1>6, <1>7, <1>9, <2>7, <2>8 DEF RequestInv, Allowance
    <2> QED BY <2>5, <2>6, <2>9, OneRequest
  <1> QED BY <1>1, <1>3, <1>8, <1>9

\* An answered request has used no more than it was allowed.
LEMMA AnswerKeeps ==
    ASSUME TransportInv, NEW r \in Requests, Answered(r)
    PROVE  TransportInv'
  <1>1. VariablesTyped /\ RequestInv(r) /\ Begun(r) /\ attempt[r] \in Nat
        /\ received[r] \in Nat
    BY DEF TransportInv, RequestInv, VariablesTyped, Answered
  <1>2. VariablesTyped' /\ OthersKept(r)
    BY <1>1 DEF VariablesTyped, Answered, Arrives, GoTo, OthersKept
  <1>3. Policy(r)' = Policy(r) /\ Begun(r)' = Begun(r)
    BY DEF Policy, Begun, Answered
  <1>4. pc'[r] = "returned" /\ received'[r] = received[r] + 1
    BY <1>1 DEF VariablesTyped, Answered, Arrives, GoTo
  <1>5. RequestInv(r)'
    BY <1>1, <1>3, <1>4 DEF RequestInv, Allowance, Answered
  <1> QED BY <1>2, <1>5, OneRequest

\* Sending again spends the delay just waited on one more attempt.
LEMMA ResendKeeps ==
    ASSUME TransportInv, NEW r \in Requests, Resend(r)
    PROVE  TransportInv'
  <1>1. VariablesTyped /\ RequestInv(r) /\ Begun(r) /\ attempt[r] \in Nat
        /\ received[r] \in Nat
    BY DEF TransportInv, RequestInv, VariablesTyped, Resend
  <1>2. MaxAttempts(Policy(r)) \in Nat
    BY <1>1, PolicyType, SomeAttempt
  <1>3. VariablesTyped' /\ OthersKept(r)
    BY <1>1 DEF VariablesTyped, Resend, GoTo, OthersKept
  <1>4. Policy(r)' = Policy(r) /\ Begun(r)' = Begun(r)
    BY DEF Policy, Begun, Resend
  <1>5. pc'[r] = "sending" /\ attempt'[r] = attempt[r] + 1 /\ attempt'[r] - 1 = attempt[r]
    BY <1>1 DEF VariablesTyped, Resend, GoTo
  <1>6. RequestInv(r)'
    BY <1>1, <1>2, <1>4, <1>5 DEF RequestInv, Allowance, Resend
  <1> QED BY <1>3, <1>6, OneRequest

\* A call's request begins with nothing waited or received.
LEMMA BeginKeeps ==
    ASSUME TransportInv, NEW r \in Requests, Begin(r)
    PROVE  TransportInv'
  <1>1. VariablesTyped /\ RequestInv(r) /\ ~Begun(r)
    BY DEF TransportInv, RequestInv, Begin
  <1>2. CallOverrides \subseteq RetryOverrides
    BY TransportAssumption DEF TransportAssumption
  <1>3. PICK o \in RetryOverrides : override' = [override EXCEPT ![r] = o]
    BY <1>2 DEF Begin
  <1>4. VariablesTyped' /\ OthersKept(r)
    BY <1>1, <1>3 DEF VariablesTyped, Begin, GoTo, OthersKept
  <1>5. /\ pc'[r] = "sending" /\ attempt'[r] = 1 /\ waited'[r] = 0 /\ received'[r] = 0
        /\ ~retryable'[r] /\ override'[r] = o
    BY <1>1, <1>3 DEF VariablesTyped, RequestInv, Begin, GoTo
  <1>6. ASSUME Begun(r)' PROVE RequestInv(r)'
    <2>1. Policy(r)' \in EffectiveRetryPolicies
      <3>1. ClientOverride \in RetryOverrides
        BY TransportAssumption DEF TransportAssumption
      <3>2. MergeRetryPolicy(MergeRetryOverrides(ClientOverride, o))
               \in EffectiveRetryPolicies
        BY <3>1, MergedOverride, NormalizedPolicy, RetryAssumption
      <3> QED BY <1>5, <3>2 DEF Policy
    <2>2. MaxAttempts(Policy(r)') \in Nat \ {0} /\ Policy(r)'.max_delay_ms \in Nat
      BY <2>1, SomeAttempt DEF EffectiveRetryPolicies
    <2>3. Allowance(r, attempt[r] - 1)' = 0
      BY <1>5, <2>2 DEF Allowance
    <2> QED BY <1>5, <1>6, <2>2, <2>3 DEF RequestInv
  <1>7. o # None
    BY TransportAssumption DEF TransportAssumption
  <1>8. Begun(r)'
    BY <1>5, <1>7 DEF Begun
  <1> QED BY <1>4, <1>6, <1>8, OneRequest

\* Nothing is sent for settings that are rejected.
LEMMA RejectKeeps ==
    ASSUME TransportInv, NEW r \in Requests, Reject(r)
    PROVE  TransportInv'
  <1>1. VariablesTyped /\ RequestInv(r) /\ ~Begun(r)
    BY DEF TransportInv, RequestInv, Reject
  <1>2. VariablesTyped' /\ OthersKept(r)
    BY <1>1 DEF VariablesTyped, Reject, GoTo, OthersKept
  <1>3. pc'[r] = "raised" /\ ~Begun(r)'
    BY <1>1 DEF VariablesTyped, Reject, GoTo, Begun
  <1>4. RequestInv(r)'
    BY <1>1, <1>3 DEF RequestInv, Reject
  <1> QED BY <1>2, <1>4, OneRequest

\* The ways in which an attempt fails come down to whether the Edge API has
\* seen it and whether it may be sent again.
LEMMA AttemptFailures ==
    ASSUME TransportInv, NEW r \in Requests,
           \/ Unsendable(r) \/ AnsweredGarbage(r) \/ AnsweredError(r)
           \/ AnsweredUnreadably(r) \/ Unanswered(r)
    PROVE  /\ pc[r] = "sending"
           /\ \E again \in BOOLEAN : AttemptFails(r, again)
           /\ \E seen \in {0, 1} : received' = [received EXCEPT ![r] = @ + seen]
  <1>1. \A status \in Statuses :
           IsRetryableHttpStatus(status, Policy(r).retry_on_status_codes) \in BOOLEAN
    BY DEF IsRetryableHttpStatus
  <1>2. pc[r] = "sending" /\ \E again \in BOOLEAN : AttemptFails(r, again)
    BY <1>1
    DEF Unsendable, AnsweredGarbage, AnsweredError, AnsweredUnreadably, Unanswered
  <1>3. UNCHANGED received => received' = [received EXCEPT ![r] = @ + 0]
    BY DEF TransportInv, VariablesTyped
  <1>4. Arrives(r) => received' = [received EXCEPT ![r] = @ + 1]
    BY DEF Arrives
  <1>5. Arrives(r) \/ UNCHANGED received
    BY DEF Unsendable, AnsweredGarbage, AnsweredError, AnsweredUnreadably, Unanswered
  <1> QED BY <1>2, <1>3, <1>4, <1>5

LEMMA AttemptKeeps ==
    ASSUME TransportInv, NEW r \in Requests,
           \/ Unsendable(r) \/ AnsweredGarbage(r) \/ AnsweredError(r)
           \/ AnsweredUnreadably(r) \/ Unanswered(r)
    PROVE  TransportInv'
  BY AttemptFailures, FailureKeeps

\* Every step keeps every request's invariant.
LEMMA TransportStep == TransportInv /\ [Next]_vars => TransportInv'
  <1> SUFFICES ASSUME TransportInv, [Next]_vars PROVE TransportInv'
    OBVIOUS
  <1>1. CASE UNCHANGED vars
    BY <1>1 DEF vars, TransportInv, VariablesTyped, RequestInv, Begun, Policy, Allowance
  <1>2. CASE AllDone
    BY <1>1, <1>2 DEF AllDone
  <1>3. CASE \E r \in Requests : Reject(r) \/ Begin(r) \/ Attempt(r) \/ Resend(r)
    BY <1>3, RejectKeeps, BeginKeeps, AnswerKeeps, AttemptKeeps, ResendKeeps DEF Attempt
  <1> QED BY <1>1, <1>2, <1>3 DEF Next

\* Every reachable state satisfies the request invariant.
THEOREM TransportInvariant == Spec => []TransportInv
  <1>1. Init => TransportInv
    BY DEF Init, TransportInv, VariablesTyped, RequestInv, Begun
  <1> QED BY <1>1, TransportStep, PTL DEF Spec

-----------------------------------------------------------------------------
(* What follows from it *)

\* The variables are well typed and every request has a usable policy.
THEOREM TransportTypeCorrect == Spec => []TransportTypeOK
  <1>1. TransportInv => TransportTypeOK
    BY PolicyType DEF TransportInv, VariablesTyped, TransportTypeOK
  <1> QED BY <1>1, TransportInvariant, PTL

\* No failure of the network or of the Edge API makes a request cost either
\* side more than its policy allows.
THEOREM BoundedEffort == Spec => []EffortIsBounded
  <1>1. ASSUME TransportInv, NEW r \in Requests, Begun(r)
        PROVE  /\ received[r] <= attempt[r] /\ attempt[r] <= MaxAttempts(Policy(r))
               /\ waited[r] <= (MaxAttempts(Policy(r)) - 1) * Policy(r).max_delay_ms
    <2> DEFINE p == Policy(r) most == MaxAttempts(p)
    <2>1. p \in EffectiveRetryPolicies /\ p.max_delay_ms \in Nat /\ most \in Nat \ {0}
      BY <1>1, PolicyType, SomeAttempt DEF TransportInv, EffectiveRetryPolicies
    <2>2. RequestInv(r) /\ attempt[r] \in Nat \ {0} /\ waited[r] \in Nat
      BY <1>1 DEF TransportInv, RequestInv, VariablesTyped
    <2>3. attempt[r] - 1 \in Nat /\ most - 1 \in Nat
      BY <2>1, <2>2
    <2>4. CASE pc[r] = "backoff"
      <3>1. attempt[r] <= most - 1 /\ waited[r] <= attempt[r] * p.max_delay_ms
        BY <1>1, <2>1, <2>2, <2>4 DEF RequestInv, Allowance
      <3>2. attempt[r] * p.max_delay_ms <= (most - 1) * p.max_delay_ms
        BY <2>1, <2>2, <2>3, <3>1, AllowanceMonotone
      <3> QED BY <1>1, <2>1, <2>2, <3>1, <3>2 DEF RequestInv
    <2>5. CASE pc[r] # "backoff"
      <3>1. attempt[r] - 1 <= most - 1 /\ waited[r] <= (attempt[r] - 1) * p.max_delay_ms
        BY <1>1, <2>1, <2>2, <2>5 DEF RequestInv, Allowance
      <3>2. (attempt[r] - 1) * p.max_delay_ms <= (most - 1) * p.max_delay_ms
        BY <2>1, <2>3, <3>1, AllowanceMonotone
      <3> QED BY <1>1, <2>1, <2>2, <3>1, <3>2 DEF RequestInv
    <2> QED BY <2>4, <2>5
  <1>2. TransportInv => EffortIsBounded
    BY <1>1 DEF EffortIsBounded
  <1> QED BY <1>2, TransportInvariant, PTL

\* No request gives up on a transient failure while it has attempts left.
THEOREM NoEarlySurrender == Spec => []SurrendersLast
  <1>1. TransportInv => SurrendersLast
    BY DEF TransportInv, RequestInv, SurrendersLast
  <1> QED BY <1>1, TransportInvariant, PTL

\* A call's own bound on its attempts holds whatever the client's policy is.
THEOREM CallsDecide == Spec => []CallSettingsWin
  <1>1. ASSUME TransportInv, NEW r \in Requests, Begun(r)
        PROVE  /\ override[r].enabled = FALSE => attempt[r] <= 1 /\ waited[r] = 0
               /\ override[r].max_attempts \in Nat \ {0} =>
                     attempt[r] <= override[r].max_attempts
    <2> DEFINE p == Policy(r)
    <2>1. /\ p \in EffectiveRetryPolicies /\ p.max_delay_ms \in Nat
          /\ override[r] \in RetryOverrides /\ ClientOverride \in RetryOverrides
      BY <1>1, PolicyType, TransportAssumption
      DEF TransportInv, EffectiveRetryPolicies, VariablesTyped, Begun, TransportAssumption
    <2>2. RequestInv(r) /\ attempt[r] \in Nat \ {0} /\ waited[r] \in Nat
      BY <1>1 DEF TransportInv, RequestInv, VariablesTyped
    <2>3. /\ p.enabled = Given(Given(override[r].enabled, ClientOverride.enabled), TRUE)
          /\ p.max_attempts =
                Normalized(Given(override[r].max_attempts, ClientOverride.max_attempts),
                           DefaultMaxAttempts, 1, 1)
      BY <2>1 DEF Policy, MergeRetryPolicy, MergeRetryOverrides, RetryOverrides
    <2>4. ASSUME override[r].enabled = FALSE PROVE attempt[r] <= 1 /\ waited[r] = 0
      <3>1. MaxAttempts(p) = 1
        BY <2>3, <2>4, RetryAssumption DEF MaxAttempts, Given, RetryAssumption
      <3>2. attempt[r] = 1 /\ pc[r] # "backoff"
        BY <1>1, <2>2, <3>1 DEF RequestInv
      <3>3. waited[r] <= (attempt[r] - 1) * p.max_delay_ms
        BY <1>1, <2>2, <3>2 DEF RequestInv, Allowance
      <3> QED BY <2>1, <2>2, <3>2, <3>3
    <2>5. ASSUME override[r].max_attempts \in Nat \ {0}
          PROVE  attempt[r] <= override[r].max_attempts
      <3>1. p.max_attempts = override[r].max_attempts
        BY <2>3, <2>5, RetryAssumption DEF Given, Normalized, AtLeast, RetryAssumption
      <3>2. MaxAttempts(p) <= override[r].max_attempts
        BY <2>5, <3>1 DEF MaxAttempts
      <3> QED BY <1>1, <2>1, <2>2, <2>5, <3>2, SomeAttempt DEF RequestInv
    <2> QED BY <2>4, <2>5
  <1>2. TransportInv => CallSettingsWin
    BY <1>1 DEF CallSettingsWin
  <1> QED BY <1>2, TransportInvariant, PTL

\* Sharing a flight by retry key is sound: equal keys mean equal attempts,
\* delays and, where a second attempt exists, equal reasons to make it.
THEOREM EqualKeysRetryAlike == Spec => []SharersRetryAlike
  <1>1. ASSUME TransportInv, NEW r \in Requests, NEW q \in Requests, Begun(r), Begun(q),
               RetryKey(Policy(r)) = RetryKey(Policy(q))
        PROVE  /\ MaxAttempts(Policy(r)) = MaxAttempts(Policy(q))
               /\ Policy(r) = Policy(q) \/ MaxAttempts(Policy(r)) = 1
    <2>1. /\ Policy(r) \in EffectiveRetryPolicies /\ Policy(q) \in EffectiveRetryPolicies
      BY <1>1, PolicyType DEF TransportInv
    <2>2. RetryKey(Policy(r)).enabled = Policy(r).enabled
          /\ RetryKey(Policy(q)).enabled = Policy(q).enabled
      BY <2>1 DEF RetryKey, EffectiveRetryPolicies
    <2> QED BY <1>1, <2>1, <2>2 DEF RetryKey, MaxAttempts
  <1>2. TransportInv => SharersRetryAlike
    BY <1>1 DEF SharersRetryAlike
  <1> QED BY <1>2, TransportInvariant, PTL

-----------------------------------------------------------------------------
(* Requests are retried work *)

\* A step of r moves no other request.
LEMMA OthersStay ==
    ASSUME TransportInv, NEW r \in Requests,
           \A q \in Requests \ {r} : pc'[q] = pc[q] /\ override'[q] = override[q]
    PROVE  \A q \in Requests \ {r} :
              StageOf(q)' = StageOf(q) /\ AllowanceOf(q)' = AllowanceOf(q)
  BY DEF StageOf, AllowanceOf, Begun, Policy

\* An attempt that fails either ends its request, rightly, or lets it pause.
LEMMA FailureImplements ==
    ASSUME TransportInv, NEW r \in Requests, NEW again \in BOOLEAN,
           pc[r] = "sending", AttemptFails(r, again)
    PROVE  Retried!GiveUp(r) \/ Retried!Pause(r)
  <1> DEFINE p == Policy(r)
  <1>1. /\ VariablesTyped /\ RequestInv(r) /\ Begun(r)
        /\ attempt[r] \in Nat \ {0} /\ waited[r] \in Nat
    BY DEF TransportInv, RequestInv, VariablesTyped
  <1>2. p \in EffectiveRetryPolicies /\ MaxAttempts(p) \in Nat \ {0}
    BY <1>1, PolicyType, SomeAttempt
  <1>3. /\ override' = override /\ attempt' = attempt
        /\ retryable' = [retryable EXCEPT ![r] = again]
    BY DEF AttemptFails
  <1>4. /\ StageOf(r) = "trying"
        /\ AllowanceOf(r).attempts = MaxAttempts(p) /\ AllowanceOf(r).pause = p.max_delay_ms
        /\ \A q \in Requests : AllowanceOf(q)' = AllowanceOf(q)
    BY <1>1, <1>3 DEF StageOf, Stages, AllowanceOf, Begun, Policy
  <1>5. CASE ~again \/ attempt[r] >= MaxAttempts(p)
    <2>1. pc' = [pc EXCEPT ![r] = "raised"] /\ waited' = waited
      BY <1>5 DEF AttemptFails, GoTo
    <2>2. /\ StageOf(r)' = "failed"
          /\ \A q \in Requests \ {r} : StageOf(q)' = StageOf(q)
      BY <1>1, <2>1 DEF VariablesTyped, StageOf, Stages
    <2>3. again => attempt[r] = MaxAttempts(p)
      BY <1>1, <1>2, <1>5 DEF RequestInv
    <2> HIDE DEF p
    <2> QED BY <1>3, <1>4, <2>1, <2>2, <2>3 DEF Retried!GiveUp, Retried!Become
  <1>6. CASE again /\ ~(attempt[r] >= MaxAttempts(p))
    <2>1. PICK delay \in BackoffDelays(attempt[r], p) :
             waited' = [waited EXCEPT ![r] = @ + delay]
      BY <1>6 DEF AttemptFails
    <2>2. pc' = [pc EXCEPT ![r] = "backoff"]
      BY <1>6 DEF AttemptFails, GoTo
    <2>3. delay \in Nat /\ delay <= p.max_delay_ms /\ p.max_delay_ms \in Nat
      BY <1>1, <1>2, DelayCapped DEF EffectiveRetryPolicies
    <2>4. /\ StageOf(r)' = "pausing"
          /\ \A q \in Requests \ {r} : StageOf(q)' = StageOf(q)
      BY <1>1, <2>2 DEF VariablesTyped, StageOf, Stages
    <2>5. /\ waited' = [waited EXCEPT ![r] = waited'[r]]
          /\ waited'[r] \in Int /\ waited'[r] <= waited[r] + p.max_delay_ms
      BY <1>1, <2>1, <2>3 DEF VariablesTyped
    <2>6. attempt[r] < MaxAttempts(p) /\ retryable' = [retryable EXCEPT ![r] = TRUE]
      BY <1>1, <1>2, <1>3, <1>6
    <2> HIDE DEF p
    <2> QED BY <1>3, <1>4, <2>4, <2>5, <2>6 DEF Retried!Pause, Retried!Become
  <1> QED BY <1>5, <1>6

\* The other steps of a request.
LEMMA OthersImplement ==
    ASSUME TransportInv, NEW r \in Requests,
           Reject(r) \/ Begin(r) \/ Answered(r) \/ Resend(r)
    PROVE  \/ Retried!Decline(r) \/ Retried!Undertake(r)
           \/ Retried!Succeed(r) \/ Retried!TryAgain(r)
  <1>1. VariablesTyped /\ RequestInv(r)
    BY DEF TransportInv
  <1>2. \A q \in Requests \ {r} :
           StageOf(q)' = StageOf(q) /\ AllowanceOf(q)' = AllowanceOf(q)
    BY <1>1, OthersStay DEF VariablesTyped, Reject, Begin, Answered, Resend, GoTo
  <1>3. CASE Reject(r)
    <2>1. /\ StageOf(r) = "asked" /\ StageOf(r)' = "failed"
          /\ AllowanceOf(r)' = AllowanceOf(r) /\ UNCHANGED <<attempt, waited, retryable>>
      BY <1>1, <1>3 DEF Reject, GoTo, VariablesTyped, StageOf, Stages, AllowanceOf, Begun, Policy
    <2> QED BY <1>2, <2>1 DEF Retried!Decline, Retried!Become
  <1>4. CASE Begin(r)
    <2>1. PICK o \in CallOverrides : override' = [override EXCEPT ![r] = o]
      BY <1>4 DEF Begin
    <2>2. o \in RetryOverrides /\ o # None /\ override'[r] = o
      BY <1>1, <2>1, TransportAssumption DEF TransportAssumption, VariablesTyped
    <2>3. Policy(r)' \in EffectiveRetryPolicies
      <3>1. Policy(r)' = MergeRetryPolicy(MergeRetryOverrides(ClientOverride, o))
        BY <2>2 DEF Policy
      <3> QED BY <2>2, <3>1, TransportAssumption, MergedOverride, NormalizedPolicy,
                 RetryAssumption DEF TransportAssumption
    <2>4. /\ AllowanceOf(r)' = [attempts |-> MaxAttempts(Policy(r)'),
                                pause |-> Policy(r)'.max_delay_ms]
          /\ StageOf(r) = "asked" /\ StageOf(r)' = "trying"
          /\ attempt' = [attempt EXCEPT ![r] = 1] /\ UNCHANGED <<waited, retryable>>
      BY <1>1, <1>4, <2>2 DEF Begin, GoTo, VariablesTyped, StageOf, Stages, AllowanceOf, Begun
    <2>5. AllowanceOf(r)' \in Retried!Allowances
      BY <2>3, <2>4, SomeAttempt DEF Retried!Allowances, EffectiveRetryPolicies
    <2>6. Retried!Undertake(r)
      BY <1>2, <2>4, <2>5 DEF Retried!Undertake, Retried!Become
    <2> QED BY <2>6
  <1>5. CASE Answered(r)
    <2>1. /\ StageOf(r) = "trying" /\ StageOf(r)' = "done"
          /\ AllowanceOf(r)' = AllowanceOf(r) /\ UNCHANGED <<attempt, waited, retryable>>
      BY <1>1, <1>5 DEF Answered, GoTo, VariablesTyped, StageOf, Stages, AllowanceOf, Begun, Policy
    <2> QED BY <1>2, <2>1 DEF Retried!Succeed, Retried!Become
  <1>6. CASE Resend(r)
    <2>1. /\ StageOf(r) = "pausing" /\ StageOf(r)' = "trying"
          /\ AllowanceOf(r)' = AllowanceOf(r) /\ UNCHANGED <<waited, retryable>>
          /\ attempt' = [attempt EXCEPT ![r] = @ + 1]
      BY <1>1, <1>6 DEF Resend, GoTo, VariablesTyped, StageOf, Stages, AllowanceOf, Begun, Policy
    <2> QED BY <1>2, <2>1 DEF Retried!TryAgain, Retried!Become
  <1> QED BY <1>3, <1>4, <1>5, <1>6

\* Every step of the transport is one of retried work, or none.
LEMMA RetrySimulation ==
    TransportInv /\ [Next]_vars => [Retried!WorkNext]_Retried!workVars
  <1> SUFFICES ASSUME TransportInv, [Next]_vars
               PROVE  [Retried!WorkNext]_Retried!workVars
    OBVIOUS
  <1>1. CASE UNCHANGED vars \/ AllDone
    <2>1. UNCHANGED <<pc, override, attempt, waited, retryable>>
      BY <1>1 DEF vars, AllDone
    <2>2. \A r \in Requests : StageOf(r)' = StageOf(r) /\ AllowanceOf(r)' = AllowanceOf(r)
      BY <2>1 DEF StageOf, AllowanceOf, Begun, Policy
    <2> QED BY <2>1, <2>2 DEF Retried!workVars
  <1>2. ASSUME NEW r \in Requests, Reject(r) \/ Begin(r) \/ Answered(r) \/ Resend(r)
        PROVE  Retried!WorkNext
    BY <1>2, OthersImplement DEF Retried!WorkNext
  <1>3. ASSUME NEW r \in Requests,
               \/ Unsendable(r) \/ AnsweredGarbage(r) \/ AnsweredError(r)
               \/ AnsweredUnreadably(r) \/ Unanswered(r)
        PROVE  Retried!WorkNext
    <2>1. pc[r] = "sending" /\ \E again \in BOOLEAN : AttemptFails(r, again)
      BY <1>3, AttemptFailures
    <2> QED BY <2>1, FailureImplements DEF Retried!WorkNext
  <1> QED BY <1>1, <1>2, <1>3 DEF Next, Attempt

\* The Python transport implements the abstract retried work, so all that is
\* proved of that holds of its requests.
THEOREM TransportImplementsRetriedWork == Spec => ImplementsRetriedWork
  <1>1. Init => Retried!WorkInit
    BY DEF Init, Retried!WorkInit, StageOf, Stages, AllowanceOf, Begun
  <1> QED BY <1>1, RetrySimulation, TransportInvariant, PTL
          DEF Spec, ImplementsRetriedWork, Retried!WorkSpec
=============================================================================
