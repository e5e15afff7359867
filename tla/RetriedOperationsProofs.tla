---------------------- MODULE RetriedOperationsProofs ----------------------
(***************************************************************************)
(* What a retried operation guarantees for every policy, every set of      *)
(* error statuses and every way in which its requests may end.             *)
(***************************************************************************)
EXTENDS RetriedOperations, RetryPoliciesProofs, FiniteSetTheorems

-----------------------------------------------------------------------------
(* Requests that wait for one another *)

\* Every operation is made of requests.
LEMMA RequestsTyped ==
    ASSUME NEW op \in OperationKinds
    PROVE  RequestsOf(op) \subseteq Requests
  BY DEF OperationKinds, RequestsOf, Needs, TsAwsNeeds, PyAwsNeeds, Requests

\* At most two requests of an attempt can be running at once.
LEMMA AtMostTwo ==
    ASSUME NEW op \in OperationKinds, NEW got,
           NEW x \in Ready(op, got) \ got, NEW y \in Ready(op, got) \ got,
           NEW z \in Ready(op, got) \ got, x # z, y # z
    PROVE  x = y
  <1>1. CASE op.asks # "aws"
    BY <1>1 DEF Ready, RequestsOf, Needs
  <1>2. CASE op.asks = "aws" /\ op.sdk = "ts"
    <2>1. RequestsOf(op) = {"token", "document", "signature"} /\ Needs(op) = TsAwsNeeds
      BY <1>2 DEF RequestsOf, Needs, TsAwsNeeds
    <2>2. \A q \in RequestsOf(op) : q \in Ready(op, got) \ got =>
             \/ q = "token" /\ "token" \notin got
             \/ q # "token" /\ "token" \in got
      BY <2>1 DEF Ready, TsAwsNeeds
    <2> QED BY <2>1, <2>2 DEF Ready
  <1>3. CASE op.asks = "aws" /\ op.sdk # "ts"
    <2>1. RequestsOf(op) = {"token", "document", "signature"} /\ Needs(op) = PyAwsNeeds
      BY <1>3 DEF RequestsOf, Needs, PyAwsNeeds
    <2>2. \A q \in RequestsOf(op) : q \in Ready(op, got) \ got =>
             \/ q = "token" /\ "token" \notin got
             \/ q = "document" /\ "token" \in got /\ "document" \notin got
             \/ q = "signature" /\ "document" \in got /\ "token" \in got
      BY <2>1 DEF Ready, PyAwsNeeds
    <2> QED BY <2>1, <2>2 DEF Ready
  <1> QED BY <1>1, <1>2, <1>3

\* What one more answer makes ready, and what of it is still to be asked for.
LEMMA ReadyGrows ==
    ASSUME NEW op \in OperationKinds, NEW got, got \subseteq Ready(op, got),
           NEW q \in Ready(op, got) \ got
    PROVE  /\ got \cup {q} \subseteq Ready(op, got \cup {q})
           /\ Ready(op, got \cup {q}) \ (got \cup {q})
                = ((Ready(op, got) \ got) \ {q})
                    \cup (Ready(op, got \cup {q}) \ Ready(op, got))
  <1>1. Ready(op, got) \subseteq Ready(op, got \cup {q})
    BY DEF Ready
  <1> QED BY <1>1

-----------------------------------------------------------------------------
(* What an operation keeps *)

VariablesTyped ==
    /\ pc \in {"new", "working", "backoff", "returned", "raised"}
    /\ fault \in Faults \cup {None} /\ jitter \in BOOLEAN
    /\ attempt \in Nat /\ waited \in Int
    /\ out \subseteq Nat \X Requests
    /\ parts \subseteq Nat \X Requests
    /\ error \in Failures \cup {None}
    /\ ~Begun => /\ operation = None /\ override = None
                 /\ attempt = 0 /\ out = {} /\ parts = {} /\ waited = 0
    /\ Begun => operation \in OperationKinds /\ override \in RetryOverrides

\* The executor's loop.
Codes == Policy.retry_on_status_codes

LoopInv ==
    Begun =>
        /\ 1 <= attempt /\ attempt <= MaxAttempts(Policy)
        /\ pc = "backoff" =>
              /\ waited <= attempt * Policy.max_delay_ms
              /\ attempt < MaxAttempts(Policy)
              /\ error \in FailuresOf(operation) /\ IsRetryable(operation, error, Codes)
        /\ pc # "backoff" => waited <= (attempt - 1) * Policy.max_delay_ms
        /\ pc = "raised" /\ IsRetryable(operation, error, Codes)
              => attempt = MaxAttempts(Policy)

\* The current attempt's answers and requests, and those of earlier ones.
CollectionInv ==
    Begun =>
        /\ \A x \in out : x[1] <= attempt
        /\ parts = Current(Got(parts))
        /\ Got(parts) \subseteq Ready(operation, Got(parts))
        /\ pc = "working" =>
              \A q \in Requests :
                 <<attempt, q>> \in out <=> q \in Ready(operation, Got(parts)) \ Got(parts)
        /\ pc = "returned" =>
              Got(parts) = RequestsOf(operation) /\ \A x \in out : x[1] < attempt
        /\ \A x, y \in out : x[1] = y[1] /\ (x[1] < attempt \/ pc # "working") => x = y

OperationInv == VariablesTyped /\ LoopInv /\ CollectionInv

\* Once begun, an operation has a usable policy.
LEMMA PolicyType ==
    ASSUME VariablesTyped, Begun
    PROVE  /\ Policy \in EffectiveRetryPolicies /\ Policy.max_delay_ms \in Nat
           /\ MaxAttempts(Policy) \in Nat \ {0}
  <1>1. Policy \in EffectiveRetryPolicies
    BY NormalizedPolicy, RetryAssumption DEF VariablesTyped, Policy
  <1> QED BY <1>1, SomeAttempt DEF EffectiveRetryPolicies

\* Jittered or not, no delay exceeds the cap of the policy.
LEMMA DelaysCapped ==
    ASSUME VariablesTyped, Begun, attempt >= 1, NEW delay \in Delays(attempt)
    PROVE  delay \in Int /\ delay <= Policy.max_delay_ms
  <1>1. Policy \in EffectiveRetryPolicies /\ attempt \in Nat \ {0}
    BY PolicyType DEF VariablesTyped
  <1>2. CASE jitter
    BY <1>1, <1>2, DelayCapped DEF Delays
  <1>3. CASE ~jitter
    <2>1. Policy.base_delay_ms * 2 ^ (attempt - 1) \in Int
      BY <1>1 DEF EffectiveRetryPolicies
    <2> QED BY <1>1, <1>3, <2>1 DEF Delays, CappedDelay, EffectiveRetryPolicies
  <1> QED BY <1>2, <1>3

\* Settings laid over one another are settings.
LEMMA SettingsTyped ==
    ASSUME NEW op
    PROVE  SettingsOf(op) \subseteq RetryOverrides
  BY OperationsAssumption, MergedOverride DEF SettingsOf, OperationsAssumption

\* What is held after one more answer.
LEMMA GotGrows ==
    ASSUME NEW held, NEW n, NEW q
    PROVE  Got(held \cup {<<n, q>>}) = Got(held) \cup {q}
  <1>1. <<n, q>>[2] = q
    OBVIOUS
  <1>2. \A p : p \in Got(held \cup {<<n, q>>}) <=> p \in Got(held) \/ p = q
    BY <1>1 DEF Got
  <1> QED BY <1>2

-----------------------------------------------------------------------------
(* One step *)

\* An operation begins with the requests that need no answer.
LEMMA BeginKeeps ==
    ASSUME OperationInv, Begin
    PROVE  OperationInv'
  <1>1. /\ attempt' = 1 /\ pc' = "working" /\ parts' = {} /\ waited' = 0 /\ error' = error
        /\ out' = {<<1, q>> : q \in Ready(operation', {})}
        /\ operation' \in OperationKinds /\ override' \in RetryOverrides /\ jitter' \in BOOLEAN
        /\ fault' \in Faults \cup {None}
    BY SettingsTyped, OperationsAssumption
    DEF OperationInv, VariablesTyped, Begun, Begin, OperationsAssumption
  <1>2. Ready(operation', {}) \subseteq Requests
    BY <1>1, RequestsTyped DEF Ready
  <1>3. VariablesTyped'
    BY <1>1, <1>2 DEF OperationInv, VariablesTyped, Begun
  <1>4. LoopInv'
    <2>1. MaxAttempts(Policy)' \in Nat \ {0} /\ (Policy.max_delay_ms)' \in Nat
      <3>1. Policy' \in EffectiveRetryPolicies
        BY <1>1, NormalizedPolicy, RetryAssumption DEF Policy
      <3> QED BY <3>1, SomeAttempt DEF EffectiveRetryPolicies
    <2> QED BY <1>1, <2>1 DEF LoopInv
  <1>5. CollectionInv'
    <2>1. Got(parts)' = {} /\ parts' = Current(Got(parts))'
      BY <1>1 DEF Got, Current
    <2>2. \A q : <<attempt', q>> \in out' <=> q \in Ready(operation', {})
      BY <1>1
    <2> QED BY <1>1, <2>1, <2>2 DEF CollectionInv
  <1> QED BY <1>3, <1>4, <1>5 DEF OperationInv

\* An answer is kept with the others of its attempt; what it makes ready is
\* asked for, and after the last one the operation returns.
LEMMA AnswerKeeps ==
    ASSUME OperationInv, NEW q \in Requests, Answered(q)
    PROVE  OperationInv'
  <1> DEFINE got == Got(parts)
             next == Ready(operation, got \cup {q}) \ Ready(operation, got)
  <1>1. /\ Begun /\ pc = "working" /\ operation \in OperationKinds /\ attempt \in Nat
        /\ <<attempt, q>> \in out
    BY DEF OperationInv, VariablesTyped, Answered, Begun
  <1>2. /\ UNCHANGED <<operation, override, fault, jitter, attempt, waited, error>>
        /\ parts' = parts \cup {<<attempt, q>>}
    BY DEF Answered
  <1>3. Got(parts') = got \cup {q}
    BY <1>2, GotGrows
  <1>4. /\ out' = (out \ {<<attempt, q>>}) \cup Current(next)
        /\ pc' = IF got \cup {q} = RequestsOf(operation) THEN "returned" ELSE "working"
    BY <1>3 DEF Answered
  <1>5. /\ q \in Ready(operation, got) \ got /\ got \subseteq Ready(operation, got)
        /\ parts = Current(got)
    BY <1>1 DEF OperationInv, CollectionInv
  <1>6. /\ got \cup {q} \subseteq Ready(operation, got \cup {q})
        /\ Ready(operation, got \cup {q}) \ (got \cup {q})
              = ((Ready(operation, got) \ got) \ {q}) \cup next
    BY <1>1, <1>5, ReadyGrows
  <1>7. next \subseteq Requests
    BY <1>1, RequestsTyped DEF Ready
  <1>8. Begun' /\ Policy' = Policy /\ Codes' = Codes
    BY <1>2, <1>4 DEF Begun, Policy, Codes
  <1>9. VariablesTyped'
    BY <1>1, <1>2, <1>4, <1>7, <1>8 DEF OperationInv, VariablesTyped, Current
  <1>10. LoopInv'
    BY <1>1, <1>2, <1>4, <1>8 DEF OperationInv, LoopInv
  <1>11. \A p \in Requests :
            <<attempt, p>> \in out'
                <=> p \in Ready(operation, got \cup {q}) \ (got \cup {q})
    BY <1>1, <1>4, <1>6 DEF OperationInv, CollectionInv, Current
  <1>12. \A x \in out' : x \in out \/ x[1] = attempt
    BY <1>4 DEF Current
  <1>13. CollectionInv'
    <2>1. \A x \in out' : x[1] <= attempt
      BY <1>1, <1>12 DEF OperationInv, CollectionInv
    <2>2. parts' = Current(Got(parts))'
      <3>1. Current(got \cup {q}) = Current(got) \cup {<<attempt, q>>}
        BY DEF Current
      <3>2. Current(Got(parts))' = Current(got \cup {q})
        BY <1>2, <1>3 DEF Current
      <3> HIDE DEF got
      <3> QED BY <1>2, <1>5, <3>1, <3>2
    <2>3. Got(parts') \subseteq Ready(operation', Got(parts'))
      BY <1>2, <1>3, <1>6
    <2>4. pc' = "returned" => Got(parts') = RequestsOf(operation)
                              /\ \A x \in out' : x[1] < attempt
      <3>1. SUFFICES ASSUME got \cup {q} = RequestsOf(operation), NEW x \in out',
                            x[1] = attempt
                     PROVE  FALSE
        <4>1. \A x \in out' : x[1] \in Nat
          BY <1>9 DEF VariablesTyped
        <4>2. pc' = "returned" => got \cup {q} = RequestsOf(operation)
          BY <1>4
        <4> HIDE DEF got
        <4> QED BY <1>1, <1>3, <2>1, <4>1, <4>2
      <3>2. x = <<attempt, x[2]>> /\ x[2] \in Requests
        BY <1>9, <3>1 DEF VariablesTyped
      <3>3. x[2] \in Ready(operation, got \cup {q}) \ (got \cup {q})
        BY <1>11, <3>1, <3>2
      <3> QED BY <3>1, <3>3 DEF Ready
    <2>5. ASSUME NEW x \in out', NEW y \in out', x[1] = y[1],
                 x[1] < attempt \/ pc' # "working"
          PROVE  x = y
      <3>1. x[1] < attempt
        BY <1>4, <2>1, <2>4, <2>5
      <3>2. x \in out /\ y \in out
        BY <1>1, <1>12, <2>5, <3>1
      <3> QED BY <1>1, <2>5, <3>1, <3>2 DEF OperationInv, CollectionInv
    <2> QED BY <1>2, <1>3, <1>11, <2>1, <2>2, <2>3, <2>4, <2>5 DEF CollectionInv
  <1> QED BY <1>9, <1>10, <1>13 DEF OperationInv

\* The first failure of an attempt ends it: the operation raises, or waits with
\* one more delay behind it.  At most one other request is still running.
LEMMA FailureKeeps ==
    ASSUME OperationInv, NEW q \in Requests, Failed(q)
    PROVE  OperationInv'
  <1> DEFINE most == MaxAttempts(Policy)
             cap == Policy.max_delay_ms
  <1>1. /\ Begun /\ pc = "working" /\ operation \in OperationKinds
        /\ attempt \in Nat \ {0} /\ waited \in Int /\ attempt <= most
        /\ waited <= (attempt - 1) * cap /\ <<attempt, q>> \in out
    BY DEF OperationInv, VariablesTyped, LoopInv, Failed, Begun
  <1>2. most \in Nat \ {0} /\ cap \in Nat
    BY <1>1, PolicyType DEF OperationInv
  <1>3. PICK failure \in FailuresOf(operation) : AttemptFails(failure)
    BY DEF Failed
  <1>4. /\ UNCHANGED <<operation, override, fault, jitter, attempt, parts>>
        /\ out' = out \ {<<attempt, q>>} /\ error' = failure /\ failure \in Failures
    BY <1>3 DEF Failed, AttemptFails, FailuresOf
  <1>5. /\ pc' \in {"raised", "backoff"} /\ waited' \in Int
        /\ pc' = "raised" =>
              /\ waited' = waited
              /\ IsRetryable(operation, failure, Codes) => attempt = most
        /\ pc' = "backoff" =>
              /\ waited' <= attempt * cap /\ attempt < most
              /\ IsRetryable(operation, failure, Codes)
    <2>1. CASE ~IsRetryable(operation, failure, Codes) \/ attempt >= most
      <3>1. pc' = "raised" /\ waited' = waited
        BY <1>3, <2>1 DEF AttemptFails, Codes
      <3> QED BY <1>1, <1>2, <2>1, <3>1
    <2>2. CASE IsRetryable(operation, failure, Codes) /\ ~(attempt >= most)
      <3>1. pc' = "backoff" /\ \E delay \in Delays(attempt) : waited' = waited + delay
        BY <1>3, <2>2 DEF AttemptFails, Codes
      <3>2. PICK delay \in Delays(attempt) : waited' = waited + delay
        BY <3>1
      <3>3. delay \in Int /\ delay <= cap
        BY <1>1, DelaysCapped DEF OperationInv
      <3>4. waited + delay <= attempt * cap
        BY <1>1, <1>2, <3>3, AllowanceGrows
      <3> QED BY <1>1, <1>2, <2>2, <3>1, <3>2, <3>3, <3>4
    <2> QED BY <2>1, <2>2
  <1>6. Begun' /\ Policy' = Policy /\ Codes' = Codes
    BY <1>4, <1>5 DEF Begun, Policy, Codes
  <1>7. VariablesTyped'
    BY <1>1, <1>4, <1>5, <1>6 DEF OperationInv, VariablesTyped
  <1>8. LoopInv'
    BY <1>1, <1>3, <1>4, <1>5, <1>6 DEF LoopInv
  <1>9. CollectionInv'
    <2>1. ASSUME NEW x \in out', NEW y \in out', x[1] = y[1] PROVE x = y
      <3>1. x \in out /\ y \in out /\ x # <<attempt, q>> /\ y # <<attempt, q>>
        BY <1>4, <2>1
      <3>2. CASE x[1] < attempt
        BY <1>1, <2>1, <3>1, <3>2 DEF OperationInv, CollectionInv
      <3>3. CASE ~(x[1] < attempt)
        <4>1. x[1] = attempt /\ x = <<attempt, x[2]>> /\ y = <<attempt, y[2]>>
              /\ x[2] \in Requests /\ y[2] \in Requests
          BY <1>1, <2>1, <3>1, <3>3 DEF OperationInv, CollectionInv, VariablesTyped
        <4> DEFINE running == Ready(operation, Got(parts)) \ Got(parts)
        <4>2. x[2] \in running /\ y[2] \in running /\ q \in running
          BY <1>1, <3>1, <4>1 DEF OperationInv, CollectionInv
        <4>3. x[2] # q /\ y[2] # q
          BY <3>1, <4>1
        <4> QED BY <1>1, <4>1, <4>2, <4>3, AtMostTwo
      <3> QED BY <3>2, <3>3
    <2>2. Got(parts)' = Got(parts) /\ Current(Got(parts))' = Current(Got(parts))
      BY <1>4 DEF Got, Current
    <2> QED BY <1>1, <1>4, <1>5, <2>1, <2>2 DEF OperationInv, CollectionInv
  <1> QED BY <1>7, <1>8, <1>9 DEF OperationInv

\* The next attempt starts with nothing of the last one, whose requests that
\* still run are told from its own by their number.
LEMMA RetryKeeps ==
    ASSUME OperationInv, Retry
    PROVE  OperationInv'
  <1>1. /\ Begun /\ pc = "backoff" /\ operation \in OperationKinds /\ attempt \in Nat
        /\ 1 <= attempt /\ attempt < MaxAttempts(Policy)
        /\ waited <= attempt * Policy.max_delay_ms
    BY DEF OperationInv, VariablesTyped, LoopInv, Retry, Begun
  <1>2. MaxAttempts(Policy) \in Nat
    BY <1>1, PolicyType DEF OperationInv
  <1>3. /\ UNCHANGED <<operation, override, fault, jitter, waited, error>>
        /\ attempt' = attempt + 1 /\ attempt' - 1 = attempt
        /\ parts' = {} /\ pc' = "working"
        /\ out' = out \cup {<<attempt + 1, p>> : p \in Ready(operation, {})}
    BY <1>1 DEF Retry
  <1>4. Ready(operation, {}) \subseteq Requests
    BY <1>1, RequestsTyped DEF Ready
  <1>5. Begun' /\ Policy' = Policy /\ Codes' = Codes
    BY <1>3 DEF Begun, Policy, Codes
  <1>6. VariablesTyped'
    BY <1>1, <1>3, <1>4, <1>5 DEF OperationInv, VariablesTyped
  <1>7. LoopInv'
    BY <1>1, <1>2, <1>3, <1>5 DEF LoopInv
  <1>8. CollectionInv'
    <2>1. \A x \in out : x[1] <= attempt /\ x[1] \in Nat
      BY <1>1 DEF OperationInv, CollectionInv, VariablesTyped
    <2>2. \A x \in out' : x \in out \/ x[1] = attempt + 1
      BY <1>3
    <2>3. Got(parts)' = {} /\ parts' = Current(Got(parts))'
      BY <1>3 DEF Got, Current
    <2>4. \A p \in Requests : <<attempt + 1, p>> \in out' <=> p \in Ready(operation, {})
      <3>1. \A p \in Requests : <<attempt + 1, p>> \notin out
        BY <1>1, <2>1
      <3> QED BY <1>3, <3>1
    <2>5. ASSUME NEW x \in out', NEW y \in out', x[1] = y[1], x[1] < attempt + 1
          PROVE  x = y
      <3>1. x \in out /\ y \in out
        BY <1>1, <2>2, <2>5
      <3> QED BY <1>1, <2>5, <3>1 DEF OperationInv, CollectionInv
    <2>6. \A x \in out' : x[1] <= attempt + 1
      BY <1>1, <2>1, <2>2
    <2> QED BY <1>3, <2>3, <2>4, <2>5, <2>6 DEF CollectionInv
  <1> QED BY <1>6, <1>7, <1>8 DEF OperationInv

\* A request that ends unobserved changes nothing else.
LEMMA StragglerKeeps ==
    ASSUME OperationInv, StragglerEnds
    PROVE  OperationInv'
  <1>1. PICK x \in out : (x[1] < attempt \/ pc # "working") /\ out' = out \ {x}
    BY DEF StragglerEnds
  <1>2. UNCHANGED <<operation, override, fault, jitter, pc, attempt, parts, waited, error>>
    BY DEF StragglerEnds
  <1>3. Begun' = Begun /\ Policy' = Policy /\ Codes' = Codes
    BY <1>2 DEF Begun, Policy, Codes
  <1>4. VariablesTyped' /\ LoopInv'
    BY <1>1, <1>2, <1>3 DEF OperationInv, VariablesTyped, LoopInv
  <1>5. Got(parts)' = Got(parts) /\ Current(Got(parts))' = Current(Got(parts))
    BY <1>2 DEF Got, Current
  <1>6. pc = "working" =>
           \A p \in Requests : <<attempt, p>> \in out' <=> <<attempt, p>> \in out
    <2>1. attempt \in Nat
      BY DEF OperationInv, VariablesTyped
    <2> QED BY <1>1, <2>1
  <1>7. CollectionInv'
    BY <1>1, <1>2, <1>3, <1>5, <1>6 DEF OperationInv, CollectionInv
  <1> QED BY <1>4, <1>7 DEF OperationInv

\* Every step keeps the invariant.
LEMMA OperationStep == OperationInv /\ [Next]_vars => OperationInv'
  <1> SUFFICES ASSUME OperationInv, [Next]_vars PROVE OperationInv'
    OBVIOUS
  <1>1. CASE UNCHANGED vars
    <2>1. UNCHANGED <<Got(parts), Current(Got(parts)), Begun, Policy, Codes>>
      BY <1>1 DEF vars, Got, Current, Begun, Policy, Codes
    <2> QED BY <1>1, <2>1
        DEF vars, OperationInv, VariablesTyped, LoopInv, CollectionInv
  <1>2. CASE AllDone
    BY <1>1, <1>2 DEF AllDone
  <1>3. CASE Begin
    BY <1>3, BeginKeeps
  <1>4. CASE Progress
    BY <1>4, AnswerKeeps, FailureKeeps DEF Progress
  <1>5. CASE Retry
    BY <1>5, RetryKeeps
  <1>6. CASE StragglerEnds
    BY <1>6, StragglerKeeps
  <1> QED BY <1>1, <1>2, <1>3, <1>4, <1>5, <1>6 DEF Next

\* Every reachable state satisfies the invariant.
THEOREM OperationInvariant == Spec => []OperationInv
  <1>1. Init => OperationInv
    BY DEF Init, OperationInv, VariablesTyped, LoopInv, CollectionInv, Begun
  <1> QED BY <1>1, OperationStep, PTL DEF Spec

-----------------------------------------------------------------------------
(* What follows from it *)

\* The variables are well typed, and every operation has a usable policy.
THEOREM TypeCorrect == Spec => []TypeOK
  <1>1. OperationInv => TypeOK
    <2>1. None \notin OperationKinds /\ None \notin RetryOverrides
      BY OperationsAssumption DEF OperationsAssumption
    <2> QED BY <2>1, PolicyType DEF OperationInv, VariablesTyped, TypeOK
  <1> QED BY <1>1, OperationInvariant, PTL

\* A result consists of the answers of one attempt, the last.
THEOREM ResultsAreWhole == Spec => []CollectedTogether
  <1>1. OperationInv => CollectedTogether
    BY DEF OperationInv, CollectionInv, CollectedTogether, Begun
  <1> QED BY <1>1, OperationInvariant, PTL

\* No attempt leaves more than one request running behind it.
THEOREM FewStragglers == Spec => []StragglersAreFew
  <1>1. OperationInv => StragglersAreFew
    BY DEF OperationInv, VariablesTyped, CollectionInv, StragglersAreFew, Begun
  <1> QED BY <1>1, OperationInvariant, PTL

\* No way of failing makes an operation try or wait more than its policy allows.
THEOREM BoundedEffort == Spec => []EffortIsBounded
  <1>1. ASSUME OperationInv, Begun PROVE EffortIsBounded
    <2> DEFINE most == MaxAttempts(Policy)
               cap == Policy.max_delay_ms
    <2>1. /\ most \in Nat \ {0} /\ cap \in Nat /\ attempt \in Nat \ {0}
          /\ waited \in Int /\ attempt <= most /\ attempt - 1 \in Nat /\ most - 1 \in Nat
      BY <1>1, PolicyType DEF OperationInv, VariablesTyped, LoopInv
    <2>2. CASE pc = "backoff"
      <3>1. attempt <= most - 1 /\ waited <= attempt * cap
        BY <1>1, <2>1, <2>2 DEF OperationInv, LoopInv
      <3>2. attempt * cap <= (most - 1) * cap
        BY <2>1, <3>1, AllowanceMonotone
      <3>3. attempt * cap \in Int /\ (most - 1) * cap \in Int
        BY <2>1
      <3> QED BY <2>1, <3>1, <3>2, <3>3 DEF EffortIsBounded
    <2>3. CASE pc # "backoff"
      <3>1. attempt - 1 <= most - 1 /\ waited <= (attempt - 1) * cap
        BY <1>1, <2>1, <2>3 DEF OperationInv, LoopInv
      <3>2. (attempt - 1) * cap <= (most - 1) * cap
        BY <2>1, <3>1, AllowanceMonotone
      <3>3. (attempt - 1) * cap \in Int /\ (most - 1) * cap \in Int
        BY <2>1
      <3> QED BY <2>1, <3>1, <3>2, <3>3 DEF EffortIsBounded
    <2> QED BY <2>2, <2>3
  <1>2. OperationInv => EffortIsBounded
    BY <1>1 DEF EffortIsBounded
  <1> QED BY <1>2, OperationInvariant, PTL

\* A retryable error is raised only after the last attempt.
THEOREM NoEarlySurrender == Spec => []SurrendersLast
  <1>1. OperationInv => SurrendersLast
    BY DEF OperationInv, LoopInv, SurrendersLast, Begun, Codes
  <1> QED BY <1>1, OperationInvariant, PTL

-----------------------------------------------------------------------------
(* Nothing makes an operation go round in circles *)

\* An operation is made of at most three requests.
LEMMA ThreeAtMost ==
    ASSUME NEW op \in OperationKinds
    PROVE  \E a, b, c \in Requests : RequestsOf(op) \subseteq {a, b, c}
  BY DEF OperationKinds, RequestsOf, Needs, TsAwsNeeds, PyAwsNeeds, Requests

LEMMA ThreeAreFew ==
    ASSUME NEW a, NEW b, NEW c, NEW S, S \subseteq {a, b, c}
    PROVE  IsFiniteSet(S) /\ Cardinality(S) \in 0 .. 3
  <1> DEFINE two == {a} \cup {b}
             three == two \cup {c}
  <1>1. IsFiniteSet({a}) /\ Cardinality({a}) = 1
    BY FS_Singleton
  <1>2. IsFiniteSet(two) /\ Cardinality(two) \in 1 .. 2
    BY <1>1, FS_AddElement
  <1>3. IsFiniteSet(three) /\ Cardinality(three) \in 1 .. 3
    BY <1>2, FS_AddElement
  <1>4. S \in SUBSET three
    OBVIOUS
  <1>5. IsFiniteSet(S) /\ Cardinality(S) <= Cardinality(three)
    BY <1>3, <1>4, FS_Subset
  <1> QED BY <1>3, <1>5, FS_CardinalityType

\* There are only so many answers ahead.
LEMMA AheadFinite ==
    ASSUME OperationInv, Begun
    PROVE  IsFiniteSet(Ahead) /\ Cardinality(Ahead) \in Nat
  <1>1. /\ operation \in OperationKinds /\ attempt \in Nat
        /\ out \subseteq Nat \X Requests /\ \A x \in out : x[1] <= attempt
    BY DEF OperationInv, VariablesTyped, CollectionInv
  <1>2. RequestsOf(operation) \subseteq Requests
    BY <1>1, RequestsTyped
  <1>3. IsFiniteSet(Requests)
    <2>1. /\ IsFiniteSet({"edge", "azure", "token"})
          /\ IsFiniteSet({"role", "document", "signature"})
      BY ThreeAreFew
    <2>2. Requests = {"edge", "azure", "token"} \cup {"role", "document", "signature"}
      BY DEF Requests
    <2> QED BY <2>1, <2>2, FS_Union
  <1>4. IsFiniteSet((0 .. attempt) \X Requests)
    <2>1. IsFiniteSet(0 .. attempt)
      BY <1>1, FS_Interval
    <2> QED BY <1>3, <2>1, FS_Product
  <1>5. Ahead \in SUBSET ((0 .. attempt) \X Requests)
    <2>1. out \subseteq (0 .. attempt) \X Requests
      BY <1>1
    <2>2. Current(RequestsOf(operation) \ Got(parts)) \subseteq (0 .. attempt) \X Requests
      BY <1>1, <1>2 DEF Current
    <2> QED BY <2>1, <2>2 DEF Ahead
  <1> QED BY <1>4, <1>5, FS_Subset, FS_CardinalityType

\* Where an answer is no longer ahead, and nothing new is, the end is nearer.
LEMMA OneLessAhead ==
    ASSUME OperationInv, Begun, NEW x \in Ahead, Ahead' \subseteq Ahead \ {x},
           UNCHANGED <<override, attempt>>
    PROVE  StepsLeft' \in 0 .. StepsLeft - 1
  <1>1. IsFiniteSet(Ahead) /\ Cardinality(Ahead) \in Nat
    BY AheadFinite
  <1>2. IsFiniteSet(Ahead \ {x}) /\ Cardinality(Ahead \ {x}) = Cardinality(Ahead) - 1
    BY <1>1, FS_RemoveElement
  <1>3. Cardinality(Ahead') \in Nat /\ Cardinality(Ahead') <= Cardinality(Ahead) - 1
    BY <1>2, FS_Subset, FS_CardinalityType
  <1>4. /\ MaxAttempts(Policy) \in Nat /\ attempt \in Nat /\ attempt <= MaxAttempts(Policy)
        /\ MaxAttempts(Policy)' = MaxAttempts(Policy)
    BY PolicyType DEF OperationInv, VariablesTyped, LoopInv, Policy
  <1> QED BY <1>1, <1>3, <1>4 DEF StepsLeft

\* An answer, or a failure, is ahead no longer.
LEMMA AnswerNearsEnd ==
    ASSUME OperationInv, NEW q \in Requests, Answered(q)
    PROVE  StepsLeft' \in 0 .. StepsLeft - 1
  <1> DEFINE got == Got(parts)
             next == Ready(operation, got \cup {q}) \ Ready(operation, got)
  <1>1. /\ Begun /\ pc = "working" /\ <<attempt, q>> \in out
        /\ UNCHANGED <<operation, override, attempt>>
    BY DEF Answered, Begun
  <1>2. Got(parts') = got \cup {q}
    BY GotGrows DEF Answered
  <1>3. /\ out' = (out \ {<<attempt, q>>}) \cup Current(next)
        /\ Current(RequestsOf(operation) \ Got(parts))'
             = Current(RequestsOf(operation) \ (got \cup {q}))
    BY <1>1, <1>2 DEF Answered, Current
  <1>4. q \notin next /\ next \subseteq RequestsOf(operation) \ (got \cup {q})
    <2>1. /\ operation \in OperationKinds /\ got \subseteq Ready(operation, got)
          /\ q \in Ready(operation, got) \ got
      BY <1>1 DEF OperationInv, VariablesTyped, CollectionInv
    <2> QED BY <2>1 DEF Ready
  <1>5. Current(next) \subseteq Current(RequestsOf(operation) \ (got \cup {q}))
    BY <1>4 DEF Current
  <1>6. Current(RequestsOf(operation) \ (got \cup {q}))
           \subseteq Current(RequestsOf(operation) \ got) \ {<<attempt, q>>}
    BY DEF Current
  <1> HIDE DEF got, next
  <1>7. Ahead = out \cup Current(RequestsOf(operation) \ got)
    BY <1>1 DEF Ahead, got
  <1>8. Ahead' \subseteq Ahead \ {<<attempt, q>>}
    BY <1>3, <1>5, <1>6, <1>7 DEF Ahead
  <1>9. <<attempt, q>> \in Ahead
    BY <1>1, <1>7
  <1> QED BY <1>1, <1>8, <1>9, OneLessAhead

LEMMA FailureNearsEnd ==
    ASSUME OperationInv, NEW q \in Requests, Failed(q)
    PROVE  StepsLeft' \in 0 .. StepsLeft - 1
  <1>1. /\ Begun /\ <<attempt, q>> \in out /\ out' = out \ {<<attempt, q>>}
        /\ UNCHANGED <<override, attempt>> /\ pc' \in {"raised", "backoff"}
    BY DEF Failed, AttemptFails, Begun
  <1>2. <<attempt, q>> \in Ahead /\ Ahead' \subseteq Ahead \ {<<attempt, q>>}
    BY <1>1 DEF Ahead
  <1> QED BY <1>1, <1>2, OneLessAhead

LEMMA StragglerNearsEnd ==
    ASSUME OperationInv, Begun, StragglerEnds
    PROVE  StepsLeft' \in 0 .. StepsLeft - 1
  <1>1. PICK x \in out : (x[1] < attempt \/ pc # "working") /\ out' = out \ {x}
    BY DEF StragglerEnds
  <1>2. UNCHANGED <<operation, override, pc, attempt, parts>>
    BY DEF StragglerEnds
  <1>3. Current(RequestsOf(operation) \ Got(parts))' = Current(RequestsOf(operation) \ Got(parts))
    BY <1>2 DEF Current, Got
  <1>4. pc = "working" => x \notin Current(RequestsOf(operation) \ Got(parts))
    <2>1. attempt \in Nat
      BY DEF OperationInv, VariablesTyped
    <2> QED BY <1>1, <2>1 DEF Current
  <1>5. x \in Ahead /\ Ahead' \subseteq Ahead \ {x}
    BY <1>1, <1>2, <1>3, <1>4 DEF Ahead
  <1> QED BY <1>2, <1>5, OneLessAhead

\* A retry puts at most three answers ahead, and spends an attempt on them.
LEMMA RetryNearsEnd ==
    ASSUME OperationInv, Retry
    PROVE  StepsLeft' \in 0 .. StepsLeft - 1
  <1> DEFINE new == {<<attempt + 1, q>> : q \in RequestsOf(operation)}
  <1>1. /\ Begun /\ pc = "backoff" /\ operation \in OperationKinds /\ attempt \in Nat
        /\ attempt < MaxAttempts(Policy) /\ MaxAttempts(Policy) \in Nat
    <2>1. Begun /\ pc = "backoff"
      BY DEF Retry, Begun
    <2> QED BY <2>1, PolicyType DEF OperationInv, VariablesTyped, LoopInv
  <1>2. /\ UNCHANGED <<operation, override>> /\ attempt' = attempt + 1 /\ parts' = {}
        /\ out' = out \cup {<<attempt + 1, q>> : q \in Ready(operation, {})}
    BY DEF Retry
  <1>3. Ahead = out /\ Ahead' \subseteq out \cup new
    <2>1. Ahead = out
      BY <1>1 DEF Ahead
    <2>2. out' \subseteq out \cup new
      BY <1>2 DEF Ready
    <2>3. Current(RequestsOf(operation) \ Got(parts))' \subseteq new
      BY <1>2 DEF Current
    <2> HIDE DEF new
    <2> QED BY <2>1, <2>2, <2>3 DEF Ahead
  <1>4. IsFiniteSet(new) /\ Cardinality(new) \in 0 .. 3
    <2>1. PICK a, b, c \in Requests : RequestsOf(operation) \subseteq {a, b, c}
      BY <1>1, ThreeAtMost
    <2>2. new \subseteq {<<attempt + 1, a>>, <<attempt + 1, b>>, <<attempt + 1, c>>}
      BY <2>1
    <2> HIDE DEF new
    <2> QED BY <2>2, ThreeAreFew
  <1> HIDE DEF new
  <1>5. IsFiniteSet(Ahead) /\ Cardinality(Ahead) \in Nat
    BY <1>1, AheadFinite
  <1>6. /\ IsFiniteSet(Ahead \cup new)
        /\ Cardinality(Ahead \cup new)
             = Cardinality(Ahead) + Cardinality(new) - Cardinality(Ahead \cap new)
    BY <1>4, <1>5, FS_Union
  <1>7. Cardinality(Ahead \cap new) \in Nat
    <2>1. (Ahead \cap new) \in SUBSET new
      OBVIOUS
    <2> QED BY <1>4, <2>1, FS_Subset, FS_CardinalityType
  <1>8. Cardinality(Ahead') \in Nat /\ Cardinality(Ahead') <= Cardinality(Ahead \cup new)
    <2>1. Ahead' \in SUBSET (Ahead \cup new)
      BY <1>3
    <2> QED BY <1>6, <2>1, FS_Subset, FS_CardinalityType
  <1>9. MaxAttempts(Policy)' = MaxAttempts(Policy)
    BY <1>2 DEF Policy
  <1> QED BY <1>1, <1>2, <1>4, <1>5, <1>6, <1>7, <1>8, <1>9 DEF StepsLeft

\* Every step of an operation that has begun, and of the requests it has left
\* running, lowers a number that is never negative: it cannot go on for ever.
THEOREM OperationsEndInSight == Spec => EndsInSight
  <1>1. ASSUME OperationInv, [Next]_vars, Begun
        PROVE  StepsLeft' \in 0 .. StepsLeft - 1 \/ UNCHANGED vars
    <2>1. CASE Progress
      BY <1>1, <2>1, AnswerNearsEnd, FailureNearsEnd DEF Progress
    <2>2. CASE Retry \/ StragglerEnds
      BY <1>1, <2>2, RetryNearsEnd, StragglerNearsEnd
    <2>3. CASE Begin \/ AllDone
      BY <1>1, <2>3 DEF Begin, AllDone, Begun
    <2> QED BY <1>1, <2>1, <2>2, <2>3 DEF Next
  <1>2. OperationInv /\ [Next]_vars => [Begun => StepsLeft' \in 0 .. StepsLeft - 1]_vars
    BY <1>1
  <1> QED BY <1>2, OperationInvariant, PTL DEF Spec, EndsInSight

-----------------------------------------------------------------------------
(* An operation is retried work *)

\* Before it begins an operation has not failed.
NotFailedYet == pc = "new" => error = None

LEMMA NotFailedYetStep == NotFailedYet /\ [Next]_vars => NotFailedYet'
  BY DEF NotFailedYet, Next, vars, Begin, Progress, Answered, Failed, AttemptFails, Retry,
         StragglerEnds, AllDone

\* Whether a failure may pass is a fact.
LEMMA MayPassType ==
    ASSUME NEW op, NEW failure, NEW codes
    PROVE  IsRetryable(op, failure, codes) \in BOOLEAN
  BY DEF IsRetryable

\* The first attempt undertakes the work, under the allowance of its policy.
LEMMA BeginImplements ==
    ASSUME OperationInv, NotFailedYet, Begin
    PROVE  Retried!Undertake("operation")
  <1>1. /\ pc = "new" /\ pc' = "working" /\ attempt' = 1
        /\ error = None /\ UNCHANGED <<waited, error>>
        /\ override' \in RetryOverrides
    BY SettingsTyped DEF Begin, NotFailedYet
  <1>2. Policy' \in EffectiveRetryPolicies
    BY <1>1, NormalizedPolicy, RetryAssumption DEF Policy
  <1>3. AllowanceOf' \in Retried!Allowances
    BY <1>1, <1>2, SomeAttempt
       DEF AllowanceOf, Begun, Retried!Allowances, EffectiveRetryPolicies
  <1>4. MayPass = FALSE /\ MayPass' = FALSE
    BY <1>1 DEF MayPass
  <1>5. Stages[pc] = "asked" /\ Stages[pc'] = "trying"
    BY <1>1 DEF Stages
  <1> QED BY <1>1, <1>3, <1>4, <1>5 DEF Retried!Undertake, Retried!Become, TheWork

\* What leaves the policy, the loop and the last failure alone is no step of
\* the work.
LEMMA WorkUnseen ==
    ASSUME UNCHANGED <<operation, override, pc, attempt, waited, error>>
    PROVE  UNCHANGED Retried!workVars
  BY DEF Retried!workVars, AllowanceOf, MayPass, Begun, Policy

\* An answer is a step of the work only if it is the last.
LEMMA AnswerImplements ==
    ASSUME OperationInv, NEW q \in Requests, Answered(q)
    PROVE  Retried!Succeed("operation") \/ UNCHANGED Retried!workVars
  <1>1. /\ pc = "working" /\ pc' \in {"returned", "working"}
        /\ UNCHANGED <<operation, override, attempt, waited, error>>
    BY DEF Answered
  <1>2. CASE pc' = "working"
    BY <1>1, <1>2, WorkUnseen
  <1>3. CASE pc' = "returned"
    <2>1. AllowanceOf' = AllowanceOf /\ MayPass' = MayPass
      BY <1>1, <1>3 DEF AllowanceOf, MayPass, Begun, Policy
    <2>2. Stages[pc] = "trying" /\ Stages[pc'] = "done"
      BY <1>1, <1>3 DEF Stages
    <2> QED BY <1>1, <2>1, <2>2 DEF Retried!Succeed, Retried!Become, TheWork
  <1> QED BY <1>1, <1>2, <1>3

\* The failure of an attempt ends the work, rightly, or lets it pause.
LEMMA FailureImplements ==
    ASSUME OperationInv, NEW q \in Requests, Failed(q)
    PROVE  Retried!GiveUp("operation") \/ Retried!Pause("operation")
  <1> DEFINE most == MaxAttempts(Policy)
             cap == Policy.max_delay_ms
  <1>1. /\ Begun /\ pc = "working" /\ attempt \in Nat \ {0} /\ waited \in Int
        /\ attempt <= most /\ most \in Nat \ {0} /\ cap \in Nat
    <2>1. Begun /\ pc = "working"
      BY DEF Failed, Begun
    <2> QED BY <2>1, PolicyType DEF OperationInv, VariablesTyped, LoopInv
  <1>2. PICK failure \in FailuresOf(operation) : AttemptFails(failure)
    BY DEF Failed
  <1>3. /\ UNCHANGED <<operation, override, attempt>> /\ error' = failure
        /\ failure \in Failures
    BY <1>2 DEF Failed, AttemptFails, FailuresOf
  <1> DEFINE again == IsRetryable(operation, failure, Codes)
  <1>4. failure # None
    BY <1>3, OperationsAssumption DEF OperationsAssumption
  <1>5. /\ Policy' = Policy /\ MayPass' = again /\ again \in BOOLEAN
    BY <1>3, <1>4, MayPassType DEF MayPass, Policy, Codes
  <1>6. AllowanceOf.attempts = most /\ AllowanceOf.pause = cap
    BY <1>1 DEF AllowanceOf
  <1>7. CASE ~again \/ attempt >= most
    <2>1. pc' = "raised" /\ waited' = waited
      BY <1>2, <1>7 DEF AttemptFails, Codes
    <2>2. AllowanceOf' = AllowanceOf
      BY <1>1, <1>5, <2>1 DEF AllowanceOf, Begun
    <2>3. Stages[pc] = "trying" /\ Stages[pc'] = "failed"
      BY <1>1, <2>1 DEF Stages
    <2>4. again => attempt = most
      BY <1>1, <1>7
    <2> HIDE DEF most, again
    <2> QED BY <1>3, <1>5, <1>6, <2>1, <2>2, <2>3, <2>4
            DEF Retried!GiveUp, Retried!Become, TheWork
  <1>8. CASE again /\ ~(attempt >= most)
    <2>1. pc' = "backoff" /\ \E delay \in Delays(attempt) : waited' = waited + delay
      BY <1>2, <1>8 DEF AttemptFails, Codes
    <2>2. waited' \in Int /\ waited' <= waited + cap
      BY <1>1, <2>1, DelaysCapped DEF OperationInv
    <2>3. AllowanceOf' = AllowanceOf
      BY <1>1, <1>5, <2>1 DEF AllowanceOf, Begun
    <2>4. Stages[pc] = "trying" /\ Stages[pc'] = "pausing"
      BY <1>1, <2>1 DEF Stages
    <2>5. attempt < most /\ MayPass' = TRUE
      BY <1>1, <1>5, <1>8
    <2> HIDE DEF most, cap, again
    <2> QED BY <1>3, <1>6, <2>2, <2>3, <2>4, <2>5 DEF Retried!Pause, Retried!Become, TheWork
  <1> QED BY <1>5, <1>7, <1>8

\* The next attempt.
LEMMA RetryImplements ==
    ASSUME Retry
    PROVE  Retried!TryAgain("operation")
  <1>1. /\ pc = "backoff" /\ pc' = "working" /\ attempt' = attempt + 1
        /\ UNCHANGED <<operation, override, waited, error>>
    BY DEF Retry
  <1>2. AllowanceOf' = AllowanceOf /\ MayPass' = MayPass
    BY <1>1 DEF AllowanceOf, MayPass, Begun, Policy
  <1>3. Stages[pc] = "pausing" /\ Stages[pc'] = "trying"
    BY <1>1 DEF Stages
  <1> QED BY <1>1, <1>2, <1>3 DEF Retried!TryAgain, Retried!Become, TheWork

\* Every operation of both SDKs implements the abstract retried work, so all
\* that is proved of that holds of them.
THEOREM OperationsImplementRetriedWork == Spec => ImplementsRetriedWork
  <1>1. ASSUME Init PROVE Retried!WorkInit /\ NotFailedYet
    <2>1. pc = "new" /\ attempt = 0 /\ waited = 0 /\ error = None
      BY <1>1 DEF Init
    <2>2. Stages[pc] = "asked" /\ AllowanceOf = None /\ MayPass = FALSE
      BY <2>1 DEF Stages, AllowanceOf, MayPass, Begun
    <2>3. NotFailedYet
      BY <2>1 DEF NotFailedYet
    <2> QED BY <2>1, <2>2, <2>3 DEF Retried!WorkInit
  <1>2. OperationInv /\ NotFailedYet /\ [Next]_vars
           => [Retried!WorkNext]_Retried!workVars
    <2> SUFFICES ASSUME OperationInv, NotFailedYet, [Next]_vars
                 PROVE  [Retried!WorkNext]_Retried!workVars
      OBVIOUS
    <2>1. "operation" \in TheWork
      BY DEF TheWork
    <2>2. CASE UNCHANGED vars \/ AllDone \/ StragglerEnds
      BY <2>2, WorkUnseen DEF vars, AllDone, StragglerEnds
    <2>3. CASE Begin \/ Progress \/ Retry
      BY <2>1, <2>3, BeginImplements, AnswerImplements, FailureImplements, RetryImplements
         DEF Progress, Retried!WorkNext
    <2> QED BY <2>2, <2>3 DEF Next
  <1> QED BY <1>1, <1>2, NotFailedYetStep, OperationInvariant, PTL
          DEF Spec, ImplementsRetriedWork, Retried!WorkSpec
=============================================================================
