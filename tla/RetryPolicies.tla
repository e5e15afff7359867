--------------------------- MODULE RetryPolicies ---------------------------
(***************************************************************************)
(* Retry policies of the Python SDK (py/src/aembit_edge/internal/retry.py) *)
(* as operators: how a call's override is laid over the client's, what the *)
(* result is normalised to, which answers it retries, how long it waits    *)
(* between attempts, and the key under which equal policies share a flight.*)
(***************************************************************************)
EXTENDS Integers

CONSTANTS
    None,               \* a field that was not given
    Invalid,            \* a numeric field that is no finite number
    DefaultMaxAttempts, \* DEFAULT_RETRY_POLICY, delays in any unit
    DefaultBaseDelay,
    DefaultMaxDelay

ASSUME RetryAssumption ==
    /\ None \notin Int \cup BOOLEAN /\ Invalid \notin Int /\ None # Invalid
    /\ DefaultMaxAttempts \in Nat \ {0}
    /\ DefaultBaseDelay \in Nat /\ DefaultMaxDelay \in Nat
    /\ DefaultBaseDelay <= DefaultMaxDelay

\* RetryPolicy: an override, any of whose fields may be missing.
RetryOverrides ==
    [enabled : BOOLEAN \cup {None},
     max_attempts : Int \cup {None, Invalid},
     base_delay_ms : Int \cup {None, Invalid},
     max_delay_ms : Int \cup {None, Invalid},
     retry_on_status_codes : {None} \cup SUBSET Int]

\* EffectiveRetryPolicy; its jitter is always on.
EffectiveRetryPolicies ==
    [enabled : BOOLEAN, max_attempts : Nat \ {0}, base_delay_ms : Nat,
     max_delay_ms : Nat, retry_on_status_codes : SUBSET Int]

NumericFields == {"max_attempts", "base_delay_ms", "max_delay_ms"}

Given(value, default) == IF value = None THEN default ELSE value

AtLeast(low, value) == IF value < low THEN low ELSE value

\* Mutant: the client's settings win over the call's.
MergeClientFirst(base, request) ==
    [field \in DOMAIN base |-> Given(base[field], request[field])]

\* merge_retry_overrides: field by field, the call's setting if it has one.
\* The override None, and the merge of two Nones, are the one without fields.
MergeRetryOverrides(base, request) ==
    [field \in DOMAIN base |-> Given(request[field], base[field])]

\* Mutant: settings out of range are taken as they are.
NormalizedUnclamped(value, default, fallback, low) ==
    IF value = None THEN default ELSE IF value = Invalid THEN fallback ELSE value

\* _normalize_max_attempts, _normalize_base_delay_ms, _normalize_max_delay_ms
Normalized(value, default, fallback, low) ==
    IF value = None THEN default
    ELSE IF value = Invalid THEN fallback ELSE AtLeast(low, value)

\* merge_retry_policy
MergeRetryPolicy(override) ==
    LET base == Normalized(override.base_delay_ms, DefaultBaseDelay, 0, 0) IN
    [enabled |-> Given(override.enabled, TRUE),
     max_attempts |-> Normalized(override.max_attempts, DefaultMaxAttempts, 1, 1),
     base_delay_ms |-> base,
     max_delay_ms |->
        AtLeast(base, Normalized(override.max_delay_ms, DefaultMaxDelay, base, 0)),
     retry_on_status_codes |-> Given(override.retry_on_status_codes, {})]

\* The number of attempts a policy allows, the first included.
MaxAttempts(policy) == IF policy.enabled THEN policy.max_attempts ELSE 1

\* is_retryable_http_status
IsRetryableHttpStatus(status, codes) ==
    status = 429 \/ status >= 500 \/ status \in codes

\* Mutant: the delay grows past its cap.
UncappedDelay(n, policy) == policy.base_delay_ms * 2 ^ n

\* The delay before retry n, doubled each time up to the cap.
CappedDelay(n, policy) ==
    LET exponential == policy.base_delay_ms * 2 ^ (n - 1)
    IN  IF policy.max_delay_ms < exponential THEN policy.max_delay_ms ELSE exponential

\* calculate_backoff_delay_ms: full jitter takes any part of that, never all.
BackoffDelays(n, policy) ==
    IF CappedDelay(n, policy) <= 0 THEN {0} ELSE 0 .. CappedDelay(n, policy) - 1

\* Mutant: the key forgets how long the policy waits.
KeyWithoutDelays(policy) ==
    [policy EXCEPT !.base_delay_ms = 0, !.max_delay_ms = 0]

\* serialize_effective_retry_policy_key: policies that do not retry are all one.
RetryKey(policy) ==
    IF policy.enabled THEN policy
    ELSE [policy EXCEPT !.max_attempts = 1, !.base_delay_ms = 0, !.max_delay_ms = 0,
                        !.retry_on_status_codes = {}]
=============================================================================
