------------------------ MODULE RetryPoliciesProofs ------------------------
(***************************************************************************)
(* Facts about retry policies for every override, attempt and delay: what  *)
(* the proofs about the retry loops of both SDKs rest on.                  *)
(***************************************************************************)
EXTENDS RetryPolicies, TLAPS

\* Laying one override over another gives an override.
LEMMA MergedOverride ==
    ASSUME NEW base \in RetryOverrides, NEW call \in RetryOverrides
    PROVE  MergeRetryOverrides(base, call) \in RetryOverrides
  <1> DEFINE o == MergeRetryOverrides(base, call)
  <1>1. o = [enabled |-> Given(call.enabled, base.enabled),
             max_attempts |-> Given(call.max_attempts, base.max_attempts),
             base_delay_ms |-> Given(call.base_delay_ms, base.base_delay_ms),
             max_delay_ms |-> Given(call.max_delay_ms, base.max_delay_ms),
             retry_on_status_codes |->
                Given(call.retry_on_status_codes, base.retry_on_status_codes)]
    BY DEF MergeRetryOverrides, RetryOverrides
  <1>2. /\ Given(call.enabled, base.enabled) \in BOOLEAN \cup {None}
        /\ Given(call.max_attempts, base.max_attempts) \in Int \cup {None, Invalid}
        /\ Given(call.base_delay_ms, base.base_delay_ms) \in Int \cup {None, Invalid}
        /\ Given(call.max_delay_ms, base.max_delay_ms) \in Int \cup {None, Invalid}
        /\ Given(call.retry_on_status_codes, base.retry_on_status_codes)
              \in {None} \cup SUBSET Int
    BY DEF Given, RetryOverrides
  <1> QED BY <1>1, <1>2 DEF RetryOverrides

\* A normalised setting is an integer no smaller than its lower bound.
LEMMA NormalizedRange ==
    ASSUME RetryAssumption, NEW low \in Int,
           NEW value \in Int \cup {None, Invalid},
           NEW default \in Int, default >= low,
           NEW fallback \in Int, fallback >= low
    PROVE  /\ Normalized(value, default, fallback, low) \in Int
           /\ Normalized(value, default, fallback, low) >= low
  BY DEF Normalized, AtLeast, RetryAssumption

\* Whatever was configured, the policy allows an attempt and never waits for
\* less than nothing.
LEMMA NormalizedPolicy ==
    ASSUME RetryAssumption, NEW o \in RetryOverrides
    PROVE  MergeRetryPolicy(o) \in EffectiveRetryPolicies
  <1> DEFINE base == Normalized(o.base_delay_ms, DefaultBaseDelay, 0, 0)
             most == Normalized(o.max_attempts, DefaultMaxAttempts, 1, 1)
             cap == Normalized(o.max_delay_ms, DefaultMaxDelay, base, 0)
             longest == AtLeast(base, cap)
             enabled == Given(o.enabled, TRUE)
             codes == Given(o.retry_on_status_codes, {})
  <1>1. /\ o.base_delay_ms \in Int \cup {None, Invalid}
        /\ o.max_attempts \in Int \cup {None, Invalid}
        /\ o.max_delay_ms \in Int \cup {None, Invalid}
    BY DEF RetryOverrides
  <1>2. /\ DefaultMaxAttempts \in Int /\ DefaultMaxAttempts >= 1
        /\ DefaultBaseDelay \in Int /\ DefaultBaseDelay >= 0
        /\ DefaultMaxDelay \in Int /\ DefaultMaxDelay >= 0
        /\ 0 \in Int /\ 1 \in Int /\ 0 >= 0 /\ 1 >= 1
    BY DEF RetryAssumption
  <1>3. base \in Int /\ base >= 0
    BY <1>1, <1>2, NormalizedRange
  <1>4. most \in Int /\ most >= 1
    BY <1>1, <1>2, NormalizedRange
  <1>5. cap \in Int /\ cap >= 0
    BY <1>1, <1>2, <1>3, NormalizedRange
  <1>6. longest \in Nat
    BY <1>3, <1>5 DEF AtLeast
  <1>7. enabled \in BOOLEAN /\ codes \in SUBSET Int
    BY DEF Given, RetryOverrides
  <1>8. MergeRetryPolicy(o) =
          [enabled |-> enabled, max_attempts |-> most, base_delay_ms |-> base,
           max_delay_ms |-> longest, retry_on_status_codes |-> codes]
    BY DEF MergeRetryPolicy
  <1>9. base \in Nat /\ most \in Nat \ {0}
    BY <1>3, <1>4
  <1> HIDE DEF base, most, cap, longest, enabled, codes
  <1> QED BY <1>6, <1>7, <1>8, <1>9 DEF EffectiveRetryPolicies

\* A policy allows at least the first attempt.
LEMMA SomeAttempt ==
    ASSUME NEW p \in EffectiveRetryPolicies
    PROVE  MaxAttempts(p) \in Nat \ {0}
  BY DEF MaxAttempts, EffectiveRetryPolicies

\* No delay exceeds the cap of its policy.
LEMMA DelayCapped ==
    ASSUME NEW p \in EffectiveRetryPolicies, NEW n \in Nat \ {0},
           NEW delay \in BackoffDelays(n, p)
    PROVE  delay \in Nat /\ delay <= p.max_delay_ms
  <1>1. p.base_delay_ms * 2 ^ (n - 1) \in Int
    BY DEF EffectiveRetryPolicies
  <1>2. CappedDelay(n, p) \in Int /\ CappedDelay(n, p) <= p.max_delay_ms
    BY <1>1 DEF CappedDelay, EffectiveRetryPolicies
  <1> QED BY <1>2 DEF BackoffDelays, EffectiveRetryPolicies

-----------------------------------------------------------------------------
(* Delays add up *)

\* One more delay stays within one more allowance.
LEMMA AllowanceGrows ==
    ASSUME NEW a \in Nat \ {0}, NEW m \in Nat, NEW w \in Int, NEW d \in Int,
           w <= (a - 1) * m, d <= m
    PROVE  w + d <= a * m
  <1>1. (a - 1) * m + m = a * m
    OBVIOUS
  <1> QED BY <1>1

\* A request may wait longer before a later attempt.
LEMMA AllowanceMonotone ==
    ASSUME NEW a \in Nat, NEW b \in Nat, a <= b, NEW m \in Nat
    PROVE  a * m <= b * m
  OBVIOUS
=============================================================================
