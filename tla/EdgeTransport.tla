--------------------------- MODULE EdgeTransport ---------------------------
(***************************************************************************)
(* Requests of the Python SDK to the Edge API                              *)
(* (py/src/aembit_edge/internal/protocol/http_transport.py): each is sent  *)
(* up to MaxAttempts times, waiting between attempts, until one is         *)
(* answered or fails for good.  The Edge API and the network are external: *)
(* a request or its answer may be lost, delayed past the timeout or        *)
(* garbled, and an attempt that failed here may have been carried out.     *)
(***************************************************************************)
EXTENDS RetryPolicies

CONSTANTS
    Requests,       \* requests, each made by a call of its own
    ClientOverride, \* the client's retry setting
    CallOverrides,  \* retry settings a call may bring
    Statuses        \* error statuses the Edge API may answer

ASSUME TransportAssumption ==
    /\ ClientOverride \in RetryOverrides
    /\ \A field \in NumericFields : ClientOverride[field] # Invalid
    /\ CallOverrides \subseteq RetryOverrides /\ None \notin RetryOverrides
    /\ Statuses \subseteq Int

VARIABLES
    pc,         \* new, sending, backoff, returned or raised
    override,   \* request.retry, from when its call has begun
    attempt,    \* number of the current or last attempt
    waited,     \* total delay so far between attempts
    retryable,  \* the last attempt's error.retryable
    received    \* attempts that reached the Edge API

vars == <<pc, override, attempt, waited, retryable, received>>

Init ==
    /\ pc = [r \in Requests |-> "new"]
    /\ override = [r \in Requests |-> None]
    /\ attempt = [r \in Requests |-> 0]
    /\ waited = [r \in Requests |-> 0]
    /\ retryable = [r \in Requests |-> FALSE]
    /\ received = [r \in Requests |-> 0]

\* The policy of all attempts of request r.
Policy(r) == MergeRetryPolicy(MergeRetryOverrides(ClientOverride, override[r]))

GoTo(r, l) == pc' = [pc EXCEPT ![r] = l]

\* _validate_resiliency_settings
IsValidOverride(o) == \A field \in NumericFields : o[field] # Invalid

\* The call's own check of its settings, before anything is sent.
Reject(r) ==
    /\ pc[r] = "new"
    /\ \E o \in CallOverrides : ~IsValidOverride(o)
    /\ GoTo(r, "raised")
    /\ UNCHANGED <<override, attempt, waited, retryable, received>>

\* request_json begins; the settings of the client are known to be valid.
Begin(r) ==
    /\ pc[r] = "new"
    /\ \E o \in CallOverrides :
        /\ IsValidOverride(o)
        /\ override' = [override EXCEPT ![r] = o]
    /\ attempt' = [attempt EXCEPT ![r] = 1]
    /\ GoTo(r, "sending")
    /\ UNCHANGED <<waited, retryable, received>>

\* Mutant: one attempt too few.
AttemptFailsEarly(r, again) ==
    /\ retryable' = [retryable EXCEPT ![r] = again]
    /\ IF ~again \/ attempt[r] + 1 >= MaxAttempts(Policy(r))
       THEN GoTo(r, "raised") /\ UNCHANGED waited
       ELSE /\ GoTo(r, "backoff")
            /\ \E delay \in BackoffDelays(attempt[r], Policy(r)) :
                  waited' = [waited EXCEPT ![r] = @ + delay]
    /\ UNCHANGED <<override, attempt>>

\* The except clause of request_json: raise, or wait and try again.  (A delay of
\* more than time.sleep takes ends the request too: FailedPause of CredentialCall.)
AttemptFails(r, again) ==
    /\ retryable' = [retryable EXCEPT ![r] = again]
    /\ IF ~again \/ attempt[r] >= MaxAttempts(Policy(r))
       THEN GoTo(r, "raised") /\ UNCHANGED waited
       ELSE /\ GoTo(r, "backoff")
            /\ \E delay \in BackoffDelays(attempt[r], Policy(r)) :
                  waited' = [waited EXCEPT ![r] = @ + delay]
    /\ UNCHANGED <<override, attempt>>

\* The request cannot be built: its path cannot be joined to the base URL, a
\* GET has a body, or a body is no JSON.  This shows at the first attempt, and
\* is final.  What only the sender finds wrong, as with a base URL that has no
\* scheme, is taken for a failure of the network: see Unanswered.
Unsendable(r) ==
    /\ pc[r] = "sending" /\ attempt[r] = 1
    /\ AttemptFails(r, FALSE)
    /\ UNCHANGED received

\* The Edge API sees the attempt.  (An attempt may take more than one HTTP
\* request, where urlopen follows a redirect.)
Arrives(r) == received' = [received EXCEPT ![r] = @ + 1]

\* A 2xx answer with a JSON body.
Answered(r) ==
    /\ pc[r] = "sending"
    /\ Arrives(r)
    /\ GoTo(r, "returned")
    /\ UNCHANGED <<override, attempt, waited, retryable>>

\* A 2xx answer whose body is empty or no JSON: final, though carried out.
AnsweredGarbage(r) ==
    /\ pc[r] = "sending"
    /\ Arrives(r)
    /\ AttemptFails(r, FALSE)

\* Any other status with a body that can be read, map_http_error.
AnsweredError(r) ==
    /\ pc[r] = "sending"
    /\ Arrives(r)
    /\ \E status \in Statuses :
        AttemptFails(r, IsRetryableHttpStatus(status, Policy(r).retry_on_status_codes))

\* An answer whose body breaks off or is not UTF-8: map_transport_error takes
\* it for a failure of the network, so that it is sent again whatever status
\* it had, though the Edge API carried it out or refused it for good.
AnsweredUnreadably(r) ==
    /\ pc[r] = "sending"
    /\ Arrives(r)
    /\ AttemptFails(r, TRUE)

\* No answer within the timeout, or none at all: map_transport_error again.
\* The Edge API may have seen the request or not.
Unanswered(r) ==
    /\ pc[r] = "sending"
    /\ Arrives(r) \/ UNCHANGED received
    /\ AttemptFails(r, TRUE)

\* Mutant: the attempts are not counted.
ResendUncounted(r) ==
    /\ pc[r] = "backoff"
    /\ GoTo(r, "sending")
    /\ UNCHANGED <<override, attempt, waited, retryable, received>>

\* The delay is over.
Resend(r) ==
    /\ pc[r] = "backoff"
    /\ attempt' = [attempt EXCEPT ![r] = @ + 1]
    /\ GoTo(r, "sending")
    /\ UNCHANGED <<override, waited, retryable, received>>

Attempt(r) ==
    \/ Unsendable(r) \/ Answered(r) \/ AnsweredGarbage(r) \/ AnsweredError(r)
    \/ AnsweredUnreadably(r) \/ Unanswered(r)

AllDone ==
    /\ \A r \in Requests : pc[r] \in {"returned", "raised"}
    /\ UNCHANGED vars

Next ==
    \/ \E r \in Requests : Reject(r) \/ Begin(r) \/ Attempt(r) \/ Resend(r)
    \/ AllDone

Spec == Init /\ [][Next]_vars

\* An attempt ends by its answer, or by its timeout where one is configured,
\* and a delay ends.
FairSpec == Spec /\ \A r \in Requests : WF_vars(Attempt(r)) /\ WF_vars(Resend(r))

-----------------------------------------------------------------------------
(* Properties *)

Begun(r) == override[r] # None

\* Every variable has its type, and so has the policy of every request: whatever
\* is configured, it allows at least one attempt and never waits for less than 0.
TransportTypeOK ==
    /\ pc \in [Requests -> {"new", "sending", "backoff", "returned", "raised"}]
    /\ override \in [Requests -> RetryOverrides \cup {None}]
    /\ attempt \in [Requests -> Nat]
    /\ waited \in [Requests -> Nat]
    /\ retryable \in [Requests -> BOOLEAN]
    /\ received \in [Requests -> Nat]
    /\ \A r \in Requests : Begun(r) => Policy(r) \in EffectiveRetryPolicies

\* However its attempts fail, a request burdens the Edge API with no more
\* attempts than its policy allows, and its caller with no more waiting than
\* that many capped delays; a policy that is not enabled never waits.
EffortIsBounded ==
    \A r \in Requests : Begun(r) =>
        /\ received[r] <= attempt[r] /\ attempt[r] <= MaxAttempts(Policy(r))
        /\ waited[r] <= (MaxAttempts(Policy(r)) - 1) * Policy(r).max_delay_ms

\* A request raises an error that says it may be retried only when it has used
\* up every attempt of its policy.
SurrendersLast ==
    \A r \in Requests :
        pc[r] = "raised" /\ retryable[r] => attempt[r] = MaxAttempts(Policy(r))

\* Calls that share a flight because their retry keys agree would have retried
\* alike: the same number of attempts, after the same answers and delays, so
\* that none of them suffers from another's policy.
SharersRetryAlike ==
    \A r, q \in Requests :
        LET p == Policy(r) p2 == Policy(q) IN
        /\ Begun(r) /\ Begun(q) /\ RetryKey(p) = RetryKey(p2)
        => /\ MaxAttempts(p) = MaxAttempts(p2)
           /\ \A n \in 1 .. MaxAttempts(p) - 1 :
                 /\ BackoffDelays(n, p) = BackoffDelays(n, p2)
                 /\ \A s \in Statuses :
                       IsRetryableHttpStatus(s, p.retry_on_status_codes)
                       <=> IsRetryableHttpStatus(s, p2.retry_on_status_codes)

\* What a call sets for itself bounds its request, whatever the client's own
\* setting: one that opts out of retries is sent once and never waits.
CallSettingsWin ==
    \A r \in Requests : Begun(r) =>
        /\ override[r].enabled = FALSE => attempt[r] <= 1 /\ waited[r] = 0
        /\ override[r].max_attempts \in Nat \ {0} =>
              attempt[r] <= override[r].max_attempts

\* Every request ends, for each of its attempts and its delays does.
RequestsEnd ==
    \A r \in Requests : Begun(r) ~> pc[r] \in {"returned", "raised"}

-----------------------------------------------------------------------------
(* Requests are retried work: their allowance is what the policy makes of  *)
(* the client's settings and the call's.                                   *)

Stages == [new |-> "asked", sending |-> "trying", backoff |-> "pausing",
           returned |-> "done", raised |-> "failed"]

StageOf(r) == Stages[pc[r]]
AllowanceOf(r) ==
    IF Begun(r)
    THEN [attempts |-> MaxAttempts(Policy(r)), pause |-> Policy(r).max_delay_ms]
    ELSE None

Retried == INSTANCE RetriedWork WITH
    Work <- Requests, NoAllowance <- None,
    stage <- [r \in Requests |-> StageOf(r)],
    allowance <- [r \in Requests |-> AllowanceOf(r)],
    attempts <- attempt, paused <- waited, passing <- retryable

\* The transport keeps the promise: whatever order the network answers, loses
\* or garbles attempts in, a request goes on only after a failure that may pass,
\* within an allowance settled at its start, and once it has ended it stays so.
ImplementsRetriedWork == Retried!WorkSpec
=============================================================================
