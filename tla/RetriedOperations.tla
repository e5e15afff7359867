------------------------- MODULE RetriedOperations -------------------------
(***************************************************************************)
(* What the SDKs repeat as a whole when it fails: the TypeScript client's  *)
(* requests to the Edge API (protocol/http-transport.ts) and the           *)
(* collections of the Trust Providers of both SDKs, run by executeWithRetry*)
(* (protocol/retry.ts), execute_with_retry (internal/retry.py) or a loop   *)
(* like it.  An attempt asks for one thing or several, one after another   *)
(* or side by side; its first failure decides, and what it had asked for   *)
(* besides goes on unobserved.  Services are external and may fail anyhow. *)
(***************************************************************************)
EXTENDS RetryPolicies, FiniteSets

CONSTANTS
    Operations, \* what may be run: an SDK and what is asked for
    Overrides,  \* retry settings given to a provider, a client or a call
    Statuses    \* error statuses a service may answer

\* Python's token providers do not retry; its transport is EdgeTransport.
OperationKinds ==
    [sdk : {"ts"}, asks : {"edge", "aws", "azure", "token", "role"}]
        \cup [sdk : {"py"}, asks : {"aws", "azure", "role"}]

VARIABLES
    operation, \* which operation is run, once it has begun
    override,  \* its retry settings
    fault,     \* what is wrong with the rest of its configuration, if anything
    jitter,    \* whether its delays are jittered
    pc,        \* new, working, backoff, returned or raised
    attempt,   \* number of the current or last attempt
    out,       \* <<n, q>>: attempt n has asked for q and has no answer yet
    parts,     \* <<n, q>>: the current attempt holds the answer to q of n
    waited,    \* total delay so far between attempts
    error      \* the failure that ended the last failed attempt

vars == <<operation, override, fault, jitter, pc, attempt, out, parts, waited, error>>

-----------------------------------------------------------------------------
(* What an attempt asks for: each request and the answers it needs. *)

\* collectIdentityOnce of aws-metadata-service.ts: the session token, then
\* document and signature side by side.
TsAwsNeeds == [token |-> {}, document |-> {"token"}, signature |-> {"token"}]

\* _collect_identity_once of aws_metadata_service.py: one after another.
PyAwsNeeds ==
    [token |-> {}, document |-> {"token"}, signature |-> {"token", "document"}]

Needs(op) ==
    IF op.asks # "aws" THEN [q \in {op.asks} |-> {}]
    ELSE IF op.sdk = "ts" THEN TsAwsNeeds ELSE PyAwsNeeds

RequestsOf(op) == DOMAIN Needs(op)

Requests == {"edge", "azure", "token", "role", "document", "signature"}

\* The requests that can have been made once those in got are answered.
Ready(op, got) == {q \in RequestsOf(op) : Needs(op)[q] \subseteq got}

-----------------------------------------------------------------------------
(* How a request fails, and which failures are retried.                    *)
(*   setup        it cannot be built from the configuration, now or ever   *)
(*   unsendable   the sender rejects what was configured, now or ever: an  *)
(*                unknown scheme, a header of illegal characters           *)
(*   input        a value made or fetched for this attempt is unusable     *)
(*   unreachable  the service, token source or credentials cannot be had   *)
(*   timeout      it was aborted for taking too long                       *)
(*   garbled      its answer breaks off while it is read                   *)
(*   malformed    what it yields is empty or not what it should be         *)
(*   status       the service answered an error status                     *)
(*   other        anything else that is thrown                             *)
(* Each operation ends by some of them, retries some, and judges the rest  *)
(* by their status.  What the sender throws looks alike to most of them,   *)
(* a network that is down or a fault that stays: they retry it all.        *)

Faults == {"setup", "unsendable"}

Reasons ==
    Faults \cup
    {"input", "unreachable", "timeout", "garbled", "malformed", "status", "other"}

Failures ==
    [why : Reasons \ {"status"}, status : {0}] \cup [why : {"status"}, status : Statuses]

ASSUME OperationsAssumption ==
    /\ Operations \subseteq OperationKinds
    /\ Overrides \subseteq RetryOverrides
    /\ Statuses \subseteq Int
    /\ None \notin OperationKinds \cup RetryOverrides \cup Failures \cup Faults

\* requestJsonOnce, mapHttpError and mapTransportError.  Every body is read, so
\* that a refusal whose body breaks off is garbled and counts as no answer.
TsEdgeErrors ==
    [final |-> {"setup", "malformed"}, judged |-> {"status"},
     retried |-> {"unsendable", "unreachable", "timeout", "garbled", "other"}]

\* requestImdsText, parseMetadataToken.  A token that no header can carry makes
\* fetch throw a TypeError, which is what a network that is down does too.
TsAwsErrors ==
    [final |-> {"setup", "malformed", "other"}, judged |-> {"status"},
     retried |-> {"unsendable", "input", "unreachable", "timeout", "garbled"}]

\* requestAttestedDocument, resolveNonce, parseAttestedDocument
TsAzureErrors ==
    [final |-> {"setup", "input", "malformed", "other"}, judged |-> {"status"},
     retried |-> {"unsendable", "unreachable", "timeout", "garbled"}]

\* resolveIdentityToken, buildAuthCacheKey: whatever a token source throws is
\* taken as transient, unless it throws the SDK's own final error.
TsTokenErrors ==
    [final |-> {"setup", "input", "other"}, judged |-> {}, retried |-> {"unreachable"}]

\* resolveRegion, mapRoleSignerError.  Empty keys are final; a signer or a
\* credential provider that yields something else altogether makes the SDK
\* throw a TypeError of its own, and is asked again.
TsRoleErrors ==
    [final |-> {"setup", "input", "other"}, judged |-> {},
     retried |-> {"unreachable", "timeout", "malformed"}]

\* _collect_identity_once, _map_imds_error: no failure is final.
PyAwsErrors == [final |-> {}, judged |-> {}, retried |-> Reasons]

\* The same of Azure, where the nonce and the answer are checked.
PyAzureErrors ==
    [final |-> {"input", "malformed"}, judged |-> {},
     retried |-> Reasons \ {"input", "malformed"}]

\* collect_identity and _map_role_signer_error of aws_role.py
PyRoleErrors ==
    [final |-> {"setup", "input", "malformed", "other"}, judged |-> {},
     retried |-> {"unreachable"}]

ErrorsOf(op) ==
    CASE op = [sdk |-> "ts", asks |-> "edge"]  -> TsEdgeErrors
      [] op = [sdk |-> "ts", asks |-> "aws"]   -> TsAwsErrors
      [] op = [sdk |-> "ts", asks |-> "azure"] -> TsAzureErrors
      [] op = [sdk |-> "ts", asks |-> "token"] -> TsTokenErrors
      [] op = [sdk |-> "ts", asks |-> "role"]  -> TsRoleErrors
      [] op = [sdk |-> "py", asks |-> "aws"]   -> PyAwsErrors
      [] op = [sdk |-> "py", asks |-> "azure"] -> PyAzureErrors
      [] op = [sdk |-> "py", asks |-> "role"]  -> PyRoleErrors

ReasonsOf(op) == LET e == ErrorsOf(op) IN e.final \cup e.judged \cup e.retried

FailuresOf(op) == {f \in Failures : f.why \in ReasonsOf(op)}

\* What may fail before the first request is made: the nonce of Azure.
FailsBefore(op) == IF op.asks = "azure" THEN {"input", "other"} ELSE {}

\* isRetryableError of executeWithRetry's callers, is_retryable_error
IsRetryable(op, failure, codes) ==
    \/ failure.why \in ErrorsOf(op).retried
    \/ failure.why \in ErrorsOf(op).judged /\ IsRetryableHttpStatus(failure.status, codes)

-----------------------------------------------------------------------------
(* The executor. *)

\* mergeRetryPolicy of TypeScript, as of Python but for its own jitter.
Policy == MergeRetryPolicy(override)

\* calculateBackoffDelayMs
Delays(n) == IF jitter THEN BackoffDelays(n, Policy) ELSE {CappedDelay(n, Policy)}

\* A Trust Provider has one setting, a request to the Edge API the client's
\* and the call's. None of them is validated.
SettingsOf(op) ==
    IF op.asks = "edge"
    THEN {MergeRetryOverrides(client, call) : client, call \in Overrides}
    ELSE Overrides

Init ==
    /\ operation = None /\ override = None /\ fault = None /\ jitter = TRUE
    /\ pc = "new" /\ attempt = 0
    /\ out = {} /\ parts = {}
    /\ waited = 0 /\ error = None

Current(requests) == {<<attempt, q>> : q \in requests}

Got(held) == {part[2] : part \in held}

\* Why a request of the current attempt may fail: a fault of the configuration
\* fails the first request of every attempt, and nothing else gets that far.
\* The value fetched for an attempt at AWS is the token.
MayFailFor(why) ==
    /\ IF fault = None THEN why \notin Faults
       ELSE why \in {fault} \cup FailsBefore(operation)
    /\ why = "input" /\ operation.asks = "aws" => Got(parts) = {"token"}

\* requestJson, collectIdentity, collectIdentityWithMetadata: the first attempt.
Begin ==
    /\ pc = "new"
    /\ operation' \in Operations
    /\ override' \in SettingsOf(operation')
    /\ fault' \in {None} \cup (Faults \cap ReasonsOf(operation'))
    /\ jitter' \in (IF operation'.sdk = "ts" THEN BOOLEAN ELSE {TRUE})
    /\ attempt' = 1
    /\ out' = {<<1, q>> : q \in Ready(operation', {})}
    /\ pc' = "working"
    /\ UNCHANGED <<parts, waited, error>>

\* Mutant: the first answer of several is enough.
AnsweredFirst(q) ==
    /\ pc = "working" /\ <<attempt, q>> \in out /\ fault = None
    /\ parts' = parts \cup {<<attempt, q>>}
    /\ LET next == Ready(operation, Got(parts')) \ Ready(operation, Got(parts)) IN
        /\ out' = (out \ {<<attempt, q>>}) \cup Current(next)
        /\ pc' = IF next = {} THEN "returned" ELSE "working"
    /\ UNCHANGED <<operation, override, fault, jitter, attempt, waited, error>>

\* Mutant: what has been answered is asked for again.
AnsweredAskingAgain(q) ==
    /\ pc = "working" /\ <<attempt, q>> \in out /\ fault = None
    /\ parts' = parts \cup {<<attempt, q>>}
    /\ out' = (out \ {<<attempt, q>>}) \cup Current(Ready(operation, Got(parts')))
    /\ pc' = IF Got(parts') = RequestsOf(operation) THEN "returned" ELSE "working"
    /\ UNCHANGED <<operation, override, fault, jitter, attempt, waited, error>>

\* A request of the current attempt succeeds: the requests that needed its
\* answer are made, or, after the last of them, the operation returns.
Answered(q) ==
    /\ pc = "working" /\ <<attempt, q>> \in out /\ fault = None
    /\ parts' = parts \cup {<<attempt, q>>}
    /\ LET next == Ready(operation, Got(parts')) \ Ready(operation, Got(parts)) IN
        out' = (out \ {<<attempt, q>>}) \cup Current(next)
    /\ pc' = IF Got(parts') = RequestsOf(operation) THEN "returned" ELSE "working"
    /\ UNCHANGED <<operation, override, fault, jitter, attempt, waited, error>>

\* Mutant: one attempt too few.
AttemptFailsEarly(failure) ==
    LET again == IsRetryable(operation, failure, Policy.retry_on_status_codes) IN
    /\ error' = failure
    /\ IF ~again \/ attempt + 1 >= MaxAttempts(Policy)
       THEN pc' = "raised" /\ UNCHANGED waited
       ELSE pc' = "backoff" /\ \E delay \in Delays(attempt) : waited' = waited + delay

\* The catch clause of executeWithRetry: throw, or wait and try again.
AttemptFails(failure) ==
    LET again == IsRetryable(operation, failure, Policy.retry_on_status_codes) IN
    /\ error' = failure
    /\ IF ~again \/ attempt >= MaxAttempts(Policy)
       THEN pc' = "raised" /\ UNCHANGED waited
       ELSE pc' = "backoff" /\ \E delay \in Delays(attempt) : waited' = waited + delay

\* A request of the current attempt fails, and the attempt with it.
Failed(q) ==
    /\ pc = "working" /\ <<attempt, q>> \in out
    /\ \E failure \in FailuresOf(operation) :
        MayFailFor(failure.why) /\ AttemptFails(failure)
    /\ out' = out \ {<<attempt, q>>}
    /\ UNCHANGED <<operation, override, fault, jitter, attempt, parts>>

\* Mutant: answers of the failed attempt are kept.
RetryKeepingParts ==
    /\ pc = "backoff"
    /\ attempt' = attempt + 1
    /\ out' = out \cup {<<attempt + 1, q>> : q \in Ready(operation, Got(parts)) \ Got(parts)}
    /\ pc' = "working"
    /\ UNCHANGED <<operation, override, fault, jitter, parts, waited, error>>

\* Mutant: the attempts are not counted.
RetryUncounted ==
    /\ pc = "backoff"
    /\ parts' = {}
    /\ out' = out \cup {<<attempt, q>> : q \in Ready(operation, {})}
    /\ pc' = "working"
    /\ UNCHANGED <<operation, override, fault, jitter, attempt, waited, error>>

\* The delay is over: everything is asked for anew.
Retry ==
    /\ pc = "backoff"
    /\ attempt' = attempt + 1
    /\ parts' = {}
    /\ out' = out \cup {<<attempt + 1, q>> : q \in Ready(operation, {})}
    /\ pc' = "working"
    /\ UNCHANGED <<operation, override, fault, jitter, waited, error>>

\* A request whose attempt is over ends, one way or the other, unobserved:
\* Promise.all has settled.
StragglerEnds ==
    /\ \E x \in out :
        /\ x[1] < attempt \/ pc # "working"
        /\ out' = out \ {x}
    /\ UNCHANGED <<operation, override, fault, jitter, pc, attempt, parts, waited, error>>

Progress == \E q \in Requests : Answered(q) \/ Failed(q)

AllDone == pc \in {"returned", "raised"} /\ out = {} /\ UNCHANGED vars

Next == Begin \/ Progress \/ Retry \/ StragglerEnds \/ AllDone

Spec == Init /\ [][Next]_vars

\* A request ends by its answer, or by its abort timer or its socket's timeout;
\* a delay ends.
FairSpec == Spec /\ WF_vars(Progress) /\ WF_vars(Retry) /\ WF_vars(StragglerEnds)

-----------------------------------------------------------------------------
(* Properties *)

Begun == pc # "new"

\* Every variable has its type, and whatever a provider, a client or a call is
\* given as settings, the policy made of them is usable.
TypeOK ==
    /\ pc \in {"new", "working", "backoff", "returned", "raised"}
    /\ operation \in OperationKinds \cup {None}
    /\ override \in RetryOverrides \cup {None}
    /\ Begun => operation # None /\ override # None /\ Policy \in EffectiveRetryPolicies
    /\ fault \in Faults \cup {None} /\ jitter \in BOOLEAN
    /\ attempt \in Nat /\ waited \in Int
    /\ out \subseteq Nat \X Requests
    /\ parts \subseteq Nat \X Requests
    /\ error \in Failures \cup {None}

\* An operation returns the answers of its last attempt and no others: document
\* and signature of an identity go with the session token of one attempt, however
\* many attempts had failed half-way and whatever came in late.
CollectedTogether ==
    pc = "returned" => parts = Current(RequestsOf(operation))

\* A failed attempt leaves at most one request running behind its caller's
\* back, and an operation that has returned none of its last attempt, so that
\* retries add no more load than one request each.
StragglersAreFew ==
    \A x, y \in out :
        /\ x[1] = y[1] /\ (x[1] < attempt \/ pc # "working") => x = y
        /\ pc = "returned" => x[1] < attempt

\* However its attempts fail, an operation makes no more of them than its
\* policy allows, and waits no longer than that many capped delays.
EffortIsBounded ==
    Begun =>
        /\ attempt <= MaxAttempts(Policy)
        /\ waited <= (MaxAttempts(Policy) - 1) * Policy.max_delay_ms

\* An operation raises an error that may be retried only after its last attempt.
SurrendersLast ==
    pc = "raised" /\ IsRetryable(operation, error, Policy.retry_on_status_codes)
        => attempt = MaxAttempts(Policy)

\* docs/architecture.md, Retry Summary: the failures that retries are for.
IsTransient(failure, codes) ==
    \/ failure.why \in {"unreachable", "timeout", "garbled"}
    \/ failure.why = "status" /\ IsRetryableHttpStatus(failure.status, codes)

\* A Python Trust Provider asks again only after a failure that may pass, as the
\* documentation has it: a faulty configuration, an empty answer or a refusal
\* fails fast.
PythonFailsFast ==
    operation # None /\ operation.sdk = "py" /\ pc = "backoff" =>
        IsTransient(error, Policy.retry_on_status_codes)

\* The answers that can still come in: of requests that run, and of those that
\* the current attempt has yet to make.
Ahead ==
    out \cup IF pc = "working" THEN Current(RequestsOf(operation) \ Got(parts)) ELSE {}

\* How many steps an operation that has begun can still take, at the most: for
\* each attempt left a retry and three answers, and the answers ahead.
StepsLeft == 4 * (MaxAttempts(Policy) - attempt) + Cardinality(Ahead)

\* Whatever an operation or one of its requests does brings its end nearer: no
\* order of answers, failures and stragglers makes it go round in circles, and
\* a request left running cannot set off more.
EndsInSight == [][Begun => StepsLeft' \in 0 .. StepsLeft - 1]_vars

\* Every operation returns or raises, and none of its requests is left running.
OperationsEnd == Begun ~> pc \in {"returned", "raised"} /\ out = {}

-----------------------------------------------------------------------------
(* An operation is retried work, whatever its attempts are made of.        *)

Stages == [new |-> "asked", working |-> "trying", backoff |-> "pausing",
           returned |-> "done", raised |-> "failed"]

TheWork == {"operation"}

AllowanceOf ==
    IF Begun
    THEN [attempts |-> MaxAttempts(Policy), pause |-> Policy.max_delay_ms]
    ELSE None

MayPass == error # None /\ IsRetryable(operation, error, Policy.retry_on_status_codes)

Retried == INSTANCE RetriedWork WITH
    Work <- TheWork, NoAllowance <- None,
    stage <- [w \in TheWork |-> Stages[pc]],
    allowance <- [w \in TheWork |-> AllowanceOf],
    attempts <- [w \in TheWork |-> attempt],
    paused <- [w \in TheWork |-> waited],
    passing <- [w \in TheWork |-> MayPass]

\* Both SDKs keep the promise for every operation they repeat: answers that
\* come in one by one and requests left running change nothing about when an
\* operation goes on, gives up or returns, and it does each only once.
ImplementsRetriedWork == Retried!WorkSpec
=============================================================================
