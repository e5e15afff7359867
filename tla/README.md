# A TLA+ model of the Aembit Edge SDKs

The repository holds two SDKs for the Aembit Edge API, one in Python
(`py/src/aembit_edge`, synchronous, used from several threads) and one in
TypeScript (`ts/src`, asynchronous, on one event loop). An application makes an
`EdgeClient`, gives it a Trust Provider that can prove what workload it runs in,
and asks for credentials; the client authenticates when it has to, keeps the
bearer session it obtains, and shares the work of concurrent calls.

These modules model that behaviour from the source. Paths below are relative to
the repository root.

1. [Inventory](#inventory)
2. [The modules and the code](#the-modules-and-the-code)
3. [The runs](#the-runs)
4. [The proofs](#the-proofs)
5. [Where code and documents disagree](#where-code-and-documents-disagree)
6. [What is not modelled](#what-is-not-modelled)
7. [Plan](#plan)

## Inventory

| Component | State | Operations | Hard behaviour |
| --- | --- | --- | --- |
| Python client, `client.py`, `internal/client/` | one cached session `_token_state`, two in-flight tables, `_state_lock`, the clock | `authenticate()`, `get_credential()` | several threads at once; check-then-act across two critical sections; leaders that fail or are interrupted; sessions that expire while in use; one cache slot for all scopes |
| Python transport, `internal/protocol/http_transport.py`, `internal/retry.py` | per request: attempt, delay, last error | `request_json` | lost or late answers, retries of a POST, merged policies, boundaries of attempts and delays |
| Edge API adapter and parsers, `internal/protocol/edge_api.py`, `internal/client/*_parsing.py` | none | `auth`, `credentials`, validation of arguments and answers | resolves the Resource Set a second time; counts a lifetime from the answer's arrival; bounds of ports, lifetimes and instants |
| Python metadata Trust Providers (AWS, Azure IMDS) | per collection: attempt, token, nonce | `collect_identity` | dependent requests of which any may fail; retry of the whole sequence |
| Python AWS role Trust Provider | per collection: attempt | `collect_identity` | its own copy of the retry loop; errors of the signer told apart |
| Python token Trust Providers (OIDC, GitHub, GitLab, Terraform, GCP, Kubernetes) | the source they read: a text, a callable, a file | `collect_identity`, `get_identity_single_flight_key` | sources change while calls collect and share collections; a file may go between the look for it and its opening |
| Workload details, `client.py:521-630` | none | sanitise, merge | recursion on JSON trees, where an object may meet a leaf |
| TypeScript client, `ts/src/client/edge-client.ts` | one cached session `tokenState`, two Maps of promises, the clock | `authenticate()`, `getCredential()` | interleaving at every `await`; promises shared between calls; reactions that run long after a promise settled |
| TypeScript transport, `ts/src/internal/protocol/` | per request: attempt, delay, abort timer | `requestJson` | as in Python; an abort that races the answer |
| TypeScript Trust Providers, `ts/src/internal/trust-providers/` | per collection: attempt, token | `collectIdentityWithMetadata`, `getIdentitySingleFlightKey` | metadata requests in parallel; a retry of the whole while one is still out; static and dynamic token sources |
| Signers, parsers, loggers, public types | none | pure functions | none |

How they interact: a call of the client asks the Trust Provider for the
identity (sharing one collection among concurrent calls if the provider names a
single-flight key), looks for a cached session, else authenticates through the
Edge API adapter (sharing one authentication among calls with equal Resource
Set, cache key and retry policy), stores the session and, for
`get_credential()`, sends the credentials request with it. Every request runs
through the transport's retry loop. The client's lock is held for a few
assignments at a time and never across a call that can block.

What makes each part correct:

* client: concurrent calls share work and never run the same keyed work twice
  at once; no call waits for work nobody does; nothing finished stays in a
  table; a call uses only a session issued for its own Resource Set and cache
  key; a failure never costs another call its session; every call comes back;
* a call's way: arguments that cannot succeed bother nobody; what a request
  names and the bearer it carries belong together; a session that counts as valid
  is honoured; the class of an error tells the stage that failed, for numbers
  beyond what Python can count with as well;
* transport: attempts, delays and final errors stay within the policy of the
  call, whatever its answers are; every request ends; calls that share a flight
  would have retried alike;
* Trust Providers: the parts of an identity belong together, a retry starts its
  sequence afresh, leaves little running behind it, and comes to an end; failures
  that cannot pass are not retried, which the code keeps only in part; an identity is one its source offered during the call,
  and the configured details never displace the proof in it.

## The modules and the code

| Module | Models |
| --- | --- |
| `SessionBroker` | what a client promises, whatever it caches: sessions are issued on demand for a scope and handed only to callers that asked for that scope |
| `EdgeClientPy` | the Python client, all threads, one action per critical section or blocking call |
| `MCEdgeClientPy` | its function constants and symmetry for TLC |
| `EdgeClientPyProofs` | its invariants and measure of progress, their proofs, and the proof that it implements `SessionBroker` |
| `EdgeClientTs` | the TypeScript client, all calls, one action per stretch between two `await`s |
| `MCEdgeClientTs` | its function constants and symmetry for TLC |
| `EdgeClientTsProofs` | its invariants and measure of progress, their proofs, and the proof that it implements `SessionBroker` |
| `RetriedWork` | what both SDKs promise of work they repeat: one allowance of attempts and pauses, kept to the end |
| `PromisesProofs` | what follows from the rules of `SessionBroker` and `RetriedWork` |
| `RetryPolicies` | retry policies as operators: merge, normalisation, classification, delays, keys |
| `RetryPoliciesProofs` | facts about policies and delays for the proofs below |
| `EdgeTransport` | the retry loop of `request_json` against a network that loses, delays and garbles answers |
| `MCEdgeTransport` | retry settings for TLC |
| `EdgeTransportProofs` | its invariants, their proofs, and the proof that it implements `RetriedWork` |
| `RetriedOperations` | what both SDKs retry as a whole: TypeScript's requests to the Edge API and every Trust Provider that retries |
| `MCRetriedOperations` | operations and retry settings for TLC |
| `RetriedOperationsProofs` | its invariants, their proofs, and the proof that it implements `RetriedWork` |
| `JsonTrees` | the JSON trees of identities and `client_workload_details`: one level of their merge, and the same defined by nodes |
| `WorkloadDetails` | the recursive functions on them as TLC evaluates them: which are accepted, and how they merge |
| `IdentityCollection` | how the Python client comes by an identity from a token source that changes, several threads sharing collections, and with the configured details laid under it |
| `MCIdentityCollection` | the two composed, with small trees for TLC |
| `IdentityCollectionProofs` | `IdentityCollection`'s invariants and their proofs, and what the merge computes for all trees |
| `CredentialCall` | one call of the Python client from its arguments to its result, against an Edge API with a clock and a record of its own |
| `MCCredentialCall` | servers and lifetimes around the bounds for TLC |
| `CredentialCallProofs` | its invariants and their proofs |

### EdgeClientPy

The variables `tokenState`, `inFlight` and `flights` are `_token_state`, the two
dictionaries and the `_InFlight` objects (an object outlives its entry, since
waiters hold on to it). Per thread, `pc` is its place in the call, `kind` whether
it coalesces an identity or an authentication, and `request`, `identity`,
`joined`, `session` its locals. `issued` is the Edge API's own record of whom
each session was issued to; no code reads it, it is what the scoping properties
compare with. A session is named after the authentication that yields it.

| Code | Actions |
| --- | --- |
| `authenticate`, `get_credential` up to the identity | `StartCall`, `CollectUncached` |
| `_coalesce_concurrent_requests`, first critical section | `Join` or `Lead` |
| a waiter's `done.wait()` and what follows | `Wake` |
| the action `_collect_identity_uncached` | `CollectAsLeader` |
| the action `do_auth` | `AuthAnswered`, `StoreSession`, or `AuthFailed`, `ClearStale` |
| the recording of result or error | `Settle` |
| the `finally`: `done.set()`, then the locked removal | `Publish`, `Retire` |
| `_get_valid_access_token`'s unlocked look at the cache | `LookupSession` |
| `_acquire_session_token`'s locked look | `AcquireSession` |
| the credentials request | `CredentialsAnswered` |
| a `BaseException` in a thread | `InterruptLeader`, `InterruptCall` |

Each critical section is one action because all accesses but the one in
`LookupSession` are made under `_state_lock`; that one reads a single reference,
which Python does atomically. Cached sessions are never modified in place. The
model keeps the order `store, settle, publish, retire`, with every point between
two of them open to the other threads. What is abstracted: identities, keys and
retry policies are model values (their serialisation to JSON is injective on
them; `RetryPolicies` models the retry part), the Trust Provider yields any
identity or an error, the Edge API any of the given lifetimes or an error, and a
request's own retries happen inside one flight (they are `EdgeTransport`'s).
A call that ends forgets its locals. A provider's single-flight key is the same
for all calls, as it is for every built-in provider; a key function that raises
ends the call before it has touched anything and is left out.

`InterruptLeader` stands for an exception that `except Exception` does not catch
(`KeyboardInterrupt`, `SystemExit`) reaching the flight's action. Only threads in
`Interruptible` meet one. The `finally` itself is taken to run to its end; what
an interrupt inside it, or between the insertion of the entry and the `try`,
would do is listed among the hazards and not modelled.

### EdgeClientTs

One thread runs everything, so nothing happens between two `await`s but what the
code says, and an action is such a stretch. `tokenState` is the field of that
name, `inFlight` the Maps `inFlightIdentityByKey` and `inFlightAuthByKey` in one
(their keys differ), `promises` the promises of `collectIdentityWithMetadataOnce`
and `runAuthentication`. Each is named after the call that makes it, and a call
makes at most one of each kind. `pc[c]` is what call `c` awaits, `joined[c]` the
promise it awaits, its own or another call's.

A promise that settles queues its reactions in the order in which they were
attached. The maker attaches its own before anyone else can see the promise, and
that one deletes the table entry (`.finally` at 348, `finally` at 250). So
`CleanUp` comes first, and `reacted` opens the way for the other calls. Between
the settling and the cleanup, and between any two reactions, every other call may
run: that allows more than the microtask queue does, so what holds here holds
there. `"bearer"` is the few microtasks that a session takes through the async
functions on its way to the public method.

| Code | Actions |
| --- | --- |
| an invalid input, a key function that throws | `RejectEarly` |
| `authenticate`, `getCredential` to their first `await`, `collectIdentityWithMetadata` | `StartCall` |
| `collectIdentityWithMetadataOnce` | `CollectIdentity` |
| `runAuthentication`, after the answer | `AuthSucceeds` or `AuthFails` |
| the `finally` of either | `CleanUp` |
| an awaited promise that was rejected | `RethrowRejection` |
| `getValidAccessToken` and `authenticateWithSingleFlight`, one stretch | `ReuseSession` or `Authenticate` |
| their return to the public method | `TakeSession`, `UseSession` |
| `api.credentials` and what follows | `CredentialsAnswered` |

A call is made once: many calls on one client are many members of `Calls`. As
for Python, identities and keys are model values, a collection yields any
identity or fails, the Edge API answers with any of the given lifetimes or an
error, and a request's retries happen inside its promise. Merging the configured
workload details into an identity changes neither its keys nor its fate.

### RetryPolicies and EdgeTransport

An override is a record whose fields may be `None` (not given) or, for the
numeric ones, `Invalid` (not a finite number). `Policy(r)` is
`merge_retry_policy(merge_retry_overrides(client, call))`. A request goes from
`new` to `sending`, then by one of six ends of an attempt (`Unsendable`,
`Answered`, `AnsweredGarbage`, `AnsweredError`, `AnsweredUnreadably`,
`Unanswered`) to `returned`, `raised` or `backoff`, and by `Resend` from there to
the next attempt. An answer whose body cannot be read is taken for a failure of the
network and sent again, whatever its status: a refusal, too, is final only if its
body can be read. What only the sender finds wrong with a request, such as a base
URL without a scheme, is taken so as well and is part of `Unanswered`.
`received` counts the attempts that reached the Edge API: an unanswered one may
or may not have; where `urlopen` follows a redirect, an attempt is more than one
HTTP request. `waited` sums the delays, any value the full jitter may choose.
Delays are counted in units of 100 ms. A call whose settings are invalid is
rejected before anything is sent (`Reject`).

### RetriedOperations

`executeWithRetry` (TypeScript), `execute_with_retry` (Python) and the loop in
`aws_role.py` run an operation up to `MaxAttempts` times. The module has one
executor and eight operations, told apart by `operation`, a record of the SDK and
what is asked for: the Edge API (`edge`), the AWS or Azure metadata service, a
token source (`token`) or signed AWS role data (`role`). Python's transport is
`EdgeTransport`, and its token providers do not retry. Operations share no
state, so one at a time is enough.

An attempt is a set of requests, each with the answers it needs (`Needs`): the
two SDKs differ in whether the instance document's signature waits for the
document. `out` holds the requests under way, numbered by their attempt, `parts`
the answers of the current one (the locals of `collectIdentityOnce`). The first
failure of the current attempt decides (`Failed`); the other parallel request is
not cancelled, for each request has an abort timer of its own, and ends
unobserved (`StragglerEnds`), perhaps during a later attempt. A new attempt's
nonce or session token is its number.

How a request fails is one of nine reasons, and for each operation one operator
says which reasons it can end by and which of them are retried (`TsAwsErrors`,
`PyAzureErrors` and so on), as its provider's code classifies them. Two reasons are
faults of the configuration: `setup` is one the SDK notices itself, `unsendable`
one that only the sender notices (a scheme it does not know, a header it cannot
send). Which of them an operation has, if any, is settled when it begins (`fault`);
it then fails the first request of every attempt. To most operations what the
sender throws looks like a network that is down, so they retry an `unsendable`
configuration; and where a body is read before its status is judged, as in the
TypeScript transport, a refusal whose body breaks off is `garbled` and retried.
Settings are not validated here: `Invalid` ones reach the normalisation.

### RetriedWork

The promise that both retry loops keep. Each piece of work has an allowance, settled
when it is undertaken; it is tried, pauses after a failure that may pass while
attempts are left, and is done or failed for good otherwise. `EdgeTransport` maps each
of its requests to a piece of work, `RetriedOperations` its one operation; the
allowance is what the effective policy grants. Answers that are not the last, and
abandoned requests that come to an end, are stutters. A pause is bounded from above
only: that no delay is negative is left out, since the provers know nothing of the
sign of the powers of two in it.

### IdentityCollection, JsonTrees and WorkloadDetails

`EdgeClientPy` takes a collection as one step with any result. `IdentityCollection`
looks inside: `provider` is a built-in token provider or a custom one, `offer` what
its source would yield at this moment, and `Rotate` changes that at any time, `version`
counting the changes. A token is named after the version that yields it. `ci` stands
for the classes of `oidc_providers.py`, which let a token source's
`TrustProviderError` through, `plain` for the OIDC, GCP and Kubernetes ones, which
wrap it. `entry`, `flights` and `joined` are the coalescing for the provider's one key.

| Code | Actions |
| --- | --- |
| `_retrieve_workload_identity_proof`, `_generate_identity_cache_key` | `StartCall` |
| `_coalesce_concurrent_requests` | `Join` or `Lead`, `Wake`, `Publish`, `Retire` |
| `collect_identity` with a text or a callable, or of a custom provider | `ResolveToken` |
| `os.path.exists`, then `open` and `read` | `FindTokenFile`, `ReadTokenFile` |
| the client's classification, sanitising and merging | `IdentityFrom`, `Collected`, `Collect` |

`seen` is history: the offers there were during the call. Static texts do not
change, and neither does a custom provider, since only its author knows what its
key stands for. Interrupts are left to `EdgeClientPy`.

In the trees of `JsonTrees` an object is a function on keys, and anything that is not
looked into is a scalar. `MergeMappings` is one level of `_merge_mappings`, given what
the objects that meet at a key are merged to. `MergedNodes` defines the whole
merge without recursion, on the sets of nodes of the two trees (a node is a path with
what stands there). `WorkloadDetails` closes the recursion, for merging, for listing
nodes and for `IsClean`, which says whether sanitising accepts a tree (it returns an
equal copy).

`IdentityCollection` takes these recursive functions as constants, and `TreeAssumption`
says of them what their recursive definitions say: trees have a finite depth, what
stands inside a tree is less deep, and merging and listing nodes go level by
level. TLC evaluates the assumption, for the functions of `WorkloadDetails`, on all
trees of the run.

### CredentialCall

One call at a time goes through `pc`: `identity`, `lookup`, `acquire`, `auth`, `answer`,
`ask`. The rest of the program is `OthersStore` and `OthersClear`, which rewrite the
cache between any two steps, and the flights that `JoinFlight` may find. `issued` is
the Edge API's record, with the expiry counted from the moment it issues a session
(`SendAuth`), while the client counts from the answer's arrival (`ReceiveAuth`), up to
`MaxLatency` later. `wire` is the credentials request as sent and `reached` whom the
call has asked; both are history. `config.retry` is what the retry settings are
worth: usable, refused by the validation, `immeasurable` (integers no float can
hold, on which `math.isfinite` itself fails) or `endless` (pauses that
`time.sleep` refuses). `Countless` are the lifetimes on which `math.isfinite` or
`round` fails. All of these end a call with Python's own error, `"other"`.

| Code | Actions and operators |
| --- | --- |
| validation in `authenticate`, `get_credential`; `normalize_server_ref` | `StartCall`, `CallIsValid`, `RefusalsOf`, `ServerIsValid` |
| `auth_parsing.py` | `AnswerFaults`, `ExpiresAt` |
| the Trust Provider, `_normalize_client_workload_details` | `CollectIdentity` |
| `_get_valid_access_token`, `_acquire_session_token` | `LookupSession`, `JoinFlight` |
| `do_auth` | `SendAuth`, then `ReceiveAuth`, or `RejectAuth` or `AuthRefused` and `ClearStale` |
| `format_expires_at` in `authenticate` | `UseSession` |
| `EdgeApi.credentials`, `parse_credential_success_body` | `AskCredentials`, `OutcomesOf` |

`Nothing` stands for Python's `None` and, in a server, for a value of the wrong type.

## The runs

| Run | Instance | Shows |
| --- | --- | --- |
| `PyCoalesced` | 2 threads, 2 calls each, one scope, one identity with a single-flight key, lifetime 2, skew 1, clock to 1, one interruptible thread, fair | type correctness, one flight per key, no stranded waiter, no leaked entry, valid sessions kept, every call comes back |
| `PyScoped` | 3 threads, 1 call each, 2 Resource Sets, 2 keyed identities, clock to 1 (symmetric in threads and identities) | calls use only sessions of their scope; the client implements `SessionBroker` |
| `TsCoalesced` | 3 calls, one scope, one identity with a single-flight key, lifetime 2, skew 1, clock to 1, fair | no leaked entry, keyed work runs once, valid sessions kept, every call settles |
| `TsScoped` | 3 calls, 2 Resource Sets, 2 retry policies, 2 keyed identities, no single-flight key for identities, clock to 1 (symmetric in calls and identities) | bearers match identities, no session is fetched that the cache could serve, the client implements `SessionBroker` |
| `Transport` | 2 requests, 10 overrides, client policy of 3 attempts, statuses 302, 401, 409, 429 and 503, fair | bounds on attempts and delays, no early surrender, retry keys sound, requests end |
| `Retries` | all 8 operations, 6 settings (36 merged ones for the Edge API), jitter on and off, statuses 404, 429 and 503, fair | results of one attempt, few stragglers, bounds on attempts and delays, no early surrender, every step bringing the end nearer, operations end with nothing left running, the loops implement `RetriedWork` |
| `PyIdentity` | 2 threads, 2 calls each, every kind of provider and source, 2 changes of it, all trees of two keys two levels deep, clean and not, as details or collected data | outcomes are what the source offered during the call, merging agrees with its definition and keeps the proof |
| `PyCredential` | 2 calls, 2 sessions, 2 Resource Sets (symmetric), servers around every bound, lifetimes -1, 0, 1, 3 and one that cannot be counted, every kind of retry settings, skew 1, answers up to 1 late, clock to 3, last instant 4 | bearers fit their header, valid sessions are honoured, invalid calls ask nobody, errors tell the stage |
| `PyRedundantAuth`, `PyLateJoin`, `PyUnkeyedIdentity` | 2 threads, 1 call each | the disagreements [below](#where-code-and-documents-disagree) |
| `PyFailsFast` | the 3 Python operations, 6 settings | likewise |

### Bounds, and why they suffice

* *Threads and calls.* Two threads with two calls show every interleaving of a
  leader with a waiter, of a late cleanup with a second call of either thread,
  and of an entry that stays behind with a later call. The scoping properties
  need a third thread: one that fills the cache, one that overwrites it with
  another scope, and one between finding and using its session.
* *Calls of the TypeScript client.* Three: a maker, a call that joins it, and a
  third that starts in the gap between a settling and its cleanup, or overwrites
  the one cache slot while the second is about to use its session. With two
  retry policies, two of them can authenticate for one scope side by side.
* *Clock.* With a lifetime of 2, a skew of 1 and instants 0 and 1 a session
  passes from valid to lapsed on the boundary of the comparison; one lapse is
  all that a cached session can meet before it is replaced.
* *Keys.* One Resource Set and one retry key in `PyCoalesced` make all calls
  meet on one key, where the tables are at their most contended; `PyScoped`
  makes them differ.
* *Overrides.* The ten settings differ from the defaults in every field, in both
  directions across each normalisation bound (0 attempts, a negative delay, a
  cap under its base), plus one that is invalid. Three attempts reach the capped
  delay from an uncapped one. In `Retries` three attempts leave stragglers of
  two different attempts beside the third, and 404 is a refusal under one setting
  and transient under another.
* *Sources.* Two changes make a token from before the call, one from during it, and
  one that replaces a file between look and opening; with two calls per thread a
  late waiter could be given an answer from before its call.
* *Trees.* Two keys and two levels have every meeting of an object, a leaf and an
  absence, at the top and below it, beside and inside the provider's namespace.
* *Calls, sessions, instants.* Two calls make a session cached by the first, or by
  another thread, meet the second; two sessions are the call's and the other
  thread's. By instant 3 a session of lifetime 1 or 3 has lapsed while cached, and
  lifetime 3, counted from instant 2 or 3, passes the last instant.

`Transport` does not check that it implements `RetriedWork`: with two requests the
refinement takes too long, and requests share no state. That is proved, and with
one request TLC finds it true as well.

`MaxCalls`, `MaxNow`, `MaxVersion` and `MaxSessions` are the only bounds on the
clients' behaviour; none is in the proofs' way, since all are arbitrary constants
there. `PyCredential` assumes `MaxLatency <= Skew` (`CallAssumption`): without it a
session could count as valid after the Edge API has dropped it.

Deadlock is checked in every run: only in the states of `Finished` and `AllDone` is
nothing left to do.

### Fairness

`PyCoalesced` assumes `WF_vars(Step(t))` for each thread: the scheduler starves
no thread, a lock is held briefly, and each request to the Edge API or to the
Trust Provider ends. The last is the code's own doing only if a timeout is
configured (`http_transport.py:197` waits without limit otherwise); without one
no liveness can be claimed. Starting calls, the clock and interrupts are not
fair. One weak fairness condition per thread is enough: once a waiter's flight
is done its `Wake` stays enabled, and no other step of a thread can be taken
away from it for good. `TsCoalesced` assumes `WF_vars(Step(c))` for each call: the
event loop runs every reaction it has queued, and each request ends, by its
answer, by an error, or by the abort timer of `http-transport.ts:123-127`, which,
as in Python, needs a configured timeout. `Transport` assumes the same of one attempt and one delay, and `Retries` of the
current attempt's requests, of a delay, and of abandoned requests; a metadata
request always has its timer (`aws-metadata-service.ts:147`), and Python's a socket
timeout.

## The proofs

All proofs hold for any number of threads, calls, keys, identities, lifetimes,
requests and statuses, from the named assumptions of the modules (constants have
their types, and the values that stand for "none" differ from the rest). None is
about a bounded instance.

*Tables.* `TypeOK` with the four table properties is not inductive: that a waiter's
leader has the release ahead needs that the leader of an entry owns it, that
flights are filed under the key of the thread that made them, and that a thread
waits only for a flight of its own key. `TablesInv` adds these (`CallShape`,
`FlightShape`, `LeaderOwnsEntry`). Its proof splits the steps by what they do
to the tables: steps that touch neither (`QuietTables`), a leader's own steps
(`RunTables`), and `Join`, `Lead`, `Publish`, `Retire`, one lemma each.
`TypeCorrect`, `SingleFlight`, `NoWaiterStranded` and `NoEntryLeaks` follow.

*Sessions.* `SessionsInv` says that every session anywhere (in the cache, held by
a call, or the result of a flight) is *sound*: issued for the Resource Set and
cache key it is filed under; that a session a call holds or waits for fits its
request; and that flights of calls not yet made are fresh. It is inductive on
top of `TablesInv`. `SessionsAreScoped` follows; `ValidSessionsStay` needs only
that a thread about to store holds a session.

*Refinement.* `ClientImplementsBroker`: under the mapping at the end of
`EdgeClientPy`, learning one's identity is `Ask`, an answered authentication is
`Issue`, taking a session to the credentials request is `Grant`, ending a call is
`Leave`, and every other step is a stutter. It uses both invariants.
`BrokerKeepsScopes` shows what the broker's rules are worth.

*What two of the counterexamples leave standing.* `BearersMatchIdentities` proves what
`PyUnkeyedIdentity` refutes in general: where `AuthCacheKeyOf` is injective, as a custom
provider may make it, the bearer was issued to the very identity the request
presents. `LateJoinsAreBrief` bounds what `PyLateJoin` finds: a call joins a flight that is
over only while its leader stands between `done.set()` and the removal of the entry, so
never one whose caller is gone.

*Progress.* Liveness needs fairness and is left to TLC, but half of it is safety and is
proved for both clients. `CallsEndInSight`: whatever changes in a running call (for
TypeScript, in a promise it makes) strictly lowers a number of steps left, at most 18
for Python and 8 for TypeScript, so no interleaving of retries, failed flights,
interrupts and joins makes calls go round in circles. And nobody is held up by
somebody who is held up: a Python thread blocks only in `wait`, and then its flight is
done or is led by a thread that is not waiting (`NoWaiterStranded`); a TypeScript
call awaits a promise that has settled and been cleaned up after, or whose maker is still
there to do both (`NobodyAwaitsInVain`, inductive on top of `TablesInv`). The measures and
`NoAwaiterStranded` were also model-checked on the instances of `PyCoalesced` and
`TsCoalesced`.

*The TypeScript client.* Its `TablesInv` holds the Maps against the calls: an entry
leads to a call that still awaits that very promise and has not cleaned up, and
keyed work that is pending is entered. Both directions are needed: the first is
`EntriesAreCleanedUp`, the second gives `SharedWorkRunsOnce`. The invariance proof
splits the steps into a free call's move without a promise of its own
(`MoveKeepsTables`), a new promise (`LaunchKeepsTables`), a settling
(`SettleKeepsTables`) and a cleanup (`CleanUpKeepsTables`).
Its `SessionsInv` adds soundness of every session in the cache, in a promise or
in a call's hands; that an awaited authentication is either run by a call of the
same scope or has yielded a session for it; and that no running authentication
has been superseded. The last rests on single flight: a session for the same
scope under the same policy could only come from a second runner with one key.
`BearersMatchIdentities` assumes that `AuthCacheKeyOf` is injective, which is what
the digest in `token-trust-provider.ts:163-172` is for.
`ClientImplementsBroker` follows as for Python.

*Transport.* `TransportInv` relates, at each stage of the loop, the attempt to the
policy's bound, what the Edge API has seen to the attempt, and the time waited
to that many capped delays; the last makes the total bound inductive. The
lemmas on policies show that normalisation yields a usable policy from any
override, and that a delay never exceeds its cap.

*Retried operations.* `OperationInv` has the loop's part, as for the transport, and
the collection's: what is under way in the current attempt is exactly what is
ready and not yet answered. `CollectedTogether` follows from the second part
at the last answer. `StragglersAreFew` needs it at a failure: of the requests that
are ready together there are at most two (`AtMostTwo`, by the operations' `Needs`), so
one is left. `OperationsEndInSight` counts what an operation can still do: a retry and
three answers for every attempt it has left, and the answers still ahead, its
abandoned requests' included (`StepsLeft`); each action has a lemma that shows its
step to lower that number, which the invariant keeps from falling below zero.

*Retried work.* `WorkIsBounded` and `WorkEndsInSight` are proved once, of `RetriedWork`: work
stays within its allowance, a failure that might have passed is final only when
all attempts were made, and each step of work under way lowers the number of steps it
has left. The invariant behind them counts pauses against attempts at each stage.
`TransportImplementsRetriedWork` and `OperationsImplementRetriedWork` carry this to the loops,
one lemma for each abstract step; they need the loops' invariants, for a policy is
usable only as `TransportInv` and `OperationInv` say, and for the operations that nothing
has failed before the first attempt. The stutters of `RetriedOperations` are finitely
many between two steps, by `OperationsEndInSight`.

*Identity collections.* `Sound` (types, what each stage of a thread implies, and that a
done flight has an outcome) is inductive by itself. `AnsweredByItsTime` is not; `Timely`
adds that a running collection has seen what is on offer (`Watching`) and that every
flight's outcome is what the source offers now (`FlightsAreCurrent`). The second holds
because flights are for keyed providers only, and a built-in provider has a key only
for a static text, which never changes (`RotatingIsUnshared`). `TypeCorrect` includes
that what is sent is JSON, for whatever acceptable trees and merge.

*Merged identities.* `MergeByNodes` says what `_merge_mappings` computes, for all trees: every
node of the base, and of the overlay those that stand in nothing's way. It is an
induction on the depth of the base (`TreeInduction`), which the prover does by the
least number: were there a counterexample, there would be one of least depth
(`LeastNumber`, from the library's well-foundedness of the naturals), and `MergeAtKey` shows
that one to be none, key by key: merged sets of nodes with different first keys do not
meddle (`MergedByHead`), and behind one key they are merged as the objects there are
(`ObjectsMeet`). `RequestsMergeByNodes` and `ProofIsPresented` follow for every request; the latter
needs that only custom providers offer client data of their own making (`OffersFit`). The
recursion enters by `TreeAssumption` alone.

*A call's way.* `Shape` (types, and `Stages`: what has been asked, and was valid, at each
stage) is inductive; `InvalidCallsStayIn` and `ErrorsAreTelling` follow. `Sessions` relates
every session, cached, held or on its way, to the Edge API's record: it is filed under
the scope it was issued for (`FiledRight`), and believed in at most `MaxLatency`
longer than granted (`BelievedNotTooLong`). `ValidMeansAlive` is then arithmetic with
`MaxLatency <= Skew`, and `HeadersMatchBearers` rests on the two ways to resolve a
Resource Set agreeing (`EffectiveScope`).

Model-checked only: liveness (`EveryCallReturns`, `EveryCallSettles`, `RequestsEnd`,
`OperationsEnd`), since fairness and `ENABLED` are beyond the prover; and that the recursive
operators of `WorkloadDetails` satisfy `TreeAssumption`, since the prover does not reason
about `RECURSIVE` definitions.

## Where code and documents disagree

* `PyRedundantAuth`: `docs/architecture.md:106` asks for single flight "to avoid
  duplicate concurrent calls". The Python client looks at the cache in one
  critical section (`client.py:227-236`) and at the table in another
  (`client.py:406-414`). A flight that stores its session and retires in between
  is seen by neither look, and the call authenticates again.
* `PyLateJoin`: `client.py:437` says future requests "start fresh", but waiters
  are released before the entry is removed, and a request that arrives in between
  takes the outcome of a flight that is over, an error included.
* `PyUnkeyedIdentity`: `ts/architecture.md:455-457` requires an `authCacheKey` for
  request-scoped token sources, and `py/architecture.md:25` asks Python for the same
  guarantees. The Python providers send none, so two identities share the cached
  session.
* `PyFailsFast`: `docs/architecture.md:128` wants deterministic local failures and
  malformed success payloads to fail fast. `aws_metadata_service.py` retries every
  failure, an unusable URL (lines 140-146), any HTTP status and an empty token
  (lines 95-99) among them, and `azure_metadata_service.py:114` every status.
  TypeScript, which this sentence also speaks of, keeps it for what it notices
  itself, and retries a fault that shows only in `fetch` or in a signer
  (`http-transport.ts:185-197`, `metadata-service-utils.ts:67`, `aws-role.ts:156`).

Each of these runs checks one property and ends in a counterexample.

Two more disagreements need no run. A session's lifetime of 1e308 seconds, or of an
integer that no float can hold, fails in `round` (`auth_parsing.py:65`) or in
`math.isfinite` (lines 46, 62) with an `OverflowError`, and the call ends with it,
although the `AuthError` of line 63 is there for lifetimes that cannot be used;
`ErrorsTellTheStage` says how far such a call came. And `py/README.md:14` promises
"proactive background refresh", while the Python client has no code that runs in the
background: a session lapses and the next call waits for an authentication.

## What is not modelled

* The layout of headers, bodies and URLs, JSON parsing, base64, logging, the AWS
  request signer: data that no property tells apart.
* The payload of credentials: it is checked for its shape and handed on.
* Trimming of tokens, hosts, ids and paths, but for what is blank; token files are
  read whole, whatever encoding they are in.
* What the Edge API makes of a bearer before its expiry: revocations are not modelled,
  so neither is the session a 401 leaves in the cache (`client.py:167`).
* TypeScript's merge, argument validation and credential parsing, which are modelled for
  Python only.
* Clocks that step back, an interrupt within the `finally`, and a request without
  a timeout: see the hazards listed in `PROJECT.json`.
* botocore's signing. The clock hook of Python's signer (`internal/trust_providers/aws_role.py:91`)
  patches botocore's clock for the whole process, which would need a model if a
  provider used it; none does.
* Examples, scripts, workflows and the OpenAPI description.

## Plan

In this order, the most important behaviour first:

1. `SessionBroker`, `EdgeClientPy`, their runs, proofs and the refinement: done.
2. `RetryPolicies`, `EdgeTransport`, their run and proofs: done.
3. `EdgeClientTs`, its runs, proofs and the refinement: done.
4. `RetriedOperations`, its runs and proofs: done.
5. `IdentityCollection`, `JsonTrees` and `WorkloadDetails`, their run and proofs: done.
6. `CredentialCall`, its run and proofs: done.
7. `RetriedWork`, implemented by both retry loops, and progress of both clients and of
   every repeated operation: done.

What could follow: the retry keys and policies of both SDKs side by side (TypeScript's keys
tell disabled policies and jitter apart); `WorkloadDetails` for TypeScript's merge; and an
Edge API that revokes sessions, to state what invalidation on a refusal would have
to achieve.
