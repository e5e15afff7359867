---------------------------- MODULE RetriedWork ----------------------------
(***************************************************************************)
(* What both SDKs promise of work they repeat when it fails, a request to  *)
(* the Edge API or the collection of an identity, whatever the policies    *)
(* say and whatever goes wrong: each piece of work has one allowance of    *)
(* attempts and pauses, settled when it starts; after a failure that may   *)
(* pass it goes on while its allowance lasts, after any other it is over;  *)
(* and work that is over is never taken up again.                          *)
(***************************************************************************)
EXTENDS Integers

CONSTANTS
    Work,       \* pieces of work
    NoAllowance \* the allowance of work that has not started

Allowances == [attempts : Nat \ {0}, pause : Nat]

VARIABLES
    stage,      \* asked, trying, pausing, done or failed
    allowance,  \* attempts it may make, and how long one pause may be
    attempts,   \* attempts made so far
    paused,     \* total pause so far
    passing     \* its last failure was one that may pass

workVars == <<stage, allowance, attempts, paused, passing>>

WorkInit ==
    /\ stage = [w \in Work |-> "asked"]
    /\ allowance = [w \in Work |-> NoAllowance]
    /\ attempts = [w \in Work |-> 0]
    /\ paused = [w \in Work |-> 0]
    /\ passing = [w \in Work |-> FALSE]

Become(w, s) == stage' = [stage EXCEPT ![w] = s]

\* Nothing is tried: what was asked for makes no sense.
Decline(w) ==
    /\ stage[w] = "asked"
    /\ Become(w, "failed")
    /\ UNCHANGED <<allowance, attempts, paused, passing>>

\* The first attempt, under an allowance that stays.
Undertake(w) ==
    /\ stage[w] = "asked"
    /\ allowance'[w] \in Allowances
    /\ allowance' = [allowance EXCEPT ![w] = allowance'[w]]
    /\ attempts' = [attempts EXCEPT ![w] = 1]
    /\ Become(w, "trying")
    /\ UNCHANGED <<paused, passing>>

Succeed(w) ==
    /\ stage[w] = "trying"
    /\ Become(w, "done")
    /\ UNCHANGED <<allowance, attempts, paused, passing>>

\* An attempt fails for good, or was the last one allowed.
GiveUp(w) ==
    /\ stage[w] = "trying"
    /\ \E may \in BOOLEAN :
        /\ may => attempts[w] = allowance[w].attempts
        /\ passing' = [passing EXCEPT ![w] = may]
    /\ Become(w, "failed")
    /\ UNCHANGED <<allowance, attempts, paused>>

\* An attempt fails in a way that may pass, and is not the last one.
Pause(w) ==
    /\ stage[w] = "trying"
    /\ attempts[w] < allowance[w].attempts
    /\ passing' = [passing EXCEPT ![w] = TRUE]
    /\ paused'[w] \in Int /\ paused'[w] <= paused[w] + allowance[w].pause
    /\ paused' = [paused EXCEPT ![w] = paused'[w]]
    /\ Become(w, "pausing")
    /\ UNCHANGED <<allowance, attempts>>

TryAgain(w) ==
    /\ stage[w] = "pausing"
    /\ attempts' = [attempts EXCEPT ![w] = @ + 1]
    /\ Become(w, "trying")
    /\ UNCHANGED <<allowance, paused, passing>>

WorkNext ==
    \E w \in Work :
        Decline(w) \/ Undertake(w) \/ Succeed(w) \/ GiveUp(w) \/ Pause(w) \/ TryAgain(w)

WorkSpec == WorkInit /\ [][WorkNext]_workVars

-----------------------------------------------------------------------------
\* Work costs no more attempts and pauses than it was allowed.
WithinAllowance ==
    \A w \in Work : stage[w] # "asked" /\ attempts[w] # 0 =>
        /\ attempts[w] <= allowance[w].attempts
        /\ paused[w] <= (allowance[w].attempts - 1) * allowance[w].pause

\* Work that fails in a way that might have passed has had all its attempts.
FailsExhausted ==
    \A w \in Work :
        stage[w] = "failed" /\ passing[w] => attempts[w] = allowance[w].attempts

\* How many more steps a piece of work can take once it is undertaken.
StepsLeft(w) ==
    LET more == 2 * (allowance[w].attempts - attempts[w]) IN
    CASE stage[w] = "trying"  -> more + 1
      [] stage[w] = "pausing" -> more
      [] OTHER -> 0

\* Work never goes round in circles: every step of a piece of work that has
\* been undertaken brings its end nearer, however the steps of others are
\* interleaved.
WorkDwindles ==
    [][\A w \in Work : stage[w] # "asked" =>
          \/ UNCHANGED <<stage[w], allowance[w], attempts[w], paused[w], passing[w]>>
          \/ StepsLeft(w)' \in Nat /\ StepsLeft(w)' < StepsLeft(w)]_workVars
=============================================================================
