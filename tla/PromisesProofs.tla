--------------------------- MODULE PromisesProofs ---------------------------
(***************************************************************************)
(* What follows from the two abstract specifications, and so holds of      *)
(* everything shown to implement them: of SessionBroker for any callers    *)
(* and scopes, of RetriedWork for any pieces of work and allowances.       *)
(***************************************************************************)
EXTENDS SessionBroker, RetriedWork, TLAPS

-----------------------------------------------------------------------------
(* SessionBroker *)

\* A caller that holds a session wants the scope it was issued for.
GrantInv ==
    /\ BrokerTypeOK
    /\ \A c \in Callers :
          granted[c] # NoSession =>
              /\ wanted[c] # NoScope
              /\ granted[c] \in Sessions
              /\ issuedFor[granted[c]] = wanted[c]

\* No step of the broker, of that caller or another, changes that.
LEMMA GrantInvStep == GrantInv /\ [BrokerNext]_brokerVars => GrantInv'
  <1> SUFFICES ASSUME GrantInv, [BrokerNext]_brokerVars PROVE GrantInv'
    OBVIOUS
  <1>1. CASE UNCHANGED brokerVars
    BY <1>1 DEF GrantInv, BrokerTypeOK, brokerVars
  <1>2. ASSUME NEW c \in Callers, NEW k \in Scopes, Ask(c, k) PROVE GrantInv'
    BY <1>2 DEF GrantInv, BrokerTypeOK, Ask
  <1>3. ASSUME NEW c \in Callers, NEW s \in Sessions, Issue(c, s) PROVE GrantInv'
    BY <1>3 DEF GrantInv, BrokerTypeOK, Issue
  <1>4. ASSUME NEW c \in Callers, NEW s \in Sessions, Grant(c, s) PROVE GrantInv'
    BY <1>4 DEF GrantInv, BrokerTypeOK, Grant
  <1>5. ASSUME NEW c \in Callers, Leave(c) PROVE GrantInv'
    BY <1>5 DEF GrantInv, BrokerTypeOK, Leave
  <1> QED BY <1>1, <1>2, <1>3, <1>4, <1>5 DEF BrokerNext

\* The broker's promise follows from its rules: a session is handed out only
\* in the scope it was issued for, and stays with that scope while it is held.
THEOREM BrokerKeepsScopes == BrokerSpec => []GrantedInScope
  <1>1. BrokerInit => GrantInv
    BY DEF BrokerInit, GrantInv, BrokerTypeOK
  <1>2. GrantInv => GrantedInScope
    BY DEF GrantInv, GrantedInScope
  <1> QED BY <1>1, <1>2, GrantInvStep, PTL DEF BrokerSpec

-----------------------------------------------------------------------------
(* RetriedWork *)

WorkTypeOK ==
    /\ stage \in [Work -> {"asked", "trying", "pausing", "done", "failed"}]
    /\ allowance \in [Work -> Allowances \cup {NoAllowance}]
    /\ attempts \in [Work -> Nat]
    /\ paused \in [Work -> Int]
    /\ passing \in [Work -> BOOLEAN]

\* Work that has been undertaken, against its allowance.
Undertaken(w) ==
    LET most == allowance[w].attempts pause == allowance[w].pause IN
    /\ allowance[w] \in Allowances
    /\ 1 <= attempts[w] /\ attempts[w] <= most
    /\ stage[w] = "pausing" => attempts[w] < most /\ paused[w] <= attempts[w] * pause
    /\ stage[w] # "pausing" => paused[w] <= (attempts[w] - 1) * pause
    /\ stage[w] = "failed" /\ passing[w] => attempts[w] = most

WorkInv ==
    /\ WorkTypeOK
    /\ \A w \in Work :
          IF attempts[w] = 0
          THEN stage[w] \in {"asked", "failed"} /\ paused[w] = 0 /\ ~passing[w]
          ELSE stage[w] # "asked" /\ Undertaken(w)

\* What a step leaves alone.
RestKept(w) ==
    \A v \in Work \ {w} :
        UNCHANGED <<stage[v], allowance[v], attempts[v], paused[v], passing[v]>>

\* So it is enough to look at the piece of work that moves.
LEMMA OnePiece ==
    ASSUME WorkInv, NEW w \in Work, WorkTypeOK', RestKept(w),
           IF attempts'[w] = 0
           THEN stage'[w] \in {"asked", "failed"} /\ paused'[w] = 0 /\ ~passing'[w]
           ELSE stage'[w] # "asked" /\ Undertaken(w)'
    PROVE  WorkInv'
  <1>1. ASSUME NEW v \in Work, v # w
        PROVE  IF attempts'[v] = 0
               THEN stage'[v] \in {"asked", "failed"} /\ paused'[v] = 0 /\ ~passing'[v]
               ELSE stage'[v] # "asked" /\ Undertaken(v)'
    <2>1. UNCHANGED <<stage[v], allowance[v], attempts[v], paused[v], passing[v]>>
      BY <1>1 DEF RestKept
    <2> QED BY <2>1 DEF WorkInv, Undertaken
  <1> QED BY <1>1 DEF WorkInv

\* One more pause stays within one more allowance.
LEMMA PauseGrows ==
    ASSUME NEW a \in Nat \ {0}, NEW m \in Nat, NEW p \in Int, NEW q \in Int,
           p <= (a - 1) * m, q <= p + m
    PROVE  q <= a * m
  <1>1. (a - 1) * m + m = a * m
    OBVIOUS
  <1> QED BY <1>1

\* Each step leads from one sound stage to another, and nearer the end.
LEMMA WorkStep ==
    ASSUME WorkInv, NEW w \in Work,
           Decline(w) \/ Undertake(w) \/ Succeed(w) \/ GiveUp(w) \/ Pause(w) \/ TryAgain(w)
    PROVE  /\ WorkInv'
           /\ RestKept(w)
           /\ stage[w] # "asked" => StepsLeft(w)' \in Nat /\ StepsLeft(w)' < StepsLeft(w)
  <1> DEFINE most == allowance[w].attempts
             pause == allowance[w].pause
  <1>1. WorkTypeOK
    BY DEF WorkInv
  <1>2. stage[w] \in {"trying", "pausing"} =>
           /\ Undertaken(w) /\ attempts[w] \in Nat \ {0}
           /\ most \in Nat \ {0} /\ pause \in Nat
    BY DEF WorkInv, WorkTypeOK, Undertaken, Allowances
  <1>3. CASE Decline(w)
    <2>1. WorkTypeOK' /\ RestKept(w)
      BY <1>1, <1>3 DEF WorkTypeOK, RestKept, Decline, Become
    <2>2. attempts'[w] = 0 /\ stage'[w] = "failed" /\ paused'[w] = 0 /\ ~passing'[w]
      BY <1>1, <1>3 DEF WorkInv, WorkTypeOK, Decline, Become
    <2> QED BY <1>3, <2>1, <2>2, OnePiece DEF Decline
  <1>4. CASE Undertake(w)
    <2>1. WorkTypeOK' /\ RestKept(w)
      BY <1>1, <1>4 DEF WorkTypeOK, RestKept, Undertake, Become
    <2>2. /\ attempts'[w] = 1 /\ stage'[w] = "trying" /\ paused'[w] = 0 /\ ~passing'[w]
          /\ allowance'[w] \in Allowances
      BY <1>1, <1>4 DEF WorkInv, WorkTypeOK, Undertake, Become
    <2>3. Undertaken(w)'
      <3>1. allowance'[w].attempts \in Nat \ {0} /\ allowance'[w].pause \in Nat
        BY <2>2 DEF Allowances
      <3> QED BY <2>2, <3>1 DEF Undertaken
    <2> QED BY <1>4, <2>1, <2>2, <2>3, OnePiece DEF Undertake
  <1>5. CASE Succeed(w)
    <2>1. WorkTypeOK' /\ RestKept(w)
      BY <1>1, <1>5 DEF WorkTypeOK, RestKept, Succeed, Become
    <2>2. stage'[w] = "done" /\ UNCHANGED <<allowance[w], attempts[w], paused[w], passing[w]>>
      BY <1>1, <1>5 DEF WorkTypeOK, Succeed, Become
    <2>3. stage[w] = "trying"
      BY <1>5 DEF Succeed
    <2>4. Undertaken(w)'
      BY <1>2, <2>2, <2>3 DEF Undertaken
    <2>5. StepsLeft(w)' = 0 /\ StepsLeft(w) > 0
      BY <1>2, <2>2, <2>3 DEF StepsLeft, Undertaken
    <2> QED BY <1>2, <2>1, <2>2, <2>3, <2>4, <2>5, OnePiece
  <1>6. CASE GiveUp(w)
    <2>1. PICK may \in BOOLEAN : /\ may => attempts[w] = most
                                 /\ passing' = [passing EXCEPT ![w] = may]
      BY <1>6 DEF GiveUp
    <2>2. WorkTypeOK' /\ RestKept(w)
      BY <1>1, <1>6, <2>1 DEF WorkTypeOK, RestKept, GiveUp, Become
    <2>3. /\ stage'[w] = "failed" /\ UNCHANGED <<allowance[w], attempts[w], paused[w]>>
          /\ passing'[w] = may
      BY <1>1, <1>6, <2>1 DEF WorkTypeOK, GiveUp, Become
    <2>4. stage[w] = "trying"
      BY <1>6 DEF GiveUp
    <2>5. Undertaken(w)'
      BY <1>2, <2>1, <2>3, <2>4 DEF Undertaken
    <2>6. StepsLeft(w)' = 0 /\ StepsLeft(w) > 0
      BY <1>2, <2>3, <2>4 DEF StepsLeft, Undertaken
    <2> QED BY <1>2, <2>2, <2>3, <2>4, <2>5, <2>6, OnePiece
  <1>7. CASE Pause(w)
    <2>1. WorkTypeOK' /\ RestKept(w)
      BY <1>1, <1>7 DEF WorkTypeOK, RestKept, Pause, Become
    <2>2. /\ stage[w] = "trying" /\ attempts[w] < most
          /\ stage'[w] = "pausing" /\ UNCHANGED <<allowance[w], attempts[w]>>
          /\ paused'[w] \in Int /\ paused'[w] <= paused[w] + pause
      BY <1>1, <1>7 DEF WorkTypeOK, Pause, Become
    <2>3. paused'[w] <= attempts[w] * pause
      BY <1>1, <1>2, <2>2, PauseGrows DEF WorkTypeOK, Undertaken
    <2>4. Undertaken(w)'
      BY <1>2, <2>2, <2>3 DEF Undertaken
    <2>5. StepsLeft(w)' \in Nat /\ StepsLeft(w)' < StepsLeft(w)
      BY <1>2, <2>2 DEF StepsLeft
    <2> QED BY <1>2, <2>1, <2>2, <2>4, <2>5, OnePiece
  <1>8. CASE TryAgain(w)
    <2>1. WorkTypeOK' /\ RestKept(w)
      BY <1>1, <1>8 DEF WorkTypeOK, RestKept, TryAgain, Become
    <2>2. /\ stage[w] = "pausing" /\ stage'[w] = "trying"
          /\ attempts'[w] = attempts[w] + 1
          /\ UNCHANGED <<allowance[w], paused[w], passing[w]>>
      BY <1>1, <1>8 DEF WorkTypeOK, TryAgain, Become
    <2>3. Undertaken(w)'
      <3>1. attempts'[w] - 1 = attempts[w] /\ attempts'[w] <= most
        BY <1>2, <2>2 DEF Undertaken
      <3> QED BY <1>2, <2>2, <3>1 DEF Undertaken
    <2>4. StepsLeft(w)' \in Nat /\ StepsLeft(w)' < StepsLeft(w)
      BY <1>2, <2>2 DEF StepsLeft, Undertaken
    <2> QED BY <1>2, <2>1, <2>2, <2>3, <2>4, OnePiece
  <1> QED BY <1>3, <1>4, <1>5, <1>6, <1>7, <1>8

LEMMA WorkInvariant == WorkSpec => []WorkInv
  <1>1. WorkInit => WorkInv
    BY DEF WorkInit, WorkInv, WorkTypeOK
  <1>2. WorkInv /\ [WorkNext]_workVars => WorkInv'
    <2>1. ASSUME WorkInv, UNCHANGED workVars PROVE WorkInv'
      BY <2>1 DEF WorkInv, WorkTypeOK, Undertaken, workVars
    <2> QED BY <2>1, WorkStep DEF WorkNext
  <1> QED BY <1>1, <1>2, PTL DEF WorkSpec

\* Work costs no more attempts and pauses than it was allowed, and gives up on
\* what might have passed only when it has had them all.
THEOREM WorkIsBounded == WorkSpec => [](WithinAllowance /\ FailsExhausted)
  <1>1. ASSUME WorkInv, NEW w \in Work, stage[w] # "asked", attempts[w] # 0
        PROVE  /\ attempts[w] <= allowance[w].attempts
               /\ paused[w] <= (allowance[w].attempts - 1) * allowance[w].pause
    <2> DEFINE most == allowance[w].attempts
               pause == allowance[w].pause
    <2>1. /\ Undertaken(w) /\ most \in Nat \ {0} /\ pause \in Nat
          /\ attempts[w] \in Nat \ {0} /\ paused[w] \in Int
      BY <1>1 DEF WorkInv, WorkTypeOK, Undertaken, Allowances
    <2>2. PICK n \in Nat : n <= most - 1 /\ paused[w] <= n * pause
      <3>1. CASE stage[w] = "pausing"
        BY <2>1, <3>1 DEF Undertaken
      <3>2. CASE stage[w] # "pausing"
        <4>1. attempts[w] - 1 \in Nat /\ attempts[w] - 1 <= most - 1
          BY <2>1 DEF Undertaken
        <4> QED BY <2>1, <3>2, <4>1 DEF Undertaken
      <3> QED BY <3>1, <3>2
    <2>3. n * pause <= (most - 1) * pause
      BY <2>1, <2>2
    <2>4. n * pause \in Int /\ (most - 1) * pause \in Int
      BY <2>1
    <2> QED BY <2>1, <2>2, <2>3, <2>4 DEF Undertaken
  <1>2. WorkInv => WithinAllowance /\ FailsExhausted
    BY <1>1 DEF WorkInv, Undertaken, WithinAllowance, FailsExhausted
  <1> QED BY <1>2, WorkInvariant, PTL

\* Every piece of work runs towards its end: each of its steps leaves it fewer,
\* so with its attempts and pauses ending it ends, whatever fails how often.
THEOREM WorkEndsInSight == WorkSpec => WorkDwindles
  <1>1. ASSUME WorkInv, [WorkNext]_workVars, NEW w \in Work, stage[w] # "asked"
        PROVE  \/ UNCHANGED <<stage[w], allowance[w], attempts[w], paused[w], passing[w]>>
               \/ StepsLeft(w)' \in Nat /\ StepsLeft(w)' < StepsLeft(w)
    <2>1. CASE UNCHANGED workVars
      BY <2>1 DEF workVars
    <2>2. CASE \E v \in Work :
                 Decline(v) \/ Undertake(v) \/ Succeed(v) \/ GiveUp(v) \/ Pause(v) \/ TryAgain(v)
      BY <1>1, <2>2, WorkStep DEF RestKept
    <2> QED BY <1>1, <2>1, <2>2 DEF WorkNext
  <1>2. WorkInv /\ [WorkNext]_workVars =>
           [\A w \in Work : stage[w] # "asked" =>
               \/ UNCHANGED <<stage[w], allowance[w], attempts[w], paused[w], passing[w]>>
               \/ StepsLeft(w)' \in Nat /\ StepsLeft(w)' < StepsLeft(w)]_workVars
    BY <1>1
  <1> QED BY <1>2, WorkInvariant, PTL DEF WorkSpec, WorkDwindles
=============================================================================
