----------------------- MODULE IdentityCollectionProofs -----------------------
(***************************************************************************)
(* Theorems about IdentityCollection, for any threads, calls, changes of   *)
(* the source, workload details and client data.                           *)
(***************************************************************************)
EXTENDS IdentityCollection, WellFoundedInduction, SequenceTheorems, TLAPS

\* What a collection comes to is an outcome.
LEMMA IdentityType ==
    ASSUME NEW p \in Providers, NEW o \in Offers, NEW d \in Details
    PROVE  IdentityFrom(p, o, d) \in Outcomes
  <1> DEFINE c == Collected(p, o)
  <1>1. \A r \in BOOLEAN : Failed("trust_provider", r) \in Outcomes
    BY DEF Failed, Outcomes
  <1>2. Failed("credential", FALSE) \in Outcomes
    BY DEF Failed, Outcomes
  <1>3. \A x \in Clients : Succeeded(x) \in Outcomes
    BY DEF Succeeded, Outcomes
  <1>4. \/ c = Failed("trust_provider",
                     o.kind = "raisesSdk" /\ p.family # "plain" /\ o.retryable)
        \/ \E x \in Collectable : Accepts(x) /\ c = Succeeded(x)
    <2>1. ASSUME o.kind = "token" PROVE o.value \in 0 .. MaxVersion
      BY <2>1, CollectionAssumption DEF Offers, OffersOf, TokenOffers, RaisedOffers, Providers
    <2>2. ASSUME o.kind = "tree" PROVE o.value \in Collectable
      BY <2>2 DEF Offers, OffersOf, TokenOffers, RaisedOffers, Providers
    <2> QED BY <2>1, <2>2, CollectionAssumption DEF Collected
  <1>5. ASSUME o.kind = "raisesSdk" PROVE o.retryable \in BOOLEAN
    BY <1>5 DEF Offers, OffersOf, TokenOffers, RaisedOffers, Providers
  <1>6. CASE c = Failed("trust_provider",
                     o.kind = "raisesSdk" /\ p.family # "plain" /\ o.retryable)
    <2>1. c \in Outcomes
      BY <1>1, <1>5, <1>6
    <2>2. ~c.ok
      BY <1>6 DEF Failed
    <2> QED BY <2>1, <2>2 DEF IdentityFrom
  <1>7. ASSUME NEW x \in Collectable, Accepts(x), c = Succeeded(x)
        PROVE  IdentityFrom(p, o, d) \in Outcomes
    <2>1. c.ok /\ c.client = x
      BY <1>7 DEF Succeeded
    <2>2. x \in Clients /\ (d # Nothing /\ Accepts(d) => Merged(x, d) \in Clients)
      BY <1>7, CollectionAssumption, TreeAssumption DEF UsableDetails
    <2> QED BY <1>2, <1>3, <1>7, <2>1, <2>2 DEF IdentityFrom, DetailsAreUsable
  <1> QED BY <1>4, <1>6, <1>7

\* A failing key is an outcome too.
LEMMA KeyFailureType == ASSUME NEW p \in Providers PROVE KeyFailure(p) \in Outcomes
  BY DEF KeyFailure, Failed, Outcomes

\* What a source yields at any time is an offer.
LEMMA OffersType ==
    ASSUME NEW p \in Providers, NEW v \in 0 .. MaxVersion
    PROVE  OffersOf(p, v) \subseteq Offers
  BY DEF Offers

LEMMA TypeInit == Init => TypeOK
  <1> SUFFICES ASSUME Init PROVE TypeOK
    OBVIOUS
  <1>1. 0 \in 0 .. MaxVersion /\ 0 \in 0 .. MaxCalls
    BY CollectionAssumption
  <1>2. offer \in Offers
    BY <1>1, OffersType DEF Init
  <1> QED BY <1>1, <1>2 DEF Init, TypeOK

\* A thread is where the model has it, and what it waits on or leads exists.
Placed ==
    \A t \in Threads :
        /\ pc[t] # "idle" => callNo[t] \in 1 .. MaxCalls
        /\ pc[t] \in {"wait", "publish", "retire"} => joined[t] \in FlightIds

\* A flight is done only when its outcome is known.
DoneHasOutcome ==
    /\ \A f \in FlightIds : flights[f].done => flights[f].outcome # Nothing
    /\ \A t \in Threads :
          pc[t] \in {"publish", "retire"} => flights[joined[t]].outcome # Nothing

Sound == TypeOK /\ Placed /\ DoneHasOutcome

\* Whatever a thread has collected, its state stays sound.
LEMMA CollectSound ==
    ASSUME Sound, NEW t \in Threads, NEW o \in Outcomes, Collect(t, o),
           pc[t] \in {"collect", "read"}
    PROVE  Sound'
  <1> USE CollectionAssumption DEF Sound, TypeOK, Placed, DoneHasOutcome, config, source
  <1>1. CASE joined[t] = Nothing
    BY <1>1 DEF Collect, Return, GoTo
  <1>2. CASE joined[t] # Nothing
    <2>1. joined[t] \in FlightIds
      BY <1>2
    <2>2. /\ flights' = [flights EXCEPT ![joined[t]].outcome = o]
          /\ pc' = [pc EXCEPT ![t] = "publish"]
          /\ UNCHANGED <<outcome, joined, config, source, entry, callNo, seen>>
      BY <1>2 DEF Collect, GoTo
    <2>3. /\ flights' \in [FlightIds -> [outcome : Outcomes \cup {Nothing}, done : BOOLEAN]]
          /\ \A f \in FlightIds :
                /\ flights'[f].done = flights[f].done
                /\ flights'[f].outcome = IF f = joined[t] THEN o ELSE flights[f].outcome
      BY <2>1, <2>2
    <2>4. o # Nothing
      OBVIOUS
    <2> QED BY <2>1, <2>2, <2>3, <2>4
  <1> QED BY <1>1, <1>2

LEMMA SoundStep == Sound /\ [Next]_vars => Sound'
  <1> SUFFICES ASSUME Sound, [Next]_vars PROVE Sound'
    OBVIOUS
  <1> USE CollectionAssumption
  <1>1. CASE UNCHANGED vars \/ Finished
    BY <1>1 DEF Sound, TypeOK, Placed, DoneHasOutcome, vars, Finished
  <1>2. CASE Rotate
    <2>1. version' \in 0 .. MaxVersion
      BY <1>2 DEF Rotate, Sound, TypeOK
    <2>2. offer' \in Offers
      BY <1>2, <2>1, OffersType DEF Rotate, Sound, TypeOK
    <2>3. seen' \in [Threads -> SUBSET Offers]
      BY <1>2, <2>2 DEF Rotate, Sound, TypeOK
    <2> QED BY <1>2, <2>1, <2>2, <2>3 DEF Rotate, Sound, TypeOK, Placed, DoneHasOutcome, config
  <1>3. ASSUME NEW t \in Threads, StartCall(t) PROVE Sound'
    <2>1. KeyFailure(provider) \in Outcomes
      BY KeyFailureType DEF Sound, TypeOK
    <2>2. callNo' \in [Threads -> 0 .. MaxCalls] /\ callNo'[t] \in 1 .. MaxCalls
      BY <1>3 DEF StartCall, Sound, TypeOK
    <2> QED BY <1>3, <2>1, <2>2 DEF StartCall, Return, GoTo, Sound, TypeOK, Placed,
                                    DoneHasOutcome, config, source
  <1>4. ASSUME NEW t \in Threads, Join(t) PROVE Sound'
    BY <1>4 DEF Join, GoTo, Sound, TypeOK, Placed, DoneHasOutcome, config, source
  <1>5. ASSUME NEW t \in Threads, Lead(t) PROVE Sound'
    <2>1. <<t, callNo[t]>> \in FlightIds
      BY <1>5 DEF Lead, Sound, Placed, FlightIds
    <2> QED BY <1>5, <2>1 DEF Lead, GoTo, Sound, TypeOK, Placed, DoneHasOutcome, config, source
  <1>6. ASSUME NEW t \in Threads, Wake(t) PROVE Sound'
    BY <1>6 DEF Wake, Return, GoTo, Sound, TypeOK, Placed, DoneHasOutcome, config, source
  <1>7. ASSUME NEW t \in Threads, ResolveToken(t) \/ FindTokenFile(t) \/ ReadTokenFile(t)
        PROVE  Sound'
    <2>1. IdentityFrom(provider, offer, details) \in Outcomes
      BY IdentityType DEF Sound, TypeOK
    <2>2. CASE Collect(t, IdentityFrom(provider, offer, details))
      BY <1>7, <2>1, <2>2, CollectSound DEF ResolveToken, FindTokenFile, ReadTokenFile
    <2>3. CASE GoTo(t, "read") /\ UNCHANGED <<config, source, entry, flights, callNo,
                                              joined, outcome, seen>>
      BY <1>7, <2>3 DEF FindTokenFile, ReadTokenFile, ResolveToken, GoTo, Sound, TypeOK,
                        Placed, DoneHasOutcome, config, source
    <2> QED BY <1>7, <2>2, <2>3 DEF ResolveToken, FindTokenFile, ReadTokenFile
  <1>8. ASSUME NEW t \in Threads, Publish(t) PROVE Sound'
    <2>1. joined[t] \in FlightIds
      BY <1>8 DEF Publish, Sound, Placed
    <2>2. /\ flights' \in [FlightIds -> [outcome : Outcomes \cup {Nothing}, done : BOOLEAN]]
          /\ \A f \in FlightIds :
                /\ flights'[f].outcome = flights[f].outcome
                /\ flights'[f].done => flights[f].done \/ f = joined[t]
      BY <1>8, <2>1 DEF Publish, Sound, TypeOK
    <2> QED BY <1>8, <2>1, <2>2 DEF Publish, GoTo, Sound, TypeOK, Placed, DoneHasOutcome,
                                    config, source
  <1>9. ASSUME NEW t \in Threads, Retire(t) PROVE Sound'
    BY <1>9 DEF Retire, Return, GoTo, Sound, TypeOK, Placed, DoneHasOutcome, config, source
  <1> QED BY <1>1, <1>2, <1>3, <1>4, <1>5, <1>6, <1>7, <1>8, <1>9 DEF Next, Step

LEMMA SoundInit == Init => Sound
  BY TypeInit DEF Init, Sound, Placed, DoneHasOutcome

\* At every moment the collections are sound: a thread refers to flights there
\* are, and a flight that is over has an outcome to give.
THEOREM CollectionsSound == Spec => []Sound
  BY SoundInit, SoundStep, PTL DEF Spec

\* The types of IdentityCollection, for every instance.
THEOREM TypeCorrect == Spec => []TypeOK
  BY CollectionsSound, PTL DEF Sound

-----------------------------------------------------------------------------
(* Every outcome was on offer during its own collection.  The source of a  *)
(* shared provider never changes, so a flight yields what any of its       *)
(* threads would have collected; a provider that is not shared has no      *)
(* flights at all.                                                         *)

\* A running collection has seen what is on offer.
Watching == \A t \in Threads : pc[t] # "idle" => offer \in seen[t]

\* Flights are for shared providers, and yield what is on offer.
FlightsAreCurrent ==
    IF IsShared(provider)
    THEN \A f \in FlightIds :
            flights[f].outcome # Nothing =>
                flights[f].outcome = IdentityFrom(provider, offer, details)
    ELSE \A t \in Threads :
            /\ joined[t] = Nothing
            /\ pc[t] \in {"idle", "collect", "read"}

Timely == Watching /\ FlightsAreCurrent /\ AnsweredByItsTime

\* A source that changes is never shared.
LEMMA RotatingIsUnshared ==
    ASSUME NEW p \in Providers, p.source \in {"callable", "file"}
    PROVE  ~IsShared(p)
  BY DEF Providers, IsShared, SingleFlightKey

\* A collection that ends with what is on offer is answered by its time.
LEMMA CollectTimely ==
    ASSUME Sound, Timely, NEW t \in Threads, pc[t] # "idle",
           Collect(t, IdentityFrom(provider, offer, details))
    PROVE  Timely'
  <1> DEFINE o == IdentityFrom(provider, offer, details)
  <1>1. offer \in seen[t] /\ UNCHANGED <<provider, details, offer, seen>>
    BY DEF Timely, Watching, Collect, config, source
  <1>2. CASE joined[t] = Nothing
    <2>1. /\ pc' = [pc EXCEPT ![t] = "idle"]
          /\ outcome' = [outcome EXCEPT ![t] = o]
          /\ joined' = [joined EXCEPT ![t] = Nothing]
          /\ UNCHANGED flights
      BY <1>2 DEF Collect, Return, GoTo
    <2>2. Watching'
      BY <1>1, <2>1 DEF Timely, Watching, Sound, TypeOK
    <2>3. FlightsAreCurrent'
      BY <1>1, <2>1 DEF Timely, FlightsAreCurrent, Sound, TypeOK
    <2>4. AnsweredByItsTime'
      BY <1>1, <2>1 DEF Timely, AnsweredByItsTime, Sound, TypeOK
    <2> QED BY <2>2, <2>3, <2>4 DEF Timely
  <1>3. CASE joined[t] # Nothing
    <2>1. /\ flights' = [flights EXCEPT ![joined[t]].outcome = o]
          /\ pc' = [pc EXCEPT ![t] = "publish"]
          /\ UNCHANGED <<outcome, joined>>
      BY <1>3 DEF Collect, GoTo
    <2>2. IsShared(provider) /\ joined[t] \in FlightIds
      BY <1>3 DEF Timely, FlightsAreCurrent, Sound, TypeOK
    <2>3. \A f \in FlightIds :
             flights'[f].outcome = IF f = joined[t] THEN o ELSE flights[f].outcome
      BY <2>1, <2>2 DEF Sound, TypeOK
    <2>4. Watching'
      BY <1>1, <2>1 DEF Timely, Watching, Sound, TypeOK
    <2>5. FlightsAreCurrent'
      BY <1>1, <2>2, <2>3 DEF Timely, FlightsAreCurrent
    <2>6. AnsweredByItsTime'
      BY <1>1, <2>1 DEF Timely, AnsweredByItsTime
    <2> QED BY <2>4, <2>5, <2>6 DEF Timely
  <1> QED BY <1>2, <1>3

\* A thread that takes a flight's outcome takes what is on offer.
LEMMA TakeTimely ==
    ASSUME Sound, Timely, NEW t \in Threads, pc[t] \in {"wait", "retire"},
           Return(t, flights[joined[t]].outcome),
           flights[joined[t]].outcome # Nothing,
           UNCHANGED <<config, source, flights, callNo, seen>>
    PROVE  Timely'
  <1>1. IsShared(provider) /\ joined[t] \in FlightIds
    BY DEF Timely, FlightsAreCurrent, Sound, Placed
  <1>2. flights[joined[t]].outcome = IdentityFrom(provider, offer, details)
    BY <1>1 DEF Timely, FlightsAreCurrent
  <1>3. offer \in seen[t]
    BY DEF Timely, Watching
  <1>4. Watching' /\ FlightsAreCurrent'
    BY <1>1 DEF Timely, Watching, FlightsAreCurrent, Return, GoTo, config, source, Sound, TypeOK
  <1>5. AnsweredByItsTime'
    BY <1>2, <1>3 DEF Timely, AnsweredByItsTime, Return, config, source, Sound, TypeOK
  <1> QED BY <1>4, <1>5 DEF Timely

LEMMA TimelyStep == Sound /\ Timely /\ [Next]_vars => Timely'
  <1> SUFFICES ASSUME Sound, Timely, [Next]_vars PROVE Timely'
    OBVIOUS
  <1>1. CASE UNCHANGED vars \/ Finished
    BY <1>1 DEF Timely, Watching, FlightsAreCurrent, AnsweredByItsTime, vars, Finished
  <1>2. CASE Rotate
    <2>1. ~IsShared(provider) /\ UNCHANGED <<provider, details, pc, joined, outcome>>
      BY <1>2, RotatingIsUnshared DEF Rotate, config, Sound, TypeOK
    <2>2. \A t \in Threads :
             /\ seen[t] \subseteq seen'[t]
             /\ pc[t] # "idle" => offer' \in seen'[t]
      BY <1>2 DEF Rotate
    <2> QED BY <2>1, <2>2 DEF Timely, Watching, FlightsAreCurrent, AnsweredByItsTime
  <1>3. ASSUME NEW t \in Threads, StartCall(t) PROVE Timely'
    <2>1. /\ UNCHANGED <<provider, details, offer, flights>>
          /\ seen' = [seen EXCEPT ![t] = {offer}]
      BY <1>3 DEF StartCall, config, source
    <2>2. CASE KeyFails(provider)
      <3>1. /\ pc' = [pc EXCEPT ![t] = "idle"]
            /\ outcome' = [outcome EXCEPT ![t] = KeyFailure(provider)]
            /\ joined' = [joined EXCEPT ![t] = Nothing]
        BY <1>3, <2>2 DEF StartCall, Return, GoTo
      <3> QED BY <2>1, <2>2, <3>1 DEF Timely, Watching, FlightsAreCurrent,
                                       AnsweredByItsTime, Sound, TypeOK
    <2>3. CASE ~KeyFails(provider)
      <3>1. /\ pc' = [pc EXCEPT ![t] = IF IsShared(provider) THEN "coalesce" ELSE "collect"]
            /\ outcome' = [outcome EXCEPT ![t] = Nothing]
            /\ UNCHANGED joined
        BY <1>3, <2>3 DEF StartCall, GoTo
      <3> QED BY <2>1, <3>1 DEF Timely, Watching, FlightsAreCurrent,
                                 AnsweredByItsTime, Sound, TypeOK
    <2> QED BY <2>2, <2>3
  <1>4. ASSUME NEW t \in Threads, Join(t) \/ Lead(t) PROVE Timely'
    <2>1. pc[t] = "coalesce" /\ IsShared(provider)
      BY <1>4 DEF Join, Lead, Timely, FlightsAreCurrent
    <2> QED BY <1>4, <2>1 DEF Join, Lead, GoTo, Timely, Watching, FlightsAreCurrent,
                              AnsweredByItsTime, Sound, TypeOK, config, source
  <1>5. ASSUME NEW t \in Threads, Wake(t) \/ Retire(t) PROVE Timely'
    <2>1. flights[joined[t]].outcome # Nothing
      BY <1>5 DEF Wake, Retire, Sound, Placed, DoneHasOutcome
    <2> QED BY <1>5, <2>1, TakeTimely DEF Wake, Retire
  <1>6. ASSUME NEW t \in Threads, ResolveToken(t) \/ FindTokenFile(t) \/ ReadTokenFile(t)
        PROVE  Timely'
    <2>1. CASE Collect(t, IdentityFrom(provider, offer, details))
      BY <1>6, <2>1, CollectTimely DEF ResolveToken, FindTokenFile, ReadTokenFile
    <2>2. CASE /\ pc[t] = "collect" /\ GoTo(t, "read")
               /\ UNCHANGED <<config, source, entry, flights, callNo, joined, outcome, seen>>
      BY <2>2 DEF GoTo, Timely, Watching, FlightsAreCurrent, AnsweredByItsTime,
                  config, source, Sound, TypeOK
    <2> QED BY <1>6, <2>1, <2>2 DEF ResolveToken, FindTokenFile, ReadTokenFile
  <1>7. ASSUME NEW t \in Threads, Publish(t) PROVE Timely'
    <2>1. /\ joined[t] \in FlightIds
          /\ pc[t] = "publish" /\ pc' = [pc EXCEPT ![t] = "retire"]
          /\ UNCHANGED <<provider, details, offer, joined, outcome, seen>>
      BY <1>7 DEF Publish, GoTo, Sound, Placed, config, source
    <2>2. \A f \in FlightIds : flights'[f].outcome = flights[f].outcome
      BY <1>7, <2>1 DEF Publish, Sound, TypeOK
    <2> QED BY <2>1, <2>2 DEF Timely, Watching, FlightsAreCurrent, AnsweredByItsTime,
                              Sound, TypeOK
  <1> QED BY <1>1, <1>2, <1>3, <1>4, <1>5, <1>6, <1>7 DEF Next, Step

LEMMA TimelyInit == Init => Timely
  BY DEF Init, Timely, Watching, FlightsAreCurrent, AnsweredByItsTime

\* However a token source changes while threads collect and share collections,
\* every outcome was on offer during the collection that returns it.
THEOREM OutcomesAreTimely == Spec => []AnsweredByItsTime
  BY CollectionsSound, TimelyInit, TimelyStep, PTL DEF Spec, Timely

-----------------------------------------------------------------------------
(* Induction on how deep an object is.  The library's induction theorems   *)
(* have an operator parameter, which the provers cannot instantiate; that  *)
(* every set of numbers has a least element is first-order.                *)

\* A set of numbers that is not empty has a least one.
LEMMA LeastNumber ==
    ASSUME NEW T, T \subseteq Nat, T # {}
    PROVE  \E m \in T : \A n \in T : m <= n
  <1> DEFINE R == {p \in Nat \X Nat : p[1] < p[2]}
  <1>1. IsWellFoundedOn(R, Nat)
    BY NatLessThanWellFounded DEF OpToRel
  <1>2. PICK m \in T : \A n \in T : ~ (<<n, m>> \in R)
    BY <1>1, WFMin
  <1>3. ASSUME NEW n \in T PROVE m <= n
    <2>1. <<n, m>> \notin R /\ n \in Nat /\ m \in Nat
      BY <1>2
    <2>2. ~ (n < m)
      BY <2>1
    <2> QED BY <2>1, <2>2
  <1> QED BY <1>3

\* What holds of an object whenever it holds of all flatter ones holds of all.
LEMMA TreeInduction ==
    ASSUME NEW S,
           \A c \in Clients : (\A b \in Clients : Depth(b) < Depth(c) => b \in S) => c \in S
    PROVE  Clients \subseteq S
  <1> DEFINE T == {n \in Nat : \E c \in Clients \ S : Depth(c) = n}
  <1>1. SUFFICES ASSUME NEW c \in Clients \ S PROVE FALSE
    OBVIOUS
  <1>2. \A b \in Clients : Depth(b) \in Nat
    BY TreeAssumption
  <1>3. T \subseteq Nat /\ T # {}
    BY <1>2
  <1>4. PICK m \in T : \A n \in T : m <= n
    BY <1>3, LeastNumber
  <1>5. PICK b \in Clients \ S : Depth(b) = m
    BY <1>4
  <1>6. \A d \in Clients \ S : Depth(d) \in T
    BY <1>2
  <1>7. \A d \in Clients : Depth(d) < Depth(b) => d \in S
    BY <1>2, <1>4, <1>5, <1>6
  <1> QED BY <1>5, <1>7

-----------------------------------------------------------------------------
(* Paths *)

\* A key in front of a path.
LEMMA KeyInFront ==
    ASSUME NEW K, NEW k \in K, NEW a \in Seq(K)
    PROVE  /\ <<k>> \o a \in Seq(K) /\ Len(<<k>> \o a) = Len(a) + 1
           /\ (<<k>> \o a)[1] = k
           /\ \A i \in 1 .. Len(a) : (<<k>> \o a)[i + 1] = a[i]
  OBVIOUS

\* Prefixes, element by element.
LEMMA PrefixByElement ==
    ASSUME NEW K, NEW a \in Seq(K), NEW b \in Seq(K)
    PROVE  IsPrefix(a, b) <=> Len(a) <= Len(b) /\ \A i \in 1 .. Len(a) : a[i] = b[i]
  <1>1. ASSUME Len(a) <= Len(b)
        PROVE  SubSeq(a, 1, Len(a)) = SubSeq(b, 1, Len(a)) <=> \A i \in 1 .. Len(a) : a[i] = b[i]
    <2>1. /\ SubSeq(a, 1, Len(a)) = [i \in 1 .. Len(a) |-> a[i]]
          /\ SubSeq(b, 1, Len(a)) = [i \in 1 .. Len(a) |-> b[i]]
      BY <1>1
    <2> QED BY <2>1
  <1> QED BY <1>1 DEF IsPrefix

\* A key in front of both paths does not tell them apart.
LEMMA PrefixInFront ==
    ASSUME NEW K, NEW k \in K, NEW a \in Seq(K), NEW b \in Seq(K)
    PROVE  IsPrefix(<<k>> \o a, <<k>> \o b) <=> IsPrefix(a, b)
  <1> DEFINE ka == <<k>> \o a
             kb == <<k>> \o b
  <1>1. /\ ka \in Seq(K) /\ Len(ka) = Len(a) + 1 /\ ka[1] = k
        /\ \A i \in 1 .. Len(a) : ka[i + 1] = a[i]
    BY KeyInFront
  <1>2. /\ kb \in Seq(K) /\ Len(kb) = Len(b) + 1 /\ kb[1] = k
        /\ \A i \in 1 .. Len(b) : kb[i + 1] = b[i]
    BY KeyInFront
  <1>3. Len(a) \in Nat /\ Len(b) \in Nat
    OBVIOUS
  <1> HIDE DEF ka, kb
  <1>4. IsPrefix(ka, kb) <=> Len(ka) <= Len(kb) /\ \A i \in 1 .. Len(ka) : ka[i] = kb[i]
    <2>1. ka \in Seq(K) /\ kb \in Seq(K)
      BY <1>1, <1>2
    <2> QED BY <2>1, PrefixByElement
  <1>5. IsPrefix(a, b) <=> Len(a) <= Len(b) /\ \A i \in 1 .. Len(a) : a[i] = b[i]
    BY PrefixByElement
  <1>6. ASSUME IsPrefix(ka, kb) PROVE IsPrefix(a, b)
    <2>1. Len(a) <= Len(b) /\ \A i \in 1 .. Len(a) + 1 : ka[i] = kb[i]
      BY <1>1, <1>2, <1>3, <1>4, <1>6
    <2>2. ASSUME NEW i \in 1 .. Len(a) PROVE a[i] = b[i]
      <3>1. i + 1 \in 1 .. Len(a) + 1 /\ i \in 1 .. Len(b)
        BY <1>3, <2>1
      <3> QED BY <1>1, <1>2, <2>1, <3>1
    <2> QED BY <1>5, <2>1, <2>2
  <1>7. ASSUME IsPrefix(a, b) PROVE IsPrefix(ka, kb)
    <2>1. Len(a) <= Len(b) /\ \A i \in 1 .. Len(a) : a[i] = b[i]
      BY <1>5, <1>7
    <2>2. ASSUME NEW i \in 1 .. Len(ka) PROVE ka[i] = kb[i]
      <3>1. CASE i = 1
        BY <1>1, <1>2, <3>1
      <3>2. CASE i # 1
        <4>1. i - 1 \in 1 .. Len(a) /\ i - 1 \in 1 .. Len(b) /\ (i - 1) + 1 = i
          BY <1>1, <1>3, <2>1, <3>2
        <4> QED BY <1>1, <1>2, <2>1, <4>1
      <3> QED BY <3>1, <3>2
    <2> QED BY <1>1, <1>2, <1>3, <1>4, <2>1, <2>2
  <1> QED BY <1>6, <1>7 DEF ka, kb

\* So different paths differ behind the same key.
LEMMA KeyCancels ==
    ASSUME NEW K, NEW k \in K, NEW a \in Seq(K), NEW b \in Seq(K),
           <<k>> \o a = <<k>> \o b
    PROVE  a = b
  <1>1. /\ Len(<<k>> \o a) = Len(a) + 1 /\ \A i \in 1 .. Len(a) : (<<k>> \o a)[i + 1] = a[i]
        /\ Len(<<k>> \o b) = Len(b) + 1 /\ \A i \in 1 .. Len(b) : (<<k>> \o b)[i + 1] = b[i]
    BY KeyInFront
  <1>2. Len(a) = Len(b)
    BY <1>1
  <1>3. \A i \in 1 .. Len(a) : a[i] = b[i]
    BY <1>1, <1>2
  <1> QED BY <1>2, <1>3, SeqEqual

-----------------------------------------------------------------------------
(* Nodes *)

Keys == UNION {DOMAIN c.members : c \in Clients}

\* A node: a path that is not empty, and what stands there.
IsNode(n) == n = <<n[1], n[2]>> /\ n[1] \in Seq(Keys) /\ Len(n[1]) >= 1

\* Nodes one key further down are nodes.
LEMMA BelowNodes ==
    ASSUME NEW k \in Keys, NEW N, \A n \in N : IsNode(n)
    PROVE  \A n \in Below(k, N) :
              IsNode(n) /\ n[1][1] = k /\ \E b \in N : n[1] = <<k>> \o b[1] /\ n[2] = b[2]
  <1> SUFFICES ASSUME NEW n \in Below(k, N)
               PROVE  IsNode(n) /\ n[1][1] = k
                      /\ \E b \in N : n[1] = <<k>> \o b[1] /\ n[2] = b[2]
    OBVIOUS
  <1>1. PICK b \in N : n = << <<k>> \o b[1], b[2] >>
    BY DEF Below
  <1>2. b[1] \in Seq(Keys) /\ Len(b[1]) \in Nat
    BY DEF IsNode
  <1>3. <<k>> \o b[1] \in Seq(Keys) /\ Len(<<k>> \o b[1]) = Len(b[1]) + 1
        /\ (<<k>> \o b[1])[1] = k
    BY <1>2, KeyInFront
  <1> QED BY <1>1, <1>2, <1>3 DEF IsNode

\* The nodes of an object at one of its keys.
At(c, k) == IF k \in DOMAIN c.members THEN NodesAt(k, c.members[k], NodesOf) ELSE {}

\* The nodes of an object are nodes, told apart by the key they begin with.
LEMMA NodesTyped == \A c \in Clients : \A n \in NodesOf(c) : IsNode(n)
  <1> DEFINE S == {c \in Clients : \A n \in NodesOf(c) : IsNode(n)}
  <1>1. ASSUME NEW c \in Clients, \A b \in Clients : Depth(b) < Depth(c) => b \in S
        PROVE  c \in S
    <2> SUFFICES ASSUME NEW n \in NodesOf(c) PROVE IsNode(n)
      OBVIOUS
    <2>1. PICK k \in DOMAIN c.members : n \in NodesAt(k, c.members[k], NodesOf)
      <3>1. NodesOf(c) = UNION {NodesAt(k, c.members[k], NodesOf) : k \in DOMAIN c.members}
        BY TreeAssumption DEF NodesByKey
      <3> QED BY <3>1
    <2>2. k \in Keys /\ <<k>> \in Seq(Keys) /\ Len(<<k>>) = 1
      BY DEF Keys
    <2>3. CASE n = << <<k>>, n[2] >>
      <3>1. n[1] = <<k>>
        BY <2>3
      <3> QED BY <2>2, <2>3, <3>1 DEF IsNode
    <2>4. CASE IsObject(c.members[k]) /\ n \in Below(k, NodesOf(c.members[k]))
      <3>1. \A m \in NodesOf(c.members[k]) : IsNode(m)
        BY <1>1, <2>4, TreeAssumption
      <3> QED BY <2>2, <2>4, <3>1, BelowNodes
    <2> QED BY <2>1, <2>3, <2>4 DEF NodesAt
  <1>2. Clients \subseteq S
    <2> HIDE DEF S
    <2> QED BY <1>1, TreeInduction
  <1> QED BY <1>2

\* Which they are is seen key by key.
LEMMA NodesByHead ==
    ASSUME NEW c \in Clients
    PROVE  \A n : n \in NodesOf(c) <=> n \in At(c, n[1][1])
  <1>1. ASSUME NEW k \in DOMAIN c.members, NEW n \in NodesAt(k, c.members[k], NodesOf)
        PROVE  n[1][1] = k
    <2>1. k \in Keys
      BY DEF Keys
    <2>2. CASE n = << <<k>>, n[2] >>
      BY <2>2
    <2>3. CASE IsObject(c.members[k]) /\ n \in Below(k, NodesOf(c.members[k]))
      <3>1. c.members[k] \in Clients
        BY <2>3, TreeAssumption
      <3> QED BY <2>1, <2>3, <3>1, NodesTyped, BelowNodes
    <2> QED BY <1>1, <2>2, <2>3 DEF NodesAt
  <1>2. NodesOf(c) = UNION {NodesAt(k, c.members[k], NodesOf) : k \in DOMAIN c.members}
    BY TreeAssumption DEF NodesByKey
  <1> QED BY <1>1, <1>2 DEF At

\* Whether a node is added to others depends on those that begin as it does.
LEMMA MergedByHead ==
    ASSUME NEW c \in Clients, NEW d \in Clients, NEW n
    PROVE  n \in MergedNodes(NodesOf(c), NodesOf(d))
              <=> n \in MergedNodes(At(c, n[1][1]), At(d, n[1][1]))
  <1> DEFINE k == n[1][1]
             Free(m) == IsPrefix(m[1], n[1]) => m[1] # n[1] /\ m[2] = InnerNode
  <1>1. /\ \A m : m \in NodesOf(c) <=> m \in At(c, m[1][1])
        /\ \A m : m \in NodesOf(d) <=> m \in At(d, m[1][1])
    BY NodesByHead
  <1>2. ASSUME n \in NodesOf(d), NEW m \in NodesOf(c), IsPrefix(m[1], n[1])
        PROVE  m \in At(c, k)
    <2>1. IsNode(m) /\ IsNode(n)
      BY <1>2, NodesTyped
    <2>2. m[1] \in Seq(Keys) /\ n[1] \in Seq(Keys) /\ 1 \in 1 .. Len(m[1])
      BY <2>1 DEF IsNode
    <2>3. m[1][1] = k
      BY <1>2, <2>2, PrefixByElement
    <2> QED BY <1>1, <2>3
  <1>3. \A m \in At(c, k) : m \in NodesOf(c)
    <2>1. \A m \in At(c, k) : m \in NodesOf(c)
      BY TreeAssumption DEF At, NodesByKey
    <2> QED BY <2>1
  <1>4. n \in MergedNodes(NodesOf(c), NodesOf(d)) <=>
           n \in At(c, k) \/ (n \in At(d, k) /\ \A m \in NodesOf(c) : Free(m))
    BY <1>1 DEF MergedNodes
  <1>5. n \in MergedNodes(At(c, k), At(d, k)) <=>
           n \in At(c, k) \/ (n \in At(d, k) /\ \A m \in At(c, k) : Free(m))
    BY DEF MergedNodes
  <1> QED BY <1>1, <1>2, <1>3, <1>4, <1>5

\* Two objects that meet at a key: their nodes merge as those of the objects do.
LEMMA ObjectsMeet ==
    ASSUME NEW k \in Keys, NEW A, NEW B,
           \A n \in A : IsNode(n), \A n \in B : IsNode(n)
    PROVE  MergedNodes({<< <<k>>, InnerNode >>} \cup Below(k, A),
                       {<< <<k>>, InnerNode >>} \cup Below(k, B))
             = {<< <<k>>, InnerNode >>} \cup Below(k, MergedNodes(A, B))
  <1> DEFINE root == << <<k>>, InnerNode >>
             Free(m, n) == IsPrefix(m[1], n[1]) => m[1] # n[1] /\ m[2] = InnerNode
             Down(n) == << <<k>> \o n[1], n[2] >>
  <1>1. root[1] = <<k>> /\ root[2] = InnerNode /\ <<k>> \in Seq(Keys) /\ Len(<<k>>) = 1
        /\ <<k>>[1] = k
    OBVIOUS
  <1>2. \A n : Down(n)[1] = <<k>> \o n[1] /\ Down(n)[2] = n[2]
    OBVIOUS
  <1>3. ASSUME NEW n \in B PROVE Free(root, Down(n))
    <2>1. n[1] \in Seq(Keys) /\ Len(n[1]) >= 1 /\ Len(n[1]) \in Nat
      BY DEF IsNode
    <2>2. Len(<<k>> \o n[1]) = Len(n[1]) + 1
      BY <2>1, KeyInFront
    <2> QED BY <1>1, <1>2, <2>1, <2>2
  <1>4. ASSUME NEW m \in A, NEW n \in B PROVE Free(Down(m), Down(n)) <=> Free(m, n)
    <2>1. m[1] \in Seq(Keys) /\ n[1] \in Seq(Keys)
      BY DEF IsNode
    <2>2. /\ IsPrefix(<<k>> \o m[1], <<k>> \o n[1]) <=> IsPrefix(m[1], n[1])
          /\ <<k>> \o m[1] = <<k>> \o n[1] => m[1] = n[1]
      BY <2>1, PrefixInFront, KeyCancels
    <2> QED BY <1>2, <2>2
  <1> HIDE DEF Free, Down
  <1>5. /\ Below(k, A) = {Down(n) : n \in A} /\ Below(k, B) = {Down(n) : n \in B}
        /\ Below(k, MergedNodes(A, B)) = {Down(n) : n \in MergedNodes(A, B)}
    BY DEF Below, Down
  <1>6. \A X, Y : MergedNodes(X, Y) = X \cup {n \in Y : \A m \in X : Free(m, n)}
    BY DEF MergedNodes, Free
  <1> HIDE DEF root
  <1>7. \A n \in B : (\A m \in {root} \cup Below(k, A) : Free(m, Down(n)))
                       <=> \A m \in A : Free(m, n)
    BY <1>3, <1>4, <1>5
  <1>8. ASSUME NEW x
        PROVE  x \in MergedNodes({root} \cup Below(k, A), {root} \cup Below(k, B))
                 <=> x \in {root} \cup Below(k, MergedNodes(A, B))
    BY <1>5, <1>6, <1>7
  <1> QED BY <1>8 DEF root

\* Merging two objects merges their nodes key by key.
LEMMA MergeAtKey ==
    ASSUME NEW c \in Clients, NEW d \in UsableDetails, NEW k,
           \A b \in Clients : Depth(b) < Depth(c) =>
              \A e \in UsableDetails :
                 NodesOf(Merged(b, e)) = MergedNodes(NodesOf(b), NodesOf(e))
    PROVE  At(Merged(c, d), k) = MergedNodes(At(c, k), At(d, k))
  <1> DEFINE m == Merged(c, d)
             inC == k \in DOMAIN c.members
             inD == k \in DOMAIN d.members
  <1>1. /\ DOMAIN m.members = DOMAIN c.members \cup DOMAIN d.members
        /\ inD /\ ~inC => m.members[k] = d.members[k]
        /\ inC =>
              m.members[k] = IF inD /\ IsObject(c.members[k]) /\ IsObject(d.members[k])
                             THEN Merged(c.members[k], d.members[k]) ELSE c.members[k]
    <2>1. m = MergeMappings(c, d,
                 [i \in MeetingKeys(c, d) |-> Merged(c.members[i], d.members[i])])
      BY TreeAssumption
    <2> QED BY <2>1 DEF MergeMappings, MeetingKeys, AllKeys, Object
  <1>2. \A N : MergedNodes({}, N) = N /\ MergedNodes(N, {}) = N
    BY DEF MergedNodes
  <1> HIDE DEF m
  <1>3. CASE ~inC
    <2>1. At(c, k) = {}
      BY <1>3 DEF At
    <2>2. At(m, k) = At(d, k)
      BY <1>1, <1>3 DEF At
    <2> QED BY <1>2, <2>1, <2>2 DEF m
  <1>4. CASE inC /\ ~inD
    <2>1. At(d, k) = {} /\ At(m, k) = At(c, k)
      BY <1>1, <1>4 DEF At
    <2> QED BY <1>2, <2>1 DEF m
  <1>5. CASE inC /\ inD /\ IsObject(c.members[k]) /\ IsObject(d.members[k])
    <2> DEFINE b == c.members[k]
               e == d.members[k]
    <2>1. /\ b \in Clients /\ Depth(b) < Depth(c) /\ e \in UsableDetails /\ e \in Clients
          /\ Merged(b, e) \in Clients /\ k \in Keys
      BY <1>5, TreeAssumption DEF Keys
    <2>2. IsObject(Merged(b, e)) /\ m.members[k] = Merged(b, e)
      BY <1>1, <1>5, <2>1, TreeAssumption
    <2>3. At(m, k) = {<< <<k>>, InnerNode >>} \cup Below(k, NodesOf(Merged(b, e)))
      BY <1>1, <1>5, <2>2 DEF At, NodesAt
    <2>4. /\ At(c, k) = {<< <<k>>, InnerNode >>} \cup Below(k, NodesOf(b))
          /\ At(d, k) = {<< <<k>>, InnerNode >>} \cup Below(k, NodesOf(e))
      BY <1>5 DEF At, NodesAt
    <2>5. NodesOf(Merged(b, e)) = MergedNodes(NodesOf(b), NodesOf(e))
      BY <2>1
    <2>6. (\A n \in NodesOf(b) : IsNode(n)) /\ \A n \in NodesOf(e) : IsNode(n)
      BY <2>1, NodesTyped
    <2> HIDE DEF b, e
    <2>7. MergedNodes(At(c, k), At(d, k))
            = {<< <<k>>, InnerNode >>} \cup Below(k, MergedNodes(NodesOf(b), NodesOf(e)))
      BY <2>1, <2>4, <2>6, ObjectsMeet
    <2> QED BY <2>3, <2>5, <2>7 DEF m
  <1>6. CASE inC /\ inD /\ ~(IsObject(c.members[k]) /\ IsObject(d.members[k]))
    <2>1. At(m, k) = At(c, k)
      BY <1>1, <1>6 DEF At
    <2>2. PICK top \in At(c, k) : top[1] = <<k>> /\ (IsObject(c.members[k]) \/ top[2] # InnerNode)
      <3>1. CASE IsObject(c.members[k])
        <4>1. << <<k>>, InnerNode >> \in At(c, k)
          BY <1>6, <3>1 DEF At, NodesAt
        <4> QED BY <3>1, <4>1
      <3>2. CASE ~IsObject(c.members[k])
        <4>1. << <<k>>, c.members[k] >> \in At(c, k)
          BY <1>6, <3>2 DEF At, NodesAt
        <4>2. c.members[k] # InnerNode
          BY <3>2 DEF IsObject, InnerNode
        <4> QED BY <4>1, <4>2
      <3> QED BY <3>1, <3>2
    <2>3. ASSUME NEW n \in At(d, k)
          PROVE  IsPrefix(<<k>>, n[1]) /\ (IsObject(c.members[k]) => n[1] = <<k>>)
      <3>1. n \in NodesOf(d) /\ d \in Clients /\ k \in Keys
        BY <1>6, TreeAssumption DEF At, NodesByKey, Keys
      <3>2. n[1][1] = k /\ IsNode(n)
        <4>1. n \in NodesAt(k, d.members[k], NodesOf)
          BY <1>6 DEF At
        <4>2. CASE IsObject(d.members[k]) /\ n \in Below(k, NodesOf(d.members[k]))
          <5>1. d.members[k] \in Clients
            BY <1>6, <3>1, <4>2, TreeAssumption
          <5>2. \A b \in NodesOf(d.members[k]) : IsNode(b)
            BY <5>1, NodesTyped
          <5> QED BY <3>1, <4>2, <5>2, BelowNodes
        <4>3. CASE n = << <<k>>, n[2] >>
          BY <3>1, <4>3, NodesTyped
        <4> QED BY <4>1, <4>2, <4>3 DEF NodesAt
      <3>3. <<k>> \in Seq(Keys) /\ n[1] \in Seq(Keys) /\ Len(<<k>>) = 1 /\ Len(n[1]) >= 1
            /\ <<k>>[1] = k
        BY <3>1, <3>2 DEF IsNode
      <3>4. IsPrefix(<<k>>, n[1])
        <4>1. \A i \in 1 .. Len(<<k>>) : <<k>>[i] = n[1][i]
          BY <3>2, <3>3
        <4> QED BY <3>3, <4>1, PrefixByElement
      <3>5. IsObject(c.members[k]) => n[1] = <<k>>
        BY <1>6 DEF At, NodesAt
      <3> QED BY <3>4, <3>5
    <2>4. MergedNodes(At(c, k), At(d, k)) = At(c, k)
      BY <2>2, <2>3 DEF MergedNodes
    <2> QED BY <2>1, <2>4 DEF m
  <1> QED BY <1>3, <1>4, <1>5, <1>6

\* _merge_mappings, for all trees: the nodes of the merge of two objects are
\* those of the base, and of the overlay those that stand in nothing's way.
THEOREM MergeByNodes ==
    \A c \in Clients : \A d \in UsableDetails :
        NodesOf(Merged(c, d)) = MergedNodes(NodesOf(c), NodesOf(d))
  <1> DEFINE S == {c \in Clients : \A d \in UsableDetails :
                      NodesOf(Merged(c, d)) = MergedNodes(NodesOf(c), NodesOf(d))}
  <1>1. ASSUME NEW c \in Clients, \A b \in Clients : Depth(b) < Depth(c) => b \in S
        PROVE  c \in S
    <2> SUFFICES ASSUME NEW d \in UsableDetails
                 PROVE  NodesOf(Merged(c, d)) = MergedNodes(NodesOf(c), NodesOf(d))
      OBVIOUS
    <2>1. d \in Clients /\ Merged(c, d) \in Clients
      BY TreeAssumption
    <2>2. \A k : At(Merged(c, d), k) = MergedNodes(At(c, k), At(d, k))
      BY <1>1, MergeAtKey
    <2>3. \A n : n \in NodesOf(Merged(c, d)) <=> n \in At(Merged(c, d), n[1][1])
      BY <2>1, NodesByHead
    <2>4. \A n : n \in MergedNodes(NodesOf(c), NodesOf(d))
                    <=> n \in MergedNodes(At(c, n[1][1]), At(d, n[1][1]))
      BY <2>1, MergedByHead
    <2> QED BY <2>2, <2>3, <2>4
  <1>2. Clients \subseteq S
    <2> HIDE DEF S
    <2> QED BY <1>1, TreeInduction
  <1> QED BY <1>2

-----------------------------------------------------------------------------
(* What that says of a collection *)

\* A successful collection: what the provider collected, with the details laid
\* under it.
LEMMA SuccessIsMerged ==
    ASSUME NEW p \in Providers, NEW o \in Offers, NEW d \in Details,
           IdentityFrom(p, o, d).ok
    PROVE  /\ Collected(p, o).ok /\ Collected(p, o).client \in Clients
           /\ d = Nothing => IdentityFrom(p, o, d).client = Collected(p, o).client
           /\ d # Nothing =>
                 /\ d \in UsableDetails
                 /\ IdentityFrom(p, o, d).client = Merged(Collected(p, o).client, d)
  <1> DEFINE c == Collected(p, o)
  <1>1. c.ok
    BY DEF IdentityFrom
  <1>2. PICK x \in Collectable : Accepts(x) /\ c = Succeeded(x)
    <2>1. o.kind = "token" => o.value \in 0 .. MaxVersion
      BY CollectionAssumption DEF Offers, OffersOf, TokenOffers, RaisedOffers, Providers
    <2>2. o.kind = "tree" => o.value \in Collectable
      BY DEF Offers, OffersOf, TokenOffers, RaisedOffers, Providers
    <2> QED BY <1>1, <2>1, <2>2, CollectionAssumption DEF Collected, Failed
  <1>3. c.client \in Clients
    BY <1>2, CollectionAssumption DEF Succeeded
  <1>4. DetailsAreUsable(d)
    BY <1>1 DEF IdentityFrom, Failed
  <1> HIDE DEF c
  <1>5. d = Nothing => IdentityFrom(p, o, d) = c
    BY <1>1, <1>4 DEF IdentityFrom, c
  <1>6. d # Nothing => d \in UsableDetails /\ IdentityFrom(p, o, d) = Succeeded(Merged(c.client, d))
    BY <1>1, <1>4 DEF IdentityFrom, DetailsAreUsable, UsableDetails, c
  <1> QED BY <1>1, <1>3, <1>5, <1>6 DEF Succeeded, c

\* A successful call ends with a collection of what was on offer during it.
LEMMA SuccessWasOffered ==
    ASSUME TypeOK, AnsweredByItsTime, NEW t \in Threads, outcome[t] # Nothing, outcome[t].ok
    PROVE  \E o \in seen[t] : o \in Offers /\ outcome[t] = IdentityFrom(provider, o, details)
  <1>1. ~KeyFailure(provider).ok
    BY DEF KeyFailure, Failed
  <1>2. \A o \in seen[t] : o \in Offers
    BY DEF TypeOK
  <1> QED BY <1>1, <1>2 DEF AnsweredByItsTime

\* The identity of every request is the merge of what its provider collected
\* with client_workload_details, node by node, for all trees.
THEOREM RequestsMergeByNodes == Spec => []MergeIsByLeaves
  <1>1. TypeOK /\ AnsweredByItsTime => MergeIsByLeaves
    <2> SUFFICES ASSUME TypeOK, AnsweredByItsTime, NEW t \in Threads,
                        outcome[t] # Nothing, outcome[t].ok, details # Nothing
                 PROVE  \E o \in seen[t] :
                           /\ Collected(provider, o).ok
                           /\ NodesOf(outcome[t].client)
                                = MergedNodes(NodesOf(Collected(provider, o).client),
                                              NodesOf(details))
      BY DEF MergeIsByLeaves
    <2>1. PICK o \in seen[t] : o \in Offers /\ outcome[t] = IdentityFrom(provider, o, details)
      BY SuccessWasOffered
    <2>2. provider \in Providers /\ details \in Details
      BY DEF TypeOK
    <2>3. /\ Collected(provider, o).ok /\ Collected(provider, o).client \in Clients
          /\ details \in UsableDetails
          /\ outcome[t].client = Merged(Collected(provider, o).client, details)
      BY <2>1, <2>2, SuccessIsMerged
    <2> QED BY <2>1, <2>3, MergeByNodes
  <1> QED BY <1>1, TypeCorrect, OutcomesAreTimely, PTL

\* What stands at a key of an object.
LEMMA MergedMember ==
    ASSUME NEW c \in Clients, NEW d \in UsableDetails, NEW k \in DOMAIN c.members
    PROVE  LET m == Merged(c, d).members IN
           /\ k \in DOMAIN m
           /\ IF IsObject(c.members[k])
              THEN \/ m[k] = c.members[k]
                   \/ \E e \in UsableDetails : m[k] = Merged(c.members[k], e)
              ELSE m[k] = c.members[k]
  <1>1. Merged(c, d) = MergeMappings(c, d,
               [i \in MeetingKeys(c, d) |-> Merged(c.members[i], d.members[i])])
    BY TreeAssumption
  <1>2. k \in DOMAIN d.members /\ IsObject(d.members[k]) => d.members[k] \in UsableDetails
    BY TreeAssumption
  <1> QED BY <1>1, <1>2 DEF MergeMappings, MeetingKeys, AllKeys, Object

\* No details displace the token that a provider presents.
LEMMA ProofStays ==
    ASSUME NEW v \in 0 .. MaxVersion, NEW d \in UsableDetails
    PROVE  LET m == Merged(ProofOf(v), d).members IN
           /\ Namespace \in DOMAIN m
           /\ TokenField \in DOMAIN m[Namespace].members
           /\ m[Namespace].members[TokenField] = Scalar(v)
  <1> DEFINE inner == Object([f \in {TokenField} |-> Scalar(v)])
  <1>1. ProofOf(v) \in Clients
    BY CollectionAssumption
  <1>2. DOMAIN ProofOf(v).members = {Namespace} /\ ProofOf(v).members[Namespace] = inner
    BY DEF ProofOf, Object
  <1>3. /\ IsObject(inner) /\ DOMAIN inner.members = {TokenField}
        /\ inner.members[TokenField] = Scalar(v) /\ ~IsObject(Scalar(v))
    BY DEF Object, IsObject, Scalar
  <1> HIDE DEF inner
  <1>4. inner \in Clients
    BY <1>1, <1>2, <1>3, TreeAssumption
  <1>5. \/ Merged(ProofOf(v), d).members[Namespace] = inner
        \/ \E e \in UsableDetails : Merged(ProofOf(v), d).members[Namespace] = Merged(inner, e)
    BY <1>1, <1>2, <1>3, MergedMember
  <1>6. Namespace \in DOMAIN Merged(ProofOf(v), d).members
    BY <1>1, <1>2, MergedMember
  <1>7. \A e \in UsableDetails :
           /\ TokenField \in DOMAIN Merged(inner, e).members
           /\ Merged(inner, e).members[TokenField] = Scalar(v)
    BY <1>3, <1>4, MergedMember
  <1> QED BY <1>3, <1>5, <1>6, <1>7

\* Only a custom provider ever offers client data of its own making.
OffersFit ==
    /\ offer.kind = "tree" => provider.family = "custom"
    /\ \A t \in Threads : \A o \in seen[t] : o.kind = "tree" => provider.family = "custom"

LEMMA OffersFitStep == TypeOK /\ OffersFit /\ [Next]_vars => OffersFit'
  <1> SUFFICES ASSUME TypeOK, OffersFit, [Next]_vars PROVE OffersFit'
    OBVIOUS
  <1>1. CASE Rotate
    <2>1. offer'.kind # "tree"
      BY <1>1 DEF Rotate, OffersOf, TokenOffers, RaisedOffers
    <2>2. \A t \in Threads : seen'[t] \subseteq seen[t] \cup {offer'}
      BY <1>1 DEF Rotate
    <2> QED BY <1>1, <2>1, <2>2 DEF Rotate, OffersFit, config
  <1>2. ASSUME NEW t \in Threads, StartCall(t) PROVE OffersFit'
    <2>1. \A u \in Threads : seen'[u] \subseteq seen[u] \cup {offer}
      BY <1>2 DEF StartCall, TypeOK
    <2> QED BY <1>2, <2>1 DEF StartCall, OffersFit, config, source
  <1>3. CASE UNCHANGED <<provider, offer, seen>>
    BY <1>3 DEF OffersFit
  <1> QED BY <1>1, <1>2, <1>3 DEF Next, Step, vars, Finished, Join, Lead, Wake, ResolveToken,
                FindTokenFile, ReadTokenFile, Collect, Publish, Retire, config, source

\* Whatever client_workload_details says, every request of a token provider
\* presents the token that was read, in the provider's own field.
THEOREM ProofIsPresented == Spec => []ProofSurvivesDetails
  <1>1. TypeOK /\ AnsweredByItsTime /\ OffersFit => ProofSurvivesDetails
    <2> SUFFICES ASSUME TypeOK, AnsweredByItsTime, OffersFit, NEW t \in Threads,
                        provider.family # "custom", outcome[t] # Nothing, outcome[t].ok
                 PROVE  LET client == outcome[t].client.members IN
                        /\ Namespace \in DOMAIN client
                        /\ TokenField \in DOMAIN client[Namespace].members
                        /\ \E o \in seen[t] :
                              /\ o.kind = "token"
                              /\ client[Namespace].members[TokenField] = Scalar(o.value)
      BY DEF ProofSurvivesDetails
    <2>1. PICK o \in seen[t] : o \in Offers /\ outcome[t] = IdentityFrom(provider, o, details)
      BY SuccessWasOffered
    <2>2. provider \in Providers /\ details \in Details /\ o.kind # "tree"
      BY <2>1 DEF TypeOK, OffersFit
    <2>3. o.kind = "token" /\ Collected(provider, o) = Succeeded(ProofOf(o.value))
      BY <2>1, <2>2, SuccessIsMerged DEF Collected, Failed
    <2>4. o.value \in 0 .. MaxVersion
      BY <2>1, <2>3, CollectionAssumption DEF Offers, OffersOf, TokenOffers, RaisedOffers, Providers
    <2>5. Collected(provider, o).client = ProofOf(o.value)
      BY <2>3 DEF Succeeded
    <2>6. CASE details = Nothing
      <3>1. outcome[t].client = ProofOf(o.value)
        BY <2>1, <2>2, <2>5, <2>6, SuccessIsMerged
      <3> QED BY <2>1, <2>3, <3>1 DEF ProofOf, Object
    <2>7. CASE details # Nothing
      <3>1. details \in UsableDetails /\ outcome[t].client = Merged(ProofOf(o.value), details)
        BY <2>1, <2>2, <2>5, <2>7, SuccessIsMerged
      <3> QED BY <2>1, <2>3, <2>4, <3>1, ProofStays
    <2> QED BY <2>6, <2>7
  <1>2. Init => OffersFit
    <2> SUFFICES ASSUME Init PROVE OffersFit
      OBVIOUS
    <2>1. offer.kind = "tree" => provider.family = "custom"
      <3>1. provider.source \in {"text", "callable", "file"} => offer.kind # "tree"
        BY DEF Init, OffersOf, TokenOffers, RaisedOffers
      <3>2. provider.source \notin {"text", "callable", "file"} => provider.family = "custom"
        BY DEF Init, Providers
      <3> QED BY <3>1, <3>2
    <2> QED BY <2>1 DEF Init, OffersFit
  <1> QED BY <1>1, <1>2, OffersFitStep, TypeCorrect, OutcomesAreTimely, PTL DEF Spec
=============================================================================
