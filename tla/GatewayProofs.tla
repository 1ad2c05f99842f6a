---------------------------- MODULE GatewayProofs ----------------------------
(***************************************************************************)
(* Proofs about Gateway, for any requests, providers, contents, limit and  *)
(* stream length.                                                          *)
(*                                                                         *)
(* OneLeaderPerKey is inductive with the types; QuotaHolds needs that no   *)
(* more calls were let through than were counted.  What the breaker hears  *)
(* (OutcomeMatches) and what clients are told (SameStory) both follow from *)
(* where a leader is: LeadInv says what its broadcast and its report are   *)
(* at each of its steps, Told how much of it a subscriber has seen.        *)
(***************************************************************************)
EXTENDS Gateway, SequenceTheorems, TLAPS

Subscription == [of : Requests \cup {Nobody}, idx : Nat, waiting : BOOLEAN]

-----------------------------------------------------------------------------
(* Sequences of deltas, and the steps that several actions share.          *)

\* A published delta comes last.
LEMMA Published ==
    ASSUME NEW s \in Seq(Deltas), NEW f \in BOOLEAN
    PROVE  LET t == Append(s, [is_final |-> f])
           IN  /\ t \in Seq(Deltas)
               /\ Len(s) \in Nat /\ Len(t) = Len(s) + 1
               /\ \A i \in 1..Len(s) : t[i] = s[i]
               /\ t[Len(s) + 1].is_final = f
  <1>1. [is_final |-> f] \in Deltas /\ [is_final |-> f].is_final = f
    BY DEF Deltas
  <1>. QED BY <1>1

\* A broadcast that a leader publishes to, or finishes, is one.
LEMMA BroadcastType ==
    ASSUME TypeOK, NEW r \in Requests
    PROVE  /\ \A f \in BOOLEAN :
                [bcast EXCEPT ![r].deltas = Append(@, [is_final |-> f])] \in [Requests -> Broadcast]
           /\ \A e \in Errors : [bcast EXCEPT ![r].done = TRUE, ![r].err = e] \in [Requests -> Broadcast]
           /\ Woken(r) \in [Requests -> Subscription]
  <1>1. \A f \in BOOLEAN : [is_final |-> f] \in Deltas
    BY DEF Deltas
  <1>2. bcast \in [Requests -> Broadcast] /\ sub \in [Requests -> Subscription]
    BY DEF TypeOK, Subscription
  <1>3. \A f \in BOOLEAN : Append(bcast[r].deltas, [is_final |-> f]) \in Seq(Deltas)
    BY <1>1, <1>2, AppendProperties DEF Broadcast
  <1>4. \A f \in BOOLEAN :
           [bcast EXCEPT ![r].deltas = Append(@, [is_final |-> f])] \in [Requests -> Broadcast]
    BY <1>2, <1>3 DEF Broadcast
  <1>5. \A e \in Errors : [bcast EXCEPT ![r].done = TRUE, ![r].err = e] \in [Requests -> Broadcast]
    BY <1>2 DEF Broadcast
  <1>6. Woken(r) \in [Requests -> Subscription]
    BY <1>2 DEF Woken, Subscription
  <1>. QED BY <1>4, <1>5, <1>6

\* An outcome reported to the breaker comes last.
LEMMA ReportType ==
    ASSUME TypeOK, NEW r \in Requests, NEW b \in BOOLEAN, Report(r, b)
    PROVE  reports' \in [Requests -> Seq(BOOLEAN)]
  <1>1. reports \in [Requests -> Seq(BOOLEAN)]
    BY DEF TypeOK
  <1>2. Append(reports[r], b) \in Seq(BOOLEAN)
    BY <1>1, AppendProperties
  <1>. QED BY <1>1, <1>2 DEF Report

\* A subscription that moves on is one.
LEMMA SubscriptionType ==
    ASSUME TypeOK, NEW r \in Requests
    PROVE  /\ \A b \in Requests : [sub EXCEPT ![r].of = b] \in [Requests -> Subscription]
           /\ [sub EXCEPT ![r].idx = @ + 1] \in [Requests -> Subscription]
           /\ [sub EXCEPT ![r].waiting = TRUE] \in [Requests -> Subscription]
  <1>1. sub \in [Requests -> Subscription]
    BY DEF TypeOK, Subscription
  <1>2. sub[r] \in Subscription /\ sub[r].idx + 1 \in Nat
    BY <1>1 DEF Subscription
  <1>3. ASSUME NEW b \in Requests PROVE [sub EXCEPT ![r].of = b] \in [Requests -> Subscription]
    BY <1>1, <1>2 DEF Subscription
  <1>4. [sub EXCEPT ![r].idx = @ + 1] \in [Requests -> Subscription]
    BY <1>1, <1>2 DEF Subscription
  <1>5. [sub EXCEPT ![r].waiting = TRUE] \in [Requests -> Subscription]
    BY <1>1, <1>2 DEF Subscription
  <1>. QED BY <1>3, <1>4, <1>5

\* What the end of a broadcast is to a call.
LEMMA Verdicts ==
    ASSUME NEW e \in Errors
    PROVE  /\ Verdict(e) \in {"eof", "fallback", "failing"} /\ Verdict(e) \in Ends
           /\ Verdict(e) = "eof" <=> e = "nil"
           /\ Verdict(e) = "fallback" <=> e = "fallback"
           /\ Verdict(e) = "failing" <=> e = "error"
  BY DEF Verdict, Errors, Ends

-----------------------------------------------------------------------------
(* Types.                                                                  *)

\* The group and the leaders' steps up to the stream keep the types.
LEMMA TypeLead ==
    ASSUME TypeOK, NEW r \in Requests,
           \/ Bind(r) \/ PeekFails(r) \/ Refuse(r) \/ Join(r) \/ Lead(r) \/ Enforce(r) \/ EnforceFails(r)
           \/ CheckBreaker(r) \/ AdapterInvoke(r)
    PROVE  TypeOK'
  <1>. USE DEF TypeOK, GoOn, GiveUp, LeadSteps, Waking, Ends, Errors
  <1>1. Provider[r] \in Providers /\ Key(r) \in Contents
    BY DEF Providers, Contents, Key
  <1>2. ASSUME Bind(r) \/ PeekFails(r) \/ Refuse(r) PROVE TypeOK'
    BY <1>2 DEF Bind, PeekFails, Refuse
  <1>3. ASSUME Join(r) PROVE TypeOK'
    <2>1. in_flight[Key(r)] \in Requests
      BY <1>1, <1>3 DEF Join
    <2>2. sub' \in [Requests -> Subscription]
      BY <1>3, <2>1, SubscriptionType DEF Join, Subscribe
    <2>. QED BY <1>3, <2>2 DEF Join, Subscription
  <1>4. ASSUME Lead(r) PROVE TypeOK'
    <2>1. sub' \in [Requests -> Subscription]
      BY <1>4, SubscriptionType DEF Lead, Subscribe
    <2>. QED BY <1>1, <1>4, <2>1 DEF Lead, Subscription
  <1>5. ASSUME Enforce(r) PROVE TypeOK'
    <2>1. quota' \in [Providers -> 0..(Limit + 1)]
      BY <1>1, <1>5, GatewayAssumption DEF Enforce
    <2>2. admitted' \in [Providers -> Nat]
      <3>1. admitted' = admitted \/ admitted' = [admitted EXCEPT ![Provider[r]] = @ + 1]
        BY <1>5 DEF Enforce
      <3>2. admitted[Provider[r]] + 1 \in Nat
        BY <1>1
      <3>. QED BY <1>1, <3>1, <3>2
    <2>3. lead' \in [Requests -> LeadSteps] /\ err' \in [Requests -> Errors]
      BY <1>5 DEF Enforce
    <2>. QED BY <1>5, <2>1, <2>2, <2>3 DEF Enforce
  <1>6. ASSUME EnforceFails(r) \/ CheckBreaker(r) PROVE TypeOK'
    BY <1>6 DEF EnforceFails, CheckBreaker
  <1>7. ASSUME AdapterInvoke(r) PROVE TypeOK'
    <2>1. reports' \in [Requests -> Seq(BOOLEAN)]
      BY <1>7, ReportType DEF AdapterInvoke
    <2>. QED BY <1>7, <2>1 DEF AdapterInvoke
  <1>. QED BY <1>2, <1>3, <1>4, <1>5, <1>6, <1>7

\* The stream and the relays keep the types.
LEMMA TypeStream ==
    ASSUME TypeOK, NEW r \in Requests,
           \/ StreamDelta(r) \/ StreamFinal(r) \/ PublishFinal(r) \/ StreamBreaks(r) \/ release(r) \/ finish(r)
           \/ Wake(r) \/ RelayStep(r) \/ SendFails(r)
    PROVE  TypeOK'
  <1>0. /\ \A f \in BOOLEAN :
             [bcast EXCEPT ![r].deltas = Append(@, [is_final |-> f])] \in [Requests -> Broadcast]
        /\ Woken(r) \in [Requests -> Subscription]
    BY BroadcastType
  <1>. USE DEF TypeOK, GoOn, GiveUp, LeadSteps, Waking, Ends, Errors
  <1>1. ASSUME StreamDelta(r) \/ PublishFinal(r) PROVE TypeOK'
    <2>1. bcast' \in [Requests -> Broadcast]
      BY <1>0, <1>1 DEF StreamDelta, PublishFinal, publish
    <2>. QED BY <1>1, <2>1 DEF StreamDelta, PublishFinal
  <1>2. ASSUME StreamFinal(r) PROVE TypeOK'
    <2>1. reports' \in [Requests -> Seq(BOOLEAN)]
      BY <1>2, ReportType DEF StreamFinal
    <2>. QED BY <1>2, <2>1 DEF StreamFinal
  <1>3. ASSUME StreamBreaks(r) PROVE TypeOK'
    <2>1. reports' \in [Requests -> Seq(BOOLEAN)]
      BY <1>3, ReportType DEF StreamBreaks
    <2>2. lead' \in [Requests -> LeadSteps] /\ err' \in [Requests -> Errors]
      BY <1>3 DEF StreamBreaks
    <2>3. UNCHANGED <<bound, in_flight, bcast, sub, end, quota, admitted>>
      BY <1>3 DEF StreamBreaks
    <2>. QED BY <2>1, <2>2, <2>3
  <1>4. ASSUME release(r) PROVE TypeOK'
    BY <1>4 DEF release, Key, Contents
  <1>5. ASSUME finish(r) PROVE TypeOK'
    <2>1. bcast' \in [Requests -> Broadcast]
      BY <1>5, BroadcastType DEF finish
    <2>. QED BY <1>5, <2>1 DEF finish
  <1>6. ASSUME RelayDelta(r) PROVE TypeOK'
    <2>1. sub' \in [Requests -> Subscription]
      BY <1>6, SubscriptionType DEF RelayDelta
    <2>. QED BY <1>6, <2>1 DEF RelayDelta, Subscription
  <1>7. ASSUME Wait(r) PROVE TypeOK'
    <2>1. sub' \in [Requests -> Subscription]
      BY <1>7, SubscriptionType DEF Wait
    <2>. QED BY <1>7, <2>1 DEF Wait, Subscription
  <1>8. ASSUME RelayEnd(r) PROVE TypeOK'
    <2>1. sub[r].of \in Requests
      BY <1>8 DEF RelayEnd, Open
    <2>2. Subscribed(r).err \in Errors
      BY <2>1 DEF Subscribed, Broadcast
    <2>3. Verdict(Subscribed(r).err) \in Ends
      BY <2>2, Verdicts
    <2>. QED BY <1>8, <2>3 DEF RelayEnd
  <1>9. ASSUME SendFails(r) \/ RelayFails(r) PROVE TypeOK'
    BY <1>9 DEF SendFails, RelayFails
  <1>10. ASSUME Wake(r) PROVE TypeOK'
    <2>1. sub' \in [Requests -> Subscription]
      BY <1>0, <1>10 DEF Wake, WakeThen
    <2>. QED BY <1>10, <2>1 DEF Wake, WakeThen, Subscription
  <1>. QED BY <1>1, <1>2, <1>3, <1>4, <1>5, <1>6, <1>7, <1>8, <1>9, <1>10 DEF RelayStep

\* Every step keeps the types.
LEMMA TypeStep == TypeOK /\ [Next]_vars => TypeOK'
  <1>. SUFFICES ASSUME TypeOK, [Next]_vars PROVE TypeOK'
    OBVIOUS
  <1>1. ASSUME NEW p \in Providers, WindowEnds(p) PROVE TypeOK'
    BY <1>1, GatewayAssumption DEF WindowEnds, TypeOK
  <1>2. CASE UNCHANGED vars
    BY <1>2 DEF vars, TypeOK
  <1>. QED BY <1>1, <1>2, TypeLead, TypeStream DEF Next, LeadStep, Done

\* The gateway starts with values of the declared types.
LEMMA TypeInit == Init => TypeOK
  <1>. SUFFICES ASSUME Init PROVE TypeOK
    OBVIOUS
  <1>1. quota \in [Providers -> 0..(Limit + 1)] /\ admitted \in [Providers -> Nat]
    BY GatewayAssumption DEF Init
  <1>2. bcast \in [Requests -> Broadcast]
    BY DEF Init, NewBroadcast, Broadcast, Errors
  <1>3. sub \in [Requests -> Subscription]
    BY DEF Init, Subscription
  <1>. QED BY <1>1, <1>2, <1>3 DEF Init, TypeOK, LeadSteps, Waking, Errors, Ends, Subscription

(* The state of the group, the leaders, the broadcasts and their           *)
(* subscribers is always of its type; the counter never leaves 0 to        *)
(* Limit + 1.                                                              *)
THEOREM GatewayTypeCorrect == Spec => []TypeOK
  BY TypeInit, TypeStep, PTL DEF Spec

-----------------------------------------------------------------------------
(* OneLeaderPerKey and QuotaHolds.                                         *)

\* The actions of one request.
Act(r) ==
    \/ Bind(r) \/ PeekFails(r) \/ Refuse(r) \/ Join(r) \/ Lead(r) \/ LeadStep(r) \/ EnforceFails(r)
    \/ RelayStep(r) \/ SendFails(r)

\* A step is one of these, the end of a window, or changes nothing.
LEMMA Acts ==
    ASSUME [Next]_vars
    PROVE  (\E r \in Requests : Act(r)) \/ (\E p \in Providers : WindowEnds(p)) \/ UNCHANGED vars
  BY DEF Next, Act, Done

\* The steps of a leader up to its release, and from there on.
Before == {"quota", "breaker", "adapter", "streaming", "waking", "final", "waking_final", "release"}
After  == {"finish", "waking_end", "ended"}

\* Where a leader goes from where it is.
LEMMA LeaderMoves ==
    ASSUME TypeOK, NEW r \in Requests, Act(r)
    PROVE  \/ lead' = lead /\ in_flight' = in_flight
           \/ Lead(r) \/ release(r)
           \/ /\ in_flight' = in_flight
              /\ lead[r] \in Before
              /\ \E n \in Before : lead' = [lead EXCEPT ![r] = n]
           \/ /\ in_flight' = in_flight
              /\ lead[r] \in After
              /\ \E n \in After : lead' = [lead EXCEPT ![r] = n]
  <1>1. ASSUME Bind(r) \/ PeekFails(r) \/ Refuse(r) \/ Join(r) \/ RelayStep(r) \/ SendFails(r)
        PROVE  lead' = lead /\ in_flight' = in_flight
    BY <1>1 DEF Bind, PeekFails, Refuse, Join, RelayStep, RelayDelta, Wait, RelayEnd, RelayFails, SendFails
  <1>2. ASSUME Enforce(r) \/ EnforceFails(r) \/ CheckBreaker(r) \/ AdapterInvoke(r)
        PROVE  /\ in_flight' = in_flight
               /\ lead[r] \in Before
               /\ \E n \in Before : lead' = [lead EXCEPT ![r] = n]
    BY <1>2 DEF Enforce, EnforceFails, CheckBreaker, AdapterInvoke, GoOn, GiveUp, Before
  <1>3. ASSUME StreamDelta(r) \/ StreamFinal(r) \/ PublishFinal(r) \/ StreamBreaks(r)
        PROVE  /\ in_flight' = in_flight
               /\ lead[r] \in Before
               /\ \E n \in Before : lead' = [lead EXCEPT ![r] = n]
    BY <1>3 DEF StreamDelta, StreamFinal, PublishFinal, StreamBreaks, GoOn, GiveUp, Before
  <1>4. ASSUME finish(r) \/ WakeThen(r, "waking_end", "ended")
        PROVE  /\ in_flight' = in_flight
               /\ lead[r] \in After
               /\ \E n \in After : lead' = [lead EXCEPT ![r] = n]
    BY <1>4 DEF finish, WakeThen, GoOn, After
  <1>5. ASSUME WakeThen(r, "waking", "streaming") \/ WakeThen(r, "waking_final", "release")
        PROVE  /\ in_flight' = in_flight
               /\ lead[r] \in Before
               /\ \E n \in Before : lead' = [lead EXCEPT ![r] = n]
    BY <1>5 DEF WakeThen, GoOn, Before
  <1>. QED BY <1>1, <1>2, <1>3, <1>4, <1>5 DEF Act, LeadStep, Wake

\* Nobody is led by two: inductive with the types.
LEMMA OneLeaderStep == TypeOK /\ OneLeaderPerKey /\ [Next]_vars => OneLeaderPerKey'
  <1>. SUFFICES ASSUME TypeOK, OneLeaderPerKey, [Next]_vars PROVE OneLeaderPerKey'
    OBVIOUS
  <1>1. /\ lead \in [Requests -> LeadSteps] /\ in_flight \in [Contents -> Requests \cup {Nobody}]
        /\ \A r \in Requests : Key(r) \in Contents
        /\ Nobody \notin Requests
    BY GatewayAssumption DEF TypeOK, Key, Contents
  <1>2. \A x \in Requests : lead[x] \in Before => in_flight[Key(x)] = x
    BY DEF OneLeaderPerKey, Before
  <1>3. ASSUME NEW r \in Requests, Act(r) PROVE OneLeaderPerKey'
    <2>1. CASE lead' = lead /\ in_flight' = in_flight
      BY <2>1 DEF OneLeaderPerKey
    <2>2. CASE Lead(r)
      BY <1>1, <1>2, <2>2 DEF Lead, OneLeaderPerKey, LeadSteps, Waking, Before
    <2>3. CASE release(r)
      BY <1>1, <1>2, <2>3 DEF release, GoOn, OneLeaderPerKey, LeadSteps, Waking, Before
    <2>4. CASE /\ in_flight' = in_flight
               /\ lead[r] \in Before
               /\ \E n \in Before : lead' = [lead EXCEPT ![r] = n]
      BY <1>1, <1>2, <2>4 DEF OneLeaderPerKey, LeadSteps, Waking, Before
    <2>5. CASE /\ in_flight' = in_flight
               /\ lead[r] \in After
               /\ \E n \in After : lead' = [lead EXCEPT ![r] = n]
      BY <1>1, <1>2, <2>5 DEF OneLeaderPerKey, LeadSteps, Waking, Before, After
    <2>. QED BY <1>3, <2>1, <2>2, <2>3, <2>4, <2>5, LeaderMoves
  <1>4. ASSUME NEW p \in Providers, WindowEnds(p) PROVE OneLeaderPerKey'
    BY <1>4 DEF WindowEnds, OneLeaderPerKey
  <1>5. CASE UNCHANGED vars
    BY <1>5 DEF vars, OneLeaderPerKey
  <1>. QED BY <1>3, <1>4, <1>5, Acts

(* For any number of identical and different calls: from the moment it is  *)
(* registered up to its release, a leader is the only one of its key, and  *)
(* the one that calls who come meanwhile are given to.                     *)
THEOREM OneLeader == Spec => []OneLeaderPerKey
  <1>1. Init => OneLeaderPerKey
    BY DEF Init, OneLeaderPerKey
  <1>. QED BY <1>1, OneLeaderStep, GatewayTypeCorrect, PTL DEF Spec

\* What was let through was counted, and within the limit.
Counted == \A p \in Providers : admitted[p] <= quota[p] /\ admitted[p] <= Limit

\* Only Enforce counts, and only a new window forgets.
LEMMA CountedStep == TypeOK /\ Counted /\ [Next]_vars => Counted'
  <1>. SUFFICES ASSUME TypeOK, Counted, [Next]_vars PROVE Counted'
    OBVIOUS
  <1>1. quota \in [Providers -> 0..(Limit + 1)] /\ admitted \in [Providers -> Nat] /\ Limit \in Nat
    BY GatewayAssumption DEF TypeOK
  <1>2. ASSUME NEW r \in Requests, Enforce(r) PROVE Counted'
    <2>. DEFINE q == Provider[r]
    <2>1. q \in Providers
      BY DEF Providers
    <2>2. /\ quota' = [quota EXCEPT ![q] = IF @ <= Limit THEN @ + 1 ELSE @]
          /\ \/ quota'[q] <= Limit /\ admitted' = [admitted EXCEPT ![q] = @ + 1]
             \/ admitted' = admitted
      BY <1>2 DEF Enforce, Decide
    <2>3. \A p \in Providers \ {q} : quota'[p] = quota[p] /\ admitted'[p] = admitted[p]
      BY <1>1, <2>1, <2>2
    <2>4. quota'[q] = IF quota[q] <= Limit THEN quota[q] + 1 ELSE quota[q]
      BY <1>1, <2>1, <2>2
    <2>5. \/ quota'[q] <= Limit /\ admitted'[q] = admitted[q] + 1
          \/ admitted'[q] = admitted[q]
      BY <1>1, <2>1, <2>2
    <2>6. admitted'[q] <= quota'[q] /\ admitted'[q] <= Limit
      BY <1>1, <2>1, <2>4, <2>5 DEF Counted
    <2>. QED BY <2>3, <2>6 DEF Counted
  <1>3. ASSUME NEW r \in Requests, Act(r), ~Enforce(r) PROVE Counted'
    <2>1. quota' = quota /\ admitted' = admitted
      BY <1>3 DEF Act, LeadStep, Bind, PeekFails, Refuse, Join, Lead, EnforceFails, CheckBreaker, AdapterInvoke,
                  StreamDelta, StreamFinal, PublishFinal, StreamBreaks, release, finish, Wake, WakeThen, RelayStep,
                  RelayDelta, Wait, RelayEnd, RelayFails, SendFails
    <2>. QED BY <2>1 DEF Counted
  <1>4. ASSUME NEW p \in Providers, WindowEnds(p) PROVE Counted'
    BY <1>1, <1>4 DEF WindowEnds, Counted
  <1>5. CASE UNCHANGED vars
    BY <1>5 DEF vars, Counted
  <1>. QED BY <1>2, <1>3, <1>4, <1>5, Acts

(* The limit of a window holds for every limit and any number of leaders   *)
(* and followers: what the counter lets through is never more.             *)
THEOREM QuotaIsHeld == Spec => []QuotaHolds
  <1>1. Init => Counted
    BY GatewayAssumption DEF Init, Counted
  <1>2. Counted => QuotaHolds
    BY DEF Counted, QuotaHolds
  <1>. QED BY <1>1, <1>2, CountedStep, GatewayTypeCorrect, PTL DEF Spec

-----------------------------------------------------------------------------
(* What a leader has published and reported at each of its steps.          *)

HasFinal(b) == \E i \in 1..Len(bcast[b].deltas) : bcast[b].deltas[i].is_final

\* The breaker has heard the outcome, or the call never came to the adapter.
Reported(r, e) ==
    IF e = "fallback" THEN reports[r] = << >> /\ bcast[r].deltas = << >>
    ELSE \/ HasFinal(r) /\ reports[r] = <<TRUE>>
         \/ ~HasFinal(r) /\ reports[r] = <<FALSE>>

LeadInv(r) ==
    /\ lead[r] # "none" => sub[r].of = r
    /\ lead[r] \notin {"release", "finish"} => err[r] = "nil"
    /\ lead[r] \notin {"waking_end", "ended"} => ~bcast[r].done /\ bcast[r].err = "nil"
    /\ lead[r] \in {"none", "quota", "breaker", "adapter"} => bcast[r].deltas = << >> /\ reports[r] = << >>
    /\ lead[r] \in {"streaming", "waking"} => ~HasFinal(r) /\ reports[r] = << >>
    /\ lead[r] = "final" => ~HasFinal(r) /\ reports[r] = <<TRUE>>
    /\ lead[r] = "waking_final" => HasFinal(r) /\ reports[r] = <<TRUE>>
    /\ lead[r] \in {"release", "finish"} => Reported(r, err[r])
    /\ lead[r] \in {"waking_end", "ended"} => bcast[r].done /\ Reported(r, bcast[r].err)
    /\ \A i \in 1..Len(bcast[r].deltas) : bcast[r].deltas[i].is_final => i = Len(bcast[r].deltas)

\* How much of its broadcast a request has seen, and what it was told at the end.
Told(r) ==
    LET b == sub[r].of
    IN  /\ b = Nobody => end[r] \in {"open", "refused"} /\ sub[r].idx = 0
        /\ b # Nobody =>
             /\ end[r] # "refused"
             /\ sub[r].idx <= Len(bcast[b].deltas)
             /\ end[r] = "open" => \A i \in 1..sub[r].idx : ~bcast[b].deltas[i].is_final
             /\ end[r] = "final" => sub[r].idx = Len(bcast[b].deltas) /\ HasFinal(b)
             /\ end[r] \in {"eof", "fallback", "failing", "error"} =>
                  /\ sub[r].idx = Len(bcast[b].deltas) /\ ~HasFinal(b) /\ bcast[b].done
                  /\ end[r] = "error" => bcast[b].err = "error"
                  /\ end[r] # "error" => end[r] = Verdict(bcast[b].err)

StoryInv == TypeOK /\ \A r \in Requests : LeadInv(r) /\ Told(r)

\* The fields of the parts of the state these invariants speak of.
LEMMA Parts ==
    ASSUME TypeOK, NEW r \in Requests
    PROVE  /\ bcast[r].deltas \in Seq(Deltas) /\ bcast[r].done \in BOOLEAN /\ bcast[r].err \in Errors
           /\ Len(bcast[r].deltas) \in Nat
           /\ sub[r].of \in Requests \cup {Nobody} /\ sub[r].idx \in Nat
           /\ lead[r] \in LeadSteps /\ err[r] \in Errors /\ end[r] \in Ends \cup {"open"}
           /\ reports[r] \in Seq(BOOLEAN)
  <1>1. bcast[r] \in Broadcast /\ sub[r] \in Subscription
    BY DEF TypeOK, Subscription
  <1>2. bcast[r].deltas \in Seq(Deltas) /\ bcast[r].done \in BOOLEAN /\ bcast[r].err \in Errors
    BY <1>1 DEF Broadcast
  <1>3. sub[r].of \in Requests \cup {Nobody} /\ sub[r].idx \in Nat
    BY <1>1 DEF Subscription
  <1>. QED BY <1>2, <1>3 DEF TypeOK

\* The first report of a leader.
LEMMA FirstReport ==
    ASSUME TypeOK, NEW r \in Requests, NEW b \in BOOLEAN, Report(r, b), reports[r] = << >>
    PROVE  reports'[r] = <<b>> /\ \A x \in Requests \ {r} : reports'[x] = reports[x]
  <1>1. reports \in [Requests -> Seq(BOOLEAN)]
    BY DEF TypeOK
  <1>2. Append(<< >>, b) = <<b>>
    OBVIOUS
  <1>. QED BY <1>1, <1>2 DEF Report

\* A leader about which nothing has changed.
SameLead(x) ==
    /\ lead'[x] = lead[x] /\ err'[x] = err[x] /\ reports'[x] = reports[x]
    /\ bcast'[x] = bcast[x] /\ sub'[x].of = sub[x].of

\* Nothing new is to be shown about it.
LEMMA LeadFrame ==
    ASSUME NEW x \in Requests, LeadInv(x), SameLead(x)
    PROVE  LeadInv(x)'
  BY DEF LeadInv, SameLead, Reported, HasFinal

\* A request about which, and about whose broadcast, nothing has changed.
LEMMA ToldFrame ==
    ASSUME NEW x \in Requests, Told(x),
           end'[x] = end[x], sub'[x].of = sub[x].of, sub'[x].idx = sub[x].idx,
           sub[x].of # Nobody => bcast'[sub[x].of] = bcast[sub[x].of]
    PROVE  Told(x)'
  BY DEF Told, HasFinal

\* Waking the subscribers of a broadcast moves none of them.
LEMMA WokenFrame ==
    ASSUME TypeOK, NEW b \in Requests, sub' = Woken(b)
    PROVE  \A x \in Requests : sub'[x].of = sub[x].of /\ sub'[x].idx = sub[x].idx
  <1>1. \A x \in Requests : sub[x] \in Subscription
    BY DEF TypeOK, Subscription
  <1>. QED BY <1>1 DEF Woken, Subscription

\* Steps of a client and of its relay leave all leaders as they are.
LEMMA LeadKeeps ==
    ASSUME StoryInv, NEW r \in Requests,
           \/ Bind(r) \/ PeekFails(r) \/ Refuse(r) \/ Join(r) \/ RelayStep(r) \/ SendFails(r)
    PROVE  \A x \in Requests : LeadInv(x)'
  <1>1. sub \in [Requests -> Subscription] /\ TypeOK
    BY DEF StoryInv, TypeOK, Subscription
  <1>2. /\ lead' = lead /\ err' = err /\ reports' = reports /\ bcast' = bcast
        /\ \/ sub' = sub
           \/ sub[r].of = Nobody /\ sub' = [sub EXCEPT ![r].of = in_flight[Key(r)]]
           \/ sub' = [sub EXCEPT ![r].idx = @ + 1]
           \/ sub' = [sub EXCEPT ![r].waiting = TRUE]
    BY DEF Bind, PeekFails, Refuse, Join, Subscribe, RelayStep, RelayDelta, Wait, RelayEnd, RelayFails, SendFails
  <1>3. \A x \in Requests : sub'[x].of = sub[x].of \/ (x = r /\ sub[r].of = Nobody)
    BY <1>1, <1>2 DEF Subscription
  <1>4. ASSUME NEW x \in Requests PROVE LeadInv(x)'
    <2>1. LeadInv(x)
      BY DEF StoryInv
    <2>2. CASE sub'[x].of = sub[x].of
      BY <1>2, <2>1, <2>2, LeadFrame DEF SameLead
    <2>3. CASE sub[x].of = Nobody
      <3>1. lead[x] = "none"
        BY <2>1, <2>3, GatewayAssumption DEF LeadInv
      <3>. QED BY <1>2, <2>1, <3>1 DEF LeadInv, Reported, HasFinal
    <2>. QED BY <1>3, <2>2, <2>3
  <1>. QED BY <1>4

\* A step of a leader before its stream keeps what is known of it.
LEMMA LeadBegins ==
    ASSUME StoryInv, NEW r \in Requests,
           Lead(r) \/ Enforce(r) \/ EnforceFails(r) \/ CheckBreaker(r) \/ AdapterInvoke(r)
    PROVE  \A x \in Requests : LeadInv(x)'
  <1>1. /\ sub \in [Requests -> Subscription] /\ lead \in [Requests -> LeadSteps]
        /\ err \in [Requests -> Errors] /\ reports \in [Requests -> Seq(BOOLEAN)]
        /\ bcast \in [Requests -> Broadcast]
        /\ LeadInv(r)
    BY DEF StoryInv, TypeOK, Subscription
  <1>2. bcast' = bcast /\ \A x \in Requests \ {r} : SameLead(x)
    BY <1>1 DEF Lead, Enforce, EnforceFails, CheckBreaker, AdapterInvoke, GoOn, GiveUp, Report, Subscribe, SameLead
  <1>3. \A x \in Requests \ {r} : LeadInv(x)'
    BY <1>2, LeadFrame DEF StoryInv
  <1>4. ASSUME Lead(r) PROVE LeadInv(r)'
    <2>1. lead[r] = "none" /\ lead'[r] = "quota" /\ sub'[r].of = r /\ reports' = reports /\ err' = err
      BY <1>1, <1>4, GatewayAssumption DEF Lead, Subscribe, LeadInv, Subscription
    <2>. QED BY <1>1, <1>2, <2>1 DEF LeadInv, Reported, HasFinal
  <1>5. ASSUME Enforce(r) \/ EnforceFails(r) \/ CheckBreaker(r) PROVE LeadInv(r)'
    <2>1. /\ lead[r] \in {"quota", "breaker"} /\ sub' = sub /\ reports' = reports
          /\ \/ lead'[r] \in {"breaker", "adapter"} /\ err' = err
             \/ lead'[r] = "release" /\ err'[r] = "fallback"
      BY <1>1, <1>5 DEF Enforce, EnforceFails, CheckBreaker, GoOn, GiveUp
    <2>. QED BY <1>1, <1>2, <2>1 DEF LeadInv, Reported, HasFinal
  <1>6. ASSUME AdapterInvoke(r) PROVE LeadInv(r)'
    <2>1. lead[r] = "adapter" /\ sub' = sub /\ bcast[r].deltas = << >> /\ reports[r] = << >>
      BY <1>1, <1>6 DEF AdapterInvoke, LeadInv
    <2>2. Len(bcast[r].deltas) = 0
      BY <2>1
    <2>3. CASE GoOn(r, "streaming") /\ UNCHANGED reports
      BY <1>1, <1>2, <2>1, <2>2, <2>3 DEF GoOn, LeadInv, Reported, HasFinal
    <2>4. CASE GiveUp(r, "error") /\ Report(r, FALSE)
      <3>1. reports'[r] = <<FALSE>>
        BY <2>1, <2>4, FirstReport DEF StoryInv
      <3>2. lead'[r] = "release" /\ err'[r] = "error"
        BY <1>1, <2>4 DEF GiveUp
      <3>3. ~HasFinal(r)'
        BY <1>2, <2>2 DEF HasFinal
      <3>. QED BY <1>1, <1>2, <2>1, <3>1, <3>2, <3>3 DEF LeadInv, Reported
    <2>. QED BY <1>6, <2>3, <2>4 DEF AdapterInvoke
  <1>. QED BY <1>3, <1>4, <1>5, <1>6

\* What publishing a delta does to the leader's broadcast.
LEMMA PublishMoves ==
    ASSUME StoryInv, NEW r \in Requests, NEW f \in BOOLEAN, publish(r, f), ~HasFinal(r)
    PROVE  /\ \A x \in Requests \ {r} : bcast'[x] = bcast[x]
           /\ bcast'[r].done = bcast[r].done /\ bcast'[r].err = bcast[r].err
           /\ Len(bcast'[r].deltas) = Len(bcast[r].deltas) + 1
           /\ \A i \in 1..Len(bcast[r].deltas) :
                bcast'[r].deltas[i] = bcast[r].deltas[i] /\ ~bcast'[r].deltas[i].is_final
           /\ bcast'[r].deltas[Len(bcast[r].deltas) + 1].is_final = f
           /\ HasFinal(r)' <=> f
  <1>1. bcast \in [Requests -> Broadcast] /\ bcast[r] \in Broadcast
    BY DEF StoryInv, TypeOK
  <1>. DEFINE s == bcast[r].deltas
  <1>2. s \in Seq(Deltas)
    BY <1>1 DEF Broadcast
  <1>3. /\ \A x \in Requests \ {r} : bcast'[x] = bcast[x]
        /\ bcast'[r] = [bcast[r] EXCEPT !.deltas = Append(s, [is_final |-> f])]
    BY <1>1 DEF publish
  <1>4. /\ bcast'[r].deltas = Append(s, [is_final |-> f])
        /\ bcast'[r].done = bcast[r].done /\ bcast'[r].err = bcast[r].err
    BY <1>1, <1>3 DEF Broadcast
  <1>5. /\ Len(s) \in Nat /\ Len(bcast'[r].deltas) = Len(s) + 1
        /\ \A i \in 1..Len(s) : bcast'[r].deltas[i] = s[i]
        /\ bcast'[r].deltas[Len(s) + 1].is_final = f
    BY <1>2, <1>4, Published
  <1>6. \A i \in 1..Len(s) : ~bcast'[r].deltas[i].is_final
    BY <1>5 DEF HasFinal
  <1>7. HasFinal(r)' <=> f
    <2>1. \A i \in 1..(Len(s) + 1) : i \in 1..Len(s) \/ i = Len(s) + 1
      BY <1>5
    <2>2. Len(s) + 1 \in 1..(Len(s) + 1)
      BY <1>5
    <2>. QED BY <1>5, <1>6, <2>1, <2>2 DEF HasFinal
  <1>. QED BY <1>3, <1>4, <1>5, <1>6, <1>7

\* A leader that streams, releases its key, finishes and wakes keeps what is
\* known of it.
LEMMA LeadStreams ==
    ASSUME StoryInv, NEW r \in Requests,
           \/ StreamDelta(r) \/ StreamFinal(r) \/ PublishFinal(r) \/ StreamBreaks(r)
           \/ release(r) \/ finish(r) \/ Wake(r)
    PROVE  \A x \in Requests : LeadInv(x)'
  <1>1. /\ sub \in [Requests -> Subscription] /\ lead \in [Requests -> LeadSteps]
        /\ err \in [Requests -> Errors] /\ bcast \in [Requests -> Broadcast]
        /\ bcast[r] \in Broadcast
        /\ LeadInv(r) /\ TypeOK
    BY DEF StoryInv, TypeOK, Subscription
  <1>2. Len(bcast[r].deltas) \in Nat
    BY Parts DEF StoryInv
  <1>. SUFFICES LeadInv(r)' /\ \A x \in Requests \ {r} : SameLead(x)
    BY LeadFrame DEF StoryInv
  <1>3. CASE StreamDelta(r)
    <2>1. /\ lead[r] = "streaming" /\ publish(r, FALSE) /\ err' = err /\ reports' = reports /\ sub' = sub
          /\ lead'[r] = "waking" /\ \A x \in Requests \ {r} : lead'[x] = lead[x]
      BY <1>1, <1>3 DEF StreamDelta, GoOn
    <2>2. /\ ~HasFinal(r) /\ reports[r] = << >> /\ sub[r].of = r /\ ~bcast[r].done /\ bcast[r].err = "nil"
          /\ err[r] = "nil"
      BY <1>1, <2>1 DEF LeadInv
    <2>3. /\ \A x \in Requests \ {r} : bcast'[x] = bcast[x]
          /\ bcast'[r].done = bcast[r].done /\ bcast'[r].err = bcast[r].err
          /\ ~HasFinal(r)'
      BY <2>1, <2>2, PublishMoves
    <2>4. \A i \in 1..Len(bcast'[r].deltas) : ~bcast'[r].deltas[i].is_final
      BY <2>3 DEF HasFinal
    <2>. QED BY <2>1, <2>2, <2>3, <2>4 DEF LeadInv, SameLead
  <1>4. CASE StreamFinal(r)
    <2>1. /\ lead[r] = "streaming" /\ Report(r, TRUE) /\ err' = err /\ sub' = sub /\ bcast' = bcast
          /\ lead'[r] = "final" /\ \A x \in Requests \ {r} : lead'[x] = lead[x]
      BY <1>1, <1>4 DEF StreamFinal, GoOn
    <2>2. /\ ~HasFinal(r) /\ reports[r] = << >> /\ sub[r].of = r /\ ~bcast[r].done /\ bcast[r].err = "nil"
          /\ err[r] = "nil"
      BY <1>1, <2>1 DEF LeadInv
    <2>3. reports'[r] = <<TRUE>> /\ \A x \in Requests \ {r} : reports'[x] = reports[x]
      BY <1>1, <2>1, <2>2, FirstReport
    <2>4. ~HasFinal(r)'
      BY <2>1, <2>2 DEF HasFinal
    <2>5. LeadInv(r)'
      BY <1>1, <2>1, <2>2, <2>3, <2>4 DEF LeadInv
    <2>. QED BY <2>1, <2>3, <2>5 DEF SameLead
  <1>8. CASE PublishFinal(r)
    <2>1. /\ lead[r] = "final" /\ publish(r, TRUE) /\ err' = err /\ reports' = reports /\ sub' = sub
          /\ lead'[r] = "waking_final" /\ \A x \in Requests \ {r} : lead'[x] = lead[x]
      BY <1>1, <1>8 DEF PublishFinal, GoOn
    <2>2. /\ ~HasFinal(r) /\ reports[r] = <<TRUE>> /\ sub[r].of = r /\ ~bcast[r].done /\ bcast[r].err = "nil"
          /\ err[r] = "nil"
      BY <1>1, <2>1 DEF LeadInv
    <2>3. /\ \A x \in Requests \ {r} : bcast'[x] = bcast[x]
          /\ bcast'[r].done = bcast[r].done /\ bcast'[r].err = bcast[r].err
          /\ Len(bcast'[r].deltas) = Len(bcast[r].deltas) + 1
          /\ \A i \in 1..Len(bcast[r].deltas) : ~bcast'[r].deltas[i].is_final
          /\ HasFinal(r)'
      BY <2>1, <2>2, PublishMoves
    <2>4. \A i \in 1..Len(bcast'[r].deltas) : bcast'[r].deltas[i].is_final => i = Len(bcast'[r].deltas)
      BY <1>2, <2>3
    <2>5. LeadInv(r)'
      BY <2>1, <2>2, <2>3, <2>4 DEF LeadInv
    <2>. QED BY <2>1, <2>3, <2>5 DEF SameLead
  <1>9. CASE Wake(r)
    <2>1. /\ bcast' = bcast /\ err' = err /\ reports' = reports
          /\ \A x \in Requests \ {r} : lead'[x] = lead[x]
          /\ \/ lead[r] = "waking" /\ lead'[r] = "streaming"
             \/ lead[r] = "waking_final" /\ lead'[r] = "release"
             \/ lead[r] = "waking_end" /\ lead'[r] = "ended"
      BY <1>1, <1>9 DEF Wake, WakeThen, GoOn
    <2>2. \A x \in Requests : sub'[x].of = sub[x].of
      BY <1>1, <1>9, WokenFrame DEF Wake, WakeThen
    <2>3. HasFinal(r)' <=> HasFinal(r)
      BY <2>1 DEF HasFinal
    <2>4. LeadInv(r)'
      BY <1>1, <2>1, <2>2, <2>3 DEF LeadInv, Reported
    <2>. QED BY <2>1, <2>2, <2>4 DEF SameLead
  <1>5. CASE StreamBreaks(r)
    <2>1. lead[r] = "streaming" /\ Report(r, FALSE) /\ bcast' = bcast /\ sub' = sub
      BY <1>5 DEF StreamBreaks
    <2>2. ~HasFinal(r) /\ reports[r] = << >> /\ sub[r].of = r /\ ~bcast[r].done /\ bcast[r].err = "nil"
      BY <1>1, <2>1 DEF LeadInv
    <2>3. reports'[r] = <<FALSE>> /\ \A x \in Requests \ {r} : reports'[x] = reports[x]
      BY <1>1, <2>1, <2>2, FirstReport
    <2>4. /\ lead'[r] = "release" /\ err'[r] \in {"nil", "error"}
          /\ \A x \in Requests \ {r} : lead'[x] = lead[x] /\ err'[x] = err[x]
      BY <1>1, <1>5 DEF StreamBreaks, GiveUp
    <2>5. ~HasFinal(r)'
      BY <2>1, <2>2 DEF HasFinal
    <2>6. LeadInv(r)'
      BY <1>1, <2>1, <2>2, <2>3, <2>4, <2>5 DEF LeadInv, Reported
    <2>. QED BY <2>1, <2>3, <2>4, <2>6 DEF SameLead
  <1>6. CASE release(r)
    <2>1. /\ lead[r] = "release" /\ bcast' = bcast /\ sub' = sub /\ err' = err /\ reports' = reports
          /\ lead'[r] = "finish" /\ \A x \in Requests \ {r} : lead'[x] = lead[x]
      BY <1>1, <1>6 DEF release, GoOn
    <2>. QED BY <1>1, <2>1 DEF LeadInv, SameLead, Reported, HasFinal
  <1>7. CASE finish(r)
    <2>1. /\ lead[r] = "finish" /\ reports' = reports /\ lead'[r] = "waking_end" /\ err'[r] = "nil"
          /\ \A x \in Requests \ {r} : lead'[x] = lead[x] /\ err'[x] = err[x] /\ bcast'[x] = bcast[x]
      BY <1>1, <1>7 DEF finish
    <2>2. bcast'[r].done /\ bcast'[r].err = err[r] /\ bcast'[r].deltas = bcast[r].deltas
      BY <1>1, <1>7 DEF finish, Broadcast
    <2>3. \A x \in Requests : sub'[x].of = sub[x].of
      BY <1>7 DEF finish
    <2>4. HasFinal(r)' <=> HasFinal(r)
      BY <2>2 DEF HasFinal
    <2>5. LeadInv(r)'
      BY <1>1, <2>1, <2>2, <2>3, <2>4 DEF LeadInv, Reported
    <2>. QED BY <2>1, <2>3, <2>5 DEF SameLead
  <1>. QED BY <1>3, <1>4, <1>5, <1>6, <1>7, <1>8, <1>9

-----------------------------------------------------------------------------
(* What subscribers are told.                                              *)

\* Steps that concern no broadcast and no position.
LEMMA ToldUntouched ==
    ASSUME StoryInv, NEW r \in Requests,
           \/ Bind(r) \/ PeekFails(r) \/ Enforce(r) \/ EnforceFails(r) \/ CheckBreaker(r) \/ AdapterInvoke(r)
           \/ StreamFinal(r) \/ StreamBreaks(r) \/ release(r) \/ Wake(r) \/ Wait(r)
    PROVE  \A x \in Requests : Told(x)'
  <1>1. sub \in [Requests -> Subscription]
    BY DEF StoryInv, TypeOK, Subscription
  <1>2. /\ bcast' = bcast /\ end' = end
        /\ sub' = sub \/ sub' = [sub EXCEPT ![r].waiting = TRUE] \/ sub' = Woken(r)
    BY DEF Bind, PeekFails, Enforce, EnforceFails, CheckBreaker, AdapterInvoke, StreamFinal, StreamBreaks, release,
           Wake, WakeThen, Wait
  <1>3. \A x \in Requests : sub'[x].of = sub[x].of /\ sub'[x].idx = sub[x].idx
    BY <1>1, <1>2, WokenFrame DEF Subscription, StoryInv
  <1>. QED BY <1>2, <1>3, ToldFrame DEF StoryInv

\* A request that is refused, or that begins to listen, has seen nothing.
LEMMA ToldBegins ==
    ASSUME StoryInv, NEW r \in Requests, Refuse(r) \/ Join(r) \/ Lead(r)
    PROVE  \A x \in Requests : Told(x)'
  <1>1. /\ sub \in [Requests -> Subscription] /\ end \in [Requests -> Ends \cup {"open"}]
        /\ in_flight \in [Contents -> Requests \cup {Nobody}] /\ Key(r) \in Contents /\ TypeOK
        /\ Nobody \notin Requests
    BY GatewayAssumption DEF StoryInv, TypeOK, Subscription, Key, Contents
  <1>2. bcast' = bcast /\ sub[r].of = Nobody /\ end[r] = "open" /\ Told(r)
    BY DEF Refuse, Join, Lead, StoryInv
  <1>3. sub[r].idx = 0
    BY <1>2 DEF Told
  <1>4. \A x \in Requests \ {r} : end'[x] = end[x] /\ sub'[x] = sub[x]
    BY <1>1 DEF Refuse, Join, Lead, Subscribe
  <1>5. \A x \in Requests \ {r} : Told(x)'
    BY <1>2, <1>4, ToldFrame DEF StoryInv
  <1>6. CASE Refuse(r)
    <2>1. end'[r] = "refused" /\ sub' = sub
      BY <1>1, <1>6 DEF Refuse
    <2>. QED BY <1>2, <1>3, <1>5, <2>1 DEF Told
  <1>7. CASE Join(r) \/ Lead(r)
    <2>1. end'[r] = "open" /\ sub'[r].of \in Requests /\ sub'[r].idx = 0
      BY <1>1, <1>2, <1>3, <1>7 DEF Join, Lead, Subscribe, Subscription
    <2>2. Len(bcast'[sub'[r].of].deltas) \in Nat
      BY <1>1, <1>2, <2>1, Parts
    <2>3. Told(r)'
      BY <1>1, <2>1, <2>2 DEF Told
    <2>. QED BY <1>5, <2>3
  <1>. QED BY <1>6, <1>7

\* A delta that is published is news to those who have not been told the end.
LEMMA ToldPublished ==
    ASSUME StoryInv, NEW r \in Requests, StreamDelta(r) \/ PublishFinal(r)
    PROVE  \A x \in Requests : Told(x)'
  <1>1. PICK f \in BOOLEAN : publish(r, f)
    BY DEF StreamDelta, PublishFinal
  <1>2. end' = end /\ sub' = sub /\ lead[r] \in {"streaming", "final"} /\ LeadInv(r) /\ TypeOK
    BY DEF StreamDelta, PublishFinal, StoryInv
  <1>3. ~HasFinal(r) /\ ~bcast[r].done
    BY <1>2 DEF LeadInv
  <1>4. /\ \A x \in Requests \ {r} : bcast'[x] = bcast[x]
        /\ Len(bcast'[r].deltas) = Len(bcast[r].deltas) + 1
        /\ \A i \in 1..Len(bcast[r].deltas) : bcast'[r].deltas[i] = bcast[r].deltas[i]
        /\ \A x \in Requests : sub'[x].of = sub[x].of /\ sub'[x].idx = sub[x].idx
    BY <1>1, <1>2, <1>3, PublishMoves
  <1>5. ASSUME NEW x \in Requests PROVE Told(x)'
    <2>1. /\ Told(x) /\ sub[x].idx \in Nat /\ sub[x].of \in Requests \cup {Nobody}
          /\ Len(bcast[r].deltas) \in Nat /\ end[x] \in Ends \cup {"open"}
      BY <1>2, Parts DEF StoryInv
    <2>2. CASE sub[x].of # r
      BY <1>2, <1>4, <2>1, <2>2, ToldFrame
    <2>3. CASE sub[x].of = r
      <3>1. r # Nobody
        BY GatewayAssumption
      <3>2. /\ end[x] \in {"open", "gone"} /\ sub[x].idx <= Len(bcast[r].deltas)
            /\ end[x] = "open" => \A i \in 1..sub[x].idx : ~bcast[r].deltas[i].is_final
        BY <1>3, <2>1, <2>3, <3>1 DEF Told, Ends
      <3>3. \A i \in 1..sub[x].idx : i \in 1..Len(bcast[r].deltas)
        BY <2>1, <3>2
      <3>4. /\ sub[x].idx <= Len(bcast'[r].deltas)
            /\ end[x] = "open" => \A i \in 1..sub[x].idx : ~bcast'[r].deltas[i].is_final
        BY <1>4, <2>1, <3>2, <3>3
      <3>. QED BY <1>2, <1>4, <2>3, <3>1, <3>2, <3>4 DEF Told
    <2>. QED BY <2>2, <2>3
  <1>. QED BY <1>5

\* Finishing a broadcast tells nobody yet.
LEMMA ToldFinished ==
    ASSUME StoryInv, NEW r \in Requests, finish(r)
    PROVE  \A x \in Requests : Told(x)'
  <1>1. end' = end /\ lead[r] = "finish" /\ LeadInv(r) /\ TypeOK /\ bcast \in [Requests -> Broadcast]
    BY DEF finish, StoryInv, TypeOK
  <1>2. ~bcast[r].done
    BY <1>1 DEF LeadInv
  <1>3. \A x \in Requests : sub'[x].of = sub[x].of /\ sub'[x].idx = sub[x].idx
    BY DEF finish
  <1>4. bcast'[r].deltas = bcast[r].deltas /\ \A x \in Requests \ {r} : bcast'[x] = bcast[x]
    BY <1>1 DEF finish, Broadcast
  <1>5. ASSUME NEW x \in Requests PROVE Told(x)'
    <2>1. Told(x) /\ sub[x].of \in Requests \cup {Nobody}
      BY <1>1, Parts DEF StoryInv
    <2>2. CASE sub[x].of # r
      BY <1>1, <1>3, <1>4, <2>1, <2>2, ToldFrame
    <2>3. CASE sub[x].of = r
      <3>1. end[x] \notin {"eof", "fallback", "failing", "error"}
        BY <1>2, <2>1, <2>3, GatewayAssumption DEF Told
      <3>. QED BY <1>1, <1>3, <1>4, <2>1, <2>3, <3>1 DEF Told, HasFinal
    <2>. QED BY <2>2, <2>3
  <1>. QED BY <1>5

\* What Relay hands to its client is in the broadcast.
LEMMA ToldRelayed ==
    ASSUME StoryInv, NEW r \in Requests, RelayDelta(r) \/ RelayEnd(r) \/ SendFails(r)
    PROVE  \A x \in Requests : Told(x)'
  <1>. DEFINE b == sub[r].of
              n == sub[r].idx
              d == bcast[b].deltas
  <1>1. /\ sub \in [Requests -> Subscription] /\ end \in [Requests -> Ends \cup {"open"}] /\ TypeOK
        /\ Nobody \notin Requests
    BY GatewayAssumption DEF StoryInv, TypeOK, Subscription
  <1>2. bcast' = bcast /\ b # Nobody /\ end[r] = "open" /\ Told(r)
    BY DEF RelayDelta, RelayEnd, SendFails, Open, StoryInv
  <1>3. b \in Requests /\ n \in Nat
    BY <1>1, <1>2, Parts
  <1>4. LeadInv(b) /\ Len(d) \in Nat /\ bcast[b].err \in Errors
    BY <1>1, <1>3, Parts DEF StoryInv
  <1>5. n <= Len(d) /\ \A i \in 1..n : ~d[i].is_final
    BY <1>2 DEF Told
  <1>6. \A x \in Requests \ {r} : end'[x] = end[x] /\ sub'[x] = sub[x]
    BY <1>1 DEF RelayDelta, RelayEnd, SendFails
  <1>7. \A x \in Requests \ {r} : Told(x)'
    BY <1>2, <1>6, ToldFrame DEF StoryInv
  <1>8. sub'[r].of = b
    BY <1>1, <1>2 DEF RelayDelta, RelayEnd, SendFails, Subscription
  <1>9. CASE RelayDelta(r)
    <2>1. n < Len(d) /\ sub'[r].idx = n + 1
      BY <1>1, <1>9 DEF RelayDelta, More, Subscribed, Subscription
    <2>2. n + 1 \in 1..Len(d) /\ \A i \in 1..(n + 1) : i \in 1..n \/ i = n + 1
      BY <1>3, <1>4, <2>1
    <2>3. CASE d[n + 1].is_final
      <3>1. end'[r] = "final"
        BY <1>1, <1>9, <2>3 DEF RelayDelta, Subscribed
      <3>2. HasFinal(b) /\ n + 1 = Len(d)
        BY <1>4, <2>2, <2>3 DEF HasFinal, LeadInv
      <3>3. HasFinal(b)'
        BY <1>2, <1>8, <3>2 DEF HasFinal
      <3>4. Told(r)'
        BY <1>2, <1>8, <2>1, <3>1, <3>2, <3>3 DEF Told
      <3>. QED BY <1>7, <3>4
    <2>4. CASE ~d[n + 1].is_final
      <3>1. end'[r] = "open"
        BY <1>1, <1>2, <1>9, <2>4 DEF RelayDelta, Subscribed
      <3>2. n + 1 <= Len(d) /\ \A i \in 1..(n + 1) : ~d[i].is_final
        BY <1>5, <2>2, <2>4, <1>3, <1>4, <2>1
      <3>3. Told(r)'
        BY <1>2, <1>8, <2>1, <3>1, <3>2 DEF Told
      <3>. QED BY <1>7, <3>3
    <2>. QED BY <2>3, <2>4
  <1>10. CASE RelayEnd(r)
    <2>1. ~(n < Len(d)) /\ bcast[b].done /\ sub' = sub
      BY <1>10 DEF RelayEnd, More, Subscribed
    <2>2. n = Len(d)
      BY <1>3, <1>4, <1>5, <2>1
    <2>3. ~HasFinal(b)
      BY <1>5, <2>2 DEF HasFinal
    <2>4. end'[r] = Verdict(bcast[b].err)
      BY <1>1, <1>10 DEF RelayEnd, Subscribed
    <2>5. end'[r] \in {"eof", "fallback", "failing"}
      BY <1>4, <2>4, Verdicts
    <2>6. ~HasFinal(b)'
      BY <1>2, <1>8, <2>3 DEF HasFinal
    <2>7. Told(r)'
      BY <1>2, <2>1, <2>2, <2>4, <2>5, <2>6 DEF Told
    <2>. QED BY <1>7, <2>7
  <1>11. CASE SendFails(r)
    <2>1. end'[r] = "gone" /\ sub' = sub
      BY <1>1, <1>11 DEF SendFails
    <2>2. Told(r)'
      BY <1>2, <1>5, <2>1 DEF Told
    <2>. QED BY <1>7, <2>2
  <1>. QED BY <1>9, <1>10, <1>11

\* The status that follows a best-effort delta.
LEMMA ToldFailed ==
    ASSUME StoryInv, NEW r \in Requests, RelayFails(r)
    PROVE  \A x \in Requests : Told(x)'
  <1>1. /\ end[r] = "failing" /\ end' = [end EXCEPT ![r] = "error"] /\ sub' = sub /\ bcast' = bcast
        /\ end \in [Requests -> Ends \cup {"open"}] /\ TypeOK /\ Told(r)
    BY DEF RelayFails, StoryInv, TypeOK
  <1>2. \A x \in Requests \ {r} : Told(x)'
    BY <1>1, ToldFrame DEF StoryInv
  <1>3. end'[r] = "error" /\ sub[r].of # Nobody /\ sub[r].of \in Requests
    BY <1>1, Parts DEF Told
  <1>4. bcast[sub[r].of].err \in Errors /\ Verdict(bcast[sub[r].of].err) = "failing"
    BY <1>1, <1>3, Parts DEF Told
  <1>5. bcast[sub[r].of].err = "error"
    BY <1>4, Verdicts
  <1>6. Told(r)'
    BY <1>1, <1>3, <1>5 DEF Told, HasFinal
  <1>. QED BY <1>2, <1>6

\* StoryInv is inductive.
LEMMA StoryStep == StoryInv /\ [Next]_vars => StoryInv'
  <1>. SUFFICES ASSUME StoryInv, [Next]_vars PROVE StoryInv'
    OBVIOUS
  <1>1. TypeOK'
    BY TypeStep DEF StoryInv
  <1>2. ASSUME NEW r \in Requests, Act(r) PROVE \A x \in Requests : LeadInv(x)'
    BY <1>2, LeadKeeps, LeadBegins, LeadStreams DEF Act, LeadStep
  <1>3. ASSUME NEW r \in Requests, Act(r) PROVE \A x \in Requests : Told(x)'
    BY <1>3, ToldUntouched, ToldBegins, ToldPublished, ToldFinished, ToldRelayed, ToldFailed
       DEF Act, LeadStep, RelayStep
  <1>4. CASE (\E p \in Providers : WindowEnds(p)) \/ UNCHANGED vars
    <2>1. lead' = lead /\ err' = err /\ reports' = reports /\ bcast' = bcast /\ sub' = sub /\ end' = end
      BY <1>4 DEF WindowEnds, vars
    <2>2. \A x \in Requests : LeadInv(x)' /\ Told(x)'
      BY <2>1, LeadFrame, ToldFrame DEF StoryInv, SameLead
    <2>. QED BY <1>1, <2>2 DEF StoryInv
  <1>. QED BY <1>1, <1>2, <1>3, <1>4, Acts DEF StoryInv

\* Nothing has been said at the start.
LEMMA StoryInit == Init => StoryInv
  <1>. SUFFICES ASSUME Init, NEW r \in Requests PROVE LeadInv(r) /\ Told(r)
    BY TypeInit DEF StoryInv
  <1>1. /\ lead[r] = "none" /\ err[r] = "nil" /\ bcast[r] = NewBroadcast /\ reports[r] = << >>
        /\ sub[r].of = Nobody /\ sub[r].idx = 0 /\ end[r] = "open"
    BY DEF Init
  <1>2. bcast[r].deltas = << >> /\ ~bcast[r].done /\ bcast[r].err = "nil" /\ Len(bcast[r].deltas) = 0
    BY <1>1 DEF NewBroadcast
  <1>. QED BY <1>1, <1>2 DEF LeadInv, Told

(* The breaker hears of each adapter call once, whoever leads, joins or    *)
(* leaves, and hears success exactly when a final delta was published; no  *)
(* client got a final delta from a call that was reported as failed.       *)
THEOREM OutcomesMatch == Spec => []OutcomeMatches
  <1>1. StoryInv => OutcomeMatches
    <2>. SUFFICES ASSUME StoryInv, NEW r \in Requests
                  PROVE  /\ Len(reports[r]) <= 1
                         /\ (lead[r] = "ended" /\ bcast[r].err # "fallback") =>
                              reports[r] = << \E i \in DOMAIN bcast[r].deltas : bcast[r].deltas[i].is_final >>
                         /\ end[r] = "final" => reports[sub[r].of] = << TRUE >>
      BY DEF OutcomeMatches
    <2>1. LeadInv(r) /\ Told(r) /\ TypeOK
      BY DEF StoryInv
    <2>2. \A x \in Requests : DOMAIN bcast[x].deltas = 1..Len(bcast[x].deltas)
      BY <2>1, Parts
    <2>3. Len(reports[r]) <= 1
      <3>1. reports[r] \in {<< >>, <<TRUE>>, <<FALSE>>}
        BY <2>1, Parts DEF LeadInv, Reported, LeadSteps, Waking
      <3>2. Len(<< >>) <= 1 /\ Len(<<TRUE>>) <= 1 /\ Len(<<FALSE>>) <= 1
        OBVIOUS
      <3>. QED BY <3>1, <3>2
    <2>4. ASSUME lead[r] = "ended", bcast[r].err # "fallback"
          PROVE  reports[r] = << \E i \in DOMAIN bcast[r].deltas : bcast[r].deltas[i].is_final >>
      <3>1. \/ HasFinal(r) /\ reports[r] = <<TRUE>>
            \/ ~HasFinal(r) /\ reports[r] = <<FALSE>>
        BY <2>1, <2>4 DEF LeadInv, Reported
      <3>2. reports[r] = <<HasFinal(r)>>
        <4>1. HasFinal(r) \in BOOLEAN
          BY DEF HasFinal
        <4>2. CASE HasFinal(r)
          <5>1. HasFinal(r) = TRUE
            BY <4>2
          <5>. QED BY <3>1, <5>1
        <4>3. CASE ~HasFinal(r)
          <5>1. HasFinal(r) = FALSE
            BY <4>1, <4>3
          <5>. QED BY <3>1, <5>1
        <4>. QED BY <4>2, <4>3
      <3>. QED BY <2>2, <3>2 DEF HasFinal
    <2>5. ASSUME end[r] = "final" PROVE reports[sub[r].of] = << TRUE >>
      <3>1. sub[r].of \in Requests /\ HasFinal(sub[r].of)
        BY <2>1, <2>5, Parts DEF Told
      <3>2. LeadInv(sub[r].of) /\ lead[sub[r].of] \in LeadSteps
        BY <2>1, <3>1, Parts DEF StoryInv
      <3>3. bcast[sub[r].of].deltas # << >>
        BY <3>1 DEF HasFinal
      <3>. QED BY <3>1, <3>2, <3>3 DEF LeadInv, Reported, LeadSteps, Waking
    <2>. QED BY <2>3, <2>4, <2>5
  <1>. QED BY <1>1, StoryInit, StoryStep, PTL DEF Spec

(* All clients of one coalesced call who stay to its end get all of its    *)
(* deltas and the same end, for any number of them, streams of any length  *)
(* and whenever they joined.                                               *)
THEOREM OneStory == Spec => []SameStory
  <1>1. StoryInv => SameStory
    <2>. SUFFICES ASSUME StoryInv, NEW r \in Requests, NEW s \in Requests,
                         sub[r].of = sub[s].of,
                         end[r] \notin {"open", "failing", "gone"}, end[s] \notin {"open", "failing", "gone"}
                  PROVE  end[r] = end[s] /\ sub[r].idx = sub[s].idx
      BY DEF SameStory
    <2>1. Told(r) /\ Told(s) /\ end[r] \in Ends \cup {"open"} /\ end[s] \in Ends \cup {"open"}
      BY Parts DEF StoryInv
    <2>2. CASE sub[r].of = Nobody
      BY <2>1, <2>2 DEF Told
    <2>3. CASE sub[r].of # Nobody
      <3>1. sub[r].of \in Requests
        BY <2>3, Parts DEF StoryInv
      <3>2. bcast[sub[r].of].err \in Errors
        BY <3>1, Parts DEF StoryInv
      <3>3. end[r] = "error" \/ end[r] = "final" \/ (end[r] \in {"eof", "fallback"} /\ end[r] = Verdict(bcast[sub[r].of].err))
        BY <2>1, <2>3 DEF Told, Ends
      <3>4. end[s] = "error" \/ end[s] = "final" \/ (end[s] \in {"eof", "fallback"} /\ end[s] = Verdict(bcast[sub[r].of].err))
        BY <2>1, <2>3 DEF Told, Ends
      <3>. QED BY <2>1, <2>3, <3>2, <3>3, <3>4, Verdicts DEF Told
    <2>. QED BY <2>2, <2>3
  <1>. QED BY <1>1, StoryInit, StoryStep, PTL DEF Spec

-----------------------------------------------------------------------------
(* ClientsSeeStreams.                                                      *)

\* The mapped state: what has come to each client, and how its stream stands.
gots   == [x \in Requests |-> got(x)]
stands == [x \in Requests |-> IF end[x] \in {"refused", "fallback"} THEN "declined" ELSE end[x]]

\* Broadcasts are only added to.
Grown == \A b \in Requests : \A i \in 1..Len(bcast[b].deltas) : bcast'[b].deltas[i] = bcast[b].deltas[i]

\* A client to whom nothing has come in this step.
Still(x) ==
    /\ sub'[x].idx = sub[x].idx
    /\ sub'[x].of = sub[x].of \/ sub[x].idx = 0

Kinds == {"more", "final"}

\* What was relayed to a client is a sequence, as long as its position says.
LEMMA RelayedType ==
    ASSUME StoryInv, NEW x \in Requests
    PROVE  /\ relayed(x) \in Seq(Kinds) /\ Len(relayed(x)) = sub[x].idx
           /\ sub[x].idx = 0 => relayed(x) = << >>
  <1>1. sub[x].idx \in Nat
    BY Parts DEF StoryInv
  <1>2. relayed(x) \in [1..sub[x].idx -> Kinds]
    BY DEF relayed, Kinds
  <1>3. relayed(x) \in Seq(Kinds)
    BY <1>1, <1>2, SeqDef
  <1>4. Len(relayed(x)) = sub[x].idx
    BY <1>1, <1>2, <1>3
  <1>5. sub[x].idx = 0 => relayed(x) = << >>
    BY <1>3, <1>4, EmptySeq
  <1>. QED BY <1>3, <1>4, <1>5

\* What was relayed is not changed under a client by what others do.
LEMMA RelayedKept ==
    ASSUME StoryInv, Grown, NEW x \in Requests, Still(x)
    PROVE  relayed(x)' = relayed(x)
  <1>1. sub[x].idx \in Nat /\ sub[x].of \in Requests \cup {Nobody} /\ TypeOK /\ Told(x)
    BY Parts DEF StoryInv
  <1>2. relayed(x)' = [i \in 1..sub'[x].idx |-> IF bcast'[sub'[x].of].deltas[i].is_final THEN "final" ELSE "more"]
    BY DEF relayed, Subscribed
  <1>3. CASE sub[x].idx = 0
    <2>1. 1..sub[x].idx = {} /\ 1..sub'[x].idx = {}
      BY <1>3 DEF Still
    <2>. QED BY <1>2, <2>1 DEF relayed
  <1>4. CASE sub[x].idx # 0
    <2>1. sub[x].of \in Requests /\ sub'[x].of = sub[x].of /\ sub'[x].idx = sub[x].idx
      BY <1>1, <1>4 DEF Told, Still
    <2>2. Len(bcast[sub[x].of].deltas) \in Nat /\ sub[x].idx <= Len(bcast[sub[x].of].deltas)
      BY <1>1, <2>1, Parts, GatewayAssumption DEF Told
    <2>3. \A i \in 1..sub[x].idx : i \in 1..Len(bcast[sub[x].of].deltas)
      BY <1>1, <2>2
    <2>4. \A i \in 1..sub[x].idx : bcast'[sub'[x].of].deltas[i].is_final = Subscribed(x).deltas[i].is_final
      BY <2>1, <2>3 DEF Grown, Subscribed
    <2>. QED BY <1>2, <2>1, <2>4 DEF relayed
  <1>. QED BY <1>3, <1>4

\* What has come to a client about whom nothing has changed.
LEMMA GotKept ==
    ASSUME NEW x \in Requests, relayed(x)' = relayed(x), end'[x] = end[x]
    PROVE  got(x)' = got(x)
  BY DEF got

\* Every step adds to broadcasts only.
LEMMA BroadcastsGrow ==
    ASSUME StoryInv, NEW r \in Requests, Act(r)
    PROVE  Grown
  <1>1. CASE StreamDelta(r) \/ PublishFinal(r)
    <2>1. PICK f \in BOOLEAN : publish(r, f)
      BY <1>1 DEF StreamDelta, PublishFinal
    <2>2. ~HasFinal(r)
      BY <1>1 DEF StreamDelta, PublishFinal, StoryInv, LeadInv
    <2>3. /\ \A x \in Requests \ {r} : bcast'[x] = bcast[x]
          /\ \A i \in 1..Len(bcast[r].deltas) : bcast'[r].deltas[i] = bcast[r].deltas[i]
      BY <2>1, <2>2, PublishMoves
    <2>. QED BY <2>3 DEF Grown
  <1>2. CASE finish(r)
    <2>1. bcast \in [Requests -> Broadcast]
      BY DEF StoryInv, TypeOK
    <2>2. \A x \in Requests : bcast'[x].deltas = bcast[x].deltas
      BY <1>2, <2>1 DEF finish, Broadcast
    <2>. QED BY <2>2 DEF Grown
  <1>3. CASE ~(StreamDelta(r) \/ PublishFinal(r) \/ finish(r))
    <2>1. bcast' = bcast
      BY <1>3 DEF Act, LeadStep, Bind, PeekFails, Refuse, Join, Lead, Enforce, EnforceFails, CheckBreaker,
                  AdapterInvoke, StreamFinal, StreamBreaks, release, Wake, WakeThen, RelayStep, RelayDelta, Wait,
                  RelayEnd, RelayFails, SendFails
    <2>. QED BY <2>1 DEF Grown
  <1>. QED BY <1>1, <1>2, <1>3

\* A step of one request moves no other client, and its own only if it relays.
LEMMA Moved ==
    ASSUME StoryInv, NEW r \in Requests, Act(r)
    PROVE  /\ \A x \in Requests \ {r} : Still(x) /\ end'[x] = end[x]
           /\ RelayDelta(r) \/ Still(r)
           /\ \/ RelayDelta(r) \/ RelayEnd(r) \/ RelayFails(r) \/ SendFails(r) \/ Refuse(r)
              \/ end' = end
  <1>1. /\ sub \in [Requests -> Subscription] /\ TypeOK
        /\ end \in [Requests -> Ends \cup {"open"}] /\ Told(r)
    BY DEF StoryInv, TypeOK, Subscription
  <1>2. CASE Bind(r) \/ PeekFails(r) \/ Enforce(r) \/ EnforceFails(r) \/ CheckBreaker(r) \/ AdapterInvoke(r)
             \/ StreamDelta(r) \/ StreamFinal(r) \/ PublishFinal(r) \/ StreamBreaks(r) \/ release(r) \/ finish(r)
    <2>1. sub' = sub /\ end' = end
      BY <1>2 DEF Bind, PeekFails, Enforce, EnforceFails, CheckBreaker, AdapterInvoke, StreamDelta, StreamFinal,
                  PublishFinal, StreamBreaks, release, finish
    <2>. QED BY <2>1 DEF Still
  <1>3. CASE Join(r) \/ Lead(r)
    <2>1. PICK b : sub' = [sub EXCEPT ![r].of = b]
      BY <1>3 DEF Join, Lead, Subscribe
    <2>2. sub[r].of = Nobody /\ end' = end
      BY <1>3 DEF Join, Lead
    <2>3. sub[r].idx = 0
      BY <1>1, <2>2 DEF Told
    <2>. QED BY <1>1, <2>1, <2>2, <2>3 DEF Still, Subscription
  <1>4. CASE Wake(r)
    <2>1. sub' = Woken(r) /\ end' = end
      BY <1>4 DEF Wake, WakeThen
    <2>. QED BY <1>1, <2>1, WokenFrame DEF Still
  <1>5. CASE RelayDelta(r)
    BY <1>1, <1>5 DEF RelayDelta, Still, Subscription
  <1>6. CASE Wait(r)
    BY <1>1, <1>6 DEF Wait, Still, Subscription
  <1>7. CASE RelayEnd(r) \/ RelayFails(r) \/ SendFails(r) \/ Refuse(r)
    BY <1>1, <1>7 DEF RelayEnd, RelayFails, SendFails, Refuse, Still
  <1>. QED BY <1>2, <1>3, <1>4, <1>5, <1>6, <1>7 DEF Act, LeadStep, RelayStep

\* A delta that Relay sends is the next of the client's stream.
LEMMA DeltaMapped ==
    ASSUME StoryInv, NEW r \in Requests, RelayDelta(r), Grown,
           \A x \in Requests \ {r} : Still(x) /\ end'[x] = end[x]
    PROVE  Clients!StreamNext
  <1>. DEFINE b == sub[r].of
              n == sub[r].idx
              f == bcast[b].deltas[n + 1].is_final
              kind == IF f THEN "final" ELSE "more"
  <1>1. /\ sub \in [Requests -> Subscription] /\ end \in [Requests -> Ends \cup {"open"}] /\ TypeOK
        /\ Told(r) /\ bcast' = bcast /\ end[r] = "open" /\ b # Nobody
    BY DEF StoryInv, TypeOK, Subscription, RelayDelta, Open
  <1>2. b \in Requests /\ n \in Nat /\ n < Len(bcast[b].deltas) /\ Len(bcast[b].deltas) \in Nat
    BY <1>1, Parts DEF RelayDelta, More, Subscribed
  <1>3. sub'[r].idx = n + 1 /\ sub'[r].of = b
    BY <1>1 DEF RelayDelta, Subscription
  <1>4. end'[r] = (IF f THEN "final" ELSE "open") /\ kind \in Kinds
    BY <1>1 DEF RelayDelta, Subscribed, Kinds
  <1>5. relayed(r)' = Append(relayed(r), kind)
    <2>1. relayed(r) \in Seq(Kinds) /\ Len(relayed(r)) = n /\ relayed(r)' \in Seq(Kinds) /\ Len(relayed(r)') = n + 1
      <3>1. relayed(r)' = [i \in 1..(n + 1) |-> IF bcast[b].deltas[i].is_final THEN "final" ELSE "more"]
        BY <1>1, <1>3 DEF relayed, Subscribed
      <3>2. relayed(r)' \in [1..(n + 1) -> Kinds] /\ n + 1 \in Nat
        BY <1>2, <3>1 DEF Kinds
      <3>3. relayed(r)' \in Seq(Kinds)
        BY <3>2, SeqDef
      <3>4. Len(relayed(r)') = n + 1
        BY <3>2, <3>3
      <3>. QED BY <3>3, <3>4, RelayedType
    <2>2. /\ Append(relayed(r), kind) \in Seq(Kinds) /\ Len(Append(relayed(r), kind)) = n + 1
          /\ \A i \in 1..n : Append(relayed(r), kind)[i] = relayed(r)[i]
          /\ Append(relayed(r), kind)[n + 1] = kind
      BY <1>4, <2>1, AppendProperties
    <2>3. \A i \in 1..(n + 1) : relayed(r)'[i] = IF bcast[b].deltas[i].is_final THEN "final" ELSE "more"
      BY <1>1, <1>3 DEF relayed, Subscribed
    <2>4. \A i \in 1..n : relayed(r)[i] = IF bcast[b].deltas[i].is_final THEN "final" ELSE "more"
      BY DEF relayed, Subscribed
    <2>5. \A i \in 1..(n + 1) : i \in 1..n \/ i = n + 1
      BY <1>2
    <2>6. \A i \in 1..(n + 1) : relayed(r)'[i] = Append(relayed(r), kind)[i]
      BY <1>2, <2>2, <2>3, <2>4, <2>5
    <2>. QED BY <2>1, <2>2, <2>6, SeqEqual
  <1>6. \A x \in Requests \ {r} : got(x)' = got(x)
    BY RelayedKept, GotKept
  <1>7. got(r)' = Append(got(r), kind)
    BY <1>1, <1>4, <1>5 DEF got
  <1>8. gots' = [gots EXCEPT ![r] = Append(gots[r], kind)]
    <2>1. gots' = [x \in Requests |-> got(x)']
      BY DEF gots
    <2>. QED BY <1>6, <1>7, <2>1 DEF gots
  <1>9. stands[r] = "open" /\ stands' = [stands EXCEPT ![r] = IF f THEN "final" ELSE "open"]
    BY <1>1, <1>4 DEF stands
  <1>10. CASE f
    <2>1. Clients!Final(r)
      BY <1>8, <1>9, <1>10 DEF Clients!Final, Clients!Comes, Clients!Becomes, gots, stands
    <2>. QED BY <1>9, <2>1 DEF Clients!StreamNext, stands
  <1>11. CASE ~f
    <2>1. stands' = stands
      BY <1>9, <1>11 DEF stands
    <2>2. Clients!Delta(r)
      BY <1>8, <1>11, <2>1 DEF Clients!Delta, Clients!Comes, gots, stands
    <2>. QED BY <1>9, <2>2 DEF Clients!StreamNext, stands
  <1>. QED BY <1>10, <1>11

\* The other ends: the end of the broadcast, which is an error only after a
\* best-effort delta, a client that has left, and a call that was declined, to
\* whom nothing has come.
LEMMA EndMapped ==
    ASSUME StoryInv, StoryInv', NEW r \in Requests, RelayEnd(r) \/ SendFails(r) \/ Refuse(r),
           \A x \in Requests : relayed(x)' = relayed(x)
    PROVE  Clients!StreamNext
  <1>1. /\ end \in [Requests -> Ends \cup {"open"}] /\ TypeOK /\ Told(r) /\ Told(r)'
        /\ end[r] = "open" /\ sub' = sub /\ bcast' = bcast
    BY DEF StoryInv, TypeOK, RelayEnd, SendFails, Refuse, Open
  <1>2. PICK e : end' = [end EXCEPT ![r] = e]
    BY DEF RelayEnd, SendFails, Refuse
  <1>3. end'[r] = e /\ \A x \in Requests \ {r} : end'[x] = end[x]
    BY <1>1, <1>2
  <1>4. /\ stands[r] = "open"
        /\ stands' = [stands EXCEPT ![r] = IF e \in {"refused", "fallback"} THEN "declined" ELSE e]
    BY <1>1, <1>3 DEF stands
  <1>5. /\ got(r) = relayed(r) /\ got(r)' = IF e \in {"failing", "error"} THEN Append(relayed(r), "best_effort") ELSE relayed(r)
        /\ \A x \in Requests \ {r} : got(x)' = got(x)
    BY <1>1, <1>3 DEF got
  <1>6. gots' = [x \in Requests |-> got(x)']
    BY DEF gots
  <1>7. CASE e \in {"eof", "gone"}
    <2>1. stands' = [stands EXCEPT ![r] = e] /\ gots' = gots
      BY <1>4, <1>5, <1>6, <1>7 DEF gots
    <2>2. Clients!Break(r)
      BY <1>7, <2>1 DEF Clients!Break, Clients!Becomes, gots, stands
    <2>. QED BY <1>4, <2>2 DEF Clients!StreamNext, stands
  <1>8. CASE e = "failing"
    <2>1. stands' = [stands EXCEPT ![r] = "failing"] /\ gots' = [gots EXCEPT ![r] = Append(gots[r], "best_effort")]
      BY <1>4, <1>5, <1>6, <1>8 DEF gots
    <2>2. Clients!Spoil(r)
      BY <2>1 DEF Clients!Spoil, Clients!Comes, Clients!Becomes, gots, stands
    <2>. QED BY <1>4, <2>2 DEF Clients!StreamNext, stands
  <1>9. CASE e \in {"refused", "fallback"}
    <2>1. sub[r].idx = 0
      <3>1. CASE Refuse(r)
        BY <1>1, <3>1 DEF Refuse, Told
      <3>2. CASE RelayEnd(r)
        <4>1. sub[r].of \in Requests /\ Told(r)' /\ end'[r] = e /\ bcast[sub[r].of].err \in Errors
          BY <1>1, <1>3, <3>2, Parts DEF RelayEnd, Open
        <4>2. /\ sub[r].of # Nobody /\ e # "refused" /\ e = "fallback"
              /\ sub[r].idx = Len(bcast[sub[r].of].deltas) /\ bcast[sub[r].of].done
              /\ Verdict(bcast[sub[r].of].err) = "fallback"
          BY <1>1, <1>9, <4>1, GatewayAssumption DEF Told
        <4>3. LeadInv(sub[r].of) /\ bcast[sub[r].of].err = "fallback"
          BY <4>1, <4>2, Verdicts DEF StoryInv
        <4>4. bcast[sub[r].of].deltas = << >>
          BY <4>2, <4>3 DEF LeadInv, Reported
        <4>. QED BY <4>2, <4>4
      <3>3. CASE SendFails(r)
        BY <1>1, <1>3, <1>9, <3>3 DEF SendFails
      <3>. QED BY <3>1, <3>2, <3>3
    <2>2. gots[r] = << >>
      BY <1>5, <2>1, RelayedType DEF gots
    <2>3. stands' = [stands EXCEPT ![r] = "declined"] /\ gots' = gots
      BY <1>4, <1>5, <1>6, <1>9 DEF gots
    <2>4. Clients!Decline(r)
      BY <2>2, <2>3 DEF Clients!Decline, Clients!Becomes, gots, stands
    <2>. QED BY <1>4, <2>4 DEF Clients!StreamNext, stands
  <1>10. e \in {"eof", "failing", "gone", "refused", "fallback"}
    <2>1. CASE RelayEnd(r)
      <3>1. sub[r].of \in Requests
        BY <1>1, <2>1, Parts DEF RelayEnd, Open
      <3>2. bcast[sub[r].of].err \in Errors
        BY <1>1, <3>1, Parts
      <3>. QED BY <1>1, <1>3, <2>1, <3>2, Verdicts DEF RelayEnd, Subscribed
    <2>2. CASE SendFails(r) \/ Refuse(r)
      BY <1>1, <1>3, <2>2 DEF SendFails, Refuse
    <2>. QED BY <2>1, <2>2
  <1>. QED BY <1>7, <1>8, <1>9, <1>10

\* The error status comes after the best-effort delta.
LEMMA FailMapped ==
    ASSUME StoryInv, NEW r \in Requests, RelayFails(r), \A x \in Requests : relayed(x)' = relayed(x)
    PROVE  Clients!StreamNext
  <1>1. /\ end \in [Requests -> Ends \cup {"open"}] /\ end[r] = "failing"
        /\ end' = [end EXCEPT ![r] = "error"]
    BY DEF StoryInv, TypeOK, RelayFails
  <1>2. \A x \in Requests : got(x)' = got(x)
    BY <1>1 DEF got
  <1>3. gots' = [x \in Requests |-> got(x)']
    BY DEF gots
  <1>4. gots' = gots /\ stands[r] = "failing" /\ stands' = [stands EXCEPT ![r] = "error"]
    BY <1>1, <1>2, <1>3 DEF gots, stands
  <1>5. Clients!Fail(r)
    BY <1>4 DEF Clients!Fail, Clients!Becomes, gots, stands
  <1>. QED BY <1>4, <1>5 DEF Clients!StreamNext, stands

(* To each of its clients a coalesced call is a stream of deltas of its    *)
(* own, for any number of clients, streams of any length and any order of  *)
(* joining, lagging and leaving: the broadcast behind it never shows.      *)
THEOREM ClientsGetStreams == Spec => ClientsSeeStreams
  <1>1. Init => Clients!StreamInit
    <2>. SUFFICES ASSUME Init PROVE Clients!StreamInit
      OBVIOUS
    <2>1. \A x \in Requests : got(x) = << >> /\ end[x] = "open"
      BY StoryInit, RelayedType DEF Init, got
    <2>. QED BY <2>1 DEF Clients!StreamInit
  <1>2. StoryInv /\ StoryInv' /\ [Next]_vars => [Clients!StreamNext]_(Clients!streamVars)
    <2>. SUFFICES ASSUME StoryInv, StoryInv', [Next]_vars
                  PROVE  Clients!StreamNext \/ UNCHANGED Clients!streamVars
      OBVIOUS
    <2>1. ASSUME NEW r \in Requests, Act(r) PROVE Clients!StreamNext \/ UNCHANGED Clients!streamVars
      <3>1. /\ Grown /\ \A x \in Requests \ {r} : Still(x) /\ end'[x] = end[x]
            /\ RelayDelta(r) \/ Still(r)
            /\ RelayDelta(r) \/ RelayEnd(r) \/ RelayFails(r) \/ SendFails(r) \/ Refuse(r) \/ end' = end
        BY <2>1, BroadcastsGrow, Moved
      <3>2. CASE RelayDelta(r)
        BY <3>1, <3>2, DeltaMapped
      <3>3. CASE ~RelayDelta(r)
        <4>1. \A x \in Requests : relayed(x)' = relayed(x)
          BY <3>1, <3>3, RelayedKept
        <4>2. CASE end' = end
          <5>1. \A x \in Requests : got(x)' = got(x)
            BY <4>1, <4>2 DEF got
          <5>2. gots' = gots
            BY <5>1 DEF gots
          <5>. QED BY <4>2, <5>2 DEF Clients!streamVars, gots
        <4>. QED BY <3>1, <3>3, <4>1, <4>2, EndMapped, FailMapped
      <3>. QED BY <3>2, <3>3
    <2>2. CASE (\E p \in Providers : WindowEnds(p)) \/ UNCHANGED vars
      <3>1. bcast' = bcast /\ sub' = sub /\ end' = end
        BY <2>2 DEF WindowEnds, vars
      <3>. QED BY <3>1 DEF Clients!streamVars, got, relayed, Subscribed
    <2>. QED BY <2>1, <2>2, Acts
  <1>. QED BY <1>1, <1>2, StoryInit, StoryStep, PTL DEF Spec, ClientsSeeStreams, Clients!StreamSpec

-----------------------------------------------------------------------------
(* NoLostWakeup.                                                           *)

\* The call found under a key is led by a goroutine that has not released it.
FlightInv ==
    \A k \in Contents : in_flight[k] # Nobody =>
        /\ Key(in_flight[k]) = k
        /\ lead[in_flight[k]] \in Before

\* Whoever subscribes to a call subscribes to one that is led ...
Led(x) == sub[x].of # Nobody => lead[sub[x].of] # "none"

\* ... and waits only while its leader runs, which is about to wake it when there
\* is something it has not been told.
Waits(x) ==
    sub[x].waiting =>
        /\ sub[x].of # Nobody
        /\ lead[sub[x].of] \notin {"none", "ended"}
        /\ (sub[x].idx < Len(bcast[sub[x].of].deltas) \/ bcast[sub[x].of].done) => lead[sub[x].of] \in Waking

WakeInv == StoryInv /\ FlightInv /\ \A x \in Requests : Led(x) /\ Waits(x)

\* A key is found as long as its leader has not released it.
LEMMA FlightStep ==
    ASSUME WakeInv, NEW r \in Requests, Act(r)
    PROVE  FlightInv'
  <1>1. /\ TypeOK /\ lead \in [Requests -> LeadSteps] /\ in_flight \in [Contents -> Requests \cup {Nobody}]
        /\ Key(r) \in Contents /\ Nobody \notin Requests
    BY GatewayAssumption DEF WakeInv, StoryInv, TypeOK, Key, Contents
  <1>2. \A k \in Contents : in_flight[k] # Nobody =>
            /\ Key(in_flight[k]) = k /\ in_flight[k] \in Requests
            /\ lead[in_flight[k]] \in Before
    BY <1>1 DEF WakeInv, FlightInv
  <1>3. CASE lead' = lead /\ in_flight' = in_flight
    BY <1>2, <1>3 DEF FlightInv, Key
  <1>4. CASE Lead(r)
    <2>1. in_flight' = [in_flight EXCEPT ![Key(r)] = r] /\ lead' = [lead EXCEPT ![r] = "quota"]
      BY <1>4 DEF Lead
    <2>2. ASSUME NEW k \in Contents, in_flight'[k] # Nobody
          PROVE  Key(in_flight'[k]) = k /\ lead'[in_flight'[k]] \in Before
      BY <1>1, <1>2, <2>1, <2>2 DEF Before
    <2>. QED BY <2>2 DEF FlightInv, Key
  <1>5. CASE release(r)
    <2>1. in_flight' = [in_flight EXCEPT ![Key(r)] = Nobody] /\ lead' = [lead EXCEPT ![r] = "finish"]
      BY <1>5 DEF release, GoOn
    <2>2. ASSUME NEW k \in Contents, in_flight'[k] # Nobody
          PROVE  Key(in_flight'[k]) = k /\ lead'[in_flight'[k]] \in Before
      BY <1>1, <1>2, <2>1, <2>2
    <2>. QED BY <2>2 DEF FlightInv, Key
  <1>6. CASE /\ in_flight' = in_flight
             /\ \E n \in Before : lead' = [lead EXCEPT ![r] = n]
    <2>1. ASSUME NEW k \in Contents, in_flight'[k] # Nobody
          PROVE  Key(in_flight'[k]) = k /\ lead'[in_flight'[k]] \in Before
      BY <1>1, <1>2, <1>6, <2>1
    <2>. QED BY <2>1 DEF FlightInv, Key
  <1>7. CASE in_flight' = in_flight /\ lead[r] \in After /\ \E n \in After : lead' = [lead EXCEPT ![r] = n]
    <2>1. ASSUME NEW k \in Contents, in_flight'[k] # Nobody
          PROVE  Key(in_flight'[k]) = k /\ lead'[in_flight'[k]] \in Before
      BY <1>1, <1>2, <1>7, <2>1 DEF Before, After
    <2>. QED BY <2>1 DEF FlightInv, Key
  <1>. QED BY <1>1, <1>3, <1>4, <1>5, <1>6, <1>7, LeaderMoves

\* A leader that runs goes on running, and one about to wake does so, until it wakes.
LEMMA RunsOn ==
    ASSUME StoryInv, NEW r \in Requests, Act(r), NEW b \in Requests
    PROVE  /\ lead[b] # "none" => lead'[b] # "none"
           /\ lead[b] \notin {"none", "ended"} => lead'[b] \notin {"none", "ended"} \/ (b = r /\ Wake(r))
           /\ lead[b] \in Waking => lead'[b] \in Waking \/ (b = r /\ Wake(r))
  <1>1. lead \in [Requests -> LeadSteps] /\ LeadInv(r)
    BY DEF StoryInv, TypeOK
  <1>2. CASE Lead(r)
    <2>1. lead[r] = "none" /\ lead' = [lead EXCEPT ![r] = "quota"]
      BY <1>1, <1>2, GatewayAssumption DEF Lead, LeadInv
    <2>. QED BY <1>1, <2>1 DEF Waking
  <1>3. CASE ~Wake(r) /\ ~Lead(r)
    <2>1. \/ lead' = lead
          \/ /\ lead[r] \notin Waking
             /\ \E n \in LeadSteps \ {"none", "ended"} : lead' = [lead EXCEPT ![r] = n]
      BY <1>3 DEF Act, LeadStep, Bind, PeekFails, Refuse, Join, Enforce, EnforceFails, CheckBreaker,
                  AdapterInvoke, StreamDelta, StreamFinal, PublishFinal, StreamBreaks, release, finish, RelayStep,
                  RelayDelta, Wait, RelayEnd, RelayFails, SendFails, GoOn, GiveUp, LeadSteps, Waking
    <2>. QED BY <1>1, <2>1
  <1>4. CASE Wake(r)
    <2>1. \E n \in LeadSteps \ {"none"} : lead' = [lead EXCEPT ![r] = n]
      BY <1>4 DEF Wake, WakeThen, GoOn, LeadSteps
    <2>. QED BY <1>1, <1>4, <2>1
  <1>. QED BY <1>2, <1>3, <1>4

\* A request is given to a call that is led.
LEMMA LedStep ==
    ASSUME WakeInv, NEW r \in Requests, Act(r), NEW x \in Requests
    PROVE  Led(x)'
  <1>1. /\ TypeOK /\ lead \in [Requests -> LeadSteps] /\ in_flight \in [Contents -> Requests \cup {Nobody}]
        /\ Key(r) \in Contents /\ Nobody \notin Requests /\ sub \in [Requests -> Subscription]
        /\ FlightInv /\ Led(x) /\ StoryInv
    BY GatewayAssumption DEF WakeInv, StoryInv, TypeOK, Key, Contents, Subscription
  <1>2. sub[x].of \in Requests \cup {Nobody}
    BY <1>1, Parts
  <1>3. CASE sub'[x].of = sub[x].of
    BY <1>1, <1>2, <1>3, RunsOn DEF Led
  <1>4. CASE Join(r) /\ x = r
    <2>1. /\ sub'[x].of = in_flight[Key(r)] /\ lead' = lead /\ in_flight[Key(r)] # Nobody
      BY <1>1, <1>4 DEF Join, Subscribe, Subscription
    <2>2. lead[in_flight[Key(r)]] # "none"
      BY <1>1, <2>1 DEF FlightInv, Before
    <2>. QED BY <2>1, <2>2 DEF Led
  <1>5. CASE Lead(r) /\ x = r
    <2>1. sub'[x].of = r /\ lead'[r] = "quota"
      BY <1>1, <1>5 DEF Lead, Subscribe, Subscription
    <2>. QED BY <2>1 DEF Led
  <1>6. CASE x # r /\ (Join(r) \/ Lead(r))
    <2>1. sub'[x].of = sub[x].of
      BY <1>1, <1>6 DEF Join, Lead, Subscribe, Subscription
    <2>. QED BY <1>3, <2>1
  <1>7. CASE ~(Join(r) \/ Lead(r))
    <2>1. CASE sub' = Woken(r)
      BY <1>1, <1>3, <2>1, WokenFrame
    <2>2. CASE sub' = sub \/ sub' = [sub EXCEPT ![r].idx = @ + 1] \/ sub' = [sub EXCEPT ![r].waiting = TRUE]
      <3>1. sub'[x].of = sub[x].of
        BY <1>1, <2>2 DEF Subscription
      <3>. QED BY <1>3, <3>1
    <2>3. \/ sub' = Woken(r) \/ sub' = sub
          \/ sub' = [sub EXCEPT ![r].idx = @ + 1] \/ sub' = [sub EXCEPT ![r].waiting = TRUE]
      BY <1>7 DEF Act, LeadStep, Bind, PeekFails, Refuse, Enforce, EnforceFails, CheckBreaker, AdapterInvoke,
                  StreamDelta, StreamFinal, PublishFinal, StreamBreaks, release, finish, Wake, WakeThen, RelayStep,
                  RelayDelta, Wait, RelayEnd, RelayFails, SendFails
    <2>. QED BY <2>1, <2>2, <2>3
  <1>. QED BY <1>4, <1>5, <1>6, <1>7

\* Nobody is left waiting: who has something to read was not waiting, or its
\* leader is about to wake it.
LEMMA WaitsStep ==
    ASSUME WakeInv, NEW r \in Requests, Act(r), NEW x \in Requests
    PROVE  Waits(x)'
  <1>1. /\ TypeOK /\ StoryInv /\ Waits(x) /\ Led(x) /\ Led(r) /\ Nobody \notin Requests
        /\ sub \in [Requests -> Subscription] /\ bcast \in [Requests -> Broadcast]
        /\ lead \in [Requests -> LeadSteps]
    BY GatewayAssumption DEF WakeInv, StoryInv, TypeOK, Subscription
  <1>2. sub[x].of \in Requests \cup {Nobody} /\ sub[x].waiting \in BOOLEAN
    BY <1>1, Parts DEF Subscription
  \* a subscriber that was waiting before, on a broadcast that this step leaves alone
  <1>3. ASSUME sub[x].waiting => /\ sub'[x].of = sub[x].of /\ sub'[x].idx = sub[x].idx
                                 /\ bcast'[sub[x].of] = bcast[sub[x].of]
                                 /\ ~(sub[x].of = r /\ Wake(r)),
               sub'[x].waiting => sub[x].waiting
        PROVE  Waits(x)'
    <2>. SUFFICES ASSUME sub'[x].waiting
                  PROVE  /\ sub'[x].of # Nobody
                         /\ lead'[sub'[x].of] \notin {"none", "ended"}
                         /\ (sub'[x].idx < Len(bcast'[sub'[x].of].deltas) \/ bcast'[sub'[x].of].done)
                              => lead'[sub'[x].of] \in Waking
      BY DEF Waits
    <2>1. /\ sub[x].of # Nobody /\ sub[x].of \in Requests
          /\ lead[sub[x].of] \notin {"none", "ended"}
          /\ (sub[x].idx < Len(bcast[sub[x].of].deltas) \/ bcast[sub[x].of].done) => lead[sub[x].of] \in Waking
      BY <1>1, <1>2, <1>3 DEF Waits
    <2>2. /\ lead'[sub[x].of] \notin {"none", "ended"}
          /\ lead[sub[x].of] \in Waking => lead'[sub[x].of] \in Waking
      BY <1>1, <1>3, <2>1, RunsOn
    <2>. QED BY <1>3, <2>1, <2>2
  <1>4. CASE Wake(r)
    <2>1. sub' = Woken(r) /\ bcast' = bcast
      BY <1>4 DEF Wake, WakeThen
    <2>2. CASE sub[x].of = r
      <3>1. ~sub'[x].waiting
        BY <1>1, <2>1, <2>2 DEF Woken, Subscription
      <3>. QED BY <3>1 DEF Waits
    <2>3. CASE sub[x].of # r
      <3>1. sub'[x] = sub[x]
        BY <2>1, <2>3 DEF Woken
      <3>. QED BY <1>3, <2>1, <2>3, <3>1
    <2>. QED BY <2>2, <2>3
  <1>5. CASE StreamDelta(r) \/ PublishFinal(r) \/ finish(r)
    <2>1. /\ sub' = sub /\ lead'[r] \in Waking /\ ~Wake(r)
          /\ \A y \in Requests \ {r} : bcast'[y] = bcast[y]
      <3>1. sub' = sub /\ lead[r] \in {"streaming", "final", "finish"} /\ lead'[r] \in Waking
        BY <1>1, <1>5 DEF StreamDelta, PublishFinal, finish, GoOn, Waking
      <3>2. ~Wake(r)
        BY <3>1 DEF Wake, WakeThen
      <3>3. \A y \in Requests \ {r} : bcast'[y] = bcast[y]
        BY <1>1, <1>5 DEF StreamDelta, PublishFinal, finish, publish
      <3>. QED BY <3>1, <3>2, <3>3
    <2>2. CASE sub[x].of = r
      BY <1>1, <2>1, <2>2 DEF Waits, Waking
    <2>3. CASE sub[x].of # r
      <3>1. sub[x].waiting => bcast'[sub[x].of] = bcast[sub[x].of]
        BY <1>1, <1>2, <2>1, <2>3 DEF Waits
      <3>. QED BY <1>3, <2>1, <3>1
    <2>. QED BY <2>2, <2>3
  <1>6. CASE Wait(r)
    <2>1. /\ sub' = [sub EXCEPT ![r].waiting = TRUE] /\ bcast' = bcast /\ lead' = lead
          /\ sub[r].of # Nobody /\ ~(sub[r].idx < Len(bcast[sub[r].of].deltas)) /\ ~bcast[sub[r].of].done
      BY <1>6 DEF Wait, Open, More, Subscribed
    <2>2. CASE x # r
      <3>1. sub'[x] = sub[x]
        BY <1>1, <2>1, <2>2
      <3>. QED BY <1>1, <2>1, <3>1 DEF Waits
    <2>3. CASE x = r
      <3>1. sub[r].of \in Requests /\ LeadInv(sub[r].of)
        BY <1>1, <2>1, Parts DEF StoryInv
      <3>2. lead[sub[r].of] \notin {"none", "ended"}
        BY <1>1, <2>1, <3>1 DEF Led, LeadInv
      <3>3. sub'[r].of = sub[r].of /\ sub'[r].idx = sub[r].idx
        BY <1>1, <2>1 DEF Subscription
      <3>. QED BY <2>1, <2>3, <3>2, <3>3 DEF Waits
    <2>. QED BY <2>2, <2>3
  <1>7. CASE Join(r) \/ Lead(r) \/ RelayDelta(r)
    <2>1. bcast' = bcast
      BY <1>7 DEF Join, Lead, RelayDelta
    <2>2. ~sub[r].waiting
      <3>1. sub[r].of = Nobody \/ ~sub[r].waiting
        BY <1>7 DEF Join, Lead, RelayDelta, Open
      <3>. QED BY <3>1 DEF WakeInv, Waits
    <2>3. ~Wake(r)
      <3>1. lead' = lead \/ (lead[r] = "none" /\ lead' = [lead EXCEPT ![r] = "quota"])
        <4>1. LeadInv(r)
          BY <1>1 DEF StoryInv
        <4>. QED BY <1>1, <1>7, <4>1, GatewayAssumption DEF Join, Lead, RelayDelta, LeadInv
      <3>2. Wake(r) => lead[r] # "none" /\ lead'[r] # lead[r]
        BY <1>1 DEF Wake, WakeThen, GoOn
      <3>. QED BY <3>1, <3>2
    <2>4. CASE x # r
      <3>1. sub'[x] = sub[x]
        BY <1>1, <1>7, <2>4 DEF Join, Lead, Subscribe, RelayDelta
      <3>. QED BY <1>3, <2>1, <2>3, <3>1
    <2>5. CASE x = r
      <3>1. ~sub'[r].waiting
        BY <1>1, <1>7, <2>2 DEF Join, Lead, Subscribe, RelayDelta, Subscription
      <3>. QED BY <2>5, <3>1 DEF Waits
    <2>. QED BY <2>4, <2>5
  <1>8. CASE ~(Wake(r) \/ StreamDelta(r) \/ PublishFinal(r) \/ finish(r) \/ Wait(r) \/ Join(r) \/ Lead(r) \/ RelayDelta(r))
    <2>1. sub' = sub /\ bcast' = bcast
      BY <1>8 DEF Act, LeadStep, Bind, PeekFails, Refuse, Enforce, EnforceFails, CheckBreaker, AdapterInvoke,
                  StreamFinal, StreamBreaks, release, RelayStep, RelayEnd, RelayFails, SendFails
    <2>. QED BY <1>3, <1>8, <2>1
  <1>. QED BY <1>4, <1>5, <1>6, <1>7, <1>8

(* No subscriber sleeps through its wake-up, for any number of clients and *)
(* streams of any length, although publish and finish call Broadcast after *)
(* they have unlocked: what EveryCallEnds needs of the condition variable, *)
(* without the fairness.                                                   *)
THEOREM NobodySleepsOn == Spec => []NoLostWakeup
  <1>1. Init => WakeInv
    <2>. SUFFICES ASSUME Init PROVE WakeInv
      OBVIOUS
    <2>1. \A x \in Requests : sub[x].of = Nobody /\ ~sub[x].waiting
      BY DEF Init
    <2>2. \A k \in Contents : in_flight[k] = Nobody
      BY DEF Init
    <2>. QED BY <2>1, <2>2, StoryInit DEF WakeInv, FlightInv, Led, Waits
  <1>2. WakeInv /\ [Next]_vars => WakeInv'
    <2>. SUFFICES ASSUME WakeInv, [Next]_vars PROVE WakeInv'
      OBVIOUS
    <2>1. StoryInv'
      BY StoryStep DEF WakeInv
    <2>2. ASSUME NEW r \in Requests, Act(r) PROVE FlightInv' /\ \A x \in Requests : Led(x)' /\ Waits(x)'
      BY <2>2, FlightStep, LedStep, WaitsStep
    <2>3. CASE (\E q \in Providers : WindowEnds(q)) \/ UNCHANGED vars
      <3>1. UNCHANGED <<in_flight, lead, sub, bcast>>
        BY <2>3 DEF WindowEnds, vars
      <3>2. FlightInv' /\ \A x \in Requests : Led(x)' /\ Waits(x)'
        BY <3>1 DEF WakeInv, FlightInv, Led, Waits, Key
      <3>. QED BY <2>1, <3>2 DEF WakeInv
    <2>. QED BY <2>1, <2>2, <2>3, Acts DEF WakeInv
  <1>3. WakeInv => NoLostWakeup
    BY DEF WakeInv, Waits, NoLostWakeup, Subscribed, More
  <1>. QED BY <1>1, <1>2, <1>3, PTL DEF Spec
=============================================================================
