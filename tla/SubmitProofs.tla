---------------------------- MODULE SubmitProofs -----------------------------
(***************************************************************************)
(* Proofs about Submit, for any finite set of requests and any limit.      *)
(*                                                                         *)
(* CapacityHolds and the type of the gauge need to know who holds a slot   *)
(* (Slots): nobody before the increment or after the handler, everybody    *)
(* who is about to decrement.  AnsweredIsBilled needs to know how far the  *)
(* accounting of a request has come at each await (Accounts).              *)
(***************************************************************************)
EXTENDS Submit, FiniteSetTheorems, TLAPS

\* Where the handler of a request with an increment that stands may be.
Slots ==
    /\ gauge = Cardinality(held) + lost
    /\ \A r \in held : pc[r] \notin {"new", "admit", "done"}
    /\ \A r \in Requests : pc[r] \in {"undo", "release"} => r \in held

CapacityInv == TypeOK /\ Slots /\ Cardinality(Admitted) < Limit

-----------------------------------------------------------------------------
(* The gauge.                                                              *)

\* Sets of slots are finite, and so their sizes are numbers.
LEMMA HeldCounts ==
    ASSUME TypeOK, NEW r \in Requests
    PROVE  /\ IsFiniteSet(held) /\ Cardinality(held) \in Nat
           /\ r \in held => Cardinality(held \ {r}) = Cardinality(held) - 1 /\ Cardinality(held) >= 1
           /\ r \notin held => Cardinality(held \cup {r}) = Cardinality(held) + 1
  <1>1. IsFiniteSet(held)
    BY FS_Subset, SubmitAssumption DEF TypeOK
  <1>2. Cardinality(held) \in Nat /\ Cardinality(held \ {r}) \in Nat
    BY <1>1, FS_CardinalityType, FS_RemoveElement
  <1>3. Cardinality(held \ {r}) = IF r \in held THEN Cardinality(held) - 1 ELSE Cardinality(held)
    BY <1>1, FS_RemoveElement
  <1>4. Cardinality(held \cup {r}) = IF r \in held THEN Cardinality(held) ELSE Cardinality(held) + 1
    BY <1>1, FS_AddElement
  <1>. QED BY <1>1, <1>2, <1>3, <1>4

\* A smaller set of slots is not larger.
LEMMA AdmittedCounts ==
    ASSUME TypeOK, NEW S \in SUBSET held
    PROVE  IsFiniteSet(S) /\ Cardinality(S) \in Nat /\ Cardinality(S) <= Cardinality(held)
  <1>1. IsFiniteSet(held)
    BY FS_Subset, SubmitAssumption DEF TypeOK
  <1>. QED BY <1>1, FS_Subset, FS_CardinalityType

\* What a step does to the slots: it takes one, gives one back, loses one, or
\* leaves them alone; and what the handler's place says about it before and after.
Takes(r) ==
    /\ gauge' = gauge + 1 /\ held' = held \cup {r} /\ lost' = lost
    /\ pc[r] = "admit" /\ pc' = [pc EXCEPT ![r] = IF gauge + 1 >= Limit THEN "undo" ELSE "classify"]

GivesBack(r) ==
    /\ gauge' = gauge - 1 /\ held' = held \ {r} /\ lost' = lost
    /\ pc[r] \in {"undo", "release"} /\ \E n \in {"log", "done"} : pc' = [pc EXCEPT ![r] = n]

Loses(r) ==
    /\ r \in held /\ gauge' = gauge /\ held' = held \ {r} /\ lost' = lost + 1
    /\ pc' = [pc EXCEPT ![r] = "done"]

LosesUnheard(r) ==
    /\ r \notin held /\ gauge' = gauge + 1 /\ held' = held /\ lost' = lost + 1
    /\ pc' = [pc EXCEPT ![r] = "done"]

Keeps(r) ==
    /\ gauge' = gauge /\ held' = held /\ lost' = lost
    /\ \E n \in Awaits \cup {"done"} :
         /\ pc' = [pc EXCEPT ![r] = n]
         /\ n = pc[r] \/ n \in Awaits \ {"undo", "release"} \/ (n = "release" /\ r \in held)
                      \/ (n = "done" /\ r \notin held)
         /\ pc[r] \in {"undo", "release"} => n = "done"
         /\ n = "admit" => pc[r] = "new"

\* Every action is one of these.
LEMMA SlotMoves ==
    ASSUME CapacityInv, NEW r \in Requests,
           Step(r) \/ relay(r) \/ memory_expires(r) \/ Raises(r) \/ Cancelled(r) \/ Abandoned(r)
    PROVE  (Takes(r) \/ GivesBack(r) \/ Loses(r) \/ LosesUnheard(r) \/ Keeps(r)) \/ (pc' = pc /\ UNCHANGED slots)
  <1>1. /\ pc \in [Requests -> Awaits \cup {"new", "done"}]
        /\ \A x \in held : pc[x] \notin {"new", "admit", "done"}
    BY DEF CapacityInv, TypeOK, Slots
  <1>. USE DEF Goto, Finish, Decrement, slots, Awaits
  <1>2. ASSUME Validate(r) PROVE Keeps(r)
    BY <1>1, <1>2 DEF Validate, Keeps
  <1>3. ASSUME admit(r) PROVE Takes(r)
    BY <1>1, <1>3 DEF admit, Takes, sheds
  <1>4. ASSUME shed(r) \/ release(r) PROVE GivesBack(r)
    BY <1>1, <1>4 DEF shed, release, GivesBack
  <1>5. ASSUME classify(r) \/ write_memory(r) \/ resolve(r) \/ bind_via_provider_health(r) PROVE Keeps(r)
    BY <1>1, <1>5 DEF classify, write_memory, resolve, bind_via_provider_health, Keeps
  <1>6. ASSUME relay_final(r) \/ relay_fallback(r) \/ relay_error(r) \/ clean(r) PROVE Keeps(r)
    BY <1>1, <1>6 DEF relay_final, relay_fallback, relay_error, clean, Keeps
  <1>7. ASSUME write_log(r) \/ write_usage(r) \/ answer(r) PROVE Keeps(r)
    BY <1>1, <1>7 DEF write_log, write_usage, answer, Keeps
  <1>8. ASSUME relay(r) \/ memory_expires(r) PROVE pc' = pc /\ UNCHANGED slots
    BY <1>8 DEF relay, memory_expires
  <1>9. ASSUME Raises(r) \/ Cancelled(r) PROVE Keeps(r)
    BY <1>1, <1>9 DEF Raises, Cancelled, Unwind, Keeps
  <1>10. ASSUME Abandoned(r) PROVE Loses(r) \/ LosesUnheard(r) \/ Keeps(r)
    BY <1>1, <1>10 DEF Abandoned, Loses, LosesUnheard, Keeps
  <1>. QED BY <1>2, <1>3, <1>4, <1>5, <1>6, <1>7, <1>8, <1>9, <1>10 DEF Step

\* The slots stay accounted for, whatever a step does to them.
LEMMA SlotsStep ==
    ASSUME CapacityInv, NEW r \in Requests,
           \/ Takes(r) \/ GivesBack(r) \/ Loses(r) \/ LosesUnheard(r) \/ Keeps(r)
           \/ (pc' = pc /\ UNCHANGED slots)
    PROVE  /\ Slots' /\ Cardinality(Admitted') < Limit
           /\ gauge' \in Nat /\ lost' \in Nat /\ held' \in SUBSET Requests
           /\ pc' \in [Requests -> Awaits \cup {"new", "done"}]
  <1>1. /\ pc \in [Requests -> Awaits \cup {"new", "done"}]
        /\ gauge \in Nat /\ lost \in Nat /\ held \in SUBSET Requests
        /\ gauge = Cardinality(held) + lost
        /\ Limit \in Nat
    BY SubmitAssumption DEF CapacityInv, TypeOK, Slots
  <1>2. /\ \A x \in held : pc[x] \notin {"new", "admit", "done"}
        /\ \A x \in Requests : pc[x] \in {"undo", "release"} => x \in held
    BY DEF CapacityInv, Slots
  <1>3. /\ IsFiniteSet(held) /\ Cardinality(held) \in Nat
        /\ r \in held => Cardinality(held \ {r}) = Cardinality(held) - 1 /\ Cardinality(held) >= 1
        /\ r \notin held => Cardinality(held \cup {r}) = Cardinality(held) + 1
    BY HeldCounts DEF CapacityInv
  <1>4. Cardinality(Admitted) < Limit /\ Cardinality(Admitted) \in Nat /\ IsFiniteSet(Admitted)
    BY AdmittedCounts DEF CapacityInv, Admitted
  <1>5. ASSUME Admitted' \subseteq Admitted PROVE Cardinality(Admitted') < Limit
    <2>1. Cardinality(Admitted') <= Cardinality(Admitted) /\ Cardinality(Admitted') \in Nat
      BY <1>4, <1>5, FS_Subset, FS_CardinalityType
    <2>. QED BY <1>1, <1>4, <2>1
  <1>6. CASE Takes(r)
    <2>1. r \notin held
      BY <1>2, <1>6 DEF Takes
    <2>2. Cardinality(held') = Cardinality(held) + 1
      BY <1>3, <1>6, <2>1 DEF Takes
    <2>3. gauge' = Cardinality(held') + lost' /\ gauge' \in Nat
      BY <1>1, <1>3, <1>6, <2>2 DEF Takes
    <2>4. /\ \A x \in held' : pc'[x] \notin {"new", "admit", "done"}
          /\ \A x \in Requests : pc'[x] \in {"undo", "release"} => x \in held'
      BY <1>1, <1>2, <1>6 DEF Takes
    <2>5. CASE gauge + 1 >= Limit
      <3>1. Admitted' \subseteq Admitted
        BY <1>1, <1>6, <2>5 DEF Takes, Admitted
      <3>. QED BY <1>1, <1>5, <1>6, <2>3, <2>4, <3>1 DEF Takes, Slots, Awaits
    <2>6. CASE ~(gauge + 1 >= Limit)
      <3>1. IsFiniteSet(held')
        BY <1>3, <1>6, FS_AddElement DEF Takes
      <3>2. Admitted' \subseteq held'
        BY DEF Admitted
      <3>3. Cardinality(Admitted') <= Cardinality(held') /\ Cardinality(Admitted') \in Nat
        BY <3>1, <3>2, FS_Subset, FS_CardinalityType
      <3>4. Cardinality(Admitted') < Limit
        BY <1>1, <1>3, <1>6, <2>2, <2>6, <3>3 DEF Takes
      <3>. QED BY <1>1, <1>6, <2>3, <2>4, <3>4 DEF Takes, Slots, Awaits
    <2>. QED BY <2>5, <2>6
  <1>7. CASE GivesBack(r)
    <2>1. r \in held
      BY <1>2, <1>7 DEF GivesBack
    <2>2. gauge' = Cardinality(held') + lost' /\ gauge' \in Nat
      BY <1>1, <1>3, <1>7, <2>1 DEF GivesBack
    <2>3. /\ \A x \in held' : pc'[x] \notin {"new", "admit", "done"}
          /\ \A x \in Requests : pc'[x] \in {"undo", "release"} => x \in held'
      BY <1>1, <1>2, <1>7 DEF GivesBack
    <2>4. Admitted' \subseteq Admitted
      BY <1>1, <1>7 DEF GivesBack, Admitted
    <2>. QED BY <1>1, <1>5, <1>7, <2>2, <2>3, <2>4 DEF GivesBack, Slots, Awaits
  <1>8. CASE Loses(r) \/ LosesUnheard(r)
    <2>1. gauge' = Cardinality(held') + lost' /\ gauge' \in Nat /\ lost' \in Nat
      <3>1. CASE Loses(r)
        BY <1>1, <1>3, <3>1 DEF Loses
      <3>2. CASE LosesUnheard(r)
        BY <1>1, <1>3, <3>2 DEF LosesUnheard
      <3>. QED BY <1>8, <3>1, <3>2
    <2>2. /\ \A x \in held' : pc'[x] \notin {"new", "admit", "done"}
          /\ \A x \in Requests : pc'[x] \in {"undo", "release"} => x \in held'
      BY <1>1, <1>2, <1>8 DEF Loses, LosesUnheard
    <2>3. Admitted' \subseteq Admitted
      BY <1>1, <1>8 DEF Loses, LosesUnheard, Admitted
    <2>. QED BY <1>1, <1>5, <1>8, <2>1, <2>2, <2>3 DEF Loses, LosesUnheard, Slots, Awaits
  <1>9. CASE Keeps(r)
    <2>1. PICK n \in Awaits \cup {"done"} :
             /\ pc' = [pc EXCEPT ![r] = n]
             /\ n = pc[r] \/ n \in Awaits \ {"undo", "release"} \/ (n = "release" /\ r \in held)
                          \/ (n = "done" /\ r \notin held)
             /\ pc[r] \in {"undo", "release"} => n = "done"
             /\ n = "admit" => pc[r] = "new"
      BY <1>9 DEF Keeps
    <2>2. held' = held /\ lost' = lost /\ gauge' = gauge
      BY <1>9 DEF Keeps
    <2>3. pc'[r] = n /\ \A x \in Requests \ {r} : pc'[x] = pc[x]
      BY <1>1, <2>1
    <2>4. /\ r \in held => n \notin {"new", "admit", "done"}
          /\ n \in {"undo", "release"} => r \in held
          /\ r \in held => pc[r] # "undo"
      BY <1>1, <1>2, <2>1 DEF Awaits
    <2>5. /\ \A x \in held' : pc'[x] \notin {"new", "admit", "done"}
          /\ \A x \in Requests : pc'[x] \in {"undo", "release"} => x \in held'
      BY <1>1, <1>2, <2>2, <2>3, <2>4
    <2>6. Admitted' \subseteq Admitted
      BY <1>1, <2>2, <2>3, <2>4 DEF Admitted
    <2>7. pc' \in [Requests -> Awaits \cup {"new", "done"}]
      BY <1>1, <2>1
    <2>. QED BY <1>1, <1>5, <2>2, <2>5, <2>6, <2>7 DEF Slots
  <1>10. CASE pc' = pc /\ UNCHANGED slots
    BY <1>1, <1>2, <1>4, <1>10 DEF slots, Slots, Admitted
  <1>. QED BY <1>6, <1>7, <1>8, <1>9, <1>10

-----------------------------------------------------------------------------
(* Types, and CapacityHolds.                                               *)

\* The rest of the state: what a request's handler has recorded so far.
Recorded ==
    /\ wm \subseteq Requests
    /\ status \in [Requests -> Statuses \cup {"none"}]
    /\ usage \in [Requests -> Usages]
    /\ billed \subseteq Requests
    /\ request_log \in [Requests -> Statuses \cup {"none"}]
    /\ usage_event \in [Requests -> Usages]
    /\ metric \in [Requests -> {"none", "ok", "error"}]
    /\ outcome \in [Requests -> Outcomes]
    /\ client \in [Requests -> {"waiting", "part", "answer", "end", "error", "gone"}]

\* Its types are kept by every action.
LEMMA RecordedStep ==
    ASSUME Recorded, NEW r \in Requests,
           Step(r) \/ relay(r) \/ memory_expires(r) \/ Raises(r) \/ Cancelled(r) \/ Abandoned(r)
    PROVE  Recorded'
  <1>. USE DEF Recorded, Finish, Tell, Count, Came, Unheard, verdict, rows, Rejections, Statuses, Usages, Outcomes
  <1>1. ASSUME Validate(r) \/ admit(r) \/ shed(r) \/ release(r) PROVE Recorded'
    BY <1>1 DEF Validate, admit, shed, release
  <1>2. ASSUME classify(r) \/ write_memory(r) \/ resolve(r) PROVE Recorded'
    BY <1>2 DEF classify, write_memory, resolve
  <1>3. ASSUME bind_via_provider_health(r) \/ memory_expires(r) \/ relay(r) PROVE Recorded'
    BY <1>3 DEF bind_via_provider_health, memory_expires, relay
  <1>4. ASSUME relay_final(r) PROVE Recorded'
    BY <1>4 DEF relay_final
  <1>5. ASSUME relay_fallback(r) \/ relay_error(r) \/ clean(r) PROVE Recorded'
    BY <1>5 DEF relay_fallback, relay_error, clean
  <1>6. ASSUME write_log(r) \/ write_usage(r) \/ answer(r) PROVE Recorded'
    BY <1>6 DEF write_log, write_usage, answer
  <1>7. ASSUME Raises(r) \/ Cancelled(r) \/ Abandoned(r) PROVE Recorded'
    BY <1>7 DEF Raises, Cancelled, Abandoned
  <1>. QED BY <1>1, <1>2, <1>3, <1>4, <1>5, <1>6, <1>7 DEF Step

\* At the start nobody holds a slot.
LEMMA CapacityInit == Init => CapacityInv
  <1>. SUFFICES ASSUME Init PROVE CapacityInv
    OBVIOUS
  <1>1. TypeOK
    BY DEF Init, TypeOK, Statuses, Usages, Outcomes
  <1>2. Admitted = {} /\ held = {}
    BY DEF Init, Admitted
  <1>3. Cardinality(Admitted) = 0 /\ Cardinality(held) = 0
    BY <1>2, FS_EmptySet
  <1>4. Cardinality(Admitted) < Limit
    BY <1>3, SubmitAssumption
  <1>5. Slots
    BY <1>2, <1>3 DEF Init, Slots
  <1>. QED BY <1>1, <1>4, <1>5 DEF CapacityInv

\* CapacityInv is inductive.
LEMMA CapacityStep == CapacityInv /\ [Next]_vars => CapacityInv'
  <1>. SUFFICES ASSUME CapacityInv, [Next]_vars PROVE CapacityInv'
    OBVIOUS
  <1>1. ASSUME NEW r \in Requests,
               Step(r) \/ relay(r) \/ memory_expires(r) \/ Raises(r) \/ Cancelled(r) \/ Abandoned(r)
        PROVE  CapacityInv'
    <2>1. Recorded'
      BY <1>1, RecordedStep DEF CapacityInv, TypeOK, Recorded
    <2>2. /\ Slots' /\ Cardinality(Admitted') < Limit
          /\ gauge' \in Nat /\ lost' \in Nat /\ held' \in SUBSET Requests
          /\ pc' \in [Requests -> Awaits \cup {"new", "done"}]
      BY <1>1, SlotMoves, SlotsStep
    <2>. QED BY <2>1, <2>2 DEF CapacityInv, TypeOK, Recorded
  <1>2. CASE UNCHANGED vars
    BY <1>2 DEF vars, CapacityInv, TypeOK, Slots, Admitted
  <1>. QED BY <1>1, <1>2 DEF Next, Done

(* The state of every handler, the rows and the gauge keep their types; in *)
(* particular the gauge never goes below zero, although its increments and *)
(* decrements are separate calls that may fail one by one.                 *)
THEOREM SubmitTypeCorrect == Spec => []TypeOK
  <1>1. CapacityInv => TypeOK
    BY DEF CapacityInv
  <1>. QED BY <1>1, CapacityInit, CapacityStep, PTL DEF Spec

(* For any number of requests and any limit: the gauge is what the live    *)
(* handlers hold plus what was lost, and fewer requests than the limit are *)
(* worked on at any time, whatever fails, is cancelled or dies.            *)
THEOREM CapacityIsHeld == Spec => []CapacityHolds
  <1>1. CapacityInv => CapacityHolds
    BY DEF CapacityInv, CapacityHolds, Slots
  <1>. QED BY <1>1, CapacityInit, CapacityStep, PTL DEF Spec

-----------------------------------------------------------------------------
(* AnsweredIsBilled.                                                       *)

\* How far the accounting of a request has come when its handler is where it is.
Account(r) ==
    /\ status[r] = "ok" =>
         /\ pc[r] \in {"log", "usage", "answer", "release", "done"}
         /\ metric[r] = "ok" /\ r \notin wm /\ r \in billed
    /\ status[r] = "ok" /\ pc[r] \in {"usage", "answer"} => request_log[r] = "ok"
    /\ status[r] = "ok" /\ pc[r] = "answer" /\ usage[r] # "none" => usage_event[r] = usage[r]
    /\ client[r] = "answer" =>
         /\ status[r] = "ok" /\ pc[r] \in {"release", "done"}
         /\ request_log[r] = "ok" /\ usage_event[r] = usage[r]

Accounts == \A r \in Requests : Account(r)

AccountInv == TypeOK /\ Accounts

\* What is recorded about the other requests.
Apart(r) ==
    \A x \in Requests \ {r} :
        /\ pc'[x] = pc[x] /\ status'[x] = status[x] /\ usage'[x] = usage[x] /\ metric'[x] = metric[x]
        /\ request_log'[x] = request_log[x] /\ usage_event'[x] = usage_event[x] /\ client'[x] = client[x]
        /\ x \in wm' <=> x \in wm
        /\ x \in billed' <=> x \in billed

\* A step of one handler keeps its own account and does not touch the others'.
LEMMA AccountStep ==
    ASSUME AccountInv, NEW r \in Requests,
           Step(r) \/ relay(r) \/ memory_expires(r) \/ Raises(r) \/ Cancelled(r) \/ Abandoned(r)
    PROVE  Account(r)' /\ Apart(r)
  <1>1. /\ Account(r)
        /\ pc \in [Requests -> Awaits \cup {"new", "done"}]
        /\ status \in [Requests -> Statuses \cup {"none"}]
        /\ usage \in [Requests -> Usages]
        /\ request_log \in [Requests -> Statuses \cup {"none"}]
        /\ usage_event \in [Requests -> Usages]
        /\ metric \in [Requests -> {"none", "ok", "error"}]
        /\ client \in [Requests -> {"waiting", "part", "answer", "end", "error", "gone"}]
    BY DEF AccountInv, TypeOK, Accounts
  <1>. USE DEF Account, Apart, Goto, Finish, Tell, Count, slots, verdict, rows
  <1>2. ASSUME Validate(r) \/ admit(r) \/ shed(r) PROVE Account(r)' /\ Apart(r)
    BY <1>1, <1>2 DEF Validate, admit, shed
  <1>3. ASSUME classify(r) \/ write_memory(r) \/ resolve(r) PROVE Account(r)' /\ Apart(r)
    BY <1>1, <1>3 DEF classify, write_memory, resolve
  <1>4. ASSUME bind_via_provider_health(r) \/ relay(r) PROVE Account(r)' /\ Apart(r)
    BY <1>1, <1>4 DEF bind_via_provider_health, relay
  <1>5. ASSUME relay_final(r) PROVE Account(r)' /\ Apart(r)
    BY <1>1, <1>5 DEF relay_final
  <1>6. ASSUME relay_fallback(r) \/ relay_error(r) PROVE Account(r)' /\ Apart(r)
    BY <1>1, <1>6 DEF relay_fallback, relay_error
  <1>7. ASSUME clean(r) PROVE Account(r)' /\ Apart(r)
    BY <1>1, <1>7 DEF clean
  <1>8. ASSUME write_log(r) \/ write_usage(r) PROVE Account(r)' /\ Apart(r)
    BY <1>1, <1>8 DEF write_log, write_usage
  <1>9. ASSUME answer(r) \/ release(r) PROVE Account(r)' /\ Apart(r)
    BY <1>1, <1>9 DEF answer, release
  <1>10. ASSUME memory_expires(r) PROVE Account(r)' /\ Apart(r)
    BY <1>1, <1>10 DEF memory_expires
  <1>11. ASSUME Raises(r) \/ Cancelled(r) PROVE Account(r)' /\ Apart(r)
    BY <1>1, <1>11 DEF Raises, Cancelled, Unheard, Unwind, Awaits
  <1>12. ASSUME Abandoned(r) PROVE Account(r)' /\ Apart(r)
    BY <1>1, <1>12 DEF Abandoned, Unheard
  <1>. QED BY <1>2, <1>3, <1>4, <1>5, <1>6, <1>7, <1>8, <1>9, <1>10, <1>11, <1>12 DEF Step

\* The accounts of all requests are kept.
LEMMA AccountsStep == TypeOK' /\ AccountInv /\ [Next]_vars => AccountInv'
  <1>. SUFFICES ASSUME TypeOK', AccountInv, [Next]_vars PROVE Accounts'
    BY DEF AccountInv
  <1>1. ASSUME NEW r \in Requests,
               Step(r) \/ relay(r) \/ memory_expires(r) \/ Raises(r) \/ Cancelled(r) \/ Abandoned(r)
        PROVE  Accounts'
    <2>1. Account(r)' /\ Apart(r)
      BY <1>1, AccountStep
    <2>2. \A x \in Requests \ {r} : Account(x)'
      BY <2>1 DEF Apart, AccountInv, Accounts, Account
    <2>. QED BY <2>1, <2>2 DEF Accounts
  <1>2. CASE UNCHANGED vars
    BY <1>2 DEF vars, AccountInv, Accounts, Account
  <1>. QED BY <1>1, <1>2 DEF Next, Done

(* For any number of requests: who has the final response has an ok row, a *)
(* usage row with the tokens the provider reported, a count in the metric  *)
(* and no working memory left, although the handler may be cancelled, fail *)
(* or die at every await around it.                                        *)
THEOREM AnswersAreBilled == Spec => []AnsweredIsBilled
  <1>1. Init => AccountInv
    BY CapacityInit DEF CapacityInv, Init, AccountInv, Accounts, Account
  <1>2. AccountInv => AnsweredIsBilled
    BY DEF AccountInv, Accounts, Account, AnsweredIsBilled
  <1>. QED BY <1>1, <1>2, AccountsStep, SubmitTypeCorrect, PTL DEF Spec

-----------------------------------------------------------------------------
(* IsMetered.                                                              *)

\* What a request's verdict says about where its handler is, and whether it has
\* a slot.
Place(r) ==
    /\ pc[r] \in {"new", "admit", "undo", "classify", "memory", "resolve", "place", "relay", "clean"}
         => status[r] = "none"
    /\ pc[r] \in {"classify", "memory", "resolve", "place", "relay", "clean"} => r \in held
    /\ pc[r] \in {"log", "usage", "answer"} =>
         status[r] # "none" /\ (r \in held <=> status[r] # "admission_shed")
    /\ status[r] = "admission_shed" => r \notin held /\ pc[r] \in {"log", "answer", "done"}

\* Which rows it has, by where its handler is.
Entry(r) ==
    /\ r \in billed => status[r] \in {"ok", "provider_stream_error"}
    /\ pc[r] \notin {"usage", "answer", "release", "done"} => request_log[r] = "none"
    /\ pc[r] \notin {"answer", "release", "done"} => usage_event[r] = "none"
    /\ pc[r] \in {"usage", "answer"} => request_log[r] = status[r]
    /\ pc[r] = "usage" => r \in billed
    /\ pc[r] = "answer" /\ r \in billed => usage_event[r] # "none"

Places  == \A r \in Requests : Place(r)
Entries == \A r \in Requests : Entry(r)

MeterInv == CapacityInv /\ AccountInv /\ Places /\ Entries

\* The slots of other requests are theirs.
SlotsApart(r) == \A x \in Requests \ {r} : x \in held' <=> x \in held

\* A step keeps its own request's place.
LEMMA PlaceStep ==
    ASSUME MeterInv, NEW r \in Requests,
           Step(r) \/ relay(r) \/ memory_expires(r) \/ Raises(r) \/ Cancelled(r) \/ Abandoned(r)
    PROVE  Place(r)' /\ SlotsApart(r)
  <1>1. /\ Place(r) /\ (r \in billed => status[r] \in {"ok", "provider_stream_error"})
        /\ pc \in [Requests -> Awaits \cup {"new", "done"}]
        /\ status \in [Requests -> Statuses \cup {"none"}]
        /\ held \in SUBSET Requests
        /\ pc[r] \in {"undo", "release"} => r \in held
        /\ r \in held => pc[r] \notin {"new", "admit", "done"}
    BY DEF MeterInv, CapacityInv, TypeOK, Slots, Places, Entries, Entry
  <1>. USE DEF Place, SlotsApart, Goto, Finish, Decrement, slots, verdict, Awaits
  <1>2. ASSUME Validate(r) \/ admit(r) \/ shed(r) \/ release(r) PROVE Place(r)' /\ SlotsApart(r)
    BY <1>1, <1>2 DEF Validate, admit, shed, release
  <1>3. ASSUME classify(r) \/ write_memory(r) \/ resolve(r) PROVE Place(r)' /\ SlotsApart(r)
    BY <1>1, <1>3 DEF classify, write_memory, resolve
  <1>4. ASSUME bind_via_provider_health(r) \/ relay(r) \/ memory_expires(r) PROVE Place(r)' /\ SlotsApart(r)
    BY <1>1, <1>4 DEF bind_via_provider_health, relay, memory_expires
  <1>5. ASSUME relay_final(r) \/ relay_fallback(r) \/ relay_error(r) PROVE Place(r)' /\ SlotsApart(r)
    BY <1>1, <1>5 DEF relay_final, relay_fallback, relay_error
  <1>6. ASSUME clean(r) \/ write_log(r) \/ write_usage(r) \/ answer(r) PROVE Place(r)' /\ SlotsApart(r)
    BY <1>1, <1>6 DEF clean, write_log, write_usage, answer
  <1>7. ASSUME Raises(r) \/ Cancelled(r) PROVE Place(r)' /\ SlotsApart(r)
    BY <1>1, <1>7 DEF Raises, Cancelled, Unwind
  <1>8. ASSUME Abandoned(r) PROVE Place(r)' /\ SlotsApart(r)
    BY <1>1, <1>8 DEF Abandoned
  <1>. QED BY <1>2, <1>3, <1>4, <1>5, <1>6, <1>7, <1>8 DEF Step

\* A step keeps its own request's rows in step with its handler.
LEMMA EntryStep ==
    ASSUME MeterInv, NEW r \in Requests,
           Step(r) \/ relay(r) \/ memory_expires(r) \/ Raises(r) \/ Cancelled(r) \/ Abandoned(r)
    PROVE  Entry(r)'
  <1>1. /\ Entry(r) /\ Place(r)
        /\ pc \in [Requests -> Awaits \cup {"new", "done"}]
        /\ status \in [Requests -> Statuses \cup {"none"}]
        /\ usage \in [Requests -> Usages]
        /\ request_log \in [Requests -> Statuses \cup {"none"}]
        /\ usage_event \in [Requests -> Usages]
    BY DEF MeterInv, CapacityInv, TypeOK, Places, Entries
  <1>. USE DEF Entry, Place, Goto, Finish, slots, verdict, rows
  <1>2. ASSUME Validate(r) \/ admit(r) \/ shed(r) \/ release(r) PROVE Entry(r)'
    BY <1>1, <1>2 DEF Validate, admit, shed, release
  <1>3. ASSUME classify(r) \/ write_memory(r) \/ resolve(r) PROVE Entry(r)'
    BY <1>1, <1>3 DEF classify, write_memory, resolve
  <1>4. ASSUME bind_via_provider_health(r) \/ relay(r) \/ memory_expires(r) PROVE Entry(r)'
    BY <1>1, <1>4 DEF bind_via_provider_health, relay, memory_expires
  <1>5. ASSUME relay_final(r) \/ relay_fallback(r) \/ relay_error(r) PROVE Entry(r)'
    BY <1>1, <1>5 DEF relay_final, relay_fallback, relay_error
  <1>6. ASSUME clean(r) \/ write_log(r) PROVE Entry(r)'
    BY <1>1, <1>6 DEF clean, write_log
  <1>7. ASSUME write_usage(r) \/ answer(r) PROVE Entry(r)'
    BY <1>1, <1>7 DEF write_usage, answer
  <1>8. ASSUME Raises(r) \/ Cancelled(r) PROVE Entry(r)'
    BY <1>1, <1>8 DEF Raises, Cancelled, Unwind, Awaits
  <1>9. ASSUME Abandoned(r) PROVE Entry(r)'
    BY <1>1, <1>9 DEF Abandoned, Awaits
  <1>. QED BY <1>2, <1>3, <1>4, <1>5, <1>6, <1>7, <1>8, <1>9 DEF Step

\* MeterInv is inductive.
LEMMA MeterInvStep == MeterInv /\ [Next]_vars => MeterInv'
  <1>. SUFFICES ASSUME MeterInv, [Next]_vars PROVE MeterInv'
    OBVIOUS
  <1>1. CapacityInv'
    BY CapacityStep DEF MeterInv
  <1>2. AccountInv'
    BY <1>1, AccountsStep DEF MeterInv, CapacityInv
  <1>3. ASSUME NEW r \in Requests,
               Step(r) \/ relay(r) \/ memory_expires(r) \/ Raises(r) \/ Cancelled(r) \/ Abandoned(r)
        PROVE  Places' /\ Entries'
    <2>1. Place(r)' /\ SlotsApart(r) /\ Entry(r)' /\ Apart(r)
      BY <1>3, PlaceStep, EntryStep, AccountStep DEF MeterInv
    <2>2. \A x \in Requests \ {r} : Place(x)'
      BY <2>1 DEF Apart, SlotsApart, Place, MeterInv, Places
    <2>3. \A x \in Requests \ {r} : Entry(x)'
      BY <2>1 DEF Apart, Entry, MeterInv, Entries
    <2>. QED BY <2>1, <2>2, <2>3 DEF Places, Entries
  <1>4. CASE UNCHANGED vars
    BY <1>1, <1>2, <1>4 DEF vars, MeterInv, Places, Place, Entries, Entry
  <1>. QED BY <1>1, <1>2, <1>3, <1>4 DEF Next, Done, MeterInv

\* At the start there are no verdicts and no rows.
LEMMA MeterInvInit == Init => MeterInv
  BY CapacityInit DEF CapacityInv, Init, AccountInv, Accounts, Account, MeterInv, Places, Place,
                      Entries, Entry

\* The mapped state: stages and who has been answered.
stages   == [x \in Requests |-> stageOf(x)]
answers  == {x \in Requests : client[x] = "answer"}

\* A step of r shows, outside, in nothing but the stage, the rows and the answer
\* of r.
LEMMA MappedStep ==
    ASSUME MeterInv, NEW r \in Requests, Apart(r), SlotsApart(r), MeterInv'
    PROVE  /\ stages' = [stages EXCEPT ![r] = stageOf(r)']
           /\ (client[r] = "answer" <=> client'[r] = "answer") => answers' = answers
           /\ client'[r] = "answer" => answers' = answers \cup {r}
           /\ request_log'[r] = request_log[r] => request_log' = request_log
           /\ usage_event'[r] = usage_event[r] => usage_event' = usage_event
  <1>1. /\ held \subseteq Requests /\ held' \subseteq Requests
        /\ request_log \in [Requests -> Statuses \cup {"none"}]
        /\ request_log' \in [Requests -> Statuses \cup {"none"}]
        /\ usage_event \in [Requests -> Usages]
        /\ usage_event' \in [Requests -> Usages]
    BY DEF MeterInv, CapacityInv, TypeOK
  <1>2. \A x \in Requests \ {r} : stageOf(x)' = stageOf(x)
    BY <1>1 DEF stageOf, Admitted, Apart, SlotsApart
  <1>3. stages' = [x \in Requests |-> stageOf(x)']
    BY DEF stages
  <1>4. stages' = [stages EXCEPT ![r] = stageOf(r)']
    BY <1>2, <1>3 DEF stages
  <1>5. \A x \in Requests \ {r} : client'[x] = client[x]
    BY DEF Apart
  <1>6. /\ (client[r] = "answer" <=> client'[r] = "answer") => answers' = answers
        /\ client'[r] = "answer" => answers' = answers \cup {r}
    BY <1>5 DEF answers
  <1>7. request_log'[r] = request_log[r] => request_log' = request_log
    BY <1>1 DEF Apart
  <1>8. usage_event'[r] = usage_event[r] => usage_event' = usage_event
    BY <1>1 DEF Apart
  <1>. QED BY <1>4, <1>6, <1>7, <1>8

\* What a step of r may look like from outside.
Moves(r) ==
    /\ request_log' = request_log /\ usage_event' = usage_event
    /\ client[r] = "answer" <=> client'[r] = "answer"
    /\ \/ stageOf(r)' = stageOf(r)
       \/ stageOf(r) \in {"outside", "serving"} /\ stageOf(r)' = "over"
       \/ stageOf(r) = "outside" /\ stageOf(r)' = "turned_away"

\* Before the increment and at the shed.
LEMMA EdgeMoves ==
    ASSUME MeterInv, NEW r \in Requests, Validate(r) \/ shed(r) \/ release(r)
    PROVE  Moves(r)
  <1>1. /\ Place(r) /\ Account(r)
        /\ pc \in [Requests -> Awaits \cup {"new", "done"}]
        /\ status \in [Requests -> Statuses \cup {"none"}]
        /\ client \in [Requests -> {"waiting", "part", "answer", "end", "error", "gone"}]
        /\ held \in SUBSET Requests
        /\ pc[r] \in {"undo", "release"} => r \in held
        /\ r \in held => pc[r] \notin {"new", "admit", "done"}
    BY DEF MeterInv, CapacityInv, TypeOK, Slots, Places, AccountInv, Accounts
  <1>. USE DEF Moves, stageOf, Admitted, Goto, Tell, Finish, Decrement, slots, verdict, rows
  <1>2. ASSUME Validate(r) PROVE Moves(r)
    BY <1>1, <1>2 DEF Validate, Place, Account
  <1>3. ASSUME shed(r) PROVE Moves(r)
    BY <1>1, <1>3 DEF shed, Place
  <1>4. ASSUME release(r) PROVE Moves(r)
    BY <1>1, <1>4 DEF release, Place
  <1>. QED BY <1>2, <1>3, <1>4

\* Inside.
LEMMA InnerMoves ==
    ASSUME MeterInv, NEW r \in Requests,
           \/ classify(r) \/ write_memory(r) \/ resolve(r) \/ bind_via_provider_health(r)
           \/ relay(r) \/ memory_expires(r) \/ relay_final(r) \/ relay_fallback(r)
           \/ relay_error(r) \/ clean(r)
    PROVE  Moves(r)
  <1>1. /\ Place(r) /\ Account(r)
        /\ pc \in [Requests -> Awaits \cup {"new", "done"}]
        /\ status \in [Requests -> Statuses \cup {"none"}]
        /\ client \in [Requests -> {"waiting", "part", "answer", "end", "error", "gone"}]
        /\ held \in SUBSET Requests
    BY DEF MeterInv, CapacityInv, TypeOK, Places, AccountInv, Accounts
  <1>. USE DEF Moves, stageOf, Admitted, Goto, Tell, Finish, slots, verdict, rows
  <1>2. ASSUME classify(r) \/ write_memory(r) \/ resolve(r) \/ bind_via_provider_health(r)
        PROVE  Moves(r)
    BY <1>1, <1>2 DEF classify, write_memory, resolve, bind_via_provider_health, Place
  <1>3. ASSUME relay(r) PROVE Moves(r)
    BY <1>1, <1>3 DEF relay, Account
  <1>4. ASSUME memory_expires(r) PROVE Moves(r)
    BY <1>1, <1>4 DEF memory_expires
  <1>5. ASSUME relay_final(r) \/ relay_fallback(r) \/ relay_error(r) \/ clean(r) PROVE Moves(r)
    BY <1>1, <1>5 DEF relay_final, relay_fallback, relay_error, clean, Place
  <1>. QED BY <1>2, <1>3, <1>4, <1>5

\* Failures.
LEMMA FailureMoves ==
    ASSUME MeterInv, NEW r \in Requests, Raises(r) \/ Cancelled(r) \/ Abandoned(r)
    PROVE  Moves(r)
  <1>1. /\ Place(r) /\ Account(r)
        /\ pc \in [Requests -> Awaits \cup {"new", "done"}]
        /\ status \in [Requests -> Statuses \cup {"none"}]
        /\ client \in [Requests -> {"waiting", "part", "answer", "end", "error", "gone"}]
        /\ held \in SUBSET Requests
        /\ pc[r] \in {"undo", "release"} => r \in held
        /\ r \in held => pc[r] \notin {"new", "admit", "done"}
    BY DEF MeterInv, CapacityInv, TypeOK, Slots, Places, AccountInv, Accounts
  <1>2. request_log' = request_log /\ usage_event' = usage_event /\ status' = status
    BY DEF Raises, Cancelled, Abandoned, rows, verdict
  <1>3. client[r] = "answer" <=> client'[r] = "answer"
    BY <1>1 DEF Raises, Cancelled, Abandoned, Unheard, Tell
  <1>4. ASSUME Raises(r) \/ Cancelled(r)
        PROVE  stageOf(r)' = stageOf(r)
    BY <1>1, <1>2, <1>4 DEF Raises, Cancelled, Unwind, Goto, slots, stageOf, Admitted, Place, Awaits
  <1>5. ASSUME Abandoned(r)
        PROVE  /\ pc'[r] = "done" /\ r \notin held' /\ pc[r] \in Awaits
    BY <1>1, <1>5 DEF Abandoned, Goto, slots
  <1>6. ASSUME Abandoned(r)
        PROVE  stageOf(r)' = IF status[r] = "admission_shed" THEN "turned_away" ELSE "over"
    BY <1>2, <1>5, <1>6 DEF stageOf, Admitted
  <1>7. /\ stageOf(r) \in {"serving", "turned_away", "outside", "over"}
        /\ status[r] = "admission_shed" => stageOf(r) = "turned_away"
        /\ stageOf(r) = "turned_away" => status[r] = "admission_shed"
    BY <1>1 DEF stageOf, Admitted, Place
  <1>. QED BY <1>2, <1>3, <1>4, <1>6, <1>7 DEF Moves

\* Such a step is a step of MeteredService, or none.
LEMMA MovesMapped ==
    ASSUME MeterInv, NEW r \in Requests, Apart(r), SlotsApart(r), MeterInv', Moves(r)
    PROVE  Meter!MeterNext \/ UNCHANGED Meter!meterVars
  <1>1. /\ stages' = [stages EXCEPT ![r] = stageOf(r)']
        /\ answers' = answers
    BY MappedStep DEF Moves
  <1>2. request_log' = request_log /\ usage_event' = usage_event
    BY DEF Moves
  <1>3. stages[r] = stageOf(r)
    BY DEF stages
  <1>4. CASE stageOf(r)' = stageOf(r)
    <2>1. stages' = stages
      BY <1>1, <1>3, <1>4 DEF stages
    <2>. QED BY <1>1, <1>2, <2>1 DEF Meter!meterVars, stages, answers
  <1>5. CASE stageOf(r) \in {"outside", "serving"} /\ stageOf(r)' = "over"
    <2>1. Meter!Leave(r)
      BY <1>1, <1>2, <1>3, <1>5 DEF Meter!Leave, Meter!Move, stages, answers
    <2>. QED BY <2>1 DEF Meter!MeterNext
  <1>6. CASE stageOf(r) = "outside" /\ stageOf(r)' = "turned_away"
    <2>1. Meter!TurnAway(r)
      BY <1>1, <1>2, <1>3, <1>6 DEF Meter!TurnAway, Meter!Move, stages, answers
    <2>. QED BY <2>1 DEF Meter!MeterNext
  <1>. QED BY <1>4, <1>5, <1>6 DEF Moves

\* An increment below the limit admits: whoever is served holds an increment,
\* and lost increments only make the gauge larger.
LEMMA AdmitMapped ==
    ASSUME MeterInv, NEW r \in Requests, Apart(r), SlotsApart(r), MeterInv', admit(r)
    PROVE  Meter!MeterNext \/ UNCHANGED Meter!meterVars
  <1>1. /\ Place(r) /\ Account(r)
        /\ pc \in [Requests -> Awaits \cup {"new", "done"}]
        /\ held \in SUBSET Requests
        /\ gauge \in Nat /\ lost \in Nat
        /\ r \in held => pc[r] \notin {"new", "admit", "done"}
        /\ gauge = Cardinality(held) + lost
    BY DEF MeterInv, CapacityInv, TypeOK, Slots, Places, AccountInv, Accounts
  <1>2. /\ request_log' = request_log /\ usage_event' = usage_event
        /\ client' = client /\ status' = status
        /\ pc[r] = "admit" /\ r \in held'
        /\ pc'[r] = IF sheds(gauge + 1) THEN "undo" ELSE "classify"
    BY <1>1 DEF admit, Goto, rows, verdict
  <1>3. stageOf(r) = "outside"
    BY <1>1, <1>2 DEF stageOf, Admitted, Place
  <1>4. CASE sheds(gauge + 1)
    <2>1. stageOf(r)' = "outside"
      BY <1>1, <1>2, <1>4 DEF stageOf, Admitted, Place
    <2>2. Moves(r)
      BY <1>2, <1>3, <2>1 DEF Moves
    <2>. QED BY <2>2, MovesMapped
  <1>5. CASE ~sheds(gauge + 1)
    <2>1. stageOf(r)' = "serving"
      BY <1>2, <1>5 DEF stageOf, Admitted
    <2>2. /\ stages' = [stages EXCEPT ![r] = "serving"] /\ answers' = answers
          /\ stages[r] = "outside"
      BY <1>2, <1>3, <2>1, MappedStep DEF stages
    <2>3. {x \in Requests : stages[x] = "serving"} = Admitted
      BY <1>1 DEF stages, stageOf, Admitted
    <2>4. /\ TypeOK /\ Admitted \in SUBSET held
      BY <1>1 DEF Admitted, MeterInv, CapacityInv
    <2>5. PICK a, h \in Nat : a = Cardinality(Admitted) /\ h = Cardinality(held) /\ a <= h
      BY <2>4, AdmittedCounts, HeldCounts
    <2>6. a + 1 < Limit
      BY <1>1, <1>5, <2>5, SubmitAssumption DEF sheds
    <2>8. Meter!Serving = Admitted
      BY <2>3 DEF Meter!Serving, stages
    <2>9. Meter!Cardinality(Meter!Serving) = Cardinality(Meter!Serving)
      BY DEF Meter!Cardinality, Cardinality
    <2>10. Meter!Cardinality(Meter!Serving) + 1 < Limit
      BY <2>5, <2>6, <2>8, <2>9
    <2>7. Meter!Admit(r)
      BY <1>2, <2>2, <2>10 DEF Meter!Admit, Meter!Move, stages, answers
    <2>. QED BY <2>7 DEF Meter!MeterNext
  <1>. QED BY <1>4, <1>5

\* The row of request_log is written once, by a request that is being served or
\* was turned away.
LEMMA LogMapped ==
    ASSUME MeterInv, NEW r \in Requests, Apart(r), SlotsApart(r), MeterInv', write_log(r)
    PROVE  Meter!MeterNext
  <1>1. /\ Place(r) /\ Account(r) /\ Entry(r)
        /\ pc \in [Requests -> Awaits \cup {"new", "done"}]
        /\ status \in [Requests -> Statuses \cup {"none"}]
        /\ held \in SUBSET Requests
    BY DEF MeterInv, CapacityInv, TypeOK, Places, AccountInv, Accounts, Entries
  <1>2. /\ request_log' = [request_log EXCEPT ![r] = status[r]]
        /\ usage_event' = usage_event /\ client' = client /\ status' = status
        /\ held' = held /\ pc[r] = "log" /\ pc'[r] \in {"usage", "answer"}
    BY <1>1 DEF write_log, Goto, slots, verdict
  <1>3. status[r] \in Meter!Verdicts /\ request_log[r] = "none"
    BY <1>1, <1>2 DEF Place, Entry, Statuses, Rejections, Meter!Verdicts
  <1>4. /\ stageOf(r) = IF status[r] = "admission_shed" THEN "turned_away" ELSE "serving"
        /\ stageOf(r)' = stageOf(r)
    BY <1>1, <1>2 DEF stageOf, Admitted, Place
  <1>5. stages' = stages /\ answers' = answers /\ stages[r] = stageOf(r)
    BY <1>2, <1>4, MappedStep DEF stages
  <1>6. Meter!Log(r, status[r])
    BY <1>2, <1>3, <1>4, <1>5 DEF Meter!Log, stages, answers
  <1>. QED BY <1>3, <1>6 DEF Meter!MeterNext

\* The row of usage_event is written once, after the other, by a request that
\* reached its provider and still holds its slot.
LEMMA ChargeMapped ==
    ASSUME MeterInv, NEW r \in Requests, Apart(r), SlotsApart(r), MeterInv', write_usage(r)
    PROVE  Meter!MeterNext
  <1>1. /\ Place(r) /\ Account(r) /\ Entry(r)
        /\ pc \in [Requests -> Awaits \cup {"new", "done"}]
        /\ status \in [Requests -> Statuses \cup {"none"}]
        /\ usage \in [Requests -> Usages]
        /\ held \in SUBSET Requests
    BY DEF MeterInv, CapacityInv, TypeOK, Places, AccountInv, Accounts, Entries
  <1>2. /\ usage_event' = [usage_event EXCEPT ![r] = IF usage[r] = "none" THEN "unset" ELSE usage[r]]
        /\ request_log' = request_log /\ client' = client /\ status' = status
        /\ held' = held /\ pc[r] = "usage" /\ pc'[r] = "answer"
    BY <1>1 DEF write_usage, Goto, slots, verdict
  <1>3. /\ request_log[r] \in {"ok", "provider_stream_error"} /\ usage_event[r] = "none"
        /\ status[r] # "admission_shed"
    BY <1>1, <1>2 DEF Place, Entry
  <1>4. stageOf(r) = "serving" /\ stageOf(r)' = "serving"
    BY <1>1, <1>2, <1>3 DEF stageOf, Admitted, Place
  <1>5. stages' = stages /\ answers' = answers /\ stages[r] = "serving"
    BY <1>2, <1>4, MappedStep DEF stages
  <1>6. \E u \in {"unset", "reported"} : Meter!Charge(r, u)
    BY <1>1, <1>2, <1>3, <1>5 DEF Meter!Charge, stages, answers, Usages
  <1>. QED BY <1>6 DEF Meter!MeterNext

\* The final response follows both rows; any other last word is not an answer.
LEMMA AnswerMapped ==
    ASSUME MeterInv, NEW r \in Requests, Apart(r), SlotsApart(r), MeterInv', answer(r)
    PROVE  Meter!MeterNext \/ UNCHANGED Meter!meterVars
  <1>1. /\ Place(r) /\ Account(r) /\ Entry(r)
        /\ pc \in [Requests -> Awaits \cup {"new", "done"}]
        /\ client \in [Requests -> {"waiting", "part", "answer", "end", "error", "gone"}]
        /\ held \in SUBSET Requests
        /\ Account(r)'
    BY DEF MeterInv, CapacityInv, TypeOK, Places, AccountInv, Accounts, Entries
  <1>2. /\ request_log' = request_log /\ usage_event' = usage_event /\ status' = status
        /\ usage' = usage
        /\ held' = held /\ pc[r] = "answer"
        /\ pc'[r] = IF r \in held THEN "release" ELSE "done"
        /\ client'[r] = IF status[r] # "ok" THEN "error" ELSE IF usage[r] = "none" THEN "end" ELSE "answer"
    BY <1>1 DEF answer, Goto, Tell, slots, verdict, rows
  <1>3. stageOf(r)' = stageOf(r)
    BY <1>1, <1>2 DEF stageOf, Admitted, Place
  <1>4. CASE client'[r] # "answer"
    <2>1. client[r] # "answer"
      BY <1>1, <1>2, <1>4 DEF Account
    <2>2. Moves(r)
      BY <1>2, <1>3, <1>4, <2>1 DEF Moves
    <2>. QED BY <2>2, MovesMapped
  <1>5. CASE client'[r] = "answer"
    <2>1. status[r] = "ok" /\ usage[r] # "none"
      BY <1>2, <1>5
    <2>2. request_log[r] = "ok" /\ stageOf(r) = "serving" /\ usage_event[r] # "none"
      BY <1>1, <1>2, <1>5, <2>1 DEF Account, Entry, Place, stageOf, Admitted
    <2>3. stages' = stages /\ answers' = answers \cup {r} /\ stages[r] = "serving"
      BY <1>3, <1>5, <2>2, MappedStep DEF stages
    <2>4. Meter!Answer(r)
      BY <1>2, <2>2, <2>3 DEF Meter!Answer, stages, answers
    <2>. QED BY <2>4 DEF Meter!MeterNext
  <1>. QED BY <1>4, <1>5

(* Submit implements MeteredService, for any requests and any limit:       *)
(* cancelled, raising or dying between two awaits, a handler of server.py  *)
(* serves its request once, within the limit, writes each row once and in  *)
(* order, and answers last.                                                *)
THEOREM ImplementsMeter == Spec => IsMetered
  <1>1. Init => Meter!MeterInit
    BY DEF Init, Meter!MeterInit, stageOf, Admitted
  <1>2. MeterInv /\ MeterInv' /\ [Next]_vars => [Meter!MeterNext]_(Meter!meterVars)
    <2>. SUFFICES ASSUME MeterInv, MeterInv', [Next]_vars
                  PROVE  Meter!MeterNext \/ UNCHANGED Meter!meterVars
      OBVIOUS
    <2>1. ASSUME NEW r \in Requests,
                 Step(r) \/ relay(r) \/ memory_expires(r) \/ Raises(r) \/ Cancelled(r) \/ Abandoned(r)
          PROVE  Meter!MeterNext \/ UNCHANGED Meter!meterVars
      <3>1. SlotsApart(r) /\ Apart(r)
        BY <2>1, PlaceStep, AccountStep DEF MeterInv
      <3>2. \/ Moves(r) \/ admit(r) \/ write_log(r) \/ write_usage(r) \/ answer(r)
        BY <2>1, EdgeMoves, InnerMoves, FailureMoves DEF Step
      <3>. QED BY <3>1, <3>2, MovesMapped, AdmitMapped, LogMapped, ChargeMapped, AnswerMapped
    <2>2. CASE UNCHANGED vars
      BY <2>2 DEF vars, Meter!meterVars, stageOf, Admitted
    <2>. QED BY <2>1, <2>2 DEF Next, Done
  <1>. QED BY <1>1, <1>2, MeterInvInit, MeterInvStep, PTL DEF Spec, IsMetered, Meter!MeterSpec
=============================================================================
