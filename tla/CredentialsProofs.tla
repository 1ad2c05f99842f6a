-------------------------- MODULE CredentialsProofs --------------------------
(***************************************************************************)
(* Proofs about Credentials, for any number of providers, any number of    *)
(* other users of the Vault client and any lengths of the intervals.       *)
(*                                                                         *)
(* How old a key of a ready pod may grow is a sum over the places a        *)
(* refresh can wait at.  AgeInv bounds the age at each of them, as long as *)
(* no call hangs; the wait for the mutex is bounded by QueueInv, which     *)
(* counts the logins that may still come first, and the wait at boot by    *)
(* BootInv, which says that main sets the providers up one after the other.*)
(***************************************************************************)
EXTENDS Credentials, FiniteSetTheorems, TLAPS

\* How many there are that may want the mutex.
U == Cardinality(Users)

\* The mutex is held exactly through a login.
MutexInv ==
    \A u \in Users : pc[u] = "login" <=> holder = u

\* While main sets up a provider, those after it have not been touched, and those
\* before it do not run yet.
BootInv ==
    ~Serving =>
        /\ pc[Order[boot]] \in {"boot", "lock", "login", "read", "hung"}
        /\ \A i \in 1..N : i > boot => pc[Order[i]] = "boot"
        /\ \A p \in Providers : p # Order[boot] => pc[p] \in {"boot", "off", "parked"}

\* A call to Vault ends within Timeout, and the token outlives it.
CallInv ==
    \A u \in Users :
        /\ pc[u] \in {"login", "read"} => spent[u] <= Timeout
        /\ pc[u] = "read" => token.lease + spent[u] > Timeout

\* Those that may get the mutex before u, and what the present login may last.
Ahead(u) == {v \in Users \ {u} : pc[v] = "lock" /\ spent[v] >= spent[u]}

LoginLeft == IF holder = NoOne THEN 0 ELSE Timeout - spent[holder]

\* What u has waited, and may have to, is at most one login of every other.
QueueInv ==
    \A u \in Users : pc[u] = "lock" =>
        spent[u] + Cardinality(Ahead(u)) * Timeout + LoginLeft <= (U - 1) * Timeout

\* The keys that wait for a call that hangs are marked.
StallInv ==
    \A p \in Providers : pc[p] = "hung" =>
        /\ stalled[p]
        /\ ~Serving => \A q \in Providers : pc[q] = "parked" => stalled[q]

\* The time main has spent on the provider it is setting up, at most.
SetUpFor ==
    IF Serving THEN 0
    ELSE CASE pc[Order[boot]] = "lock"  -> spent[Order[boot]]
           [] pc[Order[boot]] = "login" -> (U - 1) * Timeout + spent[Order[boot]]
           [] pc[Order[boot]] = "read"  -> U * Timeout + spent[Order[boot]]
           [] OTHER -> 0

\* What a key may be old when its refresh begins.
OldAtRefresh == (N - 1) * RefreshTime + refreshInterval(TTL)

\* The age of the key of p, by what its resolver is doing.
AgeBound(p) ==
    /\ pc[p] # "boot"
    /\ pc[p] = "parked" =>
         /\ age[p] <= (boot - 2) * RefreshTime + SetUpFor
         /\ wait[p] <= refreshInterval(TTL)
    /\ pc[p] = "sleep" => age[p] + wait[p] <= OldAtRefresh
    /\ pc[p] = "lock"  => age[p] <= OldAtRefresh + spent[p]
    /\ pc[p] = "login" => age[p] <= OldAtRefresh + (U - 1) * Timeout + spent[p]
    /\ pc[p] = "read"  => age[p] <= OldAtRefresh + U * Timeout + spent[p]

AgeInv == \A p \in Providers : source[p] /\ ~stalled[p] => AgeBound(p)

IInv ==
    /\ TypeOK
    /\ MutexInv
    /\ BootInv
    /\ CallInv
    /\ QueueInv
    /\ StallInv
    /\ AgeInv

-----------------------------------------------------------------------------
(* The constants.                                                          *)

\* The intervals are numbers, and every provider has one place in Order.
LEMMA Constants ==
    /\ N \in Nat
    /\ \A i \in 1..N : Order[i] \in Providers
    /\ \A i, j \in 1..N : Order[i] = Order[j] => i = j
    /\ \A p \in Providers : N >= 1
    /\ NoOne \notin Users
    /\ TTL \in Nat \ {0} /\ Buffer \in Nat \ {0} /\ Retry \in Nat \ {0}
    /\ Timeout \in Nat \ {0} /\ Lease \in Nat \ {0} /\ MaxRotations \in Nat \ {0}
    /\ 2 * Timeout <= Buffer /\ Timeout < Lease
  <1>. USE CredentialsAssumption
  <1>1. Cardinality(Providers) \in Nat
    BY FS_CardinalityType
  <1>2. N = Cardinality(Providers) /\ DOMAIN Order = 1..N
    BY <1>1 DEF N
  <1>3. \A i \in 1..N : Order[i] \in Providers
    BY <1>2
  <1>4. \A i, j \in 1..N : Order[i] = Order[j] => i = j
    BY <1>2
  <1>5. \A p \in Providers : N >= 1
    BY <1>1, <1>2
  <1>6. NoOne \notin Users
    BY DEF Users
  <1>. QED BY <1>1, <1>2, <1>3, <1>4, <1>5, <1>6

\* The users of the mutex are finitely many.
LEMMA UsersFinite ==
    /\ IsFiniteSet(Users) /\ U \in Nat
    /\ Providers \subseteq Users /\ Others \subseteq Users
    /\ \A u \in Users : u \notin Others => u \in Providers
    /\ \A o \in Others : o \notin Providers
    /\ \A u \in Users : U >= 1
  <1>1. IsFiniteSet(Users)
    BY CredentialsAssumption, FS_Union DEF Users
  <1>2. U \in Nat
    BY <1>1, FS_CardinalityType DEF U
  <1>3. ASSUME NEW u \in Users
        PROVE  U >= 1
    <2>1. Cardinality(Users) = 0 <=> Users = {}
      BY <1>1, FS_EmptySet
    <2>. QED BY <1>2, <2>1 DEF U
  <1>. QED BY <1>1, <1>2, <1>3, CredentialsAssumption DEF Users

\* The interval after a refresh is at least one tick and at most TTL.
LEMMA Interval ==
    refreshInterval(TTL) \in Nat /\ refreshInterval(TTL) >= 1 /\ refreshInterval(TTL) <= TTL
  BY Constants DEF refreshInterval

\* The bounds are numbers once there is a provider, and add up to MaxAge.
LEMMA Bounds ==
    ASSUME NEW p \in Providers
    PROVE  /\ OldAtRefresh \in Nat
           /\ refreshInterval(TTL) <= OldAtRefresh
           /\ (U - 1) * Timeout \in Nat
           /\ U * Timeout = (U - 1) * Timeout + Timeout
           /\ RefreshTime \in Nat
           /\ RefreshTime = U * Timeout + Timeout
           /\ MaxAge \in Nat
           /\ MaxAge = OldAtRefresh + RefreshTime
           /\ (N - 1) * RefreshTime = OldAtRefresh - refreshInterval(TTL)
  <1>1. N \in Nat /\ N >= 1 /\ Timeout \in Nat /\ U \in Nat /\ U >= 1
    BY Constants, UsersFinite
  <1>2. PICK n \in Nat : n = N - 1
    BY <1>1
  <1>3. PICK v \in Nat : v = U - 1
    BY <1>1
  <1>4. v * Timeout \in Nat
    BY <1>1
  <1>5. U * Timeout = v * Timeout + Timeout /\ (U + 1) * Timeout = U * Timeout + Timeout
    BY <1>1, <1>3
  <1>6. RefreshTime \in Nat /\ RefreshTime = U * Timeout + Timeout
    <2>1. RefreshTime = (U + 1) * Timeout
      BY DEF RefreshTime, U
    <2>. QED BY <1>1, <1>4, <1>5, <2>1
  <1>7. PICK r \in Nat : r = RefreshTime
    BY <1>6
  <1>8. PICK nr \in Nat : nr = n * r
    OBVIOUS
  <1>9. N * r = nr + r
    BY <1>1, <1>2, <1>8
  <1>10. OldAtRefresh = nr + refreshInterval(TTL) /\ MaxAge = (nr + r) + refreshInterval(TTL)
    BY <1>2, <1>7, <1>8, <1>9 DEF OldAtRefresh, MaxAge
  <1>11. OldAtRefresh \in Nat /\ refreshInterval(TTL) <= OldAtRefresh /\ MaxAge \in Nat
    BY <1>10, Interval
  <1>12. MaxAge = OldAtRefresh + RefreshTime
    BY <1>7, <1>10, Interval
  <1>13. (N - 1) * RefreshTime = OldAtRefresh - refreshInterval(TTL)
    BY <1>2, <1>7, <1>8, <1>10, Interval
  <1>. QED BY <1>3, <1>4, <1>5, <1>6, <1>11, <1>12, <1>13

-----------------------------------------------------------------------------
(* The kinds of steps.                                                     *)

Steps == {"boot", "off", "parked", "sleep", "lock", "login", "read", "hung", "idle"}

\* A step of one user, seen on pc and spent.
LEMMA GotoMoves ==
    ASSUME TypeOK, NEW u \in Users, NEW step \in Steps, Goto(u, step)
    PROVE  /\ pc' \in [Users -> Steps]
           /\ spent' \in [Users -> Nat]
           /\ pc'[u] = step /\ spent'[u] = 0
           /\ \A v \in Users : v # u => pc'[v] = pc[v] /\ spent'[v] = spent[v]
  BY DEF TypeOK, Goto, Steps

\* The world changes, and nobody does anything.
Apart ==
    /\ UNCHANGED <<holder, boot, pc, wait, spent, source, age, stalled>>
    /\ token'.lease = token.lease

\* A call begins: at boot, when a refresh timer is due, or somebody else's.
Enters(u) ==
    /\ \/ ~Serving /\ u = Order[boot] /\ pc[u] = "boot"
       \/ pc[u] = "sleep" /\ wait[u] = 0
       \/ u \in Others /\ pc[u] = "idle"
    /\ Goto(u, "lock")
    /\ UNCHANGED <<holder, boot, wait, source, age, stalled, token>>

\* It gets the mutex, and a token that is still good or the right to log in.
Takes(u) ==
    /\ pc[u] = "lock"
    /\ holder = NoOne
    /\ Longest(u)
    /\ \/ token.lease > Buffer /\ Goto(u, Use(u)) /\ holder' = holder
       \/ Goto(u, "login") /\ holder' = u
    /\ UNCHANGED <<boot, wait, source, age, stalled, token>>

LogsIn(u) ==
    /\ pc[u] = "login"
    /\ Goto(u, Use(u))
    /\ holder' = NoOne
    /\ token'.lease = Lease
    /\ UNCHANGED <<boot, wait, source, age, stalled>>

\* The call of another user ends without a login.
Leaves(u) ==
    /\ u \in Others
    /\ pc[u] = "login"
    /\ Goto(u, "idle")
    /\ holder' = NoOne
    /\ UNCHANGED <<boot, wait, source, age, stalled, token>>

\* The answer to a refresh does not come.
Hangs(p) ==
    /\ pc[p] \in {"lock", "read"}
    /\ Goto(p, "hung")
    /\ \A q \in Providers :
         /\ stalled'[q] <=> stalled[q] \/ q = p \/ pc[q] = "parked"
         /\ ~stalled'[q] => age'[q] = age[q]
    /\ UNCHANGED <<holder, boot, wait, source, token>>

\* A refresh ends, with a new key, without, or with a late one.
Ends(p) ==
    /\ pc[p] \in {"login", "read", "hung"}
    /\ holder' = IF pc[p] = "login" THEN NoOne ELSE holder
    /\ UNCHANGED token
    /\ IF Booting(p) THEN /\ boot' = boot + 1
                          /\ \E step \in {"off", "parked"} : Goto(p, step)
       ELSE boot' = boot /\ Goto(p, "sleep")
    /\ \A q \in Providers : q # p =>
         /\ source'[q] = source[q] /\ age'[q] = age[q]
         /\ wait'[q] = wait[q] /\ stalled'[q] = stalled[q]
    /\ \/ source'[p] = FALSE
       \/ age'[p] = 0 /\ wait'[p] = refreshInterval(TTL)
       \/ pc[p] = "hung" /\ stalled'[p] = stalled[p]

\* The actions are of these kinds.
LEMMA StepKinds ==
    ASSUME TypeOK, [Next]_vars
    PROVE  \/ Apart \/ StartRun \/ Tick \/ Restart
           \/ \E u \in Users : Enters(u) \/ Takes(u) \/ LogsIn(u) \/ Leaves(u)
           \/ \E p \in Providers : Hangs(p) \/ Ends(p)
  <1>0. Providers \subseteq Users /\ Others \subseteq Users
    BY UsersFinite
  <1>1. ASSUME setupCredential
        PROVE  \E u \in Users : Enters(u)
    <2>1. boot \in 1..N
      BY <1>1, Constants DEF setupCredential, Serving, TypeOK
    <2>2. Order[boot] \in Users
      BY <1>0, <2>1, Constants
    <2>. QED BY <1>1, <2>2 DEF setupCredential, FetchToken, Enters
  <1>2. ASSUME NEW p \in Providers, Run(p)
        PROVE  Enters(p)
    BY <1>2 DEF Run, FetchToken, Enters
  <1>3. ASSUME NEW u \in Users, ensureToken(u)
        PROVE  Takes(u)
    BY <1>3 DEF ensureToken, tokenUsable, Takes
  <1>4. ASSUME NEW u \in Users, login(u)
        PROVE  LogsIn(u)
    BY <1>4 DEF login, LogsIn
  <1>5. ASSUME NEW p \in Providers, Failed(p)
        PROVE  /\ source'[p] = FALSE
               /\ \A q \in Providers : q # p =>
                    /\ source'[q] = source[q] /\ age'[q] = age[q]
                    /\ wait'[q] = wait[q] /\ stalled'[q] = stalled[q]
               /\ IF Booting(p) THEN boot' = boot + 1 /\ Goto(p, "off")
                  ELSE boot' = boot /\ Goto(p, "sleep")
    <2>1. source'[p] = FALSE /\ \A q \in Providers : q # p => source'[q] = source[q]
      BY <1>5 DEF Failed, TypeOK
    <2>2. \A q \in Providers : q # p => age'[q] = age[q] /\ stalled'[q] = stalled[q]
      BY <1>5 DEF Failed, TypeOK
    <2>3. \A q \in Providers : q # p => wait'[q] = wait[q]
      BY <1>5 DEF Failed, TypeOK
    <2>4. IF Booting(p) THEN boot' = boot + 1 /\ Goto(p, "off")
          ELSE boot' = boot /\ Goto(p, "sleep")
      BY <1>5 DEF Failed
    <2>. QED BY <2>1, <2>2, <2>3, <2>4
  <1>6. ASSUME NEW p \in Providers, loginFails(p) \/ ReadFails(p) \/ HangFails(p)
        PROVE  Ends(p)
    <2>1. Failed(p) /\ UNCHANGED token /\ pc[p] \in {"login", "read", "hung"}
      BY <1>6 DEF loginFails, ReadFails, HangFails
    <2>2. holder' = IF pc[p] = "login" THEN NoOne ELSE holder
      BY <1>6 DEF loginFails, ReadFails, HangFails
    <2>. QED BY <1>5, <2>1, <2>2 DEF Ends
  <1>7. ASSUME NEW p \in Providers, ReadProviderSecret(p)
        PROVE  Ends(p)
    <2>1. Refreshed(p) /\ UNCHANGED token /\ pc[p] = "read" /\ holder' = holder
      BY <1>7 DEF ReadProviderSecret
    <2>2. /\ age'[p] = 0 /\ wait'[p] = refreshInterval(TTL)
          /\ \A q \in Providers : q # p =>
               /\ source'[q] = source[q] /\ age'[q] = age[q]
               /\ wait'[q] = wait[q] /\ stalled'[q] = stalled[q]
      BY <2>1 DEF Refreshed, TypeOK, IssueToken, IssueProviderTokenResponse
    <2>3. IF Booting(p) THEN boot' = boot + 1 /\ Goto(p, "parked")
          ELSE boot' = boot /\ Goto(p, "sleep")
      BY <2>1 DEF Refreshed
    <2>. QED BY <2>1, <2>2, <2>3 DEF Ends
  <1>8. VaultChanges \/ Calm \/ UNCHANGED vars => Apart
    BY DEF VaultChanges, Calm, vars, Apart
  <1>9. \A p \in Providers : Rotate(p) => Apart
    BY DEF Rotate, Apart
  <1>10. TokenLost => Apart
    BY DEF TokenLost, Apart, TypeOK
  <1>11. ASSUME NEW p \in Providers, LateAnswer(p)
         PROVE  Ends(p)
    <2>1. pc[p] = "hung" /\ UNCHANGED <<token, holder, age, stalled>>
      BY <1>11 DEF LateAnswer
    <2>2. \A q \in Providers : q # p => source'[q] = source[q] /\ wait'[q] = wait[q]
      BY <1>11 DEF LateAnswer, TypeOK
    <2>3. IF Booting(p) THEN boot' = boot + 1 /\ Goto(p, "parked")
          ELSE boot' = boot /\ Goto(p, "sleep")
      BY <1>11 DEF LateAnswer
    <2>. QED BY <2>1, <2>2, <2>3 DEF Ends
  <1>12. ASSUME NEW p \in Providers, Hang(p)
         PROVE  Hangs(p)
    <2>1. pc[p] \in {"lock", "read"} /\ Goto(p, "hung")
          /\ UNCHANGED <<holder, boot, wait, source, token>>
      BY <1>12 DEF Hang
    <2>2. \A q \in Providers : stalled'[q] <=> stalled[q] \/ q = p \/ pc[q] = "parked"
      BY <1>12 DEF Hang
    <2>3. \A q \in Providers : ~stalled'[q] => age'[q] = age[q]
      BY <1>12 DEF Hang
    <2>. QED BY <2>1, <2>2, <2>3 DEF Hangs
  <1>13. ASSUME NEW o \in Others, OtherCall(o)
         PROVE  Enters(o)
    BY <1>13 DEF OtherCall, Enters
  <1>14. ASSUME NEW o \in Others, OtherFails(o)
         PROVE  Leaves(o)
    BY <1>14 DEF OtherFails, Leaves
  <1>15. ASSUME NEW p \in Providers, Work(p) \/ Hang(p) \/ HangEnds(p)
         PROVE  \E u \in Users : Enters(u) \/ Takes(u) \/ LogsIn(u) \/ Hangs(p) \/ Ends(p)
    BY <1>0, <1>2, <1>3, <1>4, <1>6, <1>7, <1>11, <1>12, <1>15 DEF Work, HangEnds
  <1>16. ASSUME NEW o \in Others, OtherCall(o) \/ OtherWork(o)
         PROVE  \E u \in Users : Enters(u) \/ Takes(u) \/ LogsIn(u) \/ Leaves(u)
    BY <1>0, <1>3, <1>4, <1>13, <1>14, <1>16 DEF OtherWork
  <1>. QED BY <1>1, <1>8, <1>9, <1>10, <1>15, <1>16 DEF Next

\* A resolver that is at work while main is setting up is the one being set up.
LEMMA BootingOnly ==
    ASSUME BootInv, ~Serving, NEW p \in Providers,
           pc[p] \in {"sleep", "lock", "login", "read", "hung"}
    PROVE  p = Order[boot] /\ Booting(p) /\ pc[p] # "sleep"
  BY DEF BootInv, Booting

\* When time passes, nobody is due.
LEMMA TickMoves ==
    ASSUME TypeOK, Tick
    PROVE  /\ UNCHANGED <<holder, boot, pc, source, stalled>>
           /\ \A u \in Users :
                /\ pc[u] \in {"lock", "login", "read"} => spent'[u] = spent[u] + 1
                /\ pc[u] = "lock" => holder # NoOne
                /\ pc[u] \in {"login", "read"} => spent[u] # Timeout
           /\ \A p \in Providers :
                /\ pc[p] = "sleep" => wait[p] >= 1 /\ wait'[p] = wait[p] - 1
                /\ pc[p] # "sleep" => wait'[p] = wait[p]
                /\ pc[p] = "parked" => ~Serving
                /\ Booting(p) => pc[p] # "boot"
                /\ age'[p] \in {age[p], age[p] + 1}
           /\ token'.lease = IF token.lease = 0 THEN 0 ELSE token.lease - 1
  <1>0. Providers \subseteq Users
    BY UsersFinite
  <1>1. UNCHANGED <<holder, boot, pc, source, stalled>>
    BY DEF Tick
  <1>2. token'.lease = IF token.lease = 0 THEN 0 ELSE token.lease - 1
    BY DEF Tick, TypeOK
  <1>3. ASSUME NEW p \in Providers
        PROVE  /\ pc[p] # "sleep" => wait'[p] = wait[p]
               /\ pc[p] = "sleep" => wait'[p] = wait[p] - 1
               /\ age'[p] \in {age[p], age[p] + 1}
    BY DEF Tick
  <1>4. ASSUME NEW u \in Users
        PROVE  pc[u] \in {"lock", "login", "read"} => spent'[u] = spent[u] + 1
    BY DEF Tick
  <1>5. ASSUME NEW u \in Users
        PROVE  /\ pc[u] = "sleep" => wait[u] # 0
               /\ pc[u] = "lock" => holder # NoOne
               /\ pc[u] \in {"login", "read"} => spent[u] # Timeout
               /\ pc[u] = "parked" => ~Serving
               /\ Booting(u) => pc[u] # "boot"
    BY DEF Tick, Due
  <1>6. \A p \in Providers : wait[p] \in Nat
    BY DEF TypeOK
  <1>. QED BY <1>0, <1>1, <1>2, <1>3, <1>4, <1>5, <1>6

-----------------------------------------------------------------------------
(* Each step preserves the types.                                          *)

\* A provider stays a provider, and another user another user.
PcOK ==
    /\ pc \in [Users -> Steps]
    /\ \A p \in Providers : pc[p] # "idle"
    /\ \A o \in Others : pc[o] \in {"idle", "lock", "login"}

\* A move of one user keeps the types of pc and spent.
LEMMA GotoTypes ==
    ASSUME TypeOK, NEW u \in Users, NEW step \in Steps, Goto(u, step),
           u \in Providers => step # "idle",
           u \in Others => step \in {"idle", "lock", "login"}
    PROVE  PcOK' /\ spent' \in [Users -> Nat]
  <1>0. Providers \subseteq Users /\ Others \subseteq Users
    BY UsersFinite
  <1>1. /\ pc' \in [Users -> Steps] /\ spent' \in [Users -> Nat] /\ pc'[u] = step
        /\ \A v \in Users : v # u => pc'[v] = pc[v]
    BY GotoMoves
  <1>2. \A p \in Providers : pc'[p] # "idle"
    BY <1>0, <1>1 DEF TypeOK
  <1>3. \A o \in Others : pc'[o] \in {"idle", "lock", "login"}
    BY <1>0, <1>1 DEF TypeOK
  <1>. QED BY <1>1, <1>2, <1>3 DEF PcOK

\* Types, action by action.
LEMMA StepTypeOK ==
    ASSUME TypeOK, [Next]_vars
    PROVE  TypeOK'
  <1>. USE Constants
  <1>0. /\ Providers \subseteq Users /\ Others \subseteq Users
        /\ \A o \in Others : o \notin Providers
        /\ \A u \in Users : u \notin Others => u \in Providers
    BY UsersFinite
  <1>1. PcOK' <=>
          /\ pc' \in [Users -> {"boot", "off", "parked", "sleep", "lock", "login", "read",
                                "hung", "idle"}]
          /\ \A p \in Providers : pc'[p] # "idle"
          /\ \A o \in Others : pc'[o] \in {"idle", "lock", "login"}
    BY DEF PcOK, Steps
  <1>2. ASSUME NEW p \in Providers, NEW step \in Steps \ {"idle"}, Goto(p, step)
        PROVE  PcOK' /\ spent' \in [Users -> Nat]
    BY <1>0, <1>2, GotoTypes
  <1>3. CASE setupCredential
    <2>1. boot \in 1..N
      BY <1>3 DEF setupCredential, Serving, TypeOK
    <2>2. Goto(Order[boot], "lock") /\ Order[boot] \in Providers
      BY <1>3, <2>1 DEF setupCredential, FetchToken
    <2>3. PcOK' /\ spent' \in [Users -> Nat]
      BY <1>2, <2>2 DEF Steps
    <2>. QED BY <1>1, <1>3, <2>3 DEF setupCredential, TypeOK
  <1>4. ASSUME NEW p \in Providers, Run(p)
        PROVE  TypeOK'
    <2>1. PcOK' /\ spent' \in [Users -> Nat]
      BY <1>2, <1>4 DEF Run, FetchToken, Steps
    <2>. QED BY <1>1, <1>4, <2>1 DEF Run, TypeOK
  <1>5. ASSUME NEW u \in Users, ensureToken(u) \/ login(u)
        PROVE  TypeOK'
    <2>1. PICK step \in {"read", "idle", "login"} :
               Goto(u, step) /\ (u \in Providers => step # "idle")
                             /\ (u \in Others => step # "read")
      BY <1>0, <1>5 DEF ensureToken, login, Use
    <2>2. PcOK' /\ spent' \in [Users -> Nat]
      BY <2>1, GotoTypes DEF Steps
    <2>3. token' \in [lease : 0..Lease, known : BOOLEAN]
      <3>1. token' = token \/ token' = [lease |-> Lease, known |-> TRUE]
        BY <1>5 DEF ensureToken, login
      <3>2. Lease \in 0..Lease
        OBVIOUS
      <3>3. [lease |-> Lease, known |-> TRUE] \in [lease : 0..Lease, known : BOOLEAN]
        BY <3>2
      <3>4. token \in [lease : 0..Lease, known : BOOLEAN]
        BY DEF TypeOK
      <3>. QED BY <3>1, <3>3, <3>4, Zenon
    <2>4. holder' \in Users \cup {NoOne}
      BY <1>5 DEF ensureToken, login, TypeOK
    <2>5. UNCHANGED <<up, secret, boot, wait, key, source, age, stalled, calm>>
      BY <1>5 DEF ensureToken, login
    <2>. QED BY <1>1, <2>2, <2>3, <2>4, <2>5 DEF TypeOK
  <1>6. ASSUME NEW p \in Providers, Booting(p)
        PROVE  boot + 1 \in 1..(N + 1)
    BY <1>6 DEF Booting, Serving, TypeOK
  <1>7. ASSUME NEW p \in Providers, loginFails(p) \/ ReadFails(p) \/ HangFails(p)
        PROVE  TypeOK'
    <2>1. Failed(p) /\ UNCHANGED <<up, secret, token, calm>> /\ holder' \in {holder, NoOne}
      BY <1>7 DEF loginFails, ReadFails, HangFails
    <2>2. PICK step \in {"off", "sleep"} : Goto(p, step)
      BY <2>1 DEF Failed
    <2>3. PcOK' /\ spent' \in [Users -> Nat]
      BY <1>2, <2>2 DEF Steps
    <2>4. boot' \in 1..(N + 1) /\ wait' \in [Providers -> 0..(TTL + Retry)]
      BY <1>6, <2>1 DEF Failed, TypeOK
    <2>5. source' \in [Providers -> BOOLEAN] /\ stalled' \in [Providers -> BOOLEAN]
      BY <2>1 DEF Failed, TypeOK
    <2>6. age' \in [Providers -> 0..(MaxAge + 1)]
      <3>1. 0 \in 0..(MaxAge + 1)
        BY Bounds
      <3>. QED BY <2>1, <3>1 DEF Failed, TypeOK
    <2>7. key' = key /\ holder' \in Users \cup {NoOne}
      BY <2>1 DEF Failed, TypeOK
    <2>. QED BY <1>1, <2>1, <2>3, <2>4, <2>5, <2>6, <2>7 DEF TypeOK
  <1>8. ASSUME NEW p \in Providers, ReadProviderSecret(p)
        PROVE  TypeOK'
    <2>1. Refreshed(p) /\ UNCHANGED <<up, secret, token, holder, calm>>
      BY <1>8 DEF ReadProviderSecret
    <2>2. PICK step \in {"parked", "sleep"} : Goto(p, step)
      BY <2>1 DEF Refreshed
    <2>3. PcOK' /\ spent' \in [Users -> Nat]
      BY <1>2, <2>2 DEF Steps
    <2>4. boot' \in 1..(N + 1)
      BY <1>6, <2>1 DEF Refreshed, TypeOK
    <2>5. wait' \in [Providers -> 0..(TTL + Retry)]
      BY <2>1, Interval DEF Refreshed, TypeOK, IssueToken, IssueProviderTokenResponse
    <2>6. key' \in [Providers -> 0..(MaxRotations + 1)]
      BY <2>1 DEF Refreshed, TypeOK, IssueToken, IssueProviderTokenResponse
    <2>7. source' \in [Providers -> BOOLEAN] /\ stalled' \in [Providers -> BOOLEAN]
      BY <2>1 DEF Refreshed, TypeOK
    <2>8. age' \in [Providers -> 0..(MaxAge + 1)]
      <3>1. 0 \in 0..(MaxAge + 1)
        BY Bounds
      <3>. QED BY <2>1, <3>1 DEF Refreshed, TypeOK
    <2>. QED BY <1>1, <2>1, <2>3, <2>4, <2>5, <2>6, <2>7, <2>8 DEF TypeOK
  <1>9. CASE StartRun
    <2>1. PcOK'
      <3>1. pc' \in [Users -> Steps]
        BY <1>9 DEF StartRun, TypeOK, Steps
      <3>2. \A u \in Users : pc'[u] \in {pc[u], "sleep"} /\ (pc[u] # "parked" => pc'[u] = pc[u])
        BY <1>9 DEF StartRun
      <3>3. \A p \in Providers : pc'[p] # "idle"
        BY <1>0, <3>2 DEF TypeOK
      <3>4. \A o \in Others : pc'[o] \in {"idle", "lock", "login"}
        BY <1>0, <3>2 DEF TypeOK
      <3>. QED BY <3>1, <3>3, <3>4 DEF PcOK
    <2>. QED BY <1>1, <1>9, <2>1 DEF StartRun, TypeOK
  <1>10. CASE Tick
    <2>1. spent' \in [Users -> Nat]
      BY <1>10 DEF Tick, TypeOK
    <2>2. wait' \in [Providers -> 0..(TTL + Retry)]
      <3>1. \A p \in Providers : pc[p] = "sleep" => wait[p] >= 1
        BY <1>10, TickMoves
      <3>. QED BY <1>10, <3>1 DEF Tick, TypeOK
    <2>3. age' \in [Providers -> 0..(MaxAge + 1)]
      <3>1. ASSUME NEW p \in Providers
            PROVE  (IF source[p] /\ ~stalled[p] /\ age[p] <= MaxAge THEN age[p] + 1
                    ELSE age[p]) \in 0..(MaxAge + 1)
        <4>1. MaxAge \in Nat /\ age[p] \in 0..(MaxAge + 1)
          BY Bounds DEF TypeOK
        <4>. QED BY <4>1
      <3>. QED BY <1>10, <3>1 DEF Tick
    <2>4. token' \in [lease : 0..Lease, known : BOOLEAN]
      <3>1. token.lease \in 0..Lease /\ token.known \in BOOLEAN
            /\ token = [lease |-> token.lease, known |-> token.known]
        BY DEF TypeOK
      <3>2. PICK l : l = IF token.lease = 0 THEN 0 ELSE token.lease - 1
        OBVIOUS
      <3>3. l \in 0..Lease
        BY <3>1, <3>2
      <3>4. token' = [token EXCEPT !.lease = l]
        BY <1>10, <3>2 DEF Tick
      <3>. QED BY <3>3, <3>4 DEF TypeOK
    <2>. QED BY <1>10, <2>1, <2>2, <2>3, <2>4 DEF Tick, TypeOK
  <1>11. CASE VaultChanges \/ Calm
    <2>1. up' \in BOOLEAN /\ calm' \in BOOLEAN
      BY <1>11, Zenon DEF VaultChanges, Calm, TypeOK
    <2>2. UNCHANGED <<secret, token, holder, boot, pc, wait, spent, key, source, age, stalled>>
      BY <1>11 DEF VaultChanges, Calm
    <2>. QED BY <2>1, <2>2 DEF TypeOK
  <1>12. ASSUME NEW p \in Providers, Rotate(p)
         PROVE  TypeOK'
    <2>1. secret' \in [Providers -> 0..(MaxRotations + 1)]
      BY <1>12 DEF Rotate, TypeOK
    <2>. QED BY <1>12, <2>1 DEF Rotate, TypeOK
  <1>13. CASE TokenLost
    <2>1. token' \in [lease : 0..Lease, known : BOOLEAN]
      BY <1>13 DEF TokenLost, TypeOK
    <2>. QED BY <1>13, <2>1 DEF TokenLost, TypeOK
  <1>14. CASE Restart
    <2>1. age' \in [Providers -> 0..(MaxAge + 1)]
      <3>1. \A p \in Providers : 0 \in 0..(MaxAge + 1)
        BY Bounds
      <3>. QED BY <1>14, <3>1 DEF Restart
    <2>2. /\ boot' \in 1..(N + 1)
          /\ wait' \in [Providers -> 0..(TTL + Retry)]
          /\ key' \in [Providers -> 0..(MaxRotations + 1)]
          /\ source' \in [Providers -> BOOLEAN]
          /\ stalled' \in [Providers -> BOOLEAN]
      BY <1>14 DEF Restart
    <2>3. spent' \in [Users -> Nat]
      BY <1>14 DEF Restart, TypeOK
    <2>4. PcOK'
      <3>1. pc' \in [Users -> Steps]
        BY <1>14 DEF Restart, TypeOK, Steps
      <3>2. \A p \in Providers : pc'[p] # "idle"
        BY <1>0, <1>14 DEF Restart
      <3>3. \A o \in Others : pc'[o] \in {"idle", "lock", "login"}
        BY <1>0, <1>14 DEF Restart, TypeOK
      <3>. QED BY <3>1, <3>2, <3>3 DEF PcOK
    <2>. QED BY <1>1, <1>14, <2>1, <2>2, <2>3, <2>4 DEF Restart, TypeOK
  <1>15. CASE UNCHANGED vars
    BY <1>15 DEF vars, TypeOK
  <1>16. ASSUME NEW p \in Providers, Hang(p)
         PROVE  TypeOK'
    <2>1. PcOK' /\ spent' \in [Users -> Nat]
      BY <1>2, <1>16 DEF Hang, Steps
    <2>2. stalled' \in [Providers -> BOOLEAN]
      BY <1>16, Zenon DEF Hang, TypeOK
    <2>3. age' \in [Providers -> 0..(MaxAge + 1)]
      <3>1. 0 \in 0..(MaxAge + 1)
        BY Bounds
      <3>. QED BY <1>16, <3>1 DEF Hang, TypeOK
    <2>. QED BY <1>1, <1>16, <2>1, <2>2, <2>3 DEF Hang, TypeOK
  <1>17. ASSUME NEW p \in Providers, LateAnswer(p)
         PROVE  TypeOK'
    <2>1. PICK step \in {"parked", "sleep"} : Goto(p, step)
      BY <1>17 DEF LateAnswer
    <2>2. PcOK' /\ spent' \in [Users -> Nat]
      BY <1>2, <2>1 DEF Steps
    <2>3. boot' \in 1..(N + 1)
      BY <1>6, <1>17 DEF LateAnswer, TypeOK
    <2>4. wait' \in [Providers -> 0..(TTL + Retry)]
      BY <1>17, Interval DEF LateAnswer, TypeOK
    <2>5. key' \in [Providers -> 0..(MaxRotations + 1)]
      <3>1. PICK version \in 1..secret[p] : key' = [key EXCEPT ![p] = version]
        BY <1>17 DEF LateAnswer
      <3>2. version \in 0..(MaxRotations + 1)
        BY <3>1 DEF TypeOK
      <3>. QED BY <3>1, <3>2 DEF TypeOK
    <2>6. source' \in [Providers -> BOOLEAN]
      BY <1>17 DEF LateAnswer, TypeOK
    <2>. QED BY <1>1, <1>17, <2>2, <2>3, <2>4, <2>5, <2>6 DEF LateAnswer, TypeOK
  <1>18. ASSUME NEW o \in Others, OtherCall(o) \/ OtherFails(o)
         PROVE  TypeOK'
    <2>1. PICK step \in {"lock", "idle"} : Goto(o, step)
      BY <1>18 DEF OtherCall, OtherFails
    <2>2. PcOK' /\ spent' \in [Users -> Nat]
      BY <1>0, <2>1, GotoTypes DEF Steps
    <2>. QED BY <1>1, <1>18, <2>2 DEF OtherCall, OtherFails, TypeOK
  <1>19. ASSUME NEW p \in Providers, Work(p) \/ Hang(p) \/ HangEnds(p) \/ Rotate(p)
         PROVE  TypeOK'
    BY <1>0, <1>4, <1>5, <1>7, <1>8, <1>12, <1>16, <1>17, <1>19 DEF Work, HangEnds
  <1>20. ASSUME NEW o \in Others, OtherCall(o) \/ OtherWork(o)
         PROVE  TypeOK'
    BY <1>0, <1>5, <1>18, <1>20 DEF OtherWork
  <1>. QED BY <1>3, <1>9, <1>10, <1>11, <1>13, <1>14, <1>15, <1>19, <1>20 DEF Next

-----------------------------------------------------------------------------
(* The mutex, the boot sequence and the calls to Vault.                    *)

\* The mutex is held exactly through a login.
LEMMA StepMutex ==
    ASSUME TypeOK, MutexInv, [Next]_vars
    PROVE  MutexInv'
  <1>0. NoOne \notin Users /\ Providers \subseteq Users
    BY Constants, UsersFinite
  <1>1. CASE Apart \/ Tick
    BY <1>1 DEF Apart, Tick, MutexInv
  <1>2. CASE StartRun
    BY <1>2 DEF StartRun, MutexInv, TypeOK
  <1>3. CASE Restart
    BY <1>0, <1>3 DEF Restart, MutexInv
  <1>4. ASSUME NEW u \in Users, Enters(u)
        PROVE  MutexInv'
    <2>1. Goto(u, "lock") /\ holder' = holder /\ pc[u] # "login"
      BY <1>4 DEF Enters
    <2>. QED BY <2>1, GotoMoves DEF MutexInv, Steps
  <1>5. ASSUME NEW u \in Users, NEW step \in {"read", "idle"}, Goto(u, step),
               pc[u] = "login" \/ holder = NoOne, holder' = NoOne
        PROVE  MutexInv'
    BY <1>0, <1>5, GotoMoves DEF MutexInv, Steps
  <1>6. ASSUME NEW u \in Users, Takes(u)
        PROVE  MutexInv'
    <2>1. CASE Goto(u, Use(u)) /\ holder' = NoOne
      BY <1>5, <1>6, <2>1 DEF Takes, Use
    <2>2. CASE Goto(u, "login") /\ holder' = u
      BY <1>0, <1>6, <2>2, GotoMoves DEF MutexInv, Steps, Takes
    <2>. QED BY <1>6, <2>1, <2>2 DEF Takes
  <1>7. ASSUME NEW u \in Users, LogsIn(u) \/ Leaves(u)
        PROVE  MutexInv'
    BY <1>5, <1>7 DEF LogsIn, Leaves, Use
  <1>8. ASSUME NEW p \in Providers, Hangs(p) \/ Ends(p)
        PROVE  MutexInv'
    <2>1. PICK step \in {"off", "parked", "sleep", "hung"} : Goto(p, step)
      BY <1>8 DEF Ends, Hangs
    <2>2. pc'[p] = step /\ \A v \in Users : v # p => pc'[v] = pc[v]
      BY <1>0, <2>1, GotoMoves DEF Steps
    <2>3. pc'[p] # "login" /\ holder' = IF pc[p] = "login" THEN NoOne ELSE holder
      BY <1>8, <2>2 DEF Ends, Hangs
    <2>. QED BY <1>0, <2>2, <2>3 DEF MutexInv
  <1>. QED BY <1>1, <1>2, <1>3, <1>4, <1>6, <1>7, <1>8, StepKinds

\* main sets up one provider after the other.
LEMMA StepBoot ==
    ASSUME TypeOK, BootInv, [Next]_vars
    PROVE  BootInv'
  <1>. USE Constants
  <1>0. /\ boot \in 1..(N + 1) /\ Providers \subseteq Users
        /\ \A u \in Users : u \notin Others => u \in Providers
        /\ \A o \in Others : o \notin Providers
    BY UsersFinite DEF TypeOK
  <1>1. CASE Apart \/ Tick
    BY <1>1 DEF Apart, Tick, BootInv, Serving
  <1>2. CASE StartRun
    BY <1>2 DEF StartRun, BootInv, Serving
  <1>3. CASE Restart
    <2>1. boot' = 1 /\ \A p \in Providers : pc'[p] = "boot"
      BY <1>0, <1>3 DEF Restart
    <2>. QED BY <2>1 DEF BootInv, Serving
  <1>4. ASSUME NEW p \in Providers, NEW step \in {"lock", "login", "read", "hung"},
               Goto(p, step), boot' = boot, ~Serving => p = Order[boot]
        PROVE  BootInv'
    <2>1. SUFFICES ASSUME ~Serving PROVE BootInv'
      BY <1>4 DEF BootInv, Serving
    <2>2. boot \in 1..N /\ p = Order[boot]
      BY <1>0, <1>4, <2>1 DEF Serving
    <2>3. pc'[p] = step /\ \A q \in Providers : q # p => pc'[q] = pc[q]
      BY <1>0, <1>4, GotoMoves DEF Steps
    <2>4. \A i \in 1..N : i > boot => Order[i] # p /\ Order[i] \in Providers
      BY <2>2
    <2>. QED BY <1>4, <2>1, <2>2, <2>3, <2>4 DEF BootInv, Serving
  <1>5. ASSUME NEW p \in Providers, pc[p] \in {"sleep", "lock", "login", "read"}, ~Serving
        PROVE  p = Order[boot] /\ pc[p] # "sleep"
    BY <1>5, BootingOnly
  <1>6. ASSUME NEW p \in Providers, Enters(p) \/ Takes(p) \/ LogsIn(p) \/ Hangs(p)
        PROVE  BootInv'
    <2>1. \E step \in {"lock", "login", "read", "hung"} : Goto(p, step)
      BY <1>6 DEF Enters, Takes, LogsIn, Hangs, Use
    <2>2. boot' = boot
      BY <1>6 DEF Enters, Takes, LogsIn, Hangs
    <2>3. ~Serving => p = Order[boot]
      BY <1>0, <1>5, <1>6 DEF Enters, Takes, LogsIn, Hangs
    <2>. QED BY <1>4, <2>1, <2>2, <2>3
  <1>7. ASSUME NEW p \in Providers, Ends(p)
        PROVE  BootInv'
    <2>1. CASE Serving
      <3>1. boot' = boot
        BY <1>7, <2>1 DEF Ends, Booting
      <3>. QED BY <2>1, <3>1 DEF BootInv, Serving
    <2>2. CASE ~Serving
      <3>1. p = Order[boot] /\ Booting(p) /\ boot \in 1..N
        BY <1>0, <1>7, <2>2, BootingOnly DEF Ends, Serving
      <3>2. PICK step \in {"off", "parked"} : Goto(p, step)
        BY <1>7, <3>1 DEF Ends
      <3>3. boot' = boot + 1
        BY <1>7, <3>1 DEF Ends
      <3>4. pc'[p] = step /\ \A q \in Providers : q # p => pc'[q] = pc[q]
        BY <1>0, <3>2, GotoMoves DEF Steps
      <3>5. \A i \in 1..N : i > boot => Order[i] # p /\ Order[i] \in Providers /\ pc[Order[i]] = "boot"
        BY <2>2, <3>1 DEF BootInv
      <3>6. \A i \in 1..N : i > boot => pc'[Order[i]] = "boot"
        BY <3>4, <3>5
      <3>7. \A q \in Providers : pc'[q] \in {"boot", "off", "parked"}
        BY <2>2, <3>1, <3>4 DEF BootInv
      <3>8. boot' # N + 1 => boot' \in 1..N /\ boot' > boot
        BY <3>1, <3>3
      <3>. QED BY <3>1, <3>3, <3>6, <3>7, <3>8 DEF BootInv, Serving
    <2>. QED BY <2>1, <2>2
  <1>8. ASSUME NEW o \in Others, o \in Users, Enters(o) \/ Takes(o) \/ LogsIn(o) \/ Leaves(o)
        PROVE  BootInv'
    <2>1. PICK step \in {"lock", "login", "read", "idle"} : Goto(o, step)
      BY <1>8 DEF Enters, Takes, LogsIn, Leaves, Use
    <2>2. boot' = boot
      BY <1>8 DEF Enters, Takes, LogsIn, Leaves
    <2>3. \A q \in Providers : pc'[q] = pc[q]
      BY <1>0, <1>8, <2>1, GotoMoves DEF Steps
    <2>4. ~Serving => boot \in 1..N
      BY <1>0 DEF Serving
    <2>. QED BY <2>2, <2>3, <2>4 DEF BootInv, Serving
  <1>9. ASSUME NEW u \in Users, Leaves(u)
        PROVE  u \in Others
    BY <1>9 DEF Leaves
  <1>10. ASSUME NEW u \in Users, Enters(u) \/ Takes(u) \/ LogsIn(u) \/ Leaves(u)
         PROVE  BootInv'
    BY <1>0, <1>6, <1>8, <1>9, <1>10
  <1>. QED BY <1>1, <1>2, <1>3, <1>6, <1>7, <1>10, StepKinds

\* Calls end in time, and while the token is good.
LEMMA StepCall ==
    ASSUME TypeOK, CallInv, [Next]_vars
    PROVE  CallInv'
  <1>. USE Constants
  <1>0. /\ token.lease \in 0..Lease
        /\ \A v \in Users : spent[v] \in Nat
        /\ Providers \subseteq Users
    BY UsersFinite DEF TypeOK
  <1>1. CASE Apart
    BY <1>1 DEF Apart, CallInv
  <1>2. CASE Tick
    <2>1. SUFFICES ASSUME NEW p \in Users, pc'[p] \in {"login", "read"}
                   PROVE  /\ spent'[p] <= Timeout
                          /\ pc'[p] = "read" => token'.lease + spent'[p] > Timeout
      BY DEF CallInv
    <2>2. pc[p] \in {"login", "read"} /\ pc'[p] = pc[p]
      BY <1>2, <2>1, TickMoves
    <2>3. spent[p] # Timeout /\ spent'[p] = spent[p] + 1
      BY <1>2, <2>2, TickMoves
    <2>4. spent[p] <= Timeout /\ (pc[p] = "read" => token.lease + spent[p] > Timeout)
      BY <2>2 DEF CallInv
    <2>5. token'.lease = IF token.lease = 0 THEN 0 ELSE token.lease - 1
      BY <1>2, TickMoves
    <2>. QED BY <1>0, <2>2, <2>3, <2>4, <2>5
  <1>3. CASE StartRun
    <2>1. ASSUME NEW u \in Users, pc'[u] \in {"login", "read"}
          PROVE  pc'[u] = pc[u]
      BY <1>3, <2>1 DEF StartRun
    <2>2. UNCHANGED <<token, spent>>
      BY <1>3 DEF StartRun
    <2>. QED BY <2>1, <2>2 DEF CallInv
  <1>4. CASE Restart
    <2>1. ASSUME NEW u \in Users, pc'[u] \in {"login", "read"}
          PROVE  pc'[u] = pc[u] /\ spent'[u] = spent[u]
      BY <1>4, <2>1 DEF Restart
    <2>2. token' = token
      BY <1>4 DEF Restart
    <2>. QED BY <2>1, <2>2 DEF CallInv
  <1>5. ASSUME NEW p \in Users, NEW step \in Steps, Goto(p, step),
               step = "read" => token'.lease > Timeout,
               token'.lease = token.lease \/ token'.lease = Lease
        PROVE  CallInv'
    <2>1. pc'[p] = step /\ spent'[p] = 0
      BY <1>5, GotoMoves
    <2>2. \A q \in Users : q # p => pc'[q] = pc[q] /\ spent'[q] = spent[q]
      BY <1>5, GotoMoves
    <2>3. token'.lease \in 0..Lease /\ token'.lease >= token.lease
      BY <1>0, <1>5
    <2>4. ASSUME NEW q \in Users, q # p
          PROVE  /\ pc'[q] \in {"login", "read"} => spent'[q] <= Timeout
                 /\ pc'[q] = "read" => token'.lease + spent'[q] > Timeout
      <3>1. /\ pc[q] \in {"login", "read"} => spent[q] <= Timeout
            /\ pc[q] = "read" => token.lease + spent[q] > Timeout
        BY DEF CallInv
      <3>. QED BY <1>0, <2>2, <2>3, <2>4, <3>1
    <2>. QED BY <1>5, <2>1, <2>3, <2>4 DEF CallInv
  <1>6. ASSUME NEW u \in Users, Enters(u) \/ Takes(u) \/ LogsIn(u) \/ Leaves(u)
        PROVE  CallInv'
    <2>1. CASE Enters(u)
      BY <1>5, <2>1 DEF Enters, Steps
    <2>2. CASE Takes(u)
      <3>1. token' = token
        BY <2>2 DEF Takes
      <3>2. CASE Goto(u, Use(u)) /\ token.lease > Buffer
        BY <1>0, <1>5, <3>1, <3>2 DEF Steps, Use
      <3>3. CASE Goto(u, "login")
        BY <1>5, <3>1, <3>3 DEF Steps
      <3>. QED BY <2>2, <3>2, <3>3 DEF Takes
    <2>3. CASE LogsIn(u)
      BY <1>5, <2>3 DEF LogsIn, Steps, Use
    <2>4. CASE Leaves(u)
      BY <1>5, <2>4 DEF Leaves, Steps
    <2>. QED BY <1>6, <2>1, <2>2, <2>3, <2>4
  <1>7. ASSUME NEW p \in Providers, Hangs(p) \/ Ends(p)
        PROVE  CallInv'
    <2>1. PICK step \in {"off", "parked", "sleep", "hung"} : Goto(p, step)
      BY <1>7 DEF Ends, Hangs
    <2>2. token' = token
      BY <1>7 DEF Ends, Hangs
    <2>. QED BY <1>0, <1>5, <2>1, <2>2 DEF Steps
  <1>. QED BY <1>1, <1>2, <1>3, <1>4, <1>6, <1>7, StepKinds

-----------------------------------------------------------------------------
(* The wait for the mutex.                                                 *)

\* Those ahead of p are finitely many, and p is not among them.
LEMMA AheadFinite ==
    ASSUME NEW A, NEW p \in Users, A \subseteq Users \ {p}
    PROVE  /\ IsFiniteSet(A)
           /\ Cardinality(A) \in Nat
           /\ Cardinality(A) <= U - 1
  <1>1. IsFiniteSet(Users) /\ U = Cardinality(Users)
    BY UsersFinite DEF U
  <1>2. IsFiniteSet(Users \ {p}) /\ Cardinality(Users \ {p}) = U - 1
    BY <1>1, FS_RemoveElement
  <1>3. A \in SUBSET (Users \ {p})
    OBVIOUS
  <1>4. IsFiniteSet(A) /\ Cardinality(A) <= U - 1
    BY <1>2, <1>3, FS_Subset
  <1>. QED BY <1>4, FS_CardinalityType

\* Multiplying by the same time keeps an order of counts.
LEMMA TimesMonotone ==
    ASSUME NEW a \in Int, NEW b \in Int, a <= b
    PROVE  a * Timeout <= b * Timeout
  <1>1. Timeout \in Nat
    BY Constants
  <1>2. PICK d \in Nat : b = a + d
    <2>1. b - a \in Nat /\ b = a + (b - a)
      OBVIOUS
    <2>. QED BY <2>1
  <1>3. d * Timeout \in Nat /\ b * Timeout = a * Timeout + d * Timeout
    BY <1>1, <1>2
  <1>. QED BY <1>1, <1>3

\* Whoever has just come waits for one login of each of the others at most.
LEMMA FreshWait ==
    ASSUME NEW p \in Users, NEW A, A \subseteq Users \ {p},
           NEW h \in Users \cup {NoOne}, h # p, h \notin A,
           NEW left \in Int, left <= IF h = NoOne THEN 0 ELSE Timeout
    PROVE  Cardinality(A) * Timeout + left <= (U - 1) * Timeout
  <1>. USE Constants, UsersFinite
  <1>1. IsFiniteSet(A) /\ Cardinality(A) \in Nat /\ Cardinality(A) <= U - 1
    BY AheadFinite
  <1>2. CASE h = NoOne
    <2>1. Cardinality(A) * Timeout <= (U - 1) * Timeout
      BY <1>1, TimesMonotone
    <2>. QED BY <1>1, <1>2, <2>1
  <1>3. CASE h # NoOne
    <2>1. A \cup {h} \subseteq Users \ {p}
      BY <1>3
    <2>2. Cardinality(A \cup {h}) = Cardinality(A) + 1
      BY <1>1, FS_AddElement
    <2>3. Cardinality(A) + 1 <= U - 1
      BY <2>1, <2>2, AheadFinite
    <2>4. (Cardinality(A) + 1) * Timeout <= (U - 1) * Timeout
      BY <1>1, <2>3, TimesMonotone
    <2>5. (Cardinality(A) + 1) * Timeout = Cardinality(A) * Timeout + Timeout
      BY <1>1
    <2>6. PICK c \in Int : c = Cardinality(A) * Timeout
      BY <1>1
    <2>7. PICK n \in Int : n = (U - 1) * Timeout
      OBVIOUS
    <2>. QED BY <1>3, <2>4, <2>5, <2>6, <2>7
  <1>. QED BY <1>2, <1>3

\* The login under way has at most Timeout to go.
LEMMA LoginLeftBound ==
    ASSUME TypeOK, MutexInv, CallInv
    PROVE  /\ LoginLeft \in Nat
           /\ LoginLeft <= IF holder = NoOne THEN 0 ELSE Timeout
  <1>1. CASE holder = NoOne
    BY <1>1 DEF LoginLeft
  <1>2. CASE holder # NoOne
    <2>1. holder \in Users
      BY <1>2 DEF TypeOK
    <2>2. pc[holder] = "login"
      BY <2>1 DEF MutexInv
    <2>3. spent[holder] \in Nat /\ spent[holder] <= Timeout
      BY <2>1, <2>2 DEF TypeOK, CallInv
    <2>. QED BY <1>2, <2>3, Constants DEF LoginLeft
  <1>. QED BY <1>1, <1>2

\* The bound for p is kept when nobody comes ahead of it and nobody starts a login.
LEMMA QueueShrinks ==
    ASSUME TypeOK, QueueInv, NEW p \in Users, pc[p] = "lock",
           spent'[p] = spent[p], Ahead(p)' \subseteq Ahead(p),
           LoginLeft \in Nat, LoginLeft' \in Nat, LoginLeft' <= LoginLeft
    PROVE  spent'[p] + Cardinality(Ahead(p))' * Timeout + LoginLeft' <= (U - 1) * Timeout
  <1>0. Ahead(p) \subseteq Users \ {p}
    BY DEF Ahead
  <1>. USE Constants, UsersFinite
  <1>1. PICK A : A = Ahead(p) /\ A \subseteq Users \ {p}
    BY <1>0, Zenon
  <1>2. PICK B : B = Ahead(p)' /\ B \subseteq A
    BY <1>1
  <1>3. IsFiniteSet(A) /\ Cardinality(A) \in Nat /\ Cardinality(B) \in Nat
    BY <1>1, <1>2, AheadFinite
  <1>4. spent[p] \in Nat
    BY DEF TypeOK
  <1>5. spent[p] + Cardinality(A) * Timeout + LoginLeft <= (U - 1) * Timeout
    BY <1>1 DEF QueueInv
  <1>6. PICK c \in Int : c = Cardinality(A) * Timeout
    BY <1>3
  <1>7. PICK n \in Int : n = (U - 1) * Timeout
    OBVIOUS
  <1>8. PICK d \in Int : d = Cardinality(B) * Timeout
    BY <1>3
  <1>9. d <= c
    <2>1. B \in SUBSET A
      BY <1>2
    <2>2. Cardinality(B) <= Cardinality(A)
      BY <1>3, <2>1, FS_Subset
    <2>. QED BY <1>3, <1>6, <1>8, <2>2, TimesMonotone
  <1>10. spent'[p] + d + LoginLeft' <= n
    BY <1>4, <1>5, <1>6, <1>7, <1>9
  <1>. QED BY <1>2, <1>7, <1>8, <1>10

\* The same, when those ahead stay.
LEMMA QueueFrame ==
    ASSUME TypeOK, QueueInv, NEW p \in Users, pc[p] = "lock",
           spent'[p] = spent[p], Ahead(p)' = Ahead(p),
           LoginLeft \in Nat, LoginLeft' \in Nat, LoginLeft' <= LoginLeft
    PROVE  spent'[p] + Cardinality(Ahead(p))' * Timeout + LoginLeft' <= (U - 1) * Timeout
  BY QueueShrinks

\* Nobody is ahead of itself.
LEMMA AheadOthers ==
    \A p \in Users : Ahead(p) \subseteq Users \ {p} /\ Ahead(p)' \subseteq Users \ {p}
  BY DEF Ahead

\* The login under way, after a step.
LEMMA LoginLeftNext ==
    ASSUME TypeOK', MutexInv', CallInv'
    PROVE  /\ LoginLeft' \in Nat
           /\ LoginLeft' <= IF holder' = NoOne THEN 0 ELSE Timeout
  <1>1. CASE holder' = NoOne
    BY <1>1 DEF LoginLeft
  <1>2. CASE holder' # NoOne
    <2>1. holder' \in Users
      BY <1>2 DEF TypeOK
    <2>2. pc'[holder'] = "login"
      BY <2>1 DEF MutexInv
    <2>3. spent'[holder'] \in Nat /\ spent'[holder'] <= Timeout
      BY <2>1, <2>2 DEF TypeOK, CallInv
    <2>. QED BY <1>2, <2>3, Constants DEF LoginLeft
  <1>. QED BY <1>1, <1>2

\* The wait for the mutex stays bounded.
LEMMA StepQueue ==
    ASSUME TypeOK, MutexInv, CallInv, QueueInv, TypeOK', MutexInv', CallInv', [Next]_vars
    PROVE  QueueInv'
  <1>. USE Constants, UsersFinite
  <1>0. SUFFICES ASSUME NEW p \in Users, pc'[p] = "lock"
                 PROVE  spent'[p] + Cardinality(Ahead(p))' * Timeout + LoginLeft'
                          <= (U - 1) * Timeout
    BY DEF QueueInv
  <1>1. /\ LoginLeft \in Nat /\ LoginLeft' \in Nat
        /\ LoginLeft' <= IF holder' = NoOne THEN 0 ELSE Timeout
    BY LoginLeftBound, LoginLeftNext
  <1>2. \A q \in Users : spent[q] \in Nat /\ spent'[q] \in Nat
    BY DEF TypeOK
  <1>3. CASE Apart
    <2>1. UNCHANGED <<pc, spent, holder>>
      BY <1>3 DEF Apart
    <2>2. Ahead(p)' = Ahead(p) /\ LoginLeft' = LoginLeft
      BY <2>1 DEF Ahead, LoginLeft
    <2>3. pc[p] = "lock" /\ spent'[p] = spent[p] /\ LoginLeft' <= LoginLeft
      BY <1>0, <1>1, <2>1, <2>2
    <2>. QED BY <1>1, <2>2, <2>3, QueueFrame
  <1>4. CASE StartRun
    <2>1. UNCHANGED <<spent, holder>> /\ \A q \in Users : pc'[q] = "lock" <=> pc[q] = "lock"
      BY <1>4 DEF StartRun
    <2>2. Ahead(p)' = Ahead(p) /\ LoginLeft' = LoginLeft
      BY <2>1 DEF Ahead, LoginLeft
    <2>3. pc[p] = "lock" /\ spent'[p] = spent[p] /\ LoginLeft' <= LoginLeft
      BY <1>0, <1>1, <2>1, <2>2
    <2>. QED BY <1>1, <2>2, <2>3, QueueFrame
  <1>5. CASE Tick
    <2>1. pc' = pc /\ holder' = holder /\ pc[p] = "lock" /\ holder # NoOne
      BY <1>0, <1>5, TickMoves
    <2>2. \A q \in Users : pc[q] \in {"lock", "login"} => spent'[q] = spent[q] + 1
      BY <1>5, TickMoves
    <2>3. Ahead(p)' = Ahead(p)
      <3>1. \A q \in Users : pc[q] = "lock" => (spent'[q] >= spent'[p] <=> spent[q] >= spent[p])
        BY <1>2, <2>1, <2>2
      <3>. QED BY <2>1, <3>1 DEF Ahead
    <2>4. holder \in Users /\ pc[holder] = "login"
      BY <2>1 DEF TypeOK, MutexInv
    <2>5. LoginLeft' = LoginLeft - 1
      BY <1>2, <2>1, <2>2, <2>4 DEF LoginLeft
    <2>6. PICK A : A = Ahead(p) /\ A \subseteq Users \ {p} /\ A = Ahead(p)'
      BY <2>3 DEF Ahead
    <2>7. Cardinality(A) \in Nat
      BY <2>6, AheadFinite
    <2>8. spent[p] + Cardinality(A) * Timeout + LoginLeft <= (U - 1) * Timeout
      BY <2>1, <2>6 DEF QueueInv
    <2>9. PICK c \in Int : c = Cardinality(A) * Timeout
      BY <2>7
    <2>10. PICK n \in Int : n = (U - 1) * Timeout
      OBVIOUS
    <2>11. spent'[p] + c + LoginLeft' <= n
      BY <1>1, <1>2, <2>1, <2>2, <2>5, <2>8, <2>9, <2>10
    <2>. QED BY <2>6, <2>9, <2>10, <2>11
  <1>6. CASE Restart
    <2>1. \A v \in Users : pc'[v] = "lock" => pc[v] = "lock" /\ spent'[v] = spent[v]
      BY <1>6 DEF Restart
    <2>2. pc[p] = "lock" /\ spent'[p] = spent[p] /\ Ahead(p)' \subseteq Ahead(p)
      BY <1>0, <2>1 DEF Ahead
    <2>3. LoginLeft' = LoginLeft
      <3>1. holder' = holder /\ holder \notin Providers
        BY <1>6 DEF Restart
      <3>2. holder \in Users => spent'[holder] = spent[holder]
        BY <1>6, <3>1 DEF Restart
      <3>. QED BY <3>1, <3>2 DEF LoginLeft, TypeOK
    <2>4. LoginLeft' <= LoginLeft
      BY <1>1, <2>3
    <2>. QED BY <1>1, <2>2, <2>4, QueueShrinks
  <1>7. ASSUME NEW q \in Users, Enters(q)
        PROVE  spent'[p] + Cardinality(Ahead(p))' * Timeout + LoginLeft' <= (U - 1) * Timeout
    <2>1. pc[q] \in {"boot", "sleep", "idle"} /\ Goto(q, "lock") /\ holder' = holder
      BY <1>7 DEF Enters
    <2>2. /\ pc'[q] = "lock" /\ spent'[q] = 0
          /\ \A r \in Users : r # q => pc'[r] = pc[r] /\ spent'[r] = spent[r]
      BY <2>1, GotoMoves DEF Steps
    <2>3. CASE spent'[p] = 0
      <3>1. PICK A : A = Ahead(p)' /\ A \subseteq Users \ {p}
        BY AheadOthers
      <3>2. holder' \in Users => pc'[holder'] = "login"
        BY DEF MutexInv
      <3>3. holder' # p /\ holder' \notin A
        BY <1>0, <3>1, <3>2 DEF Ahead
      <3>4. PICK h \in Users \cup {NoOne} : h = holder'
        BY DEF TypeOK
      <3>5. PICK left \in Nat : left = LoginLeft'
        BY <1>1
      <3>6. Cardinality(A) * Timeout + left <= (U - 1) * Timeout
        <4>1. left \in Int /\ left <= IF h = NoOne THEN 0 ELSE Timeout
          BY <1>1, <3>4, <3>5
        <4>2. h # p /\ h \notin A
          BY <3>3, <3>4
        <4>. QED BY <3>1, <4>1, <4>2, FreshWait
      <3>7. Cardinality(A) \in Nat
        BY <3>1, AheadFinite
      <3>8. PICK c \in Int : c = Cardinality(A) * Timeout
        BY <3>7
      <3>9. 0 + c + left <= (U - 1) * Timeout
        BY <3>6, <3>8
      <3>. QED BY <2>3, <3>1, <3>5, <3>8, <3>9
    <2>4. CASE spent'[p] # 0
      <3>1. p # q /\ spent[p] > 0 /\ spent'[p] = spent[p] /\ pc[p] = "lock"
        BY <1>0, <1>2, <2>2, <2>4
      <3>2. Ahead(p)' = Ahead(p)
        <4>1. ~(spent'[q] >= spent'[p]) /\ pc[q] # "lock"
          BY <1>2, <2>1, <2>2, <3>1
        <4>. QED BY <2>2, <3>1, <4>1 DEF Ahead
      <3>3. holder # q
        BY <2>1 DEF MutexInv
      <3>4. LoginLeft' = LoginLeft
        BY <2>1, <2>2, <3>3 DEF LoginLeft, TypeOK
      <3>5. LoginLeft' <= LoginLeft
        BY <1>1, <3>4
      <3>. QED BY <1>1, <3>1, <3>2, <3>5, QueueFrame
    <2>. QED BY <2>3, <2>4
  <1>8. ASSUME NEW q \in Users, Takes(q)
        PROVE  spent'[p] + Cardinality(Ahead(p))' * Timeout + LoginLeft' <= (U - 1) * Timeout
    <2>1. /\ pc[q] = "lock" /\ holder = NoOne /\ Longest(q)
          /\ \E step \in {"login", "read", "idle"} : Goto(q, step)
      BY <1>8 DEF Takes, Use
    <2>2. PICK step \in {"login", "read", "idle"} : Goto(q, step)
      BY <2>1
    <2>3. /\ pc'[q] = step
          /\ \A r \in Users : r # q => pc'[r] = pc[r] /\ spent'[r] = spent[r]
      BY <2>2, GotoMoves DEF Steps
    <2>4. p # q /\ pc[p] = "lock" /\ spent'[p] = spent[p] /\ spent[q] >= spent[p]
      BY <1>0, <1>2, <2>1, <2>3 DEF Longest
    <2>5. PICK A : A = Ahead(p) /\ A \subseteq Users \ {p}
      BY AheadOthers
    <2>6. q \in A /\ Ahead(p)' = A \ {q}
      BY <2>1, <2>3, <2>4, <2>5 DEF Ahead
    <2>7. IsFiniteSet(A) /\ Cardinality(A) \in Nat
      BY <2>5, AheadFinite
    <2>8. Cardinality(A \ {q}) = Cardinality(A) - 1
      BY <2>6, <2>7, FS_RemoveElement
    <2>9. spent[p] + Cardinality(A) * Timeout + LoginLeft <= (U - 1) * Timeout
      BY <2>4, <2>5 DEF QueueInv
    <2>10. PICK c \in Nat : c = Cardinality(A)
      BY <2>7
    <2>11. (c - 1) * Timeout = c * Timeout - Timeout
      <3>1. Timeout \in Int /\ c \in Int
        OBVIOUS
      <3>. QED BY <3>1
    <2>12. PICK d \in Int : d = c * Timeout
      OBVIOUS
    <2>13. PICK n \in Int : n = (U - 1) * Timeout
      OBVIOUS
    <2>14. LoginLeft = 0 /\ LoginLeft' <= Timeout
      BY <1>1, <2>1 DEF LoginLeft
    <2>15. spent'[p] + (d - Timeout) + LoginLeft' <= n
      BY <1>1, <1>2, <2>4, <2>9, <2>10, <2>12, <2>13, <2>14
    <2>16. Cardinality(Ahead(p))' = c - 1
      BY <2>6, <2>8, <2>10
    <2>. QED BY <2>11, <2>12, <2>13, <2>15, <2>16
  <1>9. ASSUME NEW q \in Users, LogsIn(q) \/ Leaves(q) \/ Ends(q)
        PROVE  spent'[p] + Cardinality(Ahead(p))' * Timeout + LoginLeft' <= (U - 1) * Timeout
    <2>1. /\ pc[q] \in {"login", "read", "hung"}
          /\ \E step \in {"off", "parked", "sleep", "read", "idle"} : Goto(q, step)
      BY <1>9 DEF LogsIn, Leaves, Ends, Use
    <2>2. PICK step \in {"off", "parked", "sleep", "read", "idle"} : Goto(q, step)
      BY <2>1
    <2>3. /\ pc'[q] = step
          /\ \A r \in Users : r # q => pc'[r] = pc[r] /\ spent'[r] = spent[r]
      BY <2>2, GotoMoves DEF Steps
    <2>4. p # q /\ pc[p] = "lock" /\ spent'[p] = spent[p]
      BY <1>0, <2>3
    <2>5. Ahead(p)' = Ahead(p)
      BY <2>1, <2>3, <2>4 DEF Ahead
    <2>6. LoginLeft' <= LoginLeft
      <3>1. CASE holder' = NoOne
        BY <1>1, <3>1 DEF LoginLeft
      <3>2. CASE holder' # NoOne
        <4>1. pc[q] \in {"read", "hung"} /\ holder' = holder
          BY <1>9, <3>2 DEF LogsIn, Leaves, Ends
        <4>2. holder # q
          BY <4>1 DEF MutexInv
        <4>3. LoginLeft' = LoginLeft
          BY <2>3, <4>1, <4>2 DEF LoginLeft, TypeOK
        <4>. QED BY <1>1, <4>3
      <3>. QED BY <3>1, <3>2
    <2>. QED BY <1>1, <2>4, <2>5, <2>6, QueueFrame
  <1>10. ASSUME NEW q \in Users, Hangs(q)
         PROVE  spent'[p] + Cardinality(Ahead(p))' * Timeout + LoginLeft' <= (U - 1) * Timeout
    <2>1. /\ pc'[q] = "hung"
          /\ \A r \in Users : r # q => pc'[r] = pc[r] /\ spent'[r] = spent[r]
      BY <1>10, GotoMoves DEF Hangs, Steps
    <2>2. p # q /\ pc[p] = "lock" /\ spent'[p] = spent[p]
      BY <1>0, <2>1
    <2>3. Ahead(p)' \subseteq Ahead(p)
      BY <2>1, <2>2 DEF Ahead
    <2>4. holder' = holder /\ holder # q
      BY <1>10 DEF Hangs, MutexInv
    <2>5. LoginLeft' = LoginLeft
      BY <2>1, <2>4 DEF LoginLeft, TypeOK
    <2>6. LoginLeft' <= LoginLeft
      BY <1>1, <2>5
    <2>. QED BY <1>1, <2>2, <2>3, <2>6, QueueShrinks
  <1>. QED BY <1>3, <1>4, <1>5, <1>6, <1>7, <1>8, <1>9, <1>10, StepKinds

-----------------------------------------------------------------------------
(* The age of the keys.                                                    *)

\* What p has waited for the mutex, at most.
LEMMA LockWait ==
    ASSUME TypeOK, MutexInv, CallInv, QueueInv, NEW p \in Users, pc[p] = "lock"
    PROVE  spent[p] <= (U - 1) * Timeout
  <1>. USE Constants, UsersFinite
  <1>1. PICK A : A = Ahead(p) /\ A \subseteq Users \ {p}
    BY AheadOthers
  <1>2. PICK c \in Nat : c = Cardinality(A)
    BY <1>1, AheadFinite
  <1>3. PICK d \in Nat : d = c * Timeout
    OBVIOUS
  <1>4. LoginLeft \in Nat /\ spent[p] \in Nat
    BY LoginLeftBound DEF TypeOK
  <1>5. PICK n \in Int : n = (U - 1) * Timeout
    OBVIOUS
  <1>6. spent[p] + d + LoginLeft <= n
    BY <1>1, <1>2, <1>3, <1>5 DEF QueueInv
  <1>. QED BY <1>3, <1>4, <1>5, <1>6

\* A hung call marks the keys that wait for it, until they are refreshed.
LEMMA StepStall ==
    ASSUME TypeOK, BootInv, StallInv, [Next]_vars
    PROVE  StallInv'
  <1>0. Providers \subseteq Users
    BY UsersFinite
  <1>1. CASE Apart
    BY <1>1 DEF Apart, StallInv, Serving
  <1>2. CASE Tick
    BY <1>2 DEF Tick, StallInv, Serving
  <1>3. CASE StartRun
    <2>1. \A p \in Providers : pc'[p] = "hung" => pc[p] = "hung"
      BY <1>0, <1>3 DEF StartRun
    <2>2. stalled' = stalled /\ Serving'
      BY <1>3 DEF StartRun, Serving
    <2>. QED BY <2>1, <2>2 DEF StallInv
  <1>4. CASE Restart
    <2>1. \A p \in Providers : pc'[p] = "boot"
      BY <1>0, <1>4 DEF Restart
    <2>. QED BY <2>1 DEF StallInv
  <1>5. ASSUME NEW u \in Users, Enters(u) \/ Takes(u) \/ LogsIn(u) \/ Leaves(u)
        PROVE  StallInv'
    <2>1. PICK step \in {"lock", "login", "read", "idle"} : Goto(u, step)
      BY <1>5 DEF Enters, Takes, LogsIn, Leaves, Use
    <2>2. stalled' = stalled /\ boot' = boot
      BY <1>5 DEF Enters, Takes, LogsIn, Leaves
    <2>3. pc'[u] = step /\ \A p \in Providers : p # u => pc'[p] = pc[p]
      BY <1>0, <2>1, GotoMoves DEF Steps
    <2>4. \A p \in Providers : pc'[p] \in {"hung", "parked"} => pc'[p] = pc[p]
      BY <2>3
    <2>. QED BY <2>2, <2>4 DEF StallInv, Serving
  <1>6. ASSUME NEW q \in Providers, Hangs(q)
        PROVE  StallInv'
    <2>1. pc'[q] = "hung" /\ \A p \in Providers : p # q => pc'[p] = pc[p]
      BY <1>0, <1>6, GotoMoves DEF Hangs, Steps
    <2>2. \A p \in Providers : stalled'[p] <=> stalled[p] \/ p = q \/ pc[p] = "parked"
      BY <1>6 DEF Hangs
    <2>3. \A p \in Providers : pc'[p] = "hung" => stalled'[p]
      BY <2>1, <2>2 DEF StallInv
    <2>4. \A p \in Providers : pc'[p] = "parked" => stalled'[p]
      BY <2>1, <2>2
    <2>. QED BY <2>3, <2>4 DEF StallInv
  <1>7. ASSUME NEW q \in Providers, Ends(q)
        PROVE  StallInv'
    <2>1. SUFFICES ASSUME NEW p \in Providers, pc'[p] = "hung"
                   PROVE  /\ stalled'[p]
                          /\ ~Serving' => \A r \in Providers : pc'[r] = "parked" => stalled'[r]
      BY DEF StallInv
    <2>2. PICK step \in {"off", "parked", "sleep"} : Goto(q, step)
      BY <1>7 DEF Ends
    <2>3. pc'[q] = step /\ \A r \in Providers : r # q => pc'[r] = pc[r]
      BY <1>0, <2>2, GotoMoves DEF Steps
    <2>4. p # q /\ pc[p] = "hung"
      BY <2>1, <2>3
    <2>5. stalled'[p]
      BY <1>7, <2>4 DEF Ends, StallInv
    <2>6. Serving
      <3>1. SUFFICES ASSUME ~Serving PROVE FALSE
        OBVIOUS
      <3>2. p = Order[boot]
        BY <2>4, <3>1, BootingOnly
      <3>3. q = Order[boot]
        BY <1>7, <3>1, BootingOnly DEF Ends
      <3>. QED BY <2>4, <3>2, <3>3
    <2>7. Serving'
      BY <1>7, <2>6 DEF Ends, Booting, Serving
    <2>. QED BY <2>5, <2>7
  <1>. QED BY <1>1, <1>2, <1>3, <1>4, <1>5, <1>6, <1>7, StepKinds

\* Setting up one provider takes no longer than a refresh.
LEMMA SetUpTime ==
    ASSUME TypeOK, MutexInv, CallInv, QueueInv
    PROVE  SetUpFor \in Nat /\ \A p \in Providers : SetUpFor <= RefreshTime
  <1>. USE Constants, UsersFinite
  <1>1. CASE Serving
    <2>1. SetUpFor = 0
      BY <1>1 DEF SetUpFor
    <2>. QED BY <2>1, Bounds
  <1>2. CASE ~Serving
    <2>1. boot \in 1..N
      BY <1>2 DEF Serving, TypeOK
    <2>2. PICK b \in Providers : b = Order[boot]
      BY <2>1
    <2>3. /\ spent[b] \in Nat /\ (pc[b] \in {"login", "read"} => spent[b] <= Timeout)
          /\ b \in Users
      BY DEF TypeOK, CallInv
    <2>4. PICK n \in Nat : n = (U - 1) * Timeout
      BY <2>2, Bounds
    <2>5. PICK m \in Nat : m = U * Timeout /\ m = n + Timeout
      BY <2>2, <2>4, Bounds
    <2>6. RefreshTime = m + Timeout
      BY <2>2, <2>5, Bounds
    <2>7. pc[b] = "lock" => spent[b] <= n
      BY <2>3, <2>4, LockWait
    <2>8. SetUpFor = CASE pc[b] = "lock" -> spent[b]
                       [] pc[b] = "login" -> n + spent[b]
                       [] pc[b] = "read" -> m + spent[b]
                       [] OTHER -> 0
      BY <1>2, <2>2, <2>4, <2>5 DEF SetUpFor
    <2>. QED BY <2>3, <2>5, <2>6, <2>7, <2>8
  <1>. QED BY <1>1, <1>2

\* It is no negative time after a step either.
LEMMA SetUpTimeNext ==
    ASSUME TypeOK'
    PROVE  SetUpFor' \in Nat
  <1>. USE Constants, UsersFinite
  <1>1. CASE Serving'
    BY <1>1 DEF SetUpFor
  <1>2. CASE ~Serving'
    <2>1. boot' \in 1..N
      BY <1>2 DEF Serving, TypeOK
    <2>2. PICK b \in Providers : b = Order[boot']
      BY <2>1
    <2>3. spent'[b] \in Nat
      BY DEF TypeOK
    <2>4. PICK n \in Nat : n = (U - 1) * Timeout
      BY <2>2, Bounds
    <2>5. PICK m \in Nat : m = U * Timeout
      BY <2>2, Bounds
    <2>6. SetUpFor' = CASE pc'[b] = "lock" -> spent'[b]
                        [] pc'[b] = "login" -> n + spent'[b]
                        [] pc'[b] = "read" -> m + spent'[b]
                        [] OTHER -> 0
      BY <1>2, <2>2, <2>4, <2>5 DEF SetUpFor
    <2>. QED BY <2>3, <2>6
  <1>. QED BY <1>1, <1>2

\* Where main stands matters to the keys of parked resolvers only.
LEMMA AgeFrame ==
    ASSUME NEW p \in Providers, AgeBound(p),
           pc'[p] = pc[p], spent'[p] = spent[p], age'[p] = age[p], wait'[p] = wait[p],
           pc[p] = "parked" => age[p] <= (boot' - 2) * RefreshTime + SetUpFor'
    PROVE  AgeBound(p)'
  <1>1. /\ pc'[p] # "boot"
        /\ pc'[p] = "parked" => wait'[p] <= refreshInterval(TTL)
        /\ pc'[p] = "sleep" => age'[p] + wait'[p] <= OldAtRefresh
    BY DEF AgeBound
  <1>2. pc'[p] = "lock"  => age'[p] <= OldAtRefresh + spent'[p]
    BY DEF AgeBound
  <1>3. pc'[p] = "login" => age'[p] <= OldAtRefresh + (U - 1) * Timeout + spent'[p]
    BY DEF AgeBound
  <1>4. pc'[p] = "read"  => age'[p] <= OldAtRefresh + U * Timeout + spent'[p]
    BY DEF AgeBound
  <1>. QED BY <1>1, <1>2, <1>3, <1>4 DEF AgeBound, OldAtRefresh

\* A tick makes every key one older, and every bound one larger.
LEMMA TickAge ==
    ASSUME TypeOK, BootInv, StallInv, Tick,
           NEW p \in Providers, AgeBound(p), ~stalled[p]
    PROVE  AgeBound(p)'
  <1>. USE Constants, UsersFinite
  <1>1. /\ pc'[p] = pc[p] /\ boot' = boot /\ age'[p] \in {age[p], age[p] + 1}
        /\ pc[p] = "sleep" => wait[p] >= 1 /\ wait'[p] = wait[p] - 1
        /\ pc[p] # "sleep" => wait'[p] = wait[p]
        /\ pc[p] \in {"lock", "login", "read"} => spent'[p] = spent[p] + 1
    BY TickMoves
  <1>2. age[p] \in Int /\ wait[p] \in Nat /\ spent[p] \in Nat /\ boot \in 1..(N + 1)
    BY DEF TypeOK
  <1>3. age'[p] <= age[p] + 1 /\ age'[p] \in Int
    BY <1>1, <1>2
  <1>4. PICK o \in Int : o = OldAtRefresh
    BY Bounds
  <1>5. PICK n \in Int : n = (U - 1) * Timeout
    OBVIOUS
  <1>6. PICK m \in Int : m = U * Timeout
    OBVIOUS
  <1>7. ASSUME pc[p] = "parked"
        PROVE  /\ age'[p] <= (boot' - 2) * RefreshTime + SetUpFor'
               /\ wait'[p] <= refreshInterval(TTL)
    <2>1. ~Serving
      BY <1>7, TickMoves
    <2>2. boot \in 1..N
      BY <1>2, <2>1 DEF Serving
    <2>3. PICK b \in Providers : b = Order[boot]
      BY <2>2
    <2>4. pc[b] \in {"lock", "login", "read"}
      <3>1. Booting(b)
        BY <2>1, <2>3 DEF Booting
      <3>2. pc[b] # "hung"
        BY <1>7, <2>1 DEF StallInv
      <3>. QED BY <2>1, <2>3, <3>1, <3>2, TickMoves DEF BootInv
    <2>5. PICK t \in Nat : t = spent[b]
      BY DEF TypeOK
    <2>6. spent'[b] = t + 1 /\ pc'[b] = pc[b] /\ boot' = boot
      BY <2>4, <2>5, TickMoves
    <2>7. ~Serving'
      BY <2>1, <2>6 DEF Serving
    <2>8. SetUpFor' = SetUpFor + 1 /\ SetUpFor \in Int
      <3>1. SetUpFor = CASE pc[b] = "lock" -> t
                         [] pc[b] = "login" -> n + t
                         [] pc[b] = "read" -> m + t
                         [] OTHER -> 0
        BY <1>5, <1>6, <2>1, <2>3, <2>5 DEF SetUpFor
      <3>2. SetUpFor' = CASE pc[b] = "lock" -> t + 1
                          [] pc[b] = "login" -> n + (t + 1)
                          [] pc[b] = "read" -> m + (t + 1)
                          [] OTHER -> 0
        BY <1>5, <1>6, <2>3, <2>6, <2>7 DEF SetUpFor
      <3>. QED BY <2>4, <3>1, <3>2
    <2>9. age[p] <= (boot - 2) * RefreshTime + SetUpFor /\ wait[p] <= refreshInterval(TTL)
      BY <1>7 DEF AgeBound
    <2>10. PICK k \in Int : k = (boot - 2) * RefreshTime
      BY <1>2, Bounds
    <2>11. age'[p] <= k + SetUpFor'
      BY <1>2, <1>3, <2>8, <2>9, <2>10
    <2>. QED BY <1>1, <1>7, <2>6, <2>9, <2>10, <2>11
  <1>8. ASSUME pc[p] = "sleep"
        PROVE  age'[p] + wait'[p] <= OldAtRefresh
    <2>1. age[p] + wait[p] <= o
      BY <1>4, <1>8 DEF AgeBound
    <2>. QED BY <1>1, <1>2, <1>3, <1>4, <1>8, <2>1
  <1>9. ASSUME pc[p] = "lock"
        PROVE  age'[p] <= OldAtRefresh + spent'[p]
    <2>1. age[p] <= o + spent[p]
      BY <1>4, <1>9 DEF AgeBound
    <2>. QED BY <1>1, <1>2, <1>3, <1>4, <1>9, <2>1
  <1>10. ASSUME pc[p] = "login"
         PROVE  age'[p] <= OldAtRefresh + (U - 1) * Timeout + spent'[p]
    <2>1. age[p] <= o + n + spent[p]
      BY <1>4, <1>5, <1>10 DEF AgeBound
    <2>2. age'[p] <= o + n + spent'[p]
      BY <1>1, <1>2, <1>3, <1>10, <2>1
    <2>. QED BY <1>4, <1>5, <2>2
  <1>11. ASSUME pc[p] = "read"
         PROVE  age'[p] <= OldAtRefresh + U * Timeout + spent'[p]
    <2>1. age[p] <= o + m + spent[p]
      BY <1>4, <1>6, <1>11 DEF AgeBound
    <2>2. age'[p] <= o + m + spent'[p]
      BY <1>1, <1>2, <1>3, <1>11, <2>1
    <2>. QED BY <1>4, <1>6, <2>2
  <1>12. pc'[p] # "boot"
    BY <1>1 DEF AgeBound
  <1>. QED BY <1>1, <1>7, <1>8, <1>9, <1>10, <1>11, <1>12 DEF AgeBound, OldAtRefresh

\* The age of every key stays within the bound of what its resolver is doing.
LEMMA StepAge ==
    ASSUME TypeOK, MutexInv, BootInv, CallInv, QueueInv, StallInv, AgeInv, TypeOK', [Next]_vars
    PROVE  AgeInv'
  <1>. USE Constants, UsersFinite
  <1>0. SUFFICES ASSUME NEW p \in Providers, source'[p], ~stalled'[p]
                 PROVE  AgeBound(p)'
    BY DEF AgeInv
  <1>1. /\ RefreshTime \in Nat
        /\ age[p] \in Int /\ wait[p] \in Nat /\ spent[p] \in Nat /\ boot \in 1..(N + 1)
        /\ OldAtRefresh \in Nat /\ refreshInterval(TTL) \in Nat
        /\ refreshInterval(TTL) <= OldAtRefresh
    BY Bounds, Interval DEF TypeOK
  <1>2. SetUpFor \in Nat /\ SetUpFor <= RefreshTime /\ SetUpFor' \in Nat
    BY SetUpTime, SetUpTimeNext
  <1>3. source[p] /\ ~stalled[p] => AgeBound(p)
    BY DEF AgeInv
  <1>4. CASE Apart
    <2>1. /\ source[p] /\ ~stalled[p] /\ pc'[p] = pc[p] /\ spent'[p] = spent[p] /\ age'[p] = age[p]
          /\ wait'[p] = wait[p] /\ boot' = boot
      BY <1>0, <1>4 DEF Apart
    <2>2. SetUpFor' = SetUpFor
      BY <1>4 DEF Apart, SetUpFor, Serving
    <2>3. pc[p] = "parked" => age[p] <= (boot' - 2) * RefreshTime + SetUpFor'
      BY <1>3, <2>1, <2>2 DEF AgeBound
    <2>. QED BY <1>3, <2>1, <2>3, AgeFrame
  <1>5. CASE Tick
    <2>1. source[p] /\ ~stalled[p]
      BY <1>0, <1>5, TickMoves
    <2>. QED BY <1>3, <1>5, <2>1, TickAge
  <1>6. CASE StartRun
    <2>1. /\ source[p] /\ ~stalled[p] /\ spent'[p] = spent[p] /\ age'[p] = age[p]
          /\ wait'[p] = wait[p] /\ boot' = boot /\ Serving
      BY <1>0, <1>6 DEF StartRun
    <2>2. pc'[p] = IF pc[p] = "parked" THEN "sleep" ELSE pc[p]
      BY <1>6 DEF StartRun
    <2>3. CASE pc[p] # "parked"
      BY <1>3, <2>1, <2>2, <2>3, AgeFrame
    <2>4. CASE pc[p] = "parked"
      <3>1. age[p] <= (boot - 2) * RefreshTime + SetUpFor /\ wait[p] <= refreshInterval(TTL)
        BY <1>3, <2>1, <2>4 DEF AgeBound
      <3>2. boot - 2 = N - 1 /\ SetUpFor = 0
        BY <2>1 DEF Serving, SetUpFor
      <3>3. PICK k \in Int : k = (N - 1) * RefreshTime
        BY <1>1
      <3>4. OldAtRefresh = k + refreshInterval(TTL)
        BY <3>3 DEF OldAtRefresh
      <3>5. age[p] <= k
        BY <1>1, <3>1, <3>2, <3>3
      <3>6. age[p] + wait[p] <= OldAtRefresh
        BY <1>1, <3>1, <3>4, <3>5
      <3>7. pc'[p] = "sleep"
        BY <2>2, <2>4
      <3>8. (age[p] + wait[p])' <= OldAtRefresh
        BY <2>1, <3>6
      <3>. QED BY <3>7, <3>8 DEF AgeBound, OldAtRefresh
    <2>. QED BY <2>3, <2>4
  <1>7. CASE Restart
    BY <1>0, <1>7 DEF Restart
  <1>8. ASSUME NEW q \in Users, q # p,
               Enters(q) \/ Takes(q) \/ LogsIn(q) \/ Leaves(q)
                 \/ (q \in Providers /\ Ends(q))
        PROVE  AgeBound(p)'
    <2>1. PICK step \in Steps : Goto(q, step)
      BY <1>8 DEF Enters, Takes, LogsIn, Leaves, Ends, Steps, Use
    <2>2. /\ pc'[q] = step /\ spent'[q] = 0
          /\ \A r \in Users : r # q => pc'[r] = pc[r] /\ spent'[r] = spent[r]
      BY <1>8, <2>1, GotoMoves
    <2>3. /\ source'[p] = source[p] /\ age'[p] = age[p] /\ wait'[p] = wait[p]
          /\ stalled'[p] = stalled[p]
      BY <1>8 DEF Enters, Takes, LogsIn, Leaves, Ends
    <2>4. source[p] /\ ~stalled[p] /\ pc'[p] = pc[p] /\ spent'[p] = spent[p]
      BY <1>0, <1>8, <2>2, <2>3
    <2>5. ASSUME pc[p] = "parked"
          PROVE  age[p] <= (boot' - 2) * RefreshTime + SetUpFor'
      <3>1. age[p] <= (boot - 2) * RefreshTime + SetUpFor
        BY <1>3, <2>4, <2>5 DEF AgeBound
      <3>2. PICK k \in Int : k = (boot - 2) * RefreshTime
        BY <1>1
      <3>3. ASSUME boot' = boot, SetUpFor <= SetUpFor'
            PROVE  age[p] <= (boot' - 2) * RefreshTime + SetUpFor'
        <4>1. age[p] <= k + SetUpFor'
          BY <1>1, <1>2, <3>1, <3>2, <3>3
        <4>. QED BY <3>2, <3>3, <4>1
      <3>4. CASE Serving
        <4>1. boot' = boot /\ Serving'
          BY <1>8, <3>4 DEF Enters, Takes, LogsIn, Leaves, Ends, Booting, Serving
        <4>2. SetUpFor = 0
          BY <3>4 DEF SetUpFor
        <4>. QED BY <1>2, <3>3, <4>1, <4>2
      <3>5. CASE ~Serving /\ q \notin Providers
        <4>1. boot' = boot /\ ~Serving' /\ boot \in 1..N
          BY <1>1, <1>8, <3>5 DEF Enters, Takes, LogsIn, Leaves, Serving
        <4>2. PICK b \in Providers : b = Order[boot] /\ pc'[b] = pc[b] /\ spent'[b] = spent[b]
          BY <2>2, <3>5, <4>1
        <4>3. SetUpFor' = SetUpFor
          BY <3>5, <4>1, <4>2 DEF SetUpFor
        <4>. QED BY <1>2, <3>3, <4>1, <4>3
      <3>6. CASE ~Serving /\ q \in Providers
        <4>1. pc[q] \in {"sleep", "lock", "login", "read", "hung"} => q = Order[boot]
          BY <3>6, BootingOnly
        <4>2. pc[q] # "idle"
          BY <3>6 DEF TypeOK
        <4>3. q = Order[boot]
          BY <1>8, <3>6, <4>1, <4>2 DEF Enters, Takes, LogsIn, Leaves, Ends
        <4>4. PICK n \in Nat : n = (U - 1) * Timeout
          BY Bounds
        <4>5. PICK m \in Nat : m = U * Timeout /\ m = n + Timeout
          BY <4>4, Bounds
        <4>6. SetUpFor = CASE pc[q] = "lock" -> spent[q]
                           [] pc[q] = "login" -> n + spent[q]
                           [] pc[q] = "read" -> m + spent[q]
                           [] OTHER -> 0
          BY <3>6, <4>3, <4>4, <4>5 DEF SetUpFor
        <4>7. ASSUME boot' = boot
              PROVE  SetUpFor' = CASE step = "lock" -> 0
                                   [] step = "login" -> n + 0
                                   [] step = "read" -> m + 0
                                   [] OTHER -> 0
          <5>1. ~Serving'
            BY <3>6, <4>7 DEF Serving
          <5>. QED BY <2>2, <4>3, <4>4, <4>5, <4>7, <5>1 DEF SetUpFor
        <4>8. CASE Enters(q)
          <5>1. boot' = boot /\ pc[q] \notin {"lock", "login", "read"}
            BY <4>8 DEF Enters
          <5>. QED BY <1>2, <3>3, <4>6, <5>1
        <4>9. CASE Takes(q)
          <5>1. boot' = boot /\ pc[q] = "lock" /\ (Goto(q, "read") \/ Goto(q, "login"))
            BY <3>6, <4>9 DEF Takes, Use
          <5>2. step \in {"read", "login"}
            BY <2>2, <5>1, GotoMoves DEF Steps
          <5>3. spent[q] <= n /\ spent[q] \in Nat
            BY <4>4, <5>1, LockWait DEF TypeOK
          <5>4. SetUpFor = spent[q] /\ SetUpFor' \in {n, m}
            BY <4>5, <4>6, <4>7, <5>1, <5>2
          <5>. QED BY <3>3, <4>5, <5>1, <5>3, <5>4
        <4>10. CASE LogsIn(q)
          <5>1. boot' = boot /\ pc[q] = "login" /\ Goto(q, "read")
            BY <3>6, <4>10 DEF LogsIn, Use
          <5>2. step = "read"
            BY <2>2, <5>1, GotoMoves DEF Steps
          <5>3. spent[q] <= Timeout /\ spent[q] \in Nat
            BY <5>1 DEF CallInv, TypeOK
          <5>4. SetUpFor = n + spent[q] /\ SetUpFor' = m
            BY <4>5, <4>6, <4>7, <5>1, <5>2
          <5>. QED BY <3>3, <4>5, <5>1, <5>3, <5>4
        <4>11. CASE Ends(q)
          <5>1. boot' = boot + 1
            BY <3>6, <4>3, <4>11 DEF Ends, Booting
          <5>2. (boot' - 2) * RefreshTime = (boot - 2) * RefreshTime + RefreshTime
            BY <1>1, <5>1
          <5>3. age[p] <= (k + RefreshTime) + SetUpFor'
            BY <1>1, <1>2, <3>1, <3>2
          <5>. QED BY <3>2, <5>2, <5>3
        <4>12. ~Leaves(q)
          BY <3>6 DEF Leaves
        <4>. QED BY <1>8, <4>8, <4>9, <4>10, <4>11, <4>12
      <3>. QED BY <3>4, <3>5, <3>6
    <2>. QED BY <1>3, <2>3, <2>4, <2>5, AgeFrame
  <1>9. CASE Enters(p)
    <2>1. source[p] /\ ~stalled[p] /\ Goto(p, "lock") /\ age'[p] = age[p]
      BY <1>0, <1>9 DEF Enters
    <2>2. pc[p] = "sleep" /\ wait[p] = 0
      <3>1. pc[p] # "boot" /\ p \notin Others
        BY <1>3, <2>1 DEF AgeBound
      <3>. QED BY <1>9, <3>1 DEF Enters
    <2>3. age[p] + 0 <= OldAtRefresh
      BY <1>3, <2>1, <2>2 DEF AgeBound
    <2>4. pc'[p] = "lock" /\ spent'[p] = 0
      BY <2>1, GotoMoves DEF Steps
    <2>5. age'[p] <= OldAtRefresh + spent'[p]
      BY <1>1, <2>1, <2>3, <2>4
    <2>. QED BY <2>4, <2>5 DEF AgeBound, OldAtRefresh
  <1>10. CASE Takes(p)
    <2>1. source[p] /\ ~stalled[p] /\ pc[p] = "lock" /\ age'[p] = age[p]
      BY <1>0, <1>10 DEF Takes
    <2>2. PICK n \in Nat : n = (U - 1) * Timeout
      BY Bounds
    <2>3. U * Timeout = n + Timeout
      BY <2>2, Bounds
    <2>4. age[p] <= OldAtRefresh + spent[p] /\ spent[p] <= n
      BY <1>3, <2>1, <2>2, LockWait DEF AgeBound
    <2>5. age[p] <= OldAtRefresh + n
      BY <1>1, <2>4
    <2>6. CASE Goto(p, "login")
      <3>1. pc'[p] = "login" /\ spent'[p] = 0
        BY <2>6, GotoMoves DEF Steps
      <3>2. age'[p] <= OldAtRefresh + n + spent'[p]
        BY <1>1, <2>1, <2>5, <3>1
      <3>. QED BY <2>2, <3>1, <3>2 DEF AgeBound, OldAtRefresh
    <2>7. CASE Goto(p, "read")
      <3>1. pc'[p] = "read" /\ spent'[p] = 0
        BY <2>7, GotoMoves DEF Steps
      <3>2. PICK m \in Int : m = U * Timeout /\ m = n + Timeout
        BY <2>3
      <3>3. age'[p] <= OldAtRefresh + m + spent'[p]
        BY <1>1, <2>1, <2>5, <3>1, <3>2
      <3>. QED BY <3>1, <3>2, <3>3 DEF AgeBound, OldAtRefresh
    <2>. QED BY <1>10, <2>6, <2>7 DEF Takes, Use
  <1>11. CASE LogsIn(p)
    <2>1. source[p] /\ ~stalled[p] /\ pc[p] = "login" /\ age'[p] = age[p] /\ Goto(p, "read")
      BY <1>0, <1>11 DEF LogsIn, Use
    <2>2. PICK n \in Nat : n = (U - 1) * Timeout
      BY Bounds
    <2>3. PICK m \in Int : m = U * Timeout /\ m = n + Timeout
      BY <2>2, Bounds
    <2>4. age[p] <= OldAtRefresh + n + spent[p] /\ spent[p] <= Timeout
      BY <1>3, <2>1, <2>2 DEF AgeBound, CallInv
    <2>5. pc'[p] = "read" /\ spent'[p] = 0
      BY <2>1, GotoMoves DEF Steps
    <2>6. age'[p] <= OldAtRefresh + m + spent'[p]
      BY <1>1, <2>1, <2>3, <2>4, <2>5
    <2>. QED BY <2>3, <2>5, <2>6 DEF AgeBound, OldAtRefresh
  <1>12. CASE Ends(p)
    <2>1. age'[p] = 0 /\ wait'[p] = refreshInterval(TTL)
      <3>1. pc[p] = "hung" => stalled[p]
        BY DEF StallInv
      <3>. QED BY <1>0, <1>12, <3>1 DEF Ends
    <2>2. CASE Booting(p)
      <3>1. PICK step \in {"off", "parked"} : Goto(p, step)
        BY <1>12, <2>2 DEF Ends
      <3>2. boot' = boot + 1
        BY <1>12, <2>2 DEF Ends
      <3>3. pc'[p] = step
        BY <3>1, GotoMoves DEF Steps
      <3>4. PICK j \in Nat : j = boot' - 2
        BY <1>1, <3>2
      <3>5. PICK n \in Nat : n = j * RefreshTime
        BY <1>1
      <3>6. PICK m \in Nat : m = SetUpFor'
        BY <1>2
      <3>7. age'[p] <= (boot' - 2) * RefreshTime + SetUpFor'
        <4>1. age'[p] <= n + m
          BY <2>1
        <4>. QED BY <3>4, <3>5, <3>6, <4>1
      <3>8. wait'[p] <= refreshInterval(TTL)
        BY <1>1, <2>1
      <3>. QED BY <3>3, <3>7, <3>8 DEF AgeBound
    <2>3. CASE ~Booting(p)
      <3>1. pc'[p] = "sleep"
        BY <1>12, <2>3, GotoMoves DEF Ends, Steps
      <3>2. age'[p] + wait'[p] <= OldAtRefresh
        BY <1>1, <2>1
      <3>. QED BY <3>1, <3>2 DEF AgeBound, OldAtRefresh
    <2>. QED BY <2>2, <2>3
  <1>13. ASSUME NEW q \in Providers, Hangs(q)
         PROVE  AgeBound(p)'
    <2>1. q # p /\ pc[p] # "parked" /\ ~stalled[p] /\ age'[p] = age[p]
      BY <1>0, <1>13 DEF Hangs
    <2>2. source[p] /\ wait'[p] = wait[p]
      BY <1>0, <1>13 DEF Hangs
    <2>3. pc'[p] = pc[p] /\ spent'[p] = spent[p]
      BY <1>13, <2>1, GotoMoves DEF Hangs, Steps
    <2>. QED BY <1>3, <2>1, <2>2, <2>3, AgeFrame
  <1>14. ~Leaves(p)
    BY DEF Leaves
  <1>15. ASSUME NEW u \in Users, Enters(u) \/ Takes(u) \/ LogsIn(u) \/ Leaves(u)
         PROVE  AgeBound(p)'
    <2>1. CASE u # p
      BY <1>8, <1>15, <2>1
    <2>2. CASE u = p
      <3>1. Enters(p) \/ Takes(p) \/ LogsIn(p) \/ Leaves(p)
        BY <1>15, <2>2, Zenon
      <3>. QED BY <1>9, <1>10, <1>11, <1>14, <3>1
    <2>. QED BY <2>1, <2>2
  <1>16. ASSUME NEW q \in Providers, Hangs(q) \/ Ends(q)
         PROVE  AgeBound(p)'
    BY <1>8, <1>12, <1>13, <1>16
  <1>. QED BY <1>4, <1>5, <1>6, <1>7, <1>15, <1>16, StepKinds

-----------------------------------------------------------------------------
(* The theorems.                                                           *)

\* The inductive invariant holds at the start.
LEMMA InitIInv == Init => IInv
  <1>. SUFFICES ASSUME Init PROVE IInv
    OBVIOUS
  <1>. USE Constants, UsersFinite
  <1>1. TypeOK
    <2>1. age \in [Providers -> 0..(MaxAge + 1)]
      <3>1. \A p \in Providers : 0 \in 0..(MaxAge + 1)
        BY Bounds
      <3>. QED BY <3>1 DEF Init
    <2>2. token \in [lease : 0..Lease, known : BOOLEAN]
      BY DEF Init
    <2>3. secret \in [Providers -> 0..(MaxRotations + 1)]
      BY DEF Init
    <2>4. boot \in 1..(N + 1)
      BY DEF Init
    <2>5. wait \in [Providers -> 0..(TTL + Retry)] /\ spent \in [Users -> Nat]
      BY DEF Init
    <2>6. key \in [Providers -> 0..(MaxRotations + 1)]
      BY DEF Init
    <2>7. /\ up \in BOOLEAN /\ calm \in BOOLEAN
          /\ source \in [Providers -> BOOLEAN] /\ stalled \in [Providers -> BOOLEAN]
      BY Zenon DEF Init
    <2>8. pc \in [Users -> {"boot", "off", "parked", "sleep", "lock", "login", "read",
                           "hung", "idle"}]
      BY DEF Init
    <2>9. holder \in Users \cup {NoOne}
      BY DEF Init
    <2>10. /\ \A p \in Providers : pc[p] # "idle"
           /\ \A o \in Others : pc[o] \in {"idle", "lock", "login"}
      BY DEF Init
    <2>. QED BY <2>1, <2>2, <2>3, <2>4, <2>5, <2>6, <2>7, <2>8, <2>9, <2>10, Zenon DEF TypeOK
  <1>2. /\ \A u \in Users : pc[u] \in {"boot", "idle"}
        /\ \A p \in Providers : pc[p] = "boot" /\ ~source[p]
        /\ holder = NoOne /\ boot = 1
    BY DEF Init
  <1>3. MutexInv
    BY <1>2 DEF MutexInv
  <1>4. BootInv
    BY <1>2 DEF BootInv, Serving
  <1>5. CallInv /\ QueueInv /\ StallInv /\ AgeInv
    BY <1>2 DEF CallInv, QueueInv, StallInv, AgeInv
  <1>. QED BY <1>1, <1>3, <1>4, <1>5 DEF IInv

\* IInv is kept by every step.
LEMMA StepIInv == IInv /\ [Next]_vars => IInv'
  <1>. SUFFICES ASSUME IInv, [Next]_vars PROVE IInv'
    OBVIOUS
  <1>1. TypeOK /\ MutexInv /\ BootInv /\ CallInv /\ QueueInv /\ StallInv /\ AgeInv
    BY DEF IInv
  <1>2. TypeOK'
    BY <1>1, StepTypeOK
  <1>3. MutexInv' /\ BootInv' /\ CallInv'
    BY <1>1, StepMutex, StepBoot, StepCall
  <1>4. QueueInv'
    BY <1>1, <1>2, <1>3, StepQueue
  <1>5. AgeInv' /\ StallInv'
    BY <1>1, <1>2, StepAge, StepStall
  <1>. QED BY <1>2, <1>3, <1>4, <1>5 DEF IInv

\* The inductive invariant holds in every reachable state.
THEOREM CredentialsInvariance == Spec => []IInv
  <1>1. Init => IInv
    BY InitIInv
  <1>2. IInv /\ [Next]_vars => IInv'
    BY StepIInv
  <1>. QED BY <1>1, <1>2, PTL DEF Spec

(* Timers, keys, the token and the boot sequence keep their types: no     *)
(* timer of the refresh loop is missed and runs below zero.                *)
THEOREM CredentialsTypeCorrect == Spec => []TypeOK
  <1>1. IInv => TypeOK
    BY DEF IInv
  <1>. QED BY <1>1, CredentialsInvariance, PTL

(* Vault's token does not expire between ensureToken and the end of the    *)
(* read it was fetched for, whoever renews or queues in between.           *)
THEOREM LeasesOutliveReads == Spec => []LeaseOutlivesRead
  <1>1. IInv => LeaseOutlivesRead
    <2>1. SUFFICES ASSUME IInv, NEW p \in Providers, pc[p] = "read"
                   PROVE  token.lease > 0
      BY DEF LeaseOutlivesRead
    <2>2. token.lease \in Nat /\ spent[p] \in Nat
      BY <2>1, Constants, UsersFinite DEF IInv, TypeOK
    <2>3. spent[p] <= Timeout /\ token.lease + spent[p] > Timeout
      BY <2>1, UsersFinite DEF IInv, CallInv
    <2>. QED BY <2>2, <2>3, Constants
  <1>. QED BY <1>1, CredentialsInvariance, PTL

(* Unless a call for a key hangs, a ready pod holds no key older than      *)
(* MaxAge, for any number of providers and of other users that queue for   *)
(* the Vault client's mutex: the setup of the other providers, the         *)
(* interval, one login of each other user and the two calls of its own     *)
(* refresh are all it can wait for without being reported as not ready.    *)
THEOREM ReadyIsFresh == Spec => []ReadyMeansFresh
  <1>1. IInv => ReadyMeansFresh
    <2>. USE Constants, UsersFinite
    <2>1. SUFFICES ASSUME IInv, readyz, NEW p \in Registered, ~stalled[p]
                   PROVE  age[p] <= MaxAge
      BY DEF ReadyMeansFresh
    <2>2. p \in Providers /\ pc[p] \notin {"boot", "off"} /\ source[p] /\ Serving
      BY <2>1 DEF Registered, readyz
    <2>3. AgeBound(p)
      BY <2>1, <2>2 DEF IInv, AgeInv
    <2>4. /\ age[p] \in Int /\ wait[p] \in Nat /\ spent[p] \in Nat
          /\ pc[p] \in {"parked", "sleep", "lock", "login", "read"}
      <3>1. pc[p] # "hung"
        BY <2>1, <2>2 DEF IInv, StallInv
      <3>2. pc[p] # "idle" /\ p \in Users
        BY <2>1, <2>2 DEF IInv, TypeOK
      <3>. QED BY <2>1, <2>2, <3>1, <3>2 DEF IInv, TypeOK
    <2>5. PICK o \in Nat : o = OldAtRefresh
      BY <2>2, Bounds
    <2>6. PICK n \in Nat : n = (U - 1) * Timeout
      BY <2>2, Bounds
    <2>7. PICK m \in Nat : m = U * Timeout /\ m = n + Timeout
      BY <2>2, <2>6, Bounds
    <2>8. MaxAge = o + m + Timeout
      <3>1. MaxAge = OldAtRefresh + RefreshTime /\ RefreshTime = m + Timeout
        BY <2>2, <2>7, Bounds
      <3>. QED BY <2>5, <3>1
    <2>9. CASE pc[p] = "parked"
      <3>1. age[p] <= (boot - 2) * RefreshTime + SetUpFor
        BY <2>3, <2>9 DEF AgeBound
      <3>2. boot - 2 = N - 1 /\ SetUpFor = 0
        BY <2>2 DEF Serving, SetUpFor
      <3>3. PICK k \in Int : k = (N - 1) * RefreshTime
        BY <2>2, Bounds
      <3>4. k <= o
        BY <2>2, <2>5, <3>3, Bounds, Interval
      <3>5. age[p] <= k
        BY <2>4, <3>1, <3>2, <3>3
      <3>. QED BY <2>4, <2>8, <3>4, <3>5
    <2>10. CASE pc[p] = "sleep"
      <3>1. age[p] + wait[p] <= o
        BY <2>3, <2>5, <2>10 DEF AgeBound
      <3>. QED BY <2>4, <2>8, <3>1
    <2>11. CASE pc[p] = "lock"
      <3>1. age[p] <= o + spent[p] /\ spent[p] <= n
        BY <2>1, <2>2, <2>3, <2>5, <2>6, <2>11, LockWait DEF AgeBound, IInv
      <3>. QED BY <2>4, <2>7, <2>8, <3>1
    <2>12. CASE pc[p] = "login"
      <3>1. age[p] <= o + n + spent[p] /\ spent[p] <= Timeout
        BY <2>1, <2>2, <2>3, <2>5, <2>6, <2>12 DEF AgeBound, IInv, CallInv
      <3>. QED BY <2>4, <2>7, <2>8, <3>1
    <2>13. CASE pc[p] = "read"
      <3>1. age[p] <= o + m + spent[p] /\ spent[p] <= Timeout
        BY <2>1, <2>2, <2>3, <2>5, <2>7, <2>13 DEF AgeBound, IInv, CallInv
      <3>. QED BY <2>4, <2>7, <2>8, <3>1
    <2>. QED BY <2>4, <2>9, <2>10, <2>11, <2>12, <2>13
  <1>. QED BY <1>1, CredentialsInvariance, PTL
=============================================================================
