---------------------------- MODULE Credentials ----------------------------
(***************************************************************************)
(* How a provider's API key travels: Vault holds it, control-plane reads   *)
(* it with a Vault token of its own (internal/vaultclient, providertoken)  *)
(* and issues it for a limited time, and provider-gateway keeps its        *)
(* adapters' keys fresh (internal/credentials) and reports itself ready    *)
(* only while it can.  One pod of provider-gateway is followed; the other  *)
(* calls control-plane serves with its Vault client (Sign, Verify, the     *)
(* refreshes of other pods) compete with it for the client's mutex.  Time  *)
(* passes in ticks; a timer that is due fires before the next tick.        *)
(***************************************************************************)
EXTENDS Naturals, Sequences, FiniteSets

CONSTANTS
    Providers,      \* providers whose key is in Vault
    Order,          \* the order in which main sets them up
    Others,         \* the Vault client's other users, as many as there are at a time
    NoOne,          \* the Vault client's mutex is free
    TTL,            \* what IssueToken grants
    Buffer,         \* refreshBuffer, and the renewal buffer of login
    Retry,          \* errorRetryInterval
    Timeout,        \* of an HTTP call to Vault
    Lease,          \* lease_duration of a Vault token
    MaxRotations    \* bound: rotations of a key in Vault

ASSUME CredentialsAssumption ==
    /\ IsFiniteSet(Providers)
    /\ IsFiniteSet(Others)
    /\ Providers \cap Others = {}
    /\ NoOne \notin Providers \cup Others
    /\ Order \in [1..Cardinality(Providers) -> Providers]
    /\ \A p \in Providers : \E i \in DOMAIN Order : Order[i] = p
    /\ \A i, j \in DOMAIN Order : Order[i] = Order[j] => i = j
    /\ {TTL, Buffer, Retry, Timeout, Lease, MaxRotations} \subseteq Nat \ {0}
    /\ 2 * Timeout <= Buffer        \* 10 s, 30 s
    /\ Timeout < Lease              \* 10 s, 15 min

N == Len(Order)

Users == Providers \cup Others

VARIABLES
    up,         \* Vault and control-plane answer
    secret,     \* the version of each key in Vault, 0 if there is none
    token,      \* control-plane's Vault token: remaining lease, known to Vault
    holder,     \* who holds the Vault client's mutex
    boot,       \* the provider main is setting up; N + 1 when it serves
    pc,         \* what each provider's resolver, or other user, is doing
    wait,       \* time left on its timer
    spent,      \* time spent in the present HTTP call or wait for the mutex
    key,        \* the adapter's key (its version), 0 if it was never set
    source,     \* Resolver.source: a credential is resolved
    age,        \* time since Vault gave the key, counted while it is resolved
    stalled,    \* and until a call hangs that the key has to wait for
    calm        \* Vault stays reachable and nothing is changed any more

vars ==
    <<up, secret, token, holder, boot, pc, wait, spent, key, source, age, stalled, calm>>

Serving == boot = N + 1

Registered == {p \in Providers : pc[p] \notin {"boot", "off"} /\ key[p] # 0}

(***************************************************************************)
(* The longest a ready pod may hold a key, unless a call hangs: the key    *)
(* waits at boot for the setup of the other providers, then for the        *)
(* interval, then for its own refresh.  A refresh waits for the mutex,     *)
(* held through one login of every other user, and makes two calls.        *)
(***************************************************************************)
refreshInterval(ttl) ==
    IF ttl > Buffer THEN ttl - Buffer ELSE ttl

RefreshTime == (Cardinality(Users) + 1) * Timeout

MaxAge == N * RefreshTime + refreshInterval(TTL)

TypeOK ==
    /\ up \in BOOLEAN
    /\ secret \in [Providers -> 0..(MaxRotations + 1)]
    /\ token \in [lease : 0..Lease, known : BOOLEAN]
    /\ holder \in Users \cup {NoOne}
    /\ boot \in 1..(N + 1)
    /\ pc \in [Users -> {"boot", "off", "parked", "sleep", "lock", "login", "read",
                        "hung", "idle"}]
    /\ \A p \in Providers : pc[p] # "idle"
    /\ \A o \in Others : pc[o] \in {"idle", "lock", "login"}
    /\ wait \in [Providers -> 0..(TTL + Retry)]
    /\ spent \in [Users -> Nat]
    /\ key \in [Providers -> 0..(MaxRotations + 1)]
    /\ source \in [Providers -> BOOLEAN]
    /\ age \in [Providers -> 0..(MaxAge + 1)]
    /\ stalled \in [Providers -> BOOLEAN]
    /\ calm \in BOOLEAN

Init ==
    /\ up \in BOOLEAN
    /\ secret \in [Providers -> {0, 1}]
    /\ token = [lease |-> 0, known |-> FALSE]
    /\ holder = NoOne
    /\ boot = 1
    /\ pc = [u \in Users |-> IF u \in Providers THEN "boot" ELSE "idle"]
    /\ wait = [p \in Providers |-> 0]
    /\ spent = [u \in Users |-> 0]
    /\ key = [p \in Providers |-> 0]
    /\ source = [p \in Providers |-> FALSE]
    /\ age = [p \in Providers |-> 0]
    /\ stalled = [p \in Providers |-> FALSE]
    /\ calm = FALSE

(***************************************************************************)
(* The start of a refresh: FetchToken -> IssueProviderToken -> IssueToken  *)
(* -> ReadProviderSecret -> ensureToken, up to the mutex.                  *)
(***************************************************************************)
Goto(u, step) == pc' = [pc EXCEPT ![u] = step] /\ spent' = [spent EXCEPT ![u] = 0]

FetchToken(p) == Goto(p, "lock")

setupCredential ==
    /\ ~Serving
    /\ pc[Order[boot]] = "boot"
    /\ FetchToken(Order[boot])
    /\ UNCHANGED <<up, secret, token, holder, boot, wait, key, source, age, stalled, calm>>

Run(p) ==
    /\ pc[p] = "sleep"
    /\ wait[p] = 0
    /\ FetchToken(p)
    /\ UNCHANGED <<up, secret, token, holder, boot, wait, key, source, age, stalled, calm>>

\* When every provider is set up the refresh loops start, each with the interval
\* its first refresh returned.
StartRun ==
    /\ Serving
    /\ \E p \in Providers : pc[p] = "parked"
    /\ pc' = [u \in Users |-> IF pc[u] = "parked" THEN "sleep" ELSE pc[u]]
    /\ UNCHANGED <<up, secret, token, holder, boot, wait, spent, key, source, age, stalled, calm>>

(***************************************************************************)
(* How a refresh ends, at boot and in the loop.                            *)
(***************************************************************************)
Booting(p) == ~Serving /\ Order[boot] = p

\* mutant: a failed refresh leaves the source as it was
FailedQuietly(p) ==
    /\ source' = source
    /\ IF Booting(p) THEN Goto(p, "off") /\ boot' = boot + 1 /\ UNCHANGED wait
       ELSE Goto(p, "sleep") /\ wait' = [wait EXCEPT ![p] = Retry] /\ UNCHANGED boot
    /\ UNCHANGED <<key, age, stalled>>

Failed(p) ==
    /\ source' = [source EXCEPT ![p] = FALSE]
    /\ age' = [age EXCEPT ![p] = 0]
    /\ stalled' = [stalled EXCEPT ![p] = FALSE]
    /\ IF Booting(p) THEN Goto(p, "off") /\ boot' = boot + 1 /\ UNCHANGED wait
       ELSE Goto(p, "sleep") /\ wait' = [wait EXCEPT ![p] = Retry] /\ UNCHANGED boot
    /\ UNCHANGED key

\* The key as Vault has it now, for TTL.
IssueProviderTokenResponse(t, seconds) == [token |-> t, ttl_seconds |-> seconds]

IssueToken(p) == IssueProviderTokenResponse(secret[p], TTL)

\* mutant: the loop renews the lease but not the key the adapter uses
RefreshedInName(p) ==
    /\ key' = IF Booting(p) THEN [key EXCEPT ![p] = IssueToken(p).token] ELSE key
    /\ age' = [age EXCEPT ![p] = 0]
    /\ stalled' = [stalled EXCEPT ![p] = FALSE]
    /\ source' = [source EXCEPT ![p] = TRUE]
    /\ wait' = [wait EXCEPT ![p] = refreshInterval(IssueToken(p).ttl_seconds)]
    /\ IF Booting(p) THEN Goto(p, "parked") /\ boot' = boot + 1
       ELSE Goto(p, "sleep") /\ UNCHANGED boot

Refreshed(p) ==
    /\ key' = [key EXCEPT ![p] = IssueToken(p).token]     \* SetAPIKey
    /\ age' = [age EXCEPT ![p] = 0]
    /\ stalled' = [stalled EXCEPT ![p] = FALSE]
    /\ source' = [source EXCEPT ![p] = TRUE]
    /\ wait' = [wait EXCEPT ![p] = refreshInterval(IssueToken(p).ttl_seconds)]
    /\ IF Booting(p) THEN Goto(p, "parked") /\ boot' = boot + 1
       ELSE Goto(p, "sleep") /\ UNCHANGED boot

(***************************************************************************)
(* vaultclient: ensureToken under the mutex, login with it held, the read. *)
(***************************************************************************)
\* mutant: the renewal buffer is left out
tokenAlive == token.lease > 0

tokenUsable == token.lease > Buffer

\* A Go mutex is handed to whoever has waited longest (its starvation mode, from
\* 1 ms on); who came within the same tick may be served in any order.
Longest(u) == \A v \in Users : pc[v] = "lock" => spent[v] <= spent[u]

\* What a user does with the token: a refresh reads the secret; what Sign, Verify
\* and other pods' refreshes do next does not hold the mutex.
Use(u) == IF u \in Providers THEN "read" ELSE "idle"

ensureToken(u) ==
    /\ pc[u] = "lock"
    /\ holder = NoOne
    /\ Longest(u)
    /\ IF tokenUsable THEN Goto(u, Use(u)) /\ UNCHANGED holder
       ELSE Goto(u, "login") /\ holder' = u
    /\ UNCHANGED <<up, secret, token, boot, wait, key, source, age, stalled, calm>>

login(u) ==
    /\ pc[u] = "login"
    /\ up
    /\ token' = [lease |-> Lease, known |-> TRUE]
    /\ holder' = NoOne
    /\ Goto(u, Use(u))
    /\ UNCHANGED <<up, secret, boot, wait, key, source, age, stalled, calm>>

loginFails(p) ==
    /\ pc[p] = "login"
    /\ ~up
    /\ holder' = NoOne
    /\ Failed(p)
    /\ UNCHANGED <<up, secret, token, calm>>

\* Another call that needs Vault: Sign, Verify, a refresh of another pod.
OtherCall(o) ==
    /\ pc[o] = "idle"
    /\ Goto(o, "lock")
    /\ UNCHANGED <<up, secret, token, holder, boot, wait, key, source, age, stalled, calm>>

OtherFails(o) ==
    /\ pc[o] = "login"
    /\ ~up
    /\ holder' = NoOne
    /\ Goto(o, "idle")
    /\ UNCHANGED <<up, secret, token, boot, wait, key, source, age, stalled, calm>>

ReadProviderSecret(p) ==
    /\ pc[p] = "read"
    /\ up
    /\ token.known
    /\ token.lease > 0
    /\ secret[p] # 0
    /\ Refreshed(p)
    /\ UNCHANGED <<up, secret, token, holder, calm>>

\* No answer, 403 for a token Vault does not know (which stays cached), 404.
ReadFails(p) ==
    /\ pc[p] = "read"
    /\ ~up \/ ~token.known \/ token.lease = 0 \/ secret[p] = 0
    /\ Failed(p)
    /\ UNCHANGED <<up, secret, token, holder, calm>>

(***************************************************************************)
(* FetchToken has no deadline and the connection no keepalive of its own,  *)
(* so a call whose answer is lost hangs until TCP gives the connection up. *)
(* At boot the providers set up before wait for it too.  Whatever          *)
(* control-plane still does for the call it does as one of Others.         *)
(***************************************************************************)
Hang(p) ==
    /\ ~calm
    /\ pc[p] \in {"lock", "read"}
    /\ Goto(p, "hung")
    /\ stalled' = [q \in Providers |-> stalled[q] \/ q = p \/ pc[q] = "parked"]
    /\ age' = [q \in Providers |-> IF stalled'[q] THEN 0 ELSE age[q]]
    /\ UNCHANGED <<up, secret, token, holder, boot, wait, key, source, calm>>

\* The connection is found dead, or the answer arrives after all: a key Vault had
\* at some time since the call began.
HangFails(p) ==
    /\ pc[p] = "hung"
    /\ Failed(p)
    /\ UNCHANGED <<up, secret, token, holder, calm>>

LateAnswer(p) ==
    /\ pc[p] = "hung"
    /\ \E version \in 1..secret[p] :
         /\ key[p] <= version
         /\ key' = [key EXCEPT ![p] = version]
    /\ source' = [source EXCEPT ![p] = TRUE]
    /\ wait' = [wait EXCEPT ![p] = refreshInterval(TTL)]
    /\ IF Booting(p) THEN Goto(p, "parked") /\ boot' = boot + 1
       ELSE Goto(p, "sleep") /\ UNCHANGED boot
    /\ UNCHANGED <<up, secret, token, holder, age, stalled, calm>>

(***************************************************************************)
(* The world: time, Vault's reachability, operators, a pod that restarts.  *)
(***************************************************************************)
Due(u) ==
    \/ pc[u] = "sleep" /\ wait[u] = 0
    \/ pc[u] = "lock" /\ holder = NoOne
    \/ pc[u] \in {"login", "read"} /\ spent[u] = Timeout
    \/ Serving /\ pc[u] = "parked"
    \/ Booting(u) /\ pc[u] = "boot"

Tick ==
    /\ \A u \in Users : ~Due(u)
    /\ wait' = [p \in Providers |-> IF pc[p] = "sleep" THEN wait[p] - 1 ELSE wait[p]]
    /\ spent' = [u \in Users |->
                 IF pc[u] \in {"lock", "login", "read"} THEN spent[u] + 1 ELSE 0]
    /\ age' = [p \in Providers |->
               IF source[p] /\ ~stalled[p] /\ age[p] <= MaxAge THEN age[p] + 1 ELSE age[p]]
    /\ token' = [token EXCEPT !.lease = IF @ = 0 THEN 0 ELSE @ - 1]
    /\ UNCHANGED <<up, secret, holder, boot, pc, key, source, stalled, calm>>

VaultChanges ==
    /\ ~calm
    /\ up' = ~up
    /\ UNCHANGED <<secret, token, holder, boot, pc, wait, spent, key, source, age, stalled, calm>>

Rotate(p) ==
    /\ ~calm
    /\ secret[p] <= MaxRotations
    /\ secret' = [secret EXCEPT ![p] = @ + 1]
    /\ UNCHANGED <<up, token, holder, boot, pc, wait, spent, key, source, age, stalled, calm>>

\* Vault revokes control-plane's token, or restarts and has lost it.
TokenLost ==
    /\ ~calm
    /\ token.known
    /\ token' = [token EXCEPT !.known = FALSE]
    /\ UNCHANGED <<up, secret, holder, boot, pc, wait, spent, key, source, age, stalled, calm>>

Calm ==
    /\ ~calm
    /\ up
    /\ calm' = TRUE
    /\ UNCHANGED <<up, secret, token, holder, boot, pc, wait, spent, key, source, age, stalled>>

\* A login of the pod's own that it interrupts goes on as one of Others.
Restart ==
    /\ ~calm
    /\ Serving
    /\ holder \notin Providers
    /\ boot' = 1
    /\ pc' = [u \in Users |-> IF u \in Providers THEN "boot" ELSE pc[u]]
    /\ wait' = [p \in Providers |-> 0]
    /\ spent' = [u \in Users |-> IF u \in Providers THEN 0 ELSE spent[u]]
    /\ key' = [p \in Providers |-> 0]
    /\ source' = [p \in Providers |-> FALSE]
    /\ age' = [p \in Providers |-> 0]
    /\ stalled' = [p \in Providers |-> FALSE]
    /\ UNCHANGED <<up, secret, token, holder, calm>>

Work(p) ==
    \/ Run(p) \/ ensureToken(p) \/ login(p) \/ loginFails(p)
    \/ ReadProviderSecret(p) \/ ReadFails(p)

HangEnds(p) == HangFails(p) \/ LateAnswer(p)

OtherWork(o) == ensureToken(o) \/ login(o) \/ OtherFails(o)

Next ==
    \/ setupCredential \/ StartRun
    \/ \E p \in Providers : Work(p) \/ Hang(p) \/ HangEnds(p) \/ Rotate(p)
    \/ \E o \in Others : OtherCall(o) \/ OtherWork(o)
    \/ Tick \/ VaultChanges \/ TokenLost \/ Calm \/ Restart

Spec == Init /\ [][Next]_vars

(***************************************************************************)
(* Fairness: main, the refresh goroutines and control-plane's handlers     *)
(* run, a dead connection is found out, time passes however many calls     *)
(* others make, and Vault becomes reachable and is left alone for good at  *)
(* some point.                                                             *)
(***************************************************************************)
Fairness ==
    /\ WF_vars(setupCredential)
    /\ WF_vars(StartRun)
    /\ \A p \in Providers : WF_vars(Work(p)) /\ WF_vars(HangEnds(p))
    /\ \A o \in Others : WF_vars(OtherWork(o))
    /\ SF_vars(Tick)
    /\ WF_vars(VaultChanges /\ up')
    /\ SF_vars(Calm)

FairSpec == Spec /\ Fairness

(***************************************************************************)
(* Properties.                                                             *)
(***************************************************************************)

\* /readyz, apart from Redis.
readyz == Serving /\ \A p \in Registered : source[p]

(* A pod that says it is ready holds no key that Vault gave longer ago     *)
(* than MaxAge, unless a call for a key hung: a refresh that fails takes   *)
(* the pod out of service, and one that is slow, because it waits for the  *)
(* setup of other providers or behind the logins of all other users of the *)
(* Vault client, ends in time.  Nothing bounds the age while a call hangs. *)
ReadyMeansFresh ==
    readyz => \A p \in Registered : stalled[p] \/ age[p] <= MaxAge

(* The renewal buffer does what it is for: a Vault token does not expire   *)
(* between ensureToken and the end of the call it was fetched for.         *)
LeaseOutlivesRead ==
    \A p \in Providers : pc[p] = "read" => token.lease > 0

(* A key rotated in Vault reaches every registered adapter without a       *)
(* redeploy, and the pod becomes ready again, whatever outages and lost    *)
(* Vault tokens came before.                                               *)
RotationArrives ==
    <>[](readyz /\ \A p \in Registered : key[p] = secret[p])
=============================================================================
