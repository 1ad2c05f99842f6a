------------------------ MODULE RegistryCacheProofs ------------------------
(***************************************************************************)
(* What holds of a registry cache for any set of versions, any number of   *)
(* writes to etcd, with and without the resync task: its state is well     *)
(* typed, it never trusts a manifest that does not verify, and it forgets  *)
(* a trusted one only on a delete event.                                   *)
(***************************************************************************)
EXTENDS RegistryCache, TLAPS

\* The steps of a task that hold a listing.
Holding == [pc : {"answered", "verifying", "event"}, snap : Contents, left : SUBSET Versions]

\* The steps of a task that hold nothing.
Plain == [pc : {"off", "sleep", "listing", "connect", "watching"}]

\* A task that is past a reply of etcd holds a listing.
LEMMA Holds ==
  ASSUME NEW s \in Steps, s.pc \in {"answered", "verifying", "event"}
  PROVE  s \in Holding /\ s.snap \in Contents /\ s.left \in SUBSET Versions
  BY DEF Steps, Holding

\* What a put of a key leaves is a contents of etcd.
LEMMA Written ==
  ASSUME NEW c \in Contents
  PROVE  /\ \A a \in Versions \cup {Absent} : [c EXCEPT !.active = a] \in Contents
         /\ \A v \in Versions, x \in Manifests : [c EXCEPT !.manifests[v] = x] \in Contents
         /\ c.active \in Versions \cup {Absent} /\ c.manifests \in [Versions -> Manifests]
  <1>1. c.active \in Versions \cup {Absent} /\ c.manifests \in [Versions -> Manifests]
    BY DEF Contents
  <1>2. ASSUME NEW a \in Versions \cup {Absent} PROVE [c EXCEPT !.active = a] \in Contents
    BY DEF Contents
  <1>3. ASSUME NEW v \in Versions, NEW x \in Manifests PROVE [c EXCEPT !.manifests[v] = x] \in Contents
    <2>1. [c EXCEPT !.manifests[v] = x] = [c EXCEPT !.manifests = [c.manifests EXCEPT ![v] = x]]
      BY DEF Contents
    <2>2. [c.manifests EXCEPT ![v] = x] \in [Versions -> Manifests]
      BY <1>1
    <2>. QED BY <2>1, <2>2 DEF Contents
  <1>. QED BY <1>1, <1>2, <1>3

\* An empty cache is a contents of etcd.
LEMMA NothingTyped == Nothing \in Contents
  BY DEF Nothing, Contents, Manifests

\* An event of a manifest key is not one of the active key.
LEMMA EventParts ==
  ASSUME NEW e \in Events
  PROVE  /\ e.key = "active" => e.value \in Versions \cup {Absent}
         /\ e.key \in Versions => e.value \in Manifests /\ e = [key |-> e.key, value |-> e.value]
  BY CacheAssumption DEF Events

\* The first of the undelivered events is an event, and so are the others.
LEMMA FirstEvent ==
  ASSUME stream \in Seq(Events), stream # << >>
  PROVE  Head(stream) \in Events /\ Tail(stream) \in Seq(Events)
  OBVIOUS

\* Moving a task to a step keeps the tasks well typed.
LEMMA GotoTyped ==
  ASSUME task \in [Tasks -> Steps], NEW t \in Tasks, NEW next \in Steps, Goto(t, next)
  PROVE  task' \in [Tasks -> Steps]
  BY DEF Goto

\* The end of a listing, or its next verification, keeps the tasks well typed.
LEMMA ProceedTyped ==
  ASSUME task \in [Tasks -> Steps], booted \in BOOLEAN, NEW t \in Tasks, NEW left \in SUBSET Versions,
         task[t].pc \in {"answered", "verifying"}, Proceed(t, left)
  PROVE  task' \in [Tasks -> Steps] /\ booted' \in BOOLEAN /\ (booted => booted')
  <1>1. task[t] \in Holding
    BY Holds
  <1>2. CASE left # {}
    <2>1. [task[t] EXCEPT !.pc = "verifying", !.left = left] \in Steps
      BY <1>1 DEF Steps, Holding
    <2>. QED BY <1>2, <2>1, GotoTyped DEF Proceed
  <1>3. CASE left = {}
    <2>1. AfterSync(t) \in Steps /\ [pc |-> "sleep"] \in Steps
      BY DEF AfterSync, Steps
    <2>2. booted'
      BY <1>3 DEF Proceed
    <2>3. task' \in [Tasks -> Steps]
      BY <1>3, <2>1 DEF Proceed, Tasks
    <2>. QED BY <2>2, <2>3
  <1>. QED BY <1>2, <1>3

\* What handling a manifest can do: to trust it, if it verifies, or to distrust it.
LEMMA Handled ==
  ASSUME cache \in Contents, untrusted \in SUBSET Versions, NEW v \in Versions, NEW x \in Manifests,
         NEW reached \in BOOLEAN, handle_manifest_kv(v, x, reached)
  PROVE  /\ cache' \in Contents /\ untrusted' \in SUBSET Versions
         /\ \/ cache' = cache
            \/ /\ cache'.manifests = [cache.manifests EXCEPT ![v] = "good"]
               /\ cache'.active = cache.active
  <1>1. CASE verify(x, reached)
    <2>1. x = "good" /\ cache' = [cache EXCEPT !.manifests[v] = x] /\ untrusted' = untrusted \ {v}
      BY <1>1 DEF handle_manifest_kv, verify
    <2>2. cache' \in Contents
      BY <2>1, Written
    <2>3. cache'.manifests = [cache.manifests EXCEPT ![v] = "good"] /\ cache'.active = cache.active
      BY <2>1 DEF Contents
    <2>. QED BY <2>1, <2>2, <2>3
  <1>2. CASE ~verify(x, reached)
    BY <1>2 DEF handle_manifest_kv
  <1>. QED BY <1>1, <1>2

(***************************************************************************)
(* The steps, by what they do to the cache.                                *)
(***************************************************************************)
\* The cache trusts what it trusted, and what is new there verifies.
Learns ==
    \A v \in Versions : cache'.manifests[v] \in {cache.manifests[v], "good"}

\* The watch has told of a deletion, and nothing else is forgotten.
Told(v) == stream # << >> /\ Head(stream) = [key |-> v, value |-> Absent]
Forgets ==
    \A v \in Versions :
        cache'.manifests[v] = cache.manifests[v] \/ (Told(v) /\ cache'.manifests[v] = Absent)

\* The process has died.
Empties == cache' = Nothing /\ booted' = FALSE

\* Every step learns, forgets what was deleted, or empties the cache.
CacheMoves == Learns \/ Forgets \/ Empties

\* Changes of etcd reach the stream of an open watch, and no cache.
LEMMA WriteStep ==
  ASSUME TypeOK,
         \/ \E v \in Versions, x \in Manifests : PutManifest(v, x)
         \/ \E a \in Versions \cup {Absent} : PutActive(a)
  PROVE  TypeOK' /\ CacheMoves
  <1>1. ASSUME NEW e \in Events, Change(e), etcd' \in Contents PROVE TypeOK' /\ cache' = cache
    <2>1. writes' \in 0..MaxWrites
      BY <1>1, CacheAssumption DEF Change, TypeOK
    <2>2. stream' \in Seq(Events)
      BY <1>1 DEF Change, TypeOK
    <2>. QED BY <1>1, <2>1, <2>2 DEF Change, TypeOK
  <1>2. ASSUME NEW v \in Versions, NEW x \in Manifests, PutManifest(v, x) PROVE TypeOK' /\ cache' = cache
    <2>1. [key |-> v, value |-> x] \in Events
      BY DEF Events
    <2>2. etcd' \in Contents
      BY <1>2, Written DEF PutManifest, TypeOK
    <2>. QED BY <1>1, <1>2, <2>1, <2>2 DEF PutManifest
  <1>3. ASSUME NEW a \in Versions \cup {Absent}, PutActive(a) PROVE TypeOK' /\ cache' = cache
    <2>1. [key |-> "active", value |-> a] \in Events
      BY DEF Events
    <2>2. etcd' \in Contents
      BY <1>3, Written DEF PutActive, TypeOK
    <2>. QED BY <1>1, <1>3, <2>1, <2>2 DEF PutActive
  <1>. QED BY <1>2, <1>3 DEF CacheMoves, Learns

\* Steps that only move a task: a listing is read, a watch is opened, ends or
\* fails, a manifest event is taken up, a sleep ends, a listing fails.
LEMMA MoveStep ==
  ASSUME TypeOK,
         \/ \E t \in Tasks : ListPrefix(t) \/ Wake(t) \/ ListFails(t)
         \/ OpenWatch \/ ManifestEvent \/ WatchFails \/ WatchEnds \/ FaultsEnd
         \/ UNCHANGED vars
  PROVE  TypeOK' /\ CacheMoves
  <1>1. /\ [pc |-> "listing"] \in Steps /\ [pc |-> "watching"] \in Steps
        /\ [pc |-> "connect"] \in Steps /\ [pc |-> "sleep"] \in Steps /\ "watch_forever" \in Tasks
    BY DEF Steps, Tasks
  <1>a. task \in [Tasks -> Steps]
    BY DEF TypeOK
  <1>2. ASSUME NEW t \in Tasks, ListPrefix(t) PROVE TypeOK' /\ cache' = cache
    <2>1. [pc |-> "answered", snap |-> etcd, left |-> {v \in Versions : etcd.manifests[v] # Absent}] \in Steps
      BY DEF Steps, TypeOK
    <2>2. task' \in [Tasks -> Steps]
      BY <1>2, <2>1, GotoTyped DEF ListPrefix, TypeOK
    <2>. QED BY <1>2, <2>2 DEF ListPrefix, TypeOK
  <1>3. ASSUME NEW t \in Tasks, Wake(t) \/ ListFails(t) PROVE TypeOK' /\ cache' = cache
    <2>1. AfterSync(t) \in Steps
      BY <1>1 DEF AfterSync
    <2>2. task' \in [Tasks -> Steps]
      BY <1>1, <1>3, <2>1, GotoTyped DEF Wake, ListFails, TypeOK
    <2>. QED BY <1>3, <2>2 DEF Wake, ListFails, TypeOK
  <1>4. CASE OpenWatch \/ WatchFails \/ WatchEnds
    <2>1. task' \in [Tasks -> Steps]
      <3>1. \E next \in Steps : Goto("watch_forever", next)
        <4>1. CASE OpenWatch
          BY <1>1, <4>1 DEF OpenWatch
        <4>2. CASE WatchFails
          BY <1>1, <4>2 DEF WatchFails
        <4>3. CASE WatchEnds
          BY <1>1, <4>3 DEF WatchEnds
        <4>. QED BY <1>4, <4>1, <4>2, <4>3
      <3>. QED BY <1>1, <1>a, <3>1, GotoTyped
    <2>2. stream' \in Seq(Events)
      <3>1. stream' = << >>
        BY <1>4, Zenon DEF OpenWatch, WatchFails, WatchEnds
      <3>. QED BY <3>1
    <2>3. TypeOK' /\ cache' = cache
      BY <1>4, <2>1, <2>2 DEF OpenWatch, WatchFails, WatchEnds, TypeOK
    <2>. QED BY <2>3 DEF CacheMoves, Learns
  <1>5. CASE ManifestEvent
    <2>. DEFINE e == Head(stream)
    <2>1. e \in Events /\ stream' \in Seq(Events) /\ e.key \in Versions
      BY <1>5, FirstEvent DEF ManifestEvent, Delivered, TypeOK
    <2>2. [Nothing EXCEPT !.manifests[e.key] = e.value] \in Contents
      BY <2>1, EventParts, NothingTyped, Written
    <2>3. [pc |-> "event", left |-> {e.key},
           snap |-> [Nothing EXCEPT !.manifests[e.key] = e.value]] \in Steps
      BY <2>1, <2>2 DEF Steps
    <2>4. task' \in [Tasks -> Steps]
      BY <1>1, <1>5, <2>3, GotoTyped DEF ManifestEvent, TypeOK
    <2>5. TypeOK' /\ cache' = cache
      BY <1>5, <2>1, <2>4 DEF ManifestEvent, TypeOK
    <2>. QED BY <2>5 DEF CacheMoves, Learns
  <1>6. CASE FaultsEnd
    BY <1>6 DEF FaultsEnd, TypeOK, CacheMoves, Learns
  <1>7. CASE UNCHANGED vars
    BY <1>7 DEF vars, TypeOK, CacheMoves, Learns
  <1>8. (\E t \in Tasks : ListPrefix(t) \/ Wake(t) \/ ListFails(t)) => TypeOK' /\ CacheMoves
    BY <1>2, <1>3 DEF CacheMoves, Learns
  <1>. QED BY <1>4, <1>5, <1>6, <1>7, <1>8

\* A reply changes the active pointer at most.
LEMMA ReplyStep ==
  ASSUME TypeOK, NEW t \in Tasks, HandleReply(t)
  PROVE  TypeOK' /\ CacheMoves
  <1>1. task[t] \in Steps /\ task[t].pc = "answered"
    BY DEF HandleReply, At, TypeOK
  <1>2. task[t].snap \in Contents /\ task[t].left \in SUBSET Versions
    BY <1>1, Holds
  <1>3. task[t].snap.active \in Versions \cup {Absent}
    BY <1>2, Written
  <1>4. cache' \in Contents /\ cache'.manifests = cache.manifests
    <2>1. CASE task[t].snap.active = Absent
      BY <2>1 DEF HandleReply, TypeOK
    <2>2. CASE task[t].snap.active # Absent
      <3>1. cache' = [cache EXCEPT !.active = task[t].snap.active]
        BY <2>2 DEF HandleReply
      <3>2. cache' \in Contents
        BY <3>1, <1>3, Written DEF TypeOK
      <3>3. cache'.manifests = cache.manifests
        BY <3>1 DEF TypeOK, Contents
      <3>. QED BY <3>2, <3>3
    <2>. QED BY <2>1, <2>2
  <1>5. task' \in [Tasks -> Steps] /\ booted' \in BOOLEAN
    BY <1>1, <1>2, ProceedTyped DEF HandleReply, TypeOK
  <1>6. TypeOK'
    BY <1>4, <1>5 DEF HandleReply, TypeOK
  <1>. QED BY <1>4, <1>6 DEF CacheMoves, Learns

\* A verification trusts one manifest more, or leaves the cache as it is.
LEMMA VerifyStep ==
  ASSUME TypeOK, NEW reached \in BOOLEAN,
         (\E t \in Tasks : VerifyListed(t, reached)) \/ VerifyEvent(reached)
  PROVE  TypeOK' /\ CacheMoves
  <1>1. ASSUME NEW t \in Tasks, task[t].pc \in {"verifying", "event"}, NEW v \in task[t].left,
               handle_manifest_kv(v, task[t].snap.manifests[v], reached)
        PROVE  cache' \in Contents /\ untrusted' \in SUBSET Versions /\ Learns
    <2>1. task[t] \in Steps
      BY DEF TypeOK
    <2>2. task[t].snap \in Contents /\ v \in Versions
      BY <1>1, <2>1, Holds
    <2>3. task[t].snap.manifests[v] \in Manifests
      BY <2>2, Written
    <2>4. /\ cache' \in Contents /\ untrusted' \in SUBSET Versions
          /\ \/ cache' = cache
             \/ cache'.manifests = [cache.manifests EXCEPT ![v] = "good"]
      BY <1>1, <2>2, <2>3, Handled DEF TypeOK
    <2>5. cache.manifests \in [Versions -> Manifests]
      BY Written DEF TypeOK
    <2>. QED BY <2>4, <2>5 DEF Learns
  <1>2. ASSUME NEW t \in Tasks, VerifyListed(t, reached) PROVE TypeOK' /\ Learns
    <2>1. PICK v \in task[t].left :
             handle_manifest_kv(v, task[t].snap.manifests[v], reached) /\ Proceed(t, task[t].left \ {v})
      BY <1>2 DEF VerifyListed
    <2>2. task[t].pc = "verifying" /\ task[t] \in Steps
      BY <1>2 DEF VerifyListed, At, TypeOK
    <2>3. task[t].left \ {v} \in SUBSET Versions
      BY <2>2, Holds
    <2>4. task' \in [Tasks -> Steps] /\ booted' \in BOOLEAN
      BY <2>1, <2>2, <2>3, ProceedTyped DEF TypeOK
    <2>. QED BY <1>1, <1>2, <2>1, <2>2, <2>4 DEF VerifyListed, TypeOK
  <1>3. CASE VerifyEvent(reached)
    <2>. DEFINE w == "watch_forever"
    <2>1. PICK v \in task[w].left : handle_manifest_kv(v, task[w].snap.manifests[v], reached)
      BY <1>3 DEF VerifyEvent
    <2>2. task[w].pc = "event" /\ w \in Tasks /\ [pc |-> "watching"] \in Steps
      BY <1>3 DEF VerifyEvent, At, Tasks, Steps
    <2>3. task' \in [Tasks -> Steps]
      BY <1>3, <2>2, GotoTyped DEF VerifyEvent, TypeOK
    <2>4. cache' \in Contents /\ untrusted' \in SUBSET Versions /\ Learns
      BY <1>1, <2>1, <2>2
    <2>. QED BY <1>3, <2>3, <2>4 DEF VerifyEvent, TypeOK, CacheMoves
  <1>. QED BY <1>2, <1>3 DEF CacheMoves

\* An event of the active key moves the pointer; one of a deletion forgets.
LEMMA EventStep ==
  ASSUME TypeOK, ActiveEvent \/ DeleteEvent
  PROVE  TypeOK' /\ CacheMoves
  <1>. DEFINE e == Head(stream)
  <1>1. stream # << >> /\ e \in Events /\ stream' \in Seq(Events) /\ task' = task
    BY FirstEvent DEF ActiveEvent, DeleteEvent, Delivered, TypeOK
  <1>2. CASE ActiveEvent
    <2>1. e.key = "active"
      BY <1>2 DEF ActiveEvent, Delivered
    <2>2. e.value \in Versions \cup {Absent}
      BY <1>1, <2>1, EventParts
    <2>3. cache' = [cache EXCEPT !.active = e.value]
      BY <1>2 DEF ActiveEvent
    <2>4. cache' \in Contents
      BY <2>2, <2>3, Written DEF TypeOK
    <2>5. cache'.manifests = cache.manifests
      BY <2>3 DEF TypeOK, Contents
    <2>6. TypeOK'
      BY <1>1, <1>2, <2>4 DEF ActiveEvent, TypeOK
    <2>. QED BY <2>5, <2>6 DEF CacheMoves, Learns
  <1>3. CASE DeleteEvent
    <2>1. e.key \in Versions /\ e.value = Absent
      BY <1>3 DEF DeleteEvent, Delivered
    <2>2. e = [key |-> e.key, value |-> Absent] /\ Absent \in Manifests
      BY <1>1, <2>1, EventParts DEF Manifests
    <2>3. cache' = [cache EXCEPT !.manifests[e.key] = Absent]
      BY <1>3 DEF DeleteEvent
    <2>4. cache' \in Contents
      BY <2>1, <2>2, <2>3, Written DEF TypeOK
    <2>5. cache'.manifests = [cache.manifests EXCEPT ![e.key] = Absent]
      BY <2>3 DEF TypeOK, Contents
    <2>6. TypeOK'
      BY <1>1, <1>3, <2>4 DEF DeleteEvent, TypeOK
    <2>7. cache.manifests \in [Versions -> Manifests] /\ Told(e.key)
      BY <1>1, <2>2, Written DEF TypeOK, Told
    <2>8. Forgets
      BY <2>1, <2>5, <2>7 DEF Forgets
    <2>. QED BY <2>6, <2>8 DEF CacheMoves
  <1>. QED BY <1>2, <1>3

\* A process that dies empties the cache and boots again.
LEMMA DeathStep ==
  ASSUME TypeOK, Die, UNCHANGED <<etcd, writes, calm>>
  PROVE  TypeOK' /\ CacheMoves
  <1>1. task' \in [Tasks -> Steps]
    BY DEF Die, Steps, Tasks
  <1>2. stream' = << >> /\ stream' \in Seq(Events)
    BY DEF Die
  <1>. QED BY <1>1, <1>2, NothingTyped DEF Die, TypeOK, CacheMoves, Empties

\* An exception ends a listing or a watch, or the boot, and teaches nothing.
LEMMA RaiseStep ==
  ASSUME TypeOK, (\E t \in Tasks : RaiseListed(t)) \/ RaiseEvent
  PROVE  TypeOK' /\ CacheMoves
  <1>1. [pc |-> "sleep"] \in Steps /\ "watch_forever" \in Tasks /\ \A t : AfterSync(t) \in Steps
    BY DEF AfterSync, Steps, Tasks
  <1>2. ASSUME NEW t \in Tasks, RaiseListed(t) PROVE TypeOK' /\ CacheMoves
    <2>1. CASE booted /\ Goto(t, AfterSync(t)) /\ UNCHANGED <<cache, untrusted, stream, booted>>
      <3>1. task' \in [Tasks -> Steps]
        BY <1>1, <2>1, GotoTyped DEF TypeOK
      <3>2. TypeOK' /\ cache' = cache
        BY <1>2, <2>1, <3>1 DEF RaiseListed, TypeOK
      <3>. QED BY <3>2 DEF CacheMoves, Learns
    <2>2. CASE ~booted /\ Die
      BY <1>2, <2>2, DeathStep DEF RaiseListed
    <2>. QED BY <1>2, <2>1, <2>2 DEF RaiseListed
  <1>3. CASE RaiseEvent
    <2>1. task' \in [Tasks -> Steps]
      BY <1>1, <1>3, GotoTyped DEF RaiseEvent, TypeOK
    <2>2. stream' = << >> /\ stream' \in Seq(Events)
      BY <1>3 DEF RaiseEvent
    <2>3. TypeOK' /\ cache' = cache
      BY <1>3, <2>1, <2>2 DEF RaiseEvent, TypeOK
    <2>. QED BY <2>3 DEF CacheMoves, Learns
  <1>. QED BY <1>2, <1>3

\* TypeOK is inductive, and every step is one of CacheMoves.
LEMMA AnyStep == TypeOK /\ [Next]_vars => TypeOK' /\ CacheMoves
  <1>. SUFFICES ASSUME TypeOK, [Next]_vars PROVE TypeOK' /\ CacheMoves
    OBVIOUS
  <1>1. ASSUME NEW reached \in BOOLEAN, (\E t \in Tasks : VerifyListed(t, reached)) \/ VerifyEvent(reached)
        PROVE  TypeOK' /\ CacheMoves
    BY <1>1, VerifyStep
  <1>2. ASSUME NEW t \in Tasks, HandleReply(t) PROVE TypeOK' /\ CacheMoves
    BY <1>2, ReplyStep
  <1>3. CASE Restart
    BY <1>3, DeathStep DEF Restart
  <1>. QED BY <1>1, <1>2, <1>3, WriteStep, MoveStep, EventStep, RaiseStep DEF Next, Work, Watch

\* A booting cache is well typed.
LEMMA InitTyped == Init => TypeOK
  <1>. SUFFICES ASSUME Init PROVE TypeOK
    OBVIOUS
  <1>1. task \in [Tasks -> Steps]
    BY DEF Init, Steps, Tasks
  <1>2. stream = << >> /\ stream \in Seq(Events)
    BY DEF Init
  <1>3. etcd \in Contents /\ writes \in 0..MaxWrites
    BY CacheAssumption DEF Init
  <1>. QED BY <1>1, <1>2, <1>3, NothingTyped DEF Init, TypeOK

(***************************************************************************)
(* The theorems.                                                           *)
(***************************************************************************)
\* The state of a cache is well typed: a task holds a listing exactly while it
\* works on one, and watch events carry what their key can hold.
THEOREM CacheTypeCorrect == Spec => []TypeOK
  <1>1. TypeOK /\ [Next]_vars => TypeOK'
    BY AnyStep
  <1>. QED BY <1>1, InitTyped, PTL DEF Spec

\* Nothing unverified is ever trusted by data-plane's or edge-gateway's cache,
\* whatever is written to etcd and however its tasks interleave: every step
\* adds a verified manifest, drops a deleted one, or starts from nothing.
THEOREM TrustIsVerified == Spec => []OnlyVerifiedIsTrusted
  <1>. DEFINE Inv == TypeOK /\ OnlyVerifiedIsTrusted
  <1>1. Init => Inv
    BY InitTyped, CacheAssumption DEF Init, Nothing, OnlyVerifiedIsTrusted
  <1>2. Inv /\ [Next]_vars => Inv'
    <2>. SUFFICES ASSUME Inv, [Next]_vars PROVE Inv'
      OBVIOUS
    <2>1. TypeOK' /\ CacheMoves
      BY AnyStep
    <2>2. CASE Learns
      BY <2>1, <2>2 DEF Learns, OnlyVerifiedIsTrusted
    <2>3. CASE Forgets
      BY <2>1, <2>3, CacheAssumption DEF Forgets, OnlyVerifiedIsTrusted
    <2>4. CASE Empties
      BY <2>1, <2>4, CacheAssumption DEF Empties, Nothing, OnlyVerifiedIsTrusted
    <2>. QED BY <2>1, <2>2, <2>3, <2>4 DEF CacheMoves
  <1>3. Inv => OnlyVerifiedIsTrusted
    OBVIOUS
  <1>. QED BY <1>1, <1>2, <1>3, PTL DEF Spec

\* Last known good: a running cache stops trusting a manifest only on a delete
\* event of its key, never because a later update does not verify, Vault is
\* away, a listing leaves it out, or the watch is lost.
THEOREM KeepsLastKnownGood == Spec => LastKnownGood
  <1>. DEFINE Kept == \A v \in Versions :
                        (cache.manifests[v] = "good" /\ cache'.manifests[v] # "good" /\ booted')
                        => (stream # << >> /\ Head(stream) = [key |-> v, value |-> Absent])
  <1>1. TypeOK /\ [Next]_vars => [Kept]_vars
    <2>. SUFFICES ASSUME TypeOK, [Next]_vars PROVE Kept
      OBVIOUS
    <2>1. CacheMoves
      BY AnyStep
    <2>2. CASE Learns
      BY <2>2 DEF Learns
    <2>3. CASE Forgets
      BY <2>3 DEF Forgets, Told
    <2>4. CASE Empties
      BY <2>4 DEF Empties
    <2>. QED BY <2>1, <2>2, <2>3, <2>4 DEF CacheMoves
  <1>. QED BY <1>1, CacheTypeCorrect, PTL DEF Spec, LastKnownGood
=============================================================================
