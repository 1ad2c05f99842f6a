--------------------------- MODULE RegistryCache ---------------------------
(***************************************************************************)
(* The cache of signed manifests and active pointers that data-plane       *)
(* (model_registry) and edge-gateway (model_registry.rs) keep of etcd, for *)
(* one model_ref.  A watch delivers changes one by one; after a watch has  *)
(* failed everything is listed again and a new watch is opened.  In        *)
(* data-plane (Resyncs) a second task lists everything again on a timer.   *)
(* A listing is answered after a while, and every manifest in it waits for *)
(* Vault, so the two tasks and the writers of etcd interleave.             *)
(***************************************************************************)
EXTENDS Naturals, Sequences

CONSTANTS
    Versions,       \* version_ids of the model_ref
    Absent,         \* no value under a key
    Resyncs,        \* resync_forever runs: TRUE in data-plane, FALSE in edge-gateway
    MaxWrites       \* bound: changes made to etcd after the process has first booted

ASSUME CacheAssumption ==
    /\ Absent \notin Versions \cup {"good", "bad", "garbled", "alien"}
    /\ "active" \notin Versions
    /\ Resyncs \in BOOLEAN
    /\ MaxWrites \in Nat

\* What a manifest key holds: an envelope whose signature verifies, or does not;
\* what is no JSON at all; JSON that is not an envelope, such as a list.
Manifests == {"good", "bad", "garbled", "alien", Absent}

\* What the model_ref's keys hold.  Of the active envelope the stable version
\* is kept: the canary fields travel in the same value.
Contents == [active : Versions \cup {Absent}, manifests : [Versions -> Manifests]]

Nothing == [active |-> Absent, manifests |-> [v \in Versions |-> Absent]]

\* A watch event: the active key, or a manifest key, was put or deleted.
Events == [key : {"active"}, value : Versions \cup {Absent}]
          \cup [key : Versions, value : Manifests]

Tasks == {"watch_forever", "resync_forever"}

(***************************************************************************)
(* Where a task is.  listing: get_prefix is in flight; answered: etcd has  *)
(* read its keys (snap), the reply is on its way; verifying: manifests of  *)
(* the listing still to be verified (left); event: a watched manifest is   *)
(* being verified (the same fields).                                       *)
(***************************************************************************)
Steps == [pc : {"off", "sleep", "listing", "connect", "watching"}]
         \cup [pc : {"answered", "verifying", "event"}, snap : Contents, left : SUBSET Versions]

At(t, pc, task) == task[t].pc = pc

VARIABLES
    etcd,       \* the contents of etcd
    writes,     \* changes made so far
    cache,      \* _active and _manifests
    untrusted,  \* _untrusted
    task,       \* where each task is
    stream,     \* events of the open watch that are not delivered yet
    booted,     \* the initial sync_once is over: both tasks run
    calm        \* no connection fails and no process dies any more

vars == <<etcd, writes, cache, untrusted, task, stream, booted, calm>>

TypeOK ==
    /\ etcd \in Contents
    /\ writes \in 0..MaxWrites
    /\ cache \in Contents
    /\ untrusted \in SUBSET Versions
    /\ task \in [Tasks -> Steps]
    /\ stream \in Seq(Events)
    /\ booted \in BOOLEAN
    /\ calm \in BOOLEAN

\* A process boots on what control-plane has published, and, after a restart, on
\* what else was written since.  The boot sequence starts with a listing; it is
\* played by the watch task.
Init ==
    /\ etcd \in {c \in Contents : /\ c.active # Absent => c.manifests[c.active] = "good"
                                  /\ \A v \in Versions : c.manifests[v] \in {"good", Absent}}
    /\ writes = 0
    /\ cache = Nothing
    /\ untrusted = {}
    /\ task = [t \in Tasks |-> [pc |-> IF t = "watch_forever" THEN "listing" ELSE "off"]]
    /\ stream = << >>
    /\ booted = FALSE
    /\ calm = FALSE

Goto(t, next) == task' = [task EXCEPT ![t] = next]

(***************************************************************************)
(* control-plane (and whoever else has access) changes a key of etcd; an   *)
(* open watch gets the event.                                              *)
(***************************************************************************)
Change(event) ==
    /\ writes < MaxWrites
    /\ writes' = writes + 1
    /\ stream' = IF task["watch_forever"].pc \in {"watching", "event"}
                 THEN Append(stream, event) ELSE stream
    /\ UNCHANGED <<cache, untrusted, task, booted, calm>>

\* PublishManifest, or a bad direct write of the key, or its removal.
PutManifest(v, value) ==
    /\ etcd.manifests[v] # value
    /\ etcd' = [etcd EXCEPT !.manifests[v] = value]
    /\ Change([key |-> v, value |-> value])

\* PublishActive and PublishCanaryState (of a version that was published), or
\* the removal of the key.
PutActive(value) ==
    /\ etcd.active # value
    /\ value # Absent => etcd.manifests[value] = "good"
    /\ etcd' = [etcd EXCEPT !.active = value]
    /\ Change([key |-> "active", value |-> value])

(***************************************************************************)
(* sync_once: the listing, the reply, and a verification per manifest.     *)
(***************************************************************************)
\* What a task does after a sync_once.
AfterSync(t) == IF t = "watch_forever" THEN [pc |-> "connect"] ELSE [pc |-> "sleep"]

ListPrefix(t) ==
    /\ At(t, "listing", task)
    /\ Goto(t, [pc |-> "answered", snap |-> etcd,
                left |-> {v \in Versions : etcd.manifests[v] # Absent}])
    /\ UNCHANGED <<etcd, writes, cache, untrusted, stream, booted, calm>>

\* The tasks are created once the boot sequence has come to its end.
Proceed(t, left) ==
    IF left # {}
    THEN /\ Goto(t, [task[t] EXCEPT !.pc = "verifying", !.left = left])
         /\ UNCHANGED booted
    ELSE /\ booted' = TRUE
         /\ task' = [task EXCEPT ![t] = AfterSync(t),
                        !["resync_forever"] = IF t = "resync_forever" \/ (~booted /\ Resyncs)
                                              THEN [pc |-> "sleep"] ELSE @]

\* The reply is handled up to the first await: active keys come first.
HandleReply(t) ==
    /\ At(t, "answered", task)
    /\ untrusted' = {}
    /\ cache' = IF task[t].snap.active = Absent THEN cache
                ELSE [cache EXCEPT !.active = task[t].snap.active]
    /\ Proceed(t, task[t].left)
    /\ UNCHANGED <<etcd, writes, stream, calm>>

\* mutant: a verifier that cannot be reached counts as a yes
VerifyFailsOpen(value, reached) == ~reached \/ value = "good"

verify(value, reached) == reached /\ value = "good"

\* mutant: a refused update evicts what was trusted before
handle_manifest_kv_evicting(v, value, reached) ==
    IF verify(value, reached)
    THEN /\ cache' = [cache EXCEPT !.manifests[v] = value]
         /\ untrusted' = untrusted \ {v}
    ELSE /\ cache' = [cache EXCEPT !.manifests[v] = Absent]
         /\ untrusted' = untrusted \cup {v}

\* data-plane catches what is no JSON and asks any other value for its fields;
\* edge-gateway parses the whole envelope and ignores what is none.
Raises(value) == value = "alien" /\ Resyncs

\* An update that is refused is marked for the next listing, one that is ignored is not.
handle_manifest_kv(v, value, reached) ==
    /\ ~Raises(value)
    /\ IF verify(value, reached)
       THEN /\ cache' = [cache EXCEPT !.manifests[v] = value]
            /\ untrusted' = untrusted \ {v}
       ELSE /\ untrusted' = IF value \in {"garbled", "alien"} THEN untrusted ELSE untrusted \cup {v}
            /\ UNCHANGED cache

VerifyListed(t, reached) ==
    /\ At(t, "verifying", task)
    /\ \E v \in task[t].left :
         /\ handle_manifest_kv(v, task[t].snap.manifests[v], reached)
         /\ Proceed(t, task[t].left \ {v})
    /\ UNCHANGED <<etcd, writes, stream, calm>>

Die ==
    /\ cache' = Nothing
    /\ untrusted' = {}
    /\ task' = [t \in Tasks |-> [pc |-> IF t = "watch_forever" THEN "listing" ELSE "off"]]
    /\ stream' = << >>
    /\ booted' = FALSE

\* An exception ends a sync_once where it is: what is listed later is not looked
\* at.  Both tasks catch it; during boot it ends the process.
RaiseListed(t) ==
    /\ At(t, "verifying", task)
    /\ \E v \in task[t].left : Raises(task[t].snap.manifests[v])
    /\ \/ booted /\ Goto(t, AfterSync(t)) /\ UNCHANGED <<cache, untrusted, stream, booted>>
       \/ ~booted /\ Die
    /\ UNCHANGED <<etcd, writes, calm>>

(***************************************************************************)
(* watch_forever.                                                          *)
(***************************************************************************)
OpenWatch ==
    /\ At("watch_forever", "connect", task)
    /\ stream' = << >>      \* the watch starts at the present
    /\ Goto("watch_forever", [pc |-> "watching"])
    /\ UNCHANGED <<etcd, writes, cache, untrusted, booted, calm>>

Delivered(key) ==
    /\ At("watch_forever", "watching", task)
    /\ stream # << >>
    /\ Head(stream).key \in key
    /\ stream' = Tail(stream)

\* handle_active_kv, or handle_delete of an active key.
ActiveEvent ==
    /\ Delivered({"active"})
    /\ cache' = [cache EXCEPT !.active = Head(stream).value]
    /\ UNCHANGED <<etcd, writes, untrusted, task, booted, calm>>

\* handle_delete of a manifest key.
DeleteEvent ==
    /\ Delivered(Versions)
    /\ Head(stream).value = Absent
    /\ cache' = [cache EXCEPT !.manifests[Head(stream).key] = Absent]
    /\ untrusted' = untrusted \ {Head(stream).key}
    /\ UNCHANGED <<etcd, writes, task, booted, calm>>

ManifestEvent ==
    /\ Delivered(Versions)
    /\ Head(stream).value # Absent
    /\ Goto("watch_forever",
            [pc |-> "event", left |-> {Head(stream).key},
             snap |-> [Nothing EXCEPT !.manifests[Head(stream).key] = Head(stream).value]])
    /\ UNCHANGED <<etcd, writes, cache, untrusted, booted, calm>>

VerifyEvent(reached) ==
    /\ At("watch_forever", "event", task)
    /\ \E v \in task["watch_forever"].left :
         handle_manifest_kv(v, task["watch_forever"].snap.manifests[v], reached)
    /\ Goto("watch_forever", [pc |-> "watching"])
    /\ UNCHANGED <<etcd, writes, stream, booted, calm>>

\* The watch is given up for the listing that follows a failure.
RaiseEvent ==
    /\ At("watch_forever", "event", task)
    /\ \E v \in task["watch_forever"].left : Raises(task["watch_forever"].snap.manifests[v])
    /\ stream' = << >>
    /\ Goto("watch_forever", [pc |-> "sleep"])
    /\ UNCHANGED <<etcd, writes, cache, untrusted, booted, calm>>

\* mutant: nothing is listed again while every manifest seen is trusted
WakeWhenDegraded(t) ==
    /\ At(t, "sleep", task)
    /\ t = "watch_forever" \/ untrusted # {}
    /\ Goto(t, [pc |-> "listing"])
    /\ UNCHANGED <<etcd, writes, cache, untrusted, stream, booted, calm>>

\* The backoff of watch_forever and the delay of resync_forever end.
Wake(t) ==
    /\ At(t, "sleep", task)
    /\ Goto(t, [pc |-> "listing"])
    /\ UNCHANGED <<etcd, writes, cache, untrusted, stream, booted, calm>>

(***************************************************************************)
(* Faults.                                                                 *)
(***************************************************************************)
\* The watch cannot be opened, or breaks with what it has not delivered.
WatchFails ==
    /\ ~calm
    /\ task["watch_forever"].pc \in {"connect", "watching"}
    /\ stream' = << >>
    /\ Goto("watch_forever", [pc |-> "sleep"])
    /\ UNCHANGED <<etcd, writes, cache, untrusted, booted, calm>>

\* data-plane's watch ends without an error: it is opened again and nothing is
\* listed (edge-gateway treats an end like a failure).
WatchEnds ==
    /\ ~calm
    /\ Resyncs
    /\ At("watch_forever", "watching", task)
    /\ stream' = << >>
    /\ Goto("watch_forever", [pc |-> "connect"])
    /\ UNCHANGED <<etcd, writes, cache, untrusted, booted, calm>>

\* get_prefix returns an error; during boot this ends the process (Restart).
ListFails(t) ==
    /\ ~calm
    /\ booted
    /\ task[t].pc \in {"listing", "answered"}
    /\ Goto(t, AfterSync(t))
    /\ UNCHANGED <<etcd, writes, cache, untrusted, stream, booted, calm>>

Restart ==
    /\ ~calm
    /\ Die
    /\ UNCHANGED <<etcd, writes, calm>>

FaultsEnd ==
    /\ ~calm
    /\ calm' = TRUE
    /\ UNCHANGED <<etcd, writes, cache, untrusted, task, stream, booted>>

\* The steps of a task when Vault and etcd answer.
Work(t) == ListPrefix(t) \/ HandleReply(t) \/ VerifyListed(t, TRUE) \/ RaiseListed(t) \/ Wake(t)

Watch == OpenWatch \/ ActiveEvent \/ DeleteEvent \/ ManifestEvent \/ VerifyEvent(TRUE) \/ RaiseEvent

Next ==
    \/ \E v \in Versions, value \in Manifests : PutManifest(v, value)
    \/ \E value \in Versions \cup {Absent} : PutActive(value)
    \/ \E t \in Tasks : Work(t) \/ ListFails(t)
    \/ \E t \in Tasks : ~calm /\ VerifyListed(t, FALSE)
    \/ Watch
    \/ ~calm /\ VerifyEvent(FALSE)
    \/ WatchFails \/ WatchEnds \/ Restart \/ FaultsEnd

Spec == Init /\ [][Next]_vars

(***************************************************************************)
(* Fairness: the event loop schedules every task, a request to etcd or     *)
(* Vault is answered, sleeps end, and faults do not go on forever.         *)
(***************************************************************************)
FairSpec ==
    /\ Spec
    /\ \A t \in Tasks : WF_vars(Work(t))
    /\ WF_vars(Watch)
    /\ WF_vars(FaultsEnd)

(***************************************************************************)
(* Properties.                                                             *)
(***************************************************************************)

(* Nothing unverified is ever trusted, whatever is written to etcd, however *)
(* the two tasks interleave, and also while Vault cannot be reached.       *)
OnlyVerifiedIsTrusted == \A v \in Versions : cache.manifests[v] \in {"good", Absent}

(* Last known good: a running process stops trusting a manifest only       *)
(* because the watch has told it that the key was deleted.                 *)
LastKnownGood ==
    [][\A v \in Versions :
         (cache.manifests[v] = "good" /\ cache'.manifests[v] # "good" /\ booted')
         => (stream # << >> /\ Head(stream) = [key |-> v, value |-> Absent])]_vars

(* Once etcd stays as it is and faults are over, the cache comes to agree  *)
(* with every key that etcd holds and stays so: an event lost between a    *)
(* listing and the next watch, a stale listing handled after a newer       *)
(* event, and a manifest refused while Vault was away are all made good.   *)
(* The exception is a manifest key whose value is JSON but no envelope:    *)
(* while it stays, every listing of data-plane ends at it, what follows it *)
(* is not learnt, and a pod that boots does not get past it.  Once it is   *)
(* gone, that too is made good.                                            *)
Converges ==
    <>[](\A v \in Versions : ~Raises(etcd.manifests[v])) =>
        <>[](/\ etcd.active # Absent => cache.active = etcd.active
             /\ \A v \in Versions :
                  etcd.manifests[v] = "good" => cache.manifests[v] = "good")
=============================================================================
