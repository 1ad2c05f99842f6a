------------------------------ MODULE Registry ------------------------------
(***************************************************************************)
(* control-plane's registry behind its RPCs: RegisterModelManifest signs,  *)
(* inserts, publishes and activates a first version, call by call to       *)
(* Vault, CockroachDB and etcd; GetModelManifest verifies what it reads.   *)
(* The rollout RPCs are here for what they make live, statement by         *)
(* statement; Rollout has them with retries, percentages and automatic     *)
(* callers.                                                                *)
(***************************************************************************)
EXTENDS Naturals, Sequences, FiniteSets

CONSTANTS
    Calls,          \* RPCs; the version_id minted for a registration is its call
    ModelRefs,
    Home,           \* the model_ref that has a past: V0 is live, R0 was begun for V1
    V0, V1, R0,
    Last,           \* the last canary stage, after "pending" (0) and before "stable"
    Bypass,         \* the version_id of a row inserted by SQL, past the service
    NoVersion

ASSUME RegistryAssumption ==
    /\ IsFiniteSet(Calls)
    /\ Home \in ModelRefs
    /\ Last \in Nat \ {0}
    /\ V0 \notin {V1, Bypass, NoVersion} /\ V1 \notin {Bypass, NoVersion} /\ Bypass # NoVersion
    /\ {V0, V1, Bypass, NoVersion, R0} \cap Calls = {}

Versions == Calls \cup {V0, V1, Bypass}
RolloutIDs == Calls \cup {R0}       \* and the rollout_id of a CreateRollout

Manifest == [model_ref : ModelRefs, signature : {"vault", "other"}]

\* Control messages.
RegisterModelManifestRequest == [rpc : {"register"}, model_ref : ModelRefs]
CreateRolloutRequest == [rpc : {"create"}, model_ref : ModelRefs, version_id : Versions]
PromoteRolloutRequest == [rpc : {"promote"}, rollout_id : RolloutIDs]
AbortRolloutRequest == [rpc : {"abort"}, rollout_id : RolloutIDs]

ControlRequests ==
    RegisterModelManifestRequest \cup CreateRolloutRequest \cup PromoteRolloutRequest \cup AbortRolloutRequest

NoRequest == [rpc |-> "none"]

VARIABLES
    model_manifest, \* the rows, a partial function of Versions
    model_active,   \* model_ref -> active_version_id
    rollout,        \* the rows, a partial function of RolloutIDs
    manifest_keys,  \* etcd's manifest keys: model_ref and version_id
    active_keys,    \* model_ref -> the envelope under etcd's active prefix
    step,           \* where control-plane is with each call
    request,        \* the control request of each call
    seen,           \* what it has read and acts on later
    late            \* history: registrations begun when the model_ref was live

registryVars ==
    <<model_manifest, model_active, rollout, manifest_keys, active_keys, step, request, seen, late>>
tables == <<model_manifest, model_active, rollout>>
etcd == <<manifest_keys, active_keys>>

Steps == {"idle", "sign", "insert", "publish", "check", "activate", "point", "start", "running",
          "begin", "decide", "canary", "revert", "record", "ok", "failed"}

RolloutRow == [model_ref : ModelRefs, version_id : Versions, stable_version_id : Versions,
               stage : 0..(Last + 1), status : {"running", "promoted", "aborted"}]

\* What the caches of the data plane follow.
ActiveEnvelope(stable, canary) == [stable |-> stable, canary |-> canary]
Envelopes == [stable : Versions \cup {NoVersion}, canary : Versions \cup {NoVersion}]

RegistryTypeOK ==
    /\ DOMAIN model_manifest \subseteq Versions
    /\ \A v \in DOMAIN model_manifest : model_manifest[v] \in Manifest
    /\ model_active \in [ModelRefs -> Versions \cup {NoVersion}]
    /\ DOMAIN rollout \subseteq RolloutIDs
    /\ \A r \in DOMAIN rollout : rollout[r] \in RolloutRow
    /\ manifest_keys \subseteq ModelRefs \X Versions
    /\ active_keys \in [ModelRefs -> Envelopes]
    /\ step \in [Calls -> Steps]
    /\ request \in [Calls -> ControlRequests \cup {NoRequest}]
    /\ seen \in [Calls -> [stable : Versions \cup {NoVersion}, stage : 0..Last]]
    /\ late \subseteq Calls

RegistryInit ==
    /\ model_manifest = [v \in {V0, V1, Bypass} |->
                            [model_ref |-> Home, signature |-> IF v = Bypass THEN "other" ELSE "vault"]]
    /\ model_active = [m \in ModelRefs |-> IF m = Home THEN V0 ELSE NoVersion]
    /\ \E status \in {"running", "aborted"} :
         /\ rollout = [r \in {R0} |-> [model_ref |-> Home, version_id |-> V1, stable_version_id |-> V0,
                                        stage |-> Last, status |-> status]]
         /\ active_keys = [m \in ModelRefs |->
               ActiveEnvelope(model_active[m], IF m = Home /\ status = "running" THEN V1 ELSE NoVersion)]
    /\ manifest_keys = {<<Home, V0>>, <<Home, V1>>}
    /\ step = [c \in Calls |-> "idle"]
    /\ request = [c \in Calls |-> NoRequest]
    /\ seen = [c \in Calls |-> [stable |-> NoVersion, stage |-> 0]]
    /\ late = {}

Put(f, k, v) == [x \in DOMAIN f \cup {k} |-> IF x = k THEN v ELSE f[x]]

To(c, next) == step' = [step EXCEPT ![c] = next]

(***************************************************************************)
(* Reads.                                                                  *)
(***************************************************************************)
\* Vault verifies version_id|model_ref|spec_json against the row's signature.
Verify(v) == model_manifest[v].signature = "vault"

GetManifestByVersion(v) == IF v \in DOMAIN model_manifest THEN v ELSE NoVersion

GetActiveManifest(m) ==
    IF model_active[m] \in DOMAIN model_manifest THEN model_active[m] ELSE NoVersion

\* The error, or "nil" and the version that is returned.
GetModelManifest(m, v) ==
    LET found == IF v = NoVersion THEN GetActiveManifest(m) ELSE GetManifestByVersion(v)
    IN  CASE found = NoVersion -> [err |-> "ErrNotFound", version |-> NoVersion]
          [] found # NoVersion /\ ~Verify(found) -> [err |-> "ErrInvalidSignature", version |-> NoVersion]
          [] OTHER -> [err |-> "nil", version |-> found]

\* The status code of the RPC.
manifestStatus(err) ==
    CASE err = "ErrNotFound"         -> "NotFound"
      [] err = "ErrInvalidSignature" -> "FailedPrecondition"
      [] OTHER                       -> "OK"

HasActiveVersion(m) == model_active[m] # NoVersion

ListActive == {m \in ModelRefs : HasActiveVersion(m)}

ListModels == {[model_ref |-> m, active_version_id |-> model_active[m]] : m \in ListActive}

\* By id, or the newest of a model_ref.  started_at is not kept: R0 is the oldest,
\* and any of the others may be the newest.
GetMostRecentRolloutByModelRef(m) ==
    LET mine == {r \in DOMAIN rollout : rollout[r].model_ref = m}
    IN  IF mine \ {R0} # {} THEN mine \ {R0} ELSE mine

GetRolloutStatus(id, m) ==
    IF id # NoVersion THEN {id} \cap DOMAIN rollout ELSE GetMostRecentRolloutByModelRef(m)

\* Newest first, up to a limit of fifty or more: all of them here.
ListRollouts == DOMAIN rollout

\* The fields of the response that are not empty.
GetRolloutStatusResponse ==
    {"rollout_id", "model_ref", "version_id", "stage", "status", "canary_percent", "started_at", "ended_at"}

rolloutToProto(r) ==
    IF rollout[r].status = "running" THEN GetRolloutStatusResponse \ {"ended_at"} ELSE GetRolloutStatusResponse

(***************************************************************************)
(* RegisterModelManifest.  The handler of a call begins with an RPC.       *)
(***************************************************************************)
Begin(c, r) ==
    /\ step[c] = "idle"
    /\ request' = [request EXCEPT ![c] = r]
    /\ To(c, CASE r.rpc = "register" -> "sign"
               [] r.rpc = "create" -> "start"
               [] OTHER -> "decide")
    /\ late' = IF r.rpc = "register" /\ HasActiveVersion(r.model_ref) THEN late \cup {c} ELSE late
    /\ UNCHANGED <<tables, etcd, seen>>

Sign(c) ==
    /\ step[c] = "sign"
    /\ To(c, "insert")
    /\ UNCHANGED <<tables, etcd, request, seen, late>>

\* A write that is answered with an error may have been applied.
Answered(c, next) == To(c, next) \/ To(c, "failed")

\* mutant: the manifest is published after it has gone live
InsertManifestLast(c) ==
    /\ step[c] = "insert"
    /\ model_manifest' = Put(model_manifest, c, [model_ref |-> request[c].model_ref, signature |-> "vault"])
    /\ Answered(c, "check")
    /\ UNCHANGED <<model_active, rollout, etcd, request, seen, late>>

InsertManifest(c) ==
    /\ step[c] = "insert"
    /\ model_manifest' = Put(model_manifest, c, [model_ref |-> request[c].model_ref, signature |-> "vault"])
    /\ Answered(c, "publish")
    /\ UNCHANGED <<model_active, rollout, etcd, request, seen, late>>

PublishManifest(c) ==
    /\ step[c] = "publish"
    /\ manifest_keys' = manifest_keys \cup {<<request[c].model_ref, c>>}
    /\ Answered(c, "check")
    /\ UNCHANGED <<tables, active_keys, request, seen, late>>

\* mutant: every published version goes live
checkActiveNever(c) ==
    /\ step[c] = "check"
    /\ To(c, "activate")
    /\ UNCHANGED <<tables, etcd, request, seen, late>>

\* Only a first version goes live at once; the others wait for a rollout.
checkActive(c) ==
    /\ step[c] = "check"
    /\ To(c, IF HasActiveVersion(request[c].model_ref) THEN "ok" ELSE "activate")
    /\ UNCHANGED <<tables, etcd, request, seen, late>>

(***************************************************************************)
(* ActivateVersion, for a first version and for a rollout's promotion.     *)
(***************************************************************************)
rolloutOf(c) == IF request[c].rpc = "create" THEN c ELSE request[c].rollout_id

Target(c) ==
    IF request[c].rpc = "register" THEN [model_ref |-> request[c].model_ref, version_id |-> c]
    ELSE [model_ref  |-> rollout[rolloutOf(c)].model_ref,
          version_id |-> rollout[rolloutOf(c)].version_id]

SetActive(c) ==
    /\ step[c] = "activate"
    /\ model_active' = [model_active EXCEPT ![Target(c).model_ref] = Target(c).version_id]
    /\ Answered(c, "point")
    /\ UNCHANGED <<model_manifest, rollout, etcd, request, seen, late>>

PublishActive(c) ==
    /\ step[c] = "point"
    /\ active_keys' = [active_keys EXCEPT ![Target(c).model_ref] =
                          ActiveEnvelope(Target(c).version_id, NoVersion)]
    /\ Answered(c, IF request[c].rpc = "register" THEN "ok" ELSE "record")
    /\ UNCHANGED <<tables, manifest_keys, request, seen, late>>

(***************************************************************************)
(* CreateRollout: the target and the live version are verified, then there *)
(* must be no running rollout, then the row is inserted, and the first     *)
(* stage is entered as by a promote.                                       *)
(***************************************************************************)
CreateRollout(c) ==
    LET active == GetModelManifest(request[c].model_ref, NoVersion)
    IN  /\ step[c] = "start"
        /\ IF \/ GetModelManifest(request[c].model_ref, request[c].version_id).err # "nil"
              \/ active.err # "nil"
           THEN To(c, "failed") /\ UNCHANGED seen
           ELSE To(c, "running") /\ seen' = [seen EXCEPT ![c].stable = active.version]
        /\ UNCHANGED <<tables, etcd, request, late>>

GetRunningRolloutByModelRef(c) ==
    /\ step[c] = "running"
    /\ To(c, IF \E r \in DOMAIN rollout :
                   rollout[r].model_ref = request[c].model_ref /\ rollout[r].status = "running"
             THEN "failed" ELSE "begin")
    /\ UNCHANGED <<tables, etcd, request, seen, late>>

InsertRollout(c) ==
    /\ step[c] = "begin"
    /\ rollout' = Put(rollout, c, [model_ref |-> request[c].model_ref, version_id |-> request[c].version_id,
                                   stable_version_id |-> seen[c].stable, stage |-> 0, status |-> "running"])
    /\ Answered(c, "decide")
    /\ UNCHANGED <<model_manifest, model_active, etcd, request, seen, late>>

(***************************************************************************)
(* advanceStage and revertCanary: read the row, write etcd (or activate),  *)
(* and record it if the row is still as it was read.                       *)
(***************************************************************************)
GetRollout(c) ==
    LET id == rolloutOf(c)
    IN  /\ step[c] = "decide"
        /\ IF id \notin DOMAIN rollout \/ rollout[id].status # "running"
           THEN To(c, "failed") /\ UNCHANGED seen
           ELSE /\ seen' = [seen EXCEPT ![c].stage = rollout[id].stage]
                /\ To(c, CASE request[c].rpc = "abort" -> "revert"
                           [] request[c].rpc # "abort" /\ rollout[id].stage = Last -> "activate"
                           [] OTHER -> "canary")
        /\ UNCHANGED <<tables, etcd, request, late>>

PublishCanaryState(c) ==
    LET r == rollout[rolloutOf(c)]
    IN  /\ step[c] \in {"canary", "revert"}
        /\ active_keys' = [active_keys EXCEPT ![r.model_ref] =
                 ActiveEnvelope(r.stable_version_id, IF step[c] = "canary" THEN r.version_id ELSE NoVersion)]
        /\ Answered(c, "record")
        /\ UNCHANGED <<tables, manifest_keys, request, seen, late>>

\* The row after a revert, or after one stage more.
Recorded(r, rpc) ==
    IF rpc = "abort" THEN [r EXCEPT !.status = "aborted"]
    ELSE [r EXCEPT !.stage = r.stage + 1, !.status = IF r.stage = Last THEN "promoted" ELSE "running"]

\* WHERE rollout_id = $1 AND stage = $2 AND status = 'running'
UpdateRollout(c) ==
    LET id == rolloutOf(c)
    IN  /\ step[c] = "record"
        /\ IF rollout[id].stage = seen[c].stage /\ rollout[id].status = "running"
           THEN rollout' = [rollout EXCEPT ![id] = Recorded(rollout[id], request[c].rpc)] /\ Answered(c, "ok")
           ELSE To(c, "failed") /\ UNCHANGED rollout
        /\ UNCHANGED <<model_manifest, model_active, etcd, request, seen, late>>

(***************************************************************************)
(* Faults.                                                                 *)
(***************************************************************************)
\* spec_json or strategy_json is not JSON; Vault, the database or etcd refuses
\* before it does anything; the context ends; control-plane dies.
CallFails(c) ==
    /\ step[c] \in Steps \ {"idle", "ok", "failed"}
    /\ To(c, "failed")
    /\ UNCHANGED <<tables, etcd, request, seen, late>>

RegistryStep(c) ==
    \/ Sign(c) \/ InsertManifest(c) \/ PublishManifest(c) \/ checkActive(c) \/ SetActive(c)
    \/ PublishActive(c) \/ CreateRollout(c) \/ GetRunningRolloutByModelRef(c) \/ InsertRollout(c)
    \/ GetRollout(c) \/ PublishCanaryState(c) \/ UpdateRollout(c)

RegistryNext == \E c \in Calls : RegistryStep(c) \/ CallFails(c)

(***************************************************************************)
(* Properties.                                                             *)
(***************************************************************************)
\* What is served for a model_ref, by the table and by etcd's envelope.
Live(m) == {model_active[m], active_keys[m].stable, active_keys[m].canary} \ {NoVersion}

\* A rollout for m of a version of another model_ref, or of one whose registration
\* has not come to an OK: CreateRollout takes both, if their signature verifies.
Stray(m, v) ==
    /\ \E r \in DOMAIN rollout : rollout[r].model_ref = m /\ rollout[r].version_id = v
    /\ \/ model_manifest[v].model_ref # m
       \/ v \in Calls /\ step[v] # "ok"

(* A version that is live or a canary, in the table or in etcd, has a row  *)
(* signed by Vault, whatever failed on the way, whoever wrote rows past    *)
(* the service and however rollouts race; and a cache that follows the     *)
(* pointer finds its manifest under the key of that model_ref, unless a    *)
(* rollout was begun for a stray version.                                  *)
LiveIsDistributed ==
    \A m \in ModelRefs : \A v \in Live(m) :
        /\ v \in DOMAIN model_manifest
        /\ model_manifest[v].signature = "vault"
        /\ <<m, v>> \in manifest_keys \/ Stray(m, v)

(* Publishing never changes what is live: no step of a registration that   *)
(* began when its model_ref had a live version touches a pointer, although *)
(* the check comes three writes later.                                     *)
LateRegistrationIsInert ==
    [][\A c \in late : step'[c] # step[c] => UNCHANGED <<model_active, active_keys>>]_registryVars
=============================================================================
