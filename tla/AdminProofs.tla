---------------------------- MODULE AdminProofs ----------------------------
(***************************************************************************)
(* What holds of admin-api in front of control-plane's registry for any    *)
(* number of calls, users, model_refs, stages and selections: what is live *)
(* is distributed, only trusted calls act, the audit log tells the truth,  *)
(* and a query shows what was acknowledged before it.                      *)
(***************************************************************************)
EXTENDS Graph, TLAPS

(***************************************************************************)
(* Control-plane's side of a call.                                         *)
(***************************************************************************)
\* The requests that move a rollout: CreateRollout enters the first stage itself.
Moving == CreateRolloutRequest \cup PromoteRolloutRequest \cup AbortRolloutRequest

\* A call at a step has the request of that step; one that moves a rollout has
\* found its row; what a call is to insert is not there before.
StepFits(c) ==
    /\ step[c] = "idle" <=> request[c] = NoRequest
    /\ step[c] \in {"sign", "insert", "publish", "check"} => request[c] \in RegisterModelManifestRequest
    /\ step[c] \in {"start", "running", "begin"} => request[c] \in CreateRolloutRequest
    /\ step[c] \in {"running", "begin"} => seen[c].stable \in Versions
    /\ step[c] = "decide" => request[c] \in Moving
    /\ step[c] \in {"canary", "revert", "record"} => request[c] \in Moving /\ rolloutOf(c) \in DOMAIN rollout
    /\ step[c] \in {"activate", "point"} =>
          \/ request[c] \in RegisterModelManifestRequest
          \/ request[c] \in Moving /\ rolloutOf(c) \in DOMAIN rollout
    /\ step[c] \in {"idle", "sign", "insert"} => c \notin DOMAIN model_manifest
    /\ step[c] \in {"idle", "start", "running", "begin"} => c \notin DOMAIN rollout

\* A rollout that runs has not come to the stable stage.
StageFits == \A r \in DOMAIN rollout : rollout[r].status = "running" => rollout[r].stage \in 0..Last

RegistryTypes == RegistryTypeOK /\ StageFits /\ \A c \in Calls : StepFits(c)

\* The names of versions that are not calls are told apart.
LEMMA Names ==
  /\ V0 # V1 /\ V0 # Bypass /\ V1 # Bypass
  /\ NoVersion \notin Versions /\ V0 \notin Calls /\ V1 \notin Calls /\ Bypass \notin Calls /\ R0 \notin Calls
  BY RegistryAssumption DEF Versions

\* The fields of a control request.
LEMMA RequestParts ==
  ASSUME NEW r \in ControlRequests
  PROVE  /\ r.rpc \in {"register", "create", "promote", "abort"}
         /\ r.rpc = "register" <=> r \in RegisterModelManifestRequest
         /\ r.rpc = "create" <=> r \in CreateRolloutRequest
         /\ r.rpc = "promote" <=> r \in PromoteRolloutRequest
         /\ r.rpc = "abort" <=> r \in AbortRolloutRequest
         /\ r.rpc # "register" <=> r \in Moving
         /\ r \in RegisterModelManifestRequest \cup CreateRolloutRequest => r.model_ref \in ModelRefs
         /\ r \in CreateRolloutRequest => r.version_id \in Versions
         /\ r \in PromoteRolloutRequest \cup AbortRolloutRequest => r.rollout_id \in RolloutIDs
         /\ r # NoRequest
  BY DEF ControlRequests, RegisterModelManifestRequest, CreateRolloutRequest, PromoteRolloutRequest,
         AbortRolloutRequest, NoRequest, Moving

\* What every step of control-plane does to the steps of calls.
LEMMA RegistryMoves ==
  ASSUME RegistryTypes, NEW c \in Calls, RegistryStep(c) \/ CallFails(c)
  PROVE  /\ step[c] \notin {"idle", "ok", "failed"} /\ step'[c] # "idle" /\ step' \in [Calls -> Steps]
         /\ \A d \in Calls : d # c => step'[d] = step[d]
         /\ request' = request /\ late' = late /\ request[c] \in ControlRequests
  <1>1. step \in [Calls -> Steps] /\ request \in [Calls -> ControlRequests \cup {NoRequest}] /\ StepFits(c)
    BY DEF RegistryTypes, RegistryTypeOK
  <1>2. step[c] \notin {"idle", "ok", "failed"}
    BY <1>1 DEF RegistryStep, CallFails, Sign, InsertManifest, PublishManifest, checkActive, SetActive,
                PublishActive, CreateRollout, GetRunningRolloutByModelRef, InsertRollout, GetRollout,
                PublishCanaryState, UpdateRollout
  <1>3. request' = request /\ late' = late
    BY DEF RegistryStep, CallFails, Sign, InsertManifest, PublishManifest, checkActive, SetActive,
           PublishActive, CreateRollout, GetRunningRolloutByModelRef, InsertRollout, GetRollout,
           PublishCanaryState, UpdateRollout
  <1>4. \E n \in Steps \ {"idle"} : step' = [step EXCEPT ![c] = n]
    <2>1. CASE Sign(c) \/ checkActive(c) \/ CallFails(c) \/ GetRunningRolloutByModelRef(c)
      BY <2>1 DEF Sign, checkActive, CallFails, GetRunningRolloutByModelRef, To, Steps
    <2>2. CASE InsertManifest(c) \/ PublishManifest(c) \/ SetActive(c) \/ InsertRollout(c) \/ PublishCanaryState(c)
      BY <2>2 DEF InsertManifest, PublishManifest, SetActive, InsertRollout, PublishCanaryState, Answered, To, Steps
    <2>3. CASE CreateRollout(c)
      BY <2>3 DEF CreateRollout, To, Steps
    <2>4. CASE UpdateRollout(c)
      BY <2>4 DEF UpdateRollout, Answered, To, Steps
    <2>5. CASE PublishActive(c)
      BY <2>5 DEF PublishActive, Answered, To, Steps
    <2>6. CASE GetRollout(c)
      BY <2>6 DEF GetRollout, To, Steps
    <2>. QED BY <2>1, <2>2, <2>3, <2>4, <2>5, <2>6 DEF RegistryStep
  <1>. QED BY <1>1, <1>2, <1>3, <1>4 DEF StepFits

\* A version's row is inserted: only the row of the call is new.
LEMMA Inserts ==
  ASSUME RegistryTypes, NEW c \in Calls, InsertManifest(c)
  PROVE  /\ request[c] \in RegisterModelManifestRequest /\ c \notin DOMAIN model_manifest
         /\ DOMAIN model_manifest' = DOMAIN model_manifest \cup {c}
         /\ model_manifest'[c] = [model_ref |-> request[c].model_ref, signature |-> "vault"]
         /\ model_manifest'[c] \in Manifest
         /\ \A v \in DOMAIN model_manifest : model_manifest'[v] = model_manifest[v]
  <1>1. StepFits(c) /\ step[c] = "insert"
    BY DEF RegistryTypes, InsertManifest
  <1>2. /\ request[c] \in RegisterModelManifestRequest /\ request[c].model_ref \in ModelRefs
        /\ c \notin DOMAIN model_manifest
    BY <1>1 DEF StepFits, RegisterModelManifestRequest
  <1>. DEFINE row == [model_ref |-> request[c].model_ref, signature |-> "vault"]
  <1>3. model_manifest' = Put(model_manifest, c, row) /\ row \in Manifest
    BY <1>2 DEF InsertManifest, Manifest
  <1>4. /\ DOMAIN model_manifest' = DOMAIN model_manifest \cup {c}
        /\ model_manifest'[c] = row /\ model_manifest'[c] \in Manifest
        /\ \A v \in DOMAIN model_manifest : model_manifest'[v] = model_manifest[v]
    <2>. HIDE DEF row
    <2>. QED BY <1>2, <1>3, SMT DEF Put
  <1>. QED BY <1>2, <1>4

\* A version goes live under its model_ref: a first one, or the one of a rollout.
LEMMA Targets ==
  ASSUME RegistryTypes, NEW c \in Calls, step[c] \in {"activate", "point"}
  PROVE  /\ Target(c).model_ref \in ModelRefs /\ Target(c).version_id \in Versions
         /\ \/ request[c].rpc = "register" /\ request[c] \in RegisterModelManifestRequest
               /\ Target(c).version_id = c /\ Target(c).model_ref = request[c].model_ref
            \/ request[c].rpc # "register" /\ rolloutOf(c) \in DOMAIN rollout
               /\ Target(c).version_id = rollout[rolloutOf(c)].version_id
               /\ Target(c).model_ref = rollout[rolloutOf(c)].model_ref
  <1>1. StepFits(c)
    BY DEF RegistryTypes
  <1>2. CASE request[c] \in RegisterModelManifestRequest
    <2>1. request[c].rpc = "register" /\ request[c].model_ref \in ModelRefs
      BY <1>2 DEF RegisterModelManifestRequest
    <2>. QED BY <1>2, <2>1 DEF Target, Versions
  <1>3. CASE request[c] \in Moving /\ rolloutOf(c) \in DOMAIN rollout
    <2>1. request[c].rpc # "register"
      BY <1>3 DEF Moving, CreateRolloutRequest, PromoteRolloutRequest, AbortRolloutRequest
    <2>2. rollout[rolloutOf(c)] \in RolloutRow
      BY <1>3 DEF RegistryTypes, RegistryTypeOK
    <2>. QED BY <1>3, <2>1, <2>2 DEF Target, RolloutRow
  <1>. QED BY <1>1, <1>2, <1>3 DEF StepFits

\* Whether a version verifies.
Signed(v) == v \in DOMAIN model_manifest /\ model_manifest[v].signature = "vault"

\* What CreateRollout reads: a version that verifies, and the one that is live.
LEMMA Creates ==
  ASSUME RegistryTypes, NEW c \in Calls, CreateRollout(c), step'[c] # "failed"
  PROVE  /\ step[c] = "start" /\ step'[c] = "running" /\ request[c] \in CreateRolloutRequest
         /\ Signed(request[c].version_id)
         /\ seen'[c].stable = model_active[request[c].model_ref] /\ model_active[request[c].model_ref] \in Versions
         /\ \A d \in Calls : d # c => seen'[d] = seen[d]
         /\ seen' \in [Calls -> [stable : Versions \cup {NoVersion}, stage : 0..Last]]
  <1>. DEFINE m == request[c].model_ref
              active == GetModelManifest(m, NoVersion)
  <1>1. /\ step[c] = "start" /\ request[c] \in CreateRolloutRequest /\ step \in [Calls -> Steps]
        /\ seen \in [Calls -> [stable : Versions \cup {NoVersion}, stage : 0..Last]]
        /\ DOMAIN model_manifest \subseteq Versions
    BY DEF CreateRollout, RegistryTypes, RegistryTypeOK, StepFits
  <1>2. request[c].version_id \in Versions /\ request[c].version_id # NoVersion
    BY <1>1, Names DEF CreateRolloutRequest
  <1>3. /\ GetModelManifest(m, request[c].version_id).err = "nil" /\ active.err = "nil"
        /\ To(c, "running") /\ seen' = [seen EXCEPT ![c].stable = active.version]
    BY <1>1 DEF CreateRollout, To
  <1>4. Signed(request[c].version_id)
    BY <1>2, <1>3 DEF GetModelManifest, GetManifestByVersion, Verify, Signed
  <1>5. active.version = model_active[m] /\ model_active[m] \in DOMAIN model_manifest
    BY <1>3 DEF GetModelManifest, GetActiveManifest
  <1>. HIDE DEF active
  <1>6. /\ seen'[c].stable = model_active[m] /\ \A d \in Calls : d # c => seen'[d] = seen[d]
        /\ seen' \in [Calls -> [stable : Versions \cup {NoVersion}, stage : 0..Last]]
    BY <1>1, <1>3, <1>5
  <1>. QED BY <1>1, <1>3, <1>4, <1>5, <1>6 DEF To

\* A call keeps what it has read but at the reads of CreateRollout and GetRollout.
LEMMA SeenMoves ==
  ASSUME RegistryTypes, NEW c \in Calls, RegistryStep(c) \/ CallFails(c)
  PROVE  /\ seen' \in [Calls -> [stable : Versions \cup {NoVersion}, stage : 0..Last]]
         /\ \A d \in Calls : d # c => seen'[d] = seen[d]
         /\ step[c] # "start" => seen'[c].stable = seen[c].stable
  <1>1. seen \in [Calls -> [stable : Versions \cup {NoVersion}, stage : 0..Last]] /\ StageFits
    BY DEF RegistryTypes, RegistryTypeOK
  <1>2. CASE seen' = seen
    BY <1>1, <1>2
  <1>3. CASE CreateRollout(c) /\ seen' # seen
    <2>1. step'[c] # "failed" /\ step[c] = "start"
      BY <1>3 DEF CreateRollout, To, RegistryTypes, RegistryTypeOK
    <2>. QED BY <1>3, <2>1, Creates
  <1>4. CASE GetRollout(c) /\ seen' # seen
    <2>. DEFINE id == rolloutOf(c)
    <2>1. /\ id \in DOMAIN rollout /\ rollout[id].status = "running"
          /\ seen' = [seen EXCEPT ![c].stage = rollout[id].stage]
      BY <1>4 DEF GetRollout
    <2>2. rollout[id].stage \in 0..Last
      BY <1>1, <2>1 DEF StageFits
    <2>. HIDE DEF id
    <2>. QED BY <1>1, <2>1, <2>2
  <1>5. seen' = seen \/ CreateRollout(c) \/ GetRollout(c)
    BY DEF RegistryStep, CallFails, Sign, InsertManifest, PublishManifest, checkActive, SetActive,
           PublishActive, GetRunningRolloutByModelRef, InsertRollout, PublishCanaryState, UpdateRollout
  <1>. QED BY <1>2, <1>3, <1>4, <1>5

\* A rollout is inserted under its call's id.
LEMMA Opens ==
  ASSUME RegistryTypes, NEW c \in Calls, InsertRollout(c)
  PROVE  /\ step[c] = "begin" /\ request[c] \in CreateRolloutRequest /\ c \notin DOMAIN rollout
         /\ DOMAIN rollout' = DOMAIN rollout \cup {c}
         /\ \A r \in DOMAIN rollout : rollout'[r] = rollout[r]
         /\ rollout'[c] \in RolloutRow /\ rollout'[c].stage \in 0..Last
         /\ rollout'[c].model_ref = request[c].model_ref /\ rollout'[c].version_id = request[c].version_id
         /\ rollout'[c].stable_version_id = seen[c].stable
  <1>1. StepFits(c) /\ step[c] = "begin" /\ Last \in Nat
    BY RegistryAssumption DEF RegistryTypes, InsertRollout
  <1>2. request[c] \in CreateRolloutRequest /\ c \notin DOMAIN rollout /\ seen[c].stable \in Versions
    BY <1>1 DEF StepFits
  <1>3. request[c].model_ref \in ModelRefs /\ request[c].version_id \in Versions
    BY <1>2 DEF CreateRolloutRequest
  <1>. DEFINE row == [model_ref |-> request[c].model_ref, version_id |-> request[c].version_id,
                      stable_version_id |-> seen[c].stable, stage |-> 0, status |-> "running"]
  <1>4. /\ row \in RolloutRow /\ row.stage \in 0..Last
        /\ row.model_ref = request[c].model_ref /\ row.version_id = request[c].version_id
        /\ row.stable_version_id = seen[c].stable
    BY <1>1, <1>2, <1>3 DEF RolloutRow
  <1>5. rollout' = Put(rollout, c, row)
    BY DEF InsertRollout
  <1>. HIDE DEF row
  <1>6. /\ DOMAIN rollout' = DOMAIN rollout \cup {c} /\ rollout'[c] = row
        /\ \A r \in DOMAIN rollout : rollout'[r] = rollout[r]
    BY <1>2, <1>5, SMT DEF Put
  <1>. QED BY <1>1, <1>2, <1>4, <1>6

\* A rollout is moved on, or ended, if its row is as it was read.
LEMMA Records ==
  ASSUME RegistryTypes, NEW c \in Calls, UpdateRollout(c), rollout' # rollout \/ step'[c] # "failed"
  PROVE  LET id == rolloutOf(c)
         IN  /\ step[c] = "record" /\ step'[c] \in {"ok", "failed"} /\ id \in DOMAIN rollout
             /\ rollout' # rollout /\ DOMAIN rollout' = DOMAIN rollout
             /\ \A r \in DOMAIN rollout : r # id => rollout'[r] = rollout[r]
             /\ rollout'[id] \in RolloutRow
             /\ rollout'[id].status = "running" => rollout'[id].stage \in 0..Last
             /\ rollout'[id].model_ref = rollout[id].model_ref /\ rollout'[id].version_id = rollout[id].version_id
             /\ rollout'[id].stable_version_id = rollout[id].stable_version_id
  <1>. DEFINE id == rolloutOf(c)
              row == Recorded(rollout[id], request[c].rpc)
  <1>1. /\ StepFits(c) /\ step[c] = "record" /\ Last \in Nat /\ step \in [Calls -> Steps]
        /\ \A r \in DOMAIN rollout : rollout[r] \in RolloutRow
        /\ StageFits
    BY RegistryAssumption DEF RegistryTypes, RegistryTypeOK, UpdateRollout
  <1>2. id \in DOMAIN rollout /\ rollout[id] \in RolloutRow
    BY <1>1 DEF StepFits
  <1>3. rollout[id].status = "running" /\ rollout' = [rollout EXCEPT ![id] = row] /\ Answered(c, "ok")
    BY <1>1 DEF UpdateRollout, To
  <1>4. rollout[id].stage \in 0..Last
    BY <1>1, <1>2, <1>3 DEF StageFits
  <1>5. PICK x \in RolloutRow : x = rollout[id]
    BY <1>2
  <1>6. /\ row \in RolloutRow /\ row # rollout[id]
        /\ row.status = "running" => row.stage \in 0..Last
        /\ row.model_ref = rollout[id].model_ref /\ row.version_id = rollout[id].version_id
        /\ row.stable_version_id = rollout[id].stable_version_id
    <2>1. CASE request[c].rpc = "abort"
      <3>1. row = [x EXCEPT !.status = "aborted"] /\ x.status = "running"
        BY <1>3, <1>5, <2>1 DEF Recorded
      <3>. QED BY <1>5, <3>1 DEF RolloutRow
    <2>2. CASE request[c].rpc # "abort"
      <3>1. row = [x EXCEPT !.stage = x.stage + 1, !.status = IF x.stage = Last THEN "promoted" ELSE "running"]
        BY <1>5, <2>2 DEF Recorded
      <3>2. x.stage \in 0..Last
        BY <1>4, <1>5
      <3>. HIDE DEF row
      <3>3. row.stage = x.stage + 1 /\ row.stage \in 0..(Last + 1) /\ row.stage # x.stage
        BY <1>1, <3>1, <3>2 DEF RolloutRow
      <3>4. /\ row.model_ref = x.model_ref /\ row.version_id = x.version_id
            /\ row.stable_version_id = x.stable_version_id
            /\ row.status = IF x.stage = Last THEN "promoted" ELSE "running"
        BY <3>1 DEF RolloutRow
      <3>5. row \in RolloutRow
        BY <3>1, <3>3 DEF RolloutRow
      <3>6. row.status = "running" => row.stage \in 0..Last
        BY <1>1, <3>2, <3>3, <3>4
      <3>. QED BY <1>5, <3>3, <3>4, <3>5, <3>6
    <2>. QED BY <2>1, <2>2
  <1>. HIDE DEF row
  <1>7. step'[c] \in {"ok", "failed"}
    BY <1>1, <1>3 DEF Answered, To
  <1>8. DOMAIN rollout' = DOMAIN rollout /\ rollout'[id] = row /\ \A r \in DOMAIN rollout : r # id => rollout'[r] = rollout[r]
    BY <1>2, <1>3
  <1>. QED BY <1>1, <1>2, <1>6, <1>7, <1>8

\* Rollouts stay, with their model_ref and versions, and are well typed.
LEMMA RolloutsKept ==
  ASSUME RegistryTypes, NEW c \in Calls, RegistryStep(c) \/ CallFails(c)
  PROVE  /\ DOMAIN rollout \subseteq DOMAIN rollout' /\ DOMAIN rollout' \subseteq DOMAIN rollout \cup {c}
         /\ InsertRollout(c) \/ DOMAIN rollout' = DOMAIN rollout
         /\ \A r \in DOMAIN rollout' : rollout'[r] \in RolloutRow
         /\ StageFits'
         /\ \A r \in DOMAIN rollout : /\ rollout'[r].version_id = rollout[r].version_id
                                      /\ rollout'[r].model_ref = rollout[r].model_ref
                                      /\ rollout'[r].stable_version_id = rollout[r].stable_version_id
  <1>1. (\A r \in DOMAIN rollout : rollout[r] \in RolloutRow) /\ StageFits
    BY DEF RegistryTypes, RegistryTypeOK
  <1>2. CASE rollout' = rollout
    BY <1>1, <1>2 DEF StageFits
  <1>3. CASE InsertRollout(c)
    <2>1. StageFits'
      BY <1>1, <1>3, Opens DEF StageFits
    <2>. QED BY <1>1, <1>3, <2>1, Opens
  <1>4. CASE UpdateRollout(c) /\ rollout' # rollout
    <2>. DEFINE id == rolloutOf(c)
    <2>1. /\ id \in DOMAIN rollout /\ DOMAIN rollout' = DOMAIN rollout
          /\ \A r \in DOMAIN rollout : r # id => rollout'[r] = rollout[r]
          /\ rollout'[id] \in RolloutRow
          /\ rollout'[id].status = "running" => rollout'[id].stage \in 0..Last
          /\ rollout'[id].model_ref = rollout[id].model_ref /\ rollout'[id].version_id = rollout[id].version_id
          /\ rollout'[id].stable_version_id = rollout[id].stable_version_id
      BY <1>4, Records
    <2>. HIDE DEF id
    <2>2. StageFits'
      BY <1>1, <2>1 DEF StageFits
    <2>. QED BY <1>1, <2>1, <2>2
  <1>5. rollout' = rollout \/ InsertRollout(c) \/ UpdateRollout(c)
    BY DEF RegistryStep, CallFails, Sign, InsertManifest, PublishManifest, checkActive, SetActive,
           PublishActive, CreateRollout, GetRunningRolloutByModelRef, GetRollout, PublishCanaryState, tables
  <1>. QED BY <1>2, <1>3, <1>4, <1>5

\* What every step of control-plane does to the manifests, their keys and the
\* pointers: rows and keys are only added.
LEMMA TableMoves ==
  ASSUME RegistryTypes, NEW c \in Calls, RegistryStep(c) \/ CallFails(c)
  PROVE  /\ model_manifest' = model_manifest \/ InsertManifest(c)
         /\ manifest_keys' = manifest_keys \/ PublishManifest(c)
         /\ model_active' = model_active \/ SetActive(c)
         /\ active_keys' = active_keys \/ PublishActive(c) \/ PublishCanaryState(c)
  <1>1. CASE Sign(c) \/ checkActive(c) \/ CallFails(c) \/ GetRunningRolloutByModelRef(c)
    BY <1>1 DEF Sign, checkActive, CallFails, GetRunningRolloutByModelRef, tables, etcd
  <1>2. CASE InsertManifest(c) \/ PublishManifest(c)
    BY <1>2 DEF InsertManifest, PublishManifest, tables, etcd
  <1>3. CASE SetActive(c) \/ PublishActive(c) \/ PublishCanaryState(c)
    BY <1>3 DEF SetActive, PublishActive, PublishCanaryState, tables, etcd
  <1>4. CASE CreateRollout(c) \/ GetRollout(c)
    BY <1>4 DEF CreateRollout, GetRollout, tables, etcd
  <1>5. CASE InsertRollout(c) \/ UpdateRollout(c)
    BY <1>5 DEF InsertRollout, UpdateRollout, etcd
  <1>. QED BY <1>1, <1>2, <1>3, <1>4, <1>5 DEF RegistryStep

\* Where a step of control-plane leads, from where it starts.
LEMMA StepMoves ==
  ASSUME RegistryTypes, NEW c \in Calls, RegistryStep(c) \/ CallFails(c)
  PROVE  \/ step'[c] = "failed"
         \/ step[c] = "sign" /\ step'[c] = "insert"
         \/ InsertManifest(c) /\ step[c] = "insert" /\ step'[c] = "publish"
         \/ PublishManifest(c) /\ step[c] = "publish" /\ step'[c] = "check"
         \/ step[c] = "check" /\ step'[c] = "ok"
         \/ step[c] = "check" /\ step'[c] = "activate" /\ ~HasActiveVersion(request[c].model_ref)
         \/ SetActive(c) /\ step[c] = "activate" /\ step'[c] = "point"
         \/ PublishActive(c) /\ step[c] = "point" /\ step'[c] = "ok" /\ request[c].rpc = "register"
         \/ PublishActive(c) /\ step[c] = "point" /\ step'[c] = "record" /\ request[c].rpc # "register"
         \/ CreateRollout(c) /\ step[c] = "start" /\ step'[c] = "running"
         \/ step[c] = "running" /\ step'[c] = "begin"
         \/ InsertRollout(c) /\ step[c] = "begin" /\ step'[c] = "decide"
         \/ step[c] = "decide" /\ step'[c] \in {"revert", "canary", "activate"} /\ rolloutOf(c) \in DOMAIN rollout
         \/ PublishCanaryState(c) /\ step[c] \in {"canary", "revert"} /\ step'[c] = "record"
         \/ UpdateRollout(c) /\ step[c] = "record" /\ step'[c] = "ok"
  <1>1. step \in [Calls -> Steps] /\ StepFits(c)
    BY DEF RegistryTypes, RegistryTypeOK
  <1>2. CASE Sign(c) \/ CallFails(c)
    BY <1>1, <1>2 DEF Sign, CallFails, To
  <1>3. CASE checkActive(c)
    BY <1>1, <1>3 DEF checkActive, To
  <1>4. CASE InsertManifest(c)
    BY <1>1, <1>4 DEF InsertManifest, Answered, To
  <1>5. CASE PublishManifest(c)
    BY <1>1, <1>5 DEF PublishManifest, Answered, To
  <1>6. CASE SetActive(c)
    BY <1>1, <1>6 DEF SetActive, Answered, To
  <1>7. CASE PublishActive(c)
    BY <1>1, <1>7 DEF PublishActive, Answered, To
  <1>8. CASE CreateRollout(c)
    BY <1>1, <1>8 DEF CreateRollout, To
  <1>9. CASE GetRunningRolloutByModelRef(c)
    BY <1>1, <1>9 DEF GetRunningRolloutByModelRef, To
  <1>10. CASE InsertRollout(c)
    BY <1>1, <1>10 DEF InsertRollout, Answered, To
  <1>11. CASE GetRollout(c)
    BY <1>1, <1>11 DEF GetRollout, To
  <1>12. CASE PublishCanaryState(c)
    BY <1>1, <1>12 DEF PublishCanaryState, Answered, To
  <1>13. CASE UpdateRollout(c)
    <2>1. step[c] = "record" /\ (Answered(c, "ok") \/ To(c, "failed"))
      BY <1>13 DEF UpdateRollout
    <2>. QED BY <1>1, <1>13, <2>1 DEF Answered, To
  <1>. QED BY <1>2, <1>3, <1>4, <1>5, <1>6, <1>7, <1>8, <1>9, <1>10, <1>11, <1>12, <1>13 DEF RegistryStep

\* A canary step publishes the versions of its rollout's row.
LEMMA Canaries ==
  ASSUME RegistryTypes, NEW c \in Calls, PublishCanaryState(c)
  PROVE  LET r == rollout[rolloutOf(c)]
         IN  /\ rolloutOf(c) \in DOMAIN rollout /\ r \in RolloutRow
             /\ active_keys' \in [ModelRefs -> Envelopes]
             /\ \A m \in ModelRefs : m # r.model_ref => active_keys'[m] = active_keys[m]
             /\ active_keys'[r.model_ref].stable = r.stable_version_id
             /\ active_keys'[r.model_ref].canary \in {r.version_id, NoVersion}
  <1>. DEFINE r == rollout[rolloutOf(c)]
              e == ActiveEnvelope(r.stable_version_id, IF step[c] = "canary" THEN r.version_id ELSE NoVersion)
  <1>1. StepFits(c) /\ step[c] \in {"canary", "revert"} /\ active_keys \in [ModelRefs -> Envelopes]
    BY DEF RegistryTypes, RegistryTypeOK, PublishCanaryState
  <1>2. rolloutOf(c) \in DOMAIN rollout /\ r \in RolloutRow
    BY <1>1 DEF StepFits, RegistryTypes, RegistryTypeOK
  <1>3. active_keys' = [active_keys EXCEPT ![r.model_ref] = e]
    BY DEF PublishCanaryState
  <1>. HIDE DEF r
  <1>4. e \in Envelopes /\ e.stable = r.stable_version_id /\ e.canary \in {r.version_id, NoVersion} /\ r.model_ref \in ModelRefs
    BY <1>2 DEF ActiveEnvelope, Envelopes, RolloutRow
  <1>. HIDE DEF e
  <1>5. /\ active_keys' \in [ModelRefs -> Envelopes] /\ active_keys'[r.model_ref] = e
        /\ \A m \in ModelRefs : m # r.model_ref => active_keys'[m] = active_keys[m]
    BY <1>1, <1>3, <1>4
  <1>. QED BY <1>2, <1>4, <1>5 DEF r

\* An activation publishes its target alone.
LEMMA Points ==
  ASSUME RegistryTypes, NEW c \in Calls, PublishActive(c)
  PROVE  /\ step[c] = "point" /\ active_keys' \in [ModelRefs -> Envelopes]
         /\ \A m \in ModelRefs : m # Target(c).model_ref => active_keys'[m] = active_keys[m]
         /\ active_keys'[Target(c).model_ref].stable = Target(c).version_id
         /\ active_keys'[Target(c).model_ref].canary = NoVersion
  <1>. DEFINE t == Target(c)
              e == ActiveEnvelope(t.version_id, NoVersion)
  <1>1. step[c] = "point" /\ active_keys \in [ModelRefs -> Envelopes]
    BY DEF RegistryTypes, RegistryTypeOK, PublishActive
  <1>2. t.model_ref \in ModelRefs /\ t.version_id \in Versions
    BY <1>1, Targets
  <1>3. active_keys' = [active_keys EXCEPT ![t.model_ref] = e]
    BY DEF PublishActive
  <1>. HIDE DEF t
  <1>4. e \in Envelopes /\ e.stable = t.version_id /\ e.canary = NoVersion
    BY <1>2 DEF ActiveEnvelope, Envelopes
  <1>. HIDE DEF e
  <1>5. /\ active_keys' \in [ModelRefs -> Envelopes] /\ active_keys'[t.model_ref] = e
        /\ \A m \in ModelRefs : m # t.model_ref => active_keys'[m] = active_keys[m]
    BY <1>1, <1>2, <1>3, <1>4
  <1>. QED BY <1>1, <1>4, <1>5 DEF t

\* Control-plane keeps its types and the fit of steps and requests.
LEMMA RegistryTypesKept ==
  ASSUME RegistryTypes, NEW c \in Calls, RegistryStep(c) \/ CallFails(c)
  PROVE  RegistryTypes'
  <1>1. /\ step \in [Calls -> Steps] /\ step' \in [Calls -> Steps] /\ step'[c] # "idle" /\ step[c] # "idle"
        /\ \A d \in Calls : d # c => step'[d] = step[d]
        /\ request' = request /\ late' = late /\ request[c] \in ControlRequests
    BY RegistryMoves DEF RegistryTypes, RegistryTypeOK
  <1>2. DOMAIN model_manifest' \subseteq DOMAIN model_manifest \cup {c}
    BY TableMoves, Inserts
  <1>3. \A v \in DOMAIN model_manifest' : model_manifest'[v] \in Manifest
    <2>1. CASE model_manifest' = model_manifest
      BY <2>1 DEF RegistryTypes, RegistryTypeOK
    <2>2. CASE InsertManifest(c)
      BY <2>2, Inserts DEF RegistryTypes, RegistryTypeOK
    <2>. QED BY <2>1, <2>2, TableMoves
  <1>4. /\ DOMAIN rollout \subseteq DOMAIN rollout' /\ DOMAIN rollout' \subseteq DOMAIN rollout \cup {c}
        /\ InsertRollout(c) \/ DOMAIN rollout' = DOMAIN rollout
        /\ \A r \in DOMAIN rollout' : rollout'[r] \in RolloutRow
        /\ StageFits'
    BY RolloutsKept
  <1>5. manifest_keys' \subseteq ModelRefs \X Versions
    <2>1. CASE PublishManifest(c)
      <3>1. request[c] \in RegisterModelManifestRequest
        BY <2>1 DEF PublishManifest, RegistryTypes, StepFits
      <3>2. request[c].model_ref \in ModelRefs /\ c \in Versions
        BY <3>1 DEF RegisterModelManifestRequest, Versions
      <3>. QED BY <2>1, <3>2 DEF PublishManifest, RegistryTypes, RegistryTypeOK
    <2>. QED BY <2>1, TableMoves DEF RegistryTypes, RegistryTypeOK
  <1>6. model_active' \in [ModelRefs -> Versions \cup {NoVersion}]
    <2>1. CASE SetActive(c)
      BY <2>1, Targets DEF SetActive, RegistryTypes, RegistryTypeOK
    <2>. QED BY <2>1, TableMoves DEF RegistryTypes, RegistryTypeOK
  <1>7. active_keys' \in [ModelRefs -> Envelopes]
    BY Points, Canaries, TableMoves DEF RegistryTypes, RegistryTypeOK
  <1>8. /\ seen' \in [Calls -> [stable : Versions \cup {NoVersion}, stage : 0..Last]]
        /\ \A d \in Calls : d # c => seen'[d] = seen[d]
        /\ step[c] # "start" => seen'[c].stable = seen[c].stable
    BY SeenMoves
  <1>9. RegistryTypeOK'
    BY <1>1, <1>2, <1>3, <1>4, <1>5, <1>6, <1>7, <1>8 DEF RegistryTypes, RegistryTypeOK, Versions, RolloutIDs
  <1>10. ASSUME NEW d \in Calls, d # c PROVE StepFits(d)'
    <2>1. StepFits(d) /\ rolloutOf(d)' = rolloutOf(d)
      BY <1>1 DEF RegistryTypes, rolloutOf
    <2>. QED BY <1>1, <1>2, <1>4, <1>8, <1>10, <2>1 DEF StepFits
  <1>11. StepFits(c)'
    <2>1. StepFits(c) /\ request[c] # NoRequest /\ rolloutOf(c)' = rolloutOf(c)
      BY <1>1, RequestParts DEF RegistryTypes, rolloutOf
    <2>2. step'[c] = "insert" => step[c] = "sign" /\ DOMAIN model_manifest' = DOMAIN model_manifest
      <3>1. step'[c] = "insert" => step[c] = "sign"
        BY StepMoves
      <3>2. step[c] = "sign" => model_manifest' = model_manifest
        BY TableMoves DEF InsertManifest
      <3>. QED BY <3>1, <3>2
    <2>3. step'[c] \notin {"idle", "sign", "start"}
      BY <1>1, StepMoves
    <2>4. step'[c] \in {"insert", "publish", "check"} => step[c] \in {"sign", "insert", "publish"}
      BY StepMoves
    <2>5. step'[c] = "running" => seen'[c].stable \in Versions /\ step[c] = "start"
      <3>1. step'[c] = "running" => CreateRollout(c) /\ step'[c] # "failed" /\ step[c] = "start"
        BY StepMoves
      <3>. QED BY <3>1, Creates
    <2>6. step'[c] = "begin" => step[c] = "running"
      BY StepMoves
    <2>7. step'[c] \in {"running", "begin"} => DOMAIN rollout' = DOMAIN rollout
      BY <1>4, <2>5, <2>6 DEF InsertRollout
    <2>8. step'[c] = "decide" => step[c] = "begin"
      BY StepMoves
    <2>9. step'[c] \in {"canary", "revert"} => step[c] = "decide" /\ rolloutOf(c) \in DOMAIN rollout
      BY StepMoves
    <2>10. step'[c] = "record" => step[c] \in {"canary", "revert"} \/ (step[c] = "point" /\ request[c].rpc # "register")
      BY StepMoves
    <2>11. step'[c] = "activate" => step[c] = "check" \/ (step[c] = "decide" /\ rolloutOf(c) \in DOMAIN rollout)
      BY StepMoves
    <2>12. step'[c] = "point" => step[c] = "activate"
      BY StepMoves
    <2>13. /\ request[c] \in CreateRolloutRequest => request[c] \in Moving
           /\ request[c] \in RegisterModelManifestRequest => request[c].rpc = "register"
      BY DEF Moving, RegisterModelManifestRequest
    <2>14. step'[c] \in {"insert", "publish", "check"} => request[c] \in RegisterModelManifestRequest
      BY <2>1, <2>4 DEF StepFits
    <2>15. /\ step'[c] \in {"running", "begin"} => request[c] \in CreateRolloutRequest /\ seen'[c].stable \in Versions
                                                   /\ c \notin DOMAIN rollout'
           /\ step'[c] = "decide" => request[c] \in Moving
      BY <1>8, <2>1, <2>5, <2>6, <2>7, <2>8, <2>13 DEF StepFits
    <2>16. step'[c] \in {"canary", "revert", "record"} => request[c] \in Moving /\ rolloutOf(c) \in DOMAIN rollout'
      BY <1>4, <2>1, <2>9, <2>10, <2>13 DEF StepFits
    <2>17. step'[c] \in {"activate", "point"} =>
             \/ request[c] \in RegisterModelManifestRequest
             \/ request[c] \in Moving /\ rolloutOf(c) \in DOMAIN rollout'
      BY <1>4, <2>1, <2>11, <2>12 DEF StepFits
    <2>. QED BY <1>1, <2>1, <2>2, <2>3, <2>14, <2>15, <2>16, <2>17 DEF StepFits
  <1>. QED BY <1>4, <1>9, <1>10, <1>11 DEF RegistryTypes

(***************************************************************************)
(* The inductive invariant: control-plane's types, and what ties a call in *)
(* admin-api to its request there and to the tables.                       *)
(***************************************************************************)
AdminTypes ==
    /\ pc \in [Calls -> {"new", "authz", "handler", "wait", "audit", "done"}]
    /\ call \in [Calls -> [user : Users \cup {NoOne}, command : Commands \cup {NoCommand}]]
    /\ outcome \in [Calls -> {"none", "ok", "error"}]
    /\ reply \in [Calls -> {"none", "ok", "error", "Unauthenticated", "PermissionDenied"}]
    /\ revoked \subseteq Users
    /\ DOMAIN api_keys \subseteq Keys
    /\ \A k \in DOMAIN api_keys : api_keys[k] \in {"active", "revoked"}
    /\ audit_log \in Seq(Row)
    /\ trusted \subseteq Calls
    /\ acted \subseteq Calls

method(c) == call[c].command.method

\* A call that got past authentication.
Known(c) == call[c] \in [user : Users, command : Commands]

\* The request in control-plane is the one the command makes.
SameCall(c) ==
    /\ request[c].rpc = "register" <=> method(c) = "PublishModelVersion"
    /\ request[c].rpc = "create" <=> method(c) = "StartRollout"
    /\ request[c].rpc = "promote" <=> method(c) = "PromoteRollout"
    /\ request[c].rpc = "abort" <=> method(c) = "AbortRollout"

CallFits(c) ==
    /\ pc[c] \in {"authz", "handler", "wait", "audit"} \/ step[c] # "idle" \/ outcome[c] # "none" => Known(c)
    /\ pc[c] \in {"new", "authz", "handler"} => step[c] = "idle" /\ c \notin DOMAIN api_keys
    /\ pc[c] \in {"new", "authz", "handler", "wait"} => outcome[c] = "none"
    /\ pc[c] = "wait" => step[c] # "idle"
    /\ pc[c] # "done" => reply[c] = "none"
    /\ reply[c] = "ok" => outcome[c] = "ok"
    /\ step[c] # "idle" => SameCall(c)

\* Only an unrevoked admin's call gets past authorization, and to control-plane.
TrustFits(c) ==
    /\ pc[c] = "authz" /\ Role[call[c].user] = "admin" => c \in trusted
    /\ pc[c] \in {"handler", "wait", "audit"} \/ step[c] # "idle" \/ c \in acted => c \in trusted

\* What a call has done by the time it has come so far.
EffectFits(c) ==
    /\ request[c].rpc = "register" /\ step[c] \in {"publish", "check", "activate", "point", "ok"} =>
          Signed(c) /\ c \in acted
    /\ request[c].rpc = "register" /\ step[c] \in {"check", "activate", "point", "ok"} =>
          <<request[c].model_ref, c>> \in manifest_keys
    /\ step[c] = "ok" => c \in acted
    /\ c \in DOMAIN model_manifest => /\ request[c].rpc = "register"
                                      /\ model_manifest[c].model_ref = request[c].model_ref
    /\ outcome[c] = "ok" =>
          /\ method(c) \notin {"CreateApiKey", "RevokeApiKey"} => step[c] = "ok"
          /\ method(c) = "CreateApiKey" => c \in DOMAIN api_keys
          /\ method(c) = "RevokeApiKey" => /\ call[c].command.key_id \in DOMAIN api_keys
                                           /\ api_keys[call[c].command.key_id] = "revoked"
          /\ method(c) \in {"CreateApiKey", "RevokeApiKey"} => c \in acted

\* A late registration will not go live.
LateFits(c) ==
    c \in late => /\ request[c] \in RegisterModelManifestRequest
                  /\ HasActiveVersion(request[c].model_ref)
                  /\ step[c] \notin {"activate", "point"}

CallInv(c) == CallFits(c) /\ TrustFits(c) /\ EffectFits(c) /\ LateFits(c)

\* A version may be served for a model_ref: it verifies, and is under the key of
\* that model_ref or in one of its rollouts.
Served(m, v) ==
    /\ Signed(v)
    /\ \/ <<m, v>> \in manifest_keys
       \/ \E r \in DOMAIN rollout : rollout[r].model_ref = m /\ rollout[r].version_id = v

\* What is live may be served, and so may what a rollout, or a call that is about
\* to begin one, would make live.
LiveInv ==
    /\ \A v \in DOMAIN model_manifest \ Calls : Signed(v) => <<model_manifest[v].model_ref, v>> \in manifest_keys
    /\ \A r \in DOMAIN rollout :
          Signed(rollout[r].version_id) /\ Served(rollout[r].model_ref, rollout[r].stable_version_id)
    /\ \A m \in ModelRefs : \A v \in Live(m) : Served(m, v)
    /\ \A c \in Calls :
          step[c] \in {"running", "begin"} =>
              Signed(request[c].version_id) /\ Served(request[c].model_ref, seen[c].stable)

\* A row stands for a call that has come to its end, and no other row does.
RowInv ==
    /\ \A i \in DOMAIN audit_log :
          /\ pc[audit_log[i].call] = "done"
          /\ audit_log[i].action = method(audit_log[i].call)
          /\ audit_log[i].suffix = "plain" => outcome[audit_log[i].call] = "ok"
    /\ \A i, j \in DOMAIN audit_log : audit_log[i].call = audit_log[j].call => i = j
    /\ \A c \in Shown : \E i \in Succeeded : audit_log[i].call = c

\* Two calls do not revoke the same key.
KeyInv ==
    \A c, d \in Calls :
        outcome[c] = "ok" /\ outcome[d] = "ok" /\ method(c) = "RevokeApiKey" /\ method(d) = "RevokeApiKey"
            /\ call[c].command.key_id = call[d].command.key_id
        => c = d

AdminInv ==
    /\ RegistryTypes /\ AdminTypes
    /\ \A c \in Calls : CallInv(c)
    /\ LiveInv /\ RowInv /\ KeyInv

(***************************************************************************)
(* The query's side.                                                       *)
(***************************************************************************)
GraphTypes ==
    /\ query \in {"idle", "running", "done"}
    /\ asked \in Selections \cup {{}}
    /\ value \in [Fields -> {"unresolved", "counting", "data", "null"}]
    /\ DOMAIN keysSeen \subseteq Keys
    /\ rowsSeen \in Seq(Row)
    /\ data \in {"none", "null", "object"}
    /\ failed \subseteq Fields
    /\ told \subseteq Calls

\* Between queries nothing is known; in a query a field is null because its
\* backend failed, or may be null.
FieldInv ==
    /\ query = "idle" => failed = {} /\ told = {} /\ \A f \in Fields : value[f] = "unresolved"
    /\ \A f \in Fields : value[f] = "counting" => query = "running"
    /\ \A f \in Fields : value[f] # "unresolved" => f \in asked
    /\ \A f \in failed : value[f] = "null"
    /\ \A f \in Fields : value[f] = "null" /\ Query[f] => f \in failed
    /\ query = "done" => (data = "null" <=> \E f \in asked : Query[f] /\ value[f] = "null")

\* The lists of a query are the tables' as they are until it has ended.
ListInv ==
    /\ told \subseteq Shown
    /\ value["apiKeys"] = "data" => keysSeen = api_keys
    /\ value["auditLog"] = "data" => \E l \in AskedLimits : rowsSeen = newest(audit_log, clamp(l))

GraphInv == AdminInv /\ GraphTypes /\ FieldInv /\ ListInv

(***************************************************************************)
(* A step of control-plane keeps the invariant.                            *)
(***************************************************************************)
\* Who acts: the call that moves, when a table or etcd changes.
LEMMA WorkActs ==
  ASSUME RegistryTypes, NEW c \in Calls, RegistryStep(c) \/ CallFails(c),
         acted' = acted \cup {d \in Calls : step'[d] # step[d] /\ <<tables, etcd>>' # <<tables, etcd>>}
  PROVE  /\ acted \subseteq acted' /\ acted' \subseteq acted \cup {c}
         /\ step'[c] # step[c] /\ model_manifest' # model_manifest => c \in acted'
         /\ step'[c] # step[c] /\ rollout' # rollout => c \in acted'
  <1>1. \A d \in Calls : d # c => step'[d] = step[d]
    BY RegistryMoves
  <1>2. model_manifest' # model_manifest => <<tables, etcd>>' # <<tables, etcd>>
    BY DEF tables, etcd
  <1>3. rollout' # rollout => <<tables, etcd>>' # <<tables, etcd>>
    BY DEF tables, etcd
  <1>. QED BY <1>1, <1>2, <1>3

\* What was signed stays so, and what may be served may be served on.
LEMMA StaysServed ==
  ASSUME RegistryTypes, NEW c \in Calls, RegistryStep(c) \/ CallFails(c)
  PROVE  /\ manifest_keys \subseteq manifest_keys'
         /\ \A v \in DOMAIN model_manifest : v \in DOMAIN model_manifest' /\ model_manifest'[v] = model_manifest[v]
         /\ \A v : v # c => (v \in DOMAIN model_manifest' <=> v \in DOMAIN model_manifest)
         /\ \A v : Signed(v) => Signed(v)'
         /\ \A m, v : Served(m, v) => Served(m, v)'
  <1>1. manifest_keys \subseteq manifest_keys'
    BY TableMoves DEF PublishManifest
  <1>2. /\ \A v \in DOMAIN model_manifest : v \in DOMAIN model_manifest' /\ model_manifest'[v] = model_manifest[v]
        /\ \A v : v # c => (v \in DOMAIN model_manifest' <=> v \in DOMAIN model_manifest)
    <2>1. CASE model_manifest' = model_manifest
      BY <2>1
    <2>2. CASE InsertManifest(c)
      BY <2>2, Inserts
    <2>. QED BY <2>1, <2>2, TableMoves
  <1>3. \A v : Signed(v) => Signed(v)'
    BY <1>2 DEF Signed
  <1>4. \A r \in DOMAIN rollout : /\ r \in DOMAIN rollout' /\ rollout'[r].version_id = rollout[r].version_id
                                  /\ rollout'[r].model_ref = rollout[r].model_ref
    BY RolloutsKept
  <1>5. ASSUME NEW m, NEW v, Served(m, v) PROVE Served(m, v)'
    <2>1. Signed(v)'
      BY <1>3, <1>5 DEF Served
    <2>2. CASE <<m, v>> \in manifest_keys
      BY <1>1, <2>1, <2>2 DEF Served
    <2>3. ASSUME NEW r \in DOMAIN rollout, rollout[r].model_ref = m, rollout[r].version_id = v PROVE Served(m, v)'
      BY <1>4, <2>1, <2>3 DEF Served
    <2>. QED BY <1>5, <2>2, <2>3 DEF Served
  <1>. QED BY <1>1, <1>2, <1>3, <1>5

\* What goes live may be served.
LEMMA TargetServed ==
  ASSUME AdminInv, NEW c \in Calls, step[c] \in {"activate", "point"}
  PROVE  Served(Target(c).model_ref, Target(c).version_id)
  <1>1. RegistryTypes /\ CallInv(c) /\ LiveInv
    BY DEF AdminInv
  <1>2. CASE request[c].rpc = "register"
    <2>1. Target(c).version_id = c /\ Target(c).model_ref = request[c].model_ref
      BY <1>1, <1>2, Targets
    <2>2. Signed(c) /\ <<request[c].model_ref, c>> \in manifest_keys
      BY <1>1, <1>2 DEF CallInv, EffectFits
    <2>. QED BY <2>1, <2>2 DEF Served
  <1>3. CASE request[c].rpc # "register"
    <2>1. /\ rolloutOf(c) \in DOMAIN rollout /\ Target(c).version_id = rollout[rolloutOf(c)].version_id
          /\ Target(c).model_ref = rollout[rolloutOf(c)].model_ref
      BY <1>1, <1>3, Targets
    <2>. QED BY <1>1, <2>1 DEF LiveInv, Served
  <1>. QED BY <1>2, <1>3

\* What is live, and what is rolled out, may be served on.
LEMMA WorkLive ==
  ASSUME AdminInv, NEW c \in Calls, RegistryStep(c) \/ CallFails(c)
  PROVE  LiveInv'
  <1>1. RegistryTypes /\ CallInv(c) /\ LiveInv
    BY DEF AdminInv
  <1>2. /\ \A v : Signed(v) => Signed(v)'
        /\ \A m, v : Served(m, v) => Served(m, v)'
    BY <1>1, StaysServed
  <1>3. \A v \in DOMAIN model_manifest' \ Calls : Signed(v)' => <<model_manifest'[v].model_ref, v>> \in manifest_keys'
    <2>1. ASSUME NEW v \in DOMAIN model_manifest' \ Calls, Signed(v)'
          PROVE  <<model_manifest'[v].model_ref, v>> \in manifest_keys'
      <3>1. v \in DOMAIN model_manifest \ Calls /\ model_manifest'[v] = model_manifest[v] /\ manifest_keys \subseteq manifest_keys'
        BY <1>1, <2>1, StaysServed
      <3>. QED BY <1>1, <2>1, <3>1 DEF LiveInv, Signed
    <2>. QED BY <2>1
  <1>4. \A r \in DOMAIN rollout' : Signed(rollout'[r].version_id) /\ Served(rollout'[r].model_ref, rollout'[r].stable_version_id)
    <2>1. ASSUME NEW r \in DOMAIN rollout
          PROVE  Signed(rollout'[r].version_id) /\ Served(rollout'[r].model_ref, rollout'[r].stable_version_id)
      BY <1>1, RolloutsKept DEF LiveInv
    <2>2. CASE InsertRollout(c)
      <3>1. /\ step[c] = "begin" /\ DOMAIN rollout' = DOMAIN rollout \cup {c}
            /\ rollout'[c].model_ref = request[c].model_ref /\ rollout'[c].version_id = request[c].version_id
            /\ rollout'[c].stable_version_id = seen[c].stable
        BY <1>1, <2>2, Opens
      <3>. QED BY <1>1, <2>1, <3>1 DEF LiveInv
    <2>3. CASE DOMAIN rollout' = DOMAIN rollout
      BY <2>1, <2>3
    <2>. QED BY <1>1, <2>2, <2>3, RolloutsKept
  <1>5. ASSUME NEW m \in ModelRefs, model_active'[m] # NoVersion PROVE Served(m, model_active'[m])
    <2>1. CASE SetActive(c)
      <3>1. step[c] = "activate" /\ model_active \in [ModelRefs -> Versions \cup {NoVersion}]
        BY <1>1, <2>1 DEF SetActive, RegistryTypes, RegistryTypeOK
      <3>2. Served(Target(c).model_ref, Target(c).version_id)
        BY <3>1, TargetServed
      <3>3. model_active'[m] = IF m = Target(c).model_ref THEN Target(c).version_id ELSE model_active[m]
        BY <2>1, <3>1 DEF SetActive
      <3>. QED BY <1>1, <1>5, <3>2, <3>3 DEF LiveInv, Live
    <2>2. CASE model_active' = model_active
      BY <1>1, <1>5, <2>2 DEF LiveInv, Live
    <2>. QED BY <1>1, <2>1, <2>2, TableMoves
  <1>6. ASSUME NEW m \in ModelRefs, NEW v \in {active_keys'[m].stable, active_keys'[m].canary} \ {NoVersion}
        PROVE  Served(m, v)
    <2>1. CASE active_keys'[m] = active_keys[m]
      BY <1>1, <1>6, <2>1 DEF LiveInv, Live
    <2>2. CASE PublishActive(c) /\ active_keys'[m] # active_keys[m]
      <3>1. step[c] = "point" /\ m = Target(c).model_ref /\ v = Target(c).version_id
        BY <1>1, <1>6, <2>2, Points
      <3>. QED BY <3>1, TargetServed
    <2>3. CASE PublishCanaryState(c) /\ active_keys'[m] # active_keys[m]
      <3>1. /\ rolloutOf(c) \in DOMAIN rollout /\ m = rollout[rolloutOf(c)].model_ref
            /\ v \in {rollout[rolloutOf(c)].stable_version_id, rollout[rolloutOf(c)].version_id}
        BY <1>1, <1>6, <2>3, Canaries
      <3>2. Served(m, rollout[rolloutOf(c)].stable_version_id) /\ Signed(rollout[rolloutOf(c)].version_id)
        BY <1>1, <3>1 DEF LiveInv
      <3>3. Served(m, rollout[rolloutOf(c)].version_id)
        BY <3>1, <3>2 DEF Served
      <3>. QED BY <3>1, <3>2, <3>3
    <2>. QED BY <1>1, <2>1, <2>2, <2>3, TableMoves
  <1>7. ASSUME NEW d \in Calls, step'[d] \in {"running", "begin"}
        PROVE  Signed(request'[d].version_id) /\ Served(request'[d].model_ref, seen'[d].stable)
    <2>1. request' = request
      BY <1>1, RegistryMoves
    <2>2. CASE step[d] \in {"running", "begin"} /\ seen'[d].stable = seen[d].stable
      BY <1>1, <2>1, <2>2 DEF LiveInv
    <2>3. CASE d # c
      BY <1>1, <1>7, <2>2, <2>3, RegistryMoves, SeenMoves
    <2>4. CASE d = c /\ step[c] # "start"
      <3>1. step[c] \in {"running", "begin"}
        BY <1>1, <1>7, <2>4, StepMoves
      <3>. QED BY <1>1, <2>2, <2>4, <3>1, SeenMoves
    <2>5. CASE d = c /\ step[c] = "start"
      <3>1. CreateRollout(c) /\ step'[c] # "failed"
        BY <1>1, <1>7, <2>5, StepMoves
      <3>2. /\ request[c] \in CreateRolloutRequest /\ Signed(request[c].version_id)
            /\ seen'[c].stable = model_active[request[c].model_ref] /\ model_active[request[c].model_ref] \in Versions
        BY <1>1, <3>1, Creates
      <3>3. request[c].model_ref \in ModelRefs /\ model_active[request[c].model_ref] # NoVersion
        BY <3>2, Names DEF CreateRolloutRequest
      <3>. QED BY <1>1, <2>1, <2>5, <3>2, <3>3 DEF LiveInv, Live
    <2>. QED BY <2>3, <2>4, <2>5
  <1>8. \A r \in DOMAIN rollout' :
           (Signed(rollout[r].version_id) /\ Served(rollout[r].model_ref, rollout[r].stable_version_id))'
    <2>1. ASSUME NEW r \in DOMAIN rollout', NEW v, NEW m, NEW w,
                 v = rollout'[r].version_id, m = rollout'[r].model_ref, w = rollout'[r].stable_version_id
          PROVE  Signed(v)' /\ Served(m, w)'
      BY <1>2, <1>4, <2>1
    <2>. QED BY <2>1 DEF Signed, Served
  <1>9. ASSUME NEW m \in ModelRefs, NEW v \in Live(m)' PROVE Served(m, v)'
    <2>1. v \in {model_active'[m], active_keys'[m].stable, active_keys'[m].canary} \ {NoVersion}
      BY <1>9 DEF Live
    <2>2. Served(m, v)
      BY <1>5, <1>6, <2>1
    <2>. QED BY <1>2, <2>2
  <1>10. \A d \in Calls : (step[d] \in {"running", "begin"} =>
              Signed(request[d].version_id) /\ Served(request[d].model_ref, seen[d].stable))'
    <2>1. ASSUME NEW d \in Calls, step'[d] \in {"running", "begin"}, NEW v, NEW m, NEW w,
                 v = request'[d].version_id, m = request'[d].model_ref, w = seen'[d].stable
          PROVE  Signed(v)' /\ Served(m, w)'
      BY <1>2, <1>7, <2>1
    <2>. QED BY <2>1 DEF Signed, Served
  <1>. QED BY <1>3, <1>8, <1>9, <1>10 DEF LiveInv

\* What the call that moves has done.
LEMMA WorkEffect ==
  ASSUME AdminInv, Works, NEW c \in Calls, RegistryStep(c) \/ CallFails(c)
  PROVE  EffectFits(c)'
  <1>1. RegistryTypes /\ StepFits(c) /\ CallFits(c) /\ EffectFits(c)
    BY DEF AdminInv, RegistryTypes, CallInv
  <1>2. /\ request' = request /\ request[c] \in ControlRequests
        /\ call' = call /\ outcome' = outcome /\ api_keys' = api_keys
    BY <1>1, RegistryMoves DEF Works
  <1>3. /\ acted \subseteq acted'
        /\ step'[c] # step[c] /\ model_manifest' # model_manifest => c \in acted'
        /\ step'[c] # step[c] /\ rollout' # rollout => c \in acted'
    BY <1>1, WorkActs DEF Works
  <1>4. manifest_keys \subseteq manifest_keys' /\ (Signed(c) => Signed(c)')
    BY <1>1, StaysServed
  <1>5. step[c] \notin {"ok", "failed"}
    BY <1>1, RegistryMoves
  <1>6. InsertManifest(c) => Signed(c)' /\ model_manifest' # model_manifest /\ step[c] = "insert"
    <2>. SUFFICES ASSUME InsertManifest(c) PROVE Signed(c)' /\ model_manifest' # model_manifest /\ step[c] = "insert"
      OBVIOUS
    <2>1. /\ step[c] = "insert" /\ c \notin DOMAIN model_manifest
          /\ DOMAIN model_manifest' = DOMAIN model_manifest \cup {c}
          /\ model_manifest'[c] = [model_ref |-> request[c].model_ref, signature |-> "vault"]
      BY <1>1, Inserts DEF InsertManifest
    <2>2. c \in DOMAIN model_manifest' /\ model_manifest'[c].signature = "vault"
      BY <2>1
    <2>. QED BY <2>1, <2>2 DEF Signed
  <1>7. PublishManifest(c) => <<request[c].model_ref, c>> \in manifest_keys' /\ step[c] = "publish"
    BY DEF PublishManifest
  <1>8. request[c].rpc = "register" =>
           step[c] \in {"sign", "insert", "publish", "check", "activate", "point"} \/ step'[c] = "failed"
    BY <1>1, <1>2, RequestParts, StepMoves DEF StepFits, Moving
  <1>9. request[c].rpc = "register" /\ step'[c] \in {"publish", "check", "activate", "point", "ok"} =>
           Signed(c)' /\ c \in acted'
    <2>. SUFFICES ASSUME request[c].rpc = "register", step'[c] \in {"publish", "check", "activate", "point", "ok"}
                  PROVE  Signed(c)' /\ c \in acted'
      OBVIOUS
    <2>1. CASE InsertManifest(c)
      BY <1>3, <1>6, <2>1
    <2>2. CASE ~InsertManifest(c)
      <3>1. step[c] \in {"publish", "check", "activate", "point"}
        BY <1>1, <1>8, <2>2, StepMoves
      <3>. QED BY <1>1, <1>3, <1>4, <3>1 DEF EffectFits
    <2>. QED BY <2>1, <2>2
  <1>10. request[c].rpc = "register" /\ step'[c] \in {"check", "activate", "point", "ok"} =>
            <<request[c].model_ref, c>> \in manifest_keys'
    <2>. SUFFICES ASSUME request[c].rpc = "register", step'[c] \in {"check", "activate", "point", "ok"}
                  PROVE  <<request[c].model_ref, c>> \in manifest_keys'
      OBVIOUS
    <2>1. CASE PublishManifest(c)
      BY <1>7, <2>1
    <2>2. CASE ~PublishManifest(c)
      <3>1. step[c] \in {"check", "activate", "point"}
        BY <1>1, <1>8, <2>2, StepMoves
      <3>. QED BY <1>1, <1>4, <3>1 DEF EffectFits
    <2>. QED BY <2>1, <2>2
  <1>11. step'[c] = "ok" => c \in acted'
    <2>1. CASE request[c].rpc = "register"
      BY <1>9, <2>1
    <2>2. CASE request[c].rpc # "register" /\ step'[c] = "ok"
      <3>1. step[c] # "check"
        BY <1>1, <2>2 DEF StepFits, RegisterModelManifestRequest
      <3>2. UpdateRollout(c) /\ step[c] = "record"
        BY <1>1, <2>2, <3>1, StepMoves
      <3>3. rollout' # rollout
        BY <1>1, <2>2, <3>2, Records
      <3>. QED BY <1>3, <2>2, <3>2, <3>3
    <2>. QED BY <2>1, <2>2
  <1>12. c \in DOMAIN model_manifest' => request[c].rpc = "register" /\ model_manifest'[c].model_ref = request[c].model_ref
    <2>1. CASE InsertManifest(c)
      <3>1. /\ request[c] \in RegisterModelManifestRequest
            /\ model_manifest'[c] = [model_ref |-> request[c].model_ref, signature |-> "vault"]
        BY <1>1, <2>1, Inserts
      <3>. QED BY <3>1 DEF RegisterModelManifestRequest
    <2>2. CASE model_manifest' = model_manifest
      BY <1>1, <2>2 DEF EffectFits
    <2>. QED BY <1>1, <2>1, <2>2, TableMoves
  <1>13. outcome[c] = "ok" => method(c) \in {"CreateApiKey", "RevokeApiKey"}
    BY <1>1, <1>5 DEF EffectFits
  <1>. QED BY <1>1, <1>2, <1>3, <1>9, <1>10, <1>11, <1>12, <1>13 DEF EffectFits, method

\* A late registration comes no nearer to the pointers.
LEMMA WorkLate ==
  ASSUME AdminInv, NEW c \in Calls, RegistryStep(c) \/ CallFails(c)
  PROVE  /\ \A d \in Calls : LateFits(d)'
         /\ c \in late => UNCHANGED <<model_active, active_keys>>
  <1>1. RegistryTypes /\ \A d \in Calls : LateFits(d)
    BY DEF AdminInv, CallInv
  <1>2. /\ request' = request /\ late' = late /\ \A d \in Calls : d # c => step'[d] = step[d]
    BY <1>1, RegistryMoves
  <1>3. \A m \in ModelRefs : HasActiveVersion(m) => HasActiveVersion(m)'
    <2>1. CASE SetActive(c)
      <3>1. Target(c).version_id \in Versions
        BY <1>1, <2>1, Targets DEF SetActive
      <3>2. \A m \in ModelRefs : model_active'[m] \in {model_active[m], Target(c).version_id}
        BY <1>1, <2>1 DEF SetActive, RegistryTypes, RegistryTypeOK
      <3>. QED BY <3>1, <3>2, Names DEF HasActiveVersion
    <2>. QED BY <1>1, <2>1, TableMoves DEF HasActiveVersion
  <1>4. c \in late => /\ request[c] \in RegisterModelManifestRequest /\ HasActiveVersion(request[c].model_ref)
                      /\ step[c] \notin {"activate", "point"} /\ request[c].rpc = "register"
    BY <1>1 DEF LateFits, RegisterModelManifestRequest
  <1>5. c \in late => step[c] \notin {"decide", "canary", "revert"}
    <2>1. StepFits(c)
      BY <1>1 DEF RegistryTypes
    <2>. QED BY <1>4, <2>1 DEF StepFits, Moving, CreateRolloutRequest, PromoteRolloutRequest, AbortRolloutRequest
  <1>6. c \in late => step'[c] \notin {"activate", "point"}
    BY <1>1, <1>4, <1>5, StepMoves
  <1>9. c \in late => UNCHANGED <<model_active, active_keys>>
    BY <1>1, <1>4, <1>5, TableMoves DEF SetActive, PublishActive, PublishCanaryState
  <1>7. ASSUME NEW d \in Calls, d \in late, request[d] \in RegisterModelManifestRequest
        PROVE  request[d].model_ref \in ModelRefs
    BY <1>7 DEF RegisterModelManifestRequest
  <1>8. ASSUME NEW d \in Calls PROVE LateFits(d)'
    <2>1. CASE d = c
      BY <1>1, <1>2, <1>3, <1>4, <1>6, <1>7, <2>1 DEF LateFits, HasActiveVersion
    <2>2. CASE d # c
      BY <1>1, <1>2, <1>3, <1>7, <2>2 DEF LateFits, HasActiveVersion
    <2>. QED BY <2>1, <2>2
  <1>. QED BY <1>8, <1>9

\* A step of control-plane keeps the whole invariant.
LEMMA WorksKeeps == AdminInv /\ Works => AdminInv'
  <1>. SUFFICES ASSUME AdminInv, Works PROVE AdminInv'
    OBVIOUS
  <1>1. PICK c \in Calls : RegistryStep(c) \/ CallFails(c)
    BY DEF Works, RegistryNext
  <1>2. RegistryTypes /\ AdminTypes /\ \A d \in Calls : CallInv(d) /\ StepFits(d)
    BY DEF AdminInv, RegistryTypes
  <1>3. /\ step[c] # "idle" /\ step'[c] # "idle" /\ request' = request
        /\ \A d \in Calls : d # c => step'[d] = step[d]
    BY <1>1, <1>2, RegistryMoves
  <1>4. /\ pc' = pc /\ call' = call /\ outcome' = outcome /\ reply' = reply /\ revoked' = revoked
        /\ api_keys' = api_keys /\ audit_log' = audit_log /\ trusted' = trusted
    BY DEF Works
  <1>5. acted \subseteq acted' /\ acted' \subseteq acted \cup {c}
    BY <1>1, <1>2, WorkActs DEF Works
  <1>6. RegistryTypes' /\ AdminTypes'
    BY <1>1, <1>2, <1>4, <1>5, RegistryTypesKept DEF AdminTypes
  <1>7. LiveInv' /\ \A d \in Calls : LateFits(d)'
    BY <1>1, WorkLive, WorkLate
  <1>8. RowInv' /\ KeyInv'
    BY <1>4 DEF AdminInv, RowInv, KeyInv, Succeeded, Shown, method
  <1>9. ASSUME NEW d \in Calls PROVE CallFits(d)' /\ TrustFits(d)'
    <2>1. CallFits(d)'
      BY <1>2, <1>3, <1>4 DEF CallInv, CallFits, SameCall, method, Known
    <2>2. TrustFits(d)'
      BY <1>2, <1>3, <1>4, <1>5 DEF CallInv, TrustFits
    <2>. QED BY <2>1, <2>2
  <1>10. ASSUME NEW d \in Calls PROVE EffectFits(d)'
    <2>1. CASE d = c
      BY <1>1, <2>1, WorkEffect
    <2>2. CASE d # c
      <3>1. /\ (d \in DOMAIN model_manifest' <=> d \in DOMAIN model_manifest) /\ (Signed(d) => Signed(d)')
            /\ d \in DOMAIN model_manifest => model_manifest'[d] = model_manifest[d]
        BY <1>1, <1>2, <2>2, StaysServed
      <3>2. manifest_keys \subseteq manifest_keys'
        BY <1>1, <1>2, StaysServed
      <3>. QED BY <1>2, <1>3, <1>4, <1>5, <2>2, <3>1, <3>2 DEF CallInv, EffectFits, method
    <2>. QED BY <2>1, <2>2
  <1>. QED BY <1>6, <1>7, <1>8, <1>9, <1>10 DEF AdminInv, CallInv

(***************************************************************************)
(* A step of admin-api keeps the invariant.                                *)
(***************************************************************************)
\* The fields of a command.
LEMMA CommandParts ==
  ASSUME NEW q \in Commands
  PROVE  /\ q.method \in Methods
         /\ q.method = "PublishModelVersion" => q.model_ref \in ModelRefs
         /\ q.method = "StartRollout" => q.model_ref \in ModelRefs /\ q.version_id \in Versions
         /\ q.method \in {"PromoteRollout", "AbortRollout"} => q.rollout_id \in RolloutIDs
         /\ q.method = "RevokeApiKey" => q.key_id \in Keys
  BY DEF Commands, Methods, PublishModelVersionRequest, StartRolloutRequest, AdminPromoteRolloutRequest,
         AdminAbortRolloutRequest, CreateApiKeyRequest, RevokeApiKeyRequest

\* A known call has a user and a command.
LEMMA KnownParts ==
  ASSUME NEW c \in Calls, Known(c)
  PROVE  call[c].user \in Users /\ call[c].command \in Commands /\ method(c) \in Methods
  <1>1. call[c].user \in Users /\ call[c].command \in Commands
    BY DEF Known
  <1>. QED BY <1>1, CommandParts DEF method

\* What no step of a call does to the others, nor to the tables of control-plane.
Frame(c) ==
    /\ UNCHANGED <<tables, etcd>>
    /\ \A d \in Calls \ {c} :
          /\ pc'[d] = pc[d] /\ call'[d] = call[d] /\ outcome'[d] = outcome[d] /\ reply'[d] = reply[d]
          /\ step'[d] = step[d] /\ request'[d] = request[d]
          /\ (d \in trusted' <=> d \in trusted) /\ (d \in acted' <=> d \in acted) /\ (d \in late' <=> d \in late)
          /\ d \in DOMAIN api_keys' <=> d \in DOMAIN api_keys
    /\ seen' = seen
    /\ (step'[c] = step[c] /\ request'[c] = request[c]) \/ step'[c] \notin {"running", "begin"}
    /\ reply[c] # "ok"
    /\ \A k \in DOMAIN api_keys : k \in DOMAIN api_keys' /\ (api_keys[k] = "revoked" => api_keys'[k] = "revoked")

\* The other calls keep their part of the invariant, and what is live stays so.
LEMMA OthersKeep ==
  ASSUME AdminInv, NEW c \in Calls, Frame(c)
  PROVE  LiveInv' /\ \A d \in Calls \ {c} : CallInv(d)'
  <1>1. /\ model_manifest' = model_manifest /\ model_active' = model_active /\ rollout' = rollout
        /\ manifest_keys' = manifest_keys /\ active_keys' = active_keys /\ seen' = seen
    BY DEF Frame, tables, etcd
  <1>2. LiveInv'
    <2>1. \A d \in Calls : step'[d] \in {"running", "begin"} => step[d] = step'[d] /\ request'[d] = request[d]
      BY DEF Frame
    <2>2. (\A v : Signed(v)' <=> Signed(v)) /\ (\A m, v : Served(m, v)' <=> Served(m, v)) /\ \A m : Live(m)' = Live(m)
      BY <1>1 DEF Signed, Served, Live
    <2>3. LiveInv
      BY DEF AdminInv
    <2>4. \A d \in Calls : (step[d] \in {"running", "begin"} =>
              Signed(request[d].version_id) /\ Served(request[d].model_ref, seen[d].stable))'
      <3>1. ASSUME NEW d \in Calls, step'[d] \in {"running", "begin"}
            PROVE  Signed(request[d].version_id) /\ Served(request[d].model_ref, seen[d].stable)
        BY <2>1, <2>3, <3>1 DEF LiveInv
      <3>. QED BY <1>1, <2>1, <3>1 DEF Signed, Served
    <2>5. \A m \in ModelRefs : \A v \in Live(m)' : Served(m, v)'
      BY <2>2, <2>3 DEF LiveInv
    <2>6. \A r \in DOMAIN rollout' :
             (Signed(rollout[r].version_id) /\ Served(rollout[r].model_ref, rollout[r].stable_version_id))'
      BY <1>1, <2>3 DEF LiveInv, Signed, Served
    <2>7. \A v \in DOMAIN model_manifest' \ Calls : Signed(v)' => <<model_manifest'[v].model_ref, v>> \in manifest_keys'
      BY <1>1, <2>2, <2>3 DEF LiveInv
    <2>. QED BY <2>4, <2>5, <2>6, <2>7 DEF LiveInv
  <1>3. ASSUME NEW d \in Calls \ {c} PROVE CallInv(d)'
    <2>1. /\ pc'[d] = pc[d] /\ call'[d] = call[d] /\ outcome'[d] = outcome[d] /\ reply'[d] = reply[d]
          /\ step'[d] = step[d] /\ request'[d] = request[d]
          /\ (d \in trusted' <=> d \in trusted) /\ (d \in acted' <=> d \in acted) /\ (d \in late' <=> d \in late)
          /\ d \in DOMAIN api_keys' <=> d \in DOMAIN api_keys
      BY DEF Frame
    <2>2. CallFits(d)'
      BY <2>1 DEF AdminInv, CallInv, CallFits, SameCall, method, Known
    <2>3. TrustFits(d)'
      BY <2>1 DEF AdminInv, CallInv, TrustFits
    <2>4. EffectFits(d)'
      BY <1>1, <2>1 DEF AdminInv, CallInv, EffectFits, Signed, method, Frame
    <2>5. LateFits(d)'
      BY <1>1, <2>1 DEF AdminInv, CallInv, LateFits, HasActiveVersion
    <2>. QED BY <2>2, <2>3, <2>4, <2>5 DEF CallInv
  <1>. QED BY <1>2, <1>3

\* A call that has not come to its end has no row, and adds none.
LEMMA NoRow ==
  ASSUME AdminInv, NEW c \in Calls, pc[c] # "done", Frame(c), audit_log' = audit_log, reply'[c] # "ok"
  PROVE  RowInv'
  <1>1. audit_log \in Seq(Row) /\ RowInv
    BY DEF AdminInv, AdminTypes
  <1>2. \A i \in DOMAIN audit_log : audit_log[i].call \in Calls \ {c}
    <2>1. \A i \in DOMAIN audit_log : audit_log[i] \in Row
      BY <1>1
    <2>. QED BY <1>1, <2>1 DEF RowInv, Row
  <1>3. Succeeded' = Succeeded /\ Shown' \subseteq Shown
    BY DEF Succeeded, Shown, Frame
  <1>. QED BY <1>1, <1>2, <1>3 DEF RowInv, Frame, method

\* The row with which a call comes to its end.
LEMMA OneRow ==
  ASSUME AdminInv, NEW c \in Calls, pc[c] \notin {"new", "done"}, Known(c), Frame(c),
         NEW s \in {"plain", "_failed", "_denied"}, Written(c, s), pc'[c] = "done",
         call'[c] = call[c], outcome'[c] = outcome[c], s = "plain" => outcome[c] = "ok", reply'[c] = "ok" => s = "plain"
  PROVE  RowInv' /\ audit_log' \in Seq(Row)
  <1>. DEFINE n == Len(audit_log)
              row == [call |-> c, actor |-> call[c].user, action |-> method(c), suffix |-> s]
  <1>1. audit_log \in Seq(Row) /\ RowInv /\ n \in Nat
    BY DEF AdminInv, AdminTypes
  <1>2. row \in Row /\ row.call = c /\ row.action = method(c) /\ row.suffix = s
    BY KnownParts DEF Row
  <1>3. audit_log' = Append(audit_log, row)
    BY DEF Written, method
  <1>. HIDE DEF row
  <1>4. /\ audit_log' \in Seq(Row) /\ DOMAIN audit_log' = DOMAIN audit_log \cup {n + 1} /\ audit_log'[n + 1] = row
        /\ \A i \in DOMAIN audit_log : audit_log'[i] = audit_log[i] /\ i # n + 1
    BY <1>1, <1>2, <1>3
  <1>. HIDE DEF n
  <1>5. \A i \in DOMAIN audit_log : audit_log[i].call \in Calls \ {c}
    <2>1. \A i \in DOMAIN audit_log : audit_log[i] \in Row
      BY <1>1
    <2>. QED BY <1>1, <2>1 DEF RowInv, Row
  <1>6. \A d \in Calls \ {c} : pc'[d] = pc[d] /\ call'[d] = call[d] /\ outcome'[d] = outcome[d] /\ reply'[d] = reply[d]
    BY DEF Frame
  <1>7. ASSUME NEW i \in DOMAIN audit_log'
        PROVE  /\ pc'[audit_log'[i].call] = "done"
               /\ audit_log'[i].action = call'[audit_log'[i].call].command.method
               /\ audit_log'[i].suffix = "plain" => outcome'[audit_log'[i].call] = "ok"
    <2>1. CASE i = n + 1
      BY <1>2, <1>4, <2>1 DEF method
    <2>2. CASE i \in DOMAIN audit_log
      BY <1>1, <1>4, <1>5, <1>6, <2>2 DEF RowInv, method
    <2>. QED BY <1>4, <2>1, <2>2
  <1>8. \A i, j \in DOMAIN audit_log' : audit_log'[i].call = audit_log'[j].call => i = j
    BY <1>1, <1>2, <1>4, <1>5 DEF RowInv
  <1>9. ASSUME NEW d \in Shown' PROVE \E i \in Succeeded' : audit_log'[i].call = d
    <2>1. CASE d = c
      <3>1. s = "plain"
        BY <1>9, <2>1 DEF Shown
      <3>. QED BY <1>2, <1>4, <2>1, <3>1 DEF Succeeded
    <2>2. CASE d # c
      <3>1. d \in Shown
        BY <1>6, <1>9, <2>2 DEF Shown
      <3>2. PICK i \in Succeeded : audit_log[i].call = d
        BY <1>1, <3>1 DEF RowInv
      <3>3. i \in Succeeded' /\ audit_log'[i].call = d
        BY <1>4, <3>2 DEF Succeeded
      <3>. QED BY <3>3
    <2>. QED BY <2>1, <2>2
  <1>. QED BY <1>4, <1>7, <1>8, <1>9 DEF RowInv, method

\* Who revoked which key is told apart as long as no revocation comes to its end.
LEMMA NoRevocation ==
  ASSUME AdminInv, NEW c \in Calls, Frame(c), outcome'[c] # "ok" \/ (outcome'[c] = outcome[c] /\ call'[c] = call[c])
                                              \/ method(c)' # "RevokeApiKey"
  PROVE  KeyInv'
  <1>1. \A d \in Calls \ {c} : call'[d] = call[d] /\ outcome'[d] = outcome[d]
    BY DEF Frame
  <1>. QED BY <1>1 DEF AdminInv, KeyInv, method

\* What is left to show of a step of one call.
LEMMA Keeps ==
  ASSUME AdminInv, NEW c \in Calls, Frame(c), RegistryTypes', AdminTypes', CallInv(c)', RowInv', KeyInv'
  PROVE  AdminInv'
  BY OthersKeep DEF AdminInv

\* A call whose side in control-plane does not move keeps that side's types.
LEMMA RegistryRests == RegistryTypes /\ UNCHANGED registryVars => RegistryTypes'
  BY DEF RegistryTypes, RegistryTypeOK, StageFits, StepFits, rolloutOf, registryVars

\* Authentication: the call is known from here on, and trusted if it may be.
LEMMA AuthenticateKeeps ==
  ASSUME AdminInv, NEW c \in Calls, NEW u \in Users, NEW q \in Commands, Authenticate(c, u, q)
  PROVE  AdminInv'
  <1>1. AdminTypes /\ RegistryTypes /\ CallInv(c) /\ StepFits(c) /\ pc[c] = "new"
    BY DEF AdminInv, Authenticate, RegistryTypes
  <1>2. /\ pc' = [pc EXCEPT ![c] = "authz"] /\ call' = [call EXCEPT ![c] = [user |-> u, command |-> q]]
        /\ UNCHANGED registryVars /\ outcome' = outcome /\ reply' = reply /\ api_keys' = api_keys
        /\ revoked' = revoked /\ audit_log' = audit_log /\ acted' = acted
        /\ trusted' = IF Role[u] = "admin" THEN trusted \cup {c} ELSE trusted
    BY DEF Authenticate, Goto, authenticates
  <1>3. AdminTypes'
    BY <1>1, <1>2 DEF AdminTypes
  <1>4. /\ pc'[c] = "authz" /\ call'[c] = [user |-> u, command |-> q]
        /\ step'[c] = step[c] /\ request' = request /\ model_manifest' = model_manifest /\ late' = late
        /\ model_active' = model_active
    BY <1>1, <1>2 DEF AdminTypes, registryVars
  <1>5. reply[c] = "none" /\ outcome[c] = "none" /\ step[c] = "idle" /\ c \notin DOMAIN api_keys
    BY <1>1 DEF CallInv, CallFits
  <1>6. Frame(c)
    BY <1>1, <1>2, <1>5 DEF Frame, AdminTypes, registryVars, tables, etcd
  <1>7. CallInv(c)'
    <2>1. Known(c)'
      BY <1>4 DEF Known
    <2>2. CallFits(c)'
      BY <1>2, <1>4, <1>5, <2>1 DEF CallFits
    <2>3. TrustFits(c)'
      <3>1. call'[c].user = u
        BY <1>4
      <3>2. c \in acted => c \in trusted
        BY <1>1 DEF CallInv, TrustFits
      <3>. QED BY <1>2, <1>4, <1>5, <3>1, <3>2 DEF TrustFits
    <2>4. request[c] = NoRequest /\ request[c].rpc \notin {"register", "create", "abort"}
      BY <1>1, <1>5 DEF StepFits, NoRequest
    <2>5. EffectFits(c)'
      BY <1>1, <1>2, <1>4, <1>5, <2>4 DEF CallInv, EffectFits
    <2>6. LateFits(c)'
      BY <1>1, <1>4 DEF CallInv, LateFits, HasActiveVersion
    <2>. QED BY <2>2, <2>3, <2>5, <2>6 DEF CallInv
  <1>8. RowInv' /\ KeyInv'
    BY <1>1, <1>2, <1>5, <1>6, NoRow, NoRevocation
  <1>. QED BY <1>1, <1>2, <1>3, <1>6, <1>7, <1>8, RegistryRests, Keeps

\* A call that only gets to another point of admin-api keeps what ties it to
\* control-plane, with an outcome that it has earned.
LEMMA StepOn ==
  ASSUME AdminInv, NEW c \in Calls, UNCHANGED registryVars, call' = call, trusted' = trusted, revoked' = revoked,
         api_keys' = api_keys, acted' = acted, NEW n \in {"handler", "audit", "done"}, pc' = [pc EXCEPT ![c] = n],
         n = "handler" => pc[c] = "authz" /\ c \in trusted,
         n = "audit" => pc[c] = "wait",
         \A d \in Calls \ {c} : outcome'[d] = outcome[d] /\ reply'[d] = reply[d],
         outcome' \in [Calls -> {"none", "ok", "error"}],
         reply' \in [Calls -> {"none", "ok", "error", "Unauthenticated", "PermissionDenied"}],
         reply[c] # "ok", n # "done" => reply'[c] = reply[c],
         reply'[c] = "ok" => outcome'[c] = "ok",
         \/ outcome'[c] = outcome[c]
         \/ n = "audit" /\ (outcome'[c] = "ok" => step[c] = "ok"),
         pc[c] # "done"
  PROVE  RegistryTypes' /\ Frame(c) /\ CallInv(c)' /\ KeyInv' /\ (audit_log' \in Seq(Row) => AdminTypes')
  <1>1. AdminTypes /\ RegistryTypes /\ CallInv(c) /\ StepFits(c)
    BY DEF AdminInv, RegistryTypes
  <1>2. /\ pc'[c] = n /\ \A d \in Calls \ {c} : pc'[d] = pc[d]
        /\ step' = step /\ request' = request /\ late' = late
        /\ model_manifest' = model_manifest /\ model_active' = model_active /\ rollout' = rollout
        /\ manifest_keys' = manifest_keys /\ active_keys' = active_keys /\ seen' = seen
    BY <1>1 DEF AdminTypes, registryVars
  <1>3. Frame(c)
    BY <1>2 DEF Frame, tables, etcd
  <1>4. audit_log' \in Seq(Row) => AdminTypes'
    BY <1>1 DEF AdminTypes
  <1>5. CallFits(c)'
    BY <1>1, <1>2 DEF CallInv, CallFits, SameCall, Known, method
  <1>6. TrustFits(c)'
    BY <1>1, <1>2 DEF CallInv, TrustFits
  <1>7. EffectFits(c)'
    <2>1. CASE outcome'[c] = outcome[c]
      BY <1>1, <1>2, <2>1 DEF CallInv, EffectFits, Signed, method
    <2>2. CASE outcome'[c] # outcome[c]
      <3>1. pc[c] = "wait" /\ step[c] # "idle" /\ (outcome'[c] = "ok" => step[c] = "ok")
        BY <1>1, <2>2 DEF CallInv, CallFits
      <3>2. request[c].rpc \in {"register", "create", "promote", "abort"}
        BY <1>1, <3>1, RequestParts DEF StepFits, RegistryTypes, RegistryTypeOK
      <3>3. method(c) \notin {"CreateApiKey", "RevokeApiKey"}
        BY <1>1, <3>1, <3>2 DEF CallInv, CallFits, SameCall
      <3>. QED BY <1>1, <1>2, <3>1, <3>3 DEF CallInv, EffectFits, Signed, method
    <2>. QED BY <2>1, <2>2
  <1>8. LateFits(c)'
    BY <1>1, <1>2 DEF CallInv, LateFits, HasActiveVersion
  <1>9. KeyInv'
    <2>1. CASE outcome'[c] = outcome[c]
      BY <1>3, <2>1, NoRevocation
    <2>2. CASE outcome'[c] # outcome[c]
      <3>1. pc[c] = "wait" /\ step[c] # "idle"
        BY <1>1, <2>2 DEF CallInv, CallFits
      <3>2. request[c].rpc \in {"register", "create", "promote", "abort"}
        BY <1>1, <3>1, RequestParts DEF StepFits, RegistryTypes, RegistryTypeOK
      <3>3. method(c)' # "RevokeApiKey"
        BY <1>1, <3>1, <3>2 DEF CallInv, CallFits, SameCall, method
      <3>. QED BY <1>3, <3>3, NoRevocation
    <2>. QED BY <2>1, <2>2
  <1>. QED BY <1>1, <1>3, <1>4, <1>5, <1>6, <1>7, <1>8, <1>9, RegistryRests DEF CallInv

\* A call that ends without a row, in a refusal or a death, or goes on.
LEMMA QuietKeeps ==
  ASSUME AdminInv, NEW c \in Calls,
         \/ Unauthenticated(c) \/ Dies(c) \/ Answer(c)
         \/ Authorize(c) /\ audit_log' = audit_log
  PROVE  AdminInv'
  <1>1. AdminTypes /\ CallInv(c) /\ pc[c] # "done" /\ reply[c] = "none"
    BY DEF AdminInv, CallInv, CallFits, Unauthenticated, Dies, Answer, Authorize
  <1>2. CASE Unauthenticated(c) \/ Dies(c)
    <2>1. PICK s \in {"error", "Unauthenticated"} : reply' = [reply EXCEPT ![c] = s]
      BY <1>2 DEF Unauthenticated, Dies, Say
    <2>2. /\ pc' = [pc EXCEPT ![c] = "done"] /\ UNCHANGED registryVars /\ call' = call /\ outcome' = outcome
          /\ revoked' = revoked /\ api_keys' = api_keys /\ audit_log' = audit_log /\ trusted' = trusted /\ acted' = acted
      BY <1>2 DEF Unauthenticated, Dies, Goto
    <2>3. /\ reply'[c] # "ok" /\ \A d \in Calls \ {c} : reply'[d] = reply[d]
          /\ reply' \in [Calls -> {"none", "ok", "error", "Unauthenticated", "PermissionDenied"}]
          /\ outcome' \in [Calls -> {"none", "ok", "error"}] /\ audit_log' \in Seq(Row)
      BY <1>1, <2>1, <2>2 DEF AdminTypes
    <2>4. RegistryTypes' /\ Frame(c) /\ CallInv(c)' /\ KeyInv' /\ AdminTypes'
      BY <1>1, <2>2, <2>3, StepOn
    <2>. QED BY <1>1, <2>2, <2>3, <2>4, NoRow, Keeps
  <1>3. CASE Answer(c)
    <2>1. PICK s \in {"ok", "error"} : outcome' = [outcome EXCEPT ![c] = s] /\ (s = "ok" => step[c] = "ok")
      BY <1>3 DEF Answer, Returns
    <2>2. /\ pc' = [pc EXCEPT ![c] = "audit"] /\ UNCHANGED registryVars /\ call' = call /\ reply' = reply
          /\ revoked' = revoked /\ api_keys' = api_keys /\ audit_log' = audit_log /\ trusted' = trusted /\ acted' = acted
          /\ pc[c] = "wait"
      BY <1>3 DEF Answer, Returns, Goto
    <2>3. /\ \A d \in Calls \ {c} : outcome'[d] = outcome[d]
          /\ outcome'[c] = "ok" => step[c] = "ok"
          /\ reply' \in [Calls -> {"none", "ok", "error", "Unauthenticated", "PermissionDenied"}]
          /\ outcome' \in [Calls -> {"none", "ok", "error"}] /\ audit_log' \in Seq(Row) /\ reply'[c] # "ok"
      BY <1>1, <2>1, <2>2 DEF AdminTypes
    <2>4. RegistryTypes' /\ Frame(c) /\ CallInv(c)' /\ KeyInv' /\ AdminTypes'
      BY <1>1, <2>2, <2>3, StepOn
    <2>. QED BY <1>1, <2>2, <2>3, <2>4, NoRow, Keeps
  <1>4. CASE Authorize(c) /\ audit_log' = audit_log
    <2>1. /\ UNCHANGED registryVars /\ call' = call /\ outcome' = outcome /\ pc[c] = "authz"
          /\ revoked' = revoked /\ api_keys' = api_keys /\ audit_log' = audit_log /\ trusted' = trusted /\ acted' = acted
      BY <1>4 DEF Authorize
    <2>2. outcome' \in [Calls -> {"none", "ok", "error"}] /\ audit_log' \in Seq(Row)
      BY <1>1, <2>1 DEF AdminTypes
    <2>3. CASE Allowed(Role[call[c].user], call[c].command.method)
      <3>1. pc' = [pc EXCEPT ![c] = "handler"] /\ reply' = reply /\ c \in trusted
        BY <1>1, <1>4, <2>1, <2>3 DEF Authorize, Goto, CallInv, TrustFits, Allowed
      <3>2. RegistryTypes' /\ Frame(c) /\ CallInv(c)' /\ KeyInv' /\ AdminTypes'
        BY <1>1, <2>1, <2>2, <3>1, StepOn DEF AdminTypes
      <3>. QED BY <1>1, <2>1, <3>1, <3>2, NoRow, Keeps
    <2>4. CASE ~Allowed(Role[call[c].user], call[c].command.method)
      <3>1. pc' = [pc EXCEPT ![c] = "done"] /\ reply' = [reply EXCEPT ![c] = "PermissionDenied"]
        BY <1>4, <2>4 DEF Authorize, Goto, Say
      <3>2. /\ reply'[c] = "PermissionDenied" /\ \A d \in Calls \ {c} : reply'[d] = reply[d]
            /\ reply' \in [Calls -> {"none", "ok", "error", "Unauthenticated", "PermissionDenied"}]
        BY <1>1, <3>1 DEF AdminTypes
      <3>3. RegistryTypes' /\ Frame(c) /\ CallInv(c)' /\ KeyInv' /\ AdminTypes'
        BY <1>1, <2>1, <2>2, <3>1, <3>2, StepOn
      <3>. QED BY <1>1, <2>1, <3>2, <3>3, NoRow, Keeps
    <2>. QED BY <2>3, <2>4
  <1>. QED BY <1>2, <1>3, <1>4

\* The audit row: one that tells of a success stands for an ok outcome, and an
\* ok is said only beside such a row.
LEMMA AuditKeeps ==
  ASSUME AdminInv, NEW c \in Calls, Audit(c) \/ (Authorize(c) /\ audit_log' # audit_log)
  PROVE  AdminInv'
  <1>1. AdminTypes /\ CallInv(c) /\ pc[c] \in {"authz", "audit"} /\ reply[c] = "none" /\ Known(c)
    BY DEF AdminInv, CallInv, CallFits, Audit, Authorize
  <1>2. /\ UNCHANGED registryVars /\ call' = call /\ outcome' = outcome /\ pc' = [pc EXCEPT ![c] = "done"]
        /\ revoked' = revoked /\ api_keys' = api_keys /\ trusted' = trusted /\ acted' = acted
    BY DEF Audit, Authorize, Goto
  <1>3. \E s \in {"plain", "_failed", "_denied"}, a \in {"ok", "error", "none", "PermissionDenied"} :
           /\ Written(c, s) \/ audit_log' = audit_log
           /\ reply' = [reply EXCEPT ![c] = a]
           /\ s = "plain" => outcome[c] = "ok"
           /\ a = "ok" => outcome[c] = "ok" /\ s = "plain" /\ Written(c, s)
    <2>1. CASE Audit(c)
      <3>1. outcome[c] \in {"none", "ok", "error"}
        BY <1>1 DEF AdminTypes
      <3>. DEFINE t == IF outcome[c] = "ok" THEN "plain" ELSE "_failed"
      <3>2. t \in {"plain", "_failed", "_denied"} /\ (t = "plain" <=> outcome[c] = "ok")
        OBVIOUS
      <3>3. \/ Written(c, t) /\ reply' = [reply EXCEPT ![c] = outcome[c]]
            \/ Written(c, t) /\ reply' = [reply EXCEPT ![c] = "error"]
            \/ audit_log' = audit_log /\ reply' = [reply EXCEPT ![c] = "error"]
        BY <2>1 DEF Audit, Say
      <3>. HIDE DEF t
      <3>. QED BY <3>1, <3>2, <3>3
    <2>2. CASE Authorize(c) /\ audit_log' # audit_log
      BY <2>2 DEF Authorize, Say
    <2>. QED BY <2>1, <2>2
  <1>4. PICK s \in {"plain", "_failed", "_denied"}, a \in {"ok", "error", "none", "PermissionDenied"} :
           /\ Written(c, s) \/ audit_log' = audit_log
           /\ reply' = [reply EXCEPT ![c] = a]
           /\ s = "plain" => outcome[c] = "ok"
           /\ a = "ok" => outcome[c] = "ok" /\ s = "plain" /\ Written(c, s)
    BY <1>3
  <1>5. /\ reply'[c] = a /\ \A d \in Calls \ {c} : reply'[d] = reply[d]
        /\ reply' \in [Calls -> {"none", "ok", "error", "Unauthenticated", "PermissionDenied"}]
        /\ outcome' \in [Calls -> {"none", "ok", "error"}] /\ pc'[c] = "done"
    BY <1>1, <1>2, <1>4 DEF AdminTypes
  <1>6. RegistryTypes' /\ Frame(c) /\ CallInv(c)' /\ KeyInv' /\ (audit_log' \in Seq(Row) => AdminTypes')
    BY <1>1, <1>2, <1>4, <1>5, StepOn
  <1>7. RowInv' /\ audit_log' \in Seq(Row)
    <2>1. CASE Written(c, s)
      BY <1>1, <1>2, <1>4, <1>5, <1>6, <2>1, OneRow
    <2>2. CASE audit_log' = audit_log /\ ~Written(c, s)
      BY <1>1, <1>4, <1>5, <1>6, <2>2, NoRow DEF AdminTypes
    <2>. QED BY <1>4, <2>1, <2>2
  <1>. QED BY <1>6, <1>7, Keeps

\* A call that asks control-plane: its request is the one of its command.
LEMMA AsksKeeps ==
  ASSUME AdminInv, NEW c \in Calls, NEW r \in ControlRequests, Asks(c, r),
         /\ r.rpc = "register" <=> method(c) = "PublishModelVersion"
         /\ r.rpc = "create" <=> method(c) = "StartRollout"
         /\ r.rpc = "promote" <=> method(c) = "PromoteRollout"
         /\ r.rpc = "abort" <=> method(c) = "AbortRollout"
  PROVE  AdminInv'
  <1>. DEFINE n == CASE r.rpc = "register" -> "sign" [] r.rpc = "create" -> "start" [] OTHER -> "decide"
  <1>1. AdminTypes /\ RegistryTypes /\ CallInv(c) /\ StepFits(c) /\ pc[c] = "handler" /\ step[c] = "idle"
    BY DEF AdminInv, Asks, Begin, RegistryTypes
  <1>2. /\ pc' = [pc EXCEPT ![c] = "wait"] /\ call' = call /\ outcome' = outcome /\ reply' = reply
        /\ revoked' = revoked /\ api_keys' = api_keys /\ audit_log' = audit_log /\ trusted' = trusted /\ acted' = acted
        /\ request' = [request EXCEPT ![c] = r] /\ step' = [step EXCEPT ![c] = n]
        /\ model_manifest' = model_manifest /\ model_active' = model_active /\ rollout' = rollout
        /\ manifest_keys' = manifest_keys /\ active_keys' = active_keys /\ seen' = seen
        /\ late' = IF r.rpc = "register" /\ HasActiveVersion(r.model_ref) THEN late \cup {c} ELSE late
    BY DEF Asks, Begin, To, Goto, tables, etcd
  <1>3. /\ n \in {"sign", "start", "decide"} /\ n \in Steps
        /\ n = "sign" <=> r.rpc = "register"
        /\ n = "start" <=> r.rpc = "create"
    BY DEF Steps
  <1>. HIDE DEF n
  <1>4. /\ pc'[c] = "wait" /\ step'[c] = n /\ request'[c] = r
        /\ \A d \in Calls \ {c} : pc'[d] = pc[d] /\ step'[d] = step[d] /\ request'[d] = request[d]
                                  /\ (d \in late' <=> d \in late)
    BY <1>1, <1>2 DEF AdminTypes, RegistryTypes, RegistryTypeOK
  <1>5. AdminTypes'
    BY <1>1, <1>2 DEF AdminTypes
  <1>6. RegistryTypes'
    <2>1. RegistryTypeOK'
      BY <1>1, <1>2, <1>3 DEF RegistryTypes, RegistryTypeOK
    <2>2. ASSUME NEW d \in Calls \ {c} PROVE StepFits(d)'
      <3>1. StepFits(d) /\ rolloutOf(d)' = rolloutOf(d)
        BY <1>1, <1>4 DEF RegistryTypes, rolloutOf
      <3>. QED BY <1>2, <1>4, <3>1 DEF StepFits
    <2>3. StepFits(c)'
      BY <1>1, <1>2, <1>3, <1>4, RequestParts DEF StepFits
    <2>4. StageFits'
      BY <1>1, <1>2 DEF RegistryTypes, StageFits
    <2>. QED BY <2>1, <2>2, <2>3, <2>4 DEF RegistryTypes
  <1>7. reply[c] = "none" /\ outcome[c] = "none" /\ c \notin DOMAIN api_keys /\ Known(c) /\ c \in trusted
    BY <1>1 DEF CallInv, CallFits, TrustFits
  <1>8. Frame(c)
    BY <1>2, <1>3, <1>4, <1>7 DEF Frame, tables, etcd
  <1>9. CallFits(c)'
    BY <1>2, <1>3, <1>4, <1>7 DEF CallFits, SameCall, Known, method
  <1>10. TrustFits(c)'
    BY <1>2, <1>4, <1>7 DEF TrustFits
  <1>11. EffectFits(c)'
    <2>1. c \notin DOMAIN model_manifest
      BY <1>1 DEF StepFits
    <2>. QED BY <1>2, <1>3, <1>4, <1>7, <2>1 DEF EffectFits
  <1>12. LateFits(c)'
    <2>1. c \notin late
      <3>1. request[c] = NoRequest
        BY <1>1 DEF StepFits
      <3>. QED BY <1>1, <3>1 DEF CallInv, LateFits, RegisterModelManifestRequest, NoRequest
    <2>. QED BY <1>2, <1>3, <1>4, <2>1, RequestParts DEF LateFits, HasActiveVersion
  <1>13. RowInv' /\ KeyInv'
    BY <1>1, <1>2, <1>7, <1>8, NoRow, NoRevocation
  <1>. QED BY <1>5, <1>6, <1>8, <1>9, <1>10, <1>11, <1>12, <1>13, Keeps DEF CallInv

\* The commands that ask control-plane.
LEMMA CommandAsks ==
  ASSUME AdminInv, NEW c \in Calls,
         PublishModelVersion(c) \/ StartRollout(c) \/ PromoteRollout(c) \/ AbortRollout(c)
  PROVE  AdminInv'
  <1>. DEFINE q == call[c].command
  <1>1. CallFits(c) /\ pc[c] = "handler"
    BY DEF AdminInv, CallInv, PublishModelVersion, StartRollout, PromoteRollout, AbortRollout, Asks
  <1>2. q \in Commands
    BY <1>1, KnownParts DEF CallFits
  <1>3. CASE PublishModelVersion(c)
    <2>1. [rpc |-> "register", model_ref |-> q.model_ref] \in ControlRequests
      BY <1>2, <1>3, CommandParts DEF PublishModelVersion, ControlRequests, RegisterModelManifestRequest
    <2>. QED BY <1>3, <2>1, AsksKeeps DEF PublishModelVersion, method
  <1>4. CASE StartRollout(c)
    <2>1. [rpc |-> "create", model_ref |-> q.model_ref, version_id |-> q.version_id] \in ControlRequests
      BY <1>2, <1>4, CommandParts DEF StartRollout, ControlRequests, CreateRolloutRequest
    <2>. QED BY <1>4, <2>1, AsksKeeps DEF StartRollout, method
  <1>5. CASE PromoteRollout(c)
    <2>1. [rpc |-> "promote", rollout_id |-> q.rollout_id] \in ControlRequests
      BY <1>2, <1>5, CommandParts DEF PromoteRollout, ControlRequests, PromoteRolloutRequest
    <2>. QED BY <1>5, <2>1, AsksKeeps DEF PromoteRollout, method
  <1>6. CASE AbortRollout(c)
    <2>1. [rpc |-> "abort", rollout_id |-> q.rollout_id] \in ControlRequests
      BY <1>2, <1>6, CommandParts DEF AbortRollout, ControlRequests, AbortRolloutRequest
    <2>. QED BY <1>6, <2>1, AsksKeeps DEF AbortRollout, method
  <1>. QED BY <1>3, <1>4, <1>5, <1>6

\* The commands that write api_keys: an ok is one of a key that was created, or
\* of a key that was active until this call revoked it.
LEMMA KeyKeeps ==
  ASSUME AdminInv, NEW c \in Calls, CreateApiKey(c) \/ RevokeApiKey(c)
  PROVE  AdminInv'
  <1>. DEFINE k == call[c].command.key_id
  <1>1. /\ AdminTypes /\ RegistryTypes /\ CallInv(c) /\ StepFits(c) /\ pc[c] = "handler"
        /\ method(c) \in {"CreateApiKey", "RevokeApiKey"}
    BY DEF AdminInv, CreateApiKey, RevokeApiKey, RegistryTypes, method
  <1>2. /\ UNCHANGED registryVars /\ call' = call /\ reply' = reply /\ revoked' = revoked
        /\ audit_log' = audit_log /\ trusted' = trusted /\ pc' = [pc EXCEPT ![c] = "audit"]
    BY DEF CreateApiKey, RevokeApiKey, Returns, Goto
  <1>3. PICK result \in {"ok", "error"} : outcome' = [outcome EXCEPT ![c] = result]
    BY DEF CreateApiKey, RevokeApiKey, Returns
  <1>4. reply[c] = "none" /\ outcome[c] = "none" /\ step[c] = "idle" /\ c \notin DOMAIN api_keys /\ Known(c) /\ c \in trusted
    BY <1>1 DEF CallInv, CallFits, TrustFits
  <1>5. /\ pc'[c] = "audit" /\ outcome'[c] = result
        /\ \A d \in Calls \ {c} : pc'[d] = pc[d] /\ outcome'[d] = outcome[d]
        /\ step' = step /\ request' = request /\ late' = late /\ model_manifest' = model_manifest
        /\ model_active' = model_active /\ rollout' = rollout /\ manifest_keys' = manifest_keys /\ active_keys' = active_keys
        /\ seen' = seen
    BY <1>1, <1>2, <1>3 DEF AdminTypes, registryVars
  <1>6. \/ /\ method(c) = "CreateApiKey" /\ acted' = acted \cup {c}
           /\ DOMAIN api_keys' = DOMAIN api_keys \cup {c} /\ api_keys'[c] = "active"
           /\ \A x \in DOMAIN api_keys : api_keys'[x] = api_keys[x]
        \/ /\ method(c) = "RevokeApiKey" /\ acted' = acted \cup {c} /\ k \in DOMAIN api_keys /\ api_keys[k] = "active"
           /\ DOMAIN api_keys' = DOMAIN api_keys /\ api_keys'[k] = "revoked"
           /\ \A x \in DOMAIN api_keys : x # k => api_keys'[x] = api_keys[x]
        \/ result = "error" /\ api_keys' = api_keys /\ acted' = acted
    <2>1. CASE CreateApiKey(c)
      <3>1. CASE api_keys' = creates(c) /\ acted' = acted \cup {c}
        BY <1>4, <2>1, <3>1 DEF CreateApiKey, creates, Put, method
      <3>2. CASE outcome' = [outcome EXCEPT ![c] = "error"] /\ api_keys' = api_keys /\ acted' = acted
        BY <1>1, <1>5, <3>2 DEF AdminTypes
      <3>. QED BY <2>1, <3>1, <3>2 DEF CreateApiKey, Returns
    <2>2. CASE RevokeApiKey(c)
      <3>1. CASE revokes(k) /\ api_keys' = [api_keys EXCEPT ![k] = "revoked"] /\ acted' = acted \cup {c}
        BY <2>2, <3>1 DEF RevokeApiKey, revokes, method
      <3>2. CASE outcome' = [outcome EXCEPT ![c] = "error"] /\ api_keys' = api_keys /\ acted' = acted
        BY <1>1, <1>5, <3>2 DEF AdminTypes
      <3>. QED BY <2>2, <3>1, <3>2 DEF RevokeApiKey, Returns
    <2>. QED BY <2>1, <2>2
  <1>7. /\ acted' \subseteq Calls /\ \A d \in Calls \ {c} : d \in acted' <=> d \in acted
        /\ DOMAIN api_keys' \subseteq Keys /\ \A x \in DOMAIN api_keys' : api_keys'[x] \in {"active", "revoked"}
        /\ \A x \in DOMAIN api_keys : x \in DOMAIN api_keys' /\ (api_keys[x] = "revoked" => api_keys'[x] = "revoked")
        /\ \A d \in Calls \ {c} : d \in DOMAIN api_keys' <=> d \in DOMAIN api_keys
    <2>1. /\ acted \subseteq Calls /\ DOMAIN api_keys \subseteq Keys /\ c \in Keys
          /\ \A x \in DOMAIN api_keys : api_keys[x] \in {"active", "revoked"}
      BY <1>1 DEF AdminTypes, Keys
    <2>. QED BY <1>6, <2>1
  <1>8. AdminTypes'
    BY <1>1, <1>2, <1>3, <1>7 DEF AdminTypes
  <1>9. Frame(c)
    BY <1>2, <1>4, <1>5, <1>7 DEF Frame, tables, etcd
  <1>10. CallFits(c)'
    BY <1>1, <1>2, <1>4, <1>5 DEF CallInv, CallFits, SameCall, Known, method
  <1>11. TrustFits(c)'
    BY <1>2, <1>4, <1>5 DEF TrustFits
  <1>12. EffectFits(c)'
    <2>1. request[c] = NoRequest /\ request[c].rpc \notin {"register", "create", "abort"} /\ c \notin DOMAIN model_manifest
      BY <1>1, <1>4 DEF StepFits, NoRequest
    <2>2. result = "ok" => /\ method(c) = "CreateApiKey" => c \in DOMAIN api_keys'
                           /\ method(c) = "RevokeApiKey" => k \in DOMAIN api_keys' /\ api_keys'[k] = "revoked"
                           /\ c \in acted'
      BY <1>6
    <2>. QED BY <1>1, <1>2, <1>4, <1>5, <2>1, <2>2 DEF EffectFits, method
  <1>13. LateFits(c)'
    BY <1>1, <1>5 DEF CallInv, LateFits, HasActiveVersion
  <1>14. RowInv'
    BY <1>1, <1>2, <1>4, <1>9, NoRow
  <1>15. KeyInv'
    <2>1. CASE result = "ok" /\ method(c) = "RevokeApiKey"
      <3>1. api_keys[k] = "active"
        BY <1>6, <2>1
      <3>2. \A d \in Calls : outcome[d] = "ok" /\ method(d) = "RevokeApiKey" => call[d].command.key_id # k
        BY <3>1 DEF AdminInv, CallInv, EffectFits
      <3>. QED BY <1>2, <1>5, <3>2 DEF AdminInv, KeyInv, method
    <2>2. CASE result # "ok" \/ method(c) # "RevokeApiKey"
      BY <1>2, <1>5, <1>9, <2>2, NoRevocation DEF method
    <2>. QED BY <2>1, <2>2
  <1>. QED BY <1>1, <1>2, <1>8, <1>9, <1>10, <1>11, <1>12, <1>13, <1>14, <1>15, RegistryRests, Keeps DEF CallInv

\* An operator revokes a user: calls that are on their way go on.
LEMMA RevokeKeeps ==
  ASSUME AdminInv, NEW u \in Users, RevokeUser(u)
  PROVE  AdminInv'
  <1>1. /\ UNCHANGED registryVars /\ pc' = pc /\ call' = call /\ outcome' = outcome /\ reply' = reply
        /\ api_keys' = api_keys /\ audit_log' = audit_log /\ trusted' = trusted /\ acted' = acted
        /\ revoked' = revoked \cup {u}
    BY DEF RevokeUser
  <1>2. RegistryTypes' /\ AdminTypes'
    BY <1>1, RegistryRests DEF AdminInv, AdminTypes
  <1>3. LiveInv' /\ RowInv' /\ KeyInv'
    <2>1. LiveInv'
      BY <1>1 DEF AdminInv, LiveInv, Served, Signed, Live, registryVars
    <2>. QED BY <1>1, <2>1 DEF AdminInv, RowInv, KeyInv, Succeeded, Shown, method
  <1>4. ASSUME NEW c \in Calls PROVE CallInv(c)'
    BY <1>1 DEF AdminInv, CallInv, CallFits, SameCall, Known, method, TrustFits, EffectFits, Signed, LateFits,
                HasActiveVersion, registryVars
  <1>. QED BY <1>2, <1>3, <1>4 DEF AdminInv

\* Every step of admin-api keeps the invariant.
LEMMA AdminKeeps == AdminInv /\ AdminNext => AdminInv'
  <1>. SUFFICES ASSUME AdminInv, AdminNext PROVE AdminInv'
    OBVIOUS
  <1>1. ASSUME NEW c \in Calls, NEW u \in Users, NEW q \in Commands, Authenticate(c, u, q) PROVE AdminInv'
    BY <1>1, AuthenticateKeeps
  <1>2. ASSUME NEW u \in Users, RevokeUser(u) PROVE AdminInv'
    BY <1>2, RevokeKeeps
  <1>3. ASSUME NEW c \in Calls, Unauthenticated(c) \/ Dies(c) \/ Answer(c) PROVE AdminInv'
    BY <1>3, QuietKeeps
  <1>4. ASSUME NEW c \in Calls, Authorize(c) PROVE AdminInv'
    BY <1>4, QuietKeeps, AuditKeeps
  <1>5. ASSUME NEW c \in Calls, Audit(c) PROVE AdminInv'
    BY <1>5, AuditKeeps
  <1>6. ASSUME NEW c \in Calls, PublishModelVersion(c) \/ StartRollout(c) \/ PromoteRollout(c) \/ AbortRollout(c)
        PROVE  AdminInv'
    BY <1>6, CommandAsks
  <1>7. ASSUME NEW c \in Calls, CreateApiKey(c) \/ RevokeApiKey(c) PROVE AdminInv'
    BY <1>7, KeyKeeps
  <1>. QED BY <1>1, <1>2, <1>3, <1>4, <1>5, <1>6, <1>7 DEF AdminNext, Command

\* A step that leaves commands and registry alone keeps the invariant.
LEMMA AdminRests == AdminInv /\ UNCHANGED commandVars => AdminInv'
  <1>. SUFFICES ASSUME AdminInv, UNCHANGED commandVars PROVE AdminInv'
    OBVIOUS
  <1>1. /\ UNCHANGED registryVars /\ pc' = pc /\ call' = call /\ outcome' = outcome /\ reply' = reply /\ revoked' = revoked
        /\ api_keys' = api_keys /\ audit_log' = audit_log /\ trusted' = trusted /\ acted' = acted
    BY DEF commandVars, adminVars
  <1>2. RegistryTypes' /\ AdminTypes'
    BY <1>1, RegistryRests DEF AdminInv, AdminTypes
  <1>3. LiveInv' /\ RowInv' /\ KeyInv'
    <2>1. LiveInv'
      BY <1>1 DEF AdminInv, LiveInv, Served, Signed, Live, registryVars
    <2>. QED BY <1>1, <2>1 DEF AdminInv, RowInv, KeyInv, Succeeded, Shown, method
  <1>4. ASSUME NEW c \in Calls PROVE CallInv(c)'
    BY <1>1 DEF AdminInv, CallInv, CallFits, SameCall, Known, method, TrustFits, EffectFits, Signed, LateFits,
                HasActiveVersion, registryVars
  <1>. QED BY <1>2, <1>3, <1>4 DEF AdminInv

\* A command does not touch the tables of control-plane itself.
LEMMA AdminLeavesTables == AdminNext => UNCHANGED <<tables, etcd>>
  <1>1. ASSUME NEW c \in Calls, NEW u \in Users, NEW q \in Commands, Authenticate(c, u, q) PROVE UNCHANGED <<tables, etcd>>
    BY <1>1 DEF Authenticate, registryVars, tables, etcd
  <1>2. ASSUME NEW u \in Users, RevokeUser(u) PROVE UNCHANGED <<tables, etcd>>
    BY <1>2 DEF RevokeUser, registryVars, tables, etcd
  <1>3. ASSUME NEW c \in Calls, PublishModelVersion(c) \/ StartRollout(c) \/ PromoteRollout(c) \/ AbortRollout(c)
        PROVE  UNCHANGED <<tables, etcd>>
    BY <1>3 DEF PublishModelVersion, StartRollout, PromoteRollout, AbortRollout, Asks, Begin
  <1>4. ASSUME NEW c \in Calls,
               Unauthenticated(c) \/ Dies(c) \/ Answer(c) \/ Authorize(c) \/ Audit(c) \/ CreateApiKey(c) \/ RevokeApiKey(c)
        PROVE  UNCHANGED <<tables, etcd>>
    <2>1. UNCHANGED registryVars
      BY <1>4 DEF Unauthenticated, Dies, Answer, Authorize, Audit, CreateApiKey, RevokeApiKey
    <2>. QED BY <2>1 DEF registryVars, tables, etcd
  <1>. QED BY <1>1, <1>2, <1>3, <1>4 DEF AdminNext, Command

\* The invariant holds at first.
LEMMA AdminStarts == AdminInit => AdminInv
  <1>. SUFFICES ASSUME AdminInit PROVE AdminInv
    OBVIOUS
  <1>1. /\ DOMAIN model_manifest = {V0, V1, Bypass}
        /\ model_manifest[V0] = [model_ref |-> Home, signature |-> "vault"]
        /\ model_manifest[V1] = [model_ref |-> Home, signature |-> "vault"]
        /\ model_manifest[Bypass] = [model_ref |-> Home, signature |-> "other"]
    BY Names DEF AdminInit, RegistryInit
  <1>2. PICK status \in {"running", "aborted"} :
          /\ rollout = [r \in {R0} |-> [model_ref |-> Home, version_id |-> V1, stable_version_id |-> V0,
                                         stage |-> Last, status |-> status]]
          /\ active_keys = [m \in ModelRefs |->
                ActiveEnvelope(model_active[m], IF m = Home /\ status = "running" THEN V1 ELSE NoVersion)]
    BY DEF AdminInit, RegistryInit
  <1>3. /\ step = [c \in Calls |-> "idle"] /\ request = [c \in Calls |-> NoRequest] /\ late = {}
        /\ model_active = [m \in ModelRefs |-> IF m = Home THEN V0 ELSE NoVersion]
        /\ manifest_keys = {<<Home, V0>>, <<Home, V1>>}
        /\ seen = [c \in Calls |-> [stable |-> NoVersion, stage |-> 0]]
    BY DEF AdminInit, RegistryInit
  <1>4. /\ pc = [c \in Calls |-> "new"] /\ call = [c \in Calls |-> Idle] /\ outcome = [c \in Calls |-> "none"]
        /\ reply = [c \in Calls |-> "none"] /\ revoked = {} /\ api_keys = [k \in {Seeded} |-> "active"]
        /\ audit_log = << >> /\ trusted = {} /\ acted = {}
    BY DEF AdminInit
  <1>5. RegistryTypes
    <2>1. {V0, V1, Bypass} \subseteq Versions /\ Home \in ModelRefs /\ Last \in Nat /\ R0 \in RolloutIDs
      BY RegistryAssumption DEF Versions, RolloutIDs
    <2>2. DOMAIN rollout = {R0} /\ rollout[R0] \in RolloutRow /\ rollout[R0].stage \in 0..Last
      BY <1>2, <2>1 DEF RolloutRow
    <2>3. active_keys \in [ModelRefs -> Envelopes]
      <3>1. \A m \in ModelRefs : model_active[m] \in Versions \cup {NoVersion}
        BY <1>3, <2>1
      <3>. QED BY <1>2, <2>1, <3>1 DEF ActiveEnvelope, Envelopes
    <2>4. seen \in [Calls -> [stable : Versions \cup {NoVersion}, stage : 0..Last]]
      BY <1>3, <2>1
    <2>5. RegistryTypeOK
      BY <1>1, <1>3, <2>1, <2>2, <2>3, <2>4 DEF RegistryTypeOK, Manifest, Steps
    <2>6. ASSUME NEW c \in Calls PROVE StepFits(c)
      BY <1>1, <1>3, <2>2, Names DEF StepFits
    <2>7. StageFits
      BY <2>2 DEF StageFits
    <2>. QED BY <2>5, <2>6, <2>7 DEF RegistryTypes
  <1>6. AdminTypes
    <2>1. audit_log \in Seq(Row)
      BY <1>4
    <2>2. call \in [Calls -> [user : Users \cup {NoOne}, command : Commands \cup {NoCommand}]]
      BY <1>4 DEF Idle
    <2>. QED BY <1>4, <2>1, <2>2 DEF AdminTypes, Keys
  <1>7. LiveInv
    <2>1. Served(Home, V0) /\ Served(Home, V1) /\ Signed(V1)
      BY <1>1, <1>3 DEF Served, Signed
    <2>2. /\ DOMAIN rollout = {R0} /\ rollout[R0].model_ref = Home /\ rollout[R0].version_id = V1
          /\ rollout[R0].stable_version_id = V0
      BY <1>2
    <2>3. \A m \in ModelRefs : \A v \in Live(m) : m = Home /\ v \in {V0, V1}
      BY <1>2, <1>3 DEF Live, ActiveEnvelope
    <2>4. \A v \in DOMAIN model_manifest \ Calls : Signed(v) => <<model_manifest[v].model_ref, v>> \in manifest_keys
      BY <1>1, <1>3 DEF Signed
    <2>5. \A c \in Calls : step[c] \notin {"running", "begin"}
      BY <1>3
    <2>. QED BY <2>1, <2>2, <2>3, <2>4, <2>5 DEF LiveInv
  <1>8. RowInv /\ KeyInv
    BY <1>4 DEF RowInv, KeyInv, Shown, Succeeded
  <1>9. ASSUME NEW c \in Calls PROVE CallInv(c)
    <2>1. pc[c] = "new" /\ step[c] = "idle" /\ outcome[c] = "none" /\ reply[c] = "none" /\ c \notin DOMAIN api_keys
      BY <1>3, <1>4, AdminAssumption
    <2>2. call[c].user = NoOne /\ ~Known(c)
      BY <1>4, AdminAssumption DEF Known, Idle
    <2>3. c \notin DOMAIN model_manifest /\ request[c].rpc = "none"
      BY <1>1, <1>3, Names DEF NoRequest
    <2>4. CallFits(c) /\ TrustFits(c)
      BY <1>4, <2>1 DEF CallFits, TrustFits
    <2>5. EffectFits(c) /\ LateFits(c)
      BY <1>3, <2>1, <2>2, <2>3 DEF EffectFits, LateFits
    <2>. QED BY <2>4, <2>5 DEF CallInv
  <1>. QED BY <1>5, <1>6, <1>7, <1>8, <1>9 DEF AdminInv

(***************************************************************************)
(* A step of a query keeps the invariant.                                  *)
(***************************************************************************)
\* The schema's objects are never null: a field that must not be null is there.
LEMMA Marshals ==
  /\ marshalAdminUser({"id", "orgId", "role"})
  /\ marshalModelSummary(DOMAIN ModelSummary)
  /\ marshalModelManifest(DOMAIN ModelManifest)
  /\ \A r : marshalRollout(rolloutFromProto(rolloutToProto(r)))
  /\ \A k : marshalApiKeySummary(keySummary(k))
  /\ marshalDashboardMetrics(DOMAIN DashboardMetrics)
  /\ \A row : marshalAuditEntry(auditEntry(row))
  /\ marshalProviderHealth(DOMAIN ProviderHealth)
  <1>1. marshalAdminUser({"id", "orgId", "role"})
    BY DEF marshalAdminUser, Valid, AdminUser
  <1>2. /\ marshalModelSummary(DOMAIN ModelSummary) /\ marshalModelManifest(DOMAIN ModelManifest)
        /\ marshalDashboardMetrics(DOMAIN DashboardMetrics) /\ marshalProviderHealth(DOMAIN ProviderHealth)
    BY DEF marshalModelSummary, marshalModelManifest, marshalDashboardMetrics, marshalProviderHealth, Valid
  <1>3. ASSUME NEW r PROVE marshalRollout(rolloutFromProto(rolloutToProto(r)))
    <2>1. ~Rollout["endedAt"]
      BY DEF Rollout
    <2>2. rolloutFromProto(rolloutToProto(r)) \in {DOMAIN Rollout, DOMAIN Rollout \ {"endedAt"}}
      BY DEF rolloutFromProto
    <2>. QED BY <2>1, <2>2 DEF marshalRollout, Valid
  <1>4. ASSUME NEW k PROVE marshalApiKeySummary(keySummary(k))
    <2>1. ~ApiKeySummary["revokedAt"]
      BY DEF ApiKeySummary
    <2>. QED BY <2>1 DEF marshalApiKeySummary, keySummary, Valid
  <1>5. ASSUME NEW row PROVE marshalAuditEntry(auditEntry(row))
    <2>1. ~AuditEntry["beforeJson"] /\ ~AuditEntry["afterJson"]
      BY DEF AuditEntry
    <2>. QED BY <2>1 DEF marshalAuditEntry, auditEntry, Valid
  <1>. QED BY <1>1, <1>2, <1>3, <1>4, <1>5

\* Fields a selection asks for are fields of the schema.
LEMMA AskedFields == GraphTypes => asked \subseteq Fields
  BY SelectionAssumption DEF GraphTypes

\* A field gets its value: null only if its backend failed, or it may be null.
LEMMA FieldStep ==
  ASSUME GraphTypes, FieldInv, NEW f \in asked, NEW v \in {"data", "null", "counting"}, query = "running",
         value[f] \in {"unresolved", "counting"}, value' = [value EXCEPT ![f] = v],
         UNCHANGED <<query, asked, data, told>>,
         \/ failed' = failed /\ (v = "null" => ~Query[f])
         \/ failed' = failed \cup {f} /\ v = "null"
  PROVE  FieldInv' /\ failed' \subseteq Fields /\ value' \in [Fields -> {"unresolved", "counting", "data", "null"}]
  <1>1. f \in Fields /\ value \in [Fields -> {"unresolved", "counting", "data", "null"}] /\ failed \subseteq Fields
    BY AskedFields DEF GraphTypes
  <1>2. value' \in [Fields -> {"unresolved", "counting", "data", "null"}] /\ failed' \subseteq Fields
    BY <1>1
  <1>3. value'[f] = v /\ \A g \in Fields : g # f => value'[g] = value[g]
    BY <1>1
  <1>4. f \notin failed
    BY DEF FieldInv
  <1>5. \A g \in failed' : value'[g] = "null"
    BY <1>1, <1>3, <1>4 DEF FieldInv
  <1>6. \A g \in Fields : value'[g] = "null" /\ Query[g] => g \in failed'
    BY <1>3 DEF FieldInv
  <1>7. \A g \in Fields : (value'[g] = "counting" => query' = "running") /\ (value'[g] # "unresolved" => g \in asked')
    BY <1>3 DEF FieldInv
  <1>8. query' = "running"
    OBVIOUS
  <1>. QED BY <1>2, <1>5, <1>6, <1>7, <1>8 DEF FieldInv

\* The newest rows of a log: as many as asked for, or all, and last first.
LEMMA NewestRows ==
  ASSUME NEW rows \in Seq(Row), NEW n \in Nat
  PROVE  LET k == IF n < Len(rows) THEN n ELSE Len(rows)
         IN  /\ newest(rows, n) \in Seq(Row) /\ Len(newest(rows, n)) = k /\ DOMAIN newest(rows, n) = 1..k
             /\ \A i \in 1..k : newest(rows, n)[i] = rows[Len(rows) + 1 - i] /\ Len(rows) + 1 - i \in DOMAIN rows
  <1>. DEFINE k == IF n < Len(rows) THEN n ELSE Len(rows)
  <1>1. k \in Nat /\ k <= Len(rows) /\ Len(rows) \in Nat
    OBVIOUS
  <1>2. newest(rows, n) = [i \in 1..k |-> rows[Len(rows) + 1 - i]]
    BY DEF newest
  <1>. HIDE DEF k
  <1>3. \A i \in 1..k : Len(rows) + 1 - i \in 1..Len(rows)
    BY <1>1
  <1>4. \A i \in 1..k : rows[Len(rows) + 1 - i] \in Row
    BY <1>3
  <1>5. [i \in 1..k |-> rows[Len(rows) + 1 - i]] \in Seq(Row)
    BY <1>1, <1>4
  <1>6. Len([i \in 1..k |-> rows[Len(rows) + 1 - i]]) = k
    BY <1>1, <1>5
  <1>7. /\ newest(rows, n) \in Seq(Row) /\ Len(newest(rows, n)) = k /\ DOMAIN newest(rows, n) = 1..k
        /\ \A i \in 1..k : newest(rows, n)[i] = rows[Len(rows) + 1 - i] /\ Len(rows) + 1 - i \in DOMAIN rows
    <2>1. newest(rows, n) \in Seq(Row) /\ Len(newest(rows, n)) = k
      BY <1>2, <1>5, <1>6
    <2>2. DOMAIN newest(rows, n) = 1..k
      BY <1>2
    <2>3. \A i \in 1..k : newest(rows, n)[i] = rows[Len(rows) + 1 - i]
      BY <1>2
    <2>4. DOMAIN rows = 1..Len(rows)
      OBVIOUS
    <2>. QED BY <1>3, <2>1, <2>2, <2>3, <2>4
  <1>. QED BY <1>7 DEF k

\* A limit is positive, whatever was asked for.
LEMMA Clamps == \A l \in AskedLimits : clamp(l) \in Nat \ {0}
  BY GraphAssumption DEF clamp

\* A step of a query but its lists: the field is another one.
LEMMA ListRests ==
  ASSUME GraphInv, NEW f \in asked, NEW v \in {"data", "null", "counting"}, value' = [value EXCEPT ![f] = v],
         f \in {"apiKeys", "auditLog"} => v = "null", UNCHANGED <<commandVars, told, keysSeen, rowsSeen>>
  PROVE  ListInv'
  <1>1. value \in [Fields -> {"unresolved", "counting", "data", "null"}]
    BY DEF GraphInv, GraphTypes
  <1>2. {"apiKeys", "auditLog"} \subseteq Fields
    BY DEF Fields, Query
  <1>3. /\ value'["apiKeys"] = "data" => value["apiKeys"] = "data"
        /\ value'["auditLog"] = "data" => value["auditLog"] = "data"
    BY <1>1, <1>2
  <1>4. api_keys' = api_keys /\ audit_log' = audit_log /\ reply' = reply
    BY DEF commandVars, adminVars
  <1>. QED BY <1>3, <1>4 DEF GraphInv, ListInv, Shown

\* What is common to the resolvers but those of lists.
LEMMA Resolved ==
  ASSUME GraphInv, NEW f \in asked, NEW v \in {"data", "null", "counting"}, query = "running",
         value[f] \in {"unresolved", "counting"}, value' = [value EXCEPT ![f] = v], Elsewhere, Unlisted,
         f \in {"apiKeys", "auditLog"} => v = "null",
         \/ failed' = failed /\ (v = "null" => ~Query[f])
         \/ failed' = failed \cup {f} /\ v = "null"
  PROVE  GraphInv'
  <1>1. GraphTypes /\ FieldInv /\ AdminInv
    BY DEF GraphInv
  <1>2. UNCHANGED commandVars /\ query' = query /\ asked' = asked /\ data' = data /\ told' = told
        /\ keysSeen' = keysSeen /\ rowsSeen' = rowsSeen
    BY DEF Elsewhere, Unlisted
  <1>3. FieldInv' /\ failed' \subseteq Fields /\ value' \in [Fields -> {"unresolved", "counting", "data", "null"}]
    BY <1>1, <1>2, FieldStep
  <1>4. ListInv'
    BY <1>2, ListRests
  <1>5. GraphTypes'
    BY <1>1, <1>2, <1>3 DEF GraphTypes
  <1>. QED BY <1>1, <1>2, <1>3, <1>4, <1>5, AdminRests DEF GraphInv

\* The resolvers that list nothing.
LEMMA ResolveKeeps ==
  ASSUME GraphInv,
         \/ Me \/ Models \/ Rollouts \/ DashboardRollouts \/ ProviderHealths
         \/ \E m \in ModelRefs : ModelDraft(m) \/ RolloutByModel(m)
         \/ \E m \in ModelRefs, v \in Versions \cup {NoVersion} : ModelVersion(m, v)
         \/ \E id \in RolloutIDs : RolloutById(id)
         \/ \E up \in BOOLEAN : DashboardModels(up)
  PROVE  GraphInv'
  <1>1. CASE Me
    BY <1>1, Marshals, Resolved DEF Me, Pending, Set
  <1>2. CASE Models
    <2>1. marshalModelSummaries({DOMAIN ModelSummary : entry \in ListModels})
      BY Marshals DEF marshalModelSummaries
    <2>. QED BY <1>2, <2>1, Resolved DEF Models, Pending, Set
  <1>3. CASE Rollouts
    <2>1. marshalRollouts({rolloutFromProto(rolloutToProto(r)) : r \in ListRollouts})
      BY Marshals DEF marshalRollouts
    <2>. QED BY <1>3, <2>1, Resolved DEF Rollouts, Pending, Set
  <1>4. CASE DashboardRollouts
    <2>1. "dashboardMetrics" \in Fields
      BY DEF Fields, Query
    <2>2. "dashboardMetrics" \in asked /\ query = "running" /\ value["dashboardMetrics"] = "counting"
      BY <1>4, <2>1 DEF DashboardRollouts, GraphInv, FieldInv
    <2>. QED BY <1>4, <2>2, Marshals, Resolved DEF DashboardRollouts, Set
  <1>5. CASE ProviderHealths
    <2>1. marshalProviderHealths({DOMAIN ProviderHealth})
      BY Marshals DEF marshalProviderHealths
    <2>. QED BY <1>5, <2>1, Resolved DEF ProviderHealths, Pending, Set
  <1>6. ASSUME NEW f \in {"modelDraft", "modelVersion"}, NEW m, NEW v, fetchManifest(f, m, v) PROVE GraphInv'
    <2>1. CASE manifestStatus(GetModelManifest(m, v).err) = "OK"
      BY <1>6, <2>1, Marshals, Resolved DEF fetchManifest, Pending, Set
    <2>2. CASE manifestStatus(GetModelManifest(m, v).err) # "OK"
      BY <1>6, <2>2, Resolved DEF fetchManifest, Pending, Set
    <2>. QED BY <2>1, <2>2
  <1>7. ASSUME NEW f \in {"rollout", "rolloutByModel"}, NEW found, fetchRollout(f, found) PROVE GraphInv'
    <2>1. ~Query[f]
      BY <1>7 DEF Query
    <2>2. f \in asked /\ query = "running" /\ value[f] = "unresolved" /\ Elsewhere /\ Unlisted /\ failed' = failed
      BY <1>7 DEF fetchRollout, Pending
    <2>3. \E v \in {"data", "null"} : value' = [value EXCEPT ![f] = v]
      BY <1>7 DEF fetchRollout, Set
    <2>. QED BY <2>1, <2>2, <2>3, Resolved
  <1>8. ASSUME NEW up \in BOOLEAN, DashboardModels(up) PROVE GraphInv'
    <2>1. scalarOrZero(QueryScalar(up)) # "error"
      BY DEF scalarOrZero, QueryScalar
    <2>. QED BY <1>8, <2>1, Resolved DEF DashboardModels, Pending
  <1>. QED BY <1>1, <1>2, <1>3, <1>4, <1>5, <1>6, <1>7, <1>8 DEF ModelDraft, ModelVersion, RolloutByModel, RolloutById

\* A backend that does not answer makes its field null, and is held responsible.
LEMMA FailKeeps ==
  ASSUME GraphInv, NEW f \in asked, ResolverFails(f)
  PROVE  GraphInv'
  <1>1. value' = [value EXCEPT ![f] = "null"] /\ failed' = failed \cup {f} /\ Unlisted /\ Elsewhere
    BY DEF ResolverFails, Set
  <1>2. query = "running" /\ value[f] \in {"unresolved", "counting"}
    BY DEF ResolverFails, Pending
  <1>. QED BY <1>1, <1>2, Resolved

\* The resolvers of lists take them from the tables as they are.
LEMMA ListKeeps ==
  ASSUME GraphInv, APIKeys \/ \E l \in AskedLimits : AuditLog(l)
  PROVE  GraphInv'
  <1>1. GraphTypes /\ FieldInv /\ ListInv /\ AdminInv /\ AdminTypes
    BY DEF GraphInv, AdminInv
  <1>2. UNCHANGED commandVars /\ query' = query /\ asked' = asked /\ data' = data /\ told' = told /\ failed' = failed
        /\ query = "running"
    BY DEF APIKeys, AuditLog, Elsewhere, Pending
  <1>3. api_keys' = api_keys /\ audit_log' = audit_log /\ reply' = reply
    BY <1>2 DEF commandVars, adminVars
  <1>4. value \in [Fields -> {"unresolved", "counting", "data", "null"}] /\ "apiKeys" \in Fields /\ "auditLog" \in Fields
    BY <1>1 DEF GraphTypes, Fields, Query
  <1>5. CASE APIKeys
    <2>1. marshalApiKeySummaries({keySummary(k) : k \in DOMAIN api_keys})
      BY Marshals DEF marshalApiKeySummaries
    <2>2. /\ value' = [value EXCEPT !["apiKeys"] = "data"] /\ keysSeen' = api_keys /\ rowsSeen' = rowsSeen
          /\ "apiKeys" \in asked /\ value["apiKeys"] = "unresolved"
      BY <1>5, <2>1 DEF APIKeys, Set, listKeys, Pending
    <2>3. FieldInv' /\ failed' \subseteq Fields /\ value' \in [Fields -> {"unresolved", "counting", "data", "null"}]
      BY <1>1, <1>2, <2>2, FieldStep
    <2>4. value'["auditLog"] = value["auditLog"]
      BY <1>4, <2>2
    <2>5. ListInv'
      BY <1>1, <1>2, <1>3, <2>2, <2>4 DEF ListInv, Shown
    <2>6. GraphTypes'
      BY <1>1, <1>2, <2>2, <2>3 DEF GraphTypes, AdminTypes
    <2>. QED BY <1>1, <1>2, <2>3, <2>5, <2>6, AdminRests DEF GraphInv
  <1>6. ASSUME NEW l \in AskedLimits, AuditLog(l) PROVE GraphInv'
    <2>1. marshalAuditEntries({auditEntry(audit_log[i]) : i \in DOMAIN audit_log})
      BY Marshals DEF marshalAuditEntries
    <2>2. /\ value' = [value EXCEPT !["auditLog"] = "data"] /\ keysSeen' = keysSeen
          /\ rowsSeen' = newest(audit_log, clamp(l))
          /\ "auditLog" \in asked /\ value["auditLog"] = "unresolved"
      BY <1>6, <2>1 DEF AuditLog, Set, Pending
    <2>3. FieldInv' /\ failed' \subseteq Fields /\ value' \in [Fields -> {"unresolved", "counting", "data", "null"}]
      BY <1>1, <1>2, <2>2, FieldStep
    <2>4. value'["apiKeys"] = value["apiKeys"]
      BY <1>4, <2>2
    <2>5. ListInv'
      BY <1>1, <1>2, <1>3, <2>2, <2>4 DEF ListInv, Shown
    <2>6. rowsSeen' \in Seq(Row)
      BY <1>1, <2>2, NewestRows, Clamps DEF AdminTypes
    <2>7. GraphTypes'
      BY <1>1, <1>2, <2>2, <2>3, <2>6 DEF GraphTypes
    <2>. QED BY <1>1, <1>2, <2>3, <2>5, <2>7, AdminRests DEF GraphInv
  <1>. QED BY <1>5, <1>6

\* A query begins, is answered, and is forgotten.
LEMMA QueryKeeps ==
  ASSUME GraphInv, (\E u \in Users, s \in Selections : Serve(u, s)) \/ Dispatch \/ Respond
  PROVE  GraphInv'
  <1>1. GraphTypes /\ FieldInv /\ ListInv /\ AdminInv
    BY DEF GraphInv
  <1>2. UNCHANGED commandVars
    BY DEF Serve, Dispatch, Respond
  <1>3. api_keys' = api_keys /\ audit_log' = audit_log /\ reply' = reply
    BY <1>2 DEF commandVars, adminVars
  <1>4. {"apiKeys", "auditLog"} \subseteq Fields
    BY DEF Fields, Query
  <1>5. ASSUME NEW u \in Users, NEW s \in Selections, Serve(u, s) PROVE GraphTypes' /\ FieldInv' /\ ListInv'
    <2>1. /\ query = "idle" /\ query' = "running" /\ asked' = s /\ told' = Shown
          /\ value' = value /\ keysSeen' = keysSeen /\ rowsSeen' = rowsSeen /\ data' = data /\ failed' = failed
      BY <1>5 DEF Serve
    <2>2. failed = {} /\ \A f \in Fields : value[f] = "unresolved"
      BY <1>1, <2>1 DEF FieldInv
    <2>3. GraphTypes'
      BY <1>1, <2>1 DEF GraphTypes, Shown
    <2>4. FieldInv'
      BY <2>1, <2>2 DEF FieldInv
    <2>5. ListInv'
      BY <1>3, <1>4, <2>1, <2>2 DEF ListInv, Shown
    <2>. QED BY <2>3, <2>4, <2>5
  <1>6. ASSUME Dispatch PROVE GraphTypes' /\ FieldInv' /\ ListInv'
    <2>1. /\ query' = "done" /\ asked' = asked /\ told' = told /\ query = "running"
          /\ value' = value /\ keysSeen' = keysSeen /\ rowsSeen' = rowsSeen /\ failed' = failed
          /\ data' = IF \E f \in asked : Query[f] /\ value[f] = "null" THEN "null" ELSE "object"
          /\ \A f \in asked : value[f] \in {"data", "null"}
      BY <1>6 DEF Dispatch
    <2>2. GraphTypes'
      BY <1>1, <2>1 DEF GraphTypes
    <2>3. \A f \in Fields : value[f] # "counting"
      BY <1>1, <2>1 DEF FieldInv
    <2>4. FieldInv'
      BY <1>1, <2>1, <2>3 DEF FieldInv
    <2>5. ListInv'
      BY <1>1, <1>3, <2>1 DEF ListInv, Shown
    <2>. QED BY <2>2, <2>4, <2>5
  <1>7. ASSUME Respond PROVE GraphTypes' /\ FieldInv' /\ ListInv'
    <2>1. /\ query' = "idle" /\ asked' = {} /\ told' = {} /\ value' = [f \in Fields |-> "unresolved"]
          /\ keysSeen' = << >> /\ rowsSeen' = << >> /\ failed' = {} /\ data' = "none"
      BY <1>7 DEF Respond
    <2>2. DOMAIN keysSeen' \subseteq Keys /\ rowsSeen' \in Seq(Row)
      BY <2>1
    <2>3. GraphTypes'
      BY <2>1, <2>2 DEF GraphTypes
    <2>4. FieldInv' /\ ListInv'
      BY <1>4, <2>1 DEF FieldInv, ListInv
    <2>. QED BY <2>3, <2>4
  <1>8. GraphTypes' /\ FieldInv' /\ ListInv'
    BY <1>5, <1>6, <1>7
  <1>. QED BY <1>1, <1>2, <1>8, AdminRests DEF GraphInv

\* Commands go on while there is no query, control-plane also beside one.
LEMMA CommandsKeep ==
  ASSUME GraphInv, (query = "idle" /\ AdminNext) \/ Works \/ UNCHANGED commandVars, UNCHANGED graphVars
  PROVE  GraphInv'
  <1>1. GraphTypes /\ FieldInv /\ ListInv /\ AdminInv
    BY DEF GraphInv
  <1>2. AdminInv'
    BY <1>1, AdminKeeps, WorksKeeps, AdminRests
  <1>3. GraphTypes' /\ FieldInv'
    BY <1>1 DEF graphVars, GraphTypes, FieldInv
  <1>4. {"apiKeys", "auditLog"} \subseteq Fields
    BY DEF Fields, Query
  <1>5. ListInv'
    <2>1. CASE query = "idle"
      BY <1>1, <1>4, <2>1 DEF FieldInv, ListInv, graphVars
    <2>2. CASE Works \/ UNCHANGED commandVars
      <3>1. api_keys' = api_keys /\ audit_log' = audit_log /\ reply' = reply
        BY <2>2 DEF Works, commandVars, adminVars
      <3>. QED BY <1>1, <3>1 DEF ListInv, Shown, graphVars
    <2>. QED BY <2>1, <2>2
  <1>. QED BY <1>2, <1>3, <1>5 DEF GraphInv

\* GraphInv is inductive.
LEMMA GraphStep == GraphInv /\ [Next]_vars => GraphInv'
  <1>. SUFFICES ASSUME GraphInv, [Next]_vars PROVE GraphInv'
    OBVIOUS
  <1>1. CASE (query = "idle" /\ AdminNext /\ UNCHANGED graphVars) \/ (Works /\ UNCHANGED graphVars)
    BY <1>1, CommandsKeep
  <1>2. CASE Ended \/ UNCHANGED vars
    BY <1>2, CommandsKeep DEF Ended, vars
  <1>3. CASE (\E u \in Users, s \in Selections : Serve(u, s)) \/ Dispatch \/ Respond
    BY <1>3, QueryKeeps
  <1>4. CASE \E f \in asked : ResolverFails(f)
    BY <1>4, FailKeeps
  <1>5. CASE Resolve
    BY <1>5, ResolveKeeps, ListKeeps DEF Resolve
  <1>. QED BY <1>1, <1>2, <1>3, <1>4, <1>5 DEF Next

\* GraphInv holds at first.
LEMMA GraphStarts == Init => GraphInv
  <1>. SUFFICES ASSUME Init PROVE GraphInv
    OBVIOUS
  <1>1. /\ query = "idle" /\ asked = {} /\ told = {} /\ value = [f \in Fields |-> "unresolved"]
        /\ keysSeen = << >> /\ rowsSeen = << >> /\ failed = {} /\ data = "none"
    BY DEF Init
  <1>2. DOMAIN keysSeen \subseteq Keys /\ rowsSeen \in Seq(Row)
    BY <1>1
  <1>3. {"apiKeys", "auditLog"} \subseteq Fields
    BY DEF Fields, Query
  <1>4. GraphTypes
    BY <1>1, <1>2 DEF GraphTypes
  <1>5. FieldInv /\ ListInv
    BY <1>1, <1>3 DEF FieldInv, ListInv
  <1>. QED BY <1>4, <1>5, AdminStarts DEF Init, GraphInv

(***************************************************************************)
(* The theorems.                                                           *)
(***************************************************************************)
\* The inductive invariant holds of every behaviour.
THEOREM AdminInvariance == Spec => []GraphInv
  BY GraphStarts, GraphStep, PTL DEF Spec

\* The state of admin-api, control-plane's registry and a query is well typed.
THEOREM AdminTypeCorrect == Spec => []TypeOK
  <1>1. GraphInv => TypeOK
    BY DEF GraphInv, AdminInv, GraphTypes, AdminTypes, RegistryTypes, TypeOK, AdminTypeOK
  <1>. QED BY <1>1, AdminInvariance, PTL

\* A version that is live or a canary, in the table or in etcd, has a row that
\* Vault signed; and its manifest is under the key of that model_ref, unless a
\* rollout was begun for a version of another model_ref or of one whose
\* registration has not come to an OK.
THEOREM LiveVersionsAreDistributed == Spec => []LiveIsDistributed
  <1>1. GraphInv => LiveIsDistributed
    <2>. SUFFICES ASSUME GraphInv, NEW m \in ModelRefs, NEW v \in Live(m)
                  PROVE  /\ v \in DOMAIN model_manifest /\ model_manifest[v].signature = "vault"
                         /\ <<m, v>> \in manifest_keys \/ Stray(m, v)
      BY DEF LiveIsDistributed
    <2>1. LiveInv /\ Served(m, v) /\ Signed(v) /\ \A c \in Calls : CallInv(c)
      BY DEF GraphInv, AdminInv, LiveInv, Served
    <2>2. CASE \E r \in DOMAIN rollout : rollout[r].model_ref = m /\ rollout[r].version_id = v
      <3>1. CASE model_manifest[v].model_ref # m \/ (v \in Calls /\ step[v] # "ok")
        BY <2>1, <2>2, <3>1 DEF Stray, Signed
      <3>2. CASE model_manifest[v].model_ref = m /\ v \notin Calls
        BY <2>1, <3>2 DEF LiveInv, Signed
      <3>3. CASE model_manifest[v].model_ref = m /\ v \in Calls /\ step[v] = "ok"
        <4>1. EffectFits(v)
          BY <2>1, <3>3 DEF CallInv
        <4>2. request[v].rpc = "register" /\ request[v].model_ref = m
          BY <2>1, <3>3, <4>1 DEF EffectFits, Signed
        <4>. QED BY <2>1, <3>3, <4>1, <4>2 DEF EffectFits, Signed
      <3>. QED BY <3>1, <3>2, <3>3
    <2>. QED BY <2>1, <2>2 DEF Served, Signed
  <1>. QED BY <1>1, AdminInvariance, PTL

\* A registration that began when its model_ref was live never moves a pointer,
\* although it looks for a live version only three writes later.
THEOREM LateRegistrationsAreInert == Spec => LateRegistrationIsInert
  <1>. DEFINE Inert == \A c \in late : step'[c] # step[c] => UNCHANGED <<model_active, active_keys>>
  <1>1. GraphInv /\ [Next]_vars => [Inert]_registryVars
    <2>. SUFFICES ASSUME GraphInv, [Next]_vars PROVE Inert \/ UNCHANGED registryVars
      OBVIOUS
    <2>1. AdminInv /\ RegistryTypes /\ late \subseteq Calls
      BY DEF GraphInv, AdminInv, RegistryTypes, RegistryTypeOK
    <2>2. CASE AdminNext
      BY <2>2, AdminLeavesTables DEF tables, etcd
    <2>3. CASE Works
      <3>1. PICK c \in Calls : RegistryStep(c) \/ CallFails(c)
        BY <2>3 DEF Works, RegistryNext
      <3>2. \A d \in Calls : d # c => step'[d] = step[d]
        BY <2>1, <3>1, RegistryMoves
      <3>3. c \in late => UNCHANGED <<model_active, active_keys>>
        BY <2>1, <3>1, WorkLate
      <3>. QED BY <2>1, <3>2, <3>3
    <2>4. CASE UNCHANGED commandVars
      BY <2>4 DEF commandVars
    <2>5. CASE Resolve
      <3>1. Elsewhere
        BY <2>5 DEF Resolve, Me, Models, Rollouts, APIKeys, DashboardRollouts, ProviderHealths, ModelDraft, RolloutByModel,
                    ModelVersion, RolloutById, DashboardModels, AuditLog, fetchManifest, fetchRollout
      <3>. QED BY <2>4, <3>1 DEF Elsewhere
    <2>6. CASE (\E u \in Users, s \in Selections : Serve(u, s)) \/ Dispatch \/ Respond
               \/ (\E f \in asked : ResolverFails(f)) \/ Ended \/ UNCHANGED vars
      BY <2>4, <2>6 DEF Serve, Dispatch, Respond, ResolverFails, Elsewhere, Ended, vars
    <2>. QED BY <2>2, <2>3, <2>5, <2>6 DEF Next
  <1>. QED BY <1>1, AdminInvariance, PTL DEF Spec, LateRegistrationIsInert

\* No table changes for a call that began under a revoked credential, a
\* viewer's, or none; also when control-plane works on after the caller left.
THEOREM ActsAreTrusted == Spec => []OnlyTrustedAct
  <1>1. GraphInv => OnlyTrustedAct
    BY DEF GraphInv, AdminInv, AdminTypes, CallInv, TrustFits, OnlyTrustedAct
  <1>. QED BY <1>1, AdminInvariance, PTL

\* The audit log tells the truth: an OK has its row, a row of a success stands
\* for a change, and of racing revocations of a key one is recorded as done.
THEOREM TruthOfAudit == Spec => []AuditTellsTruth
  <1>1. GraphInv => AuditTellsTruth
    <2>. SUFFICES ASSUME GraphInv PROVE AuditTellsTruth
      OBVIOUS
    <2>1. AdminInv /\ RowInv /\ KeyInv /\ audit_log \in Seq(Row)
      BY DEF GraphInv, AdminInv, AdminTypes
    <2>2. ASSUME NEW i \in Succeeded
          PROVE  /\ i \in DOMAIN audit_log /\ audit_log[i].call \in Calls
                 /\ outcome[audit_log[i].call] = "ok" /\ audit_log[i].action = method(audit_log[i].call)
      <3>1. i \in DOMAIN audit_log /\ audit_log[i].suffix = "plain"
        BY DEF Succeeded
      <3>2. audit_log[i] \in Row
        BY <2>1, <3>1
      <3>3. audit_log[i].call \in Calls
        BY <3>2 DEF Row
      <3>. QED BY <2>1, <3>1, <3>3 DEF RowInv
    <2>3. ASSUME NEW i \in Succeeded PROVE audit_log[i].call \in acted
      <3>. DEFINE c == audit_log[i].call
      <3>1. c \in Calls /\ outcome[c] = "ok"
        BY <2>2
      <3>2. CallInv(c) /\ StepFits(c) /\ request[c] \in ControlRequests \cup {NoRequest}
        BY <2>1, <3>1 DEF AdminInv, RegistryTypes, RegistryTypeOK
      <3>. HIDE DEF c
      <3>3. ASSUME method(c) \in {"CreateApiKey", "RevokeApiKey"} PROVE c \in acted
        BY <3>1, <3>2, <3>3 DEF CallInv, EffectFits
      <3>4. ASSUME method(c) \notin {"CreateApiKey", "RevokeApiKey"} PROVE c \in acted
        <4>1. step[c] = "ok"
          BY <3>1, <3>2, <3>4 DEF CallInv, EffectFits
        <4>. QED BY <3>2, <4>1 DEF CallInv, EffectFits
      <3>5. c \in acted
        BY <3>3, <3>4
      <3>. QED BY <3>5 DEF c
    <2>4. ASSUME NEW i \in Succeeded, NEW j \in Succeeded, i # j,
                 method(audit_log[i].call) = "RevokeApiKey", method(audit_log[j].call) = "RevokeApiKey"
          PROVE  call[audit_log[i].call].command.key_id # call[audit_log[j].call].command.key_id
      <3>1. audit_log[i].call # audit_log[j].call
        BY <2>1, <2>2, <2>4 DEF RowInv
      <3>. QED BY <2>1, <2>2, <2>4, <3>1 DEF KeyInv
    <2>5. \A c \in Shown : \E i \in Succeeded : audit_log[i].call = c
      BY <2>1 DEF RowInv
    <2>. QED BY <2>2, <2>3, <2>4, <2>5 DEF AuditTellsTruth, method
  <1>. QED BY <1>1, AdminInvariance, PTL

\* A query loses its data only because the backend of a non-null field had no
\* answer.
THEOREM BlanksAreFailures == Spec => []OnlyFailureBlanks
  <1>1. GraphInv => OnlyFailureBlanks
    <2>. SUFFICES ASSUME GraphInv, query = "done" PROVE data = "null" <=> \E f \in failed : Query[f]
      BY DEF OnlyFailureBlanks
    <2>1. GraphTypes /\ FieldInv /\ failed \subseteq Fields
      BY DEF GraphInv, GraphTypes
    <2>2. asked \subseteq Fields
      BY <2>1, AskedFields
    <2>3. \A f \in failed : f \in asked /\ value[f] = "null"
      BY <2>1 DEF FieldInv
    <2>. QED BY <2>1, <2>2, <2>3 DEF FieldInv
  <1>. QED BY <1>1, AdminInvariance, PTL

\* What a command acknowledged before a query began is in its answer, or pushed
\* out of the audit list by as many newer rows as its limit allows.
THEOREM AcknowledgedAreListed == Spec => []AcknowledgedIsListed
  <1>1. GraphInv => AcknowledgedIsListed
    <2>. SUFFICES ASSUME GraphInv, NEW c \in told
                  PROVE  /\ value["apiKeys"] = "data" =>
                              /\ call[c].command.method = "CreateApiKey" => c \in DOMAIN keysSeen
                              /\ call[c].command.method = "RevokeApiKey" => keysSeen[call[c].command.key_id] = "revoked"
                         /\ value["auditLog"] = "data" =>
                              \/ \E i \in DOMAIN rowsSeen : rowsSeen[i].call = c
                              \/ /\ Len(rowsSeen) \in {clamp(l) : l \in AskedLimits}
                                 /\ \A i \in DOMAIN rowsSeen :
                                       \E x, y \in DOMAIN audit_log :
                                           audit_log[x].call = c /\ audit_log[y] = rowsSeen[i] /\ x < y
      BY DEF AcknowledgedIsListed
    <2>1. ListInv /\ RowInv /\ audit_log \in Seq(Row) /\ c \in Shown
      BY DEF GraphInv, ListInv, AdminInv, AdminTypes
    <2>2. c \in Calls /\ CallInv(c) /\ outcome[c] = "ok"
      BY <2>1 DEF GraphInv, AdminInv, Shown, CallInv, CallFits
    <2>3. value["apiKeys"] = "data" =>
             /\ call[c].command.method = "CreateApiKey" => c \in DOMAIN keysSeen
             /\ call[c].command.method = "RevokeApiKey" => keysSeen[call[c].command.key_id] = "revoked"
      BY <2>1, <2>2 DEF ListInv, CallInv, EffectFits, method
    <2>4. ASSUME value["auditLog"] = "data"
          PROVE  \/ \E i \in DOMAIN rowsSeen : rowsSeen[i].call = c
                 \/ /\ Len(rowsSeen) \in {clamp(l) : l \in AskedLimits}
                    /\ \A i \in DOMAIN rowsSeen :
                          \E x, y \in DOMAIN audit_log :
                              audit_log[x].call = c /\ audit_log[y] = rowsSeen[i] /\ x < y
      <3>1. PICK l \in AskedLimits : rowsSeen = newest(audit_log, clamp(l))
        BY <2>1, <2>4 DEF ListInv
      <3>2. PICK x \in Succeeded : audit_log[x].call = c
        BY <2>1 DEF RowInv
      <3>. DEFINE L == Len(audit_log)
                  n == clamp(l)
                  k == IF n < L THEN n ELSE L
      <3>3. n \in Nat /\ L \in Nat /\ x \in 1..L /\ DOMAIN audit_log = 1..L
        BY <2>1, Clamps DEF Succeeded
      <3>4. /\ Len(rowsSeen) = k /\ DOMAIN rowsSeen = 1..k
            /\ \A i \in 1..k : rowsSeen[i] = audit_log[L + 1 - i] /\ L + 1 - i \in DOMAIN audit_log
        BY <2>1, <3>1, <3>3, NewestRows
      <3>. HIDE DEF L, n
      <3>5. CASE L + 1 - x <= k
        <4>1. L + 1 - x \in 1..k /\ L + 1 - (L + 1 - x) = x
          BY <3>3, <3>5
        <4>2. rowsSeen[L + 1 - x].call = c
          BY <3>2, <3>4, <4>1
        <4>. QED BY <3>4, <4>1, <4>2
      <3>6. CASE ~(L + 1 - x <= k)
        <4>1. k = n /\ \A i \in 1..k : x < L + 1 - i
          BY <3>3, <3>6
        <4>2. Len(rowsSeen) \in {clamp(h) : h \in AskedLimits}
          BY <3>4, <4>1 DEF n
        <4>3. \A i \in DOMAIN rowsSeen :
                 audit_log[x].call = c /\ audit_log[L + 1 - i] = rowsSeen[i] /\ x < L + 1 - i
                 /\ x \in DOMAIN audit_log /\ L + 1 - i \in DOMAIN audit_log
          BY <3>2, <3>3, <3>4, <4>1
        <4>. QED BY <4>2, <4>3
      <3>. QED BY <3>5, <3>6
    <2>. QED BY <2>3, <2>4
  <1>. QED BY <1>1, AdminInvariance, PTL
=============================================================================
