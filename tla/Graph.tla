------------------------------- MODULE Graph --------------------------------
(***************************************************************************)
(* admin-api's GraphQL queries, beside its commands: the root fields of a  *)
(* query are resolved concurrently, each from its own backend, and a null  *)
(* or an error spreads upwards as the schema's non-null types say.  An     *)
(* object is the set of its fields that are not null.                      *)
(***************************************************************************)
EXTENDS AdminApi

CONSTANTS
    Selections,             \* the sets of root fields a query may ask for
    AskedLimits,            \* auditLog(limit:), 0 for none
    DefaultAuditListLimit,
    maxAuditListLimit

ASSUME GraphAssumption ==
    AskedLimits \subseteq Nat /\ DefaultAuditListLimit \in Nat \ {0} /\ maxAuditListLimit \in Nat \ {0}

(***************************************************************************)
(* The schema: each type's fields, and which of them are non-null.         *)
(***************************************************************************)
Query == [me |-> TRUE, models |-> TRUE, modelDraft |-> TRUE, modelVersion |-> TRUE, rollout |-> FALSE,
          rolloutByModel |-> FALSE, rollouts |-> TRUE, apiKeys |-> TRUE, dashboardMetrics |-> TRUE,
          auditLog |-> TRUE, providerHealth |-> TRUE]
AdminUser == [id |-> TRUE, orgId |-> TRUE, role |-> TRUE]
ModelSummary == [modelRef |-> TRUE, activeVersionId |-> TRUE]
ModelManifest == [versionId |-> TRUE, modelRef |-> TRUE, specJson |-> TRUE, signature |-> TRUE,
                  createdBy |-> TRUE, createdAt |-> TRUE, status |-> TRUE]

\* mutant: the schema requires the end of a rollout
RolloutEnded == [rolloutId |-> TRUE, modelRef |-> TRUE, versionId |-> TRUE, strategyJson |-> TRUE, stage |-> TRUE,
                 status |-> TRUE, canaryPercent |-> TRUE, startedAt |-> TRUE, endedAt |-> TRUE]

Rollout == [rolloutId |-> TRUE, modelRef |-> TRUE, versionId |-> TRUE, strategyJson |-> TRUE, stage |-> TRUE,
            status |-> TRUE, canaryPercent |-> TRUE, startedAt |-> TRUE, endedAt |-> FALSE]
ApiKeySummary == [keyId |-> TRUE, orgId |-> TRUE, scopes |-> TRUE, createdAt |-> TRUE, revokedAt |-> FALSE]
DashboardMetrics == [requestsPerSecond |-> TRUE, p95LatencyMs |-> TRUE, errorRate |-> TRUE,
                     activeModelsCount |-> TRUE, activeRolloutsCount |-> TRUE]
AuditEntry == [auditId |-> TRUE, actor |-> TRUE, action |-> TRUE, target |-> TRUE, beforeJson |-> FALSE,
               afterJson |-> FALSE, ts |-> TRUE]
ProviderHealth == [provider |-> TRUE, healthy |-> TRUE, quotaHeadroom |-> TRUE, breakerState |-> TRUE]

\* out.Invalids: a null field that must not be null makes its object null.
Valid(type, object) == \A field \in DOMAIN type : type[field] => field \in object

marshalAdminUser(o) == Valid(AdminUser, o)
marshalModelSummary(o) == Valid(ModelSummary, o)
marshalModelManifest(o) == Valid(ModelManifest, o)
marshalRollout(o) == Valid(Rollout, o)
marshalApiKeySummary(o) == Valid(ApiKeySummary, o)
marshalDashboardMetrics(o) == Valid(DashboardMetrics, o)
marshalAuditEntry(o) == Valid(AuditEntry, o)
marshalProviderHealth(o) == Valid(ProviderHealth, o)

\* [T!]!: one null element makes the list null.
marshalModelSummaries(os) == \A o \in os : marshalModelSummary(o)
marshalRollouts(os) == \A o \in os : marshalRollout(o)
marshalApiKeySummaries(os) == \A o \in os : marshalApiKeySummary(o)
marshalAuditEntries(os) == \A o \in os : marshalAuditEntry(o)
marshalProviderHealths(os) == \A o \in os : marshalProviderHealth(o)

VARIABLES
    query,          \* "idle", "running", "done"
    asked,          \* the root fields of the query
    value,          \* what each field resolved to
    keysSeen,       \* the apiKeys list
    rowsSeen,       \* the auditLog list, newest first
    data,           \* the data member of the response
    failed,         \* history: fields whose backend failed or had no answer
    told            \* history: calls answered OK before the query began

graphVars == <<query, asked, value, keysSeen, rowsSeen, data, failed, told>>
vars == <<commandVars, graphVars>>

Fields == DOMAIN Query

ASSUME SelectionAssumption == Selections \subseteq SUBSET Fields

TypeOK ==
    /\ AdminTypeOK
    /\ query \in {"idle", "running", "done"}
    /\ asked \in Selections \cup {{}}
    /\ value \in [Fields -> {"unresolved", "counting", "data", "null"}]
    /\ DOMAIN keysSeen \subseteq Keys
    /\ rowsSeen \in Seq(Row)
    /\ data \in {"none", "null", "object"}
    /\ failed \subseteq Fields
    /\ told \subseteq Calls

Init ==
    /\ AdminInit
    /\ query = "idle"
    /\ asked = {}
    /\ value = [f \in Fields |-> "unresolved"]
    /\ keysSeen = << >>
    /\ rowsSeen = << >>
    /\ data = "none"
    /\ failed = {}
    /\ told = {}

(***************************************************************************)
(* HTTPMiddleware, and the resolvers.                                      *)
(***************************************************************************)
\* Bound: queries come when no call is at work.
Quiet == \A c \in Calls : pc[c] \in {"new", "done"} /\ step[c] \in {"idle", "ok", "failed"}

Serve(u, selection) ==
    /\ query = "idle"
    /\ Quiet
    /\ authenticates(u)
    /\ query' = "running"
    /\ asked' = selection
    /\ told' = Shown
    /\ UNCHANGED <<commandVars, value, keysSeen, rowsSeen, data, failed>>

Pending(f) == query = "running" /\ f \in asked /\ value[f] = "unresolved"

Set(f, ok) == value' = [value EXCEPT ![f] = IF ok THEN "data" ELSE "null"]

Elsewhere == UNCHANGED <<commandVars, query, asked, data, told>>
Unlisted == UNCHANGED <<keysSeen, rowsSeen>>

Me ==
    /\ Pending("me")
    /\ Set("me", marshalAdminUser({"id", "orgId", "role"}))
    /\ Unlisted /\ Elsewhere /\ UNCHANGED failed

\* A Go string is never null.
Models ==
    /\ Pending("models")
    /\ Set("models", marshalModelSummaries({DOMAIN ModelSummary : entry \in ListModels}))
    /\ Unlisted /\ Elsewhere /\ UNCHANGED failed

\* Any status but OK is an error of the field.
fetchManifest(f, m, v) ==
    /\ Pending(f)
    /\ IF manifestStatus(GetModelManifest(m, v).err) = "OK"
       THEN Set(f, marshalModelManifest(DOMAIN ModelManifest)) /\ UNCHANGED failed
       ELSE Set(f, FALSE) /\ failed' = failed \cup {f}
    /\ Unlisted /\ Elsewhere

ModelDraft(m) == fetchManifest("modelDraft", m, NoVersion)
ModelVersion(m, v) == fetchManifest("modelVersion", m, v)

\* strategyJson is always there, and always empty; a pointer only to an ended_at that is set.
rolloutFromProto(p) == IF "ended_at" \in p THEN DOMAIN Rollout ELSE DOMAIN Rollout \ {"endedAt"}

\* NotFound is a null, not an error.
fetchRollout(f, found) ==
    /\ Pending(f)
    /\ \/ found = {} /\ Set(f, FALSE)
       \/ \E r \in found : Set(f, marshalRollout(rolloutFromProto(rolloutToProto(r))))
    /\ Unlisted /\ Elsewhere /\ UNCHANGED failed

RolloutById(id) == fetchRollout("rollout", GetRolloutStatus(id, Home))
RolloutByModel(m) == fetchRollout("rolloutByModel", GetRolloutStatus(NoVersion, m))

Rollouts ==
    /\ Pending("rollouts")
    /\ Set("rollouts", marshalRollouts({rolloutFromProto(rolloutToProto(r)) : r \in ListRollouts}))
    /\ Unlisted /\ Elsewhere /\ UNCHANGED failed

keySummary(k) == IF api_keys[k] = "revoked" THEN DOMAIN ApiKeySummary ELSE DOMAIN ApiKeySummary \ {"revokedAt"}

\* All of them, revoked or not; never the hash.
listKeys == api_keys

APIKeys ==
    /\ Pending("apiKeys")
    /\ keysSeen' = listKeys
    /\ Set("apiKeys", marshalApiKeySummaries({keySummary(k) : k \in DOMAIN api_keys}))
    /\ Elsewhere /\ UNCHANGED <<rowsSeen, failed>>

\* Prometheus is up or not; an empty result and NaN are the number 0.
QueryScalar(up) == IF up THEN "number" ELSE "error"

\* An error is 0 as well: the field is never null.
scalarOrZero(result) == IF result = "error" THEN "zero" ELSE result

\* Three numbers, then the models, then, from another moment, the rollouts.
DashboardModels(up) ==
    /\ Pending("dashboardMetrics")
    /\ value' = [value EXCEPT !["dashboardMetrics"] = IF scalarOrZero(QueryScalar(up)) = "error" THEN "null" ELSE "counting"]
    /\ Unlisted /\ Elsewhere /\ UNCHANGED failed

DashboardRollouts ==
    /\ value["dashboardMetrics"] = "counting"
    /\ Set("dashboardMetrics", marshalDashboardMetrics(DOMAIN DashboardMetrics))
    /\ Unlisted /\ Elsewhere /\ UNCHANGED failed

clamp(limit) ==
    IF limit <= 0 THEN DefaultAuditListLimit ELSE IF limit > maxAuditListLimit THEN maxAuditListLimit ELSE limit

\* mutant: LIMIT without ORDER BY ts DESC
oldest(rows, n) == SubSeq(rows, 1, IF n < Len(rows) THEN n ELSE Len(rows))

newest(rows, n) ==
    [i \in 1..(IF n < Len(rows) THEN n ELSE Len(rows)) |-> rows[Len(rows) + 1 - i]]

auditEntry(row) == IF row.suffix = "plain" THEN DOMAIN AuditEntry \ {"beforeJson"}
                   ELSE DOMAIN AuditEntry \ {"beforeJson", "afterJson"}

\* The filters by actor and action are left empty, which matches every row.
AuditLog(limit) ==
    /\ Pending("auditLog")
    /\ rowsSeen' = newest(audit_log, clamp(limit))
    /\ Set("auditLog", marshalAuditEntries({auditEntry(audit_log[i]) : i \in DOMAIN audit_log}))
    /\ Elsewhere /\ UNCHANGED <<keysSeen, failed>>

ProviderHealths ==
    /\ Pending("providerHealth")
    /\ Set("providerHealth", marshalProviderHealths({DOMAIN ProviderHealth}))
    /\ Unlisted /\ Elsewhere /\ UNCHANGED failed

\* control-plane, provider-gateway or the database does not answer.
ResolverFails(f) ==
    /\ f # "me"
    /\ Pending(f) \/ (query = "running" /\ value[f] = "counting")
    /\ Set(f, FALSE)
    /\ failed' = failed \cup {f}
    /\ Unlisted /\ Elsewhere

\* _Query waits for all fields, and is null if a non-null one is.
Dispatch ==
    /\ query = "running"
    /\ \A f \in asked : value[f] \in {"data", "null"}
    /\ data' = IF \E f \in asked : Query[f] /\ value[f] = "null" THEN "null" ELSE "object"
    /\ query' = "done"
    /\ UNCHANGED <<commandVars, asked, value, keysSeen, rowsSeen, failed, told>>

\* The response is sent, and the next query starts from nothing.
Respond ==
    /\ query = "done"
    /\ query' = "idle"
    /\ asked' = {}
    /\ value' = [f \in Fields |-> "unresolved"]
    /\ keysSeen' = << >>
    /\ rowsSeen' = << >>
    /\ data' = "none"
    /\ failed' = {}
    /\ told' = {}
    /\ UNCHANGED commandVars

Resolve ==
    \/ Me \/ Models \/ Rollouts \/ APIKeys \/ DashboardRollouts \/ ProviderHealths
    \/ \E m \in ModelRefs : ModelDraft(m) \/ RolloutByModel(m)
    \/ \E m \in ModelRefs, v \in Versions \cup {NoVersion} : ModelVersion(m, v)
    \/ \E id \in RolloutIDs : RolloutById(id)
    \/ \E up \in BOOLEAN : DashboardModels(up)
    \/ \E limit \in AskedLimits : AuditLog(limit)

\* The bounded supply of calls is used up.
Ended ==
    /\ query = "idle" /\ Quiet
    /\ \A c \in Calls : pc[c] = "done"
    /\ UNCHANGED vars

Next ==
    \/ query = "idle" /\ AdminNext /\ UNCHANGED graphVars
    \/ Works /\ UNCHANGED graphVars
    \/ \E u \in Users, s \in Selections : Serve(u, s)
    \/ Resolve
    \/ \E f \in asked : ResolverFails(f)
    \/ Dispatch
    \/ Respond
    \/ Ended

Spec == Init /\ [][Next]_vars

(***************************************************************************)
(* Properties.                                                             *)
(***************************************************************************)
(* What a command acknowledged before a query began is in its answer: the  *)
(* key that was created, the revocation, and the audit row, unless as many *)
(* newer rows as the limit allows push it out.                             *)
AcknowledgedIsListed ==
    \A c \in told :
        LET q == call[c].command
        IN  /\ value["apiKeys"] = "data" =>
                  /\ q.method = "CreateApiKey" => c \in DOMAIN keysSeen
                  /\ q.method = "RevokeApiKey" => keysSeen[q.key_id] = "revoked"
            /\ value["auditLog"] = "data" =>
                  \/ \E i \in DOMAIN rowsSeen : rowsSeen[i].call = c
                  \/ /\ Len(rowsSeen) \in {clamp(l) : l \in AskedLimits}
                     /\ \A i \in DOMAIN rowsSeen :
                           \E x, y \in DOMAIN audit_log :
                               audit_log[x].call = c /\ audit_log[y] = rowsSeen[i] /\ x < y

(* A query loses its data only because the backend of a non-null field had *)
(* no answer: never because Prometheus is down, a rollout is unknown or    *)
(* still running, a key is not revoked, or an audit row has no JSON.       *)
OnlyFailureBlanks ==
    query = "done" => (data = "null" <=> \E f \in failed : Query[f])
=============================================================================
