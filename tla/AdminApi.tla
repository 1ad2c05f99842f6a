------------------------------ MODULE AdminApi ------------------------------
(***************************************************************************)
(* admin-api's commands: a call passes authentication, authorization and   *)
(* the audit interceptor around its handler, which asks control-plane      *)
(* (Registry) or writes api_keys.  Every access to the database and every  *)
(* RPC may fail, with or without effect: a cancelled context, a deadline   *)
(* and a dead peer look like that from here.                               *)
(***************************************************************************)
EXTENDS Registry

CONSTANTS
    Users,          \* admin_user rows
    Role,           \* user -> "admin" or "viewer"
    Seeded,         \* a key_id that exists before any call
    NoOne,          \* the actor of a call without a verified identity
    Revocable       \* bound: users an operator may revoke

ASSUME AdminAssumption ==
    /\ Role \in [Users -> {"admin", "viewer"}]
    /\ NoOne \notin Users
    /\ Seeded \notin Calls
    /\ Revocable \subseteq Users

Keys == Calls \cup {Seeded}         \* the key_id minted for a CreateApiKey is its call

\* The commands.
PublishModelVersionRequest == [method : {"PublishModelVersion"}, model_ref : ModelRefs]
StartRolloutRequest == [method : {"StartRollout"}, model_ref : ModelRefs, version_id : Versions]
AdminPromoteRolloutRequest == [method : {"PromoteRollout"}, rollout_id : RolloutIDs]
AdminAbortRolloutRequest == [method : {"AbortRollout"}, rollout_id : RolloutIDs]
CreateApiKeyRequest == [method : {"CreateApiKey"}]
RevokeApiKeyRequest == [method : {"RevokeApiKey"}, key_id : Keys]

Commands ==
    PublishModelVersionRequest \cup StartRolloutRequest \cup AdminPromoteRolloutRequest
        \cup AdminAbortRolloutRequest \cup CreateApiKeyRequest \cup RevokeApiKeyRequest

Methods == {"PublishModelVersion", "StartRollout", "PromoteRollout", "AbortRollout", "CreateApiKey", "RevokeApiKey"}

NoCommand == [method |-> "none"]

Idle == [user |-> NoOne, command |-> NoCommand]

VARIABLES
    pc,             \* where admin-api is with each call
    call,           \* whose call it is and what it asks
    outcome,        \* what the handler returned
    reply,          \* the status the caller got
    revoked,        \* users with a revoked_at
    api_keys,       \* key_id -> "active" or "revoked"
    audit_log,      \* the rows, oldest first
    trusted,        \* history: calls whose user was an unrevoked admin when they began
    acted           \* history: calls that changed a table

adminVars == <<pc, call, outcome, reply, revoked, api_keys, audit_log, trusted, acted>>
commandVars == <<registryVars, adminVars>>

\* The action column: the command's own name, plain or with "_failed" or "_denied" after it.
Row == [call : Calls, actor : Users, action : Methods, suffix : {"plain", "_failed", "_denied"}]

AdminTypeOK ==
    /\ RegistryTypeOK
    /\ pc \in [Calls -> {"new", "authz", "handler", "wait", "audit", "done"}]
    /\ call \in [Calls -> [user : Users \cup {NoOne}, command : Commands \cup {NoCommand}]]
    /\ outcome \in [Calls -> {"none", "ok", "error"}]
    /\ reply \in [Calls -> {"none", "ok", "error", "Unauthenticated", "PermissionDenied"}]
    /\ revoked \subseteq Users
    /\ DOMAIN api_keys \subseteq Keys
    /\ \A k \in DOMAIN api_keys : api_keys[k] \in {"active", "revoked"}
    /\ audit_log \in Seq(Row)
    /\ trusted \subseteq Calls
    /\ acted \subseteq Calls

AdminInit ==
    /\ RegistryInit
    /\ pc = [c \in Calls |-> "new"]
    /\ call = [c \in Calls |-> Idle]
    /\ outcome = [c \in Calls |-> "none"]
    /\ reply = [c \in Calls |-> "none"]
    /\ revoked = {}
    /\ api_keys = [k \in {Seeded} |-> "active"]
    /\ audit_log = << >>
    /\ trusted = {}
    /\ acted = {}

Goto(c, next) == pc' = [pc EXCEPT ![c] = next]
Say(c, status) == reply' = [reply EXCEPT ![c] = status]

(***************************************************************************)
(* authn and authz.                                                        *)
(***************************************************************************)
\* Calls whose caller was told OK.
Shown == {c \in Calls : reply[c] = "ok"}

\* A random id can be asked for once its row exists, also when the call that made
\* it failed: queries list the rows, and SQL does.  Any other id is not found.
Askable(q) ==
    CASE q.method = "StartRollout" -> q.version_id \in DOMAIN model_manifest
      [] q.method \in {"PromoteRollout", "AbortRollout"} -> q.rollout_id \in DOMAIN rollout
      [] q.method = "RevokeApiKey" -> q.key_id \in DOMAIN api_keys
      [] OTHER -> TRUE

\* mutant: a credential is good as long as its row exists
authenticatesRevoked(u) == TRUE

authenticates(u) == u \notin revoked

Authenticate(c, u, q) ==
    /\ pc[c] = "new"
    /\ Askable(q)
    /\ authenticates(u)
    /\ call' = [call EXCEPT ![c] = [user |-> u, command |-> q]]
    /\ trusted' = IF u \notin revoked /\ Role[u] = "admin" THEN trusted \cup {c} ELSE trusted
    /\ Goto(c, "authz")
    /\ UNCHANGED <<registryVars, outcome, reply, revoked, api_keys, audit_log, acted>>

\* Missing, unknown, revoked, or the lookup failed: one status for all.
Unauthenticated(c) ==
    /\ pc[c] = "new"
    /\ Goto(c, "done")
    /\ Say(c, "Unauthenticated")
    /\ UNCHANGED <<registryVars, call, outcome, revoked, api_keys, audit_log, trusted, acted>>

Allowed(role, method) == role = "admin" /\ method \in Methods

Written(c, suffix) ==
    audit_log' = Append(audit_log, [call |-> c, actor |-> call[c].user,
                                    action |-> call[c].command.method, suffix |-> suffix])

\* The row of a denial is best effort.
Authorize(c) ==
    /\ pc[c] = "authz"
    /\ IF Allowed(Role[call[c].user], call[c].command.method)
       THEN Goto(c, "handler") /\ UNCHANGED <<reply, audit_log>>
       ELSE /\ Written(c, "_denied") \/ UNCHANGED audit_log
            /\ Goto(c, "done")
            /\ Say(c, "PermissionDenied")
    /\ UNCHANGED <<registryVars, call, outcome, revoked, api_keys, trusted, acted>>

(***************************************************************************)
(* The handlers.                                                           *)
(***************************************************************************)
Returns(c, result) == Goto(c, "audit") /\ outcome' = [outcome EXCEPT ![c] = result]

Asks(c, r) ==
    /\ pc[c] = "handler"
    /\ Begin(c, r)
    /\ Goto(c, "wait")
    /\ UNCHANGED <<call, outcome, reply, revoked, api_keys, audit_log, trusted, acted>>

PublishModelVersion(c) ==
    /\ call[c].command.method = "PublishModelVersion"
    /\ Asks(c, [rpc |-> "register", model_ref |-> call[c].command.model_ref])

StartRollout(c) ==
    /\ call[c].command.method = "StartRollout"
    /\ Asks(c, [rpc |-> "create", model_ref |-> call[c].command.model_ref,
                version_id |-> call[c].command.version_id])

PromoteRollout(c) ==
    /\ call[c].command.method = "PromoteRollout"
    /\ Asks(c, [rpc |-> "promote", rollout_id |-> call[c].command.rollout_id])

AbortRollout(c) ==
    /\ call[c].command.method = "AbortRollout"
    /\ Asks(c, [rpc |-> "abort", rollout_id |-> call[c].command.rollout_id])

\* control-plane's answer, or the end of the wait for it while it works on.
Answer(c) ==
    /\ pc[c] = "wait"
    /\ \/ step[c] = "ok" /\ Returns(c, "ok")
       \/ Returns(c, "error")
    /\ UNCHANGED <<registryVars, call, reply, revoked, api_keys, audit_log, trusted, acted>>

\* INSERT ... RETURNING key_id
creates(c) == Put(api_keys, c, "active")

CreateApiKey(c) ==
    /\ pc[c] = "handler"
    /\ call[c].command.method = "CreateApiKey"
    /\ \/ /\ api_keys' = creates(c)
          /\ acted' = acted \cup {c}
          /\ \E result \in {"ok", "error"} : Returns(c, result)
       \/ Returns(c, "error") /\ UNCHANGED <<api_keys, acted>>
    /\ UNCHANGED <<registryVars, call, reply, revoked, audit_log, trusted>>

\* WHERE key_id = $1 AND revoked_at IS NULL
revokes(k) == k \in DOMAIN api_keys /\ api_keys[k] = "active"

RevokeApiKey(c) ==
    LET k == call[c].command.key_id
    IN  /\ pc[c] = "handler"
        /\ call[c].command.method = "RevokeApiKey"
        /\ \/ /\ revokes(k)
              /\ api_keys' = [api_keys EXCEPT ![k] = "revoked"]
              /\ acted' = acted \cup {c}
              /\ \E result \in {"ok", "error"} : Returns(c, result)
           \/ Returns(c, "error") /\ UNCHANGED <<api_keys, acted>>
        /\ UNCHANGED <<registryVars, call, reply, revoked, audit_log, trusted>>

(***************************************************************************)
(* The audit interceptor.                                                  *)
(***************************************************************************)
\* mutant: an audit write that fails is only logged
AuditLoosely(c) ==
    /\ pc[c] = "audit"
    /\ Written(c, IF outcome[c] = "ok" THEN "plain" ELSE "_failed") \/ UNCHANGED audit_log
    /\ Say(c, outcome[c])
    /\ Goto(c, "done")
    /\ UNCHANGED <<registryVars, call, outcome, revoked, api_keys, trusted, acted>>

\* A success whose row cannot be written is reported as a failure.
Audit(c) ==
    /\ pc[c] = "audit"
    /\ \/ Written(c, IF outcome[c] = "ok" THEN "plain" ELSE "_failed") /\ Say(c, outcome[c])
       \/ Written(c, IF outcome[c] = "ok" THEN "plain" ELSE "_failed") /\ Say(c, "error")
       \/ UNCHANGED audit_log /\ Say(c, "error")
    /\ Goto(c, "done")
    /\ UNCHANGED <<registryVars, call, outcome, revoked, api_keys, trusted, acted>>

(***************************************************************************)
(* admin-api dies, an operator revokes an admin, control-plane works on.   *)
(***************************************************************************)
Dies(c) ==
    /\ pc[c] \notin {"new", "done"}
    /\ Goto(c, "done")
    /\ Say(c, "error")
    /\ UNCHANGED <<registryVars, call, outcome, revoked, api_keys, audit_log, trusted, acted>>

RevokeUser(u) ==
    /\ u \in Revocable \ revoked
    /\ revoked' = revoked \cup {u}
    /\ UNCHANGED <<registryVars, pc, call, outcome, reply, api_keys, audit_log, trusted, acted>>

Works ==
    /\ RegistryNext
    /\ acted' = acted \cup {c \in Calls : step'[c] # step[c] /\ <<tables, etcd>>' # <<tables, etcd>>}
    /\ UNCHANGED <<pc, call, outcome, reply, revoked, api_keys, audit_log, trusted>>

Command(c) ==
    \/ Authorize(c) \/ PublishModelVersion(c) \/ StartRollout(c) \/ PromoteRollout(c) \/ AbortRollout(c)
    \/ Answer(c) \/ CreateApiKey(c) \/ RevokeApiKey(c) \/ Audit(c)

AdminNext ==
    \/ \E c \in Calls, u \in Users, q \in Commands : Authenticate(c, u, q)
    \/ \E c \in Calls : Unauthenticated(c) \/ Command(c) \/ Dies(c)
    \/ \E u \in Users : RevokeUser(u)

(***************************************************************************)
(* Properties.                                                             *)
(***************************************************************************)
Succeeded == {i \in DOMAIN audit_log : audit_log[i].suffix = "plain"}

(* A caller who is told OK finds the row of a success in audit_log; a row  *)
(* of a success stands for a call that did change something, and of        *)
(* racing revocations of a key only one is recorded as done, whatever      *)
(* fails between the change, its row and the answer.                       *)
AuditTellsTruth ==
    /\ \A c \in Shown : \E i \in Succeeded : audit_log[i].call = c
    /\ \A i \in Succeeded :
          outcome[audit_log[i].call] = "ok" /\ audit_log[i].call \in acted
    /\ \A i, j \in Succeeded :
          LET x == call[audit_log[i].call].command  y == call[audit_log[j].call].command
          IN  i # j /\ x.method = "RevokeApiKey" /\ y.method = "RevokeApiKey" => x.key_id # y.key_id

(* No table changes for a call that began under a revoked credential, a    *)
(* viewer's, or none at all; a credential that is revoked while its call   *)
(* is on the way does not stop the call.                                   *)
OnlyTrustedAct == acted \subseteq trusted
=============================================================================
