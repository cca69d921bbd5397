----------------------------- MODULE Credentials -----------------------------
(***************************************************************************)
(* Bearer tokens from the boot of the pod to their revocation: the seeding *)
(* of the owner's and the engine's records, the issuing of grants, and the *)
(* validation of a presented token, on storage (tokens_store.py) and on    *)
(* the engine (ldp_view_engine/authentication.py).                         *)
(*                                                                         *)
(* Validation is two backend calls: a lookup by digest over all records,   *)
(* then a read of the matching record.  The engine makes each of the two   *)
(* over HTTP, and storage validates the engine's own credential, again in  *)
(* two backend calls, before it answers either.                            *)
(*                                                                         *)
(* A digest is taken to identify its plaintext, so a record holds the      *)
(* plaintext itself.  A random plaintext belongs to what it was drawn for: *)
(* that of a grant is written as the grant's record id, that of the engine *)
(* as the number of the boot that drew it.                                 *)
(***************************************************************************)
EXTENDS Naturals, FiniteSets

CONSTANTS
    Grants,        \* random record ids, each drawn at most once
    Requests,      \* slots for requests in flight
    AdminValues,   \* values the operator may give LDP_ADMIN_TOKEN
    EngineValues,  \* values the operator may give LDP_ENGINE_TOKEN
    MaxBoots,      \* bound: boots that draw an engine token at random
    Unset,         \* an environment variable that is not set
    Absent         \* no record at a record id

RecordIds == {"admin", "engine"} \cup Grants
Drawn == 1..MaxBoots
Configured == AdminValues \cup EngineValues
Secrets == Configured \cup Drawn \cup Grants

ASSUME CredentialsAssumption ==
    /\ MaxBoots \in Nat
    /\ Grants \cap {"admin", "engine"} = {}
    /\ Grants \cap (Configured \cup Drawn) = {}
    /\ Configured \cap Drawn = {}
    /\ Unset \notin Secrets
    /\ Absent \notin [hash : Secrets, type : {"Admin", "Engine", "Consumer"}]

VARIABLES
    deployment,  \* one process ("bundled"), or engine and storage apart ("split")
    records,     \* storage: the token records, which survive a crash
    used,        \* storage: the random record ids drawn so far
    store,       \* where the storage process is in its lifespan hook
    env,         \* the environment the storage process was started with
    boots,       \* random engine tokens drawn so far
    engine,      \* the engine process: the credential it presents, or Unset
    requests,    \* the requests in flight, and the last answer
    handed,      \* the grants whose secret the owner has been shown
    erased,      \* history: records the owner deleted since their last write
    seen         \* history: what a request could have observed since it arrived

vars == <<deployment, records, used, store, env, boots, engine, requests,
          handed, erased, seen>>

TokenRecords == [hash : Secrets, type : {"Admin", "Engine", "Consumer"}]

(* What a request asks for.  The last two are asked of the engine.          *)
Kinds == {"issue", "revoke", "readTokens", "readLog", "view", "stats"}
OnEngine(kind) == kind \in {"view", "stats"}

(* The token types an endpoint admits: AdminTokenDep, StorageTokenDep,      *)
(* EngineConsumerDep and EngineAdminDep.                                    *)
Allowed(kind) ==
    CASE kind \in {"issue", "revoke", "stats"} -> {"Admin"}
      [] kind \in {"readTokens", "readLog"} -> {"Admin", "Engine"}
      [] kind = "view" -> {"Consumer"}

Quiet == [stage |-> "idle", kind |-> "view", target |-> "admin", presented |-> Unset,
          match |-> "admin", type |-> "Consumer", caller |-> "unsent", answer |-> "none"]

Running(q) == q.stage \notin {"idle", "done"}

----------------------------------------------------------------------------
(* Looking a token up by its digest *)

Live(recs, secret, types) ==
    {id \in RecordIds : /\ recs[id] # Absent
                        /\ recs[id].hash = secret
                        /\ recs[id].type \in types}

(* match_token_rows takes the first record in the order of the URIs.  Two   *)
(* records share a digest only when the operator gives both roles the same  *)
(* token, and tokens/admin comes before tokens/engine.                      *)
Match(secret, types) ==
    LET candidates == Live(records, secret, types)
    IN  IF "admin" \in candidates THEN {"admin"} ELSE candidates

EngineTypes == {"Admin", "Engine"}

----------------------------------------------------------------------------
(* History: whether, at some moment since a request arrived, its token was  *)
(* good for what it asks (lived) or was not (lapsed), and whether the       *)
(* engine was cut off from storage (severed).                               *)

Needed(kind) == IF kind = "readLog" THEN {"Admin"} ELSE Allowed(kind)

Sight(q, recs, phase, credential) ==
    [lived |-> Live(recs, q.presented, Needed(q.kind)) # {},
     lapsed |-> Live(recs, q.presented, Needed(q.kind)) = {},
     severed |-> phase # "up" \/ Live(recs, credential, EngineTypes) = {}]

Blind == [lived |-> FALSE, lapsed |-> FALSE, severed |-> FALSE]

Watch ==
    seen' = [r \in Requests |->
        LET sight == Sight(requests'[r], records', store', engine')
        IN  IF requests'[r].stage = "idle" THEN Blind
            ELSE IF requests'[r].stage = "done" THEN seen[r]
            ELSE IF ~Running(requests[r]) THEN sight
            ELSE [lived |-> seen[r].lived \/ sight.lived,
                  lapsed |-> seen[r].lapsed \/ sight.lapsed,
                  severed |-> seen[r].severed \/ sight.severed]]

----------------------------------------------------------------------------
(* The storage process: app.lifespan, and main.lifespan when bundled *)

Init ==
    /\ deployment \in {"bundled", "split"}
    /\ records = [id \in RecordIds |-> Absent]
    /\ used = {}
    /\ store = "down"
    /\ env = [admin |-> Unset, engine |-> Unset]
    /\ boots = 0
    /\ engine = Unset
    /\ requests = [r \in Requests |-> Quiet]
    /\ handed = {}
    /\ erased = {}
    /\ seen = [r \in Requests |-> Blind]

(* require_admin_token refuses to boot without LDP_ADMIN_TOKEN: such a      *)
(* start changes nothing and is not a step.                                 *)
Start(admin, token) ==
    /\ store = "down"
    /\ store' = "admin"
    /\ env' = [admin |-> admin, engine |-> token]
    /\ UNCHANGED <<deployment, records, used, boots, engine, requests, handed, erased>>
    /\ Watch

SeedAdmin_wrong ==
    /\ store = "admin"
    /\ store' = "engine"
    /\ records' = IF records["admin"] # Absent THEN records
                  ELSE [records EXCEPT !["admin"] = [hash |-> env.admin, type |-> "Admin"]]
    /\ erased' = erased \ {"admin"}
    /\ UNCHANGED <<deployment, used, env, boots, engine, requests, handed>>
    /\ Watch

(* bootstrap_admin_token *)
SeedAdmin ==
    /\ store = "admin"
    /\ store' = "engine"
    /\ records' = [records EXCEPT !["admin"] = [hash |-> env.admin, type |-> "Admin"]]
    /\ erased' = erased \ {"admin"}
    /\ UNCHANGED <<deployment, used, env, boots, engine, requests, handed>>
    /\ Watch

EngineToken_wrong == env.engine

EngineToken == IF env.engine = Unset THEN boots + 1 ELSE env.engine

SeedEngine_wrong ==
    /\ store = "engine"
    /\ env.engine = Unset => boots < MaxBoots
    /\ store' = "up"
    /\ boots' = IF env.engine = Unset THEN boots + 1 ELSE boots
    /\ records' = IF env.engine = Unset /\ records["engine"] # Absent THEN records
                  ELSE [records EXCEPT !["engine"] = [hash |-> EngineToken, type |-> "Engine"]]
    /\ erased' = erased \ {"engine"}
    /\ engine' = IF deployment = "bundled" THEN EngineToken ELSE engine
    /\ UNCHANGED <<deployment, used, env, requests, handed>>
    /\ Watch

(* bootstrap_engine_token, after which the lifespan hook lets requests in.  *)
(* A bundled engine is handed the plaintext.                                *)
SeedEngine ==
    /\ store = "engine"
    /\ env.engine = Unset => boots < MaxBoots
    /\ store' = "up"
    /\ boots' = IF env.engine = Unset THEN boots + 1 ELSE boots
    /\ records' = [records EXCEPT !["engine"] = [hash |-> EngineToken, type |-> "Engine"]]
    /\ erased' = erased \ {"engine"}
    /\ engine' = IF deployment = "bundled" THEN EngineToken ELSE engine
    /\ UNCHANGED <<deployment, used, env, requests, handed>>
    /\ Watch

(* The storage process ends, at any point.  Its requests are lost; so are   *)
(* those of a bundled engine.  A call of a separate engine that storage was *)
(* executing breaks off.                                                    *)
Stop ==
    /\ store # "down"
    /\ store' = "down"
    /\ env' = [admin |-> Unset, engine |-> Unset]
    /\ engine' = IF deployment = "bundled" THEN Unset ELSE engine
    /\ requests' = [r \in Requests |->
          LET q == requests[r]
          IN  CASE ~Running(q) \/ deployment = "bundled" \/ ~OnEngine(q.kind) -> Quiet
                [] OTHER -> [q EXCEPT !.caller = IF @ = "unsent" THEN @ ELSE "broken"]]
    /\ UNCHANGED <<deployment, records, used, boots, handed, erased>>
    /\ Watch

(* ldp_view_engine/app.py: a separate engine starts with its own            *)
(* LDP_ENGINE_TOKEN and refuses to start without one.                       *)
EngineStart(token) ==
    /\ deployment = "split" /\ engine = Unset
    /\ engine' = token
    /\ UNCHANGED <<deployment, records, used, store, env, boots, requests, handed, erased>>
    /\ Watch

EngineStop ==
    /\ deployment = "split" /\ engine # Unset
    /\ engine' = Unset
    /\ requests' = [r \in Requests |->
          IF Running(requests[r]) /\ ~OnEngine(requests[r].kind) THEN requests[r] ELSE Quiet]
    /\ UNCHANGED <<deployment, records, used, store, env, boots, handed, erased>>
    /\ Watch

----------------------------------------------------------------------------
(* Requests *)

Others == <<deployment, store, env, boots, engine>>

(* A step of a request frees the slots of those that were answered.         *)
Step(r, change) ==
    requests' = [q \in Requests |-> IF q = r THEN change
                                    ELSE IF Running(requests[q]) THEN requests[q] ELSE Quiet]
Answer(r, code) == Step(r, [Quiet EXCEPT !.stage = "done", !.answer = code])

(* A client presents any token it may hold: a configured one, current or    *)
(* rotated out, or the secret of a grant the owner was shown.               *)
Arrive(r, kind, target, secret) ==
    /\ ~Running(requests[r])
    /\ IF OnEngine(kind) THEN engine # Unset ELSE store = "up"
    /\ Step(r, [Quiet EXCEPT !.stage = "lookup", !.kind = kind, !.target = target,
                             !.presented = secret])
    /\ UNCHANGED <<Others, records, used, handed, erased>>
    /\ Watch

(* The engine has a call to storage to make, or under way.                  *)
Calling(q) == q.stage \in {"lookup", "record"} /\ OnEngine(q.kind)

(* Storage looks up the credential the engine sends with a call ...         *)
CallerLookup(r) ==
    LET q == requests[r]
        found == Match(engine, EngineTypes)
    IN  /\ Calling(q)
        /\ q.caller = "unsent" /\ store = "up"
        /\ \/ found = {} /\ Answer(r, "502")
           \/ \E id \in found : Step(r, [q EXCEPT !.caller = id])
        /\ UNCHANGED <<Others, records, used, handed, erased>>
        /\ Watch

CallerRecord_wrong(r) ==
    LET q == requests[r]
    IN  /\ Calling(q) /\ q.caller \in {"admin", "engine"}
        /\ IF records[q.caller] = Absent THEN Answer(r, "401")
           ELSE Step(r, [q EXCEPT !.caller = "admitted"])
        /\ UNCHANGED <<Others, records, used, handed, erased>>
        /\ Watch

(* ... and reads its record, before the endpoint runs.                      *)
CallerRecord(r) ==
    LET q == requests[r]
    IN  /\ Calling(q) /\ q.caller \in {"admin", "engine"}
        /\ IF records[q.caller] = Absent THEN Answer(r, "502")
           ELSE Step(r, [q EXCEPT !.caller = "admitted"])
        /\ UNCHANGED <<Others, records, used, handed, erased>>
        /\ Watch

(* Storage does not answer: httpx raises, and nothing handles it.           *)
CallFails(r) ==
    LET q == requests[r]
    IN  /\ Calling(q)
        /\ q.caller = "broken" \/ store # "up"
        /\ Answer(r, "500")
        /\ UNCHANGED <<Others, records, used, handed, erased>>
        /\ Watch

Reached(q) == q.caller = IF OnEngine(q.kind) THEN "admitted" ELSE "unsent"

Lookup_wrong(r) ==
    LET q == requests[r]
        found == Match(q.presented, {"Admin", "Engine", "Consumer"})
    IN  /\ q.stage = "lookup" /\ Reached(q)
        /\ \/ found = {} /\ Answer(r, "401")
           \/ \E id \in found :
                 Step(r, [q EXCEPT !.stage = "record", !.match = id,
                                   !.type = records[id].type, !.caller = "unsent"])
        /\ UNCHANGED <<Others, records, used, handed, erased>>
        /\ Watch

(* LOOKUP_QUERY and match_token_rows, of either validator.  The query runs   *)
(* over the union of all graphs; here only token records carry a digest.     *)
Lookup(r) ==
    LET q == requests[r]
        found == Match(q.presented, Allowed(q.kind))
    IN  /\ q.stage = "lookup" /\ Reached(q)
        /\ \/ found = {} /\ Answer(r, "401")
           \/ \E id \in found :
                 Step(r, [q EXCEPT !.stage = "record", !.match = id,
                                   !.type = records[id].type, !.caller = "unsent"])
        /\ UNCHANGED <<Others, records, used, handed, erased>>
        /\ Watch

ReadRecord_wrong(r) ==
    LET q == requests[r]
    IN  /\ q.stage = "record" /\ Reached(q)
        /\ IF records[q.match] = Absent THEN Answer(r, IF OnEngine(q.kind) THEN "502" ELSE "401")
           ELSE IF OnEngine(q.kind) THEN Answer(r, "200")
           ELSE Step(r, [q EXCEPT !.stage = "act"])
        /\ UNCHANGED <<Others, records, used, handed, erased>>
        /\ Watch

(* The read of the matching record; the engine's endpoints are admitted     *)
(* here, and what they do next is ViewDelivery.                             *)
ReadRecord(r) ==
    LET q == requests[r]
    IN  /\ q.stage = "record" /\ Reached(q)
        /\ IF records[q.match] = Absent THEN Answer(r, "401")
           ELSE IF OnEngine(q.kind) THEN Answer(r, "200")
           ELSE Step(r, [q EXCEPT !.stage = "act"])
        /\ UNCHANGED <<Others, records, used, handed, erased>>
        /\ Watch

(* issue_grant: the record is written ...                                   *)
IssueWrite(r) ==
    /\ requests[r].stage = "act" /\ requests[r].kind = "issue"
    /\ \E g \in Grants \ used :
          /\ records' = [records EXCEPT ![g] = [hash |-> g, type |-> "Consumer"]]
          /\ used' = used \cup {g}
          /\ Step(r, [requests[r] EXCEPT !.stage = "confirm", !.target = g])
    /\ UNCHANGED <<Others, handed, erased>>
    /\ Watch

(* ... and read back; only the answer carries the secret.                   *)
IssueAnswer(r) ==
    LET q == requests[r]
    IN  /\ q.stage = "confirm"
        /\ IF records[q.target] = Absent
           THEN Answer(r, "500") /\ UNCHANGED handed
           ELSE Answer(r, "201") /\ handed' = handed \cup {q.target}
        /\ UNCHANGED <<Others, records, used, erased>>
        /\ Watch

Revoke_wrong(r) ==
    LET q == requests[r]
    IN  /\ q.stage = "act" /\ q.kind = "revoke"
        /\ IF records[q.target] = Absent
           THEN Answer(r, "404") /\ UNCHANGED <<records, erased>>
           ELSE /\ Answer(r, "204")
                /\ records' = [id \in RecordIds |-> IF id \in Grants THEN Absent ELSE records[id]]
                /\ erased' = erased \cup {q.target}
        /\ UNCHANGED <<Others, used, handed>>
        /\ Watch

(* revoke_system deletes whatever record the path names, those of the owner *)
(* and of the engine included.                                              *)
Revoke(r) ==
    LET q == requests[r]
    IN  /\ q.stage = "act" /\ q.kind = "revoke"
        /\ IF records[q.target] = Absent
           THEN Answer(r, "404") /\ UNCHANGED <<records, erased>>
           ELSE /\ Answer(r, "204")
                /\ records' = [records EXCEPT ![q.target] = Absent]
                /\ erased' = erased \cup {q.target}
        /\ UNCHANGED <<Others, used, handed>>
        /\ Watch

(* read_system: the engine's credential is held to views/ and tokens/.      *)
Read(r) ==
    LET q == requests[r]
    IN  /\ q.stage = "act" /\ q.kind \in {"readTokens", "readLog"}
        /\ IF q.type = "Engine" /\ q.kind = "readLog" THEN Answer(r, "403") ELSE Answer(r, "200")
        /\ UNCHANGED <<Others, records, used, handed, erased>>
        /\ Watch

Serve(r) ==
    \/ CallerLookup(r) \/ CallerRecord(r) \/ CallFails(r)
    \/ Lookup(r) \/ ReadRecord(r)
    \/ IssueWrite(r) \/ IssueAnswer(r) \/ Revoke(r) \/ Read(r)

Next ==
    \/ \E admin \in AdminValues, token \in EngineValues \cup {Unset} : Start(admin, token)
    \/ SeedAdmin
    \/ SeedEngine
    \/ Stop
    \/ \E token \in EngineValues : EngineStart(token)
    \/ EngineStop
    \/ \E r \in Requests, secret \in Configured \cup handed :
          \/ \E kind \in Kinds \ {"revoke"} : Arrive(r, kind, "admin", secret)
          \/ \E target \in RecordIds : Arrive(r, "revoke", target, secret)
    \/ \E r \in Requests : Serve(r)

Spec == Init /\ [][Next]_vars

----------------------------------------------------------------------------
(* Properties *)

TypeOK ==
    /\ deployment \in {"bundled", "split"}
    /\ records \in [RecordIds -> TokenRecords \cup {Absent}]
    /\ used \subseteq Grants /\ handed \subseteq used
    /\ store \in {"down", "admin", "engine", "up"}
    /\ env \in [admin : AdminValues \cup {Unset}, engine : EngineValues \cup {Unset}]
    /\ boots \in 0..MaxBoots
    /\ engine \in Configured \cup Drawn \cup {Unset}
    /\ requests \in [Requests ->
          [stage : {"idle", "lookup", "record", "act", "confirm", "done"}, kind : Kinds,
           target : RecordIds, presented : Secrets \cup {Unset}, match : RecordIds,
           type : {"Admin", "Engine", "Consumer"},
           caller : {"unsent", "admin", "engine", "admitted", "broken"},
           answer : {"none", "200", "201", "204", "401", "403", "404", "500", "502"}]]
    /\ erased \subseteq RecordIds
    /\ seen \in [Requests -> [lived : BOOLEAN, lapsed : BOOLEAN, severed : BOOLEAN]]

Answered(r, codes) == requests[r].stage = "done" /\ requests[r].answer \in codes

(* A request gets past its validation only with a token that was in force,  *)
(* for that endpoint, at some moment since the request arrived: a revoked   *)
(* grant, a rotated admin token and an engine token of an earlier boot are  *)
(* refused from the first request after the change, although the lookup and *)
(* the read of the record are separate calls, made over HTTP by the engine. *)
AdmittedWasLive ==
    \A r \in Requests :
        \/ Answered(r, {"200", "201", "204", "404"})
        \/ requests[r].stage = "confirm"
        => seen[r].lived

(* A 401 or 403 is never given to a token that was in force for that        *)
(* endpoint all the time the request took, whatever restarts and            *)
(* revocations went on.  (If one value is configured for both roles, a      *)
(* request whose record is deleted between lookup and read is refused,      *)
(* although the other record would have admitted it.)                       *)
RefusedWasDead ==
    AdminValues \cap EngineValues = {} =>
        \A r \in Requests : Answered(r, {"401", "403"}) => seen[r].lapsed

(* A request is answered with a gateway error (502) only if the            *)
(* engine's credential was deleted or does not match, or storage was down,  *)
(* while the request was served.                                            *)
GatewayErrorsJustified ==
    AdminValues \cap EngineValues = {} =>
        \A r \in Requests : Answered(r, {"502"}) => seen[r].severed

(* While the pod serves, exactly one secret acts for the owner: the         *)
(* LDP_ADMIN_TOKEN it was started with, or none after the owner deleted     *)
(* that record.  Rotation leaves no second key behind (tokens_store.py:145).*)
OneKeyForTheOwner ==
    store = "up" =>
        {records[id].hash : id \in {i \in RecordIds : records[i] # Absent /\ records[i].type = "Admin"}}
            = IF "admin" \in erased THEN {} ELSE {env.admin}

(* A bundled engine holds the secret of the engine record of its storage,   *)
(* whatever boots were broken off before, until the owner deletes that      *)
(* record.                                                                  *)
EngineInStep ==
    deployment = "bundled" /\ store = "up" =>
        Live(records, engine, {"Engine"}) = IF "engine" \in erased THEN {} ELSE {"engine"}

(* A grant whose secret the owner was shown stays in force through crashes, *)
(* restarts and the revocation of other records, until it is revoked.       *)
GrantsOutliveRestarts ==
    \A g \in handed : Live(records, g, {"Consumer"}) = IF g \in erased THEN {} ELSE {g}
=============================================================================
