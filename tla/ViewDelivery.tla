---------------------------- MODULE ViewDelivery ----------------------------
(***************************************************************************)
(* The consumer view engine at /.engine/views/{id} and /.engine/blob/{id}  *)
(* against the state store, while the owner manages grants and views.      *)
(*                                                                         *)
(* A delivery is a chain of separate HTTP calls from the engine to storage *)
(* (ldp_view_engine/engine.py, client.py); every call is one action, and   *)
(* any other delivery or owner request may run between two of them.  A     *)
(* conditional PUT is two actions, because the storage handler reads the   *)
(* record in guard_enforcement_put and applies the change later under the  *)
(* backend lock in replace_if_unchanged (ldp_personal_store/storage/).     *)
(*                                                                         *)
(* An ETag is a digest of the whole record (rdfcontent.etag_for_graph), so *)
(* two ETags are equal exactly when the records are: the record copy the   *)
(* engine read stands for the ETag it sends.                               *)
(***************************************************************************)
EXTENDS Integers, FiniteSets

CONSTANTS
    Grants, Views, Defs, ViewLimits, AdjustTo, MaxTime,   \* see EnforcementLedger
    Requests,      \* consumer requests; each id is one request
    LinkedViews,   \* LinkedViews[g]: the pod:linkedView objects of grant g
    Policies,      \* policy documents the owner may write
    MaxRetries,    \* client._ENFORCEMENT_MAX_RETRIES
    MaxInFlight,   \* bound: requests the consumers keep in flight at once
    Second,        \* ticks of the clock in one second
    SeparateData   \* the data source has its own server and credential

(* An optional constraint is the set of its values: none or one.  A window  *)
(* is given by instants, an interval in seconds.                            *)
PolicyDocs == [from : SUBSET Nat, until : SUBSET Nat, max : SUBSET Nat, gap : SUBSET Nat]

ASSUME PodAssumption ==
    /\ Grants # {} /\ Views # {} /\ Defs # {}
    /\ ViewLimits \subseteq SUBSET Nat
    /\ AdjustTo \subseteq Nat
    /\ LinkedViews \in [Grants -> SUBSET Views]
    /\ \A p \in Policies : p \in PolicyDocs

ASSUME EngineAssumption ==
    /\ IsFiniteSet(Requests)
    /\ Second \in Nat \ {0}
    /\ MaxTime \in Nat /\ MaxTime >= Second
    /\ MaxRetries \in Nat \ {0}
    /\ MaxInFlight \in Nat \ {0}
    /\ SeparateData \in BOOLEAN

VARIABLES
    tokens,    \* storage: token records
    views,     \* storage: view records
    policies,  \* storage: policy records, one per grant (pod:policyRef)
    engine,    \* storage: does the record .system/tokens/engine exist
    log,       \* storage: the access-log entry of each request
    clock,     \* ticks since the epoch
    pc,        \* engine: where each request is
    job,       \* engine: what each request asked for
    tok,       \* engine: the token record the request read last
    vw,        \* engine: the view record the request read last
    now,       \* engine: the instant at which the response was ready
    tries,     \* engine: conditional-PUT attempts used up in the current bump
    deaf,      \* the engine has given up on the PUT storage is still executing
    status,    \* the response status
    counted,   \* history: the counters this request has incremented
    tokBase,   \* history: owner-written part of each token counter
    vwBase     \* history: owner-written part of each view counter

Ledger == INSTANCE EnforcementLedger

storageVars == <<tokens, views, policies, engine, log>>
engineVars == <<pc, job, tok, vw, now, tries, deaf, status>>
history == <<counted, tokBase, vwBase>>
vars == <<tokens, views, policies, engine, log, clock, pc, job, tok, vw, now,
          tries, deaf, status, counted, tokBase, vwBase>>

Times == Ledger!Times
Seconds(n) == n * Second
NoToken == Ledger!UnissuedToken
NoView == Ledger!NoView
NoPolicy == [from |-> {}, until |-> {}, max |-> {}, gap |-> {}]
Idle == [kind |-> "view", grant |-> CHOOSE g \in Grants : TRUE,
         view |-> CHOOSE v \in Views : TRUE]

TokenRecords == [status : {"unissued", "live", "revoked"}, count : Nat, last : Times]
ViewRecords == [status : {"absent", "stored"}, def : Defs, limit : ViewLimits \cup {{}},
                count : Nat]
Jobs == [kind : {"view", "blob"}, grant : Grants, view : Views]

(* Where a request waits for storage to answer a call of the engine ...    *)
StateCalls == {"lookup", "record", "view", "policy", "tokGet", "tokPut", "vwGet", "vwPut", "log"}
DataCalls == {"construct", "blob"}
(* ... and where storage is between the guard and the write of a PUT.      *)
Applying == {"tokApply", "vwApply"}
InFlight == StateCalls \cup DataCalls \cup Applying

TokenTally(g) == {r \in Requests : job[r].grant = g /\ "token" \in counted[r]}
ViewTally(v) == {r \in Requests : job[r].view = v /\ "view" \in counted[r]}
Delivered == {r \in Requests : status[r] = "200"}

----------------------------------------------------------------------------
(* Pure decisions *)

(* Definitions named ..._wrong are plausible mistakes in the code; no       *)
(* specification uses them.  Each property is shown to fail under one.      *)
PolicyAllows_wrong(token, policy, view, t) ==
    /\ \A x \in policy.from : t >= x
    /\ \A x \in policy.until : t <= x
    /\ \A n \in policy.max : token.count <= n
    /\ \A s \in policy.gap : t - token.last >= 0
    /\ \A n \in view.limit : view.count <= n

(* The present values of an optional constraint are the members of a set   *)
(* of at most one number.  policy.check_policy, on snapshots; t is the      *)
(* present instant, to the tick.                                            *)
PolicyAllows(token, policy, view, t) ==
    /\ \A x \in policy.from : t >= x
    /\ \A x \in policy.until : t <= x
    /\ \A n \in policy.max : token.count < n
    /\ \A s \in policy.gap : token.last = Ledger!Epoch \/ t - token.last >= Seconds(s)
    /\ \A n \in view.limit : view.count < n

(* An instant is written down as "%Y-%m-%dT%H:%M:%SZ": whole seconds.       *)
Stamp(t) == t - (t % Second)
BumpedToken(token, t) == [token EXCEPT !.count = token.count + 1, !.last = Stamp(t)]
BumpedView(view) == [view EXCEPT !.count = view.count + 1]

(* The conditional PUT does not compare ETags. *)
EtagMatches_wrong(current, read) == TRUE

(* check_preconditions on a record that exists, with an If-Match header.   *)
EtagMatches(current, read) == current = read

----------------------------------------------------------------------------
(* Engine bookkeeping *)

Goto(r, where) == pc' = [pc EXCEPT ![r] = where]

Answer(r, code) ==
    /\ pc' = [pc EXCEPT ![r] = "done"]
    /\ status' = [status EXCEPT ![r] = code]
    /\ tok' = [tok EXCEPT ![r] = NoToken]
    /\ vw' = [vw EXCEPT ![r] = NoView]
    /\ tries' = [tries EXCEPT ![r] = 0]
    /\ deaf' = [deaf EXCEPT ![r] = FALSE]

(* A call of r reaches the storage handler: its credential is still known. *)
Calling(r, where) == pc[r] = where /\ engine
CallingData(r, where) == pc[r] = where /\ (SeparateData \/ engine)

(* The GET is hoisted out of the retry loop: the same ETag is sent again. *)
Displaced_wrong(r, again) ==
    IF tries[r] + 1 < MaxRetries
    THEN /\ Goto(r, IF again = "tokGet" THEN "tokPut" ELSE "vwPut")
         /\ tries' = [tries EXCEPT ![r] = @ + 1]
         /\ UNCHANGED <<tok, vw, deaf, status>>
    ELSE Answer(r, "502")

(* A 412 is taken for success. *)
DisplacedIgnored_wrong(r, again) ==
    /\ Goto(r, IF again = "tokGet" THEN "vwGet" ELSE "log")
    /\ UNCHANGED <<tok, vw, tries, deaf, status>>

(* The loop has no bound. *)
DisplacedForever_wrong(r, again) ==
    /\ Goto(r, again)
    /\ UNCHANGED <<tok, vw, tries, deaf, status>>

(* The upstream status reaches the consumer as it is. *)
DisplacedRaw_wrong(r, again) ==
    IF tries[r] + 1 < MaxRetries
    THEN /\ Goto(r, again)
         /\ tries' = [tries EXCEPT ![r] = @ + 1]
         /\ UNCHANGED <<tok, vw, deaf, status>>
    ELSE Answer(r, "412")

(* One attempt short. *)
DisplacedEarly_wrong(r, again) ==
    IF tries[r] + 2 < MaxRetries
    THEN /\ Goto(r, again)
         /\ tries' = [tries EXCEPT ![r] = @ + 1]
         /\ UNCHANGED <<tok, vw, deaf, status>>
    ELSE Answer(r, "502")

(* A conditional PUT of r came back 412: read again, or give up with 502.  *)
Displaced(r, again) ==
    IF tries[r] + 1 < MaxRetries
    THEN /\ Goto(r, again)
         /\ tries' = [tries EXCEPT ![r] = @ + 1]
         /\ UNCHANGED <<tok, vw, deaf, status>>
    ELSE Answer(r, "502")
----------------------------------------------------------------------------
(* The delivery pipeline: engine.get_view and engine.get_blob *)

(* A consumer sends a request with the secret of grant g. *)
Start(r) ==
    /\ pc[r] = "idle"
    /\ Cardinality({q \in Requests : pc[q] \in InFlight}) < MaxInFlight
    /\ \E k \in {"view", "blob"}, g \in Grants, v \in Views :
          job' = [job EXCEPT ![r] = [kind |-> k, grant |-> g, view |-> v]]
    /\ Goto(r, "lookup")
    /\ UNCHANGED <<storageVars, clock, tok, vw, now, tries, deaf, status, history>>

(* validate_via_storage, first call: SELECT the record by digest. *)
LookUp(r) ==
    LET g == job[r].grant IN
    /\ Calling(r, "lookup")
    /\ IF tokens[g].status = "live"
       THEN Goto(r, "record") /\ UNCHANGED <<tok, vw, tries, deaf, status>>
       ELSE Answer(r, "401")
    /\ UNCHANGED <<storageVars, clock, job, now, history>>

(* validate_via_storage, second call: GET the record; then the scope check  *)
(* and, for a blob, the checks on the uri parameter.                        *)
ReadRecord(r) ==
    LET g == job[r].grant IN
    /\ Calling(r, "record")
    /\ \/ tokens[g].status # "live" /\ Answer(r, "401")
       \/ /\ tokens[g].status = "live"
          /\ job[r].view \notin LinkedViews[g]
          /\ Answer(r, "403")
       \/ /\ tokens[g].status = "live"
          /\ job[r].view \in LinkedViews[g]
          /\ job[r].kind = "blob"
          /\ Answer(r, "400")
       \/ /\ tokens[g].status = "live"
          /\ job[r].view \in LinkedViews[g]
          /\ tok' = [tok EXCEPT ![r] = tokens[g]]
          /\ Goto(r, "view")
          /\ UNCHANGED <<vw, tries, deaf, status>>
    /\ UNCHANGED <<storageVars, clock, job, now, history>>

(* _load_view, then bind_params, which may refuse the parameters. *)
LoadView(r) ==
    LET v == job[r].view IN
    /\ Calling(r, "view")
    /\ \/ views[v].status = "absent" /\ Answer(r, "404")
       \/ views[v].status = "stored" /\ Answer(r, "422")
       \/ /\ views[v].status = "stored"
          /\ vw' = [vw EXCEPT ![r] = views[v]]
          /\ Goto(r, "policy")
          /\ UNCHANGED <<tok, tries, deaf, status>>
    /\ UNCHANGED <<storageVars, clock, job, now, history>>

(* _load_policy (a missing policy constrains nothing), then check_policy on *)
(* the token record and the view record read before; the template may still *)
(* refuse the injected values.                                              *)
Decide(r) ==
    LET allowed == PolicyAllows(tok[r], policies[job[r].grant], vw[r], clock) IN
    /\ Calling(r, "policy")
    /\ \/ ~allowed /\ Answer(r, "403")
       \/ allowed /\ Answer(r, "422")
       \/ allowed /\ Goto(r, "construct") /\ UNCHANGED <<tok, vw, tries, deaf, status>>
    /\ UNCHANGED <<storageVars, clock, job, now, history>>

(* The response is ready; datetime.now() dates the delivery and             *)
(* _record_delivery starts.                                                 *)
Confirm(r) ==
    /\ now' = [now EXCEPT ![r] = clock]
    /\ tok' = [tok EXCEPT ![r] = NoToken]
    /\ vw' = [vw EXCEPT ![r] = NoView]
    /\ Goto(r, "tokGet")
    /\ UNCHANGED <<tries, deaf, status>>

(* Run the CONSTRUCT; a blob request also looks for its target in the       *)
(* result, and a view request rewrites the result.  The data source may     *)
(* refuse the query.                                                        *)
Construct(r) ==
    /\ CallingData(r, "construct")
    /\ \/ Answer(r, "502") /\ UNCHANGED now
       \/ job[r].kind = "view" /\ Confirm(r)
       \/ job[r].kind = "blob" /\ Answer(r, "404") /\ UNCHANGED now
       \/ /\ job[r].kind = "blob"
          /\ Goto(r, "blob")
          /\ UNCHANGED <<tok, vw, now, tries, deaf, status>>
    /\ UNCHANGED <<storageVars, clock, job, history>>

(* open_binary_stream: the binary may be gone by now. *)
OpenBlob(r) ==
    /\ CallingData(r, "blob")
    /\ \/ Answer(r, "404") /\ UNCHANGED now
       \/ Confirm(r)
    /\ UNCHANGED <<storageVars, clock, job, history>>
----------------------------------------------------------------------------
(* _record_delivery: bump the token, bump the view, append to the log *)

(* bump_token_enforcement: GET the record and its ETag. *)
TokenGet(r) ==
    LET g == job[r].grant IN
    /\ Calling(r, "tokGet")
    /\ IF tokens[g].status = "live"
       THEN /\ tok' = [tok EXCEPT ![r] = tokens[g]]
            /\ Goto(r, "tokPut")
            /\ UNCHANGED <<vw, tries, deaf, status>>
       ELSE Answer(r, "502")
    /\ UNCHANGED <<storageVars, clock, job, now, history>>

(* The PUT reaches storage: guard_enforcement_put reads the record again.   *)
(* 404 when it is gone, 412 when the ETag moved.                            *)
TokenGuard(r) ==
    LET g == job[r].grant IN
    /\ Calling(r, "tokPut")
    /\ \/ tokens[g].status # "live" /\ Answer(r, "502")
       \/ /\ tokens[g].status = "live"
          /\ EtagMatches(tokens[g], tok[r])
          /\ Goto(r, "tokApply")
          /\ UNCHANGED <<tok, vw, tries, deaf, status>>
       \/ /\ tokens[g].status = "live"
          /\ ~EtagMatches(tokens[g], tok[r])
          /\ Displaced(r, "tokGet")
    /\ UNCHANGED <<storageVars, clock, job, now, history>>

(* The guard's check is thought enough: the write is unconditional. *)
TokenReplaceable_wrong(r) == TRUE

(* replace_if_unchanged: one lock hold compares the ETag and writes. *)
TokenReplaceable(r) ==
    /\ tokens[job[r].grant].status = "live"
    /\ EtagMatches(tokens[job[r].grant], tok[r])

TokenApply(r) ==
    LET g == job[r].grant IN
    /\ pc[r] = "tokApply"
    /\ \/ /\ TokenReplaceable(r)
          /\ tokens' = [tokens EXCEPT ![g] = BumpedToken(tok[r], now[r])]
          /\ counted' = [counted EXCEPT ![r] = @ \cup {"token"}]
          /\ IF deaf[r]
             THEN Answer(r, "500")
             ELSE /\ Goto(r, "vwGet")
                  /\ tok' = [tok EXCEPT ![r] = NoToken]
                  /\ tries' = [tries EXCEPT ![r] = 0]
                  /\ UNCHANGED <<vw, deaf, status>>
       \/ /\ ~TokenReplaceable(r)
          /\ IF deaf[r] THEN Answer(r, "500") ELSE Displaced(r, "tokGet")
          /\ UNCHANGED <<tokens, counted>>
    /\ UNCHANGED <<views, policies, engine, log, clock, job, now, tokBase, vwBase>>

(* bump_view_enforcement: the same protocol on the view record. *)
ViewGet(r) ==
    LET v == job[r].view IN
    /\ Calling(r, "vwGet")
    /\ IF views[v].status = "stored"
       THEN /\ vw' = [vw EXCEPT ![r] = views[v]]
            /\ Goto(r, "vwPut")
            /\ UNCHANGED <<tok, tries, deaf, status>>
       ELSE Answer(r, "502")
    /\ UNCHANGED <<storageVars, clock, job, now, history>>

ViewGuard(r) ==
    LET v == job[r].view IN
    /\ Calling(r, "vwPut")
    /\ \/ views[v].status = "absent" /\ Answer(r, "502")
       \/ /\ views[v].status = "stored"
          /\ EtagMatches(views[v], vw[r])
          /\ Goto(r, "vwApply")
          /\ UNCHANGED <<tok, vw, tries, deaf, status>>
       \/ /\ views[v].status = "stored"
          /\ ~EtagMatches(views[v], vw[r])
          /\ Displaced(r, "vwGet")
    /\ UNCHANGED <<storageVars, clock, job, now, history>>

ViewReplaceable_wrong(r) == views[job[r].view].status = "stored"

ViewReplaceable(r) ==
    /\ views[job[r].view].status = "stored"
    /\ EtagMatches(views[job[r].view], vw[r])

ViewApply(r) ==
    LET v == job[r].view IN
    /\ pc[r] = "vwApply"
    /\ \/ /\ ViewReplaceable(r)
          /\ views' = [views EXCEPT ![v] = BumpedView(vw[r])]
          /\ counted' = [counted EXCEPT ![r] = @ \cup {"view"}]
          /\ IF deaf[r]
             THEN Answer(r, "500")
             ELSE /\ Goto(r, "log")
                  /\ vw' = [vw EXCEPT ![r] = NoView]
                  /\ tries' = [tries EXCEPT ![r] = 0]
                  /\ UNCHANGED <<tok, deaf, status>>
       \/ /\ ~ViewReplaceable(r)
          /\ IF deaf[r] THEN Answer(r, "500") ELSE Displaced(r, "vwGet")
          /\ UNCHANGED <<views, counted>>
    /\ UNCHANGED <<tokens, policies, engine, log, clock, job, now, tokBase, vwBase>>

(* append_access_log: storage mints a fresh entry. *)
StoreEntry(r) ==
    /\ Calling(r, "log")
    /\ log' = [log EXCEPT ![r] = "kept"]
    /\ UNCHANGED <<tokens, views, policies, engine, clock, job, now, history>>

(* The entry is stored and the 200 goes out. *)
AppendLog(r) == StoreEntry(r) /\ Answer(r, "200")

----------------------------------------------------------------------------
(* Failures on the way *)

(* Storage answers 401 to the engine's credential: UpstreamError, 502. *)
CredentialRefused(r) ==
    /\ ~engine
    /\ \/ pc[r] \in StateCalls
       \/ pc[r] \in DataCalls /\ ~SeparateData
    /\ Answer(r, "502")
    /\ UNCHANGED <<storageVars, clock, job, now, history>>

(* The call times out, the connection drops or a process stops before       *)
(* storage has had any effect.                                              *)
CallLost(r) ==
    /\ pc[r] \in InFlight
    /\ Answer(r, "500")
    /\ UNCHANGED <<storageVars, clock, job, now, history>>

(* The reply is lost: the engine answers 500, storage has done its part ... *)
AppendUnheard(r) == StoreEntry(r) /\ Answer(r, "500")

(* ... or, inside a conditional PUT, is still going to.                     *)
ReplyLost(r) ==
    /\ pc[r] \in Applying
    /\ ~deaf[r]
    /\ deaf' = [deaf EXCEPT ![r] = TRUE]
    /\ UNCHANGED <<storageVars, clock, pc, job, tok, vw, now, tries, status, history>>

----------------------------------------------------------------------------
(* The owner's requests to /.system/ and the operator; each write is one   *)
(* lock hold of the backend.                                               *)

(* issue_grant: a record under a fresh random id, counter at zero. *)
Issue(g) ==
    /\ tokens[g].status = "unissued"
    /\ tokens' = [tokens EXCEPT ![g] = Ledger!FreshToken]
    /\ tokBase' = [tokBase EXCEPT ![g] = 0 - Cardinality(TokenTally(g))]
    /\ UNCHANGED <<views, policies, engine, log, clock, engineVars, counted, vwBase>>

(* revoke_system on tokens/{id}: the record is deleted, its policy is not. *)
Revoke(g) ==
    /\ tokens[g].status = "live"
    /\ tokens' = [tokens EXCEPT ![g] = Ledger!RevokedToken]
    /\ tokBase' = [tokBase EXCEPT ![g] = 0 - Cardinality(TokenTally(g))]
    /\ UNCHANGED <<views, policies, engine, log, clock, engineVars, counted, vwBase>>

(* put_token_enforcement with the admin token: a conditional PUT that may   *)
(* set the enforcement fields to anything.                                  *)
AdjustToken(g) ==
    /\ tokens[g].status = "live"
    /\ \E n \in AdjustTo, t \in {Ledger!Epoch, Stamp(clock)} :
          /\ tokens' = [tokens EXCEPT ![g] = [@ EXCEPT !.count = n, !.last = t]]
          /\ tokBase' = [tokBase EXCEPT ![g] = n - Cardinality(TokenTally(g))]
    /\ UNCHANGED <<views, policies, engine, log, clock, engineVars, counted, vwBase>>

(* write_policy, a full PUT; or revoke_system on tokens/policies/{id}.      *)
WritePolicy(g) ==
    /\ \E p \in Policies \cup {NoPolicy} : policies' = [policies EXCEPT ![g] = p]
    /\ UNCHANGED <<tokens, views, engine, log, clock, engineVars, history>>

(* replace_view with the admin token, and create_view, whose Slug may name  *)
(* a view that is there: an unconditional write that seeds the counter at 0.*)
StoreView(v) ==
    /\ \E d \in Defs, limit \in ViewLimits :
          views' = [views EXCEPT ![v] = Ledger!NewView(d, limit)]
    /\ vwBase' = [vwBase EXCEPT ![v] = 0 - Cardinality(ViewTally(v))]
    /\ UNCHANGED <<tokens, policies, engine, log, clock, engineVars, counted, tokBase>>

(* delete_view *)
DeleteView(v) ==
    /\ views[v].status = "stored"
    /\ views' = [views EXCEPT ![v] = NoView]
    /\ vwBase' = [vwBase EXCEPT ![v] = 0 - Cardinality(ViewTally(v))]
    /\ UNCHANGED <<tokens, policies, engine, log, clock, engineVars, counted, tokBase>>

(* revoke_system on an entry of access-log/. *)
EraseEntry(r) ==
    /\ log[r] = "kept"
    /\ log' = [log EXCEPT ![r] = "erased"]
    /\ UNCHANGED <<tokens, views, policies, engine, clock, engineVars, history>>

(* revoke_system on tokens/engine: the engine's kill switch. *)
RevokeEngine ==
    /\ engine
    /\ engine' = FALSE
    /\ UNCHANGED <<tokens, views, policies, log, clock, engineVars, history>>

(* A storage start: bootstrap_engine_token seeds tokens/engine again.  The  *)
(* handlers that were running are gone (CallLost).                          *)
Boot ==
    /\ \A r \in Requests : pc[r] \notin Applying
    /\ engine' = TRUE
    /\ UNCHANGED <<tokens, views, policies, log, clock, engineVars, history>>

Tick ==
    /\ clock < MaxTime
    /\ clock' = clock + 1
    /\ UNCHANGED <<storageVars, engineVars, history>>

----------------------------------------------------------------------------
(* Specifications *)

Init ==
    /\ tokens \in [Grants -> {NoToken, Ledger!FreshToken}]
    /\ views \in [Views -> {NoView} \cup
                   {Ledger!NewView(d, limit) : d \in Defs, limit \in ViewLimits}]
    /\ policies \in [Grants -> Policies \cup {NoPolicy}]
    /\ engine = TRUE
    /\ log = [r \in Requests |-> "none"]
    /\ clock = Second
    /\ pc = [r \in Requests |-> "idle"]
    /\ job = [r \in Requests |-> Idle]
    /\ tok = [r \in Requests |-> NoToken]
    /\ vw = [r \in Requests |-> NoView]
    /\ now = [r \in Requests |-> Ledger!Epoch]
    /\ tries = [r \in Requests |-> 0]
    /\ deaf = [r \in Requests |-> FALSE]
    /\ status = [r \in Requests |-> "none"]
    /\ counted = [r \in Requests |-> {}]
    /\ tokBase = [g \in Grants |-> 0]
    /\ vwBase = [v \in Views |-> 0]

(* A request that is under way takes its next step. *)
Serve(r) ==
    \/ LookUp(r) \/ ReadRecord(r) \/ LoadView(r) \/ Decide(r)
    \/ Construct(r) \/ OpenBlob(r)
    \/ TokenGet(r) \/ TokenGuard(r) \/ TokenApply(r)
    \/ ViewGet(r) \/ ViewGuard(r) \/ ViewApply(r)
    \/ AppendLog(r) \/ CredentialRefused(r)

Lose(r) == CallLost(r) \/ AppendUnheard(r) \/ ReplyLost(r)

(* What the owner takes away ... *)
Withdraw ==
    \/ \E g \in Grants : Revoke(g)
    \/ \E v \in Views : DeleteView(v)
    \/ \E r \in Requests : EraseEntry(r)
    \/ RevokeEngine \/ Boot

(* ... and what the owner writes. *)
Author ==
    \/ \E g \in Grants : Issue(g) \/ AdjustToken(g) \/ WritePolicy(g)
    \/ \E v \in Views : StoreView(v)

Consume == \E r \in Requests : Start(r) \/ Serve(r)
Faults == \E r \in Requests : Lose(r)

Next == Consume \/ Faults \/ Withdraw \/ Author \/ Tick
Spec == Init /\ [][Next]_vars

(* The scheduler keeps running every request (asyncio loop, thread pool).   *)
Fairness == \A r \in Requests : WF_vars(Serve(r))
FairSpec == Spec /\ Fairness

(* The pod while the owner authors nothing ... *)
SettledSpec == Init /\ [][Consume \/ Faults \/ Withdraw \/ Tick]_vars

(* ... and while, besides, nothing is taken away and no call is lost.       *)
CalmSpec == Init /\ [][Consume \/ Tick]_vars /\ Fairness

----------------------------------------------------------------------------
(* Properties *)

TypeOK ==
    /\ tokens \in [Grants -> TokenRecords]
    /\ views \in [Views -> ViewRecords]
    /\ policies \in [Grants -> Policies \cup {NoPolicy}]
    /\ engine \in BOOLEAN
    /\ log \in [Requests -> {"none", "kept", "erased"}]
    /\ clock \in Times
    /\ pc \in [Requests -> {"idle", "done"} \cup InFlight]
    /\ job \in [Requests -> Jobs]
    /\ tok \in [Requests -> TokenRecords]
    /\ vw \in [Requests -> ViewRecords]
    /\ now \in [Requests -> Times]
    /\ tries \in [Requests -> Nat]
    /\ deaf \in [Requests -> BOOLEAN]
    /\ status \in [Requests -> {"none", "200", "400", "401", "403", "404", "422", "500", "502"}]
    /\ counted \in [Requests -> SUBSET {"token", "view"}]
    /\ tokBase \in [Grants -> Int]
    /\ vwBase \in [Views -> Int]

(* No increment of a grant's counter is ever lost or applied twice, however *)
(* deliveries and owner writes interleave: the stored count is what the     *)
(* owner last wrote plus one for each delivery counted since.               *)
(* (client.bump_token_enforcement, filesystem.replace_if_unchanged)         *)
TokenCountExact ==
    \A g \in Grants : tokens[g].count = tokBase[g] + Cardinality(TokenTally(g))

(* The same for the counter of a view, which all its grants share.          *)
ViewCountExact ==
    \A v \in Views : views[v].count = vwBase[v] + Cardinality(ViewTally(v))

(* Both counters are exact, together.                                       *)
CountsExact == TokenCountExact /\ ViewCountExact

(* Nothing is delivered that is not on the books, whichever step of the     *)
(* record keeping fails: a 200 has its log entry, an entry has both bumps,  *)
(* a view bump has its token bump. (engine._record_delivery)                *)
DeliveredIsRecorded ==
    \A r \in Requests :
        /\ status[r] = "200" => log[r] # "none"
        /\ log[r] # "none" => counted[r] = {"token", "view"}
        /\ "view" \in counted[r] => "token" \in counted[r]

(* Every change a delivery makes to the owner's records is one atomic       *)
(* increment on a record that exists: it never brings back a revoked grant  *)
(* or a deleted view, and never writes a stale definition, view list or     *)
(* ceiling over a newer one. (guard_enforcement_put, replace_if_unchanged)  *)
ImplementsLedger == Ledger!Spec

(* Once a grant is revoked, a request under it that has not been counted   *)
(* stays uncounted, whatever it has read before - and so, by                *)
(* DeliveredIsRecorded, is never answered with data; one that is not        *)
(* through validation gets the uniform 401, or the gateway's error.         *)
(* (revoke_system, validate_via_storage)                                    *)
RevocationBites ==
    [][\A r \in Requests :
         tokens[job[r].grant].status = "revoked" /\ pc[r] \in InFlight =>
            /\ counted[r] = {} => counted'[r] = {}
            /\ pc[r] \in {"lookup", "record"} =>
                  pc'[r] = pc[r] \/ status'[r] \in {"401", "500", "502"}]_vars

(* While the owner authors nothing, the requests in flight together are the *)
(* only ones that can slip past a ceiling: the count exceeds it by fewer    *)
(* than MaxInFlight. (policy.check_policy on a snapshot)                    *)
Overshoot(n) == IF n = 0 THEN 0 ELSE n + MaxInFlight - 1
CeilingOvershoot ==
    /\ \A g \in Grants : \A n \in policies[g].max : tokens[g].count <= Overshoot(n)
    /\ \A v \in Views : \A n \in views[v].limit : views[v].count <= Overshoot(n)

(* A request that arrives when the grant or the view has reached its        *)
(* ceiling, or when the grant's window has elapsed, is not delivered.       *)
Spent(g, v) ==
    \/ \E x \in policies[g].until : clock > x
    \/ \E n \in policies[g].max : tokens[g].count >= n
    \/ \E n \in views[v].limit : views[v].count >= n
LateRequestsDenied ==
    \A r \in Requests, g \in Grants, v \in Views :
        [](Spent(g, v) /\ pc[r] = "idle"
             => []~(r \in Delivered /\ job[r].grant = g /\ job[r].view = v))

(* With nothing but deliveries writing to the records, an attempt of a      *)
(* conditional PUT fails only because another delivery has committed, and   *)
(* each of those commits once. (the comment at client.py:28-33)             *)
StaleToken(r) == pc[r] \in {"tokPut", "tokApply"} /\ ~TokenReplaceable(r)
StaleView(r) == pc[r] \in {"vwPut", "vwApply"} /\ ~ViewReplaceable(r)
DisplacedByCommits ==
    \A r \in Requests :
        /\ pc[r] \in {"tokGet", "tokPut", "tokApply"} =>
              tries[r] + (IF StaleToken(r) THEN 1 ELSE 0)
                 <= Cardinality(TokenTally(job[r].grant))
        /\ pc[r] \in {"vwGet", "vwPut", "vwApply"} =>
              tries[r] + (IF StaleView(r) THEN 1 ELSE 0)
                 <= Cardinality(ViewTally(job[r].view))

(* Deliveries respect the ceiling of the grant and of the view              *)
(* (docs/vocab.ttl: "Per-grant ceiling on the number of successful          *)
(* deliveries", "Per-view ceiling on successful deliveries").               *)
CeilingHolds ==
    /\ \A g \in Grants : \A n \in policies[g].max :
          Cardinality({r \in Delivered : job[r].grant = g}) <= n
    /\ \A v \in Views : \A n \in views[v].limit :
          Cardinality({r \in Delivered : job[r].view = v}) <= n

(* One at a time, two deliveries under a grant are further apart than its   *)
(* interval less one second.  The grant is dated with the whole second in   *)
(* which it was used and the policy compares that with the present instant, *)
(* so a part of the last second may be missing, and never more.             *)
(* (engine.get_view, policy.check_policy)                                   *)
IntervalHolds ==
    \A q, r \in Delivered : \A s \in policies[job[r].grant].gap :
        q # r /\ job[q].grant = job[r].grant
            => \/ now[q] - now[r] > Seconds(s) - Second
               \/ now[r] - now[q] > Seconds(s) - Second

(* Every request is answered, whatever the owner does meanwhile: the retry  *)
(* loops end. (client.bump_token_enforcement, bump_view_enforcement)        *)
EveryRequestAnswered == \A r \in Requests : pc[r] \in InFlight ~> pc[r] = "done"

(* In calm conditions a confirmed delivery reaches the consumer: with at    *)
(* most MaxRetries deliveries in all, none is contended out.                *)
ConfirmedIsDelivered == \A r \in Requests : pc[r] = "tokGet" ~> status[r] = "200"
=============================================================================
