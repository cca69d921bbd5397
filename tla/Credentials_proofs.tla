------------------------- MODULE Credentials_proofs -------------------------
(***************************************************************************)
(* Theorems about Credentials, for any number of grants, of requests in    *)
(* flight and of boots, and any tokens the operator may configure.         *)
(***************************************************************************)
EXTENDS Credentials, TLAPS

(* A process that is serving, or is on its way there, has an admin token.   *)
Started == store # "down" => env.admin \in AdminValues

(* Which records there can be, each of its own kind.                        *)
Filed ==
    /\ records["admin"] # Absent =>
          records["admin"].hash \in AdminValues /\ records["admin"].type = "Admin"
    /\ records["engine"] # Absent =>
          records["engine"].hash \in EngineValues \cup Drawn /\ records["engine"].type = "Engine"
    /\ \A g \in Grants : records[g] # Absent => records[g].hash = g /\ records[g].type = "Consumer"

(* A grant that is about to be shown has been drawn.                        *)
Confirming == \A r \in Requests : requests[r].stage = "confirm" => requests[r].target \in used

Orderly == Started /\ Filed /\ Confirming

Slots == [stage : {"idle", "lookup", "record", "act", "confirm", "done"}, kind : Kinds,
          target : RecordIds, presented : Secrets \cup {Unset}, match : RecordIds,
          type : {"Admin", "Engine", "Consumer"},
          caller : {"unsent", "admin", "engine", "admitted", "broken"},
          answer : {"none", "200", "201", "204", "401", "403", "404", "500", "502"}]

LEMMA QuietSlot == Quiet \in Slots /\ Quiet.stage = "idle" /\ ~Running(Quiet)
BY DEF Quiet, Slots, Kinds, RecordIds, Running

LEMMA Stepping ==
    ASSUME requests \in [Requests -> Slots], NEW r \in Requests, NEW q \in Slots, Step(r, q)
    PROVE  /\ requests' \in [Requests -> Slots] /\ requests'[r] = q
           /\ \A x \in Requests \ {r} : requests'[x] \in {requests[x], Quiet}
BY QuietSlot DEF Step

Reply(code) == [Quiet EXCEPT !.stage = "done", !.answer = code]
Codes == {"200", "201", "204", "401", "403", "404", "500", "502"}

LEMMA Answering ==
    ASSUME NEW r \in Requests, NEW code \in Codes
    PROVE  /\ Reply(code) \in Slots
           /\ Reply(code).stage = "done" /\ Reply(code).answer = code
           /\ ~Running(Reply(code))
           /\ Answer(r, code) => Step(r, Reply(code))
BY QuietSlot DEF Reply, Codes, Answer, Slots, Running

LEMMA Watching ==
    ASSUME seen \in [Requests -> [lived : BOOLEAN, lapsed : BOOLEAN, severed : BOOLEAN]], Watch
    PROVE  seen' \in [Requests -> [lived : BOOLEAN, lapsed : BOOLEAN, severed : BOOLEAN]]
BY DEF Watch, Blind, Sight

LEMMA Matching ==
    ASSUME NEW secret, NEW types, NEW id \in Match(secret, types)
    PROVE  /\ id \in RecordIds /\ records[id] # Absent
           /\ records[id].hash = secret /\ records[id].type \in types
<1>1. Match(secret, types) \subseteq Live(records, secret, types)
  BY DEF Match
<1> QED
  BY <1>1 DEF Live

(* A request that is not about to confirm a grant leaves Confirming alone.  *)
LEMMA StillConfirming ==
    ASSUME requests \in [Requests -> Slots], Confirming, NEW r \in Requests, used \subseteq used',
           requests' \in [Requests -> Slots],
           requests'[r].stage = "confirm" => requests'[r].target \in used',
           \A x \in Requests \ {r} : requests'[x] \in {requests[x], Quiet}
    PROVE  Confirming'
BY DEF Confirming, Quiet

(* Every step keeps the records, the processes and the requests in shape,   *)
(* and no process goes past its start without an admin token.               *)
LEMMA InOrder == Spec => [](TypeOK /\ Orderly)
<1>1. Init => TypeOK /\ Orderly
  <2> SUFFICES ASSUME Init PROVE TypeOK /\ Orderly
    OBVIOUS
  <2>1. TypeOK
    BY QuietSlot, CredentialsAssumption DEF Init, TypeOK, Slots, Blind
  <2>2. Orderly
    BY QuietSlot DEF Init, Orderly, Started, Filed, Confirming, RecordIds
  <2> QED
    BY <2>1, <2>2
<1>2. TypeOK /\ Orderly /\ [Next]_vars => TypeOK' /\ Orderly'
  <2> SUFFICES ASSUME TypeOK, Orderly, [Next]_vars PROVE TypeOK' /\ Orderly'
    OBVIOUS
  <2> USE DEF Others
  <2>0. requests \in [Requests -> Slots] /\ (TypeOK' <=> /\ TypeOK'
                                                         /\ requests' \in [Requests -> Slots])
    BY DEF TypeOK, Slots
  <2>1. ASSUME NEW admin \in AdminValues, NEW token \in EngineValues \cup {Unset}, Start(admin, token)
        PROVE  TypeOK' /\ Orderly'
    BY <2>1, Watching DEF Start, TypeOK, Orderly, Started, Filed, Confirming
  <2>2. CASE SeedAdmin
    <3>1. [hash |-> env.admin, type |-> "Admin"] \in TokenRecords
      BY <2>2 DEF SeedAdmin, Orderly, Started, Filed, Confirming, TokenRecords, Secrets, Configured
    <3>2. TypeOK'
      BY <2>2, <3>1, Watching DEF SeedAdmin, TypeOK
    <3>3. Started' /\ Filed'
      BY <2>2, <3>1, CredentialsAssumption DEF SeedAdmin, TypeOK, Orderly, Started, Filed, RecordIds
    <3>4. Confirming'
      BY <2>2, <3>1 DEF SeedAdmin, Orderly, Confirming
    <3> QED
      BY <3>2, <3>3, <3>4 DEF Orderly
  <2>3. CASE SeedEngine
    <3>1. EngineToken \in Configured \cup Drawn /\ boots' \in 0..MaxBoots
      BY <2>3, CredentialsAssumption DEF SeedEngine, EngineToken, TypeOK, Configured, Drawn
    <3>2. [hash |-> EngineToken, type |-> "Engine"] \in TokenRecords
      BY <3>1 DEF TokenRecords, Secrets
    <3>3. TypeOK'
      BY <2>3, <3>1, <3>2, Watching DEF SeedEngine, TypeOK
    <3>4. Started' /\ Filed'
      BY <2>3, <3>1, <3>2, CredentialsAssumption DEF SeedEngine, TypeOK, Orderly, Started, Filed, RecordIds, EngineToken, Drawn
    <3>5. Confirming'
      BY <2>3, <3>1, <3>2 DEF SeedEngine, Orderly, Confirming
    <3> QED
      BY <3>3, <3>4, <3>5 DEF Orderly
  <2>4. CASE Stop
    <3>1. requests' \in [Requests -> Slots]
      BY <2>0, <2>4, QuietSlot DEF Stop, Slots
    <3>2. TypeOK'
      BY <2>4, <3>1, Watching DEF Stop, TypeOK, Slots
    <3>3. Started' /\ Filed'
      BY <2>4, <3>1, CredentialsAssumption DEF Stop, TypeOK, Orderly, Started, Filed, RecordIds
    <3>4. Confirming'
      BY <2>4, <3>1, QuietSlot DEF Stop, Orderly, Confirming
    <3> QED
      BY <3>2, <3>3, <3>4 DEF Orderly
  <2>5. ASSUME NEW token \in EngineValues, EngineStart(token)
        PROVE  TypeOK' /\ Orderly'
    BY <2>5, Watching DEF EngineStart, TypeOK, Orderly, Started, Filed, Confirming, Configured
  <2>6. CASE EngineStop
    <3>1. requests' \in [Requests -> Slots]
      BY <2>0, <2>6, QuietSlot DEF EngineStop
    <3>2. TypeOK'
      BY <2>6, <3>1, Watching DEF EngineStop, TypeOK, Slots
    <3>3. Started' /\ Filed'
      BY <2>6, <3>1, CredentialsAssumption DEF EngineStop, TypeOK, Orderly, Started, Filed, RecordIds
    <3>4. Confirming'
      BY <2>6, <3>1, QuietSlot DEF EngineStop, Orderly, Confirming
    <3> QED
      BY <3>2, <3>3, <3>4 DEF Orderly
  <2>7. ASSUME NEW r \in Requests, NEW secret \in Configured \cup handed, NEW kind \in Kinds,
               NEW target \in RecordIds, Arrive(r, kind, target, secret)
        PROVE  TypeOK' /\ Orderly'
    <3>1. secret \in Secrets
      BY DEF TypeOK, Secrets
    <3>2. [Quiet EXCEPT !.stage = "lookup", !.kind = kind, !.target = target,
                        !.presented = secret] \in Slots
          /\ [Quiet EXCEPT !.stage = "lookup", !.kind = kind, !.target = target,
                           !.presented = secret].stage = "lookup"
      BY <3>1, QuietSlot DEF Slots
    <3>3. requests' \in [Requests -> Slots]
      BY <2>0, <2>7, <3>2, Stepping DEF Arrive
    <3>4. TypeOK'
      BY <2>7, <3>3, Watching DEF Arrive, TypeOK, Slots
    <3>5. Started' /\ Filed'
      BY <2>7 DEF Arrive, Orderly, Started, Filed
    <3>6. Confirming'
      <4> DEFINE x == [Quiet EXCEPT !.stage = "lookup", !.kind = kind, !.target = target,
                                    !.presented = secret]
      <4>1. Step(r, x) /\ used' = used
        BY <2>7 DEF Arrive
      <4>2. requests'[r] = x /\ \A y \in Requests \ {r} : requests'[y] \in {requests[y], Quiet}
        BY <2>0, <4>1, <3>2, Stepping
      <4>3. x.stage = "lookup"
        BY <3>2
      <4> HIDE DEF x
      <4>4. requests'[r].stage = "confirm" => requests'[r].target \in used'
        BY <4>2, <4>3
      <4>5. requests \in [Requests -> Slots] /\ Confirming /\ used \subseteq used'
        BY <2>0, <4>1 DEF Orderly
      <4> QED
        BY <3>3, <4>2, <4>4, <4>5, StillConfirming
    <3> QED
      BY <3>4, <3>5, <3>6 DEF Orderly
  <2>8. ASSUME NEW r \in Requests, Serve(r)
        PROVE  TypeOK' /\ Orderly'
    <3> DEFINE q == requests[r]
    <3>0. q \in Slots
      BY <2>0
    <3>1. ASSUME NEW x \in Slots, x.stage # "confirm", Step(r, x), Watch,
                 UNCHANGED <<Others, records, used, handed, erased>>
          PROVE  TypeOK' /\ Orderly'
      <4>1. requests' \in [Requests -> Slots]
        BY <2>0, <3>1, Stepping
      <4>2. TypeOK'
        BY <3>1, <4>1, Watching DEF TypeOK, Slots
      <4>3. Started' /\ Filed'
        BY <3>1 DEF Orderly, Started, Filed
      <4>4. Confirming'
        BY <2>0, <3>1, <4>1, Stepping, StillConfirming DEF Orderly
      <4> QED
        BY <4>2, <4>3, <4>4 DEF Orderly
    <3>a. ASSUME NEW code \in Codes, Answer(r, code), Watch,
                 UNCHANGED <<Others, records, used, handed, erased>>
          PROVE  TypeOK' /\ Orderly'
      <4>1. Reply(code) \in Slots /\ Reply(code).stage # "confirm" /\ Step(r, Reply(code))
        BY <3>a, Answering
      <4> QED
        BY <3>1, <3>a, <4>1
    <3>2. CASE CallerLookup(r)
      <4>1. ASSUME NEW id \in Match(engine, EngineTypes), Step(r, [q EXCEPT !.caller = id])
            PROVE  TypeOK' /\ Orderly'
        <5>1. id \in {"admin", "engine"}
          BY <4>1, Matching DEF Orderly, Filed, RecordIds, EngineTypes
        <5>2. [q EXCEPT !.caller = id] \in Slots /\ q.stage # "confirm"
          BY <3>0, <3>2, <5>1 DEF Slots, CallerLookup, Calling
        <5>3. [q EXCEPT !.caller = id].stage # "confirm"
          BY <3>0, <5>2 DEF Slots
        <5> QED
          BY <3>1, <3>2, <4>1, <5>2, <5>3 DEF CallerLookup
      <4> QED
        BY <3>a, <3>2, <4>1 DEF CallerLookup, Codes
    <3>3. CASE CallerRecord(r)
      <4>1. q.stage # "confirm" => [q EXCEPT !.caller = "admitted"] \in Slots
                                   /\ [q EXCEPT !.caller = "admitted"].stage # "confirm"
        BY <3>0 DEF Slots
      <4> QED
        BY <3>a, <3>1, <3>3, <4>1 DEF CallerRecord, Calling, Codes
    <3>4. CASE CallFails(r)
      BY <3>a, <3>4 DEF CallFails, Codes
    <3>5. CASE Lookup(r)
      <4>1. ASSUME NEW id \in Match(q.presented, Allowed(q.kind)),
                   Step(r, [q EXCEPT !.stage = "record", !.match = id,
                                     !.type = records[id].type, !.caller = "unsent"])
            PROVE  TypeOK' /\ Orderly'
        <5> DEFINE x == [q EXCEPT !.stage = "record", !.match = id,
                                  !.type = records[id].type, !.caller = "unsent"]
        <5>1. id \in RecordIds /\ records[id].type \in {"Admin", "Engine", "Consumer"}
          BY <4>1, Matching DEF TypeOK, TokenRecords
        <5>2. x \in Slots /\ x.stage # "confirm"
          BY <3>0, <5>1 DEF Slots
        <5> QED
          BY <3>1, <3>5, <4>1, <5>2 DEF Lookup
      <4> QED
        BY <3>a, <3>5, <4>1 DEF Lookup, Codes
    <3>6. CASE ReadRecord(r)
      <4>1. [q EXCEPT !.stage = "act"] \in Slots /\ [q EXCEPT !.stage = "act"].stage # "confirm"
        BY <3>0 DEF Slots
      <4> QED
        BY <3>a, <3>1, <3>6, <4>1 DEF ReadRecord, Codes
    <3>7. CASE IssueWrite(r)
      <4>1. PICK g \in Grants \ used :
               /\ records' = [records EXCEPT ![g] = [hash |-> g, type |-> "Consumer"]]
               /\ used' = used \cup {g}
               /\ Step(r, [q EXCEPT !.stage = "confirm", !.target = g])
        BY <3>7 DEF IssueWrite
      <4> DEFINE x == [q EXCEPT !.stage = "confirm", !.target = g]
      <4>2. x \in Slots /\ x.target = g
        BY <3>0 DEF Slots, RecordIds
      <4>3. requests' \in [Requests -> Slots]
        BY <2>0, <4>1, <4>2, Stepping
      <4>4. [hash |-> g, type |-> "Consumer"] \in TokenRecords
        BY DEF TokenRecords, Secrets
      <4>5. TypeOK'
        BY <3>7, <4>1, <4>3, <4>4, Watching DEF IssueWrite, TypeOK, Slots
      <4>6. Started' /\ Filed'
        BY <3>7, <4>1, CredentialsAssumption
           DEF IssueWrite, TypeOK, RecordIds, Orderly, Started, Filed
      <4>7. Confirming'
        BY <2>0, <4>1, <4>2, <4>3, Stepping, StillConfirming DEF Orderly
      <4> QED
        BY <4>5, <4>6, <4>7 DEF Orderly
    <3>8. CASE IssueAnswer(r)
      <4>1. PICK code \in Codes : Answer(r, code)
        BY <3>8 DEF IssueAnswer, Codes
      <4>2. requests' \in [Requests -> Slots] /\ requests'[r].stage = "done"
        BY <2>0, <4>1, Answering, Stepping
      <4>3. handed' \subseteq used
        BY <3>8 DEF IssueAnswer, TypeOK, Orderly, Confirming
      <4>4. TypeOK'
        BY <3>8, <4>2, <4>3, Watching DEF IssueAnswer, TypeOK, Slots
      <4>5. Started' /\ Filed'
        BY <3>8 DEF IssueAnswer, Orderly, Started, Filed
      <4>6. Confirming'
        <5>1. \A y \in Requests \ {r} : requests'[y] \in {requests[y], Quiet}
          BY <2>0, <4>1, Answering, Stepping
        <5> QED
          BY <2>0, <3>8, <4>2, <5>1, StillConfirming DEF IssueAnswer, Orderly
      <4> QED
        BY <4>4, <4>5, <4>6 DEF Orderly
    <3>9. CASE Revoke(r)
      <4>1. PICK code \in Codes : Answer(r, code)
        BY <3>9 DEF Revoke, Codes
      <4>2. requests' \in [Requests -> Slots] /\ requests'[r].stage = "done"
        BY <2>0, <4>1, Answering, Stepping
      <4>3. q.target \in RecordIds
        BY <3>0 DEF Slots
      <4>4. TypeOK'
        BY <3>9, <4>2, <4>3, Watching DEF Revoke, TypeOK, Slots
      <4>5. \A id \in RecordIds : records'[id] \in {records[id], Absent}
        BY <3>9, <4>3 DEF Revoke, TypeOK
      <4>7. Started' /\ Filed'
        BY <3>9, <4>5 DEF Revoke, RecordIds, Orderly, Started, Filed
      <4>6. Confirming'
        <5>1. \A y \in Requests \ {r} : requests'[y] \in {requests[y], Quiet}
          BY <2>0, <4>1, Answering, Stepping
        <5> QED
          BY <2>0, <3>9, <4>2, <5>1, StillConfirming DEF Revoke, Orderly
      <4> QED
        BY <4>4, <4>6, <4>7 DEF Orderly
    <3>10. CASE Read(r)
      BY <3>a, <3>10 DEF Read, Codes
    <3> QED
      BY <2>8, <3>2, <3>3, <3>4, <3>5, <3>6, <3>7, <3>8, <3>9, <3>10 DEF Serve
  <2>9. CASE UNCHANGED vars
    BY <2>9 DEF vars, TypeOK, Orderly, Started, Filed, Confirming
  <2>10. QED
    BY <2>1, <2>2, <2>3, <2>4, <2>5, <2>6, <2>7, <2>8, <2>9 DEF Next, Kinds, RecordIds
<1>3. QED
  BY <1>1, <1>2, PTL DEF Spec

(* The variables stay in their types.                                       *)
THEOREM TypeCorrect == Spec => []TypeOK
BY InOrder, PTL

----------------------------------------------------------------------------
(* Which records are there, and with which secrets *)

AdminRecord(secret) == [hash |-> secret, type |-> "Admin"]
EngineRecord(secret) == [hash |-> secret, type |-> "Engine"]
GrantRecord(g) == [hash |-> g, type |-> "Consumer"]

(* Each record is what its last writer wrote, unless the owner deleted it.  *)
Seeding ==
    /\ store \in {"engine", "up"} =>
          records["admin"] = IF "admin" \in erased THEN Absent ELSE AdminRecord(env.admin)
    /\ store = "up" /\ deployment = "bundled" => engine \in Secrets
    /\ store = "up" /\ deployment = "bundled" =>
          records["engine"] = IF "engine" \in erased THEN Absent ELSE EngineRecord(engine)
    /\ \A g \in Grants : records[g] = IF g \in used \ erased THEN GrantRecord(g) ELSE Absent
    /\ erased \cap Grants \subseteq used

LEMMA RecordsKept == Spec => []Seeding
<1> USE DEF AdminRecord, EngineRecord, GrantRecord
<1>1. Init => Seeding
  BY DEF Init, Seeding, RecordIds
<1>2. TypeOK /\ Orderly /\ Seeding /\ [Next]_vars => Seeding'
  <2> SUFFICES ASSUME TypeOK, Orderly, Seeding, [Next]_vars PROVE Seeding'
    OBVIOUS
  <2> USE DEF Others
  <2>0. records \in [RecordIds -> TokenRecords \cup {Absent}] /\ Grants \cap {"admin", "engine"} = {}
    BY CredentialsAssumption DEF TypeOK
  <2>1. ASSUME NEW admin \in AdminValues, NEW token \in EngineValues \cup {Unset}, Start(admin, token)
        PROVE  Seeding'
    BY <2>1 DEF Start, Seeding
  <2>2. CASE SeedAdmin
    BY <2>0, <2>2 DEF SeedAdmin, Seeding, RecordIds
  <2>3. CASE SeedEngine
    <3>1. EngineToken \in Secrets
      BY <2>3, CredentialsAssumption
         DEF SeedEngine, EngineToken, TypeOK, Secrets, Configured, Drawn
    <3> QED
      BY <2>0, <2>3, <3>1 DEF SeedEngine, Seeding, RecordIds
  <2>4. CASE Stop
    BY <2>4 DEF Stop, Seeding
  <2>5. ASSUME NEW token \in EngineValues, EngineStart(token)
        PROVE  Seeding'
    BY <2>5 DEF EngineStart, Seeding
  <2>6. CASE EngineStop
    BY <2>6 DEF EngineStop, Seeding
  <2>7. ASSUME NEW r \in Requests, NEW secret \in Configured \cup handed, NEW kind \in Kinds,
               NEW target \in RecordIds, Arrive(r, kind, target, secret)
        PROVE  Seeding'
    BY <2>7 DEF Arrive, Seeding
  <2>8. ASSUME NEW r \in Requests, Serve(r)
        PROVE  Seeding'
    <3>1. CASE IssueWrite(r)
      BY <2>0, <3>1 DEF IssueWrite, Seeding, RecordIds
    <3>2. CASE Revoke(r)
      <4>1. CASE records[requests[r].target] = Absent
        BY <3>2, <4>1 DEF Revoke, Seeding
      <4>2. CASE records[requests[r].target] # Absent
        <5>1. requests[r].target \in RecordIds
          BY DEF TypeOK
        <5> QED
          BY <2>0, <3>2, <4>2, <5>1 DEF Revoke, Seeding, RecordIds
      <4> QED
        BY <4>1, <4>2
    <3>3. CASE UNCHANGED <<Others, records, used, erased>>
      BY <3>3 DEF Seeding
    <3> QED
      BY <2>8, <3>1, <3>2, <3>3 DEF Serve, CallerLookup, CallerRecord, CallFails, Lookup,
                                    ReadRecord, IssueAnswer, Read
  <2>9. CASE UNCHANGED vars
    BY <2>9 DEF vars, Seeding
  <2>10. QED
    BY <2>1, <2>2, <2>3, <2>4, <2>5, <2>6, <2>7, <2>8, <2>9 DEF Next, Kinds, RecordIds
<1>3. QED
  BY <1>1, <1>2, InOrder, PTL DEF Spec

(* Rotating LDP_ADMIN_TOKEN leaves exactly one key to the pod, however many *)
(* boots were broken off on the way.                                        *)
THEOREM OwnerHasOneKey == Spec => []OneKeyForTheOwner
<1>1. TypeOK /\ Orderly /\ Seeding => OneKeyForTheOwner
  <2> SUFFICES ASSUME TypeOK, Orderly, Seeding, store = "up" PROVE
        {records[id].hash : id \in {i \in RecordIds : records[i] # Absent /\ records[i].type = "Admin"}}
          = IF "admin" \in erased THEN {} ELSE {env.admin}
    BY DEF OneKeyForTheOwner
  <2>1. \A id \in RecordIds : records[id] # Absent /\ records[id].type = "Admin" => id = "admin"
    BY DEF Orderly, Filed, RecordIds
  <2>2. AdminRecord(env.admin) # Absent
    BY CredentialsAssumption DEF AdminRecord, Orderly, Started, Secrets, Configured
  <2>3. records["admin"] = IF "admin" \in erased THEN Absent ELSE AdminRecord(env.admin)
    BY DEF Seeding
  <2>4. "admin" \in RecordIds
    BY DEF RecordIds
  <2> QED
    BY <2>1, <2>2, <2>3, <2>4 DEF AdminRecord
<1>2. QED
  BY <1>1, InOrder, RecordsKept, PTL

(* A bundled engine is never left with the secret of another boot.          *)
THEOREM EngineKeepsStep == Spec => []EngineInStep
<1>1. TypeOK /\ Orderly /\ Seeding => EngineInStep
  <2> SUFFICES ASSUME TypeOK, Orderly, Seeding, store = "up", deployment = "bundled" PROVE
        Live(records, engine, {"Engine"}) = IF "engine" \in erased THEN {} ELSE {"engine"}
    BY DEF EngineInStep
  <2>1. \A id \in RecordIds : records[id] # Absent /\ records[id].type = "Engine" => id = "engine"
    BY DEF Orderly, Filed, RecordIds
  <2>2. records["engine"] = IF "engine" \in erased THEN Absent ELSE EngineRecord(engine)
    BY DEF Seeding
  <2>3. "engine" \notin erased => records["engine"] # Absent
    <3>1. "engine" \notin erased /\ engine \in Secrets => EngineRecord(engine) # Absent
      BY CredentialsAssumption DEF EngineRecord
    <3> QED
      BY <2>2, <3>1 DEF Seeding
  <2>4. "engine" \in RecordIds
    BY DEF RecordIds
  <2> QED
    BY <2>1, <2>2, <2>3, <2>4 DEF Live, EngineRecord
<1>2. QED
  BY <1>1, InOrder, RecordsKept, PTL

(* A grant the owner holds the secret of stays until it is revoked.         *)
THEOREM GrantsSurvive == Spec => []GrantsOutliveRestarts
<1>1. TypeOK /\ Orderly /\ Seeding => GrantsOutliveRestarts
  <2> SUFFICES ASSUME TypeOK, Orderly, Seeding, NEW g \in handed PROVE
        Live(records, g, {"Consumer"}) = IF g \in erased THEN {} ELSE {g}
    BY DEF GrantsOutliveRestarts
  <2>1. g \in Grants /\ g \in used /\ g \in RecordIds
    BY DEF TypeOK, RecordIds
  <2>2. \A id \in RecordIds : records[id] # Absent /\ records[id].type = "Consumer"
                             => id \in Grants /\ records[id].hash = id
    BY DEF Orderly, Filed, RecordIds
  <2>3. GrantRecord(g) # Absent
    BY <2>1, CredentialsAssumption DEF GrantRecord, Secrets
  <2>4. records[g] = IF g \in erased THEN Absent ELSE GrantRecord(g)
    BY <2>1 DEF Seeding
  <2> QED
    BY <2>1, <2>2, <2>3, <2>4 DEF Live, GrantRecord
<1>2. QED
  BY <1>1, InOrder, RecordsKept, PTL

----------------------------------------------------------------------------
(* What a request has seen *)

(* Whatever holds now of a request under way, it has seen; and it forgets   *)
(* nothing.                                                                 *)
LEMMA Seeing ==
    ASSUME TypeOK, Watch, NEW r \in Requests
    PROVE  /\ Running(requests'[r]) =>
                /\ Live(records', requests'[r].presented, Needed(requests'[r].kind)) # {} => seen'[r].lived
                /\ Live(records', requests'[r].presented, Needed(requests'[r].kind)) = {} => seen'[r].lapsed
                /\ store' # "up" \/ Live(records', engine', EngineTypes) = {} => seen'[r].severed
           /\ Running(requests[r]) /\ requests'[r].stage # "idle" =>
                /\ seen[r].lived => seen'[r].lived
                /\ seen[r].lapsed => seen'[r].lapsed
                /\ seen[r].severed => seen'[r].severed
           /\ requests'[r].stage = "done" => seen'[r] = seen[r]
<1> DEFINE sight == Sight(requests'[r], records', store', engine')
<1>1. seen'[r] = IF requests'[r].stage = "idle" THEN Blind
                 ELSE IF requests'[r].stage = "done" THEN seen[r]
                 ELSE IF ~Running(requests[r]) THEN sight
                 ELSE [lived |-> seen[r].lived \/ sight.lived,
                       lapsed |-> seen[r].lapsed \/ sight.lapsed,
                       severed |-> seen[r].severed \/ sight.severed]
  BY DEF Watch
<1>2. /\ sight.lived = (Live(records', requests'[r].presented, Needed(requests'[r].kind)) # {})
      /\ sight.lapsed = (Live(records', requests'[r].presented, Needed(requests'[r].kind)) = {})
      /\ sight.severed = (store' # "up" \/ Live(records', engine', EngineTypes) = {})
  BY DEF Sight
<1>3. seen[r].lived \in BOOLEAN /\ seen[r].lapsed \in BOOLEAN /\ seen[r].severed \in BOOLEAN
  BY DEF TypeOK
<1> HIDE DEF sight
<1>4. Running(requests'[r]) <=> requests'[r].stage \notin {"idle", "done"}
  BY DEF Running
<1>5. CASE requests'[r].stage = "idle"
  BY <1>4, <1>5
<1>6. CASE requests'[r].stage = "done"
  BY <1>1, <1>4, <1>6
<1>7. CASE Running(requests'[r]) /\ ~Running(requests[r])
  <2>1. seen'[r] = sight
    BY <1>1, <1>4, <1>7
  <2> QED
    BY <1>2, <1>4, <1>7, <2>1
<1>8. CASE Running(requests'[r]) /\ Running(requests[r])
  <2>1. seen'[r] = [lived |-> seen[r].lived \/ sight.lived,
                    lapsed |-> seen[r].lapsed \/ sight.lapsed,
                    severed |-> seen[r].severed \/ sight.severed]
    BY <1>1, <1>4, <1>8
  <2>2. /\ seen'[r].lived = (seen[r].lived \/ sight.lived)
        /\ seen'[r].lapsed = (seen[r].lapsed \/ sight.lapsed)
        /\ seen'[r].severed = (seen[r].severed \/ sight.severed)
    BY <2>1
  <2>3. (sight.lived => seen'[r].lived) /\ (sight.lapsed => seen'[r].lapsed)
        /\ (sight.severed => seen'[r].severed)
    BY <2>2
  <2>4. (seen[r].lived => seen'[r].lived) /\ (seen[r].lapsed => seen'[r].lapsed)
        /\ (seen[r].severed => seen'[r].severed)
    BY <2>2
  <2> QED
    BY <1>2, <1>4, <1>8, <2>3, <2>4
<1> QED
  BY <1>4, <1>5, <1>6, <1>7, <1>8

Seen ==
    \A r \in Requests : Running(requests[r]) =>
        /\ Live(records, requests[r].presented, Needed(requests[r].kind)) # {} => seen[r].lived
        /\ Live(records, requests[r].presented, Needed(requests[r].kind)) = {} => seen[r].lapsed
        /\ store # "up" \/ Live(records, engine, EngineTypes) = {} => seen[r].severed

LEMMA EveryStepWatches == Next => Watch
BY DEF Next, Start, SeedAdmin, SeedEngine, Stop, EngineStart, EngineStop, Arrive, Serve,
       CallerLookup, CallerRecord, CallFails, Lookup, ReadRecord, IssueWrite, IssueAnswer,
       Revoke, Read

LEMMA NowIsSeen == Spec => []Seen
<1>1. Init => Seen
  BY QuietSlot DEF Init, Seen
<1>2. TypeOK /\ Seen /\ [Next]_vars => Seen'
  <2>1. CASE Next
    BY <2>1, EveryStepWatches, Seeing DEF Seen
  <2>2. CASE UNCHANGED vars
    BY <2>2 DEF Seen, vars
  <2> QED
    BY <2>1, <2>2
<1>3. QED
  BY <1>1, <1>2, InOrder, PTL DEF Spec

----------------------------------------------------------------------------
(* Admitted and refused *)

(* A record that was found by a digest: whose it is.                        *)
Bound(id, secret, type) ==
    /\ id = "admin" => secret \in AdminValues /\ type = "Admin"
    /\ id = "engine" => secret \in EngineValues \cup Drawn /\ type = "Engine"
    /\ id \in Grants => secret = id /\ type = "Consumer"

RolesApart == AdminValues \cap EngineValues = {}

(* What a slot and what was seen from it have to do with one another.       *)
Admission(q, s) ==
    /\ q.stage \in {"record", "act", "confirm"} => s.lived \/ (q.kind = "readLog" /\ q.type = "Engine")
    /\ q.stage = "confirm" => q.kind = "issue"
    /\ q.stage = "done" /\ q.answer \in {"200", "201", "204", "404"} => s.lived
Refusal(q, s) ==
    /\ q.stage = "record" => Bound(q.match, q.presented, q.type)
    /\ RolesApart /\ q.stage = "act" /\ q.kind = "readLog" /\ q.type = "Engine" => s.lapsed
    /\ RolesApart /\ q.stage = "done" /\ q.answer \in {"401", "403"} => s.lapsed
Verdict(q, s) == Admission(q, s) /\ Refusal(q, s)
Verdicts == \A r \in Requests : Verdict(requests[r], seen[r])

LEMMA AllowedTypes ==
    ASSUME NEW kind \in Kinds
    PROVE  /\ Needed(kind) \subseteq Allowed(kind)
           /\ kind # "readLog" => Needed(kind) = Allowed(kind)
           /\ kind = "readLog" => Needed(kind) = {"Admin"} /\ Allowed(kind) = {"Admin", "Engine"}
BY DEF Needed, Allowed, Kinds

(* A step that leaves a slot alone, or empties it, leaves its verdict true. *)
LEMMA Bystander ==
    ASSUME TypeOK, Watch, NEW x \in Requests, Verdict(requests[x], seen[x]),
           \/ requests'[x].stage = "idle"
           \/ /\ requests'[x].stage = requests[x].stage /\ requests'[x].kind = requests[x].kind
              /\ requests'[x].type = requests[x].type /\ requests'[x].match = requests[x].match
              /\ requests'[x].presented = requests[x].presented
              /\ requests'[x].answer = requests[x].answer
    PROVE  Verdict(requests'[x], seen'[x])
<1>1. CASE requests'[x].stage = "idle"
  BY <1>1 DEF Verdict, Admission, Refusal
<1>2. CASE /\ requests'[x].stage = requests[x].stage /\ requests'[x].kind = requests[x].kind
           /\ requests'[x].type = requests[x].type /\ requests'[x].match = requests[x].match
           /\ requests'[x].presented = requests[x].presented
           /\ requests'[x].answer = requests[x].answer
           /\ requests'[x].stage # "idle"
  <2>1. CASE requests'[x].stage = "done"
    <3>1. seen'[x] = seen[x]
      BY <2>1, Seeing
    <3> QED
      BY <1>2, <2>1, <3>1 DEF Verdict, Admission, Refusal
  <2>2. CASE requests'[x].stage # "done"
    <3>1. (seen[x].lived => seen'[x].lived) /\ (seen[x].lapsed => seen'[x].lapsed)
      BY <1>2, <2>2, Seeing DEF Running
    <3> QED
      BY <1>2, <2>2, <3>1 DEF Verdict, Admission, Refusal
  <2> QED
    BY <2>1, <2>2
<1> QED
  BY <1>1, <1>2

(* With tokens of their own for the two roles, a secret is in force under   *)
(* one record at most.                                                      *)
LEMMA OneRecord ==
    ASSUME RolesApart, TypeOK, Orderly, NEW m \in RecordIds, NEW secret, NEW type,
           Bound(m, secret, type), NEW types, NEW id \in Live(records, secret, types)
    PROVE  id = m /\ records[id].type = type
<1>1. id \in RecordIds /\ records[id] # Absent /\ records[id].hash = secret
  BY DEF Live
<1>2. Bound(id, secret, records[id].type)
  BY <1>1, CredentialsAssumption DEF Orderly, Filed, Bound
<1>3. AdminValues \cap (EngineValues \cup Drawn \cup Grants) = {}
      /\ (EngineValues \cup Drawn) \cap Grants = {}
  BY CredentialsAssumption DEF RolesApart, Configured
<1>4. id = m
  BY <1>1, <1>2, <1>3 DEF Bound, RecordIds
<1> QED
  BY <1>2, <1>4 DEF Bound, RecordIds

LEMMA SoundVerdicts == Spec => []Verdicts
<1>1. Init => Verdicts
  BY QuietSlot DEF Init, Verdicts, Verdict, Admission, Refusal
<1>2. TypeOK /\ Orderly /\ Seen /\ Verdicts /\ [Next]_vars => Verdicts'
  <2> SUFFICES ASSUME TypeOK, Orderly, Seen, Verdicts, [Next]_vars PROVE Verdicts'
    OBVIOUS
  <2>0. requests \in [Requests -> Slots] /\ \A x \in Requests : Verdict(requests[x], seen[x])
    BY DEF TypeOK, Slots, Verdicts
  <2>a. ASSUME Watch, \A x \in Requests :
           \/ requests'[x].stage = "idle"
           \/ /\ requests'[x].stage = requests[x].stage /\ requests'[x].kind = requests[x].kind
              /\ requests'[x].type = requests[x].type /\ requests'[x].match = requests[x].match
              /\ requests'[x].presented = requests[x].presented
              /\ requests'[x].answer = requests[x].answer
        PROVE  Verdicts'
    BY <2>0, <2>a, Bystander DEF Verdicts
  <2>1. ASSUME Watch, UNCHANGED requests PROVE Verdicts'
    BY <2>a, <2>1
  <2>2. CASE Stop
    <3>1. \A x \in Requests :
           \/ requests'[x].stage = "idle"
           \/ /\ requests'[x].stage = requests[x].stage /\ requests'[x].kind = requests[x].kind
              /\ requests'[x].type = requests[x].type /\ requests'[x].match = requests[x].match
              /\ requests'[x].presented = requests[x].presented
              /\ requests'[x].answer = requests[x].answer
      BY <2>0, <2>2, QuietSlot DEF Stop, Slots
    <3> QED
      BY <2>2, <2>a, <3>1 DEF Stop
  <2>3. CASE EngineStop
    BY <2>0, <2>3, <2>a, QuietSlot DEF EngineStop
  <2>4. ASSUME NEW r \in Requests, NEW q \in Slots, Step(r, q), Watch, Verdict(q, seen'[r])
        PROVE  Verdicts'
    <3>1. requests'[r] = q /\ \A x \in Requests \ {r} : requests'[x] \in {requests[x], Quiet}
      BY <2>0, <2>4, Stepping
    <3>2. \A x \in Requests \ {r} : Verdict(requests'[x], seen'[x])
      BY <2>0, <2>4, <3>1, Bystander, QuietSlot
    <3> QED
      BY <2>4, <3>1, <3>2 DEF Verdicts
  <2>5. ASSUME NEW r \in Requests, NEW secret \in Configured \cup handed, NEW kind \in Kinds,
               NEW target \in RecordIds, Arrive(r, kind, target, secret)
        PROVE  Verdicts'
    <3> DEFINE x == [Quiet EXCEPT !.stage = "lookup", !.kind = kind, !.target = target,
                                  !.presented = secret]
    <3>1. secret \in Secrets
      BY DEF TypeOK, Secrets
    <3>2. x \in Slots /\ x.stage = "lookup"
      BY <3>1, QuietSlot DEF Slots
    <3>3. Verdict(x, seen'[r])
      BY <3>2 DEF Verdict, Admission, Refusal
    <3> QED
      BY <2>4, <2>5, <3>2, <3>3 DEF Arrive
  <2>6. ASSUME NEW r \in Requests, Serve(r)
        PROVE  Verdicts'
    <3> DEFINE q == requests[r]
    <3>0. q \in Slots /\ q.kind \in Kinds /\ Watch /\ Verdict(q, seen[r])
      BY <2>0, <2>6 DEF Slots, Serve, CallerLookup, CallerRecord, CallFails, Lookup, ReadRecord,
                        IssueWrite, IssueAnswer, Revoke, Read
    <3>1. ASSUME NEW code \in Codes, Answer(r, code),
                 code \in {"200", "201", "204", "404"} => seen[r].lived,
                 RolesApart /\ code \in {"401", "403"} => seen[r].lapsed
          PROVE  Verdicts'
      <4>1. Reply(code) \in Slots /\ Step(r, Reply(code))
            /\ Reply(code).stage = "done" /\ Reply(code).answer = code
        BY <3>1, Answering
      <4>2. seen'[r] = seen[r]
        BY <2>0, <3>0, <4>1, Stepping, Seeing
      <4>3. Verdict(Reply(code), seen'[r])
        BY <3>1, <4>1, <4>2 DEF Verdict, Admission, Refusal
      <4> QED
        BY <2>4, <3>0, <4>1, <4>3
    <3>2. ASSUME NEW x \in Slots, Step(r, x), Running(q), x.stage \in {"lookup", "record", "act", "confirm"},
                 ~(x.kind = "readLog" /\ x.type = "Engine") /\ x.stage # "lookup" => seen[r].lived,
                 x.stage = "confirm" => x.kind = "issue",
                 x.stage = "record" => Bound(x.match, x.presented, x.type),
                 RolesApart /\ x.stage = "act" /\ x.kind = "readLog" /\ x.type = "Engine" => seen[r].lapsed
          PROVE  Verdicts'
      <4>1. (seen[r].lived => seen'[r].lived) /\ (seen[r].lapsed => seen'[r].lapsed)
        BY <2>0, <3>0, <3>2, Stepping, Seeing
      <4>2. Verdict(x, seen'[r])
        BY <3>2, <4>1 DEF Verdict, Admission, Refusal
      <4> QED
        BY <2>4, <3>0, <3>2, <4>2
    <3>3. Running(q) => /\ Live(records, q.presented, Needed(q.kind)) # {} => seen[r].lived
                        /\ Live(records, q.presented, Needed(q.kind)) = {} => seen[r].lapsed
      BY DEF Seen
    <3>4. CASE CallerLookup(r)
      <4>1. ASSUME NEW id \in Match(engine, EngineTypes), Step(r, [q EXCEPT !.caller = id])
            PROVE  Verdicts'
        <5>1. id \in {"admin", "engine"}
          BY <4>1, Matching DEF Orderly, Filed, RecordIds, EngineTypes
        <5> DEFINE x == [q EXCEPT !.caller = id]
        <5>2. x \in Slots /\ x.stage = q.stage /\ x.kind = q.kind /\ x.type = q.type
              /\ x.match = q.match /\ x.presented = q.presented
          BY <3>0, <5>1 DEF Slots
        <5>3. q.stage \in {"lookup", "record"} /\ Running(q)
          BY <3>4 DEF CallerLookup, Calling, Running
        <5> QED
          BY <3>0, <3>2, <4>1, <5>2, <5>3 DEF Verdict, Admission, Refusal
      <4> QED
        BY <3>1, <3>4, <4>1 DEF CallerLookup, Codes
    <3>5. CASE CallerRecord(r)
      <4> DEFINE x == [q EXCEPT !.caller = "admitted"]
      <4>1. x \in Slots /\ x.stage = q.stage /\ x.kind = q.kind /\ x.type = q.type
            /\ x.match = q.match /\ x.presented = q.presented
        BY <3>0 DEF Slots
      <4>2. q.stage \in {"lookup", "record"} /\ Running(q)
        BY <3>5 DEF CallerRecord, Calling, Running
      <4>3. Step(r, x) => Verdicts'
        BY <3>0, <3>2, <4>1, <4>2 DEF Verdict, Admission, Refusal
      <4> QED
        BY <3>1, <3>5, <4>3 DEF CallerRecord, Codes
    <3>6. CASE CallFails(r)
      BY <3>1, <3>6 DEF CallFails, Codes
    <3>7. CASE Lookup(r)
      <4>1. q.stage = "lookup" /\ Running(q)
        BY <3>7 DEF Lookup, Running
      <4>2. CASE Match(q.presented, Allowed(q.kind)) = {} /\ Answer(r, "401")
        <5>1. Live(records, q.presented, Allowed(q.kind)) = {}
          BY <4>2 DEF Match
        <5>2. Live(records, q.presented, Needed(q.kind)) = {}
          BY <3>0, <5>1, AllowedTypes DEF Live
        <5> QED
          BY <3>1, <3>3, <4>1, <4>2, <5>2 DEF Codes
      <4>3. ASSUME NEW id \in Match(q.presented, Allowed(q.kind)),
                   Step(r, [q EXCEPT !.stage = "record", !.match = id,
                                     !.type = records[id].type, !.caller = "unsent"])
            PROVE  Verdicts'
        <5> DEFINE x == [q EXCEPT !.stage = "record", !.match = id,
                                  !.type = records[id].type, !.caller = "unsent"]
        <5>1. id \in RecordIds /\ records[id] # Absent /\ records[id].hash = q.presented
              /\ records[id].type \in Allowed(q.kind)
              /\ records[id].type \in {"Admin", "Engine", "Consumer"}
          BY <4>3, Matching DEF TypeOK, TokenRecords
        <5>2. x \in Slots /\ x.stage = "record" /\ x.kind = q.kind /\ x.match = id
              /\ x.type = records[id].type /\ x.presented = q.presented
          BY <3>0, <5>1 DEF Slots
        <5>3. Bound(x.match, x.presented, x.type)
          BY <5>1, <5>2 DEF Bound, Orderly, Filed
        <5>4. ~(x.kind = "readLog" /\ x.type = "Engine") => records[id].type \in Needed(q.kind)
          BY <3>0, <5>1, <5>2, AllowedTypes
        <5>5. ~(x.kind = "readLog" /\ x.type = "Engine") => seen[r].lived
          BY <3>3, <4>1, <5>1, <5>4 DEF Live
        <5> QED
          BY <3>2, <4>1, <4>3, <5>2, <5>3, <5>5
      <4> QED
        BY <3>7, <4>2, <4>3 DEF Lookup
    <3>8. CASE ReadRecord(r)
      <4>1. q.stage = "record" /\ Running(q) /\ q.match \in RecordIds
        BY <3>0, <3>8 DEF ReadRecord, Running, Slots
      <4>2. /\ Bound(q.match, q.presented, q.type)
            /\ ~(q.kind = "readLog" /\ q.type = "Engine") => seen[r].lived
        BY <3>0, <4>1 DEF Verdict, Admission, Refusal
      <4>3. ASSUME RolesApart, records[q.match] = Absent PROVE seen[r].lapsed
        <5>1. Live(records, q.presented, Needed(q.kind)) = {}
          BY <4>1, <4>2, <4>3, OneRecord DEF Live
        <5> QED
          BY <3>3, <4>1, <5>1
      <4>4. ASSUME RolesApart, q.kind = "readLog", q.type = "Engine" PROVE seen[r].lapsed
        <5>1. Needed(q.kind) = {"Admin"}
          BY <4>4 DEF Needed
        <5>2. Live(records, q.presented, Needed(q.kind)) = {}
          BY <4>1, <4>2, <4>4, <5>1, OneRecord DEF Live
        <5> QED
          BY <3>3, <4>1, <5>2
      <4>5. CASE records[q.match] = Absent /\ Answer(r, "401")
        BY <3>1, <4>3, <4>5 DEF Codes
      <4>6. CASE OnEngine(q.kind) /\ Answer(r, "200")
        BY <3>1, <4>2, <4>6 DEF Codes, OnEngine
      <4>7. CASE Step(r, [q EXCEPT !.stage = "act"])
        <5> DEFINE x == [q EXCEPT !.stage = "act"]
        <5>1. x \in Slots /\ x.stage = "act" /\ x.kind = q.kind /\ x.type = q.type
          BY <3>0 DEF Slots
        <5> QED
          BY <3>2, <4>1, <4>2, <4>4, <4>7, <5>1
      <4> QED
        BY <3>8, <4>5, <4>6, <4>7 DEF ReadRecord
    <3>9. CASE IssueWrite(r)
      <4>1. PICK g \in Grants : Step(r, [q EXCEPT !.stage = "confirm", !.target = g])
        BY <3>9 DEF IssueWrite
      <4> DEFINE x == [q EXCEPT !.stage = "confirm", !.target = g]
      <4>2. x \in Slots /\ x.stage = "confirm" /\ x.kind = q.kind
        BY <3>0 DEF Slots, RecordIds
      <4>3. Running(q) /\ q.kind = "issue" /\ seen[r].lived
        BY <3>0, <3>9 DEF IssueWrite, Running, Verdict, Admission
      <4> QED
        BY <3>2, <4>1, <4>2, <4>3
    <3>10. CASE IssueAnswer(r)
      <4>1. seen[r].lived
        BY <3>0, <3>10 DEF IssueAnswer, Verdict, Admission
      <4>2. Answer(r, "500") \/ Answer(r, "201")
        BY <3>10 DEF IssueAnswer
      <4> QED
        BY <3>1, <4>1, <4>2 DEF Codes
    <3>11. CASE Revoke(r)
      <4>1. seen[r].lived
        BY <3>0, <3>11 DEF Revoke, Verdict, Admission
      <4>2. Answer(r, "404") \/ Answer(r, "204")
        BY <3>11 DEF Revoke
      <4> QED
        BY <3>1, <4>1, <4>2 DEF Codes
    <3>12. CASE Read(r)
      <4>1. ~(q.kind = "readLog" /\ q.type = "Engine") => seen[r].lived
        BY <3>0, <3>12 DEF Read, Verdict, Admission
      <4>2. RolesApart /\ q.kind = "readLog" /\ q.type = "Engine" => seen[r].lapsed
        BY <3>0, <3>12 DEF Read, Verdict, Refusal
      <4> QED
        BY <3>1, <3>12, <4>1, <4>2 DEF Read, Codes
    <3> QED
      BY <2>6, <3>4, <3>5, <3>6, <3>7, <3>8, <3>9, <3>10, <3>11, <3>12 DEF Serve
  <2>7. CASE UNCHANGED vars
    BY <2>7 DEF vars, Verdicts
  <2>8. ASSUME NEW admin \in AdminValues, NEW token \in EngineValues \cup {Unset}, Start(admin, token)
        PROVE  Verdicts'
    BY <2>1, <2>8 DEF Start
  <2>9. CASE SeedAdmin
    BY <2>1, <2>9 DEF SeedAdmin
  <2>10. CASE SeedEngine
    BY <2>1, <2>10 DEF SeedEngine
  <2>11. ASSUME NEW token \in EngineValues, EngineStart(token)
         PROVE  Verdicts'
    BY <2>1, <2>11 DEF EngineStart
  <2>12. QED
    BY <2>2, <2>3, <2>5, <2>6, <2>7, <2>8, <2>9, <2>10, <2>11 DEF Next, Kinds, RecordIds
<1>3. QED
  BY <1>1, <1>2, InOrder, NowIsSeen, PTL DEF Spec

(* Nobody is admitted, on storage or on the engine, with a token that was   *)
(* not in force for that endpoint since the request arrived.                *)
THEOREM AdmissionsJustified == Spec => []AdmittedWasLive
<1>1. Verdicts => AdmittedWasLive
  BY DEF Verdicts, Verdict, Admission, AdmittedWasLive, Answered
<1>2. QED
  BY <1>1, SoundVerdicts, PTL

(* Nobody is refused whose token was in force for that endpoint throughout. *)
THEOREM RefusalsJustified == Spec => []RefusedWasDead
<1>1. Verdicts => RefusedWasDead
  BY DEF Verdicts, Verdict, Refusal, RefusedWasDead, Answered, RolesApart
<1>2. QED
  BY <1>1, SoundVerdicts, PTL

----------------------------------------------------------------------------
(* Gateway errors *)

(* What a call of the engine to storage relies on: the engine that makes it *)
(* still runs, with the credential that was looked up.                      *)
Errand(q, s, credential) ==
    /\ Running(q) /\ OnEngine(q.kind) => credential # Unset
    /\ Running(q) /\ q.caller \in {"admin", "engine"} =>
          OnEngine(q.kind) /\ \E type \in EngineTypes : Bound(q.caller, credential, type)
    /\ RolesApart /\ q.stage = "done" /\ q.answer = "502" => s.severed

(* A bundled engine has its credential only while storage serves.           *)
Bundled == deployment = "bundled" /\ store # "up" => engine = Unset
Errands == Bundled /\ \A r \in Requests : Errand(requests[r], seen[r], engine)

(* A step that leaves a slot alone, breaks off its call, or empties it.     *)
Unmoved(q, p) ==
    /\ q.stage = p.stage /\ q.kind = p.kind /\ q.answer = p.answer
    /\ q.caller \in {p.caller, "broken"}

LEMMA ErrandBystander ==
    ASSUME TypeOK, Watch, NEW x \in Requests, Errand(requests[x], seen[x], engine),
           requests'[x].stage = "idle" \/ Unmoved(requests'[x], requests[x]),
           \/ engine' = engine
           \/ Running(requests'[x]) => ~OnEngine(requests'[x].kind)
    PROVE  Errand(requests'[x], seen'[x], engine')
<1>1. CASE requests'[x].stage = "idle"
  BY <1>1 DEF Errand, Running
<1>2. CASE Unmoved(requests'[x], requests[x])
  <2>1. requests'[x].stage = "done" => seen'[x] = seen[x]
    BY Seeing
  <2>2. Running(requests'[x]) <=> Running(requests[x])
    BY <1>2 DEF Unmoved, Running
  <2>3. requests'[x].caller \in {"admin", "engine"} => requests'[x].caller = requests[x].caller
    BY <1>2 DEF Unmoved
  <2> QED
    BY <1>2, <2>1, <2>2, <2>3 DEF Unmoved, Errand
<1> QED
  BY <1>1, <1>2

LEMMA ErrandsRun == Spec => []Errands
<1>1. Init => Errands
  BY QuietSlot DEF Init, Errands, Bundled, Errand
<1>2. TypeOK /\ Orderly /\ Seen /\ Errands /\ [Next]_vars => Errands'
  <2> SUFFICES ASSUME TypeOK, Orderly, Seen, Errands, [Next]_vars PROVE Errands'
    OBVIOUS
  <2> USE DEF Others
  <2>0. /\ requests \in [Requests -> Slots] /\ Bundled
        /\ \A x \in Requests : Errand(requests[x], seen[x], engine)
    BY DEF TypeOK, Slots, Errands
  <2>1. ASSUME Watch, Bundled', UNCHANGED requests,
               engine' = engine \/ engine = Unset
        PROVE  Errands'
    <3>1. ASSUME NEW x \in Requests PROVE Errand(requests'[x], seen'[x], engine')
      <4>1. engine = Unset => (Running(requests[x]) => ~OnEngine(requests[x].kind))
        BY <2>0 DEF Errand
      <4>2. Unmoved(requests'[x], requests[x])
        BY <2>1 DEF Unmoved
      <4>3. requests'[x] = requests[x]
        BY <2>1
      <4> QED
        BY <2>0, <2>1, <4>1, <4>2, <4>3, ErrandBystander
    <3> QED
      BY <2>1, <3>1 DEF Errands
  <2>2. CASE Stop
    <3>1. Bundled'
      BY <2>2 DEF Stop, Bundled
    <3>2. ASSUME NEW x \in Requests PROVE Errand(requests'[x], seen'[x], engine')
      <4>1. \/ requests'[x].stage = "idle"
            \/ Unmoved(requests'[x], requests[x]) /\ engine' = engine
        <5> DEFINE q == requests[x]
        <5>1. CASE ~Running(q) \/ deployment = "bundled" \/ ~OnEngine(q.kind)
          BY <2>2, <5>1, QuietSlot DEF Stop
        <5>2. CASE ~(~Running(q) \/ deployment = "bundled" \/ ~OnEngine(q.kind))
          <6>1. /\ requests'[x] = [q EXCEPT !.caller = IF q.caller = "unsent" THEN q.caller
                                                       ELSE "broken"]
                /\ engine' = engine
            BY <2>2, <5>2 DEF Stop
          <6>2. q \in Slots
            BY <2>0
          <6> QED
            BY <6>1, <6>2 DEF Slots, Unmoved
        <5> QED
          BY <5>1, <5>2
      <4>2. CASE requests'[x].stage = "idle"
        BY <4>2 DEF Errand, Running
      <4>3. CASE Unmoved(requests'[x], requests[x]) /\ engine' = engine
        BY <2>0, <2>2, <4>3, ErrandBystander DEF Stop
      <4> QED
        BY <4>1, <4>2, <4>3
    <3> QED
      BY <3>1, <3>2 DEF Errands
  <2>3. CASE EngineStop
    <3>1. Bundled'
      BY <2>3 DEF EngineStop, Bundled
    <3>2. ASSUME NEW x \in Requests PROVE Errand(requests'[x], seen'[x], engine')
      <4>1. \/ requests'[x] = Quiet
            \/ requests'[x] = requests[x] /\ ~OnEngine(requests[x].kind)
        BY <2>3 DEF EngineStop
      <4>2. CASE requests'[x] = Quiet
        BY <4>2, QuietSlot DEF Errand
      <4>3. CASE requests'[x] = requests[x] /\ ~OnEngine(requests[x].kind)
        <5>1. Unmoved(requests'[x], requests[x])
          BY <4>3 DEF Unmoved
        <5> QED
          BY <2>0, <2>3, <4>3, <5>1, ErrandBystander DEF EngineStop
      <4> QED
        BY <4>1, <4>2, <4>3
    <3> QED
      BY <3>1, <3>2 DEF Errands
  <2>4. ASSUME NEW r \in Requests, NEW q \in Slots, Step(r, q), Watch, UNCHANGED Others,
               Errand(q, seen'[r], engine)
        PROVE  Errands'
    <3>1. requests'[r] = q /\ \A x \in Requests \ {r} : requests'[x] \in {requests[x], Quiet}
      BY <2>0, <2>4, Stepping
    <3>2. ASSUME NEW x \in Requests \ {r} PROVE Errand(requests'[x], seen'[x], engine')
      <4>1. requests'[x].stage = "idle" \/ Unmoved(requests'[x], requests[x])
        BY <3>1, QuietSlot DEF Unmoved
      <4> QED
        BY <2>0, <2>4, <4>1, ErrandBystander
    <3>3. Bundled'
      BY <2>0, <2>4 DEF Bundled
    <3> QED
      BY <2>4, <3>1, <3>2, <3>3 DEF Errands
  <2>5. ASSUME NEW r \in Requests, NEW secret \in Configured \cup handed, NEW kind \in Kinds,
               NEW target \in RecordIds, Arrive(r, kind, target, secret)
        PROVE  Errands'
    <3> DEFINE x == [Quiet EXCEPT !.stage = "lookup", !.kind = kind, !.target = target,
                                  !.presented = secret]
    <3>1. secret \in Secrets
      BY DEF TypeOK, Secrets
    <3>2. x \in Slots /\ x.stage = "lookup" /\ x.kind = kind /\ x.caller = "unsent"
      BY <3>1, QuietSlot DEF Slots, Quiet
    <3>3. Errand(x, seen'[r], engine)
      BY <2>5, <3>2 DEF Errand, Arrive
    <3> QED
      BY <2>4, <2>5, <3>2, <3>3 DEF Arrive
  <2>6. ASSUME NEW r \in Requests, Serve(r)
        PROVE  Errands'
    <3> DEFINE q == requests[r]
    <3>0. q \in Slots /\ Watch /\ Errand(q, seen[r], engine) /\ UNCHANGED Others
      BY <2>0, <2>6 DEF Slots, Serve, CallerLookup, CallerRecord, CallFails, Lookup, ReadRecord,
                        IssueWrite, IssueAnswer, Revoke, Read
    <3>1. ASSUME NEW code \in Codes, Answer(r, code), RolesApart /\ code = "502" => seen[r].severed
          PROVE  Errands'
      <4>1. Reply(code) \in Slots /\ Step(r, Reply(code)) /\ ~Running(Reply(code))
            /\ Reply(code).stage = "done" /\ Reply(code).answer = code
        BY <3>1, Answering
      <4>2. seen'[r] = seen[r]
        BY <2>0, <3>0, <4>1, Stepping, Seeing
      <4>3. Errand(Reply(code), seen'[r], engine)
        BY <3>1, <4>1, <4>2 DEF Errand
      <4> QED
        BY <2>4, <3>0, <4>1, <4>3
    <3>2. ASSUME NEW x \in Slots, Step(r, x), Running(q), x.stage # "done", x.kind = q.kind,
                 x.caller \in {"admin", "engine"} =>
                    OnEngine(q.kind) /\ \E type \in EngineTypes : Bound(x.caller, engine, type)
          PROVE  Errands'
      <4>1. Errand(x, seen'[r], engine)
        BY <3>0, <3>2 DEF Errand
      <4> QED
        BY <2>4, <3>0, <3>2, <4>1
    <3>3. Running(q) /\ Live(records, engine, EngineTypes) = {} => seen[r].severed
      BY DEF Seen
    <3>4. CASE CallerLookup(r)
      <4>1. Calling(q) /\ Running(q)
        BY <3>4 DEF CallerLookup, Calling, Running
      <4>2. CASE Match(engine, EngineTypes) = {} /\ Answer(r, "502")
        <5>1. Live(records, engine, EngineTypes) = {}
          BY <4>2 DEF Match
        <5> QED
          BY <3>1, <3>3, <4>1, <4>2, <5>1 DEF Codes
      <4>3. ASSUME NEW id \in Match(engine, EngineTypes), Step(r, [q EXCEPT !.caller = id])
            PROVE  Errands'
        <5>1. /\ id \in RecordIds /\ records[id] # Absent
              /\ records[id].hash = engine /\ records[id].type \in EngineTypes
          BY <4>3, Matching
        <5>2. id \in {"admin", "engine"} /\ Bound(id, engine, records[id].type)
          BY <5>1, CredentialsAssumption DEF Orderly, Filed, RecordIds, EngineTypes, Bound
        <5> DEFINE x == [q EXCEPT !.caller = id]
        <5>3. x \in Slots /\ x.stage = q.stage /\ x.kind = q.kind /\ x.caller = id
          BY <3>0, <5>2 DEF Slots
        <5>4. OnEngine(q.kind) /\ q.stage # "done"
          BY <4>1 DEF Calling
        <5> QED
          BY <3>2, <4>1, <4>3, <5>1, <5>2, <5>3, <5>4
      <4> QED
        BY <3>4, <4>2, <4>3 DEF CallerLookup
    <3>5. CASE CallerRecord(r)
      <4>1. Running(q) /\ q.stage # "done" /\ q.caller \in {"admin", "engine"}
        BY <3>5 DEF CallerRecord, Calling, Running
      <4>2. CASE records[q.caller] = Absent /\ Answer(r, "502")
        <5>1. PICK type \in EngineTypes : Bound(q.caller, engine, type)
          BY <3>0, <4>1 DEF Errand
        <5>2. RolesApart => Live(records, engine, EngineTypes) = {}
          <6>1. q.caller \in RecordIds
            BY <4>1 DEF RecordIds
          <6> QED
            BY <4>2, <5>1, <6>1, OneRecord DEF Live
        <5> QED
          BY <3>1, <3>3, <4>1, <4>2, <5>2 DEF Codes
      <4>3. CASE Step(r, [q EXCEPT !.caller = "admitted"])
        <5> DEFINE x == [q EXCEPT !.caller = "admitted"]
        <5>1. x \in Slots /\ x.stage = q.stage /\ x.kind = q.kind /\ x.caller = "admitted"
          BY <3>0 DEF Slots
        <5> QED
          BY <3>2, <4>1, <4>3, <5>1
      <4> QED
        BY <3>5, <4>2, <4>3 DEF CallerRecord
    <3>6. CASE CallFails(r)
      BY <3>1, <3>6 DEF CallFails, Codes
    <3>7. CASE Lookup(r)
      <4>1. q.stage = "lookup" /\ Running(q)
        BY <3>7 DEF Lookup, Running
      <4>2. CASE Answer(r, "401")
        BY <3>1, <4>2 DEF Codes
      <4>3. ASSUME NEW id \in Match(q.presented, Allowed(q.kind)),
                   Step(r, [q EXCEPT !.stage = "record", !.match = id,
                                     !.type = records[id].type, !.caller = "unsent"])
            PROVE  Errands'
        <5> DEFINE x == [q EXCEPT !.stage = "record", !.match = id,
                                  !.type = records[id].type, !.caller = "unsent"]
        <5>1. id \in RecordIds /\ records[id].type \in {"Admin", "Engine", "Consumer"}
          BY <4>3, Matching DEF TypeOK, TokenRecords
        <5>2. x \in Slots /\ x.stage = "record" /\ x.kind = q.kind /\ x.caller = "unsent"
          BY <3>0, <5>1 DEF Slots
        <5> QED
          BY <3>2, <4>1, <4>3, <5>2
      <4> QED
        BY <3>7, <4>2, <4>3 DEF Lookup
    <3>8. CASE ReadRecord(r)
      <4>1. q.stage = "record" /\ Running(q)
        BY <3>8 DEF ReadRecord, Running
      <4>2. CASE Answer(r, "401") \/ Answer(r, "200")
        BY <3>1, <4>2 DEF Codes
      <4>3. CASE Step(r, [q EXCEPT !.stage = "act"])
        <5> DEFINE x == [q EXCEPT !.stage = "act"]
        <5>1. x \in Slots /\ x.stage = "act" /\ x.kind = q.kind /\ x.caller = q.caller
          BY <3>0 DEF Slots
        <5> QED
          BY <3>0, <3>2, <4>1, <4>3, <5>1 DEF Errand
      <4> QED
        BY <3>8, <4>2, <4>3 DEF ReadRecord
    <3>9. CASE IssueWrite(r)
      <4>1. PICK g \in Grants : Step(r, [q EXCEPT !.stage = "confirm", !.target = g])
        BY <3>9 DEF IssueWrite
      <4> DEFINE x == [q EXCEPT !.stage = "confirm", !.target = g]
      <4>2. x \in Slots /\ x.stage = "confirm" /\ x.kind = q.kind /\ x.caller = q.caller
        BY <3>0 DEF Slots, RecordIds
      <4>3. Running(q)
        BY <3>9 DEF IssueWrite, Running
      <4> QED
        BY <3>0, <3>2, <4>1, <4>2, <4>3 DEF Errand
    <3>10. CASE IssueAnswer(r) \/ Revoke(r) \/ Read(r)
      <4>1. \E code \in Codes \ {"502"} : Answer(r, code)
        BY <3>10 DEF IssueAnswer, Revoke, Read, Codes
      <4> QED
        BY <3>1, <4>1
    <3> QED
      BY <2>6, <3>4, <3>5, <3>6, <3>7, <3>8, <3>9, <3>10 DEF Serve
  <2>7. CASE UNCHANGED vars
    BY <2>7 DEF vars, Errands, Bundled
  <2>8. ASSUME NEW admin \in AdminValues, NEW token \in EngineValues \cup {Unset}, Start(admin, token)
        PROVE  Errands'
    <3>1. Bundled'
      BY <2>0, <2>8 DEF Start, Bundled
    <3> QED
      BY <2>1, <2>8, <3>1 DEF Start
  <2>9. CASE SeedAdmin
    <3>1. Bundled'
      BY <2>0, <2>9 DEF SeedAdmin, Bundled
    <3> QED
      BY <2>1, <2>9, <3>1 DEF SeedAdmin
  <2>10. CASE SeedEngine
    <3>1. Bundled' /\ (engine' = engine \/ engine = Unset)
      BY <2>0, <2>10 DEF SeedEngine, Bundled
    <3> QED
      BY <2>1, <2>10, <3>1 DEF SeedEngine
  <2>11. ASSUME NEW token \in EngineValues, EngineStart(token)
         PROVE  Errands'
    <3>1. Bundled'
      BY <2>11 DEF EngineStart, Bundled
    <3> QED
      BY <2>1, <2>11, <3>1 DEF EngineStart
  <2>12. QED
    BY <2>2, <2>3, <2>5, <2>6, <2>7, <2>8, <2>9, <2>10, <2>11 DEF Next, Kinds, RecordIds
<1>3. QED
  BY <1>1, <1>2, InOrder, NowIsSeen, PTL DEF Spec

(* A request is answered with a gateway error only if the engine was cut    *)
(* off from storage, or its credential was not in force there, at some      *)
(* moment of the request.                                                   *)
THEOREM GatewayErrorsAreReal == Spec => []GatewayErrorsJustified
<1>1. Errands => GatewayErrorsJustified
  BY DEF Errands, Errand, GatewayErrorsJustified, Answered, RolesApart
<1>2. QED
  BY <1>1, ErrandsRun, PTL
=============================================================================
