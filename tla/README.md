# Verification of the LDP personal store

TLA+ models of the personal store (`src/ldp_personal_store`) and of its view engine (`src/ldp_view_engine`), TLC configurations that model-check them on small instances, and TLAPS proofs of the properties that matter most for every size.
Paths below are relative to `src/` of the repository; the module and operator names are those of this directory.

Contents:

1. [The system](#the-system): components, state, operations, interactions, hard behaviours, what makes each part correct
2. [The modules](#the-modules): what models what, and how state and actions correspond to the code
3. [The runs](#the-runs): what each one asks, its bounds, and why they are enough
4. [Fairness](#fairness)
5. [The proofs](#the-proofs)
6. [Where the code and its documents part](#where-the-code-and-its-documents-part)
7. [Not modelled](#not-modelled)
8. [What comes next](#what-comes-next)

## The system

The pod has one owner.  **Storage** (`ldp_personal_store`, FastAPI with synchronous handlers in a thread pool) holds LDP resources, which the owner reads and writes, and system records under `.system/`: token records, view records, policies, the access log.
Consumers never talk to storage: they present a consumer token (a *grant*) to the **view engine** (`ldp_view_engine`, FastAPI with asyncio handlers), which runs a view's CONSTRUCT query, or hands out a blob the view refers to, if the grant's policy allows it.
The engine keeps no state except its own credential; everything it knows it reads from storage over HTTP, one call after the other, and everything it records it writes there over HTTP.
The two run as one process behind one port (`main.py`, *bundled*) or as two (*split*).

### Components

| Component | State | Operations | What is hard | What makes it correct |
|---|---|---|---|---|
| View engine, delivery pipeline (`engine.py`, `client.py`, `policy.py`) | per request: the records it has read, the timestamp, the attempts used up | `get_view`, `get_blob`: validate, load view and policy, decide, query the data source, bump the token counter, bump the view counter, append to the log | up to a dozen HTTP calls, each a point where any other delivery or owner write can run; decisions on snapshots; retry loops; lost replies | policy limits, exact counters, nothing delivered off the books, revocation takes hold, every request is answered |
| State store writes for the engine (`storage/router.py`) | token and view records | `guard_enforcement_put`, `apply_enforcement_put`, access-log append | guard and write are two holds of the lock | each write is one atomic increment of a record that exists |
| Owner writes to grants, views, policies (`authentication/router.py`, `views/router.py`, `views/submission.py`) | token, policy, view and log records | issue, adjust, revoke, write a policy, create, replace and delete a view, erase an entry; listings of `.system/` containers | race every delivery; a listing is a query over all graphs | what they write is not overwritten by a stale copy; a listing is exactly the records that exist |
| Authentication (`authentication/tokens_store.py`, both `dependencies.py`/`authentication.py`) | token records; the engine's credential | seeding at each boot, validation on storage (two backend calls) and on the engine (two HTTP calls, each validated by two backend calls), issue, revoke | boots cut short, rotation, revocation between two calls | admission and refusal as if validation were one step; one key for the owner; bundled engine and storage agree; grants survive |
| LDP data plane (`ldp/router.py`, `containers.py`) | RDF and binary resources, containment | GET, HEAD, OPTIONS, PUT, POST, DELETE; seeding of the root | each handler is a chain of backend calls and writes back what it read several calls earlier; crash between two of them | preconditions hold when the write happens; containment is server-managed; listings and members agree; a non-empty container stays |
| Filesystem backend (`storage/filesystem.py`) | files; an rdflib dataset in memory; one lock | read, write, write_system, replace_if_unchanged, write_binary, stream_binary, delete, start | every file is truncated, then written; a binary is two files; `stream_binary` takes no lock; names are mapped to file names that can coincide | memory and disk agree; a finished write survives any stop; the server starts again |
| Content helpers (`rdfcontent.py`, `ldp/content.py`) | none | preconditions, ETags, negotiation, Prefer, parsing | what is stored, what is shown and what comes back differ | a representation can be put back |
| Token and view records (`tokenrecord.py`, `viewmodel.py`, `views/submission.py`) | none | building and reading records, matching digests, binding parameters | matching among several records | used by the above and the below |
| Template injection and rewriting (`bindings.py`, `rewrite.py`) | none; the proxy URLs in results are handed to consumers | put a VALUES block into a query, rewrite URIs in a result, follow a proxy URL later | a scan of query text; a URL that outlives the page it was on | parameters land in the WHERE clause; a reference re-runs the view as its page was |
| Discovery and statistics (`discovery.py`, `stats.py`) | none | what a grant unlocks; what was delivered | several calls at different moments | discovery is total; the counts fit together |
| SPARQL endpoint (`sparql/router.py`) | none | query the dataset, scoped to the data plane or the whole pod | the scope clause | read-only |
| Composition roots, configuration (`app.py`, `main.py`, `config.py`, `bootstrap.py`, `appkit.py`) | environment | lifespan hooks, routing, TLS checks | order of the steps of a boot | in Authentication |
| Penny proxy, LDP test-suite proxy, testing client, demo, documentation | none | forwarding, pages | none | not part of the pod's logic |

### How they interact

- The owner's client calls the data plane, the system routers and the SPARQL endpoint with the admin token; the handlers call the backend, whose lock orders single calls and nothing longer.
- A consumer's client calls the engine.  The engine calls storage: a digest lookup (SPARQL over all token records), the token record, the view record, the policy, the query or the blob, conditional PUTs on the token and the view record, a POST to the access log.  Storage validates the engine's own token on each.
- When data and state are on different servers (`LDP_STATE_STORAGE_URL`), the query and the blob go to one, the records to another.
- At boot, storage seeds the root container, the owner's token record and the engine's; bundled, the engine gets its credential from the same hook.

### Hazards

The list, each at its line, with the properties that watch it, is in `PROJECT.json` ("hazards").
The families: decisions taken on snapshots (ceilings, preconditions, emptiness); write-backs of stale copies (records, listings); conditional PUTs in two halves and their lost replies; crashes between the two writes that belong together (member and listing, bytes and metadata, two token records); validation spread over up to six backend calls; names that share a file.

## The modules

    EnforcementLedger  <--- refines ---  ViewDelivery   MCViewDelivery   ViewDelivery_proofs, ViewDeliveryLimits_proofs
    LdpStore           <--- refines ---  LdpServer      MCLdpServer      LdpServer_proofs
    ResourceStore      <--- refines ---  FileStore      MCFileStore      FileStore_proofs
                                         Credentials    MCCredentials    Credentials_proofs
                                         ViewCatalog     MCViewCatalog  ViewCatalog_proofs
                                         ViewTemplates   MCDecisions    ViewTemplates_proofs
                                         Representations MCDecisions    Representations_proofs
    LdpDocuments (documents, shared by LdpStore and LdpServer)
    PodPaths (names and file names, used by MCFileStore)

The modules are layered like the code.  `FileStore` shows that a backend call behaves as one step on whole resources; the others take that as given and make one backend call, or one HTTP call, one action.
The first three specifications have an abstract counterpart that a reader of the API would write down, reached by `INSTANCE ... WITH` and checked as a property.  The last two are about what one handler computes from what it reads, so a request is one action in them and the state is what lasts between requests.
Operators named `..._wrong` are plausible mistakes in the code.  No specification uses them: each stands next to the definition it would replace, and documents which mistake which property notices.

Data is abstracted to what the properties tell apart.  A document is a record (is it a container, what does it list, which body); an ETag, a digest of the document, is the document itself; a SHA-256 token digest is the token; bodies, view definitions and graphs are model values.

### ViewDelivery and EnforcementLedger

`ViewDelivery` has the deliveries of the engine on one side and, on the other, the records on storage with everything the owner may do to them.

| Variable | In the code |
|---|---|
| `tokens`, `views`, `policies` | the records `.system/tokens/{id}`, `.system/views/{id}`, `.system/policies/{id}`, reduced to the fields that deliveries read or write |
| `engine` | does `.system/tokens/engine` exist |
| `log` | the access-log entry of each delivery: none, kept, erased |
| `clock` | `datetime.now` on the engine, in ticks of which `Second` make a second |
| `pc`, `job`, `tok`, `vw`, `now`, `tries`, `deaf`, `status` | locals of `get_view`/`get_blob` and of the bump loops: the call awaited, what was asked, the records read last, the timestamp of the delivery, attempts used, whether the engine has given up on a PUT that storage still executes, the response |
| `counted`, `tokBase`, `vwBase` | history only: which counters the request incremented, and the part of a counter that the owner wrote |

`Start` is the arrival.  `LookUp`, `ReadRecord` are `validate_via_storage`; `LoadView`, `Decide` (policy fetch and `check_policy` on the snapshots), `Construct`, `OpenBlob` follow; then `_record_delivery`: `TokenGet`, `TokenGuard` (`guard_enforcement_put`), `TokenApply` (`replace_if_unchanged`), the same three for the view, and `AppendLog`.
What a delivery writes as `lastUsedAt` is `Stamp`, its instant cut down to the whole second (`strftime` in `get_view`); `PolicyAllows` compares that with an instant as fine as the clock.
A conditional PUT is two actions, since storage reads the record in a dependency and compares and replaces it later under the lock.
A 412 sends the request back to the read (`Displaced`), until `MaxRetries` attempts are used up.
`CallLost`, `AppendUnheard` and `ReplyLost` are a call that never arrived, an append whose reply is lost, and a PUT that storage goes on to execute after the engine has given up on it.
`CredentialRefused` is any call after the engine's record was deleted.
`SeparateData` distinguishes one server from two (a separate data source has its own credential).
The owner issues, adjusts, revokes, writes policies, stores and deletes views, erases log entries, revokes the engine; `Boot` seeds the engine's record again.

`EnforcementLedger` is what the counters promise: records the owner writes, and one atomic increment.

### LdpServer, LdpStore, LdpDocuments

| Variable | In the code |
|---|---|
| `rdf`, `bin` | the resources; one URI may have both forms, as in the backend |
| `pc`, `job`, `snap`, `member`, `holder`, `reply` | per thread: the backend call it makes next, the request, the graph it has read and will write back, the member to list, the container to list it in, the response |
| `attached`, `claimed`, `torn` | history: which listings some handler made, and which came in a body that was stored as it is; members whose DELETE a stop cut short |
| `overtaken` | history: threads whose target another thread has changed since they checked it |

PUT is `PutCheck` (read, preconditions, containment), `PutWrite`, then for a new resource `AttachRead` and `ListWrite` on the parent.
POST is `PostRead`, `PostWrite` (a fresh name), `ListWrite` with the container graph of `PostRead`.
DELETE is `DeleteCheck` (read, root, emptiness), `DeleteApply`, `DetachRead`, `DetachWrite`.  `DeleteApply` of a URI that has nothing but a directory, left by the members of a container that is gone, may fail with 500.
`Restart` drops all threads at any point and seeds the root if it is gone.
`Parent` is `parent_container_uri`, `Mintable` the names `mint_member_uri` may give, `Reserved` the URIs under reserved segments.

`LdpStore` has a write together with its parent's listing as one step.  The mapping `Completed` adds the listings and removals that are under way.

### FileStore, ResourceStore, PodPaths

| Variable | In the code |
|---|---|
| `file` | the tree below the storage root: missing, a directory, empty, cut short, Turtle, bytes |
| `graph` | the rdflib dataset |
| `process`, `lock`, `op`, `answer` | running, stopped or refused to start; the holder of the `RLock`; the call each thread is in; its result |
| `written`, `streamed`, `hit` | history: what the last finished write stored under a name; names whose write or delete was cut short |

A call takes the lock in its first action (`BeginWrite`, `BeginReplace`, `BeginBinary`, `BeginDelete`) and releases it in its last (`EndWrite`, `EndBytes`, `EndSidecar`, `EndDelete`); the steps between are those that change a file, because a stop or the unlocked `stream_binary` can see the state there.
Opening a file for writing makes its directories and truncates it.
`OpenStream` and `SendBody` are the two uses of `stream_binary` in one GET.
`Stop` may leave an open file complete, empty or cut; `Boot` parses every `.ttl` file and refuses to start when one does not parse.
`PodPaths` has the mapping between URIs and file names (`_uri_to_rdf_path`, `_uri_to_bin_path`, `_path_to_uri`); paths are sequences of parts.  `FileStore` itself takes them as constants.

`ResourceStore` is `StorageBackend`: a map of whole resources, each call one step, restarts invisible.

### Credentials

| Variable | In the code |
|---|---|
| `records` | `.system/tokens/{id}`: digest and type; the ids `admin` and `engine`, and random ones |
| `deployment`, `store`, `env`, `boots`, `engine` | bundled or split; where storage is in its lifespan hook; its environment; random engine tokens drawn so far; the credential the engine process presents |
| `requests` | each request in flight: validation stage, record matched, where the engine's own call to storage is (`caller`) |
| `used`, `handed` | record ids drawn; grants whose secret the owner has been shown |
| `erased`, `seen` | history: records deleted since they were last written; whether the token was in force, or not, or the engine cut off, at some moment since the request arrived |

`Start`, `SeedAdmin`, `SeedEngine` are the steps of a boot, `Stop` may fall between any two; `EngineStart` and `EngineStop` are those of a split engine.
`Lookup` (over the token records; see [Not modelled](#not-modelled) for other graphs) and `ReadRecord` are the two calls of `validate_token`; a request to the engine makes each of them over HTTP, and storage first validates the engine in `CallerLookup` and `CallerRecord`; `CallFails` is storage out of reach.
`IssueWrite` and `IssueAnswer`, `Revoke` and `Read` stand for the endpoints, one for each combination of admitted token types.

This module has no abstract counterpart: what it promises is that validation, spread over calls, behaves as if done at one moment, and that is `AdmittedWasLive` and `RefusedWasDead`, stated over `seen`.

### ViewCatalog

| Variable | In the code |
|---|---|
| `views`, `grants`, `policies`, `log`, `engine` | the records under `.system/`: definitions, grants and the views they link, policies, log entries, the engine's token record |
| `said` | what each graph, of a record or of a data-plane resource, states as types, and of whom: the dataset that the listings query |
| `reader` | the engine's request that is under way: the call it makes next, the links still to be described, what it has so far |
| `seen`, `steady`, `ever`, `lapses` | history: definitions, entries and withdrawals during that request |

`CreateView`, `ReplaceView`, `DeleteView`, `IssueGrant`, `WritePolicy` are the owner's endpoints; `RevokeGrant`, `DropPolicy`, `EraseEntry`, `RevokeEngine` are `revoke_system` on the kinds of record it deletes; `AppendEntry` is the engine's POST to the log; `WriteNote` is a PUT to the data plane.
A submitted body may say more than it should (`Asides`): `OneSubject` is what `parse_view_submission` and `write_policy` refuse, `Canonical` is what is stored of the rest.
`Listing` is `_synthesize_container`.
`LookUpToken` and `ReadToken` are the validation, `Describe` the read of one linked view, `CountAll`, `CountByView`, `CountByToken` the three queries of the statistics.

### ViewTemplates

`definition` is a stored view: the parts of its text and the declared parameters; `data` the data source as the owner leaves it at each moment: the resources that are stored, those that some document describes, and the references that documents make; `page` the last result a consumer was given, with the proxy URLs in it.
A text is a sequence of the characters that the scan of `bindings.py` tells apart, a run of other letters being one element.
`Scan` is `_scan_where_group`: `Reading` folds `Look` over the positions, `Group` is its choice of a brace, and `After` says where the scan goes on after a comment, string, IRI or name.
`Accepted` is what authoring checks, `Bindable` and `Bind` are `bind_params`, `Injectable` is `inject_values` with the parse of the rewritten query at its end, `Proxy` and `Rewritten` are `rewrite_upstream_uris`, `Follow` is `get_blob`, which runs the view again and gives a 404 if the target is no longer in its result.
External are `GroupOf`, the brace at which the SPARQL grammar opens the WHERE clause (known because a text is put together from its parts), `SubSelect`, whether that group is a bare sub-select, in front of which no VALUES block parses, and `Result`, the resources that the narrowed query refers to on the present data.

### Representations

`stored` is the graph of one container as a set of triples.
`Represented` is what a GET shows of it under a `Prefer` header (`Wants`); `Kept` is what a PUT stores of a body, `Tampers` the 409.
`Create`, `Replace` and `PutBack` are a POST or PUT that creates, a PUT of any body, and a PUT of a representation that was read; `List` and `Unlist` are members that come and go.
`Stray` names what a POST stores and no PUT would, which the first PUT drops.

## The runs

`tlc -workers 2 -config X.cfg M` in this directory.  Figures are distinct states and the time of one run on two workers; every passing run explores its whole state space.

| Run (module) | Asks | Distinct states | Time |
|---|---|---|---|
| `delivery_owner` (MCViewDelivery) | two deliveries against every owner write, revocation, reboot and lost call: are counters exact, is every 200 on the books, is each engine write an atomic increment (`ImplementsLedger`), does a revocation bite, is every request answered? | 525 k | 150 s |
| `delivery_serial` | one delivery at a time, through lost calls and revocations: does the interval hold to within a second, is a request denied that comes once a ceiling is reached or the window is over? | 1.99 M | 103 s |
| `delivery_calm` | three deliveries, two in flight, three attempts, no owner: how far is a ceiling overshot, what does a failed attempt cost, is a confirmed delivery delivered? | 252 k | 40 s |
| `delivery_ceiling_race` | does a ceiling of one hold for two deliveries at once?  **No** | counterexample | 1 s |
| `ldp_apart` (MCLdpServer) | two threads on different parts of the pod: do their calls, interleaved, implement the atomic store; preconditions, emptiness, listings? | 764 k | 144 s |
| `ldp_crash` | one thread, a restart in the middle of any request, bodies that claim members: what is left listed or unlisted, and who said so? | 6.27 M | 154 s |
| `ldp_lost_update` | do two PUTs with the same ETag both succeed?  **Yes** | counterexample | 1 s |
| `files_orderly` (MCFileStore) | stops between calls only: is the backend a store of whole resources that a start brings back? | 5.5 k | 3 s |
| `files_crash` | stops between any two changes of a file: does memory agree with disk, do finished writes survive, does the server start? | 307 k | 17 s |
| `credentials` (MCCredentials) | two requests of every kind through boots, rotations, crashes, revocation, bundled and split: is validation as good as one step? | 914 k | 82 s |
| `catalog` (MCViewCatalog) | every owner write, appended entry and data-plane write between the calls of a discovery or a statistics request: are listings exact, is discovery total, do the counts fit together? | 1.19 M | 124 s |
| `decisions` (MCDecisions) | every view text put together from parts that can mislead the scan, its pages and proxy URLs; every container a client can write: do parameters land in the WHERE clause, do references lead back while the owner edits what they refer to, can a copy be put back? | 52 k | 115 s |

The two counterexamples are the two findings described [below](#where-the-code-and-its-documents-part).  Both need nothing but two requests at once.

### Bounds

No run bounds the length of a behaviour: the state spaces are finite because the bounds below are in the guards or in the constants.

- `Requests` (ViewDelivery): 2 or 3; each id is one request, used once, so these runs stop by themselves (`CHECK_DEADLOCK FALSE`).  Two are enough for every race over one record, because each conditional PUT is about one other writer; the third is there in `delivery_calm`, where a request must be displaced more than once.
- `MaxInFlight` (ViewDelivery): how many the consumers have in flight; 1 in `delivery_serial`, where the limits are meant to hold, 2 elsewhere.  `CeilingOvershoot` is stated in terms of it.
- `MaxRetries`: 2, or 3 in `delivery_calm`; 10 in the code (`client.py:33`).  With 2 both the retry and the giving up happen.  `ConfirmedIsDelivered` needs it to be at least the number of deliveries, which is the comment at `client.py:28-33` made precise.
- `Second` and `MaxTime`, in ticks: `delivery_serial` has two ticks to a second and six in all, an interval of two seconds and a window from tick 3 to tick 4, so that too early, inside and too late all happen, within and at the start of a second; epoch 0 is "never used".  The other runs ask nothing of the clock and have one tick.
- `AdjustTo`: to what the owner sets a counter: 0, or nothing.
- `Grants`, `Views`, `Defs`: one grant; one or two views (the second outside the grant, for 403; in `delivery_calm` it has no record, since nothing there depends on one that is never delivered); one or two definitions (two where a stale overwrite could bring the first one back).
- LDP: five URIs (root, two containers, one member each) in `ldp_apart`; four in `ldp_crash`, one of them reserved; two in `ldp_lost_update`.  `Reach` gives each thread its part of the pod; `Conditions` the preconditions it sends.  `PutGraphs` include a container that claims a member it does not have; in `ldp_crash` also a plain resource with a listing, and `PostGraphs` a container with one.
- Files: a document, a container, a binary in it and a record; two bodies, one of which does not parse as Turtle; one caller (`files_orderly`) or two.  Their names share no files, and no name of a binary lies below a metadata file, so no `open` finds anything in its way here; for the names where one does, `BinariesKept` is proved and no run goes there.
- Catalog: two views, one grant that links both, two entries, one data-plane resource, two definitions.  One request is under way at a time, since readers do not affect one another, and none of its calls is lost (`ViewDelivery` loses them).  `StrayTypes` are bodies that call another record a token, a view or a policy.
- Templates (`MCDecisions`): three prologues, six heads, the shorthand, two gaps and three patterns, with and without the keyword, and any set of parameters.  Each part holds one thing that could mislead a scan: WHERE as a prefix, in an IRI, a comment, a name, a variable and a string; braces in comments and strings; escaped and doubled quotes, long strings, `#` and `'` inside them; a group that is a bare sub-select, behind a comment.  Two resources come and go, are described or not, and are referred to or not, in two references with different parameter values.  One parameter is called `uri`.  A view is written only where there is none; replacing is deleting and writing, since a page of the old definition is of no use.
- Representations: two members, one other resource that may carry the membership, each declaration present or absent, one set of further triples with a membership triple, an inverse one, a title and a foreign listing.
- `MCDecisions` has both of these components; they share no state, and a behaviour moves one of them.
- Credentials: two admin tokens, one engine token, one grant, `MaxBoots = 2` boots that draw a random engine token, two request slots that are reused without bound.
- Symmetry is used in `credentials` and `catalog`, over interchangeable ids and in runs without liveness.

Each property of a passing run has been seen to fail under at least one `..._wrong` mistake in the modelled code under the very same bounds, so the bounds are large enough for the case that the property is about.

## Fairness

`FairSpec` and `CalmSpec` assume `WF_vars(Serve(r))` for each request: a request whose next step is possible takes it eventually.
The engine's handlers are coroutines on an asyncio loop and storage's run in a thread pool; both schedule whatever is ready, no step of the chain waits for another request, and the backend lock is held only for the length of a call.
Nothing is assumed of consumers, of the owner, of the clock or of failures.
With this much, `EveryRequestAnswered` holds against an owner who rewrites records for ever: the loops are bounded.
`ConfirmedIsDelivered` needs, beyond that, a pod where nobody takes anything away and no call is lost (`CalmSpec`).
`SettledSpec` is the pod while the owner writes no grants and views (calls may be lost, things may be revoked); `OrderlySpec`, in `LdpServer` and `FileStore`, a server that is stopped only between requests or calls.  These three are restrictions of the same actions, for the properties that only hold there.

## The proofs

`tlapm M_proofs.tla` checks each module of proofs; they hold for every value of the constants that satisfies the assumptions named in the modules (`PodAssumption`, `EngineAssumption`, `UrisAssumption`, `RequestsAssumption`, `NamesAssumption`, `DataAssumption`, `CredentialsAssumption`, `CatalogAssumption`, `TemplatesAssumption`), which TLC evaluates for the small ones.

**ViewDelivery_proofs.**  `TypeCorrect`.
`DeliveriesRecorded` (`DeliveredIsRecorded`) goes by the invariant `Books`, which says for each place in the chain which counters have been incremented: the property alone is not inductive, as it says nothing of a request that is about to append its entry.
`CountersExact` (`CountsExact`) adds `Exact`.  A conditional PUT preserves it since it writes `count + 1` to the record that it has just found equal to the one read, and since, by `Books`, the request has not been tallied before: the cardinality of the tally grows by exactly one.
`LedgerImplemented`: every step of the detailed specification is a step of `EnforcementLedger` or leaves the records alone.
`RevocationFinal` (`RevocationBites`) goes action by action: the only steps that count anything find the record they read still there.  `RevokedNeverDelivered` puts it together with `DeliveriesRecorded`: a request that is not counted when its grant is revoked is never answered 200.

**ViewDeliveryLimits_proofs.**  It starts from `RequestMoves`: what a step of one request can be, told by its own program counter, the records it has read and what it changes; the other steps of `SettledSpec` are `SettledMoves`.
`CeilingsNearlyHold` (`CeilingOvershoot`): the invariant counts, beside the deliveries already on a record, the requests that may still add one.  `Crowd` bounds those under way by `MaxInFlight`; `TokenRoom` and `ViewRoom` say that once a ceiling is reached, what is counted and the requests that decided before it was (`TokenHopefuls`, `ViewHopefuls`) stay below the overshoot together.  A request that decides later is refused, so this sum no longer grows; the property alone says nothing of those requests and is not inductive.
`LostAttemptsAreCommits` (`DisplacedByCommits`): `Contended` bounds the attempts used up by the count of the record that the request read last; a displaced request reads a larger one next.  The counts are deliveries by `CountersExact`.
`IntervalsKept` (`IntervalHolds`) is for `MaxInFlight = 1`, where the limits are meant to hold.  `Spacing` says what the one request under way knows of the deliveries before it (`Follows`), and that the grant carries the whole second of the latest of them or a later one (`Stamped`).  A stamp is less than a second behind its instant, whatever `Second` is: hence the interval less one second.
`LateNeverDelivered` (`LateRequestsDenied`): what closes a grant and a view (`Closed`) stays, and a request that began afterwards never gets past the decision (`Late`).

**LdpServer_proofs.**  `TypeCorrect`, by the strengthening `Shape` (what a thread will write back is a graph).
`ListingsManaged` (`ContainmentManaged`): the invariant is `StoreListed`, for every graph and not only the containers, and `Carried`, the same for every copy that a thread holds and will write back.  Stale copies are harmless here because `attached` only grows.
Nothing is assumed of the bodies, and the theorem covers any number of threads on the same resources: a listing comes from a handler or from a body that was stored as it came (`claimed`), and from nowhere else.

`OverwritesAdmitted` and `NonEmptyStays` are also about any number of threads, whatever they share, and any restart.  Check and write are two backend calls, and nothing in the code keeps a second thread out of the gap; without a hypothesis `NothingClobbered` and `NonEmptyKept` are false, and `ldp_lost_update` is a counterexample to the first.
What is true, and proved, is that the gap is the only way: `AdmittedUnlessOvertaken` says that a PUT which no other thread has overtaken overwrites only what its precondition admits, and `KeptUnlessOvertaken` that a container with members is removed only by a DELETE that was overtaken.  A thread is `overtaken` if the very resource it is about has changed since its check.
The invariant is `AllStanding`: what a thread found out about its target (the precondition holds, the container is empty) is still so when it writes, unless it is in `overtaken`.  In `ldp_apart` no thread is ever overtaken, and both properties hold as they stand.

The other results are for threads that keep out of each other's way.
A single thread always does (`ldp_crash`), and `ldp_apart` has two that do; both runs satisfy the other hypotheses below as well, except that the bodies of `ldp_crash` are not clean.  Restarts in the middle of requests are included.

- `ZonesApart`: all that a thread's requests read and write (`Zone`: their targets, the parents of those, the members a POST may mint) is no other thread's.  `DeletedForgotten` (`OnlyDeletedForgotten`), `ListedAreThere` and `WritesImplemented` are for these.  The invariant is `AllCurrent`: what a thread has read is what is there, at each step of its chain.  A step of one thread keeps that of its own (`ServeCurrent`) and leaves the zone of every other alone (`Local`, `KeptCurrent`); a restart leaves no thread with a copy.  That the targets differ would not do here: two requests below one container each write back the listing they read, and a member that neither deleted can drop out of it (TLC finds `OnlyDeletedForgotten` violated in `ldp_apart` once its two boxes are below one root).

`NonEmptyStays` and `DeletedForgotten` go by `Rewriting`, which lists what a step may do to one graph.
`ListedAreThere` (`ListedExist`) adds `Rooted`: what any graph lists is a child of it and there, or on its way out, or was listed by a client's body.  It assumes that POST mints children of its container (`ChildrenMinted`, which a container URI with its trailing slash gives) and that the pod is consistent at the start (`PodsRooted`).
`WritesImplemented` (`ImplementsStore`) is for a server that is not stopped in the middle of a request (`OrderlySpec`) and for `CleanBodies`: no `ldp:contains` in a POST or in a plain graph, since the abstract store makes listings itself.  The mapping shows the store with the listings under way completed.  By `ZonesApart` at most one thread has a listing under way in any container (`ViewsHold`), so what the store shows is told by the thread in whose zone a resource lies (`Steps`).  There is a lemma for each call that takes effect (`PutWriteMaps`, `PostWriteMaps`, `DeleteApplyMaps`, `RestartMaps`) and two for those that do not (`ReadsMap`, `WriteBackMaps`): the write-back of a listing only catches up with what was shown already.

**FileStore_proofs.**  `TypeCorrect`.
`MemoryFollowsDisk` (`MemoryMatchesDisk`) assumes `NoCollisions`, that names do not share files.  The invariant `InStep` says who may hold the lock (`LockHeld`), that everything else is at rest (`AtRest`), that the dataset holds what the files parse to except for the name under way (`Mirror`), and that the bytes of that one are where they should be (`BytesInPlace`).

`BinariesKept` (`KeepsBinaries`) assumes only `BytesApart`, that no other name has the file of a binary's bytes; metadata may be the file of some graph, a directory, or the parent of another binary.  The invariant `Safe` says where the bytes are at each step of a call, also when the metadata cannot be opened.

The other results assume both of these hypotheses.  Their invariant is `StoreInv`: the two above and `Retained`, which says what is in the file of a graph (`Plain`: nothing, an opened or cut file, or a graph), that it is what the last write stored unless a call is filling it or a stop hit one (`GraphsKept`), and that the file of a binary stays in place while it is overwritten (`InTheWay`).
`GraphsStay` (`KeepsGraphs`), `DamageOnly` (`OnlyDamageRefusesStart`), `OverwriteFindable` (`OverwriteKeepsFindable`) and `ReadsWritten` (`ReadsOnlyWritten`) follow.
`StoreImplemented` (`ImplementsStore`): the mapping shows a name under way as it was, or as it will be, according to the step its call has reached.  By the lock there is at most one such call (`ViewsHold`, `Sees`), so the proof tells the store by this one call, and has a lemma for each step that the store sees (`WriteMaps`, `DeleteGraphMaps`, ..., `EndMetadataMaps`) or does not see (`IdlesMap`).

**Credentials_proofs.**  `InOrder` is the typing invariant with the facts about which record ids hold which kind of record (`Orderly`).  `RecordsKept` (invariant `Seeding`) yields `OwnerHasOneKey`, `EngineKeepsStep` and `GrantsSurvive`.
`NowIsSeen` says that the history `seen` covers the present; with it, `Verdicts` follows a request along its stages: what the matched record was when it was looked up, what a later absence of it means, and the same for the engine's own credential.  `AdmissionsJustified` and `RefusalsJustified` follow; the second speaks of values that are not configured for both roles.
`GatewayErrorsAreReal` (`GatewayErrorsJustified`, for the same configurations) goes by `Errands`: an engine with a request under way keeps its credential, since whatever replaces it ends those requests first, so a record missing at the second call means that the credential no longer matches anything.

**ViewCatalog_proofs.**  `TypeCorrect`.
`ListingsExact` (`ListingExact`): every graph says of its own subject that it has its type, while the record exists, and of nobody else's record anything at all.
`DiscoveryIsTotal` (`DiscoveryTotal`): the invariant follows the walk; what has been listed and what is still to do make up the links of the grant, and every description is one of `seen`.
`StatsAreBracketed` (`StatsBracketed`): the property speaks of the finished answer; its invariant `Surveying` speaks of the request under way.  The history encloses the log at each moment (`Enclosed`), each count taken so far lies between the two ends of the history (`Bounded`), and while no entry is erased the log still has at least what the last count found, so the next one cannot find less (`Growing`).  The sum of a breakdown is a fold over its keys; its recursion has one solution (`FoldsAgree`), and the sizes of the parts of a finite set are one, so the sum is the number of entries that were counted.

**ViewTemplates_proofs.**  `ReferencesLeadBack` (`ProxiesLeadBack`): the proxy URLs of a page carry its bindings, and what they bind is type-correct and injectable, because the page was made with it; so following one gets as far as the result of that moment, whatever the owner has changed since.
`ParametersBindInPlace` (`BindsInPlace`) is about texts of any length, put together from parts that do not run into one another (`SeparateParts`: a part ends outside of every comment, string, IRI and name, and alone a head opens a brace, a prologue has no WHERE, a gap no brace).  TLC finds this true of the parts of `MCDecisions`; without it a text may end in an open comment that takes the WHERE clause with it.
Where the keyword is there, a definition is refused exactly if its group is a bare sub-select.
`ReadOn` turns the fold of the scan into one look after the other.  `TokensMove` and `KeywordsMove` say that a token or a WHERE of a part is one of the text, so the scan of the text reads a part as the scan of the part alone would, and has done with it where the part ends (`PartsMove`, `PartRead`).  What is found in a text is then put together from what is found in its parts: a brace and no group up to the keyword (`LeadRead`), and the brace of the pattern after it (`GroupFound`).

**Representations_proofs.**  `CopiesRoundTrip` (`RoundTrips`) assumes `PlainNotes`, that the further triples declare no membership of the container.  A copy declares what the graph declares (`CopyDeclares`), so the PUT takes out of it what the GET put in (`KeptOfCopy`); the rest is the graph without its stray triples, and the types that a GET shows anyway (`SeenTheSame`).  The invariant is that what is stored is made of triples and that no relation is a word of the server's own (`Settled`).

What stays with TLC: `EveryRequestAnswered` and `ConfirmedIsDelivered`, the two liveness properties.  They rest on fairness and so on ENABLED, out of reach of this prover.
Every other property of a passing run is a theorem, but for `NothingClobbered` and `NonEmptyKept`, in whose place there are the two theorems about threads that are overtaken.
The induction theorems of the library cannot be used either, since they take an operator as a parameter.  Where a proof needs an induction (on the positions of a text, on the keys of a sum) it refutes the smallest counterexample (`SmallestMember`, `SmallestSubset`, by well-foundedness).  There are no RECURSIVE definitions.

## Where the code and its documents part

Two disagreements have a run that shows them.

- **Ceilings under concurrency** (`delivery_ceiling_race`).  `get_view` decides on the records it read at the start (`ldp_view_engine/engine.py:113`) and counts after the result is ready, so two deliveries at once both pass a ceiling of one.  `docs/vocab.ttl:173` defines `pod:maxRetrievals` as "Per-grant ceiling on the number of successful deliveries."; the same holds for `pod:minInterval` (line 180) and `pod:maxViewRetrievals` (187).  `CeilingOvershoot` is what does hold: fewer than `MaxInFlight` too many.
- **Lost update** (`ldp_lost_update`).  `_put_rdf_resource` checks `If-Match` on a graph read in one backend call and writes in another (`ldp_personal_store/ldp/router.py:394`).  `ldp_common/rdfcontent.py:173`: "must carry If-Match, so a blind overwrite cannot clobber a concurrent change".  The backend has `replace_if_unchanged`, which would do it in one; the system routers use it.

The others came up while modelling.  The models follow the code; the properties are stated so as to leave them out.

Engine:

- Two deliveries may be closer than `pod:minInterval`, by less than a second: `lastUsedAt` is written in whole seconds (`engine.py:132`, `250`) and compared with the present microsecond (`policy.py:30`, `53`).  After a delivery at 0.999 s, stamped 0, an interval of 2 lets the next one pass at 2.000.  `docs/vocab.ttl:180`: "Minimum number of seconds between consecutive deliveries under the grant."  `IntervalHolds` says what is left of the interval; TLC finds the full one violated in `delivery_serial`.
- `lastUsedAt` may move back: the delivery confirmed first may commit last (`client.py:238`).  `docs/vocab.ttl:105`: "Instant of the last successful delivery".
- A count without a delivery: when a step after the first bump fails, the bump stays (`engine.py:57`).  `docs/vocab.ttl:98`: "Number of successful deliveries".
- Replacing a view starts its counter at 0 (`ldp_personal_store/views/submission.py:134`), and with it a partly used `pod:maxViewRetrievals`.  `docs/vocab.ttl:194`: "Mutable count of successful deliveries of the view across all grants."
- Two deliveries in flight may be enough to be contended out, if the one slot besides yours is used by one delivery after the other (`client.py:244`); the comment at `client.py:30-32` counts the deliveries in flight.  The count that matters is that of all deliveries that commit during one loop (`DisplacedByCommits`).  With 10 attempts this is a matter of a very slow request.

- A parameter may be called `uri`; a proxy URL then carries the parameter's value in the place of the target (`rewrite.py:41`).  `ProxiesLeadBack` leaves that name out.
- Only a resource that is a subject in some graph of the data plane becomes a proxy URL (`rewrite.py:13`); a document that does not describe itself stays in the result under its own URI, which its comment (lines 10-12) rules out.
- A template may leave out the keyword WHERE, which SPARQL allows.  Authoring accepts it with parameters (`views/submission.py:103`), the engine refuses it with 422 once one is supplied, or, when a sub-select in the pattern has a WHERE of its own, binds inside that one (`bindings.py:101`).  `BindsInPlace` says so.
- A WHERE clause that is nothing but a sub-select (`WHERE { SELECT ... }`) is accepted with parameters as well, and every request that supplies one gets 422: a VALUES block in front of SELECT does not parse (`bindings.py:109-113`).
- A proxy URL is good only while the view still refers to its target: when the owner edits the document that makes the reference, following it gives 404, although the target is there (`engine.py:236-243`).  The other way round, what is checked is the result alone: a target that no document describes any more, and which a new page would not turn into a proxy URL (`rewrite.py:37-45`), can still be followed.
- Authoring looks for `?name` in the text (`views/submission.py:108`): a parameter in a comment or a string passes, `$name` alone does not.

Catalog:

- A Slug that names a view that exists overwrites it and answers 201 (`views/router.py:95`, `144`).
- A link to a view that was deleted is honoured again when the owner creates a view under the same id; `views/router.py:225-226` says the grant lists "the stale member in discovery without metadata until the owner reissues or revokes" it.
- The listings guard against subjects outside the container (`authentication/router.py:244-248`), not against a data-plane graph that types a URI inside it: that one becomes a member.  `DataAssumption` leaves such graphs out.
- The total of the statistics counts whatever is typed `pod:AccessLogEntry`, in the data plane too, since the state scope widens the dataset (`client.py:117-123` says that the engine's queries cannot tell).  `StatsBracketed` allows for it.
- A grant may link a URI that the engine's credential cannot read; discovery then fails as a whole with 502, although it "stays total" (`discovery.py:36-37`).  In the model links are views.
- The engine may read under `tokens/` but not the listing `tokens` itself (`authentication/router.py:45`).
- A query is in the state scope if its text matches the clause (`sparql/router.py:117`), in a comment as well.

Data plane:

- A container found empty may list a member by the time it is deleted (`ldp/router.py:723`; line 100: "A container that still holds members cannot be deleted").
- Two POSTs to one container each write back the listing they read, so one member may end up unlisted (`ldp/router.py:486`; line 200: "added to the container's `ldp:contains`").
- A PUT of a binary only looks for a binary (`ldp/router.py:427`), so it needs no `If-Match` over an RDF resource, which it hides; the same the other way round (lines 98-99: "a blind update is refused with 428").
- A client can make up a listing: `ldp:contains` in the body of a POSTed container is stored as it is (`ldp/router.py:482-483`), and in a plain graph it becomes the listing once a PUT makes the resource a container (380-383); lines 94-95: "server-managed".  `ContainmentManaged` and `ListedExist` allow for these two, by `claimed`, and for no third.
- A PUT that drops the container type keeps `ldp:contains` (366-383), and what is left can be deleted with the members it lists still there (713-715).
- A member minted for a container without a trailing slash has another parent than the container that lists it, and stays listed there after its DELETE (`ldp/containers.py:42`, `ldp/router.py:520`; line 215: "the parent container's listing is updated").
- A `Slug` always gets a suffix (`ldp/containers.py:50`); `ldp/router.py:200`: "honored when free".
- The ETag of a GET of a binary is taken in one `stream_binary`, the body in another (`ldp/router.py:284`); a write in between sends a body that is not the ETag's (line 186: "`ETag` identifies the stored representation").

- A POST stores the body of a new container as it is; what a PUT would have removed, foreign `ldp:contains` and membership triples, stays until the first PUT, even one that puts back what was read (`ldp/router.py:483` and `380-392`).  `RoundTrips` compares with the graph without them (`Stray`).
- A direct container whose membership resource is itself and whose relation is `ldp:contains` loses its listing with every PUT: line 390 removes what line 383 has just added.  `RoundTrips` leaves it out (`SelfMembership`).
- The answers of a PUT or POST of a container offer the methods of a plain document (`ldp/router.py:405`, `484`).
- Where a URI has both forms, GET takes the binary first (`ldp/router.py:336`), OPTIONS the graph (line 735).

Filesystem backend:

- A binary whose name ends in `.ttl` is a Turtle file to the backend: it can be read as RDF although no RDF was stored (`filesystem.py:80`; `backend.py:32`), and if it does not parse, the next start fails (`filesystem.py:72`; `README.md:43`: rotation is a restart).  `ImplementsStore` and `ReadsOnlyWritten` hold for names without such suffixes.
- The second DELETE of a container that has a directory on disk is answered 500: the directory counts as the binary, and `unlink` of it raises `IsADirectoryError`, which nobody catches (`filesystem.py:141-144`; `backend.py:53`: raises ResourceNotFound, which would be the 404).

Credentials and records:

- The access log is called immutable (`discovery.py:120`) and append-only (`stats.py:1`); `revoke_system` deletes entries of it (`EraseEntry`).
- The owner can cut the engine off "at any time by deleting" its record (`tokens_store.py:169-170`), and `revoke_token` says "every later validation finds nothing" (line 136); the next start seeds the record again (line 162).
- If one value is configured for both the owner and the engine, a request whose matched record is deleted between lookup and read is refused, or answered 502 by the engine, although the other record would admit it.  `RefusedWasDead` and `GatewayErrorsJustified` leave that configuration out.

## Not modelled

- HEAD and OPTIONS of the data plane: they change nothing and show what a GET shows.
- The SPARQL endpoint: a query is handed to rdflib and its result formatted; what there is to get right is the semantics of SPARQL.  Its scope clause is taken as given in `ViewCatalog` (what is read is the union of all graphs).
- Parsing and serialising RDF, content negotiation: functions of one text or header, without state, which a table of unit tests covers.
- The result of a query: whether it is empty, fails or is too large is a free choice in `ViewDelivery`, and a choice of resources by parameter values in `ViewTemplates`.
- The textual forms of parameter values (`viewmodel.py:110-126`): in the model a value passes the type check or does not.
- Token digests outside of the token records.  The lookup of `tokens_store.py:114-118` queries the union of all graphs, so a graph of the data plane in which the owner describes a subject with `pod:tokenHash` and a token type would take part in it; what is matched is then read back as a resource.  In `Credentials` only records under `tokens/` carry digests, so `OneKeyForTheOwner` is about those.
- Collisions of the random part of a minted name or token.
- Names that differ by a trailing slash and are both used as binaries; binaries below the metadata file of another one (in the proof of `BinariesKept`, in no run).
- The `Authorization` header, TLS checks, settings, routing, API documentation.
- The bundled application with `LDP_STATE_STORAGE_URL` set to another server: its engine half then works on the other server's records, as in a split deployment, with the credential that its own boot seeded here (`main.py:59-73`).
- The proxies, the testing client, the demo: no logic of the pod.
- Failing disks: a write that fails because a file is in the way is modelled, one that fails in the middle only as a stop.

## What comes next

1. Content negotiation and the response headers of the data plane, as tables.
2. Discovery with lost calls, and two views of one id over a deletion in `ViewDelivery`.
3. A listing property for threads that share containers: members may drop out, but which ones, and never to reappear.
