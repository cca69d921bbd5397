----------------------------- MODULE ViewCatalog -----------------------------
(***************************************************************************)
(* The owner's catalog under .system/ - view definitions, grants, policies *)
(* and the access log - and those who read it: the container listings      *)
(* (authentication/router.py), a consumer's discovery (discovery.py) and   *)
(* the owner's statistics (stats.py).                                      *)
(*                                                                         *)
(* Storage keeps no list of its records.  A listing is a query over the    *)
(* union of all graphs, those of the data plane included, for the subjects *)
(* of a type, so it is right only while no graph says anything about       *)
(* another record.  Discovery and statistics are chains of calls; the      *)
(* owner and the deliveries write between them.  One request is under way  *)
(* at a time (readers do not affect one another), no call of it is lost    *)
(* (ViewDelivery loses them), and of the token records only the grants are *)
(* kept: those of the admin and the engine are on every tokens/ listing.   *)
(***************************************************************************)
EXTENDS Naturals, FiniteSets, Functions

CONSTANTS
    Ids,         \* view ids
    SlugIds,     \* those a Slug header can name; the others are random
    Grants,      \* record ids of grants
    Entries,     \* record ids of log entries
    Notes,       \* names of resources of the data plane
    Defs,        \* view definitions: title, description, parameters
    LinkSets,    \* the sets of views the owner issues grants for
    Asides,      \* what a submitted body may say besides its own subject
    DataGraphs,  \* what the graph of a resource of the data plane may say
    Absent

VARIABLES
    views,       \* the definition at each id
    grants,      \* the token records of the grants
    policies,    \* the grants that have a policy record
    log,         \* the access log
    said,        \* the <<subject, type>> statements of each graph
    engine,      \* does storage know the engine's credential
    reader,      \* the engine's request that is under way
    seen,        \* history: the definitions each id had during that request
    steady,      \* history: what was typed as a log entry all through it
    ever,        \* history: what was typed as a log entry at any time of it
    lapses       \* history: what was taken away during it

records == <<views, grants, policies, log, said, engine>>
history == <<seen, steady, ever, lapses>>
vars == <<views, grants, policies, log, said, engine, reader, seen, steady, ever, lapses>>

Types == {"View", "Token", "Policy", "AccessLogEntry"}

(* A URI is a container and a name in it. *)
ViewUri(i) == <<"views", i>>
TokenUri(g) == <<"tokens", g>>
PolicyUri(g) == <<"policies", g>>
EntryUri(e) == <<"access-log", e>>
Uris == ({"views"} \X Ids) \cup ({"tokens", "policies"} \X Grants)
           \cup ({"access-log"} \X Entries) \cup ({"data"} \X Notes)
Statements == Uris \X Types

ASSUME CatalogAssumption ==
    /\ Ids # {} /\ Grants # {}
    /\ SlugIds \subseteq Ids
    /\ LinkSets \subseteq SUBSET Ids
    /\ Absent \notin Defs
    /\ Asides \subseteq SUBSET Statements
    /\ \A S \in {Ids, Grants, Entries, Notes} : IsFiniteSet(S)

(* The data plane may use the pod's types, but of its own resources only   *)
(* (see the README for what happens otherwise).                            *)
ASSUME DataAssumption == DataGraphs \subseteq SUBSET (({"data"} \X Notes) \X Types)

GrantRecords == [status : {"unissued", "live", "revoked"}, links : LinkSets \cup {{}}]
LogRecords == [status : {"unused", "kept", "erased"}, view : Ids, token : Grants]
Kept == {e \in Entries : log[e].status = "kept"}

Idle == [kind |-> "none", at |-> "idle", grant |-> CHOOSE g \in Grants : TRUE, todo |-> {},
         listed |-> {}, described |-> [i \in Ids |-> Absent], total |-> 0,
         byView |-> [i \in Ids |-> 0], byToken |-> [g \in Grants |-> 0], answer |-> "none"]

----------------------------------------------------------------------------
(* What is stored *)

(* Body triples are stored as they came. *)
Canonical_wrong(uri, type, asides) == {<<uri, type>>} \cup asides

(* to_view_graph, _write_record, write_policy and append_access_log write   *)
(* a graph of their own about the one subject.                              *)
Canonical(uri, type, asides) == {<<uri, type>>}

Store(uri, type, asides) == said' = [said EXCEPT ![uri] = Canonical(uri, type, asides)]
Erase(uri) == said' = [said EXCEPT ![uri] = {}]

(* The subjects of a type, in any graph. *)
TypedAs(type) == {s \in Uris : \E u \in Uris : <<s, type>> \in said[u]}

(* The container's subtree: policies/ is below tokens/. *)
Below(container) == IF container = "tokens" THEN {"tokens", "policies"} ELSE {container}
TypeIn == [views |-> "View", tokens |-> "Token", policies |-> "Policy",
           access_log |-> "AccessLogEntry"]

(* _synthesize_container: subjects of the type, wherever it is stated, that *)
(* are in the container's subtree.                                          *)
Listing(key) ==
    LET container == IF key = "access_log" THEN "access-log" ELSE key
    IN  {s \in TypedAs(TypeIn[key]) : s[1] \in Below(container)}

----------------------------------------------------------------------------
(* The owner *)

(* _submission_or_422: a second subject of the type is refused. *)
OneSubject(type, asides) == \A s \in asides : s[2] # type

(* _mint_view_id: the Slug as it is, taken or not; else a random id. *)
Untouched(i) ==
    /\ views[i] = Absent
    /\ \A g \in Grants : i \notin grants[g].links
    /\ \A e \in Entries : log[e].status # "unused" => log[e].view # i
Mintable(i) == i \in SlugIds \/ Untouched(i)

WriteView(i) ==
    /\ \E d \in Defs : views' = [views EXCEPT ![i] = d]
    /\ \E asides \in Asides : OneSubject("View", asides) /\ Store(ViewUri(i), "View", asides)
    /\ UNCHANGED <<grants, policies, log, engine, reader>>

CreateView(i) == Mintable(i) /\ WriteView(i)
(* replace_view; whether the id was taken decides on 200 or 201 only. *)
ReplaceView(i) == WriteView(i)

DeleteView(i) ==
    /\ views[i] # Absent
    /\ views' = [views EXCEPT ![i] = Absent]
    /\ Erase(ViewUri(i))
    /\ UNCHANGED <<grants, policies, log, engine, reader>>

(* issue_grant: the links are taken as they are, the views need not exist. *)
IssueGrant(g) ==
    /\ grants[g].status = "unissued"
    /\ \E links \in LinkSets : grants' = [grants EXCEPT ![g] = [status |-> "live", links |-> links]]
    /\ \E asides \in Asides : Store(TokenUri(g), "Token", asides)
    /\ UNCHANGED <<views, policies, log, engine, reader>>

WritePolicy(g) ==
    /\ policies' = policies \cup {g}
    /\ \E asides \in Asides : OneSubject("Policy", asides) /\ Store(PolicyUri(g), "Policy", asides)
    /\ UNCHANGED <<views, grants, log, engine, reader>>

(* revoke_system on the three kinds of record that are not views. *)
RevokeGrant(g) ==
    /\ grants[g].status = "live"
    /\ grants' = [grants EXCEPT ![g].status = "revoked"]
    /\ Erase(TokenUri(g))
    /\ UNCHANGED <<views, policies, log, engine, reader>>

DropPolicy(g) ==
    /\ g \in policies
    /\ policies' = policies \ {g}
    /\ Erase(PolicyUri(g))
    /\ UNCHANGED <<views, grants, log, engine, reader>>

EraseEntry(e) ==
    /\ log[e].status = "kept"
    /\ log' = [log EXCEPT ![e].status = "erased"]
    /\ Erase(EntryUri(e))
    /\ UNCHANGED <<views, grants, policies, engine, reader>>

(* A PUT to the data plane keeps what the body says. *)
WriteNote(n) ==
    /\ \E graph \in DataGraphs : said' = [said EXCEPT ![<<"data", n>>] = graph]
    /\ UNCHANGED <<views, grants, policies, log, engine, reader>>

RevokeEngine ==
    /\ engine /\ engine' = FALSE
    /\ UNCHANGED <<views, grants, policies, log, said, reader>>
Boot ==
    /\ ~engine /\ engine' = TRUE
    /\ UNCHANGED <<views, grants, policies, log, said, reader>>

(* append_access_log: statements about other subjects are refused. *)
AppendEntry(e) ==
    /\ engine
    /\ log[e].status = "unused"
    /\ \E i \in Ids, g \in Grants :
          /\ grants[g].status # "unissued"
          /\ log' = [log EXCEPT ![e] = [status |-> "kept", view |-> i, token |-> g]]
    /\ \E asides \in Asides :
          /\ \A s \in asides : s[1] = EntryUri(e)
          /\ Store(EntryUri(e), "AccessLogEntry", asides)
    /\ UNCHANGED <<views, grants, policies, engine, reader>>

----------------------------------------------------------------------------
(* The two readers.  Discovery presents the secret of a grant, statistics  *)
(* the admin's, whose record is always there.                              *)

Proceed(changes) == reader' = changes /\ UNCHANGED records
Answer(code) == Proceed([reader EXCEPT !.at = "done", !.todo = {}, !.answer = code])
Calling(step) == reader.at = step /\ engine

StartDiscovery(g) ==
    /\ reader.at = "idle"
    /\ grants[g].status # "unissued"
    /\ Proceed([Idle EXCEPT !.kind = "discovery", !.at = "lookup", !.grant = g])

StartStats ==
    /\ reader.at = "idle"
    /\ Proceed([Idle EXCEPT !.kind = "stats", !.at = "lookup"])

(* validate_via_storage, its two calls. *)
Known == reader.kind = "stats" \/ grants[reader.grant].status = "live"

LookUpToken ==
    /\ Calling("lookup")
    /\ IF Known THEN Proceed([reader EXCEPT !.at = "record"]) ELSE Answer("401")

ReadToken ==
    /\ Calling("record")
    /\ IF ~Known THEN Answer("401")
       ELSE IF reader.kind = "stats" THEN Proceed([reader EXCEPT !.at = "total"])
       ELSE Proceed([reader EXCEPT !.at = "walk", !.todo = grants[reader.grant].links])

(* A missing record fails the request. *)
Describe_wrong(i) ==
    /\ Calling("walk") /\ i \in reader.todo
    /\ IF views[i] = Absent
       THEN Answer("500")
       ELSE Proceed([reader EXCEPT !.todo = @ \ {i}, !.listed = @ \cup {i},
                                   !.described[i] = views[i]])

(* One read per linked view; one whose record is gone is listed without    *)
(* metadata.                                                               *)
Describe(i) ==
    /\ Calling("walk") /\ i \in reader.todo
    /\ Proceed([reader EXCEPT !.todo = @ \ {i}, !.listed = @ \cup {i}, !.described[i] = views[i]])

AnswerDiscovery == reader.at = "walk" /\ reader.todo = {} /\ Answer("200")

----------------------------------------------------------------------------
(* Statistics: compute_stats, three queries.  The first one counts whatever *)
(* is typed as an entry; the other two need the entry's properties, which  *)
(* no resource of the data plane has.                                      *)
CountAll ==
    /\ Calling("total")
    /\ Proceed([reader EXCEPT !.at = "byView", !.total = Cardinality(TypedAs("AccessLogEntry"))])

(* Entries of deleted views are not counted. *)
CountByView_wrong ==
    /\ Calling("byView")
    /\ Proceed([reader EXCEPT !.at = "byToken",
                  !.byView = [i \in Ids |-> Cardinality({e \in Kept : /\ log[e].view = i
                                                                      /\ views[i] # Absent})]])

CountByView ==
    /\ Calling("byView")
    /\ Proceed([reader EXCEPT !.at = "byToken",
                  !.byView = [i \in Ids |-> Cardinality({e \in Kept : log[e].view = i})]])

CountByToken ==
    /\ Calling("byToken")
    /\ Proceed([reader EXCEPT !.at = "done", !.answer = "200",
                  !.byToken = [g \in Grants |-> Cardinality({e \in Kept : log[e].token = g})]])

(* Storage refuses the engine's credential. *)
CredentialRefused ==
    /\ ~engine
    /\ reader.at \in {"lookup", "record", "total", "byView", "byToken"}
          \/ (reader.at = "walk" /\ reader.todo # {})
    /\ Answer("502")

(* The answer is out; the next request may come.  Nothing else is made to   *)
(* happen between the last call of a request and its answer: it would not  *)
(* show in it.                                                             *)
Finish == reader.at = "done" /\ Proceed(Idle)

----------------------------------------------------------------------------
Owner ==
    \/ \E i \in Ids : CreateView(i) \/ ReplaceView(i) \/ DeleteView(i)
    \/ \E g \in Grants : IssueGrant(g) \/ WritePolicy(g) \/ RevokeGrant(g) \/ DropPolicy(g)
    \/ \E e \in Entries : EraseEntry(e)
    \/ \E n \in Notes : WriteNote(n)
    \/ RevokeEngine \/ Boot
Discover ==
    \/ \E g \in Grants : StartDiscovery(g)
    \/ LookUpToken \/ ReadToken \/ AnswerDiscovery
    \/ \E i \in Ids : Describe(i)
Survey == StartStats \/ CountAll \/ CountByView \/ CountByToken

(* The history of the request, begun with it and kept until it is done:    *)
(* what it could have seen, and what was taken away meanwhile.             *)
Logged == TypedAs("AccessLogEntry")
Lapses == {IF engine' THEN "none" ELSE "engine",
           IF Known' THEN "none" ELSE "grant",
           IF reader.kind # "stats" \/ Kept \subseteq Kept' THEN "none" ELSE "entry"} \ {"none"}
Forget ==
    /\ seen' = [i \in Ids |-> {}]
    /\ steady' = {} /\ ever' = {} /\ lapses' = {}
Begin ==
    IF reader'.kind = "stats"
    THEN steady' = Logged' /\ ever' = Logged' /\ UNCHANGED <<seen, lapses>>
    ELSE seen' = [i \in Ids |-> {views'[i]}] /\ lapses' = Lapses /\ UNCHANGED <<steady, ever>>
Remember ==
    /\ lapses' = lapses \cup Lapses
    /\ IF reader.kind = "stats"
       THEN steady' = steady \cap Logged' /\ ever' = ever \cup Logged' /\ UNCHANGED seen
       ELSE /\ seen' = [i \in Ids |-> seen[i] \cup {views'[i]}]
            /\ UNCHANGED <<steady, ever>>

Watch ==
    \/ reader'.at = "idle" /\ Forget
    \/ reader.at = "idle" /\ reader'.at # "idle" /\ Begin
    \/ reader.at # "idle" /\ reader'.at # "idle" /\ Remember

Init ==
    /\ views = [i \in Ids |-> Absent]
    /\ grants = [g \in Grants |-> [status |-> "unissued", links |-> {}]]
    /\ policies = {}
    /\ log = [e \in Entries |-> [status |-> "unused", view |-> CHOOSE i \in Ids : TRUE,
                                 token |-> CHOOSE g \in Grants : TRUE]]
    /\ said = [u \in Uris |-> {}]
    /\ engine = TRUE
    /\ reader = Idle
    /\ seen = [i \in Ids |-> {}] /\ steady = {} /\ ever = {} /\ lapses = {}

Work == Owner \/ (\E e \in Entries : AppendEntry(e)) \/ Discover \/ Survey \/ CredentialRefused
Next == ((reader.at # "done" /\ Work) \/ Finish) /\ Watch
Spec == Init /\ [][Next]_vars

----------------------------------------------------------------------------
(* Properties *)

Steps == {"idle", "lookup", "record", "walk", "total", "byView", "byToken", "done"}
Readers == [kind : {"none", "discovery", "stats"}, at : Steps, grant : Grants,
            todo : SUBSET Ids, listed : SUBSET Ids, described : [Ids -> Defs \cup {Absent}],
            total : Nat, byView : [Ids -> Nat], byToken : [Grants -> Nat],
            answer : {"none", "200", "401", "502"}]

TypeOK ==
    /\ views \in [Ids -> Defs \cup {Absent}]
    /\ grants \in [Grants -> GrantRecords]
    /\ policies \subseteq Grants
    /\ log \in [Entries -> LogRecords]
    /\ said \in [Uris -> SUBSET Statements]
    /\ engine \in BOOLEAN
    /\ reader \in Readers
    /\ seen \in [Ids -> SUBSET (Defs \cup {Absent})]
    /\ steady \subseteq ever /\ ever \subseteq Uris
    /\ lapses \subseteq {"engine", "grant", "entry"}

(* The listings are "always current with no persisted container state"     *)
(* (authentication/router.py:47-49): whatever the bodies of the owner's    *)
(* writes said besides, and whatever types the data plane uses, each is    *)
(* exactly the records of its kind that exist; the one of tokens/ has no   *)
(* policy in it, nor the one of tokens/policies/ a token.                  *)
ListingExact ==
    /\ Listing("views") = {ViewUri(i) : i \in {j \in Ids : views[j] # Absent}}
    /\ Listing("tokens") = {TokenUri(g) : g \in {h \in Grants : grants[h].status = "live"}}
    /\ Listing("policies") = {PolicyUri(g) : g \in policies}
    /\ Listing("access_log") = {EntryUri(e) : e \in Kept}

(* "Discovery stays total" (discovery.py:36-37): whatever the owner writes *)
(* or deletes between its calls, it lists every view the grant links, each *)
(* with a definition the id had during the request, or bare when the id    *)
(* had none; and it fails only when the grant or the engine's credential   *)
(* was taken away.                                                         *)
DiscoveryTotal ==
    reader.kind = "discovery" /\ reader.at = "done" =>
        /\ reader.answer \in {"200", "401", "502"}
        /\ reader.answer = "200" =>
              /\ reader.listed = grants[reader.grant].links
              /\ \A i \in reader.listed : reader.described[i] \in seen[i]
        /\ reader.answer = "401" => "grant" \in lapses
        /\ reader.answer = "502" => "engine" \in lapses

(* The three counts of the statistics are taken at different moments.  Each *)
(* lies between what was there all through the request and what was there  *)
(* at any time of it, and while nothing is erased the later breakdowns     *)
(* never add up to less than the earlier ones: the owner sees no delivery  *)
(* that is missing from them. (stats.compute_stats)                        *)
Sum(f) == FoldFunction(+, 0, f)
OnLog(uris, P(_)) == Cardinality({e \in Entries : EntryUri(e) \in uris /\ P(log[e])})
StatsBracketed ==
    reader.kind = "stats" /\ reader.answer = "200" =>
        /\ Cardinality(steady) <= reader.total
        /\ reader.total <= Cardinality(ever)
        /\ \A i \in Ids : LET Of(entry) == entry.view = i
                          IN OnLog(steady, Of) <= reader.byView[i] /\ reader.byView[i] <= OnLog(ever, Of)
        /\ \A g \in Grants : LET Of(entry) == entry.token = g
                             IN OnLog(steady, Of) <= reader.byToken[g] /\ reader.byToken[g] <= OnLog(ever, Of)
        /\ "entry" \notin lapses =>
              /\ reader.total <= Sum(reader.byView) + Cardinality({u \in ever : u[1] = "data"})
              /\ Sum(reader.byView) <= Sum(reader.byToken)
=============================================================================
