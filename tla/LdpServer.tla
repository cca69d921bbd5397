----------------------------- MODULE LdpServer -----------------------------
(***************************************************************************)
(* The owner's writes to the data plane: PUT, POST and DELETE              *)
(* (ldp_personal_store/ldp/router.py).                                     *)
(*                                                                         *)
(* The handlers run in a pool of threads (the Workers).  A handler is a    *)
(* chain of backend calls; each backend call is one hold of the backend    *)
(* lock and one action here, and between two of them any other handler may *)
(* run.  What a handler read in one call it still uses in a later one: the *)
(* stored graph of a PUT, the container or parent graph it writes back.    *)
(*                                                                         *)
(* An ETag is a digest of the whole graph or of the bytes, so the document *)
(* stands for its ETag.                                                    *)
(***************************************************************************)
EXTENDS LdpDocuments, FiniteSets

CONSTANTS
    Uris, Root, Parent, Mintable, InitialPods,   \* see LdpStore
    Reserved,      \* URIs under a reserved first segment (storage/system.py); the
                   \* data plane neither holds nor mints one
    Workers,       \* threads that run handlers
    Reach,         \* Reach[w]: the URIs the requests served by w are about
    Conditions,    \* the preconditions the owner sends with a PUT
    PutGraphs,     \* the RDF bodies the owner PUTs
    PostGraphs     \* the RDF bodies the owner POSTs

VARIABLES
    rdf, bin,      \* the store: RDF and binary resources
    pc,            \* where each worker is
    job,           \* the request it serves
    snap,          \* the graph it read and will use again
    member,        \* the member it is listing
    holder,        \* the container it lists the member in
    reply,         \* the status of its last response
    attached,      \* history: the <<container, member>> pairs a handler listed
    claimed,       \* history: the pairs a client's own body listed, stored as it came
    torn,          \* history: members whose DELETE stopped before the parent's update
    overtaken      \* history: workers whose target another one changed after their check

Graphs == [form : {"rdf"}, container : BOOLEAN, contains : SUBSET Uris, body : Bodies]
Blobs == [form : {"bin"}, container : {FALSE}, contains : {{}}, body : Bodies]
Docs == Graphs \cup Blobs \cup {Nothing}

(* The request headers that matter: neither precondition, If-Match: *,      *)
(* If-Match: <etag>, If-None-Match: *.                                      *)
Headers == {"none", "any", "etag", "create"}

ASSUME UrisAssumption ==
    /\ Root \in Uris
    /\ Parent \in [Uris -> Uris]
    /\ Mintable \in [Uris -> SUBSET Uris]
    /\ Bodies # {}

ASSUME RequestsAssumption ==
    /\ InitialPods \subseteq [Uris -> Graphs \cup {Nothing}]
    /\ Reach \in [Workers -> SUBSET Uris]
    /\ Conditions \subseteq Headers
    /\ PutGraphs \subseteq Graphs
    /\ PostGraphs \subseteq Graphs

Jobs == [method : {"PUT", "POST", "DELETE"}, uri : Uris, doc : Docs,
         cond : Headers, etag : Docs]
NoJob == [method |-> "DELETE", uri |-> Root, doc |-> Nothing, cond |-> "none", etag |-> Nothing]

store == <<rdf, bin>>
history == <<attached, claimed, torn>>
vars == <<rdf, bin, pc, job, snap, member, holder, reply, attached, claimed, torn, overtaken>>

AllIdle == \A w \in Workers : pc[w] = "idle"
Exists(u) == rdf[u] # Nothing \/ bin[u] # Nothing

----------------------------------------------------------------------------
(* Pure decisions *)

(* Definitions named ..._wrong are plausible mistakes, used by no           *)
(* specification: each property is shown to fail under one.  Here the bare  *)
(* update is not refused.                                                   *)
Admits_wrong(cond, etag, stored) ==
    CASE cond \in {"none", "create"} -> TRUE
      [] cond = "any" -> stored # Nothing
      [] cond = "etag" -> stored # Nothing /\ stored = etag

(* check_preconditions; the branches that refuse differ only in the status. *)
Admits(cond, etag, stored) ==
    CASE cond \in {"none", "create"} -> stored = Nothing
      [] cond = "any" -> stored # Nothing
      [] cond = "etag" -> stored # Nothing /\ stored = etag
Refusal(cond) == IF cond = "none" THEN "428" ELSE "412"

(* The PUT body offers a containment other than the stored one. *)
Tampers(doc, stored) ==
    stored.container /\ doc.contains # {} /\ doc.contains # stored.contains

(* The containment of the body is kept. *)
Merged_wrong(doc, stored) ==
    IF doc.form = "rdf" /\ (stored.container \/ doc.container)
    THEN [doc EXCEPT !.contains = @ \cup stored.contains]
    ELSE doc

(* The containment of the stored graph is not kept. *)
MergedForget_wrong(doc, stored) == IF doc.container THEN [doc EXCEPT !.contains = {}] ELSE doc

(* What a PUT stores: a container keeps the listing that was read.          *)
Merged(doc, stored) ==
    IF doc.form = "rdf" /\ (stored.container \/ doc.container)
    THEN [doc EXCEPT !.contains = stored.contains]
    ELSE doc

----------------------------------------------------------------------------
(* Worker bookkeeping *)

Goto(w, where) == pc' = [pc EXCEPT ![w] = where]

Answer(w, code) ==
    /\ Goto(w, "idle")
    /\ reply' = [reply EXCEPT ![w] = code]
    /\ job' = [job EXCEPT ![w] = NoJob]
    /\ snap' = [snap EXCEPT ![w] = Nothing]
    /\ member' = [member EXCEPT ![w] = Root]
    /\ holder' = [holder EXCEPT ![w] = Root]

Continue(w, where) == Goto(w, where) /\ UNCHANGED <<job, reply>>
Remember(w, graph) == snap' = [snap EXCEPT ![w] = graph]

(* A binary body goes through the graph as well. *)
StoreDoc_wrong(u, doc) == rdf' = [rdf EXCEPT ![u] = doc] /\ UNCHANGED bin

StoreDoc(u, doc) ==
    IF doc.form = "rdf"
    THEN rdf' = [rdf EXCEPT ![u] = doc] /\ UNCHANGED bin
    ELSE bin' = [bin EXCEPT ![u] = doc] /\ UNCHANGED rdf

(* What the body says the new resource lists is stored as it came. *)
Claim(u, doc) == claimed' = claimed \cup ({u} \X doc.contains)

(* A handler is picked up by a free thread.  An owner who sends an ETag     *)
(* sends the present one or one that is out of date.                        *)
Arrive(w) ==
    /\ pc[w] = "idle"
    /\ \E u \in Reach[w] :
          \/ \E doc \in PutGraphs \cup {Blob(b) : b \in Bodies}, cond \in Conditions :
                \E etag \in IF cond = "etag" THEN {rdf[u], bin[u], Nothing} ELSE {Nothing} :
                   /\ job' = [job EXCEPT ![w] = [method |-> "PUT", uri |-> u, doc |-> doc,
                                                 cond |-> cond, etag |-> etag]]
                   /\ Goto(w, "putCheck")
          \/ \E doc \in PostGraphs \cup {Blob(b) : b \in Bodies} :
                /\ job' = [job EXCEPT ![w] = [NoJob EXCEPT !.method = "POST", !.uri = u,
                                                           !.doc = doc]]
                /\ Goto(w, "postRead")
          \/ /\ job' = [job EXCEPT ![w] = [NoJob EXCEPT !.uri = u]]
             /\ Goto(w, "deleteCheck")
    /\ reply' = [reply EXCEPT ![w] = "none"]
    /\ UNCHANGED <<store, snap, member, holder, history>>

----------------------------------------------------------------------------
(* PUT: _put_rdf_resource and _put_binary_resource *)

(* Read what is stored in the same form, check the preconditions, parse the *)
(* body, refuse a changed containment.                                      *)
PutCheck(w) ==
    LET j == job[w]
        stored == IF j.doc.form = "rdf" THEN rdf[j.uri] ELSE bin[j.uri]
        admitted == Admits(j.cond, j.etag, stored)
    IN
    /\ pc[w] = "putCheck"
    /\ \/ ~admitted /\ Answer(w, Refusal(j.cond))
       \/ admitted /\ j.doc.form = "rdf" /\ Answer(w, "400")
       \/ admitted /\ Tampers(j.doc, stored) /\ Answer(w, "409")
       \/ /\ admitted /\ ~Tampers(j.doc, stored)
          /\ Continue(w, "putWrite")
          /\ Remember(w, stored)
          /\ UNCHANGED <<member, holder>>
    /\ UNCHANGED <<store, history>>

(* Write it, whatever is stored by now; only a PUT that found nothing goes *)
(* on to the parent.                                                       *)
PutWrite(w) ==
    LET j == job[w] IN
    /\ pc[w] = "putWrite"
    /\ \/ j.uri \in Reserved /\ Answer(w, "403") /\ UNCHANGED <<store, claimed>>
       \/ /\ j.uri \notin Reserved
          /\ StoreDoc(j.uri, Merged(j.doc, snap[w]))
          /\ IF snap[w].container \/ j.doc.container THEN UNCHANGED claimed
                                                     ELSE Claim(j.uri, j.doc)
          /\ \/ snap[w] # Nothing /\ Answer(w, "200")
             \/ snap[w] = Nothing /\ Parent[j.uri] = j.uri /\ Answer(w, "201")
             \/ /\ snap[w] = Nothing /\ Parent[j.uri] # j.uri
                /\ Continue(w, "attachRead")
                /\ member' = [member EXCEPT ![w] = j.uri]
                /\ holder' = [holder EXCEPT ![w] = Parent[j.uri]]
                /\ UNCHANGED snap
    /\ UNCHANGED <<attached, torn>>

(* _attach_to_parent: a parent that is missing or no container is left so.  *)
AttachRead(w) ==
    /\ pc[w] = "attachRead"
    /\ IF rdf[holder[w]].container
       THEN Continue(w, "listWrite") /\ Remember(w, rdf[holder[w]]) /\ UNCHANGED <<member, holder>>
       ELSE Answer(w, "201")
    /\ UNCHANGED <<store, history>>

(* Write back the container graph that was read, with the new member. *)
ListWrite(w) ==
    /\ pc[w] = "listWrite"
    /\ rdf' = [rdf EXCEPT ![holder[w]] = [snap[w] EXCEPT !.contains = @ \cup {member[w]}]]
    /\ attached' = attached \cup {<<holder[w], member[w]>>}
    /\ Answer(w, "201")
    /\ torn' = torn \ {member[w]}
    /\ UNCHANGED <<bin, claimed>>
----------------------------------------------------------------------------
(* POST: _post_member *)

PostRead(w) ==
    LET c == job[w].uri IN
    /\ pc[w] = "postRead"
    /\ \/ rdf[c] = Nothing /\ Answer(w, "404")
       \/ rdf[c] # Nothing /\ ~rdf[c].container /\ Answer(w, "405")
       \/ /\ rdf[c].container
          /\ Continue(w, "postWrite")
          /\ Remember(w, rdf[c])
          /\ UNCHANGED <<member, holder>>
    /\ UNCHANGED <<store, history>>

(* A name nobody else has: the URI ends in a fresh random segment. *)
Fresh(m) ==
    /\ ~Exists(m)
    /\ \A u \in Uris : m \notin rdf[u].contains
    /\ \A w \in Workers : pc[w] # "idle" => /\ job[w].uri # m /\ member[w] # m
                                            /\ m \notin snap[w].contains

(* The body is stored as it came.  When the pool of names is used up (a     *)
(* bound of the model) the request is given up.                             *)
PostWrite(w) ==
    LET j == job[w] IN
    /\ pc[w] = "postWrite"
    /\ \/ j.doc.form = "rdf" /\ Answer(w, "400") /\ UNCHANGED <<store, claimed>>
       \/ /\ \A m \in Mintable[j.uri] : ~Fresh(m)
          /\ Answer(w, "none")
          /\ UNCHANGED <<store, claimed>>
       \/ \E m \in Mintable[j.uri] :
             /\ Fresh(m)
             /\ StoreDoc(m, j.doc)
             /\ Claim(m, j.doc)
             /\ member' = [member EXCEPT ![w] = m]
             /\ holder' = [holder EXCEPT ![w] = j.uri]
             /\ Continue(w, "listWrite")
             /\ UNCHANGED snap
    /\ UNCHANGED <<attached, torn>>

----------------------------------------------------------------------------
(* DELETE: delete_resource *)

(* Members are not looked for. *)
DeleteCheck_wrong(w) ==
    /\ pc[w] = "deleteCheck"
    /\ Continue(w, "deleteApply")
    /\ UNCHANGED <<store, snap, member, holder, history>>

DeleteCheck(w) ==
    LET target == rdf[job[w].uri] IN
    /\ pc[w] = "deleteCheck"
    /\ \/ target.container /\ target.contains # {} /\ Answer(w, "409")
       \/ /\ target.container => target.contains = {}
          /\ Continue(w, "deleteApply")
          /\ UNCHANGED <<snap, member, holder>>
    /\ UNCHANGED <<store, history>>

(* backend.delete: the RDF resource goes first, else the binary.  The       *)
(* directory of a container that is gone is taken for a binary, and cannot *)
(* be unlinked: an uncaught error.                                          *)
DeleteApply(w) ==
    LET u == job[w].uri IN
    /\ pc[w] = "deleteApply"
    /\ \/ u \in Reserved /\ Answer(w, "403") /\ UNCHANGED store
       \/ u \notin Reserved /\ ~Exists(u) /\ Answer(w, "404") /\ UNCHANGED store
       \/ /\ u \notin Reserved /\ ~Exists(u)
          /\ \E m \in Uris \ {u} : Parent[m] = u
          /\ Answer(w, "500")
          /\ UNCHANGED store
       \/ /\ u \notin Reserved /\ Exists(u)
          /\ IF rdf[u] # Nothing
             THEN rdf' = [rdf EXCEPT ![u] = Nothing] /\ UNCHANGED bin
             ELSE bin' = [bin EXCEPT ![u] = Nothing] /\ UNCHANGED rdf
          /\ \/ Parent[u] = u /\ Answer(w, "204")
             \/ /\ Parent[u] # u
                /\ Continue(w, "detachRead")
                /\ UNCHANGED <<snap, member, holder>>
    /\ UNCHANGED history

DetachRead(w) ==
    LET parent == rdf[Parent[job[w].uri]] IN
    /\ pc[w] = "detachRead"
    /\ IF parent = Nothing
       THEN Answer(w, "204")
       ELSE Continue(w, "detachWrite") /\ Remember(w, parent) /\ UNCHANGED <<member, holder>>
    /\ UNCHANGED <<store, history>>

(* The wrong member is dropped. *)
DetachWrite_wrong(w) ==
    LET u == job[w].uri IN
    /\ pc[w] = "detachWrite"
    /\ rdf' = [rdf EXCEPT ![Parent[u]] = [snap[w] EXCEPT !.contains = @ \ {member[w]}]]
    /\ torn' = torn \ {u}
    /\ Answer(w, "204")
    /\ UNCHANGED <<bin, attached, claimed>>

DetachWrite(w) ==
    LET u == job[w].uri IN
    /\ pc[w] = "detachWrite"
    /\ rdf' = [rdf EXCEPT ![Parent[u]] = [snap[w] EXCEPT !.contains = @ \ {u}]]
    /\ torn' = torn \ {u}
    /\ Answer(w, "204")
    /\ UNCHANGED <<bin, attached, claimed>>

----------------------------------------------------------------------------
(* The process stops, with whatever its threads were doing, and starts     *)
(* again: init_root_container seeds the root when it is missing.           *)
Restart ==
    /\ pc' = [w \in Workers |-> "idle"]
    /\ job' = [w \in Workers |-> NoJob]
    /\ snap' = [w \in Workers |-> Nothing]
    /\ member' = [w \in Workers |-> Root]
    /\ holder' = [w \in Workers |-> Root]
    /\ reply' = [w \in Workers |-> "none"]
    /\ rdf' = IF rdf[Root] = Nothing THEN [rdf EXCEPT ![Root] = EmptyRoot] ELSE rdf
    /\ torn' = torn \cup {job[w].uri : w \in {x \in Workers :
                                                 pc[x] \in {"detachRead", "detachWrite"}}}
    /\ UNCHANGED <<bin, attached, claimed>>

Init ==
    /\ rdf \in InitialPods
    /\ bin = [u \in Uris |-> Nothing]
    /\ pc = [w \in Workers |-> "idle"]
    /\ job = [w \in Workers |-> NoJob]
    /\ snap = [w \in Workers |-> Nothing]
    /\ member = [w \in Workers |-> Root]
    /\ holder = [w \in Workers |-> Root]
    /\ reply = [w \in Workers |-> "none"]
    /\ attached = {p \in Uris \X Uris : p[2] \in rdf[p[1]].contains}
    /\ claimed = {}
    /\ torn = {}
    /\ overtaken = {}

Put(w) == PutCheck(w) \/ PutWrite(w) \/ AttachRead(w)
Post(w) == PostRead(w) \/ PostWrite(w)
Delete(w) == DeleteCheck(w) \/ DeleteApply(w) \/ DetachRead(w) \/ DetachWrite(w)
Serve(w) == Arrive(w) \/ Put(w) \/ Post(w) \/ ListWrite(w) \/ Delete(w)

(* Who decided on something that another thread has changed since. *)
Target(w) == IF job[w].doc.form = "bin" THEN bin[job[w].uri] ELSE rdf[job[w].uri]
Overtakes ==
    overtaken' = {w \in Workers : /\ pc[w] \in {"putWrite", "deleteApply"} /\ pc'[w] = pc[w]
                                  /\ w \in overtaken \/ Target(w)' # Target(w)}

Next == ((\E w \in Workers : Serve(w)) \/ Restart) /\ Overtakes
Spec == Init /\ [][Next]_vars

(* A server that is never stopped in the middle of a request. *)
OrderlyNext == ((\E w \in Workers : Serve(w)) \/ (AllIdle /\ Restart)) /\ Overtakes
OrderlySpec == Init /\ [][OrderlyNext]_vars

----------------------------------------------------------------------------
(* Properties *)

TypeOK ==
    /\ rdf \in [Uris -> Graphs \cup {Nothing}]
    /\ bin \in [Uris -> Blobs \cup {Nothing}]
    /\ pc \in [Workers -> {"idle", "putCheck", "putWrite", "attachRead", "listWrite", "postRead",
                           "postWrite", "deleteCheck", "deleteApply", "detachRead", "detachWrite"}]
    /\ job \in [Workers -> Jobs]
    /\ snap \in [Workers -> Docs]
    /\ member \in [Workers -> Uris]
    /\ holder \in [Workers -> Uris]
    /\ reply \in [Workers -> {"none", "200", "201", "204", "400", "403", "404", "405",
                              "409", "412", "428", "500"}]
    /\ attached \subseteq Uris \X Uris
    /\ claimed \subseteq Uris \X Uris
    /\ torn \subseteq Uris
    /\ overtaken \subseteq Workers

(* The store as it will be when the parent updates under way are through.   *)
Joining(c) == {member[w] : w \in {x \in Workers :
                  /\ holder[x] = c
                  /\ pc[x] = "listWrite" \/ (pc[x] = "attachRead" /\ rdf[c].container)}}
Leaving(c) == {job[w].uri : w \in {x \in Workers :
                  pc[x] \in {"detachRead", "detachWrite"} /\ Parent[job[x].uri] = c}}
Completed == [u \in Uris |->
                IF rdf[u] = Nothing THEN Nothing
                ELSE [rdf[u] EXCEPT !.contains = (@ \cup Joining(u)) \ Leaving(u)]]
Abstract == INSTANCE LdpStore WITH graphs <- Completed, blobs <- bin

(* When requests do not share resources or parents, each write takes effect *)
(* at once together with its parent's listing, however the calls of the     *)
(* handlers interleave.                                                     *)
ImplementsStore == Abstract!Spec

(* check_preconditions: "An update (a PUT over an existing resource) must   *)
(* carry If-Match, so a blind overwrite cannot clobber a concurrent         *)
(* change": what a PUT overwrites is what its precondition admits.          *)
NothingClobbered ==
    [][\A w \in Workers :
          LET j == job[w]
              stored == IF j.doc.form = "rdf" THEN rdf[j.uri] ELSE bin[j.uri]
          IN  PutWrite(w) /\ j.uri \notin Reserved =>
                 /\ stored # Nothing => j.cond \in {"any", "etag"}
                 /\ j.cond = "any" => stored # Nothing
                 /\ j.cond = "etag" => stored = j.etag]_vars

(* The write constraints: "A container that still holds members cannot be   *)
(* deleted until it is emptied".                                            *)
NonEmptyKept ==
    [][\A c \in Uris : rdf[c].container /\ rdf[c].contains # {} => rdf'[c] # Nothing]_vars

(* A container forgets a member only when that member is being deleted      *)
(* (POST: the member is "added to the container's ldp:contains").           *)
OnlyDeletedForgotten ==
    [][\A c, m \in Uris :
          m \in rdf[c].contains /\ rdf'[c].container /\ m \notin rdf'[c].contains
             => \E w \in Workers : pc[w] = "detachWrite" /\ job[w].uri = m]_vars

(* The write constraints: "Containment triples (ldp:contains) are server-   *)
(* managed".  That holds for what is a container when it is written: what   *)
(* it lists was listed by a handler, or was in the body of the POST that    *)
(* made it, or of a PUT from the time it was a plain resource.              *)
ContainmentManaged ==
    \A c, m \in Uris : rdf[c].container /\ m \in rdf[c].contains =>
        <<c, m>> \in attached \cup claimed

(* A server that stops in the middle of a request may leave a member        *)
(* unlisted, but what a container lists exists, unless a DELETE of it was   *)
(* cut short, or a client's own body listed it.                             *)
ListedExist ==
    \A c, m \in Uris : rdf[c].container /\ m \in rdf[c].contains =>
        \/ Exists(m) \/ m \in torn \/ <<c, m>> \in claimed
        \/ \E w \in Workers : pc[w] \in {"detachRead", "detachWrite"} /\ job[w].uri = m
=============================================================================
