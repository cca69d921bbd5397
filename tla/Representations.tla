--------------------------- MODULE Representations ---------------------------
(***************************************************************************)
(* What a client sees of a container and what the server keeps of what it  *)
(* puts back.  A GET synthesizes types and membership triples, a Prefer    *)
(* header leaves some of them out, and a PUT takes out of the body what    *)
(* the server derives: the stored graph, its representations and a copy    *)
(* that is put back all differ.  LdpServer keeps of a graph only what it   *)
(* lists; here it is a set of triples.                                     *)
(***************************************************************************)
EXTENDS FiniteSets

CONSTANTS Self,         \* the container
          Other,        \* another resource, which may carry the membership
          Members,      \* what POSTs and PUTs below the container create
          Notes         \* sets of other triples that a client may add

(* What a container says of its membership.                                *)
Declarations == {"membershipResource", "hasMemberRelation", "isMemberOfRelation"}
PlainNotes ==
    \A notes \in Notes : \A t \in notes :
        t = <<t[1], t[2], t[3]>> /\ (t[1] = Self => t[2] \notin Declarations)

VARIABLE stored     \* the graph of Self, as the backend holds it

-----------------------------------------------------------------------------
About(graph, p) == {t[3] : t \in {u \in graph : u[1] = Self /\ u[2] = p}}
Listed(graph) == About(graph, "contains")
Listing(members) == {<<Self, "contains", m>> : m \in members}

(* container_kind *)
IsContainer(graph) == About(graph, "type") \cap {"BasicContainer", "DirectContainer"} # {}

(* The membership triples of a GET, by one relation or the other.          *)
Forward(graph) ==
    {<<r, p, m>> : r \in About(graph, "membershipResource"),
                   p \in About(graph, "hasMemberRelation"), m \in Listed(graph)}
Backward(graph) ==
    {<<m, p, r>> : r \in About(graph, "membershipResource"),
                   p \in About(graph, "isMemberOfRelation"), m \in Listed(graph)}
Membership(graph) ==
    IF About(graph, "hasMemberRelation") # {} THEN Forward(graph) ELSE Backward(graph)

(* container_prefer: what the include and omit parameters ask for.         *)
Aspects == {"containment", "membership"}
Preferences == [include : SUBSET (Aspects \cup {"minimal"}), omit : SUBSET Aspects]
Wants(prefer, aspect) ==
    IF "minimal" \in prefer.include THEN aspect \in prefer.include
    ELSE aspect \notin prefer.omit

Types == {<<Self, "type", k>> : k \in {"Resource", "RDFSource", "Container"}}

(* _get_rdf_resource and _container_representation                         *)
Represented(graph, prefer) ==
    IF ~IsContainer(graph) THEN graph
    ELSE (IF Wants(prefer, "containment") THEN graph ELSE graph \ Listing(Listed(graph)))
         \cup Types
         \cup (IF Wants(prefer, "membership") THEN Membership(graph) ELSE {})

Copies(graph) == {Represented(graph, prefer) : prefer \in Preferences}

(* The body offers containment, and not that of the stored container: 409. *)
Tampers(graph, body) ==
    IsContainer(graph) /\ Listed(body) # {} /\ Listed(body) # Listed(graph)

(* The triples that graph's own declarations make the server's to derive,  *)
(* by either relation.                                                     *)
Claims(graph, t) ==
    \/ t[1] \in About(graph, "membershipResource") /\ t[2] \in About(graph, "hasMemberRelation")
    \/ t[2] \in About(graph, "isMemberOfRelation") /\ t[3] \in About(graph, "membershipResource")
Derivable(graph) == {t \in graph : Claims(graph, t)}

(* What a POST stores and a PUT would not: listings of other resources and *)
(* triples that the server derives itself.                                 *)
Stray(graph) ==
    IF ~IsContainer(graph) THEN {}
    ELSE {t \in graph : t[2] = "contains" /\ t[1] # Self} \cup Derivable(graph)

(* Membership triples of the body are stored.                              *)
Kept_wrong(graph, body) ==
    IF ~IsContainer(graph) /\ ~IsContainer(body) THEN body
    ELSE {t \in body : t[2] # "contains"} \cup Listing(Listed(graph))

(* _put_rdf_resource: what is stored of the body, over graph.              *)
Kept(graph, body) ==
    IF ~IsContainer(graph) /\ ~IsContainer(body) THEN body
    ELSE LET merged == {t \in body : t[2] # "contains"} \cup Listing(Listed(graph))
         IN  merged \ Derivable(merged)
-----------------------------------------------------------------------------
(* What a client may send: at most one value of each declaration.          *)
One(p, values) == {{}} \cup {{<<Self, p, v>>} : v \in values}
Typings == One("type", {"BasicContainer", "DirectContainer"})
Holders == One("membershipResource", {Self, Other})
Relations == One("hasMemberRelation", {"member", "contains"})
Inverses == One("isMemberOfRelation", {"partOf"})
Listings == {Listing(members) : members \in SUBSET Members}

Bodies ==
    {kind \cup holder \cup has \cup isOf \cup notes \cup members :
        kind \in Typings, holder \in Holders, has \in Relations, isOf \in Inverses,
        notes \in Notes, members \in Listings}

(* ldp:contains as the relation of a container to its own members: the PUT *)
(* takes its own listing for derived triples (see the README).             *)
SelfMembership(graph) ==
    Self \in About(graph, "membershipResource")
    /\ "contains" \in About(graph, "hasMemberRelation")

InitStored == stored = {}

(* A PUT of a resource that was not there, or a POST: the body as it is.   *)
Create ==
    /\ stored = {}
    /\ \E body \in Bodies : stored' \in {Kept({}, body), body}

(* A PUT with the tag of what is stored, past check_preconditions.         *)
Replace ==
    /\ stored # {}
    /\ \E body \in Bodies : ~Tampers(stored, body) /\ stored' = Kept(stored, body)

(* The same, of a representation that was read under some preference.      *)
PutBack ==
    /\ stored # {}
    /\ \E copy \in Copies(stored) : ~Tampers(stored, copy) /\ stored' = Kept(stored, copy)

(* A member comes or goes: _post_member, _attach and _detach_from_parent.  *)
List(m) == IsContainer(stored) /\ stored' = stored \cup Listing({m})
Unlist(m) == m \in Listed(stored) /\ stored' = stored \ Listing({m})

NextStored == Create \/ Replace \/ PutBack \/ \E m \in Members : List(m) \/ Unlist(m)

SpecStored == InitStored /\ [][NextStored]_stored
-----------------------------------------------------------------------------
(* A client that puts back what it read, under the tag it read and         *)
(* whatever Prefer header it sent, is not refused, leaves the listing as   *)
(* it is, and the next GET, under any preference, shows what the one       *)
(* before showed of all but the stray triples.                             *)
RoundTrips ==
    ~SelfMembership(stored) =>
        \A copy \in Copies(stored) :
            LET next == Kept(stored, copy) IN
            /\ ~Tampers(stored, copy)
            /\ Listed(next) = Listed(stored)
            /\ \A prefer \in Preferences :
                Represented(next, prefer) = Represented(stored \ Stray(stored), prefer)
=============================================================================
