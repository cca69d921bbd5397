----------------------- MODULE Representations_proofs -----------------------
(***************************************************************************)
(* A container can be read, under any preference, and put back, for any    *)
(* members, any other resource and any further triples.  The argument: a   *)
(* copy declares what the graph declares, so what the PUT takes out of it  *)
(* is what the GET put in; what is left is the graph without stray         *)
(* triples, and the types that every GET shows anyway.                     *)
(***************************************************************************)
EXTENDS Representations, TLAPS

Triples(graph) == \A t \in graph : t = <<t[1], t[2], t[3]>>

(* The relations of the membership are not words of the server's own, but  *)
(* that a container's members may be those of another resource.            *)
Ordinary(graph) ==
    /\ About(graph, "hasMemberRelation") \cap (Declarations \cup {"type"}) = {}
    /\ About(graph, "isMemberOfRelation") \cap (Declarations \cup {"type", "contains"}) = {}

LEMMA AboutOf ==
    ASSUME NEW graph, NEW p, NEW v
    PROVE  v \in About(graph, p) <=> \E t \in graph : t[1] = Self /\ t[2] = p /\ t[3] = v
BY DEF About

LEMMA ListingOf ==
    ASSUME NEW graph, Triples(graph)
    PROVE  Listing(Listed(graph)) = {t \in graph : t[1] = Self /\ t[2] = "contains"}
<1>1. ASSUME NEW t \in Listing(Listed(graph))
      PROVE  t \in graph /\ t[1] = Self /\ t[2] = "contains"
    <2>1. PICK m \in Listed(graph) : t = <<Self, "contains", m>>
        BY DEF Listing
    <2>2. PICK u \in graph : u[1] = Self /\ u[2] = "contains" /\ u[3] = m
        BY AboutOf DEF Listed
    <2>3. u = t
        BY <2>1, <2>2 DEF Triples
    <2> QED BY <2>1, <2>2, <2>3
<1>2. ASSUME NEW t \in graph, t[1] = Self, t[2] = "contains"
      PROVE  t \in Listing(Listed(graph))
    <2>1. t[3] \in Listed(graph)
        BY <1>2, AboutOf DEF Listed
    <2>2. t = <<Self, "contains", t[3]>>
        BY <1>2 DEF Triples
    <2> QED BY <2>1, <2>2 DEF Listing
<1> QED BY <1>1, <1>2

(* Two graphs that differ in no declaration make the same claims.          *)
Agree(graph, other) == \A p \in Declarations : About(graph, p) = About(other, p)

LEMMA ClaimsAgree ==
    ASSUME NEW graph, NEW other, Agree(graph, other), NEW t
    PROVE  Claims(graph, t) <=> Claims(other, t)
BY DEF Agree, Declarations, Claims

(* The triples of a membership are claimed, and are no declarations.       *)
LEMMA MembershipClaimed ==
    ASSUME NEW graph, Ordinary(graph), NEW t \in Membership(graph)
    PROVE  /\ t = <<t[1], t[2], t[3]>>
           /\ Claims(graph, t)
           /\ t[2] \notin Declarations \cup {"type"}
<1>1. CASE About(graph, "hasMemberRelation") # {}
    <2>1. PICK r \in About(graph, "membershipResource"), p \in About(graph, "hasMemberRelation"),
               m \in Listed(graph) : t = <<r, p, m>>
        BY <1>1 DEF Membership, Forward
    <2>2. t[1] = r /\ t[2] = p /\ t[3] = m
        BY <2>1
    <2> QED BY <2>1, <2>2 DEF Claims, Ordinary
<1>2. CASE About(graph, "hasMemberRelation") = {}
    <2>1. PICK r \in About(graph, "membershipResource"), p \in About(graph, "isMemberOfRelation"),
               m \in Listed(graph) : t = <<m, p, r>>
        BY <1>2 DEF Membership, Backward
    <2>2. t[1] = m /\ t[2] = p /\ t[3] = r
        BY <2>1
    <2> QED BY <2>1, <2>2 DEF Claims, Ordinary
<1> QED BY <1>1, <1>2

LEMMA ClaimedIsNoWord ==
    ASSUME NEW graph, Ordinary(graph), NEW t, Claims(graph, t)
    PROVE  t[2] \notin Declarations \cup {"type"}
BY DEF Claims, Ordinary

LEMMA TypesAre ==
    /\ \A t \in Types : t = <<t[1], t[2], t[3]>> /\ t[1] = Self /\ t[2] = "type"
    /\ \A t \in Types : t[3] \notin {"BasicContainer", "DirectContainer"}
BY DEF Types

-----------------------------------------------------------------------------
(* Copies of a container *)

LEMMA ClaimedIsNotListed ==
    ASSUME NEW graph, Ordinary(graph), ~SelfMembership(graph), NEW t, Claims(graph, t)
    PROVE  ~(t[1] = Self /\ t[2] = "contains")
BY DEF Claims, Ordinary, SelfMembership

LEMMA CopyParts ==
    ASSUME NEW graph, Triples(graph), Ordinary(graph), ~SelfMembership(graph),
           IsContainer(graph), NEW copy \in Copies(graph)
    PROVE  /\ \A t \in copy : t \in graph \/ t \in Types \/ t \in Membership(graph)
           /\ Types \subseteq copy
           /\ \A t \in graph : t[2] # "contains" => t \in copy
           /\ Listed(copy) = {} \/ Listed(copy) = Listed(graph)
<1>1. PICK prefer \in Preferences : copy = Represented(graph, prefer)
    BY DEF Copies
<1> DEFINE shown == IF Wants(prefer, "containment") THEN graph
                    ELSE graph \ Listing(Listed(graph))
           derived == IF Wants(prefer, "membership") THEN Membership(graph) ELSE {}
<1>2. copy = shown \cup Types \cup derived
    BY <1>1 DEF Represented
<1>3. shown \subseteq graph /\ derived \subseteq Membership(graph)
    OBVIOUS
<1>4. \A t \in graph : t[2] # "contains" => t \in shown
    BY ListingOf
<1>5. shown = graph \/ shown \cap Listing(Listed(graph)) = {}
    OBVIOUS
<1> HIDE DEF shown, derived
<1>6. \A t \in Types \cup derived : ~(t[1] = Self /\ t[2] = "contains")
    BY <1>3, TypesAre, MembershipClaimed, ClaimedIsNotListed
<1>7. Listed(copy) = Listed(shown)
    <2>1. \A v : v \in Listed(copy) <=> v \in Listed(shown)
        BY <1>2, <1>6, AboutOf DEF Listed
    <2> QED BY <2>1
<1>8. ASSUME shown \cap Listing(Listed(graph)) = {} PROVE Listed(shown) = {}
    <2>1. \A t \in shown : ~(t[1] = Self /\ t[2] = "contains")
        BY <1>3, <1>8, ListingOf
    <2>2. \A v : v \notin Listed(shown)
        BY <2>1, AboutOf DEF Listed
    <2> QED BY <2>2
<1>9. Listed(copy) = {} \/ Listed(copy) = Listed(graph)
    BY <1>5, <1>7, <1>8
<1> QED BY <1>2, <1>3, <1>4, <1>9

(* What every copy of a container says of the container itself.            *)
LEMMA CopyDeclares ==
    ASSUME NEW graph, Triples(graph), Ordinary(graph), ~SelfMembership(graph),
           IsContainer(graph), NEW copy \in Copies(graph)
    PROVE  Agree(graph, copy) /\ IsContainer(copy)
<1>1. ASSUME NEW p \in Declarations PROVE About(graph, p) = About(copy, p)
    <2>1. \A t \in copy : t[2] = p => t \in graph
        BY CopyParts, TypesAre, MembershipClaimed DEF Declarations
    <2>2. \A t \in graph : t[2] = p => t \in copy
        BY CopyParts DEF Declarations
    <2>3. \A v : v \in About(graph, p) <=> v \in About(copy, p)
        BY <2>1, <2>2, AboutOf
    <2> QED BY <2>3
<1>2. IsContainer(copy)
    <2>1. PICK v \in {"BasicContainer", "DirectContainer"} : v \in About(graph, "type")
        BY DEF IsContainer
    <2>2. v \in About(copy, "type")
        BY <2>1, CopyParts, AboutOf
    <2> QED BY <2>2 DEF IsContainer
<1> QED BY <1>1, <1>2 DEF Agree

(* What a PUT of a copy stores: all but the stray triples, and the types.  *)
LEMMA KeptOfCopy ==
    ASSUME NEW graph, Triples(graph), Ordinary(graph), ~SelfMembership(graph),
           IsContainer(graph), NEW copy \in Copies(graph)
    PROVE  Kept(graph, copy) = (graph \ Stray(graph)) \cup Types
<1> DEFINE listing == Listing(Listed(graph))
           merged == {t \in copy : t[2] # "contains"} \cup listing
<1>1. Kept(graph, copy) = merged \ Derivable(merged)
    BY DEF Kept
<1>2. \A t : t \in listing <=> t \in graph /\ t[1] = Self /\ t[2] = "contains"
    BY ListingOf
<1> HIDE DEF listing
<1>3. Agree(graph, merged)
    <2>1. ASSUME NEW p \in Declarations PROVE About(copy, p) = About(merged, p)
        <3>1. p # "contains"
            BY DEF Declarations
        <3>2. \A v : v \in About(copy, p) <=> v \in About(merged, p)
            BY <1>2, <3>1, AboutOf
        <3> QED BY <3>2
    <2> QED BY <2>1, CopyDeclares DEF Agree
<1>4. \A t : t \in Kept(graph, copy) <=> t \in merged /\ ~Claims(graph, t)
    BY <1>1, <1>3, ClaimsAgree DEF Derivable
<1>5. \A t : t \in graph \ Stray(graph) <=>
              t \in graph /\ ~(t[2] = "contains" /\ t[1] # Self) /\ ~Claims(graph, t)
    BY DEF Stray, Derivable
<1>6. ASSUME NEW t \in Kept(graph, copy) PROVE t \in (graph \ Stray(graph)) \cup Types
    <2>1. t \in merged /\ ~Claims(graph, t)
        BY <1>4, <1>6
    <2>2. CASE t \in listing
        BY <1>2, <1>5, <2>1, <2>2
    <2>3. CASE t \in copy /\ t[2] # "contains"
        BY <1>5, <2>1, <2>3, CopyParts, MembershipClaimed
    <2> QED BY <2>1, <2>2, <2>3
<1>7. ASSUME NEW t \in graph \ Stray(graph) PROVE t \in Kept(graph, copy)
    <2>1. t \in merged
        BY <1>2, <1>5, <1>7, CopyParts
    <2> QED BY <2>1, <1>4, <1>5, <1>7
<1>8. ASSUME NEW t \in Types PROVE t \in Kept(graph, copy)
    <2>1. t[2] = "type" /\ t \in copy
        BY <1>8, TypesAre, CopyParts
    <2> QED BY <2>1, <1>4, ClaimedIsNoWord
<1> QED BY <1>6, <1>7, <1>8

(* And this is seen as the graph without its stray triples is.             *)
LEMMA SeenTheSame ==
    ASSUME NEW graph, Triples(graph), Ordinary(graph), ~SelfMembership(graph),
           IsContainer(graph), NEW prefer
    PROVE  LET clean == graph \ Stray(graph) IN
           /\ Listed(clean \cup Types) = Listed(graph)
           /\ Represented(clean \cup Types, prefer) = Represented(clean, prefer)
<1> DEFINE clean == graph \ Stray(graph)
           next == clean \cup Types
<1>1. \A t : t \in clean <=>
              t \in graph /\ ~(t[2] = "contains" /\ t[1] # Self) /\ ~Claims(graph, t)
    BY DEF Stray, Derivable
<1> HIDE DEF clean
<1>2. ASSUME NEW p, p # "type" PROVE About(next, p) = About(clean, p)
    <2>1. \A v : v \in About(next, p) <=> v \in About(clean, p)
        BY <1>2, TypesAre, AboutOf
    <2> QED BY <2>1
<1>3. Listed(next) = Listed(clean)
    BY <1>2 DEF Listed
<1>4. Listed(clean) = Listed(graph)
    <2>1. \A v : v \in Listed(clean) <=> v \in Listed(graph)
        BY <1>1, ClaimedIsNotListed, AboutOf DEF Listed
    <2> QED BY <2>1
<1>5. IsContainer(clean) /\ IsContainer(next)
    <2>1. PICK v \in {"BasicContainer", "DirectContainer"} : v \in About(graph, "type")
        BY DEF IsContainer
    <2>2. v \in About(clean, "type") /\ v \in About(next, "type")
        BY <2>1, <1>1, ClaimedIsNoWord, AboutOf
    <2> QED BY <2>2 DEF IsContainer
<1>6. Membership(next) = Membership(clean)
    <2>1. About(next, "membershipResource") = About(clean, "membershipResource")
        BY <1>2
    <2>2. About(next, "hasMemberRelation") = About(clean, "hasMemberRelation")
        BY <1>2
    <2>3. About(next, "isMemberOfRelation") = About(clean, "isMemberOfRelation")
        BY <1>2
    <2> HIDE DEF next
    <2>4. \A t : t \in Forward(next) <=> t \in Forward(clean)
        BY <2>1, <2>2, <1>3 DEF Forward
    <2>5. \A t : t \in Backward(next) <=> t \in Backward(clean)
        BY <2>1, <2>3, <1>3 DEF Backward
    <2>6. Forward(next) = Forward(clean) /\ Backward(next) = Backward(clean)
        BY <2>4, <2>5
    <2> QED BY <2>2, <2>6 DEF Membership
<1>7. Represented(next, prefer) = Represented(clean, prefer)
    BY <1>3, <1>5, <1>6 DEF Represented
<1> QED BY <1>3, <1>4, <1>7 DEF clean

LEMMA RoundTripOf ==
    ASSUME NEW graph, Triples(graph), Ordinary(graph), ~SelfMembership(graph),
           NEW copy \in Copies(graph)
    PROVE  /\ ~Tampers(graph, copy)
           /\ Listed(Kept(graph, copy)) = Listed(graph)
           /\ \A prefer \in Preferences :
                 Represented(Kept(graph, copy), prefer) = Represented(graph \ Stray(graph), prefer)
<1>1. CASE IsContainer(graph)
    <2>1. ~Tampers(graph, copy)
        BY <1>1, CopyParts DEF Tampers
    <2>2. Kept(graph, copy) = (graph \ Stray(graph)) \cup Types
        BY <1>1, KeptOfCopy
    <2> QED BY <1>1, <2>1, <2>2, SeenTheSame
<1>2. CASE ~IsContainer(graph)
    <2>1. copy = graph
        BY <1>2 DEF Copies, Represented
    <2>2. Kept(graph, copy) = graph /\ graph \ Stray(graph) = graph
        BY <1>2, <2>1 DEF Kept, Stray
    <2> QED BY <1>2, <2>2 DEF Tampers
<1> QED BY <1>1, <1>2
-----------------------------------------------------------------------------
(* What is stored is always such a graph *)

Settled == Triples(stored) /\ Ordinary(stored)

LEMMA Inherited ==
    ASSUME NEW graph, NEW other, Triples(graph), Ordinary(graph),
           \A t \in other : t \in graph \/ (t = <<t[1], t[2], t[3]>> /\ t[2] \notin Declarations)
    PROVE  Triples(other) /\ Ordinary(other)
<1>1. \A p \in Declarations : About(other, p) \subseteq About(graph, p)
    BY AboutOf
<1> QED BY <1>1 DEF Triples, Ordinary, Declarations

LEMMA ListingTriples ==
    ASSUME NEW members
    PROVE  \A t \in Listing(members) : t = <<t[1], t[2], t[3]>> /\ t[2] \notin Declarations
BY DEF Listing, Declarations

LEMMA KeptInherits ==
    ASSUME NEW graph, NEW body, Triples(body), Ordinary(body)
    PROVE  Triples(Kept(graph, body)) /\ Ordinary(Kept(graph, body))
<1>1. \A t \in Kept(graph, body) : t \in body \/ t \in Listing(Listed(graph))
    BY DEF Kept
<1> QED BY <1>1, ListingTriples, Inherited

LEMMA CopyInherits ==
    ASSUME NEW graph, Triples(graph), Ordinary(graph), NEW copy \in Copies(graph)
    PROVE  Triples(copy) /\ Ordinary(copy)
<1>1. \A t \in copy : t \in graph \/ t \in Types \/ t \in Membership(graph)
    BY DEF Copies, Represented
<1>2. \A t \in Types : t[2] \notin Declarations
    BY TypesAre DEF Declarations
<1> QED BY <1>1, <1>2, TypesAre, MembershipClaimed, Inherited

LEMMA BodiesOrdinary ==
    ASSUME PlainNotes, NEW body \in Bodies
    PROVE  Triples(body) /\ Ordinary(body)
<1>1. PICK kind \in Typings, holder \in Holders, has \in Relations, isOf \in Inverses,
           notes \in Notes, members \in Listings :
               body = kind \cup holder \cup has \cup isOf \cup notes \cup members
    BY DEF Bodies
<1>2. /\ \A t \in kind : t = <<t[1], t[2], t[3]>> /\ t[2] = "type"
      /\ \A t \in holder : t = <<t[1], t[2], t[3]>> /\ t[2] = "membershipResource"
      /\ \A t \in has : /\ t = <<t[1], t[2], t[3]>> /\ t[2] = "hasMemberRelation"
                         /\ t[3] \in {"member", "contains"}
      /\ \A t \in isOf : /\ t = <<t[1], t[2], t[3]>> /\ t[2] = "isMemberOfRelation"
                          /\ t[3] = "partOf"
    BY DEF One, Typings, Holders, Relations, Inverses
<1>3. \A t \in members : t = <<t[1], t[2], t[3]>> /\ t[2] \notin Declarations
    BY ListingTriples DEF Listings
<1>4. \A t \in notes : t = <<t[1], t[2], t[3]>> /\ (t[1] = Self => t[2] \notin Declarations)
    BY DEF PlainNotes
<1>5. Triples(body)
    BY <1>1, <1>2, <1>3, <1>4 DEF Triples
<1>6. About(body, "hasMemberRelation") \subseteq {"member", "contains"}
    BY <1>1, <1>2, <1>3, <1>4, AboutOf DEF Declarations
<1>7. About(body, "isMemberOfRelation") \subseteq {"partOf"}
    BY <1>1, <1>2, <1>3, <1>4, AboutOf DEF Declarations
<1> QED BY <1>5, <1>6, <1>7 DEF Ordinary, Declarations

LEMMA SettledInit == InitStored => Settled
BY DEF InitStored, Settled, Triples, Ordinary, About

LEMMA SettledNext == ASSUME PlainNotes PROVE Settled /\ [NextStored]_stored => Settled'
<1> SUFFICES ASSUME Settled, [NextStored]_stored PROVE Triples(stored') /\ Ordinary(stored')
    BY DEF Settled, Triples, Ordinary, About
<1>0. Triples(stored) /\ Ordinary(stored)
    BY DEF Settled
<1>1. CASE Create
    BY <1>1, BodiesOrdinary, KeptInherits DEF Create
<1>2. CASE Replace
    BY <1>2, BodiesOrdinary, KeptInherits DEF Replace
<1>3. CASE PutBack
    BY <1>0, <1>3, CopyInherits, KeptInherits DEF PutBack
<1>4. ASSUME NEW m \in Members, List(m) \/ Unlist(m)
      PROVE  Triples(stored') /\ Ordinary(stored')
    <2>1. \A t \in stored' : t \in stored \/ t \in Listing({m})
        BY <1>4 DEF List, Unlist
    <2> QED BY <1>0, <2>1, ListingTriples, Inherited
<1>5. CASE UNCHANGED stored
    BY <1>0, <1>5
<1> QED BY <1>1, <1>2, <1>3, <1>4, <1>5 DEF NextStored

(* Whatever is stored can be read and put back: no copy is refused, none   *)
(* changes the listing or what the next reader sees.                       *)
THEOREM CopiesRoundTrip == ASSUME PlainNotes PROVE SpecStored => []RoundTrips
<1>1. Settled => RoundTrips
    BY RoundTripOf DEF Settled, RoundTrips
<1>2. Settled /\ [NextStored]_stored => Settled'
    BY SettledNext
<1> QED BY <1>1, <1>2, SettledInit, PTL DEF SpecStored
=============================================================================
