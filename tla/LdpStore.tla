------------------------------ MODULE LdpStore ------------------------------
(***************************************************************************)
(* What the LDP data plane promises a client that works alone: every write *)
(* is one atomic change of the resource and of its parent's listing.       *)
(* LdpServer carries the same writes out in several backend calls.         *)
(***************************************************************************)
EXTENDS LdpDocuments

CONSTANTS
    Uris,          \* the resources considered
    Root,          \* base_uri, the pod root container
    Parent,        \* parent_container_uri; the root is its own parent
    Mintable,      \* Mintable[c]: what mint_member_uri may return for c
    InitialPods    \* what the pod may hold at the start

VARIABLES
    graphs,        \* the RDF resources
    blobs          \* the binary resources

Exists(u) == graphs[u] # Nothing \/ blobs[u] # Nothing

(* The listing of container c with one more member, or one less. *)
Listing(pod, c, m) == [pod EXCEPT ![c].contains = @ \cup {m}]
Unlisting(pod, c, m) ==
    IF pod[c] = Nothing THEN pod ELSE [pod EXCEPT ![c].contains = @ \ {m}]

(* A new resource is listed when its parent is a container that exists.    *)
Adopt(pod, m) ==
    IF Parent[m] # m /\ pod[Parent[m]].container THEN Listing(pod, Parent[m], m) ELSE pod
Disown(pod, m) == IF Parent[m] # m THEN Unlisting(pod, Parent[m], m) ELSE pod

----------------------------------------------------------------------------

CreateGraph(u) ==
    /\ graphs[u] = Nothing
    /\ \E isContainer \in BOOLEAN, b \in Bodies :
          graphs' = Adopt([graphs EXCEPT ![u] = Graph(isContainer, {}, b)], u)
    /\ UNCHANGED blobs

(* A replacement of or by a container never touches the listing. *)
ReplaceGraph(u) ==
    /\ graphs[u] # Nothing
    /\ \E isContainer \in BOOLEAN, b \in Bodies :
          graphs' = [graphs EXCEPT ![u] =
                    Graph(isContainer,
                          IF graphs[u].container \/ isContainer THEN graphs[u].contains ELSE {}, b)]
    /\ UNCHANGED blobs

PutBlob(u) ==
    /\ graphs' = IF blobs[u] = Nothing THEN Adopt(graphs, u) ELSE graphs
    /\ \E b \in Bodies : blobs' = [blobs EXCEPT ![u] = Blob(b)]

(* A fresh member of container c. *)
Post(c) ==
    /\ graphs[c].container
    /\ \E m \in Mintable[c] :
          /\ ~Exists(m)
          /\ \/ \E isContainer \in BOOLEAN, b \in Bodies :
                   graphs' = Listing([graphs EXCEPT ![m] = Graph(isContainer, {}, b)], c, m)
                /\ UNCHANGED blobs
             \/ /\ graphs' = Listing(graphs, c, m)
                /\ \E b \in Bodies : blobs' = [blobs EXCEPT ![m] = Blob(b)]

(* A container is deleted only when it lists no members. *)
DeleteGraph(u) ==
    /\ graphs[u] # Nothing
    /\ graphs[u].container => graphs[u].contains = {}
    /\ graphs' = Disown([graphs EXCEPT ![u] = Nothing], u)
    /\ UNCHANGED blobs

DeleteBlob(u) ==
    /\ graphs[u] = Nothing /\ blobs[u] # Nothing
    /\ blobs' = [blobs EXCEPT ![u] = Nothing]
    /\ graphs' = Disown(graphs, u)

(* A start of the server seeds the root container again. *)
Restart ==
    /\ graphs[Root] = Nothing
    /\ graphs' = [graphs EXCEPT ![Root] = EmptyRoot]
    /\ UNCHANGED blobs

Init == graphs \in InitialPods /\ blobs = [u \in Uris |-> Nothing]

Next ==
    \/ \E u \in Uris : \/ CreateGraph(u) \/ ReplaceGraph(u) \/ PutBlob(u)
                       \/ Post(u) \/ DeleteGraph(u) \/ DeleteBlob(u)
    \/ Restart

Spec == Init /\ [][Next]_<<graphs, blobs>>
=============================================================================
