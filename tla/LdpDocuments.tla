---------------------------- MODULE LdpDocuments ----------------------------
(***************************************************************************)
(* What a URI of the data plane holds: an RDF graph, a binary, or nothing. *)
(***************************************************************************)
CONSTANT Bodies    \* the triples of a resource besides its containment; or bytes

Nothing == [form |-> "none", container |-> FALSE, contains |-> {},
            body |-> CHOOSE b \in Bodies : TRUE]
Graph(isContainer, members, b) ==
    [form |-> "rdf", container |-> isContainer, contains |-> members, body |-> b]
Blob(b) == [form |-> "bin", container |-> FALSE, contains |-> {}, body |-> b]
EmptyRoot == Graph(TRUE, {}, CHOOSE b \in Bodies : TRUE)
=============================================================================
