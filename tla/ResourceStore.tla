--------------------------- MODULE ResourceStore ---------------------------
(***************************************************************************)
(* What storage/backend.py promises its callers: RDF resources and binary  *)
(* resources by URI, each written or removed as a whole, a binary together *)
(* with the graph that describes it.                                       *)
(***************************************************************************)
EXTENDS Integers

CONSTANTS
    Names, RdfNames, BinNames, DescriptionOf, Graphs, NoTriples, Bodies, Sidecar, Callers,
                   \* see FileStore
    Absent         \* no resource

VARIABLES
    rdf,           \* the graph at each name
    bin,           \* the binary at each name
    answer         \* what each caller's last call returned

Stored == Graphs \cup {NoTriples}

(* The result of a call that changes something may come later than the      *)
(* change; that of a read is what is stored.                                *)
Respond(c) ==
    /\ \E result \in {"ok", "not found", "changed", "failed", "forbidden", "sent", "aborted",
                      "not binary"} :
          answer' = [answer EXCEPT ![c] = result]
    /\ UNCHANGED <<rdf, bin>>

Read(c, n) ==
    /\ answer' = [answer EXCEPT ![c] = IF rdf[n] = Absent THEN "not found" ELSE rdf[n]]
    /\ UNCHANGED <<rdf, bin>>

Write(n, g) == rdf' = [rdf EXCEPT ![n] = g] /\ UNCHANGED <<bin, answer>>

WriteBinary(n, b) ==
    /\ bin' = [bin EXCEPT ![n] = b]
    /\ rdf' = [rdf EXCEPT ![DescriptionOf[n]] = Sidecar[b]]
    /\ UNCHANGED answer

(* The RDF resource is removed first; a removal that takes one step answers *)
(* in that step.                                                            *)
DeleteGraph(c, n) ==
    /\ rdf[n] # Absent
    /\ rdf' = [rdf EXCEPT ![n] = Absent]
    /\ answer' = [answer EXCEPT ![c] = "ok"]
    /\ UNCHANGED bin

DeleteBinary(n) ==
    /\ rdf[n] = Absent /\ bin[n] # Absent
    /\ bin' = [bin EXCEPT ![n] = Absent]
    /\ rdf' = [rdf EXCEPT ![DescriptionOf[n]] = Absent]
    /\ UNCHANGED answer

Init ==
    /\ rdf = [n \in Names |-> Absent]
    /\ bin = [n \in BinNames |-> Absent]
    /\ answer = [c \in Callers |-> "none"]

Next ==
    \/ \E c \in Callers : Respond(c) \/ (\E n \in Names : Read(c, n) \/ DeleteGraph(c, n))
    \/ \E n \in RdfNames, g \in Stored : Write(n, g)
    \/ \E n \in BinNames : DeleteBinary(n) \/ (\E b \in Bodies : WriteBinary(n, b))
    \/ answer' = [c \in Callers |-> "none"] /\ UNCHANGED <<rdf, bin>>

Spec == Init /\ [][Next]_<<rdf, bin, answer>>
=============================================================================
