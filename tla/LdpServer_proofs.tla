-------------------------- MODULE LdpServer_proofs --------------------------
(***************************************************************************)
(* Theorems about LdpServer, for any pod, any number of threads and any    *)
(* requests.                                                               *)
(*   - Whatever the threads share, and wherever the server is stopped:     *)
(*     TypeCorrect, ListingsManaged, and OverwritesAdmitted and            *)
(*     NonEmptyStays, from AllStanding: what a thread decided about its    *)
(*     target still stands when it writes, unless another one wrote the    *)
(*     target in between.                                                  *)
(*   - Threads that share nothing (ZonesApart; a single thread always      *)
(*     does): DeletedForgotten, ListedAreThere, and WritesImplemented,     *)
(*     that they carry out the atomic writes of LdpStore, from             *)
(*     AllCurrent: what a thread has read is what is there when it         *)
(*     writes.                                                             *)
(***************************************************************************)
EXTENDS LdpServer, TLAPS

(* What the kinds of documents have in common. *)
LEMMA DocFacts ==
    /\ Nothing \in Docs /\ Nothing.contains = {} /\ Nothing.container = FALSE
    /\ Nothing.form = "none"
    /\ \A d \in Docs : d.contains \in SUBSET Uris /\ d.container \in BOOLEAN
    /\ \A d \in Docs : d.container => d \in Graphs
    /\ \A d \in Docs : d.form = "rdf" <=> d \in Graphs
    /\ \A d \in Graphs, s \in SUBSET Uris : [d EXCEPT !.contains = s] \in Graphs
    /\ \A b \in Bodies : Blob(b) \in Blobs
    /\ EmptyRoot \in Graphs /\ EmptyRoot.contains = {}
<1>1. (CHOOSE b \in Bodies : TRUE) \in Bodies
  BY UrisAssumption
<1>2. Nothing \in Docs /\ Nothing.contains = {} /\ Nothing.container = FALSE
      /\ Nothing.form = "none"
  BY DEF Docs, Nothing
<1>3. \A d \in Docs : d.contains \in SUBSET Uris /\ d.container \in BOOLEAN
  BY <1>2 DEF Docs, Graphs, Blobs
<1>4. \A d \in Docs : (d.container => d \in Graphs) /\ (d.form = "rdf" <=> d \in Graphs)
  BY <1>2 DEF Docs, Graphs, Blobs
<1>5. \A d \in Graphs, s \in SUBSET Uris : [d EXCEPT !.contains = s] \in Graphs
  BY DEF Graphs
<1>6. \A b \in Bodies : Blob(b) \in Blobs
  BY DEF Blobs, Blob
<1>7. EmptyRoot \in Graphs /\ EmptyRoot.contains = {}
  BY <1>1 DEF Graphs, EmptyRoot, Graph
<1> QED
  BY <1>2, <1>3, <1>4, <1>5, <1>6, <1>7

(* What a worker holds, given where it is: what keeps its writes in shape. *)
Holds(where, graph, doc) ==
    /\ where \in {"postWrite", "listWrite", "detachWrite"} => graph \in Graphs
    /\ where \in {"putCheck", "putWrite", "postRead", "postWrite"} => doc \in Graphs \cup Blobs
    /\ where \in {"deleteCheck", "deleteApply"} => doc = Nothing
Shape == \A w \in Workers : Holds(pc[w], snap[w], job[w].doc)

LEMMA Merging ==
    ASSUME NEW doc \in Graphs \cup Blobs, NEW stored \in Docs
    PROVE  /\ Merged(doc, stored) \in Graphs \cup Blobs
           /\ Merged(doc, stored).form = doc.form
           /\ Merged(doc, stored) \in Graphs <=> doc \in Graphs
<1>1. doc.form = "rdf" <=> doc \in Graphs
  BY DocFacts DEF Docs
<1>2. CASE doc.form = "rdf" /\ (stored.container \/ doc.container)
  <2>1. Merged(doc, stored) = [doc EXCEPT !.contains = stored.contains]
    BY <1>2 DEF Merged
  <2>2. [doc EXCEPT !.contains = stored.contains] \in Graphs
    BY <1>1, <1>2, DocFacts
  <2> QED
    BY <1>1, <1>2, <2>1, <2>2 DEF Graphs
<1>3. CASE ~(doc.form = "rdf" /\ (stored.container \/ doc.container))
  BY <1>1, <1>3 DEF Merged
<1> QED
  BY <1>2, <1>3

LEMMA Storing ==
    ASSUME NEW u \in Uris, NEW doc \in Graphs \cup Blobs, StoreDoc(u, doc),
           rdf \in [Uris -> Graphs \cup {Nothing}], bin \in [Uris -> Blobs \cup {Nothing}]
    PROVE  /\ rdf' \in [Uris -> Graphs \cup {Nothing}]
           /\ bin' \in [Uris -> Blobs \cup {Nothing}]
<1>1. doc.form = "rdf" <=> doc \in Graphs
  BY DocFacts DEF Docs
<1> QED
  BY <1>1 DEF StoreDoc

(* What a client's body claims are pairs of resources. *)
LEMMA Claims ==
    ASSUME TypeOK, NEW u \in Uris, NEW doc \in Docs, Claim(u, doc)
    PROVE  claimed' \subseteq Uris \X Uris
  BY DocFacts DEF Claim, TypeOK

LEMMA InitTyped == Init => TypeOK /\ Shape
<1> SUFFICES ASSUME Init PROVE TypeOK /\ Shape
  OBVIOUS
<1>1. NoJob \in Jobs /\ NoJob.doc = Nothing
  BY UrisAssumption, DocFacts DEF NoJob, Jobs, Headers
<1> QED
  BY <1>1, UrisAssumption, RequestsAssumption, DocFacts DEF Init, TypeOK, Shape, Holds

LEMMA TypedStep == TypeOK /\ Shape /\ [Next]_vars => TypeOK' /\ Shape'
<1> SUFFICES ASSUME TypeOK, Shape, [Next]_vars PROVE TypeOK' /\ Shape'
  OBVIOUS
<1> USE DEF store, history
<1>0. overtaken' \subseteq Workers
  BY DEF Next, Overtakes, vars, TypeOK
<1> USE <1>0
<1>1. NoJob \in Jobs /\ NoJob.doc = Nothing
  BY UrisAssumption, DocFacts DEF NoJob, Jobs, Headers
<1>2. ASSUME NEW w \in Workers, NEW code \in {"none", "200", "201", "204", "400", "403", "404",
                                              "405", "409", "412", "428", "500"},
             Answer(w, code), rdf' \in [Uris -> Graphs \cup {Nothing}],
             bin' \in [Uris -> Blobs \cup {Nothing}],
             attached' \subseteq Uris \X Uris, claimed' \subseteq Uris \X Uris,
             torn' \subseteq Uris
      PROVE  TypeOK' /\ Shape'
  <2>1. TypeOK'
    BY <1>1, <1>2, UrisAssumption, DocFacts DEF TypeOK, Answer, Goto
  <2>2. Shape'
    BY <1>1, <1>2 DEF TypeOK, Shape, Holds, Answer, Goto
  <2> QED
    BY <2>1, <2>2
<1>3. ASSUME NEW w \in Workers, Arrive(w) PROVE TypeOK' /\ Shape'
  <2>1. PICK u \in Reach[w], j \in Jobs :
           /\ job' = [job EXCEPT ![w] = j]
           /\ \/ j.doc \in Graphs \cup Blobs /\ Goto(w, "putCheck")
              \/ j.doc \in Graphs \cup Blobs /\ Goto(w, "postRead")
              \/ j.doc = Nothing /\ Goto(w, "deleteCheck")
    <3>1. \A u \in Reach[w] : u \in Uris
      BY RequestsAssumption
    <3>2. CASE \E u \in Reach[w], doc \in PutGraphs \cup {Blob(b) : b \in Bodies},
                  cond \in Conditions :
                 \E etag \in IF cond = "etag" THEN {rdf[u], bin[u], Nothing} ELSE {Nothing} :
                    /\ job' = [job EXCEPT ![w] = [method |-> "PUT", uri |-> u, doc |-> doc,
                                                  cond |-> cond, etag |-> etag]]
                    /\ Goto(w, "putCheck")
      <4>1. PICK u \in Reach[w], doc \in PutGraphs \cup {Blob(b) : b \in Bodies},
                 cond \in Conditions :
               \E etag \in IF cond = "etag" THEN {rdf[u], bin[u], Nothing} ELSE {Nothing} :
                  /\ job' = [job EXCEPT ![w] = [method |-> "PUT", uri |-> u, doc |-> doc,
                                                cond |-> cond, etag |-> etag]]
                  /\ Goto(w, "putCheck")
        BY <3>2
      <4>2. PICK etag \in IF cond = "etag" THEN {rdf[u], bin[u], Nothing} ELSE {Nothing} :
                  /\ job' = [job EXCEPT ![w] = [method |-> "PUT", uri |-> u, doc |-> doc,
                                                cond |-> cond, etag |-> etag]]
                  /\ Goto(w, "putCheck")
        BY <4>1
      <4>3. doc \in Graphs \cup Blobs /\ etag \in Docs /\ cond \in Headers
        BY <3>1, DocFacts, RequestsAssumption DEF TypeOK, Docs
      <4>4. [method |-> "PUT", uri |-> u, doc |-> doc, cond |-> cond, etag |-> etag] \in Jobs
        BY <3>1, <4>3 DEF Jobs, Docs
      <4> QED
        BY <4>2, <4>3, <4>4
    <3>3. CASE \E u \in Reach[w], doc \in PostGraphs \cup {Blob(b) : b \in Bodies} :
                  /\ job' = [job EXCEPT ![w] = [NoJob EXCEPT !.method = "POST", !.uri = u,
                                                             !.doc = doc]]
                  /\ Goto(w, "postRead")
      <4>1. PICK u \in Reach[w], doc \in PostGraphs \cup {Blob(b) : b \in Bodies} :
               /\ job' = [job EXCEPT ![w] = [NoJob EXCEPT !.method = "POST", !.uri = u,
                                                          !.doc = doc]]
               /\ Goto(w, "postRead")
        BY <3>3
      <4>2. doc \in Graphs \cup Blobs
        BY DocFacts, RequestsAssumption
      <4>3. [NoJob EXCEPT !.method = "POST", !.uri = u, !.doc = doc] \in Jobs
        BY <1>1, <3>1, <4>2 DEF Jobs, Docs
      <4>4. [NoJob EXCEPT !.method = "POST", !.uri = u, !.doc = doc].doc = doc
        BY DEF NoJob
      <4> QED
        BY <4>1, <4>2, <4>3, <4>4
    <3>4. CASE \E u \in Reach[w] : /\ job' = [job EXCEPT ![w] = [NoJob EXCEPT !.uri = u]]
                                   /\ Goto(w, "deleteCheck")
      <4>1. PICK u \in Reach[w] : /\ job' = [job EXCEPT ![w] = [NoJob EXCEPT !.uri = u]]
                                  /\ Goto(w, "deleteCheck")
        BY <3>4
      <4>2. [NoJob EXCEPT !.uri = u] \in Jobs /\ [NoJob EXCEPT !.uri = u].doc = Nothing
        BY <1>1, <3>1 DEF Jobs
      <4> QED
        BY <4>1, <4>2
    <3> QED
      BY <1>3, <3>2, <3>3, <3>4 DEF Arrive
  <2>2. reply' = [reply EXCEPT ![w] = "none"]
        /\ UNCHANGED <<store, snap, member, holder, history>>
    BY <1>3 DEF Arrive
  <2>3. TypeOK'
    BY <2>1, <2>2 DEF TypeOK, Goto
  <2>4. Shape'
    BY <2>1, <2>2 DEF TypeOK, Shape, Holds, Goto
  <2> QED
    BY <2>3, <2>4
<1>4. ASSUME NEW w \in Workers, PutCheck(w) PROVE TypeOK' /\ Shape'
  <2>1. CASE \E code \in {"428", "412", "400", "409"} : Answer(w, code)
    BY <1>2, <1>4, <2>1 DEF PutCheck, TypeOK
  <2>2. CASE Continue(w, "putWrite")
             /\ Remember(w, IF job[w].doc.form = "rdf" THEN rdf[job[w].uri] ELSE bin[job[w].uri])
             /\ UNCHANGED <<member, holder, store, history>>
    <3>1. job[w].uri \in Uris
      BY DEF TypeOK, Jobs
    <3>2. (IF job[w].doc.form = "rdf" THEN rdf[job[w].uri] ELSE bin[job[w].uri]) \in Docs
      BY <3>1 DEF TypeOK, Docs
    <3>3. TypeOK'
      BY <2>2, <3>2 DEF TypeOK, Continue, Remember, Goto
    <3>4. Shape'
      BY <1>4, <2>2 DEF TypeOK, Shape, Holds, PutCheck, Continue, Remember, Goto
    <3> QED
      BY <3>3, <3>4
  <2> QED
    BY <1>4, <2>1, <2>2 DEF PutCheck, Refusal
<1>5. ASSUME NEW w \in Workers, PutWrite(w) PROVE TypeOK' /\ Shape'
  <2>1. CASE Answer(w, "403") /\ UNCHANGED <<store, claimed>>
    BY <1>2, <1>5, <2>1 DEF PutWrite, TypeOK
  <2>2. CASE StoreDoc(job[w].uri, Merged(job[w].doc, snap[w]))
             /\ claimed' \subseteq Uris \X Uris
    <3>1. job[w].uri \in Uris /\ snap[w] \in Docs
      BY DEF TypeOK, Jobs
    <3>2. Merged(job[w].doc, snap[w]) \in Graphs \cup Blobs
      BY <1>5, <3>1, Merging DEF Shape, Holds, PutWrite
    <3>3. rdf' \in [Uris -> Graphs \cup {Nothing}] /\ bin' \in [Uris -> Blobs \cup {Nothing}]
      BY <2>2, <3>1, <3>2, Storing DEF TypeOK
    <3>4. CASE Answer(w, "200") \/ Answer(w, "201")
      BY <1>2, <1>5, <2>2, <3>3, <3>4 DEF PutWrite, TypeOK
    <3>5. CASE /\ Continue(w, "attachRead")
               /\ member' = [member EXCEPT ![w] = job[w].uri]
               /\ holder' = [holder EXCEPT ![w] = Parent[job[w].uri]]
               /\ UNCHANGED snap
      <4>1. TypeOK'
        BY <1>5, <2>2, <3>1, <3>3, <3>5, UrisAssumption DEF PutWrite, TypeOK, Continue, Goto
      <4>2. Shape'
        BY <3>5 DEF TypeOK, Shape, Holds, Continue, Goto
      <4> QED
        BY <4>1, <4>2
    <3> QED
      BY <1>5, <3>4, <3>5, <2>1 DEF PutWrite
  <2>3. claimed' \subseteq Uris \X Uris
    BY <1>5, Claims DEF PutWrite, TypeOK, Jobs
  <2> QED
    BY <1>5, <2>1, <2>2, <2>3 DEF PutWrite
<1>6. ASSUME NEW w \in Workers, AttachRead(w) PROVE TypeOK' /\ Shape'
  <2>1. CASE rdf[holder[w]].container
    <3>1. rdf[holder[w]] \in Graphs
      BY <2>1, DocFacts DEF TypeOK, Docs
    <3>2. TypeOK'
      BY <1>6, <2>1, <3>1 DEF AttachRead, TypeOK, Continue, Remember, Goto, Docs
    <3>3. Shape'
      BY <1>6, <2>1, <3>1 DEF AttachRead, TypeOK, Shape, Holds, Continue, Remember, Goto
    <3> QED
      BY <3>2, <3>3
  <2>2. CASE ~rdf[holder[w]].container
    BY <1>2, <1>6, <2>2 DEF AttachRead, TypeOK
  <2> QED
    BY <2>1, <2>2
<1>7. ASSUME NEW w \in Workers, ListWrite(w) PROVE TypeOK' /\ Shape'
  <2>1. holder[w] \in Uris /\ member[w] \in Uris
    BY DEF TypeOK
  <2>2. [snap[w] EXCEPT !.contains = snap[w].contains \cup {member[w]}] \in Graphs
    BY <1>7, <2>1, DocFacts DEF ListWrite, Shape, Holds, Docs
  <2>3. rdf' \in [Uris -> Graphs \cup {Nothing}]
    BY <1>7, <2>1, <2>2 DEF ListWrite, TypeOK
  <2>4. attached' \subseteq Uris \X Uris /\ torn' \subseteq Uris
    BY <1>7, <2>1 DEF ListWrite, TypeOK
  <2> QED
    BY <1>2, <1>7, <2>3, <2>4 DEF ListWrite, TypeOK
<1>8. ASSUME NEW w \in Workers, PostRead(w) PROVE TypeOK' /\ Shape'
  <2>1. CASE Answer(w, "404") \/ Answer(w, "405")
    BY <1>2, <1>8, <2>1 DEF PostRead, TypeOK
  <2>2. CASE /\ rdf[job[w].uri].container
             /\ Continue(w, "postWrite")
             /\ Remember(w, rdf[job[w].uri])
             /\ UNCHANGED <<member, holder>>
    <3>1. job[w].uri \in Uris
      BY DEF TypeOK, Jobs
    <3>2. rdf[job[w].uri] \in Graphs
      BY <2>2, <3>1, DocFacts DEF TypeOK, Docs
    <3>3. TypeOK'
      BY <1>8, <2>2, <3>2 DEF PostRead, TypeOK, Continue, Remember, Goto, Docs
    <3>4. Shape'
      BY <1>8, <2>2, <3>2 DEF PostRead, TypeOK, Shape, Holds, Continue, Remember, Goto
    <3> QED
      BY <3>3, <3>4
  <2> QED
    BY <1>8, <2>1, <2>2 DEF PostRead
<1>9. ASSUME NEW w \in Workers, PostWrite(w) PROVE TypeOK' /\ Shape'
  <2>1. CASE (Answer(w, "400") \/ Answer(w, "none")) /\ UNCHANGED <<store, claimed>>
    BY <1>2, <1>9, <2>1 DEF PostWrite, TypeOK
  <2>2. CASE \E x \in Mintable[job[w].uri] :
                /\ StoreDoc(x, job[w].doc) /\ Claim(x, job[w].doc)
                /\ member' = [member EXCEPT ![w] = x]
                /\ holder' = [holder EXCEPT ![w] = job[w].uri]
                /\ Continue(w, "listWrite")
                /\ UNCHANGED snap
    <3>1. PICK x \in Mintable[job[w].uri] :
                /\ StoreDoc(x, job[w].doc) /\ Claim(x, job[w].doc)
                /\ member' = [member EXCEPT ![w] = x]
                /\ holder' = [holder EXCEPT ![w] = job[w].uri]
                /\ Continue(w, "listWrite")
                /\ UNCHANGED snap
      BY <2>2
    <3>2. job[w].uri \in Uris /\ job[w].doc \in Graphs \cup Blobs
      BY <1>9 DEF TypeOK, Jobs, Shape, Holds, PostWrite
    <3>3. x \in Uris
      BY <3>2, UrisAssumption
    <3>4. rdf' \in [Uris -> Graphs \cup {Nothing}] /\ bin' \in [Uris -> Blobs \cup {Nothing}]
      BY <3>1, <3>2, <3>3, Storing DEF TypeOK
    <3>5. TypeOK'
      <4>1. claimed' \subseteq Uris \X Uris
        BY <3>1, <3>2, <3>3, Claims DEF Docs
      <4> QED
        BY <1>9, <3>1, <3>2, <3>3, <3>4, <4>1 DEF PostWrite, TypeOK, Continue, Goto
    <3>6. Shape'
      BY <1>9, <3>1 DEF PostWrite, TypeOK, Shape, Holds, Continue, Goto
    <3> QED
      BY <3>5, <3>6
  <2> QED
    BY <1>9, <2>1, <2>2 DEF PostWrite
<1>10. ASSUME NEW w \in Workers, DeleteCheck(w) PROVE TypeOK' /\ Shape'
  <2>1. CASE Answer(w, "409")
    BY <1>2, <1>10, <2>1 DEF DeleteCheck, TypeOK
  <2>2. CASE Continue(w, "deleteApply") /\ UNCHANGED <<snap, member, holder>>
    BY <1>10, <2>2 DEF DeleteCheck, TypeOK, Shape, Holds, Continue, Goto
  <2> QED
    BY <1>10, <2>1, <2>2 DEF DeleteCheck
<1>11. ASSUME NEW w \in Workers, DeleteApply(w) PROVE TypeOK' /\ Shape'
  <2>1. rdf' \in [Uris -> Graphs \cup {Nothing}] /\ bin' \in [Uris -> Blobs \cup {Nothing}]
    BY <1>11 DEF DeleteApply, TypeOK
  <2>2. CASE \E code \in {"403", "404", "500", "204"} : Answer(w, code)
    BY <1>2, <1>11, <2>1, <2>2 DEF DeleteApply, TypeOK
  <2>3. CASE Continue(w, "detachRead") /\ UNCHANGED <<snap, member, holder>>
    BY <1>11, <2>1, <2>3 DEF DeleteApply, TypeOK, Shape, Holds, Continue, Goto
  <2> QED
    BY <1>11, <2>2, <2>3 DEF DeleteApply
<1>12. ASSUME NEW w \in Workers, DetachRead(w) PROVE TypeOK' /\ Shape'
  <2>1. CASE rdf[Parent[job[w].uri]] = Nothing
    BY <1>2, <1>12, <2>1 DEF DetachRead, TypeOK
  <2>2. CASE rdf[Parent[job[w].uri]] # Nothing
    <3>1. Parent[job[w].uri] \in Uris
      BY UrisAssumption DEF TypeOK, Jobs
    <3>2. rdf[Parent[job[w].uri]] \in Graphs
      BY <2>2, <3>1 DEF TypeOK
    <3>3. TypeOK'
      BY <1>12, <2>2, <3>2 DEF DetachRead, TypeOK, Continue, Remember, Goto, Docs
    <3>4. Shape'
      BY <1>12, <2>2, <3>2 DEF DetachRead, TypeOK, Shape, Holds, Continue, Remember, Goto
    <3> QED
      BY <3>3, <3>4
  <2> QED
    BY <2>1, <2>2
<1>13. ASSUME NEW w \in Workers, DetachWrite(w) PROVE TypeOK' /\ Shape'
  <2>1. Parent[job[w].uri] \in Uris
    BY UrisAssumption DEF TypeOK, Jobs
  <2>2. [snap[w] EXCEPT !.contains = snap[w].contains \ {job[w].uri}] \in Graphs
    BY <1>13, DocFacts DEF DetachWrite, Shape, Holds, Docs
  <2>3. rdf' \in [Uris -> Graphs \cup {Nothing}]
    BY <1>13, <2>1, <2>2 DEF DetachWrite, TypeOK
  <2> QED
    BY <1>2, <1>13, <2>3 DEF DetachWrite, TypeOK
<1>14. CASE Restart
  <2>1. rdf' \in [Uris -> Graphs \cup {Nothing}]
    BY <1>14, UrisAssumption, DocFacts DEF Restart, TypeOK
  <2>2. torn' \subseteq Uris
    BY <1>14 DEF Restart, TypeOK, Jobs
  <2> QED
    BY <1>1, <1>14, <2>1, <2>2, UrisAssumption, DocFacts DEF Restart, TypeOK, Shape, Holds
<1>15. CASE UNCHANGED vars
  BY <1>15 DEF vars, TypeOK, Shape, Holds
<1> QED
  BY <1>3, <1>4, <1>5, <1>6, <1>7, <1>8, <1>9, <1>10, <1>11, <1>12, <1>13, <1>14, <1>15
  DEF Next, Serve, Put, Post, Delete

(* Every handler keeps the store and its own state in shape. *)
THEOREM TypeCorrect == Spec => []TypeOK
  BY InitTyped, TypedStep, PTL DEF Spec

----------------------------------------------------------------------------
(* Containment is server-managed. *)

Listed(c, graph, pairs) == \A m \in Uris : m \in graph.contains => <<c, m>> \in pairs

(* The pairs that a handler listed, or a client's body claimed. *)
Known == attached \cup claimed

(* What a worker will write back lists only members that are known.         *)
Carries(where, j, graph, c, pairs) ==
    /\ where \in {"putWrite", "postWrite"} => Listed(j.uri, graph, pairs)
    /\ where = "listWrite" => Listed(c, graph, pairs)
    /\ where = "detachWrite" => Listed(Parent[j.uri], graph, pairs)

StoreListed == \A c \in Uris : Listed(c, rdf[c], Known)
Carried == \A w \in Workers : Carries(pc[w], job[w], snap[w], holder[w], Known)

(* One more pair spoils nothing. *)
LEMMA ListedGrows ==
    ASSUME NEW c, NEW graph, NEW p, NEW q, p \subseteq q, Listed(c, graph, p)
    PROVE  Listed(c, graph, q)
  BY DEF Listed

LEMMA CarriesGrows ==
    ASSUME NEW where, NEW j, NEW graph, NEW c, NEW p, NEW q, p \subseteq q,
           Carries(where, j, graph, c, p)
    PROVE  Carries(where, j, graph, c, q)
  BY ListedGrows DEF Carries

LEMMA PairsStay == [Next]_vars => attached \subseteq attached' /\ claimed \subseteq claimed'
<1> USE DEF store, history
<1>1. ASSUME NEW w \in Workers, Serve(w) PROVE attached \subseteq attached' /\ claimed \subseteq claimed'
  <2>1. CASE Arrive(w)
    BY <2>1 DEF Arrive
  <2>2. CASE PutWrite(w)
    BY <2>2 DEF PutWrite, Claim
  <2>3. CASE PostWrite(w)
    BY <2>3 DEF PostWrite, Claim
  <2>4. CASE ListWrite(w) \/ DetachWrite(w)
    BY <2>4 DEF ListWrite, DetachWrite
  <2>5. CASE DeleteApply(w)
    BY <2>5 DEF DeleteApply
  <2>6. CASE PutCheck(w) \/ AttachRead(w) \/ PostRead(w) \/ DeleteCheck(w) \/ DetachRead(w)
    BY <2>6 DEF PutCheck, AttachRead, PostRead, DeleteCheck, DetachRead
  <2> QED
    BY <1>1, <2>1, <2>2, <2>3, <2>4, <2>5, <2>6 DEF Serve, Put, Post, Delete
<1>2. Restart \/ UNCHANGED vars => UNCHANGED <<attached, claimed>>
  BY DEF Restart, vars
<1> QED
  BY <1>1, <1>2 DEF Next

LEMMA ListingsInductive ==
    TypeOK /\ StoreListed /\ Carried /\ [Next]_vars => StoreListed' /\ Carried'
<1> SUFFICES ASSUME TypeOK, StoreListed, Carried, [Next]_vars PROVE StoreListed' /\ Carried'
  OBVIOUS
<1> USE DEF store, history
<1>0. PICK known, knownNext : known = Known /\ knownNext = Known' /\ known \subseteq knownNext
  BY PairsStay DEF Known
<1>a. /\ StoreListed <=> \A c \in Uris : Listed(c, rdf[c], known)
      /\ StoreListed' <=> \A c \in Uris : Listed(c, rdf'[c], knownNext)
      /\ Carried <=> \A w \in Workers : Carries(pc[w], job[w], snap[w], holder[w], known)
      /\ Carried' <=> \A w \in Workers : Carries(pc'[w], job'[w], snap'[w], holder'[w], knownNext)
  BY <1>0 DEF StoreListed, Carried
<1>b. \A where, j, graph, c :
         Carries(where, j, graph, c, known) => Carries(where, j, graph, c, knownNext)
  BY <1>0, CarriesGrows
<1>1. ASSUME NEW w \in Workers, NEW code, Answer(w, code) PROVE Carried'
  <2>1. ASSUME NEW x \in Workers
        PROVE  \/ pc'[x] = "idle"
               \/ /\ pc'[x] = pc[x] /\ job'[x] = job[x]
                  /\ snap'[x] = snap[x] /\ holder'[x] = holder[x]
    BY <1>1 DEF TypeOK, Answer, Goto
  <2>2. ASSUME NEW x \in Workers PROVE Carries(pc'[x], job'[x], snap'[x], holder'[x], knownNext)
    <3>1. CASE pc'[x] = "idle"
      BY <3>1 DEF Carries
    <3>2. CASE /\ pc'[x] = pc[x] /\ job'[x] = job[x]
               /\ snap'[x] = snap[x] /\ holder'[x] = holder[x]
      BY <3>2, <1>a, <1>b
    <3> QED
      BY <2>1, <3>1, <3>2
  <2> QED
    BY <1>a, <2>2
<1>2. ASSUME NEW w \in Workers, NEW where, Continue(w, where),
             Carries(where, job[w], snap'[w], holder'[w], known),
             \A x \in Workers \ {w} : snap'[x] = snap[x] /\ holder'[x] = holder[x]
      PROVE  Carried'
  <2>1. pc'[w] = where /\ job' = job /\ \A x \in Workers \ {w} : pc'[x] = pc[x]
    BY <1>2 DEF TypeOK, Continue, Goto
  <2>2. ASSUME NEW x \in Workers PROVE Carries(pc'[x], job'[x], snap'[x], holder'[x], knownNext)
    BY <1>2, <1>a, <1>b, <2>1
  <2> QED
    BY <1>a, <2>2
<1>3. ASSUME UNCHANGED rdf PROVE StoreListed'
  BY <1>0, <1>3, <1>a, ListedGrows
<1>4. ASSUME NEW u \in Uris, NEW doc, StoreDoc(u, doc), Listed(u, doc, knownNext)
      PROVE  StoreListed'
  <2>1. ASSUME NEW c \in Uris PROVE rdf'[c] = rdf[c] \/ (c = u /\ rdf'[c] = doc)
    BY <1>4 DEF TypeOK, StoreDoc
  <2>2. \A c \in Uris : Listed(c, rdf[c], knownNext)
    BY <1>0, <1>a, ListedGrows
  <2> QED
    BY <1>4, <1>a, <2>1, <2>2
<1>5. ASSUME NEW w \in Workers, Arrive(w) PROVE StoreListed' /\ Carried'
  <2>1. StoreListed'
    BY <1>3, <1>5 DEF Arrive
  <2>2. ASSUME NEW x \in Workers
        PROVE  \/ pc'[x] \in {"putCheck", "postRead", "deleteCheck"}
               \/ /\ pc'[x] = pc[x] /\ job'[x] = job[x]
                  /\ snap'[x] = snap[x] /\ holder'[x] = holder[x]
    BY <1>5 DEF Arrive, Goto, TypeOK
  <2>3. ASSUME NEW x \in Workers PROVE Carries(pc'[x], job'[x], snap'[x], holder'[x], knownNext)
    <3>1. CASE pc'[x] \in {"putCheck", "postRead", "deleteCheck"}
      BY <3>1 DEF Carries
    <3>2. CASE /\ pc'[x] = pc[x] /\ job'[x] = job[x]
               /\ snap'[x] = snap[x] /\ holder'[x] = holder[x]
      BY <3>2, <1>a, <1>b
    <3> QED
      BY <2>2, <3>1, <3>2
  <2> QED
    BY <1>a, <2>1, <2>3
<1>6. ASSUME NEW w \in Workers, PutCheck(w) PROVE StoreListed' /\ Carried'
  <2>1. StoreListed'
    BY <1>3, <1>6 DEF PutCheck
  <2>2. CASE \E code : Answer(w, code)
    BY <1>1, <1>6, <2>1, <2>2 DEF PutCheck
  <2>3. CASE Continue(w, "putWrite")
             /\ Remember(w, IF job[w].doc.form = "rdf" THEN rdf[job[w].uri] ELSE bin[job[w].uri])
             /\ UNCHANGED <<member, holder, store, history>>
    <3>1. job[w].uri \in Uris
      BY DEF TypeOK, Jobs
    <3>2. bin[job[w].uri].contains = {}
      BY <3>1, DocFacts DEF TypeOK, Blobs
    <3>3. Listed(job[w].uri, snap'[w], known)
      BY <1>a, <2>3, <3>1, <3>2 DEF Remember, TypeOK, Listed
    <3>4. Carries("putWrite", job[w], snap'[w], holder'[w], known)
      BY <3>3 DEF Carries
    <3> QED
      BY <1>2, <2>1, <2>3, <3>4 DEF Remember, TypeOK
  <2> QED
    BY <1>6, <2>2, <2>3 DEF PutCheck
<1>7. ASSUME NEW w \in Workers, PutWrite(w) PROVE StoreListed' /\ Carried'
  <2>1. StoreListed'
    <3>1. job[w].uri \in Uris /\ job[w].doc \in Docs
      BY DEF TypeOK, Jobs
    <3>2. Listed(job[w].uri, snap[w], knownNext)
      BY <1>0, <1>7, <1>a, ListedGrows DEF Carries, PutWrite
    <3>3. [job[w].doc EXCEPT !.contains = snap[w].contains].contains = snap[w].contains
      BY <3>1, DocFacts DEF Docs, Graphs, Blobs, Nothing
    <3>4. Merged(job[w].doc, snap[w]).contains
             \in {snap[w].contains, IF snap[w].container \/ job[w].doc.container
                                    THEN {} ELSE job[w].doc.contains}
      <4>1. CASE job[w].doc.form = "rdf" /\ (snap[w].container \/ job[w].doc.container)
        BY <3>3, <4>1 DEF Merged
      <4>2. CASE ~(job[w].doc.form = "rdf" /\ (snap[w].container \/ job[w].doc.container))
        <5>1. Merged(job[w].doc, snap[w]) = job[w].doc
          BY <4>2 DEF Merged
        <5>2. job[w].doc.form # "rdf" => ~job[w].doc.container /\ job[w].doc.contains = {}
          BY <3>1, DocFacts DEF Docs, Blobs, Graphs
        <5> QED
          BY <4>2, <5>1, <5>2
      <4> QED
        BY <4>1, <4>2
    <3>5. CASE job[w].uri \notin Reserved
      <4>1. ~(snap[w].container \/ job[w].doc.container) => Claim(job[w].uri, job[w].doc)
        BY <1>7, <3>5 DEF PutWrite
      <4>2. ~(snap[w].container \/ job[w].doc.container)
               => Listed(job[w].uri, job[w].doc, knownNext)
        BY <1>0, <4>1 DEF Claim, Listed, Known
      <4>3. Listed(job[w].uri, Merged(job[w].doc, snap[w]), knownNext)
        BY <3>2, <3>4, <4>2 DEF Listed
      <4> QED
        BY <1>4, <1>7, <3>1, <3>5, <4>3 DEF PutWrite
    <3> QED
      BY <1>3, <1>7, <3>5 DEF PutWrite
  <2>2. Carried'
    <3>1. CASE \E code : Answer(w, code)
      BY <1>1, <1>7, <3>1 DEF PutWrite
    <3>2. CASE Continue(w, "attachRead") /\ UNCHANGED snap
               /\ holder' = [holder EXCEPT ![w] = Parent[job[w].uri]]
      <4>1. Carries("attachRead", job[w], snap'[w], holder'[w], known)
        BY DEF Carries
      <4> QED
        BY <1>2, <1>7, <3>2, <4>1 DEF PutWrite, TypeOK
    <3> QED
      BY <1>7, <3>1, <3>2 DEF PutWrite
  <2> QED
    BY <2>1, <2>2
<1>8. ASSUME NEW w \in Workers, AttachRead(w) PROVE StoreListed' /\ Carried'
  <2>1. StoreListed'
    BY <1>3, <1>8 DEF AttachRead
  <2>2. CASE rdf[holder[w]].container
    <3>1. holder'[w] = holder[w] /\ snap'[w] = rdf[holder[w]]
      BY <1>8, <2>2 DEF AttachRead, Remember, TypeOK
    <3>2. Listed(holder[w], rdf[holder[w]], known)
      BY <1>a DEF TypeOK
    <3>3. Carries("listWrite", job[w], snap'[w], holder'[w], known)
      BY <3>1, <3>2 DEF Carries
    <3> QED
      BY <1>2, <1>8, <2>1, <2>2, <3>3 DEF AttachRead, Remember, TypeOK
  <2>3. CASE ~rdf[holder[w]].container
    BY <1>1, <1>8, <2>1, <2>3 DEF AttachRead
  <2> QED
    BY <2>2, <2>3
<1>9. ASSUME NEW w \in Workers, ListWrite(w) PROVE StoreListed' /\ Carried'
  <2>1. /\ rdf' = [rdf EXCEPT ![holder[w]] =
                      [snap[w] EXCEPT !.contains = snap[w].contains \cup {member[w]}]]
        /\ attached' = attached \cup {<<holder[w], member[w]>>}
    BY <1>9 DEF ListWrite
  <2>2. Listed(holder[w], snap[w], knownNext)
    BY <1>0, <1>9, <1>a, ListedGrows DEF Carries, ListWrite
  <2>3. [snap[w] EXCEPT !.contains = snap[w].contains \cup {member[w]}].contains
          = snap[w].contains \cup {member[w]}
    BY DocFacts DEF TypeOK, Docs, Graphs, Blobs, Nothing
  <2>4. <<holder[w], member[w]>> \in knownNext
    BY <1>0, <2>1 DEF Known
  <2>5. ASSUME NEW c \in Uris PROVE Listed(c, rdf'[c], knownNext)
    <3>1. CASE c = holder[w]
      BY <2>1, <2>2, <2>3, <2>4, <3>1 DEF TypeOK, Listed
    <3>2. CASE c # holder[w]
      BY <1>0, <1>a, <2>1, <3>2, ListedGrows DEF TypeOK
    <3> QED
      BY <3>1, <3>2
  <2>6. Carried'
    BY <1>1, <1>9 DEF ListWrite
  <2> QED
    BY <1>a, <2>5, <2>6
<1>10. ASSUME NEW w \in Workers, PostRead(w) PROVE StoreListed' /\ Carried'
  <2>1. StoreListed'
    BY <1>3, <1>10 DEF PostRead
  <2>2. CASE \E code : Answer(w, code)
    BY <1>1, <1>10, <2>1, <2>2 DEF PostRead
  <2>3. CASE /\ Continue(w, "postWrite")
             /\ Remember(w, rdf[job[w].uri])
             /\ UNCHANGED <<member, holder>>
    <3>1. snap'[w] = rdf[job[w].uri]
      BY <2>3 DEF Remember, TypeOK
    <3>2. Listed(job[w].uri, rdf[job[w].uri], known)
      BY <1>a DEF TypeOK, Jobs
    <3>3. Carries("postWrite", job[w], snap'[w], holder'[w], known)
      BY <3>1, <3>2 DEF Carries
    <3> QED
      BY <1>2, <1>10, <2>1, <2>3, <3>3 DEF PostRead, Remember, TypeOK
  <2> QED
    BY <1>10, <2>2, <2>3 DEF PostRead
<1>11. ASSUME NEW w \in Workers, PostWrite(w) PROVE StoreListed' /\ Carried'
  <2>1. CASE \E code : Answer(w, code) /\ UNCHANGED store
    BY <1>1, <1>3, <1>11, <2>1 DEF PostWrite
  <2>2. CASE \E x \in Mintable[job[w].uri] :
                /\ StoreDoc(x, job[w].doc) /\ Claim(x, job[w].doc)
                /\ holder' = [holder EXCEPT ![w] = job[w].uri]
                /\ Continue(w, "listWrite")
                /\ UNCHANGED snap
    <3>1. PICK x \in Mintable[job[w].uri] :
                /\ StoreDoc(x, job[w].doc) /\ Claim(x, job[w].doc)
                /\ holder' = [holder EXCEPT ![w] = job[w].uri]
                /\ Continue(w, "listWrite")
                /\ UNCHANGED snap
      BY <2>2
    <3>2. x \in Uris
      BY UrisAssumption DEF TypeOK, Jobs
    <3>3. Listed(job[w].uri, snap[w], known)
      BY <1>11, <1>a DEF Carries, PostWrite
    <3>4. Listed(x, job[w].doc, knownNext)
      BY <1>0, <3>1 DEF Claim, Listed, Known
    <3>5. StoreListed'
      BY <1>4, <1>11, <3>1, <3>2, <3>4 DEF PostWrite
    <3>6. Carries("listWrite", job[w], snap'[w], holder'[w], known)
      BY <3>1, <3>3 DEF Carries, TypeOK
    <3> QED
      BY <1>2, <1>11, <3>1, <3>5, <3>6 DEF PostWrite, TypeOK
  <2> QED
    BY <1>11, <2>1, <2>2 DEF PostWrite
<1>12. ASSUME NEW w \in Workers, DeleteCheck(w) \/ DeleteApply(w) PROVE StoreListed' /\ Carried'
  <2>1. StoreListed'
    <3>1. ASSUME NEW c \in Uris PROVE rdf'[c] = rdf[c] \/ rdf'[c] = Nothing
      BY <1>12 DEF DeleteCheck, DeleteApply, TypeOK
    <3>2. \A c \in Uris : Listed(c, rdf[c], knownNext) /\ Listed(c, Nothing, knownNext)
      BY <1>0, <1>a, ListedGrows, DocFacts DEF Listed
    <3> QED
      BY <1>a, <3>1, <3>2
  <2>2. CASE \E code : Answer(w, code)
    BY <1>1, <1>12, <2>1, <2>2 DEF DeleteCheck, DeleteApply
  <2>3. CASE \E where \in {"deleteApply", "detachRead"} :
                Continue(w, where) /\ UNCHANGED <<snap, member, holder>>
    <3>1. PICK where \in {"deleteApply", "detachRead"} :
                Continue(w, where) /\ UNCHANGED <<snap, member, holder>>
      BY <2>3
    <3>2. Carries(where, job[w], snap'[w], holder'[w], known)
      BY DEF Carries
    <3> QED
      BY <1>2, <1>12, <2>1, <3>1, <3>2 DEF DeleteCheck, DeleteApply
  <2> QED
    BY <1>12, <2>2, <2>3 DEF DeleteCheck, DeleteApply
<1>13. ASSUME NEW w \in Workers, DetachRead(w) PROVE StoreListed' /\ Carried'
  <2>1. StoreListed'
    BY <1>3, <1>13 DEF DetachRead
  <2>2. CASE rdf[Parent[job[w].uri]] = Nothing
    BY <1>1, <1>13, <2>1, <2>2 DEF DetachRead
  <2>3. CASE rdf[Parent[job[w].uri]] # Nothing
    <3>1. Parent[job[w].uri] \in Uris
      BY UrisAssumption DEF TypeOK, Jobs
    <3>2. snap'[w] = rdf[Parent[job[w].uri]]
      BY <1>13, <2>3 DEF DetachRead, Remember, TypeOK
    <3>3. Carries("detachWrite", job[w], snap'[w], holder'[w], known)
      BY <1>a, <3>1, <3>2 DEF Carries
    <3> QED
      BY <1>2, <1>13, <2>1, <2>3, <3>3 DEF DetachRead, Remember, TypeOK
  <2> QED
    BY <2>2, <2>3
<1>14. ASSUME NEW w \in Workers, DetachWrite(w) PROVE StoreListed' /\ Carried'
  <2>1. rdf' = [rdf EXCEPT ![Parent[job[w].uri]] =
                   [snap[w] EXCEPT !.contains = snap[w].contains \ {job[w].uri}]]
    BY <1>14 DEF DetachWrite
  <2>2. Listed(Parent[job[w].uri], snap[w], knownNext)
    BY <1>0, <1>14, <1>a, ListedGrows DEF Carries, DetachWrite
  <2>3. [snap[w] EXCEPT !.contains = snap[w].contains \ {job[w].uri}].contains
          = snap[w].contains \ {job[w].uri}
    BY DocFacts DEF TypeOK, Docs, Graphs, Blobs, Nothing
  <2>4. ASSUME NEW c \in Uris PROVE Listed(c, rdf'[c], knownNext)
    <3>1. CASE c = Parent[job[w].uri]
      BY <2>1, <2>2, <2>3, <3>1 DEF TypeOK, Listed
    <3>2. CASE c # Parent[job[w].uri]
      BY <1>0, <1>a, <2>1, <3>2, ListedGrows DEF TypeOK
    <3> QED
      BY <3>1, <3>2
  <2>5. Carried'
    BY <1>1, <1>14 DEF DetachWrite
  <2> QED
    BY <1>a, <2>4, <2>5
<1>15. CASE Restart
  <2>1. ASSUME NEW c \in Uris PROVE rdf'[c] = rdf[c] \/ rdf'[c] = EmptyRoot
    BY <1>15 DEF Restart, TypeOK
  <2>2. \A c \in Uris : Listed(c, rdf[c], knownNext) /\ Listed(c, EmptyRoot, knownNext)
    BY <1>0, <1>a, ListedGrows, DocFacts DEF Listed
  <2>3. Carried'
    BY <1>15 DEF Restart, Carried, Carries
  <2> QED
    BY <1>a, <2>1, <2>2, <2>3
<1>16. CASE UNCHANGED vars
  <2>1. StoreListed'
    BY <1>3, <1>16 DEF vars
  <2>2. Carried'
    BY <1>16, <1>a, <1>b DEF vars
  <2> QED
    BY <2>1, <2>2
<1> QED
  BY <1>5, <1>6, <1>7, <1>8, <1>9, <1>10, <1>11, <1>12, <1>13, <1>14, <1>15, <1>16
  DEF Next, Serve, Put, Post, Delete

LEMMA InitListed == Init => StoreListed /\ Carried
<1> SUFFICES ASSUME Init PROVE StoreListed /\ Carried
  OBVIOUS
<1>1. StoreListed
  <2> SUFFICES ASSUME NEW c \in Uris, NEW m \in Uris, m \in rdf[c].contains
               PROVE  <<c, m>> \in attached
    BY DEF StoreListed, Listed, Known
  <2>1. attached = {p \in Uris \X Uris : p[2] \in rdf[p[1]].contains}
    BY DEF Init
  <2> QED
    BY <2>1
<1>2. Carried
  BY DEF Init, Carried, Carries
<1> QED
  BY <1>1, <1>2

(* Whatever bodies the client sends, however the threads interleave and     *)
(* wherever the server is stopped, stale write-backs included, a container  *)
(* lists only members that a handler has listed in it, or that the body of  *)
(* its POST, or of a PUT as a plain resource, listed.                       *)
THEOREM ListingsManaged == Spec => []ContainmentManaged
<1>1. StoreListed => ContainmentManaged
  BY DEF StoreListed, Listed, ContainmentManaged, Known
<1> QED
  BY <1>1, ListingsInductive, InitListed, TypeCorrect, PTL DEF Spec

----------------------------------------------------------------------------
(* Threads that work on different parts of the pod. *)

(* The resources that the requests of w read and write: their targets, the *)
(* containers those are listed in, the members a POST may mint.             *)
Zone(w) == Reach[w] \cup {Parent[u] : u \in Reach[w]} \cup UNION {Mintable[u] : u \in Reach[w]}

(* A single thread is apart, whatever its requests are about. *)
ZonesApart == \A w, x \in Workers : w # x => Zone(w) \cap Zone(x) = {}

StoredFor(w) == IF job[w].doc.form = "rdf" THEN rdf[job[w].uri] ELSE bin[job[w].uri]

(* What w has read is what is there: its decision still stands when it      *)
(* writes.                                                                  *)
Current(w) ==
    LET u == job[w].uri IN
    /\ pc[w] # "idle" => u \in Reach[w]
    /\ pc[w] = "putWrite" =>
          snap[w] = StoredFor(w) /\ Admits(job[w].cond, job[w].etag, snap[w])
    /\ pc[w] = "attachRead" =>
          member[w] = u /\ holder[w] = Parent[u] /\ Parent[u] # u /\ Exists(u)
    /\ pc[w] = "postWrite" => snap[w] = rdf[u] /\ rdf[u].container
    /\ pc[w] = "listWrite" =>
          /\ holder[w] \in Zone(w) /\ member[w] \in Zone(w) /\ holder[w] # member[w]
          /\ Parent[member[w]] = holder[w] \/ member[w] \in Mintable[holder[w]]
          /\ snap[w] = rdf[holder[w]] /\ rdf[holder[w]].container /\ Exists(member[w])
    /\ pc[w] = "deleteApply" => (rdf[u].container => rdf[u].contains = {})
    /\ pc[w] \in {"detachRead", "detachWrite"} => Parent[u] # u
    /\ pc[w] = "detachWrite" => snap[w] = rdf[Parent[u]] /\ rdf[Parent[u]] # Nothing
AllCurrent == \A w \in Workers : Current(w)

LEMMA ZoneFacts ==
    /\ \A w \in Workers : \A u \in Reach[w] :
          u \in Zone(w) /\ Parent[u] \in Zone(w) /\ Mintable[u] \subseteq Zone(w)
    /\ \A w \in Workers : Zone(w) \subseteq Uris
  BY UrisAssumption, RequestsAssumption DEF Zone

(* What a step of w leaves alone: the other threads and their parts of the  *)
(* pod.                                                                     *)
Undisturbed(x) ==
    /\ pc'[x] = pc[x] /\ job'[x] = job[x] /\ snap'[x] = snap[x]
    /\ member'[x] = member[x] /\ holder'[x] = holder[x]
Local(w) ==
    /\ \A x \in Workers \ {w} : Undisturbed(x)
    /\ \A u \in Uris \ Zone(w) : rdf'[u] = rdf[u] /\ bin'[u] = bin[u]

LEMMA AnswerLocal ==
    ASSUME TypeOK, NEW w \in Workers, NEW code, Answer(w, code)
    PROVE  /\ \A x \in Workers \ {w} : Undisturbed(x)
           /\ pc'[w] = "idle"
  BY DEF Answer, Goto, TypeOK, Undisturbed

LEMMA ContinueLocal ==
    ASSUME TypeOK, NEW w \in Workers, NEW where, Continue(w, where),
           \A x \in Workers \ {w} : snap'[x] = snap[x] /\ member'[x] = member[x]
                                                       /\ holder'[x] = holder[x]
    PROVE  /\ \A x \in Workers \ {w} : Undisturbed(x)
           /\ pc'[w] = where /\ job'[w] = job[w]
  BY DEF Continue, Goto, TypeOK, Undisturbed

LEMMA RememberLocal ==
    ASSUME TypeOK, NEW w \in Workers, NEW g, Remember(w, g)
    PROVE  snap'[w] = g /\ \A x \in Workers \ {w} : snap'[x] = snap[x]
  BY DEF Remember, TypeOK

LEMMA StoreDocLocal ==
    ASSUME TypeOK, NEW u \in Uris, NEW doc, StoreDoc(u, doc)
    PROVE  /\ \A v \in Uris \ {u} : rdf'[v] = rdf[v] /\ bin'[v] = bin[v]
           /\ IF doc.form = "rdf" THEN rdf'[u] = doc /\ bin'[u] = bin[u]
                                  ELSE bin'[u] = doc /\ rdf'[u] = rdf[u]
  BY DEF StoreDoc, TypeOK

LEMMA AnswerCurrent == ASSUME NEW w \in Workers, pc'[w] = "idle" PROVE Current(w)'
  BY DEF Current

(* The first action of each request leaves the store alone. *)
LEMMA ArriveCurrent ==
    ASSUME TypeOK, NEW w \in Workers, Arrive(w) PROVE Local(w) /\ Current(w)'
<1> USE DEF store, history
<1>1. PICK u, j, where :
         /\ u \in Reach[w] /\ where \in {"putCheck", "postRead", "deleteCheck"}
         /\ job' = [job EXCEPT ![w] = j] /\ j.uri = u /\ Goto(w, where)
  <2> DEFINE Takes(u) == \E j, where : /\ where \in {"putCheck", "postRead", "deleteCheck"}
                                       /\ job' = [job EXCEPT ![w] = j]
                                       /\ j.uri = u /\ Goto(w, where)
  <2>1. ASSUME NEW u, NEW doc, NEW cond, NEW etag, Goto(w, "putCheck"),
               job' = [job EXCEPT ![w] = [method |-> "PUT", uri |-> u, doc |-> doc,
                                          cond |-> cond, etag |-> etag]]
        PROVE  Takes(u)
    <3>1. [method |-> "PUT", uri |-> u, doc |-> doc, cond |-> cond, etag |-> etag].uri = u
      OBVIOUS
    <3> QED
      BY <2>1, <3>1
  <2>2. ASSUME NEW u, NEW doc, Goto(w, "postRead"),
               job' = [job EXCEPT ![w] = [NoJob EXCEPT !.method = "POST", !.uri = u, !.doc = doc]]
        PROVE  Takes(u)
    <3>1. [NoJob EXCEPT !.method = "POST", !.uri = u, !.doc = doc].uri = u
      BY DEF NoJob
    <3> QED
      BY <2>2, <3>1
  <2>3. ASSUME NEW u, Goto(w, "deleteCheck"),
               job' = [job EXCEPT ![w] = [NoJob EXCEPT !.uri = u]]
        PROVE  Takes(u)
    <3>1. [NoJob EXCEPT !.uri = u].uri = u
      BY DEF NoJob
    <3> QED
      BY <2>3, <3>1
  <2> HIDE DEF Takes
  <2>4. \E u \in Reach[w] : Takes(u)
    BY <2>1, <2>2, <2>3 DEF Arrive
  <2> QED
    BY <2>4 DEF Takes
<1>2. UNCHANGED <<rdf, bin, snap, member, holder>>
  BY DEF Arrive
<1>3. Local(w)
  BY <1>1, <1>2 DEF Local, Undisturbed, Goto, TypeOK
<1>4. job'[w].uri = u /\ pc'[w] = where
  BY <1>1 DEF Goto, TypeOK
<1> QED
  BY <1>1, <1>3, <1>4 DEF Current

(* A read finds what the write that follows it relies on. *)
LEMMA ReadCurrent ==
    ASSUME TypeOK, NEW w \in Workers, Current(w),
           PutCheck(w) \/ AttachRead(w) \/ PostRead(w) \/ DeleteCheck(w) \/ DetachRead(w)
    PROVE  Local(w) /\ Current(w)'
<1> USE DEF store, history
<1>1. UNCHANGED <<rdf, bin>> /\ pc[w] # "idle"
  BY DEF PutCheck, AttachRead, PostRead, DeleteCheck, DetachRead
<1>2. ASSUME NEW code, Answer(w, code) PROVE Local(w) /\ Current(w)'
  BY <1>1, <1>2, AnswerLocal, AnswerCurrent DEF Local
<1>3. ASSUME NEW where, NEW g, Continue(w, where), Remember(w, g), UNCHANGED <<member, holder>>
      PROVE  Local(w) /\ pc'[w] = where /\ job'[w] = job[w] /\ snap'[w] = g
  BY <1>1, <1>3, RememberLocal, ContinueLocal DEF Local
<1>4. job[w].uri \in Reach[w] /\ job[w].uri \in Uris
  BY <1>1, RequestsAssumption DEF Current
<1>5. CASE PutCheck(w)
  <2>1. CASE /\ Admits(job[w].cond, job[w].etag, StoredFor(w))
             /\ Continue(w, "putWrite") /\ Remember(w, StoredFor(w))
             /\ UNCHANGED <<member, holder>>
    <3>1. Local(w) /\ pc'[w] = "putWrite" /\ job'[w] = job[w] /\ snap'[w] = StoredFor(w)
      BY <1>3, <2>1
    <3> QED
      BY <1>1, <1>4, <2>1, <3>1 DEF Current, StoredFor
  <2> QED
    BY <1>2, <1>5, <2>1 DEF PutCheck, StoredFor
<1>6. CASE AttachRead(w)
  <2>1. /\ member[w] = job[w].uri /\ holder[w] = Parent[job[w].uri]
        /\ Parent[job[w].uri] # job[w].uri /\ Exists(job[w].uri)
    BY <1>6 DEF AttachRead, Current
  <2>2. CASE rdf[holder[w]].container
    <3>1. UNCHANGED <<member, holder>>
      BY <1>6, <2>2 DEF AttachRead
    <3>2. Local(w) /\ pc'[w] = "listWrite" /\ job'[w] = job[w] /\ snap'[w] = rdf[holder[w]]
      BY <1>3, <1>6, <2>2 DEF AttachRead
    <3>3. holder[w] \in Zone(w) /\ member[w] \in Zone(w)
      BY <1>4, <2>1, ZoneFacts
    <3> QED
      BY <1>1, <1>4, <2>1, <2>2, <3>1, <3>2, <3>3 DEF Current, Exists
  <2> QED
    BY <1>2, <1>6, <2>2 DEF AttachRead
<1>7. CASE PostRead(w)
  <2>1. CASE /\ rdf[job[w].uri].container /\ Continue(w, "postWrite")
             /\ Remember(w, rdf[job[w].uri]) /\ UNCHANGED <<member, holder>>
    <3>1. Local(w) /\ pc'[w] = "postWrite" /\ job'[w] = job[w] /\ snap'[w] = rdf[job[w].uri]
      BY <1>3, <2>1
    <3> QED
      BY <1>1, <1>4, <2>1, <3>1 DEF Current
  <2> QED
    BY <1>2, <1>7, <2>1 DEF PostRead
<1>8. CASE DeleteCheck(w)
  <2>1. CASE /\ rdf[job[w].uri].container => rdf[job[w].uri].contains = {}
             /\ Continue(w, "deleteApply") /\ UNCHANGED <<snap, member, holder>>
    <3>1. pc'[w] = "deleteApply" /\ job'[w] = job[w] /\ Local(w)
      BY <1>1, <2>1, ContinueLocal DEF Local
    <3> QED
      BY <1>1, <1>4, <2>1, <3>1 DEF Current
  <2> QED
    BY <1>2, <1>8, <2>1 DEF DeleteCheck
<1>9. CASE DetachRead(w)
  <2>1. CASE rdf[Parent[job[w].uri]] # Nothing
    <3>1. /\ Local(w) /\ pc'[w] = "detachWrite" /\ job'[w] = job[w]
          /\ snap'[w] = rdf[Parent[job[w].uri]]
      BY <1>3, <1>9, <2>1 DEF DetachRead
    <3>2. Parent[job[w].uri] # job[w].uri
      BY <1>9 DEF DetachRead, Current
    <3> QED
      BY <1>1, <1>4, <2>1, <3>1, <3>2 DEF Current
  <2> QED
    BY <1>2, <1>9, <2>1 DEF DetachRead
<1> QED
  BY <1>5, <1>6, <1>7, <1>8, <1>9

(* A document is not nothing, whatever it lists. *)
LEMMA Something ==
    /\ \A d \in Graphs \cup Blobs : d # Nothing
    /\ \A d \in Graphs, s \in SUBSET Uris :
          [d EXCEPT !.contains = s] \in Graphs /\ [d EXCEPT !.contains = s].contains = s
<1>1. Nothing.form = "none"
  BY DocFacts
<1> QED
  BY <1>1 DEF Graphs, Blobs

(* A write touches the part of the pod that its thread works on. *)
LEMMA PutWriteCurrent ==
    ASSUME TypeOK, Shape, NEW w \in Workers, Current(w), PutWrite(w)
    PROVE  Local(w) /\ Current(w)'
<1> DEFINE u == job[w].uri
           doc == Merged(job[w].doc, snap[w])
<1> USE DEF store, history
<1>1. u \in Reach[w] /\ u \in Uris /\ u \in Zone(w)
  BY RequestsAssumption, ZoneFacts DEF Current, PutWrite
<1>2. CASE Answer(w, "403") /\ UNCHANGED store
  BY <1>2, AnswerLocal, AnswerCurrent DEF Local
<1>3. CASE StoreDoc(u, doc)
  <2>1. /\ \A v \in Uris \ {u} : rdf'[v] = rdf[v] /\ bin'[v] = bin[v]
        /\ rdf'[u] = doc \/ bin'[u] = doc
    BY <1>1, <1>3, StoreDocLocal
  <2>2. doc # Nothing
    BY Merging, Something DEF TypeOK, Shape, Holds, PutWrite
  <2>3. CASE \E code : Answer(w, code)
    BY <1>1, <2>1, <2>3, AnswerLocal, AnswerCurrent DEF Local
  <2>4. CASE /\ Parent[u] # u /\ Continue(w, "attachRead") /\ UNCHANGED snap
             /\ member' = [member EXCEPT ![w] = u]
             /\ holder' = [holder EXCEPT ![w] = Parent[u]]
    <3>1. /\ member'[w] = u /\ holder'[w] = Parent[u]
          /\ \A x \in Workers \ {w} : snap'[x] = snap[x] /\ member'[x] = member[x]
                                                         /\ holder'[x] = holder[x]
      BY <2>4 DEF TypeOK
    <3>2. /\ \A x \in Workers \ {w} : Undisturbed(x)
          /\ pc'[w] = "attachRead" /\ job'[w] = job[w]
      BY <2>4, <3>1, ContinueLocal
    <3> QED
      BY <1>1, <2>1, <2>2, <2>4, <3>1, <3>2 DEF Local, Current, Exists
  <2> QED
    BY <1>2, <2>3, <2>4 DEF PutWrite
<1> QED
  BY <1>2, <1>3 DEF PutWrite

LEMMA PostWriteCurrent ==
    ASSUME TypeOK, Shape, NEW w \in Workers, Current(w), PostWrite(w)
    PROVE  Local(w) /\ Current(w)'
<1> DEFINE c == job[w].uri
           doc == job[w].doc
<1> USE DEF store, history
<1>1. c \in Reach[w] /\ c \in Uris /\ c \in Zone(w) /\ Mintable[c] \subseteq Zone(w)
  BY RequestsAssumption, ZoneFacts DEF Current, PostWrite
<1>2. CASE (Answer(w, "400") \/ Answer(w, "none")) /\ UNCHANGED store
  BY <1>2, AnswerLocal, AnswerCurrent DEF Local
<1>3. ASSUME NEW m \in Mintable[c], Fresh(m), StoreDoc(m, doc), UNCHANGED snap,
             member' = [member EXCEPT ![w] = m], holder' = [holder EXCEPT ![w] = c],
             Continue(w, "listWrite")
      PROVE  Local(w) /\ Current(w)'
  <2>1. m \in Zone(w) /\ m \in Uris
    BY <1>1, ZoneFacts
  <2>2. snap[w] = rdf[c] /\ rdf[c].container
    BY DEF Current, PostWrite
  <2>3. m # c
    BY <1>1, <1>3, <2>2, DocFacts DEF Fresh, Exists
  <2>4. /\ \A v \in Uris \ {m} : rdf'[v] = rdf[v] /\ bin'[v] = bin[v]
        /\ rdf'[m] = doc \/ bin'[m] = doc
    BY <1>3, <2>1, StoreDocLocal
  <2>5. doc # Nothing
    BY Something DEF Shape, Holds, PostWrite
  <2>6. /\ member'[w] = m /\ holder'[w] = c
        /\ \A x \in Workers \ {w} : snap'[x] = snap[x] /\ member'[x] = member[x]
                                                       /\ holder'[x] = holder[x]
    BY <1>3 DEF TypeOK
  <2>7. /\ \A x \in Workers \ {w} : Undisturbed(x)
        /\ pc'[w] = "listWrite" /\ job'[w] = job[w]
    BY <1>3, <2>6, ContinueLocal
  <2>8. rdf'[c] = rdf[c] /\ snap'[w] = snap[w]
    BY <1>1, <1>3, <2>3, <2>4
  <2>9. Local(w)
    BY <2>1, <2>4, <2>7 DEF Local
  <2>10. Exists(m)'
    BY <2>4, <2>5 DEF Exists
  <2> QED
    BY <1>1, <2>1, <2>2, <2>3, <2>6, <2>7, <2>8, <2>9, <2>10 DEF Current, Exists
<1> QED
  BY <1>2, <1>3 DEF PostWrite

LEMMA DeleteApplyCurrent ==
    ASSUME TypeOK, NEW w \in Workers, Current(w), DeleteApply(w)
    PROVE  Local(w) /\ Current(w)'
<1> USE DEF store, history
<1>1. job[w].uri \in Reach[w] /\ job[w].uri \in Uris /\ job[w].uri \in Zone(w)
  BY RequestsAssumption, ZoneFacts DEF Current, DeleteApply
<1>2. \A v \in Uris \ {job[w].uri} : rdf'[v] = rdf[v] /\ bin'[v] = bin[v]
  BY DEF DeleteApply, TypeOK
<1>3. CASE \E code : Answer(w, code)
  BY <1>1, <1>2, <1>3, AnswerLocal, AnswerCurrent DEF Local
<1>4. CASE /\ Parent[job[w].uri] # job[w].uri /\ Continue(w, "detachRead")
           /\ UNCHANGED <<snap, member, holder>>
  BY <1>1, <1>2, <1>4, ContinueLocal DEF Local, Current
<1> QED
  BY <1>3, <1>4 DEF DeleteApply

LEMMA WriteBackCurrent ==
    ASSUME TypeOK, NEW w \in Workers, Current(w), ListWrite(w) \/ DetachWrite(w)
    PROVE  Local(w) /\ Current(w)'
<1> DEFINE c == IF pc[w] = "listWrite" THEN holder[w] ELSE Parent[job[w].uri]
<1>1. c \in Zone(w)
  <2>1. pc[w] = "detachWrite" => job[w].uri \in Reach[w]
    BY DEF Current
  <2> QED
    BY <2>1, ZoneFacts DEF ListWrite, DetachWrite, Current
<1>2. UNCHANGED bin /\ \A v \in Uris \ {c} : rdf'[v] = rdf[v]
  BY DEF ListWrite, DetachWrite, TypeOK
<1>3. \E code : Answer(w, code)
  BY DEF ListWrite, DetachWrite
<1> QED
  BY <1>1, <1>2, <1>3, AnswerLocal, AnswerCurrent DEF Local

LEMMA ServeCurrent ==
    ASSUME TypeOK, Shape, NEW w \in Workers, Current(w), Serve(w)
    PROVE  Local(w) /\ Current(w)'
  BY ArriveCurrent, ReadCurrent, PutWriteCurrent, PostWriteCurrent, DeleteApplyCurrent,
     WriteBackCurrent
  DEF Serve, Put, Post, Delete

(* What happens in another part of the pod makes nothing out of date. *)
LEMMA KeptCurrent ==
    ASSUME ZonesApart, NEW w \in Workers, NEW x \in Workers \ {w}, Local(w), Current(x)
    PROVE  Current(x)'
<1>1. Undisturbed(x)
  BY DEF Local
<1>2. \A u \in Zone(x) : rdf'[u] = rdf[u] /\ bin'[u] = bin[u]
  BY ZoneFacts DEF ZonesApart, Local
<1>3. pc[x] # "idle" =>
         /\ job[x].uri \in Reach[x] /\ job[x].uri \in Zone(x) /\ Parent[job[x].uri] \in Zone(x)
  BY ZoneFacts DEF Current
<1> QED
  BY <1>1, <1>2, <1>3 DEF Undisturbed, Current, StoredFor, Exists

LEMMA CurrentStep ==
    ASSUME ZonesApart, TypeOK, Shape, AllCurrent, [Next]_vars PROVE AllCurrent'
<1>1. ASSUME NEW w \in Workers, Serve(w) PROVE AllCurrent'
  BY <1>1, ServeCurrent, KeptCurrent, ZonesApart DEF AllCurrent
<1>2. CASE Restart
  BY <1>2, AnswerCurrent DEF Restart, AllCurrent
<1>3. CASE UNCHANGED vars
  BY <1>3 DEF vars, AllCurrent, Current, StoredFor, Exists
<1> QED
  BY <1>1, <1>2, <1>3 DEF Next

LEMMA InitCurrent == Init => AllCurrent
  BY DEF Init, AllCurrent, Current

(* How w changes the graph c: what it writes back is what is there now, but *)
(* for its own change.                                                      *)
Replaces(w, c) ==
    /\ pc[w] = "putWrite" /\ c = job[w].uri /\ job[w].doc \in Graphs
    /\ rdf'[c] = Merged(job[w].doc, rdf[c])
    /\ ~(rdf[c].container \/ job[w].doc.container) => Claim(c, job[w].doc)
Mints(w, c) ==
    /\ pc[w] = "postWrite" /\ Fresh(c) /\ rdf'[c] = job[w].doc /\ Claim(c, job[w].doc)
Lists(w, c) ==
    /\ pc[w] = "listWrite" /\ c = holder[w] /\ rdf[c].container
    /\ rdf'[c] = [rdf[c] EXCEPT !.contains = rdf[c].contains \cup {member[w]}]
Drops(w, c) ==
    /\ pc[w] = "deleteApply" /\ c = job[w].uri
    /\ rdf[c].container => rdf[c].contains = {}
    /\ rdf'[c] = Nothing
Unlists(w, c) ==
    /\ pc[w] = "detachWrite" /\ c = Parent[job[w].uri] /\ rdf[c] # Nothing
    /\ rdf'[c] = [rdf[c] EXCEPT !.contains = rdf[c].contains \ {job[w].uri}]
Rewrites(w, c) ==
    Replaces(w, c) \/ Mints(w, c) \/ Lists(w, c) \/ Drops(w, c) \/ Unlists(w, c)

LEMMA Rewriting ==
    ASSUME TypeOK, Shape, NEW w \in Workers, Current(w), Serve(w), NEW c \in Uris
    PROVE  rdf'[c] = rdf[c] \/ Rewrites(w, c)
<1> USE DEF store, history
<1>1. CASE Arrive(w) \/ PutCheck(w) \/ AttachRead(w) \/ PostRead(w) \/ DeleteCheck(w)
           \/ DetachRead(w)
  BY <1>1 DEF Arrive, PutCheck, AttachRead, PostRead, DeleteCheck, DetachRead
<1>2. CASE PutWrite(w)
  <2>1. job[w].uri \in Uris
    BY DEF TypeOK, Jobs
  <2>2. /\ job[w].doc \in Graphs \cup Blobs
        /\ job[w].doc.form = "rdf" <=> job[w].doc \in Graphs
    BY <1>2, DocFacts DEF Shape, Holds, PutWrite, Docs
  <2>3. snap[w] = StoredFor(w)
    BY <1>2 DEF Current, PutWrite
  <2>4. Merged(job[w].doc, snap[w]).form = job[w].doc.form
    BY <2>2, Merging DEF TypeOK
  <2>5. CASE UNCHANGED rdf
    BY <2>5
  <2>6. CASE /\ StoreDoc(job[w].uri, Merged(job[w].doc, snap[w]))
             /\ ~(snap[w].container \/ job[w].doc.container) => Claim(job[w].uri, job[w].doc)
    <3>1. CASE c # job[w].uri
      BY <2>1, <2>6, <3>1, StoreDocLocal
    <3>2. CASE c = job[w].uri /\ job[w].doc.form # "rdf"
      BY <2>1, <2>4, <2>6, <3>2, StoreDocLocal
    <3>3. CASE c = job[w].uri /\ job[w].doc.form = "rdf"
      <4>1. rdf'[c] = Merged(job[w].doc, snap[w])
        BY <2>1, <2>4, <2>6, <3>3, StoreDocLocal
      <4>2. snap[w] = rdf[c]
        BY <2>3, <3>3 DEF StoredFor
      <4> QED
        BY <1>2, <2>2, <2>6, <3>3, <4>1, <4>2 DEF Rewrites, Replaces, PutWrite
    <3> QED
      BY <3>1, <3>2, <3>3
  <2> QED
    BY <1>2, <2>5, <2>6 DEF PutWrite
<1>3. CASE ListWrite(w)
  BY <1>3 DEF ListWrite, Current, TypeOK, Rewrites, Lists
<1>4. CASE PostWrite(w)
  <2>1. CASE UNCHANGED rdf
    BY <2>1
  <2>2. ASSUME NEW m \in Mintable[job[w].uri], Fresh(m), StoreDoc(m, job[w].doc),
               Claim(m, job[w].doc)
        PROVE  rdf'[c] = rdf[c] \/ Rewrites(w, c)
    <3>1. m \in Uris
      BY UrisAssumption DEF TypeOK, Jobs
    <3>2. CASE rdf'[m] = job[w].doc
      BY <1>4, <2>2, <3>1, <3>2, StoreDocLocal DEF Rewrites, Mints, PostWrite
    <3> QED
      BY <2>2, <3>1, <3>2, StoreDocLocal
  <2> QED
    BY <1>4, <2>1, <2>2 DEF PostWrite
<1>5. CASE DeleteApply(w)
  BY <1>5 DEF DeleteApply, Current, TypeOK, Rewrites, Drops
<1>6. CASE DetachWrite(w)
  BY <1>6 DEF DetachWrite, Current, TypeOK, Rewrites, Unlists
<1> QED
  BY <1>1, <1>2, <1>3, <1>4, <1>5, <1>6 DEF Serve, Put, Post, Delete

(* What is there of a container afterwards. *)
LEMMA MergedKeeps ==
    ASSUME NEW doc \in Graphs, NEW g \in Graphs \cup {Nothing}
    PROVE  /\ g.container \/ doc.container => Merged(doc, g).contains = g.contains
           /\ ~(g.container \/ doc.container) => Merged(doc, g).contains = doc.contains
           /\ Merged(doc, g).container = doc.container
           /\ Merged(doc, g).body = doc.body
           /\ Merged(doc, g) \in Graphs
  BY Something, DocFacts DEF Merged, Graphs

LEMMA RestartStore ==
    ASSUME TypeOK, Restart, NEW c \in Uris
    PROVE  \/ rdf'[c] = rdf[c]
           \/ c = Root /\ rdf[c] = Nothing /\ rdf'[c] = EmptyRoot
  BY DEF Restart, TypeOK

----------------------------------------------------------------------------
(* Threads that may share anything: what they decided on still stands when  *)
(* they write, but for those that were overtaken.                           *)

(* What w decided, and that it still holds of its target if nobody else has *)
(* changed that since.                                                      *)
Standing(w) ==
    /\ pc[w] = "putWrite" => Admits(job[w].cond, job[w].etag, snap[w])
    /\ w \notin overtaken =>
          /\ pc[w] = "putWrite" => snap[w] = Target(w)
          /\ pc[w] = "deleteApply" => (Target(w).container => Target(w).contains = {})
AllStanding == \A w \in Workers : Standing(w)

(* The target is what the request is about. *)
LEMMA TargetIs ==
    ASSUME Shape, NEW w \in Workers
    PROVE  /\ pc[w] \in {"putCheck", "putWrite"} => Target(w) = StoredFor(w)
           /\ pc[w] \in {"deleteCheck", "deleteApply"} => Target(w) = rdf[job[w].uri]
<1>1. CASE pc[w] \in {"putCheck", "putWrite"}
  <2>1. job[w].doc \in Graphs \cup Blobs
    BY <1>1 DEF Shape, Holds
  <2> QED
    BY <1>1, <2>1 DEF Graphs, Blobs, Target, StoredFor
<1>2. CASE pc[w] \in {"deleteCheck", "deleteApply"}
  BY <1>2, DocFacts DEF Shape, Holds, Target
<1> QED
  BY <1>1, <1>2

(* A step of w is its own, and takes it somewhere else. *)
LEMMA OwnStep ==
    ASSUME TypeOK, NEW w \in Workers, Serve(w)
    PROVE  /\ \A x \in Workers \ {w} : Undisturbed(x)
           /\ pc'[w] # pc[w]
<1>1. CASE Arrive(w)
  <2>1. \A x \in Workers \ {w} : Undisturbed(x)
    BY <1>1, ArriveCurrent DEF Local
  <2>2. pc[w] = "idle" /\ pc'[w] # "idle"
    BY <1>1 DEF Arrive, Goto, TypeOK
  <2> QED
    BY <2>1, <2>2
<1>2. ASSUME NEW code, Answer(w, code), pc[w] # "idle"
      PROVE  (\A x \in Workers \ {w} : Undisturbed(x)) /\ pc'[w] # pc[w]
  BY <1>2, AnswerLocal
<1>3. ASSUME NEW where, Continue(w, where), where # pc[w],
             snap' = snap \/ \E g : Remember(w, g),
             UNCHANGED <<member, holder>>
             \/ \E m, h : /\ member' = [member EXCEPT ![w] = m]
                          /\ holder' = [holder EXCEPT ![w] = h]
      PROVE  (\A x \in Workers \ {w} : Undisturbed(x)) /\ pc'[w] # pc[w]
  <2>1. \A x \in Workers \ {w} : snap'[x] = snap[x] /\ member'[x] = member[x]
                                                    /\ holder'[x] = holder[x]
    BY <1>3, RememberLocal DEF TypeOK
  <2> QED
    BY <1>3, <2>1, ContinueLocal
<1>4. CASE PutCheck(w)
  BY <1>2, <1>3, <1>4 DEF PutCheck
<1>5. CASE PutWrite(w)
  BY <1>2, <1>3, <1>5 DEF PutWrite
<1>6. CASE AttachRead(w)
  BY <1>2, <1>3, <1>6 DEF AttachRead
<1>7. CASE PostRead(w)
  BY <1>2, <1>3, <1>7 DEF PostRead
<1>8. CASE PostWrite(w)
  BY <1>2, <1>3, <1>8 DEF PostWrite
<1>9. CASE DeleteCheck(w)
  BY <1>2, <1>3, <1>9 DEF DeleteCheck
<1>10. CASE DeleteApply(w)
  BY <1>2, <1>3, <1>10 DEF DeleteApply
<1>11. CASE DetachRead(w)
  BY <1>2, <1>3, <1>11 DEF DetachRead
<1>12. CASE ListWrite(w) \/ DetachWrite(w)
  BY <1>2, <1>12 DEF ListWrite, DetachWrite
<1> QED
  BY <1>1, <1>4, <1>5, <1>6, <1>7, <1>8, <1>9, <1>10, <1>11, <1>12 DEF Serve, Put, Post, Delete

(* The check decides on what is there. *)
LEMMA CheckDecides ==
    ASSUME TypeOK, Shape, Shape', NEW w \in Workers, Serve(w),
           pc'[w] \in {"putWrite", "deleteApply"}
    PROVE  Standing(w)'
<1> USE DEF store, history
<1>1. ASSUME NEW code PROVE ~Answer(w, code)
  BY AnswerLocal
<1>2. ASSUME NEW where, Continue(w, where) PROVE pc'[w] = where /\ job'[w] = job[w]
  BY <1>2 DEF Continue, Goto, TypeOK
<1>3. CASE PutCheck(w)
  <2>1. /\ Admits(job[w].cond, job[w].etag, StoredFor(w))
        /\ Continue(w, "putWrite") /\ Remember(w, StoredFor(w)) /\ UNCHANGED <<rdf, bin>>
    BY <1>1, <1>3 DEF PutCheck, StoredFor
  <2>2. pc'[w] = "putWrite" /\ job'[w] = job[w] /\ snap'[w] = StoredFor(w)
    BY <1>2, <2>1, RememberLocal
  <2>3. Target(w)' = StoredFor(w)
    <3>1. Target(w) = StoredFor(w)
      BY <1>3, TargetIs DEF PutCheck
    <3> QED
      BY <2>1, <2>2, <3>1 DEF Target
  <2> QED
    BY <2>1, <2>2, <2>3 DEF Standing
<1>4. CASE DeleteCheck(w)
  <2>1. /\ rdf[job[w].uri].container => rdf[job[w].uri].contains = {}
        /\ Continue(w, "deleteApply") /\ UNCHANGED <<rdf, bin>>
    BY <1>1, <1>4 DEF DeleteCheck
  <2>2. pc'[w] = "deleteApply" /\ job'[w] = job[w]
    BY <1>2, <2>1
  <2>3. Target(w)' = rdf[job[w].uri]
    <3>1. Target(w) = rdf[job[w].uri]
      BY <1>4, TargetIs DEF DeleteCheck
    <3> QED
      BY <2>1, <2>2, <3>1 DEF Target
  <2> QED
    BY <2>1, <2>2, <2>3 DEF Standing
<1>5. CASE Arrive(w)
  BY <1>5 DEF Arrive, Goto, TypeOK
<1>6. CASE \/ PutWrite(w) \/ AttachRead(w) \/ PostRead(w) \/ PostWrite(w) \/ DeleteApply(w)
           \/ DetachRead(w) \/ ListWrite(w) \/ DetachWrite(w)
  BY <1>1, <1>2, <1>6 DEF PutWrite, AttachRead, PostRead, PostWrite, DeleteApply, DetachRead,
     ListWrite, DetachWrite
<1> QED
  BY <1>3, <1>4, <1>5, <1>6 DEF Serve, Put, Post, Delete

LEMMA StandingStep ==
    ASSUME TypeOK, Shape, Shape', AllStanding, [Next]_vars PROVE AllStanding'
<1>1. ASSUME NEW w \in Workers, Serve(w), Overtakes, NEW x \in Workers PROVE Standing(x)'
  <2>1. CASE x = w
    BY <1>1, <2>1, CheckDecides DEF Standing
  <2>2. CASE x # w /\ pc[x] \in {"putWrite", "deleteApply"}
    <3>1. Undisturbed(x) /\ Standing(x)
      BY <1>1, <2>2, OwnStep DEF AllStanding
    <3>2. x \notin overtaken' => x \notin overtaken /\ Target(x)' = Target(x)
      BY <1>1, <2>2, <3>1 DEF Overtakes, Undisturbed
    <3>3. pc'[x] = "putWrite" => Admits(job[x].cond, job[x].etag, snap[x])
      BY <3>1 DEF Standing, Undisturbed
    <3>4. x \notin overtaken' =>
             /\ pc'[x] = "putWrite" => snap[x] = Target(x)'
             /\ pc'[x] = "deleteApply" => (Target(x)'.container => Target(x)'.contains = {})
      BY <3>1, <3>2 DEF Standing, Undisturbed
    <3> QED
      BY <3>1, <3>3, <3>4 DEF Standing, Undisturbed
  <2>3. CASE x # w /\ pc[x] \notin {"putWrite", "deleteApply"}
    BY <1>1, <2>3, OwnStep DEF Standing, Undisturbed
  <2> QED
    BY <2>1, <2>2, <2>3
<1>2. CASE Restart
  BY <1>2 DEF Restart, AllStanding, Standing
<1>3. CASE UNCHANGED vars
  BY <1>3 DEF vars, AllStanding, Standing, Target
<1> QED
  BY <1>1, <1>2, <1>3 DEF Next, AllStanding

LEMMA InitStanding == Init => AllStanding
  BY DEF Init, AllStanding, Standing

(* A PUT overwrites only what its precondition admits, unless another       *)
(* thread changed the target between its check and its write: NothingClobbered *)
(* but for those that were overtaken.                                       *)
AdmittedUnlessOvertaken ==
    [][\A w \in Workers \ overtaken :
          PutWrite(w) /\ job[w].uri \notin Reserved =>
             /\ StoredFor(w) # Nothing => job[w].cond \in {"any", "etag"}
             /\ job[w].cond = "any" => StoredFor(w) # Nothing
             /\ job[w].cond = "etag" => StoredFor(w) = job[w].etag]_vars

(* Whatever the threads share, and with stops in the middle of requests:    *)
(* the gap between the two backend calls of a PUT is the only way past its  *)
(* precondition.                                                            *)
THEOREM OverwritesAdmitted == Spec => AdmittedUnlessOvertaken
<1> DEFINE Judged == \A w \in Workers \ overtaken :
                        PutWrite(w) /\ job[w].uri \notin Reserved =>
                           /\ StoredFor(w) # Nothing => job[w].cond \in {"any", "etag"}
                           /\ job[w].cond = "any" => StoredFor(w) # Nothing
                           /\ job[w].cond = "etag" => StoredFor(w) = job[w].etag
<1>1. TypeOK /\ Shape /\ AllStanding => Judged
  <2> SUFFICES ASSUME TypeOK, Shape, AllStanding, NEW w \in Workers \ overtaken, PutWrite(w)
               PROVE  /\ StoredFor(w) # Nothing => job[w].cond \in {"any", "etag"}
                      /\ job[w].cond = "any" => StoredFor(w) # Nothing
                      /\ job[w].cond = "etag" => StoredFor(w) = job[w].etag
    OBVIOUS
  <2>1. Admits(job[w].cond, job[w].etag, StoredFor(w))
    BY TargetIs DEF AllStanding, Standing, PutWrite
  <2>2. job[w].cond \in Headers
    BY DEF TypeOK, Jobs
  <2>3. CASE job[w].cond \in {"none", "create"}
    BY <2>1, <2>3 DEF Admits
  <2>4. CASE job[w].cond = "any"
    BY <2>1, <2>4 DEF Admits
  <2>5. CASE job[w].cond = "etag"
    BY <2>1, <2>5 DEF Admits
  <2> QED
    BY <2>2, <2>3, <2>4, <2>5 DEF Headers
<1>2. TypeOK /\ Shape /\ AllStanding /\ [Next]_vars => TypeOK' /\ Shape' /\ AllStanding'
  BY TypedStep, StandingStep
<1> QED
  BY <1>1, <1>2, InitTyped, InitStanding, PTL DEF Spec, AdmittedUnlessOvertaken

(* A graph that is there stays, but for a DELETE of it.                     *)
LEMMA GraphsStay ==
    ASSUME TypeOK, Shape, NEW w \in Workers, Serve(w), NEW c \in Uris, rdf[c] # Nothing
    PROVE  rdf'[c] # Nothing \/ (DeleteApply(w) /\ job[w].uri = c)
<1> USE DEF store, history
<1>1. CASE PutWrite(w)
  <2>1. job[w].uri \in Uris
    BY DEF TypeOK, Jobs
  <2>2. Merged(job[w].doc, snap[w]) # Nothing
    BY <1>1, Merging, Something DEF TypeOK, Shape, Holds, PutWrite
  <2> QED
    BY <1>1, <2>1, <2>2, StoreDocLocal DEF PutWrite
<1>2. CASE PostWrite(w)
  <2>1. \A x \in Mintable[job[w].uri] : x \in Uris
    BY UrisAssumption DEF TypeOK, Jobs
  <2>2. job[w].doc # Nothing
    BY <1>2, Something DEF Shape, Holds, PostWrite
  <2> QED
    BY <1>2, <2>1, <2>2, StoreDocLocal DEF PostWrite
<1>3. CASE DeleteApply(w)
  BY <1>3 DEF DeleteApply, TypeOK
<1>4. CASE ListWrite(w)
  <2>1. snap[w] \in Graphs /\ snap[w].contains \cup {member[w]} \in SUBSET Uris
    BY <1>4 DEF ListWrite, Shape, Holds, TypeOK, Graphs
  <2>2. [snap[w] EXCEPT !.contains = snap[w].contains \cup {member[w]}] # Nothing
    BY <2>1, Something
  <2> QED
    BY <1>4, <2>2 DEF ListWrite, TypeOK
<1>5. CASE DetachWrite(w)
  <2>1. snap[w] \in Graphs /\ snap[w].contains \ {job[w].uri} \in SUBSET Uris
    BY <1>5 DEF DetachWrite, Shape, Holds, Graphs
  <2>2. [snap[w] EXCEPT !.contains = snap[w].contains \ {job[w].uri}] # Nothing
    BY <2>1, Something
  <2> QED
    BY <1>5, <2>2 DEF DetachWrite, TypeOK
<1> QED
  BY <1>1, <1>2, <1>3, <1>4, <1>5 DEF Serve, Put, Post, Delete, Arrive, PutCheck, AttachRead,
     PostRead, DeleteCheck, DetachRead

(* A container that lists members is gone only by a DELETE that was         *)
(* overtaken: NonEmptyKept but for those.                                   *)
KeptUnlessOvertaken ==
    [][\A c \in Uris :
          rdf[c].container /\ rdf[c].contains # {} /\ rdf'[c] = Nothing
             => \E w \in overtaken : DeleteApply(w) /\ job[w].uri = c]_vars

(* Whatever the threads share, and with stops in the middle of requests: a  *)
(* POST or a PUT that lands between the emptiness check of a DELETE and its *)
(* removal is the only way to lose a container with members.                *)
THEOREM NonEmptyStays == Spec => KeptUnlessOvertaken
<1> DEFINE Kept == \A c \in Uris :
                      rdf[c].container /\ rdf[c].contains # {} /\ rdf'[c] = Nothing
                         => \E w \in overtaken : DeleteApply(w) /\ job[w].uri = c
<1>1. TypeOK /\ Shape /\ AllStanding /\ [Next]_vars => Kept
  <2> SUFFICES ASSUME TypeOK, Shape, AllStanding, [Next]_vars, NEW c \in Uris,
                      rdf[c].container, rdf[c].contains # {}, rdf'[c] = Nothing
               PROVE  \E w \in overtaken : DeleteApply(w) /\ job[w].uri = c
    OBVIOUS
  <2>1. rdf[c] # Nothing
    BY DocFacts
  <2>2. ASSUME NEW w \in Workers, Serve(w)
        PROVE  w \in overtaken /\ DeleteApply(w) /\ job[w].uri = c
    <3>1. DeleteApply(w) /\ job[w].uri = c
      BY <2>1, <2>2, GraphsStay
    <3>2. pc[w] = "deleteApply" /\ Target(w) = rdf[c]
      BY <3>1, TargetIs DEF DeleteApply
    <3> QED
      BY <3>1, <3>2 DEF AllStanding, Standing
  <2>3. ~Restart
    BY <2>1, RestartStore, DocFacts, Something
  <2>4. ~(UNCHANGED vars)
    BY <2>1 DEF vars
  <2> QED
    BY <2>2, <2>3, <2>4 DEF Next
<1>2. TypeOK /\ Shape /\ AllStanding /\ [Next]_vars => TypeOK' /\ Shape' /\ AllStanding'
  BY TypedStep, StandingStep
<1> QED
  BY <1>1, <1>2, InitTyped, InitStanding, PTL DEF Spec, KeptUnlessOvertaken

----------------------------------------------------------------------------
(* Threads that share nothing: what a container lists.                      *)

(* A container forgets a member only when that member is being deleted, for *)
(* threads that work on different parts of the pod.                         *)
THEOREM DeletedForgotten ==
    ASSUME ZonesApart
    PROVE  Spec => OnlyDeletedForgotten
<1> DEFINE Forgets == \A c, m \in Uris :
              m \in rdf[c].contains /\ rdf'[c].container /\ m \notin rdf'[c].contains
                 => \E w \in Workers : pc[w] = "detachWrite" /\ job[w].uri = m
<1>1. TypeOK /\ Shape /\ AllCurrent /\ [Next]_vars => Forgets
  <2> SUFFICES ASSUME TypeOK, Shape, AllCurrent, [Next]_vars, NEW c \in Uris, NEW m \in Uris,
                      m \in rdf[c].contains, rdf'[c].container, m \notin rdf'[c].contains
               PROVE  \E w \in Workers : pc[w] = "detachWrite" /\ job[w].uri = m
    OBVIOUS
  <2>1. rdf[c] \in Graphs /\ rdf[c] # Nothing
    BY DocFacts DEF TypeOK
  <2>2. ASSUME NEW w \in Workers, Serve(w) PROVE pc[w] = "detachWrite" /\ job[w].uri = m
    <3>1. rdf'[c] = rdf[c] \/ Rewrites(w, c)
      BY <2>2, Rewriting DEF AllCurrent
    <3>2. CASE Replaces(w, c)
      <4>1. job[w].doc \in Graphs /\ rdf'[c] = Merged(job[w].doc, rdf[c])
        BY <3>2 DEF Replaces
      <4>2. job[w].doc.container
        BY <2>1, <4>1, MergedKeeps
      <4>3. rdf'[c].contains = rdf[c].contains
        BY <2>1, <4>1, <4>2, MergedKeeps
      <4> QED
        BY <4>3
    <3>3. CASE Lists(w, c)
      <4>1. rdf[c].contains \cup {member[w]} \in SUBSET Uris
        BY <2>1 DEF TypeOK, Graphs
      <4> QED
        BY <2>1, <3>3, <4>1, Something DEF Lists
    <3>4. CASE Unlists(w, c)
      <4>1. rdf[c].contains \ {job[w].uri} \in SUBSET Uris
        BY <2>1 DEF Graphs
      <4> QED
        BY <2>1, <3>4, <4>1, Something DEF Unlists
    <3>5. CASE Mints(w, c)
      BY <2>1, <3>5 DEF Mints, Fresh, Exists
    <3>6. CASE Drops(w, c)
      BY <3>6, DocFacts DEF Drops
    <3> QED
      BY <3>1, <3>2, <3>3, <3>4, <3>5, <3>6 DEF Rewrites
  <2>3. CASE Restart
    BY <2>1, <2>3, RestartStore
  <2>4. CASE UNCHANGED vars
    BY <2>4 DEF vars
  <2> QED
    BY <2>2, <2>3, <2>4 DEF Next
<1>2. TypeOK /\ Shape /\ AllCurrent /\ [Next]_vars => TypeOK' /\ Shape' /\ AllCurrent'
  BY TypedStep, CurrentStep, ZonesApart
<1> QED
  BY <1>1, <1>2, InitTyped, InitCurrent, PTL DEF Spec, OnlyDeletedForgotten

----------------------------------------------------------------------------
(* What a container lists. *)

(* A member is minted below the container it is posted to: the containers   *)
(* of the pod have a trailing slash.                                        *)
ChildrenMinted == \A c \in Uris : \A m \in Mintable[c] : Parent[m] = c

(* The pods at the start list children that exist. *)
PodsRooted == \A pod \in InitialPods : \A c, m \in Uris :
                 m \in pod[c].contains => Parent[m] = c /\ m # c /\ pod[m] # Nothing

(* What a container lists is a child of it, and exists or is on its way out, *)
(* unless a client's body listed it.                                        *)
Vanishing(m) ==
    m \in torn \/ \E w \in Workers : pc[w] \in {"detachRead", "detachWrite"} /\ job[w].uri = m
Rooted ==
    \A c, m \in Uris : m \in rdf[c].contains =>
       \/ <<c, m>> \in claimed
       \/ Parent[m] = c /\ m # c /\ (Exists(m) \/ Vanishing(m))

(* A resource that is there stays, but for a DELETE of it. *)
LEMMA BlobsStay ==
    ASSUME TypeOK, Shape, NEW w \in Workers, Serve(w), NEW m \in Uris, bin[m] # Nothing
    PROVE  bin'[m] # Nothing \/ (DeleteApply(w) /\ job[w].uri = m)
<1> USE DEF store, history
<1>1. CASE PutWrite(w)
  <2>1. job[w].uri \in Uris
    BY DEF TypeOK, Jobs
  <2>2. Merged(job[w].doc, snap[w]) # Nothing
    BY <1>1, Merging, Something DEF TypeOK, Shape, Holds, PutWrite
  <2> QED
    BY <1>1, <2>1, <2>2, StoreDocLocal DEF PutWrite
<1>2. CASE PostWrite(w)
  <2>1. \A x \in Mintable[job[w].uri] : x \in Uris
    BY UrisAssumption DEF TypeOK, Jobs
  <2>2. job[w].doc # Nothing
    BY <1>2, Something DEF Shape, Holds, PostWrite
  <2> QED
    BY <1>2, <2>1, <2>2, StoreDocLocal DEF PostWrite
<1>3. CASE DeleteApply(w)
  BY <1>3 DEF DeleteApply, TypeOK
<1> QED
  BY <1>1, <1>2, <1>3 DEF Serve, Put, Post, Delete, Arrive, PutCheck, AttachRead, PostRead,
     DeleteCheck, DetachRead, ListWrite, DetachWrite

LEMMA ResourcesStay ==
    ASSUME TypeOK, Shape, NEW w \in Workers, Serve(w), NEW m \in Uris, Exists(m)
    PROVE  Exists(m)' \/ (DeleteApply(w) /\ job[w].uri = m)
  BY GraphsStay, BlobsStay DEF Exists

(* A container comes to list what the handler at work lists, and what a     *)
(* client's body lists, nothing else.                                       *)
LEMMA ListingSources ==
    ASSUME TypeOK, Shape, NEW w \in Workers, Current(w), Serve(w),
           NEW c \in Uris, NEW m \in Uris, m \in rdf'[c].contains
    PROVE  /\ m \in rdf[c].contains \/ (Lists(w, c) /\ m = member[w]) \/ <<c, m>> \in claimed'
           /\ Unlists(w, c) => m # job[w].uri
<1>1. rdf'[c] = rdf[c] \/ Rewrites(w, c)
  BY Rewriting
<1>2. CASE Replaces(w, c)
  <2>1. /\ job[w].doc \in Graphs /\ rdf[c] \in Graphs \cup {Nothing}
        /\ rdf'[c] = Merged(job[w].doc, rdf[c])
    BY <1>2 DEF Replaces, TypeOK
  <2>2. CASE rdf[c].container \/ job[w].doc.container
    <3>1. rdf'[c].contains = rdf[c].contains
      BY <2>1, <2>2, MergedKeeps
    <3> QED
      BY <1>2, <3>1 DEF Replaces, Unlists
  <2>3. CASE ~(rdf[c].container \/ job[w].doc.container)
    <3>1. rdf'[c].contains = job[w].doc.contains /\ Claim(c, job[w].doc)
      BY <1>2, <2>1, <2>3, MergedKeeps DEF Replaces
    <3> QED
      BY <1>2, <3>1 DEF Replaces, Unlists, Claim
  <2> QED
    BY <2>2, <2>3
<1>3. CASE Mints(w, c)
  BY <1>3 DEF Mints, Unlists, Claim
<1>4. CASE Lists(w, c)
  <2>1. rdf[c] \in Graphs
    BY <1>4, DocFacts DEF Lists, TypeOK
  <2>2. rdf[c].contains \cup {member[w]} \in SUBSET Uris
    BY <2>1 DEF TypeOK, Graphs
  <2>3. rdf'[c].contains = rdf[c].contains \cup {member[w]}
    BY <1>4, <2>1, <2>2, Something DEF Lists
  <2> QED
    BY <1>4, <2>3 DEF Lists, Unlists
<1>5. CASE Unlists(w, c)
  <2>1. rdf[c] \in Graphs
    BY <1>5 DEF Unlists, TypeOK
  <2>2. rdf[c].contains \ {job[w].uri} \in SUBSET Uris
    BY <2>1 DEF Graphs
  <2>3. rdf'[c].contains = rdf[c].contains \ {job[w].uri}
    BY <1>5, <2>1, <2>2, Something DEF Unlists
  <2> QED
    BY <2>3
<1>6. CASE Drops(w, c)
  BY <1>6, DocFacts DEF Drops
<1>7. CASE rdf'[c] = rdf[c] /\ ~Unlists(w, c)
  BY <1>7
<1> QED
  BY <1>1, <1>2, <1>3, <1>4, <1>5, <1>6, <1>7 DEF Rewrites

(* What w lists exists, and is a child of the container. *)
LEMMA NewMember ==
    ASSUME ChildrenMinted, TypeOK, NEW w \in Workers, Current(w), NEW c \in Uris, Lists(w, c)
    PROVE  /\ member[w] \in Uris /\ Parent[member[w]] = c /\ member[w] # c
           /\ Exists(member[w])
  BY DEF ChildrenMinted, Current, Lists, TypeOK

(* What is on its way out stays so until it is no longer listed. *)
LEMMA VanishingStays ==
    ASSUME TypeOK, Shape, NEW w \in Workers, Current(w), Serve(w),
           NEW c \in Uris, NEW m \in Uris, Parent[m] = c, Vanishing(m), rdf[c] # Nothing
    PROVE  Exists(m)' \/ Vanishing(m)' \/ (Unlists(w, c) /\ job[w].uri = m)
<1> USE DEF store, history
<1>1. Local(w)
  BY ServeCurrent
<1>2. CASE DetachWrite(w) /\ job[w].uri = m
  <2>1. rdf'[c] = [snap[w] EXCEPT !.contains = snap[w].contains \ {m}]
    BY <1>2 DEF DetachWrite, TypeOK
  <2>2. snap[w] = rdf[c]
    BY <1>2 DEF DetachWrite, Current
  <2> QED
    BY <1>2, <2>1, <2>2 DEF DetachWrite, Unlists
<1>3. CASE ListWrite(w) /\ member[w] = m
  <2>1. Exists(m) /\ holder[w] # m
    BY <1>3 DEF ListWrite, Current
  <2> QED
    BY <1>3, <2>1 DEF ListWrite, TypeOK, Exists
<1>4. CASE /\ ~(DetachWrite(w) /\ job[w].uri = m)
           /\ ~(ListWrite(w) /\ member[w] = m)
  <2>1. m \in torn => m \in torn'
    BY <1>4 DEF Serve, Put, Post, Delete, Arrive, PutCheck, PutWrite, AttachRead, ListWrite,
       PostRead, PostWrite, DeleteCheck, DeleteApply, DetachRead, DetachWrite
  <2>2. ASSUME NEW x \in Workers \ {w}, pc[x] \in {"detachRead", "detachWrite"}, job[x].uri = m
        PROVE  Vanishing(m)'
    BY <1>1, <2>2 DEF Local, Undisturbed, Vanishing
  <2>3. ASSUME pc[w] \in {"detachRead", "detachWrite"}, job[w].uri = m
        PROVE  Vanishing(m)'
    <3>1. DetachRead(w)
      BY <1>4, <2>3 DEF Serve, Put, Post, Delete, Arrive, PutCheck, PutWrite, AttachRead,
         ListWrite, PostRead, PostWrite, DeleteCheck, DeleteApply, DetachRead, DetachWrite
    <3>2. Continue(w, "detachWrite") /\ UNCHANGED <<member, holder>> /\ Remember(w, rdf[c])
      BY <2>3, <3>1 DEF DetachRead
    <3>3. pc'[w] = "detachWrite" /\ job'[w] = job[w]
      BY <3>2 DEF Continue, Goto, TypeOK
    <3> QED
      BY <2>3, <3>3 DEF Vanishing
  <2> QED
    BY <2>1, <2>2, <2>3 DEF Vanishing
<1> QED
  BY <1>2, <1>3, <1>4

LEMMA RootedStep ==
    ASSUME ZonesApart, ChildrenMinted,
           TypeOK, Shape, AllCurrent, Rooted, [Next]_vars
    PROVE  Rooted'
<1> USE DEF store, history
<1>0. claimed \subseteq claimed'
  BY PairsStay
<1>1. ASSUME NEW w \in Workers, Serve(w) PROVE Rooted'
  <2> SUFFICES ASSUME NEW c \in Uris, NEW m \in Uris, m \in rdf'[c].contains
               PROVE  \/ <<c, m>> \in claimed'
                      \/ Parent[m] = c /\ m # c /\ (Exists(m)' \/ Vanishing(m)')
    BY DEF Rooted, Vanishing, Exists
  <2>1. Current(w)
    BY DEF AllCurrent
  <2>2. m \in rdf[c].contains \/ (Lists(w, c) /\ m = member[w]) \/ <<c, m>> \in claimed'
    BY <1>1, <2>1, ListingSources
  <2>3. Unlists(w, c) => m # job[w].uri
    BY <1>1, <2>1, ListingSources
  <2>4. CASE Lists(w, c) /\ m = member[w]
    <3>1. Parent[m] = c /\ m # c /\ Exists(m)
      BY <2>1, <2>4, NewMember, ChildrenMinted
    <3>2. ~DeleteApply(w)
      BY <2>4 DEF Lists, DeleteApply
    <3> QED
      BY <1>1, <2>1, <3>1, <3>2, ResourcesStay
  <2>5. CASE m \in rdf[c].contains /\ <<c, m>> \notin claimed
    <3>1. Parent[m] = c /\ m # c /\ (Exists(m) \/ Vanishing(m))
      BY <2>5 DEF Rooted
    <3>2. rdf[c] # Nothing
      BY <2>5, DocFacts
    <3>3. CASE Vanishing(m)
      BY <1>1, <2>1, <2>3, <3>1, <3>2, <3>3, VanishingStays
    <3>4. CASE Exists(m) /\ DeleteApply(w) /\ job[w].uri = m
      <4>1. CASE Continue(w, "detachRead")
        <5>1. pc'[w] = "detachRead" /\ job'[w] = job[w]
          BY <4>1 DEF Continue, Goto, TypeOK
        <5> QED
          BY <3>1, <3>4, <5>1 DEF Vanishing
      <4>2. CASE UNCHANGED <<rdf, bin>>
        BY <3>1, <3>4, <4>2 DEF Exists
      <4> QED
        BY <3>1, <3>4, <4>1, <4>2 DEF DeleteApply
    <3>5. CASE Exists(m) /\ ~(DeleteApply(w) /\ job[w].uri = m)
      BY <1>1, <2>1, <3>1, <3>5, ResourcesStay
    <3> QED
      BY <3>1, <3>3, <3>4, <3>5
  <2> QED
    BY <1>0, <2>2, <2>4, <2>5
<1>2. CASE Restart
  <2> SUFFICES ASSUME NEW c \in Uris, NEW m \in Uris, m \in rdf'[c].contains
               PROVE  \/ <<c, m>> \in claimed'
                      \/ Parent[m] = c /\ m # c /\ (Exists(m)' \/ Vanishing(m)')
    BY DEF Rooted, Vanishing, Exists
  <2>1. rdf'[c] = rdf[c]
    BY <1>2, RestartStore, DocFacts
  <2>2. \/ <<c, m>> \in claimed
        \/ Parent[m] = c /\ m # c /\ (Exists(m) \/ Vanishing(m))
    BY <2>1 DEF Rooted
  <2>3. Exists(m) => Exists(m)'
    <3>1. EmptyRoot # Nothing
      BY DocFacts, Something
    <3> QED
      BY <1>2, <3>1, RestartStore DEF Exists, Restart
  <2>4. Vanishing(m) => Vanishing(m)'
    BY <1>2 DEF Restart, Vanishing
  <2> QED
    BY <1>0, <2>2, <2>3, <2>4
<1>3. CASE UNCHANGED vars
  BY <1>3 DEF vars, Rooted, Vanishing, Exists
<1> QED
  BY <1>1, <1>2, <1>3 DEF Next

(* What a container lists exists, unless it is being deleted, or a stop cut *)
(* its DELETE short, or a client's body listed it: with restarts in the     *)
(* middle of any request and any bodies, for threads that work on different *)
(* parts of the pod.                                                        *)
THEOREM ListedAreThere ==
    ASSUME ZonesApart, ChildrenMinted, PodsRooted
    PROVE  Spec => []ListedExist
<1>1. Init => Rooted
  BY PodsRooted DEF Init, PodsRooted, Rooted, Exists
<1>2. Rooted => ListedExist
  BY DEF Rooted, Vanishing, ListedExist
<1>3. /\ TypeOK /\ Shape /\ AllCurrent /\ Rooted /\ [Next]_vars
         => TypeOK' /\ Shape' /\ AllCurrent' /\ Rooted'
  BY TypedStep, CurrentStep, RootedStep, ZonesApart, ChildrenMinted
<1> QED
  BY <1>1, <1>2, <1>3, InitTyped, InitCurrent, PTL DEF Spec

----------------------------------------------------------------------------
(* Threads that are apart implement the store of atomic writes. *)

(* The owner sends no containment except in the PUT of a container: the     *)
(* handlers store that of a POST, and of a plain graph, as it came, which   *)
(* is no write of LdpStore.                                                 *)
CleanBodies == /\ \A doc \in PutGraphs : ~doc.container => doc.contains = {}
               /\ \A doc \in PostGraphs : doc.contains = {}

CleanJob(where, doc) ==
    /\ where \in {"putCheck", "putWrite"} => (~doc.container => doc.contains = {})
    /\ where \in {"postRead", "postWrite"} => doc.contains = {}
CleanJobs == \A w \in Workers : CleanJob(pc[w], job[w].doc)

LEMMA CleanStep ==
    ASSUME CleanBodies, TypeOK, CleanJobs, [Next]_vars PROVE CleanJobs'
<1>1. ASSUME NEW w \in Workers, Serve(w) PROVE CleanJobs'
  <2>1. ASSUME NEW x \in Workers \ {w} PROVE CleanJob(pc'[x], job'[x].doc)
    BY <1>1, OwnStep DEF CleanJobs, Undisturbed
  <2>2. ASSUME Arrive(w) PROVE CleanJob(pc'[w], job'[w].doc)
    <3>1. \A b \in Bodies : Blob(b).contains = {} /\ ~Blob(b).container
      BY DEF Blob
    <3>2. ASSUME NEW doc \in PutGraphs \cup {Blob(b) : b \in Bodies}, NEW j, j.doc = doc,
                 job' = [job EXCEPT ![w] = j], Goto(w, "putCheck")
          PROVE  CleanJob(pc'[w], job'[w].doc)
      <4>1. ~doc.container => doc.contains = {}
        BY <3>1, CleanBodies DEF CleanBodies
      <4>2. pc'[w] = "putCheck" /\ job'[w].doc = doc
        BY <3>2 DEF Goto, TypeOK
      <4> QED
        BY <4>1, <4>2 DEF CleanJob
    <3>3. ASSUME NEW doc \in PostGraphs \cup {Blob(b) : b \in Bodies}, NEW j, j.doc = doc,
                 job' = [job EXCEPT ![w] = j], Goto(w, "postRead")
          PROVE  CleanJob(pc'[w], job'[w].doc)
      <4>1. doc.contains = {}
        BY <3>1, CleanBodies DEF CleanBodies
      <4>2. pc'[w] = "postRead" /\ job'[w].doc = doc
        BY <3>3 DEF Goto, TypeOK
      <4> QED
        BY <4>1, <4>2 DEF CleanJob
    <3>4. CASE Goto(w, "deleteCheck")
      <4>1. pc'[w] = "deleteCheck"
        BY <3>4 DEF Goto, TypeOK
      <4> QED
        BY <4>1 DEF CleanJob
    <3>5. CASE \E u \in Reach[w], doc \in PutGraphs \cup {Blob(b) : b \in Bodies},
                  cond \in Conditions :
                 \E etag \in IF cond = "etag" THEN {rdf[u], bin[u], Nothing} ELSE {Nothing} :
                    /\ job' = [job EXCEPT ![w] = [method |-> "PUT", uri |-> u, doc |-> doc,
                                                  cond |-> cond, etag |-> etag]]
                    /\ Goto(w, "putCheck")
      <4>1. PICK doc, j :
               /\ doc \in PutGraphs \cup {Blob(b) : b \in Bodies}
               /\ j.doc = doc
               /\ job' = [job EXCEPT ![w] = j]
               /\ Goto(w, "putCheck")
        BY <3>5
      <4> QED
        BY <3>2, <4>1, Zenon
    <3>6. CASE \E u \in Reach[w], doc \in PostGraphs \cup {Blob(b) : b \in Bodies} :
                  /\ job' = [job EXCEPT ![w] = [NoJob EXCEPT !.method = "POST", !.uri = u,
                                                             !.doc = doc]]
                  /\ Goto(w, "postRead")
      <4>1. \A u, doc : [NoJob EXCEPT !.method = "POST", !.uri = u, !.doc = doc].doc = doc
        BY DEF NoJob
      <4>2. PICK doc, j :
               /\ doc \in PostGraphs \cup {Blob(b) : b \in Bodies}
               /\ j.doc = doc
               /\ job' = [job EXCEPT ![w] = j]
               /\ Goto(w, "postRead")
        BY <3>6, <4>1
      <4> QED
        BY <3>3, <4>2, Zenon
    <3> QED
      BY <2>2, <3>4, <3>5, <3>6, Zenon DEF Arrive
  <2>3. ASSUME ~Arrive(w) PROVE CleanJob(pc'[w], job'[w].doc)
    <3>1. ASSUME NEW where, Continue(w, where) PROVE pc'[w] = where /\ job'[w] = job[w]
      BY <3>1 DEF Continue, Goto, TypeOK
    <3>2. ASSUME NEW code, Answer(w, code) PROVE pc'[w] = "idle"
      BY <3>2, AnswerLocal
    <3>3. PutCheck(w) => \/ pc'[w] = "idle"
                         \/ pc[w] = "putCheck" /\ pc'[w] = "putWrite" /\ job'[w] = job[w]
      BY <3>1, <3>2 DEF PutCheck
    <3>4. PostRead(w) => \/ pc'[w] = "idle"
                         \/ pc[w] = "postRead" /\ pc'[w] = "postWrite" /\ job'[w] = job[w]
      BY <3>1, <3>2 DEF PostRead
    <3>5. PutWrite(w) => pc'[w] \in {"idle", "attachRead"}
      BY <3>1, <3>2 DEF PutWrite
    <3>6. PostWrite(w) => pc'[w] \in {"idle", "listWrite"}
      BY <3>1, <3>2 DEF PostWrite
    <3>7. AttachRead(w) => pc'[w] \in {"idle", "listWrite"}
      BY <3>1, <3>2 DEF AttachRead
    <3>8. DeleteCheck(w) => pc'[w] \in {"idle", "deleteApply"}
      BY <3>1, <3>2 DEF DeleteCheck
    <3>9. DeleteApply(w) => pc'[w] \in {"idle", "detachRead"}
      BY <3>1, <3>2 DEF DeleteApply
    <3>10. DetachRead(w) => pc'[w] \in {"idle", "detachWrite"}
      BY <3>1, <3>2 DEF DetachRead
    <3>11. ListWrite(w) \/ DetachWrite(w) => pc'[w] = "idle"
      BY <3>2 DEF ListWrite, DetachWrite
    <3>12. \/ pc'[w] \in {"idle", "attachRead", "listWrite", "deleteApply", "detachRead",
                          "detachWrite"}
           \/ pc[w] = "putCheck" /\ pc'[w] = "putWrite" /\ job'[w] = job[w]
           \/ pc[w] = "postRead" /\ pc'[w] = "postWrite" /\ job'[w] = job[w]
      BY <1>1, <2>3, <3>3, <3>4, <3>5, <3>6, <3>7, <3>8, <3>9, <3>10, <3>11
         DEF Serve, Put, Post, Delete
    <3> QED
      BY <3>12 DEF CleanJobs, CleanJob
  <2> QED
    BY <2>1, <2>2, <2>3 DEF CleanJobs
<1>2. CASE Restart
  BY <1>2 DEF Restart, CleanJobs, CleanJob
<1>3. CASE UNCHANGED vars
  BY <1>3 DEF vars, CleanJobs
<1> QED
  BY <1>1, <1>2, <1>3 DEF Next

LEMMA InitClean == Init => CleanJobs
  BY DEF Init, CleanJobs, CleanJob

(* What the store sees of the graph g at c, told by the one thread in whose *)
(* part of the pod c lies: where it is, its target, the member and the      *)
(* container it lists it in.                                                *)
Joins(where, m, h, g, c) ==
    IF h = c /\ (where = "listWrite" \/ (where = "attachRead" /\ g.container)) THEN {m} ELSE {}
Leaves(where, u, c) ==
    IF where \in {"detachRead", "detachWrite"} /\ Parent[u] = c THEN {u} ELSE {}
View(where, u, m, h, g, c) ==
    IF g = Nothing THEN Nothing
    ELSE [g EXCEPT !.contains = (g.contains \cup Joins(where, m, h, g, c)) \ Leaves(where, u, c)]

Sees(w) == \A c \in Zone(w) :
              Completed[c] = View(pc[w], job[w].uri, member[w], holder[w], rdf[c], c)

(* The parts of the pod that a thread is about to list or unlist in. *)
LEMMA AtWorkInZone ==
    ASSUME NEW x \in Workers, Current(x)
    PROVE  /\ pc[x] \in {"attachRead", "listWrite"} => holder[x] \in Zone(x)
           /\ pc[x] \in {"detachRead", "detachWrite"} => Parent[job[x].uri] \in Zone(x)
  BY ZoneFacts DEF Current

ViewsExact == ZonesApart /\ AllCurrent => \A w \in Workers : Sees(w)

LEMMA ViewsHold == ViewsExact
<1> SUFFICES ASSUME ZonesApart, AllCurrent, NEW w \in Workers, NEW c \in Zone(w)
             PROVE  Completed[c] = View(pc[w], job[w].uri, member[w], holder[w], rdf[c], c)
  BY DEF ViewsExact, Sees
<1>1. c \in Uris
  BY ZoneFacts
<1>2. \A x \in Workers \ {w} :
         /\ pc[x] \in {"attachRead", "listWrite"} => holder[x] # c
         /\ pc[x] \in {"detachRead", "detachWrite"} => Parent[job[x].uri] # c
  BY AtWorkInZone DEF AllCurrent, ZonesApart
<1>3. Joining(c) = Joins(pc[w], member[w], holder[w], rdf[c], c)
  BY <1>2 DEF Joining, Joins
<1>4. Leaving(c) = Leaves(pc[w], job[w].uri, c)
  BY <1>2 DEF Leaving, Leaves
<1> QED
  BY <1>1, <1>3, <1>4 DEF Completed, View

LEMMA ViewsHoldNext == ViewsExact'
  BY ViewsHold, PTL

LEMMA SameElsewhere ==
    ASSUME NEW w \in Workers, Local(w), Current(w), Current(w)', NEW c \in Uris \ Zone(w)
    PROVE  Completed'[c] = Completed[c]
<1>1. /\ pc[w] \in {"attachRead", "listWrite"} => holder[w] # c
      /\ pc[w] \in {"detachRead", "detachWrite"} => Parent[job[w].uri] # c
  BY AtWorkInZone
<1>2. /\ pc'[w] \in {"attachRead", "listWrite"} => holder'[w] # c
      /\ pc'[w] \in {"detachRead", "detachWrite"} => Parent[job'[w].uri] # c
  <2>1. /\ pc'[w] \in {"attachRead", "listWrite"} => holder'[w] \in Zone(w)
        /\ pc'[w] # "idle" => job'[w].uri \in Reach[w]
    BY ZoneFacts DEF Current
  <2> QED
    BY <2>1, ZoneFacts
<1>3. rdf'[c] = rdf[c]
  BY DEF Local
<1>4. \A x \in Workers \ {w} : Undisturbed(x)
  BY DEF Local
<1>5. Joining(c)' = Joining(c)
  BY <1>1, <1>2, <1>3, <1>4 DEF Joining, Undisturbed
<1>6. Leaving(c)' = Leaving(c)
  BY <1>1, <1>2, <1>4 DEF Leaving, Undisturbed
<1> QED
  BY <1>3, <1>5, <1>6 DEF Completed

(* A thread that neither lists nor unlists shows the store as it is. *)
Pending == {"attachRead", "listWrite", "detachRead", "detachWrite"}

LEMMA ViewIsGraph ==
    ASSUME NEW where, where \notin Pending, NEW u, NEW m, NEW h, NEW c,
           NEW g \in Graphs \cup {Nothing}
    PROVE  View(where, u, m, h, g, c) = g
<1>1. Joins(where, m, h, g, c) = {} /\ Leaves(where, u, c) = {}
  BY DEF Joins, Leaves, Pending
<1>2. (g.contains \cup {}) \ {} = g.contains
  OBVIOUS
<1>3. g \in Graphs => [g EXCEPT !.contains = g.contains] = g
  BY DEF Graphs
<1> QED
  BY <1>1, <1>2, <1>3 DEF View

(* What a step of w shows, all over the pod. *)
Steps(w) ==
    /\ \A c \in Uris \ Zone(w) : Completed'[c] = Completed[c]
    /\ \A c \in Zone(w) :
          /\ Completed[c] = View(pc[w], job[w].uri, member[w], holder[w], rdf[c], c)
          /\ Completed'[c] = View(pc'[w], job'[w].uri, member'[w], holder'[w], rdf'[c], c)

LEMMA StepShown ==
    ASSUME ZonesApart, AllCurrent, AllCurrent', NEW w \in Workers, Local(w)
    PROVE  Steps(w)
<1>1. Current(w) /\ Current(w)'
  BY DEF AllCurrent
<1>2. \A c \in Uris \ Zone(w) : Completed'[c] = Completed[c]
  BY <1>1, SameElsewhere
<1>3. Sees(w) /\ Sees(w)'
  BY ViewsHold, ViewsHoldNext, ZonesApart DEF ViewsExact
<1> QED
  BY <1>2, <1>3 DEF Steps, Sees

(* The mapped pod is as the pod is at a thread that shows it as it is. *)
LEMMA QuietBefore ==
    ASSUME TypeOK, NEW w \in Workers, Steps(w), pc[w] \notin Pending
    PROVE  \A c \in Zone(w) : Completed[c] = rdf[c]
  BY ViewIsGraph, ZoneFacts DEF Steps, TypeOK
LEMMA QuietAfter ==
    ASSUME TypeOK', NEW w \in Workers, Steps(w), pc'[w] \notin Pending
    PROVE  \A c \in Zone(w) : Completed'[c] = rdf'[c]
  BY ViewIsGraph, ZoneFacts DEF Steps, TypeOK

LEMMA Unseen ==
    ASSUME NEW w \in Workers, Steps(w), \A c \in Zone(w) : Completed'[c] = Completed[c],
           UNCHANGED bin
    PROVE  UNCHANGED <<Completed, bin>>
<1>1. \A c \in Uris : Completed'[c] = Completed[c]
  BY DEF Steps
<1>2. Completed' = [c \in Uris |-> Completed'[c]] /\ Completed = [c \in Uris |-> Completed[c]]
  BY DEF Completed
<1> QED
  BY <1>1, <1>2

LEMMA ReadsMap ==
    ASSUME TypeOK, TypeOK', NEW w \in Workers, Current(w), Steps(w),
           \/ Arrive(w) \/ PutCheck(w) \/ AttachRead(w) \/ PostRead(w) \/ DeleteCheck(w)
           \/ DetachRead(w)
    PROVE  UNCHANGED <<Completed, bin>>
<1> USE DEF store, history
<1>1. UNCHANGED <<rdf, bin>>
  BY DEF Arrive, PutCheck, AttachRead, PostRead, DeleteCheck, DetachRead
<1>2. CASE pc[w] \notin Pending /\ pc'[w] \notin Pending
  <2>1. \A c \in Zone(w) : Completed'[c] = Completed[c]
    BY <1>1, <1>2, QuietBefore, QuietAfter
  <2> QED
    BY <1>1, <2>1, Unseen
<1>3. CASE Arrive(w) \/ PutCheck(w) \/ PostRead(w) \/ DeleteCheck(w)
  <2>1. pc[w] \notin Pending
    BY <1>3 DEF Arrive, PutCheck, PostRead, DeleteCheck, Pending
  <2>2. pc'[w] \notin Pending
    <3>1. CASE Arrive(w)
      <4>1. Goto(w, "putCheck") \/ Goto(w, "postRead") \/ Goto(w, "deleteCheck")
        BY <3>1 DEF Arrive
      <4> QED
        BY <4>1 DEF Pending, Goto, TypeOK
    <3>2. CASE PutCheck(w)
      BY <3>2 DEF PutCheck, Pending, Answer, Continue, Goto, TypeOK
    <3>3. CASE PostRead(w) \/ DeleteCheck(w)
      BY <3>3 DEF PostRead, DeleteCheck, Pending, Answer, Continue, Goto, TypeOK
    <3> QED
      BY <1>3, <3>1, <3>2, <3>3
  <2> QED
    BY <1>2, <2>1, <2>2
<1>4. CASE AttachRead(w)
  <2>1. CASE rdf[holder[w]].container
    <3>1. pc'[w] = "listWrite" /\ UNCHANGED <<job, member, holder>>
      BY <1>4, <2>1 DEF AttachRead, Continue, Goto, TypeOK
    <3>2. \A c \in Zone(w) : Completed'[c] = Completed[c]
      <4> SUFFICES ASSUME NEW c \in Zone(w) PROVE Completed'[c] = Completed[c]
        OBVIOUS
      <4>1. Joins("attachRead", member[w], holder[w], rdf[c], c)
              = Joins("listWrite", member[w], holder[w], rdf[c], c)
        BY <2>1 DEF Joins
      <4>2. Leaves("attachRead", job[w].uri, c) = Leaves("listWrite", job[w].uri, c)
        BY DEF Leaves
      <4>3. Completed[c] = View("attachRead", job[w].uri, member[w], holder[w], rdf[c], c)
        BY <1>4 DEF AttachRead, Steps
      <4>4. Completed'[c] = View("listWrite", job[w].uri, member[w], holder[w], rdf[c], c)
        BY <1>1, <3>1 DEF Steps
      <4> QED
        BY <4>1, <4>2, <4>3, <4>4 DEF View
    <3> QED
      BY <1>1, <3>2, Unseen
  <2>2. CASE ~rdf[holder[w]].container
    <3>1. pc'[w] = "idle"
      BY <1>4, <2>2, AnswerLocal DEF AttachRead
    <3>2. \A c \in Zone(w) : Completed'[c] = Completed[c]
      <4> SUFFICES ASSUME NEW c \in Zone(w) PROVE Completed'[c] = Completed[c]
        OBVIOUS
      <4>1. Joins("attachRead", member[w], holder[w], rdf[c], c)
              = Joins("idle", member'[w], holder'[w], rdf[c], c)
        BY <2>2 DEF Joins
      <4>2. Leaves("attachRead", job[w].uri, c) = Leaves("idle", job'[w].uri, c)
        BY DEF Leaves
      <4>3. Completed[c] = View("attachRead", job[w].uri, member[w], holder[w], rdf[c], c)
        BY <1>4 DEF AttachRead, Steps
      <4>4. Completed'[c] = View("idle", job'[w].uri, member'[w], holder'[w], rdf[c], c)
        BY <1>1, <3>1 DEF Steps
      <4> QED
        BY <4>1, <4>2, <4>3, <4>4 DEF View
    <3> QED
      BY <1>1, <3>2, Unseen
  <2> QED
    BY <2>1, <2>2
<1>5. CASE DetachRead(w)
  <2>1. CASE rdf[Parent[job[w].uri]] # Nothing
    <3>1. pc'[w] = "detachWrite" /\ UNCHANGED <<job, member, holder>>
      BY <1>5, <2>1 DEF DetachRead, Continue, Goto, TypeOK
    <3>2. \A c \in Zone(w) : Completed'[c] = Completed[c]
      <4> SUFFICES ASSUME NEW c \in Zone(w) PROVE Completed'[c] = Completed[c]
        OBVIOUS
      <4>1. Joins("detachRead", member[w], holder[w], rdf[c], c)
              = Joins("detachWrite", member[w], holder[w], rdf[c], c)
        BY DEF Joins
      <4>2. Leaves("detachRead", job[w].uri, c) = Leaves("detachWrite", job[w].uri, c)
        BY DEF Leaves
      <4>3. Completed[c] = View("detachRead", job[w].uri, member[w], holder[w], rdf[c], c)
        BY <1>5 DEF DetachRead, Steps
      <4>4. Completed'[c] = View("detachWrite", job[w].uri, member[w], holder[w], rdf[c], c)
        BY <1>1, <3>1 DEF Steps
      <4> QED
        BY <4>1, <4>2, <4>3, <4>4 DEF View
    <3> QED
      BY <1>1, <3>2, Unseen
  <2>2. CASE rdf[Parent[job[w].uri]] = Nothing
    <3>1. pc'[w] = "idle"
      BY <1>5, <2>2, AnswerLocal DEF DetachRead
    <3>2. \A c \in Zone(w) : Completed'[c] = Completed[c]
      <4> SUFFICES ASSUME NEW c \in Zone(w) PROVE Completed'[c] = Completed[c]
        OBVIOUS
      <4>1. Joins("detachRead", member[w], holder[w], rdf[c], c)
              = Joins("idle", member'[w], holder'[w], rdf[c], c)
        BY DEF Joins
      <4>2. rdf[c] # Nothing => Leaves("detachRead", job[w].uri, c) = Leaves("idle", job'[w].uri, c)
        BY <2>2 DEF Leaves
      <4>3. Completed[c] = View("detachRead", job[w].uri, member[w], holder[w], rdf[c], c)
        BY <1>5 DEF DetachRead, Steps
      <4>4. Completed'[c] = View("idle", job'[w].uri, member'[w], holder'[w], rdf[c], c)
        BY <1>1, <3>1 DEF Steps
      <4> QED
        BY <4>1, <4>2, <4>3, <4>4 DEF View
    <3> QED
      BY <1>1, <3>2, Unseen
  <2> QED
    BY <2>1, <2>2
<1> QED
  BY <1>3, <1>4, <1>5

(* A write-back was seen when its request took effect. *)
LEMMA WriteBackMaps ==
    ASSUME TypeOK, TypeOK', NEW w \in Workers, Current(w), Steps(w),
           ListWrite(w) \/ DetachWrite(w)
    PROVE  UNCHANGED <<Completed, bin>>
<1>1. UNCHANGED bin /\ pc'[w] = "idle"
  BY AnswerLocal DEF ListWrite, DetachWrite
<1>2. \A c \in Zone(w) : Completed'[c] = rdf'[c]
  BY <1>1, QuietAfter DEF Pending
<1>3. CASE ListWrite(w)
  <2>1. /\ holder[w] \in Uris /\ snap[w] = rdf[holder[w]] /\ rdf[holder[w]] \in Graphs
        /\ pc[w] = "listWrite"
    BY <1>3, DocFacts DEF ListWrite, Current, TypeOK
  <2>2. rdf' = [rdf EXCEPT ![holder[w]] =
                   [rdf[holder[w]] EXCEPT !.contains = rdf[holder[w]].contains \cup {member[w]}]]
    BY <1>3, <2>1 DEF ListWrite
  <2>3. ASSUME NEW c \in Zone(w) PROVE Completed'[c] = Completed[c]
    <3>1. Completed[c] = View("listWrite", job[w].uri, member[w], holder[w], rdf[c], c)
      BY <2>1 DEF Steps
    <3>2. Leaves("listWrite", job[w].uri, c) = {}
      BY DEF Leaves
    <3>3. CASE c = holder[w]
      <4>1. Joins("listWrite", member[w], holder[w], rdf[c], c) = {member[w]}
        BY <3>3 DEF Joins
      <4>2. rdf[c] # Nothing
        BY <2>1, <3>3, Something
      <4>3. Completed[c] = [rdf[c] EXCEPT !.contains = (rdf[c].contains \cup {member[w]}) \ {}]
        BY <3>1, <3>2, <4>1, <4>2 DEF View
      <4>4. rdf'[c] = [rdf[c] EXCEPT !.contains = rdf[c].contains \cup {member[w]}]
        BY <2>1, <2>2, <3>3 DEF TypeOK
      <4>5. (rdf[c].contains \cup {member[w]}) \ {} = rdf[c].contains \cup {member[w]}
        OBVIOUS
      <4> QED
        BY <1>2, <4>3, <4>4, <4>5
    <3>4. CASE c # holder[w]
      <4>1. rdf'[c] = rdf[c] /\ rdf[c] \in Graphs \cup {Nothing}
        BY <2>2, <3>4, ZoneFacts DEF TypeOK
      <4>2. Joins("listWrite", member[w], holder[w], rdf[c], c) = {}
        BY <3>4 DEF Joins
      <4>3. View("listWrite", job[w].uri, member[w], holder[w], rdf[c], c) = rdf[c]
        <5>1. (rdf[c].contains \cup {}) \ {} = rdf[c].contains
          OBVIOUS
        <5>2. rdf[c] \in Graphs => [rdf[c] EXCEPT !.contains = rdf[c].contains] = rdf[c]
          BY DEF Graphs
        <5> QED
          BY <3>2, <4>1, <4>2, <5>1, <5>2 DEF View
      <4> QED
        BY <1>2, <3>1, <4>1, <4>3
    <3> QED
      BY <3>3, <3>4
  <2> QED
    BY <1>1, <2>3, Unseen
<1>4. CASE DetachWrite(w)
  <2> DEFINE p == Parent[job[w].uri]
  <2>1. /\ p \in Uris /\ snap[w] = rdf[p] /\ rdf[p] \in Graphs /\ pc[w] = "detachWrite"
    BY <1>4, UrisAssumption DEF DetachWrite, Current, TypeOK, Jobs
  <2>2. rdf' = [rdf EXCEPT ![p] = [rdf[p] EXCEPT !.contains = rdf[p].contains \ {job[w].uri}]]
    BY <1>4, <2>1 DEF DetachWrite
  <2>3. ASSUME NEW c \in Zone(w) PROVE Completed'[c] = Completed[c]
    <3>1. Completed[c] = View("detachWrite", job[w].uri, member[w], holder[w], rdf[c], c)
      BY <2>1 DEF Steps
    <3>2. Joins("detachWrite", member[w], holder[w], rdf[c], c) = {}
      BY DEF Joins
    <3>3. CASE c = p
      <4>1. Leaves("detachWrite", job[w].uri, c) = {job[w].uri}
        BY <3>3 DEF Leaves
      <4>2. rdf[c] # Nothing
        BY <2>1, <3>3, Something
      <4>3. Completed[c] = [rdf[c] EXCEPT !.contains = (rdf[c].contains \cup {}) \ {job[w].uri}]
        BY <3>1, <3>2, <4>1, <4>2 DEF View
      <4>4. rdf'[c] = [rdf[c] EXCEPT !.contains = rdf[c].contains \ {job[w].uri}]
        BY <2>1, <2>2, <3>3 DEF TypeOK
      <4>5. (rdf[c].contains \cup {}) \ {job[w].uri} = rdf[c].contains \ {job[w].uri}
        OBVIOUS
      <4> QED
        BY <1>2, <4>3, <4>4, <4>5
    <3>4. CASE c # p
      <4>1. rdf'[c] = rdf[c] /\ rdf[c] \in Graphs \cup {Nothing}
        BY <2>2, <3>4, ZoneFacts DEF TypeOK
      <4>2. Leaves("detachWrite", job[w].uri, c) = {}
        BY <3>4 DEF Leaves
      <4>3. View("detachWrite", job[w].uri, member[w], holder[w], rdf[c], c) = rdf[c]
        <5>1. (rdf[c].contains \cup {}) \ {} = rdf[c].contains
          OBVIOUS
        <5>2. rdf[c] \in Graphs => [rdf[c] EXCEPT !.contains = rdf[c].contains] = rdf[c]
          BY DEF Graphs
        <5> QED
          BY <3>2, <4>1, <4>2, <5>1, <5>2 DEF View
      <4> QED
        BY <1>2, <3>1, <4>1, <4>3
    <3> QED
      BY <3>3, <3>4
  <2> QED
    BY <1>1, <2>3, Unseen
<1> QED
  BY <1>3, <1>4

(* What the writes that take effect show. *)
WithMember(g, m) == [g EXCEPT !.contains = g.contains \cup {m}]
WithoutMember(g, m) == [g EXCEPT !.contains = g.contains \ {m}]

LEMMA ViewJoining ==
    ASSUME NEW where \in {"attachRead", "listWrite"}, NEW u, NEW m, NEW h, NEW c,
           NEW g \in Graphs \cup {Nothing}, where = "listWrite" /\ h = c => g.container
    PROVE  View(where, u, m, h, g, c)
             = IF h = c /\ g.container THEN WithMember(g, m) ELSE g
<1>1. Leaves(where, u, c) = {}
  BY DEF Leaves
<1>2. Joins(where, m, h, g, c) = IF h = c /\ g.container THEN {m} ELSE {}
  BY DEF Joins
<1>3. /\ (g.contains \cup {}) \ {} = g.contains
      /\ (g.contains \cup {m}) \ {} = g.contains \cup {m}
  OBVIOUS
<1>4. g \in Graphs => [g EXCEPT !.contains = g.contains] = g
  BY DEF Graphs
<1>5. g.container => g # Nothing
  BY DocFacts
<1> QED
  BY <1>1, <1>2, <1>3, <1>4, <1>5 DEF View, WithMember

LEMMA ViewLeaving ==
    ASSUME NEW u, NEW m, NEW h, NEW c, NEW g \in Graphs \cup {Nothing}
    PROVE  View("detachRead", u, m, h, g, c)
             = IF Parent[u] = c /\ g # Nothing
               THEN WithoutMember(g, u) ELSE g
<1>1. Joins("detachRead", m, h, g, c) = {}
  BY DEF Joins
<1>2. Leaves("detachRead", u, c) = IF Parent[u] = c THEN {u} ELSE {}
  BY DEF Leaves
<1>3. /\ (g.contains \cup {}) \ {} = g.contains
      /\ (g.contains \cup {}) \ {u} = g.contains \ {u}
  OBVIOUS
<1>4. g \in Graphs => [g EXCEPT !.contains = g.contains] = g
  BY DEF Graphs
<1> QED
  BY <1>1, <1>2, <1>3, <1>4 DEF View, WithoutMember

(* The words of the abstract store are those of this module. *)
LEMMA AbstractWords ==
    /\ Abstract!Nothing = Nothing /\ Abstract!EmptyRoot = EmptyRoot
    /\ \A k, s, b : Abstract!Graph(k, s, b) = Graph(k, s, b)
    /\ \A b : Abstract!Blob(b) = Blob(b)
  BY DEF Abstract!Nothing, Nothing, Abstract!EmptyRoot, EmptyRoot, Abstract!Graph, Graph,
     Abstract!Blob, Blob

LEMMA Adopting ==
    ASSUME NEW pod, NEW m
    PROVE  Abstract!Adopt(pod, m)
             = IF Parent[m] # m /\ pod[Parent[m]].container
               THEN [pod EXCEPT ![Parent[m]] =
                       [pod[Parent[m]] EXCEPT !.contains = pod[Parent[m]].contains \cup {m}]]
               ELSE pod
  BY DEF Abstract!Adopt, Abstract!Listing

LEMMA Disowning ==
    ASSUME NEW pod, NEW m
    PROVE  Abstract!Disown(pod, m)
             = IF Parent[m] # m /\ pod[Parent[m]] # Nothing
               THEN [pod EXCEPT ![Parent[m]] =
                       [pod[Parent[m]] EXCEPT !.contains = pod[Parent[m]].contains \ {m}]]
               ELSE pod
  BY AbstractWords DEF Abstract!Disown, Abstract!Unlisting

LEMMA PodIs ==
    ASSUME NEW pod, pod = [c \in Uris |-> pod[c]], \A c \in Uris : Completed'[c] = pod[c]
    PROVE  Completed' = pod
  BY DEF Completed

LEMMA GraphFacts ==
    /\ \A k \in BOOLEAN, b \in Bodies : Graph(k, {}, b) \in Graphs
    /\ \A d \in Graphs : d = Graph(d.container, d.contains, d.body)
    /\ \A d \in Graphs : d.container \in BOOLEAN /\ d.body \in Bodies /\ d.contains \subseteq Uris
    /\ \A d \in Blobs : d = Blob(d.body) /\ d.body \in Bodies /\ d.form # "rdf"
<1>1. \A k \in BOOLEAN, b \in Bodies : Graph(k, {}, b) \in Graphs
  BY DEF Graph, Graphs
<1>2. ASSUME NEW d \in Graphs
      PROVE  /\ d = Graph(d.container, d.contains, d.body)
             /\ d.container \in BOOLEAN /\ d.body \in Bodies /\ d.contains \subseteq Uris
  BY DEF Graph, Graphs
<1>3. ASSUME NEW d \in Blobs PROVE d = Blob(d.body) /\ d.body \in Bodies /\ d.form # "rdf"
  BY DEF Blob, Blobs
<1> QED
  BY <1>1, <1>2, <1>3

(* A new resource at u, shown with its parent's listing. *)
LEMMA CreationShown ==
    ASSUME TypeOK, TypeOK', NEW w \in Workers, Steps(w), pc[w] \notin Pending,
           NEW u \in Zone(w), Parent[u] \in Zone(w),
           \A c \in Zone(w) \ {u} : rdf'[c] = rdf[c],
           \/ Parent[u] = u /\ pc'[w] = "idle"
           \/ /\ Parent[u] # u /\ pc'[w] = "attachRead"
              /\ member'[w] = u /\ holder'[w] = Parent[u]
    PROVE  Completed' = Abstract!Adopt([Completed EXCEPT ![u] = rdf'[u]], u)
<1> DEFINE pod == [Completed EXCEPT ![u] = rdf'[u]]
           p == Parent[u]
<1>1. /\ Zone(w) \subseteq Uris
      /\ \A c \in Zone(w) : rdf[c] \in Graphs \cup {Nothing} /\ rdf'[c] \in Graphs \cup {Nothing}
  BY ZoneFacts DEF TypeOK
<1>2. \A c \in Zone(w) : Completed[c] = rdf[c]
  BY QuietBefore
<1>3. /\ pod = [c \in Uris |-> IF c = u THEN rdf'[u] ELSE Completed[c]]
      /\ \A c \in Zone(w) : pod[c] = rdf'[c]
      /\ \A c \in Uris \ Zone(w) : pod[c] = Completed[c]
  BY <1>1, <1>2 DEF Completed
<1> HIDE DEF pod
<1>4. CASE p = u
  <2>1. \A c \in Zone(w) : Completed'[c] = rdf'[c]
    BY <1>4, QuietAfter DEF Pending
  <2>2. \A c \in Uris : Completed'[c] = pod[c]
    BY <1>3, <2>1 DEF Steps
  <2>3. Completed' = pod
    BY <1>3, <2>2, PodIs
  <2> QED
    BY <1>4, <2>3, Adopting DEF pod
<1>5. CASE p # u
  <2>1. /\ pc'[w] = "attachRead" /\ member'[w] = u /\ holder'[w] = p
    BY <1>5
  <2>2. ASSUME NEW c \in Zone(w)
        PROVE  Completed'[c] = IF p = c /\ rdf'[c].container
                               THEN [rdf'[c] EXCEPT !.contains = rdf'[c].contains \cup {u}]
                               ELSE rdf'[c]
    <3>1. Completed'[c] = View("attachRead", job'[w].uri, u, p, rdf'[c], c)
      BY <2>1 DEF Steps
    <3>2. View("attachRead", job'[w].uri, u, p, rdf'[c], c)
            = IF p = c /\ rdf'[c].container
              THEN WithMember(rdf'[c], u) ELSE rdf'[c]
      BY <1>1, ViewJoining
    <3> QED
      BY <3>1, <3>2 DEF WithMember
  <2>3. CASE rdf'[p].container
    <3> DEFINE next == [pod EXCEPT ![p] = [pod[p] EXCEPT !.contains = pod[p].contains \cup {u}]]
    <3>1. next = Abstract!Adopt(pod, u)
      BY <1>3, <1>5, <2>3, Adopting
    <3>2. next = [c \in Uris |-> next[c]]
      BY <1>3
    <3>3. \A c \in Uris : Completed'[c] = next[c]
      <4>1. p \in Uris /\ next[p] = [pod[p] EXCEPT !.contains = pod[p].contains \cup {u}]
        BY <1>1, <1>3
      <4>2. \A c \in Uris \ {p} : next[c] = pod[c]
        BY <1>3
      <4>3. \A c \in Uris \ Zone(w) : c # p /\ Completed'[c] = pod[c]
        BY <1>3 DEF Steps
      <4>4. \A c \in Zone(w) \ {p} : Completed'[c] = pod[c]
        BY <1>3, <2>2
      <4>5. Completed'[p] = [pod[p] EXCEPT !.contains = pod[p].contains \cup {u}]
        BY <1>3, <2>2, <2>3
      <4> HIDE DEF next
      <4> QED
        BY <4>1, <4>2, <4>3, <4>4, <4>5
    <3> HIDE DEF next
    <3>4. Completed' = next
      BY <3>2, <3>3, PodIs
    <3> QED
      BY <3>1, <3>4 DEF pod
  <2>4. CASE ~rdf'[p].container
    <3>1. pod = Abstract!Adopt(pod, u)
      BY <1>3, <2>4, Adopting
    <3>2. \A c \in Uris : Completed'[c] = pod[c]
      BY <1>3, <2>2, <2>4 DEF Steps
    <3>3. Completed' = pod
      BY <1>3, <3>2, PodIs
    <3> QED
      BY <3>1, <3>3 DEF pod
  <2> QED
    BY <2>3, <2>4
<1> QED
  BY <1>4, <1>5

(* What a PUT that goes through does, told by what is stored. *)
LEMMA PutWriteEffect ==
    ASSUME TypeOK, Shape, CleanJobs, NEW w \in Workers, Current(w), PutWrite(w),
           job[w].uri \notin Reserved
    PROVE  LET u == job[w].uri
               doc == job[w].doc
               put == Merged(doc, StoredFor(w)) IN
           /\ doc \in Graphs \cup Blobs
           /\ ~doc.container => doc.contains = {}
           /\ \A v \in Uris \ {u} : rdf'[v] = rdf[v]
           /\ IF doc \in Graphs THEN rdf' = [rdf EXCEPT ![u] = put] /\ bin' = bin
                                ELSE bin' = [bin EXCEPT ![u] = doc] /\ rdf' = rdf
           /\ IF StoredFor(w) # Nothing THEN pc'[w] = "idle"
              ELSE \/ Parent[u] = u /\ pc'[w] = "idle"
                   \/ /\ Parent[u] # u /\ pc'[w] = "attachRead"
                      /\ member'[w] = u /\ holder'[w] = Parent[u]
<1> DEFINE u == job[w].uri
           doc == job[w].doc
           put == Merged(doc, snap[w])
<1>1. u \in Uris /\ pc[w] = "putWrite" /\ snap[w] = StoredFor(w)
  BY DEF PutWrite, TypeOK, Jobs, Current
<1>2. /\ doc \in Graphs \cup Blobs
      /\ doc.form = "rdf" <=> doc \in Graphs
      /\ ~doc.container => doc.contains = {}
  BY <1>1, DocFacts DEF Shape, Holds, CleanJobs, CleanJob, Docs
<1>3. StoreDoc(u, put)
  BY DEF PutWrite
<1>4. put.form = doc.form
  BY <1>2, Merging DEF TypeOK
<1>5. doc \notin Graphs => put = doc
  BY <1>2 DEF Merged
<1>6. IF doc \in Graphs THEN rdf' = [rdf EXCEPT ![u] = put] /\ bin' = bin
                        ELSE bin' = [bin EXCEPT ![u] = doc] /\ rdf' = rdf
  <2> HIDE DEF put
  <2> QED
    BY <1>2, <1>3, <1>4, <1>5 DEF StoreDoc
<1>7. \A v \in Uris \ {u} : rdf'[v] = rdf[v]
  BY <1>6 DEF TypeOK
<1>8. IF snap[w] # Nothing THEN pc'[w] = "idle"
      ELSE \/ Parent[u] = u /\ pc'[w] = "idle"
           \/ /\ Parent[u] # u /\ pc'[w] = "attachRead"
              /\ member'[w] = u /\ holder'[w] = Parent[u]
  <2>1. CASE snap[w] # Nothing /\ Answer(w, "200")
    BY <2>1, AnswerLocal
  <2>2. CASE snap[w] = Nothing /\ Parent[u] = u /\ Answer(w, "201")
    BY <2>2, AnswerLocal
  <2>3. CASE /\ snap[w] = Nothing /\ Parent[u] # u /\ Continue(w, "attachRead")
             /\ member' = [member EXCEPT ![w] = u]
             /\ holder' = [holder EXCEPT ![w] = Parent[u]]
    BY <2>3 DEF Continue, Goto, TypeOK
  <2> QED
    BY <2>1, <2>2, <2>3 DEF PutWrite
<1> QED
  BY <1>1, <1>2, <1>6, <1>7, <1>8

LEMMA PutWriteMaps ==
    ASSUME TypeOK, TypeOK', Shape, CleanJobs, NEW w \in Workers, Current(w), Steps(w), PutWrite(w)
    PROVE  UNCHANGED <<Completed, bin>> \/ Abstract!Next
<1> DEFINE u == job[w].uri
           doc == job[w].doc
           put == Merged(doc, rdf[u])
<1>1. /\ u \in Uris /\ u \in Zone(w) /\ Parent[u] \in Zone(w) /\ Zone(w) \subseteq Uris
      /\ pc[w] \notin Pending
      /\ rdf[u] \in Graphs \cup {Nothing}
  BY ZoneFacts DEF Current, PutWrite, TypeOK, Jobs, Pending
<1>2. \A c \in Zone(w) : Completed[c] = rdf[c]
  BY <1>1, QuietBefore
<1>3. ASSUME pc'[w] = "idle" PROVE \A c \in Zone(w) : Completed'[c] = rdf'[c]
  BY <1>3, QuietAfter DEF Pending
<1>4. CASE u \in Reserved
  <2>1. Answer(w, "403") /\ UNCHANGED <<rdf, bin>>
    BY <1>4 DEF PutWrite, store
  <2>2. \A c \in Zone(w) : Completed'[c] = Completed[c]
    BY <1>2, <1>3, <2>1, AnswerLocal
  <2> QED
    BY <2>1, <2>2, Unseen
<1>5. CASE u \notin Reserved /\ doc \in Graphs
  <2>1. doc.form = "rdf"
    BY <1>5, GraphFacts DEF Graphs
  <2>2. StoredFor(w) = rdf[u]
    BY <2>1 DEF StoredFor
  <2>3. /\ ~doc.container => doc.contains = {}
        /\ \A v \in Uris \ {u} : rdf'[v] = rdf[v]
        /\ rdf' = [rdf EXCEPT ![u] = put] /\ bin' = bin
    BY <1>5, <2>2, PutWriteEffect
  <2>4. /\ put \in Graphs /\ put = Graph(doc.container, put.contains, doc.body)
        /\ doc.container \in BOOLEAN /\ doc.body \in Bodies
        /\ put.contains = IF rdf[u].container \/ doc.container THEN rdf[u].contains ELSE {}
    <3>1. ~doc.container => doc.contains = {}
      BY <2>3
    <3>2. /\ put \in Graphs /\ put.container = doc.container /\ put.body = doc.body
          /\ rdf[u].container \/ doc.container => put.contains = rdf[u].contains
          /\ ~(rdf[u].container \/ doc.container) => put.contains = doc.contains
      BY <1>1, <1>5, MergedKeeps
    <3> HIDE DEF put
    <3> QED
      BY <1>5, <3>1, <3>2, GraphFacts
  <2> HIDE DEF put
  <2>5. rdf'[u] = put
    BY <1>1, <2>3 DEF TypeOK
  <2>6. CASE rdf[u] = Nothing
    <3>1. \/ Parent[u] = u /\ pc'[w] = "idle"
          \/ /\ Parent[u] # u /\ pc'[w] = "attachRead"
             /\ member'[w] = u /\ holder'[w] = Parent[u]
      BY <1>5, <2>2, <2>6, PutWriteEffect
    <3>2. Completed' = Abstract!Adopt([Completed EXCEPT ![u] = put], u)
      BY <1>1, <2>3, <2>5, <3>1, CreationShown
    <3>3. put = Abstract!Graph(doc.container, {}, doc.body)
      BY <2>4, <2>6, DocFacts, AbstractWords
    <3>4. Completed[u] = Abstract!Nothing
      BY <1>1, <1>2, <2>6, AbstractWords
    <3>5. Abstract!CreateGraph(u)
      BY <2>3, <2>4, <3>2, <3>3, <3>4 DEF Abstract!CreateGraph
    <3> QED
      BY <1>1, <3>5, Zenon DEF Abstract!Next
  <2>7. CASE rdf[u] # Nothing
    <3>1. pc'[w] = "idle"
      BY <1>5, <2>2, <2>7, PutWriteEffect
    <3>2. Completed' = [Completed EXCEPT ![u] = put]
      <4> DEFINE next == [Completed EXCEPT ![u] = put]
      <4>1. /\ next = [c \in Uris |-> next[c]]
            /\ next[u] = put /\ \A c \in Uris \ {u} : next[c] = Completed[c]
        BY <1>1 DEF Completed
      <4> HIDE DEF next
      <4>2. \A c \in Uris : Completed'[c] = next[c]
        BY <1>1, <1>2, <1>3, <2>3, <2>5, <3>1, <4>1 DEF Steps
      <4>3. Completed' = next
        BY <4>1, <4>2, PodIs
      <4> QED
        BY <4>3 DEF next
    <3>3. put = Abstract!Graph(doc.container,
                               IF Completed[u].container \/ doc.container
                               THEN Completed[u].contains ELSE {}, doc.body)
      BY <1>1, <1>2, <2>4, AbstractWords
    <3>4. Completed[u] # Abstract!Nothing
      BY <1>1, <1>2, <2>7, AbstractWords
    <3>5. Abstract!ReplaceGraph(u)
      BY <2>3, <2>4, <3>2, <3>3, <3>4 DEF Abstract!ReplaceGraph
    <3> QED
      BY <1>1, <3>5, Zenon DEF Abstract!Next
  <2> QED
    BY <2>6, <2>7
<1>6. CASE u \notin Reserved /\ doc \notin Graphs
  <2>1. doc \in Blobs /\ bin' = [bin EXCEPT ![u] = doc] /\ rdf' = rdf
    BY <1>6, PutWriteEffect
  <2>2. StoredFor(w) = bin[u]
    BY <2>1, GraphFacts DEF StoredFor
  <2>3. doc = Abstract!Blob(doc.body) /\ doc.body \in Bodies
    BY <2>1, GraphFacts, AbstractWords
  <2>4. Completed' = IF bin[u] = Nothing THEN Abstract!Adopt(Completed, u) ELSE Completed
    <3>1. CASE bin[u] = Nothing
      <4>1. \/ Parent[u] = u /\ pc'[w] = "idle"
            \/ /\ Parent[u] # u /\ pc'[w] = "attachRead"
               /\ member'[w] = u /\ holder'[w] = Parent[u]
        BY <1>6, <2>2, <3>1, PutWriteEffect
      <4>2. Completed' = Abstract!Adopt([Completed EXCEPT ![u] = rdf'[u]], u)
        BY <1>1, <2>1, <4>1, CreationShown
      <4>3. [Completed EXCEPT ![u] = rdf'[u]] = Completed
        <5>1. rdf'[u] = Completed[u]
          BY <1>1, <1>2, <2>1
        <5>2. [Completed EXCEPT ![u] = Completed[u]] = Completed
          BY DEF Completed
        <5> QED
          BY <5>1, <5>2
      <4> QED
        BY <3>1, <4>2, <4>3
    <3>2. CASE bin[u] # Nothing
      <4>1. pc'[w] = "idle"
        BY <1>6, <2>2, <3>2, PutWriteEffect
      <4>2. \A c \in Uris : Completed'[c] = Completed[c]
        BY <1>2, <1>3, <2>1, <4>1 DEF Steps
      <4>3. Completed = [c \in Uris |-> Completed[c]]
        BY DEF Completed
      <4> QED
        BY <3>2, <4>2, <4>3, PodIs
    <3> QED
      BY <3>1, <3>2
  <2>5. Abstract!PutBlob(u)
    BY <2>1, <2>3, <2>4, AbstractWords DEF Abstract!PutBlob
  <2> QED
    BY <1>1, <2>5, Zenon DEF Abstract!Next
<1> QED
  BY <1>4, <1>5, <1>6

(* A new member of c, shown with the listing that is still to be written. *)
LEMMA MemberShown ==
    ASSUME TypeOK, TypeOK', NEW w \in Workers, Steps(w), pc[w] \notin Pending,
           NEW c \in Zone(w), NEW m \in Zone(w), m # c, rdf[c].container,
           \A v \in Zone(w) \ {m} : rdf'[v] = rdf[v],
           pc'[w] = "listWrite", member'[w] = m, holder'[w] = c
    PROVE  Completed' = Abstract!Listing([Completed EXCEPT ![m] = rdf'[m]], c, m)
<1> DEFINE pod == [Completed EXCEPT ![m] = rdf'[m]]
           next == [pod EXCEPT ![c] = [pod[c] EXCEPT !.contains = pod[c].contains \cup {m}]]
<1>1. /\ Zone(w) \subseteq Uris
      /\ \A v \in Zone(w) : rdf'[v] \in Graphs \cup {Nothing}
      /\ rdf'[c].container
  BY ZoneFacts DEF TypeOK
<1>2. \A v \in Zone(w) : Completed[v] = rdf[v]
  BY QuietBefore
<1>3. next = Abstract!Listing(pod, c, m)
  BY DEF Abstract!Listing
<1>4. /\ pod = [v \in Uris |-> IF v = m THEN rdf'[m] ELSE Completed[v]]
      /\ \A v \in Zone(w) : pod[v] = rdf'[v]
      /\ \A v \in Uris \ Zone(w) : pod[v] = Completed[v]
  BY <1>1, <1>2 DEF Completed
<1> HIDE DEF pod
<1>5. /\ next = [v \in Uris |-> next[v]]
      /\ next[c] = [pod[c] EXCEPT !.contains = pod[c].contains \cup {m}]
      /\ \A v \in Uris \ {c} : next[v] = pod[v]
  BY <1>1, <1>4
<1> HIDE DEF next
<1>6. ASSUME NEW v \in Zone(w)
      PROVE  Completed'[v] = IF c = v THEN [rdf'[v] EXCEPT !.contains = rdf'[v].contains \cup {m}]
                             ELSE rdf'[v]
  <2>1. Completed'[v] = View("listWrite", job'[w].uri, m, c, rdf'[v], v)
    BY DEF Steps
  <2>2. rdf'[v] \in Graphs \cup {Nothing} /\ (c = v => rdf'[v].container)
    BY <1>1
  <2>3. View("listWrite", job'[w].uri, m, c, rdf'[v], v)
          = IF c = v /\ rdf'[v].container
            THEN WithMember(rdf'[v], m) ELSE rdf'[v]
    BY <2>2, ViewJoining
  <2> QED
    BY <2>1, <2>2, <2>3 DEF WithMember
<1>7. \A v \in Uris : Completed'[v] = next[v]
  <2>1. \A v \in Uris \ Zone(w) : v # c /\ Completed'[v] = pod[v]
    BY <1>4 DEF Steps
  <2>2. \A v \in Zone(w) \ {c} : Completed'[v] = pod[v]
    <3> SUFFICES ASSUME NEW v \in Zone(w) \ {c} PROVE Completed'[v] = pod[v]
      OBVIOUS
    <3>1. Completed'[v] = rdf'[v]
      BY <1>6
    <3> QED
      BY <1>4, <3>1
  <2>3. Completed'[c] = [pod[c] EXCEPT !.contains = pod[c].contains \cup {m}]
    BY <1>4, <1>6
  <2> QED
    BY <1>5, <2>1, <2>2, <2>3
<1>8. Completed' = next
  BY <1>5, <1>7, PodIs
<1> QED
  BY <1>3, <1>8 DEF pod

LEMMA PostWriteMaps ==
    ASSUME TypeOK, TypeOK', Shape, CleanJobs, NEW w \in Workers, Current(w), Steps(w), PostWrite(w)
    PROVE  UNCHANGED <<Completed, bin>> \/ Abstract!Next
<1> DEFINE c == job[w].uri
           doc == job[w].doc
<1>1. /\ c \in Uris /\ c \in Zone(w) /\ Mintable[c] \subseteq Zone(w) /\ Zone(w) \subseteq Uris
      /\ pc[w] = "postWrite" /\ pc[w] \notin Pending
      /\ rdf[c].container
  BY ZoneFacts DEF Current, PostWrite, TypeOK, Jobs, Pending
<1>2. \A v \in Zone(w) : Completed[v] = rdf[v]
  BY <1>1, QuietBefore
<1>3. doc \in Graphs \cup Blobs /\ doc.contains = {}
  BY <1>1 DEF Shape, Holds, CleanJobs, CleanJob
<1>4. ASSUME NEW code, Answer(w, code), UNCHANGED store PROVE UNCHANGED <<Completed, bin>>
  <2>1. pc'[w] = "idle" /\ UNCHANGED <<rdf, bin>>
    BY <1>4, AnswerLocal DEF store
  <2>2. \A v \in Zone(w) : Completed'[v] = Completed[v]
    BY <1>2, <2>1, QuietAfter DEF Pending
  <2> QED
    BY <2>1, <2>2, Unseen
<1>5. ASSUME NEW m \in Mintable[c], Fresh(m), StoreDoc(m, doc), Continue(w, "listWrite"),
             member' = [member EXCEPT ![w] = m], holder' = [holder EXCEPT ![w] = c]
      PROVE  Abstract!Next
  <2>1. /\ m \in Zone(w) /\ m \in Uris /\ rdf[m] = Nothing /\ bin[m] = Nothing
        /\ m # c
    BY <1>1, <1>5, DocFacts DEF Fresh, Exists
  <2>2. pc'[w] = "listWrite" /\ member'[w] = m /\ holder'[w] = c
    BY <1>5 DEF Continue, Goto, TypeOK
  <2>3. \A v \in Zone(w) \ {m} : rdf'[v] = rdf[v]
    BY <1>1, <1>5, <2>1, StoreDocLocal
  <2>4. Completed' = Abstract!Listing([Completed EXCEPT ![m] = rdf'[m]], c, m)
    BY <1>1, <2>1, <2>2, <2>3, MemberShown
  <2>5. /\ Completed[c].container
        /\ Completed[m] = Nothing /\ ~Abstract!Exists(m)
    BY <1>1, <1>2, <2>1, AbstractWords DEF Abstract!Exists
  <2>6. CASE doc \in Graphs
    <3>1. rdf'[m] = doc /\ UNCHANGED bin
      BY <1>5, <2>1, <2>6 DEF StoreDoc, Graphs, TypeOK
    <3>2. /\ doc = Abstract!Graph(doc.container, {}, doc.body)
          /\ doc.container \in BOOLEAN /\ doc.body \in Bodies
      BY <1>3, <2>6, GraphFacts, AbstractWords
    <3>3. Completed' = Abstract!Listing(
                          [Completed EXCEPT ![m] = Abstract!Graph(doc.container, {}, doc.body)],
                          c, m)
      BY <2>4, <3>1, <3>2
    <3>4. Abstract!Post(c)
      BY <2>5, <3>1, <3>2, <3>3 DEF Abstract!Post
    <3> QED
      BY <1>1, <3>4, Zenon DEF Abstract!Next
  <2>7. CASE doc \in Blobs
    <3>1. rdf' = rdf /\ bin' = [bin EXCEPT ![m] = doc]
      BY <1>5, <2>7, GraphFacts DEF StoreDoc
    <3>2. doc = Abstract!Blob(doc.body) /\ doc.body \in Bodies
      BY <2>7, GraphFacts, AbstractWords
    <3>3. [Completed EXCEPT ![m] = rdf'[m]] = Completed
      <4>1. rdf'[m] = Completed[m]
        BY <2>1, <2>5, <3>1
      <4>2. [Completed EXCEPT ![m] = Completed[m]] = Completed
        BY DEF Completed
      <4> QED
        BY <4>1, <4>2
    <3>4. Completed' = Abstract!Listing(Completed, c, m)
      BY <2>4, <3>3
    <3>5. bin' = [bin EXCEPT ![m] = Abstract!Blob(doc.body)]
      BY <3>1, <3>2
    <3>6. Abstract!Post(c)
      BY <2>5, <3>2, <3>4, <3>5 DEF Abstract!Post
    <3> QED
      BY <1>1, <3>6, Zenon DEF Abstract!Next
  <2> QED
    BY <1>3, <2>6, <2>7
<1>6. CASE \E code : Answer(w, code) /\ UNCHANGED store
  BY <1>4, <1>6
<1>7. CASE \E m \in Mintable[c] :
              /\ Fresh(m) /\ StoreDoc(m, doc) /\ Continue(w, "listWrite")
              /\ member' = [member EXCEPT ![w] = m] /\ holder' = [holder EXCEPT ![w] = c]
  BY <1>5, <1>7
<1> QED
  BY <1>6, <1>7 DEF PostWrite

(* A resource that is gone, shown with the listing that still has it. *)
LEMMA RemovalShown ==
    ASSUME TypeOK, TypeOK', NEW w \in Workers, Steps(w), pc[w] \notin Pending,
           NEW u \in Zone(w), Parent[u] \in Zone(w),
           \A c \in Zone(w) \ {u} : rdf'[c] = rdf[c],
           \/ Parent[u] = u /\ pc'[w] = "idle"
           \/ Parent[u] # u /\ pc'[w] = "detachRead" /\ job'[w].uri = u
    PROVE  Completed' = Abstract!Disown([Completed EXCEPT ![u] = rdf'[u]], u)
<1> DEFINE pod == [Completed EXCEPT ![u] = rdf'[u]]
           p == Parent[u]
<1>1. /\ Zone(w) \subseteq Uris
      /\ \A c \in Zone(w) : rdf'[c] \in Graphs \cup {Nothing}
  BY ZoneFacts DEF TypeOK
<1>2. \A c \in Zone(w) : Completed[c] = rdf[c]
  BY QuietBefore
<1>3. /\ pod = [c \in Uris |-> IF c = u THEN rdf'[u] ELSE Completed[c]]
      /\ \A c \in Zone(w) : pod[c] = rdf'[c]
      /\ \A c \in Uris \ Zone(w) : pod[c] = Completed[c]
  BY <1>1, <1>2 DEF Completed
<1> HIDE DEF pod
<1>4. CASE p = u
  <2>1. \A c \in Zone(w) : Completed'[c] = rdf'[c]
    BY <1>4, QuietAfter DEF Pending
  <2>2. \A c \in Uris : Completed'[c] = pod[c]
    BY <1>3, <2>1 DEF Steps
  <2>3. Completed' = pod
    BY <1>3, <2>2, PodIs
  <2> QED
    BY <1>4, <2>3, Disowning DEF pod
<1>5. CASE p # u
  <2>1. pc'[w] = "detachRead" /\ job'[w].uri = u
    BY <1>5
  <2>2. ASSUME NEW c \in Zone(w)
        PROVE  Completed'[c] = IF p = c /\ rdf'[c] # Nothing
                               THEN [rdf'[c] EXCEPT !.contains = rdf'[c].contains \ {u}]
                               ELSE rdf'[c]
    <3>1. Completed'[c] = View("detachRead", u, member'[w], holder'[w], rdf'[c], c)
      BY <2>1 DEF Steps
    <3>2. View("detachRead", u, member'[w], holder'[w], rdf'[c], c)
            = IF p = c /\ rdf'[c] # Nothing
              THEN WithoutMember(rdf'[c], u) ELSE rdf'[c]
      <4>1. rdf'[c] \in Graphs \cup {Nothing}
        BY <1>1
      <4> QED
        BY <4>1, ViewLeaving
    <3> QED
      BY <3>1, <3>2 DEF WithoutMember
  <2>3. CASE rdf'[p] # Nothing
    <3> DEFINE next == [pod EXCEPT ![p] = [pod[p] EXCEPT !.contains = pod[p].contains \ {u}]]
    <3>1. next = Abstract!Disown(pod, u)
      BY <1>3, <1>5, <2>3, Disowning
    <3>2. next = [c \in Uris |-> next[c]]
      BY <1>3
    <3>3. \A c \in Uris : Completed'[c] = next[c]
      <4>1. p \in Uris /\ next[p] = [pod[p] EXCEPT !.contains = pod[p].contains \ {u}]
        BY <1>1, <1>3
      <4>2. \A c \in Uris \ {p} : next[c] = pod[c]
        BY <1>3
      <4>3. \A c \in Uris \ Zone(w) : c # p /\ Completed'[c] = pod[c]
        BY <1>3 DEF Steps
      <4>4. \A c \in Zone(w) \ {p} : Completed'[c] = pod[c]
        BY <1>3, <2>2
      <4>5. Completed'[p] = [pod[p] EXCEPT !.contains = pod[p].contains \ {u}]
        BY <1>3, <2>2, <2>3
      <4> HIDE DEF next
      <4> QED
        BY <4>1, <4>2, <4>3, <4>4, <4>5
    <3> HIDE DEF next
    <3>4. Completed' = next
      BY <3>2, <3>3, PodIs
    <3> QED
      BY <3>1, <3>4 DEF pod
  <2>4. CASE rdf'[p] = Nothing
    <3>1. pod = Abstract!Disown(pod, u)
      BY <1>3, <2>4, Disowning
    <3>2. \A c \in Uris : Completed'[c] = pod[c]
      BY <1>3, <2>2, <2>4 DEF Steps
    <3>3. Completed' = pod
      BY <1>3, <3>2, PodIs
    <3> QED
      BY <3>1, <3>3 DEF pod
  <2> QED
    BY <2>3, <2>4
<1> QED
  BY <1>4, <1>5

LEMMA DeleteApplyMaps ==
    ASSUME TypeOK, TypeOK', NEW w \in Workers, Current(w), Steps(w), DeleteApply(w)
    PROVE  UNCHANGED <<Completed, bin>> \/ Abstract!Next
<1> DEFINE u == job[w].uri
<1>1. /\ u \in Uris /\ u \in Zone(w) /\ Parent[u] \in Zone(w) /\ Zone(w) \subseteq Uris
      /\ pc[w] = "deleteApply" /\ pc[w] \notin Pending
      /\ rdf[u].container => rdf[u].contains = {}
  BY ZoneFacts DEF Current, DeleteApply, TypeOK, Jobs, Pending
<1>2. \A c \in Zone(w) : Completed[c] = rdf[c]
  BY <1>1, QuietBefore
<1>3. ASSUME NEW code, Answer(w, code), UNCHANGED store PROVE UNCHANGED <<Completed, bin>>
  <2>1. pc'[w] = "idle" /\ UNCHANGED <<rdf, bin>>
    BY <1>3, AnswerLocal DEF store
  <2>2. \A c \in Zone(w) : Completed'[c] = Completed[c]
    BY <1>2, <2>1, QuietAfter DEF Pending
  <2> QED
    BY <2>1, <2>2, Unseen
<1>4. CASE \E code : Answer(w, code) /\ UNCHANGED store
  BY <1>3, <1>4
<1>5. CASE /\ Exists(u)
           /\ IF rdf[u] # Nothing
              THEN rdf' = [rdf EXCEPT ![u] = Nothing] /\ UNCHANGED bin
              ELSE bin' = [bin EXCEPT ![u] = Nothing] /\ UNCHANGED rdf
           /\ \/ Parent[u] = u /\ Answer(w, "204")
              \/ Parent[u] # u /\ Continue(w, "detachRead")
  <2>1. \/ Parent[u] = u /\ pc'[w] = "idle"
        \/ Parent[u] # u /\ pc'[w] = "detachRead" /\ job'[w].uri = u
    BY <1>5, AnswerLocal DEF Continue, Goto, TypeOK
  <2>2. /\ \A c \in Zone(w) \ {u} : rdf'[c] = rdf[c]
        /\ rdf'[u] = Nothing
    BY <1>1, <1>5 DEF TypeOK
  <2>3. Completed' = Abstract!Disown([Completed EXCEPT ![u] = Nothing], u)
    BY <1>1, <2>1, <2>2, RemovalShown
  <2>4. CASE rdf[u] # Nothing
    <3>1. /\ Completed[u] # Abstract!Nothing
          /\ Completed[u].container => Completed[u].contains = {}
      BY <1>1, <1>2, <2>4, AbstractWords
    <3>2. Abstract!DeleteGraph(u)
      BY <1>5, <2>3, <2>4, <3>1, AbstractWords DEF Abstract!DeleteGraph
    <3> QED
      BY <1>1, <3>2, Zenon DEF Abstract!Next
  <2>5. CASE rdf[u] = Nothing
    <3>1. Completed[u] = Nothing
      BY <1>1, <1>2, <2>5
    <3>2. [Completed EXCEPT ![u] = Nothing] = Completed
      <4>1. [Completed EXCEPT ![u] = Completed[u]] = Completed
        BY DEF Completed
      <4> QED
        BY <3>1, <4>1
    <3>3. /\ bin[u] # Nothing /\ bin' = [bin EXCEPT ![u] = Nothing]
      BY <1>5, <2>5 DEF Exists
    <3>4. Abstract!DeleteBlob(u)
      BY <2>3, <3>1, <3>2, <3>3, AbstractWords DEF Abstract!DeleteBlob
    <3> QED
      BY <1>1, <3>4, Zenon DEF Abstract!Next
  <2> QED
    BY <2>4, <2>5
<1> QED
  BY <1>4, <1>5 DEF DeleteApply

(* A pod at which no request is under way is shown as it is. *)
SettledShown == TypeOK /\ AllIdle => Completed = rdf

LEMMA Settled == SettledShown
<1> SUFFICES ASSUME TypeOK, AllIdle PROVE Completed = rdf
  BY DEF SettledShown
<1>1. ASSUME NEW c \in Uris PROVE Completed[c] = rdf[c]
  <2>1. Joining(c) = {} /\ Leaving(c) = {}
    BY DEF AllIdle, Joining, Leaving
  <2>2. (rdf[c].contains \cup {}) \ {} = rdf[c].contains
    OBVIOUS
  <2>3. rdf[c] # Nothing => [rdf[c] EXCEPT !.contains = rdf[c].contains] = rdf[c]
    BY DEF TypeOK, Graphs
  <2> QED
    BY <2>1, <2>2, <2>3 DEF Completed
<1>2. Completed = [c \in Uris |-> Completed[c]] /\ rdf = [c \in Uris |-> rdf[c]]
  BY DEF Completed, TypeOK
<1> QED
  BY <1>1, <1>2

LEMMA SettledNext == SettledShown'
  BY Settled, PTL

(* A restart between requests seeds the root, in both. *)
LEMMA RestartMaps ==
    ASSUME TypeOK, TypeOK', AllIdle, Restart
    PROVE  UNCHANGED <<Completed, bin>> \/ Abstract!Next
<1>1. AllIdle'
  BY DEF Restart, AllIdle
<1>2. Completed = rdf /\ Completed' = rdf'
  BY <1>1, Settled, SettledNext DEF SettledShown
<1>3. CASE rdf[Root] = Nothing
  <2>1. Abstract!Restart
    BY <1>2, <1>3, AbstractWords DEF Restart, Abstract!Restart
  <2> QED
    BY <2>1 DEF Abstract!Next
<1>4. CASE rdf[Root] # Nothing
  BY <1>2, <1>4 DEF Restart
<1> QED
  BY <1>3, <1>4

LEMMA ServeMaps ==
    ASSUME ZonesApart, TypeOK, TypeOK', Shape, CleanJobs, AllCurrent, AllCurrent',
           NEW w \in Workers, Serve(w)
    PROVE  UNCHANGED <<Completed, bin>> \/ Abstract!Next
<1>1. Current(w)
  BY DEF AllCurrent
<1>2. Local(w)
  BY <1>1, ServeCurrent
<1>3. Steps(w)
  BY <1>2, StepShown
<1>4. CASE \/ Arrive(w) \/ PutCheck(w) \/ AttachRead(w) \/ PostRead(w) \/ DeleteCheck(w)
           \/ DetachRead(w)
  BY <1>1, <1>3, <1>4, ReadsMap
<1>5. CASE ListWrite(w) \/ DetachWrite(w)
  BY <1>1, <1>3, <1>5, WriteBackMaps
<1>6. CASE PutWrite(w)
  BY <1>1, <1>3, <1>6, PutWriteMaps
<1>7. CASE PostWrite(w)
  BY <1>1, <1>3, <1>7, PostWriteMaps
<1>8. CASE DeleteApply(w)
  BY <1>1, <1>3, <1>8, DeleteApplyMaps
<1> QED
  BY <1>4, <1>5, <1>6, <1>7, <1>8 DEF Serve, Put, Post, Delete

(* Threads that work on different parts of the pod carry out the atomic     *)
(* writes that a client on its own is promised: each request that goes      *)
(* through changes its resource and the listing of the parent in one step,  *)
(* however the backend calls of the threads interleave.                     *)
THEOREM WritesImplemented ==
    ASSUME ZonesApart, CleanBodies
    PROVE  OrderlySpec => ImplementsStore
<1>1. Init => Abstract!Init
  <2>1. Init => TypeOK /\ AllIdle
    BY InitTyped DEF Init, AllIdle
  <2>2. Init => Completed = rdf
    BY <2>1, Settled DEF SettledShown
  <2> QED
    BY <2>2, AbstractWords DEF Init, Abstract!Init
<1>2. [OrderlyNext]_vars => [Next]_vars
  BY DEF OrderlyNext, Next
<1>3. /\ TypeOK /\ Shape /\ CleanJobs /\ AllCurrent /\ [Next]_vars
         => TypeOK' /\ Shape' /\ CleanJobs' /\ AllCurrent'
  BY TypedStep, CleanStep, CurrentStep, ZonesApart, CleanBodies
<1>4. /\ TypeOK /\ TypeOK' /\ Shape /\ CleanJobs /\ AllCurrent /\ AllCurrent' /\ [OrderlyNext]_vars
         => [Abstract!Next]_<<Completed, bin>>
  <2> SUFFICES ASSUME TypeOK, TypeOK', Shape, CleanJobs, AllCurrent, AllCurrent',
                      [OrderlyNext]_vars
               PROVE  UNCHANGED <<Completed, bin>> \/ Abstract!Next
    OBVIOUS
  <2>1. ASSUME NEW w \in Workers, Serve(w) PROVE UNCHANGED <<Completed, bin>> \/ Abstract!Next
    BY <2>1, ServeMaps, ZonesApart
  <2>2. CASE AllIdle /\ Restart
    BY <2>2, RestartMaps
  <2>3. CASE UNCHANGED vars
    BY <2>3 DEF vars, Completed, Joining, Leaving
  <2> QED
    BY <2>1, <2>2, <2>3 DEF OrderlyNext
<1> QED
  BY <1>1, <1>2, <1>3, <1>4, InitTyped, InitClean, InitCurrent, PTL
     DEF OrderlySpec, ImplementsStore, Abstract!Spec
=============================================================================
