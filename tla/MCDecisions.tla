---------------------------- MODULE MCDecisions ----------------------------
(***************************************************************************)
(* One run for two components that share no state: a behaviour moves the   *)
(* view and its pages (ViewTemplates) or the container (Representations).  *)
(* The texts hold each thing that can hide a brace or a WHERE from a scan, *)
(* or show it one that is not there.                                       *)
(***************************************************************************)
EXTENDS ViewTemplates, Representations

CONSTANTS c, o, m1, m2, t1

MCNotes == {{}, {<<o, "member", m1>>, <<m2, "partOf", o>>, <<c, "title", t1>>, <<o, "contains", m1>>}}

ASSUME NotesArePlain == PlainNotes
ASSUME PartsAreSeparate == SeparateParts

(* Where the texts vary most, the data are at rest.                        *)
Simple(d) == d = NoView \/ (d.prologue = <<>> /\ d.gap = <<"sp">>)

MCInit == Init /\ InitStored
MCNext == \/ Next /\ stored = {} /\ UNCHANGED stored /\ (data' = NoData \/ Simple(definition'))
          \/ NextStored /\ definition = NoView /\ data = NoData /\ UNCHANGED vars
MCSpec == MCInit /\ [][MCNext]_<<vars, stored>>
-----------------------------------------------------------------------------

MCPrologues == {
    <<>>,
    \* PREFIX where: <...>
    <<"letters", "sp", "where", ":", "sp", "<", "letters", "#", "where", ">", "nl">>,
    \* # ... WHERE { "
    <<"#", "sp", "where", "sp", "{", "dq", "nl">>}

Construct == <<"letters", "sp">>
MCHeads == {
    \* { ?p ... }
    Construct \o <<"{", "?", "p", "sp", "letters", "sp", "?", "uri", "}">>,
    \* { ?where ex:where where:p-where }
    Construct \o <<"{", "?", "where", "sp", "letters", ":", "where", "sp",
                   "where", ":", "p", "-", "where", "sp", "}">>,
    \* { "\" WHERE {" ?p }
    Construct \o <<"{", "dq", "bs", "dq", "sp", "where", "sp", "{", "dq", "sp", "?", "p", "}">>,
    \* { "\\" ?p '"' }
    Construct \o <<"{", "dq", "bs", "bs", "dq", "sp", "?", "p", "sp", "sq", "dq", "sq", "}">>,
    \* { """p" WHERE {""" ... }
    Construct \o <<"{", "dq", "dq", "dq", "p", "dq", "sp", "where", "sp", "{", "sq",
                   "dq", "dq", "dq", "sp", "letters", "}">>,
    \* { "" # ' WHERE {
    \*   $p ex:a%20where }
    Construct \o <<"{", "dq", "dq", "sp", "#", "sq", "where", "sp", "{", "nl",
                   "$", "p", "sp", "letters", ":", "letters", "%", "1", "1", "where", "}">>}

(* CONSTRUCT WHERE { ... } and CONSTRUCT { ... }: no template of its own   *)
MCShortHand == Construct

MCGaps == {<<"sp">>, <<"#", "sp", "where", "sp", "{", "nl">>}

MCPatterns == {
    <<"{", "?", "p", "sp", "letters", "sp", "?", "uri", "}">>,
    \* { { ... } # ?p
    \* }
    <<"{", "{", "letters", "}", "#", "?", "p", "nl", "}">>,
    \* { # select
    \* SELECT * WHERE { ?p } }
    <<"{", "#", "select", "nl", "select", "sp", "where", "sp", "{", "?", "p", "}", "}">>}

MCParams == {"p", "uri"}
MCValues == {"v1", "v2", "bad"}
MCWellTyped == {"v1", "v2"}
MCResources == {"r1", "r2"}
MCReferences == {[to |-> "r1", when |-> [n \in MCParams |-> IF n = "p" THEN "v1" ELSE "v2"]],
                 [to |-> "r2", when |-> [n \in MCParams |-> "v2"]]}
=============================================================================
