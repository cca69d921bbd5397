------------------------- MODULE ViewCatalog_proofs -------------------------
(***************************************************************************)
(* Theorems about ViewCatalog, for any number of views, grants, entries    *)
(* and resources of the data plane: the listings are exact, discovery is   *)
(* total, and the statistics fit together.  For the last, Surveying says   *)
(* where each count stands between what was logged throughout the request  *)
(* and what was at any time; sums over a breakdown are taken apart one key *)
(* at a time, and the smallest counterexample is refuted where an          *)
(* induction is needed.                                                    *)
(***************************************************************************)
EXTENDS ViewCatalog, FiniteSetTheorems, TLAPS

RecordsOK ==
    /\ views \in [Ids -> Defs \cup {Absent}]
    /\ grants \in [Grants -> GrantRecords]
    /\ policies \subseteq Grants
    /\ log \in [Entries -> LogRecords]
    /\ said \in [Uris -> SUBSET Statements]
    /\ engine \in BOOLEAN
HistoryOK ==
    /\ seen \in [Ids -> SUBSET (Defs \cup {Absent})]
    /\ steady \subseteq ever /\ ever \subseteq Uris
    /\ lapses \subseteq {"engine", "grant", "entry"}

LEMMA Addresses ==
    /\ \A i \in Ids : ViewUri(i) \in Uris
    /\ \A g \in Grants : TokenUri(g) \in Uris /\ PolicyUri(g) \in Uris
    /\ \A e \in Entries : EntryUri(e) \in Uris
    /\ \A n \in Notes : <<"data", n>> \in Uris
BY DEF ViewUri, TokenUri, PolicyUri, EntryUri, Uris

LEMMA IdleReader == Idle \in Readers /\ Idle.at = "idle" /\ Idle.kind = "none"
<1>1. (CHOOSE g \in Grants : TRUE) \in Grants
  BY CatalogAssumption
<1> QED
  BY <1>1 DEF Idle, Readers, Steps

LEMMA FiniteUris == IsFiniteSet(Uris)
<1>1. IsFiniteSet(Ids) /\ IsFiniteSet(Grants) /\ IsFiniteSet(Entries) /\ IsFiniteSet(Notes)
  BY CatalogAssumption
<1>2. \A c \in {"views", "access-log", "data", "tokens", "policies"} : IsFiniteSet({c})
  BY FS_Singleton
<1>3. IsFiniteSet({"tokens"} \cup {"policies"}) /\ {"tokens"} \cup {"policies"} = {"tokens", "policies"}
  BY <1>2, FS_Union
<1>4. IsFiniteSet({"views"} \X Ids) /\ IsFiniteSet({"tokens", "policies"} \X Grants)
  BY <1>1, <1>2, <1>3, FS_Product
<1>5. IsFiniteSet({"access-log"} \X Entries) /\ IsFiniteSet({"data"} \X Notes)
  BY <1>1, <1>2, FS_Product
<1> QED
  BY <1>4, <1>5, FS_Union DEF Uris

LEMMA Counted ==
    ASSUME TypeOK
    PROVE  /\ \A type \in Types : Cardinality(TypedAs(type)) \in Nat
           /\ \A S \in SUBSET Entries : Cardinality(S) \in Nat
<1>1. \A type \in Types : TypedAs(type) \subseteq Uris
  BY DEF TypedAs
<1> QED
  BY <1>1, FiniteUris, CatalogAssumption, FS_Subset, FS_CardinalityType

(* Who writes to the catalog leaves the reader alone, and keeps it typed.   *)
Writes == Owner \/ \E e \in Entries : AppendEntry(e)
Reads == Discover \/ Survey \/ CredentialRefused \/ Finish

LEMMA NextSplits == Next => (Writes \/ Reads) /\ Watch
BY DEF Next, Work, Writes, Reads

LEMMA WritesTyped ==
    ASSUME TypeOK, Writes PROVE RecordsOK' /\ UNCHANGED reader
<1> USE Addresses DEF RecordsOK, TypeOK
<1>1. ASSUME NEW i \in Ids, WriteView(i) PROVE RecordsOK' /\ UNCHANGED reader
  BY <1>1 DEF WriteView, Store, Canonical, Statements, Types
<1>2. ASSUME NEW i \in Ids, DeleteView(i) PROVE RecordsOK' /\ UNCHANGED reader
  BY <1>2 DEF DeleteView, Erase
<1>3. ASSUME NEW g \in Grants, IssueGrant(g) PROVE RecordsOK' /\ UNCHANGED reader
  BY <1>3, CatalogAssumption DEF IssueGrant, Store, Canonical, Statements, Types, GrantRecords
<1>4. ASSUME NEW g \in Grants, WritePolicy(g) PROVE RecordsOK' /\ UNCHANGED reader
  BY <1>4 DEF WritePolicy, Store, Canonical, Statements, Types
<1>5. ASSUME NEW g \in Grants, RevokeGrant(g) \/ DropPolicy(g) PROVE RecordsOK' /\ UNCHANGED reader
  BY <1>5 DEF RevokeGrant, DropPolicy, Erase, GrantRecords
<1>6. ASSUME NEW e \in Entries, EraseEntry(e) PROVE RecordsOK' /\ UNCHANGED reader
  BY <1>6 DEF EraseEntry, Erase, LogRecords
<1>7. ASSUME NEW n \in Notes, WriteNote(n) PROVE RecordsOK' /\ UNCHANGED reader
  <2>1. DataGraphs \subseteq SUBSET Statements
    BY DataAssumption DEF Statements, Uris
  <2> QED
    BY <1>7, <2>1 DEF WriteNote
<1>8. ASSUME RevokeEngine \/ Boot PROVE RecordsOK' /\ UNCHANGED reader
  BY <1>8 DEF RevokeEngine, Boot
<1>9. ASSUME NEW e \in Entries, AppendEntry(e) PROVE RecordsOK' /\ UNCHANGED reader
  BY <1>9 DEF AppendEntry, Store, Canonical, Statements, Types, LogRecords
<1> QED
  BY <1>1, <1>2, <1>3, <1>4, <1>5, <1>6, <1>7, <1>8, <1>9
  DEF Writes, Owner, CreateView, ReplaceView

LEMMA ReadsTyped ==
    ASSUME TypeOK, Reads PROVE reader' \in Readers /\ UNCHANGED records
<1> USE IdleReader DEF TypeOK, Proceed
<1>1. ASSUME NEW code \in {"200", "401", "502"}, Answer(code)
      PROVE  reader' \in Readers /\ UNCHANGED records
  BY <1>1 DEF Answer, Readers, Steps
<1>2. ASSUME NEW g \in Grants, StartDiscovery(g) PROVE reader' \in Readers /\ UNCHANGED records
  BY <1>2 DEF StartDiscovery, Readers, Steps
<1>3. ASSUME StartStats PROVE reader' \in Readers /\ UNCHANGED records
  BY <1>3 DEF StartStats, Readers, Steps
<1>4. ASSUME LookUpToken PROVE reader' \in Readers /\ UNCHANGED records
  BY <1>4, <1>1 DEF LookUpToken, Readers, Steps
<1>5. ASSUME ReadToken PROVE reader' \in Readers /\ UNCHANGED records
  <2>1. grants[reader.grant].links \in SUBSET Ids
    BY CatalogAssumption DEF GrantRecords, Readers
  <2>2. CASE ~Known
    BY <1>5, <1>1, <2>2 DEF ReadToken
  <2>3. CASE Known /\ reader.kind = "stats"
    BY <1>5, <2>3 DEF ReadToken, Readers, Steps
  <2>4. CASE Known /\ reader.kind # "stats"
    <3>1. reader' = [reader EXCEPT !.at = "walk", !.todo = grants[reader.grant].links]
      BY <1>5, <2>4 DEF ReadToken
    <3> QED
      BY <1>5, <2>1, <2>4, <3>1 DEF ReadToken, Readers, Steps
  <2> QED
    BY <2>2, <2>3, <2>4
<1>6. ASSUME NEW i \in Ids, Describe(i) PROVE reader' \in Readers /\ UNCHANGED records
  BY <1>6 DEF Describe, Readers, Steps
<1>7. ASSUME CountAll \/ CountByView \/ CountByToken
      PROVE  reader' \in Readers /\ UNCHANGED records
  <2>1. /\ Cardinality(TypedAs("AccessLogEntry")) \in Nat
        /\ \A i \in Ids : Cardinality({e \in Kept : log[e].view = i}) \in Nat
        /\ \A g \in Grants : Cardinality({e \in Kept : log[e].token = g}) \in Nat
    BY Counted DEF Kept, Types
  <2>2. CASE CountAll
    BY <2>1, <2>2 DEF CountAll, Readers, Steps
  <2>3. CASE CountByView
    BY <2>1, <2>3 DEF CountByView, Readers, Steps
  <2>4. CASE CountByToken
    BY <2>1, <2>4 DEF CountByToken, Readers, Steps
  <2> QED
    BY <1>7, <2>2, <2>3, <2>4
<1>8. ASSUME Finish PROVE reader' \in Readers /\ UNCHANGED records
  BY <1>8 DEF Finish
<1> QED
  BY <1>1, <1>2, <1>3, <1>4, <1>5, <1>6, <1>7, <1>8
  DEF Reads, Discover, Survey, AnswerDiscovery, CredentialRefused
LEMMA HistoryTyped ==
    ASSUME TypeOK, RecordsOK', reader' \in Readers, Watch PROVE HistoryOK'
<1> USE DEF HistoryOK
<1>1. Logged' \subseteq Uris
  BY DEF Logged, TypedAs
<1>2. \A i \in Ids : views'[i] \in Defs \cup {Absent}
  BY DEF RecordsOK
<1>3. Lapses \subseteq {"engine", "grant", "entry"}
  BY DEF Lapses
<1>4. CASE Forget
  BY <1>4 DEF Forget
<1>5. CASE Begin
  <2>1. CASE reader'.kind = "stats"
    BY <1>1, <1>5, <2>1 DEF Begin, TypeOK
  <2>2. CASE reader'.kind # "stats"
    <3>1. seen' = [i \in Ids |-> {views'[i]}] /\ lapses' = Lapses /\ UNCHANGED <<steady, ever>>
      BY <1>5, <2>2 DEF Begin
    <3>2. seen' \in [Ids -> SUBSET (Defs \cup {Absent})]
      BY <1>2, <3>1
    <3> QED
      BY <1>3, <3>1, <3>2 DEF TypeOK
  <2> QED
    BY <2>1, <2>2
<1>6. CASE Remember
  BY <1>1, <1>2, <1>3, <1>6 DEF Remember, TypeOK
<1> QED
  BY <1>4, <1>5, <1>6 DEF Watch

(* Every reachable state of the catalog and its readers is well typed.      *)
THEOREM TypeCorrect == Spec => []TypeOK
<1>1. Init => TypeOK
  <2> SUFFICES ASSUME Init PROVE TypeOK
    OBVIOUS
  <2>1. (CHOOSE g \in Grants : TRUE) \in Grants /\ (CHOOSE i \in Ids : TRUE) \in Ids
    BY CatalogAssumption
  <2> QED
    BY <2>1, IdleReader DEF Init, TypeOK, GrantRecords, LogRecords
<1>2. TypeOK /\ [Next]_vars => TypeOK'
  <2> SUFFICES ASSUME TypeOK, [Next]_vars PROVE TypeOK'
    OBVIOUS
  <2>1. CASE Next
    <3>1. RecordsOK' /\ reader' \in Readers
      BY <2>1, NextSplits, WritesTyped, ReadsTyped DEF TypeOK, RecordsOK, records
    <3>2. HistoryOK'
      BY <2>1, <3>1, NextSplits, HistoryTyped
    <3> QED
      BY <3>1, <3>2 DEF TypeOK, RecordsOK, HistoryOK
  <2>2. CASE UNCHANGED vars
    BY <2>2 DEF vars, TypeOK
  <2> QED
    BY <2>1, <2>2
<1> QED
  BY <1>1, <1>2, PTL DEF Spec

----------------------------------------------------------------------------
(* Each graph says what its record is, and nothing of another one. *)
Only(there, uri, type) == said[uri] = IF there THEN {<<uri, type>>} ELSE {}
Tidy ==
    /\ \A i \in Ids : Only(views[i] # Absent, ViewUri(i), "View")
    /\ \A g \in Grants : Only(grants[g].status = "live", TokenUri(g), "Token")
    /\ \A g \in Grants : Only(g \in policies, PolicyUri(g), "Policy")
    /\ \A e \in Entries : Only(log[e].status = "kept", EntryUri(e), "AccessLogEntry")
    /\ \A n \in Notes : said[<<"data", n>>] \subseteq (({"data"} \X Notes) \X Types)

(* X is what the graph at w should be now, and no other record came or went. *)
Fits(w, X) ==
    /\ \A i \in Ids : IF w = ViewUri(i)
                      THEN X = IF views'[i] # Absent THEN {<<w, "View">>} ELSE {}
                      ELSE views'[i] = views[i]
    /\ \A g \in Grants : IF w = TokenUri(g)
                         THEN X = IF grants'[g].status = "live" THEN {<<w, "Token">>} ELSE {}
                         ELSE grants'[g] = grants[g]
    /\ \A g \in Grants : IF w = PolicyUri(g)
                         THEN X = IF g \in policies' THEN {<<w, "Policy">>} ELSE {}
                         ELSE (g \in policies') <=> (g \in policies)
    /\ \A e \in Entries : IF w = EntryUri(e)
                          THEN X = IF log'[e].status = "kept" THEN {<<w, "AccessLogEntry">>} ELSE {}
                          ELSE log'[e] = log[e]
    /\ \A n \in Notes : w = <<"data", n>> => X \subseteq (({"data"} \X Notes) \X Types)

LEMMA TidyAgain ==
    ASSUME said \in [Uris -> SUBSET Statements], Tidy,
           NEW w \in Uris, NEW X, said' = [said EXCEPT ![w] = X], Fits(w, X)
    PROVE  Tidy'
<1> USE DEF Fits
<1>0. \A u \in Uris : said'[u] = IF u = w THEN X ELSE said[u]
  OBVIOUS
<1>1. \A i \in Ids : Only(views[i] # Absent, ViewUri(i), "View")'
  BY <1>0, Addresses DEF Tidy, Only
<1>2. \A g \in Grants : Only(grants[g].status = "live", TokenUri(g), "Token")'
  BY <1>0, Addresses DEF Tidy, Only
<1>3. \A g \in Grants : Only(g \in policies, PolicyUri(g), "Policy")'
  BY <1>0, Addresses DEF Tidy, Only
<1>4. \A e \in Entries : Only(log[e].status = "kept", EntryUri(e), "AccessLogEntry")'
  BY <1>0, Addresses DEF Tidy, Only
<1>5. \A n \in Notes : said'[<<"data", n>>] \subseteq (({"data"} \X Notes) \X Types)
  BY <1>0, Addresses DEF Tidy
<1> QED
  BY <1>1, <1>2, <1>3, <1>4, <1>5 DEF Tidy

LEMMA Apart ==
    /\ \A i, j : (ViewUri(i) = ViewUri(j)) <=> (i = j)
    /\ \A i, j : (TokenUri(i) = TokenUri(j)) <=> (i = j)
    /\ \A i, j : (PolicyUri(i) = PolicyUri(j)) <=> (i = j)
    /\ \A i, j : (EntryUri(i) = EntryUri(j)) <=> (i = j)
    /\ \A i, j : ViewUri(i) # TokenUri(j) /\ ViewUri(i) # PolicyUri(j) /\ ViewUri(i) # EntryUri(j)
    /\ \A i, j : TokenUri(i) # PolicyUri(j) /\ TokenUri(i) # EntryUri(j) /\ PolicyUri(i) # EntryUri(j)
    /\ \A i, n : /\ ViewUri(i) # <<"data", n>> /\ TokenUri(i) # <<"data", n>>
                 /\ PolicyUri(i) # <<"data", n>> /\ EntryUri(i) # <<"data", n>>
BY DEF ViewUri, TokenUri, PolicyUri, EntryUri

LEMMA WritesTidy == ASSUME TypeOK, Tidy, Writes PROVE Tidy'
<1>0. said \in [Uris -> SUBSET Statements]
  BY DEF TypeOK
<1>1. ASSUME NEW i \in Ids, WriteView(i) PROVE Tidy'
  <2>1. views'[i] # Absent /\ \A j \in Ids \ {i} : views'[j] = views[j]
    BY <1>1, CatalogAssumption DEF WriteView, TypeOK
  <2>2. /\ said' = [said EXCEPT ![ViewUri(i)] = {<<ViewUri(i), "View">>}]
        /\ UNCHANGED <<grants, policies, log>>
    BY <1>1 DEF WriteView, Store, Canonical
  <2>3. Fits(ViewUri(i), {<<ViewUri(i), "View">>})
    BY <2>1, <2>2, Apart DEF Fits
  <2> QED
    BY <1>0, <2>2, <2>3, TidyAgain, Addresses
<1>2. ASSUME NEW i \in Ids, DeleteView(i) PROVE Tidy'
  <2>1. views'[i] = Absent /\ \A j \in Ids \ {i} : views'[j] = views[j]
    BY <1>2 DEF DeleteView, TypeOK
  <2>2. said' = [said EXCEPT ![ViewUri(i)] = {}] /\ UNCHANGED <<grants, policies, log>>
    BY <1>2 DEF DeleteView, Erase
  <2>3. Fits(ViewUri(i), {})
    BY <2>1, <2>2, Apart DEF Fits
  <2> QED
    BY <1>0, <2>2, <2>3, TidyAgain, Addresses
<1>3. ASSUME NEW g \in Grants, IssueGrant(g) PROVE Tidy'
  <2>1. grants'[g].status = "live" /\ \A h \in Grants \ {g} : grants'[h] = grants[h]
    BY <1>3 DEF IssueGrant, TypeOK
  <2>2. /\ said' = [said EXCEPT ![TokenUri(g)] = {<<TokenUri(g), "Token">>}]
        /\ UNCHANGED <<views, policies, log>>
    BY <1>3 DEF IssueGrant, Store, Canonical
  <2>3. Fits(TokenUri(g), {<<TokenUri(g), "Token">>})
    BY <2>1, <2>2, Apart DEF Fits
  <2> QED
    BY <1>0, <2>2, <2>3, TidyAgain, Addresses
<1>4. ASSUME NEW g \in Grants, WritePolicy(g) PROVE Tidy'
  <2>1. policies' = policies \cup {g}
    BY <1>4 DEF WritePolicy
  <2>2. /\ said' = [said EXCEPT ![PolicyUri(g)] = {<<PolicyUri(g), "Policy">>}]
        /\ UNCHANGED <<views, grants, log>>
    BY <1>4 DEF WritePolicy, Store, Canonical
  <2>3. Fits(PolicyUri(g), {<<PolicyUri(g), "Policy">>})
    BY <2>1, <2>2, Apart DEF Fits
  <2> QED
    BY <1>0, <2>2, <2>3, TidyAgain, Addresses
<1>5. ASSUME NEW g \in Grants, RevokeGrant(g) PROVE Tidy'
  <2>1. grants'[g].status = "revoked" /\ \A h \in Grants \ {g} : grants'[h] = grants[h]
    BY <1>5 DEF RevokeGrant, GrantRecords, TypeOK
  <2>2. said' = [said EXCEPT ![TokenUri(g)] = {}] /\ UNCHANGED <<views, policies, log>>
    BY <1>5 DEF RevokeGrant, Erase
  <2>3. Fits(TokenUri(g), {})
    BY <2>1, <2>2, Apart DEF Fits
  <2> QED
    BY <1>0, <2>2, <2>3, TidyAgain, Addresses
<1>6. ASSUME NEW g \in Grants, DropPolicy(g) PROVE Tidy'
  <2>1. policies' = policies \ {g}
    BY <1>6 DEF DropPolicy
  <2>2. said' = [said EXCEPT ![PolicyUri(g)] = {}] /\ UNCHANGED <<views, grants, log>>
    BY <1>6 DEF DropPolicy, Erase
  <2>3. Fits(PolicyUri(g), {})
    BY <2>1, <2>2, Apart DEF Fits
  <2> QED
    BY <1>0, <2>2, <2>3, TidyAgain, Addresses
<1>7. ASSUME NEW e \in Entries, EraseEntry(e) PROVE Tidy'
  <2>1. log'[e].status = "erased" /\ \A x \in Entries \ {e} : log'[x] = log[x]
    BY <1>7 DEF EraseEntry, LogRecords, TypeOK
  <2>2. said' = [said EXCEPT ![EntryUri(e)] = {}] /\ UNCHANGED <<views, grants, policies>>
    BY <1>7 DEF EraseEntry, Erase
  <2>3. Fits(EntryUri(e), {})
    BY <2>1, <2>2, Apart DEF Fits
  <2> QED
    BY <1>0, <2>2, <2>3, TidyAgain, Addresses
<1>8. ASSUME NEW n \in Notes, WriteNote(n) PROVE Tidy'
  <2>1. PICK graph \in DataGraphs : said' = [said EXCEPT ![<<"data", n>>] = graph]
    BY <1>8 DEF WriteNote
  <2>2. graph \subseteq (({"data"} \X Notes) \X Types) /\ UNCHANGED <<views, grants, policies, log>>
    BY <1>8, DataAssumption DEF WriteNote
  <2>3. Fits(<<"data", n>>, graph)
    BY <2>1, <2>2, Apart DEF Fits
  <2> QED
    BY <1>0, <2>1, <2>3, TidyAgain, Addresses
<1>9. ASSUME RevokeEngine \/ Boot PROVE Tidy'
  BY <1>9 DEF RevokeEngine, Boot, Tidy, Only
<1>10. ASSUME NEW e \in Entries, AppendEntry(e) PROVE Tidy'
  <2>1. log'[e].status = "kept" /\ \A x \in Entries \ {e} : log'[x] = log[x]
    BY <1>10 DEF AppendEntry, TypeOK
  <2>2. /\ said' = [said EXCEPT ![EntryUri(e)] = {<<EntryUri(e), "AccessLogEntry">>}]
        /\ UNCHANGED <<views, grants, policies>>
    BY <1>10 DEF AppendEntry, Store, Canonical
  <2>3. Fits(EntryUri(e), {<<EntryUri(e), "AccessLogEntry">>})
    BY <2>1, <2>2, Apart DEF Fits
  <2> QED
    BY <1>0, <2>2, <2>3, TidyAgain, Addresses
<1> QED
  BY <1>1, <1>2, <1>3, <1>4, <1>5, <1>6, <1>7, <1>8, <1>9, <1>10
  DEF Writes, Owner, CreateView, ReplaceView

(* What is said of a subject outside the data plane is said in its own     *)
(* graph.                                                                  *)
LEMMA OwnGraph ==
    ASSUME Tidy, NEW s \in Uris, NEW u \in Uris, NEW type, <<s, type>> \in said[u], s[1] # "data"
    PROVE  s = u
<1>1. /\ \A x \in {"views"} \X Ids : \E i \in Ids : x = ViewUri(i)
      /\ \A x \in {"tokens", "policies"} \X Grants : \E g \in Grants : x = TokenUri(g) \/ x = PolicyUri(g)
      /\ \A x \in {"access-log"} \X Entries : \E e \in Entries : x = EntryUri(e)
      /\ \A x \in {"data"} \X Notes : \E n \in Notes : x = <<"data", n>>
  BY DEF ViewUri, TokenUri, PolicyUri, EntryUri
<1>2. CASE \E n \in Notes : u = <<"data", n>>
  <2>1. <<s, type>> \in (({"data"} \X Notes) \X Types)
    BY <1>2 DEF Tidy
  <2> QED
    BY <2>1
<1>3. CASE \A n \in Notes : u # <<"data", n>>
  <2>1. \E t \in Types : said[u] \subseteq {<<u, t>>}
    BY <1>1, <1>3 DEF Tidy, Only, Uris, Types
  <2> QED
    BY <2>1
<1> QED
  BY <1>2, <1>3

LEMMA TidyListings == ASSUME TypeOK, Tidy PROVE ListingExact
<1>1. \A type : \A s \in Uris : s[1] # "data" => (s \in TypedAs(type) <=> <<s, type>> \in said[s])
  BY OwnGraph DEF TypedAs
<1>2. Listing("views") = {ViewUri(i) : i \in {j \in Ids : views[j] # Absent}}
  <2>1. Listing("views") = {s \in TypedAs("View") : s[1] \in {"views"}}
    BY DEF Listing, TypeIn, Below
  <2>2. \A s \in Uris : s[1] = "views" <=> \E i \in Ids : s = ViewUri(i)
    BY DEF Uris, ViewUri
  <2>3. \A i \in Ids : ViewUri(i) \in TypedAs("View") <=> views[i] # Absent
    <3> TAKE i \in Ids
    <3>1. ViewUri(i) \in Uris /\ ViewUri(i)[1] # "data"
      BY Addresses DEF ViewUri
    <3>2. said[ViewUri(i)] = IF views[i] # Absent THEN {<<ViewUri(i), "View">>} ELSE {}
      BY DEF Tidy, Only
    <3>3. ViewUri(i) \in TypedAs("View") <=> <<ViewUri(i), "View">> \in said[ViewUri(i)]
      BY <1>1, <3>1
    <3> QED
      BY <3>2, <3>3
  <2> QED
    BY <2>1, <2>2, <2>3, Addresses DEF TypedAs
<1>3. Listing("tokens") = {TokenUri(g) : g \in {h \in Grants : grants[h].status = "live"}}
  <2>1. Listing("tokens") = {s \in TypedAs("Token") : s[1] \in {"tokens", "policies"}}
    BY DEF Listing, TypeIn, Below
  <2>2. /\ \A s \in Uris : s[1] = "tokens" <=> \E g \in Grants : s = TokenUri(g)
        /\ \A s \in Uris : s[1] = "policies" <=> \E g \in Grants : s = PolicyUri(g)
    BY DEF Uris, TokenUri, PolicyUri
  <2>3. \A g \in Grants : TokenUri(g) \in TypedAs("Token") <=> grants[g].status = "live"
    <3> TAKE g \in Grants
    <3>1. TokenUri(g) \in Uris /\ TokenUri(g)[1] # "data"
      BY Addresses DEF TokenUri
    <3>2. said[TokenUri(g)] = IF grants[g].status = "live" THEN {<<TokenUri(g), "Token">>} ELSE {}
      BY DEF Tidy, Only
    <3>3. TokenUri(g) \in TypedAs("Token") <=> <<TokenUri(g), "Token">> \in said[TokenUri(g)]
      BY <1>1, <3>1
    <3> QED
      BY <3>2, <3>3
  <2>4. \A g \in Grants : PolicyUri(g) \notin TypedAs("Token")
    <3> TAKE g \in Grants
    <3>1. said[PolicyUri(g)] \subseteq {<<PolicyUri(g), "Policy">>}
      BY DEF Tidy, Only
    <3>2. PolicyUri(g)[1] # "data" /\ PolicyUri(g) \in Uris
      BY Addresses DEF PolicyUri
    <3>3. <<PolicyUri(g), "Token">> # <<PolicyUri(g), "Policy">>
      OBVIOUS
    <3> QED
      BY <1>1, <3>1, <3>2, <3>3
  <2>5. TypedAs("Token") \subseteq Uris
    BY DEF TypedAs
  <2>6. \A s \in Listing("tokens") : \E g \in Grants : grants[g].status = "live" /\ s = TokenUri(g)
    BY <2>1, <2>2, <2>3, <2>4, <2>5
  <2>7. \A g \in Grants : grants[g].status = "live" => TokenUri(g) \in Listing("tokens")
    BY <2>1, <2>2, <2>3, Addresses
  <2> QED
    BY <2>6, <2>7
<1>4. Listing("policies") = {PolicyUri(g) : g \in policies}
  <2>1. Listing("policies") = {s \in TypedAs("Policy") : s[1] \in {"policies"}}
    BY DEF Listing, TypeIn, Below
  <2>2. \A s \in Uris : s[1] = "policies" <=> \E g \in Grants : s = PolicyUri(g)
    BY DEF Uris, PolicyUri
  <2>3. \A g \in Grants : PolicyUri(g) \in TypedAs("Policy") <=> g \in policies
    <3> TAKE g \in Grants
    <3>1. PolicyUri(g) \in Uris /\ PolicyUri(g)[1] # "data"
      BY Addresses DEF PolicyUri
    <3>2. said[PolicyUri(g)] = IF g \in policies THEN {<<PolicyUri(g), "Policy">>} ELSE {}
      BY DEF Tidy, Only
    <3>3. PolicyUri(g) \in TypedAs("Policy") <=> <<PolicyUri(g), "Policy">> \in said[PolicyUri(g)]
      BY <1>1, <3>1
    <3> QED
      BY <3>2, <3>3
  <2>4. TypedAs("Policy") \subseteq Uris /\ policies \subseteq Grants
    BY DEF TypedAs, TypeOK
  <2>5. \A s \in Listing("policies") : \E g \in policies : s = PolicyUri(g)
    BY <2>1, <2>2, <2>3, <2>4
  <2>6. \A g \in policies : PolicyUri(g) \in Listing("policies")
    BY <2>1, <2>2, <2>3, <2>4, Addresses
  <2> QED
    BY <2>5, <2>6
<1>5. Listing("access_log") = {EntryUri(e) : e \in Kept}
  <2>1. Listing("access_log") = {s \in TypedAs("AccessLogEntry") : s[1] \in {"access-log"}}
    BY DEF Listing, TypeIn, Below
  <2>2. \A s \in Uris : s[1] = "access-log" <=> \E e \in Entries : s = EntryUri(e)
    BY DEF Uris, EntryUri
  <2>3. \A e \in Entries : EntryUri(e) \in TypedAs("AccessLogEntry") <=> e \in Kept
    <3> TAKE e \in Entries
    <3>1. EntryUri(e) \in Uris /\ EntryUri(e)[1] # "data"
      BY Addresses DEF EntryUri
    <3>2. said[EntryUri(e)] = IF e \in Kept THEN {<<EntryUri(e), "AccessLogEntry">>} ELSE {}
      BY DEF Tidy, Only, Kept
    <3>3. EntryUri(e) \in TypedAs("AccessLogEntry") <=> <<EntryUri(e), "AccessLogEntry">> \in said[EntryUri(e)]
      BY <1>1, <3>1
    <3> QED
      BY <3>2, <3>3
  <2> QED
    BY <2>1, <2>2, <2>3, Addresses DEF TypedAs, Kept
<1> QED
  BY <1>2, <1>3, <1>4, <1>5 DEF ListingExact

LEMMA TidyStep == TypeOK /\ Tidy /\ [Next]_vars => Tidy'
<1> SUFFICES ASSUME TypeOK, Tidy, [Next]_vars PROVE Tidy'
  OBVIOUS
<1>1. CASE Writes
  BY <1>1, WritesTidy
<1>2. CASE UNCHANGED records
  BY <1>2 DEF records, Tidy, Only
<1> QED
  BY <1>1, <1>2, NextSplits, ReadsTyped DEF vars, records

(* The synthesised listings are exact for every catalog, whatever else the *)
(* submitted bodies and the data plane say.                                *)
THEOREM ListingsExact == Spec => []ListingExact
<1>1. Init => Tidy
  BY Addresses DEF Init, Tidy, Only
<1>2. TypeOK /\ Tidy /\ [Next]_vars => Tidy'
  BY TidyStep
<1>3. TypeOK /\ Tidy => ListingExact
  BY TidyListings
<1> QED
  BY <1>1, <1>2, <1>3, TypeCorrect, PTL DEF Spec

----------------------------------------------------------------------------
(* A discovery request that is under way: its grant has been issued, the   *)
(* history is up to date, and what is left of the walk and what is already *)
(* listed make up the links of the grant.                                  *)
Discovering ==
    /\ reader.kind = "none" <=> reader.at = "idle"
    /\ reader.kind = "discovery" => reader.at \in {"lookup", "record", "walk", "done"}
    /\ reader.kind = "stats" => reader.at # "walk"
    /\ reader.kind = "discovery" =>
          /\ grants[reader.grant].status # "unissued"
          /\ ~Known => "grant" \in lapses
          /\ ~engine => "engine" \in lapses
          /\ \A i \in Ids : views[i] \in seen[i]
          /\ reader.at = "walk" => /\ reader.todo \cup reader.listed = grants[reader.grant].links
                                  /\ \A i \in reader.listed : reader.described[i] \in seen[i]
          /\ reader.at \in {"lookup", "record"} => reader.listed = {}

(* No write changes the links of a grant that has been issued. *)
LEMMA LinksStay ==
    ASSUME TypeOK, NEW g \in Grants, grants[g].status # "unissued", Writes \/ UNCHANGED records
    PROVE  grants'[g].status # "unissued" /\ grants'[g].links = grants[g].links
<1>1. CASE UNCHANGED records
  BY <1>1 DEF records
<1>2. CASE Writes
  <2>1. ASSUME NEW h \in Grants, IssueGrant(h)
        PROVE  grants'[g] = grants[g]
    BY <2>1 DEF IssueGrant, TypeOK
  <2>2. ASSUME NEW h \in Grants, RevokeGrant(h)
        PROVE  grants'[g].status # "unissued" /\ grants'[g].links = grants[g].links
    BY <2>2 DEF RevokeGrant, TypeOK, GrantRecords
  <2>3. ASSUME NEW h \in Grants, WritePolicy(h) \/ DropPolicy(h) PROVE grants' = grants
    BY <2>3 DEF WritePolicy, DropPolicy
  <2>4. ASSUME NEW i \in Ids, CreateView(i) \/ ReplaceView(i) \/ DeleteView(i) PROVE grants' = grants
    BY <2>4 DEF CreateView, ReplaceView, WriteView, DeleteView
  <2>5. ASSUME NEW e \in Entries, EraseEntry(e) \/ AppendEntry(e) PROVE grants' = grants
    BY <2>5 DEF EraseEntry, AppendEntry
  <2>6. ASSUME NEW n \in Notes, WriteNote(n) PROVE grants' = grants
    BY <2>6 DEF WriteNote
  <2>7. ASSUME RevokeEngine \/ Boot PROVE grants' = grants
    BY <2>7 DEF RevokeEngine, Boot
  <2> QED
    BY <1>2, <2>1, <2>2, <2>3, <2>4, <2>5, <2>6, <2>7 DEF Writes, Owner
<1> QED
  BY <1>1, <1>2

(* What Watch keeps for a discovery request. *)
LEMMA Watched ==
    ASSUME TypeOK, TypeOK', Watch, reader'.kind = "discovery", reader'.at # "idle",
           reader.at # "idle" => reader.kind = "discovery"
    PROVE  /\ Lapses \subseteq lapses'
           /\ \A i \in Ids : views'[i] \in seen'[i]
           /\ reader.at # "idle" => lapses \subseteq lapses' /\ \A i \in Ids : seen[i] \subseteq seen'[i]
<1>1. CASE Begin /\ reader.at = "idle"
  BY <1>1 DEF Begin
<1>2. CASE Remember /\ reader.at # "idle"
  BY <1>2 DEF Remember, TypeOK
<1> QED
  BY <1>1, <1>2 DEF Watch

LEMMA LapsesSay ==
    /\ ~Known' => "grant" \in Lapses
    /\ ~engine' => "engine" \in Lapses
BY DEF Lapses

(* What one step does to a discovery request. *)
Advances ==
    \/ reader.at = "lookup" /\ reader'.at = "record" /\ reader'.listed = reader.listed
    \/ /\ reader.at = "record" /\ reader'.at = "walk"
       /\ reader'.todo = grants[reader.grant].links /\ reader'.listed = reader.listed
    \/ /\ reader.at = "walk" /\ reader'.at = "walk"
       /\ reader'.todo \cup reader'.listed = reader.todo \cup reader.listed
       /\ \A i \in reader'.listed :
             \/ i \in reader.listed /\ reader'.described[i] = reader.described[i]
             \/ i \in Ids /\ reader'.described[i] = views[i]
    \/ /\ reader'.at = "done" /\ reader'.answer = "200"
       /\ reader.at = "walk" /\ reader.todo = {}
       /\ reader'.listed = reader.listed /\ reader'.described = reader.described
    \/ reader'.at = "done" /\ reader'.answer = "401" /\ ~Known
    \/ reader'.at = "done" /\ reader'.answer = "502" /\ ~engine

LEMMA ReadsAdvance ==
    ASSUME TypeOK, Discovering, Reads
    PROVE  \/ reader.at = "idle" /\ reader'.kind = "stats" /\ reader'.at = "lookup"
           \/ /\ reader.at = "idle" /\ reader'.kind = "discovery" /\ reader'.at = "lookup"
              /\ reader'.listed = {} /\ grants[reader'.grant].status # "unissued"
           \/ reader' = Idle
           \/ reader.kind = "stats" /\ reader'.kind = "stats" /\ reader'.at \notin {"idle", "walk"}
           \/ /\ reader.kind = "discovery" /\ reader'.kind = "discovery"
              /\ reader'.grant = reader.grant /\ reader.at # "done" /\ Advances
<1> USE DEF Proceed
<1>0. reader \in Readers
  BY DEF TypeOK
<1>1. ASSUME NEW g \in Grants, StartDiscovery(g)
      PROVE  /\ reader.at = "idle" /\ reader'.kind = "discovery" /\ reader'.at = "lookup"
             /\ reader'.listed = {} /\ grants[reader'.grant].status # "unissued"
  BY <1>1 DEF StartDiscovery, Idle
<1>2. ASSUME StartStats PROVE reader.at = "idle" /\ reader'.kind = "stats" /\ reader'.at = "lookup"
  BY <1>2 DEF StartStats, Idle
<1>3. ASSUME Finish PROVE reader' = Idle
  BY <1>3 DEF Finish
<1>4. ASSUME CountAll \/ CountByView \/ CountByToken
      PROVE  reader.kind = "stats" /\ reader'.kind = "stats" /\ reader'.at \notin {"idle", "walk"}
  <2>1. reader.at \in {"total", "byView", "byToken"}
    BY <1>4 DEF CountAll, CountByView, CountByToken, Calling
  <2>2. reader.kind = "stats"
    BY <1>0, <2>1 DEF Discovering, Readers
  <2>3. reader'.kind = reader.kind /\ reader'.at \in {"byView", "byToken", "done"}
    BY <1>0, <1>4 DEF CountAll, CountByView, CountByToken, Readers
  <2> QED
    BY <2>2, <2>3
<1>5. ASSUME LookUpToken \/ ReadToken \/ AnswerDiscovery \/ CredentialRefused \/ \E i \in Ids : Describe(i)
      PROVE  \/ reader.kind = "stats" /\ reader'.kind = "stats" /\ reader'.at \notin {"idle", "walk"}
             \/ /\ reader.kind = "discovery" /\ reader'.kind = "discovery"
                /\ reader'.grant = reader.grant /\ reader.at # "done" /\ Advances
  <2>1. reader.at \in {"lookup", "record", "walk", "total", "byView", "byToken"}
    BY <1>5 DEF LookUpToken, ReadToken, AnswerDiscovery, CredentialRefused, Describe, Calling
  <2>2. reader.kind \in {"stats", "discovery"}
    BY <1>0, <2>1 DEF Discovering, Readers
  <2>3. ASSUME NEW code, Answer(code)
        PROVE  /\ reader'.at = "done" /\ reader'.answer = code /\ reader'.kind = reader.kind
               /\ reader'.grant = reader.grant /\ reader'.listed = reader.listed
               /\ reader'.described = reader.described
    BY <1>0, <2>3 DEF Answer, Readers
  <2>4. CASE LookUpToken
    <3>1. CASE Known
      <4>1. reader.at = "lookup" /\ reader' = [reader EXCEPT !.at = "record"]
        BY <2>4, <3>1 DEF LookUpToken, Calling
      <4> QED
        BY <1>0, <2>2, <4>1 DEF Advances, Readers
    <3>2. CASE ~Known
      BY <2>1, <2>2, <2>3, <2>4, <3>2 DEF LookUpToken, Advances
    <3> QED
      BY <3>1, <3>2
  <2>5. CASE ReadToken
    <3>1. CASE ~Known
      BY <2>1, <2>2, <2>3, <2>5, <3>1 DEF ReadToken, Advances
    <3>2. CASE Known /\ reader.kind = "stats"
      <4>1. reader' = [reader EXCEPT !.at = "total"]
        BY <2>5, <3>2 DEF ReadToken
      <4> QED
        BY <1>0, <3>2, <4>1 DEF Readers
    <3>3. CASE Known /\ reader.kind # "stats"
      <4>1. reader.at = "record" /\ reader' = [reader EXCEPT !.at = "walk", !.todo = grants[reader.grant].links]
        BY <2>5, <3>3 DEF ReadToken, Calling
      <4>2. /\ reader'.at = "walk" /\ reader'.todo = grants[reader.grant].links
            /\ reader'.listed = reader.listed /\ reader'.kind = reader.kind /\ reader'.grant = reader.grant
        BY <1>0, <4>1 DEF Readers
      <4> QED
        BY <2>2, <3>3, <4>1, <4>2 DEF Advances
    <3> QED
      BY <3>1, <3>2, <3>3
  <2>6. CASE AnswerDiscovery
    <3>1. reader.kind = "discovery"
      BY <2>2, <2>6 DEF AnswerDiscovery, Discovering
    <3> QED
      BY <2>3, <2>6, <3>1 DEF AnswerDiscovery, Advances
  <2>7. CASE CredentialRefused
    BY <2>1, <2>2, <2>3, <2>7 DEF CredentialRefused, Advances
  <2>8. ASSUME NEW i \in Ids, Describe(i)
        PROVE  /\ reader.kind = "discovery" /\ reader'.kind = "discovery"
               /\ reader'.grant = reader.grant /\ reader.at # "done" /\ Advances
    <3>1. reader.at = "walk" /\ i \in reader.todo
      BY <2>8 DEF Describe, Calling
    <3>2. /\ reader'.todo = reader.todo \ {i} /\ reader'.listed = reader.listed \cup {i}
          /\ reader'.described = [reader.described EXCEPT ![i] = views[i]]
          /\ reader'.at = reader.at /\ reader'.kind = reader.kind /\ reader'.grant = reader.grant
      BY <1>0, <2>8 DEF Describe, Readers
    <3>3. reader.kind = "discovery"
      BY <2>2, <3>1 DEF Discovering
    <3>4. reader'.todo \cup reader'.listed = reader.todo \cup reader.listed
      BY <3>1, <3>2
    <3>5. \A j \in reader'.listed :
             \/ j \in reader.listed /\ reader'.described[j] = reader.described[j]
             \/ j \in Ids /\ reader'.described[j] = views[j]
      BY <1>0, <3>2 DEF Readers
    <3> QED
      BY <3>1, <3>2, <3>3, <3>4, <3>5 DEF Advances
  <2> QED
    BY <1>5, <2>4, <2>5, <2>6, <2>7, <2>8
<1> QED
  BY <1>1, <1>2, <1>3, <1>4, <1>5 DEF Reads, Discover, Survey

LEMMA DiscoveringStep ==
    ASSUME TypeOK, TypeOK', Discovering, DiscoveryTotal, Next
    PROVE  Discovering' /\ DiscoveryTotal'
<1>0. reader \in Readers /\ reader' \in Readers /\ Watch
  BY NextSplits DEF TypeOK
<1>1. CASE Writes
  <2>1. reader' = reader /\ reader.at # "done"
    <3>1. reader' = reader
      BY <1>1, WritesTyped
    <3>2. ~Finish
      BY <3>1, IdleReader DEF Finish, Proceed
    <3> QED
      BY <3>1, <3>2 DEF Next
  <2>2. reader.at = "done" <=> reader'.at = "done"
    BY <2>1
  <2>3. CASE reader.kind # "discovery"
    BY <2>1, <2>3 DEF Discovering, DiscoveryTotal
  <2>4. CASE reader.kind = "discovery"
    <3>1. reader.at # "idle"
      BY <2>4 DEF Discovering
    <3>2. /\ Lapses \subseteq lapses' /\ \A i \in Ids : views'[i] \in seen'[i] /\ seen[i] \subseteq seen'[i]
      BY <1>0, <2>1, <2>4, <3>1, Watched
    <3>3. reader.grant \in Grants /\ reader.listed \subseteq Ids
      BY <1>0 DEF Readers
    <3>4. /\ grants'[reader.grant].status # "unissued"
          /\ grants'[reader.grant].links = grants[reader.grant].links
      BY <1>1, <2>4, <3>3, LinksStay DEF Discovering
    <3>5. reader.at = "walk" => /\ reader.todo \cup reader.listed = grants'[reader.grant].links
                              /\ \A i \in reader.listed : reader.described[i] \in seen'[i]
      BY <2>4, <3>2, <3>3, <3>4 DEF Discovering
    <3>6. (~Known' => "grant" \in lapses') /\ (~engine' => "engine" \in lapses')
      BY <3>2, LapsesSay
    <3> QED
      BY <2>1, <2>4, <3>2, <3>4, <3>5, <3>6 DEF Discovering, DiscoveryTotal
  <2> QED
    BY <2>3, <2>4
<1>2. CASE Reads
  <2>0. UNCHANGED records /\ grants' = grants /\ engine' = engine /\ views' = views
    BY <1>2, ReadsTyped DEF records
  <2>1. CASE reader' = Idle
    BY <2>1, IdleReader DEF Discovering, DiscoveryTotal
  <2>2. CASE reader'.kind = "stats" /\ reader'.at \notin {"idle", "walk"}
    BY <2>2 DEF Discovering, DiscoveryTotal
  <2>3. CASE /\ reader.at = "idle" /\ reader'.kind = "discovery" /\ reader'.at = "lookup"
             /\ reader'.listed = {} /\ grants[reader'.grant].status # "unissued"
    <3>1. Lapses \subseteq lapses' /\ \A i \in Ids : views'[i] \in seen'[i]
      BY <1>0, <2>3, Watched
    <3>2. (~Known' => "grant" \in lapses') /\ (~engine' => "engine" \in lapses')
      BY <3>1, LapsesSay
    <3> QED
      BY <2>0, <2>3, <3>1, <3>2 DEF Discovering, DiscoveryTotal
  <2>4. CASE /\ reader.kind = "discovery" /\ reader'.kind = "discovery"
             /\ reader'.grant = reader.grant /\ reader.at # "done" /\ Advances
    <3>0. reader.at # "idle" /\ reader'.at \in {"record", "walk", "done"}
      BY <2>4 DEF Discovering, Advances
    <3>1. /\ Lapses \subseteq lapses' /\ lapses \subseteq lapses'
          /\ \A i \in Ids : views'[i] \in seen'[i] /\ seen[i] \subseteq seen'[i]
      BY <1>0, <2>4, <3>0, Watched
    <3>2. (~Known' => "grant" \in lapses') /\ (~engine' => "engine" \in lapses')
      BY <3>1, LapsesSay
    <3>3. reader.listed \subseteq Ids /\ reader'.listed \subseteq Ids
      BY <1>0 DEF Readers
    <3>4. reader'.at = "walk" => reader'.todo \cup reader'.listed = grants'[reader'.grant].links
      BY <2>0, <2>4 DEF Discovering, Advances
    <3>5. reader'.at = "walk" => \A i \in reader'.listed : reader'.described[i] \in seen'[i]
      <4>1. CASE reader.at = "record"
        BY <2>4, <4>1 DEF Discovering, Advances
      <4>2. CASE reader.at = "walk" /\ reader'.at = "walk"
        <5> SUFFICES ASSUME NEW i \in reader'.listed PROVE reader'.described[i] \in seen'[i]
          OBVIOUS
        <5>1. CASE i \in reader.listed /\ reader'.described[i] = reader.described[i]
          BY <2>4, <3>1, <3>3, <4>2, <5>1 DEF Discovering
        <5>2. CASE i \in Ids /\ reader'.described[i] = views[i]
          BY <2>0, <3>1, <5>2
        <5> QED
          BY <2>4, <4>2, <5>1, <5>2 DEF Advances
      <4> QED
        BY <2>4, <4>1, <4>2 DEF Advances
    <3>6. reader'.at = "record" => reader'.listed = {}
      BY <2>4 DEF Discovering, Advances
    <3>7. Discovering'
      BY <2>0, <2>4, <3>0, <3>1, <3>2, <3>4, <3>5, <3>6 DEF Discovering
    <3>8. reader'.at = "done" /\ reader'.answer = "200" =>
             /\ reader'.listed = grants'[reader'.grant].links
             /\ \A i \in reader'.listed : reader'.described[i] \in seen'[i]
      <4> SUFFICES ASSUME reader'.at = "done", reader'.answer = "200"
                   PROVE  /\ reader'.listed = grants'[reader'.grant].links
                          /\ \A i \in reader'.listed : reader'.described[i] \in seen'[i]
        OBVIOUS
      <4>1. /\ reader.at = "walk" /\ reader.todo = {}
            /\ reader'.listed = reader.listed /\ reader'.described = reader.described
        BY <2>4 DEF Advances
      <4> QED
        BY <2>0, <2>4, <3>1, <3>3, <4>1 DEF Discovering
    <3>9. /\ reader'.at = "done" /\ reader'.answer = "401" => "grant" \in lapses'
          /\ reader'.at = "done" /\ reader'.answer = "502" => "engine" \in lapses'
          /\ reader'.at = "done" => reader'.answer \in {"200", "401", "502"}
      BY <2>4, <3>1 DEF Discovering, Advances
    <3> QED
      BY <3>7, <3>8, <3>9 DEF DiscoveryTotal
  <2> QED
    BY <1>2, <2>1, <2>2, <2>3, <2>4, ReadsAdvance
<1> QED
  BY <1>1, <1>2, NextSplits

(* Discovery is total for any number of views, grants and writers.          *)
THEOREM DiscoveryIsTotal == Spec => []DiscoveryTotal
<1>1. Init => Discovering /\ DiscoveryTotal
  BY IdleReader DEF Init, Discovering, DiscoveryTotal
<1>2. TypeOK /\ TypeOK' /\ Discovering /\ DiscoveryTotal /\ [Next]_vars => Discovering' /\ DiscoveryTotal'
  <2>1. ASSUME Discovering, DiscoveryTotal, UNCHANGED vars PROVE Discovering' /\ DiscoveryTotal'
    BY <2>1 DEF vars, Discovering, DiscoveryTotal, Known
  <2> QED
    BY <2>1, DiscoveringStep
<1> QED
  BY <1>1, <1>2, TypeCorrect, PTL DEF Spec
----------------------------------------------------------------------------
(* Sums.  The recursion of the fold has one solution on the subsets of a    *)
(* finite set, for a smallest subset on which two solutions differ would    *)
(* not be the smallest; the sizes of the parts of a finite set solve it.    *)

First(S) == CHOOSE x \in S : TRUE
Folds(g, f, I) == g = [S \in SUBSET I |-> IF S = {} THEN 0 ELSE f[First(S)] + g[S \ {First(S)}]]
Folding(f, I) == CHOOSE g : Folds(g, f, I)

LEMMA SumFolds == ASSUME NEW f PROVE Sum(f) = Folding(f, DOMAIN f)[DOMAIN f]
  BY DEF Sum, FoldFunction, FoldFunctionOnSet, MapThenFoldSet, Folding, Folds, First

LEMMA SmallestSubset ==
    ASSUME NEW I, IsFiniteSet(I), NEW Bad, Bad \subseteq SUBSET I, Bad # {}
    PROVE  \E S \in Bad : \A T \in Bad : ~(T \subseteq S /\ T # S)
<1>1. IsWellFoundedOn(StrictSubsetOrdering(I), SUBSET I)
  BY FS_StrictSubsetOrderingWellFounded, FS_FiniteSubsetsOfFinite
<1>2. PICK S \in Bad : \A T \in Bad : ~(<<T, S>> \in StrictSubsetOrdering(I))
  BY <1>1, WFMin
<1> QED
  BY <1>2 DEF StrictSubsetOrdering

LEMMA FoldsAgree ==
    ASSUME NEW I, IsFiniteSet(I), NEW f, NEW g, NEW h, Folds(g, f, I), Folds(h, f, I)
    PROVE  g[I] = h[I]
<1> DEFINE Bad == {S \in SUBSET I : g[S] # h[S]}
<1>1. \A S \in SUBSET I : /\ g[S] = IF S = {} THEN 0 ELSE f[First(S)] + g[S \ {First(S)}]
                          /\ h[S] = IF S = {} THEN 0 ELSE f[First(S)] + h[S \ {First(S)}]
  BY DEF Folds
<1>2. SUFFICES ASSUME Bad # {} PROVE FALSE
  OBVIOUS
<1>3. PICK S \in Bad : \A T \in Bad : ~(T \subseteq S /\ T # S)
  <2>1. Bad \subseteq SUBSET I
    OBVIOUS
  <2> HIDE DEF Bad
  <2> QED
    BY <1>2, <2>1, SmallestSubset
<1>4. CASE S = {}
  BY <1>1, <1>4
<1>5. CASE S # {}
  <2>1. First(S) \in S
    BY <1>5 DEF First
  <2>2. S \ {First(S)} \in SUBSET I /\ S \ {First(S)} \subseteq S /\ S \ {First(S)} # S
    BY <2>1
  <2>3. g[S \ {First(S)}] = h[S \ {First(S)}]
    BY <1>3, <2>2
  <2> QED
    BY <1>1, <1>5, <2>3
<1> QED
  BY <1>4, <1>5

(* The sizes of the parts of K, told apart by v, add up to the size of K.   *)
LEMMA PartsAddUp ==
    ASSUME NEW I, IsFiniteSet(I), NEW K, IsFiniteSet(K), NEW v \in [K -> I]
    PROVE  Sum([i \in I |-> Cardinality({e \in K : v[e] = i})]) = Cardinality(K)
<1> DEFINE f == [i \in I |-> Cardinality({e \in K : v[e] = i})]
           In(S) == {e \in K : v[e] \in S}
           h == [S \in SUBSET I |-> Cardinality(In(S))]
<1>1. ASSUME NEW S \in SUBSET I, S # {}
      PROVE  Cardinality(In(S)) = f[First(S)] + Cardinality(In(S \ {First(S)}))
  <2> DEFINE Part == {e \in K : v[e] = First(S)}
             Rest == In(S \ {First(S)})
  <2>1. First(S) \in S
    BY <1>1 DEF First
  <2>2. f[First(S)] = Cardinality(Part)
    BY <1>1, <2>1
  <2>3. In(S) = Part \cup Rest /\ Part \cap Rest = {}
    BY <2>1
  <2>4. IsFiniteSet(Part) /\ IsFiniteSet(Rest)
    BY FS_Subset
  <2> HIDE DEF In, f, Part, Rest
  <2>5. Cardinality(Part) \in Nat /\ Cardinality(Rest) \in Nat
    BY <2>4, FS_CardinalityType
  <2>6. Cardinality(Part \cup Rest) = Cardinality(Part) + Cardinality(Rest) - 0
    BY <2>3, <2>4, FS_Union, FS_EmptySet
  <2>7. Cardinality(In(S)) = Cardinality(Part) + Cardinality(Rest)
    BY <2>3, <2>5, <2>6
  <2> QED
    BY <2>2, <2>7 DEF Rest
<1>2. In({}) = {} /\ In(I) = K
  OBVIOUS
<1>3. Folds(h, f, I)
  <2>1. ASSUME NEW S \in SUBSET I
        PROVE  h[S] = IF S = {} THEN 0 ELSE f[First(S)] + h[S \ {First(S)}]
    <3>1. CASE S = {}
      BY <1>2, <3>1, FS_EmptySet
    <3>2. CASE S # {}
      <4>1. S \ {First(S)} \in SUBSET I
        OBVIOUS
      <4> HIDE DEF In, f
      <4>2. h[S \ {First(S)}] = Cardinality(In(S \ {First(S)})) /\ h[S] = Cardinality(In(S))
        BY <4>1
      <4> QED
        BY <1>1, <3>2, <4>2
    <3> QED
      BY <3>1, <3>2
  <2> QED
    BY <2>1 DEF Folds
<1>4. DOMAIN f = I
  OBVIOUS
<1>5. h[I] = Cardinality(K)
  BY <1>2
<1> HIDE DEF f, h, In
<1>6. Folds(Folding(f, I), f, I)
  BY <1>3 DEF Folding
<1>7. Sum(f) = Folding(f, I)[I]
  BY <1>4, SumFolds
<1>8. Folding(f, I)[I] = h[I]
  BY <1>3, <1>6, FoldsAgree
<1> QED
  BY <1>5, <1>7, <1>8 DEF f

----------------------------------------------------------------------------
(* Statistics that are under way. *)

(* The entries among uris that are about a view, or were made for a grant.  *)
OfView(uris, i) == {e \in Entries : EntryUri(e) \in uris /\ log[e].view = i}
OfGrant(uris, g) == {e \in Entries : EntryUri(e) \in uris /\ log[e].token = g}
OfData(uris) == {u \in uris : u[1] = "data"}

(* How far the statistics are.                                              *)
TotalTaken == reader.at \in {"byView", "byToken"} \/ reader.answer = "200"
ViewsTaken == reader.at = "byToken" \/ reader.answer = "200"
TokensTaken == reader.answer = "200"

(* Statistics that are under way: the history encloses the log, each count *)
(* that was taken lies between the two ends of the history, and while      *)
(* nothing is erased the log has at least what the last count found.        *)
Enclosed ==
    /\ steady \subseteq Logged /\ Logged \subseteq ever
    /\ \A e \in Entries : EntryUri(e) \in ever => log[e].status # "unused"
Bounded ==
    /\ TotalTaken => Cardinality(steady) <= reader.total /\ reader.total <= Cardinality(ever)
    /\ ViewsTaken => \A i \in Ids : /\ Cardinality(OfView(steady, i)) <= reader.byView[i]
                                    /\ reader.byView[i] <= Cardinality(OfView(ever, i))
    /\ TokensTaken => \A g \in Grants : /\ Cardinality(OfGrant(steady, g)) <= reader.byToken[g]
                                        /\ reader.byToken[g] <= Cardinality(OfGrant(ever, g))
Growing ==
    /\ TotalTaken /\ ~ViewsTaken => reader.total <= Cardinality(Kept) + Cardinality(OfData(ever))
    /\ ViewsTaken => /\ reader.total <= Sum(reader.byView) + Cardinality(OfData(ever))
                     /\ Sum(reader.byView) \in Nat /\ Sum(reader.byView) <= Cardinality(Kept)
    /\ TokensTaken => Sum(reader.byView) <= Sum(reader.byToken)
Surveying ==
    reader.kind = "stats" =>
        /\ reader.at # "done" => reader.answer = "none"
        /\ Enclosed /\ Bounded
        /\ "entry" \notin lapses => Growing

LEMMA Smaller ==
    ASSUME NEW U \in {Uris, Entries}, NEW B \in SUBSET U, NEW A \in SUBSET B
    PROVE  /\ IsFiniteSet(A) /\ IsFiniteSet(B)
           /\ Cardinality(A) \in Nat /\ Cardinality(B) \in Nat
           /\ Cardinality(A) <= Cardinality(B)
<1>1. IsFiniteSet(U)
  BY FiniteUris, CatalogAssumption
<1>2. IsFiniteSet(B)
  BY <1>1, FS_Subset
<1>3. IsFiniteSet(A) /\ Cardinality(A) <= Cardinality(B)
  BY <1>2, FS_Subset
<1> QED
  BY <1>2, <1>3, FS_CardinalityType

(* What is typed as an entry: the entries that are kept, and resources of   *)
(* the data plane that call themselves so.                                  *)
LoggedAreKept == TypeOK /\ Tidy =>
    /\ Logged \subseteq Uris
    /\ \A e \in Entries : EntryUri(e) \in Logged <=> e \in Kept
    /\ \A u \in Logged : u[1] = "data" \/ \E e \in Kept : u = EntryUri(e)

LEMMA LoggedKept == LoggedAreKept
<1> SUFFICES ASSUME TypeOK, Tidy
             PROVE  /\ Logged \subseteq Uris
                    /\ \A e \in Entries : EntryUri(e) \in Logged <=> e \in Kept
                    /\ \A u \in Logged : u[1] = "data" \/ \E e \in Kept : u = EntryUri(e)
  BY DEF LoggedAreKept
<1>1. \A s \in Uris : s \in Logged <=> \E u \in Uris : <<s, "AccessLogEntry">> \in said[u]
  BY DEF Logged, TypedAs
<1>2. Logged \subseteq Uris
  BY DEF Logged, TypedAs
<1>3. \A s \in Uris : s[1] # "data" => (s \in Logged <=> <<s, "AccessLogEntry">> \in said[s])
  BY <1>1, OwnGraph
<1>4. \A e \in Entries : EntryUri(e) \in Logged <=> e \in Kept
  <2> TAKE e \in Entries
  <2>1. EntryUri(e) \in Uris /\ EntryUri(e)[1] # "data"
    BY Addresses DEF EntryUri
  <2>2. said[EntryUri(e)] = IF e \in Kept THEN {<<EntryUri(e), "AccessLogEntry">>} ELSE {}
    BY DEF Tidy, Only, Kept
  <2> QED
    BY <1>3, <2>1, <2>2
<1>5. ASSUME NEW u \in Logged, u[1] # "data" PROVE \E e \in Kept : u = EntryUri(e)
  <2>1. <<u, "AccessLogEntry">> \in said[u] /\ u \in Uris
    BY <1>2, <1>3, <1>5
  <2>2. \/ \E i \in Ids : u = ViewUri(i)
        \/ \E g \in Grants : u = TokenUri(g) \/ u = PolicyUri(g)
        \/ \E e \in Entries : u = EntryUri(e)
    BY <1>5, <2>1 DEF Uris, ViewUri, TokenUri, PolicyUri, EntryUri
  <2>3. CASE \E e \in Entries : u = EntryUri(e)
    BY <1>4, <1>5, <2>3
  <2>4. CASE \E i \in Ids : u = ViewUri(i)
    <3>1. said[u] \subseteq {<<u, "View">>}
      BY <2>4 DEF Tidy, Only
    <3> QED
      BY <2>1, <3>1
  <2>5. CASE \E g \in Grants : u = TokenUri(g) \/ u = PolicyUri(g)
    <3>1. said[u] \subseteq {<<u, "Token">>} \/ said[u] \subseteq {<<u, "Policy">>}
      BY <2>5 DEF Tidy, Only
    <3> QED
      BY <2>1, <3>1
  <2> QED
    BY <2>2, <2>3, <2>4, <2>5
<1> QED
  BY <1>2, <1>4, <1>5

LEMMA LoggedKeptNext == LoggedAreKept'
  BY LoggedKept, PTL

(* An entry keeps its view and its grant, and is not used twice.            *)
LEMMA LogStays ==
    ASSUME TypeOK, Writes \/ UNCHANGED records, NEW e \in Entries, log[e].status # "unused"
    PROVE  /\ log'[e].status # "unused"
           /\ log'[e].view = log[e].view /\ log'[e].token = log[e].token
<1>1. CASE UNCHANGED records
  BY <1>1 DEF records
<1>2. CASE \E d \in Entries : EraseEntry(d)
  BY <1>2 DEF EraseEntry, TypeOK, LogRecords
<1>3. CASE \E d \in Entries : AppendEntry(d)
  BY <1>3 DEF AppendEntry, TypeOK
<1>4. CASE UNCHANGED log
  BY <1>4
<1> QED
  BY <1>1, <1>2, <1>3, <1>4 DEF Writes, Owner, CreateView, ReplaceView, WriteView, DeleteView,
     IssueGrant, WritePolicy, RevokeGrant, DropPolicy, WriteNote, RevokeEngine, Boot

(* What the history of statistics under way becomes: it encloses the log    *)
(* as before, and only widens.                                              *)
LEMMA StatsWatched ==
    ASSUME TypeOK, TypeOK', Tidy', Enclosed, Watch, Writes \/ UNCHANGED records,
           reader.kind = "stats", reader.at # "idle", reader'.at # "idle"
    PROVE  /\ Enclosed' /\ lapses \subseteq lapses'
           /\ "entry" \notin lapses' => Kept \subseteq Kept'
           /\ steady' \subseteq steady /\ ever \subseteq ever'
           /\ \A i \in Ids : /\ OfView(steady, i)' \subseteq OfView(steady, i)
                             /\ OfView(ever, i) \subseteq OfView(ever, i)'
           /\ \A g \in Grants : /\ OfGrant(steady, g)' \subseteq OfGrant(steady, g)
                                /\ OfGrant(ever, g) \subseteq OfGrant(ever, g)'
           /\ OfData(ever) \subseteq OfData(ever)'
<1>1. /\ steady' = steady \cap Logged' /\ ever' = ever \cup Logged'
      /\ lapses' = lapses \cup Lapses
  BY DEF Watch, Remember
<1>2. /\ \A e \in Entries : EntryUri(e) \in Logged' <=> e \in Kept'
      /\ \A e \in Entries : e \in Kept' => log'[e].status # "unused"
  BY LoggedKeptNext DEF LoggedAreKept, Kept
<1>3. \A e \in Entries : EntryUri(e) \in ever =>
         /\ log'[e].status # "unused"
         /\ log'[e].view = log[e].view /\ log'[e].token = log[e].token
  BY LogStays DEF Enclosed
<1>4. Enclosed'
  BY <1>1, <1>2, <1>3 DEF Enclosed
<1>5. "entry" \notin lapses' => Kept \subseteq Kept'
  BY <1>1 DEF Lapses
<1>6. steady' \subseteq steady /\ ever \subseteq ever' /\ steady \subseteq ever
  BY <1>1 DEF TypeOK
<1>7. \A i \in Ids : /\ OfView(steady, i)' \subseteq OfView(steady, i)
                     /\ OfView(ever, i) \subseteq OfView(ever, i)'
  BY <1>3, <1>6 DEF OfView
<1>8. \A g \in Grants : /\ OfGrant(steady, g)' \subseteq OfGrant(steady, g)
                        /\ OfGrant(ever, g) \subseteq OfGrant(ever, g)'
  BY <1>3, <1>6 DEF OfGrant
<1>9. OfData(ever) \subseteq OfData(ever)'
  BY <1>6 DEF OfData
<1> QED
  BY <1>1, <1>4, <1>5, <1>6, <1>7, <1>8, <1>9

(* The bounds that hold stay so as the history widens.                      *)
SameCounts ==
    /\ reader'.total = reader.total /\ reader'.byView = reader.byView
    /\ reader'.byToken = reader.byToken

Widens ==
    /\ steady' \subseteq steady /\ ever \subseteq ever' /\ lapses \subseteq lapses'
    /\ "entry" \notin lapses' => Kept \subseteq Kept'
    /\ \A i \in Ids : /\ OfView(steady, i)' \subseteq OfView(steady, i)
                      /\ OfView(ever, i) \subseteq OfView(ever, i)'
    /\ \A g \in Grants : /\ OfGrant(steady, g)' \subseteq OfGrant(steady, g)
                         /\ OfGrant(ever, g) \subseteq OfGrant(ever, g)'
    /\ OfData(ever) \subseteq OfData(ever)'

(* The size of everything that the bounds compare. *)
SizesGrow == TypeOK /\ TypeOK' /\ Widens =>
    /\ {Cardinality(steady), Cardinality(steady)', Cardinality(ever), Cardinality(ever)'} \subseteq Nat
    /\ Cardinality(steady)' <= Cardinality(steady) /\ Cardinality(ever) <= Cardinality(ever)'
    /\ \A i \in Ids :
          /\ {Cardinality(OfView(steady, i)), Cardinality(OfView(steady, i))',
              Cardinality(OfView(ever, i)), Cardinality(OfView(ever, i))'} \subseteq Nat
          /\ Cardinality(OfView(steady, i))' <= Cardinality(OfView(steady, i))
          /\ Cardinality(OfView(ever, i)) <= Cardinality(OfView(ever, i))'
    /\ \A g \in Grants :
          /\ {Cardinality(OfGrant(steady, g)), Cardinality(OfGrant(steady, g))',
              Cardinality(OfGrant(ever, g)), Cardinality(OfGrant(ever, g))'} \subseteq Nat
          /\ Cardinality(OfGrant(steady, g))' <= Cardinality(OfGrant(steady, g))
          /\ Cardinality(OfGrant(ever, g)) <= Cardinality(OfGrant(ever, g))'
    /\ {Cardinality(OfData(ever)), Cardinality(OfData(ever))', Cardinality(Kept), Cardinality(Kept)'}
          \subseteq Nat
    /\ Cardinality(OfData(ever)) <= Cardinality(OfData(ever))'
    /\ "entry" \notin lapses' => Cardinality(Kept) <= Cardinality(Kept)'

LEMMA Growth == SizesGrow
<1> SUFFICES ASSUME TypeOK, TypeOK', Widens PROVE SizesGrow
  BY DEF SizesGrow
<1>1. /\ {Cardinality(steady), Cardinality(steady)', Cardinality(ever), Cardinality(ever)'} \subseteq Nat
      /\ Cardinality(steady)' <= Cardinality(steady) /\ Cardinality(ever) <= Cardinality(ever)'
  <2>1. /\ steady \in SUBSET Uris /\ steady' \in SUBSET steady
        /\ ever' \in SUBSET Uris /\ ever \in SUBSET ever'
    BY DEF TypeOK, Widens
  <2> QED
    BY <2>1, Smaller
<1>2. ASSUME NEW i \in Ids
      PROVE  /\ {Cardinality(OfView(steady, i)), Cardinality(OfView(steady, i))',
                 Cardinality(OfView(ever, i)), Cardinality(OfView(ever, i))'} \subseteq Nat
             /\ Cardinality(OfView(steady, i))' <= Cardinality(OfView(steady, i))
             /\ Cardinality(OfView(ever, i)) <= Cardinality(OfView(ever, i))'
  <2>1. OfView(steady, i) \in SUBSET Entries /\ OfView(ever, i)' \in SUBSET Entries
    BY DEF OfView
  <2>2. OfView(steady, i)' \in SUBSET OfView(steady, i) /\ OfView(ever, i) \in SUBSET OfView(ever, i)'
    BY DEF Widens
  <2> QED
    BY <2>1, <2>2, Smaller
<1>3. ASSUME NEW g \in Grants
      PROVE  /\ {Cardinality(OfGrant(steady, g)), Cardinality(OfGrant(steady, g))',
                 Cardinality(OfGrant(ever, g)), Cardinality(OfGrant(ever, g))'} \subseteq Nat
             /\ Cardinality(OfGrant(steady, g))' <= Cardinality(OfGrant(steady, g))
             /\ Cardinality(OfGrant(ever, g)) <= Cardinality(OfGrant(ever, g))'
  <2>1. OfGrant(steady, g) \in SUBSET Entries /\ OfGrant(ever, g)' \in SUBSET Entries
    BY DEF OfGrant
  <2>2. /\ OfGrant(steady, g)' \in SUBSET OfGrant(steady, g)
        /\ OfGrant(ever, g) \in SUBSET OfGrant(ever, g)'
    BY DEF Widens
  <2> QED
    BY <2>1, <2>2, Smaller
<1>4. /\ {Cardinality(OfData(ever)), Cardinality(OfData(ever))', Cardinality(Kept), Cardinality(Kept)'}
            \subseteq Nat
      /\ Cardinality(OfData(ever)) <= Cardinality(OfData(ever))'
      /\ "entry" \notin lapses' => Cardinality(Kept) <= Cardinality(Kept)'
  <2>1. OfData(ever)' \in SUBSET Uris /\ OfData(ever) \in SUBSET OfData(ever)'
    BY DEF TypeOK, OfData, Widens
  <2>2. /\ Kept \in SUBSET Entries /\ Kept' \in SUBSET Entries
        /\ "entry" \notin lapses' => Kept \in SUBSET Kept'
    BY DEF Kept, Widens
  <2> QED
    BY <2>1, <2>2, Smaller
<1> HIDE DEF Widens
<1> QED
  BY <1>1, <1>2, <1>3, <1>4 DEF SizesGrow

LEMMA BoundsKept ==
    ASSUME TypeOK, TypeOK', Widens, SameCounts, Bounded, TotalTaken' => TotalTaken,
           ViewsTaken' => ViewsTaken, TokensTaken' => TokensTaken
    PROVE  Bounded'
<1> USE Growth DEF SizesGrow, SameCounts
<1>1. /\ reader.total \in Nat /\ reader.byView \in [Ids -> Nat] /\ reader.byToken \in [Grants -> Nat]
  BY DEF TypeOK, Readers
<1>2. TotalTaken' => Cardinality(steady)' <= reader'.total /\ reader'.total <= Cardinality(ever)'
  BY <1>1 DEF Bounded
<1>3. ViewsTaken' => \A i \in Ids : /\ Cardinality(OfView(steady, i))' <= reader'.byView[i]
                                    /\ reader'.byView[i] <= Cardinality(OfView(ever, i))'
  BY <1>1 DEF Bounded
<1>4. TokensTaken' => \A g \in Grants : /\ Cardinality(OfGrant(steady, g))' <= reader'.byToken[g]
                                        /\ reader'.byToken[g] <= Cardinality(OfGrant(ever, g))'
  BY <1>1 DEF Bounded
<1> QED
  BY <1>2, <1>3, <1>4 DEF Bounded

LEMMA GrowingKept ==
    ASSUME TypeOK, TypeOK', Widens, SameCounts, "entry" \notin lapses', Growing,
           TotalTaken' <=> TotalTaken, ViewsTaken' <=> ViewsTaken, TokensTaken' <=> TokensTaken
    PROVE  Growing'
<1>1. reader.total \in Nat
  BY DEF TypeOK, Readers
<1> QED
  BY <1>1, Growth DEF SizesGrow, SameCounts, Growing

(* What one step does to statistics under way.                              *)
Counts ==
    \/ reader'.at \in {"record", "total"} /\ reader'.answer = "none"
    \/ reader'.at = "done" /\ reader'.answer \in {"401", "502"}
    \/ /\ reader.at = "total" /\ reader'.at = "byView" /\ reader'.answer = "none"
       /\ reader'.total = Cardinality(Logged)
    \/ /\ reader.at = "byView" /\ reader'.at = "byToken" /\ reader'.answer = "none"
       /\ reader'.total = reader.total
       /\ reader'.byView = [i \in Ids |-> Cardinality({e \in Kept : log[e].view = i})]
    \/ /\ reader.at = "byToken" /\ reader'.at = "done" /\ reader'.answer = "200"
       /\ reader'.total = reader.total /\ reader'.byView = reader.byView
       /\ reader'.byToken = [g \in Grants |-> Cardinality({e \in Kept : log[e].token = g})]

LEMMA ReadsCount ==
    ASSUME TypeOK, Discovering, Surveying, Reads, reader'.kind = "stats"
    PROVE  \/ reader.at = "idle" /\ reader'.at = "lookup" /\ reader'.answer = "none"
           \/ reader.kind = "stats" /\ reader.at \notin {"idle", "done"} /\ Counts
<1> USE DEF Proceed
<1>0. reader \in Readers
  BY DEF TypeOK
<1>1. CASE StartStats
  BY <1>1 DEF StartStats, Idle
<1>2. CASE \E g \in Grants : StartDiscovery(g)
  BY <1>2 DEF StartDiscovery, Idle
<1>3. CASE Finish
  BY <1>3, IdleReader DEF Finish
<1>4. CASE \/ LookUpToken \/ ReadToken \/ AnswerDiscovery \/ CredentialRefused
           \/ CountAll \/ CountByView \/ CountByToken \/ \E i \in Ids : Describe(i)
  <2>1. reader.at \in {"lookup", "record", "walk", "total", "byView", "byToken"}
    BY <1>4 DEF LookUpToken, ReadToken, AnswerDiscovery, CredentialRefused, Describe, Calling,
       CountAll, CountByView, CountByToken
  <2>2. reader'.kind = reader.kind
    BY <1>0, <1>4 DEF LookUpToken, ReadToken, AnswerDiscovery, CredentialRefused, Describe,
       CountAll, CountByView, CountByToken, Answer, Readers
  <2>3. reader.kind = "stats" /\ reader.at # "walk" /\ reader.answer = "none"
    BY <2>1, <2>2 DEF Discovering, Surveying
  <2>4. ASSUME NEW code, Answer(code) PROVE reader'.at = "done" /\ reader'.answer = code
    BY <1>0, <2>4 DEF Answer, Readers
  <2>5. Known
    BY <2>3 DEF Known
  <2>6. CASE LookUpToken \/ ReadToken
    <3>1. reader' = [reader EXCEPT !.at = "record"] \/ reader' = [reader EXCEPT !.at = "total"]
      BY <2>3, <2>5, <2>6 DEF LookUpToken, ReadToken
    <3> QED
      BY <1>0, <2>1, <2>3, <3>1 DEF Counts, Readers
  <2>7. CASE AnswerDiscovery \/ \E i \in Ids : Describe(i)
    BY <2>3, <2>7 DEF AnswerDiscovery, Describe, Calling
  <2>8. CASE CredentialRefused
    BY <2>1, <2>3, <2>4, <2>8 DEF CredentialRefused, Counts
  <2>9. CASE CountAll
    <3>1. /\ reader.at = "total"
          /\ reader' = [reader EXCEPT !.at = "byView", !.total = Cardinality(Logged)]
      BY <2>9 DEF CountAll, Calling, Logged
    <3> QED
      BY <1>0, <2>1, <2>3, <3>1 DEF Counts, Readers
  <2>10. CASE CountByView
    BY <1>0, <2>3, <2>10 DEF CountByView, Calling, Counts, Readers
  <2>11. CASE CountByToken
    BY <1>0, <2>3, <2>11 DEF CountByToken, Calling, Counts, Readers
  <2> QED
    BY <1>4, <2>1, <2>3, <2>6, <2>7, <2>8, <2>9, <2>10, <2>11
<1> QED
  BY <1>1, <1>2, <1>3, <1>4 DEF Reads, Discover, Survey

(* The two breakdowns of the log add up to its size.                        *)
LEMMA Breakdowns ==
    ASSUME TypeOK
    PROVE  /\ Sum([i \in Ids |-> Cardinality({e \in Kept : log[e].view = i})]) = Cardinality(Kept)
           /\ Sum([g \in Grants |-> Cardinality({e \in Kept : log[e].token = g})]) = Cardinality(Kept)
<1>1. Kept \subseteq Entries /\ IsFiniteSet(Kept) /\ IsFiniteSet(Ids) /\ IsFiniteSet(Grants)
  BY CatalogAssumption, FS_Subset DEF Kept
<1>2. \A e \in Kept : log[e].view \in Ids /\ log[e].token \in Grants
  BY <1>1 DEF TypeOK, LogRecords
<1> DEFINE v == [e \in Kept |-> log[e].view]
           t == [e \in Kept |-> log[e].token]
<1>3. v \in [Kept -> Ids] /\ t \in [Kept -> Grants]
  BY <1>2
<1>4. /\ [i \in Ids |-> Cardinality({e \in Kept : log[e].view = i})]
            = [i \in Ids |-> Cardinality({e \in Kept : v[e] = i})]
      /\ [g \in Grants |-> Cardinality({e \in Kept : log[e].token = g})]
            = [g \in Grants |-> Cardinality({e \in Kept : t[e] = g})]
  <2>1. \A i : {e \in Kept : log[e].view = i} = {e \in Kept : v[e] = i}
    OBVIOUS
  <2>2. \A g : {e \in Kept : log[e].token = g} = {e \in Kept : t[e] = g}
    OBVIOUS
  <2> QED
    BY <2>1, <2>2
<1> HIDE DEF v, t
<1>5. Sum([i \in Ids |-> Cardinality({e \in Kept : v[e] = i})]) = Cardinality(Kept)
  BY <1>1, <1>3, PartsAddUp
<1>6. Sum([g \in Grants |-> Cardinality({e \in Kept : t[e] = g})]) = Cardinality(Kept)
  BY <1>1, <1>3, PartsAddUp
<1> QED
  BY <1>4, <1>5, <1>6

(* What is typed as an entry is at most the log and the data plane's.       *)
CountedTotals == TypeOK /\ Tidy /\ Enclosed =>
    /\ {Cardinality(Logged), Cardinality(Kept), Cardinality(OfData(ever))} \subseteq Nat
    /\ Cardinality(steady) <= Cardinality(Logged) /\ Cardinality(Logged) <= Cardinality(ever)
    /\ Cardinality(Logged) <= Cardinality(Kept) + Cardinality(OfData(ever))

LEMMA TotalBounded == CountedTotals
<1> SUFFICES
    ASSUME TypeOK, Tidy, Enclosed
    PROVE  /\ {Cardinality(Logged), Cardinality(Kept), Cardinality(OfData(ever))} \subseteq Nat
           /\ Cardinality(steady) <= Cardinality(Logged) /\ Cardinality(Logged) <= Cardinality(ever)
           /\ Cardinality(Logged) <= Cardinality(Kept) + Cardinality(OfData(ever))
  BY DEF CountedTotals
<1>1. /\ steady \in SUBSET Logged /\ Logged \in SUBSET Uris
      /\ Logged \in SUBSET ever /\ ever \in SUBSET Uris
  BY LoggedKept DEF LoggedAreKept, Enclosed, TypeOK
<1>2. /\ Cardinality(Logged) \in Nat
      /\ Cardinality(steady) <= Cardinality(Logged) /\ Cardinality(Logged) <= Cardinality(ever)
  BY <1>1, Smaller
<1>3. Kept \in SUBSET Entries /\ OfData(ever) \in SUBSET Uris
  BY <1>1 DEF Kept, OfData
<1>4. /\ IsFiniteSet(Kept) /\ Cardinality(Kept) \in Nat
      /\ IsFiniteSet(OfData(ever)) /\ Cardinality(OfData(ever)) \in Nat
  BY <1>3, Smaller
<1> DEFINE Named == {EntryUri(e) : e \in Kept}
           name == [e \in Kept |-> EntryUri(e)]
<1>5. IsFiniteSet(Named) /\ Cardinality(Named) <= Cardinality(Kept)
  <2>1. name \in Surjection(Kept, Named)
    BY DEF Surjection
  <2> HIDE DEF name, Named
  <2> QED
    BY <1>4, <2>1, FS_Surjection
<1>6. Logged \subseteq Named \cup OfData(ever)
  BY <1>1, LoggedKept DEF LoggedAreKept, OfData
<1> HIDE DEF Named
<1>7. /\ IsFiniteSet(Named \cup OfData(ever))
      /\ Cardinality(Named \cup OfData(ever)) =
            Cardinality(Named) + Cardinality(OfData(ever)) - Cardinality(Named \cap OfData(ever))
  BY <1>4, <1>5, FS_Union
<1>8. /\ Cardinality(Named) \in Nat /\ Cardinality(Named \cap OfData(ever)) \in Nat
  BY <1>4, <1>5, FS_Intersection, FS_CardinalityType
<1>9. Cardinality(Logged) <= Cardinality(Named \cup OfData(ever))
      /\ Cardinality(Named \cup OfData(ever)) \in Nat
  BY <1>6, <1>7, FS_Subset, FS_CardinalityType
<1>10. Cardinality(Logged) <= Cardinality(Kept) + Cardinality(OfData(ever))
  BY <1>2, <1>4, <1>5, <1>7, <1>8, <1>9
<1> QED
  BY <1>2, <1>4, <1>10

(* What the breakdowns count lies between the two ends of the history.      *)
CountedParts == TypeOK /\ Tidy /\ Enclosed =>
    /\ \A i \in Ids : LET n == Cardinality({e \in Kept : log[e].view = i}) IN
          n \in Nat /\ Cardinality(OfView(steady, i)) <= n /\ n <= Cardinality(OfView(ever, i))
    /\ \A g \in Grants : LET n == Cardinality({e \in Kept : log[e].token = g}) IN
          n \in Nat /\ Cardinality(OfGrant(steady, g)) <= n /\ n <= Cardinality(OfGrant(ever, g))

LEMMA PartsBounded == CountedParts
<1> SUFFICES
    ASSUME TypeOK, Tidy, Enclosed
    PROVE  /\ \A i \in Ids : LET n == Cardinality({e \in Kept : log[e].view = i}) IN
                 n \in Nat /\ Cardinality(OfView(steady, i)) <= n /\ n <= Cardinality(OfView(ever, i))
           /\ \A g \in Grants : LET n == Cardinality({e \in Kept : log[e].token = g}) IN
                 n \in Nat /\ Cardinality(OfGrant(steady, g)) <= n /\ n <= Cardinality(OfGrant(ever, g))
  BY DEF CountedParts
<1>1. \A e \in Entries : /\ EntryUri(e) \in steady => e \in Kept
                         /\ e \in Kept => EntryUri(e) \in ever
  BY LoggedKept DEF LoggedAreKept, Enclosed
<1>2. Kept \subseteq Entries
  BY DEF Kept
<1>3. ASSUME NEW i \in Ids
      PROVE  LET n == Cardinality({e \in Kept : log[e].view = i}) IN
             n \in Nat /\ Cardinality(OfView(steady, i)) <= n /\ n <= Cardinality(OfView(ever, i))
  <2>1. /\ OfView(steady, i) \in SUBSET {e \in Kept : log[e].view = i}
        /\ {e \in Kept : log[e].view = i} \in SUBSET OfView(ever, i)
        /\ OfView(ever, i) \in SUBSET Entries /\ {e \in Kept : log[e].view = i} \in SUBSET Entries
    BY <1>1, <1>2 DEF OfView
  <2> QED
    BY <2>1, Smaller
<1>4. ASSUME NEW g \in Grants
      PROVE  LET n == Cardinality({e \in Kept : log[e].token = g}) IN
             n \in Nat /\ Cardinality(OfGrant(steady, g)) <= n /\ n <= Cardinality(OfGrant(ever, g))
  <2>1. /\ OfGrant(steady, g) \in SUBSET {e \in Kept : log[e].token = g}
        /\ {e \in Kept : log[e].token = g} \in SUBSET OfGrant(ever, g)
        /\ OfGrant(ever, g) \in SUBSET Entries /\ {e \in Kept : log[e].token = g} \in SUBSET Entries
    BY <1>1, <1>2 DEF OfGrant
  <2> QED
    BY <2>1, Smaller
<1> QED
  BY <1>3, <1>4

LEMMA CountedNext == CountedTotals' /\ CountedParts'
  BY TotalBounded, PartsBounded, PTL

LEMMA SurveyingStep ==
    ASSUME TypeOK, TypeOK', Tidy, Tidy', Discovering, Surveying, Next
    PROVE  Surveying'
<1>0. reader \in Readers /\ reader' \in Readers /\ Watch
  BY NextSplits DEF TypeOK
<1> SUFFICES ASSUME reader'.kind = "stats" PROVE Surveying'
  BY DEF Surveying
<1>1. CASE Writes
  <2>1. reader' = reader /\ reader.at # "done"
    <3>1. reader' = reader
      BY <1>1, WritesTyped
    <3>2. ~Finish
      BY <3>1, IdleReader DEF Finish, Proceed
    <3> QED
      BY <3>1, <3>2 DEF Next
  <2>2. reader.kind = "stats" /\ reader.at # "idle" /\ reader'.at # "idle"
    BY <2>1 DEF Discovering
  <2>3. Enclosed' /\ Widens /\ lapses \subseteq lapses'
    BY <1>0, <1>1, <2>2, StatsWatched DEF Widens, Surveying
  <2>4. /\ SameCounts /\ (TotalTaken' <=> TotalTaken) /\ (ViewsTaken' <=> ViewsTaken)
        /\ (TokensTaken' <=> TokensTaken)
    BY <2>1 DEF SameCounts, TotalTaken, ViewsTaken, TokensTaken
  <2>5. Bounded'
    BY <2>2, <2>3, <2>4, BoundsKept DEF Surveying
  <2>6. "entry" \notin lapses' => Growing'
    BY <2>2, <2>3, <2>4, GrowingKept DEF Surveying
  <2> QED
    BY <2>1, <2>2, <2>3, <2>5, <2>6 DEF Surveying
<1>2. CASE Reads /\ reader.at = "idle" /\ reader'.at = "lookup" /\ reader'.answer = "none"
  <2>1. steady' = Logged' /\ ever' = Logged'
    BY <1>0, <1>2 DEF Watch, Begin
  <2>2. Enclosed'
    BY <2>1, LoggedKeptNext DEF LoggedAreKept, Enclosed, Kept
  <2>3. ~TotalTaken' /\ ~ViewsTaken' /\ ~TokensTaken'
    BY <1>2 DEF TotalTaken, ViewsTaken, TokensTaken
  <2> QED
    BY <1>2, <2>2, <2>3 DEF Surveying, Bounded, Growing
<1>3. CASE Reads /\ reader.kind = "stats" /\ reader.at \notin {"idle", "done"} /\ Counts
  <2>0. UNCHANGED records
    BY <1>3, ReadsTyped
  <2>1. Kept' = Kept /\ Logged' = Logged /\ log' = log
    BY <2>0 DEF records, Kept, Logged, TypedAs
  <2>2. /\ reader'.at \notin {"idle", "lookup"} /\ (reader'.at # "done" => reader'.answer = "none")
        /\ reader.answer = "none"
    BY <1>3 DEF Counts, Surveying
  <2>3. Enclosed' /\ Widens /\ lapses \subseteq lapses'
    BY <1>0, <1>3, <2>0, <2>2, StatsWatched DEF Widens, Surveying
  <2>4. CASE ~TotalTaken' /\ ~ViewsTaken' /\ ~TokensTaken'
    BY <2>2, <2>3, <2>4 DEF Surveying, Bounded, Growing
  <2>5. CASE /\ reader'.at = "byView" /\ reader'.answer = "none"
             /\ reader'.total = Cardinality(Logged)
    <3>1. TotalTaken' /\ ~ViewsTaken' /\ ~TokensTaken'
      BY <2>5 DEF TotalTaken, ViewsTaken, TokensTaken
    <3>2. /\ Cardinality(steady)' <= reader'.total /\ reader'.total <= Cardinality(ever)'
          /\ reader'.total <= Cardinality(Kept)' + Cardinality(OfData(ever))'
      BY <2>1, <2>3, <2>5, CountedNext DEF CountedTotals
    <3> QED
      BY <2>2, <2>3, <3>1, <3>2 DEF Surveying, Bounded, Growing
  <2>6. CASE /\ reader.at = "byView" /\ reader'.at = "byToken" /\ reader'.answer = "none"
             /\ reader'.total = reader.total
             /\ reader'.byView = [i \in Ids |-> Cardinality({e \in Kept : log[e].view = i})]
    <3>1. TotalTaken' /\ ViewsTaken' /\ ~TokensTaken' /\ TotalTaken /\ ~ViewsTaken
      BY <2>2, <2>6 DEF TotalTaken, ViewsTaken, TokensTaken
    <3>2. Cardinality(steady)' <= reader'.total /\ reader'.total <= Cardinality(ever)'
      <4>1. Cardinality(steady) <= reader.total /\ reader.total <= Cardinality(ever)
        BY <1>3, <3>1 DEF Surveying, Bounded
      <4> QED
        BY <1>0, <2>3, <2>6, <4>1, Growth DEF SizesGrow, Readers
    <3>3. \A i \in Ids : /\ Cardinality(OfView(steady, i))' <= reader'.byView[i]
                         /\ reader'.byView[i] <= Cardinality(OfView(ever, i))'
      BY <2>1, <2>3, <2>6, CountedNext DEF CountedParts
    <3>4. Sum(reader'.byView) = Cardinality(Kept) /\ Cardinality(Kept) \in Nat
      BY <2>6, Breakdowns, Counted DEF Kept
    <3>5. ASSUME "entry" \notin lapses' PROVE Growing'
      <4>1. "entry" \notin lapses
        BY <2>3, <3>5
      <4>2. reader.total <= Cardinality(Kept) + Cardinality(OfData(ever))
        BY <1>3, <3>1, <4>1 DEF Surveying, Growing
      <4>3. reader'.total <= Sum(reader'.byView) + Cardinality(OfData(ever))'
        BY <1>0, <2>3, <2>6, <3>4, <4>2, Growth DEF SizesGrow, Readers
      <4> QED
        BY <2>1, <3>1, <3>4, <4>3 DEF Growing
    <3> QED
      BY <2>2, <2>3, <3>1, <3>2, <3>3, <3>5 DEF Surveying, Bounded
  <2>7. CASE /\ reader.at = "byToken" /\ reader'.at = "done" /\ reader'.answer = "200"
             /\ reader'.total = reader.total /\ reader'.byView = reader.byView
             /\ reader'.byToken = [g \in Grants |-> Cardinality({e \in Kept : log[e].token = g})]
    <3>1. TotalTaken' /\ ViewsTaken' /\ TokensTaken' /\ TotalTaken /\ ViewsTaken
      BY <2>7 DEF TotalTaken, ViewsTaken, TokensTaken
    <3>2. /\ Cardinality(steady) <= reader.total /\ reader.total <= Cardinality(ever)
          /\ \A i \in Ids : /\ Cardinality(OfView(steady, i)) <= reader.byView[i]
                            /\ reader.byView[i] <= Cardinality(OfView(ever, i))
      BY <1>3, <3>1 DEF Surveying, Bounded
    <3>3. Cardinality(steady)' <= reader'.total /\ reader'.total <= Cardinality(ever)'
      BY <1>0, <2>3, <2>7, <3>2, Growth DEF SizesGrow, Readers
    <3>4. \A i \in Ids : /\ Cardinality(OfView(steady, i))' <= reader'.byView[i]
                         /\ reader'.byView[i] <= Cardinality(OfView(ever, i))'
      BY <1>0, <2>3, <2>7, <3>2, Growth DEF SizesGrow, Readers
    <3>5. \A g \in Grants : /\ Cardinality(OfGrant(steady, g))' <= reader'.byToken[g]
                            /\ reader'.byToken[g] <= Cardinality(OfGrant(ever, g))'
      BY <2>1, <2>3, <2>7, CountedNext DEF CountedParts
    <3>6. Sum(reader'.byToken) = Cardinality(Kept) /\ Cardinality(Kept) \in Nat
      BY <2>7, Breakdowns, Counted DEF Kept
    <3>7. ASSUME "entry" \notin lapses' PROVE Growing'
      <4>1. "entry" \notin lapses
        BY <2>3, <3>7
      <4>2. /\ reader.total <= Sum(reader.byView) + Cardinality(OfData(ever))
            /\ Sum(reader.byView) \in Nat /\ Sum(reader.byView) <= Cardinality(Kept)
        BY <1>3, <3>1, <4>1 DEF Surveying, Growing
      <4>3. reader'.total <= Sum(reader'.byView) + Cardinality(OfData(ever))'
        BY <1>0, <2>3, <2>7, <4>2, Growth DEF SizesGrow, Readers
      <4> QED
        BY <2>1, <2>7, <3>1, <3>6, <4>2, <4>3 DEF Growing
    <3> QED
      BY <2>2, <2>3, <3>1, <3>3, <3>4, <3>5, <3>7 DEF Surveying, Bounded
  <2> QED
    BY <1>3, <2>2, <2>4, <2>5, <2>6, <2>7 DEF Counts, TotalTaken, ViewsTaken, TokensTaken
<1> QED
  BY <1>1, <1>2, <1>3, NextSplits, ReadsCount

(* The statistics are bracketed for any number of entries, views, grants    *)
(* and writers: each count lies between what was logged all through the    *)
(* request and what was logged at any time of it, and without an erasure   *)
(* the breakdowns add up to no less than the counts before them.            *)
THEOREM StatsAreBracketed == Spec => []StatsBracketed
<1>1. Init => Discovering /\ DiscoveryTotal /\ Surveying
  BY IdleReader DEF Init, Discovering, DiscoveryTotal, Surveying
<1>2. Init => Tidy
  BY Addresses DEF Init, Tidy, Only
<1>3. /\ TypeOK /\ TypeOK' /\ Tidy /\ Tidy' /\ Discovering /\ DiscoveryTotal /\ Surveying /\ [Next]_vars
         => Discovering' /\ DiscoveryTotal' /\ Surveying'
  <2>1. ASSUME Discovering, DiscoveryTotal, Surveying, UNCHANGED vars
        PROVE  Discovering' /\ DiscoveryTotal' /\ Surveying'
    <3>1. Discovering' /\ DiscoveryTotal'
      BY <2>1 DEF vars, Discovering, DiscoveryTotal, Known
    <3>2. Surveying'
      BY <2>1 DEF vars, Surveying, Enclosed, Bounded, Growing, TotalTaken, ViewsTaken, TokensTaken,
         OfView, OfGrant, OfData, Logged, TypedAs, Kept
    <3> QED
      BY <3>1, <3>2
  <2> QED
    BY <2>1, DiscoveringStep, SurveyingStep
<1>4. TypeOK /\ Tidy /\ [Next]_vars => Tidy'
  BY TidyStep
<1>5. Surveying => StatsBracketed
  <2> SUFFICES ASSUME Surveying, reader.kind = "stats", reader.answer = "200"
               PROVE  StatsBracketed
    BY DEF StatsBracketed
  <2>1. TotalTaken /\ ViewsTaken /\ TokensTaken
    BY DEF TotalTaken, ViewsTaken, TokensTaken
  <2>2. Bounded /\ ("entry" \notin lapses => Growing)
    BY DEF Surveying
  <2> QED
    BY <2>1, <2>2 DEF StatsBracketed, Bounded, Growing, OnLog, OfView, OfGrant, OfData
<1> QED
  BY <1>1, <1>2, <1>3, <1>4, <1>5, TypeCorrect, PTL DEF Spec
=============================================================================
