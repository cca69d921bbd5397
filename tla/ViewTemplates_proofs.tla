------------------------ MODULE ViewTemplates_proofs ------------------------
(***************************************************************************)
(* What holds of every set of texts, parameters, values and resources.     *)
(*                                                                         *)
(* The references of a page lead back.  What the scan finds in a text      *)
(* plays no part: it found a place for the page, so it finds one for each  *)
(* of its references.                                                      *)
(*                                                                         *)
(* The parameters bind in place.  The scan is a fold over the positions of *)
(* the text, which ReadOn takes apart; a part that ends outside of every   *)
(* comment, string, IRI and name is read within the text as it is read     *)
(* alone (PartsMove), so what is found in a text is put together from what *)
(* is found in its parts (LeadRead, GroupFound).  Where an induction on    *)
(* the positions is needed, the smallest counterexample is refuted.        *)
(***************************************************************************)
EXTENDS ViewTemplates, FiniteSetTheorems, SequenceTheorems, WellFoundedInduction, TLAPS

-----------------------------------------------------------------------------
(* References *)

(* What a page keeps of the request it answered.                           *)
Bound(d, bound) ==
    /\ \E raw : bound = Bind(d, raw) /\ Bindable(d, raw)
    /\ DOMAIN bound = {} \/ Injectable(d)

Honest ==
    page # NoPage =>
        /\ definition # NoView
        /\ Bound(definition, page.bound)
        /\ \A link \in page.links :
              \E r \in Resources : link = Proxy(r, page.bound)

Data == [stored : SUBSET Resources, described : SUBSET Resources,
         references : SUBSET References]
DataTyped == data \in Data

LEMMA HonestInit == Init => Honest /\ DataTyped
BY DEF Init, Honest, DataTyped, Data, NoData

LEMMA DataNext == DataTyped /\ [Next]_vars => DataTyped'
<1> SUFFICES ASSUME data \in Data, [Next]_vars PROVE data' \in Data
  BY DEF DataTyped
<1>1. CASE Change
  <2>1. /\ data.stored \subseteq Resources /\ data.described \subseteq Resources
        /\ data.references \subseteq References
        /\ data = [stored |-> data.stored, described |-> data.described,
                   references |-> data.references]
    BY DEF Data
  <2>2. ASSUME NEW r \in Resources, data' = [data EXCEPT !.stored = SymDiff(@, {r})]
        PROVE  data' \in Data
    BY <2>1, <2>2 DEF Data, SymDiff
  <2>3. ASSUME NEW r \in Resources, data' = [data EXCEPT !.described = SymDiff(@, {r})]
        PROVE  data' \in Data
    BY <2>1, <2>3 DEF Data, SymDiff
  <2>4. ASSUME NEW ref \in References,
               data' = [data EXCEPT !.references = SymDiff(@, {ref})]
        PROVE  data' \in Data
    BY <2>1, <2>4 DEF Data, SymDiff
  <2> QED
    BY <1>1, <2>2, <2>3, <2>4 DEF Change
<1>2. CASE Author \/ DeleteView \/ Fetch \/ UNCHANGED vars
  BY <1>2 DEF Author, DeleteView, Fetch, vars
<1> QED
  BY <1>1, <1>2 DEF Next

LEMMA HonestNext == DataTyped /\ Honest /\ [Next]_vars => Honest'
<1> SUFFICES ASSUME data \in Data, Honest, [Next]_vars PROVE Honest'
  BY DEF DataTyped
<1>1. CASE Author
  <2>1. page = NoPage
    BY <1>1 DEF Author, Honest
  <2>2. page' = NoPage
    BY <2>1, <1>1 DEF Author
  <2> QED
    BY <2>2 DEF Honest, NoPage
<1>2. CASE DeleteView
  BY <1>2 DEF DeleteView, Honest, NoPage
<1>3. CASE Change
  <2>1. definition' = definition /\ page' = page
    BY <1>3 DEF Change
  <2> QED
    BY <2>1 DEF Honest
<1>4. CASE Fetch
  <2>1. PICK bound \in Bindings(definition) :
            page' = [bound |-> bound, links |-> Rewritten(bound)]
    BY <1>4 DEF Fetch
  <2>2. definition' = definition /\ definition # NoView
    BY <1>4 DEF Fetch
  <2>3. Bound(definition, bound)
    BY <2>1 DEF Bindings, Bound
  <2>4. \A link \in Rewritten(bound) : \E r \in Resources : link = Proxy(r, bound)
    <3>1. data.described \subseteq Resources
      BY DEF Data
    <3> QED
      BY <3>1 DEF Rewritten
  <2>5. page'.bound = bound /\ page'.links = Rewritten(bound)
    BY <2>1
  <2> QED
    BY <2>2, <2>3, <2>4, <2>5 DEF Honest
<1>5. CASE UNCHANGED vars
  BY <1>5 DEF vars, Honest
<1> QED
  BY <1>1, <1>2, <1>3, <1>4, <1>5 DEF Next

(* Taking a proxy URL apart gives the bindings that were put in.           *)
LEMMA ProxyBinds ==
    ASSUME NEW d, NEW bound, NEW r, Bound(d, bound), "uri" \notin d.declared
    PROVE  /\ Bind(d, Proxy(r, bound)) = bound
           /\ Bindable(d, Proxy(r, bound))
           /\ Proxy(r, bound)["uri"] = r
<1> DEFINE link == Proxy(r, bound)
<1>1. PICK raw : bound = Bind(d, raw) /\ Bindable(d, raw)
  BY DEF Bound
<1>2. /\ DOMAIN bound = d.declared \cap DOMAIN raw
      /\ bound = [p \in DOMAIN bound |-> bound[p]]
      /\ \A p \in DOMAIN bound : bound[p] = raw[p]
  BY <1>1 DEF Bind
<1>3. DOMAIN link = {"uri"} \cup DOMAIN bound
  BY DEF Proxy
<1>4. \A p \in DOMAIN bound : link[p] = bound[p]
  BY DEF Proxy
<1>5. d.declared \cap DOMAIN link = DOMAIN bound
  BY <1>2, <1>3
<1>6. Bind(d, link) = [p \in DOMAIN bound |-> link[p]]
  BY <1>5 DEF Bind
<1>7. Bind(d, link) = bound
  BY <1>2, <1>4, <1>6
<1>8. Bindable(d, link)
  BY <1>1, <1>2, <1>4, <1>5 DEF Bindable
<1>9. link["uri"] = r
  BY <1>2 DEF Proxy
<1> QED
  BY <1>7, <1>8, <1>9

(* Every reference of a page leads back to its target, under the bindings  *)
(* of the page, exactly while the view refers to the target under these    *)
(* bindings and the target is stored, whatever the owner writes meanwhile. *)
THEOREM ReferencesLeadBack == Spec => []ProxiesLeadBack
<1>1. Honest => ProxiesLeadBack
  <2> SUFFICES ASSUME Honest, definition # NoView, page # NoPage,
                      "uri" \notin definition.declared,
                      NEW link \in page.links
               PROVE  /\ Bind(definition, link) = page.bound
                      /\ Follow(link) = (IF link["uri"] \in Result(page.bound) \cap data.stored
                                         THEN "200" ELSE "404")
    BY DEF ProxiesLeadBack
  <2>1. PICK r \in Resources : link = Proxy(r, page.bound)
    BY DEF Honest
  <2>2. Bound(definition, page.bound)
    BY DEF Honest
  <2>3. /\ Bind(definition, link) = page.bound
        /\ Bindable(definition, link)
        /\ link["uri"] = r
    BY <2>1, <2>2, ProxyBinds
  <2>4. DOMAIN Bind(definition, link) = {} \/ Injectable(definition)
    BY <2>2, <2>3 DEF Bound
  <2>5. CASE r \in Result(page.bound) \cap data.stored
    BY <2>3, <2>4, <2>5 DEF Follow
  <2>6. CASE r \notin Result(page.bound) \cap data.stored
    BY <2>3, <2>4, <2>6 DEF Follow
  <2> QED
    BY <2>3, <2>5, <2>6
<1> QED
  BY <1>1, HonestInit, DataNext, HonestNext, PTL DEF Spec
-----------------------------------------------------------------------------
(* The fold *)

(* The prover does not know that a literal is a string.                    *)
Characters == STRING \cup {"where", "sp"}

(* A set of numbers has a smallest member; it stands in for an induction   *)
(* on the positions of a text.                                             *)
LEMMA SmallestMember ==
    ASSUME NEW S, S \subseteq Nat, S # {}
    PROVE  \E n \in S : \A m \in S : n <= m
<1>1. PICK n \in S : \A m \in S : ~(<<m, n>> \in OpToRel(<, Nat))
  BY NatLessThanWellFounded, WFMin
<1>2. \A m \in S : ~(m < n)
  BY <1>1 DEF OpToRel
<1> QED
  BY <1>2

(* The recursion of the fold has a solution on the subsets of 1..n: the    *)
(* one for the subsets of 1..(n - 1) extends to those with n in them.      *)
Steps(text, g, n) ==
    g = [S \in SUBSET (1..n) |->
          IF S = {} THEN Unread ELSE Look(text, g[S \ {Max(S)}], Max(S))]
Folds(text, g, places) ==
    g = [S \in SUBSET DOMAIN places |->
          IF S = {} THEN Unread ELSE Look(text, g[S \ {Max(S)}], places[Max(S)])]

(* The largest of a set of positions, which the fold takes last.           *)
LEMMA LargestIn ==
    ASSUME NEW n \in Nat, NEW S \in SUBSET (1..n), S # {}
    PROVE  Max(S) \in S /\ \A m \in S : m <= Max(S)
<1>1. S \subseteq 1..n /\ S \subseteq Nat
  OBVIOUS
<1> DEFINE Above == {k \in Nat : n - k \in S}
<1>2. PICK s \in S : TRUE
  OBVIOUS
<1>3. n - s \in Nat /\ n - (n - s) = s
  BY <1>1
<1>4. Above \subseteq Nat /\ Above # {}
  BY <1>2, <1>3
<1>5. PICK k \in Above : \A l \in Above : k <= l
  BY <1>4, SmallestMember
<1>6. \A m \in S : n - m \in Above
  <2> SUFFICES ASSUME NEW m \in S PROVE n - m \in Above
    OBVIOUS
  <2>1. n - m \in Nat /\ n - (n - m) = m
    BY <1>1
  <2> QED
    BY <2>1
<1>7. n - k \in S /\ \A m \in S : n - k >= m
  BY <1>1, <1>5, <1>6
<1>8. Max(S) \in S /\ \A m \in S : Max(S) >= m
  BY <1>7 DEF Max
<1> QED
  BY <1>1, <1>8

LEMMA StepsExist == ASSUME NEW text, NEW n \in Nat PROVE \E g : Steps(text, g, n)
<1> DEFINE Without == {m \in Nat : ~\E g : Steps(text, g, m)}
<1> SUFFICES ASSUME Without # {} PROVE FALSE
  OBVIOUS
<1>1. PICK m \in Without : \A l \in Without : m <= l
  BY SmallestMember
<1>2. CASE m = 0
  <2> DEFINE g == [S \in SUBSET (1..0) |-> Unread]
  <2>1. SUBSET (1..0) = {{}}
    OBVIOUS
  <2>2. Steps(text, g, 0)
    BY <2>1 DEF Steps
  <2> QED
    BY <1>1, <1>2, <2>2
<1>3. CASE m # 0
  <2>1. m \in Nat /\ m - 1 \in Nat /\ m - 1 \notin Without
    BY <1>1, <1>3
  <2>2. PICK h : Steps(text, h, m - 1)
    BY <2>1
  <2> DEFINE g == [S \in SUBSET (1..m) |->
                    IF m \in S THEN Look(text, h[S \ {m}], m) ELSE h[S]]
  <2>3. ASSUME NEW S \in SUBSET (1..m)
        PROVE  g[S] = IF S = {} THEN Unread ELSE Look(text, g[S \ {Max(S)}], Max(S))
    <3>1. CASE m \in S
      <4>1. Max(S) = m
        <5>1. Max(S) \in S /\ \A x \in S : x <= Max(S)
          BY <3>1, <2>1, LargestIn
        <5>2. m \in Nat /\ Max(S) \in 1..m /\ m <= Max(S)
          BY <5>1, <3>1, <2>1
        <5> QED
          BY <5>2
      <4>2. S \ {m} \in SUBSET (1..m) /\ m \notin S \ {m}
        OBVIOUS
      <4>3. g[S \ {m}] = h[S \ {m}]
        BY <4>2
      <4> QED
        BY <3>1, <4>1, <4>3
    <3>2. CASE m \notin S /\ S # {}
      <4>1. S \in SUBSET (1..(m - 1))
        BY <3>2, <1>1
      <4>2. h[S] = Look(text, h[S \ {Max(S)}], Max(S))
        BY <2>2, <4>1, <3>2 DEF Steps
      <4>3. S \ {Max(S)} \in SUBSET (1..m) /\ m \notin S \ {Max(S)}
        BY <3>2
      <4> QED
        BY <3>2, <4>2, <4>3
    <3>3. CASE S = {}
      <4>1. {} \in SUBSET (1..(m - 1))
        OBVIOUS
      <4>2. h[{}] = Unread
        BY <2>2, <4>1 DEF Steps
      <4> QED
        BY <3>3, <4>2
    <3> QED
      BY <3>1, <3>2, <3>3
  <2>4. Steps(text, g, m)
    BY <2>3 DEF Steps
  <2> QED
    BY <1>1, <2>4
<1> QED
  BY <1>2, <1>3

(* What the fold of the scan comes to.                                     *)
Walk(text, places) == CHOOSE g : Folds(text, g, places)

LEMMA ReadingFolds ==
    ASSUME NEW text, NEW n
    PROVE  Reading(text, n) =
             Walk(text, [i \in 1..n |-> i])[DOMAIN [i \in 1..n |-> i]]
  BY DEF Reading, FoldLeft, MapThenFoldSet, Walk, Folds

(* The reading of n characters is such a solution, at 1..n.                *)
LEMMA ReadingWalks ==
    ASSUME NEW text, NEW n \in Nat
    PROVE  \E g : Steps(text, g, n) /\ Reading(text, n) = g[1..n]
<1> DEFINE places == [i \in 1..n |-> i]
<1>1. DOMAIN places = 1..n /\ \A i \in 1..n : places[i] = i
  OBVIOUS
<1>2. \A g : Folds(text, g, places) <=> Steps(text, g, n)
  <2>1. \A S \in SUBSET (1..n) : S # {} => places[Max(S)] = Max(S)
    BY <1>1, LargestIn
  <2> QED
    BY <1>1, <2>1 DEF Folds, Steps
<1>3. Folds(text, Walk(text, places), places)
  BY <1>2, StepsExist DEF Walk
<1> QED
  BY <1>1, <1>2, <1>3, ReadingFolds

(* A solution takes one character after the other.                         *)
LEMMA StepTaken ==
    ASSUME NEW text, NEW n \in Nat, NEW g, Steps(text, g, n)
    PROVE  /\ g[1..0] = Unread
           /\ \A k \in 1..n : g[1..k] = Look(text, g[1..(k - 1)], k)
<1>1. 1..0 \in SUBSET (1..n) /\ 1..0 = {}
  OBVIOUS
<1>2. ASSUME NEW k \in 1..n PROVE g[1..k] = Look(text, g[1..(k - 1)], k)
  <2>1. 1..k \in SUBSET (1..n) /\ k \in 1..k
    OBVIOUS
  <2>2. Max(1..k) \in 1..k /\ \A m \in 1..k : m <= Max(1..k)
    BY <2>1, LargestIn
  <2>3. Max(1..k) = k
    BY <2>1, <2>2
  <2>4. (1..k) \ {k} = 1..(k - 1)
    OBVIOUS
  <2> QED
    BY <2>1, <2>3, <2>4 DEF Steps
<1> QED
  BY <1>1, <1>2 DEF Steps

(* The solutions for two lengths agree on what both have read.             *)
LEMMA StepsAgree ==
    ASSUME NEW text, NEW n \in Nat, NEW m \in Nat, NEW g, NEW h,
           Steps(text, g, n), Steps(text, h, m), NEW k \in Nat, k <= n, k <= m
    PROVE  g[1..k] = h[1..k]
<1> DEFINE Apart == {l \in Nat : l <= n /\ l <= m /\ g[1..l] # h[1..l]}
<1> SUFFICES ASSUME Apart # {} PROVE FALSE
  OBVIOUS
<1>1. PICK l \in Apart : \A i \in Apart : l <= i
  <2>1. Apart \subseteq Nat
    OBVIOUS
  <2> QED
    BY <2>1, SmallestMember
<1>2. l # 0
  BY <1>1, StepTaken
<1>3. l \in Nat /\ l - 1 \in Nat /\ l - 1 \notin Apart /\ l \in 1..n /\ l \in 1..m
  BY <1>1, <1>2
<1>4. g[1..(l - 1)] = h[1..(l - 1)]
  BY <1>3
<1>5. /\ g[1..l] = Look(text, g[1..(l - 1)], l)
      /\ h[1..l] = Look(text, h[1..(l - 1)], l)
  BY <1>3, StepTaken
<1> QED
  BY <1>1, <1>4, <1>5

(* So the scan looks at one character after the other.                     *)
LEMMA ReadOn ==
    ASSUME NEW text
    PROVE  /\ Reading(text, 0) = Unread
           /\ \A n \in Nat : Reading(text, n + 1) = Look(text, Reading(text, n), n + 1)
<1>1. Reading(text, 0) = Unread
  <2>1. PICK g : Steps(text, g, 0) /\ Reading(text, 0) = g[1..0]
    BY ReadingWalks
  <2> QED
    BY <2>1, StepTaken
<1>2. ASSUME NEW n \in Nat
      PROVE  Reading(text, n + 1) = Look(text, Reading(text, n), n + 1)
  <2>1. PICK m \in Nat : m = n + 1
    OBVIOUS
  <2>2. m \in 1..m /\ m - 1 = n /\ n <= m
    BY <2>1
  <2>3. PICK g : Steps(text, g, n) /\ Reading(text, n) = g[1..n]
    BY ReadingWalks
  <2>4. PICK h : Steps(text, h, m) /\ Reading(text, m) = h[1..m]
    BY ReadingWalks
  <2>5. h[1..m] = Look(text, h[1..(m - 1)], m)
    BY <2>2, <2>4, StepTaken
  <2>6. h[1..n] = g[1..n]
    BY <2>2, <2>3, <2>4, StepsAgree
  <2> QED
    BY <2>1, <2>2, <2>3, <2>4, <2>5, <2>6
<1> QED
  BY <1>1, <1>2

(* From i on there is a first position in S, or it is one past the end.    *)
LEMMA FirstPlace ==
    ASSUME NEW i \in Nat, NEW n \in Nat, i <= n + 1, NEW S
    PROVE  \E j \in i..(n + 1) : (j > n \/ j \in S) /\ \A k \in i..(j - 1) : k \notin S
<1> DEFINE Ends == {j \in Nat : i <= j /\ (j = n + 1 \/ (j <= n /\ j \in S))}
<1>1. n + 1 \in Ends /\ Ends \subseteq Nat
  OBVIOUS
<1>2. PICK j \in Ends : \A k \in Ends : j <= k
  BY <1>1, SmallestMember
<1>3. j \in i..(n + 1) /\ (j > n \/ j \in S)
  BY <1>1, <1>2
<1>4. \A k \in i..(j - 1) : k \notin S
  BY <1>2, <1>3
<1> QED
  BY <1>3, <1>4

-----------------------------------------------------------------------------
(* The tokens of a text, and of a text it is part of *)

(* Position j is the first of text in S from i on, or one past the end.    *)
FirstIn(text, i, j, S) ==
    /\ j \in i..(Len(text) + 1)
    /\ j > Len(text) \/ j \in S
    /\ \A k \in i..(j - 1) : k \notin S

(* Characters and positions by what the scan makes of them.                *)
Hash(char) == char = "#"
Bracket(char) == char = "<"
Brace(char) == char = "{"
Plain(char) == ~Hash(char) /\ ~Bracket(char) /\ char \notin Quotes /\ ~Opens(char)

(* A character begins a token of one kind.                                 *)
LEMMA Kinds ==
    \A char : /\ Hash(char) => ~Bracket(char) /\ char \notin Quotes /\ ~Opens(char)
              /\ Bracket(char) => ~Hash(char) /\ char \notin Quotes /\ ~Opens(char)
              /\ char \in Quotes => ~Opens(char) /\ ~Hash(char) /\ ~Bracket(char)
              /\ Opens(char) => ~Hash(char) /\ ~Bracket(char) /\ char \notin Quotes
              /\ Hash(char) => char # "nl"
  BY Zenon, TemplatesAssumption DEF Hash, Bracket, Quotes, Opens, Letters

Lines(text) == {k \in 1..Len(text) : text[k] = "nl"}
Closer(char) == char = ">"
Iris(text) == {k \in 1..Len(text) : Closer(text[k])}
Halts(char) == ~Continues(char)
WordEnds(text) == {k \in 1..Len(text) : Halts(text[k])}
Triple(text, i) == i + 2 <= Len(text) /\ text[i + 1] = text[i] /\ text[i + 2] = text[i]
Width(text, i) == IF Triple(text, i) THEN 3 ELSE 1
Closes(text, i, w, j) ==
    /\ j + w - 1 <= Len(text)
    /\ SubSeq(text, j, j + w - 1) = SubSeq(text, i, i + w - 1)
    /\ ~Escaped(text, i + w, j)
Closing(text, i, w) == {j \in 1..Len(text) : Closes(text, i, w, j)}

(* Where each kind of token ends.                                          *)
LEMMA Tokens ==
    ASSUME NEW text \in Seq(Characters), NEW i \in 1..Len(text)
    PROVE  /\ Hash(text[i]) => FirstIn(text, i, After(text, i), Lines(text))
           /\ Bracket(text[i]) =>
                 \E end : FirstIn(text, i, end, Iris(text)) /\ After(text, i) = end + 1
           /\ Opens(text[i]) => FirstIn(text, i + 1, After(text, i), WordEnds(text))
           /\ text[i] \in Quotes =>
                 LET w == Width(text, i) IN
                 \E end : /\ FirstIn(text, i + w, end, Closing(text, i, w))
                         /\ After(text, i) = end + w
           /\ Plain(text[i]) => After(text, i) = i + 1
<1>0. /\ Len(text) \in Nat /\ i \in Nat /\ i + 1 \in Nat
      /\ i <= Len(text) + 1 /\ i + 1 <= Len(text) + 1
  OBVIOUS
<1>1. ASSUME Hash(text[i]) PROVE FirstIn(text, i, After(text, i), Lines(text))
  <2>1. \E j \in i..(Len(text) + 1) :
          /\ j > Len(text) \/ j \in Lines(text)
          /\ \A k \in i..(j - 1) : k \notin Lines(text)
    BY <1>0, FirstPlace
  <2>2. \E j \in i..(Len(text) + 1) :
          /\ j > Len(text) \/ text[j] = "nl"
          /\ \A k \in i..(j - 1) : ~(text[k] = "nl")
    BY <1>0, <2>1 DEF Lines
  <2>3. After(text, i) = CHOOSE j \in i..(Len(text) + 1) :
          /\ j > Len(text) \/ text[j] = "nl"
          /\ \A k \in i..(j - 1) : ~(text[k] = "nl")
    BY Zenon, <1>1, Kinds DEF After, FirstFrom, Hash
  <2> QED
    BY <1>0, <2>2, <2>3 DEF FirstIn, Lines
<1>2. ASSUME Bracket(text[i])
      PROVE  \E end : FirstIn(text, i, end, Iris(text)) /\ After(text, i) = end + 1
  <2>1. \E j \in i..(Len(text) + 1) :
          /\ j > Len(text) \/ j \in Iris(text)
          /\ \A k \in i..(j - 1) : k \notin Iris(text)
    BY <1>0, FirstPlace
  <2>2. \E j \in i..(Len(text) + 1) :
          /\ j > Len(text) \/ Closer(text[j])
          /\ \A k \in i..(j - 1) : ~Closer(text[k])
    BY <1>0, <2>1 DEF Iris
  <2> DEFINE end == CHOOSE j \in i..(Len(text) + 1) :
          /\ j > Len(text) \/ Closer(text[j])
          /\ \A k \in i..(j - 1) : ~Closer(text[k])
  <2>3. After(text, i) = end + 1
    BY Zenon, <1>2, Kinds DEF After, FirstFrom, Hash, Bracket, Closer
  <2>4. FirstIn(text, i, end, Iris(text))
    BY <1>0, <2>2 DEF FirstIn, Iris
  <2> QED
    BY <2>3, <2>4
<1>3. ASSUME Opens(text[i]) PROVE FirstIn(text, i + 1, After(text, i), WordEnds(text))
  <2>1. \E j \in (i + 1)..(Len(text) + 1) :
          /\ j > Len(text) \/ j \in WordEnds(text)
          /\ \A k \in (i + 1)..(j - 1) : k \notin WordEnds(text)
    BY <1>0, FirstPlace
  <2>2. \E j \in (i + 1)..(Len(text) + 1) :
          /\ j > Len(text) \/ Halts(text[j])
          /\ \A k \in (i + 1)..(j - 1) : ~Halts(text[k])
    BY <1>0, <2>1 DEF WordEnds
  <2> DEFINE end == CHOOSE j \in (i + 1)..(Len(text) + 1) :
          /\ j > Len(text) \/ Halts(text[j])
          /\ \A k \in (i + 1)..(j - 1) : ~Halts(text[k])
  <2>3. After(text, i) = end
    BY Zenon, <1>3, Kinds DEF After, FirstFrom, Hash, Bracket, Halts
  <2>4. FirstIn(text, i + 1, end, WordEnds(text))
    BY <1>0, <2>2 DEF FirstIn, WordEnds
  <2> QED
    BY <2>3, <2>4
<1>4. ASSUME Plain(text[i]) PROVE After(text, i) = i + 1
  BY Zenon, <1>4 DEF After, Plain, Hash, Bracket
<1>5. ASSUME text[i] \in Quotes
      PROVE  LET w == Width(text, i) IN
             \E end : /\ FirstIn(text, i + w, end, Closing(text, i, w))
                     /\ After(text, i) = end + w
  <2>1. After(text, i) = AfterString(text, i)
    BY Zenon, <1>5, Kinds DEF After, Hash, Bracket
  <2>2. (i + 2 <= Len(text) /\ \A k \in i..(i + 2) : text[k] = text[i]) <=> Triple(text, i)
    BY <1>0 DEF Triple
  <2>3. PICK w : w = Width(text, i)
    OBVIOUS
  <2>4. w \in {1, 3} /\ i + w <= Len(text) + 1 /\ i + w \in Nat
    BY <1>0, <2>3 DEF Width, Triple
  <2> DEFINE end == CHOOSE j \in (i + w)..(Len(text) + 1) :
                       /\ j > Len(text) \/ Closes(text, i, w, j)
                       /\ \A k \in (i + w)..(j - 1) : ~Closes(text, i, w, k)
  <2>5. AfterString(text, i) = end + w
    <3>1. CASE Triple(text, i)
      <4>1. w = 3
        BY <2>3, <3>1 DEF Width
      <4> QED
        BY Zenon, <2>2, <3>1, <4>1 DEF AfterString, FirstFrom, Closes
    <3>2. CASE ~Triple(text, i)
      <4>1. w = 1
        BY <2>3, <3>2 DEF Width
      <4> QED
        BY Zenon, <2>2, <3>2, <4>1 DEF AfterString, FirstFrom, Closes
    <3> QED
      BY <3>1, <3>2
  <2>6. \E j \in (i + w)..(Len(text) + 1) :
          /\ j > Len(text) \/ j \in Closing(text, i, w)
          /\ \A k \in (i + w)..(j - 1) : k \notin Closing(text, i, w)
    BY <1>0, <2>4, FirstPlace
  <2>7. \E j \in (i + w)..(Len(text) + 1) :
          /\ j > Len(text) \/ Closes(text, i, w, j)
          /\ \A k \in (i + w)..(j - 1) : ~Closes(text, i, w, k)
    BY <1>0, <2>4, <2>6 DEF Closing
  <2>8. FirstIn(text, i + w, end, Closing(text, i, w))
    BY <1>0, <2>4, <2>7 DEF FirstIn, Closing
  <2> HIDE DEF end
  <2> QED
    BY <2>1, <2>3, <2>5, <2>8
<1> QED
  BY <1>1, <1>2, <1>3, <1>4, <1>5

(* part stands in text, after p characters.                                *)
Stands(part, text, p) ==
    /\ part \in Seq(Characters) /\ text \in Seq(Characters) /\ p \in Nat
    /\ p + Len(part) <= Len(text)
    /\ \A k \in 1..Len(part) : text[p + k] = part[k]

(* What is first in the part is first in the text, p characters on.        *)
LEMMA FirstInMoves ==
    ASSUME NEW part, NEW text, NEW p, Stands(part, text, p),
           NEW i \in Nat, NEW j, NEW S, FirstIn(part, i, j, S), j <= Len(part),
           NEW m, NEW T, FirstIn(text, p + i, m, T),
           \A k \in i..j : p + k \in T <=> k \in S
    PROVE  m = p + j
<1>1. /\ Len(part) \in Nat /\ Len(text) \in Nat /\ p \in Nat
      /\ p + Len(part) <= Len(text)
  BY DEF Stands
<1>2. j \in Nat /\ i <= j /\ j \in S /\ \A k \in i..(j - 1) : k \notin S
  BY <1>1 DEF FirstIn
<1>3. m \in Nat /\ p + i <= m /\ (m > Len(text) \/ m \in T)
      /\ \A k \in (p + i)..(m - 1) : k \notin T
  BY <1>1 DEF FirstIn
<1>4. p + j \in T
  BY <1>2
<1>5. ~(p + j < m)
  BY <1>1, <1>2, <1>3, <1>4
<1>6. ~(m < p + j)
  <2> SUFFICES ASSUME m < p + j PROVE FALSE
    OBVIOUS
  <2>1. m \in T /\ m - p \in i..(j - 1) /\ p + (m - p) = m
    BY <1>1, <1>2, <1>3
  <2> QED
    BY <1>2, <2>1
<1> QED
  BY <1>1, <1>2, <1>3, <1>5, <1>6

Copied(part, text, p, i, j) == SubSeq(text, p + i, p + j) = SubSeq(part, i, j)

(* The characters from i to j of the part, in the text.                    *)
LEMMA SubSeqMoves ==
    ASSUME NEW part, NEW text, NEW p, Stands(part, text, p),
           NEW i \in 1..Len(part), NEW j \in Nat, j <= Len(part)
    PROVE  Copied(part, text, p, i, j)
<1>1. /\ Len(part) \in Nat /\ Len(text) \in Nat /\ p \in Nat /\ i \in Nat
      /\ p + Len(part) <= Len(text)
      /\ \A k \in 1..Len(part) : text[p + k] = part[k] /\ part[k] \in Characters
  BY DEF Stands
<1> DEFINE s == SubSeq(part, i, j)
           t == SubSeq(text, p + i, p + j)
<1>2. /\ s \in Seq(Characters) /\ Len(s) = (IF i <= j THEN j - i + 1 ELSE 0)
      /\ \A k \in 1..(j - i + 1) : s[k] = part[i + k - 1]
  <2>1. \A k \in i..j : part[k] \in Characters
    BY <1>1
  <2> QED
    BY <1>1, <2>1, SubSeqProperties
<1>3. /\ t \in Seq(Characters) /\ Len(t) = (IF i <= j THEN j - i + 1 ELSE 0)
      /\ \A k \in 1..(j - i + 1) : t[k] = text[p + i + k - 1]
  <2>1. \A k \in (p + i)..(p + j) : text[k] \in Characters
    <3> SUFFICES ASSUME NEW k \in (p + i)..(p + j) PROVE text[k] \in Characters
      OBVIOUS
    <3>1. k - p \in 1..Len(part) /\ p + (k - p) = k
      BY <1>1
    <3> QED
      BY <1>1, <3>1
  <2>2. p + i \in Int /\ p + j \in Int
    BY <1>1
  <2>3. /\ t \in Seq(Characters)
        /\ Len(t) = (IF p + i <= p + j THEN (p + j) - (p + i) + 1 ELSE 0)
        /\ \A k \in 1..((p + j) - (p + i) + 1) : t[k] = text[p + i + k - 1]
    BY <2>1, <2>2, SubSeqProperties
  <2> QED
    BY <1>1, <2>3
<1>4. \A k \in 1..(j - i + 1) : s[k] = t[k]
  <2> SUFFICES ASSUME NEW k \in 1..(j - i + 1) PROVE s[k] = t[k]
    OBVIOUS
  <2>1. i + k - 1 \in 1..Len(part) /\ p + (i + k - 1) = p + i + k - 1
    BY <1>1
  <2> QED
    BY <1>1, <1>2, <1>3, <2>1
<1> HIDE DEF s, t
<1>5. Len(s) = Len(t) /\ \A k \in 1..Len(s) : s[k] = t[k]
  BY <1>1, <1>2, <1>3, <1>4
<1> QED
  BY <1>2, <1>3, <1>5 DEF s, t, Copied

(* A character that is escaped in the part is escaped in the text.         *)
LEMMA EscapedMoves ==
    ASSUME NEW part, NEW text, NEW p, Stands(part, text, p),
           NEW i \in 1..Len(part), NEW j \in Nat, j <= Len(part) + 1
    PROVE  Escaped(text, p + i, p + j) <=> Escaped(part, i, j)
<1>1. /\ Len(part) \in Nat /\ Len(text) \in Nat /\ p \in Nat /\ i \in Nat
      /\ p + Len(part) <= Len(text)
      /\ \A k \in 1..Len(part) : text[p + k] = part[k]
  BY DEF Stands
<1> DEFINE R == {k \in i..(j - 1) : \A l \in k..(j - 1) : part[l] = "bs"}
           Q == {k \in (p + i)..((p + j) - 1) : \A l \in k..((p + j) - 1) : text[l] = "bs"}
           f == [k \in R |-> p + k]
<1>2. \A k \in R : p + k \in Q
  <2> SUFFICES ASSUME NEW k \in R PROVE p + k \in Q
    OBVIOUS
  <2>2. /\ k \in i..(j - 1) /\ \A l \in k..(j - 1) : part[l] = "bs"
        /\ p + k \in (p + i)..((p + j) - 1)
    BY <1>1
  <2> SUFFICES ASSUME NEW l \in (p + k)..((p + j) - 1) PROVE text[l] = "bs"
    BY <2>2
  <2>1. l - p \in k..(j - 1) /\ l - p \in 1..Len(part) /\ p + (l - p) = l
    BY <1>1, <2>2
  <2> QED
    BY <1>1, <2>1, <2>2
<1>3. \A m \in Q : m - p \in R
  <2> SUFFICES ASSUME NEW m \in Q PROVE m - p \in R
    OBVIOUS
  <2>1. /\ m \in (p + i)..((p + j) - 1) /\ \A l \in m..((p + j) - 1) : text[l] = "bs"
        /\ m - p \in i..(j - 1)
    BY <1>1
  <2> SUFFICES ASSUME NEW l \in (m - p)..(j - 1) PROVE part[l] = "bs"
    BY <2>1
  <2>2. p + l \in m..((p + j) - 1) /\ l \in 1..Len(part)
    BY <1>1, <2>1
  <2> QED
    BY <1>1, <2>1, <2>2
<1>4. f \in Bijection(R, Q)
  <2>1. f \in [R -> Q]
    BY <1>2
  <2>2. \A a, b \in R : f[a] = f[b] => a = b
    <3>1. \A a \in R : f[a] = p + a /\ a \in Nat
      BY <1>1
    <3> HIDE DEF R, f
    <3> QED
      BY <1>1, <3>1
  <2>3. \A m \in Q : \E k \in R : f[k] = m
    <3>1. \A a \in R : f[a] = p + a
      OBVIOUS
    <3>2. \A m \in Q : m \in Nat
      BY <1>1
    <3> HIDE DEF R, Q, f
    <3> SUFFICES ASSUME NEW m \in Q PROVE f[m - p] = m /\ m - p \in R
      OBVIOUS
    <3> QED
      BY <1>1, <1>3, <3>1, <3>2
  <2> HIDE DEF R, Q, f
  <2> QED
    BY <2>1, <2>2, <2>3 DEF Bijection, Injection, Surjection, IsInjective
<1>5. IsFiniteSet(R)
  <2>1. IsFiniteSet(i..(j - 1))
    BY <1>1, FS_Interval
  <2> QED
    BY <2>1, FS_Subset
<1>6. Cardinality(Q) = Cardinality(R)
  BY <1>4, <1>5, FS_Bijection DEF ExistsBijection
<1>7. Escaped(text, p + i, p + j) <=> Cardinality(Q) % 2 = 1
  BY DEF Escaped
<1>8. Escaped(part, i, j) <=> Cardinality(R) % 2 = 1
  BY DEF Escaped
<1> HIDE DEF R, Q
<1> QED
  BY <1>6, <1>7, <1>8

(* The scan always moves on.                                               *)
LEMMA AfterIsLater ==
    ASSUME NEW text \in Seq(Characters), NEW i \in 1..Len(text)
    PROVE  After(text, i) \in Nat /\ After(text, i) > i
<1>0. Len(text) \in Nat /\ i \in Nat
  OBVIOUS
<1>1. CASE Hash(text[i])
  <2>1. FirstIn(text, i, After(text, i), Lines(text))
    BY <1>1, Tokens
  <2>2. i \notin Lines(text)
    BY <1>1, Kinds DEF Lines
  <2> QED
    BY <1>0, <2>1, <2>2 DEF FirstIn
<1>2. CASE Bracket(text[i])
  <2>1. PICK end : FirstIn(text, i, end, Iris(text)) /\ After(text, i) = end + 1
    BY <1>2, Tokens
  <2> QED
    BY <1>0, <2>1 DEF FirstIn
<1>3. CASE Opens(text[i])
  <2>1. FirstIn(text, i + 1, After(text, i), WordEnds(text))
    BY <1>3, Tokens
  <2> QED
    BY <1>0, <2>1 DEF FirstIn
<1>4. CASE text[i] \in Quotes
  <2>1. PICK w, end : /\ w = Width(text, i)
                      /\ FirstIn(text, i + w, end, Closing(text, i, w))
                      /\ After(text, i) = end + w
    BY <1>4, Tokens
  <2>2. w \in {1, 3}
    BY <2>1 DEF Width
  <2> QED
    BY <1>0, <2>1, <2>2 DEF FirstIn
<1>5. CASE Plain(text[i])
  BY <1>0, <1>5, Tokens
<1> QED
  BY <1>1, <1>2, <1>3, <1>4, <1>5 DEF Plain

(* A token of the part is the same token of the text, if it ends before    *)
(* the part does.                                                          *)
LEMMA TokensMove ==
    ASSUME NEW part, NEW text, NEW p, Stands(part, text, p), NEW i \in 1..Len(part),
           After(part, i) <= Len(part) \/ Plain(part[i])
    PROVE  After(text, p + i) = p + After(part, i)
<1>0. /\ Len(part) \in Nat /\ Len(text) \in Nat /\ p \in Nat /\ i \in Nat
      /\ p + Len(part) <= Len(text) /\ p + i \in 1..Len(text)
      /\ part \in Seq(Characters) /\ text \in Seq(Characters)
      /\ \A k \in 1..Len(part) : text[p + k] = part[k] /\ p + k \in 1..Len(text)
      /\ text[p + i] = part[i]
  BY DEF Stands
<1>1. CASE Hash(part[i])
  <2>1. /\ FirstIn(part, i, After(part, i), Lines(part))
        /\ FirstIn(text, p + i, After(text, p + i), Lines(text))
    BY <1>0, <1>1, Tokens
  <2>2. \A k \in 1..Len(part) : p + k \in Lines(text) <=> k \in Lines(part)
    BY <1>0 DEF Lines
  <2>3. After(part, i) <= Len(part) /\ After(part, i) \in Nat
    BY <1>0, <1>1, AfterIsLater DEF Plain
  <2>4. \A k \in i..After(part, i) : p + k \in Lines(text) <=> k \in Lines(part)
    BY <1>0, <2>2, <2>3
  <2>5. i \in Nat
    BY <1>0
  <2> QED
    BY <2>1, <2>3, <2>4, <2>5, FirstInMoves
<1>2. CASE Bracket(part[i])
  <2>1. PICK end : FirstIn(part, i, end, Iris(part)) /\ After(part, i) = end + 1
    BY <1>0, <1>2, Tokens
  <2>2. PICK stop : /\ FirstIn(text, p + i, stop, Iris(text))
                    /\ After(text, p + i) = stop + 1
    BY <1>0, <1>2, Tokens
  <2>3. end \in Nat /\ end <= Len(part)
    BY <1>0, <1>2, <2>1 DEF Plain, FirstIn
  <2>4. \A k \in i..end : p + k \in Iris(text) <=> k \in Iris(part)
    BY <1>0, <2>3 DEF Iris
  <2>5. i \in Nat
    BY <1>0
  <2>6. stop = p + end
    BY <2>1, <2>2, <2>3, <2>4, <2>5, FirstInMoves
  <2> QED
    BY <1>0, <2>1, <2>2, <2>3, <2>6
<1>3. CASE Opens(part[i])
  <2>1. /\ FirstIn(part, i + 1, After(part, i), WordEnds(part))
        /\ FirstIn(text, (p + i) + 1, After(text, p + i), WordEnds(text))
    BY <1>0, <1>3, Tokens
  <2>2. \A k \in 1..Len(part) : p + k \in WordEnds(text) <=> k \in WordEnds(part)
    BY <1>0 DEF WordEnds
  <2>3. After(part, i) <= Len(part) /\ After(part, i) \in Nat
    BY <1>0, <1>3, AfterIsLater DEF Plain
  <2>4. \A k \in (i + 1)..After(part, i) : p + k \in WordEnds(text) <=> k \in WordEnds(part)
    BY <1>0, <2>2, <2>3
  <2>5. (p + i) + 1 = p + (i + 1) /\ i + 1 \in Nat
    BY <1>0
  <2> QED
    BY <2>1, <2>3, <2>4, <2>5, FirstInMoves
<1>4. CASE part[i] \in Quotes
  <2>1. PICK w, end : /\ w = Width(part, i)
                      /\ FirstIn(part, i + w, end, Closing(part, i, w))
                      /\ After(part, i) = end + w
    BY <1>0, <1>4, Tokens
  <2>2. /\ w \in {1, 3} /\ end \in Nat /\ i + w <= end /\ end + w <= Len(part)
    BY <1>0, <1>4, <2>1 DEF Plain, FirstIn, Width
  <2>3. Width(text, p + i) = w
    <3>1. i + 2 \in 1..Len(part) /\ i + 1 \in 1..Len(part)
      BY <1>0, <2>2
    <3>2. /\ text[p + (i + 1)] = part[i + 1] /\ text[p + (i + 2)] = part[i + 2]
          /\ p + (i + 1) = (p + i) + 1 /\ p + (i + 2) = (p + i) + 2
          /\ (p + i) + 2 <= Len(text)
      BY <1>0, <3>1
    <3>3. Triple(text, p + i) <=> Triple(part, i)
      BY <1>0, <3>1, <3>2 DEF Triple
    <3> QED
      BY <2>1, <3>3 DEF Width
  <2>4. PICK stop : /\ FirstIn(text, (p + i) + w, stop, Closing(text, p + i, w))
                    /\ After(text, p + i) = stop + w
    BY <1>0, <1>4, <2>3, Tokens
  <2>5. ASSUME NEW k \in (i + w)..end
        PROVE  p + k \in Closing(text, p + i, w) <=> k \in Closing(part, i, w)
    <3>1. PICK a, b, c : a = k + w - 1 /\ b = i + w - 1 /\ c = i + w
      OBVIOUS
    <3>2. /\ k \in 1..Len(part) /\ k \in Nat /\ k <= Len(part) + 1
          /\ p + k \in 1..Len(text)
          /\ a \in Nat /\ a <= Len(part) /\ (p + k) + w - 1 = p + a
          /\ (p + k) + w - 1 <= Len(text)
          /\ b \in Nat /\ b <= Len(part) /\ (p + i) + w - 1 = p + b
          /\ c \in 1..Len(part) /\ (p + i) + w = p + c
      BY <1>0, <2>2, <3>1
    <3>3. Copied(part, text, p, k, a)
      BY <3>2, SubSeqMoves
    <3>4. Copied(part, text, p, i, b)
      BY <3>2, SubSeqMoves
    <3>5. Escaped(text, p + c, p + k) <=> Escaped(part, c, k)
      BY <3>2, EscapedMoves
    <3>6. Closes(text, p + i, w, p + k) <=>
             SubSeq(part, k, a) = SubSeq(part, i, b) /\ ~Escaped(part, c, k)
      BY <3>2, <3>3, <3>4, <3>5 DEF Closes, Copied
    <3>7. Closes(part, i, w, k) <=>
             SubSeq(part, k, a) = SubSeq(part, i, b) /\ ~Escaped(part, c, k)
      BY <3>1, <3>2 DEF Closes
    <3> QED
      BY <3>2, <3>6, <3>7 DEF Closing
  <2>6. (p + i) + w = p + (i + w) /\ i + w \in Nat /\ end <= Len(part)
    BY <1>0, <2>2
  <2>7. stop = p + end
    BY <2>1, <2>4, <2>5, <2>6, FirstInMoves
  <2> QED
    BY <1>0, <2>1, <2>2, <2>4, <2>7
<1>5. CASE Plain(part[i])
  BY <1>0, <1>5, Tokens
<1> QED
  BY <1>1, <1>2, <1>3, <1>4, <1>5 DEF Plain

(* What holds of 0 and carries over to the next number holds up to n.      *)
LEMMA UpTo ==
    ASSUME NEW n \in Nat, NEW S, 0 \in S, \A k \in Nat : k < n /\ k \in S => k + 1 \in S
    PROVE  \A k \in 0..n : k \in S
<1> DEFINE Missing == {k \in Nat : k <= n /\ k \notin S}
<1> SUFFICES ASSUME Missing # {} PROVE FALSE
  OBVIOUS
<1>1. Missing \subseteq Nat
  OBVIOUS
<1>2. PICK k \in Missing : \A l \in Missing : k <= l
  BY <1>1, SmallestMember
<1>3. k # 0 /\ k \in Nat /\ k <= n
  BY <1>2
<1>4. k - 1 \in Nat /\ k - 1 < n /\ k - 1 \notin Missing
  BY <1>2, <1>3
<1>5. (k - 1) + 1 \in S
  BY <1>4
<1> QED
  BY <1>2, <1>3, <1>5

(* A WHERE that stands alone.                                              *)
Keyword(text, i) == Opens(text[i]) /\ SubSeq(text, i, After(text, i) - 1) = <<"where">>

(* A look at character i, in the names used here.                          *)
LEMMA Looks ==
    ASSUME NEW text, NEW s, NEW i
    PROVE  /\ i < s.resume => Look(text, s, i) = s
           /\ ~(i < s.resume) => Look(text, s, i) =
                [resume |-> After(text, i),
                 first |-> IF Brace(text[i]) /\ s.first = 0 THEN i ELSE s.first,
                 where |-> IF Keyword(text, i) /\ s.where = 0 THEN i ELSE s.where,
                 group |-> IF Brace(text[i]) /\ s.where # 0 /\ s.group = 0 THEN i ELSE s.group]
  BY Zenon DEF Look, Group, Brace, Keyword

(* What a reading may have found.                                          *)
Found == [resume : Nat, first : Nat, where : Nat, group : Nat]

(* What one look leaves as it was, and what it may find.                   *)
LEMMA LookOn ==
    ASSUME NEW text \in Seq(Characters), NEW i \in 1..Len(text), NEW s \in Found, s.resume >= i
    PROVE  LET r == Look(text, s, i) IN
           /\ r \in Found /\ r.resume > i /\ r.resume >= s.resume
           /\ s.first # 0 => r.first = s.first
           /\ s.where # 0 => r.where = s.where
           /\ s.group # 0 => r.group = s.group
           /\ s.first = 0 => r.first \in {0, i}
           /\ s.where = 0 => r.where \in {0, i}
           /\ s.group = 0 => r.group \in {0, i}
           /\ s.where = 0 /\ s.group = 0 => r.group = 0
           /\ r.first = 0 /\ s.group = 0 => r.group = 0
<1>1. i \in Nat /\ After(text, i) \in Nat /\ After(text, i) > i
  BY AfterIsLater
<1>2. CASE i < s.resume
  BY <1>1, <1>2, Looks DEF Found
<1>3. CASE ~(i < s.resume)
  BY <1>1, <1>3, Looks DEF Found
<1> QED
  BY <1>2, <1>3

(* The scan never stands still, and finds no group without a WHERE and a   *)
(* first brace.                                                            *)
LEMMA ReadingFound ==
    ASSUME NEW text \in Seq(Characters)
    PROVE  \A n \in 0..Len(text) :
             /\ Reading(text, n) \in Found
             /\ Reading(text, n).resume > n
             /\ Reading(text, n).first <= n
             /\ Reading(text, n).where = 0 \/ Reading(text, n).first = 0 => Reading(text, n).group = 0
<1> DEFINE Sound(r, n) == /\ r \in Found /\ r.resume > n /\ r.first <= n
                          /\ r.where = 0 \/ r.first = 0 => r.group = 0
           S == {n \in Nat : Sound(Reading(text, n), n)}
<1>0. Len(text) \in Nat
  OBVIOUS
<1>1. 0 \in S
  BY ReadOn DEF Unread, Found
<1>2. ASSUME NEW k \in Nat, k < Len(text), k \in S PROVE k + 1 \in S
  <2> DEFINE s == Reading(text, k)
             r == Reading(text, k + 1)
  <2>1. k + 1 \in 1..Len(text) /\ s \in Found /\ s.resume >= k + 1 /\ Sound(s, k)
    BY <1>0, <1>2 DEF Found
  <2>2. r = Look(text, s, k + 1)
    BY ReadOn
  <2>3. /\ r \in Found /\ r.resume > k + 1
        /\ s.first # 0 => r.first = s.first
        /\ s.where # 0 => r.where = s.where
        /\ s.first = 0 => r.first \in {0, k + 1}
        /\ s.where = 0 => r.where \in {0, k + 1}
        /\ s.where = 0 /\ s.group = 0 => r.group = 0
        /\ r.first = 0 /\ s.group = 0 => r.group = 0
    BY <2>1, <2>2, LookOn
  <2> HIDE DEF s, r
  <2>4. Sound(r, k + 1)
    BY <2>1, <2>3 DEF Found
  <2> QED
    BY <2>4 DEF r
<1>3. \A k \in 0..Len(text) : k \in S
  <2> HIDE DEF S
  <2> QED
    BY <1>0, <1>1, <1>2, UpTo
<1> QED
  BY <1>3

(* What was found stays found, and what is found later stands further on.  *)
Onward(s, r, n) ==
    /\ r.resume >= s.resume
    /\ s.first # 0 => r.first = s.first
    /\ s.where # 0 => r.where = s.where
    /\ s.group # 0 => r.group = s.group
    /\ s.first = 0 => r.first = 0 \/ r.first > n
    /\ s.where = 0 => r.where = 0 \/ r.where > n
    /\ s.group = 0 => r.group = 0 \/ r.group > n

(* Nor does it lose anything.                                              *)
LEMMA ReadingGrows ==
    ASSUME NEW text \in Seq(Characters), NEW n \in Nat, NEW m \in Nat, n <= m, m <= Len(text)
    PROVE  Onward(Reading(text, n), Reading(text, m), n)
<1> DEFINE S == {k \in Nat : Onward(Reading(text, n), Reading(text, n + k), n)}
<1>0. Len(text) \in Nat /\ m - n \in Nat /\ n + (m - n) = m /\ n + 0 = n
  OBVIOUS
<1>1. 0 \in S
  <2>1. Reading(text, n) \in Found
    BY <1>0, ReadingFound
  <2> QED
    BY <1>0, <2>1 DEF Onward, Found
<1>2. ASSUME NEW k \in Nat, k < m - n, k \in S PROVE k + 1 \in S
  <2>1. PICK l \in Nat : l = n + k
    OBVIOUS
  <2>2. /\ l + 1 \in 1..Len(text) /\ n + (k + 1) = l + 1 /\ l >= n
        /\ l \in 0..Len(text) /\ n \in 0..Len(text)
    BY <1>0, <1>2, <2>1
  <2>3. /\ Reading(text, l) \in Found /\ Reading(text, n) \in Found
        /\ Reading(text, l).resume >= l + 1
    <3>1. /\ Reading(text, l) \in Found /\ Reading(text, n) \in Found
          /\ Reading(text, l).resume > l
      BY <2>2, ReadingFound
    <3> QED
      BY <3>1 DEF Found
  <2>4. Reading(text, l + 1) = Look(text, Reading(text, l), l + 1)
    BY ReadOn
  <2>5. Onward(Reading(text, n), Reading(text, l), n)
    BY <1>2, <2>1
  <2> DEFINE q == Reading(text, n)
             s == Reading(text, l)
             r == Reading(text, l + 1)
  <2>6. /\ r \in Found /\ r.resume >= s.resume
        /\ s.first # 0 => r.first = s.first
        /\ s.where # 0 => r.where = s.where
        /\ s.group # 0 => r.group = s.group
        /\ s.first = 0 => r.first \in {0, l + 1}
        /\ s.where = 0 => r.where \in {0, l + 1}
        /\ s.group = 0 => r.group \in {0, l + 1}
    BY <2>2, <2>3, <2>4, LookOn
  <2>7. Onward(q, r, n)
    <3>1. q \in Found /\ s \in Found /\ Onward(q, s, n)
      BY <2>3, <2>5
    <3> HIDE DEF q, r, s
    <3> QED
      BY <2>2, <2>6, <3>1 DEF Onward, Found
  <2>8. Onward(Reading(text, n), Reading(text, n + (k + 1)), n)
    BY <2>2, <2>7
  <2> QED
    BY <2>8
<1>3. \A k \in 0..(m - n) : k \in S
  <2> HIDE DEF S
  <2> QED
    BY <1>0, <1>1, <1>2, UpTo
<1>4. m - n \in S
  BY <1>0, <1>3
<1> QED
  BY <1>0, <1>4

-----------------------------------------------------------------------------
(* Parts read out by themselves *)

(* What was found in s, then what is found in a part after p characters.   *)
Shift(p, x) == IF x = 0 THEN 0 ELSE p + x
Joined(s, p, r) ==
    [resume |-> p + r.resume,
     first |-> IF s.first # 0 THEN s.first ELSE Shift(p, r.first),
     where |-> IF s.where # 0 THEN s.where ELSE Shift(p, r.where),
     group |-> IF s.group # 0 THEN s.group
               ELSE IF s.where # 0 THEN Shift(p, r.first) ELSE Shift(p, r.group)]

(* A part that is read out ends with a character read by itself,           *)
LEMMA LastIsPlain ==
    ASSUME NEW part \in Seq(Characters), part # <<>>, ReadsOut(part)
    PROVE  /\ Len(part) \in Nat \ {0}
           /\ Plain(part[Len(part)])
           /\ Reading(part, Len(part) - 1).resume = Len(part)
<1>1. Len(part) \in Nat \ {0}
  OBVIOUS
<1>2. Plain(part[Len(part)]) /\ Reading(part, Len(part) - 1).resume = Len(part)
  BY Zenon DEF ReadsOut, Plain, Hash, Bracket
<1> QED
  BY <1>1, <1>2

(* so each of its tokens ends before that, or is that character;           *)
LEMMA WholeTokens ==
    ASSUME NEW part \in Seq(Characters), part # <<>>, ReadsOut(part),
           NEW i \in 1..Len(part), ~(i < Reading(part, i - 1).resume)
    PROVE  After(part, i) <= Len(part) \/ (i = Len(part) /\ Plain(part[i]))
<1>1. Len(part) \in Nat /\ Plain(part[Len(part)]) /\ Reading(part, Len(part) - 1).resume = Len(part)
  BY LastIsPlain
<1>2. CASE i = Len(part)
  BY <1>1, <1>2
<1>3. CASE i # Len(part)
  <2>1. i \in Nat /\ i <= Len(part) - 1 /\ Len(part) - 1 \in Nat /\ i - 1 \in Nat /\ (i - 1) + 1 = i
    BY <1>1, <1>3
  <2>2. Reading(part, i) = Look(part, Reading(part, i - 1), i)
    BY <2>1, ReadOn
  <2>3. Reading(part, i).resume = After(part, i)
    BY <2>2, Looks
  <2>4. Reading(part, Len(part) - 1).resume >= Reading(part, i).resume
    BY <1>1, <2>1, ReadingGrows DEF Onward
  <2> QED
    BY <1>1, <2>3, <2>4, AfterIsLater
<1> QED
  BY <1>2, <1>3

(* and a WHERE of the part is a WHERE of the text.                         *)
LEMMA KeywordsMove ==
    ASSUME NEW part, NEW text, NEW p, Stands(part, text, p), NEW i \in 1..Len(part),
           After(part, i) <= Len(part) \/ Plain(part[i])
    PROVE  Keyword(text, p + i) <=> Keyword(part, i)
<1>1. /\ Len(part) \in Nat /\ p \in Nat /\ i \in Nat /\ i <= Len(part)
      /\ part \in Seq(Characters) /\ text[p + i] = part[i]
  BY DEF Stands
<1>2. PICK a : a = After(part, i) - 1
  OBVIOUS
<1>3. After(part, i) <= Len(part) + 1
  BY <1>1, Tokens, AfterIsLater
<1>4. a \in Nat /\ a <= Len(part)
  BY <1>1, <1>2, <1>3, AfterIsLater
<1>5. After(text, p + i) - 1 = p + a
  <2>1. After(text, p + i) = p + After(part, i)
    BY TokensMove
  <2> QED
    BY <1>1, <1>2, <2>1, AfterIsLater
<1>6. Copied(part, text, p, i, a)
  BY <1>4, SubSeqMoves
<1> QED
  BY <1>1, <1>2, <1>5, <1>6 DEF Keyword, Copied

(* The scan of a text reads a part as the scan of the part alone does.     *)
LEMMA PartsMove ==
    ASSUME NEW part, NEW text, NEW p, Stands(part, text, p), part # <<>>, ReadsOut(part),
           Reading(text, p).resume = p + 1
    PROVE  \A k \in 0..Len(part) :
             Reading(text, p + k) = Joined(Reading(text, p), p, Reading(part, k))
<1> DEFINE s == Reading(text, p)
           S == {k \in Nat : Reading(text, p + k) = Joined(s, p, Reading(part, k))}
<1>0. /\ Len(part) \in Nat /\ Len(text) \in Nat /\ p \in Nat /\ p + Len(part) <= Len(text)
      /\ part \in Seq(Characters) /\ text \in Seq(Characters)
  BY DEF Stands
<1>1. s \in Found
  BY <1>0, ReadingFound
<1>2. 0 \in S
  <2>1. Reading(text, p + 0) = s
    BY <1>0
  <2>2. Reading(part, 0) = Unread
    BY ReadOn
  <2>3. Joined(s, p, Unread) = s
    <3> HIDE DEF s
    <3>1. s.resume = p + 1
      BY DEF s
    <3> QED
      BY <1>0, <1>1, <3>1 DEF Joined, Unread, Shift, Found
  <2> QED
    BY <2>1, <2>2, <2>3
<1>3. ASSUME NEW k \in Nat, k < Len(part), k \in S PROVE k + 1 \in S
  <2>1. PICK i \in Nat : i = k + 1
    OBVIOUS
  <2>2. /\ i \in 1..Len(part) /\ i - 1 = k /\ k \in 0..Len(part) /\ p + k \in Nat
        /\ (p + k) + 1 = p + i /\ p + (k + 1) = p + i
        /\ text[p + i] = part[i]
    BY <1>0, <1>3, <2>1 DEF Stands
  <2> DEFINE r == Reading(part, k)
             q == Reading(text, p + k)
  <2>3. q = Joined(s, p, r)
    BY <1>3
  <2>4. r \in Found
    BY <1>0, <2>2, ReadingFound
  <2>5. Reading(part, i) = Look(part, r, i) /\ Reading(text, p + i) = Look(text, q, p + i)
    <3>1. Reading(part, k + 1) = Look(part, r, k + 1)
      BY ReadOn
    <3>2. Reading(text, (p + k) + 1) = Look(text, q, (p + k) + 1)
      BY <2>2, ReadOn
    <3> QED
      BY <2>1, <2>2, <3>1, <3>2
  <2>6. q.resume = p + r.resume
    BY <2>3 DEF Joined
  <2>7. CASE i < r.resume
    <3>1. Reading(part, i) = r
      BY <2>5, <2>7, Looks
    <3>2. p + i < q.resume
      BY <1>0, <2>1, <2>4, <2>6, <2>7 DEF Found
    <3>3. Reading(text, p + i) = q
      BY <2>5, <3>2, Looks
    <3> QED
      BY <2>1, <2>2, <2>3, <3>1, <3>3
  <2>8. CASE ~(i < r.resume)
    <3>1. After(part, i) <= Len(part) \/ Plain(part[i])
      BY <1>0, <2>2, <2>8, WholeTokens
    <3>2. After(text, p + i) = p + After(part, i)
      BY <2>2, <3>1, TokensMove
    <3>3. Keyword(text, p + i) <=> Keyword(part, i)
      BY <2>2, <3>1, KeywordsMove
    <3>4. ~(p + i < q.resume)
      BY <1>0, <2>1, <2>4, <2>6, <2>8 DEF Found
    <3>5. Reading(part, i) =
            [resume |-> After(part, i),
             first |-> IF Brace(part[i]) /\ r.first = 0 THEN i ELSE r.first,
             where |-> IF Keyword(part, i) /\ r.where = 0 THEN i ELSE r.where,
             group |-> IF Brace(part[i]) /\ r.where # 0 /\ r.group = 0 THEN i ELSE r.group]
      BY <2>5, <2>8, Looks
    <3>6. Reading(text, p + i) =
            [resume |-> p + After(part, i),
             first |-> IF Brace(part[i]) /\ q.first = 0 THEN p + i ELSE q.first,
             where |-> IF Keyword(part, i) /\ q.where = 0 THEN p + i ELSE q.where,
             group |-> IF Brace(part[i]) /\ q.where # 0 /\ q.group = 0 THEN p + i ELSE q.group]
      BY <2>2, <2>5, <3>2, <3>3, <3>4, Looks
    <3>7. /\ q.first = (IF s.first # 0 THEN s.first ELSE Shift(p, r.first))
          /\ q.where = (IF s.where # 0 THEN s.where ELSE Shift(p, r.where))
          /\ q.group = (IF s.group # 0 THEN s.group
                        ELSE IF s.where # 0 THEN Shift(p, r.first) ELSE Shift(p, r.group))
      BY <2>3 DEF Joined
    <3>8. Reading(text, p + i) = Joined(s, p, Reading(part, i))
      <4> DEFINE u == Reading(part, i)
                 v == Reading(text, p + i)
      <4>1. /\ s.first \in Nat /\ s.where \in Nat /\ s.group \in Nat
            /\ r.first \in Nat /\ r.where \in Nat /\ r.group \in Nat
            /\ i \in Nat /\ i # 0 /\ p \in Nat
        BY <1>0, <1>1, <2>1, <2>4 DEF Found
      <4>2. /\ v = [resume |-> v.resume, first |-> v.first, where |-> v.where, group |-> v.group]
            /\ v.resume = p + u.resume
        BY <3>5, <3>6
      <4>3. /\ u.first = (IF Brace(part[i]) /\ r.first = 0 THEN i ELSE r.first)
            /\ u.where = (IF Keyword(part, i) /\ r.where = 0 THEN i ELSE r.where)
            /\ u.group = (IF Brace(part[i]) /\ r.where # 0 /\ r.group = 0 THEN i ELSE r.group)
            /\ v.first = (IF Brace(part[i]) /\ q.first = 0 THEN p + i ELSE q.first)
            /\ v.where = (IF Keyword(part, i) /\ q.where = 0 THEN p + i ELSE q.where)
            /\ v.group = (IF Brace(part[i]) /\ q.where # 0 /\ q.group = 0 THEN p + i ELSE q.group)
        BY <3>5, <3>6
      <4> HIDE DEF s, q, r, u, v
      <4>4. v.first = (IF s.first # 0 THEN s.first ELSE Shift(p, u.first))
        BY <4>1, <4>3, <3>7 DEF Shift
      <4>5. v.where = (IF s.where # 0 THEN s.where ELSE Shift(p, u.where))
        BY <4>1, <4>3, <3>7 DEF Shift
      <4>6. v.group = (IF s.group # 0 THEN s.group
                       ELSE IF s.where # 0 THEN Shift(p, u.first) ELSE Shift(p, u.group))
        BY <4>1, <4>3, <3>7 DEF Shift
      <4>7. v = Joined(s, p, u)
        BY <4>2, <4>4, <4>5, <4>6 DEF Joined
      <4> QED
        BY <4>7 DEF u, v
    <3> QED
      BY <2>1, <2>2, <3>8
  <2> QED
    BY <2>7, <2>8
<1>4. \A k \in 0..Len(part) : k \in S
  <2> HIDE DEF S
  <2> QED
    BY <1>0, <1>2, <1>3, UpTo
<1> QED
  BY <1>4

(* It is done with the part where the part ends.                           *)
LEMMA PartRead ==
    ASSUME NEW part, NEW text, NEW p, Stands(part, text, p), ReadsOut(part),
           Reading(text, p).resume = p + 1
    PROVE  /\ Reading(text, p + Len(part)) = Joined(Reading(text, p), p, Scan(part))
           /\ Reading(text, p + Len(part)).resume = p + Len(part) + 1
<1>0. /\ Len(part) \in Nat /\ Len(text) \in Nat /\ p \in Nat /\ p + Len(part) <= Len(text)
      /\ part \in Seq(Characters) /\ text \in Seq(Characters)
  BY DEF Stands
<1>1. CASE part = <<>>
  <2>1. Len(part) = 0 /\ p + Len(part) = p
    BY <1>0, <1>1
  <2>2. Scan(part) = Unread
    BY <2>1, ReadOn DEF Scan
  <2>3. Reading(text, p) \in Found
    BY <1>0, ReadingFound
  <2> DEFINE s == Reading(text, p)
  <2>4. s = Joined(s, p, Unread)
    <3>1. s \in Found /\ s.resume = p + 1
      BY <2>3
    <3> HIDE DEF s
    <3> QED
      BY <1>0, <3>1 DEF Joined, Unread, Shift, Found
  <2> QED
    BY <1>0, <2>1, <2>2, <2>4
<1>2. CASE part # <<>>
  <2>1. Reading(text, p + Len(part)) = Joined(Reading(text, p), p, Scan(part))
    <3>1. Len(part) \in 0..Len(part)
      BY <1>0
    <3> QED
      BY <1>2, <3>1, PartsMove DEF Scan
  <2>2. PICK n \in Nat : n = Len(part) - 1
    BY <1>0, <1>2
  <2>3. n + 1 = Len(part) /\ Len(part) \in 1..Len(part)
    BY <1>0, <2>2
  <2>4. Plain(part[Len(part)]) /\ Reading(part, n).resume = Len(part)
    BY <1>0, <1>2, <2>2, LastIsPlain
  <2>5. Reading(part, n + 1) = Look(part, Reading(part, n), n + 1)
    BY ReadOn
  <2>6. ~(n + 1 < Reading(part, n).resume)
    BY <1>0, <2>3, <2>4
  <2>7. Scan(part).resume = After(part, Len(part))
    BY <2>3, <2>5, <2>6, Looks DEF Scan
  <2>8. Scan(part).resume = Len(part) + 1
    BY <1>0, <2>3, <2>4, <2>7, Tokens
  <2> QED
    BY <1>0, <2>1, <2>8 DEF Joined
<1> QED
  BY <1>1, <1>2

(* The keyword as the text has it.                                         *)
Where == <<"where", "sp">>

(* The keyword is read out, and is a WHERE.                                *)
LEMMA WhereRead ==
    /\ Where \in Seq(Characters) /\ Len(Where) = 2 /\ ReadsOut(Where)
    /\ Scan(Where).where = 1 /\ Scan(Where).first = 0
<1>1. /\ Where \in Seq(Characters) /\ Len(Where) = 2 /\ Where # <<>>
      /\ Where[1] = "where" /\ Where[2] = "sp"
  <2>1. "where" \in Characters /\ "sp" \in Characters
    BY DEF Characters
  <2>2. \A S : \A a, b \in S : <<a, b>> \in Seq(S) /\ <<a, b>> # <<>>
    OBVIOUS
  <2>3. \A a, b : LET s == <<a, b>> IN Len(s) = 2 /\ s[1] = a /\ s[2] = b
    OBVIOUS
  <2> QED
    BY Zenon, <2>1, <2>2, <2>3 DEF Where
<1>2. Opens(Where[1]) /\ ~Brace(Where[1])
  BY Zenon, <1>1 DEF Opens, Letters, Brace
<1>3. Plain(Where[2]) /\ ~Brace(Where[2]) /\ Halts(Where[2])
  <2>1. "sp" \notin Letters
    BY Zenon, TemplatesAssumption DEF Letters
  <2> QED
    BY Zenon, <1>1, <2>1 DEF Plain, Hash, Bracket, Quotes, Opens, Brace, Halts, Continues
<1>4. After(Where, 1) = 2
  <2>1. FirstIn(Where, 1 + 1, After(Where, 1), WordEnds(Where))
    BY <1>1, <1>2, Tokens
  <2>2. 2 \in WordEnds(Where)
    BY <1>1, <1>3 DEF WordEnds
  <2> QED
    BY <1>1, <2>1, <2>2 DEF FirstIn
<1>5. After(Where, 2) = 3
  BY <1>1, <1>3, Tokens
<1>6. Keyword(Where, 1)
  <2> DEFINE word == SubSeq(Where, 1, 1)
  <2>2. word \in Seq(Characters) /\ Len(word) = 1 /\ word[1] = "where"
    <3>1. \A i \in 1..1 : Where[i] \in Characters
      BY <1>1
    <3>2. /\ word \in Seq(Characters) /\ Len(word) = (IF 1 <= 1 THEN 1 - 1 + 1 ELSE 0)
          /\ \A i \in 1..(1 - 1 + 1) : word[i] = Where[1 + i - 1]
      BY <3>1, SubSeqProperties
    <3>3. Len(word) = 1 /\ word[1] = Where[1 + 1 - 1]
      BY <3>2
    <3> QED
      BY <1>1, <3>2, <3>3
  <2>1. SubSeq(Where, 1, 1) = <<"where">>
    <3> HIDE DEF word
    <3>1. word = <<"where">>
      BY <2>2
    <3> QED
      BY <3>1 DEF word
  <2> QED
    BY <1>1, <1>2, <1>4, <2>1 DEF Keyword
<1>7. Reading(Where, 0) = Unread /\ Reading(Where, 1) = Look(Where, Unread, 1)
      /\ Reading(Where, 2) = Look(Where, Reading(Where, 1), 2)
  <2>1. \A n \in Nat : Reading(Where, n + 1) = Look(Where, Reading(Where, n), n + 1)
    BY ReadOn
  <2>2. Reading(Where, 0 + 1) = Look(Where, Reading(Where, 0), 0 + 1)
    BY <2>1
  <2>3. Reading(Where, 1 + 1) = Look(Where, Reading(Where, 1), 1 + 1)
    BY <2>1
  <2> QED
    BY <2>2, <2>3, ReadOn
<1>8. Reading(Where, 1).resume = 2 /\ Reading(Where, 1).where = 1 /\ Reading(Where, 1).first = 0
  BY <1>2, <1>4, <1>6, <1>7, Looks DEF Unread
<1>9. Reading(Where, 2).where = 1 /\ Reading(Where, 2).first = 0
  BY <1>3, <1>7, <1>8, Looks
<1>10. ReadsOut(Where)
  <2>1. Len(Where) - 1 = 1
    BY <1>1
  <2>2. ~Opens(Where[2]) /\ Where[2] \notin Quotes \cup {"#", "<"}
    BY Zenon, <1>3 DEF Plain, Hash, Bracket
  <2>3. Reading(Where, Len(Where) - 1).resume = Len(Where)
    BY <1>1, <1>8, <2>1
  <2> QED
    BY Zenon, <1>1, <2>2, <2>3 DEF ReadsOut
<1> QED
  BY <1>1, <1>9, <1>10 DEF Scan

(* Where the parts of a concatenation stand.                               *)
LEMMA StandsFirst ==
    ASSUME NEW a \in Seq(Characters), NEW b \in Seq(Characters), NEW part, NEW p, Stands(part, a, p)
    PROVE  Stands(part, a \o b, p)
  BY ConcatProperties DEF Stands

LEMMA StandsLast ==
    ASSUME NEW a \in Seq(Characters), NEW b \in Seq(Characters)
    PROVE  Stands(b, a \o b, Len(a))
  BY ConcatProperties DEF Stands

LEMMA StandsAlone == ASSUME NEW a \in Seq(Characters) PROVE Stands(a, a, 0)
  BY DEF Stands

-----------------------------------------------------------------------------
(* Texts *)

(* How a text is put together.                                             *)
Parts(d) ==
    /\ d.prologue \in Seq(Characters) /\ d.head \in Seq(Characters) /\ d.gap \in Seq(Characters)
    /\ d.pattern \in Seq(Characters)

(* Where the parts of a definition stand in its text.                      *)
LEMMA Layout ==
    ASSUME NEW d, Parts(d)
    PROVE  /\ Text(d) \in Seq(Characters)
           /\ Len(Lead(d)) = Len(d.prologue) + Len(d.head) + Len(d.gap)
           /\ Stands(d.prologue, Text(d), 0)
           /\ Stands(d.head, Text(d), Len(d.prologue))
           /\ Stands(d.gap, Text(d), Len(d.prologue) + Len(d.head))
           /\ d.keyword => Stands(Where, Text(d), Len(Lead(d)))
           /\ Stands(d.pattern, Text(d), GroupOf(d) - 1)
           /\ GroupOf(d) = Len(Lead(d)) + (IF d.keyword THEN 2 ELSE 0) + 1
<1> DEFINE key == IF d.keyword THEN Where ELSE <<>>
           front == d.prologue \o d.head
           lead == front \o d.gap
           long == lead \o key
           text == long \o d.pattern
<1>1. key \in Seq(Characters) /\ Len(key) = (IF d.keyword THEN 2 ELSE 0)
  <2>1. <<>> \in Seq(Characters) /\ Len(<<>>) = 0
    OBVIOUS
  <2>2. CASE d.keyword
    BY <2>2, WhereRead
  <2>3. CASE ~d.keyword
    BY <2>1, <2>3
  <2> QED
    BY <2>2, <2>3
<1>2. front \in Seq(Characters) /\ Len(front) = Len(d.prologue) + Len(d.head)
  BY ConcatProperties DEF Parts
<1>3. lead \in Seq(Characters) /\ Len(lead) = Len(front) + Len(d.gap)
  BY <1>2, ConcatProperties DEF Parts
<1>4. long \in Seq(Characters) /\ Len(long) = Len(lead) + Len(key)
  BY <1>1, <1>3, ConcatProperties
<1>5. text \in Seq(Characters) /\ Len(text) = Len(long) + Len(d.pattern)
  BY <1>4, ConcatProperties DEF Parts
<1>6. lead = Lead(d) /\ text = Text(d)
  BY DEF Lead, Text, Where
<1>7. \A part, p : Stands(part, lead, p) => Stands(part, text, p)
  <2> SUFFICES ASSUME NEW part, NEW p, Stands(part, lead, p) PROVE Stands(part, text, p)
    OBVIOUS
  <2> HIDE DEF lead, key
  <2>1. Stands(part, lead \o key, p)
    BY <1>1, <1>3, StandsFirst
  <2> QED
    BY <1>4, <2>1, StandsFirst DEF Parts
<1>8. \A part, p : Stands(part, front, p) => Stands(part, text, p)
  <2> SUFFICES ASSUME NEW part, NEW p, Stands(part, front, p) PROVE Stands(part, text, p)
    OBVIOUS
  <2> HIDE DEF front, text
  <2>1. Stands(part, front \o d.gap, p)
    BY <1>2, StandsFirst DEF Parts
  <2> QED
    BY <1>7, <2>1
<1>9. Stands(d.prologue, front, 0)
  BY StandsAlone, StandsFirst DEF Parts
<1>10. Stands(d.head, front, Len(d.prologue))
  BY StandsLast DEF Parts
<1>11. Stands(d.gap, lead, Len(front))
  <2> HIDE DEF front
  <2> QED
    BY <1>2, StandsLast DEF Parts
<1>12. Stands(key, text, Len(lead))
  <2> HIDE DEF lead, key
  <2>1. Stands(key, lead \o key, Len(lead))
    BY <1>1, <1>3, StandsLast
  <2> QED
    BY <1>4, <2>1, StandsFirst DEF Parts
<1>13. Stands(d.pattern, text, Len(long))
  <2> HIDE DEF long
  <2> QED
    BY <1>4, StandsLast DEF Parts
<1>14. Len(d.pattern) \in Nat /\ Len(lead) \in Nat /\ Len(d.prologue) \in Nat /\ Len(d.head) \in Nat
       /\ Len(d.gap) \in Nat
  <2>1. \A s \in Seq(Characters) : Len(s) \in Nat
    OBVIOUS
  <2> HIDE DEF lead
  <2> QED
    BY <1>3, <2>1 DEF Parts
<1>15. GroupOf(d) = Len(lead) + (IF d.keyword THEN 2 ELSE 0) + 1
  <2>1. GroupOf(d) = Len(text) - Len(d.pattern) + 1
    BY <1>6 DEF GroupOf
  <2> HIDE DEF text, lead, long, key
  <2> QED
    BY <1>1, <1>4, <1>5, <1>14, <2>1
<1>16. GroupOf(d) - 1 = Len(long)
  <2> HIDE DEF text, lead, long, key
  <2> QED
    BY <1>1, <1>4, <1>14, <1>15
<1> HIDE DEF text, lead, long, front
<1>17. d.keyword => key = Where
  OBVIOUS
<1> HIDE DEF key
<1> QED
  BY <1>2, <1>3, <1>5, <1>6, <1>7, <1>8, <1>9, <1>10, <1>11, <1>12, <1>13, <1>14, <1>15, <1>16, <1>17

(* What a part adds to a reading that reaches it.                          *)
Adds(part, text, p, q) ==
    \E s, t, r \in Found :
       /\ s = Reading(text, p) /\ t = Reading(text, q) /\ r = Scan(part)
       /\ p \in Nat /\ q \in Nat /\ p <= q /\ q <= Len(text)
       /\ t = Joined(s, p, r) /\ t.resume = q + 1
       /\ s.first <= p /\ t.first <= q
       /\ r.where = 0 \/ r.first = 0 => r.group = 0

LEMMA PartAdds ==
    ASSUME NEW part, NEW text, NEW p, NEW q, Stands(part, text, p), q = p + Len(part),
           ReadsOut(part), Reading(text, p).resume = p + 1
    PROVE  Adds(part, text, p, q)
<1>1. /\ Len(part) \in Nat /\ Len(text) \in Nat /\ p \in Nat /\ p + Len(part) <= Len(text)
      /\ part \in Seq(Characters) /\ text \in Seq(Characters)
  BY DEF Stands
<1>2. p \in 0..Len(text) /\ q \in 0..Len(text) /\ p <= q /\ Len(part) \in 0..Len(part)
  BY <1>1
<1>3. PICK s \in Found : s = Reading(text, p) /\ s.first <= p
  BY <1>1, <1>2, ReadingFound
<1>4. PICK t \in Found : t = Reading(text, q) /\ t.first <= q
  BY <1>1, <1>2, ReadingFound
<1>5. PICK r \in Found : r = Scan(part) /\ (r.where = 0 \/ r.first = 0 => r.group = 0)
  BY <1>1, <1>2, ReadingFound DEF Scan
<1>6. /\ Reading(text, q) = Joined(Reading(text, p), p, Scan(part))
      /\ Reading(text, q).resume = q + 1
  BY PartRead
<1> QED
  BY <1>1, <1>2, <1>3, <1>4, <1>5, <1>6 DEF Adds

(* The fields of a reading are numbers.                                    *)
LEMMA FoundFields ==
    \A s \in Found : s.resume \in Nat /\ s.first \in Nat /\ s.where \in Nat /\ s.group \in Nat
  BY DEF Found

(* What is found before the pattern or its keyword: a brace, and no group. *)
Leads(s, l) ==
    /\ s \in Found /\ s.resume = l + 1
    /\ s.first # 0 /\ s.first <= l /\ s.group = 0
    /\ s.where = 0 \/ s.first < s.where

LEMMA LeadRead ==
    ASSUME NEW text, NEW pro, NEW head, NEW gap, NEW n, NEW m, NEW l,
           Stands(pro, text, 0), n = 0 + Len(pro), ReadsOut(pro), Scan(pro).where = 0,
           Stands(head, text, n), m = n + Len(head), ReadsOut(head),
           Scan(head).first # 0, Scan(head).group = 0,
           Scan(head).where = 0 \/ Scan(head).first < Scan(head).where,
           Stands(gap, text, m), l = m + Len(gap), ReadsOut(gap), Scan(gap).first = 0
    PROVE  Leads(Reading(text, l), l)
<1>1. Adds(pro, text, 0, n)
  <2>1. Unread.resume = 0 + 1
    BY DEF Unread
  <2>2. Reading(text, 0).resume = 0 + 1
    BY Zenon, <2>1, ReadOn
  <2> QED
    BY Zenon, <2>2, PartAdds
<1>2. PICK s0, s1, r1 \in Found :
        /\ s0 = Reading(text, 0) /\ s1 = Reading(text, n) /\ r1 = Scan(pro)
        /\ n \in Nat /\ s1 = Joined(s0, 0, r1) /\ s1.resume = n + 1 /\ s1.first <= n
        /\ r1.where = 0 \/ r1.first = 0 => r1.group = 0
  BY Zenon, <1>1 DEF Adds
<1>3. s1.where = 0 /\ s1.group = 0
  <2>1. Unread.where = 0 /\ Unread.group = 0
    BY DEF Unread
  <2>2. s0.where = 0 /\ s0.group = 0
    BY Zenon, <1>2, <2>1, ReadOn
  <2>3. r1.where = 0 /\ r1.group = 0
    BY Zenon, <1>2
  <2> QED
    BY <1>2, <2>2, <2>3 DEF Joined, Shift
<1>4. Adds(head, text, n, m)
  BY Zenon, <1>2, PartAdds
<1>5. PICK s2, r2 \in Found :
        /\ s2 = Reading(text, m) /\ r2 = Scan(head)
        /\ m \in Nat /\ n <= m /\ s2 = Joined(s1, n, r2) /\ s2.resume = m + 1 /\ s2.first <= m
  BY Zenon, <1>2, <1>4 DEF Adds
<1>6. r2.first # 0 /\ r2.group = 0 /\ (r2.where = 0 \/ r2.first < r2.where)
  BY Zenon, <1>5
<1>7. /\ s2.first = (IF s1.first # 0 THEN s1.first ELSE n + r2.first)
      /\ s2.where = (IF r2.where = 0 THEN 0 ELSE n + r2.where) /\ s2.group = 0
  BY <1>3, <1>5, <1>6 DEF Joined, Shift
<1>8. s2.first # 0 /\ (s2.where = 0 \/ s2.first < s2.where)
  BY <1>2, <1>6, <1>7, FoundFields
<1>9. Adds(gap, text, m, l)
  BY Zenon, <1>5, PartAdds
<1>10. PICK s3, r3 \in Found :
        /\ s3 = Reading(text, l) /\ r3 = Scan(gap)
        /\ l \in Nat /\ m <= l /\ s3 = Joined(s2, m, r3) /\ s3.resume = l + 1 /\ s3.first <= l
        /\ r3.where = 0 \/ r3.first = 0 => r3.group = 0
  BY Zenon, <1>5, <1>9 DEF Adds
<1>11. r3.first = 0 /\ r3.group = 0
  BY Zenon, <1>10
<1>12. /\ s3.first = s2.first /\ s3.group = 0
       /\ s3.where = (IF s2.where # 0 THEN s2.where ELSE IF r3.where = 0 THEN 0 ELSE m + r3.where)
  BY <1>7, <1>8, <1>10, <1>11 DEF Joined, Shift
<1>13. s3.where = 0 \/ s3.first < s3.where
  BY <1>5, <1>8, <1>10, <1>12, FoundFields
<1>14. s3.first # 0 /\ s3.first <= l /\ s3.resume = l + 1
  BY Zenon, <1>8, <1>10, <1>12
<1>15. Leads(s3, l)
  BY Zenon, <1>12, <1>13, <1>14 DEF Leads
<1> QED
  BY Zenon, <1>10, <1>15

(* After the keyword the brace of the pattern opens the group.             *)
LEMMA GroupFound ==
    ASSUME NEW text \in Seq(Characters), NEW l \in Nat, Leads(Reading(text, l), l),
           Stands(Where, text, l), l + 3 <= Len(text), Brace(text[l + 3])
    PROVE  /\ Scan(text).first # 0 /\ Scan(text).where # 0
           /\ Scan(text).first < Scan(text).where
           /\ Scan(text).group = l + 3
<1>1. PICK a, b \in Nat : a = l + 2 /\ b = l + 3 /\ b = a + 1
  OBVIOUS
<1>2. Adds(Where, text, l, a)
  <2>1. a = l + Len(Where) /\ ReadsOut(Where)
    BY <1>1, WhereRead
  <2>2. Reading(text, l).resume = l + 1
    BY Zenon DEF Leads
  <2> QED
    BY Zenon, <2>1, <2>2, PartAdds
<1>3. PICK s3, s4, r \in Found :
        /\ s3 = Reading(text, l) /\ s4 = Reading(text, a) /\ r = Scan(Where)
        /\ s4 = Joined(s3, l, r) /\ s4.resume = a + 1
        /\ r.where = 0 \/ r.first = 0 => r.group = 0
  BY Zenon, <1>2 DEF Adds
<1>4. r.where = 1 /\ r.first = 0 /\ r.group = 0
  BY Zenon, <1>3, WhereRead
<1>5. /\ s3.first # 0 /\ s3.first <= l /\ s3.group = 0
      /\ s3.where = 0 \/ s3.first < s3.where
  BY Zenon, <1>3 DEF Leads
<1>6. /\ s4.first = s3.first /\ s4.group = 0
      /\ s4.where = (IF s3.where # 0 THEN s3.where ELSE l + 1)
  BY <1>3, <1>4, <1>5 DEF Joined, Shift
<1>7. s4.first # 0 /\ s4.where # 0 /\ s4.first < s4.where
  BY <1>5, <1>6, FoundFields
<1>8. Reading(text, b) = Look(text, s4, b)
  BY <1>1, <1>3, ReadOn
<1>9. ~(b < s4.resume)
  BY <1>1, <1>3
<1>10. Brace(text[b])
  BY <1>1
<1>11. PICK s5 : s5 = Reading(text, b) /\ s5 = Look(text, s4, b)
  BY <1>8
<1>12. s5.first = s4.first /\ s5.where = s4.where /\ s5.group = b
  BY <1>6, <1>7, <1>9, <1>10, <1>11, Looks
<1>13. Onward(s5, Scan(text), b)
  <2>1. Len(text) \in Nat /\ b <= Len(text)
    BY <1>1
  <2>2. Onward(Reading(text, b), Reading(text, Len(text)), b)
    BY <2>1, ReadingGrows
  <2> QED
    BY Zenon, <1>11, <2>2 DEF Scan
<1>14. b # 0
  BY <1>1
<1> QED
  BY <1>1, <1>7, <1>12, <1>13, <1>14 DEF Onward

(* Where the braces of the head end: before the brace of the pattern.      *)
LEMMA BraceInHead ==
    ASSUME NEW head \in Seq(Characters)
    PROVE  FirstFrom(head, 1, LAMBDA j : head[j] = "{") \in 1..(Len(head) + 1)
<1>1. PICK n \in Nat : n = Len(head) /\ 1 <= n + 1
  OBVIOUS
<1>2. PICK braces : braces = {j \in 1..n : Brace(head[j])}
  OBVIOUS
<1>3. PICK at : at = FirstFrom(head, 1, LAMBDA j : head[j] = "{")
  OBVIOUS
<1>4. PICK j \in 1..(n + 1) : (j > n \/ j \in braces) /\ \A k \in 1..(j - 1) : k \notin braces
  BY <1>1, FirstPlace
<1>5. (j > n \/ Brace(head[j])) /\ \A k \in 1..(j - 1) : ~Brace(head[k])
  BY <1>1, <1>2, <1>4
<1>6. at = CHOOSE i \in 1..(n + 1) :
        (i > n \/ Brace(head[i])) /\ \A k \in 1..(i - 1) : ~Brace(head[k])
  BY Zenon, <1>1, <1>3 DEF FirstFrom, Brace
<1>7. at \in 1..(n + 1)
  BY <1>4, <1>5, <1>6
<1> QED
  BY Zenon, <1>1, <1>3, <1>7

(* What SeparateParts says of the parts of one definition.                 *)
LEMMA DefinitionParts ==
    ASSUME SeparateParts, NEW d \in Definitions, d.declared # {}
    PROVE  /\ Parts(d)
           /\ ReadsOut(d.prologue) /\ ReadsOut(d.head) /\ ReadsOut(d.gap)
           /\ Scan(d.prologue).where = 0
           /\ Scan(d.head).first # 0 /\ Scan(d.head).group = 0
           /\ Scan(d.head).where = 0 \/ Scan(d.head).first < Scan(d.head).where
           /\ Scan(d.gap).first = 0
           /\ d.pattern # <<>> /\ Brace(d.pattern[1])
<1>1. /\ d.prologue \in Prologues /\ d.head \in Heads \cup {ShortHand} /\ d.gap \in Gaps
      /\ d.pattern \in Patterns /\ Accepted(d)
  BY DEF Definitions
<1>2. d.head \in Heads
  BY Zenon, <1>1 DEF Accepted
<1>3. Parts(d)
  <2>1. Prologues \cup Heads \cup {ShortHand} \cup Gaps \cup Patterns \subseteq Seq(STRING)
    BY Zenon, TemplatesAssumption
  <2>2. \A s \in Seq(STRING) : s \in Seq(Characters)
    BY DEF Characters
  <2> QED
    BY <1>1, <2>1, <2>2 DEF Parts
<1> QED
  BY Zenon, <1>1, <1>2, <1>3 DEF SeparateParts, Brace

(* The group that the scan finds in a text is the group of its pattern.    *)
LEMMA ScanOfText ==
    ASSUME SeparateParts, NEW d \in Definitions, d.declared # {}
    PROVE  LET at == Scan(Text(d)).group IN
           IF d.keyword
           THEN at = GroupOf(d) /\ (Injectable(d) <=> ~SubSelect(Text(d), at))
           ELSE Injectable(d) => at >= GroupOf(d)
<1>1. PICK text, g, end : text = Text(d) /\ g = GroupOf(d) /\ end = Scan(text)
  OBVIOUS
<1>2. PICK u, v, w, x \in Nat : /\ u = Len(d.prologue) /\ v = Len(d.head) /\ w = Len(d.gap)
                               /\ x = Len(d.pattern) /\ x # 0
  <2>1. \A s \in Seq(Characters) : Len(s) \in Nat /\ (s # <<>> => Len(s) # 0)
    OBVIOUS
  <2>2. Parts(d) /\ d.pattern # <<>>
    BY DefinitionParts
  <2> QED
    BY <2>1, <2>2 DEF Parts
<1>3. PICK n, m, l \in Nat : /\ n = 0 + u /\ m = n + v /\ l = m + w
                            /\ n = u /\ m = u + v /\ l = u + v + w
  <2>1. 0 + u \in Nat /\ 0 + u + v \in Nat /\ 0 + u + v + w \in Nat /\ 0 + u = u
    OBVIOUS
  <2> QED
    BY <2>1
<1>4. m <= l
  BY <1>3
<1>5. /\ Parts(d)
      /\ text \in Seq(Characters) /\ Len(Lead(d)) = l
      /\ Stands(d.prologue, text, 0) /\ Stands(d.head, text, n) /\ Stands(d.gap, text, m)
      /\ d.keyword => Stands(Where, text, l)
      /\ Stands(d.pattern, text, g - 1)
      /\ g = l + (IF d.keyword THEN 2 ELSE 0) + 1
  <2>1. Parts(d)
    BY DefinitionParts
  <2> QED
    BY Zenon, <1>1, <1>2, <1>3, <2>1, Layout
<1>6. PICK q : q = (IF d.keyword THEN 2 ELSE 0)
  OBVIOUS
<1>7. (d.keyword => q = 2) /\ (~d.keyword => q = 0) /\ q \in Nat
  BY <1>6
<1>8. g = l + q + 1
  BY Zenon, <1>5, <1>6
<1>9. g \in Nat /\ g > 0 /\ g - 1 \in Nat /\ (g - 1) + 1 = g
  BY <1>7, <1>8
<1>10. PICK z \in Nat : z = Len(text)
  BY <1>5
<1>11. g <= z /\ Brace(text[g])
  <2>1. PICK p \in Nat : p = g - 1 /\ p + 1 = g
    BY <1>9
  <2>2. Stands(d.pattern, text, p)
    BY Zenon, <1>5, <2>1
  <2>3. p + x <= z /\ \A k \in 1..x : text[p + k] = d.pattern[k]
    BY Zenon, <1>2, <1>10, <2>2 DEF Stands
  <2>4. 1 \in 1..x
    BY <1>2
  <2>5. text[p + 1] = d.pattern[1]
    BY Zenon, <2>3, <2>4
  <2>6. Brace(text[g])
    BY Zenon, <2>1, <2>5, DefinitionParts
  <2> QED
    BY <1>2, <2>1, <2>3, <2>6
<1>12. Leads(Reading(text, l), l)
  BY Zenon, <1>2, <1>3, <1>5, DefinitionParts, LeadRead
<1>13. PICK key : key = u + FirstFrom(d.head, 1, LAMBDA j : d.head[j] = "{")
  OBVIOUS
<1>14. Injectable(d) <=> /\ end.where # 0 /\ end.group # 0
                         /\ end.first # 0 /\ end.first < end.where
                         /\ end.group # key
                         /\ ~SubSelect(text, end.group)
  BY Zenon, <1>1, <1>2, <1>13 DEF Injectable
<1>15. key \in Nat /\ key <= m + 1
  <2>1. d.head \in Seq(Characters)
    BY <1>5 DEF Parts
  <2>2. PICK at \in 1..(v + 1) : at = FirstFrom(d.head, 1, LAMBDA j : d.head[j] = "{")
    BY Zenon, <1>2, <2>1, BraceInHead
  <2>3. key = u + at
    BY Zenon, <1>13, <2>2
  <2> QED
    BY <1>3, <2>3
<1>16. CASE ~d.keyword
  <2>1. g = l + 1 /\ l <= z
    BY <1>7, <1>8, <1>11, <1>16
  <2>2. Onward(Reading(text, l), Reading(text, z), l)
    BY <1>5, <1>10, <2>1, ReadingGrows
  <2>3. Onward(Reading(text, l), end, l)
    BY Zenon, <1>1, <1>10, <2>2 DEF Scan
  <2>4. Reading(text, l).group = 0
    BY Zenon, <1>12 DEF Leads
  <2>5. end.group = 0 \/ end.group > l
    BY Zenon, <2>3, <2>4 DEF Onward
  <2>6. end \in Found
    <3>1. z \in 0..z
      BY <1>10
    <3> QED
      BY Zenon, <1>1, <1>5, <1>10, <3>1, ReadingFound DEF Scan
  <2>7. end.group \in Nat
    BY <2>6, FoundFields
  <2>8. end.group # 0 => end.group >= g
    BY <2>1, <2>5, <2>7
  <2> QED
    BY Zenon, <1>1, <1>14, <1>16, <2>8
<1>17. CASE d.keyword
  <2>1. g = l + 3 /\ l + 3 <= z /\ Brace(text[l + 3])
    BY <1>7, <1>8, <1>11, <1>17
  <2>2. /\ end.first # 0 /\ end.where # 0 /\ end.first < end.where /\ end.group = g
    <3>1. Stands(Where, text, l) /\ l + 3 <= Len(text)
      BY Zenon, <1>5, <1>10, <1>17, <2>1
    <3>2. /\ Scan(text).first # 0 /\ Scan(text).where # 0
          /\ Scan(text).first < Scan(text).where /\ Scan(text).group = l + 3
      BY Zenon, <1>5, <1>12, <2>1, <3>1, GroupFound
    <3> QED
      BY Zenon, <1>1, <2>1, <3>2
  <2>3. g # key /\ g # 0
    BY <1>3, <1>4, <1>15, <2>1
  <2> QED
    BY Zenon, <1>1, <1>14, <1>17, <2>2, <2>3
<1> QED
  BY <1>16, <1>17

(* In every text put together from parts that are read out by themselves,  *)
(* of any length and with whatever comments, strings, IRIs and names, the  *)
(* VALUES block of an accepted definition lands in the group of the WHERE  *)
(* clause, and nothing but a bare sub-select there has it refused.         *)
THEOREM ParametersBindInPlace ==
    ASSUME SeparateParts PROVE Spec => []BindsInPlace
<1> DEFINE Authored == definition = NoView \/ definition \in Definitions
<1>1. Init => Authored
  BY DEF Init
<1>2. Authored /\ [Next]_vars => Authored'
  BY DEF Next, vars, Author, DeleteView, Change, Fetch
<1>3. Authored => BindsInPlace
  BY ScanOfText DEF BindsInPlace
<1> QED
  BY <1>1, <1>2, <1>3, PTL DEF Spec
=============================================================================
