---------------------------- MODULE ViewTemplates ----------------------------
(***************************************************************************)
(* How the view engine binds the parameters of a request into a view's     *)
(* CONSTRUCT template, and how the references in the result lead back to   *)
(* the engine.  bindings.py finds the place for the VALUES block with a    *)
(* scan of the text; rewrite.py turns references to stored resources into  *)
(* proxy URLs that carry the same parameters; get_blob takes them apart.   *)
(*                                                                         *)
(* A text is a sequence of characters; a run of letters that the scan      *)
(* cannot tell from any other is one element.  What SPARQL itself makes of *)
(* a text is external and known from the parts it is written from.         *)
(***************************************************************************)
EXTENDS SequencesExt

CONSTANTS Prologues,    \* texts before the CONSTRUCT keyword
          Heads,        \* CONSTRUCT with its template
          ShortHand,    \* CONSTRUCT alone: the template is the pattern
          Gaps,         \* texts between the template and the pattern
          Patterns,     \* the group of the WHERE clause, from its brace on
          Params,       \* names of parameters
          Values, WellTyped,    \* what a request may supply; what type checks let pass
          Resources,    \* data-source URIs a view may refer to
          References    \* references to them that documents may make

ASSUME TemplatesAssumption ==
    /\ Prologues \cup Heads \cup {ShortHand} \cup Gaps \cup Patterns \subseteq Seq(STRING)
    /\ Params \cap {"sp", "nl", "{", "#", "<", "dq", "sq"} = {}
    /\ WellTyped \subseteq Values
    /\ References \subseteq [to : Resources, when : [Params -> WellTyped]]

VARIABLES definition,   \* the stored view: its parts and the declared parameters
          data,         \* what the data source holds at present
          page          \* the last result of the view that a consumer was given

vars == <<definition, data, page>>

NoView == [declared |-> {"none"}]
NoPage == [links |-> {"none"}]

(* The resources that are stored, those that some document describes, and  *)
(* the references that documents make; `when` has the parameter values     *)
(* under which the view selects a reference.                               *)
NoData == [stored |-> {}, described |-> {}, references |-> {}]

-----------------------------------------------------------------------------
(* The scan *)

Letters == {"where", "select", "letters"} \cup Params
Quotes == {"dq", "sq"}
Opens(char) == char \in Letters \cup {"_", "?", "$", ":"}
Continues(char) == char \in Letters \cup {"1", "_", "-", ".", ":"}

(* The first position of text from i on with property P, else one past it. *)
FirstFrom(text, i, P(_)) ==
    CHOOSE j \in i..(Len(text) + 1) :
        (j > Len(text) \/ P(j)) /\ \A k \in i..(j - 1) : ~P(k)

(* A backslash takes the next character with it.                           *)
Escaped(text, from, j) ==
    LET run == Cardinality({k \in from..(j - 1) : \A l \in k..(j - 1) : text[l] = "bs"}) IN
    run % 2 = 1

AfterString(text, i) ==
    LET triple == i + 2 <= Len(text) /\ \A k \in i..(i + 2) : text[k] = text[i]
        width == IF triple THEN 3 ELSE 1
        Closes(j) == /\ j + width - 1 <= Len(text)
                     /\ SubSeq(text, j, j + width - 1) = SubSeq(text, i, i + width - 1)
                     /\ ~Escaped(text, i + width, j)
    IN  FirstFrom(text, i + width, Closes) + width

(* Where the scan goes on after the token that begins at i.                *)
After(text, i) ==
    LET EndsLine(j) == text[j] = "nl"
        EndsIri(j) == text[j] = ">"
        EndsWord(j) == ~Continues(text[j])
    IN  CASE text[i] = "#" -> FirstFrom(text, i, EndsLine)
          [] text[i] \in Quotes -> AfterString(text, i)
          [] text[i] = "<" -> FirstFrom(text, i, EndsIri) + 1
          [] Opens(text[i]) -> FirstFrom(text, i + 1, EndsWord)
          [] OTHER -> i + 1

(* The first brace, the first WHERE that stands alone, and the first brace *)
(* after it; 0 for None.                                                   *)
Unread == [resume |-> 1, first |-> 0, where |-> 0, group |-> 0]

(* The last brace after the WHERE.                                         *)
Group_wrong(seen, opening, i) == IF opening /\ seen.where # 0 THEN i ELSE seen.group

Group(seen, opening, i) ==
    IF opening /\ seen.where # 0 /\ seen.group = 0 THEN i ELSE seen.group

Look(text, seen, i) ==
    IF i < seen.resume THEN seen
    ELSE LET next == After(text, i)
             opening == text[i] = "{"
             keyword == Opens(text[i]) /\ SubSeq(text, i, next - 1) = <<"where">>
         IN [resume |-> next,
             first |-> IF opening /\ seen.first = 0 THEN i ELSE seen.first,
             where |-> IF keyword /\ seen.where = 0 THEN i ELSE seen.where,
             group |-> Group(seen, opening, i)]

(* What the scan of text has found before it gets past character n.        *)
Reading(text, n) ==
    LET Take(seen, i) == Look(text, seen, i)
    IN  FoldLeft(Take, Unread, [i \in 1..n |-> i])

Scan(text) == Reading(text, Len(text))
-----------------------------------------------------------------------------
(* Definitions *)

Lead(d) == d.prologue \o d.head \o d.gap
Text(d) == Lead(d) \o (IF d.keyword THEN <<"where", "sp">> ELSE <<>>) \o d.pattern
GroupOf(d) == Len(Text(d)) - Len(d.pattern) + 1     \* external: where the pattern opens

(* check_params_against_template: \?(\w+), anywhere in the text.           *)
Mentioned(text, p) ==
    \E i \in 1..(Len(text) - 1) :
        /\ text[i] = "?" /\ text[i + 1] = p
        /\ i + 2 > Len(text) \/ text[i + 2] \notin Letters \cup {"1", "_"}

Accepted(d) ==
    d.declared # {} => /\ d.head # ShortHand
                       /\ \A p \in d.declared : Mentioned(Text(d), p)

Definitions ==
    {d \in [prologue : Prologues, head : Heads \cup {ShortHand}, gap : Gaps,
            keyword : BOOLEAN, pattern : Patterns, declared : SUBSET Params] :
        Accepted(d)}

(* bind_params: what is not declared is ignored, what is not supplied is   *)
(* left free.                                                              *)
Bindable(d, raw) == \A p \in d.declared \cap DOMAIN raw : raw[p] \in WellTyped
Bind(d, raw) == [p \in d.declared \cap DOMAIN raw |-> raw[p]]

(* External: the group that opens at position at is a bare sub-select.     *)
InComment(text, from, i) ==
    \E h \in from..i : text[h] = "#" /\ \A k \in h..i : text[k] # "nl"
SubSelect(text, at) ==
    \E j \in (at + 1)..Len(text) :
        /\ text[j] = "select" /\ After(text, j) = j + 1
        /\ \A k \in (at + 1)..(j - 1) :
              text[k] \in {"sp", "nl"} \/ InComment(text, at + 1, k)
        /\ ~InComment(text, at + 1, j)

(* inject_values: is there a place for the VALUES block?  The parser that  *)
(* reads the whole query back refuses a block inside the CONSTRUCT         *)
(* template, and one in front of a SELECT.                                 *)
Injectable(d) ==
    LET seen == Scan(Text(d)) IN
    /\ seen.where # 0 /\ seen.group # 0
    /\ seen.first # 0 /\ seen.first < seen.where
    /\ seen.group # Len(d.prologue) + FirstFrom(d.head, 1, LAMBDA j : d.head[j] = "{")
    /\ ~SubSelect(Text(d), seen.group)
-----------------------------------------------------------------------------
(* Results and references *)

(* External: what the narrowed CONSTRUCT refers to, on the present data.   *)
Result(bound) ==
    {ref.to : ref \in {x \in data.references : \A p \in DOMAIN bound : x.when[p] = bound[p]}}

(* The URL carries the target alone.                                       *)
Proxy_wrong(r, bound) == [key \in {"uri"} |-> r]

(* rewrite_upstream_uris: {"uri": target, **bound} as a query string.      *)
Proxy(r, bound) ==
    [key \in {"uri"} \cup DOMAIN bound |-> IF key \in DOMAIN bound THEN bound[key] ELSE r]
Rewritten(bound) == {Proxy(r, bound) : r \in Result(bound) \cap data.described}

(* get_blob, for a consumer whom the policy admits: the view is run again, *)
(* and a target that it still refers to is opened.                         *)
Follow(link) ==
    CASE link["uri"] \notin Resources -> "400"
      [] definition = NoView -> "404"
      [] ~Bindable(definition, link) -> "422"
      [] DOMAIN Bind(definition, link) # {} /\ ~Injectable(definition) -> "422"
      [] link["uri"] \notin Result(Bind(definition, link)) -> "404"
      [] link["uri"] \notin data.stored -> "404"
      [] OTHER -> "200"
-----------------------------------------------------------------------------
Init == definition = NoView /\ data = NoData /\ page = NoPage

(* create_view and replace_view; a page of the old view is of no use.      *)
Author ==
    /\ definition = NoView
    /\ definition' \in Definitions
    /\ UNCHANGED <<data, page>>

DeleteView == definition # NoView /\ definition' = NoView /\ page' = NoPage /\ UNCHANGED data

(* The owner's writes to the data source, in the middle of anything: a     *)
(* resource comes or goes, and what documents say of it or refer to.       *)
Change ==
    /\ \/ \E r \in Resources :
             \/ data' = [data EXCEPT !.stored = SymDiff(@, {r})]
             \/ data' = [data EXCEPT !.described = SymDiff(@, {r})]
       \/ \E ref \in References : data' = [data EXCEPT !.references = SymDiff(@, {ref})]
    /\ UNCHANGED <<definition, page>>

Supplied == UNION {[names -> Values] : names \in SUBSET Params}

(* The bindings that a request can end up with.                            *)
Bindings(d) ==
    LET typed == {raw \in Supplied : Bindable(d, raw)}
        bounds == {Bind(d, raw) : raw \in typed}
    IN  IF Injectable(d) THEN bounds ELSE {bound \in bounds : DOMAIN bound = {}}

(* get_view: 422 leaves the consumer with the page it had.                 *)
Fetch ==
    /\ definition # NoView
    /\ \E bound \in Bindings(definition) :
        page' = [bound |-> bound, links |-> Rewritten(bound)]
    /\ UNCHANGED <<definition, data>>

Next == Author \/ DeleteView \/ Change \/ Fetch

Spec == Init /\ [][Next]_vars
-----------------------------------------------------------------------------
(* Properties *)

(* The parts of a text do not run into one another: each but the pattern   *)
(* ends in a character that the scan reads by itself, outside of comments, *)
(* strings, IRIs and names.  Read alone, a prologue has no WHERE, a head   *)
(* opens a brace before any WHERE and none after, a gap opens none.        *)
ReadsOut(part) ==
    part # <<>> =>
        LET last == part[Len(part)] IN
        /\ Reading(part, Len(part) - 1).resume = Len(part)
        /\ ~Opens(last) /\ last \notin Quotes \cup {"#", "<"}
SeparateParts ==
    /\ \A part \in Prologues \cup Heads \cup Gaps : ReadsOut(part)
    /\ \A prologue \in Prologues : Scan(prologue).where = 0
    /\ \A head \in Heads :
          LET seen == Scan(head) IN
          /\ seen.first # 0 /\ seen.group = 0
          /\ seen.where = 0 \/ seen.first < seen.where
    /\ \A gap \in Gaps : Scan(gap).first = 0
    /\ \A pattern \in Patterns : pattern # <<>> /\ pattern[1] = "{"

(* A definition that authoring accepted with parameters can be narrowed by *)
(* them: the VALUES block lands in the group of the WHERE clause, whatever *)
(* braces, WHEREs, quotes and # signs stand in comments, strings, IRIs and *)
(* names before it.  Refused is a group that is a bare sub-select, and     *)
(* nothing else; a template that leaves the WHERE keyword out is refused,  *)
(* or bound inside a nested group.  (bindings.inject_values)               *)
BindsInPlace ==
    (definition # NoView /\ definition.declared # {}) =>
        LET text == Text(definition)
            at == Scan(text).group
        IN  IF definition.keyword
            THEN at = GroupOf(definition) /\ (Injectable(definition) <=> ~SubSelect(text, at))
            ELSE Injectable(definition) => at >= GroupOf(definition)

(* A reference in a result re-runs the view under the very bindings of the *)
(* page it came from, on the data as they are by then: it is dereferenced  *)
(* exactly while the view still refers to its target under these bindings  *)
(* and the target is stored, and is a 404 otherwise, never a refusal.      *)
(* (A parameter called uri takes the target's place.)                      *)
(* (rewrite_upstream_uris, engine.get_blob)                                *)
ProxiesLeadBack ==
    (definition # NoView /\ page # NoPage /\ "uri" \notin definition.declared) =>
        \A link \in page.links :
            /\ Bind(definition, link) = page.bound
            /\ Follow(link) = (IF link["uri"] \in Result(page.bound) \cap data.stored
                               THEN "200" ELSE "404")
=============================================================================
