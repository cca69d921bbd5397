------------------------ MODULE ViewDelivery_proofs ------------------------
(***************************************************************************)
(* Proofs about ViewDelivery for every number of grants, views and         *)
(* requests, every retry cap and every interleaving of Next.               *)
(***************************************************************************)
EXTENDS ViewDelivery, FiniteSetTheorems, TLAPS

(* A stamp is the beginning of the second it was taken in. *)
LEMMA StampBounds ==
    \A t \in Times : /\ Stamp(t) \in Times
                     /\ Stamp(t) <= t /\ t - Stamp(t) < Second
  <1>1. Second \in Nat \ {0} /\ MaxTime \in Nat
    BY EngineAssumption
  <1>2. ASSUME NEW t \in Nat PROVE t % Second \in Nat /\ t % Second < Second /\ t % Second <= t
    BY <1>1
  <1> QED
    BY <1>1, <1>2 DEF Stamp, Times, Ledger!Times

LEMMA ConstantTypes ==
    /\ NoToken \in TokenRecords
    /\ Ledger!FreshToken \in TokenRecords
    /\ Ledger!RevokedToken \in TokenRecords
    /\ NoView \in ViewRecords
    /\ Idle \in Jobs
    /\ \A d \in Defs, limit \in ViewLimits : Ledger!NewView(d, limit) \in ViewRecords
  <1>1. 0 \in Times
    BY EngineAssumption DEF Times, Ledger!Times
  <1>2. (CHOOSE d \in Defs : TRUE) \in Defs
    BY PodAssumption
  <1>3. (CHOOSE g \in Grants : TRUE) \in Grants /\ (CHOOSE v \in Views : TRUE) \in Views
    BY PodAssumption
  <1> QED
    BY <1>1, <1>2, <1>3 DEF NoToken, NoView, TokenRecords, ViewRecords, Idle, Jobs,
       Ledger!FreshToken, Ledger!RevokedToken, Ledger!UnissuedToken, Ledger!NoView,
       Ledger!NewView, Ledger!Epoch

LEMMA AnswerType ==
    ASSUME TypeOK, NEW r \in Requests,
           NEW code \in {"200", "400", "401", "403", "404", "422", "500", "502"},
           Answer(r, code)
    PROVE  /\ pc' \in [Requests -> {"idle", "done"} \cup InFlight]
           /\ status' \in [Requests -> {"none", "200", "400", "401", "403", "404", "422",
                                        "500", "502"}]
           /\ tok' \in [Requests -> TokenRecords]
           /\ vw' \in [Requests -> ViewRecords]
           /\ tries' \in [Requests -> Nat]
           /\ deaf' \in [Requests -> BOOLEAN]
  BY ConstantTypes DEF TypeOK, Answer

LEMMA DisplacedType ==
    ASSUME TypeOK, NEW r \in Requests, NEW again \in {"tokGet", "vwGet"},
           Displaced(r, again)
    PROVE  /\ pc' \in [Requests -> {"idle", "done"} \cup InFlight]
           /\ status' \in [Requests -> {"none", "200", "400", "401", "403", "404", "422",
                                        "500", "502"}]
           /\ tok' \in [Requests -> TokenRecords]
           /\ vw' \in [Requests -> ViewRecords]
           /\ tries' \in [Requests -> Nat]
           /\ deaf' \in [Requests -> BOOLEAN]
  <1>1. CASE tries[r] + 1 < MaxRetries
    BY <1>1 DEF TypeOK, Displaced, Goto, InFlight, StateCalls
  <1>2. CASE ~(tries[r] + 1 < MaxRetries)
    BY <1>2, AnswerType DEF Displaced
  <1> QED
    BY <1>1, <1>2

LEMMA ConfirmType ==
    ASSUME TypeOK, NEW r \in Requests, Confirm(r)
    PROVE  /\ pc' \in [Requests -> {"idle", "done"} \cup InFlight]
           /\ tok' \in [Requests -> TokenRecords]
           /\ vw' \in [Requests -> ViewRecords]
           /\ now' \in [Requests -> Times]
  BY ConstantTypes DEF TypeOK, Confirm, Goto, InFlight, StateCalls

LEMMA ReadTypes ==
    ASSUME TypeOK, NEW r \in Requests
    PROVE  /\ job[r].grant \in Grants /\ tokens[job[r].grant] \in TokenRecords
           /\ job[r].view \in Views /\ views[job[r].view] \in ViewRecords
  BY DEF TypeOK, Jobs

LEMMA BumpTypes ==
    ASSUME TypeOK, NEW r \in Requests
    PROVE  /\ BumpedToken(tok[r], now[r]) \in TokenRecords
           /\ BumpedView(vw[r]) \in ViewRecords
  <1>1. tok[r] \in TokenRecords /\ vw[r] \in ViewRecords /\ now[r] \in Times
    BY DEF TypeOK
  <1>2. BumpedToken(tok[r], now[r]) \in TokenRecords
    <2>1. tok[r].count + 1 \in Nat
      BY <1>1 DEF TokenRecords
    <2>2. \A n \in Nat, t \in Times : [tok[r] EXCEPT !.count = n, !.last = t] \in TokenRecords
      BY <1>1 DEF TokenRecords
    <2> QED
      BY <1>1, <2>1, <2>2, StampBounds DEF BumpedToken
  <1>3. BumpedView(vw[r]) \in ViewRecords
    BY <1>1 DEF BumpedView, ViewRecords
  <1> QED
    BY <1>2, <1>3

LEMMA TallyTypes ==
    /\ \A g : IsFiniteSet(TokenTally(g)) /\ Cardinality(TokenTally(g)) \in Nat
    /\ \A v : IsFiniteSet(ViewTally(v)) /\ Cardinality(ViewTally(v)) \in Nat
  <1>1. ASSUME NEW S, S \subseteq Requests
        PROVE  IsFiniteSet(S) /\ Cardinality(S) \in Nat
    BY <1>1, EngineAssumption, FS_Subset, FS_CardinalityType
  <1>2. \A g : TokenTally(g) \subseteq Requests
    BY DEF TokenTally
  <1>3. \A v : ViewTally(v) \subseteq Requests
    BY DEF ViewTally
  <1> QED
    BY <1>1, <1>2, <1>3

(* Every variable keeps its type. *)
THEOREM TypeCorrect == Spec => []TypeOK
<1>1. Init => TypeOK
  <2> SUFFICES ASSUME Init PROVE TypeOK
    OBVIOUS
  <2>1. Second \in Times /\ 0 \in Times
    BY EngineAssumption DEF Times, Ledger!Times
  <2> QED
    BY <2>1, ConstantTypes DEF Init, TypeOK, Ledger!Epoch, InFlight
<1>2. TypeOK /\ [Next]_vars => TypeOK'
  <2> SUFFICES ASSUME TypeOK, [Next]_vars PROVE TypeOK'
    OBVIOUS
  <2> USE DEF storageVars, engineVars, history
  <2>1. ASSUME NEW r \in Requests, Start(r) PROVE TypeOK'
    BY <2>1 DEF TypeOK, Start, Goto, Jobs, InFlight, StateCalls
  <2>2. ASSUME NEW r \in Requests, LookUp(r) PROVE TypeOK'
    BY <2>2, ConstantTypes, AnswerType, ReadTypes, BumpTypes
    DEF TypeOK, LookUp,
        Goto, Calling, CallingData, InFlight, StateCalls, DataCalls, Applying
  <2>3. ASSUME NEW r \in Requests, ReadRecord(r) PROVE TypeOK'
    BY <2>3, ConstantTypes, AnswerType, ReadTypes, BumpTypes
    DEF TypeOK, ReadRecord,
        Goto, Calling, CallingData, InFlight, StateCalls, DataCalls, Applying
  <2>4. ASSUME NEW r \in Requests, LoadView(r) PROVE TypeOK'
    BY <2>4, ConstantTypes, AnswerType, ReadTypes, BumpTypes
    DEF TypeOK, LoadView,
        Goto, Calling, CallingData, InFlight, StateCalls, DataCalls, Applying
  <2>5. ASSUME NEW r \in Requests, Decide(r) PROVE TypeOK'
    BY <2>5, ConstantTypes, AnswerType, ReadTypes, BumpTypes
    DEF TypeOK, Decide,
        Goto, Calling, CallingData, InFlight, StateCalls, DataCalls, Applying
  <2>6. ASSUME NEW r \in Requests, Construct(r) PROVE TypeOK'
    <3>1. CASE Confirm(r) /\ UNCHANGED <<tries, deaf, status>>
      BY <2>6, <3>1, ConfirmType DEF TypeOK, Construct
    <3>2. CASE Answer(r, "502") /\ UNCHANGED now
      BY <2>6, <3>2, AnswerType DEF TypeOK, Construct
    <3>3. CASE Answer(r, "404") /\ UNCHANGED now
      BY <2>6, <3>3, AnswerType DEF TypeOK, Construct
    <3>4. CASE Goto(r, "blob") /\ UNCHANGED <<tok, vw, now, tries, deaf, status>>
      BY <2>6, <3>4 DEF TypeOK, Construct, Goto, InFlight, DataCalls
    <3> QED
      BY <2>6, <3>1, <3>2, <3>3, <3>4 DEF Construct, Confirm
  <2>7. ASSUME NEW r \in Requests, OpenBlob(r) PROVE TypeOK'
    <3>1. CASE Answer(r, "404") /\ UNCHANGED now
      BY <2>7, <3>1, AnswerType DEF TypeOK, OpenBlob
    <3>2. CASE Confirm(r) /\ UNCHANGED <<tries, deaf, status>>
      BY <2>7, <3>2, ConfirmType DEF TypeOK, OpenBlob
    <3> QED
      BY <2>7, <3>1, <3>2 DEF OpenBlob, Confirm
  <2>8. ASSUME NEW r \in Requests, TokenGet(r) PROVE TypeOK'
    BY <2>8, ConstantTypes, AnswerType, ReadTypes, BumpTypes
    DEF TypeOK, TokenGet,
        Goto, Calling, CallingData, InFlight, StateCalls, DataCalls, Applying
  <2>9. ASSUME NEW r \in Requests, TokenGuard(r) PROVE TypeOK'
    <3>1. CASE Answer(r, "502")
      BY <2>9, <3>1, AnswerType DEF TypeOK, TokenGuard
    <3>2. CASE Goto(r, "tokApply") /\ UNCHANGED <<tok, vw, tries, deaf, status>>
      BY <2>9, <3>2 DEF TypeOK, TokenGuard, Goto, InFlight, Applying
    <3>3. CASE Displaced(r, "tokGet")
      BY <2>9, <3>3, DisplacedType DEF TypeOK, TokenGuard
    <3> QED
      BY <2>9, <3>1, <3>2, <3>3 DEF TokenGuard
  <2>10. ASSUME NEW r \in Requests, TokenApply(r) PROVE TypeOK'
    <3>1. tokens' \in [Grants -> TokenRecords]
          /\ counted' \in [Requests -> SUBSET {"token", "view"}]
      BY <2>10, ReadTypes, BumpTypes DEF TypeOK, TokenApply
    <3>2. CASE Answer(r, "500")
      BY <2>10, <3>1, <3>2, AnswerType DEF TypeOK, TokenApply
    <3>3. CASE /\ Goto(r, "vwGet")
               /\ tok' = [tok EXCEPT ![r] = NoToken]
               /\ tries' = [tries EXCEPT ![r] = 0]
               /\ UNCHANGED <<vw, deaf, status>>
      BY <2>10, <3>1, <3>3, ConstantTypes DEF TypeOK, TokenApply, Goto, InFlight, StateCalls
    <3>4. CASE Displaced(r, "tokGet")
      BY <2>10, <3>1, <3>4, DisplacedType DEF TypeOK, TokenApply
    <3> QED
      BY <2>10, <3>2, <3>3, <3>4 DEF TokenApply
  <2>11. ASSUME NEW r \in Requests, ViewGet(r) PROVE TypeOK'
    BY <2>11, ConstantTypes, AnswerType, ReadTypes, BumpTypes
    DEF TypeOK, ViewGet,
        Goto, Calling, CallingData, InFlight, StateCalls, DataCalls, Applying
  <2>12. ASSUME NEW r \in Requests, ViewGuard(r) PROVE TypeOK'
    <3>1. CASE Answer(r, "502")
      BY <2>12, <3>1, AnswerType DEF TypeOK, ViewGuard
    <3>2. CASE Goto(r, "vwApply") /\ UNCHANGED <<tok, vw, tries, deaf, status>>
      BY <2>12, <3>2 DEF TypeOK, ViewGuard, Goto, InFlight, Applying
    <3>3. CASE Displaced(r, "vwGet")
      BY <2>12, <3>3, DisplacedType DEF TypeOK, ViewGuard
    <3> QED
      BY <2>12, <3>1, <3>2, <3>3 DEF ViewGuard
  <2>13. ASSUME NEW r \in Requests, ViewApply(r) PROVE TypeOK'
    <3>1. views' \in [Views -> ViewRecords]
          /\ counted' \in [Requests -> SUBSET {"token", "view"}]
      BY <2>13, ReadTypes, BumpTypes DEF TypeOK, ViewApply
    <3>2. CASE Answer(r, "500")
      BY <2>13, <3>1, <3>2, AnswerType DEF TypeOK, ViewApply
    <3>3. CASE /\ Goto(r, "log")
               /\ vw' = [vw EXCEPT ![r] = NoView]
               /\ tries' = [tries EXCEPT ![r] = 0]
               /\ UNCHANGED <<tok, deaf, status>>
      BY <2>13, <3>1, <3>3, ConstantTypes DEF TypeOK, ViewApply, Goto, InFlight, StateCalls
    <3>4. CASE Displaced(r, "vwGet")
      BY <2>13, <3>1, <3>4, DisplacedType DEF TypeOK, ViewApply
    <3> QED
      BY <2>13, <3>2, <3>3, <3>4 DEF ViewApply
  <2>14. ASSUME NEW r \in Requests, AppendLog(r) PROVE TypeOK'
    BY <2>14, ConstantTypes, AnswerType, ReadTypes, BumpTypes
    DEF TypeOK, AppendLog, StoreEntry,
        Goto, Calling, CallingData, InFlight, StateCalls, DataCalls, Applying
  <2>15. ASSUME NEW r \in Requests, CredentialRefused(r) PROVE TypeOK'
    BY <2>15, ConstantTypes, AnswerType, ReadTypes, BumpTypes
    DEF TypeOK, CredentialRefused,
        Goto, Calling, CallingData, InFlight, StateCalls, DataCalls, Applying
  <2>16. ASSUME NEW r \in Requests, CallLost(r) PROVE TypeOK'
    BY <2>16, ConstantTypes, AnswerType, ReadTypes, BumpTypes
    DEF TypeOK, CallLost,
        Goto, Calling, CallingData, InFlight, StateCalls, DataCalls, Applying
  <2>17. ASSUME NEW r \in Requests, AppendUnheard(r) PROVE TypeOK'
    BY <2>17, ConstantTypes, AnswerType, ReadTypes, BumpTypes
    DEF TypeOK, AppendUnheard, StoreEntry,
        Goto, Calling, CallingData, InFlight, StateCalls, DataCalls, Applying
  <2>18. ASSUME NEW r \in Requests, ReplyLost(r) PROVE TypeOK'
    BY <2>18, ConstantTypes, AnswerType, ReadTypes, BumpTypes
    DEF TypeOK, ReplyLost,
        Goto, Calling, CallingData, InFlight, StateCalls, DataCalls, Applying
  <2>19. ASSUME NEW g \in Grants, Issue(g) PROVE TypeOK'
    BY <2>19, ConstantTypes, TallyTypes DEF TypeOK, Issue
  <2>20. ASSUME NEW g \in Grants, Revoke(g) PROVE TypeOK'
    BY <2>20, ConstantTypes, TallyTypes DEF TypeOK, Revoke
  <2>21. ASSUME NEW g \in Grants, AdjustToken(g) PROVE TypeOK'
    <3>1. PICK n \in AdjustTo, t \in {Ledger!Epoch, Stamp(clock)} :
             /\ tokens' = [tokens EXCEPT ![g] = [@ EXCEPT !.count = n, !.last = t]]
             /\ tokBase' = [tokBase EXCEPT ![g] = n - Cardinality(TokenTally(g))]
      BY <2>21 DEF AdjustToken
    <3>2. n \in Nat /\ t \in Times
      BY PodAssumption, EngineAssumption, StampBounds
      DEF TypeOK, Times, Ledger!Times, Ledger!Epoch
    <3>3. [tokens[g] EXCEPT !.count = n, !.last = t] \in TokenRecords
      <4>1. tokens[g] \in TokenRecords
        BY DEF TypeOK
      <4> QED
        BY <3>2, <4>1 DEF TokenRecords
    <3>4. tokens' \in [Grants -> TokenRecords]
      BY <3>1, <3>3 DEF TypeOK
    <3>5. tokBase' \in [Grants -> Int]
      BY <3>1, <3>2, TallyTypes DEF TypeOK
    <3> QED
      BY <2>21, <3>4, <3>5 DEF TypeOK, AdjustToken
  <2>22. ASSUME NEW g \in Grants, WritePolicy(g) PROVE TypeOK'
    BY <2>22, ConstantTypes DEF TypeOK, WritePolicy
  <2>23. ASSUME NEW v \in Views, StoreView(v) PROVE TypeOK'
    BY <2>23, ConstantTypes, TallyTypes DEF TypeOK, StoreView
  <2>24. ASSUME NEW v \in Views, DeleteView(v) PROVE TypeOK'
    BY <2>24, ConstantTypes, TallyTypes DEF TypeOK, DeleteView
  <2>25. ASSUME NEW r \in Requests, EraseEntry(r) PROVE TypeOK'
    BY <2>25, ConstantTypes DEF TypeOK, EraseEntry
  <2>26. CASE RevokeEngine
    BY <2>26 DEF TypeOK, RevokeEngine
  <2>27. CASE Boot
    BY <2>27 DEF TypeOK, Boot
  <2>28. CASE Tick
    BY <2>28, EngineAssumption DEF TypeOK, Tick, Times, Ledger!Times
  <2>29. CASE UNCHANGED vars
    BY <2>29 DEF TypeOK, vars
  <2> QED
    BY <2>1, <2>2, <2>3, <2>4, <2>5, <2>6, <2>7, <2>8, <2>9, <2>10, <2>11, <2>12, <2>13, <2>14, <2>15, <2>16, <2>17, <2>18, <2>19, <2>20, <2>21, <2>22, <2>23, <2>24, <2>25, <2>26, <2>27, <2>28, <2>29
    DEF Next, Consume, Faults, Withdraw, Author, Serve, Lose
<1> QED
  BY <1>1, <1>2, PTL DEF Spec

----------------------------------------------------------------------------
(* What the books say of a request, given how far it has come: the part of *)
(* the inductive invariant that makes the counts and the log provable.     *)
BeforeToken == {"idle", "lookup", "record", "view", "policy", "construct", "blob",
                "tokGet", "tokPut", "tokApply"}
BetweenBumps == {"vwGet", "vwPut", "vwApply"}

Entry(where, counts, entry, code) ==
    /\ where \in BeforeToken => counts = {}
    /\ where \in BetweenBumps => counts = {"token"}
    /\ where = "log" => counts = {"token", "view"}
    /\ where # "done" => code # "200" /\ entry = "none"
    /\ code = "200" => entry # "none"
    /\ entry # "none" => counts = {"token", "view"}
    /\ "view" \in counts => "token" \in counts

Books == \A r \in Requests : Entry(pc[r], counted[r], log[r], status[r])

(* Only the request that takes a step has its entry touched. *)
LEMMA BooksStep ==
    ASSUME Books, NEW r \in Requests,
           \A q \in Requests \ {r} : /\ pc'[q] = pc[q] /\ counted'[q] = counted[q]
                                     /\ log'[q] = log[q] /\ status'[q] = status[q],
           Entry(pc'[r], counted'[r], log'[r], status'[r])
    PROVE  Books'
  BY DEF Books

LEMMA BooksInductive == TypeOK /\ Books /\ [Next]_vars => Books'
<1> SUFFICES ASSUME TypeOK, Books, [Next]_vars PROVE Books'
  OBVIOUS
<1> USE DEF storageVars, engineVars, history
<1>1. ASSUME NEW r \in Requests, Start(r) PROVE Books'
  BY <1>1, BooksStep DEF TypeOK, Books, Entry, Start, Goto, BeforeToken, BetweenBumps
<1>2. ASSUME NEW r \in Requests, LookUp(r) PROVE Books'
  BY <1>2, BooksStep DEF TypeOK, Books, Entry, LookUp, Goto, Answer, Calling,
     CallingData, BeforeToken, BetweenBumps, InFlight, StateCalls, DataCalls, Applying
<1>3. ASSUME NEW r \in Requests, ReadRecord(r) PROVE Books'
  BY <1>3, BooksStep DEF TypeOK, Books, Entry, ReadRecord, Goto, Answer, Calling,
     CallingData, BeforeToken, BetweenBumps, InFlight, StateCalls, DataCalls, Applying
<1>4. ASSUME NEW r \in Requests, LoadView(r) PROVE Books'
  BY <1>4, BooksStep DEF TypeOK, Books, Entry, LoadView, Goto, Answer, Calling,
     CallingData, BeforeToken, BetweenBumps, InFlight, StateCalls, DataCalls, Applying
<1>5. ASSUME NEW r \in Requests, Decide(r) PROVE Books'
  BY <1>5, BooksStep DEF TypeOK, Books, Entry, Decide, Goto, Answer, Calling,
     CallingData, BeforeToken, BetweenBumps, InFlight, StateCalls, DataCalls, Applying
<1>6. ASSUME NEW r \in Requests, Construct(r) PROVE Books'
  BY <1>6, BooksStep DEF TypeOK, Books, Entry, Construct, Confirm, Goto, Answer, Calling,
     CallingData, BeforeToken, BetweenBumps, InFlight, StateCalls, DataCalls, Applying
<1>7. ASSUME NEW r \in Requests, OpenBlob(r) PROVE Books'
  BY <1>7, BooksStep DEF TypeOK, Books, Entry, OpenBlob, Confirm, Goto, Answer, Calling,
     CallingData, BeforeToken, BetweenBumps, InFlight, StateCalls, DataCalls, Applying
<1>8. ASSUME NEW r \in Requests, TokenGet(r) PROVE Books'
  BY <1>8, BooksStep DEF TypeOK, Books, Entry, TokenGet, Goto, Answer, Calling,
     CallingData, BeforeToken, BetweenBumps, InFlight, StateCalls, DataCalls, Applying
<1>9. ASSUME NEW r \in Requests, TokenGuard(r) PROVE Books'
  BY <1>9, BooksStep DEF TypeOK, Books, Entry, TokenGuard, Displaced, Goto, Answer, Calling,
     CallingData, BeforeToken, BetweenBumps, InFlight, StateCalls, DataCalls, Applying
<1>10. ASSUME NEW r \in Requests, TokenApply(r) PROVE Books'
  BY <1>10, BooksStep DEF TypeOK, Books, Entry, TokenApply, Displaced, Goto, Answer, Calling,
     CallingData, BeforeToken, BetweenBumps, InFlight, StateCalls, DataCalls, Applying
<1>11. ASSUME NEW r \in Requests, ViewGet(r) PROVE Books'
  BY <1>11, BooksStep DEF TypeOK, Books, Entry, ViewGet, Goto, Answer, Calling,
     CallingData, BeforeToken, BetweenBumps, InFlight, StateCalls, DataCalls, Applying
<1>12. ASSUME NEW r \in Requests, ViewGuard(r) PROVE Books'
  BY <1>12, BooksStep DEF TypeOK, Books, Entry, ViewGuard, Displaced, Goto, Answer, Calling,
     CallingData, BeforeToken, BetweenBumps, InFlight, StateCalls, DataCalls, Applying
<1>13. ASSUME NEW r \in Requests, ViewApply(r) PROVE Books'
  BY <1>13, BooksStep DEF TypeOK, Books, Entry, ViewApply, Displaced, Goto, Answer, Calling,
     CallingData, BeforeToken, BetweenBumps, InFlight, StateCalls, DataCalls, Applying
<1>14. ASSUME NEW r \in Requests, AppendLog(r) PROVE Books'
  BY <1>14, BooksStep DEF TypeOK, Books, Entry, AppendLog, StoreEntry, Goto, Answer, Calling,
     CallingData, BeforeToken, BetweenBumps, InFlight, StateCalls, DataCalls, Applying
<1>15. ASSUME NEW r \in Requests, CredentialRefused(r) PROVE Books'
  BY <1>15, BooksStep DEF TypeOK, Books, Entry, CredentialRefused, Goto, Answer, Calling,
     CallingData, BeforeToken, BetweenBumps, InFlight, StateCalls, DataCalls, Applying
<1>16. ASSUME NEW r \in Requests, CallLost(r) PROVE Books'
  BY <1>16, BooksStep DEF TypeOK, Books, Entry, CallLost, Goto, Answer, Calling,
     CallingData, BeforeToken, BetweenBumps, InFlight, StateCalls, DataCalls, Applying
<1>17. ASSUME NEW r \in Requests, AppendUnheard(r) PROVE Books'
  BY <1>17, BooksStep DEF TypeOK, Books, Entry, AppendUnheard, StoreEntry, Goto, Answer, Calling,
     CallingData, BeforeToken, BetweenBumps, InFlight, StateCalls, DataCalls, Applying
<1>18. ASSUME NEW r \in Requests, ReplyLost(r) PROVE Books'
  BY <1>18, BooksStep DEF TypeOK, Books, Entry, ReplyLost, Goto, Answer, Calling,
     CallingData, BeforeToken, BetweenBumps, InFlight, StateCalls, DataCalls, Applying
<1>19. ASSUME NEW r \in Requests, EraseEntry(r) PROVE Books'
  BY <1>19, BooksStep DEF TypeOK, Books, Entry, EraseEntry
<1>20. ASSUME UNCHANGED <<pc, counted, log, status>> PROVE Books'
  BY <1>20 DEF Books, Entry
<1> QED
  BY <1>1, <1>2, <1>3, <1>4, <1>5, <1>6, <1>7, <1>8, <1>9, <1>10, <1>11, <1>12, <1>13, <1>14, <1>15, <1>16, <1>17, <1>18, <1>19, <1>20
  DEF Next, Consume, Faults, Withdraw, Author, Serve, Lose, vars,
      Issue, Revoke, AdjustToken, WritePolicy, StoreView, DeleteView, RevokeEngine, Boot, Tick

(* Nothing is delivered that is not on the books. *)
THEOREM DeliveriesRecorded == Spec => []DeliveredIsRecorded
<1>1. Init => Books
  BY DEF Init, Books, Entry, BeforeToken, BetweenBumps
<1>2. Books => DeliveredIsRecorded
  BY DEF Books, Entry, DeliveredIsRecorded
<1> QED
  BY <1>1, <1>2, BooksInductive, TypeCorrect, PTL DEF Spec

----------------------------------------------------------------------------
(* The counters are exact. *)

(* A request that joins a tally adds one to it.                            *)
LEMMA TokenTallyGrows ==
    ASSUME NEW r \in Requests, TypeOK, job' = job, "token" \notin counted[r],
           counted' = [counted EXCEPT ![r] = @ \cup {"token"}], NEW g \in Grants
    PROVE  Cardinality(TokenTally(g))' =
              IF job[r].grant = g THEN Cardinality(TokenTally(g)) + 1
                                  ELSE Cardinality(TokenTally(g))
<1>1. CASE job[r].grant = g
  <2>1. TokenTally(g)' = TokenTally(g) \cup {r} /\ r \notin TokenTally(g)
    BY <1>1 DEF TokenTally, TypeOK
  <2> QED
    BY <1>1, <2>1, TallyTypes, FS_AddElement
<1>2. CASE job[r].grant # g
  <2>1. TokenTally(g)' = TokenTally(g)
    BY <1>2 DEF TokenTally, TypeOK
  <2> QED
    BY <1>2, <2>1
<1> QED
  BY <1>1, <1>2

LEMMA ViewTallyGrows ==
    ASSUME NEW r \in Requests, TypeOK, job' = job, "view" \notin counted[r],
           counted' = [counted EXCEPT ![r] = @ \cup {"view"}], NEW v \in Views
    PROVE  Cardinality(ViewTally(v))' =
              IF job[r].view = v THEN Cardinality(ViewTally(v)) + 1
                                  ELSE Cardinality(ViewTally(v))
<1>1. CASE job[r].view = v
  <2>1. ViewTally(v)' = ViewTally(v) \cup {r} /\ r \notin ViewTally(v)
    BY <1>1 DEF ViewTally, TypeOK
  <2> QED
    BY <1>1, <2>1, TallyTypes, FS_AddElement
<1>2. CASE job[r].view # v
  <2>1. ViewTally(v)' = ViewTally(v)
    BY <1>2 DEF ViewTally, TypeOK
  <2> QED
    BY <1>2, <2>1
<1> QED
  BY <1>1, <1>2

(* A bump adds to one counter of one kind. *)
LEMMA TalliesApart ==
    ASSUME NEW r \in Requests, job' = job, TypeOK
    PROVE  /\ counted' = [counted EXCEPT ![r] = @ \cup {"token"}]
                 => \A v : ViewTally(v)' = ViewTally(v)
           /\ counted' = [counted EXCEPT ![r] = @ \cup {"view"}]
                 => \A g : TokenTally(g)' = TokenTally(g)
  BY DEF TokenTally, ViewTally, TypeOK

(* A new request is in no tally yet. *)
LEMMA StartKeepsTallies ==
    ASSUME NEW r \in Requests, Start(r), TypeOK, Books
    PROVE  /\ \A g : TokenTally(g)' = TokenTally(g)
           /\ \A v : ViewTally(v)' = ViewTally(v)
<1>1. counted[r] = {} /\ counted' = counted
  BY DEF Start, history, Books, Entry, BeforeToken
<1>2. \A q \in Requests \ {r} : job'[q] = job[q]
  BY DEF Start, TypeOK
<1> QED
  BY <1>1, <1>2 DEF TokenTally, ViewTally

LEMMA ExactInductive == TypeOK /\ Books /\ CountsExact /\ [Next]_vars => CountsExact'
<1> SUFFICES ASSUME TypeOK, Books, CountsExact, [Next]_vars PROVE CountsExact'
  OBVIOUS
<1> USE DEF storageVars, engineVars, history
<1>1. ASSUME NEW r \in Requests, Start(r) PROVE CountsExact'
  BY <1>1, StartKeepsTallies DEF Start, CountsExact, TokenCountExact, ViewCountExact
<1>2. ASSUME NEW r \in Requests, TokenApply(r), TokenReplaceable(r) PROVE CountsExact'
  <2> DEFINE g0 == job[r].grant
  <2>1. /\ tokens' = [tokens EXCEPT ![g0] = BumpedToken(tokens[g0], now[r])]
        /\ counted' = [counted EXCEPT ![r] = @ \cup {"token"}]
        /\ UNCHANGED <<views, job, tokBase, vwBase>>
    BY <1>2 DEF TokenApply, TokenReplaceable, EtagMatches
  <2>2. "token" \notin counted[r]
    BY <1>2 DEF TokenApply, Books, Entry, BeforeToken
  <2>3. \A g \in Grants : tokens'[g].count =
                            IF g0 = g THEN tokens[g].count + 1 ELSE tokens[g].count
    <3>1. \A t : tokens[g0] \in TokenRecords
                  => BumpedToken(tokens[g0], t).count = tokens[g0].count + 1
      BY DEF BumpedToken, TokenRecords
    <3> QED
      BY <2>1, <3>1, ReadTypes DEF TypeOK
  <2>4. TokenCountExact'
    <3> SUFFICES ASSUME NEW g \in Grants
                 PROVE  tokens'[g].count = tokBase'[g] + Cardinality(TokenTally(g))'
      BY DEF TokenCountExact
    <3>1. Cardinality(TokenTally(g))' =
             IF g0 = g THEN Cardinality(TokenTally(g)) + 1 ELSE Cardinality(TokenTally(g))
      BY <2>1, <2>2, TokenTallyGrows
    <3>2. tokens[g].count = tokBase[g] + Cardinality(TokenTally(g))
      BY DEF CountsExact, TokenCountExact
    <3> QED
      BY <2>1, <2>3, <3>1, <3>2, TallyTypes DEF TypeOK, TokenRecords
  <2>5. ViewCountExact'
    BY <2>1, TalliesApart DEF CountsExact, ViewCountExact
  <2> QED
    BY <2>4, <2>5 DEF CountsExact
<1>3. ASSUME NEW r \in Requests, ViewApply(r), ViewReplaceable(r) PROVE CountsExact'
  <2> DEFINE v0 == job[r].view
  <2>1. /\ views' = [views EXCEPT ![v0] = BumpedView(views[v0])]
        /\ counted' = [counted EXCEPT ![r] = @ \cup {"view"}]
        /\ UNCHANGED <<tokens, job, tokBase, vwBase>>
    BY <1>3 DEF ViewApply, ViewReplaceable, EtagMatches
  <2>2. "view" \notin counted[r]
    BY <1>3 DEF ViewApply, Books, Entry, BetweenBumps
  <2>3. \A v \in Views : views'[v].count =
                            IF v0 = v THEN views[v].count + 1 ELSE views[v].count
    <3>1. views[v0] \in ViewRecords => BumpedView(views[v0]).count = views[v0].count + 1
      BY DEF BumpedView, ViewRecords
    <3> QED
      BY <2>1, <3>1, ReadTypes DEF TypeOK
  <2>4. ViewCountExact'
    <3> SUFFICES ASSUME NEW v \in Views
                 PROVE  views'[v].count = vwBase'[v] + Cardinality(ViewTally(v))'
      BY DEF ViewCountExact
    <3>1. Cardinality(ViewTally(v))' =
             IF v0 = v THEN Cardinality(ViewTally(v)) + 1 ELSE Cardinality(ViewTally(v))
      BY <2>1, <2>2, ViewTallyGrows
    <3>2. views[v].count = vwBase[v] + Cardinality(ViewTally(v))
      BY DEF CountsExact, ViewCountExact
    <3> QED
      BY <2>1, <2>3, <3>1, <3>2, TallyTypes DEF TypeOK, ViewRecords
  <2>5. TokenCountExact'
    BY <2>1, TalliesApart DEF CountsExact, TokenCountExact
  <2> QED
    BY <2>4, <2>5 DEF CountsExact
<1>4. ASSUME NEW g \in Grants, NEW n \in Int,
             /\ \A h \in Grants \ {g} : tokens'[h] = tokens[h]
             /\ tokens'[g].count = n
             /\ tokBase' = [tokBase EXCEPT ![g] = n - Cardinality(TokenTally(g))],
             UNCHANGED <<views, job, counted, vwBase>>
      PROVE  CountsExact'
  <2>1. \A h : TokenTally(h)' = TokenTally(h)
    BY <1>4 DEF TokenTally
  <2>2. \A v : ViewTally(v)' = ViewTally(v)
    BY <1>4 DEF ViewTally
  <2>3. TokenCountExact'
    BY <1>4, <2>1, TallyTypes DEF CountsExact, TokenCountExact, TypeOK
  <2> QED
    BY <1>4, <2>2, <2>3 DEF CountsExact, ViewCountExact
<1>5. ASSUME NEW v \in Views,
             /\ \A w \in Views \ {v} : views'[w] = views[w]
             /\ views'[v].count = 0
             /\ vwBase' = [vwBase EXCEPT ![v] = 0 - Cardinality(ViewTally(v))],
             UNCHANGED <<tokens, job, counted, tokBase>>
      PROVE  CountsExact'
  <2>1. \A h : TokenTally(h)' = TokenTally(h)
    BY <1>5 DEF TokenTally
  <2>2. \A w : ViewTally(w)' = ViewTally(w)
    BY <1>5 DEF ViewTally
  <2>3. ViewCountExact'
    BY <1>5, <2>2, TallyTypes DEF CountsExact, ViewCountExact, TypeOK
  <2> QED
    BY <1>5, <2>1, <2>3 DEF CountsExact, TokenCountExact
<1>6. ASSUME UNCHANGED <<tokens, views, job, counted, tokBase, vwBase>> PROVE CountsExact'
  BY <1>6 DEF CountsExact, TokenCountExact, ViewCountExact, TokenTally, ViewTally
<1>7. ASSUME NEW g \in Grants, Issue(g) \/ Revoke(g) PROVE CountsExact'
  <2>1. tokens'[g].count = 0
    BY <1>7 DEF Issue, Revoke, TypeOK, Ledger!RevokedToken, Ledger!FreshToken
  <2>2. \A h \in Grants \ {g} : tokens'[h] = tokens[h]
    BY <1>7 DEF Issue, Revoke, TypeOK
  <2>3. tokBase' = [tokBase EXCEPT ![g] = 0 - Cardinality(TokenTally(g))]
    BY <1>7 DEF Issue, Revoke
  <2>4. UNCHANGED <<views, job, counted, vwBase>>
    BY <1>7 DEF Issue, Revoke
  <2> QED
    <3>1. 0 \in Int
      OBVIOUS
    <3> QED
      BY <1>4, <2>1, <2>2, <2>3, <2>4, <3>1
<1>8. ASSUME NEW g \in Grants, AdjustToken(g) PROVE CountsExact'
  <2>1. PICK n \in AdjustTo, t \in {Ledger!Epoch, Stamp(clock)} :
           /\ tokens' = [tokens EXCEPT ![g] = [@ EXCEPT !.count = n, !.last = t]]
           /\ tokBase' = [tokBase EXCEPT ![g] = n - Cardinality(TokenTally(g))]
    BY <1>8 DEF AdjustToken
  <2>2. n \in Int
    BY PodAssumption
  <2>3. tokens'[g].count = n
    <3>1. tokens[g] \in TokenRecords
      BY DEF TypeOK
    <3> QED
      BY <2>1, <3>1 DEF TypeOK, TokenRecords
  <2>4. \A h \in Grants \ {g} : tokens'[h] = tokens[h]
    BY <2>1 DEF TypeOK
  <2> QED
    BY <1>4, <1>8, <2>1, <2>2, <2>3, <2>4 DEF AdjustToken
<1>9. ASSUME NEW v \in Views, StoreView(v) PROVE CountsExact'
  <2>1. views'[v].count = 0
    BY <1>9 DEF StoreView, TypeOK, Ledger!NewView
  <2> QED
    BY <1>5, <1>9, <2>1 DEF StoreView, TypeOK
<1>10. ASSUME NEW v \in Views, DeleteView(v) PROVE CountsExact'
  <2>1. views'[v].count = 0
    BY <1>10 DEF DeleteView, TypeOK, NoView, Ledger!NoView
  <2> QED
    BY <1>5, <1>10, <2>1 DEF DeleteView, TypeOK
<1>11. ASSUME NEW r \in Requests, Serve(r) PROVE CountsExact'
  <2>1. CASE TokenApply(r)
    <3>1. CASE TokenReplaceable(r)
      BY <1>2, <2>1, <3>1
    <3>2. CASE ~TokenReplaceable(r)
      BY <1>6, <2>1, <3>2 DEF TokenApply
    <3> QED
      BY <3>1, <3>2
  <2>2. CASE ViewApply(r)
    <3>1. CASE ViewReplaceable(r)
      BY <1>3, <2>2, <3>1
    <3>2. CASE ~ViewReplaceable(r)
      BY <1>6, <2>2, <3>2 DEF ViewApply
    <3> QED
      BY <3>1, <3>2
  <2>3. CASE ~TokenApply(r) /\ ~ViewApply(r)
    BY <1>6, <1>11, <2>3 DEF Serve, LookUp, ReadRecord, LoadView, Decide, Construct, OpenBlob,
       TokenGet, TokenGuard, ViewGet, ViewGuard, AppendLog, StoreEntry, CredentialRefused
  <2> QED
    BY <2>1, <2>2, <2>3
<1>12. CASE Faults
  BY <1>6, <1>12 DEF Faults, Lose, CallLost, AppendUnheard, StoreEntry, ReplyLost
<1>13. CASE Withdraw
  BY <1>6, <1>7, <1>10, <1>13 DEF Withdraw, EraseEntry, RevokeEngine, Boot
<1>14. CASE Author
  BY <1>6, <1>7, <1>8, <1>9, <1>14 DEF Author, WritePolicy
<1>15. CASE Tick \/ UNCHANGED vars
  BY <1>6, <1>15 DEF Tick, vars
<1> QED
  BY <1>1, <1>11, <1>12, <1>13, <1>14, <1>15 DEF Next, Consume

(* No increment is lost or applied twice. *)
THEOREM CountersExact == Spec => []CountsExact
<1>1. Init => Books
  BY DEF Init, Books, Entry, BeforeToken, BetweenBumps
<1>2. Init => CountsExact
  <2> SUFFICES ASSUME Init PROVE CountsExact
    OBVIOUS
  <2>1. \A g : TokenTally(g) = {}
    BY DEF Init, TokenTally
  <2>2. \A v : ViewTally(v) = {}
    BY DEF Init, ViewTally
  <2>3. \A g \in Grants : tokens[g].count = 0 /\ tokBase[g] = 0
    BY DEF Init, NoToken, Ledger!UnissuedToken, Ledger!FreshToken
  <2>4. \A v \in Views : views[v].count = 0 /\ vwBase[v] = 0
    BY DEF Init, NoView, Ledger!NoView, Ledger!NewView
  <2> QED
    BY <2>1, <2>2, <2>3, <2>4, FS_EmptySet DEF CountsExact, TokenCountExact, ViewCountExact
<1> QED
  BY <1>1, <1>2, BooksInductive, ExactInductive, TypeCorrect, PTL DEF Spec

----------------------------------------------------------------------------
(* Revocation. *)

(* One request's answer leaves the others where they are. *)
LEMMA AnswerHere ==
    ASSUME TypeOK, NEW q \in Requests, NEW code, Answer(q, code)
    PROVE  /\ pc'[q] = "done" /\ status'[q] = code
           /\ \A r \in Requests \ {q} : pc'[r] = pc[r] /\ status'[r] = status[r]
  BY DEF TypeOK, Answer

LEMMA GotoHere ==
    ASSUME TypeOK, NEW q \in Requests, NEW where, Goto(q, where)
    PROVE  /\ pc'[q] = where
           /\ \A r \in Requests \ {q} : pc'[r] = pc[r]
  BY DEF TypeOK, Goto

(* A step of a request q, or of anybody else, as seen by a request r whose  *)
(* grant is revoked.                                                        *)
Barred(r) ==
    /\ counted[r] = {} => counted'[r] = {}
    /\ pc[r] \in {"lookup", "record"} =>
          pc'[r] = pc[r] \/ status'[r] \in {"401", "500", "502"}

LEMMA BarredStep ==
    ASSUME TypeOK, Books, [Next]_vars, NEW r \in Requests,
           tokens[job[r].grant].status = "revoked", pc[r] \in InFlight
    PROVE  Barred(r)
<1> USE DEF storageVars, engineVars, history
<1>1. ASSUME UNCHANGED <<pc, counted>> PROVE Barred(r)
  BY <1>1 DEF Barred
<1>2. ASSUME counted' = counted, pc'[r] = pc[r] PROVE Barred(r)
  BY <1>2 DEF Barred
<1>3. ASSUME NEW q \in Requests, Start(q) PROVE Barred(r)
  <2>1. q # r
    BY <1>3 DEF Start, InFlight, StateCalls, DataCalls, Applying
  <2> QED
    BY <1>3, <2>1, GotoHere, <1>2 DEF Start
<1>4. ASSUME NEW q \in Requests, NEW code \in {"401", "500", "502"},
             Answer(q, code), counted' = counted
      PROVE  Barred(r)
  BY <1>4, AnswerHere DEF Barred
<1>5. ASSUME NEW q \in Requests, LookUp(q) PROVE Barred(r)
  <2>1. CASE Answer(q, "401")
    BY <1>4, <1>5, <2>1 DEF LookUp
  <2>2. CASE ~Answer(q, "401")
    <3>1. Goto(q, "record") /\ tokens[job[q].grant].status = "live"
      BY <1>5, <2>2 DEF LookUp
    <3>2. q # r
      BY <3>1
    <3> QED
      BY <1>2, <1>5, <3>1, <3>2, GotoHere DEF LookUp
  <2> QED
    BY <2>1, <2>2
<1>6. ASSUME NEW q \in Requests, ReadRecord(q) PROVE Barred(r)
  <2>1. CASE tokens[job[q].grant].status # "live"
    <3>1. Answer(q, "401") /\ counted' = counted
      BY <1>6, <2>1 DEF ReadRecord
    <3> QED
      BY <1>4, <3>1
  <2>2. CASE tokens[job[q].grant].status = "live"
    <3>1. q # r
      BY <2>2
    <3>2. counted' = counted
      BY <1>6 DEF ReadRecord
    <3>3. pc'[r] = pc[r]
      BY <1>6, <3>1, AnswerHere, GotoHere DEF ReadRecord
    <3> QED
      BY <1>2, <3>2, <3>3
  <2> QED
    BY <2>1, <2>2
<1>7. ASSUME NEW q \in Requests, pc[q] \notin {"lookup", "record"}, counted' = counted,
             \A p \in Requests \ {q} : pc'[p] = pc[p]
      PROVE  Barred(r)
  BY <1>7 DEF Barred
<1>8. ASSUME NEW q \in Requests,
             LoadView(q) \/ Decide(q) \/ Construct(q) \/ OpenBlob(q)
      PROVE  Barred(r)
  <2>1. counted' = counted /\ pc[q] \notin {"lookup", "record"}
    BY <1>8 DEF LoadView, Decide, Construct, OpenBlob, Calling, CallingData
  <2>2. \A p \in Requests \ {q} : pc'[p] = pc[p]
    BY <1>8, AnswerHere, GotoHere DEF LoadView, Decide, Construct, OpenBlob, Confirm
  <2> QED
    BY <1>7, <2>1, <2>2
<1>9. ASSUME NEW q \in Requests,
             TokenGet(q) \/ TokenGuard(q) \/ ViewGet(q) \/ ViewGuard(q) \/ AppendLog(q)
      PROVE  Barred(r)
  <2>1. counted' = counted /\ pc[q] \notin {"lookup", "record"}
    BY <1>9 DEF TokenGet, TokenGuard, ViewGet, ViewGuard, AppendLog, StoreEntry, Calling
  <2>2. \A p \in Requests \ {q} : pc'[p] = pc[p]
    BY <1>9, AnswerHere, GotoHere DEF TokenGet, TokenGuard, ViewGet, ViewGuard, AppendLog,
       Displaced
  <2> QED
    BY <1>7, <2>1, <2>2
<1>10. ASSUME NEW q \in Requests, TokenApply(q) PROVE Barred(r)
  <2>1. pc[q] \notin {"lookup", "record"}
    BY <1>10 DEF TokenApply
  <2>2. \A p \in Requests \ {q} : pc'[p] = pc[p]
    BY <1>10, AnswerHere, GotoHere DEF TokenApply, Displaced
  <2>3. CASE TokenReplaceable(q)
    <3>1. q # r
      BY <2>3 DEF TokenReplaceable
    <3>2. counted' = [counted EXCEPT ![q] = @ \cup {"token"}]
      BY <1>10, <2>3 DEF TokenApply
    <3> QED
      BY <2>1, <2>2, <3>1, <3>2 DEF Barred, TypeOK
  <2>4. CASE ~TokenReplaceable(q)
    BY <1>7, <1>10, <2>1, <2>2, <2>4 DEF TokenApply
  <2> QED
    BY <2>3, <2>4
<1>11. ASSUME NEW q \in Requests, ViewApply(q) PROVE Barred(r)
  <2>1. pc[q] \notin {"lookup", "record"} /\ counted[q] = {"token"}
    BY <1>11 DEF ViewApply, Books, Entry, BetweenBumps
  <2>2. \A p \in Requests \ {q} : pc'[p] = pc[p]
    BY <1>11, AnswerHere, GotoHere DEF ViewApply, Displaced
  <2>3. \A p \in Requests \ {q} : counted'[p] = counted[p]
    BY <1>11 DEF ViewApply, TypeOK
  <2> QED
    BY <2>1, <2>2, <2>3 DEF Barred
<1>12. ASSUME NEW q \in Requests, CredentialRefused(q) \/ CallLost(q) \/ AppendUnheard(q)
       PROVE  Barred(r)
  <2>1. counted' = counted
    BY <1>12 DEF CredentialRefused, CallLost, AppendUnheard, StoreEntry
  <2>2. Answer(q, "500") \/ Answer(q, "502")
    BY <1>12 DEF CredentialRefused, CallLost, AppendUnheard
  <2> QED
    BY <1>4, <2>1, <2>2
<1>13. ASSUME NEW q \in Requests, Serve(q) PROVE Barred(r)
  BY <1>5, <1>6, <1>8, <1>9, <1>10, <1>11, <1>12, <1>13 DEF Serve
<1>14. CASE Faults
  BY <1>1, <1>12, <1>14 DEF Faults, Lose, ReplyLost
<1>15. CASE Withdraw \/ Author \/ Tick \/ UNCHANGED vars
  BY <1>1, <1>15 DEF Withdraw, Author, Issue, Revoke, AdjustToken, WritePolicy, StoreView,
     DeleteView, EraseEntry, RevokeEngine, Boot, Tick, vars
<1> QED
  BY <1>3, <1>13, <1>14, <1>15 DEF Next, Consume

(* A revoked grant pins every request under it that is not counted yet. *)
THEOREM RevocationFinal == Spec => RevocationBites
<1>1. Init => Books
  BY DEF Init, Books, Entry, BeforeToken, BetweenBumps
<1>2. TypeOK /\ Books /\ [Next]_vars =>
         [\A r \in Requests :
            tokens[job[r].grant].status = "revoked" /\ pc[r] \in InFlight =>
               /\ counted[r] = {} => counted'[r] = {}
               /\ pc[r] \in {"lookup", "record"} =>
                     pc'[r] = pc[r] \/ status'[r] \in {"401", "500", "502"}]_vars
  BY BarredStep DEF Barred
<1> QED
  BY <1>1, <1>2, BooksInductive, TypeCorrect, PTL DEF Spec, RevocationBites

(* A request of a revoked grant that is not on the books. *)
ShutOut(r, g) ==
    /\ tokens[g].status = "revoked"
    /\ job[r].grant = g
    /\ pc[r] # "idle"
    /\ counted[r] = {}

LEMMA RevokedStays ==
    ASSUME TypeOK, [Next]_vars, NEW g \in Grants, tokens[g].status = "revoked"
    PROVE  tokens'[g].status = "revoked"
<1> USE DEF storageVars, engineVars, history
<1>1. ASSUME UNCHANGED tokens PROVE tokens'[g].status = "revoked"
  BY <1>1
<1>2. ASSUME NEW q \in Requests, TokenApply(q) PROVE tokens'[g].status = "revoked"
  BY <1>2 DEF TokenApply, TokenReplaceable, TypeOK
<1>3. ASSUME NEW q \in Requests, Start(q) \/ Serve(q) PROVE tokens'[g].status = "revoked"
  <2>1. CASE ~TokenApply(q)
    BY <1>1, <1>3, <2>1 DEF Start, Serve, LookUp, ReadRecord, LoadView, Decide, Construct,
       OpenBlob, TokenGet, TokenGuard, ViewGet, ViewGuard, ViewApply, AppendLog, StoreEntry,
       CredentialRefused
  <2> QED
    BY <1>2, <2>1
<1>4. CASE Faults \/ Tick \/ UNCHANGED vars
  BY <1>1, <1>4 DEF Faults, Lose, CallLost, AppendUnheard, StoreEntry, ReplyLost, Tick, vars
<1>5. ASSUME NEW h \in Grants, Issue(h) \/ AdjustToken(h) \/ Revoke(h)
      PROVE  tokens'[g].status = "revoked"
  <2>1. CASE Revoke(h)
    BY <2>1 DEF Revoke, Ledger!RevokedToken, TypeOK
  <2>2. CASE Issue(h) \/ AdjustToken(h)
    BY <2>2 DEF Issue, AdjustToken, TypeOK
  <2> QED
    BY <1>5, <2>1, <2>2
<1>6. CASE Withdraw \/ Author
  BY <1>1, <1>5, <1>6 DEF Withdraw, Author, WritePolicy, StoreView, DeleteView, EraseEntry,
     RevokeEngine, Boot
<1> QED
  BY <1>3, <1>4, <1>6 DEF Next, Consume

(* The job of a request is set when it starts, and never again. *)
LEMMA JobKept ==
    ASSUME TypeOK, [Next]_vars, NEW r \in Requests, pc[r] # "idle"
    PROVE  job'[r] = job[r] /\ pc'[r] # "idle"
<1> USE DEF storageVars, engineVars, history
<1>1. ASSUME UNCHANGED <<job, pc>> PROVE job'[r] = job[r] /\ pc'[r] # "idle"
  BY <1>1
<1>2. ASSUME NEW q \in Requests, Start(q) PROVE job'[r] = job[r] /\ pc'[r] # "idle"
  <2>1. q # r
    BY <1>2 DEF Start
  <2> QED
    BY <1>2, <2>1, GotoHere DEF Start, TypeOK
<1>3. ASSUME NEW q \in Requests, UNCHANGED job,
             pc'[q] # "idle" \/ pc'[q] = pc[q], \A p \in Requests \ {q} : pc'[p] = pc[p]
      PROVE  job'[r] = job[r] /\ pc'[r] # "idle"
  BY <1>3
<1>4. ASSUME NEW q \in Requests, Serve(q) \/ Lose(q)
      PROVE  job'[r] = job[r] /\ pc'[r] # "idle"
  <2>1. UNCHANGED job
    BY <1>4 DEF Serve, Lose, LookUp, ReadRecord, LoadView, Decide, Construct, OpenBlob,
       TokenGet, TokenGuard, TokenApply, ViewGet, ViewGuard, ViewApply, AppendLog, StoreEntry,
       CredentialRefused, CallLost, AppendUnheard, ReplyLost
  <2>2. \/ \E code : Answer(q, code)
        \/ \E where : where # "idle" /\ Goto(q, where)
        \/ pc' = pc
    BY <1>4 DEF Serve, Lose, LookUp, ReadRecord, LoadView, Decide, Construct, OpenBlob,
       TokenGet, TokenGuard, TokenApply, ViewGet, ViewGuard, ViewApply, AppendLog, StoreEntry,
       CredentialRefused, CallLost, AppendUnheard, ReplyLost, Confirm, Displaced
  <2>3. CASE pc' = pc
    BY <1>3, <2>1, <2>3
  <2>4. CASE \E code : Answer(q, code)
    BY <1>3, <2>1, <2>4, AnswerHere
  <2>5. CASE \E where : where # "idle" /\ Goto(q, where)
    BY <1>3, <2>1, <2>5, GotoHere
  <2> QED
    BY <2>2, <2>3, <2>4, <2>5
<1>5. CASE Withdraw \/ Author \/ Tick \/ UNCHANGED vars
  BY <1>1, <1>5 DEF Withdraw, Author, Issue, Revoke, AdjustToken, WritePolicy, StoreView,
     DeleteView, EraseEntry, RevokeEngine, Boot, Tick, vars
<1> QED
  BY <1>2, <1>4, <1>5 DEF Next, Consume, Faults

(* An answered request is left alone. *)
LEMMA DoneStays ==
    ASSUME TypeOK, [Next]_vars, NEW r \in Requests, pc[r] = "done"
    PROVE  counted'[r] = counted[r]
<1> USE DEF storageVars, engineVars, history
<1>1. ASSUME NEW q \in Requests, TokenApply(q) \/ ViewApply(q) PROVE counted'[r] = counted[r]
  BY <1>1 DEF TokenApply, ViewApply, TypeOK
<1>2. ASSUME NEW q \in Requests, Start(q) \/ Serve(q) \/ Lose(q)
      PROVE  counted'[r] = counted[r]
  <2>1. CASE ~TokenApply(q) /\ ~ViewApply(q)
    BY <1>2, <2>1 DEF Start, Serve, Lose, LookUp, ReadRecord, LoadView, Decide, Construct,
       OpenBlob, TokenGet, TokenGuard, ViewGet, ViewGuard, AppendLog, StoreEntry,
       CredentialRefused, CallLost, AppendUnheard, ReplyLost
  <2> QED
    BY <1>1, <2>1
<1>3. CASE Withdraw \/ Author \/ Tick \/ UNCHANGED vars
  BY <1>3 DEF Withdraw, Author, Issue, Revoke, AdjustToken, WritePolicy, StoreView,
     DeleteView, EraseEntry, RevokeEngine, Boot, Tick, vars
<1> QED
  BY <1>2, <1>3 DEF Next, Consume, Faults

LEMMA ShutOutStays ==
    ASSUME NEW r \in Requests, NEW g \in Grants
    PROVE  TypeOK /\ Books /\ ShutOut(r, g) /\ [Next]_vars => ShutOut(r, g)'
<1> SUFFICES ASSUME TypeOK, Books, ShutOut(r, g), [Next]_vars PROVE ShutOut(r, g)'
  OBVIOUS
<1>1. tokens'[g].status = "revoked" /\ job'[r] = job[r] /\ pc'[r] # "idle"
  BY RevokedStays, JobKept DEF ShutOut
<1>2. CASE pc[r] \in InFlight
  <2>1. tokens[job[r].grant].status = "revoked"
    BY DEF ShutOut
  <2>2. Barred(r)
    BY <1>2, <2>1, BarredStep
  <2> QED
    BY <1>1, <2>2 DEF ShutOut, Barred
<1>3. CASE pc[r] = "done"
  BY <1>1, <1>3, DoneStays DEF ShutOut
<1> QED
  BY <1>2, <1>3 DEF TypeOK, ShutOut

(* Whatever a request has read by then, once its grant is revoked and it is *)
(* not counted, it is never answered with data: neither the requests in     *)
(* flight at that moment nor any that comes later.                          *)
THEOREM RevokedNeverDelivered ==
    \A r \in Requests, g \in Grants :
        Spec => [](ShutOut(r, g) => []~(r \in Delivered))
<1> SUFFICES ASSUME NEW r \in Requests, NEW g \in Grants
             PROVE  Spec => [](ShutOut(r, g) => []~(r \in Delivered))
  OBVIOUS
<1>1. Init => Books
  BY DEF Init, Books, Entry, BeforeToken, BetweenBumps
<1>2. Books /\ ShutOut(r, g) => ~(r \in Delivered)
  BY DEF Books, Entry, ShutOut, Delivered
<1> QED
  BY <1>1, <1>2, BooksInductive, ShutOutStays, TypeCorrect, PTL DEF Spec

----------------------------------------------------------------------------
(* Every step of the engine is, on the records, a step of the ledger.       *)

LEMMA LedgerInit == Init => Ledger!Init
  BY DEF Init, Ledger!Init, NoToken, NoView

LEMMA LedgerStep == TypeOK /\ [Next]_vars => [Ledger!Next]_<<tokens, views>>
<1> SUFFICES ASSUME TypeOK, [Next]_vars PROVE [Ledger!Next]_<<tokens, views>>
  OBVIOUS
<1> USE DEF storageVars, engineVars, history
<1>1. ASSUME UNCHANGED <<tokens, views>> PROVE [Ledger!Next]_<<tokens, views>>
  BY <1>1
<1>2. ASSUME NEW r \in Requests, TokenApply(r) PROVE [Ledger!Next]_<<tokens, views>>
  <2>1. CASE TokenReplaceable(r)
    <3>1. Stamp(now[r]) \in Ledger!Times
      BY StampBounds DEF TypeOK, Times
    <3>2. Ledger!CountToken(job[r].grant)
      BY <1>2, <2>1, <3>1 DEF TokenApply, TokenReplaceable, EtagMatches, BumpedToken,
         Ledger!CountToken
    <3> QED
      BY <3>2, ReadTypes DEF Ledger!Next
  <2>2. CASE ~TokenReplaceable(r)
    BY <1>1, <1>2, <2>2 DEF TokenApply
  <2> QED
    BY <2>1, <2>2
<1>3. ASSUME NEW r \in Requests, ViewApply(r) PROVE [Ledger!Next]_<<tokens, views>>
  <2>1. CASE ViewReplaceable(r)
    <3>1. Ledger!CountView(job[r].view)
      BY <1>3, <2>1 DEF ViewApply, ViewReplaceable, EtagMatches, BumpedView, Ledger!CountView
    <3> QED
      BY <3>1, ReadTypes DEF Ledger!Next
  <2>2. CASE ~ViewReplaceable(r)
    BY <1>1, <1>3, <2>2 DEF ViewApply
  <2> QED
    BY <2>1, <2>2
<1>4. ASSUME NEW r \in Requests, Start(r) \/ Serve(r) PROVE [Ledger!Next]_<<tokens, views>>
  <2>1. CASE ~TokenApply(r) /\ ~ViewApply(r)
    BY <1>1, <1>4, <2>1 DEF Start, Serve, LookUp, ReadRecord, LoadView, Decide, Construct,
       OpenBlob, TokenGet, TokenGuard, ViewGet, ViewGuard, AppendLog, StoreEntry,
       CredentialRefused
  <2> QED
    BY <1>2, <1>3, <2>1
<1>5. CASE Faults \/ Tick \/ UNCHANGED vars
  BY <1>1, <1>5 DEF Faults, Lose, CallLost, AppendUnheard, StoreEntry, ReplyLost, Tick, vars
<1>6. ASSUME NEW g \in Grants, Issue(g) \/ Revoke(g) \/ AdjustToken(g)
      PROVE  [Ledger!Next]_<<tokens, views>>
  <2>1. Issue(g) => Ledger!Issue(g)
    BY DEF Issue, Ledger!Issue
  <2>2. Revoke(g) => Ledger!Revoke(g)
    BY DEF Revoke, Ledger!Revoke
  <2>3. ASSUME AdjustToken(g) PROVE Ledger!AdjustToken(g)
    <3>1. PICK n \in AdjustTo, t \in {Ledger!Epoch, Stamp(clock)} :
             tokens' = [tokens EXCEPT ![g] = [@ EXCEPT !.count = n, !.last = t]]
      BY <2>3 DEF AdjustToken
    <3>2. t \in Ledger!Times
      BY EngineAssumption, StampBounds DEF TypeOK, Times, Ledger!Times, Ledger!Epoch
    <3>3. tokens[g].status = "live" /\ UNCHANGED views
      BY <2>3 DEF AdjustToken
    <3> QED
      BY <3>1, <3>2, <3>3 DEF Ledger!AdjustToken
  <2> QED
    BY <1>6, <2>1, <2>2, <2>3 DEF Ledger!Next
<1>7. ASSUME NEW v \in Views, StoreView(v) \/ DeleteView(v)
      PROVE  [Ledger!Next]_<<tokens, views>>
  <2>1. StoreView(v) => Ledger!StoreView(v)
    BY DEF StoreView, Ledger!StoreView
  <2>2. DeleteView(v) => Ledger!DeleteView(v)
    BY DEF DeleteView, Ledger!DeleteView, NoView
  <2> QED
    BY <1>7, <2>1, <2>2 DEF Ledger!Next
<1>8. CASE Withdraw \/ Author
  BY <1>1, <1>6, <1>7, <1>8 DEF Withdraw, Author, EraseEntry, RevokeEngine, Boot, WritePolicy
<1> QED
  BY <1>4, <1>5, <1>8 DEF Next, Consume

(* The detailed protocol implements the ledger. *)
THEOREM LedgerImplemented == Spec => ImplementsLedger
  BY LedgerInit, LedgerStep, TypeCorrect, PTL DEF Spec, ImplementsLedger, Ledger!Spec
=============================================================================
