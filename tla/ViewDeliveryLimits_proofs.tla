---------------------- MODULE ViewDeliveryLimits_proofs ----------------------
(***************************************************************************)
(* Proofs about the limits of a policy in ViewDelivery: how far a ceiling  *)
(* can be overshot, what a failed attempt of a conditional PUT costs, and  *)
(* what holds of intervals and of requests that come too late.             *)
(***************************************************************************)
EXTENDS ViewDelivery_proofs

----------------------------------------------------------------------------
(* What a step of request r can be, told by its own program counter, the   *)
(* records it has read and what it changes.                                *)

SameJob(r) == job'[r] = job[r]
SameNow(r) == now'[r] = now[r]
SameTries(r) == tries'[r] = tries[r]
Uncounted(r) == UNCHANGED <<tokens, views>> /\ counted'[r] = counted[r]
Unanswered(r) == status'[r] = status[r]

Starts(r) ==
    /\ pc[r] = "idle" /\ pc'[r] = "lookup"
    /\ Cardinality({q \in Requests : pc[q] \in InFlight}) < MaxInFlight
    /\ Uncounted(r) /\ Unanswered(r) /\ SameNow(r) /\ SameTries(r)

(* An answer other than the delivery. *)
Quits(r) ==
    /\ pc[r] \in InFlight /\ pc'[r] = "done" /\ status'[r] # "200"
    /\ Uncounted(r) /\ SameJob(r) /\ SameNow(r)

(* On the way to the delivery. *)
Advances(r) ==
    /\ \/ pc[r] = "lookup" /\ pc'[r] = "record" /\ SameNow(r)
       \/ /\ pc[r] = "record" /\ pc'[r] = "view" /\ SameNow(r)
          /\ tokens[job[r].grant].status = "live"
          /\ tok'[r] = tokens[job[r].grant]
       \/ /\ pc[r] = "view" /\ pc'[r] = "policy" /\ SameNow(r)
          /\ views[job[r].view].status = "stored"
          /\ vw'[r] = views[job[r].view] /\ tok'[r] = tok[r]
       \/ /\ pc[r] = "policy" /\ pc'[r] = "construct" /\ SameNow(r)
          /\ PolicyAllows(tok[r], policies[job[r].grant], vw[r], clock)
       \/ pc[r] = "construct" /\ pc'[r] = "blob" /\ SameNow(r)
       \/ pc[r] \in {"construct", "blob"} /\ pc'[r] = "tokGet" /\ now'[r] = clock
    /\ Uncounted(r) /\ Unanswered(r) /\ SameJob(r) /\ SameTries(r)

(* The attempts of a conditional PUT, up to the one that is applied. *)
Attempts(r) ==
    /\ \/ /\ pc[r] = "tokGet" /\ pc'[r] = "tokPut" /\ SameTries(r)
          /\ tokens[job[r].grant].status = "live"
          /\ tok'[r] = tokens[job[r].grant]
       \/ pc[r] = "tokPut" /\ pc'[r] = "tokApply" /\ SameTries(r) /\ tok'[r] = tok[r]
       \/ /\ pc[r] \in {"tokPut", "tokApply"} /\ pc'[r] = "tokGet"
          /\ ~TokenReplaceable(r) /\ tries'[r] = tries[r] + 1
       \/ /\ pc[r] = "vwGet" /\ pc'[r] = "vwPut" /\ SameTries(r)
          /\ views[job[r].view].status = "stored"
          /\ vw'[r] = views[job[r].view]
       \/ pc[r] = "vwPut" /\ pc'[r] = "vwApply" /\ SameTries(r) /\ vw'[r] = vw[r]
       \/ /\ pc[r] \in {"vwPut", "vwApply"} /\ pc'[r] = "vwGet"
          /\ ~ViewReplaceable(r) /\ tries'[r] = tries[r] + 1
       \/ /\ pc[r] \in Applying /\ pc'[r] = pc[r] /\ SameTries(r)
          /\ tok'[r] = tok[r] /\ vw'[r] = vw[r]
    /\ Uncounted(r) /\ Unanswered(r) /\ SameJob(r) /\ SameNow(r)

CommitsToken(r) ==
    /\ pc[r] = "tokApply" /\ TokenReplaceable(r)
    /\ tokens' = [tokens EXCEPT ![job[r].grant] = BumpedToken(tokens[job[r].grant], now[r])]
    /\ views' = views
    /\ pc'[r] = "vwGet" \/ pc'[r] = "done"
    /\ tries'[r] = 0
    /\ status'[r] = status[r] \/ status'[r] = "500"
    /\ SameJob(r) /\ SameNow(r)

CommitsView(r) ==
    /\ pc[r] = "vwApply" /\ ViewReplaceable(r)
    /\ views' = [views EXCEPT ![job[r].view] = BumpedView(views[job[r].view])]
    /\ tokens' = tokens
    /\ pc'[r] = "log" \/ pc'[r] = "done"
    /\ tries'[r] = 0
    /\ status'[r] = status[r] \/ status'[r] = "500"
    /\ SameJob(r) /\ SameNow(r)

Delivers(r) ==
    /\ pc[r] = "log" /\ pc'[r] = "done" /\ status'[r] = "200"
    /\ Uncounted(r) /\ SameJob(r) /\ SameNow(r)

(* The step is about r, and about nobody else. *)
Alone(r) ==
    /\ UNCHANGED <<policies, clock, tokBase, vwBase>>
    /\ \A q \in Requests \ {r} :
          /\ pc'[q] = pc[q] /\ job'[q] = job[q] /\ tok'[q] = tok[q] /\ vw'[q] = vw[q]
          /\ now'[q] = now[q] /\ tries'[q] = tries[q] /\ status'[q] = status[q]

Moves(r) == Alone(r) /\ (Starts(r) \/ Quits(r) \/ Advances(r) \/ Attempts(r)
                         \/ CommitsToken(r) \/ CommitsView(r) \/ Delivers(r))

LEMMA AnswerAlone ==
    ASSUME TypeOK, NEW r \in Requests, NEW code, Answer(r, code)
    PROVE  /\ pc'[r] = "done" /\ status'[r] = code /\ tries'[r] = 0
           /\ \A q \in Requests \ {r} :
                 /\ pc'[q] = pc[q] /\ tok'[q] = tok[q] /\ vw'[q] = vw[q]
                 /\ tries'[q] = tries[q] /\ status'[q] = status[q]
  BY DEF TypeOK, Answer

LEMMA QuitsAlone ==
    ASSUME TypeOK, NEW r \in Requests, NEW code, code # "200", Answer(r, code),
           pc[r] \in InFlight,
           UNCHANGED <<tokens, views, policies, clock, job, now, counted, tokBase, vwBase>>
    PROVE  Moves(r)
  BY AnswerAlone DEF Moves, Alone, Quits, Uncounted, SameJob, SameNow

LEMMA DisplacedAlone ==
    ASSUME TypeOK, NEW r \in Requests,
           UNCHANGED <<tokens, views, policies, clock, job, now, counted, tokBase, vwBase>>,
           \/ pc[r] \in {"tokPut", "tokApply"} /\ ~TokenReplaceable(r) /\ Displaced(r, "tokGet")
           \/ pc[r] \in {"vwPut", "vwApply"} /\ ~ViewReplaceable(r) /\ Displaced(r, "vwGet")
    PROVE  Moves(r)
<1>1. pc[r] \in InFlight
  BY DEF InFlight, StateCalls, Applying
<1>2. CASE Answer(r, "502")
  BY <1>1, <1>2, QuitsAlone
<1>3. CASE ~Answer(r, "502")
  <2>1. /\ tries' = [tries EXCEPT ![r] = @ + 1]
        /\ UNCHANGED <<tok, vw, status>>
    BY <1>3 DEF Displaced
  <2>2. \/ pc[r] \in {"tokPut", "tokApply"} /\ ~TokenReplaceable(r) /\ Goto(r, "tokGet")
        \/ pc[r] \in {"vwPut", "vwApply"} /\ ~ViewReplaceable(r) /\ Goto(r, "vwGet")
    BY <1>3 DEF Displaced
  <2>3. Alone(r)
    BY <2>1, <2>2, GotoHere DEF Alone, TypeOK
  <2>4. Attempts(r)
    BY <2>1, <2>2, GotoHere
    DEF Attempts, Uncounted, Unanswered, SameJob, SameNow, TypeOK
  <2> QED
    BY <2>3, <2>4 DEF Moves
<1> QED
  BY <1>2, <1>3

LEMMA ConfirmAlone ==
    ASSUME TypeOK, NEW r \in Requests, Confirm(r), pc[r] \in {"construct", "blob"},
           UNCHANGED <<tokens, views, policies, clock, job, counted, tokBase, vwBase>>
    PROVE  Moves(r)
<1>1. Alone(r)
  BY DEF Alone, Confirm, Goto, TypeOK
<1>2. Advances(r)
  BY DEF Advances, Confirm, Goto, TypeOK, Uncounted, Unanswered, SameJob, SameTries
<1> QED
  BY <1>1, <1>2 DEF Moves

LEMMA RequestMoves ==
    ASSUME TypeOK, NEW r \in Requests, Start(r) \/ Serve(r) \/ Lose(r)
    PROVE  Moves(r)
<1> USE DEF storageVars, engineVars, history
<1>1. CASE Start(r)
  <2>1. Alone(r) /\ Starts(r)
    BY <1>1, GotoHere DEF Start, Alone, Starts, Uncounted, Unanswered, SameNow, SameTries, TypeOK
  <2> QED
    BY <2>1 DEF Moves
<1>2. ASSUME NEW code, code # "200", Answer(r, code), pc[r] \in InFlight,
             UNCHANGED <<tokens, views, policies, clock, job, now, counted, tokBase, vwBase>>
      PROVE  Moves(r)
  BY <1>2, QuitsAlone
<1>3. CASE LookUp(r)
  <2>1. pc[r] = "lookup" /\ pc[r] \in InFlight
    BY <1>3 DEF LookUp, Calling, InFlight, StateCalls
  <2>2. CASE Answer(r, "401")
    BY <1>2, <1>3, <2>1, <2>2 DEF LookUp
  <2>3. CASE Goto(r, "record") /\ UNCHANGED <<tok, vw, tries, deaf, status>>
    <3>1. Alone(r) /\ Advances(r)
      BY <1>3, <2>1, <2>3, GotoHere DEF LookUp, Alone, Advances, Uncounted, Unanswered,
         SameJob, SameNow, SameTries
    <3> QED
      BY <3>1 DEF Moves
  <2> QED
    BY <1>3, <2>2, <2>3 DEF LookUp
<1>4. CASE ReadRecord(r)
  <2>1. pc[r] = "record" /\ pc[r] \in InFlight
    BY <1>4 DEF ReadRecord, Calling, InFlight, StateCalls
  <2>2. CASE Answer(r, "401") \/ Answer(r, "403") \/ Answer(r, "400")
    BY <1>2, <1>4, <2>1, <2>2 DEF ReadRecord
  <2>3. CASE /\ tokens[job[r].grant].status = "live"
             /\ tok' = [tok EXCEPT ![r] = tokens[job[r].grant]]
             /\ Goto(r, "view")
             /\ UNCHANGED <<vw, tries, deaf, status>>
    <3>1. Alone(r)
      BY <1>4, <2>3, GotoHere DEF ReadRecord, Alone, TypeOK
    <3>2. Advances(r)
      BY <1>4, <2>1, <2>3, GotoHere DEF ReadRecord, Advances, Uncounted, Unanswered,
         SameJob, SameNow, SameTries, TypeOK
    <3> QED
      BY <3>1, <3>2 DEF Moves
  <2> QED
    BY <1>4, <2>2, <2>3 DEF ReadRecord
<1>5. CASE LoadView(r)
  <2>1. pc[r] = "view" /\ pc[r] \in InFlight
    BY <1>5 DEF LoadView, Calling, InFlight, StateCalls
  <2>2. CASE Answer(r, "404") \/ Answer(r, "422")
    BY <1>2, <1>5, <2>1, <2>2 DEF LoadView
  <2>3. CASE /\ views[job[r].view].status = "stored"
             /\ vw' = [vw EXCEPT ![r] = views[job[r].view]]
             /\ Goto(r, "policy")
             /\ UNCHANGED <<tok, tries, deaf, status>>
    <3>1. Alone(r)
      BY <1>5, <2>3, GotoHere DEF LoadView, Alone, TypeOK
    <3>2. Advances(r)
      BY <1>5, <2>1, <2>3, GotoHere DEF LoadView, Advances, Uncounted, Unanswered,
         SameJob, SameNow, SameTries, TypeOK
    <3> QED
      BY <3>1, <3>2 DEF Moves
  <2> QED
    BY <1>5, <2>2, <2>3 DEF LoadView
<1>6. CASE Decide(r)
  <2>1. pc[r] = "policy" /\ pc[r] \in InFlight
    BY <1>6 DEF Decide, Calling, InFlight, StateCalls
  <2>2. CASE Answer(r, "403") \/ Answer(r, "422")
    BY <1>2, <1>6, <2>1, <2>2 DEF Decide
  <2>3. CASE /\ PolicyAllows(tok[r], policies[job[r].grant], vw[r], clock)
             /\ Goto(r, "construct")
             /\ UNCHANGED <<tok, vw, tries, deaf, status>>
    <3>1. Alone(r) /\ Advances(r)
      BY <1>6, <2>1, <2>3, GotoHere DEF Decide, Alone, Advances, Uncounted, Unanswered,
         SameJob, SameNow, SameTries
    <3> QED
      BY <3>1 DEF Moves
  <2> QED
    BY <1>6, <2>2, <2>3 DEF Decide
<1>7. CASE Construct(r)
  <2>1. pc[r] = "construct" /\ pc[r] \in InFlight
    BY <1>7 DEF Construct, CallingData, InFlight, DataCalls
  <2>2. UNCHANGED <<tokens, views, policies, clock, job, counted, tokBase, vwBase>>
    BY <1>7 DEF Construct
  <2>3. CASE (Answer(r, "502") \/ Answer(r, "404")) /\ UNCHANGED now
    BY <1>2, <2>1, <2>2, <2>3
  <2>4. CASE Confirm(r)
    BY <2>1, <2>2, <2>4, ConfirmAlone
  <2>5. CASE Goto(r, "blob") /\ UNCHANGED <<tok, vw, now, tries, deaf, status>>
    <3>1. Alone(r) /\ Advances(r)
      BY <2>1, <2>2, <2>5, GotoHere DEF Alone, Advances, Uncounted, Unanswered,
         SameJob, SameNow, SameTries
    <3> QED
      BY <3>1 DEF Moves
  <2> QED
    BY <1>7, <2>3, <2>4, <2>5 DEF Construct
<1>8. CASE OpenBlob(r)
  <2>1. pc[r] = "blob" /\ pc[r] \in InFlight
    BY <1>8 DEF OpenBlob, CallingData, InFlight, DataCalls
  <2>2. UNCHANGED <<tokens, views, policies, clock, job, counted, tokBase, vwBase>>
    BY <1>8 DEF OpenBlob
  <2>3. CASE Answer(r, "404") /\ UNCHANGED now
    BY <1>2, <2>1, <2>2, <2>3
  <2>4. CASE Confirm(r)
    BY <2>1, <2>2, <2>4, ConfirmAlone
  <2> QED
    BY <1>8, <2>3, <2>4 DEF OpenBlob
<1>9. CASE TokenGet(r)
  <2>1. pc[r] = "tokGet" /\ pc[r] \in InFlight
    BY <1>9 DEF TokenGet, Calling, InFlight, StateCalls
  <2>2. CASE Answer(r, "502")
    BY <1>2, <1>9, <2>1, <2>2 DEF TokenGet
  <2>3. CASE /\ tokens[job[r].grant].status = "live"
             /\ tok' = [tok EXCEPT ![r] = tokens[job[r].grant]]
             /\ Goto(r, "tokPut")
             /\ UNCHANGED <<vw, tries, deaf, status>>
    <3>1. Alone(r)
      BY <1>9, <2>3, GotoHere DEF TokenGet, Alone, TypeOK
    <3>2. Attempts(r)
      BY <1>9, <2>1, <2>3, GotoHere DEF TokenGet, Attempts, Uncounted, Unanswered,
         SameJob, SameNow, SameTries, TypeOK
    <3> QED
      BY <3>1, <3>2 DEF Moves
  <2> QED
    BY <1>9, <2>2, <2>3 DEF TokenGet
<1>10. CASE TokenGuard(r)
  <2>1. pc[r] = "tokPut" /\ pc[r] \in InFlight
    BY <1>10 DEF TokenGuard, Calling, InFlight, StateCalls
  <2>2. CASE Answer(r, "502")
    BY <1>2, <1>10, <2>1, <2>2 DEF TokenGuard
  <2>3. CASE Goto(r, "tokApply") /\ UNCHANGED <<tok, vw, tries, deaf, status>>
    <3>1. Alone(r) /\ Attempts(r)
      BY <1>10, <2>1, <2>3, GotoHere DEF TokenGuard, Alone, Attempts, Uncounted,
         Unanswered, SameJob, SameNow, SameTries
    <3> QED
      BY <3>1 DEF Moves
  <2>4. CASE ~EtagMatches(tokens[job[r].grant], tok[r]) /\ Displaced(r, "tokGet")
    <3>1. ~TokenReplaceable(r)
      BY <2>4 DEF TokenReplaceable
    <3> QED
      BY <1>10, <2>1, <2>4, <3>1, DisplacedAlone DEF TokenGuard
  <2> QED
    BY <1>10, <2>2, <2>3, <2>4 DEF TokenGuard
<1>11. CASE TokenApply(r)
  <2>1. /\ pc[r] = "tokApply" /\ pc[r] \in InFlight
        /\ UNCHANGED <<views, policies, clock, job, now, tokBase, vwBase>>
    BY <1>11 DEF TokenApply, InFlight, Applying
  <2>2. CASE ~TokenReplaceable(r)
    <3>1. UNCHANGED <<tokens, counted>>
      BY <1>11, <2>2 DEF TokenApply
    <3>2. CASE Answer(r, "500")
      BY <1>2, <2>1, <3>1, <3>2
    <3>3. CASE Displaced(r, "tokGet")
      BY <2>1, <2>2, <3>1, <3>3, DisplacedAlone
    <3> QED
      BY <1>11, <2>2, <3>2, <3>3 DEF TokenApply
  <2>3. CASE TokenReplaceable(r)
    <3>1. tok[r] = tokens[job[r].grant]
      BY <2>3 DEF TokenReplaceable, EtagMatches
    <3>2. tokens' = [tokens EXCEPT ![job[r].grant] = BumpedToken(tokens[job[r].grant], now[r])]
      BY <1>11, <2>3, <3>1 DEF TokenApply
    <3>3. CASE Answer(r, "500")
      <4>1. Alone(r) /\ CommitsToken(r)
        BY <2>1, <2>3, <3>2, <3>3, AnswerAlone DEF Alone, CommitsToken, SameJob, SameNow
      <4> QED
        BY <4>1 DEF Moves
    <3>4. CASE /\ Goto(r, "vwGet")
               /\ tok' = [tok EXCEPT ![r] = NoToken]
               /\ tries' = [tries EXCEPT ![r] = 0]
               /\ UNCHANGED <<vw, deaf, status>>
      <4>1. Alone(r)
        BY <2>1, <3>4, GotoHere DEF Alone, TypeOK
      <4>2. CommitsToken(r)
        BY <2>1, <2>3, <3>2, <3>4, GotoHere DEF CommitsToken, SameJob, SameNow, TypeOK
      <4> QED
        BY <4>1, <4>2 DEF Moves
    <3> QED
      BY <1>11, <2>3, <3>3, <3>4 DEF TokenApply
  <2> QED
    BY <2>2, <2>3
<1>12. CASE ViewGet(r)
  <2>1. pc[r] = "vwGet" /\ pc[r] \in InFlight
    BY <1>12 DEF ViewGet, Calling, InFlight, StateCalls
  <2>2. CASE Answer(r, "502")
    BY <1>2, <1>12, <2>1, <2>2 DEF ViewGet
  <2>3. CASE /\ views[job[r].view].status = "stored"
             /\ vw' = [vw EXCEPT ![r] = views[job[r].view]]
             /\ Goto(r, "vwPut")
             /\ UNCHANGED <<tok, tries, deaf, status>>
    <3>1. Alone(r)
      BY <1>12, <2>3, GotoHere DEF ViewGet, Alone, TypeOK
    <3>2. Attempts(r)
      BY <1>12, <2>1, <2>3, GotoHere DEF ViewGet, Attempts, Uncounted, Unanswered,
         SameJob, SameNow, SameTries, TypeOK
    <3> QED
      BY <3>1, <3>2 DEF Moves
  <2> QED
    BY <1>12, <2>2, <2>3 DEF ViewGet
<1>13. CASE ViewGuard(r)
  <2>1. pc[r] = "vwPut" /\ pc[r] \in InFlight
    BY <1>13 DEF ViewGuard, Calling, InFlight, StateCalls
  <2>2. CASE Answer(r, "502")
    BY <1>2, <1>13, <2>1, <2>2 DEF ViewGuard
  <2>3. CASE Goto(r, "vwApply") /\ UNCHANGED <<tok, vw, tries, deaf, status>>
    <3>1. Alone(r) /\ Attempts(r)
      BY <1>13, <2>1, <2>3, GotoHere DEF ViewGuard, Alone, Attempts, Uncounted,
         Unanswered, SameJob, SameNow, SameTries
    <3> QED
      BY <3>1 DEF Moves
  <2>4. CASE ~EtagMatches(views[job[r].view], vw[r]) /\ Displaced(r, "vwGet")
    <3>1. ~ViewReplaceable(r)
      BY <2>4 DEF ViewReplaceable
    <3> QED
      BY <1>13, <2>1, <2>4, <3>1, DisplacedAlone DEF ViewGuard
  <2> QED
    BY <1>13, <2>2, <2>3, <2>4 DEF ViewGuard
<1>14. CASE ViewApply(r)
  <2>1. /\ pc[r] = "vwApply" /\ pc[r] \in InFlight
        /\ UNCHANGED <<tokens, policies, clock, job, now, tokBase, vwBase>>
    BY <1>14 DEF ViewApply, InFlight, Applying
  <2>2. CASE ~ViewReplaceable(r)
    <3>1. UNCHANGED <<views, counted>>
      BY <1>14, <2>2 DEF ViewApply
    <3>2. CASE Answer(r, "500")
      BY <1>2, <2>1, <3>1, <3>2
    <3>3. CASE Displaced(r, "vwGet")
      BY <2>1, <2>2, <3>1, <3>3, DisplacedAlone
    <3> QED
      BY <1>14, <2>2, <3>2, <3>3 DEF ViewApply
  <2>3. CASE ViewReplaceable(r)
    <3>1. vw[r] = views[job[r].view]
      BY <2>3 DEF ViewReplaceable, EtagMatches
    <3>2. views' = [views EXCEPT ![job[r].view] = BumpedView(views[job[r].view])]
      BY <1>14, <2>3, <3>1 DEF ViewApply
    <3>3. CASE Answer(r, "500")
      <4>1. Alone(r) /\ CommitsView(r)
        BY <2>1, <2>3, <3>2, <3>3, AnswerAlone DEF Alone, CommitsView, SameJob, SameNow
      <4> QED
        BY <4>1 DEF Moves
    <3>4. CASE /\ Goto(r, "log")
               /\ vw' = [vw EXCEPT ![r] = NoView]
               /\ tries' = [tries EXCEPT ![r] = 0]
               /\ UNCHANGED <<tok, deaf, status>>
      <4>1. Alone(r)
        BY <2>1, <3>4, GotoHere DEF Alone, TypeOK
      <4>2. CommitsView(r)
        BY <2>1, <2>3, <3>2, <3>4, GotoHere DEF CommitsView, SameJob, SameNow, TypeOK
      <4> QED
        BY <4>1, <4>2 DEF Moves
    <3> QED
      BY <1>14, <2>3, <3>3, <3>4 DEF ViewApply
  <2> QED
    BY <2>2, <2>3
<1>15. CASE AppendLog(r)
  <2>1. Alone(r) /\ Delivers(r)
    BY <1>15, AnswerAlone DEF AppendLog, StoreEntry, Calling, Alone, Delivers, Uncounted,
       SameJob, SameNow
  <2> QED
    BY <2>1 DEF Moves
<1>16. CASE CredentialRefused(r) \/ CallLost(r) \/ AppendUnheard(r)
  <2>1. pc[r] \in InFlight
    BY <1>16 DEF CredentialRefused, CallLost, AppendUnheard, StoreEntry, Calling, InFlight,
       StateCalls
  <2> QED
    BY <1>2, <1>16, <2>1 DEF CredentialRefused, CallLost, AppendUnheard, StoreEntry
<1>17. CASE ReplyLost(r)
  <2>1. Alone(r) /\ Attempts(r)
    BY <1>17 DEF ReplyLost, Alone, Attempts, Uncounted, Unanswered, SameJob, SameNow, SameTries
  <2> QED
    BY <2>1 DEF Moves
<1> QED
  BY <1>1, <1>3, <1>4, <1>5, <1>6, <1>7, <1>8, <1>9, <1>10, <1>11, <1>12, <1>13, <1>14, <1>15, <1>16, <1>17 DEF Serve, Lose

(* What happens between the steps of requests while the owner authors      *)
(* nothing: time passes, grants are revoked and views deleted.             *)
Pauses ==
    /\ UNCHANGED <<pc, job, tok, vw, now, tries, status, policies>>
    /\ clock' = clock \/ clock' = clock + 1
    /\ \A g \in Grants : tokens'[g] = tokens[g] \/ tokens'[g] = Ledger!RevokedToken
    /\ \A v \in Views : views'[v] = views[v] \/ views'[v] = NoView

SettledNext == Consume \/ Faults \/ Withdraw \/ Tick

LEMMA SettledMoves ==
    ASSUME TypeOK, [SettledNext]_vars
    PROVE  Pauses \/ \E r \in Requests : Moves(r)
<1> USE DEF storageVars, engineVars, history
<1>1. CASE Consume \/ Faults
  BY <1>1, RequestMoves DEF Consume, Faults
<1>2. ASSUME NEW g \in Grants, Revoke(g) PROVE Pauses
  BY <1>2 DEF Revoke, Pauses, TypeOK
<1>3. ASSUME NEW v \in Views, DeleteView(v) PROVE Pauses
  BY <1>3 DEF DeleteView, Pauses, TypeOK
<1>4. ASSUME UNCHANGED <<pc, job, tok, vw, now, tries, status, policies, clock, tokens, views>>
      PROVE  Pauses
  BY <1>4 DEF Pauses
<1>5. CASE (\E r \in Requests : EraseEntry(r)) \/ RevokeEngine \/ Boot \/ UNCHANGED vars
  BY <1>4, <1>5 DEF EraseEntry, RevokeEngine, Boot, vars
<1>6. CASE Tick
  BY <1>6 DEF Tick, Pauses
<1> QED
  BY <1>1, <1>2, <1>3, <1>5, <1>6 DEF SettledNext, Withdraw

(* Both narrower specifications are special cases of Spec. *)
LEMMA SettledIsSpec == SettledSpec => Spec
<1>1. [Consume \/ Faults \/ Withdraw \/ Tick]_vars => [Next]_vars
  BY DEF Next
<1> QED
  BY <1>1, PTL DEF SettledSpec, Spec

LEMMA CalmIsSettled == CalmSpec => SettledSpec
<1>1. [Consume \/ Tick]_vars => [Consume \/ Faults \/ Withdraw \/ Tick]_vars
  OBVIOUS
<1> QED
  BY <1>1, PTL DEF SettledSpec, CalmSpec

----------------------------------------------------------------------------
(* How far a ceiling can be overshot. *)

LEMMA Counting ==
    /\ \A S \in SUBSET Requests : IsFiniteSet(S) /\ Cardinality(S) \in Nat
    /\ \A S, T \in SUBSET Requests : S \subseteq T => Cardinality(S) <= Cardinality(T)
    /\ \A S, T \in SUBSET Requests : \A r \in T :
          S \subseteq T \ {r} => Cardinality(S) + 1 <= Cardinality(T)
    /\ \A T \in SUBSET Requests : \A r \in Requests : Cardinality(T \cup {r}) <= Cardinality(T) + 1
<1>1. ASSUME NEW S \in SUBSET Requests PROVE IsFiniteSet(S) /\ Cardinality(S) \in Nat
  BY EngineAssumption, FS_Subset, FS_CardinalityType
<1>2. ASSUME NEW S \in SUBSET Requests, NEW T \in SUBSET Requests, S \subseteq T
      PROVE  Cardinality(S) <= Cardinality(T)
  BY <1>1, <1>2, FS_Subset
<1>3. ASSUME NEW S \in SUBSET Requests, NEW T \in SUBSET Requests, NEW r \in T, S \subseteq T \ {r}
      PROVE  Cardinality(S) + 1 <= Cardinality(T)
  <2>1. Cardinality(T \ {r}) = Cardinality(T) - 1
    BY <1>1, FS_RemoveElement
  <2>2. Cardinality(S) <= Cardinality(T \ {r})
    BY <1>2, <1>3
  <2> QED
    BY <1>1, <2>1, <2>2
<1>4. ASSUME NEW T \in SUBSET Requests, NEW r \in Requests
      PROVE  Cardinality(T \cup {r}) <= Cardinality(T) + 1
  BY <1>1, FS_AddElement
<1> QED
  BY <1>1, <1>2, <1>3, <1>4

Flying == {q \in Requests : pc[q] \in InFlight}
Crowd == Cardinality(Flying) <= MaxInFlight

(* Only a start adds to the requests in flight. *)
LEMMA MovesInFlight ==
    ASSUME NEW r \in Requests, Moves(r), ~Starts(r)
    PROVE  pc[r] \in InFlight
  BY DEF Moves, Quits, Advances, Attempts, CommitsToken, CommitsView, Delivers,
     InFlight, StateCalls, DataCalls, Applying

LEMMA CrowdStep == ASSUME TypeOK, Crowd, [SettledNext]_vars PROVE Crowd'
<1>1. CASE Pauses
  BY <1>1 DEF Pauses, Crowd, Flying
<1>2. ASSUME NEW r \in Requests, Moves(r) PROVE Crowd'
  <2>1. Flying' \subseteq Flying \cup {r}
    BY <1>2 DEF Moves, Alone, Flying
  <2>2. CASE Starts(r)
    <3>1. Cardinality(Flying) < MaxInFlight
      BY <2>2 DEF Starts, Flying
    <3>2. Flying \in SUBSET Requests /\ Flying' \in SUBSET Requests
          /\ Flying \cup {r} \in SUBSET Requests
      BY DEF Flying
    <3>3. Cardinality(Flying') <= Cardinality(Flying \cup {r})
      BY <2>1, <3>2, Counting
    <3> QED
      BY <3>1, <3>2, <3>3, Counting, EngineAssumption DEF Crowd
  <2>3. CASE ~Starts(r)
    <3>1. r \in Flying
      BY <1>2, <2>3, MovesInFlight DEF Flying
    <3>2. Flying' \subseteq Flying /\ Flying \in SUBSET Requests /\ Flying' \in SUBSET Requests
      BY <2>1, <3>1 DEF Flying
    <3> QED
      BY <3>2, Counting, EngineAssumption DEF Crowd
  <2> QED
    BY <2>2, <2>3
<1> QED
  BY <1>1, <1>2, SettledMoves

(* The requests that may yet be counted against a ceiling of n, although   *)
(* the counter has reached it: what they have read was below it.           *)
AfterDecide == {"construct", "blob", "tokGet", "tokPut", "tokApply"}
TokenHopeful(r, n) ==
    \/ pc[r] \in {"view", "policy"} /\ tok[r].count < n
    \/ pc[r] \in AfterDecide
TokenHopefuls(g, n) == {r \in Requests : job[r].grant = g /\ TokenHopeful(r, n)}
ViewHopeful(r, n) ==
    \/ pc[r] = "policy" /\ vw[r].count < n
    \/ pc[r] \in AfterDecide \cup BetweenBumps
ViewHopefuls(v, n) == {r \in Requests : job[r].view = v /\ ViewHopeful(r, n)}

(* Once a counter has reached its ceiling, it can only grow by these. *)
TokenRoom ==
    \A g \in Grants : \A n \in policies[g].max :
       tokens[g].count >= n
          => tokens[g].count + Cardinality(TokenHopefuls(g, n)) <= Overshoot(n)
ViewRoom ==
    \A v \in Views : \A n \in views[v].limit :
       views[v].count >= n
          => views[v].count + Cardinality(ViewHopefuls(v, n)) <= Overshoot(n)

(* The ceiling a request has read is the one there is. *)
Limits ==
    /\ \A v \in Views : views[v].status = "absent" => views[v].limit = {}
    /\ \A r \in Requests :
          pc[r] = "policy" /\ views[job[r].view].status = "stored"
             => vw[r].limit = views[job[r].view].limit

LEMMA LimitTypes ==
    ASSUME TypeOK
    PROVE  /\ \A g \in Grants : policies[g].max \subseteq Nat
           /\ \A v \in Views : views[v].limit \subseteq Nat
           /\ \A g \in Grants : tokens[g].count \in Nat
           /\ \A v \in Views : views[v].count \in Nat
           /\ \A g, n : TokenHopefuls(g, n) \in SUBSET Requests
           /\ \A v, n : ViewHopefuls(v, n) \in SUBSET Requests
           /\ Flying \in SUBSET Requests
           /\ \A r \in Requests : job[r].grant \in Grants /\ job[r].view \in Views
<1>1. \A g \in Grants : policies[g].max \subseteq Nat
  BY PodAssumption DEF TypeOK, PolicyDocs, NoPolicy
<1>2. \A v \in Views : views[v].limit \subseteq Nat
  BY PodAssumption DEF TypeOK, ViewRecords
<1> QED
  BY <1>1, <1>2, ReadTypes DEF TypeOK, TokenRecords, ViewRecords, TokenHopefuls,
     ViewHopefuls, Flying

LEMMA OvershootType ==
    /\ \A n \in Nat : Overshoot(n) \in Nat
    /\ \A n \in Nat \ {0} : Overshoot(n) = n + MaxInFlight - 1
    /\ Overshoot(0) = 0
  BY EngineAssumption DEF Overshoot

(* A step of r makes nobody hopeful who was not, once the count is there.   *)
LEMMA TokenHopeless ==
    ASSUME TypeOK, NEW r \in Requests, Moves(r), NEW g \in Grants, NEW n \in policies[g].max,
           tokens[g].count >= n
    PROVE  TokenHopefuls(g, n)' \subseteq TokenHopefuls(g, n)
<1>1. ASSUME NEW q \in Requests, q # r, job'[q].grant = g, TokenHopeful(q, n)'
      PROVE  q \in TokenHopefuls(g, n)
  BY <1>1 DEF Moves, Alone, TokenHopefuls, TokenHopeful
<1>2. ASSUME job'[r].grant = g, TokenHopeful(r, n)' PROVE r \in TokenHopefuls(g, n)
  <2>1. n \in Nat /\ tokens[g].count \in Nat
    BY LimitTypes
  <2>2. ~Starts(r) /\ ~Quits(r) /\ ~CommitsToken(r) /\ ~CommitsView(r) /\ ~Delivers(r)
    BY <1>2 DEF Starts, Quits, CommitsToken, CommitsView, Delivers, TokenHopeful, AfterDecide
  <2>3. CASE Advances(r)
    <3>1. job'[r] = job[r]
      BY <2>3 DEF Advances, SameJob
    <3>2. TokenHopeful(r, n)
      BY <1>2, <2>1, <2>3, <3>1 DEF Advances, TokenHopeful, AfterDecide, PolicyAllows
    <3> QED
      BY <1>2, <3>1, <3>2 DEF TokenHopefuls
  <2>4. CASE Attempts(r)
    <3>1. job'[r] = job[r]
      BY <2>4 DEF Attempts, SameJob
    <3>2. TokenHopeful(r, n)
      BY <1>2, <2>4 DEF Attempts, TokenHopeful, AfterDecide, Applying
    <3> QED
      BY <1>2, <3>1, <3>2 DEF TokenHopefuls
  <2> QED
    BY <2>2, <2>3, <2>4 DEF Moves
<1> QED
  BY <1>1, <1>2 DEF TokenHopefuls

LEMMA TokenRoomStep ==
    ASSUME TypeOK, Crowd, TokenRoom, [SettledNext]_vars PROVE TokenRoom'
<1> SUFFICES ASSUME NEW g \in Grants, NEW n \in policies'[g].max, tokens'[g].count >= n
             PROVE  tokens'[g].count + Cardinality(TokenHopefuls(g, n)') <= Overshoot(n)
  BY DEF TokenRoom, Overshoot
<1> DEFINE H == TokenHopefuls(g, n)
<1>0. policies' = policies
  BY SettledMoves DEF Pauses, Moves, Alone
<1>1. n \in policies[g].max /\ n \in Nat /\ tokens[g].count \in Nat /\ Overshoot(n) \in Nat
  BY <1>0, LimitTypes, OvershootType
<1>2. H \in SUBSET Requests /\ H' \in SUBSET Requests
      /\ Cardinality(H) \in Nat /\ Cardinality(H') \in Nat
  BY Counting DEF TokenHopefuls
<1>3. tokens[g].count >= n => tokens[g].count + Cardinality(H) <= Overshoot(n)
  BY <1>1 DEF TokenRoom
<1>4. ASSUME H' \subseteq H, tokens[g].count >= n, tokens'[g].count <= tokens[g].count,
             tokens'[g].count \in Nat
      PROVE  tokens'[g].count + Cardinality(H') <= Overshoot(n)
  <2>1. Cardinality(H') <= Cardinality(H)
    BY <1>2, <1>4, Counting
  <2> QED
    BY <1>1, <1>2, <1>3, <1>4, <2>1
<1>5. CASE Pauses
  <2>1. CASE tokens'[g] = tokens[g]
    <3>1. H' = H
      BY <1>5 DEF Pauses, TokenHopefuls, TokenHopeful
    <3> QED
      BY <1>1, <1>4, <2>1, <3>1
  <2>2. CASE tokens'[g] = Ledger!RevokedToken
    <3>1. tokens'[g].count = 0 /\ n = 0
      BY <1>1, <2>2 DEF Ledger!RevokedToken, Ledger!FreshToken
    <3>2. H' = H
      BY <1>5 DEF Pauses, TokenHopefuls, TokenHopeful
    <3> QED
      BY <1>1, <1>4, <3>1, <3>2
  <2> QED
    BY <1>5, <2>1, <2>2 DEF Pauses
<1>6. ASSUME NEW r \in Requests, Moves(r)
      PROVE  tokens'[g].count + Cardinality(H') <= Overshoot(n)
  <2>1. CASE tokens'[g].count = tokens[g].count
    BY <1>1, <1>4, <1>6, <2>1, TokenHopeless
  <2>2. CASE tokens'[g].count # tokens[g].count
    <3>1. CommitsToken(r) /\ job[r].grant = g
      BY <1>6, <2>2 DEF Moves, Starts, Quits, Advances, Attempts, CommitsToken, CommitsView,
         Delivers, Uncounted, TypeOK
    <3>2. tokens'[g].count = tokens[g].count + 1
      <4>1. tokens[g] \in TokenRecords
        BY DEF TypeOK
      <4> QED
        BY <3>1, <4>1 DEF CommitsToken, BumpedToken, TokenRecords, TypeOK
    <3>3. r \in H /\ r \in Flying /\ r \notin H'
      BY <3>1 DEF CommitsToken, TokenHopefuls, TokenHopeful, AfterDecide, Flying, InFlight,
         Applying
    <3>4. CASE tokens[g].count >= n
      <4>1. H' \subseteq H \ {r}
        BY <1>1, <1>6, <3>3, <3>4, TokenHopeless
      <4>2. Cardinality(H') + 1 <= Cardinality(H)
        BY <1>2, <3>3, <4>1, Counting
      <4> QED
        BY <1>1, <1>2, <1>3, <3>2, <3>4, <4>2
    <3>5. CASE ~(tokens[g].count >= n)
      <4>1. n = tokens[g].count + 1 /\ n # 0
        BY <1>1, <3>2, <3>5
      <4>2. \A q \in H' : q # r
        BY <3>3
      <4>3. H' \subseteq Flying \ {r}
        BY <1>6, <4>2 DEF Moves, Alone, TokenHopefuls, TokenHopeful, AfterDecide, Flying,
           InFlight, StateCalls, DataCalls, Applying
      <4>4. Cardinality(H') + 1 <= Cardinality(Flying) /\ Cardinality(Flying) \in Nat
        BY <1>2, <3>3, <4>3, Counting, LimitTypes
      <4> QED
        BY <1>1, <1>2, <3>2, <4>1, <4>4, OvershootType, EngineAssumption DEF Crowd
    <3> QED
      BY <3>4, <3>5
  <2> QED
    BY <2>1, <2>2
<1> QED
  BY <1>5, <1>6, SettledMoves

LEMMA NoViewFields == NoView.status = "absent" /\ NoView.limit = {} /\ NoView.count = 0
  BY DEF NoView, Ledger!NoView

LEMMA LimitsStep == ASSUME TypeOK, Limits, [SettledNext]_vars PROVE Limits'
<1>1. CASE Pauses
  <2>1. ASSUME NEW v \in Views, views'[v].status = "absent" PROVE views'[v].limit = {}
    BY <1>1, <2>1, NoViewFields DEF Pauses, Limits
  <2>2. ASSUME NEW r \in Requests, pc'[r] = "policy", views'[job'[r].view].status = "stored"
        PROVE  vw'[r].limit = views'[job'[r].view].limit
    <3>1. job[r].view \in Views
      BY LimitTypes
    <3>2. views'[job[r].view] = views[job[r].view]
      BY <1>1, <2>2, <3>1, NoViewFields DEF Pauses
    <3> QED
      BY <1>1, <2>2, <3>2 DEF Pauses, Limits
  <2> QED
    BY <2>1, <2>2 DEF Limits
<1>2. ASSUME NEW r \in Requests, Moves(r) PROVE Limits'
  <2>1. \A v \in Views : views'[v].limit = views[v].limit /\ views'[v].status = views[v].status
    <3>1. CASE CommitsView(r)
      BY <3>1 DEF CommitsView, BumpedView, TypeOK, ViewRecords
    <3>2. CASE ~CommitsView(r)
      BY <1>2, <3>2 DEF Moves, Starts, Quits, Advances, Attempts, CommitsToken, Delivers,
         Uncounted
    <3> QED
      BY <3>1, <3>2
  <2>2. ASSUME NEW q \in Requests, pc'[q] = "policy"
        PROVE  \/ pc[q] = "policy" /\ vw'[q] = vw[q] /\ job'[q] = job[q]
               \/ /\ vw'[q] = views[job[q].view] /\ job'[q] = job[q]
    <3>1. CASE q # r
      BY <1>2, <2>2, <3>1 DEF Moves, Alone
    <3>2. CASE q = r
      BY <1>2, <2>2, <3>2 DEF Moves, Starts, Quits, Advances, Attempts, CommitsToken,
         CommitsView, Delivers, SameJob, Applying
    <3> QED
      BY <3>1, <3>2
  <2> QED
    BY <2>1, <2>2, LimitTypes DEF Limits
<1> QED
  BY <1>1, <1>2, SettledMoves

LEMMA ViewHopeless ==
    ASSUME TypeOK, Limits, NEW r \in Requests, Moves(r), NEW v \in Views,
           NEW n \in views[v].limit, views[v].count >= n
    PROVE  ViewHopefuls(v, n)' \subseteq ViewHopefuls(v, n)
<1>1. ASSUME NEW q \in Requests, q # r, job'[q].view = v, ViewHopeful(q, n)'
      PROVE  q \in ViewHopefuls(v, n)
  BY <1>1 DEF Moves, Alone, ViewHopefuls, ViewHopeful
<1>2. ASSUME job'[r].view = v, ViewHopeful(r, n)' PROVE r \in ViewHopefuls(v, n)
  <2>1. n \in Nat /\ views[v].count \in Nat /\ views[v].status = "stored"
    BY LimitTypes DEF Limits, TypeOK, ViewRecords
  <2>2. ~Starts(r) /\ ~Quits(r) /\ ~CommitsView(r) /\ ~Delivers(r)
    BY <1>2 DEF Starts, Quits, CommitsView, Delivers, ViewHopeful, AfterDecide, BetweenBumps
  <2>3. job'[r] = job[r]
    BY <1>2, <2>2 DEF Moves, Advances, Attempts, CommitsToken, SameJob
  <2>4. CASE Advances(r)
    <3>1. CASE pc[r] = "policy"
      <4>1. PolicyAllows(tok[r], policies[job[r].grant], vw[r], clock)
        BY <2>4, <3>1 DEF Advances
      <4>2. vw[r].limit = views[v].limit
        BY <1>2, <2>1, <2>3, <3>1 DEF Limits
      <4> QED
        BY <1>2, <2>3, <3>1, <4>1, <4>2 DEF PolicyAllows, ViewHopefuls, ViewHopeful
    <3>2. CASE pc[r] # "policy"
      BY <1>2, <2>1, <2>3, <2>4, <3>2 DEF Advances, ViewHopefuls, ViewHopeful, AfterDecide,
         BetweenBumps
    <3> QED
      BY <3>1, <3>2
  <2>5. CASE Attempts(r) \/ CommitsToken(r)
    BY <1>2, <2>3, <2>5 DEF Attempts, CommitsToken, ViewHopefuls, ViewHopeful, AfterDecide,
       BetweenBumps, Applying
  <2> QED
    BY <1>2, <2>2, <2>4, <2>5 DEF Moves
<1> QED
  BY <1>1, <1>2 DEF ViewHopefuls

LEMMA ViewRoomStep ==
    ASSUME TypeOK, Crowd, Limits, ViewRoom, [SettledNext]_vars PROVE ViewRoom'
<1> SUFFICES ASSUME NEW v \in Views, NEW n \in views'[v].limit, views'[v].count >= n
             PROVE  views'[v].count + Cardinality(ViewHopefuls(v, n)') <= Overshoot(n)
  BY DEF ViewRoom, Overshoot
<1> DEFINE H == ViewHopefuls(v, n)
<1>1. H \in SUBSET Requests /\ H' \in SUBSET Requests
      /\ Cardinality(H) \in Nat /\ Cardinality(H') \in Nat
  BY Counting DEF ViewHopefuls
<1>2. CASE Pauses
  <2>1. views'[v] = views[v]
    BY <1>2, NoViewFields DEF Pauses
  <2>2. H' = H
    BY <1>2 DEF Pauses, ViewHopefuls, ViewHopeful
  <2> QED
    BY <2>1, <2>2 DEF ViewRoom
<1>3. ASSUME NEW r \in Requests, Moves(r)
      PROVE  views'[v].count + Cardinality(H') <= Overshoot(n)
  <2>1. \/ views'[v] = views[v]
        \/ CommitsView(r) /\ job[r].view = v /\ views'[v] = BumpedView(views[v])
    BY <1>3 DEF Moves, Starts, Quits, Advances, Attempts, CommitsToken, CommitsView,
       Delivers, Uncounted, TypeOK
  <2>2. views[v] \in ViewRecords
    BY DEF TypeOK
  <2>3. n \in views[v].limit
    BY <2>1, <2>2 DEF BumpedView, ViewRecords
  <2>4. n \in Nat /\ views[v].count \in Nat /\ Overshoot(n) \in Nat
    BY <2>3, LimitTypes, OvershootType
  <2>5. CASE views'[v] = views[v]
    <3>1. Cardinality(H') <= Cardinality(H)
      BY <1>1, <1>3, <2>3, <2>5, ViewHopeless, Counting
    <3>2. views[v].count + Cardinality(H) <= Overshoot(n)
      BY <2>3, <2>5 DEF ViewRoom
    <3> QED
      BY <1>1, <2>4, <2>5, <3>1, <3>2
  <2>6. CASE CommitsView(r) /\ job[r].view = v /\ views'[v] = BumpedView(views[v])
    <3>1. views'[v].count = views[v].count + 1
      BY <2>2, <2>6 DEF BumpedView, ViewRecords
    <3>2. r \in H /\ r \in Flying /\ r \notin H'
      BY <2>6 DEF CommitsView, ViewHopefuls, ViewHopeful, AfterDecide, BetweenBumps, Flying,
         InFlight, Applying
    <3>3. CASE views[v].count >= n
      <4>1. H' \subseteq H \ {r}
        BY <1>3, <2>3, <3>2, <3>3, ViewHopeless
      <4>2. Cardinality(H') + 1 <= Cardinality(H)
        BY <1>1, <3>2, <4>1, Counting
      <4>3. views[v].count + Cardinality(H) <= Overshoot(n)
        BY <2>3, <3>3 DEF ViewRoom
      <4> QED
        BY <1>1, <2>4, <3>1, <4>2, <4>3
    <3>4. CASE ~(views[v].count >= n)
      <4>1. n = views[v].count + 1 /\ n # 0
        BY <2>4, <3>1, <3>4
      <4>2. \A q \in H' : q # r
        BY <3>2
      <4>3. H' \subseteq Flying \ {r}
        BY <1>3, <4>2 DEF Moves, Alone, ViewHopefuls, ViewHopeful, AfterDecide, BetweenBumps,
           Flying, InFlight, StateCalls, DataCalls, Applying
      <4>4. Cardinality(H') + 1 <= Cardinality(Flying) /\ Cardinality(Flying) \in Nat
        BY <1>1, <3>2, <4>3, Counting, LimitTypes
      <4> QED
        BY <1>1, <2>4, <3>1, <4>1, <4>4, OvershootType, EngineAssumption DEF Crowd
    <3> QED
      BY <3>3, <3>4
  <2> QED
    BY <2>1, <2>5, <2>6
<1> QED
  BY <1>2, <1>3, SettledMoves

(* While the owner authors nothing, a ceiling of n >= 1 is exceeded by      *)
(* fewer than MaxInFlight deliveries, and one of 0 not at all, through      *)
(* every revocation, lost call and interleaving.                           *)
THEOREM CeilingsNearlyHold ==
    /\ SettledSpec => []CeilingOvershoot
    /\ CalmSpec => []CeilingOvershoot
<1>1. Init => Crowd /\ Limits /\ TokenRoom /\ ViewRoom
  <2> SUFFICES ASSUME Init PROVE Crowd /\ Limits /\ TokenRoom /\ ViewRoom
    OBVIOUS
  <2>1. /\ Flying = {}
        /\ \A g, n : TokenHopefuls(g, n) = {}
        /\ \A v, n : ViewHopefuls(v, n) = {}
    BY DEF Init, Flying, InFlight, StateCalls, DataCalls, Applying, TokenHopefuls,
       TokenHopeful, ViewHopefuls, ViewHopeful, AfterDecide, BetweenBumps
  <2>2. ASSUME NEW g \in Grants PROVE tokens[g].count = 0 /\ policies[g].max \subseteq Nat
    <3>1. tokens[g] \in {NoToken, Ledger!FreshToken} /\ policies[g] \in Policies \cup {NoPolicy}
      BY DEF Init
    <3>2. NoToken.count = 0 /\ Ledger!FreshToken.count = 0
      BY DEF NoToken, Ledger!UnissuedToken, Ledger!FreshToken
    <3> QED
      BY <3>1, <3>2, PodAssumption DEF PolicyDocs, NoPolicy
  <2>3. ASSUME NEW v \in Views
        PROVE  /\ views[v].count = 0 /\ views[v].limit \subseteq Nat
               /\ views[v].status = "absent" => views[v].limit = {}
    <3>1. views[v] \in {NoView} \cup
             {Ledger!NewView(d, limit) : d \in Defs, limit \in ViewLimits}
      BY DEF Init
    <3>2. CASE views[v] = NoView
      BY <3>2, NoViewFields
    <3>3. CASE views[v] # NoView
      <4>1. PICK d \in Defs, limit \in ViewLimits : views[v] = Ledger!NewView(d, limit)
        BY <3>1, <3>3
      <4> QED
        BY <4>1, PodAssumption DEF Ledger!NewView
    <3> QED
      BY <3>2, <3>3
  <2>4. \A n \in Nat : 0 >= n => 0 + 0 <= Overshoot(n)
    BY DEF Overshoot
  <2>5. Limits
    BY <2>3 DEF Init, Limits
  <2>6. Cardinality({}) = 0
    BY FS_EmptySet
  <2>7. Crowd
    BY <2>1, <2>6, EngineAssumption DEF Crowd
  <2>8. TokenRoom
    BY <2>1, <2>2, <2>4, <2>6 DEF TokenRoom
  <2>9. ViewRoom
    BY <2>1, <2>3, <2>4, <2>6 DEF ViewRoom
  <2> QED
    BY <2>5, <2>7, <2>8, <2>9
<1>2. TypeOK /\ TokenRoom /\ ViewRoom => CeilingOvershoot
  <2> SUFFICES ASSUME TypeOK, TokenRoom, ViewRoom PROVE CeilingOvershoot
    OBVIOUS
  <2>1. \A n \in Nat : n <= Overshoot(n)
    BY EngineAssumption DEF Overshoot
  <2>2. \A g, n : Cardinality(TokenHopefuls(g, n)) \in Nat
    BY LimitTypes, Counting
  <2>3. \A v, n : Cardinality(ViewHopefuls(v, n)) \in Nat
    BY LimitTypes, Counting
  <2>4. ASSUME NEW g \in Grants, NEW n \in policies[g].max PROVE tokens[g].count <= Overshoot(n)
    BY <2>1, <2>2, LimitTypes, OvershootType DEF TokenRoom
  <2>5. ASSUME NEW v \in Views, NEW n \in views[v].limit PROVE views[v].count <= Overshoot(n)
    BY <2>1, <2>3, LimitTypes, OvershootType DEF ViewRoom
  <2> QED
    BY <2>4, <2>5 DEF CeilingOvershoot
<1>3. /\ TypeOK /\ Crowd /\ Limits /\ TokenRoom /\ ViewRoom /\ [SettledNext]_vars
         => Crowd' /\ Limits' /\ TokenRoom' /\ ViewRoom'
  BY CrowdStep, LimitsStep, TokenRoomStep, ViewRoomStep
<1>4. SettledSpec => []CeilingOvershoot
  BY <1>1, <1>2, <1>3, SettledIsSpec, TypeCorrect, PTL DEF SettledSpec, SettledNext
<1> QED
  BY <1>4, CalmIsSettled, PTL

----------------------------------------------------------------------------
(* What a failed attempt of a conditional PUT costs. *)

(* A step of a request changes a record by counting a delivery, if at all.  *)
LEMMA MovesGrow ==
    ASSUME TypeOK, NEW r \in Requests, Moves(r)
    PROVE  /\ \A g \in Grants : \/ tokens'[g] = tokens[g]
                               \/ /\ tokens'[g].status = tokens[g].status
                                  /\ tokens'[g].count = tokens[g].count + 1
                                  /\ tokens'[g].last = Stamp(now[r])
                                  /\ CommitsToken(r) /\ g = job[r].grant
           /\ \A v \in Views : \/ views'[v] = views[v]
                              \/ /\ views'[v].status = views[v].status
                                 /\ views'[v].limit = views[v].limit
                                 /\ views'[v].count = views[v].count + 1
<1>1. CASE CommitsToken(r)
  BY <1>1 DEF CommitsToken, BumpedToken, TypeOK, TokenRecords
<1>2. CASE CommitsView(r)
  BY <1>2 DEF CommitsView, BumpedView, TypeOK, ViewRecords
<1>3. CASE UNCHANGED <<tokens, views>>
  BY <1>3
<1> QED
  BY <1>1, <1>2, <1>3 DEF Moves, Starts, Quits, Advances, Attempts, Delivers, Uncounted

(* Nobody but deliveries has written to the records. *)
Untouched == (\A g \in Grants : tokBase[g] = 0) /\ (\A v \in Views : vwBase[v] = 0)

(* A copy that a request holds is the record or has fallen behind it, and   *)
(* an attempt that failed has seen the counter move.                        *)
Unwritten == {"idle", "lookup", "record", "view", "policy", "construct", "blob"}
Contended(r) ==
    LET token == tokens[job[r].grant]
        view == views[job[r].view] IN
    /\ pc[r] \in Unwritten => tries[r] = 0
    /\ pc[r] = "tokGet" => tries[r] <= token.count
    /\ pc[r] \in {"tokPut", "tokApply"} =>
          /\ token.status = "live" /\ tries[r] <= tok[r].count
          /\ tok[r] = token \/ tok[r].count + 1 <= token.count
    /\ pc[r] = "vwGet" => tries[r] <= view.count
    /\ pc[r] \in {"vwPut", "vwApply"} =>
          /\ view.status = "stored" /\ tries[r] <= vw[r].count
          /\ vw[r] = view \/ vw[r].count + 1 <= view.count

LEMMA CalmMoves ==
    ASSUME TypeOK, [Consume \/ Tick]_vars
    PROVE  \/ UNCHANGED <<tokens, views, pc, job, tok, vw, tries, tokBase, vwBase>>
           \/ \E r \in Requests : Moves(r)
<1>1. CASE Consume
  BY <1>1, RequestMoves DEF Consume
<1>2. CASE Tick \/ UNCHANGED vars
  BY <1>2 DEF Tick, vars, storageVars, engineVars, history
<1> QED
  BY <1>1, <1>2

LEMMA UntouchedStep == ASSUME TypeOK, Untouched, [Consume \/ Tick]_vars PROVE Untouched'
  BY CalmMoves DEF Untouched, Moves, Alone

LEMMA ContendedStep ==
    ASSUME TypeOK, NEW r \in Requests, Contended(r), [Consume \/ Tick]_vars
    PROVE  Contended(r)'
<1>1. CASE UNCHANGED <<tokens, views, pc, job, tok, vw, tries, tokBase, vwBase>>
  BY <1>1 DEF Contended
<1>2. /\ job[r].grant \in Grants /\ tokens[job[r].grant].count \in Nat /\ tok[r].count \in Nat
      /\ job[r].view \in Views /\ views[job[r].view].count \in Nat /\ vw[r].count \in Nat
      /\ tries[r] \in Nat
  BY ReadTypes DEF TypeOK, TokenRecords, ViewRecords
<1>3. ASSUME NEW q \in Requests, Moves(q), q # r PROVE Contended(r)'
  <2>1. /\ pc'[r] = pc[r] /\ job'[r] = job[r] /\ tok'[r] = tok[r] /\ vw'[r] = vw[r]
        /\ tries'[r] = tries[r]
    BY <1>3 DEF Moves, Alone
  <2>2. /\ tokens'[job[r].grant] = tokens[job[r].grant] \/
              /\ tokens'[job[r].grant].status = tokens[job[r].grant].status
              /\ tokens'[job[r].grant].count = tokens[job[r].grant].count + 1
        /\ views'[job[r].view] = views[job[r].view] \/
              /\ views'[job[r].view].status = views[job[r].view].status
              /\ views'[job[r].view].count = views[job[r].view].count + 1
    BY <1>2, <1>3, MovesGrow
  <2> QED
    BY <1>2, <2>1, <2>2 DEF Contended
<1>4. ASSUME Moves(r) PROVE Contended(r)'
  <2>1. CASE Starts(r) \/ Quits(r) \/ Delivers(r)
    BY <2>1 DEF Starts, Quits, Delivers, Contended, Unwritten, SameTries
  <2>2. CASE Advances(r)
    BY <1>2, <2>2 DEF Advances, Contended, Unwritten, SameJob, SameTries, Uncounted
  <2>3. CASE Attempts(r)
    <3>1. job'[r] = job[r] /\ tokens' = tokens /\ views' = views
      BY <2>3 DEF Attempts, SameJob, Uncounted
    <3>2. CASE pc[r] \in {"tokGet", "tokPut", "tokApply"}
      BY <1>2, <2>3, <3>1, <3>2 DEF Attempts, Contended, Unwritten, SameTries, Applying,
         TokenReplaceable, EtagMatches
    <3>3. CASE pc[r] \in {"vwGet", "vwPut", "vwApply"}
      BY <1>2, <2>3, <3>1, <3>3 DEF Attempts, Contended, Unwritten, SameTries, Applying,
         ViewReplaceable, EtagMatches
    <3> QED
      BY <2>3, <3>2, <3>3 DEF Attempts, Applying
  <2>4. CASE CommitsToken(r)
    BY <1>2, <2>4 DEF CommitsToken, Contended, Unwritten, SameJob
  <2>5. CASE CommitsView(r)
    BY <2>5 DEF CommitsView, Contended, Unwritten
  <2> QED
    BY <1>4, <2>1, <2>2, <2>3, <2>4, <2>5 DEF Moves
<1> QED
  BY <1>1, <1>3, <1>4, CalmMoves

(* With nothing but deliveries writing to the records, a request has lost   *)
(* no more attempts of a conditional PUT than deliveries have been counted  *)
(* on the record: every lost attempt is another delivery's commit.          *)
THEOREM LostAttemptsAreCommits == CalmSpec => []DisplacedByCommits
<1> DEFINE Cost == \A r \in Requests : Contended(r)
<1>1. Init => Untouched /\ Cost
  BY DEF Init, Untouched, Contended, Unwritten
<1>2. TypeOK /\ Untouched /\ Cost /\ [Consume \/ Tick]_vars => Untouched' /\ Cost'
  BY UntouchedStep, ContendedStep
<1>3. TypeOK /\ CountsExact /\ Untouched /\ Cost => DisplacedByCommits
  <2> SUFFICES ASSUME TypeOK, CountsExact, Untouched, Cost, NEW r \in Requests
               PROVE  /\ pc[r] \in {"tokGet", "tokPut", "tokApply"} =>
                            tries[r] + (IF StaleToken(r) THEN 1 ELSE 0)
                               <= Cardinality(TokenTally(job[r].grant))
                      /\ pc[r] \in {"vwGet", "vwPut", "vwApply"} =>
                            tries[r] + (IF StaleView(r) THEN 1 ELSE 0)
                               <= Cardinality(ViewTally(job[r].view))
    BY DEF DisplacedByCommits
  <2>1. /\ job[r].grant \in Grants /\ tokens[job[r].grant].count \in Nat /\ tok[r].count \in Nat
        /\ job[r].view \in Views /\ views[job[r].view].count \in Nat /\ vw[r].count \in Nat
        /\ tries[r] \in Nat
    BY ReadTypes DEF TypeOK, TokenRecords, ViewRecords
  <2>2. /\ tokens[job[r].grant].count = Cardinality(TokenTally(job[r].grant))
        /\ views[job[r].view].count = Cardinality(ViewTally(job[r].view))
    BY <2>1, TallyTypes DEF CountsExact, TokenCountExact, ViewCountExact, Untouched
  <2>3. Contended(r)
    OBVIOUS
  <2> QED
    BY <2>1, <2>2, <2>3 DEF Contended, StaleToken, StaleView, TokenReplaceable,
       ViewReplaceable, EtagMatches
<1>4. CalmSpec => Init /\ [][Consume \/ Tick]_vars /\ Spec
  BY CalmIsSettled, SettledIsSpec, PTL DEF CalmSpec
<1> QED
  BY <1>1, <1>2, <1>3, <1>4, TypeCorrect, CountersExact, PTL

----------------------------------------------------------------------------
(* Intervals, when deliveries are handled one at a time. *)

Confirmed == {"tokGet", "tokPut", "tokApply", "vwGet", "vwPut", "vwApply", "log"}

(* The instant of a confirmed delivery, which its bump leaves on the grant, *)
(* short of the part of a second that the stamp drops.                      *)
Dated(r) ==
    /\ pc[r] \in Confirmed => Second <= now[r] /\ now[r] <= clock
    /\ pc[r] \in BetweenBumps \cup {"log"} /\ tokens[job[r].grant].status = "live"
          => now[r] - tokens[job[r].grant].last < Second
Stamped(q) ==
    /\ Second <= now[q] /\ now[q] <= clock
    /\ tokens[job[q].grant].status = "live" => now[q] - tokens[job[q].grant].last < Second

(* How far r, which comes after the delivery q, knows of it.                *)
Follows(r, q) ==
    /\ pc[r] \in {"view", "policy"} => now[q] - tok[r].last < Second
    /\ pc[r] \in {"construct", "blob"} =>
          \A s \in policies[job[r].grant].gap : clock - now[q] > Seconds(s) - Second
    /\ pc[r] \in Confirmed =>
          /\ now[r] >= now[q]
          /\ \A s \in policies[job[r].grant].gap : now[r] - now[q] > Seconds(s) - Second

Spacing ==
    /\ clock >= Second
    /\ \A r \in Requests : Dated(r)
    /\ \A q \in Delivered : Stamped(q)
    /\ \A q \in Delivered, r \in Requests : job[q].grant = job[r].grant => Follows(r, q)
    /\ IntervalHolds

LEMMA SoloFlight ==
    ASSUME MaxInFlight = 1, Crowd, NEW q \in Flying, NEW r \in Flying
    PROVE  q = r
<1> SUFFICES ASSUME q # r PROVE FALSE
  OBVIOUS
<1>1. Flying \in SUBSET Requests /\ {q} \in SUBSET Requests /\ {q} \subseteq Flying \ {r}
  BY DEF Flying
<1>2. Cardinality({q}) + 1 <= Cardinality(Flying) /\ Cardinality(Flying) \in Nat
  BY <1>1, Counting
<1>3. Cardinality({q}) = 1
  BY FS_Singleton
<1> QED
  BY <1>2, <1>3 DEF Crowd

LEMMA TimeTypes ==
    ASSUME TypeOK
    PROVE  /\ clock \in Nat
           /\ \A r \in Requests :
                 /\ now[r] \in Nat /\ tok[r].last \in Nat /\ job[r].grant \in Grants
                 /\ \A s \in policies[job[r].grant].gap : Seconds(s) \in Nat
           /\ \A g \in Grants : tokens[g].last \in Nat
           /\ Second \in Nat \ {0}
<1>1. \A t \in Times : t \in Nat
  BY EngineAssumption DEF Times, Ledger!Times
<1>2. \A g \in Grants : policies[g].gap \subseteq Nat
  BY PodAssumption DEF TypeOK, PolicyDocs, NoPolicy
<1>3. \A s \in Nat : Seconds(s) \in Nat
  BY EngineAssumption DEF Seconds
<1> QED
  BY <1>1, <1>2, <1>3, ReadTypes, EngineAssumption DEF TypeOK, TokenRecords

LEMMA SpacingPause ==
    ASSUME TypeOK, Spacing, Pauses
    PROVE  Spacing'
<1>1. /\ UNCHANGED <<pc, job, tok, now, status, policies>>
      /\ clock' \in Nat /\ clock' >= clock
      /\ Delivered' = Delivered
  BY TimeTypes DEF Pauses, Delivered
<1>2. \A g \in Grants : tokens'[g].status = "live" => tokens'[g] = tokens[g]
  BY DEF Pauses, Ledger!RevokedToken, Ledger!FreshToken
<1>3. \A r \in Requests : Dated(r)'
  BY <1>1, <1>2, TimeTypes DEF Spacing, Dated
<1>4. \A q \in Delivered : Stamped(q)'
  BY <1>1, <1>2, TimeTypes DEF Spacing, Stamped, Delivered
<1>5. ASSUME NEW q \in Delivered, NEW r \in Requests, job[q].grant = job[r].grant
      PROVE  Follows(r, q)'
  BY <1>1, <1>5, TimeTypes DEF Spacing, Follows, Delivered
<1>6. IntervalHolds'
  BY <1>1 DEF Spacing, IntervalHolds
<1>7. clock' >= Second
  BY <1>1, TimeTypes DEF Spacing
<1> QED
  BY <1>1, <1>3, <1>4, <1>5, <1>6, <1>7 DEF Spacing

LEMMA SpacingMove ==
    ASSUME MaxInFlight = 1, TypeOK, TypeOK', Books, Books', Crowd, Crowd', Spacing,
           NEW r \in Requests, Moves(r)
    PROVE  Spacing'
<1>1. UNCHANGED <<policies, clock>>
  BY DEF Moves, Alone
<1>2. ASSUME NEW q \in Requests, q # r
      PROVE  /\ job'[q] = job[q] /\ now'[q] = now[q] /\ status'[q] = status[q]
             /\ pc[q] \notin InFlight /\ pc'[q] \notin InFlight
  <2>1. pc'[q] = pc[q]
    BY <1>2 DEF Moves, Alone
  <2>2. ASSUME pc[q] \in InFlight PROVE FALSE
    <3>1. q \in Flying /\ Flying \in SUBSET Requests /\ {} \subseteq Flying \ {q}
      BY <2>2 DEF Flying
    <3>2. Cardinality({}) + 1 <= Cardinality(Flying) /\ Cardinality(Flying) \in Nat
      BY <3>1, Counting
    <3>3. ~Starts(r)
      BY <3>2, FS_EmptySet DEF Starts, Flying
    <3> QED
      BY <1>2, <3>1, <3>3, MovesInFlight, SoloFlight DEF Flying
  <2> QED
    BY <1>2, <2>1, <2>2 DEF Moves, Alone
<1>3. pc[r] # "done" /\ r \notin Delivered
  <2>1. pc[r] # "done"
    BY DEF Moves, Starts, Quits, Advances, Attempts, CommitsToken, CommitsView, Delivers,
       InFlight, StateCalls, DataCalls, Applying
  <2> QED
    BY <2>1 DEF Books, Entry, Delivered
<1>4. \A q \in Delivered : q \in Requests /\ q # r
  BY <1>3 DEF Delivered
<1>5. \A q \in Delivered' : q \in Delivered \/ (q = r /\ Delivers(r))
  <2>1. ASSUME r \in Delivered' PROVE Delivers(r)
    BY <1>3, <2>1 DEF Moves, Starts, Quits, Advances, Attempts, CommitsToken, CommitsView,
       Unanswered, Delivered
  <2> QED
    BY <1>2, <2>1 DEF Delivered
<1>6. Dated(r)'
  <2>1. Dated(r) /\ clock >= Second
    BY DEF Spacing
  <2>2. CASE Starts(r) \/ Quits(r) \/ Delivers(r)
    BY <2>2 DEF Starts, Quits, Delivers, Dated, Confirmed, BetweenBumps
  <2>3. CASE Advances(r)
    BY <1>1, <2>1, <2>3, TimeTypes DEF Advances, Dated, Confirmed, BetweenBumps, SameNow
  <2>4. CASE Attempts(r)
    BY <1>1, <2>1, <2>4 DEF Attempts, Dated, Confirmed, BetweenBumps, SameNow, SameJob,
       Uncounted, Applying
  <2>5. CASE CommitsToken(r)
    <3>1. tokens'[job[r].grant].last = Stamp(now[r])
      BY <2>5, TimeTypes DEF CommitsToken, BumpedToken, TypeOK, TokenRecords
    <3>2. now[r] - Stamp(now[r]) < Second
      BY StampBounds DEF TypeOK
    <3> QED
      BY <1>1, <2>1, <2>5, <3>1, <3>2, TimeTypes
      DEF CommitsToken, Dated, Confirmed, SameNow, SameJob
  <2>6. CASE CommitsView(r)
    BY <1>1, <2>1, <2>6 DEF CommitsView, Dated, Confirmed, BetweenBumps, SameNow, SameJob
  <2> QED
    BY <2>2, <2>3, <2>4, <2>5, <2>6 DEF Moves
<1>7. \A q \in Requests : Dated(q)'
  BY <1>2, <1>6 DEF Dated, Confirmed, BetweenBumps, InFlight, StateCalls, Applying
<1>8. ASSUME NEW q \in Delivered PROVE Stamped(q)'
  <2>1. Stamped(q) /\ job[q].grant \in Grants
    BY <1>4, TimeTypes DEF Spacing
  <2>2. /\ now'[q] = now[q] /\ job'[q] = job[q]
    BY <1>2, <1>4
  <2>3. CASE tokens'[job[q].grant] = tokens[job[q].grant]
    BY <1>1, <2>1, <2>2, <2>3 DEF Stamped
  <2>4. CASE tokens'[job[q].grant] # tokens[job[q].grant]
    <3>1. /\ tokens'[job[q].grant].last = Stamp(now[r])
          /\ CommitsToken(r) /\ job[q].grant = job[r].grant
      BY <2>1, <2>4, MovesGrow
    <3>2. now[r] >= now[q]
      BY <3>1 DEF Spacing, Follows, Confirmed, CommitsToken
    <3>3. Stamp(now[r]) \in Nat /\ now[r] - Stamp(now[r]) < Second
      BY StampBounds, EngineAssumption DEF TypeOK, Times, Ledger!Times
    <3> QED
      BY <1>1, <1>4, <2>1, <2>2, <3>1, <3>2, <3>3, TimeTypes DEF Stamped
  <2> QED
    BY <2>3, <2>4
<1>9. ASSUME NEW q \in Delivered, job'[q].grant = job'[r].grant PROVE Follows(r, q)'
  <2>1. now'[q] = now[q] /\ job'[q] = job[q] /\ q \in Requests /\ Stamped(q)
    BY <1>2, <1>4 DEF Spacing
  <2>2. CASE Starts(r) \/ Quits(r) \/ Delivers(r)
    BY <2>2 DEF Starts, Quits, Delivers, Follows, Confirmed
  <2>3. CASE ~(Starts(r) \/ Quits(r) \/ Delivers(r))
    <3>1. job'[r] = job[r]
      BY <2>3 DEF Moves, Advances, Attempts, CommitsToken, CommitsView, SameJob
    <3>2. Follows(r, q) /\ Stamped(q)
      BY <1>9, <2>1, <3>1 DEF Spacing
    <3>3. \A s \in policies[job[r].grant].gap : Seconds(s) \in Nat
      BY TimeTypes
    <3>4. CASE Advances(r) /\ pc[r] = "record"
      BY <1>9, <2>1, <3>1, <3>2, <3>4 DEF Advances, Follows, Confirmed, Stamped
    <3>5. CASE Advances(r) /\ pc[r] \in {"lookup", "view"}
      BY <1>9, <2>1, <3>1, <3>2, <3>5 DEF Advances, Follows, Confirmed
    <3>6. CASE Advances(r) /\ pc[r] = "policy"
      <4>1. PolicyAllows(tok[r], policies[job[r].grant], vw[r], clock) /\ pc'[r] = "construct"
        BY <3>6 DEF Advances
      <4>2. now[q] - tok[r].last < Second /\ now[q] >= Second
        BY <3>2, <3>6, TimeTypes, <2>1 DEF Follows, Stamped
      <4>3. \A s \in policies[job[r].grant].gap : clock - now[q] > Seconds(s) - Second
        BY <2>1, <3>3, <4>1, <4>2, TimeTypes DEF PolicyAllows, Ledger!Epoch
      <4> QED
        BY <1>1, <2>1, <3>1, <4>1, <4>3 DEF Follows, Confirmed
    <3>7. CASE Advances(r) /\ pc[r] \in {"construct", "blob"}
      BY <1>1, <2>1, <3>1, <3>2, <3>7, TimeTypes
      DEF Advances, Follows, Confirmed, Stamped
    <3>8. CASE Attempts(r) \/ CommitsToken(r) \/ CommitsView(r)
      BY <1>1, <2>1, <3>1, <3>2, <3>8
      DEF Attempts, CommitsToken, CommitsView, Follows, Confirmed, SameNow, Applying
    <3> QED
      BY <2>3, <3>4, <3>5, <3>6, <3>7, <3>8 DEF Moves, Advances
  <2> QED
    BY <2>2, <2>3
<1>10. ASSUME NEW q \in Delivered', NEW x \in Requests, job'[q].grant = job'[x].grant
       PROVE  Follows(x, q)'
  <2>1. CASE x # r
    BY <1>2, <2>1 DEF Follows, Confirmed, InFlight, StateCalls, DataCalls, Applying
  <2>2. CASE x = r /\ q = r
    BY <1>5, <1>3, <2>2 DEF Delivers, Follows, Confirmed
  <2> QED
    BY <1>5, <1>9, <1>10, <2>1, <2>2
<1>11. ASSUME Delivers(r)
       PROVE  /\ Stamped(r)'
              /\ \A q \in Delivered : \A s \in policies[job[r].grant].gap :
                    job[q].grant = job[r].grant => now'[r] - now'[q] > Seconds(s) - Second
  <2>1. /\ pc[r] = "log" /\ now'[r] = now[r] /\ job'[r] = job[r] /\ tokens' = tokens
        /\ Dated(r)
    BY <1>11 DEF Delivers, SameNow, SameJob, Uncounted, Spacing
  <2>2. Stamped(r)'
    BY <1>1, <2>1 DEF Dated, Stamped, Confirmed
  <2>3. ASSUME NEW q \in Delivered, NEW s \in policies[job[r].grant].gap,
               job[q].grant = job[r].grant
        PROVE  now'[r] - now'[q] > Seconds(s) - Second
    BY <1>2, <1>4, <2>1, <2>3 DEF Spacing, Follows, Confirmed
  <2> QED
    BY <2>2, <2>3
<1>12. IntervalHolds'
  <2> SUFFICES ASSUME NEW q \in Delivered', NEW x \in Delivered',
                      NEW s \in policies'[job'[x].grant].gap, q # x,
                      job'[q].grant = job'[x].grant
               PROVE  \/ now'[q] - now'[x] > Seconds(s) - Second
                      \/ now'[x] - now'[q] > Seconds(s) - Second
    BY DEF IntervalHolds
  <2>1. CASE q \in Delivered /\ x \in Delivered
    BY <1>1, <1>2, <1>4, <2>1 DEF Spacing, IntervalHolds
  <2>2. CASE q \in Delivered /\ x = r /\ Delivers(r)
    BY <1>1, <1>2, <1>4, <1>11, <2>2 DEF Delivers, SameJob
  <2>3. CASE x \in Delivered /\ q = r /\ Delivers(r)
    BY <1>1, <1>2, <1>4, <1>11, <2>3 DEF Delivers, SameJob
  <2> QED
    BY <1>5, <2>1, <2>2, <2>3
<1>13. clock' >= Second
  BY <1>1 DEF Spacing
<1> QED
  BY <1>5, <1>7, <1>8, <1>10, <1>11, <1>12, <1>13 DEF Spacing

(* One delivery at a time, and with the owner authoring nothing, two        *)
(* deliveries under a grant are further apart than its interval less one    *)
(* second, through every revocation, lost call and lost reply, however      *)
(* finely the clock ticks.                                                  *)
THEOREM IntervalsKept == ASSUME MaxInFlight = 1 PROVE SettledSpec => []IntervalHolds
<1>1. Init => Crowd /\ Spacing /\ Books
  <2> SUFFICES ASSUME Init PROVE Crowd /\ Spacing /\ Books
    OBVIOUS
  <2>1. Flying = {} /\ Delivered = {} /\ clock = Second
    BY DEF Init, Flying, InFlight, StateCalls, DataCalls, Applying, Delivered
  <2>2. Cardinality({}) = 0
    BY FS_EmptySet
  <2>3. \A r \in Requests : Dated(r)
    BY DEF Init, Dated, Confirmed, BetweenBumps
  <2>4. Books
    BY DEF Init, Books, Entry, BeforeToken, BetweenBumps
  <2> QED
    BY <2>1, <2>2, <2>3, <2>4, EngineAssumption DEF Crowd, Spacing, IntervalHolds
<1>2. TypeOK /\ TypeOK' /\ Books /\ Books' /\ Crowd /\ Crowd' /\ Spacing
      /\ [SettledNext]_vars => Spacing'
  <2> SUFFICES ASSUME TypeOK, TypeOK', Books, Books', Crowd, Crowd', Spacing,
                      [SettledNext]_vars
               PROVE  Spacing'
    OBVIOUS
  <2>1. CASE Pauses
    BY <2>1, SpacingPause
  <2>2. ASSUME NEW r \in Requests, Moves(r) PROVE Spacing'
    BY <2>2, SpacingMove
  <2> QED
    BY <2>1, <2>2, SettledMoves
<1>3. TypeOK /\ Crowd /\ [SettledNext]_vars => Crowd'
  BY CrowdStep
<1>4. [SettledNext]_vars => [Next]_vars
  BY DEF SettledNext, Next
<1>5. Spacing => IntervalHolds
  BY DEF Spacing
<1> QED
  BY <1>1, <1>2, <1>3, <1>4, <1>5, BooksInductive, SettledIsSpec, TypeCorrect, PTL
  DEF SettledSpec, SettledNext

----------------------------------------------------------------------------
(* Requests that come too late. *)

Expired(g) == \E x \in policies[g].until : clock > x
TokenFull(token, g) == \E n \in policies[g].max : token.count >= n
ViewFull(view) == \E n \in view.limit : view.count >= n

(* Once nothing more is to be delivered of view v under grant g, that is     *)
(* so for ever ...                                                         *)
Gone(v) == views[v].status = "absent" \/ ViewFull(views[v])
Closed(g, v) == Expired(g) \/ tokens[g].status # "live" \/ TokenFull(tokens[g], g) \/ Gone(v)

(* ... and a request that had not started by then reads that it is.         *)
Late(r, g, v) ==
    /\ Closed(g, v)
    /\ pc[r] # "idle" /\ job[r].grant = g /\ job[r].view = v =>
          \/ pc[r] \in {"lookup", "record"}
          \/ pc[r] = "view" /\ (Expired(g) \/ TokenFull(tok[r], g) \/ Gone(v))
          \/ pc[r] = "policy" /\ (Expired(g) \/ TokenFull(tok[r], g) \/ ViewFull(vw[r]))
          \/ pc[r] = "done" /\ status[r] # "200"

LEMMA GoneStays ==
    ASSUME TypeOK, [SettledNext]_vars, NEW g \in Grants, NEW v \in Views
    PROVE  /\ Gone(v) => Gone(v)'
           /\ Expired(g) => Expired(g)'
           /\ Closed(g, v) => Closed(g, v)'
           /\ policies' = policies
<1>1. /\ clock \in Nat /\ policies[g].max \subseteq Nat /\ views[v].limit \subseteq Nat
      /\ policies[g].until \subseteq Nat
      /\ tokens[g].count \in Nat /\ views[v].count \in Nat
  BY LimitTypes, TimeTypes, PodAssumption DEF TypeOK, PolicyDocs, NoPolicy
<1>2. /\ clock' = clock \/ clock' = clock + 1
      /\ policies' = policies
  BY SettledMoves DEF Pauses, Moves, Alone
<1>3. Expired(g) => Expired(g)'
  BY <1>1, <1>2 DEF Expired
<1>4. \/ views'[v] = views[v]
      \/ views'[v] = NoView
      \/ /\ views'[v].limit = views[v].limit
         /\ views'[v].status = views[v].status
         /\ views'[v].count = views[v].count + 1
  BY SettledMoves, MovesGrow DEF Pauses
<1>5. Gone(v) => Gone(v)'
  BY <1>1, <1>4, NoViewFields DEF Gone, ViewFull
<1>6. \/ tokens'[g] = tokens[g]
      \/ tokens'[g].status # "live"
      \/ /\ tokens'[g].status = tokens[g].status
         /\ tokens'[g].count = tokens[g].count + 1
  BY SettledMoves, MovesGrow DEF Pauses, Ledger!RevokedToken, Ledger!FreshToken
<1>7. tokens[g].status # "live" \/ TokenFull(tokens[g], g)
        => tokens'[g].status # "live" \/ TokenFull(tokens[g], g)'
  BY <1>1, <1>2, <1>6 DEF TokenFull
<1> QED
  BY <1>2, <1>3, <1>5, <1>7 DEF Closed

LEMMA LateStays ==
    ASSUME TypeOK, NEW r \in Requests, NEW g \in Grants, NEW v \in Views, Late(r, g, v),
           [SettledNext]_vars
    PROVE  Late(r, g, v)'
<1>1. /\ Closed(g, v)'
      /\ Gone(v) => Gone(v)'
      /\ Expired(g) => Expired(g)'
      /\ policies' = policies
  BY GoneStays DEF Late
<1>2. CASE Pauses \/ \E q \in Requests \ {r} : Moves(q)
  <2>1. /\ pc'[r] = pc[r] /\ job'[r] = job[r] /\ tok'[r] = tok[r] /\ vw'[r] = vw[r]
        /\ status'[r] = status[r]
    BY <1>2 DEF Pauses, Moves, Alone
  <2> QED
    BY <1>1, <2>1 DEF Late, TokenFull, ViewFull
<1>3. CASE Moves(r)
  <2>1. CASE Starts(r)
    BY <1>1, <2>1 DEF Starts, Late
  <2>2. CASE Quits(r)
    BY <1>1, <2>2 DEF Quits, Late
  <2>3. CASE Advances(r)
    <3>1. job'[r] = job[r] /\ tokens' = tokens /\ views' = views
      BY <2>3 DEF Advances, SameJob, Uncounted
    <3>2. CASE job[r].grant = g /\ job[r].view = v
      <4>1. CASE pc[r] = "lookup"
        BY <1>1, <2>3, <4>1 DEF Advances, Late
      <4>2. CASE pc[r] = "record"
        BY <1>1, <2>3, <3>1, <3>2, <4>2 DEF Advances, Late, Closed, TokenFull
      <4>3. CASE pc[r] = "view"
        BY <1>1, <2>3, <3>1, <3>2, <4>3 DEF Advances, Late, Gone, TokenFull, ViewFull
      <4>4. CASE pc[r] = "policy"
        <5>1. PolicyAllows(tok[r], policies[g], vw[r], clock)
          BY <2>3, <3>2, <4>4 DEF Advances
        <5>2. Expired(g) \/ TokenFull(tok[r], g) \/ ViewFull(vw[r])
          BY <3>2, <4>4 DEF Late
        <5>3. /\ policies[g].max \subseteq Nat /\ policies[g].until \subseteq Nat
              /\ clock \in Nat
          BY TimeTypes, PodAssumption DEF TypeOK, PolicyDocs, NoPolicy
        <5>4. tok[r].count \in Nat /\ vw[r].count \in Nat /\ vw[r].limit \subseteq Nat
          BY PodAssumption DEF TypeOK, TokenRecords, ViewRecords
        <5> QED
          BY <5>1, <5>2, <5>3, <5>4 DEF PolicyAllows, Expired, TokenFull, ViewFull
      <4> QED
        BY <2>3, <3>2, <4>1, <4>2, <4>3, <4>4 DEF Advances, Late
    <3>3. CASE ~(job[r].grant = g /\ job[r].view = v)
      BY <1>1, <3>1, <3>3 DEF Late
    <3> QED
      BY <3>2, <3>3
  <2>4. CASE Attempts(r) \/ CommitsToken(r) \/ CommitsView(r) \/ Delivers(r)
    <3>1. job'[r] = job[r] /\ pc[r] \in {"tokGet", "tokPut", "tokApply", "vwGet", "vwPut",
                                         "vwApply", "log"}
      BY <2>4 DEF Attempts, CommitsToken, CommitsView, Delivers, SameJob, Applying
    <3> QED
      BY <1>1, <3>1 DEF Late
  <2> QED
    BY <1>3, <2>1, <2>2, <2>3, <2>4 DEF Moves
<1> QED
  BY <1>2, <1>3, SettledMoves

(* While the owner authors nothing, a request that arrives when the grant   *)
(* or the view has reached its ceiling, or when the window of the grant has *)
(* elapsed, is never delivered, whatever is in flight at that moment.       *)
THEOREM LateNeverDelivered == SettledSpec => LateRequestsDenied
<1>1. ASSUME NEW r \in Requests, NEW g \in Grants, NEW v \in Views
      PROVE  SettledSpec => [](Spent(g, v) /\ pc[r] = "idle"
                => []~(r \in Delivered /\ job[r].grant = g /\ job[r].view = v))
  <2>1. Spent(g, v) /\ pc[r] = "idle" => Late(r, g, v)
    BY DEF Spent, Late, Closed, Gone, Expired, TokenFull, ViewFull
  <2>2. Books /\ Late(r, g, v)
           => ~(r \in Delivered /\ job[r].grant = g /\ job[r].view = v)
    BY DEF Books, Entry, Late, Delivered
  <2>3. Init => Books
    BY DEF Init, Books, Entry, BeforeToken, BetweenBumps
  <2>4. TypeOK /\ Late(r, g, v) /\ [SettledNext]_vars => Late(r, g, v)'
    BY LateStays
  <2>5. [SettledNext]_vars => [Next]_vars
    BY DEF SettledNext, Next
  <2> QED
    BY <2>1, <2>2, <2>3, <2>4, <2>5, BooksInductive, SettledIsSpec, TypeCorrect, PTL
    DEF SettledSpec, SettledNext
<1>2. SettledSpec => \A r \in Requests, g \in Grants, v \in Views :
         [](Spent(g, v) /\ pc[r] = "idle"
              => []~(r \in Delivered /\ job[r].grant = g /\ job[r].view = v))
  BY <1>1, Zenon
<1> QED
  BY <1>2, Zenon DEF LateRequestsDenied
=============================================================================
