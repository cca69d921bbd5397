------------------------- MODULE EnforcementLedger -------------------------
(***************************************************************************)
(* What the pod promises about its enforcement records, with no requests,  *)
(* ETags or retries in sight: a delivery counter moves by exactly one, in  *)
(* one atomic step, on a record that is there; everything else about a     *)
(* grant or a view is the owner's to author.  ViewDelivery implements this *)
(* contract with optimistic conditional PUTs.                              *)
(***************************************************************************)
EXTENDS Integers

CONSTANTS
    Grants,      \* token record ids (.system/tokens/{id})
    Views,       \* view ids (.system/views/{id})
    Defs,        \* what the owner authors in a view: title, template, parameters
    ViewLimits,  \* values of the optional pod:maxViewRetrievals, as sets of <= 1 number
    AdjustTo,    \* counts the owner may write on a token record
    MaxTime      \* bound: the last instant considered, in ticks of the clock

VARIABLES
    tokens,      \* the token records
    views        \* the view records

Times == 0..MaxTime
Epoch == 0       \* tokenrecord.EPOCH: lastUsedAt before any delivery

NoView == [status |-> "absent", def |-> CHOOSE d \in Defs : TRUE, limit |-> {}, count |-> 0]
FreshToken == [status |-> "live", count |-> 0, last |-> Epoch]
UnissuedToken == [FreshToken EXCEPT !.status = "unissued"]
RevokedToken == [FreshToken EXCEPT !.status = "revoked"]
NewView(d, limit) == [status |-> "stored", def |-> d, limit |-> limit, count |-> 0]

----------------------------------------------------------------------------

(* A delivery under grant g is counted, stamped with the instant t. *)
CountToken(g) ==
    /\ tokens[g].status = "live"
    /\ \E t \in Times :
          tokens' = [tokens EXCEPT ![g] =
                       [tokens[g] EXCEPT !.count = tokens[g].count + 1, !.last = t]]
    /\ UNCHANGED views

(* A delivery of view v is counted. *)
CountView(v) ==
    /\ views[v].status = "stored"
    /\ views' = [views EXCEPT ![v] = [views[v] EXCEPT !.count = views[v].count + 1]]
    /\ UNCHANGED tokens

Issue(g) ==
    /\ tokens[g].status = "unissued"
    /\ tokens' = [tokens EXCEPT ![g] = FreshToken]
    /\ UNCHANGED views

Revoke(g) ==
    /\ tokens[g].status = "live"
    /\ tokens' = [tokens EXCEPT ![g] = RevokedToken]
    /\ UNCHANGED views

AdjustToken(g) ==
    /\ tokens[g].status = "live"
    /\ \E n \in AdjustTo, t \in Times :
          tokens' = [tokens EXCEPT ![g] = [@ EXCEPT !.count = n, !.last = t]]
    /\ UNCHANGED views

StoreView(v) ==
    /\ \E d \in Defs, limit \in ViewLimits : views' = [views EXCEPT ![v] = NewView(d, limit)]
    /\ UNCHANGED tokens

DeleteView(v) ==
    /\ views[v].status = "stored"
    /\ views' = [views EXCEPT ![v] = NoView]
    /\ UNCHANGED tokens

Init ==
    /\ tokens \in [Grants -> {UnissuedToken, FreshToken}]
    /\ views \in [Views -> {NoView} \cup {NewView(d, limit) : d \in Defs, limit \in ViewLimits}]

Next ==
    \/ \E g \in Grants : CountToken(g) \/ Issue(g) \/ Revoke(g) \/ AdjustToken(g)
    \/ \E v \in Views : CountView(v) \/ StoreView(v) \/ DeleteView(v)

Spec == Init /\ [][Next]_<<tokens, views>>
=============================================================================
