--------------------------- MODULE MCViewDelivery ---------------------------
(***************************************************************************)
(* Small instances of ViewDelivery for TLC.                                *)
(***************************************************************************)
EXTENDS ViewDelivery

CONSTANTS r1, r2, r3, g1, g2, v1, v2, d1, d2

NoAdjusting == {}
ResetOnly == {0}

(* Every grant unlocks every view; or only the view v1.                     *)
LinkAll == [g \in Grants |-> Views]
LinkFirst == [g \in Grants |-> {v1}]

AtMost(n) == [NoPolicy EXCEPT !.max = {n}]
Spaced(s) == [NoPolicy EXCEPT !.gap = {s}]
Within(a, b) == [NoPolicy EXCEPT !.from = {a}, !.until = {b}]

NoPolicies == {NoPolicy}
MaxOne == {AtMost(1)}
SerialPolicies == {AtMost(1), Spaced(2), Within(3, 4)}
NoLimits == {{}}
ViewCeilings == {{}, {1}}

(* CalmSpec on a pod where nobody has stored the view that no grant        *)
(* unlocks: no request gets as far as reading it.                          *)
FirstViewInit == Init /\ views[v2] = NoView
CalmFirstView == FirstViewInit /\ [][Consume \/ Tick]_vars /\ Fairness
=============================================================================
