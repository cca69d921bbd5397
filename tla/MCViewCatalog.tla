---------------------------- MODULE MCViewCatalog ----------------------------
(***************************************************************************)
(* A small instance of ViewCatalog for TLC.                                *)
(***************************************************************************)
EXTENDS ViewCatalog, TLC

CONSTANTS i1, i2, g1, e1, e2, n1, d1, d2

BothViews == {{i1, i2}}

(* A body may call its own resource, or another one, a token or a view.    *)
StrayTypes == {{}, {<<ViewUri(i1), "Token">>}, {<<TokenUri(g1), "View">>},
               {<<TokenUri(g1), "Token">>, <<PolicyUri(g1), "Policy">>}}
PodTypes == {{}, {<<<<"data", n1>>, "View">>, <<<<"data", n1>>, "AccessLogEntry">>}}

EntrySymmetry == Permutations(Entries)
=============================================================================
