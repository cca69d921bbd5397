---------------------------- MODULE MCLdpServer ----------------------------
(***************************************************************************)
(* Small instances of LdpServer for TLC.                                   *)
(***************************************************************************)
EXTENDS LdpServer, TLC

CONSTANTS root, box, bag, memo, note, w1, w2, b1, b2

(* box and bag have a trailing slash: what they mint are their children.     *)
SlashParent == [u \in Uris |-> IF u = memo THEN box ELSE IF u = note THEN bag ELSE root]
SlashMint == [u \in Uris |-> IF u = box /\ memo \in Uris THEN {memo}
                             ELSE IF u = bag /\ note \in Uris THEN {note} ELSE {}]
(* The root mints memo and note itself. *)
FlatParent == [u \in Uris |-> root]
FlatMint == [u \in Uris |-> IF u = root THEN Uris \ {root} ELSE {}]

Pod(containers, listing) ==
    [u \in Uris |-> IF u \in containers
                    THEN Graph(TRUE, {x \in Uris : <<u, x>> \in listing}, b1)
                    ELSE Nothing]
OnlyRoot == {Pod({root}, {})}
RootAndBox == {Pod({root, box}, {<<root, box>>})}
RootAndBoxes == {Pod({root, box, bag}, {<<root, box>>, <<root, bag>>})}

Everywhere == [w \in Workers |-> Uris]
BelowRoot == [w \in Workers |-> Uris \ {root}]
(* w1 works on box and its members, w2 on the members of bag. *)
Apart == [w \in Workers |-> IF w = w1 THEN {box, memo} ELSE {note}]

Nobody == {}
AnyHeader == {"none", "any", "etag", "create"}
Plain(b) == Graph(FALSE, {}, b)
Plains == {Plain(b) : b \in Bodies}
(* A container that claims to list memo. *)
PlainOrClaim == Plains \cup {Graph(TRUE, {memo}, b1)}
(* Bodies with a listing of their own: a plain resource that is made a      *)
(* container later, a container that is PUT, one that is POSTed.            *)
PutClaims == {Plain(b1), Graph(FALSE, {bag}, b1), Graph(TRUE, {memo}, b1)}
PostClaims == {Plain(b1), Graph(TRUE, {bag}, b1)}
=============================================================================
