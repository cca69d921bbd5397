---------------------------- MODULE MCCredentials ----------------------------
(* A small instance of Credentials for TLC.  The operator rotates between   *)
(* two admin tokens; the engine has another one, or draws it at each boot.  *)
EXTENDS Credentials, TLC

(* Nothing in the model tells one request slot from another, nor one value  *)
(* of LDP_ADMIN_TOKEN from another.                                         *)
Interchangeable == Permutations(Requests) \cup Permutations(AdminValues)
=============================================================================
