------------------------------ MODULE PodPaths ------------------------------
(***************************************************************************)
(* The names of the pod: how a URI, taken relative to base_uri, becomes a  *)
(* path below the storage root (ldp_personal_store/storage/filesystem.py). *)
(*                                                                         *)
(* A name is a sequence of tokens: segment stems, the separator and the    *)
(* two suffixes the backend gives a meaning.  Names with dot segments or   *)
(* with empty segments are left out.                                       *)
(***************************************************************************)
EXTENDS Integers, SequencesExt

LOCAL Slash == "/"
LOCAL Ttl == ".ttl"
LOCAL Meta == ".meta"

(* pathlib drops a trailing separator. *)
Normal(name) == IF name # << >> /\ Last(name) = Slash THEN Front(name) ELSE name

RdfPath(name) == Append(name, Ttl)
BinPath(name) == Normal(name)
MetaPath(name) == BinPath(name) \o <<Meta, Ttl>>
(* The URI of the metadata of a binary, and the URI a file gets at boot. *)
Description(name) == Append(name, Meta)
UriOf(path) == IF path # << >> /\ Last(path) = Ttl THEN Front(path) ELSE path

(* The directories above a path; the storage root is the empty path. *)
Directories(path) == {<< >>} \cup {SubSeq(path, 1, i - 1) : i \in {j \in DOMAIN path : path[j] = Slash}}
=============================================================================
