---------------------------- MODULE MCFileStore ----------------------------
(***************************************************************************)
(* Small instances of FileStore for TLC, with the names and files of       *)
(* PodPaths.                                                               *)
(***************************************************************************)
EXTENDS FileStore, PodPaths

CONSTANTS g1, g2, b1, b2, none, garbage, c1, c2

(* A document, a container, a binary in it, a record. *)
notes == <<"notes">>
box == <<"box", "/">>
photo == <<"box", "/", "photo">>
record == <<".system", "/", "record">>

BoxOnly == {box}
NotesAndRecord == {notes, record}
PhotoOnly == {photo}
RecordOnly == {record}
NoNames == {}

InUse == RdfNames \cup BinNames
SomeFiles == {RdfPath(n) : n \in InUse \cup {Description(m) : m \in InUse}}
                \cup {BinPath(n) : n \in InUse} \cup {MetaPath(n) : n \in InUse}
MCFiles == SomeFiles \cup UNION {Directories(p) : p \in SomeFiles}
(* Every file with the suffix .ttl is the graph of a name. *)
MCNames == InUse \cup {UriOf(p) : p \in {q \in MCFiles : UriOf(q) # q}}

MCRdfFile == [n \in MCNames |-> RdfPath(n)]
MCBinFile == [n \in InUse |-> BinPath(n)]
MCMetaFile == [n \in InUse |-> MetaPath(n)]
MCDescriptionOf == [n \in InUse |-> Description(n)]
MCAbove == [p \in MCFiles |-> Directories(p)]

(* The two bodies are of different types, if there are two graphs. *)
MCSidecar == [b \in Bodies |-> IF b = b2 /\ g2 \in Graphs THEN g2 ELSE g1]
(* The bytes b1 are no Turtle, b2 are. *)
MCReading == [b \in Bodies |-> IF b = b1 THEN garbage ELSE none]

(* _path_to_uri undoes _uri_to_rdf_path. *)
ASSUME BootFindsNames == \A n \in MCNames : UriOf(RdfPath(n)) = n
ASSUME PlainNamesApart == InUse \subseteq {notes, box, photo, record} => NoCollisions /\ BytesApart
ASSUME NamesFindFiles == \A p \in MCFiles : UriOf(p) # p => p = RdfPath(UriOf(p))
=============================================================================
