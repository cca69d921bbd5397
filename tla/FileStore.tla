----------------------------- MODULE FileStore -----------------------------
(***************************************************************************)
(* The filesystem backend (ldp_personal_store/storage/filesystem.py): the  *)
(* files are what persists, an in-memory dataset answers reads, and one    *)
(* lock orders the calls.                                                  *)
(*                                                                         *)
(* A call takes the lock in its first step and releases it in its last.    *)
(* The steps in between, which only a crash or stream_binary (the one call *)
(* that takes no lock) can see, are the ones that change a file: a file is *)
(* truncated when it is opened and filled afterwards.                      *)
(***************************************************************************)
EXTENDS Integers

CONSTANTS
    Names,         \* URIs, the descriptions of binaries among them
    RdfNames,      \* the URIs that callers read and write as RDF
    BinNames,      \* the URIs that callers read and write as binaries
    Reserved,      \* names the public calls refuse (assert_public_uri)
    Files,         \* paths below the storage root
    RdfFile,       \* where the graph of a name is kept; see PodPaths
    BinFile, MetaFile, DescriptionOf,   \* of a name in use: the file of its bytes,
                   \* the file of its metadata, the name of its metadata
    Above,         \* Above[p]: the directories over p
    Graphs,        \* sets of triples
    NoTriples,     \* the empty graph
    Bodies,        \* the bytes of binaries
    Sidecar,       \* Sidecar[b]: the metadata graph stored with b
    Reading,       \* Reading[b]: the bytes b parsed as Turtle
    Garbage,       \* what does not parse
    Callers        \* threads that call the backend

VARIABLES
    file,          \* the disk
    graph,         \* the dataset: one graph per name, empty when there is none
    process,       \* "running", "stopped", or "refused": the last boot failed
    lock,          \* who holds the lock
    op,            \* the call each caller is in
    answer,        \* what each caller's last call returned
    written,       \* history: what the last completed write of a name stored
    streamed,      \* history: the same for binaries
    hit            \* history: names whose write or delete a crash or a failure cut short

vars == <<file, graph, process, lock, op, answer, written, streamed, hit>>
history == <<written, streamed, hit>>

Used == RdfNames \cup BinNames
Stored == Graphs \cup {NoTriples}
Nobody == "nobody"

Missing == [kind |-> "missing", of |-> NoTriples]
Dir == [kind |-> "dir", of |-> NoTriples]
Empty == [kind |-> "empty", of |-> NoTriples]
Cut == [kind |-> "cut", of |-> NoTriples]
Text(g) == [kind |-> "text", of |-> g]
Bytes(b) == [kind |-> "bytes", of |-> b]
Contents == {Missing, Dir, Empty, Cut} \cup {Text(g) : g \in Stored} \cup {Bytes(b) : b \in Bodies}

Idle == [call |-> "idle", name |-> CHOOSE n \in Names : TRUE, data |-> NoTriples]
Ops == [call : {"idle", "write", "bytes", "sidecar", "unsidecar", "tagged"},
        name : Names, data : Stored \cup Bodies \cup Contents]

ASSUME NamesAssumption ==
    /\ RdfNames \subseteq Names /\ BinNames \subseteq Names
    /\ Names # {}
    /\ Reserved \subseteq Names
    /\ RdfFile \in [Names -> Files]
    /\ BinFile \in [Used -> Files] /\ MetaFile \in [Used -> Files]
    /\ DescriptionOf \in [Used -> Names]
    /\ Above \in [Files -> SUBSET Files]

ASSUME DataAssumption ==
    /\ NoTriples \notin Graphs
    /\ Sidecar \in [Bodies -> Graphs]
    /\ Reading \in [Bodies -> Stored \cup {Garbage}]
    /\ Garbage \notin Stored
    /\ "absent" \notin Stored \cup Bodies
    /\ Nobody \notin Callers

----------------------------------------------------------------------------
(* Files *)

(* Turtle.  A file cut short holds a part that does not parse (Cut), or one *)
(* that parses to fewer triples, of which Empty is the worst.               *)
Parse(content) ==
    CASE content.kind = "text" -> content.of
      [] content.kind = "bytes" -> Reading[content.of]
      [] content.kind \in {"missing", "empty"} -> NoTriples
      [] OTHER -> Garbage

Present(p) == file[p] # Missing
IsFile(p) == file[p].kind \notin {"missing", "dir"}

(* p can be opened for writing once its directories are made. *)
Writable(p) == file[p] # Dir /\ \A d \in Above[p] : ~IsFile(d)
Opened(p) == [q \in Files |-> IF q = p THEN Empty ELSE IF q \in Above[p] THEN Dir ELSE file[q]]

(* The graph at n, as the lookup of a backend call sees it. *)
Found(n) == Present(RdfFile[n])

----------------------------------------------------------------------------
(* Calls *)

Free(c) == process = "running" /\ lock = Nobody /\ op[c] = Idle
Respond(c, result) == answer' = [answer EXCEPT ![c] = result]
Enter(c, call, n, data) ==
    /\ op' = [op EXCEPT ![c] = [call |-> call, name |-> n, data |-> data]]
    /\ lock' = c
Leave(c, result) ==
    /\ op' = [op EXCEPT ![c] = Idle]
    /\ lock' = Nobody
    /\ Respond(c, result)
(* A binary call fails half-way. *)
Fail(c) ==
    /\ Leave(c, "failed")
    /\ hit' = hit \cup {op[c].name, DescriptionOf[op[c].name]}
(* A call that ends in the step it starts in, with nothing changed. *)
Refuse(c, result) == Respond(c, result) /\ UNCHANGED <<file, graph, process, lock, op, history>>

Read(c, n) == Free(c) /\ Refuse(c, IF Found(n) THEN graph[n] ELSE "not found")

(* write refuses a reserved name, write_system does not. *)
BeginWrite(c, n, g) ==
    /\ Free(c)
    /\ \/ n \in Reserved /\ Refuse(c, "forbidden")
       \/ ~Writable(RdfFile[n]) /\ Refuse(c, "failed")
       \/ /\ Writable(RdfFile[n])
          /\ file' = Opened(RdfFile[n])
          /\ Enter(c, "write", n, g)
          /\ UNCHANGED <<graph, process, answer, history>>

(* replace_if_unchanged: the graph stands for its ETag. *)
BeginReplace(c, n, g, expected) ==
    /\ Free(c)
    /\ \/ ~(Found(n) /\ graph[n] = expected) /\ Refuse(c, "changed")
       \/ /\ Found(n) /\ graph[n] = expected
          /\ \/ ~Writable(RdfFile[n]) /\ Refuse(c, "failed")
             \/ /\ Writable(RdfFile[n])
                /\ file' = Opened(RdfFile[n])
                /\ Enter(c, "write", n, g)
                /\ UNCHANGED <<graph, process, answer, history>>

(* The text reaches the disk and is parsed into the dataset. *)
EndWrite(c) ==
    LET o == op[c] IN
    /\ o.call = "write"
    /\ file' = [file EXCEPT ![RdfFile[o.name]] = Text(o.data)]
    /\ graph' = [graph EXCEPT ![o.name] = o.data]
    /\ Leave(c, "ok")
    /\ written' = [written EXCEPT ![o.name] = Text(o.data)]
    /\ hit' = hit \ {o.name}
    /\ UNCHANGED <<process, streamed>>

(* An earlier version of the binary is removed first. *)
BeginBinary_wrong(c, n, b) ==
    /\ Free(c) /\ n \notin Reserved /\ Writable(BinFile[n])
    /\ file' = [Opened(BinFile[n]) EXCEPT ![BinFile[n]] = Missing]
    /\ Enter(c, "bytes", n, b)
    /\ UNCHANGED <<graph, process, answer, history>>

BeginBinary(c, n, b) ==
    /\ Free(c)
    /\ \/ n \in Reserved /\ Refuse(c, "forbidden")
       \/ n \notin Reserved /\ ~Writable(BinFile[n]) /\ Refuse(c, "failed")
       \/ /\ n \notin Reserved /\ Writable(BinFile[n])
          /\ file' = Opened(BinFile[n])
          /\ Enter(c, "bytes", n, b)
          /\ UNCHANGED <<graph, process, answer, history>>

(* The metadata file is opened before the bytes have left the buffer. *)
EndBytes_wrong(c) ==
    LET o == op[c] IN
    /\ o.call = "bytes"
    /\ file' = [file EXCEPT ![MetaFile[o.name]] = Empty]
    /\ Enter(c, "sidecar", o.name, o.data)
    /\ UNCHANGED <<graph, process, answer, history>>

(* The bytes are complete and the metadata file is opened. *)
EndBytes(c) ==
    LET o == op[c]
        filled == [file EXCEPT ![BinFile[o.name]] = Bytes(o.data)]
    IN
    /\ o.call = "bytes"
    /\ \/ /\ file[MetaFile[o.name]] = Dir
          /\ file' = filled
          /\ Fail(c)
       \/ /\ file[MetaFile[o.name]] # Dir
          /\ file' = [filled EXCEPT ![MetaFile[o.name]] = Empty]
          /\ Enter(c, "sidecar", o.name, o.data)
          /\ UNCHANGED <<answer, hit>>
    /\ UNCHANGED <<graph, process, written, streamed>>

(* The metadata is written and not put into the dataset. *)
EndSidecar_wrong(c) ==
    LET o == op[c] IN
    /\ o.call = "sidecar"
    /\ file' = [file EXCEPT ![MetaFile[o.name]] = Text(Sidecar[o.data])]
    /\ Leave(c, "ok")
    /\ written' = [written EXCEPT ![DescriptionOf[o.name]] = Text(Sidecar[o.data])]
    /\ streamed' = [streamed EXCEPT ![o.name] = Bytes(o.data)]
    /\ hit' = hit \ {o.name, DescriptionOf[o.name]}
    /\ UNCHANGED <<graph, process>>

EndSidecar(c) ==
    LET o == op[c] IN
    /\ o.call = "sidecar"
    /\ file' = [file EXCEPT ![MetaFile[o.name]] = Text(Sidecar[o.data])]
    /\ graph' = [graph EXCEPT ![DescriptionOf[o.name]] = Sidecar[o.data]]
    /\ Leave(c, "ok")
    /\ written' = [written EXCEPT ![DescriptionOf[o.name]] = Text(Sidecar[o.data])]
    /\ streamed' = [streamed EXCEPT ![o.name] = Bytes(o.data)]
    /\ hit' = hit \ {o.name, DescriptionOf[o.name]}
    /\ UNCHANGED process

(* The graph leaves the dataset and its file stays. *)
BeginDelete_wrong(c, n) ==
    /\ Free(c) /\ n \notin Reserved /\ Found(n)
    /\ graph' = [graph EXCEPT ![n] = NoTriples]
    /\ written' = [written EXCEPT ![n] = Missing]
    /\ Respond(c, "ok")
    /\ UNCHANGED <<file, process, lock, op, streamed, hit>>

(* The RDF resource if there is one, else the binary and its metadata. *)
BeginDelete(c, n) ==
    /\ Free(c)
    /\ \/ n \in Reserved /\ Refuse(c, "forbidden")
       \/ /\ Found(n)
          /\ \/ file[RdfFile[n]] = Dir /\ Refuse(c, "failed")
             \/ /\ file[RdfFile[n]] # Dir
                /\ file' = [file EXCEPT ![RdfFile[n]] = Missing]
                /\ graph' = [graph EXCEPT ![n] = NoTriples]
                /\ written' = [written EXCEPT ![n] = Missing]
                /\ hit' = hit \ {n}
                /\ Respond(c, "ok")
                /\ UNCHANGED <<process, lock, op, streamed>>
       \/ /\ ~Found(n)
          /\ \/ ~Present(BinFile[n]) /\ Refuse(c, "not found")
             \/ file[BinFile[n]] = Dir /\ Refuse(c, "failed")
             \/ /\ IsFile(BinFile[n])
                /\ file' = [file EXCEPT ![BinFile[n]] = Missing]
                /\ Enter(c, "unsidecar", n, NoTriples)
                /\ UNCHANGED <<graph, process, answer, history>>

(* The metadata stays on the disk. *)
EndDelete_wrong(c) ==
    LET o == op[c] IN
    /\ o.call = "unsidecar"
    /\ graph' = [graph EXCEPT ![DescriptionOf[o.name]] = NoTriples]
    /\ Leave(c, "ok")
    /\ written' = [written EXCEPT ![DescriptionOf[o.name]] = Missing]
    /\ streamed' = [streamed EXCEPT ![o.name] = Missing]
    /\ hit' = hit \ {o.name, DescriptionOf[o.name]}
    /\ UNCHANGED <<file, process>>

EndDelete(c) ==
    LET o == op[c] IN
    /\ o.call = "unsidecar"
    /\ \/ /\ file[MetaFile[o.name]] = Dir
          /\ Fail(c)
          /\ UNCHANGED <<file, graph, written, streamed>>
       \/ /\ file[MetaFile[o.name]] # Dir
          /\ file' = [file EXCEPT ![MetaFile[o.name]] = Missing]
          /\ graph' = [graph EXCEPT ![DescriptionOf[o.name]] = NoTriples]
          /\ Leave(c, "ok")
          /\ written' = [written EXCEPT ![DescriptionOf[o.name]] = Missing]
          /\ streamed' = [streamed EXCEPT ![o.name] = Missing]
          /\ hit' = hit \ {o.name, DescriptionOf[o.name]}
    /\ UNCHANGED process

----------------------------------------------------------------------------
(* stream_binary takes no lock.  GET streams twice: once for the ETag and  *)
(* once for the body.                                                      *)

OpenStream(c, n) ==
    /\ process = "running" /\ op[c] = Idle
    /\ \/ /\ IsFile(BinFile[n])
          /\ op' = [op EXCEPT ![c] = [call |-> "tagged", name |-> n, data |-> file[BinFile[n]]]]
          /\ UNCHANGED answer
       \/ /\ ~IsFile(BinFile[n])
          /\ Respond(c, IF Found(n) THEN "not binary" ELSE "not found")
          /\ UNCHANGED op
    /\ UNCHANGED <<file, graph, process, lock, history>>

SendBody(c) ==
    /\ op[c].call = "tagged"
    /\ op' = [op EXCEPT ![c] = Idle]
    /\ Respond(c, IF IsFile(BinFile[op[c].name]) THEN "sent" ELSE "aborted")
    /\ UNCHANGED <<file, graph, process, lock, history>>

----------------------------------------------------------------------------
(* Stops and starts *)

Working == {c \in Callers : op[c].call \notin {"idle", "tagged"}}
Target(o) ==
    CASE o.call = "write" -> RdfFile[o.name]
      [] o.call = "bytes" -> BinFile[o.name]
      [] OTHER -> MetaFile[o.name]
Touched(o) == IF o.call = "write" THEN {o.name} ELSE {o.name, DescriptionOf[o.name]}

(* Of a file that was being filled any part may have reached the disk. *)
Remains(o) ==
    CASE o.call = "write" -> {Empty, Cut, Text(o.data)}
      [] o.call = "bytes" -> {Empty, Cut, Bytes(o.data)}
      [] o.call = "sidecar" -> {Empty, Cut, Text(Sidecar[o.data])}
      [] OTHER -> {file[Target(o)]}

Stop ==
    /\ process = "running"
    /\ process' = "stopped"
    /\ \/ Working = {} /\ UNCHANGED <<file, hit>>
       \/ \E c \in Working :
             /\ \E left \in Remains(op[c]) : file' = [file EXCEPT ![Target(op[c])] = left]
             /\ hit' = hit \cup Touched(op[c])
    /\ graph' = [n \in Names |-> NoTriples]
    /\ op' = [c \in Callers |-> Idle]
    /\ lock' = Nobody
    /\ answer' = [c \in Callers |-> "none"]
    /\ UNCHANGED <<written, streamed>>

(* Every file is taken for a graph. *)
Boot_wrong ==
    /\ process # "running"
    /\ IF \E p \in Files : IsFile(p) /\ Parse(file[p]) = Garbage
       THEN process' = "refused" /\ UNCHANGED graph
       ELSE process' = "running" /\ graph' = [n \in Names |-> Parse(file[RdfFile[n]])]
    /\ UNCHANGED <<file, lock, op, answer, history>>

(* A file that does not parse is taken as it is. *)
BootLenient_wrong ==
    /\ process # "running"
    /\ process' = "running"
    /\ graph' = [n \in Names |-> Parse(file[RdfFile[n]])]
    /\ UNCHANGED <<file, lock, op, answer, history>>

(* Every .ttl file is read back; one that does not parse ends the start. *)
Boot ==
    /\ process # "running"
    /\ IF \E n \in Names : Parse(file[RdfFile[n]]) = Garbage
       THEN process' = "refused" /\ UNCHANGED graph
       ELSE process' = "running" /\ graph' = [n \in Names |-> Parse(file[RdfFile[n]])]
    /\ UNCHANGED <<file, lock, op, answer, history>>

Init ==
    /\ file = [p \in Files |-> Missing]
    /\ graph = [n \in Names |-> NoTriples]
    /\ process = "running"
    /\ lock = Nobody
    /\ op = [c \in Callers |-> Idle]
    /\ answer = [c \in Callers |-> "none"]
    /\ written = [n \in Names |-> Missing]
    /\ streamed = [n \in Used |-> Missing]
    /\ hit = {}

RdfCall(c) ==
    \E n \in RdfNames :
       \/ Read(c, n)
       \/ \E g \in Stored : BeginWrite(c, n, g)
       \/ \E g, expected \in Stored : BeginReplace(c, n, g, expected)
BinaryCall(c) ==
    \E n \in BinNames : OpenStream(c, n) \/ (\E b \in Bodies : BeginBinary(c, n, b))
Finish(c) == EndWrite(c) \/ EndBytes(c) \/ EndSidecar(c) \/ EndDelete(c) \/ SendBody(c)
Call(c) == RdfCall(c) \/ BinaryCall(c) \/ (\E n \in Used : BeginDelete(c, n)) \/ Finish(c)

Next == (\E c \in Callers : Call(c)) \/ Stop \/ Boot
Spec == Init /\ [][Next]_vars

(* A server that is stopped only between calls. *)
OrderlyNext == (\E c \in Callers : Call(c)) \/ (Working = {} /\ Stop) \/ Boot
OrderlySpec == Init /\ [][OrderlyNext]_vars

----------------------------------------------------------------------------
(* Properties *)

TypeOK ==
    /\ file \in [Files -> Contents]
    /\ graph \in [Names -> Stored]
    /\ process \in {"running", "stopped", "refused"}
    /\ lock \in Callers \cup {Nobody}
    /\ op \in [Callers -> Ops]
    /\ answer \in [Callers -> Stored \cup {"none", "ok", "not found", "changed", "failed",
                                          "forbidden", "sent", "aborted", "not binary"}]
    /\ written \in [Names -> {Missing} \cup {Text(g) : g \in Stored}]
    /\ streamed \in [Used -> {Missing} \cup {Bytes(b) : b \in Bodies}]
    /\ hit \subseteq Names

(* Names that keep to themselves: none is a name the backend derives from   *)
(* another, and no file of one is the file or a directory of another.       *)
NoCollisions ==
    /\ \A m, n \in Names : RdfFile[m] = RdfFile[n] => m = n
    /\ \A n \in BinNames : MetaFile[n] = RdfFile[DescriptionOf[n]]
    /\ \A n \in Used, m \in Names : BinFile[n] # RdfFile[m]
    /\ \A n \in Used \ BinNames, m \in BinNames : BinFile[n] # BinFile[m]
    /\ \A m, n \in Names : RdfFile[m] \notin Above[RdfFile[n]]
    /\ \A m \in Names, n \in BinNames : RdfFile[m] \notin Above[BinFile[n]]

(* Binaries with files of their own.  Their metadata may be a graph that is *)
(* written and deleted as such, and other binaries may lie below its file.  *)
BytesApart ==
    \A n \in BinNames :
       LET its == {BinFile[n], RdfFile[n]} IN
       /\ \A m \in Used : BinFile[m] = BinFile[n] => m = n
       /\ \A m \in Used : MetaFile[m] \notin its /\ DescriptionOf[m] # n
       /\ \A m \in RdfNames : RdfFile[m] \notin its /\ its \cap Above[RdfFile[m]] = {}
       /\ \A m \in BinNames : BinFile[m] # RdfFile[n] /\ its \cap Above[BinFile[m]] = {}

(* The store a caller sees, with the call under way already done. *)
Writing(n) == {op[c].data : c \in {x \in Working : op[x].call = "write" /\ op[x].name = n}}
Filling(n) == {op[c].data : c \in {x \in Working : op[x].call \in {"bytes", "sidecar"}
                                                   /\ op[x].name = n}}
Describing(n) == UNION {Filling(m) : m \in {x \in BinNames : DescriptionOf[x] = n}}
Removing(n) == \E c \in Working : op[c].call = "unsidecar" /\ DescriptionOf[op[c].name] = n
Only(S) == CHOOSE x \in S : TRUE

AbstractRdf == [n \in Names |->
    IF Writing(n) # {} THEN Only(Writing(n))
    ELSE IF Describing(n) # {} THEN Sidecar[Only(Describing(n))]
    ELSE IF Removing(n) \/ ~Found(n) THEN "absent" ELSE file[RdfFile[n]].of]
AbstractBin == [n \in BinNames |->
    IF Filling(n) # {} THEN Only(Filling(n))
    ELSE IF IsFile(BinFile[n]) THEN file[BinFile[n]].of ELSE "absent"]
Abstract == INSTANCE ResourceStore WITH rdf <- AbstractRdf, bin <- AbstractBin,
                                        Absent <- "absent"

(* StorageBackend: as long as nobody stops the process in the middle of a   *)
(* call, the files and the dataset together are a store of whole resources, *)
(* and a start brings it back as it was.                                    *)
ImplementsStore == Abstract!Spec

(* The dataset that answers reads and queries holds what the files say.     *)
MemoryMatchesDisk ==
    process = "running" /\ lock = Nobody => \A n \in Names : graph[n] = Parse(file[RdfFile[n]])

(* Every graph stored by a call that returned is still there, however the   *)
(* process was stopped since, unless the stop hit a later call on it.       *)
KeepsGraphs ==
    process = "running" /\ lock = Nobody =>
        \A n \in Names \ hit : graph[n] = written[n].of /\ (Found(n) <=> written[n] # Missing)

(* So are the bytes of every binary, also while other calls are under way   *)
(* and when its metadata is written and deleted as a graph.                 *)
KeepsBinaries ==
    \A n \in BinNames \ hit :
        (\A c \in Working : op[c].name # n) /\ process = "running"
            => file[BinFile[n]] = streamed[n]

(* A binary that is overwritten can be found all the time. *)
OverwriteKeepsFindable ==
    process = "running" =>
        \A n \in BinNames \ hit :
            streamed[n] # Missing /\ ~Removing(DescriptionOf[n]) => IsFile(BinFile[n])

(* Only a file that a crash cut short can keep the server from starting. *)
OnlyDamageRefusesStart == process = "refused" => \E n \in hit : file[RdfFile[n]] = Cut

(* StorageBackend.read: "Raises ResourceNotFound if no resource exists at   *)
(* uri": no call has stored an RDF resource there.                          *)
ReadsOnlyWritten ==
    [][\A c \in Callers, n \in RdfNames :
          Read(c, n) /\ n \notin hit /\ written[n] = Missing
             => answer'[c] = "not found"]_vars
=============================================================================
