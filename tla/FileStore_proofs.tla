-------------------------- MODULE FileStore_proofs --------------------------
(***************************************************************************)
(* Proofs about the filesystem backend, for every set of names that do not *)
(* share files and every number of callers: its state is well typed, the   *)
(* dataset in memory never drifts from the files, what finished calls      *)
(* stored survives a stop at any point, and between stops the backend      *)
(* implements the atomic store of ResourceStore.                           *)
(***************************************************************************)
EXTENDS FileStore, TLAPS

----------------------------------------------------------------------------
(* Files and contents *)

LEMMA ContentFacts ==
    /\ {Missing, Dir, Empty, Cut} \subseteq Contents
    /\ \A g \in Stored : Text(g) \in Contents
    /\ \A b \in Bodies : Bytes(b) \in Contents
    /\ \A x \in Contents : x.kind \in {"missing", "dir", "empty", "cut", "text", "bytes"}
    /\ \A x \in Contents : x.kind = "text" => x.of \in Stored
    /\ \A x \in Contents : x.kind = "bytes" => x.of \in Bodies
    /\ \A x \in Contents : x.kind \notin {"text", "bytes"} => x.of = NoTriples
<1> USE DEF Contents, Missing, Dir, Empty, Cut, Text, Bytes
<1>1. /\ {Missing, Dir, Empty, Cut} \subseteq Contents
      /\ \A g \in Stored : Text(g) \in Contents
      /\ \A b \in Bodies : Bytes(b) \in Contents
  OBVIOUS
<1>2. ASSUME NEW x \in Contents
      PROVE  /\ x.kind \in {"missing", "dir", "empty", "cut", "text", "bytes"}
             /\ x.kind = "text" => x.of \in Stored
             /\ x.kind = "bytes" => x.of \in Bodies
             /\ x.kind \notin {"text", "bytes"} => x.of = NoTriples
  OBVIOUS
<1> QED
  BY <1>1, <1>2

LEMMA ParseFacts ==
    /\ Parse(Missing) = NoTriples
    /\ Parse(Empty) = NoTriples
    /\ \A g : Parse(Text(g)) = g
    /\ \A x \in Contents : Parse(x) \in Stored \cup {Garbage}
<1>1. Parse(Missing) = NoTriples /\ Parse(Empty) = NoTriples /\ \A g : Parse(Text(g)) = g
  BY DEF Parse, Missing, Empty, Text
<1>2. ASSUME NEW x \in Contents PROVE Parse(x) \in Stored \cup {Garbage}
  <2>1. CASE x.kind = "text"
    BY <2>1, ContentFacts DEF Parse
  <2>2. CASE x.kind = "bytes"
    BY <2>2, ContentFacts, DataAssumption DEF Parse
  <2>3. CASE x.kind \in {"missing", "empty"}
    BY <2>3 DEF Parse, Stored
  <2>4. CASE x.kind \in {"dir", "cut"}
    BY <2>4 DEF Parse
  <2> QED
    BY <2>1, <2>2, <2>3, <2>4, ContentFacts
<1> QED
  BY <1>1, <1>2

(* Opening a file changes that file and the directories over it. *)
LEMMA Opening ==
    ASSUME NEW p \in Files, file \in [Files -> Contents]
    PROVE  /\ Opened(p) \in [Files -> Contents]
           /\ Opened(p)[p] = Empty
           /\ \A q \in Files : q # p /\ q \notin Above[p] => Opened(p)[q] = file[q]
           /\ \A q \in Files : q \in Above[p] /\ q # p => Opened(p)[q] = Dir
  BY ContentFacts DEF Opened

----------------------------------------------------------------------------
(* Type correctness *)

(* The argument of a call fits the call. *)
CallShape(o) ==
    /\ o.call = "write" => o.data \in Stored
    /\ o.call \in {"bytes", "sidecar"} => o.name \in BinNames /\ o.data \in Bodies
    /\ o.call \in {"unsidecar", "tagged"} => o.name \in Used
OpShape == \A c \in Callers : CallShape(op[c])
Typed == TypeOK /\ OpShape

LEMMA IdleFacts == Idle \in Ops /\ CallShape(Idle) /\ Idle.call = "idle"
<1>1. (CHOOSE n \in Names : TRUE) \in Names
  BY NamesAssumption
<1> QED
  BY <1>1 DEF Idle, Ops, CallShape, Stored

(* A call that is refused changes its answer only. *)
LEMMA RefuseType ==
    ASSUME Typed, NEW c \in Callers,
           NEW r \in Stored \cup {"ok", "not found", "changed", "failed", "forbidden",
                                  "sent", "aborted", "not binary"},
           Refuse(c, r)
    PROVE  Typed'
  BY DEF Typed, TypeOK, OpShape, CallShape, Refuse, Respond, history

(* Entering and leaving a call. *)
LEMMA EnterType ==
    ASSUME Typed, NEW c \in Callers, NEW n \in Names,
           NEW call \in {"write", "bytes", "sidecar", "unsidecar"},
           NEW d \in Stored \cup Bodies, Enter(c, call, n, d),
           call = "write" => d \in Stored,
           call \in {"bytes", "sidecar"} => n \in BinNames /\ d \in Bodies,
           call = "unsidecar" => n \in Used
    PROVE  op' \in [Callers -> Ops] /\ OpShape' /\ lock' \in Callers \cup {Nobody}
<1> DEFINE o == [call |-> call, name |-> n, data |-> d]
<1>1. o \in Ops /\ CallShape(o)
  BY DEF Ops, CallShape
<1>2. op' = [op EXCEPT ![c] = o] /\ lock' = c
  BY DEF Enter
<1> HIDE DEF o
<1> QED
  BY <1>1, <1>2 DEF Typed, TypeOK, OpShape

LEMMA LeaveType ==
    ASSUME Typed, NEW c \in Callers, NEW r \in {"ok", "failed"}, Leave(c, r)
    PROVE  /\ op' \in [Callers -> Ops] /\ OpShape' /\ lock' \in Callers \cup {Nobody}
           /\ answer' \in [Callers -> Stored \cup {"none", "ok", "not found", "changed", "failed",
                                                   "forbidden", "sent", "aborted", "not binary"}]
  BY IdleFacts DEF Typed, TypeOK, OpShape, Leave, Respond

LEMMA TypedStep == Typed /\ [Next]_vars => Typed'
<1> SUFFICES ASSUME Typed, [Next]_vars PROVE Typed'
  OBVIOUS
<1> USE DEF history
<1>1. ASSUME NEW c \in Callers, NEW n \in RdfNames, Read(c, n) PROVE Typed'
  <2>1. graph[n] \in Stored
    BY NamesAssumption DEF Typed, TypeOK
  <2> QED
    BY <1>1, <2>1, RefuseType DEF Read
<1>2. ASSUME NEW c \in Callers, NEW n \in RdfNames, NEW g \in Stored, BeginWrite(c, n, g)
      PROVE  Typed'
  <2>1. CASE Refuse(c, "forbidden") \/ Refuse(c, "failed")
    BY <2>1, RefuseType
  <2>2. CASE /\ file' = Opened(RdfFile[n])
             /\ Enter(c, "write", n, g)
             /\ UNCHANGED <<graph, process, answer, history>>
    <3>1. n \in Names /\ RdfFile[n] \in Files
      BY NamesAssumption
    <3>2. file' \in [Files -> Contents]
      BY <2>2, <3>1, Opening DEF Typed, TypeOK
    <3>3. op' \in [Callers -> Ops] /\ OpShape' /\ lock' \in Callers \cup {Nobody}
      BY <2>2, <3>1, EnterType
    <3> QED
      BY <2>2, <3>2, <3>3 DEF Typed, TypeOK
  <2> QED
    BY <1>2, <2>1, <2>2 DEF BeginWrite
<1>3. ASSUME NEW c \in Callers, NEW n \in RdfNames, NEW g \in Stored, NEW e \in Stored,
             BeginReplace(c, n, g, e)
      PROVE  Typed'
  <2>1. CASE Refuse(c, "changed") \/ Refuse(c, "failed")
    BY <2>1, RefuseType
  <2>2. CASE /\ file' = Opened(RdfFile[n])
             /\ Enter(c, "write", n, g)
             /\ UNCHANGED <<graph, process, answer, history>>
    <3>1. n \in Names /\ RdfFile[n] \in Files
      BY NamesAssumption
    <3>2. file' \in [Files -> Contents]
      BY <2>2, <3>1, Opening DEF Typed, TypeOK
    <3>3. op' \in [Callers -> Ops] /\ OpShape' /\ lock' \in Callers \cup {Nobody}
      BY <2>2, <3>1, EnterType
    <3> QED
      BY <2>2, <3>2, <3>3 DEF Typed, TypeOK
  <2> QED
    BY <1>3, <2>1, <2>2 DEF BeginReplace
<1>4. ASSUME NEW c \in Callers, NEW n \in BinNames, NEW b \in Bodies, BeginBinary(c, n, b)
      PROVE  Typed'
  <2>1. CASE Refuse(c, "forbidden") \/ Refuse(c, "failed")
    BY <2>1, RefuseType
  <2>2. CASE /\ file' = Opened(BinFile[n])
             /\ Enter(c, "bytes", n, b)
             /\ UNCHANGED <<graph, process, answer, history>>
    <3>1. n \in Names /\ BinFile[n] \in Files
      BY NamesAssumption DEF Used
    <3>2. file' \in [Files -> Contents]
      BY <2>2, <3>1, Opening DEF Typed, TypeOK
    <3>3. op' \in [Callers -> Ops] /\ OpShape' /\ lock' \in Callers \cup {Nobody}
      BY <2>2, <3>1, EnterType
    <3> QED
      BY <2>2, <3>2, <3>3 DEF Typed, TypeOK
  <2> QED
    BY <1>4, <2>1, <2>2 DEF BeginBinary
<1>5. ASSUME NEW c \in Callers, NEW n \in BinNames, OpenStream(c, n) PROVE Typed'
  <2>1. n \in Names /\ n \in Used /\ BinFile[n] \in Files
    BY NamesAssumption DEF Used
  <2>2. [call |-> "tagged", name |-> n, data |-> file[BinFile[n]]] \in Ops
    BY <2>1 DEF Ops, Typed, TypeOK
  <2>3. CASE ~IsFile(BinFile[n])
    BY <1>5, <2>3, RefuseType DEF OpenStream, Refuse
  <2>4. CASE op' = [op EXCEPT ![c] = [call |-> "tagged", name |-> n, data |-> file[BinFile[n]]]]
             /\ UNCHANGED <<file, graph, process, lock, answer, history>>
    <3>1. op' \in [Callers -> Ops]
      BY <2>2, <2>4 DEF Typed, TypeOK
    <3>2. OpShape'
      BY <2>1, <2>4 DEF Typed, TypeOK, OpShape, CallShape
    <3> QED
      BY <2>4, <3>1, <3>2 DEF Typed, TypeOK
  <2> QED
    BY <1>5, <2>3, <2>4 DEF OpenStream
<1>6. ASSUME NEW c \in Callers, NEW n \in Used, BeginDelete(c, n) PROVE Typed'
  <2>1. CASE \E r \in {"forbidden", "failed", "not found"} : Refuse(c, r)
    BY <2>1, RefuseType
  <2>2. n \in Names
    BY NamesAssumption DEF Used
  <2>3. CASE /\ file' = [file EXCEPT ![RdfFile[n]] = Missing]
             /\ graph' = [graph EXCEPT ![n] = NoTriples]
             /\ written' = [written EXCEPT ![n] = Missing]
             /\ hit' = hit \ {n}
             /\ Respond(c, "ok")
             /\ UNCHANGED <<process, lock, op, streamed>>
    BY <2>3, ContentFacts DEF Respond, Typed, TypeOK, OpShape, Stored
  <2>4. CASE /\ file' = [file EXCEPT ![BinFile[n]] = Missing]
             /\ Enter(c, "unsidecar", n, NoTriples)
             /\ UNCHANGED <<graph, process, answer, history>>
    <3>1. op' \in [Callers -> Ops] /\ OpShape' /\ lock' \in Callers \cup {Nobody}
      BY <2>2, <2>4, EnterType DEF Stored
    <3>2. file' \in [Files -> Contents]
      BY <2>4, ContentFacts DEF Typed, TypeOK
    <3> QED
      BY <2>4, <3>1, <3>2 DEF Typed, TypeOK
  <2> QED
    BY <1>6, <2>1, <2>3, <2>4 DEF BeginDelete
<1>7. ASSUME NEW c \in Callers, EndWrite(c) PROVE Typed'
  <2>1. op[c].name \in Names /\ op[c].data \in Stored
    BY <1>7 DEF EndWrite, Typed, TypeOK, Ops, OpShape, CallShape
  <2>2. /\ op' \in [Callers -> Ops] /\ OpShape' /\ lock' \in Callers \cup {Nobody}
        /\ TypeOK!6'
    BY <1>7, LeaveType DEF EndWrite, TypeOK
  <2>3. file' \in [Files -> Contents] /\ graph' \in [Names -> Stored]
    BY <1>7, <2>1, ContentFacts DEF EndWrite, Typed, TypeOK
  <2>4. written' \in [Names -> {Missing} \cup {Text(g) : g \in Stored}] /\ hit' \subseteq Names
    BY <1>7, <2>1 DEF EndWrite, Typed, TypeOK
  <2> QED
    BY <1>7, <2>2, <2>3, <2>4 DEF EndWrite, Typed, TypeOK
<1>8. ASSUME NEW c \in Callers, EndBytes(c) PROVE Typed'
  <2>1. /\ op[c].name \in BinNames /\ op[c].name \in Used /\ op[c].name \in Names
        /\ op[c].data \in Bodies /\ DescriptionOf[op[c].name] \in Names
    BY <1>8, NamesAssumption DEF EndBytes, Typed, OpShape, CallShape, Used
  <2>2. CASE file' = [file EXCEPT ![BinFile[op[c].name]] = Bytes(op[c].data)] /\ Fail(c)
             /\ UNCHANGED <<graph, process, written, streamed>>
    <3>1. op' \in [Callers -> Ops] /\ OpShape' /\ lock' \in Callers \cup {Nobody} /\ TypeOK!6'
      BY <2>2, LeaveType DEF Fail, TypeOK
    <3>2. file' \in [Files -> Contents]
      BY <2>1, <2>2, ContentFacts DEF Typed, TypeOK
    <3>3. hit' \subseteq Names
      BY <2>1, <2>2 DEF Fail, Typed, TypeOK
    <3> QED
      BY <2>2, <3>1, <3>2, <3>3 DEF Typed, TypeOK
  <2>3. CASE file' = [[file EXCEPT ![BinFile[op[c].name]] = Bytes(op[c].data)]
                          EXCEPT ![MetaFile[op[c].name]] = Empty]
             /\ Enter(c, "sidecar", op[c].name, op[c].data)
             /\ UNCHANGED <<answer, hit, graph, process, written, streamed>>
    <3>1. op' \in [Callers -> Ops] /\ OpShape' /\ lock' \in Callers \cup {Nobody}
      BY <2>1, <2>3, EnterType
    <3>2. file' \in [Files -> Contents]
      BY <2>1, <2>3, ContentFacts DEF Typed, TypeOK
    <3> QED
      BY <2>3, <3>1, <3>2 DEF Typed, TypeOK
  <2> QED
    BY <1>8, <2>2, <2>3 DEF EndBytes
<1>9. ASSUME NEW c \in Callers, EndSidecar(c) PROVE Typed'
  <2>1. /\ op[c].name \in Used /\ op[c].name \in Names /\ op[c].data \in Bodies
        /\ DescriptionOf[op[c].name] \in Names /\ Sidecar[op[c].data] \in Stored
    BY <1>9, NamesAssumption, DataAssumption
    DEF EndSidecar, Typed, OpShape, CallShape, Used, Stored
  <2>2. op' \in [Callers -> Ops] /\ OpShape' /\ lock' \in Callers \cup {Nobody} /\ TypeOK!6'
    BY <1>9, LeaveType DEF EndSidecar, TypeOK
  <2>3. file' \in [Files -> Contents] /\ graph' \in [Names -> Stored]
    BY <1>9, <2>1, ContentFacts DEF EndSidecar, Typed, TypeOK
  <2>4. /\ written' \in [Names -> {Missing} \cup {Text(g) : g \in Stored}]
        /\ streamed' \in [Used -> {Missing} \cup {Bytes(b) : b \in Bodies}]
        /\ hit' \subseteq Names
    BY <1>9, <2>1 DEF EndSidecar, Typed, TypeOK
  <2> QED
    BY <1>9, <2>2, <2>3, <2>4 DEF EndSidecar, Typed, TypeOK
<1>10. ASSUME NEW c \in Callers, EndDelete(c) PROVE Typed'
  <2>1. /\ op[c].name \in Used /\ op[c].name \in Names /\ DescriptionOf[op[c].name] \in Names
    BY <1>10, NamesAssumption DEF EndDelete, Typed, OpShape, CallShape, Used
  <2>2. op' \in [Callers -> Ops] /\ OpShape' /\ lock' \in Callers \cup {Nobody} /\ TypeOK!6'
    BY <1>10, LeaveType DEF EndDelete, Fail, TypeOK
  <2>3. file' \in [Files -> Contents] /\ graph' \in [Names -> Stored]
    <3>1. Missing \in Contents /\ NoTriples \in Stored
      BY ContentFacts DEF Stored
    <3>2. \/ file' = file
          \/ file' = [file EXCEPT ![MetaFile[op[c].name]] = Missing]
      BY <1>10 DEF EndDelete
    <3>3. \/ graph' = graph
          \/ graph' = [graph EXCEPT ![DescriptionOf[op[c].name]] = NoTriples]
      BY <1>10 DEF EndDelete
    <3>4. file \in [Files -> Contents] /\ graph \in [Names -> Stored]
      BY DEF Typed, TypeOK
    <3>5. file' \in [Files -> Contents]
      BY <3>1, <3>2, <3>4
    <3>6. graph' \in [Names -> Stored]
      BY <3>1, <3>3, <3>4
    <3> QED
      BY <3>5, <3>6
  <2>4. /\ written' \in [Names -> {Missing} \cup {Text(g) : g \in Stored}]
        /\ streamed' \in [Used -> {Missing} \cup {Bytes(b) : b \in Bodies}]
        /\ hit' \subseteq Names
    BY <1>10, <2>1 DEF EndDelete, Fail, Typed, TypeOK
  <2> QED
    BY <1>10, <2>2, <2>3, <2>4 DEF EndDelete, Typed, TypeOK
<1>11. ASSUME NEW c \in Callers, SendBody(c) PROVE Typed'
  BY <1>11, IdleFacts DEF SendBody, Respond, Typed, TypeOK, OpShape
<1>12. CASE Stop
  <2>1. ASSUME NEW c \in Working, NEW left \in Remains(op[c])
        PROVE  left \in Contents /\ Touched(op[c]) \subseteq Names
    <3>1. c \in Callers /\ op[c].call \in {"write", "bytes", "sidecar", "unsidecar"}
          /\ op[c].name \in Names
      BY DEF Working, Typed, TypeOK, Ops
    <3>2. CASE op[c].call = "write"
      BY <3>1, <3>2, ContentFacts DEF Remains, Touched, Typed, OpShape, CallShape
    <3>3. CASE op[c].call = "bytes"
      BY <3>1, <3>3, ContentFacts, NamesAssumption
      DEF Remains, Touched, Typed, OpShape, CallShape, Used
    <3>4. CASE op[c].call = "sidecar"
      BY <3>1, <3>4, ContentFacts, NamesAssumption, DataAssumption
      DEF Remains, Touched, Typed, OpShape, CallShape, Used, Stored
    <3>5. CASE op[c].call = "unsidecar"
      <4>1. left = file[MetaFile[op[c].name]]
        BY <3>5 DEF Remains, Target
      <4>2. op[c].name \in Used
        BY <3>1, <3>5 DEF Typed, OpShape, CallShape
      <4>3. MetaFile[op[c].name] \in Files /\ DescriptionOf[op[c].name] \in Names
        BY <4>2, NamesAssumption DEF Used
      <4>4. left \in Contents
        BY <4>1, <4>3 DEF Typed, TypeOK
      <4> QED
        BY <3>1, <4>3, <4>4 DEF Touched
    <3> QED
      BY <3>1, <3>2, <3>3, <3>4, <3>5
  <2>2. file' \in [Files -> Contents] /\ hit' \subseteq Names
    BY <1>12, <2>1 DEF Stop, Typed, TypeOK
  <2>3. op' \in [Callers -> Ops] /\ OpShape'
    BY <1>12, IdleFacts DEF Stop, OpShape
  <2> QED
    BY <1>12, <2>2, <2>3 DEF Stop, Typed, TypeOK, Stored
<1>13. CASE Boot
  <2>1. ASSUME \A n \in Names : Parse(file[RdfFile[n]]) # Garbage
        PROVE  \A n \in Names : Parse(file[RdfFile[n]]) \in Stored
    BY <2>1, ParseFacts, NamesAssumption DEF Typed, TypeOK
  <2> QED
    BY <1>13, <2>1 DEF Boot, Typed, TypeOK, OpShape
<1>14. CASE UNCHANGED vars
  BY <1>14 DEF vars, Typed, TypeOK, OpShape
<1> QED
  BY <1>1, <1>2, <1>3, <1>4, <1>5, <1>6, <1>7, <1>8, <1>9, <1>10, <1>11, <1>12, <1>13, <1>14
  DEF Next, Call, RdfCall, BinaryCall, Finish

(* The state has the types it is meant to have.  In particular the dataset  *)
(* only holds graphs: a start that would load anything else is refused.     *)
THEOREM TypeCorrect == Spec => []TypeOK
<1>1. Init => Typed
  BY ContentFacts, IdleFacts DEF Init, Typed, TypeOK, OpShape, Stored
<1>2. Typed => TypeOK
  BY DEF Typed
<1> QED
  BY <1>1, <1>2, TypedStep, PTL DEF Spec

----------------------------------------------------------------------------
(* Memory and disk *)

(* Who works holds the lock, and a process that is not running works on     *)
(* nothing.                                                                 *)
LockHeld == \A c \in Callers : op[c].call \notin {"idle", "tagged"} => lock = c
AtRest == process # "running" => \A c \in Callers : op[c] = Idle

(* The name whose file a call is filling. *)
Fills(o, n) ==
    \/ o.call = "write" /\ o.name = n
    \/ o.call = "sidecar" /\ DescriptionOf[o.name] = n

(* Every other name is the same in memory and on disk. *)
Mirror ==
    process = "running" =>
        \A n \in Names : (\A c \in Callers : ~Fills(op[c], n)) => graph[n] = Parse(file[RdfFile[n]])

(* No bytes are kept where only directories are expected. *)
BytesInPlace ==
    /\ \A n \in Used \ BinNames : ~IsFile(BinFile[n])
    /\ \A c \in Callers : op[c].call \in {"bytes", "sidecar", "unsidecar"} => op[c].name \in BinNames

(* A call that is refused disturbs nothing. *)
LEMMA QuietStep ==
    ASSUME LockHeld, AtRest, Mirror, BytesInPlace, UNCHANGED <<file, graph, process, lock, op>>
    PROVE  LockHeld' /\ AtRest' /\ Mirror' /\ BytesInPlace'
  BY DEF LockHeld, AtRest, Mirror, BytesInPlace, IsFile

(* Who finds the lock free finds nobody at work. *)
LEMMA NobodyWorks ==
    ASSUME LockHeld, lock = Nobody
    PROVE  \A c \in Callers : op[c].call \in {"idle", "tagged"}
  BY DataAssumption DEF LockHeld

LEMMA OthersRest ==
    ASSUME LockHeld, NEW c \in Callers, op[c].call \notin {"idle", "tagged"}
    PROVE  \A d \in Callers \ {c} : op[d].call \in {"idle", "tagged"}
  BY DEF LockHeld

(* What Enter and Leave do to the part of the invariant about calls. *)
LEMMA EnterOrder ==
    ASSUME Typed, LockHeld, AtRest, NEW c \in Callers, Free(c) \/ op[c].call \notin {"idle", "tagged"},
           NEW call, NEW n, NEW d, Enter(c, call, n, d), UNCHANGED process
    PROVE  /\ LockHeld' /\ AtRest'
           /\ op'[c] = [call |-> call, name |-> n, data |-> d]
           /\ \A x \in Callers \ {c} : op'[x] = op[x] /\ op[x].call \in {"idle", "tagged"}
<1>1. \A x \in Callers \ {c} : op[x].call \in {"idle", "tagged"}
  BY NobodyWorks, OthersRest DEF Free
<1>2. op'[c] = [call |-> call, name |-> n, data |-> d] /\ lock' = c
      /\ \A x \in Callers \ {c} : op'[x] = op[x]
  BY DEF Enter, Typed, TypeOK
<1>3. process = "running"
  BY IdleFacts DEF Free, AtRest
<1> QED
  BY <1>1, <1>2, <1>3 DEF LockHeld, AtRest

LEMMA LeaveOrder ==
    ASSUME Typed, LockHeld, AtRest, NEW c \in Callers, op[c].call \notin {"idle", "tagged"},
           NEW r, Leave(c, r), UNCHANGED process
    PROVE  /\ LockHeld' /\ AtRest' /\ process = "running"
           /\ op'[c] = Idle
           /\ \A x \in Callers \ {c} : op'[x] = op[x] /\ op[x].call \in {"idle", "tagged"}
<1>1. \A x \in Callers \ {c} : op[x].call \in {"idle", "tagged"}
  BY OthersRest
<1>2. op'[c] = Idle /\ \A x \in Callers \ {c} : op'[x] = op[x]
  BY DEF Leave, Typed, TypeOK
<1>3. process = "running"
  BY IdleFacts DEF AtRest
<1> QED
  BY <1>1, <1>2, <1>3, IdleFacts DEF LockHeld, AtRest

InStep == LockHeld /\ AtRest /\ Mirror /\ BytesInPlace

(* A file opened for a call: nothing but the file that the call will fill   *)
(* is disturbed, unless it is the file of a binary.                         *)
LEMMA OpenStep ==
    ASSUME NoCollisions, Typed, InStep, NEW c \in Callers, Free(c),
           NEW call \in {"write", "bytes"}, NEW n \in Names, NEW d, Enter(c, call, n, d),
           NEW p \in Files, Writable(p), file' = Opened(p), UNCHANGED <<graph, process>>,
           call = "write" => p = RdfFile[n],
           call = "bytes" => n \in BinNames /\ p = BinFile[n]
    PROVE  InStep'
<1>1. /\ LockHeld' /\ AtRest'
      /\ op'[c] = [call |-> call, name |-> n, data |-> d]
      /\ \A x \in Callers \ {c} : op'[x] = op[x] /\ op[x].call \in {"idle", "tagged"}
  BY EnterOrder DEF InStep
<1>2. \A q \in Files : q # p /\ q \notin Above[p] => file'[q] = file[q]
  BY Opening DEF Typed, TypeOK
<1>3. ASSUME NEW m \in Names, m # n \/ call = "bytes" PROVE file'[RdfFile[m]] = file[RdfFile[m]]
  <2>1. RdfFile[m] \in Files /\ (call = "bytes" => n \in Used)
    BY NamesAssumption DEF Used
  <2>2. RdfFile[m] # p /\ RdfFile[m] \notin Above[p]
    BY <1>3, <2>1 DEF NoCollisions
  <2> QED
    BY <1>2, <2>1, <2>2
<1>4. Mirror'
  <2> SUFFICES ASSUME NEW m \in Names, process' = "running", \A x \in Callers : ~Fills(op'[x], m)
               PROVE  graph'[m] = Parse(file'[RdfFile[m]])
    BY DEF Mirror, Fills
  <2>1. m # n \/ call = "bytes"
    BY <1>1 DEF Fills
  <2>2. \A x \in Callers : ~Fills(op[x], m)
    <3>1. op[c].call = "idle"
      BY IdleFacts DEF Free
    <3> QED
      BY <1>1, <3>1 DEF Fills
  <2> QED
    BY <1>3, <2>1, <2>2 DEF InStep, Mirror
<1>5. BytesInPlace'
  <2>1. ASSUME NEW m \in Used \ BinNames PROVE ~IsFile(BinFile[m])'
    <3>1. BinFile[m] \in Files /\ BinFile[m] # p
      BY NamesAssumption DEF NoCollisions
    <3>2. file'[BinFile[m]] = file[BinFile[m]] \/ file'[BinFile[m]] = Dir
      BY <1>2, <3>1, Opening DEF Typed, TypeOK
    <3> QED
      BY <3>2 DEF InStep, BytesInPlace, IsFile, Dir
  <2>2. \A x \in Callers : op'[x].call \in {"bytes", "sidecar", "unsidecar"} => op'[x].name \in BinNames
    BY <1>1
  <2> QED
    BY <2>1, <2>2 DEF BytesInPlace
<1> QED
  BY <1>1, <1>4, <1>5 DEF InStep

LEMMA InStepStep == NoCollisions /\ Typed /\ InStep /\ [Next]_vars => InStep'
<1> SUFFICES ASSUME NoCollisions, Typed, InStep, [Next]_vars PROVE InStep'
  OBVIOUS
<1> USE DEF history
<1>1. ASSUME UNCHANGED <<file, graph, process, lock, op>> PROVE InStep'
  BY <1>1, QuietStep DEF InStep
<1>2. ASSUME NEW c \in Callers, NEW r, Refuse(c, r) PROVE InStep'
  BY <1>1, <1>2 DEF Refuse
<1>3. ASSUME NEW c \in Callers, NEW n \in RdfNames, Read(c, n) PROVE InStep'
  BY <1>2, <1>3 DEF Read
<1>4. ASSUME NEW c \in Callers, NEW n \in RdfNames, NEW g \in Stored,
             BeginWrite(c, n, g) \/ (\E e \in Stored : BeginReplace(c, n, g, e))
      PROVE  InStep'
  <2>1. CASE \E r : Refuse(c, r)
    BY <1>2, <2>1
  <2>2. CASE /\ Writable(RdfFile[n])
             /\ file' = Opened(RdfFile[n])
             /\ Enter(c, "write", n, g)
             /\ UNCHANGED <<graph, process, answer, history>>
    <3>1. Free(c)
      BY <1>4 DEF BeginWrite, BeginReplace
    <3>2. n \in Names /\ RdfFile[n] \in Files
      BY NamesAssumption
    <3> QED
      BY <2>2, <3>1, <3>2, OpenStep
  <2> QED
    BY <1>4, <2>1, <2>2 DEF BeginWrite, BeginReplace
<1>5. ASSUME NEW c \in Callers, NEW n \in BinNames, NEW b \in Bodies, BeginBinary(c, n, b)
      PROVE  InStep'
  <2>1. CASE \E r : Refuse(c, r)
    BY <1>2, <2>1
  <2>2. CASE /\ Writable(BinFile[n])
             /\ file' = Opened(BinFile[n])
             /\ Enter(c, "bytes", n, b)
             /\ UNCHANGED <<graph, process, answer, history>>
    <3>1. Free(c)
      BY <1>5 DEF BeginBinary
    <3>2. n \in Names /\ BinFile[n] \in Files
      BY NamesAssumption DEF Used
    <3> QED
      BY <2>2, <3>1, <3>2, OpenStep
  <2> QED
    BY <1>5, <2>1, <2>2 DEF BeginBinary
<1>6. ASSUME NEW c \in Callers, NEW n \in BinNames, OpenStream(c, n) PROVE InStep'
  <2>1. CASE UNCHANGED op
    BY <1>1, <1>6, <2>1 DEF OpenStream
  <2>2. CASE op' = [op EXCEPT ![c] = [call |-> "tagged", name |-> n, data |-> file[BinFile[n]]]]
    <3>1. op'[c].call = "tagged" /\ \A x \in Callers \ {c} : op'[x] = op[x]
      BY <2>2 DEF Typed, TypeOK
    <3>2. op[c].call = "idle" /\ process = "running" /\ UNCHANGED <<file, graph, process, lock>>
      BY <1>6, IdleFacts DEF OpenStream
    <3> QED
      BY <3>1, <3>2 DEF InStep, LockHeld, AtRest, Mirror, Fills, BytesInPlace, IsFile
  <2> QED
    BY <1>6, <2>1, <2>2 DEF OpenStream
<1>7. ASSUME NEW c \in Callers, SendBody(c) PROVE InStep'
  <2>1. op'[c] = Idle /\ \A x \in Callers \ {c} : op'[x] = op[x]
    BY <1>7 DEF SendBody, Typed, TypeOK
  <2>2. op[c].call = "tagged" /\ UNCHANGED <<file, graph, process, lock>>
    BY <1>7 DEF SendBody
  <2> QED
    BY <2>1, <2>2, IdleFacts DEF InStep, LockHeld, AtRest, Mirror, Fills, BytesInPlace, IsFile
<1>8. ASSUME NEW c \in Callers, NEW n \in Used, BeginDelete(c, n) PROVE InStep'
  <2>1. CASE \E r : Refuse(c, r)
    BY <1>2, <2>1
  <2>2. n \in Names /\ RdfFile[n] \in Files /\ BinFile[n] \in Files /\ Free(c)
    BY <1>8, NamesAssumption DEF Used, BeginDelete
  <2>3. CASE /\ file' = [file EXCEPT ![RdfFile[n]] = Missing]
             /\ graph' = [graph EXCEPT ![n] = NoTriples]
             /\ UNCHANGED <<process, lock, op>>
    <3>1. Mirror'
      <4> SUFFICES ASSUME NEW m \in Names, process = "running",
                          \A x \in Callers : ~Fills(op[x], m)
                   PROVE  graph'[m] = Parse(file'[RdfFile[m]])
        BY <2>3 DEF Mirror
      <4>1. CASE m = n
        BY <2>2, <2>3, <4>1, ParseFacts DEF Typed, TypeOK
      <4>2. CASE m # n
        <5>1. RdfFile[m] # RdfFile[n]
          BY <2>2, <4>2 DEF NoCollisions
        <5>2. graph'[m] = graph[m] /\ file'[RdfFile[m]] = file[RdfFile[m]]
          BY <2>2, <2>3, <4>2, <5>1, NamesAssumption DEF Typed, TypeOK
        <5> QED
          BY <5>2 DEF InStep, Mirror
      <4> QED
        BY <4>1, <4>2
    <3>2. BytesInPlace'
      <4>1. \A m \in Used : file'[BinFile[m]] = file[BinFile[m]]
        BY <2>2, <2>3, NamesAssumption DEF NoCollisions, Typed, TypeOK
      <4> QED
        BY <2>3, <4>1 DEF InStep, BytesInPlace, IsFile
    <3> QED
      BY <2>3, <3>1, <3>2 DEF InStep, LockHeld, AtRest
  <2>4. CASE /\ IsFile(BinFile[n])
             /\ file' = [file EXCEPT ![BinFile[n]] = Missing]
             /\ Enter(c, "unsidecar", n, NoTriples)
             /\ UNCHANGED <<graph, process, answer, history>>
    <3>1. /\ LockHeld' /\ AtRest'
          /\ op'[c] = [call |-> "unsidecar", name |-> n, data |-> NoTriples]
          /\ \A x \in Callers \ {c} : op'[x] = op[x] /\ op[x].call \in {"idle", "tagged"}
      BY <2>2, <2>4, EnterOrder DEF InStep
    <3>2. n \in BinNames
      BY <2>4 DEF InStep, BytesInPlace
    <3>3. \A m \in Names : file'[RdfFile[m]] = file[RdfFile[m]]
      BY <2>2, <2>4, NamesAssumption DEF NoCollisions, Typed, TypeOK
    <3>4. op[c].call = "idle"
      BY <2>2, IdleFacts DEF Free
    <3>5. Mirror'
      BY <2>4, <3>1, <3>3, <3>4 DEF InStep, Mirror, Fills
    <3>6. BytesInPlace'
      <4>1. ASSUME NEW m \in Used \ BinNames PROVE ~IsFile(BinFile[m])'
        <5>1. file'[BinFile[m]] = file[BinFile[m]] \/ file'[BinFile[m]] = Missing
          BY <2>2, <2>4, NamesAssumption DEF Typed, TypeOK
        <5> QED
          BY <5>1 DEF InStep, BytesInPlace, IsFile, Missing
      <4>2. \A x \in Callers : op'[x].call \in {"bytes", "sidecar", "unsidecar"}
                                 => op'[x].name \in BinNames
        BY <3>1, <3>2
      <4> QED
        BY <4>1, <4>2 DEF BytesInPlace
    <3> QED
      BY <3>1, <3>5, <3>6 DEF InStep
  <2> QED
    BY <1>8, <2>1, <2>3, <2>4 DEF BeginDelete
<1>9. ASSUME NEW c \in Callers, EndWrite(c) PROVE InStep'
  <2> DEFINE n == op[c].name
  <2>1. n \in Names /\ RdfFile[n] \in Files /\ op[c].call = "write"
    BY <1>9, NamesAssumption DEF EndWrite, Typed, TypeOK, Ops
  <2>2. /\ LockHeld' /\ AtRest' /\ process = "running"
        /\ op'[c] = Idle
        /\ \A x \in Callers \ {c} : op'[x] = op[x] /\ op[x].call \in {"idle", "tagged"}
    BY <1>9, LeaveOrder DEF EndWrite, InStep
  <2>3. file' = [file EXCEPT ![RdfFile[n]] = Text(op[c].data)]
        /\ graph' = [graph EXCEPT ![n] = op[c].data]
    BY <1>9 DEF EndWrite
  <2>4. ASSUME NEW m \in Names PROVE m = n \/ ~Fills(op[c], m)
    BY <2>1 DEF Fills
  <2>5. Mirror'
    <3> SUFFICES ASSUME NEW m \in Names PROVE graph'[m] = Parse(file'[RdfFile[m]])
      BY DEF Mirror
    <3>1. CASE m = n
      BY <2>1, <2>3, <3>1, ParseFacts DEF Typed, TypeOK
    <3>2. CASE m # n
      <4>1. graph'[m] = graph[m] /\ file'[RdfFile[m]] = file[RdfFile[m]]
        BY <2>1, <2>3, <3>2, NamesAssumption DEF NoCollisions, Typed, TypeOK
      <4>2. \A x \in Callers : ~Fills(op[x], m)
        BY <2>2, <2>4, <3>2 DEF Fills
      <4> QED
        BY <2>2, <4>1, <4>2 DEF InStep, Mirror
    <3> QED
      BY <3>1, <3>2
  <2>6. BytesInPlace'
    <3>1. \A m \in Used : file'[BinFile[m]] = file[BinFile[m]]
      BY <2>1, <2>3, NamesAssumption DEF NoCollisions, Typed, TypeOK
    <3> QED
      BY <2>2, <3>1, IdleFacts DEF InStep, BytesInPlace, IsFile
  <2> QED
    BY <2>2, <2>5, <2>6 DEF InStep
<1>10. ASSUME NEW c \in Callers, EndBytes(c) PROVE InStep'
  <2> DEFINE n == op[c].name
  <2>1. /\ n \in BinNames /\ n \in Used /\ op[c].call = "bytes"
        /\ BinFile[n] \in Files /\ MetaFile[n] \in Files /\ DescriptionOf[n] \in Names
    BY <1>10, NamesAssumption DEF EndBytes, Typed, OpShape, CallShape, Used
  <2>2. MetaFile[n] = RdfFile[DescriptionOf[n]]
    BY <2>1 DEF NoCollisions
  <2>3. /\ LockHeld' /\ AtRest'
        /\ \/ op'[c] = Idle /\ file' = [file EXCEPT ![BinFile[n]] = Bytes(op[c].data)]
           \/ /\ op'[c] = [call |-> "sidecar", name |-> n, data |-> op[c].data]
              /\ file' = [[file EXCEPT ![BinFile[n]] = Bytes(op[c].data)]
                            EXCEPT ![MetaFile[n]] = Empty]
        /\ \A x \in Callers \ {c} : op'[x] = op[x] /\ op[x].call \in {"idle", "tagged"}
        /\ UNCHANGED <<graph, process>>
    BY <1>10, EnterOrder, LeaveOrder DEF EndBytes, Fail, InStep
  <2>4. ASSUME NEW m \in Names
        PROVE  file'[RdfFile[m]] = file[RdfFile[m]] \/ (op'[c].call = "sidecar" /\ Fills(op'[c], m))
    <3>1. RdfFile[m] \in Files /\ RdfFile[m] # BinFile[n]
      BY <2>1, NamesAssumption DEF NoCollisions
    <3>2. m = DescriptionOf[n] \/ RdfFile[m] # MetaFile[n]
      BY <2>1, <2>2 DEF NoCollisions
    <3>3. file \in [Files -> Contents]
      BY DEF Typed, TypeOK
    <3>4. CASE /\ op'[c] = [call |-> "sidecar", name |-> n, data |-> op[c].data]
               /\ file' = [[file EXCEPT ![BinFile[n]] = Bytes(op[c].data)]
                             EXCEPT ![MetaFile[n]] = Empty]
      <4>1. CASE m = DescriptionOf[n]
        BY <2>1, <3>4, <4>1 DEF Fills
      <4>2. CASE m # DescriptionOf[n]
        BY <3>1, <3>2, <3>3, <3>4, <4>2
      <4> QED
        BY <4>1, <4>2
    <3>5. CASE file' = [file EXCEPT ![BinFile[n]] = Bytes(op[c].data)]
      BY <3>1, <3>3, <3>5
    <3> QED
      BY <2>3, <3>4, <3>5
  <2>5. Mirror'
    <3> SUFFICES ASSUME NEW m \in Names, process = "running", \A x \in Callers : ~Fills(op'[x], m)
                 PROVE  graph'[m] = Parse(file'[RdfFile[m]])
      BY <2>3 DEF Mirror, Fills
    <3>1. \A x \in Callers : ~Fills(op[x], m)
      BY <2>1, <2>3 DEF Fills
    <3> QED
      BY <2>3, <2>4, <3>1 DEF InStep, Mirror
  <2>6. BytesInPlace'
    <3>1. ASSUME NEW m \in Used \ BinNames PROVE file'[BinFile[m]] = file[BinFile[m]]
      <4>1. BinFile[m] \in Files /\ BinFile[m] # BinFile[n] /\ BinFile[m] # MetaFile[n]
        BY <2>1, <2>2, NamesAssumption DEF NoCollisions
      <4> QED
        BY <2>1, <2>3, <4>1 DEF Typed, TypeOK
    <3>2. \A x \in Callers : op'[x].call \in {"bytes", "sidecar", "unsidecar"}
                               => op'[x].name \in BinNames
      BY <2>1, <2>3, IdleFacts
    <3> QED
      BY <3>1, <3>2 DEF InStep, BytesInPlace, IsFile
  <2> QED
    BY <2>3, <2>5, <2>6 DEF InStep
<1>11. ASSUME NEW c \in Callers, EndSidecar(c) \/ EndDelete(c) PROVE InStep'
  <2> DEFINE n == op[c].name
             d == DescriptionOf[n]
  <2>1. /\ n \in BinNames /\ n \in Used /\ op[c].call \in {"sidecar", "unsidecar"}
        /\ MetaFile[n] \in Files /\ d \in Names
    BY <1>11, NamesAssumption DEF EndSidecar, EndDelete, InStep, BytesInPlace, Used
  <2>2. MetaFile[n] = RdfFile[d]
    BY <2>1 DEF NoCollisions
  <2>3. /\ LockHeld' /\ AtRest' /\ process = "running"
        /\ op'[c] = Idle
        /\ \A x \in Callers \ {c} : op'[x] = op[x] /\ op[x].call \in {"idle", "tagged"}
    BY <1>11, LeaveOrder DEF EndSidecar, EndDelete, Fail, InStep
  <2>4. \/ op[c].call = "unsidecar" /\ file' = file /\ graph' = graph
        \/ \E x, g : /\ file' = [file EXCEPT ![RdfFile[d]] = x]
                     /\ graph' = [graph EXCEPT ![d] = g]
                     /\ Parse(x) = g
    <3>1. CASE EndSidecar(c)
      BY <2>2, <3>1, ParseFacts DEF EndSidecar
    <3>2. CASE EndDelete(c)
      <4>1. CASE UNCHANGED <<file, graph>>
        BY <3>2, <4>1 DEF EndDelete
      <4>2. CASE /\ file' = [file EXCEPT ![MetaFile[n]] = Missing]
                 /\ graph' = [graph EXCEPT ![d] = NoTriples]
        BY <2>2, <4>2, ParseFacts
      <4> QED
        BY <3>2, <4>1, <4>2 DEF EndDelete
    <3> QED
      BY <1>11, <3>1, <3>2
  <2>5. ASSUME NEW m \in Names, m # d PROVE RdfFile[m] \in Files /\ RdfFile[m] # RdfFile[d]
    BY <2>1, <2>5, NamesAssumption DEF NoCollisions
  <2>6. ASSUME NEW m \in Used PROVE BinFile[m] \in Files /\ BinFile[m] # RdfFile[d]
    BY <2>1, NamesAssumption DEF NoCollisions
  <2>7. file \in [Files -> Contents] /\ graph \in [Names -> Stored] /\ RdfFile[d] \in Files
    BY <2>1, <2>2 DEF Typed, TypeOK
  <2>8. ASSUME NEW m \in Names, m # d PROVE graph[m] = Parse(file[RdfFile[m]])
    BY <2>1, <2>3, <2>8 DEF InStep, Mirror, Fills
  <2>9. CASE op[c].call = "unsidecar" /\ file' = file /\ graph' = graph
    <3>1. \A m \in Names : ~Fills(op[c], m)
      BY <2>9 DEF Fills
    <3>2. Mirror'
      BY <2>3, <2>9, <3>1 DEF InStep, Mirror, Fills
    <3>3. BytesInPlace'
      BY <2>3, <2>9, IdleFacts DEF InStep, BytesInPlace, IsFile
    <3> QED
      BY <2>3, <3>2, <3>3 DEF InStep
  <2>10. CASE \E x, g : /\ file' = [file EXCEPT ![RdfFile[d]] = x]
                        /\ graph' = [graph EXCEPT ![d] = g]
                        /\ Parse(x) = g
    <3>1. PICK x, g : /\ file' = [file EXCEPT ![RdfFile[d]] = x]
                      /\ graph' = [graph EXCEPT ![d] = g]
                      /\ Parse(x) = g
      BY <2>10
    <3>2. graph'[d] = Parse(file'[RdfFile[d]])
      BY <2>1, <2>7, <3>1
    <3>3. ASSUME NEW m \in Names, m # d PROVE graph'[m] = Parse(file'[RdfFile[m]])
      <4>1. graph'[m] = graph[m] /\ file'[RdfFile[m]] = file[RdfFile[m]]
        BY <2>5, <2>7, <3>1, <3>3
      <4> QED
        BY <2>8, <3>3, <4>1
    <3>4. Mirror'
      BY <3>2, <3>3 DEF Mirror
    <3>5. \A m \in Used : file'[BinFile[m]] = file[BinFile[m]]
      BY <2>6, <2>7, <3>1
    <3>6. BytesInPlace'
      BY <2>3, <3>5, IdleFacts DEF InStep, BytesInPlace, IsFile
    <3> QED
      BY <2>3, <3>4, <3>6 DEF InStep
  <2> QED
    BY <2>4, <2>9, <2>10
<1>12. CASE Stop
  <2>1. LockHeld' /\ AtRest' /\ Mirror'
    BY <1>12, IdleFacts DEF Stop, LockHeld, AtRest, Mirror
  <2>2. BytesInPlace'
    <3>1. ASSUME NEW m \in Used \ BinNames PROVE ~IsFile(BinFile[m])'
      <4>1. CASE UNCHANGED file
        BY <4>1 DEF InStep, BytesInPlace, IsFile
      <4>2. CASE \E c \in Working : \E left : file' = [file EXCEPT ![Target(op[c])] = left]
        <5>1. PICK c \in Working : \E left : file' = [file EXCEPT ![Target(op[c])] = left]
          BY <4>2
        <5>0. PICK left : file' = [file EXCEPT ![Target(op[c])] = left]
          BY <5>1
        <5>2. c \in Callers /\ op[c].name \in Names
              /\ op[c].call \in {"write", "bytes", "sidecar", "unsidecar"}
          BY DEF Working, Typed, TypeOK, Ops
        <5>3. op[c].call # "write" => op[c].name \in BinNames
          BY <5>2 DEF InStep, BytesInPlace
        <5>4. BinFile[m] \in Files /\ BinFile[m] # Target(op[c])
          BY <5>2, <5>3, NamesAssumption DEF Target, NoCollisions, Used
        <5> QED
          BY <5>0, <5>4 DEF InStep, BytesInPlace, IsFile, Typed, TypeOK
      <4> QED
        BY <1>12, <4>1, <4>2 DEF Stop
    <3> QED
      BY <1>12, <3>1, IdleFacts DEF Stop, BytesInPlace
  <2> QED
    BY <2>1, <2>2 DEF InStep
<1>13. CASE Boot
  <2>1. LockHeld' /\ AtRest' /\ BytesInPlace'
    BY <1>13 DEF Boot, InStep, LockHeld, AtRest, BytesInPlace, IsFile
  <2>2. Mirror'
    BY <1>13 DEF Boot, Mirror
  <2> QED
    BY <2>1, <2>2 DEF InStep
<1>14. CASE UNCHANGED vars
  BY <1>1, <1>14 DEF vars
<1> QED
  BY <1>3, <1>4, <1>5, <1>6, <1>7, <1>8, <1>9, <1>10, <1>11, <1>12, <1>13, <1>14
  DEF Next, Call, RdfCall, BinaryCall, Finish

(* Names that share no files: whenever the lock is free, the dataset that   *)
(* answers reads and queries holds what the files say, wherever the process *)
(* was stopped before.                                                      *)
THEOREM MemoryFollowsDisk ==
    ASSUME NoCollisions
    PROVE  Spec => []MemoryMatchesDisk
<1>1. Init => Typed
  BY ContentFacts, IdleFacts DEF Init, Typed, TypeOK, OpShape, Stored
<1>2. Init => InStep
  <2> SUFFICES ASSUME Init PROVE InStep
    OBVIOUS
  <2>1. \A n \in Names : RdfFile[n] \in Files
    BY NamesAssumption
  <2>2. \A n \in Used : BinFile[n] \in Files
    BY NamesAssumption
  <2> QED
    BY <2>1, <2>2, IdleFacts, ParseFacts
    DEF Init, InStep, LockHeld, AtRest, Mirror, BytesInPlace, IsFile, Missing
<1>3. Typed /\ InStep => MemoryMatchesDisk
  <2> SUFFICES ASSUME InStep, process = "running", lock = Nobody
               PROVE  \A n \in Names : graph[n] = Parse(file[RdfFile[n]])
    BY DEF MemoryMatchesDisk
  <2> QED
    BY NobodyWorks DEF InStep, Mirror, Fills
<1>4. Typed /\ InStep /\ [Next]_vars => InStep'
  BY InStepStep, NoCollisions
<1> QED
  BY <1>1, <1>2, <1>3, <1>4, TypedStep, PTL DEF Spec
----------------------------------------------------------------------------
(* The bytes of binaries *)

Quiet(n) == \A c \in Callers : op[c].call \in {"idle", "tagged"} \/ op[c].name # n

(* No binary has a graph of the same name.                                  *)
Twinless == \A n \in BinNames : ~Found(n)

(* What the calls on binaries have done by the time they turn to metadata.  *)
Halfway(o) ==
    /\ o.call = "write" => o.name \in RdfNames
    /\ o.call = "sidecar" => file[BinFile[o.name]] = Bytes(o.data)
    /\ o.call = "unsidecar" => file[BinFile[o.name]] = Missing

Kept == \A n \in BinNames \ hit : Quiet(n) => file[BinFile[n]] = streamed[n]

Safe ==
    /\ LockHeld /\ AtRest
    /\ Twinless
    /\ \A c \in Callers : Halfway(op[c])
    /\ Kept

(* Opening a file disturbs neither the bytes of another binary nor the      *)
(* place of its twin.                                                       *)
LEMMA OpenApart ==
    ASSUME BytesApart, Typed, NEW n \in BinNames, NEW p \in Files,
           \/ \E m \in RdfNames : p = RdfFile[m]
           \/ \E m \in BinNames : p = BinFile[m]
    PROVE  /\ Opened(p)[RdfFile[n]] = file[RdfFile[n]]
           /\ p # BinFile[n] => Opened(p)[BinFile[n]] = file[BinFile[n]]
<1>1. n \in Names /\ n \in Used /\ RdfFile[n] \in Files /\ BinFile[n] \in Files
  BY NamesAssumption DEF Used
<1>2. RdfFile[n] # p /\ RdfFile[n] \notin Above[p] /\ BinFile[n] \notin Above[p]
  BY DEF BytesApart
<1>3. \A q \in Files : q # p /\ q \notin Above[p] => Opened(p)[q] = file[q]
  BY Opening DEF Typed, TypeOK
<1> QED
  BY <1>1, <1>2, <1>3

(* A call that leaves the files, the history and the calls at work alone.   *)
LEMMA SafeQuiet ==
    ASSUME Safe, UNCHANGED <<file, process, lock, op, streamed, hit>>
    PROVE  Safe'
  BY DEF Safe, LockHeld, AtRest, Twinless, Found, Present, Halfway, Kept, Quiet

(* A call begins by opening its file. *)
LEMMA SafeOpen ==
    ASSUME BytesApart, Typed, Safe, NEW c \in Callers, Free(c),
           NEW call \in {"write", "bytes"}, NEW n, NEW d, Enter(c, call, n, d),
           NEW p \in Files, file' = Opened(p), UNCHANGED <<process, history>>,
           call = "write" => n \in RdfNames /\ p = RdfFile[n],
           call = "bytes" => n \in BinNames /\ p = BinFile[n]
    PROVE  Safe'
<1> USE DEF history
<1>1. /\ LockHeld' /\ AtRest'
      /\ op'[c] = [call |-> call, name |-> n, data |-> d]
      /\ \A x \in Callers \ {c} : op'[x] = op[x] /\ op[x].call \in {"idle", "tagged"}
  BY EnterOrder DEF Safe
<1>2. ASSUME NEW m \in BinNames
      PROVE  /\ file'[RdfFile[m]] = file[RdfFile[m]]
             /\ p # BinFile[m] => file'[BinFile[m]] = file[BinFile[m]]
  BY OpenApart
<1>3. Twinless'
  BY <1>2 DEF Safe, Twinless, Found, Present
<1>4. \A x \in Callers : Halfway(op[x])'
  BY <1>1 DEF Halfway
<1>5. ASSUME NEW m \in BinNames \ hit', Quiet(m)' PROVE file'[BinFile[m]] = streamed'[m]
  <2>1. p # BinFile[m]
    <3>1. CASE call = "write"
      BY <3>1 DEF BytesApart
    <3>2. CASE call = "bytes"
      <4>1. n # m
        BY <1>1, <1>5, <3>2 DEF Quiet
      <4> QED
        BY <3>2, <4>1 DEF BytesApart, Used
    <3> QED
      BY <3>1, <3>2
  <2>2. Quiet(m)
    <3>1. op[c].call = "idle"
      BY IdleFacts DEF Free
    <3> QED
      BY <1>1, <3>1 DEF Quiet
  <2> QED
    BY <1>2, <1>5, <2>1, <2>2 DEF Safe, Kept
<1> QED
  BY <1>1, <1>3, <1>4, <1>5 DEF Safe, Kept

(* A call ends after touching, of the binaries, only its own. *)
LEMMA SafeLeave ==
    ASSUME BytesApart, Typed, Safe, NEW c \in Callers, op[c].call \notin {"idle", "tagged"},
           NEW r, Leave(c, r), UNCHANGED process,
           \A m \in BinNames : file'[RdfFile[m]] \in {Missing, file[RdfFile[m]]},
           \A m \in BinNames : m # op[c].name => /\ file'[BinFile[m]] = file[BinFile[m]]
                                                 /\ streamed'[m] = streamed[m]
                                                 /\ m \in hit => m \in hit',
           \A m \in BinNames \ hit' : m = op[c].name => file'[BinFile[m]] = streamed'[m]
    PROVE  Safe'
<1>1. /\ LockHeld' /\ AtRest' /\ op'[c] = Idle
      /\ \A x \in Callers \ {c} : op'[x] = op[x] /\ op[x].call \in {"idle", "tagged"}
  BY LeaveOrder DEF Safe
<1>2. Twinless'
  BY DEF Safe, Twinless, Found, Present
<1>3. \A x \in Callers : Halfway(op[x])'
  BY <1>1, IdleFacts DEF Halfway
<1>4. ASSUME NEW m \in BinNames \ hit', m # op[c].name PROVE file'[BinFile[m]] = streamed'[m]
  <2>1. Quiet(m)
    BY <1>1, <1>4 DEF Quiet
  <2> QED
    BY <1>4, <2>1 DEF Safe, Kept
<1> QED
  BY <1>1, <1>2, <1>3, <1>4 DEF Safe, Kept

LEMMA SafeStep == BytesApart /\ Typed /\ Safe /\ [Next]_vars => Safe'
<1> SUFFICES ASSUME BytesApart, Typed, Safe, [Next]_vars PROVE Safe'
  OBVIOUS
<1> USE DEF history
<1>1. ASSUME NEW c \in Callers, NEW r, Refuse(c, r) PROVE Safe'
  BY <1>1, SafeQuiet DEF Refuse
<1>2. ASSUME NEW m \in BinNames
      PROVE  /\ m \in Used /\ m \in Names /\ RdfFile[m] \in Files /\ BinFile[m] \in Files
             /\ m \notin RdfNames
  <2>1. m \in Used /\ m \in Names /\ RdfFile[m] \in Files /\ BinFile[m] \in Files
    BY NamesAssumption DEF Used
  <2>2. m \notin RdfNames
    BY DEF BytesApart
  <2> QED
    BY <2>1, <2>2
<1>3. file \in [Files -> Contents]
  BY DEF Typed, TypeOK
<1>4. ASSUME NEW c \in Callers, NEW n \in RdfNames, NEW g \in Stored,
             BeginWrite(c, n, g) \/ (\E e \in Stored : BeginReplace(c, n, g, e))
      PROVE  Safe'
  <2>1. CASE \E r : Refuse(c, r)
    BY <1>1, <2>1
  <2>2. CASE /\ file' = Opened(RdfFile[n])
             /\ Enter(c, "write", n, g)
             /\ UNCHANGED <<graph, process, answer, history>>
    <3>1. Free(c)
      BY <1>4 DEF BeginWrite, BeginReplace
    <3>2. RdfFile[n] \in Files
      BY NamesAssumption
    <3> QED
      BY <2>2, <3>1, <3>2, SafeOpen
  <2> QED
    BY <1>4, <2>1, <2>2 DEF BeginWrite, BeginReplace
<1>5. ASSUME NEW c \in Callers, NEW n \in BinNames, NEW b \in Bodies, BeginBinary(c, n, b)
      PROVE  Safe'
  <2>1. CASE \E r : Refuse(c, r)
    BY <1>1, <2>1
  <2>2. CASE /\ file' = Opened(BinFile[n])
             /\ Enter(c, "bytes", n, b)
             /\ UNCHANGED <<graph, process, answer, history>>
    <3>1. Free(c)
      BY <1>5 DEF BeginBinary
    <3> QED
      BY <1>2, <2>2, <3>1, SafeOpen
  <2> QED
    BY <1>5, <2>1, <2>2 DEF BeginBinary
<1>6. ASSUME NEW c \in Callers, SendBody(c) \/ (\E n \in BinNames : OpenStream(c, n)) PROVE Safe'
  <2>1. CASE SendBody(c)
    <3>1. /\ op[c].call = "tagged" /\ op'[c] = Idle
          /\ \A x \in Callers \ {c} : op'[x] = op[x]
          /\ UNCHANGED <<file, process, lock, streamed, hit>>
      BY <2>1 DEF SendBody, Typed, TypeOK
    <3> QED
      BY <3>1, IdleFacts
      DEF Safe, LockHeld, AtRest, Twinless, Found, Present, Halfway, Kept, Quiet
  <2>2. CASE \E n \in BinNames : OpenStream(c, n)
    <3>1. PICK n \in BinNames : OpenStream(c, n)
      BY <2>2
    <3>2. UNCHANGED <<file, process, lock, streamed, hit>> /\ process = "running" /\ op[c] = Idle
      BY <3>1 DEF OpenStream
    <3>3. CASE UNCHANGED op
      BY <3>2, <3>3, SafeQuiet
    <3>4. CASE op' = [op EXCEPT ![c] = [call |-> "tagged", name |-> n, data |-> file[BinFile[n]]]]
      <4>1. op'[c].call = "tagged" /\ \A x \in Callers \ {c} : op'[x] = op[x]
        BY <3>4 DEF Typed, TypeOK
      <4> QED
        BY <3>2, <4>1, IdleFacts
        DEF Safe, LockHeld, AtRest, Twinless, Found, Present, Halfway, Kept, Quiet
    <3> QED
      BY <3>1, <3>3, <3>4 DEF OpenStream
  <2> QED
    BY <1>6, <2>1, <2>2
<1>7. ASSUME NEW c \in Callers, NEW n \in Used, BeginDelete(c, n) PROVE Safe'
  <2>1. CASE \E r : Refuse(c, r)
    BY <1>1, <2>1
  <2>2. CASE /\ Found(n)
             /\ file' = [file EXCEPT ![RdfFile[n]] = Missing]
             /\ hit' = hit \ {n}
             /\ UNCHANGED <<process, lock, op, streamed>>
    <3>1. n \in RdfNames
      BY <2>2 DEF Safe, Twinless, Used
    <3>2. ASSUME NEW m \in BinNames
          PROVE  file'[RdfFile[m]] = file[RdfFile[m]] /\ file'[BinFile[m]] = file[BinFile[m]]
      BY <1>2, <1>3, <2>2, <3>1 DEF BytesApart
    <3>3. \A m \in BinNames : m \in hit <=> m \in hit'
      BY <1>2, <2>2, <3>1
    <3>4. ASSUME NEW x \in Callers PROVE Halfway(op[x])'
      <4>1. op[x].call \in {"idle", "tagged"}
        BY <1>7, NobodyWorks DEF Safe, BeginDelete, Free, Refuse
      <4> QED
        BY <2>2, <4>1 DEF Halfway
    <3> QED
      BY <2>2, <3>2, <3>3, <3>4
      DEF Safe, LockHeld, AtRest, Twinless, Found, Present, Kept, Quiet
  <2>3. CASE /\ file' = [file EXCEPT ![BinFile[n]] = Missing]
             /\ Enter(c, "unsidecar", n, NoTriples)
             /\ UNCHANGED <<graph, process, answer, history>>
    <3>1. Free(c)
      BY <1>7 DEF BeginDelete
    <3>2. /\ LockHeld' /\ AtRest'
          /\ op'[c] = [call |-> "unsidecar", name |-> n, data |-> NoTriples]
          /\ \A x \in Callers \ {c} : op'[x] = op[x] /\ op[x].call \in {"idle", "tagged"}
      BY <2>3, <3>1, EnterOrder DEF Safe
    <3>3. BinFile[n] \in Files
      BY NamesAssumption
    <3>4. Twinless'
      BY <1>2, <1>3, <2>3 DEF Safe, Twinless, Found, Present
    <3>5. \A x \in Callers : Halfway(op[x])'
      BY <1>3, <2>3, <3>2, <3>3 DEF Halfway
    <3>6. ASSUME NEW m \in BinNames \ hit', Quiet(m)' PROVE file'[BinFile[m]] = streamed'[m]
      <4>1. m # n
        BY <3>2, <3>6 DEF Quiet
      <4>2. file'[BinFile[m]] = file[BinFile[m]]
        BY <1>2, <1>3, <2>3, <4>1 DEF BytesApart
      <4>3. Quiet(m)
        <5>1. op[c].call = "idle"
          BY <3>1, IdleFacts DEF Free
        <5> QED
          BY <3>2, <5>1 DEF Quiet
      <4> QED
        BY <2>3, <3>6, <4>2, <4>3 DEF Safe, Kept
    <3> QED
      BY <3>2, <3>4, <3>5, <3>6 DEF Safe, Kept
  <2> QED
    BY <1>7, <2>1, <2>2, <2>3 DEF BeginDelete
<1>8. ASSUME NEW c \in Callers, EndWrite(c) PROVE Safe'
  <2>1. /\ op[c].call = "write" /\ op[c].name \in RdfNames
        /\ file' = [file EXCEPT ![RdfFile[op[c].name]] = Text(op[c].data)]
        /\ Leave(c, "ok") /\ hit' = hit \ {op[c].name} /\ UNCHANGED <<process, streamed>>
    BY <1>8 DEF EndWrite, Safe, Halfway
  <2>2. ASSUME NEW m \in BinNames
        PROVE  /\ file'[RdfFile[m]] = file[RdfFile[m]] /\ file'[BinFile[m]] = file[BinFile[m]]
               /\ m # op[c].name
    BY <1>2, <1>3, <2>1 DEF BytesApart
  <2> QED
    BY <2>1, <2>2, SafeLeave
<1>9. ASSUME NEW c \in Callers, EndBytes(c) PROVE Safe'
  <2> DEFINE n == op[c].name
             filled == [file EXCEPT ![BinFile[n]] = Bytes(op[c].data)]
  <2>1. op[c].call = "bytes" /\ n \in BinNames /\ UNCHANGED <<process, streamed>>
    BY <1>9 DEF EndBytes, Typed, OpShape, CallShape
  <2>2. MetaFile[n] \in Files
    BY <1>2, <2>1, NamesAssumption
  <2>3. filled \in [Files -> Contents] /\ filled[BinFile[n]] = Bytes(op[c].data)
    BY <1>2, <1>3, <2>1, ContentFacts DEF Typed, OpShape, CallShape
  <2>4. ASSUME NEW m \in BinNames
        PROVE  /\ filled[RdfFile[m]] = file[RdfFile[m]]
               /\ m # n => filled[BinFile[m]] = file[BinFile[m]]
               /\ MetaFile[n] # RdfFile[m] /\ MetaFile[n] # BinFile[m]
    <3>1. m \in Used /\ RdfFile[m] \in Files /\ BinFile[m] \in Files /\ n \in Used
      BY <1>2, <2>1
    <3>2. BinFile[n] # RdfFile[m] /\ (m # n => BinFile[n] # BinFile[m])
          /\ MetaFile[n] # RdfFile[m] /\ MetaFile[n] # BinFile[m]
      BY <2>1, <3>1 DEF BytesApart
    <3> QED
      BY <1>3, <3>1, <3>2
  <2>5. CASE file' = filled /\ Fail(c)
    <3>1. Leave(c, "failed") /\ hit' = hit \cup {n, DescriptionOf[n]}
      BY <2>5 DEF Fail
    <3> QED
      BY <2>1, <2>4, <2>5, <3>1, SafeLeave
  <2>6. CASE /\ file' = [filled EXCEPT ![MetaFile[n]] = Empty]
             /\ Enter(c, "sidecar", n, op[c].data)
             /\ UNCHANGED hit
    <3>1. /\ LockHeld' /\ AtRest'
          /\ op'[c] = [call |-> "sidecar", name |-> n, data |-> op[c].data]
          /\ \A x \in Callers \ {c} : op'[x] = op[x] /\ op[x].call \in {"idle", "tagged"}
      BY <2>1, <2>6, EnterOrder DEF Safe
    <3>2. ASSUME NEW m \in BinNames
          PROVE  /\ file'[RdfFile[m]] = file[RdfFile[m]]
                 /\ file'[BinFile[m]] = filled[BinFile[m]]
      BY <1>2, <2>2, <2>3, <2>4, <2>6
    <3>3. Twinless'
      BY <3>2 DEF Safe, Twinless, Found, Present
    <3>4. \A x \in Callers : Halfway(op[x])'
      BY <2>1, <2>3, <3>1, <3>2 DEF Halfway
    <3>5. ASSUME NEW m \in BinNames \ hit', Quiet(m)' PROVE file'[BinFile[m]] = streamed'[m]
      <4>1. m # n
        BY <3>1, <3>5 DEF Quiet
      <4>2. Quiet(m)
        BY <3>1, <4>1 DEF Quiet
      <4>3. file'[BinFile[m]] = file[BinFile[m]]
        BY <2>4, <3>2, <4>1
      <4> QED
        BY <2>1, <2>6, <3>5, <4>2, <4>3 DEF Safe, Kept
    <3> QED
      BY <3>1, <3>3, <3>4, <3>5 DEF Safe, Kept
  <2> QED
    BY <1>9, <2>5, <2>6 DEF EndBytes
<1>10. ASSUME NEW c \in Callers, EndSidecar(c) \/ EndDelete(c) PROVE Safe'
  <2> DEFINE n == op[c].name
  <2>1. n \in Used /\ op[c].call \in {"sidecar", "unsidecar"} /\ process' = process
        /\ MetaFile[n] \in Files
    BY <1>10, NamesAssumption DEF EndSidecar, EndDelete, Typed, OpShape, CallShape, Used
  <2>2. ASSUME NEW m \in BinNames
        PROVE  MetaFile[n] # RdfFile[m] /\ MetaFile[n] # BinFile[m] /\ DescriptionOf[n] # m
    BY <2>1 DEF BytesApart
  <2>3. \/ file' = file
        \/ \E x : file' = [file EXCEPT ![MetaFile[n]] = x]
    BY <1>10 DEF EndSidecar, EndDelete
  <2>4. ASSUME NEW m \in BinNames
        PROVE  file'[RdfFile[m]] = file[RdfFile[m]] /\ file'[BinFile[m]] = file[BinFile[m]]
    BY <1>2, <1>3, <2>2, <2>3
  <2>5. \/ /\ Leave(c, "failed") /\ hit' = hit \cup {n, DescriptionOf[n]} /\ streamed' = streamed
        \/ /\ Leave(c, "ok") /\ hit' = hit \ {n, DescriptionOf[n]}
           /\ streamed' = [streamed EXCEPT ![n] = file[BinFile[n]]]
    BY <1>10 DEF EndSidecar, EndDelete, Fail, Safe, Halfway
  <2>6. streamed \in [Used -> {Missing} \cup {Bytes(b) : b \in Bodies}]
    BY DEF Typed, TypeOK
  <2>7. CASE Leave(c, "failed") /\ hit' = hit \cup {n, DescriptionOf[n]} /\ streamed' = streamed
    BY <2>1, <2>4, <2>7, SafeLeave
  <2>8. CASE /\ Leave(c, "ok") /\ hit' = hit \ {n, DescriptionOf[n]}
             /\ streamed' = [streamed EXCEPT ![n] = file[BinFile[n]]]
    <3>1. ASSUME NEW m \in BinNames, m # n
          PROVE  streamed'[m] = streamed[m] /\ (m \in hit => m \in hit')
      BY <1>2, <2>2, <2>6, <2>8, <3>1
    <3>2. ASSUME NEW m \in BinNames, m = n PROVE file'[BinFile[m]] = streamed'[m]
      BY <2>1, <2>4, <2>6, <2>8, <3>2
    <3> QED
      BY <2>1, <2>4, <2>8, <3>1, <3>2, SafeLeave
  <2> QED
    BY <2>5, <2>7, <2>8
<1>11. CASE Stop
  <2>1. /\ LockHeld' /\ AtRest' /\ \A x \in Callers : Halfway(op[x])'
        /\ UNCHANGED streamed
    BY <1>11, IdleFacts DEF Stop, LockHeld, AtRest, Halfway
  <2>2. CASE Working = {} /\ UNCHANGED <<file, hit>>
    <3>1. \A m : Quiet(m)
      BY <2>2 DEF Working, Quiet
    <3> QED
      BY <2>1, <2>2, <3>1 DEF Safe, Twinless, Found, Present, Kept
  <2>3. CASE \E c \in Working :
               /\ \E left \in Remains(op[c]) : file' = [file EXCEPT ![Target(op[c])] = left]
               /\ hit' = hit \cup Touched(op[c])
    <3>1. PICK c \in Working :
               /\ \E left \in Remains(op[c]) : file' = [file EXCEPT ![Target(op[c])] = left]
               /\ hit' = hit \cup Touched(op[c])
      BY <2>3
    <3>2. PICK left : file' = [file EXCEPT ![Target(op[c])] = left]
      BY <3>1
    <3>3. c \in Callers /\ op[c].call \in {"write", "bytes", "sidecar", "unsidecar"}
      BY DEF Working, Typed, TypeOK, Ops
    <3>4. \A x \in Callers \ {c} : op[x].call \in {"idle", "tagged"}
      BY <3>3, OthersRest DEF Safe
    <3>5. ASSUME NEW m \in BinNames
          PROVE  /\ RdfFile[m] # Target(op[c])
                 /\ m # op[c].name => BinFile[m] # Target(op[c])
      <4>1. CASE op[c].call = "write"
        <5>1. op[c].name \in RdfNames
          BY <3>3, <4>1 DEF Safe, Halfway
        <5> QED
          BY <4>1, <5>1 DEF Target, BytesApart
      <4>2. CASE op[c].call = "bytes"
        <5>1. op[c].name \in BinNames /\ m \in Used
          BY <1>2, <3>3, <4>2 DEF Typed, OpShape, CallShape
        <5> QED
          BY <4>2, <5>1 DEF Target, BytesApart, Used
      <4>3. CASE op[c].call \in {"sidecar", "unsidecar"}
        <5>1. op[c].name \in Used
          BY <3>3, <4>3 DEF Typed, OpShape, CallShape, Used
        <5> QED
          BY <4>3, <5>1 DEF Target, BytesApart
      <4> QED
        BY <3>3, <4>1, <4>2, <4>3
    <3>6. ASSUME NEW m \in BinNames
          PROVE  /\ file'[RdfFile[m]] = file[RdfFile[m]]
                 /\ m # op[c].name => file'[BinFile[m]] = file[BinFile[m]]
      BY <1>2, <1>3, <3>2, <3>5
    <3>7. Twinless'
      BY <3>6 DEF Safe, Twinless, Found, Present
    <3>8. ASSUME NEW m \in BinNames \ hit' PROVE file'[BinFile[m]] = streamed'[m]
      <4>1. m # op[c].name /\ m \notin hit
        BY <3>1 DEF Touched
      <4>2. Quiet(m)
        BY <3>4, <4>1 DEF Quiet
      <4> QED
        BY <2>1, <3>6, <4>1, <4>2 DEF Safe, Kept
    <3> QED
      BY <2>1, <3>7, <3>8 DEF Safe, Kept
  <2> QED
    BY <1>11, <2>2, <2>3 DEF Stop
<1>12. CASE Boot
  BY <1>12 DEF Boot, Safe, LockHeld, AtRest, Twinless, Found, Present, Halfway, Kept, Quiet
<1>13. CASE UNCHANGED vars
  BY <1>13, SafeQuiet DEF vars
<1>14. ASSUME NEW c \in Callers, NEW n \in RdfNames, Read(c, n) PROVE Safe'
  BY <1>1, <1>14 DEF Read
<1> QED
  BY <1>4, <1>5, <1>6, <1>7, <1>8, <1>9, <1>10, <1>11, <1>12, <1>13, <1>14
  DEF Next, Call, RdfCall, BinaryCall, Finish

(* The bytes of a finished write stay, wherever the process is stopped, for *)
(* all binaries that have files of their own - also where metadata is       *)
(* written and deleted as a graph, or names a directory of other binaries.  *)
THEOREM BinariesKept ==
    ASSUME BytesApart
    PROVE  Spec => []KeepsBinaries
<1>1. Init => Typed
  BY ContentFacts, IdleFacts DEF Init, Typed, TypeOK, OpShape, Stored
<1>2. Init => Safe
  <2> SUFFICES ASSUME Init PROVE Safe
    OBVIOUS
  <2>1. \A n \in BinNames : n \in Used /\ RdfFile[n] \in Files /\ BinFile[n] \in Files
    BY NamesAssumption DEF Used
  <2> QED
    BY <2>1, IdleFacts DEF Init, Safe, LockHeld, AtRest, Twinless, Found, Present, Halfway, Kept
<1>3. Safe => KeepsBinaries
  BY DEF Safe, Kept, Quiet, KeepsBinaries, Working
<1>4. Typed /\ Safe /\ [Next]_vars => Safe'
  BY SafeStep, BytesApart
<1> QED
  BY <1>1, <1>2, <1>3, <1>4, TypedStep, PTL DEF Spec

----------------------------------------------------------------------------
(* The kinds of step, told by what they do to the files *)

Results == {"ok", "not found", "changed", "failed", "forbidden", "sent", "aborted", "not binary"}

(* A call that is refused, a read, a stream: only answers change. *)
Idles ==
    /\ UNCHANGED <<file, graph, process, lock, written, streamed, hit>>
    /\ \A c \in Callers : \/ op'[c] = op[c]
                          \/ op[c].call \in {"idle", "tagged"} /\ op'[c].call \in {"idle", "tagged"}
    /\ \/ UNCHANGED answer
       \/ \E c \in Callers, r \in Results : Respond(c, r)
       \/ \E c \in Callers, n \in RdfNames :
             Free(c) /\ Respond(c, IF Found(n) THEN graph[n] ELSE "not found")

Opens(c, call, n, d, p) ==
    /\ Free(c) /\ Writable(p)
    /\ file' = Opened(p)
    /\ Enter(c, call, n, d)
    /\ UNCHANGED <<graph, process, answer, written, streamed, hit>>
DropsGraph(c, n) ==
    /\ Free(c) /\ Found(n)
    /\ file' = [file EXCEPT ![RdfFile[n]] = Missing]
    /\ graph' = [graph EXCEPT ![n] = NoTriples]
    /\ written' = [written EXCEPT ![n] = Missing]
    /\ hit' = hit \ {n}
    /\ Respond(c, "ok")
    /\ UNCHANGED <<process, lock, op, streamed>>
DropsBytes(c, n) ==
    /\ Free(c) /\ ~Found(n) /\ IsFile(BinFile[n])
    /\ file' = [file EXCEPT ![BinFile[n]] = Missing]
    /\ Enter(c, "unsidecar", n, NoTriples)
    /\ UNCHANGED <<graph, process, answer, written, streamed, hit>>

Begins(c) ==
    \/ \E n \in RdfNames, g \in Stored : Opens(c, "write", n, g, RdfFile[n])
    \/ \E n \in BinNames, b \in Bodies : Opens(c, "bytes", n, b, BinFile[n])
    \/ \E n \in Used : DropsGraph(c, n) \/ DropsBytes(c, n)
Ends(c) == EndWrite(c) \/ EndBytes(c) \/ EndSidecar(c) \/ EndDelete(c)

LEMMA RefuseIdles ==
    ASSUME NEW c \in Callers, NEW r \in Results, Refuse(c, r) PROVE Idles
  BY DEF Refuse, Idles, history

LEMMA CallKinds ==
    ASSUME Typed, NEW c \in Callers, Call(c)
    PROVE  Idles \/ Begins(c) \/ Ends(c)
<1> USE DEF history
<1>1. ASSUME NEW n \in RdfNames, Read(c, n) PROVE Idles
  BY <1>1 DEF Read, Refuse, Idles
<1>2. ASSUME NEW n \in RdfNames, NEW g \in Stored,
             BeginWrite(c, n, g) \/ (\E e \in Stored : BeginReplace(c, n, g, e))
      PROVE  Idles \/ Begins(c)
  <2>1. CASE \E r \in {"forbidden", "failed", "changed"} : Refuse(c, r)
    BY <2>1, RefuseIdles DEF Results
  <2>2. CASE Opens(c, "write", n, g, RdfFile[n])
    BY <2>2 DEF Begins
  <2> QED
    BY <1>2, <2>1, <2>2 DEF BeginWrite, BeginReplace, Opens
<1>3. ASSUME NEW n \in BinNames, NEW b \in Bodies, BeginBinary(c, n, b)
      PROVE  Idles \/ Begins(c)
  <2>1. CASE \E r \in {"forbidden", "failed"} : Refuse(c, r)
    BY <2>1, RefuseIdles DEF Results
  <2>2. CASE Opens(c, "bytes", n, b, BinFile[n])
    BY <2>2 DEF Begins
  <2> QED
    BY <1>3, <2>1, <2>2 DEF BeginBinary, Opens
<1>4. ASSUME NEW n \in BinNames, OpenStream(c, n) PROVE Idles
  <2>1. /\ op[c].call = "idle"
        /\ UNCHANGED <<file, graph, process, lock, written, streamed, hit>>
    BY <1>4, IdleFacts DEF OpenStream
  <2>2. CASE op' = [op EXCEPT ![c] = [call |-> "tagged", name |-> n, data |-> file[BinFile[n]]]]
             /\ UNCHANGED answer
    <3>1. op'[c].call = "tagged" /\ \A x \in Callers \ {c} : op'[x] = op[x]
      BY <2>2 DEF Typed, TypeOK
    <3> QED
      BY <2>1, <2>2, <3>1 DEF Idles
  <2>3. CASE UNCHANGED op /\ Respond(c, IF Found(n) THEN "not binary" ELSE "not found")
    BY <2>1, <2>3 DEF Idles, Results
  <2> QED
    BY <1>4, <2>2, <2>3 DEF OpenStream
<1>5. CASE SendBody(c)
  <2>1. op'[c] = Idle /\ \A x \in Callers \ {c} : op'[x] = op[x]
    BY <1>5 DEF SendBody, Typed, TypeOK
  <2>2. \E r \in Results : Respond(c, r)
    BY <1>5 DEF SendBody, Results
  <2> QED
    BY <1>5, <2>1, <2>2, IdleFacts DEF SendBody, Idles
<1>6. ASSUME NEW n \in Used, BeginDelete(c, n) PROVE Idles \/ Begins(c)
  <2>1. CASE \E r \in {"forbidden", "failed", "not found"} : Refuse(c, r)
    BY <2>1, RefuseIdles DEF Results
  <2>2. CASE DropsGraph(c, n) \/ DropsBytes(c, n)
    BY <2>2 DEF Begins
  <2> QED
    BY <1>6, <2>1, <2>2 DEF BeginDelete, DropsGraph, DropsBytes
<1> QED
  BY <1>1, <1>2, <1>3, <1>4, <1>5, <1>6 DEF Call, RdfCall, BinaryCall, Finish, Ends

LEMMA StepKinds ==
    ASSUME Typed, [Next]_vars
    PROVE  Idles \/ (\E c \in Callers : Begins(c) \/ Ends(c)) \/ Stop \/ Boot
<1>1. CASE UNCHANGED vars
  BY <1>1 DEF vars, Idles
<1> QED
  BY <1>1, CallKinds DEF Next

----------------------------------------------------------------------------
(* The graphs on the disk *)

(* The file of a graph is absent, opened, cut short or complete.            *)
Plain == \A n \in Names : file[RdfFile[n]] \in {Missing, Empty, Cut} \cup {Text(g) : g \in Stored}

(* What the last write stored is in the file, unless a call is filling it   *)
(* or a stop hit a later call on it.  Of a name in use for a binary there   *)
(* is no graph at all, hit or not.                                          *)
Settled(n) == (n \notin hit \/ n \in BinNames) /\ \A c \in Callers : ~Fills(op[c], n)
GraphsKept == \A n \in Names : Settled(n) => file[RdfFile[n]] = written[n]

(* The file of a binary stays in place while it is overwritten.             *)
InTheWay == \A c \in Callers : op[c].call = "bytes" => file[BinFile[op[c].name]] = Empty

Retained == Plain /\ GraphsKept /\ InTheWay /\ OnlyDamageRefusesStart

LEMMA NoDirectory ==
    ASSUME Retained, NEW n \in Names PROVE file[RdfFile[n]] # Dir
<1>1. file[RdfFile[n]] \in {Missing, Empty, Cut} \cup {Text(g) : g \in Stored}
  BY DEF Retained, Plain
<1>2. file[RdfFile[n]].kind \in {"missing", "empty", "cut", "text"}
  <2>1. CASE file[RdfFile[n]] \in {Missing, Empty, Cut}
    BY <2>1 DEF Missing, Empty, Cut
  <2>2. CASE \E g \in Stored : file[RdfFile[n]] = Text(g)
    BY <2>2 DEF Text
  <2> QED
    BY <1>1, <2>1, <2>2
<1> QED
  BY <1>2 DEF Dir

(* A step that leaves alone the graphs of all names but d, and what is      *)
(* known of them.                                                           *)
LEMMA OneGraph ==
    ASSUME Retained, NEW d \in Names,
           \A m \in Names \ {d} : /\ file'[RdfFile[m]] = file[RdfFile[m]]
                                  /\ written'[m] = written[m]
                                  /\ Settled(m)' => Settled(m),
           file'[RdfFile[d]] \in {Missing, Empty, Cut} \cup {Text(g) : g \in Stored},
           Settled(d)' => file'[RdfFile[d]] = written'[d]
    PROVE  Plain' /\ GraphsKept'
<1>1. ASSUME NEW m \in Names
      PROVE  file'[RdfFile[m]] \in {Missing, Empty, Cut} \cup {Text(g) : g \in Stored}
  BY DEF Retained, Plain
<1>2. ASSUME NEW m \in Names, Settled(m)' PROVE file'[RdfFile[m]] = written'[m]
  BY <1>2 DEF Retained, GraphsKept
<1> QED
  BY <1>1, <1>2 DEF Plain, GraphsKept

(* A step that touches the files of no graph. *)
LEMMA NoGraph ==
    ASSUME Retained,
           \A m \in Names : /\ file'[RdfFile[m]] = file[RdfFile[m]]
                            /\ written'[m] = written[m]
                            /\ Settled(m)' => Settled(m)
    PROVE  Plain' /\ GraphsKept'
  BY DEF Retained, Plain, GraphsKept

Sound == Safe /\ InStep

LEMMA RetainedIdles ==
    ASSUME Typed, Sound, Retained, Idles PROVE Retained'
<1>1. UNCHANGED <<file, process, written, hit>>
  BY DEF Idles
<1>2. \A c \in Callers : /\ op'[c].call \in {"write", "bytes", "sidecar"} => op'[c] = op[c]
                         /\ op[c].call \in {"write", "bytes", "sidecar"} => op'[c] = op[c]
  BY DEF Idles
<1>3. \A m \in Names, c \in Callers : Fills(op[c], m) => Fills(op'[c], m)
  BY <1>2 DEF Fills
<1>4. \A m \in Names : Settled(m)' => Settled(m)
  BY <1>1, <1>3 DEF Settled
<1>5. Plain' /\ GraphsKept'
  BY <1>1, <1>4, NoGraph
<1>6. InTheWay'
  BY <1>1, <1>2 DEF Retained, InTheWay
<1>7. OnlyDamageRefusesStart'
  BY <1>1 DEF Retained, OnlyDamageRefusesStart
<1> QED
  BY <1>5, <1>6, <1>7 DEF Retained

LEMMA RetainedOpens ==
    ASSUME NoCollisions, BytesApart, Typed, Sound, Retained, NEW c \in Callers, NEW n,
           NEW call \in {"write", "bytes"}, NEW d, NEW p, Opens(c, call, n, d, p),
           call = "write" => n \in RdfNames /\ p = RdfFile[n],
           call = "bytes" => n \in BinNames /\ p = BinFile[n]
    PROVE  Retained'
<1>1. /\ n \in Names /\ n \in Used /\ p \in Files /\ process = "running"
      /\ file' = Opened(p) /\ UNCHANGED <<process, written, hit>>
  BY NamesAssumption DEF Opens, Free, Used
<1>2. /\ op'[c] = [call |-> call, name |-> n, data |-> d]
      /\ \A x \in Callers \ {c} : op'[x] = op[x] /\ op[x].call \in {"idle", "tagged"}
  BY EnterOrder DEF Opens, Sound, Safe
<1>3. op[c].call = "idle"
  BY IdleFacts DEF Opens, Free
<1>4. /\ file'[p] = Empty
      /\ \A q \in Files : q # p /\ q \notin Above[p] => file'[q] = file[q]
  BY <1>1, Opening DEF Typed, TypeOK
<1>5. ASSUME NEW m \in Names, m # n \/ call = "bytes" PROVE file'[RdfFile[m]] = file[RdfFile[m]]
  <2>1. RdfFile[m] \in Files
    BY NamesAssumption
  <2>2. RdfFile[m] # p /\ RdfFile[m] \notin Above[p]
    BY <1>1, <1>5 DEF NoCollisions
  <2> QED
    BY <1>4, <2>1, <2>2
<1>6. \A m \in Names : Settled(m)' => Settled(m)
  BY <1>1, <1>2, <1>3 DEF Settled, Fills
<1>7. Plain' /\ GraphsKept'
  <2>1. CASE call = "write"
    <3>1. ~Settled(n)'
      BY <1>2, <2>1 DEF Settled, Fills
    <3> QED
      BY <1>1, <1>4, <1>5, <1>6, <2>1, <3>1, OneGraph
  <2>2. CASE call = "bytes"
    BY <1>1, <1>5, <1>6, <2>2, NoGraph
  <2> QED
    BY <2>1, <2>2
<1>8. InTheWay'
  BY <1>2, <1>4 DEF InTheWay
<1>9. OnlyDamageRefusesStart'
  BY <1>1 DEF OnlyDamageRefusesStart
<1> QED
  BY <1>7, <1>8, <1>9 DEF Retained

LEMMA RetainedDrops ==
    ASSUME NoCollisions, BytesApart, Typed, Sound, Retained, NEW c \in Callers, NEW n \in Used,
           DropsGraph(c, n) \/ DropsBytes(c, n)
    PROVE  Retained'
<1>1. /\ n \in Names /\ RdfFile[n] \in Files /\ BinFile[n] \in Files /\ process = "running"
      /\ process' = process /\ Free(c)
  BY NamesAssumption DEF DropsGraph, DropsBytes, Free, Used
<1>2. file \in [Files -> Contents] /\ written \in [Names -> {Missing} \cup {Text(g) : g \in Stored}]
  BY DEF Typed, TypeOK
<1>3. OnlyDamageRefusesStart'
  BY <1>1 DEF OnlyDamageRefusesStart
<1>4. \A m \in Names : RdfFile[m] \in Files
  BY NamesAssumption
<1>5. CASE DropsGraph(c, n)
  <2>1. ASSUME NEW m \in Names \ {n}
        PROVE  /\ file'[RdfFile[m]] = file[RdfFile[m]] /\ written'[m] = written[m]
               /\ Settled(m)' => Settled(m)
    <3>1. RdfFile[m] # RdfFile[n]
      BY <1>1 DEF NoCollisions
    <3> QED
      BY <1>2, <1>4, <1>5, <3>1 DEF DropsGraph, Settled
  <2>2. file'[RdfFile[n]] = Missing /\ written'[n] = Missing
    BY <1>1, <1>2, <1>5 DEF DropsGraph
  <2>3. Plain' /\ GraphsKept'
    BY <1>1, <2>1, <2>2, OneGraph
  <2>4. InTheWay'
    <3>1. \A x \in Callers : op'[x].call \in {"idle", "tagged"}
      BY <1>1, <1>5, NobodyWorks DEF Free, DropsGraph, Sound, Safe
    <3> QED
      BY <3>1 DEF InTheWay
  <2> QED
    BY <1>3, <2>3, <2>4 DEF Retained
<1>6. CASE DropsBytes(c, n)
  <2>1. /\ op'[c] = [call |-> "unsidecar", name |-> n, data |-> NoTriples]
        /\ \A x \in Callers \ {c} : op'[x] = op[x] /\ op[x].call \in {"idle", "tagged"}
    BY <1>1, <1>6, EnterOrder DEF DropsBytes, Sound, Safe
  <2>2. op[c].call = "idle"
    BY <1>1, IdleFacts DEF Free
  <2>3. ASSUME NEW m \in Names
        PROVE  /\ file'[RdfFile[m]] = file[RdfFile[m]] /\ written'[m] = written[m]
               /\ Settled(m)' => Settled(m)
    <3>1. RdfFile[m] # BinFile[n]
      BY DEF NoCollisions
    <3> QED
      BY <1>2, <1>4, <1>6, <2>1, <2>2, <3>1 DEF DropsBytes, Settled, Fills
  <2>4. Plain' /\ GraphsKept'
    BY <2>3, NoGraph
  <2>5. InTheWay'
    BY <2>1 DEF InTheWay
  <2> QED
    BY <1>3, <2>4, <2>5 DEF Retained
<1> QED
  BY <1>5, <1>6

LEMMA RetainedEnds ==
    ASSUME NoCollisions, BytesApart, Typed, Sound, Retained, NEW c \in Callers, Ends(c)
    PROVE  Retained'
<1> DEFINE n == op[c].name
           d == DescriptionOf[n]
<1>1. /\ file \in [Files -> Contents] /\ hit \subseteq Names
      /\ written \in [Names -> {Missing} \cup {Text(g) : g \in Stored}]
      /\ \A m \in Names : RdfFile[m] \in Files
  BY NamesAssumption DEF Typed, TypeOK
<1>2. \A x \in Callers \ {c} : op[x].call \in {"idle", "tagged"}
  BY OthersRest DEF Ends, EndWrite, EndBytes, EndSidecar, EndDelete, Sound, Safe
<1>3. ASSUME NEW r, Leave(c, r), UNCHANGED process
      PROVE  /\ op'[c] = Idle /\ \A x \in Callers \ {c} : op'[x] = op[x]
             /\ InTheWay' /\ OnlyDamageRefusesStart'
             /\ \A m \in Names : ~Fills(op[c], m) => \A x \in Callers : ~Fills(op[x], m)
  <2>1. op[c].call \notin {"idle", "tagged"}
    BY DEF Ends, EndWrite, EndBytes, EndSidecar, EndDelete
  <2>2. /\ op'[c] = Idle /\ process = "running"
        /\ \A x \in Callers \ {c} : op'[x] = op[x] /\ op[x].call \in {"idle", "tagged"}
    BY <1>3, <2>1, LeaveOrder DEF Sound, Safe
  <2>3. InTheWay'
    BY <2>2, IdleFacts DEF InTheWay
  <2>4. OnlyDamageRefusesStart'
    BY <1>3, <2>2 DEF OnlyDamageRefusesStart
  <2>5. \A m \in Names : ~Fills(op[c], m) => \A x \in Callers : ~Fills(op[x], m)
    BY <2>2 DEF Fills
  <2> QED
    BY <2>2, <2>3, <2>4, <2>5
<1>4. CASE EndWrite(c)
  <2>1. /\ op[c].call = "write" /\ n \in Names /\ op[c].data \in Stored /\ process' = process
        /\ Leave(c, "ok") /\ hit' = hit \ {n}
        /\ file' = [file EXCEPT ![RdfFile[n]] = Text(op[c].data)]
        /\ written' = [written EXCEPT ![n] = Text(op[c].data)]
    BY <1>4 DEF EndWrite, Typed, TypeOK, Ops, OpShape, CallShape
  <2>2. file'[RdfFile[n]] = Text(op[c].data) /\ written'[n] = Text(op[c].data)
    BY <1>1, <2>1
  <2>3. ASSUME NEW m \in Names \ {n}
        PROVE  /\ file'[RdfFile[m]] = file[RdfFile[m]] /\ written'[m] = written[m]
               /\ Settled(m)' => Settled(m)
    <3>1. RdfFile[m] # RdfFile[n]
      BY <2>1 DEF NoCollisions
    <3>2. ~Fills(op[c], m)
      BY <2>1 DEF Fills
    <3>3. Settled(m)' => Settled(m)
      BY <1>3, <2>1, <3>2 DEF Settled
    <3> QED
      BY <1>1, <2>1, <3>1, <3>3
  <2>4. Plain' /\ GraphsKept'
    BY <2>1, <2>2, <2>3, OneGraph
  <2> QED
    BY <1>3, <2>1, <2>4 DEF Retained
<1>5. CASE EndBytes(c)
  <2>1. /\ op[c].call = "bytes" /\ n \in BinNames /\ n \in Used /\ d \in Names
        /\ BinFile[n] \in Files /\ MetaFile[n] = RdfFile[d] /\ UNCHANGED <<process, written>>
    BY <1>5, NamesAssumption DEF EndBytes, Typed, OpShape, CallShape, Used, NoCollisions
  <2>0. PICK k \in Names : k = d
    BY <2>1
  <2>2. file[RdfFile[k]] # Dir
    BY <2>0, <2>1, NoDirectory
  <2>3. /\ file' = [[file EXCEPT ![BinFile[n]] = Bytes(op[c].data)] EXCEPT ![RdfFile[k]] = Empty]
        /\ Enter(c, "sidecar", n, op[c].data) /\ UNCHANGED hit
    BY <1>5, <2>0, <2>1, <2>2 DEF EndBytes
  <2>4. /\ op'[c] = [call |-> "sidecar", name |-> n, data |-> op[c].data]
        /\ process = "running"
        /\ \A x \in Callers \ {c} : op'[x] = op[x]
    BY <2>0, <2>1, <2>3, EnterOrder, IdleFacts DEF Sound, Safe, AtRest
  <2>5. file'[RdfFile[k]] = Empty /\ ~Settled(k)'
    BY <1>1, <2>0, <2>1, <2>3, <2>4 DEF Settled, Fills
  <2>6. ASSUME NEW m \in Names \ {k}
        PROVE  /\ file'[RdfFile[m]] = file[RdfFile[m]] /\ written'[m] = written[m]
               /\ Settled(m)' => Settled(m)
    <3>1. RdfFile[m] # RdfFile[k] /\ RdfFile[m] # BinFile[n]
      BY <2>0, <2>1 DEF NoCollisions
    <3>2. file'[RdfFile[m]] = file[RdfFile[m]]
      BY <1>1, <2>3, <3>1
    <3>3. \A x \in Callers : Fills(op[x], m) => Fills(op'[x], m)
      BY <2>0, <2>1, <2>4 DEF Fills
    <3>4. Settled(m)' => Settled(m)
      BY <2>3, <3>3 DEF Settled
    <3> QED
      BY <2>0, <2>1, <3>2, <3>4
  <2>7. Plain' /\ GraphsKept'
    BY <2>0, <2>1, <2>5, <2>6, OneGraph
  <2>8. InTheWay' /\ OnlyDamageRefusesStart'
    BY <1>2, <2>0, <2>1, <2>4 DEF InTheWay, OnlyDamageRefusesStart
  <2> QED
    BY <2>7, <2>8 DEF Retained
<1>6. ASSUME EndSidecar(c) \/ EndDelete(c) PROVE Retained'
  <2>1. /\ op[c].call \in {"sidecar", "unsidecar"} /\ n \in BinNames /\ d \in Names
        /\ MetaFile[n] = RdfFile[d] /\ process' = process
        /\ (op[c].call = "sidecar" => Sidecar[op[c].data] \in Stored)
    BY <1>6, NamesAssumption, DataAssumption
    DEF EndSidecar, EndDelete, Sound, InStep, BytesInPlace, NoCollisions, Used, Typed, OpShape,
        CallShape, Stored
  <2>2. file[RdfFile[d]] # Dir
    BY <2>1, NoDirectory
  <2>3. /\ Leave(c, "ok") /\ hit' = hit \ {n, d}
        /\ \E x \in {Missing} \cup {Text(g) : g \in Stored} :
              /\ file' = [file EXCEPT ![RdfFile[d]] = x]
              /\ written' = [written EXCEPT ![d] = x]
    BY <1>6, <2>1, <2>2 DEF EndSidecar, EndDelete
  <2>4. PICK x \in {Missing} \cup {Text(g) : g \in Stored} :
              /\ file' = [file EXCEPT ![RdfFile[d]] = x]
              /\ written' = [written EXCEPT ![d] = x]
    BY <2>3
  <2>5. file'[RdfFile[d]] = x /\ written'[d] = x
    BY <1>1, <2>1, <2>4
  <2>6. ASSUME NEW m \in Names \ {d}
        PROVE  /\ file'[RdfFile[m]] = file[RdfFile[m]] /\ written'[m] = written[m]
               /\ Settled(m)' => Settled(m)
    <3>1. RdfFile[m] # RdfFile[d]
      BY <2>1 DEF NoCollisions
    <3>2. ~Fills(op[c], m)
      BY <2>1 DEF Fills
    <3>3. Settled(m)' => Settled(m)
      BY <1>3, <2>1, <2>3, <3>2 DEF Settled
    <3> QED
      BY <1>1, <2>1, <2>4, <3>1, <3>3
  <2>7. Plain' /\ GraphsKept'
    BY <2>1, <2>5, <2>6, OneGraph
  <2> QED
    BY <1>3, <2>1, <2>3, <2>7 DEF Retained
<1> QED
  BY <1>4, <1>5, <1>6 DEF Ends

LEMMA RetainedStop ==
    ASSUME NoCollisions, BytesApart, Typed, Sound, Retained, Stop PROVE Retained'
<1>1. InTheWay' /\ OnlyDamageRefusesStart'
  BY IdleFacts DEF Stop, InTheWay, OnlyDamageRefusesStart
<1>2. file \in [Files -> Contents] /\ \A m \in Names : RdfFile[m] \in Files
  BY NamesAssumption DEF Typed, TypeOK
<1>3. UNCHANGED written
  BY DEF Stop
<1>4. CASE Working = {} /\ UNCHANGED <<file, hit>>
  <2>1. \A m \in Names : Settled(m)' => Settled(m)
    BY <1>4 DEF Settled, Fills, Working
  <2>2. Plain' /\ GraphsKept'
    BY <1>3, <1>4, <2>1, NoGraph
  <2> QED
    BY <1>1, <2>2 DEF Retained
<1>5. ASSUME NEW c \in Working, NEW left \in Remains(op[c]),
             file' = [file EXCEPT ![Target(op[c])] = left],
             hit' = hit \cup Touched(op[c])
      PROVE  Retained'
  <2> DEFINE n == op[c].name
  <2>1. c \in Callers /\ op[c].call \in {"write", "bytes", "sidecar", "unsidecar"} /\ n \in Names
    BY DEF Working, Typed, TypeOK, Ops
  <2>2. op[c].call # "write" => /\ n \in BinNames /\ n \in Used /\ DescriptionOf[n] \in Names
                                /\ MetaFile[n] = RdfFile[DescriptionOf[n]]
    BY <2>1, NamesAssumption DEF Sound, InStep, BytesInPlace, Used, NoCollisions
  <2>3. ASSUME NEW m \in Names, Settled(m)' PROVE Settled(m)
    <3>1. m \notin Touched(op[c]) \/ m \in BinNames
      BY <1>5, <2>3 DEF Settled
    <3>2. ~Fills(op[c], m)
      <4>1. CASE m \notin Touched(op[c])
        BY <4>1 DEF Touched, Fills
      <4>2. CASE m \in BinNames
        <5>1. \A b \in Used : DescriptionOf[b] # m
          BY <4>2 DEF BytesApart
        <5>2. m \notin RdfNames
          BY <4>2 DEF BytesApart
        <5> QED
          BY <2>1, <2>2, <5>1, <5>2 DEF Fills, Sound, Safe, Halfway
      <4> QED
        BY <3>1, <4>1, <4>2
    <3>3. \A x \in Callers : ~Fills(op[x], m)
      BY <2>1, <3>2, OthersRest DEF Fills, Sound, Safe
    <3> QED
      BY <1>5, <2>3, <3>3 DEF Settled
  <2>4. CASE op[c].call \in {"write", "sidecar"}
    <3>1. PICK d \in Names : Target(op[c]) = RdfFile[d] /\ d \in Touched(op[c]) /\ d \notin BinNames
      <4>1. CASE op[c].call = "write"
        <5>1. n \in RdfNames
          BY <2>1, <4>1 DEF Sound, Safe, Halfway
        <5>2. n \notin BinNames
          BY <5>1 DEF BytesApart
        <5> QED
          BY <2>1, <4>1, <5>2 DEF Target, Touched
      <4>2. CASE op[c].call = "sidecar"
        <5>1. DescriptionOf[n] \notin BinNames
          BY <2>2, <4>2 DEF BytesApart
        <5> QED
          BY <2>2, <4>2, <5>1 DEF Target, Touched
      <4> QED
        BY <2>4, <4>1, <4>2
    <3>2. left \in {Empty, Cut} \cup {Text(g) : g \in Stored}
      BY <2>1, <2>4, DataAssumption DEF Remains, Typed, OpShape, CallShape, Stored
    <3>3. file'[RdfFile[d]] = left /\ ~Settled(d)'
      BY <1>2, <1>5, <3>1 DEF Settled
    <3>4. ASSUME NEW m \in Names \ {d}
          PROVE  file'[RdfFile[m]] = file[RdfFile[m]]
      <4>1. RdfFile[m] # RdfFile[d]
        BY DEF NoCollisions
      <4> QED
        BY <1>2, <1>5, <3>1, <4>1
    <3>5. Plain' /\ GraphsKept'
      BY <1>3, <2>3, <3>2, <3>3, <3>4, OneGraph
    <3> QED
      BY <1>1, <3>5 DEF Retained
  <2>5. CASE op[c].call \in {"bytes", "unsidecar"}
    <3>1. ASSUME NEW m \in Names PROVE file'[RdfFile[m]] = file[RdfFile[m]]
      <4>1. CASE op[c].call = "bytes"
        <5>1. RdfFile[m] # Target(op[c])
          BY <2>2, <4>1 DEF Target, NoCollisions
        <5> QED
          BY <1>2, <1>5, <5>1
      <4>2. CASE op[c].call = "unsidecar"
        <5>1. left = file[Target(op[c])]
          BY <4>2 DEF Remains
        <5> QED
          BY <1>2, <1>5, <5>1
      <4> QED
        BY <2>5, <4>1, <4>2
    <3>2. Plain' /\ GraphsKept'
      BY <1>3, <2>3, <3>1, NoGraph
    <3> QED
      BY <1>1, <3>2 DEF Retained
  <2> QED
    BY <2>1, <2>4, <2>5
<1> QED
  BY <1>4, <1>5 DEF Stop

(* What a start refuses to read is a file that was cut short. *)
LEMMA RetainedBoot ==
    ASSUME Typed, Sound, Retained, Boot PROVE Retained'
<1>1. UNCHANGED <<file, op, written, hit>> /\ process # "running"
  BY DEF Boot, history
<1>2. Plain' /\ GraphsKept' /\ InTheWay'
  BY <1>1 DEF Retained, Plain, GraphsKept, Settled, InTheWay
<1>3. ASSUME process' = "refused" PROVE \E n \in hit' : file'[RdfFile[n]] = Cut
  <2>1. PICK n \in Names : Parse(file[RdfFile[n]]) = Garbage
    BY <1>3 DEF Boot
  <2>2. file[RdfFile[n]] \notin {Missing, Empty} \cup {Text(g) : g \in Stored}
    BY <2>1, ParseFacts, DataAssumption DEF Stored
  <2>3. file[RdfFile[n]] = Cut
    BY <2>2 DEF Retained, Plain
  <2>4. \A c \in Callers : ~Fills(op[c], n)
    BY <1>1, IdleFacts DEF Sound, Safe, AtRest, Fills
  <2>5. written[n] \in {Missing} \cup {Text(g) : g \in Stored}
    BY DEF Typed, TypeOK
  <2>6. n \in hit
    BY <2>2, <2>4, <2>5 DEF Retained, GraphsKept, Settled
  <2> QED
    BY <1>1, <2>3, <2>6
<1> QED
  BY <1>2, <1>3 DEF Retained, OnlyDamageRefusesStart

LEMMA RetainedStep ==
    ASSUME NoCollisions, BytesApart, Typed, Sound, Retained, [Next]_vars PROVE Retained'
<1>1. ASSUME NEW c \in Callers, Begins(c) PROVE Retained'
  <2>1. ASSUME NEW n \in RdfNames, NEW g \in Stored, Opens(c, "write", n, g, RdfFile[n])
        PROVE  Retained'
    BY <2>1, RetainedOpens
  <2>2. ASSUME NEW n \in BinNames, NEW b \in Bodies, Opens(c, "bytes", n, b, BinFile[n])
        PROVE  Retained'
    BY <2>2, RetainedOpens
  <2>3. ASSUME NEW n \in Used, DropsGraph(c, n) \/ DropsBytes(c, n)
        PROVE  Retained'
    BY <2>3, RetainedDrops
  <2> QED
    BY <1>1, <2>1, <2>2, <2>3 DEF Begins
<1>2. Idles \/ (\E c \in Callers : Begins(c) \/ Ends(c)) \/ Stop \/ Boot
  BY StepKinds
<1>3. CASE Idles
  BY <1>3, RetainedIdles
<1>4. CASE \E c \in Callers : Ends(c)
  BY <1>4, RetainedEnds
<1>5. CASE Stop
  BY <1>5, RetainedStop
<1>6. CASE Boot
  BY <1>6, RetainedBoot
<1> QED
  BY <1>1, <1>2, <1>3, <1>4, <1>5, <1>6

StoreInv == Typed /\ Sound /\ Retained

LEMMA InitStore == Init => StoreInv
<1> SUFFICES ASSUME Init PROVE StoreInv
  OBVIOUS
<1>1. /\ \A n \in Names : RdfFile[n] \in Files /\ file[RdfFile[n]] = Missing
      /\ \A n \in Used : BinFile[n] \in Files /\ file[BinFile[n]] = Missing
      /\ BinNames \subseteq Names /\ BinNames \subseteq Used
  BY NamesAssumption DEF Init, Used
<1>2. Typed
  BY ContentFacts, IdleFacts DEF Init, Typed, TypeOK, OpShape, Stored
<1>3. \A c \in Callers : op[c] = Idle
  BY DEF Init
<1>4. LockHeld /\ AtRest
  BY <1>3, IdleFacts DEF LockHeld, AtRest
<1>5. Twinless /\ (\A c \in Callers : Halfway(op[c])) /\ Kept
  BY <1>1, <1>3, IdleFacts DEF Init, Twinless, Found, Present, Halfway, Kept
<1>6. Mirror /\ BytesInPlace
  BY <1>1, <1>3, IdleFacts, ParseFacts DEF Init, Mirror, BytesInPlace, IsFile, Missing
<1>7. Retained
  BY <1>1, <1>3, IdleFacts
  DEF Init, Retained, Plain, GraphsKept, InTheWay, OnlyDamageRefusesStart
<1> QED
  BY <1>2, <1>4, <1>5, <1>6, <1>7 DEF StoreInv, Sound, Safe, InStep

LEMMA StoreStep ==
    ASSUME NoCollisions, BytesApart PROVE StoreInv /\ [Next]_vars => StoreInv'
  BY TypedStep, SafeStep, InStepStep, RetainedStep DEF StoreInv, Sound

(* Names with files of their own: every graph stored by a call that         *)
(* returned is read back as it was, wherever the process was stopped since, *)
(* unless the stop hit a later call on it.                                  *)
THEOREM GraphsStay ==
    ASSUME NoCollisions, BytesApart
    PROVE  Spec => []KeepsGraphs
<1>1. StoreInv => KeepsGraphs
  <2> SUFFICES ASSUME StoreInv, process = "running", lock = Nobody, NEW n \in Names \ hit
               PROVE  graph[n] = written[n].of /\ (Found(n) <=> written[n] # Missing)
    BY DEF KeepsGraphs
  <2>1. \A c \in Callers : ~Fills(op[c], n)
    BY NobodyWorks DEF StoreInv, Sound, Safe, Fills
  <2>2. file[RdfFile[n]] = written[n]
    BY <2>1 DEF StoreInv, Retained, GraphsKept, Settled
  <2>3. graph[n] = Parse(written[n])
    BY <2>1, <2>2 DEF StoreInv, Sound, InStep, Mirror
  <2>4. CASE written[n] = Missing
    BY <2>2, <2>3, <2>4, ParseFacts DEF Found, Present, Missing
  <2>5. ASSUME NEW g \in Stored, written[n] = Text(g)
        PROVE  graph[n] = written[n].of /\ Found(n) /\ written[n] # Missing
    <3>1. Text(g) # Missing /\ Text(g).of = g
      BY DEF Text, Missing
    <3> QED
      BY <2>2, <2>3, <2>5, <3>1, ParseFacts DEF Found, Present
  <2>6. written[n] \in {Missing} \cup {Text(g) : g \in Stored}
    BY DEF StoreInv, Typed, TypeOK
  <2> QED
    BY <2>4, <2>5, <2>6
<1> QED
  BY <1>1, InitStore, StoreStep, NoCollisions, BytesApart, PTL DEF Spec

(* Names with files of their own: a start is refused only when a stop cut   *)
(* short the file of a call it interrupted.                                 *)
THEOREM DamageOnly ==
    ASSUME NoCollisions, BytesApart
    PROVE  Spec => []OnlyDamageRefusesStart
<1>1. StoreInv => OnlyDamageRefusesStart
  BY DEF StoreInv, Retained
<1> QED
  BY <1>1, InitStore, StoreStep, NoCollisions, BytesApart, PTL DEF Spec

(* Names with files of their own: while a binary is being overwritten there *)
(* is never a moment at which it is not found.                              *)
THEOREM OverwriteFindable ==
    ASSUME NoCollisions, BytesApart
    PROVE  Spec => []OverwriteKeepsFindable
<1>1. StoreInv => OverwriteKeepsFindable
  <2> SUFFICES ASSUME StoreInv, process = "running", NEW n \in BinNames \ hit,
                      streamed[n] # Missing, ~Removing(DescriptionOf[n])
               PROVE  IsFile(BinFile[n])
    BY DEF OverwriteKeepsFindable
  <2>1. n \in Used
    BY DEF Used
  <2>2. CASE Quiet(n)
    <3>1. file[BinFile[n]] = streamed[n]
      BY <2>2 DEF StoreInv, Sound, Safe, Kept
    <3>2. PICK b \in Bodies : streamed[n] = Bytes(b)
      BY <2>1 DEF StoreInv, Typed, TypeOK
    <3> QED
      BY <3>1, <3>2 DEF IsFile, Bytes
  <2>3. ASSUME NEW c \in Callers, op[c].call \notin {"idle", "tagged"}, op[c].name = n
        PROVE  IsFile(BinFile[n])
    <3>1. op[c].call \in {"write", "bytes", "sidecar", "unsidecar"}
      BY <2>3 DEF StoreInv, Typed, TypeOK, Ops
    <3>2. op[c].call # "unsidecar"
      BY <2>3 DEF Removing, Working
    <3>3. op[c].call # "write"
      <4>1. n \notin RdfNames
        BY DEF BytesApart
      <4> QED
        BY <2>3, <4>1 DEF StoreInv, Sound, Safe, Halfway
    <3>4. file[BinFile[n]] \in {Empty, Bytes(op[c].data)}
      BY <2>3, <3>1, <3>2, <3>3 DEF StoreInv, Retained, InTheWay, Sound, Safe, Halfway
    <3> QED
      BY <3>4 DEF IsFile, Empty, Bytes
  <2> QED
    BY <2>2, <2>3 DEF Quiet
<1> QED
  BY <1>1, InitStore, StoreStep, NoCollisions, BytesApart, PTL DEF Spec

(* Names with files of their own: reading a name that no call stored a      *)
(* graph at, or that was deleted since, raises ResourceNotFound.            *)
THEOREM ReadsWritten ==
    ASSUME NoCollisions, BytesApart
    PROVE  Spec => ReadsOnlyWritten
<1>1. ASSUME StoreInv, NEW c \in Callers, NEW n \in RdfNames,
             Read(c, n) /\ n \notin hit /\ written[n] = Missing
      PROVE  answer'[c] = "not found"
  <2>1. n \in Names /\ Free(c)
    BY <1>1, NamesAssumption DEF Read
  <2>2. \A x \in Callers : ~Fills(op[x], n)
    BY <1>1, <2>1, NobodyWorks DEF StoreInv, Sound, Safe, Fills, Free
  <2>3. ~Found(n)
    BY <1>1, <2>1, <2>2 DEF StoreInv, Retained, GraphsKept, Settled, Found, Present
  <2>4. answer' = [answer EXCEPT ![c] = "not found"]
    BY <1>1, <2>3 DEF Read, Refuse, Respond
  <2> QED
    BY <1>1, <2>4 DEF StoreInv, Typed, TypeOK
<1>2. StoreInv => \A c \in Callers, n \in RdfNames :
                     Read(c, n) /\ n \notin hit /\ written[n] = Missing => answer'[c] = "not found"
  BY <1>1
<1> QED
  BY <1>2, InitStore, StoreStep, NoCollisions, BytesApart, PTL DEF Spec, ReadsOnlyWritten

----------------------------------------------------------------------------
(* The store that a caller sees *)

AtWork(o) == o.call \notin {"idle", "tagged"}

(* What the one call under way, if any, leaves to see of a name. *)
RdfOf(o, n) ==
    IF o.call = "write" /\ o.name = n THEN o.data
    ELSE IF o.call \in {"bytes", "sidecar"} /\ DescriptionOf[o.name] = n THEN Sidecar[o.data]
    ELSE IF (o.call = "unsidecar" /\ DescriptionOf[o.name] = n) \/ ~Found(n) THEN "absent"
    ELSE file[RdfFile[n]].of
BinOf(o, n) ==
    IF o.call \in {"bytes", "sidecar"} /\ o.name = n THEN o.data
    ELSE IF IsFile(BinFile[n]) THEN file[BinFile[n]].of ELSE "absent"

Sees(o) ==
    /\ AbstractRdf = [n \in Names |-> RdfOf(o, n)]
    /\ AbstractBin = [n \in BinNames |-> BinOf(o, n)]

(* There is one call at work at most, so the store is told by it. *)
ViewsHold ==
    Typed /\ LockHeld =>
        /\ (\A c \in Callers : ~AtWork(op[c])) => Sees(Idle)
        /\ \A c \in Callers : AtWork(op[c]) => Sees(op[c])

LEMMA OnlyOne == \A x : Only({x}) = x
  BY DEF Only

LEMMA Views == ViewsHold
<1> SUFFICES ASSUME Typed, LockHeld
             PROVE  /\ (\A c \in Callers : ~AtWork(op[c])) => Sees(Idle)
                    /\ \A c \in Callers : AtWork(op[c]) => Sees(op[c])
  BY DEF ViewsHold
<1>1. ASSUME \A c \in Callers : ~AtWork(op[c]) PROVE Sees(Idle)
  <2>1. Working = {}
    BY <1>1 DEF AtWork, Working
  <2>2. \A n : Writing(n) = {} /\ Filling(n) = {} /\ ~Removing(n)
    BY <2>1 DEF Writing, Filling, Removing
  <2>3. \A n : Describing(n) = {}
    BY <2>2 DEF Describing
  <2> QED
    BY <2>2, <2>3, IdleFacts DEF Sees, AbstractRdf, AbstractBin, RdfOf, BinOf
<1>2. ASSUME NEW c \in Callers, AtWork(op[c]) PROVE Sees(op[c])
  <2> DEFINE o == op[c]
  <2>1. Working = {c}
    BY <1>2 DEF AtWork, Working, LockHeld
  <2>2. ASSUME NEW n
        PROVE  /\ Writing(n) = IF o.call = "write" /\ o.name = n THEN {o.data} ELSE {}
               /\ Filling(n) = IF o.call \in {"bytes", "sidecar"} /\ o.name = n THEN {o.data} ELSE {}
               /\ Removing(n) <=> o.call = "unsidecar" /\ DescriptionOf[o.name] = n
    BY <2>1 DEF Writing, Filling, Removing
  <2>3. o.call \in {"bytes", "sidecar"} => o.name \in BinNames
    BY DEF Typed, OpShape, CallShape
  <2>4. ASSUME NEW n
        PROVE  Describing(n) = IF o.call \in {"bytes", "sidecar"} /\ DescriptionOf[o.name] = n
                               THEN {o.data} ELSE {}
    <3>1. CASE o.call \in {"bytes", "sidecar"} /\ DescriptionOf[o.name] = n
      <4>1. \A m : Filling(m) = IF m = o.name THEN {o.data} ELSE {}
        BY <2>2, <3>1
      <4>2. o.data \in Describing(n)
        BY <2>3, <3>1, <4>1 DEF Describing
      <4>3. \A x \in Describing(n) : x = o.data
        BY <4>1 DEF Describing
      <4> QED
        BY <3>1, <4>2, <4>3
    <3>2. CASE ~(o.call \in {"bytes", "sidecar"} /\ DescriptionOf[o.name] = n)
      <4>1. \A m : DescriptionOf[m] = n => Filling(m) = {}
        BY <2>2, <3>2
      <4> QED
        BY <3>2, <4>1 DEF Describing
    <3> QED
      BY <3>1, <3>2
  <2>5. ASSUME NEW n \in Names PROVE AbstractRdf[n] = RdfOf(o, n)
    <3>1. AbstractRdf[n] = IF Writing(n) # {} THEN Only(Writing(n))
                           ELSE IF Describing(n) # {} THEN Sidecar[Only(Describing(n))]
                           ELSE IF Removing(n) \/ ~Found(n) THEN "absent" ELSE file[RdfFile[n]].of
      BY DEF AbstractRdf
    <3>2. CASE o.call = "write" /\ o.name = n
      <4>1. Writing(n) = {o.data}
        BY <2>2, <3>2
      <4> QED
        BY <3>1, <3>2, <4>1, OnlyOne DEF RdfOf
    <3>3. CASE o.call \in {"bytes", "sidecar"} /\ DescriptionOf[o.name] = n
      <4>1. Writing(n) = {} /\ Describing(n) = {o.data}
        BY <2>2, <2>4, <3>3
      <4> QED
        BY <3>1, <3>3, <4>1, OnlyOne DEF RdfOf
    <3>4. CASE /\ ~(o.call = "write" /\ o.name = n)
               /\ ~(o.call \in {"bytes", "sidecar"} /\ DescriptionOf[o.name] = n)
      <4>1. Writing(n) = {} /\ Describing(n) = {}
        BY <2>2, <2>4, <3>4
      <4>2. Removing(n) <=> o.call = "unsidecar" /\ DescriptionOf[o.name] = n
        BY <2>2
      <4> QED
        BY <3>1, <3>4, <4>1, <4>2 DEF RdfOf
    <3> QED
      BY <3>2, <3>3, <3>4
  <2>6. ASSUME NEW n \in BinNames PROVE AbstractBin[n] = BinOf(o, n)
    BY <2>2, OnlyOne DEF AbstractBin, BinOf
  <2> QED
    BY <2>5, <2>6 DEF Sees, AbstractRdf, AbstractBin
<1> QED
  BY <1>1, <1>2

LEMMA ViewsNext == ViewsHold'
  BY Views, PTL

----------------------------------------------------------------------------
(* Every step of the backend is, to its callers, a step of the store *)

(* Functions told by their values. *)
LEMMA SameFunction ==
    ASSUME NEW S, NEW f, NEW g, f = [x \in S |-> f[x]], g = [x \in S |-> g[x]],
           \A x \in S : g[x] = f[x]
    PROVE  g = f
<1>1. [x \in S |-> g[x]] = [x \in S |-> f[x]]
  OBVIOUS
<1> QED
  BY <1>1

LEMMA ChangedFunction ==
    ASSUME NEW S, NEW f, NEW g, f = [x \in S |-> f[x]], g = [x \in S |-> g[x]],
           NEW n \in S, NEW v, g[n] = v, \A x \in S \ {n} : g[x] = f[x]
    PROVE  g = [f EXCEPT ![n] = v]
<1> DEFINE h == [f EXCEPT ![n] = v]
<1>1. h = [x \in S |-> h[x]] /\ \A x \in S : h[x] = IF x = n THEN v ELSE f[x]
  OBVIOUS
<1>2. \A x \in S : g[x] = h[x]
  BY <1>1
<1> HIDE DEF h
<1>3. g = h
  BY <1>1, <1>2, SameFunction
<1> QED
  BY <1>3 DEF h

LEMMA Shapes ==
    /\ AbstractRdf = [n \in Names |-> AbstractRdf[n]]
    /\ AbstractBin = [n \in BinNames |-> AbstractBin[n]]
    /\ AbstractRdf' = [n \in Names |-> AbstractRdf'[n]]
    /\ AbstractBin' = [n \in BinNames |-> AbstractBin'[n]]
<1>1. AbstractRdf = [n \in Names |-> AbstractRdf[n]]
  BY Zenon DEF AbstractRdf
<1>2. AbstractBin = [n \in BinNames |-> AbstractBin[n]]
  BY Zenon DEF AbstractBin
<1>3. AbstractRdf' = [n \in Names |-> AbstractRdf'[n]]
  BY Zenon DEF AbstractRdf
<1>4. AbstractBin' = [n \in BinNames |-> AbstractBin'[n]]
  BY Zenon DEF AbstractBin
<1> QED
  BY <1>1, <1>2, <1>3, <1>4

(* What is seen of each name, before and after a step. *)
LEMMA SeenAtRest ==
    ASSUME StoreInv, \A c \in Callers : ~AtWork(op[c])
    PROVE  /\ \A n \in Names : AbstractRdf[n] = IF Found(n) THEN file[RdfFile[n]].of ELSE "absent"
           /\ \A n \in BinNames :
                 AbstractBin[n] = IF IsFile(BinFile[n]) THEN file[BinFile[n]].of ELSE "absent"
<1>1. Sees(Idle)
  BY Views DEF ViewsHold, StoreInv, Sound, Safe
<1>2. AbstractRdf = [n \in Names |-> RdfOf(Idle, n)] /\ AbstractBin = [n \in BinNames |-> BinOf(Idle, n)]
  BY <1>1 DEF Sees
<1>3. \A n \in Names : AbstractRdf[n] = RdfOf(Idle, n)
  BY <1>2
<1>4. \A n \in BinNames : AbstractBin[n] = BinOf(Idle, n)
  BY <1>2
<1> QED
  BY <1>3, <1>4, IdleFacts DEF RdfOf, BinOf

LEMMA SeenAtWork ==
    ASSUME StoreInv, NEW c \in Callers, AtWork(op[c])
    PROVE  /\ \A n \in Names : AbstractRdf[n] = RdfOf(op[c], n)
           /\ \A n \in BinNames : AbstractBin[n] = BinOf(op[c], n)
  BY Views DEF ViewsHold, Sees, StoreInv, Sound, Safe

LEMMA SeenAtRestNext ==
    ASSUME StoreInv', \A c \in Callers : ~AtWork(op'[c])
    PROVE  /\ \A n \in Names :
                 AbstractRdf'[n] = IF file'[RdfFile[n]] # Missing THEN file'[RdfFile[n]].of ELSE "absent"
           /\ \A n \in BinNames :
                 AbstractBin'[n] = IF file'[BinFile[n]].kind \notin {"missing", "dir"}
                                   THEN file'[BinFile[n]].of ELSE "absent"
<1>1. Sees(Idle)'
  BY ViewsNext DEF ViewsHold, StoreInv, Sound, Safe, AtWork
<1>2. Idle' = Idle
  BY DEF Idle
<1>3. AbstractRdf' = [n \in Names |-> RdfOf(Idle, n)'] /\ AbstractBin' = [n \in BinNames |-> BinOf(Idle, n)']
  BY <1>1 DEF Sees
<1>4. \A n \in Names : AbstractRdf'[n] = RdfOf(Idle, n)'
  BY <1>3
<1>5. \A n \in BinNames : AbstractBin'[n] = BinOf(Idle, n)'
  BY <1>3
<1> QED
  BY <1>2, <1>4, <1>5, IdleFacts DEF RdfOf, BinOf, Found, Present, IsFile

LEMMA SeenAtWorkNext ==
    ASSUME StoreInv', NEW c \in Callers, AtWork(op'[c])
    PROVE  /\ \A n \in Names : AbstractRdf'[n] = RdfOf(op[c], n)'
           /\ \A n \in BinNames : AbstractBin'[n] = BinOf(op[c], n)'
<1>1. Sees(op[c])'
  BY ViewsNext DEF ViewsHold, StoreInv, Sound, Safe, AtWork
<1> QED
  BY <1>1 DEF Sees

LEMMA SeenStays ==
    ASSUME StoreInv, StoreInv', UNCHANGED file,
           \/ \A c \in Callers : ~AtWork(op[c]) /\ ~AtWork(op'[c])
           \/ \E c \in Callers : AtWork(op[c]) /\ op'[c] = op[c]
    PROVE  UNCHANGED <<AbstractRdf, AbstractBin>>
<1>1. CASE \A c \in Callers : ~AtWork(op[c]) /\ ~AtWork(op'[c])
  <2>1. \A n \in Names : AbstractRdf'[n] = AbstractRdf[n]
    BY <1>1, SeenAtRest, SeenAtRestNext DEF Found, Present
  <2>2. \A n \in BinNames : AbstractBin'[n] = AbstractBin[n]
    BY <1>1, SeenAtRest, SeenAtRestNext DEF IsFile
  <2> QED
    BY <2>1, <2>2, Shapes, SameFunction
<1>2. ASSUME NEW c \in Callers, AtWork(op[c]), op'[c] = op[c]
      PROVE  UNCHANGED <<AbstractRdf, AbstractBin>>
  <2>1. \A n \in Names : AbstractRdf'[n] = AbstractRdf[n]
    BY <1>2, SeenAtWork, SeenAtWorkNext DEF RdfOf, Found, Present
  <2>2. \A n \in BinNames : AbstractBin'[n] = AbstractBin[n]
    BY <1>2, SeenAtWork, SeenAtWorkNext DEF BinOf, IsFile
  <2> QED
    BY <2>1, <2>2, Shapes, SameFunction
<1> QED
  BY <1>1, <1>2

(* Who begins a call finds the others at rest. *)
LEMMA FreeRests ==
    ASSUME StoreInv, NEW c \in Callers, Free(c)
    PROVE  \A x \in Callers : ~AtWork(op[x])
  BY NobodyWorks DEF StoreInv, Sound, Safe, Free, AtWork

LEMMA IdlesMap ==
    ASSUME StoreInv, StoreInv', Idles
    PROVE  [Abstract!Next]_<<AbstractRdf, AbstractBin, answer>>
<1>1. UNCHANGED file
  BY DEF Idles
<1>2. \A c \in Callers : \/ op'[c] = op[c]
                         \/ ~AtWork(op[c]) /\ ~AtWork(op'[c])
  BY DEF Idles, AtWork
<1>3. UNCHANGED <<AbstractRdf, AbstractBin>>
  <2>1. CASE \A c \in Callers : ~AtWork(op[c])
    BY <1>1, <1>2, <2>1, SeenStays
  <2>2. CASE \E c \in Callers : AtWork(op[c])
    BY <1>1, <1>2, <2>2, SeenStays
  <2> QED
    BY <2>1, <2>2
<1>4. CASE UNCHANGED answer
  BY <1>3, <1>4
<1>5. ASSUME NEW c \in Callers, NEW r \in Results, Respond(c, r)
      PROVE  Abstract!Next
  <2>1. Abstract!Respond(c)
    BY <1>3, <1>5, Zenon DEF Abstract!Respond, Respond, Results
  <2> QED
    BY <2>1, Zenon DEF Abstract!Next
<1>6. ASSUME NEW c \in Callers, NEW n \in RdfNames, Free(c),
             Respond(c, IF Found(n) THEN graph[n] ELSE "not found")
      PROVE  Abstract!Next
  <2>1. n \in Names /\ \A x \in Callers : ~AtWork(op[x])
    BY <1>6, FreeRests, NamesAssumption
  <2>2. AbstractRdf[n] = IF Found(n) THEN file[RdfFile[n]].of ELSE "absent"
    BY <2>1, SeenAtRest
  <2>3. graph[n] = Parse(file[RdfFile[n]]) /\ graph[n] \in Stored
    BY <1>6, <2>1 DEF StoreInv, Sound, InStep, Mirror, Fills, Free, AtWork, Typed, TypeOK
  <2>4. ASSUME Found(n) PROVE graph[n] = AbstractRdf[n] /\ AbstractRdf[n] # "absent"
    <3>1. file[RdfFile[n]] \in {Empty, Cut} \cup {Text(g) : g \in Stored}
      BY <2>1, <2>4 DEF StoreInv, Retained, Plain, Found, Present
    <3>2. file[RdfFile[n]] # Cut
      BY <2>3, DataAssumption DEF Parse, Cut
    <3>3. graph[n] = file[RdfFile[n]].of
      <4>1. CASE file[RdfFile[n]] = Empty
        BY <2>3, <4>1, ParseFacts DEF Empty
      <4>2. ASSUME NEW g \in Stored, file[RdfFile[n]] = Text(g) PROVE graph[n] = file[RdfFile[n]].of
        BY <2>3, <4>2, ParseFacts DEF Text
      <4> QED
        BY <3>1, <3>2, <4>1, <4>2
    <3> QED
      BY <2>2, <2>3, <2>4, <3>3, DataAssumption
  <2>5. (IF Found(n) THEN graph[n] ELSE "not found")
            = IF AbstractRdf[n] = "absent" THEN "not found" ELSE AbstractRdf[n]
    BY <2>2, <2>4
  <2>6. Abstract!Read(c, n)
    BY <1>3, <1>6, <2>5, Zenon DEF Abstract!Read, Respond
  <2> QED
    BY <2>1, <2>6, Zenon DEF Abstract!Next
<1> QED
  BY <1>4, <1>5, <1>6 DEF Idles

(* The write of a graph shows as soon as it begins. *)
LEMMA WriteMaps ==
    ASSUME NoCollisions, BytesApart, StoreInv, StoreInv', NEW c \in Callers, NEW n \in RdfNames,
           NEW g \in Stored, Opens(c, "write", n, g, RdfFile[n])
    PROVE  Abstract!Write(n, g)
<1>1. /\ n \in Names /\ RdfFile[n] \in Files /\ UNCHANGED answer
      /\ file' = Opened(RdfFile[n]) /\ \A x \in Callers : ~AtWork(op[x])
  BY NamesAssumption, FreeRests DEF Opens
<1>2. op'[c] = [call |-> "write", name |-> n, data |-> g] /\ AtWork(op'[c])
  BY DEF Opens, Enter, AtWork, StoreInv, Typed, TypeOK
<1>3. ASSUME NEW q \in Files, q # RdfFile[n], q \notin Above[RdfFile[n]] PROVE file'[q] = file[q]
  BY <1>1, <1>3, Opening DEF StoreInv, Typed, TypeOK
<1>4. AbstractRdf'[n] = g
  BY <1>1, <1>2, SeenAtWorkNext DEF RdfOf
<1>5. ASSUME NEW m \in Names \ {n} PROVE AbstractRdf'[m] = AbstractRdf[m]
  <2>1. RdfFile[m] \in Files /\ RdfFile[m] # RdfFile[n] /\ RdfFile[m] \notin Above[RdfFile[n]]
    BY <1>1, NamesAssumption DEF NoCollisions
  <2>2. file'[RdfFile[m]] = file[RdfFile[m]]
    BY <1>3, <2>1
  <2>3. AbstractRdf'[m] = RdfOf(op[c], m)'
    BY <1>2, SeenAtWorkNext
  <2>4. AbstractRdf[m] = IF Found(m) THEN file[RdfFile[m]].of ELSE "absent"
    BY <1>1, SeenAtRest
  <2> QED
    BY <1>2, <2>2, <2>3, <2>4 DEF RdfOf, Found, Present
<1>6. ASSUME NEW m \in BinNames PROVE AbstractBin'[m] = AbstractBin[m]
  <2>1. file'[BinFile[m]] = file[BinFile[m]]
    <3>1. RdfFile[n] # BinFile[m]
      BY DEF BytesApart
    <3> QED
      BY <1>1, <3>1, OpenApart DEF StoreInv
  <2>2. AbstractBin'[m] = BinOf(op[c], m)'
    BY <1>2, SeenAtWorkNext
  <2>3. AbstractBin[m] = IF IsFile(BinFile[m]) THEN file[BinFile[m]].of ELSE "absent"
    BY <1>1, SeenAtRest
  <2> QED
    BY <1>2, <2>1, <2>2, <2>3 DEF BinOf, IsFile
<1>7. AbstractRdf' = [AbstractRdf EXCEPT ![n] = g]
  BY <1>1, <1>4, <1>5, Shapes, ChangedFunction
<1>8. AbstractBin' = AbstractBin
  BY <1>6, Shapes, SameFunction
<1> QED
  BY <1>1, <1>7, <1>8 DEF Abstract!Write

(* So do the bytes of a binary and, with them, its metadata. *)
LEMMA WriteBinaryMaps ==
    ASSUME NoCollisions, BytesApart, StoreInv, StoreInv', NEW c \in Callers, NEW n \in BinNames,
           NEW b \in Bodies, Opens(c, "bytes", n, b, BinFile[n])
    PROVE  Abstract!WriteBinary(n, b)
<1>1. /\ n \in Used /\ BinFile[n] \in Files /\ DescriptionOf[n] \in Names /\ UNCHANGED answer
      /\ file' = Opened(BinFile[n]) /\ \A x \in Callers : ~AtWork(op[x])
  BY NamesAssumption, FreeRests DEF Opens, Used
<1>2. op'[c] = [call |-> "bytes", name |-> n, data |-> b] /\ AtWork(op'[c])
  BY DEF Opens, Enter, AtWork, StoreInv, Typed, TypeOK
<1>3. ASSUME NEW q \in Files, q # BinFile[n], q \notin Above[BinFile[n]] PROVE file'[q] = file[q]
  BY <1>1, <1>3, Opening DEF StoreInv, Typed, TypeOK
<1>4. AbstractRdf'[DescriptionOf[n]] = Sidecar[b]
  BY <1>1, <1>2, SeenAtWorkNext DEF RdfOf
<1>5. ASSUME NEW m \in Names \ {DescriptionOf[n]} PROVE AbstractRdf'[m] = AbstractRdf[m]
  <2>1. RdfFile[m] \in Files /\ RdfFile[m] # BinFile[n] /\ RdfFile[m] \notin Above[BinFile[n]]
    BY <1>1, NamesAssumption DEF NoCollisions
  <2>2. file'[RdfFile[m]] = file[RdfFile[m]]
    BY <1>3, <2>1
  <2>3. AbstractRdf'[m] = RdfOf(op[c], m)'
    BY <1>2, SeenAtWorkNext
  <2>4. AbstractRdf[m] = IF Found(m) THEN file[RdfFile[m]].of ELSE "absent"
    BY <1>1, SeenAtRest
  <2> QED
    BY <1>2, <2>2, <2>3, <2>4 DEF RdfOf, Found, Present
<1>6. AbstractBin'[n] = b
  BY <1>2, SeenAtWorkNext DEF BinOf
<1>7. ASSUME NEW m \in BinNames \ {n} PROVE AbstractBin'[m] = AbstractBin[m]
  <2>1. file'[BinFile[m]] = file[BinFile[m]]
    <3>1. BinFile[n] # BinFile[m]
      BY <1>1 DEF BytesApart
    <3> QED
      BY <1>1, <3>1, OpenApart DEF StoreInv
  <2>2. AbstractBin'[m] = BinOf(op[c], m)'
    BY <1>2, SeenAtWorkNext
  <2>3. AbstractBin[m] = IF IsFile(BinFile[m]) THEN file[BinFile[m]].of ELSE "absent"
    BY <1>1, SeenAtRest
  <2> QED
    BY <1>2, <2>1, <2>2, <2>3 DEF BinOf, IsFile
<1>8. AbstractRdf' = [AbstractRdf EXCEPT ![DescriptionOf[n]] = Sidecar[b]]
  BY <1>1, <1>4, <1>5, Shapes, ChangedFunction
<1>9. AbstractBin' = [AbstractBin EXCEPT ![n] = b]
  BY <1>6, <1>7, Shapes, ChangedFunction
<1> QED
  BY <1>1, <1>8, <1>9 DEF Abstract!WriteBinary

LEMMA DeleteGraphMaps ==
    ASSUME NoCollisions, BytesApart, StoreInv, StoreInv', NEW c \in Callers, NEW n \in Used,
           DropsGraph(c, n)
    PROVE  Abstract!DeleteGraph(c, n)
<1>1. /\ n \in Names /\ RdfFile[n] \in Files /\ file \in [Files -> Contents]
      /\ Respond(c, "ok") /\ UNCHANGED op
      /\ file' = [file EXCEPT ![RdfFile[n]] = Missing]
      /\ \A x \in Callers : ~AtWork(op[x]) /\ ~AtWork(op'[x])
  BY NamesAssumption, FreeRests DEF DropsGraph, Used, StoreInv, Typed, TypeOK
<1>2. AbstractRdf[n] # "absent"
  <2>1. AbstractRdf[n] = file[RdfFile[n]].of
    BY <1>1, SeenAtRest DEF DropsGraph
  <2>2. file[RdfFile[n]].of \in Stored \cup Bodies
    BY <1>1, ContentFacts DEF Stored
  <2> QED
    BY <2>1, <2>2, DataAssumption
<1>3. AbstractRdf'[n] = "absent"
  BY <1>1, SeenAtRestNext
<1>4. ASSUME NEW m \in Names \ {n} PROVE AbstractRdf'[m] = AbstractRdf[m]
  <2>1. RdfFile[m] \in Files /\ RdfFile[m] # RdfFile[n]
    BY <1>1, NamesAssumption DEF NoCollisions
  <2>2. file'[RdfFile[m]] = file[RdfFile[m]]
    BY <1>1, <2>1
  <2> QED
    BY <1>1, <2>2, SeenAtRest, SeenAtRestNext DEF Found, Present
<1>5. ASSUME NEW m \in BinNames PROVE AbstractBin'[m] = AbstractBin[m]
  <2>1. BinFile[m] \in Files /\ BinFile[m] # RdfFile[n]
    BY <1>1, NamesAssumption DEF NoCollisions, Used
  <2>2. file'[BinFile[m]] = file[BinFile[m]]
    BY <1>1, <2>1
  <2> QED
    BY <1>1, <2>2, SeenAtRest, SeenAtRestNext DEF IsFile
<1>6. AbstractRdf' = [AbstractRdf EXCEPT ![n] = "absent"]
  BY <1>1, <1>3, <1>4, Shapes, ChangedFunction
<1>7. AbstractBin' = AbstractBin
  BY <1>5, Shapes, SameFunction
<1> QED
  BY <1>1, <1>2, <1>6, <1>7 DEF Abstract!DeleteGraph, Respond

LEMMA DeleteBinaryMaps ==
    ASSUME NoCollisions, BytesApart, StoreInv, StoreInv', NEW c \in Callers, NEW n \in Used,
           DropsBytes(c, n)
    PROVE  n \in BinNames /\ Abstract!DeleteBinary(n)
<1>1. /\ n \in BinNames /\ n \in Names /\ BinFile[n] \in Files /\ DescriptionOf[n] \in Names
      /\ UNCHANGED answer /\ file \in [Files -> Contents]
      /\ file' = [file EXCEPT ![BinFile[n]] = Missing]
      /\ \A x \in Callers : ~AtWork(op[x])
  BY NamesAssumption, FreeRests
  DEF DropsBytes, Used, StoreInv, Sound, InStep, BytesInPlace, Typed, TypeOK
<1>2. op'[c] = [call |-> "unsidecar", name |-> n, data |-> NoTriples] /\ AtWork(op'[c])
  BY DEF DropsBytes, Enter, AtWork, StoreInv, Typed, TypeOK
<1>3. AbstractRdf[n] = "absent" /\ AbstractBin[n] # "absent"
  <2>1. AbstractRdf[n] = "absent" /\ AbstractBin[n] = file[BinFile[n]].of
    BY <1>1, SeenAtRest DEF DropsBytes
  <2>2. file[BinFile[n]].of \in Stored \cup Bodies
    BY <1>1, ContentFacts DEF Stored
  <2> QED
    BY <2>1, <2>2, DataAssumption
<1>4. AbstractRdf'[DescriptionOf[n]] = "absent"
  BY <1>1, <1>2, SeenAtWorkNext DEF RdfOf
<1>5. ASSUME NEW m \in Names \ {DescriptionOf[n]} PROVE AbstractRdf'[m] = AbstractRdf[m]
  <2>1. RdfFile[m] \in Files /\ RdfFile[m] # BinFile[n]
    BY <1>1, NamesAssumption DEF NoCollisions
  <2>2. file'[RdfFile[m]] = file[RdfFile[m]]
    BY <1>1, <2>1
  <2>3. AbstractRdf'[m] = RdfOf(op[c], m)'
    BY <1>2, SeenAtWorkNext
  <2>4. AbstractRdf[m] = IF Found(m) THEN file[RdfFile[m]].of ELSE "absent"
    BY <1>1, SeenAtRest
  <2> QED
    BY <1>2, <2>2, <2>3, <2>4 DEF RdfOf, Found, Present
<1>6. ASSUME NEW m \in BinNames
      PROVE  AbstractBin'[m] = IF m = n THEN "absent" ELSE AbstractBin[m]
  <2>1. AbstractBin'[m] = BinOf(op[c], m)'
    BY <1>2, SeenAtWorkNext
  <2>2. CASE m = n
    <3>1. file'[BinFile[m]] = Missing
      BY <1>1, <2>2
    <3> QED
      BY <1>2, <2>1, <2>2, <3>1 DEF BinOf, IsFile, Missing
  <2>3. CASE m # n
    <3>1. BinFile[m] \in Files /\ BinFile[m] # BinFile[n]
      BY <1>1, <2>3, NamesAssumption DEF BytesApart, Used
    <3>2. file'[BinFile[m]] = file[BinFile[m]]
      BY <1>1, <3>1
    <3>3. AbstractBin[m] = IF IsFile(BinFile[m]) THEN file[BinFile[m]].of ELSE "absent"
      BY <1>1, SeenAtRest
    <3> QED
      BY <1>2, <2>1, <2>3, <3>2, <3>3 DEF BinOf, IsFile
  <2> QED
    BY <2>2, <2>3
<1>7. AbstractRdf' = [AbstractRdf EXCEPT ![DescriptionOf[n]] = "absent"]
  BY <1>1, <1>4, <1>5, Shapes, ChangedFunction
<1>8. AbstractBin' = [AbstractBin EXCEPT ![n] = "absent"]
  BY <1>1, <1>6, Shapes, ChangedFunction
<1> QED
  BY <1>1, <1>3, <1>7, <1>8 DEF Abstract!DeleteBinary

(* The end of a call changes what is seen of no name: by then the files     *)
(* have what the call promised when it began.                               *)
LEMMA EndWriteMaps ==
    ASSUME NoCollisions, BytesApart, StoreInv, StoreInv', NEW c \in Callers, EndWrite(c)
    PROVE  Abstract!Respond(c)
<1> DEFINE n == op[c].name
           g == op[c].data
<1>1. /\ op[c].call = "write" /\ n \in Names /\ n \in RdfNames /\ g \in Stored
      /\ file \in [Files -> Contents] /\ \A m \in Names : RdfFile[m] \in Files
      /\ file' = [file EXCEPT ![RdfFile[n]] = Text(g)] /\ Leave(c, "ok")
  BY NamesAssumption
  DEF EndWrite, StoreInv, Sound, Safe, Halfway, Typed, TypeOK, OpShape, CallShape
<1>2. \A x \in Callers : ~AtWork(op'[x])
  BY <1>1, LeaveOrder, IdleFacts DEF EndWrite, StoreInv, Sound, Safe, AtWork
<1>3. AtWork(op[c])
  BY <1>1 DEF AtWork
<1>4. ASSUME NEW m \in Names PROVE AbstractRdf'[m] = AbstractRdf[m]
  <2>1. AbstractRdf[m] = RdfOf(op[c], m)
    BY <1>3, SeenAtWork
  <2>2. AbstractRdf'[m] = IF file'[RdfFile[m]] # Missing THEN file'[RdfFile[m]].of ELSE "absent"
    BY <1>2, SeenAtRestNext
  <2>3. CASE m = n
    <3>1. file'[RdfFile[m]] = Text(g)
      BY <1>1, <2>3
    <3>2. Text(g) # Missing /\ Text(g).of = g
      BY DEF Text, Missing
    <3> QED
      BY <1>1, <2>1, <2>2, <2>3, <3>1, <3>2 DEF RdfOf
  <2>4. CASE m # n
    <3>1. RdfFile[m] # RdfFile[n]
      BY <1>1, <2>4 DEF NoCollisions
    <3>2. file'[RdfFile[m]] = file[RdfFile[m]]
      BY <1>1, <3>1
    <3> QED
      BY <1>1, <2>1, <2>2, <2>4, <3>2 DEF RdfOf, Found, Present
  <2> QED
    BY <2>3, <2>4
<1>5. ASSUME NEW m \in BinNames PROVE AbstractBin'[m] = AbstractBin[m]
  <2>1. BinFile[m] \in Files /\ BinFile[m] # RdfFile[n]
    BY <1>1, NamesAssumption DEF NoCollisions, Used
  <2>2. file'[BinFile[m]] = file[BinFile[m]]
    BY <1>1, <2>1
  <2>3. AbstractBin[m] = BinOf(op[c], m)
    BY <1>3, SeenAtWork
  <2> QED
    BY <1>1, <1>2, <2>2, <2>3, SeenAtRestNext DEF BinOf, IsFile
<1>6. AbstractRdf' = AbstractRdf /\ AbstractBin' = AbstractBin
  BY <1>4, <1>5, Shapes, SameFunction
<1>7. answer' = [answer EXCEPT ![c] = "ok"]
  BY <1>1 DEF Leave, Respond
<1> QED
  BY <1>6, <1>7, Zenon DEF Abstract!Respond

LEMMA EndBytesMaps ==
    ASSUME NoCollisions, BytesApart, StoreInv, StoreInv', NEW c \in Callers, EndBytes(c)
    PROVE  UNCHANGED <<AbstractRdf, AbstractBin, answer>>
<1> DEFINE n == op[c].name
           b == op[c].data
<1>1. /\ op[c].call = "bytes" /\ n \in BinNames /\ n \in Used /\ DescriptionOf[n] \in Names
      /\ BinFile[n] \in Files /\ MetaFile[n] = RdfFile[DescriptionOf[n]]
      /\ MetaFile[n] \in Files /\ file \in [Files -> Contents]
  BY NamesAssumption
  DEF EndBytes, StoreInv, Typed, TypeOK, OpShape, CallShape, Used, NoCollisions
<1>2. file[MetaFile[n]] # Dir
  BY <1>1, NoDirectory DEF StoreInv
<1>3. /\ file' = [[file EXCEPT ![BinFile[n]] = Bytes(b)] EXCEPT ![MetaFile[n]] = Empty]
      /\ Enter(c, "sidecar", n, b) /\ UNCHANGED answer
  BY <1>2 DEF EndBytes
<1>4. op'[c] = [call |-> "sidecar", name |-> n, data |-> b] /\ AtWork(op'[c]) /\ AtWork(op[c])
  BY <1>1, <1>3 DEF Enter, AtWork, StoreInv, Typed, TypeOK
<1>5. ASSUME NEW m \in Names PROVE AbstractRdf'[m] = AbstractRdf[m]
  <2>1. AbstractRdf[m] = RdfOf(op[c], m) /\ AbstractRdf'[m] = RdfOf(op[c], m)'
    BY <1>4, SeenAtWork, SeenAtWorkNext
  <2>2. CASE m = DescriptionOf[n]
    BY <1>1, <1>4, <2>1, <2>2 DEF RdfOf
  <2>3. CASE m # DescriptionOf[n]
    <3>1. RdfFile[m] \in Files /\ RdfFile[m] # MetaFile[n] /\ RdfFile[m] # BinFile[n]
      BY <1>1, <2>3, NamesAssumption DEF NoCollisions
    <3>2. file'[RdfFile[m]] = file[RdfFile[m]]
      BY <1>1, <1>3, <3>1
    <3> QED
      BY <1>1, <1>4, <2>1, <2>3, <3>2 DEF RdfOf, Found, Present
  <2> QED
    BY <2>2, <2>3
<1>6. ASSUME NEW m \in BinNames PROVE AbstractBin'[m] = AbstractBin[m]
  <2>1. AbstractBin[m] = BinOf(op[c], m) /\ AbstractBin'[m] = BinOf(op[c], m)'
    BY <1>4, SeenAtWork, SeenAtWorkNext
  <2>2. CASE m = n
    BY <1>1, <1>4, <2>1, <2>2 DEF BinOf
  <2>3. CASE m # n
    <3>1. BinFile[m] \in Files /\ BinFile[m] # MetaFile[n] /\ BinFile[m] # BinFile[n]
      BY <1>1, <2>3, NamesAssumption DEF BytesApart, Used
    <3>2. file'[BinFile[m]] = file[BinFile[m]]
      BY <1>1, <1>3, <3>1
    <3> QED
      BY <1>1, <1>4, <2>1, <2>3, <3>2 DEF BinOf, IsFile
  <2> QED
    BY <2>2, <2>3
<1> QED
  BY <1>3, <1>5, <1>6, Shapes, SameFunction

LEMMA EndMetadataMaps ==
    ASSUME NoCollisions, BytesApart, StoreInv, StoreInv', NEW c \in Callers,
           EndSidecar(c) \/ EndDelete(c)
    PROVE  Abstract!Respond(c)
<1> DEFINE n == op[c].name
           left == IF op[c].call = "sidecar" THEN Text(Sidecar[op[c].data]) ELSE Missing
<1>1. /\ op[c].call \in {"sidecar", "unsidecar"} /\ n \in BinNames /\ n \in Used
      /\ DescriptionOf[n] \in Names /\ MetaFile[n] = RdfFile[DescriptionOf[n]]
      /\ MetaFile[n] \in Files /\ file \in [Files -> Contents] /\ process' = process
  BY NamesAssumption
  DEF EndSidecar, EndDelete, StoreInv, Sound, InStep, BytesInPlace, Typed, TypeOK, Used,
      NoCollisions
<1>2. file[MetaFile[n]] # Dir
  BY <1>1, NoDirectory DEF StoreInv
<1>3. file' = [file EXCEPT ![MetaFile[n]] = left] /\ Leave(c, "ok")
  BY <1>2 DEF EndSidecar, EndDelete
<1>4. AtWork(op[c]) /\ \A x \in Callers : ~AtWork(op'[x])
  BY <1>1, <1>3, LeaveOrder, IdleFacts DEF StoreInv, Sound, Safe, AtWork
<1>5. ASSUME NEW m \in Names PROVE AbstractRdf'[m] = AbstractRdf[m]
  <2>1. AbstractRdf[m] = RdfOf(op[c], m)
    BY <1>4, SeenAtWork
  <2>2. AbstractRdf'[m] = IF file'[RdfFile[m]] # Missing THEN file'[RdfFile[m]].of ELSE "absent"
    BY <1>4, SeenAtRestNext
  <2>3. CASE m = DescriptionOf[n]
    <3>1. file'[RdfFile[m]] = left
      BY <1>1, <1>3, <2>3
    <3>2. CASE op[c].call = "sidecar"
      <4>1. left # Missing /\ left.of = Sidecar[op[c].data]
        BY <3>2 DEF Text, Missing
      <4> QED
        BY <2>1, <2>2, <2>3, <3>1, <3>2, <4>1 DEF RdfOf
    <3>3. CASE op[c].call = "unsidecar"
      BY <2>1, <2>2, <2>3, <3>1, <3>3 DEF RdfOf
    <3> QED
      BY <1>1, <3>2, <3>3
  <2>4. CASE m # DescriptionOf[n]
    <3>1. RdfFile[m] \in Files /\ RdfFile[m] # MetaFile[n]
      BY <1>1, <2>4, NamesAssumption DEF NoCollisions
    <3>2. file'[RdfFile[m]] = file[RdfFile[m]]
      BY <1>1, <1>3, <3>1
    <3> QED
      BY <1>1, <2>1, <2>2, <2>4, <3>2 DEF RdfOf, Found, Present
  <2> QED
    BY <2>3, <2>4
<1>6. ASSUME NEW m \in BinNames PROVE AbstractBin'[m] = AbstractBin[m]
  <2>1. AbstractBin[m] = BinOf(op[c], m)
    BY <1>4, SeenAtWork
  <2>2. BinFile[m] \in Files /\ BinFile[m] # MetaFile[n]
    BY <1>1, NamesAssumption DEF BytesApart, Used
  <2>3. file'[BinFile[m]] = file[BinFile[m]]
    BY <1>1, <1>3, <2>2
  <2>4. AbstractBin'[m] = IF IsFile(BinFile[m]) THEN file[BinFile[m]].of ELSE "absent"
    BY <1>4, <2>3, SeenAtRestNext DEF IsFile
  <2>5. CASE op[c].call = "sidecar" /\ m = n
    <3>1. file[BinFile[m]] = Bytes(op[c].data)
      BY <2>5 DEF StoreInv, Sound, Safe, Halfway
    <3> QED
      BY <2>1, <2>4, <2>5, <3>1 DEF BinOf, IsFile, Bytes
  <2>6. CASE ~(op[c].call = "sidecar" /\ m = n)
    BY <1>1, <2>1, <2>4, <2>6 DEF BinOf
  <2> QED
    BY <2>5, <2>6
<1>7. AbstractRdf' = AbstractRdf /\ AbstractBin' = AbstractBin
  BY <1>5, <1>6, Shapes, SameFunction
<1>8. answer' = [answer EXCEPT ![c] = "ok"]
  BY <1>3 DEF Leave, Respond
<1> QED
  BY <1>7, <1>8, Zenon DEF Abstract!Respond

LEMMA StoreInit == Init => Abstract!Init
<1> SUFFICES ASSUME Init PROVE Abstract!Init
  OBVIOUS
<1>1. StoreInv /\ \A c \in Callers : ~AtWork(op[c])
  BY InitStore, IdleFacts DEF Init, AtWork
<1>2. \A n \in Names : AbstractRdf[n] = "absent"
  BY <1>1, SeenAtRest, NamesAssumption DEF Init, Found, Present
<1>3. \A n \in BinNames : AbstractBin[n] = "absent"
  <2>1. \A n \in BinNames : file[BinFile[n]] = Missing
    BY NamesAssumption DEF Init, Used
  <2>2. \A n \in BinNames : ~IsFile(BinFile[n])
    BY <2>1 DEF IsFile, Missing
  <2> QED
    BY <1>1, <2>2, SeenAtRest
<1>4. AbstractRdf = [n \in Names |-> "absent"] /\ AbstractBin = [n \in BinNames |-> "absent"]
  BY <1>2, <1>3, Shapes
<1> QED
  BY <1>4 DEF Init, Abstract!Init

LEMMA StoreSteps ==
    ASSUME NoCollisions, BytesApart, StoreInv, StoreInv', [OrderlyNext]_vars
    PROVE  [Abstract!Next]_<<AbstractRdf, AbstractBin, answer>>
<1>1. Idles \/ (\E c \in Callers : Begins(c) \/ Ends(c)) \/ (Working = {} /\ Stop) \/ Boot
  <2>1. [Next]_vars
    BY DEF OrderlyNext, Next
  <2>2. CASE \E c \in Callers : Call(c)
    BY <2>2, CallKinds DEF StoreInv
  <2>3. CASE UNCHANGED vars
    BY <2>3 DEF vars, Idles
  <2> QED
    BY <2>2, <2>3 DEF OrderlyNext
<1>2. CASE Idles
  BY <1>2, IdlesMap
<1>3. ASSUME NEW c \in Callers, Begins(c) PROVE Abstract!Next
  <2>1. ASSUME NEW n \in RdfNames, NEW g \in Stored, Opens(c, "write", n, g, RdfFile[n])
        PROVE  Abstract!Next
    <3>1. Abstract!Write(n, g)
      BY <2>1, WriteMaps
    <3> QED
      BY <3>1, Zenon DEF Abstract!Next, Abstract!Stored, Stored
  <2>2. ASSUME NEW n \in BinNames, NEW b \in Bodies, Opens(c, "bytes", n, b, BinFile[n])
        PROVE  Abstract!Next
    <3>1. Abstract!WriteBinary(n, b)
      BY <2>2, WriteBinaryMaps
    <3> QED
      BY <3>1, Zenon DEF Abstract!Next
  <2>3. ASSUME NEW n \in Used, DropsGraph(c, n) PROVE Abstract!Next
    <3>1. n \in Names /\ Abstract!DeleteGraph(c, n)
      BY <2>3, DeleteGraphMaps, NamesAssumption DEF Used
    <3> QED
      BY <3>1, Zenon DEF Abstract!Next
  <2>4. ASSUME NEW n \in Used, DropsBytes(c, n) PROVE Abstract!Next
    <3>1. n \in BinNames /\ Abstract!DeleteBinary(n)
      BY <2>4, DeleteBinaryMaps
    <3> QED
      BY <3>1, Zenon DEF Abstract!Next
  <2> QED
    BY <1>3, <2>1, <2>2, <2>3, <2>4 DEF Begins
<1>4. ASSUME NEW c \in Callers, Ends(c)
      PROVE  [Abstract!Next]_<<AbstractRdf, AbstractBin, answer>>
  <2>1. CASE EndBytes(c)
    BY <2>1, EndBytesMaps
  <2>2. CASE EndWrite(c) \/ EndSidecar(c) \/ EndDelete(c)
    <3>1. Abstract!Respond(c)
      BY <2>2, EndWriteMaps, EndMetadataMaps
    <3> QED
      BY <3>1, Zenon DEF Abstract!Next
  <2> QED
    BY <1>4, <2>1, <2>2 DEF Ends
<1>5. CASE Working = {} /\ Stop
  <2>1. \A c \in Callers : ~AtWork(op[c]) /\ ~AtWork(op'[c])
    BY <1>5, IdleFacts DEF Stop, Working, AtWork
  <2>2. UNCHANGED file /\ answer' = [c \in Callers |-> "none"]
    BY <1>5 DEF Stop
  <2>3. UNCHANGED <<AbstractRdf, AbstractBin>>
    BY <2>1, <2>2, SeenStays
  <2> QED
    BY <2>2, <2>3, Zenon DEF Abstract!Next
<1>6. CASE Boot
  <2>1. UNCHANGED <<file, op, answer>> /\ process # "running"
    BY <1>6 DEF Boot
  <2>2. \A c \in Callers : ~AtWork(op[c]) /\ ~AtWork(op'[c])
    BY <2>1, IdleFacts DEF StoreInv, Sound, Safe, AtRest, AtWork
  <2>3. UNCHANGED <<AbstractRdf, AbstractBin>>
    BY <2>1, <2>2, SeenStays
  <2> QED
    BY <2>1, <2>3
<1> QED
  BY <1>1, <1>2, <1>3, <1>4, <1>5, <1>6

(* Names with files of their own, and a server that is stopped between      *)
(* calls only: the files, the dataset and the lock together are a store of  *)
(* whole resources, and a start brings it back as it was.                   *)
THEOREM StoreImplemented ==
    ASSUME NoCollisions, BytesApart
    PROVE  OrderlySpec => ImplementsStore
<1>1. StoreInv /\ [OrderlyNext]_vars => StoreInv'
  BY StoreStep, NoCollisions, BytesApart DEF OrderlyNext, Next
<1>2. StoreInv /\ StoreInv' /\ [OrderlyNext]_vars
        => [Abstract!Next]_<<AbstractRdf, AbstractBin, answer>>
  BY StoreSteps, NoCollisions, BytesApart
<1> QED
  BY <1>1, <1>2, StoreInit, InitStore, PTL DEF OrderlySpec, ImplementsStore, Abstract!Spec
=============================================================================
