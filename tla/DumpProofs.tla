----------------------------- MODULE DumpProofs -----------------------------
(***************************************************************************)
(* What is proved of Dump: nothing leaves the machine that was not let go, *)
(* and an artifact speaks of a value by one name, for any number of        *)
(* values, lines and bytes.                                                *)
(***************************************************************************)
EXTENDS Dump, FiniteSetTheorems, TLAPS

Uploading == {"size", "confirm", "upload"}

(* The body has a size.                                                    *)
SizeIsKnown == IsFiniteSet(notes) /\ bytes \in Nat

(* What run_dump has checked by the time it comes to a step.               *)
ChecksGoAhead ==
  /\ asked \in Requests
  /\ pc \notin {"start", "failed"} /\ asked.gist => asked.token # "missing" /\ asked.output # "-"
  /\ pc \in Uploading => asked.gist
  /\ pc \in {"confirm", "upload"} => Size <= MAX_GIST_BYTES
  /\ pc = "upload" => asked.yes \/ approved
  /\ pc \in {"announce"} \cup Uploading /\ Destination = "file" => file = "whole"
  /\ gist # None => pc \in Final

(* What has gone to stdout.                                                *)
StdoutIsDestined ==
  /\ "artifact" \in stdout => Destination = "stdout" /\ ~asked.gist
  /\ "url" \in stdout => asked.gist

LeaveInv ==
  /\ SizeIsKnown /\ ChecksGoAhead /\ StdoutIsDestined
  /\ NothingIsUploadedUnasked

-----------------------------------------------------------------------------
LEMMA InitLeave == Init => LeaveInv
<1> SUFFICES ASSUME Init
    PROVE  LeaveInv
  OBVIOUS
<1>1. SizeIsKnown
  BY FS_EmptySet DEF Init, SizeIsKnown
<1>2. ChecksGoAhead /\ StdoutIsDestined /\ NothingIsUploadedUnasked
  BY DEF Init, ChecksGoAhead, StdoutIsDestined, NothingIsUploadedUnasked, Uploading
<1> QED
  BY <1>1, <1>2 DEF LeaveInv

(* Before the artifact is rendered nothing is on its way out: a step among *)
(* those before keeps what is promised as long as the body has a size.     *)
LEMMA EarlyStepLeave ==
  ASSUME LeaveInv, SizeIsKnown', UNCHANGED <<asked, outVars>>,
         pc \notin {"announce"} \cup Uploading \cup Final,
         pc' \notin {"announce"} \cup Uploading,
         pc = "start" /\ asked.gist /\ pc' # "failed" => asked.token # "missing" /\ asked.output # "-"
  PROVE  LeaveInv'
<1> USE DEF outVars, Final
<1>1. gist = None
  BY DEF LeaveInv, ChecksGoAhead
<1>2. ChecksGoAhead'
  BY <1>1 DEF LeaveInv, ChecksGoAhead, Uploading
<1>3. StdoutIsDestined'
  BY DEF LeaveInv, StdoutIsDestined, Destination
<1>4. NothingIsUploadedUnasked'
  BY <1>1 DEF NothingIsUploadedUnasked
<1> QED
  BY <1>2, <1>3, <1>4 DEF LeaveInv

(* A step that neither moves the run on nor writes.                        *)
LEMMA IdleStepLeave ==
  ASSUME LeaveInv, UNCHANGED <<asked, pc, notes, bytes, outVars>>
  PROVE  LeaveInv'
BY DEF LeaveInv, SizeIsKnown, ChecksGoAhead, StdoutIsDestined, NothingIsUploadedUnasked,
       Uploading, Final, Size, Destination, outVars

(* One note more leaves finitely many.                                     *)
LEMMA NotesStayFinite ==
  ASSUME IsFiniteSet(notes), NEW n
  PROVE  IsFiniteSet(notes \cup {n}) /\ Cardinality(notes \cup {n}) \in Nat
BY FS_AddElement, FS_CardinalityType

(* Reading the sources (dump.rs:185-326).                                  *)
LEMMA ReadingLeave ==
  ASSUME LeaveInv, Start \/ HeaderFields \/ DoctorReport \/ Spawn \/ ReadLine \/ ReadEnd \/ Kill \/ Wait
  PROVE  LeaveInv'
<1> USE DEF outVars, bodyVars, readVars, Goto
<1>1. /\ pc \in {"start", "header", "doctor", "spawn", "lines", "kill", "wait"}
      /\ pc' \in {"failed", "header", "doctor", "spawn", "lines", "kill", "wait", "body"}
      /\ pc = "start" /\ asked.gist /\ pc' # "failed" => asked.token # "missing" /\ asked.output # "-"
      /\ UNCHANGED <<asked, outVars, bytes>>
  BY DEF Start, HeaderFields, DoctorReport, Spawn, ReadLine, ReadEnd, Kill, Wait,
         Unread, WasRead, NextSource
<1>2. SizeIsKnown'
  <2>1. notes' = notes \/ \E n : notes' = notes \cup {n}
    BY DEF Start, HeaderFields, DoctorReport, Spawn, ReadLine, ReadEnd, Kill, Wait, Unread
  <2> QED
    BY <1>1, <2>1, NotesStayFinite DEF LeaveInv, SizeIsKnown
<1> QED
  BY <1>1, <1>2, EarlyStepLeave DEF Uploading, Final

(* Placing the lines up to the file (dump.rs:328-363, 441-468).            *)
LEMMA PlacingLeave ==
  ASSUME LeaveInv, Body \/ DrainLine \/ PlaceLine \/ Drained \/ Render
  PROVE  LeaveInv'
<1> USE DEF outVars, bodyVars, readVars, Goto
<1>1. /\ pc \in {"body", "drain", "place", "render"}
      /\ pc' \in {"drain", "place", "render", "write"}
      /\ UNCHANGED <<asked, outVars>>
  BY DEF Body, DrainLine, PlaceLine, Drained, Render
<1>2. SizeIsKnown'
  <2>1. CASE Body
    <3>1. notes' = notes \/ notes' = notes \cup {<<None, "skew">>}
      BY <2>1 DEF Body
    <3>2. IsFiniteSet(notes') /\ Cardinality(notes') \in Nat
      BY <3>1, NotesStayFinite, FS_CardinalityType DEF LeaveInv, SizeIsKnown
    <3>3. bytes' = NOTE * Cardinality(notes') /\ NOTE \in Nat
      BY <2>1, DumpAssumption DEF Body
    <3> QED
      BY <3>2, <3>3 DEF SizeIsKnown
  <2>2. CASE PlaceLine
    <3>1. notes' = notes \/ notes' = notes \cup {<<None, "truncated">>}
      BY <2>2 DEF PlaceLine
    <3>2. bytes' \in Nat
      BY <2>2, DumpAssumption DEF PlaceLine, LeaveInv, SizeIsKnown
    <3> QED
      BY <3>1, <3>2, NotesStayFinite DEF LeaveInv, SizeIsKnown
  <2>3. CASE DrainLine \/ Drained \/ Render
    BY <2>3 DEF DrainLine, Drained, Render, LeaveInv, SizeIsKnown
  <2> QED
    BY <2>1, <2>2, <2>3
<1> QED
  BY <1>1, <1>2, EarlyStepLeave DEF Uploading, Final

(* From the file to the gist: each step finds what the ones before have    *)
(* checked (dump.rs:546-590, gist.rs:110-174).                             *)
LEMMA LeavingLeave ==
  ASSUME LeaveInv, Write \/ Fill \/ Announce \/ CheckGistSize \/ ConfirmUpload \/ Upload \/ Fails
  PROVE  LeaveInv'
<1> USE DEF outVars, bodyVars, readVars, Goto
<1>1. /\ UNCHANGED <<asked, notes, bytes>>
      /\ Size' = Size /\ Destination' = Destination
  BY DEF Write, Fill, Announce, CheckGistSize, ConfirmUpload, Upload, Fails, Size, Destination
<1>2. SizeIsKnown'
  BY <1>1 DEF LeaveInv, SizeIsKnown
<1>3. /\ asked \in Requests /\ asked \in Request
      /\ asked.gist \in BOOLEAN /\ asked.yes \in BOOLEAN
      /\ asked.token \in {"missing", "malformed", "good"}
      /\ asked.output \in {"default", "file", "-"}
      /\ asked.gist => Destination # "stdout" \/ asked.output = "-"
      /\ Size \in Int /\ MAX_GIST_BYTES \in Int
  <2>1. asked \in Request
    BY DumpAssumption DEF LeaveInv, ChecksGoAhead
  <2>2. Destination = "stdout" => asked.output = "-"
    BY <2>1 DEF Destination, Request
  <2>3. Size \in Int /\ MAX_GIST_BYTES \in Int
    BY DumpAssumption DEF Size, LeaveInv, SizeIsKnown
  <2> QED
    BY <2>1, <2>2, <2>3 DEF LeaveInv, ChecksGoAhead, Request
<1>4. ChecksGoAhead'
  <2>1. CASE Write
    BY <2>1, <1>1, <1>3 DEF Write, LeaveInv, ChecksGoAhead, Uploading, Final
  <2>2. CASE Fill \/ Announce
    BY <2>2, <1>1, <1>3 DEF Fill, Announce, LeaveInv, ChecksGoAhead, Uploading, Final
  <2>3. CASE CheckGistSize
    BY <2>3, <1>1, <1>3 DEF CheckGistSize, LeaveInv, ChecksGoAhead, Uploading, Final
  <2>4. CASE ConfirmUpload
    BY <2>4, <1>1, <1>3 DEF ConfirmUpload, LeaveInv, ChecksGoAhead, Uploading, Final
  <2>5. CASE Upload \/ Fails
    BY <2>5, <1>1, <1>3 DEF Upload, Fails, LeaveInv, ChecksGoAhead, Uploading, Final
  <2> QED
    BY <2>1, <2>2, <2>3, <2>4, <2>5
<1>5. StdoutIsDestined'
  <2>1. CASE Write
    BY <2>1, <1>1, <1>3 DEF Write, LeaveInv, ChecksGoAhead, StdoutIsDestined
  <2>2. CASE Upload
    BY <2>2, <1>1, <1>3 DEF Upload, LeaveInv, ChecksGoAhead, StdoutIsDestined, Uploading
  <2>3. CASE Fill \/ Announce \/ CheckGistSize \/ ConfirmUpload \/ Fails
    BY <2>3, <1>1 DEF Fill, Announce, CheckGistSize, ConfirmUpload, Fails, LeaveInv, StdoutIsDestined
  <2> QED
    BY <2>1, <2>2, <2>3
<1>6. NothingIsUploadedUnasked'
  <2>1. CASE Upload
    BY <2>1, <1>1, <1>3 DEF Upload, LeaveInv, ChecksGoAhead, NothingIsUploadedUnasked, Uploading
  <2>2. CASE Write \/ Fill \/ Announce \/ CheckGistSize \/ ConfirmUpload \/ Fails
    BY <2>2, <1>1
    DEF Write, Fill, Announce, CheckGistSize, ConfirmUpload, Fails, LeaveInv, ChecksGoAhead,
        NothingIsUploadedUnasked, Final
  <2> QED
    BY <2>1, <2>2
<1> QED
  BY <1>2, <1>4, <1>5, <1>6 DEF LeaveInv

LEMMA LeaveInvariant == Spec => []LeaveInv
<1>1. ASSUME LeaveInv, [Next]_vars
      PROVE  LeaveInv'
  <2>1. CASE Redact
    BY <1>1, <2>1, IdleStepLeave DEF Redact, readVars
  <2>2. ASSUME NEW s \in Source, Writes(s) \/ Blocks(s) \/ Exits(s)
        PROVE  LeaveInv'
    BY <1>1, <2>2, IdleStepLeave DEF Writes, Blocks, Exits, producerFrame, flowVars, bodyVars
  <2>3. CASE UNCHANGED vars
    BY <1>1, <2>3, IdleStepLeave DEF vars, flowVars, readVars, bodyVars
  <2> QED
    BY <1>1, <2>1, <2>2, <2>3, ReadingLeave, PlacingLeave, LeavingLeave DEF Next, Main
<1> QED
  BY <1>1, InitLeave, PTL DEF Spec

(* An upload has been asked for, approved and found small enough, with the *)
(* artifact on the disk first, and no run prints both artifact and URL     *)
(* (run_dump, destination).                                                *)
THEOREM NothingLeaves == Spec => []NothingLeavesUnasked
<1>1. LeaveInv => NothingLeavesUnasked
  BY DEF LeaveInv, StdoutIsDestined, NothingLeavesUnasked, ArtifactAndUrlNeverMix
<1> QED
  BY <1>1, LeaveInvariant, PTL

-----------------------------------------------------------------------------
(* What has been read of a log is text; what goes into the merger of it is *)
(* a part of that, and what comes out a part of what went in.              *)
LogsAreRead ==
  /\ StreamTypeOK /\ turn \in Source
  /\ log \in [Source -> Seq(Texts \cup {Garbled})]
  /\ taken \in [Source -> Nat]
  /\ \A s \in Source :
       /\ taken[s] <= Len(log[s]) /\ fed[s] <= taken[s] /\ handed[s] <= fed[s]
       /\ \A k \in 1..taken[s] : log[s][k] \in Texts
  /\ pc = "place" => handed[turn] > 0

(* The numbers of a category tell its values apart.                        *)
NumbersTellApart ==
  /\ RedactorTypeOK
  /\ \A v \in Value : assigned[v] <= next[v.cat]
  /\ \A v, w \in Value : v.cat = w.cat /\ assigned[v] = assigned[w] /\ assigned[v] # 0 => v = w

Line == log[turn][handed[turn]]

(* The artifact has the numbers the redactor gave, and the line in hand is *)
(* numbered, or what of it is not is still to come.                        *)
ArtifactIsNumbered ==
  /\ todo \in Seq(Value) /\ path \in [Source -> Texts]
  /\ \A p \in placed : \E v \in Value : p = <<v, assigned[v]>> /\ assigned[v] # 0
  /\ pc = "place" => \A v \in ValuesOf(Line) : assigned[v] # 0 \/ v \in ValuesOf(todo)

NameInv == LogsAreRead /\ NumbersTellApart /\ ArtifactIsNumbered

(* Token keeps the numbers apart and never renumbers (redact.rs:288-303).  *)
LEMMA TokenTellsApart ==
  ASSUME NumbersTellApart, NEW v \in Value, Token(v)
  PROVE  /\ NumbersTellApart'
         /\ assigned'[v] # 0
         /\ \A w \in Value : assigned[w] # 0 => assigned'[w] = assigned[w]
<1> USE DEF NumbersTellApart, RedactorTypeOK, redactor
<1>1. v.cat \in Category /\ \A w \in Value : w.cat \in Category
  BY RedactorAssumption
<1>2. CASE assigned[v] # 0
  BY <1>2 DEF Token
<1>3. CASE assigned[v] = 0
  <2>1. /\ next' = [next EXCEPT ![v.cat] = next[v.cat] + 1]
        /\ assigned' = [assigned EXCEPT ![v] = next[v.cat] + 1]
    BY <1>3 DEF Token
  <2>2. RedactorTypeOK'
    BY <1>1, <2>1
  <2>3. \A w \in Value : assigned'[w] <= next'[w.cat]
    BY <1>1, <2>1
  <2>4. ASSUME NEW w \in Value, NEW u \in Value, w.cat = u.cat,
               assigned'[w] = assigned'[u], assigned'[w] # 0
        PROVE  w = u
    <3>1. \A x \in Value : x.cat = v.cat => assigned[x] < next[v.cat] + 1
      BY <1>1
    <3> QED
      BY <1>1, <2>1, <2>4, <3>1
  <2> QED
    BY <1>3, <2>1, <2>2, <2>3, <2>4
<1> QED
  BY <1>2, <1>3

LEMMA InitName == Init => NameInv
<1> SUFFICES ASSUME Init
    PROVE  NameInv
  OBVIOUS
<1>1. LogsAreRead
  BY SourcesAssumption DEF Init, StreamInit, LogsAreRead, StreamTypeOK, Source
<1>2. NumbersTellApart
  BY RedactorAssumption DEF Init, RedactorInit, NumbersTellApart, RedactorTypeOK
<1>3. ArtifactIsNumbered
  BY DEF Init, ArtifactIsNumbered
<1> QED
  BY <1>1, <1>2, <1>3 DEF NameInv

(* redact_line numbers a value of the text in hand.                        *)
LEMMA RedactName ==
  ASSUME NameInv, Redact
  PROVE  NameInv'
<1> DEFINE v == Head(todo)
<1>1. /\ v \in Value /\ todo' \in Seq(Value)
      /\ \A w \in ValuesOf(todo) : w = v \/ w \in ValuesOf(todo')
  <2>1. todo \in Seq(Value) /\ todo # <<>> /\ todo' = Tail(todo)
    BY DEF Redact, NameInv, ArtifactIsNumbered
  <2>2. /\ v \in Value /\ v = todo[1] /\ todo' \in Seq(Value)
        /\ \A i \in DOMAIN todo : i # 1 => i - 1 \in DOMAIN todo' /\ todo'[i - 1] = todo[i]
    BY <2>1
  <2> HIDE DEF v
  <2> QED
    BY <2>2 DEF ValuesOf
<1>2. /\ Token(v)
      /\ placed' = IF pc = "place" THEN placed ELSE placed \cup {<<v, assigned'[v]>>}
      /\ UNCHANGED <<path, pc, turn, log, taken, fed, handed, finished>>
  BY DEF Redact, readVars, streamVars
<1>3. /\ NumbersTellApart' /\ assigned'[v] # 0
      /\ \A w \in Value : assigned[w] # 0 => assigned'[w] = assigned[w]
  BY <1>1, <1>2, TokenTellsApart DEF NameInv
<1>4. LogsAreRead'
  BY <1>2 DEF NameInv, LogsAreRead, StreamTypeOK
<1> HIDE DEF v
<1>5. ASSUME NEW p \in placed'
      PROVE  \E w \in Value : p = <<w, assigned'[w]>> /\ assigned'[w] # 0
  BY <1>1, <1>2, <1>3, <1>5 DEF NameInv, ArtifactIsNumbered
<1>6. ASSUME pc = "place", NEW w \in ValuesOf(Line)
      PROVE  assigned'[w] # 0 \/ w \in ValuesOf(todo')
  <2>1. ValuesOf(Line) \subseteq Value
    <3>1. handed[turn] \in 1..taken[turn]
      BY <1>6 DEF NameInv, LogsAreRead, StreamTypeOK
    <3>2. Line \in Texts
      BY <3>1 DEF NameInv, LogsAreRead, Line
    <3>3. Line \in Seq(Value)
      BY <3>2, DumpAssumption
    <3> QED
      BY <3>3 DEF ValuesOf
  <2> QED
    BY <1>1, <1>3, <1>6, <2>1 DEF NameInv, ArtifactIsNumbered
<1>7. ArtifactIsNumbered'
  BY <1>1, <1>2, <1>5, <1>6 DEF NameInv, ArtifactIsNumbered, Line
<1> QED
  BY <1>3, <1>4, <1>7 DEF NameInv

(* A step that puts nothing in hand and nothing into the artifact.         *)
LEMMA QuietName ==
  ASSUME NameInv, LogsAreRead', UNCHANGED <<path, todo, placed, redactor>>,
         pc' = "place" => pc = "place" /\ UNCHANGED <<turn, log, handed>>
  PROVE  NameInv'
<1>1. NumbersTellApart'
  BY DEF NameInv, NumbersTellApart, RedactorTypeOK, redactor
<1>2. ArtifactIsNumbered'
  BY DEF NameInv, ArtifactIsNumbered, redactor, Line
<1> QED
  BY <1>1, <1>2 DEF NameInv

(* Neither does a step that leaves the logs alone.                         *)
LEMMA LogsStayRead ==
  ASSUME LogsAreRead, UNCHANGED <<log, taken, fed, handed>>,
         finished' \in [Source -> BOOLEAN], turn' \in Source,
         pc' = "place" => pc = "place" /\ UNCHANGED turn
  PROVE  LogsAreRead'
BY DEF LogsAreRead, StreamTypeOK

(* read_sources, source by source (dump.rs:185-326).                       *)
LEMMA ReadingName ==
  ASSUME NameInv, Start \/ Spawn \/ ReadLine \/ ReadEnd \/ Kill \/ Wait
  PROVE  NameInv'
<1> USE DEF Goto, streamVars
<1>1. UNCHANGED <<path, todo, placed, redactor>> /\ pc' # "place"
  BY DEF Start, Spawn, ReadLine, ReadEnd, Kill, Wait, Unread, WasRead, NextSource, bodyVars
<1>2. /\ N \in Nat /\ turn \in 1..N /\ finished \in [Source -> BOOLEAN]
      /\ (IF turn < N THEN turn + 1 ELSE turn) \in Source
  BY SourcesAssumption DEF NameInv, LogsAreRead, StreamTypeOK, Source
<1>3. turn' \in Source
  BY <1>2
  DEF Start, Spawn, ReadLine, ReadEnd, Kill, Wait, Unread, WasRead, NextSource, Source
<1>4. CASE Start \/ Spawn \/ Kill \/ Wait
  <2>1. UNCHANGED <<log, taken, fed, handed, finished>>
    BY <1>4 DEF Start, Spawn, Kill, Wait, readVars
  <2> QED
    BY <1>1, <1>2, <1>3, <2>1, LogsStayRead, QuietName DEF NameInv
<1>5. CASE ReadEnd
  <2>1. UNCHANGED <<log, taken, fed, handed>> /\ finished' \in [Source -> BOOLEAN]
    BY <1>2, <1>5 DEF ReadEnd, FinishSource, readVars
  <2> QED
    BY <1>1, <1>3, <2>1, LogsStayRead, QuietName DEF NameInv
<1>6. CASE ReadLine
  <2>1. CASE UNCHANGED taken
    <3>1. UNCHANGED <<log, taken, fed, handed, finished>>
      <4>1. taken[turn] + 1 # taken[turn] /\ taken \in [Source -> Nat] /\ turn \in Source
        BY DEF NameInv, LogsAreRead
      <4> QED
        BY <1>6, <2>1, <4>1 DEF ReadLine
    <3> QED
      BY <1>1, <1>2, <1>3, <3>1, LogsStayRead, QuietName DEF NameInv
  <2>2. CASE taken' # taken
    <3>1. /\ log[turn][taken[turn] + 1] # Garbled /\ taken[turn] < Len(log[turn])
          /\ taken' = [taken EXCEPT ![turn] = @ + 1]
          /\ FinishSource(turn) \/ Deliver(turn)
          /\ UNCHANGED log
      BY <1>6, <2>2 DEF ReadLine
    <3>2. log[turn][taken[turn] + 1] \in Texts
      BY <3>1 DEF NameInv, LogsAreRead
    <3>3. /\ fed' \in [Source -> Nat] /\ handed' = handed /\ finished' \in [Source -> BOOLEAN]
          /\ \A s \in Source : fed'[s] <= taken'[s] /\ fed[s] <= fed'[s]
      <4>1. /\ turn \in Source /\ fed \in [Source -> Nat] /\ taken \in [Source -> Nat]
            /\ finished \in [Source -> BOOLEAN] /\ \A s \in Source : fed[s] <= taken[s]
        BY DEF NameInv, LogsAreRead, StreamTypeOK
      <4>2. CASE FinishSource(turn)
        BY <3>1, <4>1, <4>2 DEF FinishSource
      <4>3. CASE Deliver(turn)
        BY <3>1, <4>1, <4>3 DEF Deliver
      <4> QED
        BY <3>1, <4>2, <4>3
    <3>4. /\ taken' \in [Source -> Nat]
          /\ \A s \in Source : /\ taken'[s] <= Len(log[s])
                               /\ \A k \in 1..taken'[s] : log[s][k] \in Texts
      BY <3>1, <3>2 DEF NameInv, LogsAreRead
    <3>5. \A s \in Source : handed'[s] <= fed'[s]
      BY <3>3 DEF NameInv, LogsAreRead, StreamTypeOK
    <3>6. LogsAreRead'
      BY <1>1, <1>3, <3>1, <3>3, <3>4, <3>5 DEF NameInv, LogsAreRead, StreamTypeOK
    <3> QED
      BY <1>1, <3>6, QuietName
  <2> QED
    BY <2>1, <2>2
<1> QED
  BY <1>4, <1>5, <1>6

(* A producer writes behind what has been read of it.                      *)
LEMMA ProducerName ==
  ASSUME NameInv, NEW s \in Source, Writes(s) \/ Blocks(s) \/ Exits(s)
  PROVE  NameInv'
<1> USE DEF flowVars, bodyVars, streamVars
<1>1. UNCHANGED <<path, pc, turn, todo, placed, redactor, taken, fed, handed, finished>>
  BY DEF Writes, Blocks, Exits, producerFrame
<1>2. CASE UNCHANGED log
  BY <1>1, <1>2, LogsStayRead, QuietName DEF NameInv, LogsAreRead, StreamTypeOK
<1>3. CASE Writes(s)
  <2>1. PICK line \in Texts \cup {Garbled} : log' = [log EXCEPT ![s] = Append(@, line)]
    BY <1>3 DEF Writes
  <2>2. /\ log' \in [Source -> Seq(Texts \cup {Garbled})]
        /\ \A t \in Source : /\ Len(log[t]) <= Len(log'[t])
                             /\ \A k \in 1..Len(log[t]) : log'[t][k] = log[t][k]
    BY <2>1 DEF NameInv, LogsAreRead
  <2>3. LogsAreRead'
    <3>1. /\ taken \in [Source -> Nat]
          /\ \A t \in Source : taken[t] <= Len(log[t]) /\ Len(log[t]) \in Nat /\ Len(log'[t]) \in Nat
      BY <2>2 DEF NameInv, LogsAreRead
    <3>2. \A t \in Source : /\ taken[t] <= Len(log'[t])
                           /\ \A k \in 1..taken[t] : log'[t][k] = log[t][k]
      BY <2>2, <3>1
    <3> QED
      BY <1>1, <2>2, <3>2 DEF NameInv, LogsAreRead, StreamTypeOK
  <2>4. pc' # "place"
    BY <1>1, <1>3 DEF Writes, Reading
  <2> QED
    BY <1>1, <2>3, <2>4, QuietName
<1> QED
  BY <1>2, <1>3 DEF Blocks, Exits, producerFrame

(* A text is put in hand: a header, a report, or the next line.            *)
LEMMA TextInHandName ==
  ASSUME NameInv, HeaderFields \/ DoctorReport \/ DrainLine
  PROVE  NameInv'
<1> USE DEF Goto, readVars, bodyVars, streamVars, redactor
<1>0. <<>> \in Seq(Value)
  OBVIOUS
<1>1. \A t \in Texts : t \in Seq(Value)
  BY DumpAssumption
<1>2. UNCHANGED <<path, placed, redactor, log, taken, fed, finished>>
  BY DEF HeaderFields, DoctorReport, DrainLine
<1>3. CASE HeaderFields
  <2>1. path[1] \in Seq(Value) /\ (N > 1 => path[2] \in Seq(Value))
    BY <1>1, SourcesAssumption DEF NameInv, ArtifactIsNumbered, Source
  <2>2. todo' \in Seq(Value)
    <3> DEFINE rest == IF N > 1 THEN path[2] ELSE <<>>
    <3>1. rest \in Seq(Value)
      BY <2>1
    <3>2. todo' = path[1] \o rest \/ todo' = <<>>
      BY <1>3 DEF HeaderFields
    <3> HIDE DEF rest
    <3>3. path[1] \o rest \in Seq(Value)
      BY <2>1, <3>1
    <3>4. CASE todo' = path[1] \o rest
      BY <3>3, <3>4
    <3>5. CASE todo' = <<>>
      BY <3>5, <1>0
    <3> QED
      BY <3>2, <3>4, <3>5
  <2>3. LogsAreRead'
    BY <1>2, <1>3 DEF HeaderFields, NameInv, LogsAreRead, StreamTypeOK
  <2> QED
    BY <1>2, <1>3, <2>2, <2>3
    DEF HeaderFields, NameInv, ArtifactIsNumbered, NumbersTellApart, RedactorTypeOK
<1>4. CASE DoctorReport
  <2>1. todo' \in Seq(Value)
    <3>1. todo' \in Texts \/ todo' = <<>>
      BY <1>4 DEF DoctorReport
    <3>2. CASE todo' \in Texts
      BY <1>1, <3>2
    <3>3. CASE todo' = <<>>
      BY <3>3, <1>0
    <3> QED
      BY <3>1, <3>2, <3>3
  <2>2. LogsAreRead'
    BY <1>2, <1>4 DEF DoctorReport, NameInv, LogsAreRead, StreamTypeOK
  <2> QED
    BY <1>2, <1>4, <2>1, <2>2
    DEF DoctorReport, NameInv, ArtifactIsNumbered, NumbersTellApart, RedactorTypeOK
<1>5. CASE DrainLine
  <2>1. PICK s \in Source :
          /\ handed[s] < fed[s]
          /\ handed' = [handed EXCEPT ![s] = @ + 1]
          /\ todo' = log[s][handed[s] + 1]
          /\ turn' = s
    BY <1>5 DEF DrainLine
  <2>2. /\ fed[s] \in Nat /\ handed \in [Source -> Nat] /\ taken[s] \in Nat
        /\ \A t \in Source : handed[t] <= fed[t]
        /\ fed[s] <= taken[s] /\ \A k \in 1..taken[s] : log[s][k] \in Texts
    BY DEF NameInv, LogsAreRead, StreamTypeOK
  <2>3. handed[s] + 1 \in 1..taken[s]
    BY <2>1, <2>2
  <2>4. todo' \in Seq(Value)
    BY <1>1, <2>1, <2>2, <2>3
  <2>5. handed' \in [Source -> Nat] /\ handed'[s] = handed[s] + 1 /\ \A t \in Source : handed'[t] <= fed[t]
    BY <2>1, <2>2
  <2>6. LogsAreRead'
    BY <1>2, <2>1, <2>2, <2>5 DEF NameInv, LogsAreRead, StreamTypeOK
  <2>7. todo' = Line'
    BY <1>2, <2>1, <2>5 DEF Line
  <2> QED
    BY <1>2, <2>4, <2>6, <2>7 DEF NameInv, ArtifactIsNumbered, NumbersTellApart, RedactorTypeOK
<1> QED
  BY <1>3, <1>4, <1>5

(* A line goes into the artifact once all of it is numbered.               *)
LEMMA PlaceLineName ==
  ASSUME NameInv, PlaceLine
  PROVE  NameInv'
<1> USE DEF Goto
<1>1. UNCHANGED <<path, todo, turn, log, taken, fed, handed, finished, assigned, next>> /\ pc' # "place"
  BY DEF PlaceLine, redactor, streamVars
<1>2. LogsAreRead' /\ NumbersTellApart'
  BY <1>1 DEF NameInv, LogsAreRead, StreamTypeOK, NumbersTellApart, RedactorTypeOK
<1>3. ValuesOf(Line) \subseteq Value
  <2>1. handed[turn] \in 1..taken[turn]
    BY DEF PlaceLine, NameInv, LogsAreRead, StreamTypeOK
  <2>2. Line \in Texts
    BY <2>1 DEF NameInv, LogsAreRead, Line
  <2>3. Line \in Seq(Value)
    BY <2>2, DumpAssumption
  <2> QED
    BY <2>3 DEF ValuesOf
<1>4. \A v \in ValuesOf(Line) : assigned[v] # 0
  BY DEF PlaceLine, NameInv, ArtifactIsNumbered, ValuesOf
<1>5. placed' \subseteq placed \cup {<<v, assigned[v]>> : v \in ValuesOf(Line)}
  BY DEF PlaceLine, Line
<1>6. ArtifactIsNumbered'
  BY <1>1, <1>3, <1>4, <1>5 DEF NameInv, ArtifactIsNumbered
<1> QED
  BY <1>2, <1>6 DEF NameInv

(* All that comes after the last line.                                     *)
LEMMA RestName ==
  ASSUME NameInv,
         \/ Body \/ Drained \/ Render \/ Write \/ Fill \/ Announce
         \/ CheckGistSize \/ ConfirmUpload \/ Upload \/ Fails \/ UNCHANGED vars
  PROVE  NameInv'
<1> USE DEF Goto, readVars, bodyVars, streamVars
<1>1. /\ UNCHANGED <<path, todo, placed, redactor, turn, log, taken, fed, handed, finished>>
      /\ pc' = "place" => pc = "place"
  BY DEF Body, Drained, Render, Write, Fill, Announce, CheckGistSize, ConfirmUpload, Upload, Fails,
         vars, flowVars
<1>2. finished' \in [Source -> BOOLEAN] /\ turn' \in Source
  BY <1>1 DEF NameInv, LogsAreRead, StreamTypeOK
<1> QED
  BY <1>1, <1>2, LogsStayRead, QuietName DEF NameInv

LEMMA NameInvariant == Spec => []NameInv
<1>1. ASSUME NameInv, [Next]_vars
      PROVE  NameInv'
  <2>1. ASSUME NEW s \in Source, Writes(s) \/ Blocks(s) \/ Exits(s)
        PROVE  NameInv'
    BY <1>1, <2>1, ProducerName
  <2> QED
    BY <1>1, <2>1, RedactName, ReadingName, TextInHandName, PlaceLineName, RestName DEF Next, Main
<1> QED
  BY <1>1, InitName, PTL DEF Spec

(* One placeholder for a value and one value for a placeholder, in header, *)
(* report and lines alike, in whatever order they come to the redactor     *)
(* (run_dump: one Redactor; redact.rs:288-303).                            *)
THEOREM OneName == Spec => []OneNameThroughout
<1>1. ASSUME NameInv
      PROVE  OneNameThroughout
  <2> SUFFICES ASSUME NEW p \in placed, NEW q \in placed, p[1].cat = q[1].cat
      PROVE  p[1] = q[1] <=> p[2] = q[2]
    BY DEF OneNameThroughout
  <2>1. PICK v \in Value : p = <<v, assigned[v]>> /\ assigned[v] # 0
    BY <1>1 DEF NameInv, ArtifactIsNumbered
  <2>2. PICK w \in Value : q = <<w, assigned[w]>> /\ assigned[w] # 0
    BY <1>1 DEF NameInv, ArtifactIsNumbered
  <2> QED
    BY <1>1, <2>1, <2>2 DEF NameInv, NumbersTellApart
<1> QED
  BY <1>1, NameInvariant, PTL

-----------------------------------------------------------------------------
(* The steps of run_dump: reading, placing what was read, and after the    *)
(* artifact is rendered.                                                   *)
Trying  == {"start", "header", "doctor", "spawn", "lines", "kill", "wait"}
Placing == {"body", "drain", "place", "render"}
Leaving == {"write", "fill", "announce"} \cup Uploading

Noted(s) == \E why \in Why : <<s, why>> \in notes
Truncated == <<None, "truncated">> \in notes

(* A source is named in a note, or was read to its end.                    *)
Accounted(s) ==
  Noted(s) \/ (s \in read /\ producer[s] = "succeeded" /\ fed[s] = Len(log[s]))

(* A text is in hand only where run_dump redacts, and the summary is taken *)
(* once that is over.                                                      *)
FlowInv ==
  /\ pc \in Trying \cup Placing \cup Leaving \cup Final
  /\ todo # <<>> => pc \in {"doctor", "spawn", "place"}
  /\ summary # None => summary = Summary /\ pc \in Leaving \cup Final
  /\ pc \in Leaving \cup {"done"} => summary # None

(* Sources are tried in their order; those behind are accounted for, and   *)
(* of the one in hand and those ahead nothing has been dropped.            *)
SourceInv ==
  /\ pc \in Trying =>
       /\ \A s \in Source : s < turn => Accounted(s)
       /\ \A s \in Source : (s > turn \/ (s = turn /\ pc # "kill")) => fed[s] = taken[s]
  /\ pc = "wait" => taken[turn] = Len(log[turn]) /\ producer[turn] \notin Running
  /\ pc \in Placing \/ summary # None => \A s \in Source : Accounted(s)
  /\ pc = "failed" /\ summary = None =>
       \/ asked.gist /\ (asked.token = "missing" \/ asked.output = "-")
       \/ read = {} /\ \A s \in Source : Noted(s)

(* The body shows what came out of the merger but for the line in hand,    *)
(* and in the end all of it.                                               *)
ShownInv ==
  ~Truncated =>
    /\ \A s \in Source : handed[s] = shown[s] + (IF pc = "place" /\ s = turn THEN 1 ELSE 0)
    /\ pc = "render" \/ summary # None => handed = fed

(* A value that has a number is in the artifact or in the line in hand,    *)
(* and a category that is counted has a value.                             *)
NamedInv ==
  /\ \A c \in Category : next[c] # 0 => \E v \in Value : v.cat = c /\ assigned[v] # 0
  /\ pc = "place" => ValuesOf(todo) \subseteq ValuesOf(Line)
  /\ ~Truncated => \A v \in Value :
       assigned[v] # 0 => (\E p \in placed : p[1] = v) \/ (pc = "place" /\ v \in ValuesOf(Line))

(* The rest of the types.                                                  *)
DumpInv ==
  /\ producer \in [Source -> Producer]
  /\ notes \subseteq (Source \cup {None}) \X Why /\ read \subseteq Source
  /\ shown \in [Source -> Nat]
  /\ file \in {"old", "partial", "whole"} /\ stdout \subseteq {"artifact", "path", "url"}
  /\ approved \in BOOLEAN /\ gist \in {None, "gist", "lost"}
  /\ FlowInv /\ SourceInv /\ ShownInv /\ NamedInv

(* The summary is a pair of numbers.                                       *)
LEMMA SummaryIsCounted ==
  ASSUME NameInv, NamedInv
  PROVE  Summary \in [values : Nat, categories : Nat] /\ Summary # None
<1> DEFINE numbered == {v \in Value : assigned[v] # 0}
           counted  == {c \in Category : next[c] # 0}
           category == [v \in numbered |-> v.cat]
<1>1. IsFiniteSet(numbered) /\ Cardinality(numbered) \in Nat
  BY RedactorAssumption, FS_Subset, FS_CardinalityType
<1>2. category \in Surjection(numbered, counted)
  <2>1. \A v \in numbered : v.cat \in counted
    BY RedactorAssumption DEF NameInv, NumbersTellApart, RedactorTypeOK
  <2>2. \A c \in counted : \E v \in numbered : category[v] = c
    BY DEF NamedInv
  <2> QED
    BY <2>1, <2>2 DEF Surjection
<1>3. IsFiniteSet(counted) /\ Cardinality(counted) \in Nat
  BY <1>1, <1>2, FS_Surjection, FS_CardinalityType
<1> QED
  BY <1>1, <1>3, DumpAssumption DEF Summary

LEMMA InitDump == Init => DumpInv
<1> SUFFICES ASSUME Init
    PROVE  DumpInv
  OBVIOUS
<1>1. FlowInv /\ SourceInv
  BY SourcesAssumption DEF Init, StreamInit, FlowInv, SourceInv, Trying, Placing, Leaving, Uploading, Source
<1>2. ShownInv /\ NamedInv
  BY RedactorAssumption DEF Init, StreamInit, RedactorInit, ShownInv, NamedInv
<1> QED
  BY <1>1, <1>2 DEF Init, DumpInv, Producer

(* A source that is accounted for stays so: nothing of it changes any more *)
(* but that a producer which never succeeded may go on.                    *)
LEMMA AccountedStays ==
  ASSUME NEW s \in Source, Accounted(s), notes \subseteq notes', read \subseteq read',
         UNCHANGED <<log[s], fed[s]>>, producer[s] = "succeeded" => producer'[s] = "succeeded"
  PROVE  Accounted(s)'
BY DEF Accounted, Noted

(* read_sources goes on behind a source that is accounted for              *)
(* (read_sources).                                                         *)
LEMMA NextSourceAccounts ==
  ASSUME NEW here \in Source, turn = here, NextSource, summary' = None,
         Accounted(here)', \A s \in Source : s < turn => Accounted(s)',
         \A s \in Source : s > turn => fed'[s] = taken'[s]
  PROVE  SourceInv'
<1>1. N \in Nat /\ Source = 1..N /\ \A s \in Source : s <= turn => Accounted(s)'
  BY SourcesAssumption DEF Source
<1>2. CASE turn < N
  <2>1. turn' = turn + 1 /\ pc' = "spawn"
    BY <1>2 DEF NextSource, Goto
  <2> QED
    BY <1>1, <2>1 DEF SourceInv, Trying, Placing
<1>3. CASE ~(turn < N)
  <2>1. turn' = turn /\ pc' = IF read' = {} THEN "failed" ELSE "body"
    BY <1>3 DEF NextSource, Goto
  <2>2. \A s \in Source : Accounted(s)'
    BY <1>1, <1>3
  <2>3. read' = {} => \A s \in Source : Noted(s)'
    BY <2>2 DEF Accounted
  <2> QED
    BY <2>1, <2>2, <2>3 DEF SourceInv, Trying, Placing
<1> QED
  BY <1>2, <1>3

(* A source is spawned, or a note says why not (read_source).              *)
LEMMA SpawnAccounts ==
  ASSUME NameInv, DumpInv, Spawn
  PROVE  SourceInv'
<1>0. PICK here \in Source : turn = here
  BY DEF NameInv, LogsAreRead
<1>1. /\ turn \in Source /\ summary' = None /\ UNCHANGED <<log, fed, taken>> /\ pc = "spawn"
      /\ producer \in [Source -> Producer]
      /\ \A s \in Source : s < turn => Accounted(s)
      /\ \A s \in Source : (s > turn \/ s = turn) => fed[s] = taken[s]
  BY DEF NameInv, LogsAreRead, DumpInv, FlowInv, SourceInv, Spawn, streamVars, Trying, Leaving,
         Uploading, Final
<1>2. CASE \E why \in Why : Unread(turn, why) /\ UNCHANGED producer
  <2>1. /\ NextSource /\ notes \subseteq notes' /\ read' = read /\ producer' = producer
        /\ Noted(here)'
    BY <1>0, <1>2 DEF Unread, Noted
  <2>2. \A s \in Source : s < turn => Accounted(s)'
    BY <1>1, <2>1, AccountedStays
  <2> QED
    BY <1>1, <2>1, <2>2, <1>0, NextSourceAccounts DEF Accounted, Source
<1>3. CASE /\ producer' = [producer EXCEPT ![turn] = "running"] /\ pc' = "lines"
           /\ UNCHANGED <<turn, notes, read>>
  <2>1. \A s \in Source : s < turn => Accounted(s)'
    <3> SUFFICES ASSUME NEW s \in Source, s < turn
        PROVE  Accounted(s)'
      OBVIOUS
    <3>1. producer'[s] = producer[s]
      BY <1>1, <1>3 DEF Source
    <3> QED
      BY <1>1, <1>3, <3>1, AccountedStays
  <2> QED
    BY <1>1, <1>3, <2>1 DEF SourceInv, Trying, Placing
<1> QED
  BY <1>2, <1>3 DEF Spawn, Goto, Why

(* read_capped takes a line, gives the source up or comes to the cap       *)
(* (read_capped).                                                          *)
LEMMA ReadLineAccounts ==
  ASSUME NameInv, DumpInv, ReadLine
  PROVE  SourceInv'
<1>0. PICK here \in Source : turn = here
  BY DEF NameInv, LogsAreRead
<1>1. /\ turn \in Source /\ summary' = None /\ UNCHANGED <<log, producer>> /\ pc = "lines"
      /\ fed \in [Source -> Nat] /\ taken \in [Source -> Nat]
      /\ \A s \in Source : s < turn => Accounted(s)
      /\ \A s \in Source : (s > turn \/ s = turn) => fed[s] = taken[s]
  BY DEF NameInv, LogsAreRead, StreamTypeOK, DumpInv, FlowInv, SourceInv, ReadLine, Trying,
         Leaving, Uploading, Final
<1>2. CASE Unread(turn, "unreadable") /\ UNCHANGED <<taken, streamVars>>
  <2>1. /\ NextSource /\ notes \subseteq notes' /\ read' = read /\ fed' = fed
        /\ Noted(here)'
    BY <1>0, <1>2 DEF Unread, Noted, Why, streamVars
  <2>2. \A s \in Source : s < turn => Accounted(s)'
    BY <1>1, <2>1, AccountedStays
  <2> QED
    BY <1>1, <1>2, <2>1, <2>2, <1>0, NextSourceAccounts DEF Accounted, Source
<1>3. CASE /\ taken' = [taken EXCEPT ![turn] = @ + 1]
           /\ \/ FinishSource(turn) /\ pc' = "kill"
              \/ Deliver(turn) /\ pc' = "lines"
           /\ UNCHANGED <<turn, notes, read>>
  <2>1. \A s \in Source : s # turn => fed'[s] = fed[s] /\ taken'[s] = taken[s]
    BY <1>1, <1>3 DEF FinishSource, Deliver
  <2>2. pc' # "kill" => fed'[turn] = taken'[turn]
    BY <1>1, <1>3 DEF Deliver, Source
  <2>3. \A s \in Source : s < turn => Accounted(s)'
    <3> SUFFICES ASSUME NEW s \in Source, s < turn
        PROVE  Accounted(s)'
      OBVIOUS
    <3>1. fed'[s] = fed[s]
      BY <1>1, <2>1 DEF Source
    <3> QED
      BY <1>1, <1>3, <3>1, AccountedStays
  <2>4. \A s \in Source : (s > turn \/ (s = turn /\ pc' # "kill")) => fed'[s] = taken'[s]
    BY <1>1, <2>1, <2>2 DEF Source
  <2>5. pc' \in {"kill", "lines"} /\ turn' = turn
    BY <1>3
  <2> QED
    BY <1>1, <2>3, <2>4, <2>5 DEF SourceInv, Trying, Placing
<1> QED
  BY <1>1, <1>2, <1>3 DEF ReadLine, Goto

(* The end of the log, the exit status and the cap (read_source).          *)
LEMMA SourceEndAccounts ==
  ASSUME NameInv, DumpInv, ReadEnd \/ Kill \/ Wait
  PROVE  SourceInv'
<1>0. PICK here \in Source : turn = here
  BY DEF NameInv, LogsAreRead
<1>1. /\ turn \in Source /\ summary' = None /\ UNCHANGED <<log, taken, fed>>
      /\ pc \in {"lines", "kill", "wait"} /\ producer \in [Source -> Producer]
      /\ notes \subseteq notes' /\ read \subseteq read'
      /\ \A s \in Source : s < turn => Accounted(s)
      /\ \A s \in Source : (s > turn \/ (s = turn /\ pc # "kill")) => fed[s] = taken[s]
  BY DEF NameInv, LogsAreRead, DumpInv, FlowInv, SourceInv, ReadEnd, Kill, Wait, Trying, Leaving,
         Uploading, Final, FinishSource, streamVars, readVars, bodyVars, WasRead, Unread
<1>2. \A s \in Source : s # turn => producer'[s] = producer[s]
  BY <1>1 DEF ReadEnd, Kill, Wait, readVars
<1>3. \A s \in Source : s < turn => Accounted(s)'
  <2> SUFFICES ASSUME NEW s \in Source, s < turn
      PROVE  Accounted(s)'
    OBVIOUS
  <2>1. s # turn
    BY <1>1 DEF Source
  <2> QED
    BY <1>1, <1>2, <2>1, AccountedStays
<1>4. CASE ReadEnd
  <2>1. /\ pc' = "wait" /\ UNCHANGED <<turn, producer>> /\ pc = "lines"
        /\ taken[turn] = Len(log[turn]) /\ producer[turn] \notin Running
    BY <1>4 DEF ReadEnd, Goto, readVars
  <2> QED
    BY <1>1, <1>3, <2>1 DEF SourceInv, Trying, Placing
<1>5. CASE Kill
  <2>1. Noted(here)' /\ NextSource
    BY <1>0, <1>5 DEF Kill, Noted, Why, WasRead
  <2>2. \A s \in Source : s > turn => fed'[s] = taken'[s]
    BY <1>1
  <2> QED
    BY <1>1, <1>3, <2>1, <2>2, <1>0, NextSourceAccounts DEF Accounted
<1>6. CASE Wait
  <2>1. pc = "wait" /\ NextSource /\ producer' = producer
    BY <1>6 DEF Wait, WasRead, Unread
  <2>2. Accounted(here)'
    <3>1. CASE producer[turn] = "succeeded"
      <4>1. here \in read'
        BY <1>0, <1>6, <3>1 DEF Wait, WasRead
      <4>2. fed[turn] = Len(log[turn])
        BY <1>1, <2>1 DEF DumpInv, SourceInv, Source
      <4> QED
        BY <1>0, <1>1, <2>1, <3>1, <4>1, <4>2 DEF Accounted
    <3>2. CASE producer[turn] # "succeeded"
      BY <1>0, <1>6, <3>2 DEF Wait, Unread, Accounted, Noted, Why
    <3> QED
      BY <3>1, <3>2
  <2>3. \A s \in Source : s > turn => fed'[s] = taken'[s]
    BY <1>1, <2>1 DEF Source
  <2> QED
    BY <1>1, <1>3, <2>1, <2>2, <2>3, <1>0, NextSourceAccounts
<1> QED
  BY <1>4, <1>5, <1>6

(* Nothing is shown while sources are tried: the other parts of the        *)
(* invariant only have to outlive the step (run_dump, read_sources).       *)
LEMMA ReadingDump ==
  ASSUME NameInv, NameInv', DumpInv,
         Start \/ HeaderFields \/ DoctorReport \/ Spawn \/ ReadLine \/ ReadEnd \/ Kill \/ Wait
  PROVE  DumpInv'
<1> USE DEF Goto, readVars, bodyVars, outVars, streamVars
<1>1. /\ UNCHANGED <<asked, shown, placed, summary, file, stdout, approved, gist, redactor, handed, log>>
      /\ pc \in Trying /\ pc' \in Trying \cup {"failed", "body"}
      /\ pc' \notin {"doctor", "spawn"} => todo' = todo /\ (pc = "spawn" => todo = <<>>)
  <2>1. /\ UNCHANGED <<asked, shown, placed, summary, file, stdout, approved, gist, redactor, handed, log>>
    BY DEF Start, HeaderFields, DoctorReport, Spawn, ReadLine, ReadEnd, Kill, Wait,
           Unread, WasRead, Deliver, FinishSource
  <2>2. pc \in Trying /\ pc' \in Trying \cup {"failed", "body"}
    BY DEF Start, HeaderFields, DoctorReport, Spawn, ReadLine, ReadEnd, Kill, Wait,
           Unread, WasRead, NextSource, Trying
  <2>3. pc' \notin {"doctor", "spawn"} => todo' = todo /\ (pc = "spawn" => todo = <<>>)
    BY DEF Start, HeaderFields, DoctorReport, Spawn, ReadLine, ReadEnd, Kill, Wait
  <2> QED
    BY <2>1, <2>2, <2>3
<1>2. summary = None
  BY <1>1 DEF DumpInv, FlowInv, Trying, Leaving, Uploading, Final
<1>3. turn \in Source
  BY DEF NameInv, LogsAreRead
<1>4. producer' \in [Source -> Producer]
  <2>1. producer \in [Source -> Producer]
    BY DEF DumpInv
  <2>2. producer' = producer \/ \E how \in Producer : producer' = [producer EXCEPT ![turn] = how]
    <3>1. CASE Kill
      <4>1. producer' = [producer EXCEPT ![turn] = "killed"] \/ producer' = producer
        BY <1>3, <2>1, <3>1 DEF Kill
      <4> QED
        BY <4>1 DEF Producer
    <3>2. CASE Start \/ HeaderFields \/ DoctorReport \/ Spawn \/ ReadLine \/ ReadEnd \/ Wait
      <4>1. producer' = producer \/ producer' = [producer EXCEPT ![turn] = "running"]
        BY <3>2 DEF Start, HeaderFields, DoctorReport, Spawn, ReadLine, ReadEnd, Wait
      <4> QED
        BY <4>1 DEF Producer, Running
    <3> QED
      BY <3>1, <3>2
  <2> QED
    BY <1>3, <2>1, <2>2
<1>5. notes' = notes \/ \E why \in Why : notes' = notes \cup {<<turn, why>>}
  BY DEF Start, HeaderFields, DoctorReport, Spawn, ReadLine, ReadEnd, Kill, Wait, Unread, Why
<1>6. read' = read \/ read' = read \cup {turn}
  BY DEF Start, HeaderFields, DoctorReport, Spawn, ReadLine, ReadEnd, Kill, Wait, Unread, WasRead
<1>7. notes' \subseteq (Source \cup {None}) \X Why /\ notes \subseteq notes' /\ read' \subseteq Source
  BY <1>3, <1>5, <1>6 DEF DumpInv
<1>8. FlowInv'
  <2>1. todo' # <<>> => pc' \in {"doctor", "spawn", "place"}
    <3>1. pc' \notin {"doctor", "spawn"} => pc # "doctor"
      BY DEF Start, HeaderFields, DoctorReport, Spawn, ReadLine, ReadEnd, Kill, Wait
    <3>2. pc \notin {"doctor", "spawn"} => todo = <<>>
      BY <1>1 DEF DumpInv, FlowInv, Trying
    <3> QED
      BY <1>1, <3>1, <3>2
  <2> QED
    BY <1>1, <1>2, <2>1 DEF FlowInv, Trying, Placing, Leaving, Uploading, Final
<1>9. SourceInv'
  <2>1. CASE Start
    <3>1. /\ UNCHANGED <<turn, taken, fed, producer, notes, read>> /\ pc = "start"
          /\ \/ pc' = "header"
             \/ pc' = "failed" /\ asked.gist /\ (asked.token = "missing" \/ asked.output = "-")
      BY <2>1 DEF Start
    <3> QED
      BY <1>1, <1>2, <3>1 DEF DumpInv, SourceInv, Accounted, Noted, Trying, Placing
  <2>2. CASE HeaderFields \/ DoctorReport
    <3>1. /\ UNCHANGED <<turn, taken, fed, producer, notes, read>>
          /\ pc \in {"header", "doctor"} /\ pc' \in {"doctor", "spawn"}
      BY <2>2 DEF HeaderFields, DoctorReport
    <3> QED
      BY <1>1, <1>2, <3>1 DEF DumpInv, SourceInv, Accounted, Noted, Trying, Placing
  <2> QED
    BY <2>1, <2>2, SpawnAccounts, ReadLineAccounts, SourceEndAccounts
<1>10. ShownInv' /\ NamedInv'
  <2>1. Truncated => Truncated'
    BY <1>7 DEF Truncated
  <2>2. pc # "place" /\ pc' \notin {"place", "render"}
    BY <1>1 DEF Trying
  <2> QED
    BY <1>1, <1>2, <2>1, <2>2 DEF DumpInv, ShownInv, NamedInv, redactor
<1> QED
  BY <1>1, <1>4, <1>7, <1>8, <1>9, <1>10 DEF DumpInv

(* What a source is to be accounted for does not change behind the reading.*)
LEMMA AllStayAccounted ==
  ASSUME DumpInv, FlowInv', pc \in Placing \/ summary # None, pc' \notin Trying,
         pc' = "failed" => summary' # None,
         UNCHANGED <<producer, log, fed, read>>, notes \subseteq notes'
  PROVE  SourceInv'
<1>1. \A s \in Source : Accounted(s)'
  BY AccountedStays DEF DumpInv, SourceInv
<1> QED
  BY <1>1 DEF SourceInv, Trying

(* The body and the lines in it (dump.rs, read_sources).                   *)
LEMMA PlacingDump ==
  ASSUME NameInv, NameInv', DumpInv, Body \/ DrainLine \/ PlaceLine \/ Drained \/ Render
  PROVE  DumpInv'
<1> USE DEF Goto, readVars, bodyVars, outVars, streamVars
<1>1. /\ UNCHANGED <<asked, file, stdout, approved, gist, redactor, producer, log, fed, read>>
      /\ pc \in Placing /\ pc' \in Placing \cup {"write"}
      /\ pc' # "write" => UNCHANGED summary
  BY DEF Body, DrainLine, PlaceLine, Drained, Render, Placing
<1>2. summary = None /\ (pc # "place" => todo = <<>>)
  BY <1>1 DEF DumpInv, FlowInv, Placing, Leaving, Uploading, Final
<1>3. \/ notes' = notes
      \/ Body /\ notes' = notes \cup {<<None, "skew">>}
      \/ PlaceLine /\ notes' = notes \cup {<<None, "truncated">>}
  BY DEF Body, DrainLine, PlaceLine, Drained, Render
<1>4. notes' \subseteq (Source \cup {None}) \X Why /\ notes \subseteq notes'
  <2>1. notes' = notes \/ \E why \in Why : notes' = notes \cup {<<None, why>>}
    BY <1>3 DEF Why
  <2> QED
    BY <2>1 DEF DumpInv
<1>5. /\ turn \in Source /\ handed \in [Source -> Nat] /\ shown \in [Source -> Nat]
      /\ assigned \in [Value -> Nat]
  BY DEF NameInv, LogsAreRead, StreamTypeOK, DumpInv, NumbersTellApart, RedactorTypeOK
<1>6. FlowInv'
  <2>1. CASE Render
    <3>1. pc' = "write" /\ summary' = Summary' /\ todo' = <<>>
      BY <1>2, <2>1 DEF Render, Summary, redactor
    <3>2. Summary' = Summary
      BY <1>1 DEF Summary, redactor
    <3> QED
      BY <3>1, <3>2, SummaryIsCounted DEF DumpInv, FlowInv, Leaving
  <2>2. CASE Body \/ DrainLine \/ PlaceLine \/ Drained
    <3>1. pc' \in Placing /\ (todo' # <<>> => pc' = "place") /\ summary' = None
      BY <1>2, <2>2 DEF Body, DrainLine, PlaceLine, Drained, Placing
    <3> QED
      BY <3>1 DEF FlowInv, Placing, Leaving, Uploading
  <2> QED
    BY <2>1, <2>2
<1>7. SourceInv'
  <2>1. pc' \notin Trying /\ pc' # "failed"
    BY <1>1 DEF Placing, Trying
  <2> QED
    BY <1>1, <1>4, <1>6, <2>1, AllStayAccounted
<1>8. ShownInv' /\ NamedInv' /\ shown' \in [Source -> Nat]
  <2>1. CASE Body
    <3>1. /\ UNCHANGED <<turn, handed, shown, placed, summary>> /\ pc = "body" /\ pc' = "drain"
          /\ Truncated' = Truncated
      BY <1>3, <2>1 DEF Body, PlaceLine, Truncated
    <3> QED
      BY <1>1, <1>2, <1>5, <3>1 DEF DumpInv, ShownInv, NamedInv, redactor
  <2>2. CASE DrainLine
    <3>1. PICK s \in Source :
            /\ handed' = [handed EXCEPT ![s] = @ + 1]
            /\ todo' = log[s][handed[s] + 1]
            /\ turn' = s
      BY <2>2 DEF DrainLine
    <3>2. /\ UNCHANGED <<notes, shown, placed, summary>> /\ pc = "drain" /\ pc' = "place"
      BY <2>2 DEF DrainLine
    <3>3. ~Truncated' => ~Truncated /\ \A x \in Source : handed[x] = shown[x]
      BY <3>2 DEF DumpInv, ShownInv, Truncated
    <3>4. ShownInv'
      BY <1>2, <1>5, <3>1, <3>2, <3>3 DEF ShownInv
    <3>5. todo' = Line'
      BY <1>1, <1>5, <3>1 DEF Line
    <3>6. NamedInv'
      BY <1>1, <3>2, <3>3, <3>5 DEF DumpInv, NamedInv, redactor
    <3> QED
      BY <1>5, <3>2, <3>4, <3>6
  <2>3. CASE PlaceLine
    <3>1. pc = "place" /\ todo = <<>> /\ UNCHANGED <<turn, handed, log, summary>>
      BY <2>3 DEF PlaceLine
    <3>2. CASE pc' = "render"
      <4>1. Truncated' /\ UNCHANGED <<shown, placed>>
        BY <2>3, <3>2 DEF PlaceLine, Truncated
      <4> QED
        BY <1>1, <1>5, <3>2, <4>1 DEF DumpInv, ShownInv, NamedInv, redactor
    <3>3. CASE pc' = "drain"
      <4>1. /\ shown' = [shown EXCEPT ![turn] = @ + 1] /\ notes' = notes
            /\ placed' = placed \cup {<<v, assigned[v]>> : v \in ValuesOf(Line)}
        BY <2>3, <3>3 DEF PlaceLine, Line
      <4>2. shown' \in [Source -> Nat] /\ Truncated' = Truncated
        BY <1>5, <4>1 DEF Truncated
      <4>3. ShownInv'
        BY <1>2, <1>5, <3>1, <3>3, <4>1, <4>2 DEF DumpInv, ShownInv
      <4>4. ASSUME ~Truncated, NEW v \in Value, assigned[v] # 0
            PROVE  \E q \in placed' : q[1] = v
        <5>1. CASE \E q \in placed : q[1] = v
          BY <4>1, <5>1
        <5>2. CASE v \in ValuesOf(Line)
          <6>1. <<v, assigned[v]>> \in placed'
            BY <4>1, <5>2
          <6> QED
            BY <6>1
        <5> QED
          BY <4>4, <5>1, <5>2 DEF DumpInv, NamedInv
      <4>5. NamedInv'
        BY <1>1, <3>3, <4>2, <4>4 DEF DumpInv, NamedInv, redactor
      <4> QED
        BY <4>2, <4>3, <4>5
    <3> QED
      BY <2>3, <3>2, <3>3 DEF PlaceLine
  <2>4. CASE Drained
    <3>1. /\ UNCHANGED <<turn, handed, shown, placed, notes, summary>>
          /\ pc = "drain" /\ pc' = "render" /\ handed = fed
      BY <2>4 DEF Drained
    <3> QED
      BY <1>1, <1>5, <3>1 DEF DumpInv, ShownInv, NamedInv, Truncated, redactor
  <2>5. CASE Render
    <3>1. UNCHANGED <<turn, handed, shown, placed, notes>> /\ pc = "render" /\ pc' = "write"
      BY <2>5 DEF Render
    <3> QED
      BY <1>1, <1>5, <3>1 DEF DumpInv, ShownInv, NamedInv, Truncated, redactor
  <2> QED
    BY <2>1, <2>2, <2>3, <2>4, <2>5
<1> QED
  BY <1>1, <1>4, <1>6, <1>7, <1>8 DEF DumpInv

(* From the file to the gist the artifact is what it is (run_dump).        *)
LEMMA LeavingDump ==
  ASSUME NameInv, DumpInv,
         Write \/ Fill \/ Announce \/ CheckGistSize \/ ConfirmUpload \/ Upload \/ Fails
  PROVE  DumpInv'
<1> USE DEF Goto, readVars, bodyVars, outVars, streamVars, redactor
<1>1. /\ UNCHANGED <<asked, todo, turn, producer, log, notes, read, shown, placed, summary, assigned,
                     next, fed, handed>>
      /\ pc \in Leaving /\ pc' \in Leaving \cup Final
  BY DEF Write, Fill, Announce, CheckGistSize, ConfirmUpload, Upload, Fails, Leaving, Uploading, Final
<1>2. summary # None /\ todo = <<>> /\ pc # "place" /\ pc' \notin {"place", "render"} \cup Trying
  BY <1>1 DEF DumpInv, FlowInv, Leaving, Uploading, Final, Trying
<1>3. /\ file' \in {"old", "partial", "whole"} /\ stdout' \subseteq {"artifact", "path", "url"}
      /\ approved' \in BOOLEAN /\ gist' \in {None, "gist", "lost"}
  <2>1. /\ file' \in {file, "partial", "whole"} /\ stdout' \subseteq stdout \cup {"artifact", "path", "url"}
        /\ gist' \in {gist, None, "gist", "lost"}
    BY DEF Write, Fill, Announce, CheckGistSize, ConfirmUpload, Upload, Fails
  <2>2. approved' = approved \/ approved' \in BOOLEAN
    BY DEF Write, Fill, Announce, CheckGistSize, ConfirmUpload, Upload, Fails
  <2> QED
    BY <2>1, <2>2 DEF DumpInv
<1>4. FlowInv'
  BY <1>1, <1>2 DEF DumpInv, FlowInv, Summary
<1>5. SourceInv'
  BY <1>1, <1>2, <1>4, AllStayAccounted
<1>6. ShownInv' /\ NamedInv'
  BY <1>1, <1>2 DEF DumpInv, ShownInv, NamedInv, Truncated
<1> QED
  BY <1>1, <1>3, <1>4, <1>5, <1>6 DEF DumpInv

(* redact_line numbers a value: it is in the artifact then, or in the line *)
(* in hand (redact.rs, Redactor::token).                                   *)
LEMMA RedactDump ==
  ASSUME NameInv, NameInv', DumpInv, Redact
  PROVE  DumpInv'
<1> DEFINE v == Head(todo)
<1>1. /\ UNCHANGED <<asked, pc, turn, producer, log, taken, notes, read, shown, summary,
                     file, stdout, approved, gist, fed, handed>>
      /\ Token(v) /\ todo # <<>> /\ todo' = Tail(todo)
      /\ placed' = IF pc = "place" THEN placed ELSE placed \cup {<<v, assigned'[v]>>}
  BY DEF Redact, readVars, outVars, streamVars
<1>2. /\ v \in Value /\ v \in ValuesOf(todo) /\ ValuesOf(todo') \subseteq ValuesOf(todo)
  <2>1. todo \in Seq(Value) /\ todo # <<>> /\ todo' = Tail(todo)
    BY <1>1 DEF NameInv, ArtifactIsNumbered
  <2>2. /\ v = todo[1] /\ 1 \in DOMAIN todo /\ v \in Value
        /\ \A i \in DOMAIN todo' : i + 1 \in DOMAIN todo /\ todo'[i] = todo[i + 1]
    BY <2>1
  <2> HIDE DEF v
  <2> QED
    BY <2>2 DEF ValuesOf
<1>3. /\ assigned'[v] # 0
      /\ \A w \in Value : assigned[w] # 0 => assigned'[w] = assigned[w]
      /\ \A w \in Value : w # v => assigned'[w] = assigned[w]
      /\ \A c \in Category : next'[c] # next[c] => c = v.cat
  <2>1. /\ assigned'[v] # 0
        /\ \A w \in Value : assigned[w] # 0 => assigned'[w] = assigned[w]
    BY <1>1, <1>2, TokenTellsApart DEF NameInv
  <2>2. /\ \A w \in Value : w # v => assigned'[w] = assigned[w]
        /\ \A c \in Category : next'[c] # next[c] => c = v.cat
    <3>1. assigned \in [Value -> Nat] /\ next \in [Category -> Nat]
      BY DEF NameInv, NumbersTellApart, RedactorTypeOK
    <3> HIDE DEF v
    <3> QED
      BY <1>1, <1>2, <3>1 DEF Token, redactor
  <2> QED
    BY <2>1, <2>2
<1> HIDE DEF v
<1>4. pc \in {"doctor", "spawn", "place"} /\ summary = None
  BY <1>1 DEF DumpInv, FlowInv, Leaving, Uploading, Final
<1>5. FlowInv'
  BY <1>1, <1>4 DEF DumpInv, FlowInv, Leaving
<1>6. SourceInv' /\ ShownInv'
  BY <1>1 DEF DumpInv, SourceInv, ShownInv, Accounted, Noted, Truncated
<1>7. NamedInv'
  <2>1. \A c \in Category : next'[c] # 0 => \E w \in Value : w.cat = c /\ assigned'[w] # 0
    <3> SUFFICES ASSUME NEW c \in Category, next'[c] # 0
        PROVE  \E w \in Value : w.cat = c /\ assigned'[w] # 0
      OBVIOUS
    <3>1. CASE c = v.cat
      BY <1>2, <1>3, <3>1
    <3>2. CASE next'[c] = next[c]
      BY <1>3, <3>2 DEF DumpInv, NamedInv
    <3> QED
      BY <1>3, <3>1, <3>2
  <2>2. pc' = "place" => ValuesOf(todo') \subseteq ValuesOf(Line')
    BY <1>1, <1>2 DEF DumpInv, NamedInv, Line
  <2>3. ASSUME ~Truncated', NEW w \in Value, assigned'[w] # 0
        PROVE  (\E q \in placed' : q[1] = w) \/ (pc' = "place" /\ w \in ValuesOf(Line'))
    <3>1. ~Truncated /\ Line' = Line
      BY <1>1, <2>3 DEF Truncated, Line
    <3>2. CASE w = v
      <4>1. CASE pc = "place"
        BY <1>1, <1>2, <3>1, <3>2, <4>1 DEF DumpInv, NamedInv
      <4>2. CASE pc # "place"
        <5>1. <<v, assigned'[v]>> \in placed'
          BY <1>1, <4>2
        <5> QED
          BY <3>2, <5>1
      <4> QED
        BY <4>1, <4>2
    <3>3. CASE w # v
      <4>1. assigned[w] # 0
        BY <1>3, <2>3, <3>3
      <4>2. placed \subseteq placed'
        BY <1>1
      <4> QED
        BY <1>1, <3>1, <4>1, <4>2 DEF DumpInv, NamedInv
    <3> QED
      BY <3>2, <3>3
  <2> QED
    BY <2>1, <2>2, <2>3 DEF NamedInv
<1> QED
  BY <1>1, <1>5, <1>6, <1>7 DEF DumpInv

(* A producer that is read no more changes nothing that counts: its log    *)
(* ends with the reading, and one that ended well is gone (read_source).   *)
LEMMA ProducerDump ==
  ASSUME NameInv, DumpInv, NEW s \in Source, Writes(s) \/ Blocks(s) \/ Exits(s)
  PROVE  DumpInv'
<1>1. UNCHANGED <<asked, pc, todo, turn, taken, notes, read, shown, placed, summary, assigned, next,
                  file, stdout, approved, gist, fed, handed>>
  BY DEF Writes, Blocks, Exits, producerFrame, flowVars, bodyVars, outVars, redactor, streamVars
<1>2. /\ producer[s] \in Running
      /\ producer \in [Source -> Producer] /\ log \in [Source -> Seq(Texts \cup {Garbled})]
      /\ \E how \in Producer : producer' = [producer EXCEPT ![s] = how]
  BY DEF Writes, Blocks, Exits, Running, Producer, DumpInv, NameInv, LogsAreRead
<1>3. \/ UNCHANGED log
      \/ turn = s /\ pc = "lines" /\ \A t \in Source : t # s => log'[t] = log[t]
  BY <1>2 DEF Writes, Blocks, Exits, Reading, producerFrame
<1>4. producer' \in [Source -> Producer] /\ \A t \in Source : t # s => producer'[t] = producer[t]
  BY <1>2
<1>5. pc # "lines" /\ producer'[s] \in Running => pc # "wait" \/ turn # s
  BY <1>2 DEF DumpInv, SourceInv
<1>6. ASSUME NEW t \in Source, Accounted(t), t # s \/ log' = log
      PROVE  Accounted(t)'
  <2>1. log'[t] = log[t]
    BY <1>3, <1>6
  <2>2. producer[t] = "succeeded" => producer'[t] = "succeeded"
    BY <1>2, <1>4 DEF Running
  <2> QED
    BY <1>1, <1>6, <2>1, <2>2, AccountedStays
<1>7. SourceInv'
  <2>1. pc = "lines" => turn \in Source /\ \A t \in Source : t < turn => Accounted(t)'
    <3>1. turn \in Source /\ (pc = "lines" => \A t \in Source : t < turn => Accounted(t))
      BY DEF NameInv, LogsAreRead, DumpInv, SourceInv, Trying
    <3>2. \A t \in Source : t < turn /\ t = s => turn # s
      BY <3>1 DEF Source
    <3> QED
      BY <1>3, <1>6, <3>1, <3>2
  <2>2. CASE pc = "lines"
    <3>1. summary = None
      BY <2>2 DEF DumpInv, FlowInv, Leaving, Uploading, Final
    <3> QED
      BY <1>1, <2>1, <2>2, <3>1 DEF DumpInv, SourceInv, Trying, Placing
  <2>3. CASE pc # "lines"
    <3>1. log' = log
      BY <1>3, <2>3
    <3>2. pc = "wait" => producer'[turn] \notin Running
      <4>1. pc = "wait" => turn # s
        BY <1>2 DEF DumpInv, SourceInv
      <4> QED
        BY <1>4, <4>1 DEF DumpInv, SourceInv, NameInv, LogsAreRead
    <3>3. \A t \in Source : Accounted(t) => Accounted(t)'
      BY <1>6, <3>1
    <3> QED
      BY <1>1, <3>1, <3>2, <3>3 DEF DumpInv, SourceInv, Noted
  <2> QED
    BY <2>2, <2>3
<1>8. FlowInv' /\ ShownInv'
  BY <1>1 DEF DumpInv, FlowInv, ShownInv, Truncated, Summary
<1>9. NamedInv'
  <2>1. pc = "place" => Line' = Line
    BY <1>1, <1>3 DEF Line
  <2> QED
    BY <1>1, <2>1 DEF DumpInv, NamedInv, Truncated
<1> QED
  BY <1>1, <1>4, <1>7, <1>8, <1>9 DEF DumpInv

LEMMA DumpInvariant == Spec => []DumpInv
<1>1. ASSUME NameInv, NameInv', DumpInv, [Next]_vars
      PROVE  DumpInv'
  <2>1. ASSUME NEW s \in Source, Writes(s) \/ Blocks(s) \/ Exits(s)
        PROVE  DumpInv'
    BY <1>1, <2>1, ProducerDump
  <2>2. CASE UNCHANGED vars
    <3>1. UNCHANGED <<asked, pc, todo, turn, producer, log, taken, notes, read, shown, placed, summary,
                      assigned, next, file, stdout, approved, gist, fed, handed>>
      BY <2>2 DEF vars, flowVars, readVars, bodyVars, outVars, redactor, streamVars
    <3>2. FlowInv'
      BY <1>1, <3>1 DEF DumpInv, FlowInv, Summary
    <3>3. SourceInv'
      BY <1>1, <3>1 DEF DumpInv, SourceInv, Accounted, Noted
    <3>4. ShownInv' /\ NamedInv'
      BY <1>1, <3>1 DEF DumpInv, ShownInv, NamedInv, Truncated, Line
    <3> QED
      BY <1>1, <3>1, <3>2, <3>3, <3>4 DEF DumpInv
  <2> QED
    BY <1>1, <2>1, <2>2, ReadingDump, PlacingDump, LeavingDump, RedactDump DEF Next, Main
<1> QED
  BY <1>1, InitDump, NameInvariant, PTL DEF Spec

(* Of every source the artifact shows all of a log that ended well, or a   *)
(* note says why not; and no run fails for want of sources while one could *)
(* be read (read_sources).                                                 *)
THEOREM EverySourceCounts == Spec => []SourcesAreAccountedFor
<1>1. ASSUME NameInv, DumpInv
      PROVE  SourcesAreAccountedFor
  <2>1. ASSUME summary # None, NEW s \in Source, ~Truncated
        PROVE  \/ producer[s] = "succeeded" /\ shown[s] = Len(log[s])
               \/ \E why \in Why : <<s, why>> \in notes
    <3>1. Accounted(s) /\ pc # "place"
      BY <1>1, <2>1 DEF DumpInv, FlowInv, SourceInv, Leaving, Uploading, Final
    <3>2. handed[s] = fed[s] /\ shown[s] = handed[s]
      BY <1>1, <2>1, <3>1 DEF DumpInv, ShownInv
    <3> QED
      BY <3>1, <3>2 DEF Accounted, Noted
  <2>2. EverySourceIsAccountedFor
    BY <2>1 DEF EverySourceIsAccountedFor, Truncated
  <2>3. FailsOnlyWhenNothingWasRead
    BY <1>1 DEF DumpInv, SourceInv, FailsOnlyWhenNothingWasRead, Noted
  <2> QED
    BY <2>2, <2>3 DEF SourcesAreAccountedFor
<1> QED
  BY <1>1, NameInvariant, DumpInvariant, PTL

(* The artifact and its summary speak of the same values, each by one name *)
(* (run_dump).                                                             *)
THEOREM OneArtifact == Spec => []ArtifactIsConsistent
<1>1. ASSUME LeaveInv, NameInv, DumpInv
      PROVE  TypeOK
  <2>1. \A s \in Source : taken[s] \in 0..Len(log[s])
    BY <1>1 DEF NameInv, LogsAreRead
  <2>2. placed \subseteq Value \X (Nat \ {0})
    BY <1>1 DEF NameInv, ArtifactIsNumbered, NumbersTellApart, RedactorTypeOK
  <2> QED
    BY <1>1, <2>1, <2>2
    DEF TypeOK, LeaveInv, SizeIsKnown, ChecksGoAhead, NameInv, LogsAreRead, NumbersTellApart,
        ArtifactIsNumbered, DumpInv
<1>2. ASSUME NameInv, DumpInv
      PROVE  SummaryMatchesArtifact
  <2> SUFFICES ASSUME summary # None, ~Truncated
      PROVE  /\ summary.values = Cardinality({p[1] : p \in placed})
             /\ summary.categories = Cardinality({p[1].cat : p \in placed})
    BY DEF SummaryMatchesArtifact, Truncated
  <2>1. summary = Summary /\ pc # "place"
    BY <1>2 DEF DumpInv, FlowInv, Leaving, Uploading, Final
  <2>2. \A p \in placed : p[1] \in Value /\ assigned[p[1]] # 0
    BY <1>2 DEF NameInv, ArtifactIsNumbered
  <2>3. \A v \in Value : assigned[v] # 0 => \E p \in placed : p[1] = v
    BY <1>2, <2>1 DEF DumpInv, NamedInv
  <2>4. {p[1] : p \in placed} = {v \in Value : assigned[v] # 0}
    BY <2>2, <2>3
  <2>5. {p[1].cat : p \in placed} = {c \in Category : next[c] # 0}
    <3>1. \A v \in Value : v.cat \in Category /\ (assigned[v] # 0 => next[v.cat] # 0)
      BY <1>2, RedactorAssumption DEF NameInv, NumbersTellApart, RedactorTypeOK
    <3>2. \A c \in Category : next[c] # 0 => \E p \in placed : p[1].cat = c
      BY <1>2, <2>3 DEF DumpInv, NamedInv
    <3> QED
      BY <2>2, <3>1, <3>2
  <2> QED
    BY <2>1, <2>4, <2>5 DEF Summary
<1>3. LeaveInv /\ NameInv /\ DumpInv => TypeOK /\ SummaryMatchesArtifact
  BY <1>1, <1>2
<1>4. TypeOK /\ OneNameThroughout /\ SummaryMatchesArtifact => ArtifactIsConsistent
  BY DEF ArtifactIsConsistent
<1> QED
  BY <1>3, <1>4, LeaveInvariant, NameInvariant, DumpInvariant, OneName, PTL

=============================================================================
