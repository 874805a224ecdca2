-------------------------------- MODULE Dump --------------------------------
(***************************************************************************)
(* One `tekops dump-logs' (dump.rs: run_dump, read_sources, read_source;   *)
(* gist.rs: upload): each source's log is read to its end, merged, passed  *)
(* through one redactor with the header and the report of doctor, written  *)
(* and, if asked for, uploaded.                                            *)
(*                                                                         *)
(* The merger is LineStream.  A text is the sequence of the values in it   *)
(* that the redactor recognises.                                           *)
(*                                                                         *)
(* A definition that carries another's name and a suffix is that operation *)
(* with a slip in it, kept to show that the properties notice the slip.    *)
(*                                                                         *)
(* External: what producers write and how they exit, the node that doctor  *)
(* asks, the disk, GitHub and the operator.                                *)
(***************************************************************************)
EXTENDS LineStream, Redactor, Sequences

CONSTANTS Requests,         \* what may be asked of dump-logs
          Texts,            \* the texts that a line, a path or a report may be
          LINE, NOTE,       \* the bytes of a line and of a note
          MAX_DUMP_BYTES,
          MAX_GIST_BYTES,
          PIPE,             \* what a pipe holds, in lines
          MAX_LINES         \* bound: lines a producer writes

(* DumpConfig, and what the environment holds of a token. *)
Request == [gist : BOOLEAN, output : {"default", "file", "-"}, yes : BOOLEAN,
            header : BOOLEAN, doctor : BOOLEAN, token : {"missing", "malformed", "good"}]

ASSUME DumpAssumption ==
  /\ Requests \subseteq Request
  /\ Texts \subseteq Seq(Value)
  /\ {LINE, NOTE, MAX_DUMP_BYTES, MAX_GIST_BYTES, MAX_LINES} \subseteq Nat
  /\ PIPE \in Nat \ {0}
  /\ None \notin [values : Nat, categories : Nat]

Garbled == None         \* a line that is not UTF-8

VARIABLES asked,        \* the request
          path,         \* the text of each source's target
          pc,
          todo,         \* values of the text in hand still to be redacted
          turn          \* the source that is being read, or placed
VARIABLES producer,     \* each producer process
          log,          \* what each has written
          taken,        \* lines read_capped has taken of it
          notes,        \* the notes: <<source, why>>
          read          \* sources that were read
VARIABLES shown,        \* lines of each source in the body
          bytes,        \* of the body
          placed,       \* placeholders in the artifact: <<value, number>>
          summary       \* the summary that is printed
VARIABLES file,         \* the file at the destination
          stdout,       \* what has gone to stdout
          approved,     \* the operator's answer
          gist          \* what GitHub holds: None, "gist", or it may be "lost"

flowVars   == <<pc, todo, turn>>
readVars   == <<producer, log, taken, notes, read>>
bodyVars   == <<shown, bytes, placed, summary>>
outVars    == <<file, stdout, approved, gist>>
vars == <<asked, path, flowVars, readVars, bodyVars, outVars, redactor, streamVars>>

Running  == {"running", "blocked"}
Producer == Running \cup {"none", "succeeded", "failed", "killed"}
Why      == {"missing", "no producer", "unreadable", "failed", "capped", "skew", "truncated"}
Final    == {"done", "failed"}

Goto(step)  == pc' = step
ValuesOf(t) == {t[i] : i \in DOMAIN t}

-----------------------------------------------------------------------------
Init ==
  /\ asked \in Requests
  /\ path \in [Source -> Texts]
  /\ pc = "start" /\ todo = <<>> /\ turn = 1
  /\ producer = [s \in Source |-> "none"]
  /\ log = [s \in Source |-> <<>>]
  /\ taken = [s \in Source |-> 0]
  /\ notes = {} /\ read = {}
  /\ shown = [s \in Source |-> 0] /\ bytes = 0
  /\ placed = {} /\ summary = None
  /\ file = "old" /\ stdout = {} /\ approved = FALSE /\ gist = None
  /\ RedactorInit
  /\ StreamInit

Destination ==
  CASE asked.output = "-"       -> "stdout"
    [] asked.output = "file"    -> "file"
    [] asked.output = "default" -> IF asked.gist THEN "nowhere" ELSE "file"

(* read_token and destination, before anything is read. *)
Start_any_output ==
  /\ pc = "start"
  /\ Goto(IF asked.gist /\ asked.token = "missing" THEN "failed" ELSE "header")
  /\ UNCHANGED <<asked, path, todo, turn, readVars, bodyVars, outVars, redactor, streamVars>>
Start ==
  /\ pc = "start"
  /\ Goto(IF asked.gist /\ (asked.token = "missing" \/ asked.output = "-")
          THEN "failed" ELSE "header")
  /\ UNCHANGED <<asked, path, todo, turn, readVars, bodyVars, outVars, redactor, streamVars>>

(* redact_line, a value at a time: nothing else happens until the text in  *)
(* hand is through.  A line of a log is not in the artifact yet.           *)
Redact ==
  /\ todo # <<>>
  /\ Token(Head(todo))
  /\ todo' = Tail(todo)
  /\ placed' = IF pc = "place" THEN placed
               ELSE placed \cup {<<Head(todo), assigned'[Head(todo)]>>}
  /\ UNCHANGED <<asked, path, pc, turn, readVars, shown, bytes, summary, outVars, streamVars>>

(* sources_label names every target; the stack's name has no value in it.  *)
HeaderFields ==
  /\ pc = "header"
  /\ todo' = IF asked.header THEN path[1] \o (IF N > 1 THEN path[2] ELSE <<>>) ELSE <<>>
  /\ Goto("doctor")
  /\ UNCHANGED <<asked, path, turn, readVars, bodyVars, outVars, redactor, streamVars>>

(* Whatever doctor finds, it is text. *)
DoctorReport_own_redactor ==
  /\ pc = "doctor" /\ todo = <<>>
  /\ IF asked.doctor
     THEN /\ todo' \in Texts
          /\ assigned' = [v \in Value |-> 0] /\ next' = [c \in Category |-> 0]
     ELSE todo' = <<>> /\ UNCHANGED redactor
  /\ Goto("spawn")
  /\ UNCHANGED <<asked, path, turn, readVars, bodyVars, outVars, streamVars>>
DoctorReport ==
  /\ pc = "doctor" /\ todo = <<>>
  /\ IF asked.doctor THEN todo' \in Texts ELSE todo' = <<>>
  /\ Goto("spawn")
  /\ UNCHANGED <<asked, path, turn, readVars, bodyVars, outVars, redactor, streamVars>>

-----------------------------------------------------------------------------
(* A producer writes while its pipe has room and is blocked when it has    *)
(* none; one whose pipe is no longer read dies of it.                      *)
Reading(s) == turn = s /\ pc = "lines"
Full(s) == Len(log[s]) - taken[s] >= PIPE
producerFrame == <<asked, path, flowVars, taken, notes, read, bodyVars, outVars, redactor, streamVars>>

Writes(s) ==
  /\ producer[s] \in Running /\ Reading(s)
  /\ Len(log[s]) < MAX_LINES /\ ~Full(s)
  /\ \E line \in Texts \cup {Garbled} : log' = [log EXCEPT ![s] = Append(@, line)]
  /\ producer' = [producer EXCEPT ![s] = "running"]
  /\ UNCHANGED producerFrame

Blocks(s) ==
  /\ producer[s] = "running" /\ Reading(s)
  /\ Len(log[s]) < MAX_LINES /\ Full(s)
  /\ producer' = [producer EXCEPT ![s] = "blocked"]
  /\ UNCHANGED <<log, producerFrame>>

Exits(s) ==
  /\ \/ producer[s] = "running" /\ \E how \in {"succeeded", "failed"} : producer' = [producer EXCEPT ![s] = how]
     \/ producer[s] = "blocked" /\ ~Reading(s) /\ producer' = [producer EXCEPT ![s] = "failed"]
  /\ UNCHANGED <<log, producerFrame>>

(* read_sources: on to the next source, or out with the first failure.     *)
NextSource_past_the_last ==
  /\ turn' = turn + 1
  /\ Goto(IF turn < N THEN "spawn" ELSE IF read' = {} THEN "failed" ELSE "body")
NextSource_fails_fast ==
  /\ turn' = IF turn < N THEN turn + 1 ELSE turn
  /\ Goto(IF read' = {} THEN "failed" ELSE IF turn < N THEN "spawn" ELSE "body")
NextSource ==
  /\ turn' = IF turn < N THEN turn + 1 ELSE turn
  /\ Goto(IF turn < N THEN "spawn" ELSE IF read' = {} THEN "failed" ELSE "body")

(* The note of a source that failed quotes the error, and is not redacted. *)
Unread(s, why) ==
  /\ notes' = notes \cup {<<s, why>>}
  /\ UNCHANGED read
  /\ NextSource

WasRead(s) ==
  /\ read' = read \cup {s}
  /\ NextSource

Spawn ==
  /\ pc = "spawn" /\ todo = <<>>
  /\ \/ /\ \E why \in {"missing", "no producer"} : Unread(turn, why)
        /\ UNCHANGED producer
     \/ /\ producer' = [producer EXCEPT ![turn] = "running"]
        /\ Goto("lines")
        /\ UNCHANGED <<turn, notes, read>>
  /\ UNCHANGED <<asked, path, todo, log, taken, shown, bytes, placed, summary, outVars, redactor, streamVars>>

(* read_capped. An unreadable line ends the source then and there; the cap *)
(* closes the source and leaves the rest.                                  *)
ReadLine_after_the_exit ==
  /\ pc = "lines" /\ taken[turn] < Len(log[turn])
  /\ producer[turn] \notin Running
  /\ IF log[turn][taken[turn] + 1] = Garbled
     THEN Unread(turn, "unreadable") /\ UNCHANGED <<taken, streamVars>>
     ELSE /\ taken' = [taken EXCEPT ![turn] = @ + 1]
          /\ IF (taken[turn] + 1) * LINE > MAX_DUMP_BYTES
             THEN FinishSource(turn) /\ Goto("kill")
             ELSE Deliver(turn) /\ UNCHANGED pc
          /\ UNCHANGED <<turn, notes, read>>
  /\ UNCHANGED <<asked, path, todo, producer, log, shown, bytes, placed, summary, outVars, redactor>>
ReadLine ==
  /\ pc = "lines" /\ taken[turn] < Len(log[turn])
  /\ IF log[turn][taken[turn] + 1] = Garbled
     THEN Unread(turn, "unreadable") /\ UNCHANGED <<taken, streamVars>>
     ELSE /\ taken' = [taken EXCEPT ![turn] = @ + 1]
          /\ IF (taken[turn] + 1) * LINE > MAX_DUMP_BYTES
             THEN FinishSource(turn) /\ Goto("kill")
             ELSE Deliver(turn) /\ UNCHANGED pc
          /\ UNCHANGED <<turn, notes, read>>
  /\ UNCHANGED <<asked, path, todo, producer, log, shown, bytes, placed, summary, outVars, redactor>>

ReadEnd ==
  /\ pc = "lines" /\ taken[turn] = Len(log[turn]) /\ producer[turn] \notin Running
  /\ FinishSource(turn)
  /\ Goto("wait")
  /\ UNCHANGED <<asked, path, todo, turn, readVars, bodyVars, outVars, redactor>>

Kill ==
  /\ pc = "kill"
  /\ producer' = [producer EXCEPT ![turn] = IF @ \in Running THEN "killed" ELSE @]
  /\ notes' = notes \cup {<<turn, "capped">>}
  /\ WasRead(turn)
  /\ UNCHANGED <<asked, path, todo, log, taken, shown, bytes, placed, summary, outVars, redactor, streamVars>>

Wait_any_status ==
  /\ pc = "wait"
  /\ UNCHANGED notes
  /\ WasRead(turn)
  /\ UNCHANGED <<asked, path, todo, producer, log, taken, shown, bytes, placed, summary, outVars, redactor, streamVars>>
Wait ==
  /\ pc = "wait"
  /\ IF producer[turn] = "succeeded" THEN UNCHANGED notes /\ WasRead(turn)
     ELSE Unread(turn, "failed")
  /\ UNCHANGED <<asked, path, todo, producer, log, taken, shown, bytes, placed, summary, outVars, redactor, streamVars>>

-----------------------------------------------------------------------------
(* The notes come first; two sources may turn out to be skewed. *)
Body ==
  /\ pc = "body"
  /\ \/ UNCHANGED notes
     \/ /\ N > 1 /\ \A s \in Source : fed[s] > 0
        /\ notes' = notes \cup {<<None, "skew">>}
  /\ bytes' = NOTE * Cardinality(notes')
  /\ Goto("drain")
  /\ UNCHANGED <<asked, path, todo, turn, producer, log, taken, read, shown, placed, summary, outVars, redactor, streamVars>>

(* drain_all gives the next line of some source, which is redacted.        *)
DrainLine ==
  /\ pc = "drain"
  /\ \E s \in Source :
       /\ handed[s] < fed[s]
       /\ handed' = [handed EXCEPT ![s] = @ + 1]
       /\ todo' = log[s][handed[s] + 1]
       /\ turn' = s
  /\ Goto("place")
  /\ UNCHANGED <<asked, path, readVars, bodyVars, outVars, redactor, fed, finished>>

PlaceLine ==
  /\ pc = "place" /\ todo = <<>>
  /\ IF bytes + LINE > MAX_DUMP_BYTES
     THEN /\ notes' = notes \cup {<<None, "truncated">>}
          /\ bytes' = bytes + NOTE
          /\ Goto("render")
          /\ UNCHANGED <<shown, placed>>
     ELSE /\ shown' = [shown EXCEPT ![turn] = @ + 1]
          /\ bytes' = bytes + LINE
          /\ placed' = placed \cup {<<v, assigned[v]>> : v \in ValuesOf(log[turn][handed[turn]])}
          /\ Goto("drain")
          /\ UNCHANGED notes
  /\ UNCHANGED <<asked, path, todo, turn, producer, log, taken, read, summary, outVars, redactor, streamVars>>

Drained ==
  /\ pc = "drain" /\ handed = fed
  /\ Goto("render")
  /\ UNCHANGED <<asked, path, todo, turn, readVars, bodyVars, outVars, redactor, streamVars>>

Render ==
  /\ pc = "render"
  /\ summary' = Summary
  /\ Goto("write")
  /\ UNCHANGED <<asked, path, todo, turn, readVars, shown, bytes, placed, outVars, redactor, streamVars>>

(* The size of the artifact, the header and the report a note long each.   *)
Size == bytes + (IF asked.header THEN NOTE ELSE 0) + (IF asked.doctor THEN NOTE ELSE 0)

(* write_dump truncates and fills; a reader that leaves stdout early is no *)
(* failure.                                                                *)
Write ==
  /\ pc = "write"
  /\ \/ Destination = "file" /\ file' = "partial" /\ Goto("fill") /\ UNCHANGED stdout
     \/ Destination = "stdout" /\ stdout' = stdout \cup {"artifact"} /\ Goto("announce") /\ UNCHANGED file
     \/ Destination = "nowhere" /\ Goto("announce") /\ UNCHANGED <<file, stdout>>
  /\ UNCHANGED <<asked, path, todo, turn, readVars, bodyVars, approved, gist, redactor, streamVars>>

Fill ==
  /\ pc = "fill"
  /\ file' = "whole"
  /\ Goto("announce")
  /\ UNCHANGED <<asked, path, todo, turn, readVars, bodyVars, stdout, approved, gist, redactor, streamVars>>

Announce ==
  /\ pc = "announce"
  /\ stdout' = IF Destination = "file" THEN stdout \cup {"path"} ELSE stdout
  /\ Goto(IF asked.gist THEN "size" ELSE "done")
  /\ UNCHANGED <<asked, path, todo, turn, readVars, bodyVars, file, approved, gist, redactor, streamVars>>

CheckGistSize_of_the_body ==
  /\ pc = "size"
  /\ Goto(IF bytes > MAX_GIST_BYTES THEN "failed" ELSE IF asked.yes THEN "upload" ELSE "confirm")
  /\ UNCHANGED <<asked, path, todo, turn, readVars, bodyVars, outVars, redactor, streamVars>>
CheckGistSize ==
  /\ pc = "size"
  /\ Goto(IF Size > MAX_GIST_BYTES THEN "failed" ELSE IF asked.yes THEN "upload" ELSE "confirm")
  /\ UNCHANGED <<asked, path, todo, turn, readVars, bodyVars, outVars, redactor, streamVars>>

ConfirmUpload ==
  /\ pc = "confirm"
  /\ approved' \in BOOLEAN
  /\ Goto(IF approved' THEN "upload" ELSE "done")
  /\ UNCHANGED <<asked, path, todo, turn, readVars, bodyVars, file, stdout, gist, redactor, streamVars>>

(* upload: validate_token, then the post.  parse_gist_response: no answer, *)
(* or one that cannot be read, says nothing of what GitHub has done.       *)
Upload ==
  /\ pc = "upload"
  /\ IF asked.token = "malformed"
     THEN Goto("failed") /\ UNCHANGED <<gist, stdout>>
     ELSE \/ gist' = "gist" /\ stdout' = stdout \cup {"url"} /\ Goto("done")
          \/ gist' \in {None, "lost"} /\ Goto("failed") /\ UNCHANGED stdout
  /\ UNCHANGED <<asked, path, todo, turn, readVars, bodyVars, file, approved, redactor, streamVars>>

(* The disk, stdout or the terminal fails. *)
Fails ==
  /\ pc \in {"write", "fill", "confirm"}
  /\ Goto("failed")
  /\ UNCHANGED <<asked, path, todo, turn, readVars, bodyVars, outVars, redactor, streamVars>>

Main ==
  \/ Start \/ HeaderFields \/ DoctorReport \/ Redact
  \/ Spawn \/ ReadLine \/ ReadEnd \/ Kill \/ Wait
  \/ Body \/ DrainLine \/ PlaceLine \/ Drained \/ Render
  \/ Write \/ Fill \/ Announce \/ CheckGistSize \/ Upload

Next ==
  \/ Main
  \/ ConfirmUpload \/ Fails
  \/ \E s \in Source : Writes(s) \/ Blocks(s) \/ Exits(s)

Spec == Init /\ [][Next]_vars

(* dump-logs takes its steps, and a producer that does not follow goes on  *)
(* until it is done; the operator may leave the question unanswered.       *)
FairSpec ==
  /\ Spec
  /\ WF_vars(Main)
  /\ \A s \in Source : WF_vars(Writes(s) \/ Exits(s))

-----------------------------------------------------------------------------
(* The variables keep their types; of the redactor, StreamTypeOK and the   *)
(* sources in turn (run_dump).                                             *)
TypeOK ==
  /\ RedactorTypeOK /\ StreamTypeOK
  /\ asked \in Requests /\ path \in [Source -> Texts]
  /\ todo \in Seq(Value) /\ turn \in Source
  /\ producer \in [Source -> Producer]
  /\ log \in [Source -> Seq(Texts \cup {Garbled})]
  /\ \A s \in Source : taken[s] \in 0..Len(log[s])
  /\ notes \subseteq (Source \cup {None}) \X Why /\ read \subseteq Source
  /\ shown \in [Source -> Nat] /\ bytes \in Nat
  /\ placed \subseteq Value \X (Nat \ {0})
  /\ file \in {"old", "partial", "whole"} /\ stdout \subseteq {"artifact", "path", "url"}
  /\ approved \in BOOLEAN /\ gist \in {None, "gist", "lost"}

(* "Silently omitting half of a separated node would be worse than saying  *)
(* so" (read_sources): of each source the artifact shows every line of a   *)
(* producer that ended well, or a note tells the reader otherwise.         *)
EverySourceIsAccountedFor ==
  summary # None =>
    \A s \in Source :
      \/ producer[s] = "succeeded" /\ shown[s] = Len(log[s])
      \/ \E why \in Why : <<s, why>> \in notes
      \/ <<None, "truncated">> \in notes

(* "A source that cannot be read does not abort the dump when the other    *)
(* one works" (read_sources): before there is an artifact only a refused   *)
(* request fails, or a run in which every source was tried and failed.     *)
FailsOnlyWhenNothingWasRead ==
  pc = "failed" /\ summary = None =>
    \/ asked.gist /\ (asked.token = "missing" \/ asked.output = "-")
    \/ read = {} /\ \A s \in Source : \E why \in Why : <<s, why>> \in notes

(* What could be read is in the artifact and what could not is named in    *)
(* it, whichever source fails and how (read_sources).                      *)
SourcesAreAccountedFor ==
  /\ EverySourceIsAccountedFor
  /\ FailsOnlyWhenNothingWasRead

(* One redactor for the header, the report and every line (run_dump): in   *)
(* the artifact a value has one placeholder and a placeholder one value.   *)
OneNameThroughout ==
  \A p, q \in placed : p[1].cat = q[1].cat => (p[1] = q[1] <=> p[2] = q[2])

(* The summary counts the values the reader meets, unless the dump was     *)
(* truncated and the line left out had the last of them (Redactor's        *)
(* summary, read_sources).                                                 *)
SummaryMatchesArtifact ==
  summary # None /\ <<None, "truncated">> \notin notes =>
    /\ summary.values = Cardinality({p[1] : p \in placed})
    /\ summary.categories = Cardinality({p[1].cat : p \in placed})

(* Header, report, lines and summary of one artifact speak of the same     *)
(* values by the same names (run_dump).                                    *)
ArtifactIsConsistent ==
  /\ TypeOK
  /\ OneNameThroughout
  /\ SummaryMatchesArtifact

(* Nothing leaves the machine that the operator did not let go, that       *)
(* GitHub would cut short or that is not on the disk first when a file was *)
(* asked for (run_dump).                                                   *)
NothingIsUploadedUnasked ==
  gist # None =>
    /\ asked.gist /\ (asked.yes \/ approved) /\ asked.token = "good"
    /\ Size <= MAX_GIST_BYTES
    /\ Destination = "file" => file = "whole"

(* "`--gist` puts the URL alone on stdout so it can be piped, and the      *)
(* whole dump in front of it would defeat that" (destination).             *)
ArtifactAndUrlNeverMix == ~({"artifact", "url"} \subseteq stdout)

(* Where the artifact and the URL go is what was asked for and nothing     *)
(* else (run_dump, destination).                                           *)
NothingLeavesUnasked ==
  /\ NothingIsUploadedUnasked
  /\ ArtifactAndUrlNeverMix

(* "Reading the sources one after another cannot deadlock" (read_source):  *)
(* the run ends, or waits for the operator.                                *)
DumpEnds == <>(pc \in Final \cup {"confirm"})

=============================================================================
