------------------------------- MODULE Merger -------------------------------
(***************************************************************************)
(* Merger of merge.rs, as the threads of `tekops logs' drive it: readers   *)
(* push lines and report EOF, the emitter ticks, and the end of the        *)
(* session drains everything.  All of them hold the one mutex, so every    *)
(* call is atomic, except that the two drains are spread over one step per *)
(* record handed out: `phase' says that the emitter holds the lock.        *)
(*                                                                         *)
(* Instants are only ever compared with last_line, and only against the    *)
(* window, so a source's silence - now minus last_line, stopped at WINDOW  *)
(* - is kept in place of both.  It is read and written under the lock, so  *)
(* time passes while the lock is free.                                     *)
(*                                                                         *)
(* A definition that carries another's name and a suffix is that operation *)
(* with a slip in it, kept to show that the properties notice the slip.    *)
(***************************************************************************)
EXTENDS RecordBuilder, SkewWatch

CONSTANTS WINDOW,      \* MERGE_WINDOW, in steps of the clock
          Stamps,      \* the stamps a line may carry
          Arrivals,    \* the wall-clock times a line may arrive at
          MAX_LINES    \* bound: lines a source writes in one session

ASSUME MergerAssumption ==
  /\ WINDOW \in Nat \ {0}
  /\ Stamps \subseteq Stamp
  /\ Arrivals \subseteq Int
  /\ MAX_LINES \in Nat

VARIABLES builders,    \* Merger::builders
          queues,      \* Merger::queues
          silence,     \* now - Merger::last_line, at most WINDOW
          eof,         \* Merger::eof
          phase        \* who holds the lock: see Phase

(* History: what went in and what came out. *)
VARIABLES fed,         \* lines each source has delivered
          undated,     \* those delivered before the source's first stamp
          handed,      \* lines of each source handed to the emitter
          passed       \* times handed out past a source that was waited for

mergeVars   == <<builders, queues, silence, eof, phase>>
historyVars == <<fed, undated, handed, passed>>
vars == <<mergeVars, historyVars, skewVars>>

Line == Stamps \cup {None}

(* "open": the lock is free; "ready" and "all": the emitter is inside      *)
(* drain_ready or drain_all; "closed": the emitter has returned.           *)
Phase == {"open", "ready", "all", "closed"}

-----------------------------------------------------------------------------
(* The records a source has delivered and the emitter has not been handed. *)
Held(s) == queues[s] \o builders[s].pending

Silent(s) == silence[s] >= WINDOW

IsDone_eof_only == \A s \in Source : eof[s]
IsDone == \A s \in Source : eof[s] /\ queues[s] = <<>>

Heads == {s \in Source : queues[s] # <<>>}

(* earliest_head: s is the queue whose head is earliest, the source        *)
(* declared first on a tie.                                                *)
Earliest(s) ==
  /\ s \in Heads
  /\ \A t \in Heads : \/ Head(queues[s]).time < Head(queues[t]).time
                      \/ Head(queues[s]).time = Head(queues[t]).time /\ s <= t

(* next_index: nothing can still arrive that is older than the head of s. *)
Safe_wrong_source(s) ==
  \A t \in Source \ {s} : queues[t] # <<>> \/ eof[t] \/ Silent(s)
Safe(s) ==
  \A t \in Source \ {s} : queues[t] # <<>> \/ eof[t] \/ Silent(t)

(* Merger::flush_stale, Merger::eof and Merger::drain_all all finish the   *)
(* open records of some sources.                                           *)
Finish_dropping(S) ==
  /\ UNCHANGED queues
  /\ builders' = [s \in Source |-> IF s \in S THEN Finished(builders[s])
                                              ELSE builders[s]]
Finish_not_taking(S) ==
  /\ queues' = [s \in Source |-> IF s \in S THEN Held(s) ELSE queues[s]]
  /\ UNCHANGED builders
Finish(S) ==
  /\ queues' = [s \in Source |-> IF s \in S THEN Held(s) ELSE queues[s]]
  /\ builders' = [s \in Source |-> IF s \in S THEN Finished(builders[s])
                                              ELSE builders[s]]

(* Merger::take: hand the head of s to the emitter.  History: the sources  *)
(* in `waited' should not have anything older still to come.               *)
Take(s, waited) ==
  LET r == Head(queues[s])
  IN /\ queues' = [queues EXCEPT ![s] = Tail(@)]
     /\ handed' = [handed EXCEPT ![s] = @ + (r.last - r.first + 1)]
     /\ passed' = [t \in Source |-> IF t = s \/ t \in waited
                                    THEN passed[t] \cup {r.time}
                                    ELSE passed[t]]
     /\ UNCHANGED <<builders, silence, eof, phase, fed, undated>>

-----------------------------------------------------------------------------
Init ==
  /\ builders = [s \in Source |-> NewBuilder]
  /\ queues = [s \in Source |-> <<>>]
  /\ silence = [s \in Source |-> 0]
  /\ eof = [s \in Source |-> FALSE]
  /\ phase = "open"
  /\ fed = [s \in Source |-> 0]
  /\ undated = [s \in Source |-> 0]
  /\ handed = [s \in Source |-> 0]
  /\ passed = [s \in Source |-> {}]
  /\ SkewInit

(* Merger::push_line, called by the reader of source i. *)
PushLine(i, line, arrival) ==
  LET p == Pushed(builders[i], fed[i] + 1, line)
  IN /\ phase \in {"open", "closed"}
     /\ ~eof[i]
     /\ fed[i] < MAX_LINES
     /\ silence' = [silence EXCEPT ![i] = 0]
     /\ builders' = [builders EXCEPT ![i] = p.builder]
     /\ IF p.stampedAt = None THEN UNCHANGED skewVars
                              ELSE Observe(i, arrival - p.stampedAt)
     /\ queues' = [queues EXCEPT ![i] = @ \o p.completed]
     /\ fed' = [fed EXCEPT ![i] = @ + 1]
     /\ undated' = [undated EXCEPT ![i] =
                      IF p.builder.last = None THEN @ + 1 ELSE @]
     /\ UNCHANGED <<eof, phase, handed, passed>>

(* Merger::eof, called by the reader of source i as it returns. *)
Eof(i) ==
  /\ phase \in {"open", "closed"}
  /\ ~eof[i]
  /\ Finish({i})
  /\ eof' = [eof EXCEPT ![i] = TRUE]
  /\ UNCHANGED <<silence, phase, historyVars, skewVars>>

(* The emitter's tick: flush_stale, then drain_ready, then is_done and     *)
(* take_skew_note, all under one lock.                                     *)
Tick_flushing_all ==
  /\ phase = "open"
  /\ Finish(Source)
  /\ phase' = "ready"
  /\ UNCHANGED <<silence, eof, historyVars, skewVars>>
Tick_without_flush ==
  /\ phase = "open"
  /\ phase' = "ready"
  /\ UNCHANGED <<builders, queues, silence, eof, historyVars, skewVars>>
Tick ==
  /\ phase = "open"
  /\ Finish({s \in Source : Silent(s)})
  /\ phase' = "ready"
  /\ UNCHANGED <<silence, eof, historyVars, skewVars>>

DrainReady(s) ==
  /\ phase = "ready"
  /\ Earliest(s)
  /\ Safe(s)
  /\ Take(s, Heads \cup {t \in Source : ~Silent(t) /\ ~eof[t]})
  /\ UNCHANGED skewVars

TickDone ==
  /\ phase = "ready"
  /\ \A s \in Source : ~(Earliest(s) /\ Safe(s))
  /\ phase' = IF IsDone THEN "closed" ELSE "open"
  /\ TakeNote
  /\ UNCHANGED <<builders, queues, silence, eof, historyVars>>

(* The emitter's last turn: drain_all, whatever the readers are doing. *)
Stop ==
  /\ phase = "open"
  /\ Finish(Source)
  /\ phase' = "all"
  /\ UNCHANGED <<silence, eof, historyVars, skewVars>>

DrainAll(s) ==
  /\ phase = "all"
  /\ Earliest(s)
  /\ Take(s, Heads)
  /\ UNCHANGED skewVars

StopDone ==
  /\ phase = "all"
  /\ Heads = {}
  /\ phase' = "closed"
  /\ TakeNote
  /\ UNCHANGED <<builders, queues, silence, eof, historyVars>>

TimePasses ==
  /\ phase = "open"
  /\ silence' = [s \in Source |-> IF Silent(s) THEN WINDOW ELSE silence[s] + 1]
  /\ UNCHANGED <<builders, queues, eof, phase, historyVars, skewVars>>

Read == \/ \E i \in Source, line \in Line, arrival \in Arrivals :
             PushLine(i, line, arrival)
        \/ \E i \in Source : Eof(i)

Emit == \/ Tick
        \/ \E s \in Source : DrainReady(s)
        \/ TickDone

Teardown == \/ Stop
            \/ \E s \in Source : DrainAll(s)
            \/ StopDone

Next == Read \/ Emit \/ Teardown \/ TimePasses

(* The emitter ticks for as long as it runs, and sleeps with the lock free *)
(* between two ticks, so time passes however often it ticks.  A producer   *)
(* owes nothing: it may stop talking at any point, and the operator may    *)
(* never end the session.                                                  *)
Fairness == WF_vars(Emit) /\ SF_vars(TimePasses)

Spec == Init /\ [][Next]_vars
FairSpec == Spec /\ Fairness

-----------------------------------------------------------------------------
MergeTypeOK ==
  /\ builders \in [Source -> Builder]
  /\ queues \in [Source -> Seq(Record)]
  /\ silence \in [Source -> 0..WINDOW]
  /\ eof \in [Source -> BOOLEAN]
  /\ phase \in Phase

HistoryTypeOK ==
  /\ fed \in [Source -> Nat]
  /\ undated \in [Source -> Nat]
  /\ handed \in [Source -> Nat]
  /\ passed \in [Source -> SUBSET Int]

TypeOK == MergeTypeOK /\ HistoryTypeOK /\ SkewTypeOK

(* Records that cover the lines after `before' up to `newest', each        *)
(* starting where the one before it ended.                                 *)
Consecutive(H, before, newest) ==
  /\ \A k \in 1..Len(H) :
       /\ H[k].first = (IF k = 1 THEN before ELSE H[k - 1].last) + 1
       /\ H[k].first <= H[k].last
  /\ newest = IF H = <<>> THEN before ELSE H[Len(H)].last

(* Every line a source delivered is in exactly one place, and in order:    *)
(* those handed to the emitter come first, then the records of the queue,  *)
(* then the open record, and the last of them ends at the newest line.  No *)
(* interleaving of a flush, a drain, an EOF and a push loses, repeats or   *)
(* reorders a source's lines.                                              *)
NothingLostOrRepeated ==
  \A s \in Source : Consecutive(Held(s), handed[s], fed[s])

(* `dump' starts at 0 and `logs' at the wall clock.  A source can be       *)
(* placed by its own stamps when none of its lines went before the first   *)
(* one, or when such lines are placed no later than any stamp.             *)
StartsBeforeStamps ==
  \A stamp \in Stamps : stamp.kind = "absolute" => SESSION_START <= stamp.at

Placed(s) == undated[s] = 0 \/ StartsBeforeStamps

NonDecreasing(H) == \A j, k \in 1..Len(H) : j < k => H[j].time <= H[k].time

(* "Each source's own records are non-decreasing in time, ... so only the  *)
(* head of each queue matters" (merge.rs, doc of Merger), of the sources   *)
(* whose first line is dated: a flushed or a clamped record never lands    *)
(* behind a later one.                                                     *)
PlacedQueuesSorted == \A s \in Source : Placed(s) => NonDecreasing(Held(s))

(* The rule of the merge, over a whole session: whatever a source still    *)
(* holds or delivers later is no older than any record the emitter was     *)
(* handed while that source had a head to compare or was still waited for. *)
(* A record can only come out late behind a source that had been silent    *)
(* for the window, or had finished.                                        *)
NeverOvertaken ==
  \A s \in Source : Placed(s) =>
    \A time \in passed[s], k \in 1..Len(Held(s)) : time <= Held(s)[k].time

(* A stack trace is not torn apart while it is being written: as long as   *)
(* a source that stamps its lines has not been silent for the window, its  *)
(* record is open for the next line, and only the teardown closes it.      *)
BusySourceKeepsItsRecordOpen ==
  \A s \in Source :
    builders[s].last # None /\ ~Silent(s) /\ ~eof[s] /\ phase \in {"open", "ready"}
      => builders[s].pending # <<>>

(* "The builders need no check of their own" (merge.rs, doc of is_done):   *)
(* when the emitter leaves because is_done said so, every line that was    *)
(* ever delivered has been handed to it.                                   *)
DoneMeansEverythingShown == IsDone => handed = fed

(* Nothing waits forever: as long as the emitter ticks, a delivered line   *)
(* is handed to it, however quiet its own source and the others become -   *)
(* "a silent hang on a quiet node" (merge.rs, doc of Merger::new).         *)
EveryLineIsShown ==
  \A s \in Source : \A n \in 1..MAX_LINES :
    fed[s] >= n ~> (handed[s] >= n \/ phase \in {"all", "closed"})

(* The merger with its records, its clock and its window left out. *)
Stream == INSTANCE LineStream WITH finished <- eof

(* Whatever the window, the flush and the two drains do, the emitter sees  *)
(* each source as the plain first-in first-out stream of LineStream.       *)
ImplementsStream == Stream!StreamSpec

=============================================================================
