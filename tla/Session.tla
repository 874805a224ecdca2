------------------------------ MODULE Session ------------------------------
(***************************************************************************)
(* One `tekops logs' session (logs.rs: run_logs, emit_loop, emit_records,  *)
(* supervise_pager): the main thread starts a producer process for each    *)
(* source, a pager, one reader thread per producer and one emitter thread, *)
(* then waits for the pager and takes everything down again.               *)
(*                                                                         *)
(* The merger between the readers and the emitter is LineStream, which     *)
(* Merger implements: its lines come out in order, at moments this module  *)
(* leaves open.  Each locked section of a thread is one step.              *)
(*                                                                         *)
(* A definition that carries another's name and a suffix is that operation *)
(* with a slip in it, kept to show that the properties notice the slip.    *)
(*                                                                         *)
(* External: a producer writes lines when it likes and may exit by itself; *)
(* a line may be unreadable; a worker may panic; the operator quits the    *)
(* pager when he likes, or never.                                          *)
(***************************************************************************)
EXTENDS LineStream

CONSTANTS MAX_BUFFER,     \* MAX_BUFFER_BYTES, in lines
          PIPE,           \* what a pipe holds, in lines
          MAX_LINES,      \* bound: lines a producer writes
          MAY_PANIC       \* whether a worker thread may panic

ASSUME SessionAssumption ==
  /\ MAX_BUFFER \in Nat
  /\ PIPE \in Nat \ {0}
  /\ MAX_LINES \in Nat
  /\ MAY_PANIC \in BOOLEAN

VARIABLES main,        \* where the main thread is
          turn,        \* the source, or worker, its loop has come to
          result,      \* what run_logs returns: "ok" or the first failure
          producer,    \* each producer process
          produced,    \* lines each has written
          pipe,        \* lines in its stdout
          pager,       \* the process `less'
          reader,      \* each reader thread
          emitter,     \* the emitter thread
          stop,        \* the flag that ends the emitter
          poisoned,    \* a thread panicked while it held the merger's mutex
          last,        \* emit_loop: done || stopping, of this round
          batch,       \* lines taken from the merger and not yet written
          written,     \* lines in the pager's file
          capped       \* the cap was reached

mainVars    == <<main, turn, result, stop>>
processVars == <<producer, produced, pipe, pager>>
emitVars    == <<emitter, last, batch, written, capped>>
vars == <<mainVars, processVars, reader, emitVars, poisoned, streamVars>>

(* The states in which a thread has returned, or has panicked. *)
Ended == {"ok", "err", "panicked"}

Main == {"starting", "sink", "pager", "reopen", "launch",
         "waiting", "killing", "reaping", "joining",
         "aborting", "exited"}
Producer == {"none", "running", "killed", "exited", "reaped"}
Reader   == {"none", "reading", "pushing", "at_end", "failing"} \cup Ended
Emitter  == {"none", "polling", "locking", "writing"} \cup Ended

Alive   == main # "exited"
Started == {s \in Source : producer[s] # "none"}

(* Nothing will be written into this pipe any more. *)
Closed(s) == producer[s] \in {"exited", "reaped"}

(* Of all sources together. *)
Total(f) == LET sum[k \in 0..N] == IF k = 0 THEN 0 ELSE sum[k - 1] + f[k] IN sum[N]

-----------------------------------------------------------------------------
Init ==
  /\ StreamInit
  /\ main = "starting" /\ turn = 1 /\ result = "ok" /\ stop = FALSE
  /\ producer = [s \in Source |-> "none"]
  /\ produced = [s \in Source |-> 0]
  /\ pipe = [s \in Source |-> 0]
  /\ pager = "none"
  /\ reader = [s \in Source |-> "none"]
  /\ emitter = "none" /\ last = FALSE /\ batch = 0 /\ written = 0 /\ capped = FALSE
  /\ poisoned = FALSE

-----------------------------------------------------------------------------
(* The main thread, until the workers run. *)

Goto(place) == main' = place /\ turn' = 1 /\ UNCHANGED <<result, stop>>
Abort_leaving_them == main' = "exited" /\ turn' = 1 /\ result' = "err" /\ UNCHANGED stop
Abort == main' = "aborting" /\ turn' = 1 /\ result' = "err" /\ UNCHANGED stop

(* One source: it is a file that cannot be opened or a process that cannot *)
(* be spawned, or its producer runs from now on.                           *)
StartSource ==
  /\ main = "starting"
  /\ turn \in Source
  /\ \/ UNCHANGED producer
     \/ producer' = [producer EXCEPT ![turn] = "running"]
  /\ turn' = turn + 1
  /\ UNCHANGED <<main, result, stop, produced, pipe, pager, reader, emitVars,
                 poisoned, streamVars>>

SourcesTried ==
  /\ main = "starting"
  /\ turn \notin Source
  /\ IF Started = {} THEN Abort ELSE Goto("sink")
  /\ UNCHANGED <<processVars, reader, emitVars, poisoned, streamVars>>

MakeSink ==
  /\ main = "sink"
  /\ Goto("pager") \/ Abort
  /\ UNCHANGED <<processVars, reader, emitVars, poisoned, streamVars>>

SpawnPager ==
  /\ main = "pager"
  /\ \/ Goto("reopen") /\ pager' = "running"
     \/ Abort /\ UNCHANGED pager
  /\ UNCHANGED <<producer, produced, pipe, reader, emitVars, poisoned, streamVars>>

ReopenSink ==
  /\ main = "reopen"
  /\ \/ Goto("launch") /\ UNCHANGED pager
     \/ Abort /\ pager' = "exited"
  /\ UNCHANGED <<producer, produced, pipe, reader, emitVars, poisoned, streamVars>>

(* Merger::new, and one thread after another: none of them sees another    *)
(* thread's absence.                                                       *)
Launch ==
  /\ main = "launch"
  /\ Goto("waiting")
  /\ reader' = [s \in Source |-> IF s \in Started THEN "reading" ELSE "none"]
  /\ emitter' = "polling"
  /\ UNCHANGED <<processVars, last, batch, written, capped, poisoned, streamVars>>

-----------------------------------------------------------------------------
(* supervise_pager, and kill_all on the way out of a failed start. *)

PagerReturns ==
  /\ main = "waiting"
  /\ pager = "exited"
  /\ Goto("killing")
  /\ UNCHANGED <<processVars, reader, emitVars, poisoned, streamVars>>

Kill ==
  /\ main \in {"killing", "aborting"}
  /\ turn \in Source
  /\ producer' = [producer EXCEPT ![turn] = IF @ = "running" THEN "killed" ELSE @]
  /\ turn' = turn + 1
  /\ UNCHANGED <<main, result, stop, produced, pipe, pager, reader, emitVars,
                 poisoned, streamVars>>

AllKilled ==
  /\ main \in {"killing", "aborting"}
  /\ turn \notin Source
  /\ Goto(IF main = "killing" THEN "reaping" ELSE "exited")
  /\ UNCHANGED <<processVars, reader, emitVars, poisoned, streamVars>>

Reap ==
  /\ main = "reaping"
  /\ turn \in Source
  /\ producer[turn] \in {"none", "exited"}
  /\ producer' = [producer EXCEPT ![turn] = IF @ = "none" THEN @ ELSE "reaped"]
  /\ turn' = turn + 1
  /\ UNCHANGED <<main, result, stop, produced, pipe, pager, reader, emitVars,
                 poisoned, streamVars>>

SetStop_forgotten ==
  /\ main = "reaping"
  /\ turn \notin Source
  /\ Goto("joining")
  /\ UNCHANGED <<processVars, reader, emitVars, poisoned, streamVars>>
SetStop ==
  /\ main = "reaping"
  /\ turn \notin Source
  /\ main' = "joining" /\ turn' = 1 /\ stop' = TRUE
  /\ UNCHANGED <<result, processVars, reader, emitVars, poisoned, streamVars>>

(* The workers in the order they were spawned, the emitter last. *)
Worker(w) == IF w \in Source THEN reader[w] ELSE emitter

Join_last_wins ==
  /\ main = "joining"
  /\ turn <= N + 1
  /\ Worker(turn) \in Ended \cup {"none"}
  /\ result' = IF Worker(turn) \in {"err", "panicked"} THEN "err" ELSE "ok"
  /\ turn' = turn + 1
  /\ UNCHANGED <<main, stop, processVars, reader, emitVars, poisoned, streamVars>>
Join ==
  /\ main = "joining"
  /\ turn <= N + 1
  /\ Worker(turn) \in Ended \cup {"none"}
  /\ result' = IF result = "ok" /\ Worker(turn) \in {"err", "panicked"}
               THEN "err" ELSE result
  /\ turn' = turn + 1
  /\ UNCHANGED <<main, stop, processVars, reader, emitVars, poisoned, streamVars>>

Return ==
  /\ main = "joining"
  /\ turn > N + 1
  /\ Goto("exited")
  /\ UNCHANGED <<processVars, reader, emitVars, poisoned, streamVars>>

-----------------------------------------------------------------------------
(* The processes. *)

(* A producer blocks while its pipe is full, and is killed by the pipe     *)
(* when its reader has gone.                                               *)
ProducerWrites(s) ==
  /\ producer[s] = "running"
  /\ produced[s] < MAX_LINES
  /\ IF reader[s] \in Ended
     THEN /\ producer' = [producer EXCEPT ![s] = "exited"]
          /\ UNCHANGED <<produced, pipe>>
     ELSE /\ pipe[s] < PIPE
          /\ pipe' = [pipe EXCEPT ![s] = @ + 1]
          /\ produced' = [produced EXCEPT ![s] = @ + 1]
          /\ UNCHANGED producer
  /\ UNCHANGED <<mainVars, pager, reader, emitVars, poisoned, streamVars>>

(* By itself - `docker logs -f' ends with its container - or killed. *)
ProducerExits(s) ==
  /\ producer[s] \in {"running", "killed"}
  /\ producer' = [producer EXCEPT ![s] = "exited"]
  /\ UNCHANGED <<mainVars, produced, pipe, pager, reader, emitVars, poisoned, streamVars>>

PagerExits ==
  /\ pager = "running"
  /\ pager' = "exited"
  /\ UNCHANGED <<mainVars, producer, produced, pipe, reader, emitVars, poisoned, streamVars>>

-----------------------------------------------------------------------------
(* The reader thread of s. *)

(* read_line gives a line, an error, or the end of the pipe. *)
ReadLine(s) ==
  /\ Alive
  /\ reader[s] = "reading"
  /\ \/ /\ pipe[s] > 0
        /\ pipe' = [pipe EXCEPT ![s] = @ - 1]
        /\ \E next \in {"pushing", "failing"} : reader' = [reader EXCEPT ![s] = next]
     \/ /\ pipe[s] = 0 /\ Closed(s)
        /\ reader' = [reader EXCEPT ![s] = "at_end"]
        /\ UNCHANGED pipe
  /\ UNCHANGED <<mainVars, producer, produced, pager, emitVars, poisoned, streamVars>>

(* lock().expect(): a poisoned mutex panics every thread that comes to it. *)
Locked(s) == Alive /\ reader[s] \in {"pushing", "at_end", "failing"}

PoisonedReader(s) ==
  /\ Locked(s)
  /\ poisoned
  /\ reader' = [reader EXCEPT ![s] = "panicked"]
  /\ UNCHANGED <<mainVars, processVars, emitVars, poisoned, streamVars>>

PushLine(s) ==
  /\ Locked(s)
  /\ ~poisoned
  /\ reader[s] = "pushing"
  /\ reader' = [reader EXCEPT ![s] = "reading"]
  /\ Deliver(s)
  /\ UNCHANGED <<mainVars, processVars, emitVars, poisoned>>

(* EOF is recorded whether the pipe ended or a read failed. *)
RecordEof_at_end_only(s) ==
  /\ Locked(s)
  /\ ~poisoned
  /\ \/ /\ reader[s] = "at_end"
        /\ reader' = [reader EXCEPT ![s] = "ok"]
        /\ FinishSource(s)
     \/ /\ reader[s] = "failing"
        /\ reader' = [reader EXCEPT ![s] = "err"]
        /\ UNCHANGED streamVars
  /\ UNCHANGED <<mainVars, processVars, emitVars, poisoned>>
RecordEof(s) ==
  /\ Locked(s)
  /\ ~poisoned
  /\ reader[s] \in {"at_end", "failing"}
  /\ reader' = [reader EXCEPT ![s] = IF @ = "at_end" THEN "ok" ELSE "err"]
  /\ FinishSource(s)
  /\ UNCHANGED <<mainVars, processVars, emitVars, poisoned>>

(* A panic, while the mutex is held or not. *)
ReaderPanics(s) ==
  /\ MAY_PANIC
  /\ Locked(s)
  /\ reader' = [reader EXCEPT ![s] = "panicked"]
  /\ poisoned' \in {poisoned, TRUE}
  /\ UNCHANGED <<mainVars, processVars, emitVars, streamVars>>

-----------------------------------------------------------------------------
(* The emitter thread. *)

AllFinished_one_is_enough == \E s \in Started : finished[s]
AllFinished == \A s \in Started : finished[s]

Poll ==
  /\ Alive
  /\ emitter = "polling"
  /\ emitter' = "locking"
  /\ last' = stop
  /\ UNCHANGED <<mainVars, processVars, reader, batch, written, capped, poisoned, streamVars>>

(* drain_all when stopping, drain_ready otherwise: when no source is left  *)
(* to wait for, that drains everything too.  is_done is asked afterwards.  *)
TakeBatch ==
  /\ Alive
  /\ emitter = "locking"
  /\ ~poisoned
  /\ HandOut
  /\ last \/ AllFinished => handed' = fed
  /\ batch' = Total(handed') - Total(handed)
  /\ last' = (last \/ (AllFinished /\ handed' = fed))
  /\ emitter' = "writing"
  /\ UNCHANGED <<mainVars, processVars, reader, written, capped, poisoned>>

PoisonedEmitter ==
  /\ Alive
  /\ emitter = "locking"
  /\ poisoned
  /\ emitter' = "panicked"
  /\ UNCHANGED <<mainVars, processVars, reader, last, batch, written, capped,
                 poisoned, streamVars>>

(* emit_records, a line at a time.  At the cap the rest is dropped. *)
WriteLine_one_too_many ==
  /\ Alive
  /\ emitter = "writing"
  /\ batch > 0
  /\ IF written > MAX_BUFFER
     THEN /\ emitter' = "ok" /\ capped' = TRUE
          /\ UNCHANGED <<written, batch>>
     ELSE /\ written' = written + 1 /\ batch' = batch - 1
          /\ UNCHANGED <<emitter, capped>>
  /\ UNCHANGED <<mainVars, processVars, reader, last, poisoned, streamVars>>
WriteLine ==
  /\ Alive
  /\ emitter = "writing"
  /\ batch > 0
  /\ IF written + 1 > MAX_BUFFER
     THEN /\ emitter' = "ok" /\ capped' = TRUE
          /\ UNCHANGED <<written, batch>>
     ELSE /\ written' = written + 1 /\ batch' = batch - 1
          /\ UNCHANGED <<emitter, capped>>
  /\ UNCHANGED <<mainVars, processVars, reader, last, poisoned, streamVars>>

(* A record, the skew note or the notice of the cap cannot be written. *)
WriteFails ==
  /\ Alive
  /\ emitter = "writing"
  /\ emitter' = "err"
  /\ UNCHANGED <<mainVars, processVars, reader, last, batch, written, capped,
                 poisoned, streamVars>>

BatchWritten_early ==
  /\ Alive
  /\ emitter = "writing"
  /\ batch' = 0
  /\ emitter' = IF last THEN "ok" ELSE "polling"
  /\ UNCHANGED <<mainVars, processVars, reader, last, written, capped, poisoned, streamVars>>
BatchWritten ==
  /\ Alive
  /\ emitter = "writing"
  /\ batch = 0
  /\ emitter' = IF last THEN "ok" ELSE "polling"
  /\ UNCHANGED <<mainVars, processVars, reader, last, batch, written, capped,
                 poisoned, streamVars>>

(* While it holds the mutex, or while it formats what it took. *)
EmitterPanics ==
  /\ MAY_PANIC
  /\ Alive
  /\ emitter \in {"locking", "writing"}
  /\ emitter' = "panicked"
  /\ poisoned' \in {poisoned, poisoned \/ emitter = "locking"}
  /\ UNCHANGED <<mainVars, processVars, reader, last, batch, written, capped, streamVars>>

-----------------------------------------------------------------------------
MainStep ==
  \/ StartSource \/ SourcesTried \/ MakeSink \/ SpawnPager \/ ReopenSink \/ Launch
  \/ PagerReturns \/ Kill \/ AllKilled \/ Reap \/ SetStop \/ Join \/ Return

ReaderStep(s) == ReadLine(s) \/ PoisonedReader(s) \/ PushLine(s) \/ RecordEof(s)

EmitterStep == Poll \/ TakeBatch \/ PoisonedEmitter \/ WriteLine \/ WriteFails
                 \/ BatchWritten

Next ==
  \/ MainStep
  \/ EmitterStep \/ EmitterPanics
  \/ \E s \in Source : ReaderStep(s) \/ ReaderPanics(s)
  \/ \E s \in Source : ProducerWrites(s) \/ ProducerExits(s)
  \/ PagerExits

(* Every thread is scheduled, and a killed process dies.  A running one    *)
(* need not write or exit, and the operator need not quit.                 *)
Fairness ==
  /\ WF_vars(MainStep)
  /\ WF_vars(EmitterStep)
  /\ \A s \in Source : WF_vars(ReaderStep(s))
  /\ \A s \in Source : WF_vars(producer[s] = "killed" /\ ProducerExits(s))

Spec == Init /\ [][Next]_vars
FairSpec == Spec /\ Fairness

-----------------------------------------------------------------------------
TypeOK ==
  /\ StreamTypeOK
  /\ main \in Main /\ turn \in 1..(N + 2) /\ result \in {"ok", "err"}
  /\ stop \in BOOLEAN
  /\ producer \in [Source -> Producer]
  /\ produced \in [Source -> 0..MAX_LINES]
  /\ pipe \in [Source -> 0..PIPE]
  /\ pager \in {"none", "running", "exited"}
  /\ reader \in [Source -> Reader]
  /\ emitter \in Emitter
  /\ last \in BOOLEAN /\ batch \in Nat /\ written \in 0..MAX_BUFFER
  /\ capped \in BOOLEAN /\ poisoned \in BOOLEAN

(* The producers are out of Ctrl+C's reach in process groups of their own, *)
(* so a producer that outlives the session runs for ever.  Whatever fails, *)
(* at whatever point of the start or the teardown, none does; and once the *)
(* workers were running, they are all gone and every producer is reaped.   *)
NothingOutlivesTheSession ==
  main = "exited" => \A s \in Source :
    /\ producer[s] # "running"
    /\ emitter # "none" => /\ producer[s] \in {"none", "reaped"}
                           /\ reader[s] \in {"none"} \cup Ended
                           /\ emitter \in Ended

(* "The first failure wins, but every worker is still joined": the session *)
(* succeeds exactly if the emitter and every reader that ran succeeded.    *)
ResultIsThatOfTheWorkers ==
  main = "exited" =>
    (result = "ok" <=> emitter = "ok" /\ \A s \in Started : reader[s] = "ok")

(* Every line the merger gave up is in the pager's file or about to be,    *)
(* once: no batch is lost between two rounds, until the cap or an error.   *)
TakenIsWritten ==
  ~capped /\ emitter # "err" => written + batch = Total(handed)

(* A session whose sources all ended by themselves is shown to its end:    *)
(* the emitter does not leave before the last line of every source whose   *)
(* reader ended well.                                                      *)
NaturalEndIsComplete ==
  emitter = "ok" /\ ~capped /\ ~stop =>
    /\ written = Total(fed)
    /\ \A s \in Started : reader[s] = "ok" => fed[s] = produced[s]

(* No line is lost between the merger and the pager's file, neither while  *)
(* the session runs nor by an emitter that leaves too early, and the       *)
(* counters keep their bounds (emit_loop, write_all_capped).               *)
EverythingIsWritten ==
  /\ TypeOK
  /\ TakenIsWritten
  /\ NaturalEndIsComplete

(* Quitting the pager ends the session, however silent the producers are   *)
(* and whatever a worker blocks on or panics of: no join waits for ever.   *)
QuittingEndsTheSession == pager = "exited" ~> main = "exited"

(* Once every reader has returned, failed reads included, the emitter      *)
(* leaves as well, without the stop flag.                                  *)
EmitterEndsWithItsSources ==
  (main = "waiting" /\ \A s \in Started : reader[s] \in {"ok", "err"})
    ~> emitter \in Ended

=============================================================================
