# TLA+ models of tekops

tekops is a command line tool for people who run a Teku Ethereum node. The parts
that keep state, run threads and processes, or change files are modelled step by
step: `tekops logs`, which follows the logs of a beacon node and of a validator
client at once and shows them as one timeline; how it and `dump-logs` decide what
to read; `dump-logs`, which reads them once, redacts them and may upload them;
`tekops update`, which replaces the installed binary; and `tekops autocomplete`,
which edits the operator's rc files. `tekops doctor` and the commands that ask one
question are modelled against a node that changes while it is asked. The
conversions of text they rest on (redaction, the metrics page, log lines, the
calendar, what a terminal is sent) are operators checked against references.

Paths below are relative to the repository root, except that `merge.rs`,
`logs.rs` and the like are files of `src/`.

## 1. The parts of the system

| Part | State it keeps | Operations | Where it is hard |
| --- | --- | --- | --- |
| **log merge** (`merge.rs`) | per source: open record, queue, last line's instant, EOF flag | `push_line`, `eof` (readers); `flush_stale`, `drain_ready`, `drain_all`, `is_done` (emitter) | threads interleave; a quiet source must neither block the other for ever nor be overtaken; undated lines, midnight, clock changes |
| **clock skew watch** (`merge.rs`) | per source: smallest `arrival - stamp`; the note; "already judged" | `observe`/`check_skew` on each stamped line, `take_skew_note` on each tick | a one-shot judgement on estimates that are still moving |
| **logs session** (`logs.rs`) | producers, pager, reader threads, emitter thread, stop flag, the merger's mutex, bytes written | start, `emit_loop`, `supervise_pager` | partial failure of the start, teardown order, panics and a poisoned mutex, the cap |
| **log source resolution** (`logs.rs`, `cli.rs`, `stack.rs`) | none: twelve inputs and a `docker ps` become two optional targets | `needs_detection`, `detect_role`, `resolve_log_sources`, `check_selection` | a precedence list written twice, once negated by hand; three rules that interact |
| **self update** (`update.rs`, `cli.rs`) | the installed binary, a staged copy, a temporary directory | `check`, `install`, `install_binary`, `refresh_installed` | crash between two steps, two updates at once, a failure half-way |
| **dump-logs** (`dump.rs`, `gist.rs`) | what has been read, the notes, the first failure, the artifact | `read_source`, `read_sources`, `run_dump`, `upload` | half of the sources failing, two caps, an upload that cannot be undone |
| **redactor** (`redact.rs`) | placeholder of each value, counters per category | `token`, `redact`, `summary` | one numbering across header, doctor report and lines; three passes that must not undo each other |
| **doctor** (`doctor.rs`) | none: facts, then findings | `probe`, `evaluate` | short circuits: what is not known must not pass; a node that goes away between two questions |
| **completions** (`completions.rs`) | script files, the stanza in the rc file | `plan`, `apply`, `refresh_installed` | append once; stop at the first error; a refresh at the same time |
| **configuration** (`config.rs`, `cli.rs`) | none: three tiers of settings | `config_path`, `load`, the ladders | one precedence written as many ladders |
| **API and metrics commands** (`cli.rs`, `beaconapi.rs`, `http.rs`, `metrics.rs`, `loglevel.rs`) | the node's log level, which is not tekops' own | one to three requests each; the preview and `POST` of `log-level` | which failure deserves which hint; what was previewed is what is sent |
| **formats** (`logfmt.rs`, `metrics.rs`, `term.rs`) | none | one parse or one conversion each | escaping, zones, leap days, control characters |
| **host and containers** (`host.rs`, `docker.rs`, `stack.rs`) | none | one question each | each may not be answered |

They interact as follows. The command line (`cli.rs`) resolves the log sources
and hands them to a session or to a dump; both feed a `Merger` and print what
it gives back, the session with one thread per source and a mutex, the dump
sequentially. A dump passes its header, every line and the report of `doctor`, if
it was asked for, through one `Redactor`. Every command settles its endpoints by
the same ladders (`cli.rs`, `stack.rs`), from the flags, the environment, the
config file and, last, the names of the containers that run. An update ends by
running the new binary to refresh the completion scripts, which operators may be
installing at that moment.

## 2. What is modelled, and how it corresponds to the code

    LogSources --- SkewWatch --- SkewClocks        (clocks that are known)
         |             \
         |              Merger --- implements ---> LineStream
         +-- RecordBuilder /                        |      |
                                               Session    Dump --- Redactor

    DockerStacks --- LogTargets     (which sources a session or a dump has)
         |
         +-- Settings --- Commands  (eight commands and the node they ask)
         |       \
         +-- Judgement --- Doctor   (facts, then rows)

    Update, Completions             (the binary; the scripts and the rc files)

    Scan --- Redaction, Terminal,  Exposition,  LogLine --- Calendar   (pure)
         \____________________ Texts ________________________/

**LogSources** numbers the sources in the order `Merger::new` is given them
(the tie-break order). **Option** is Rust's `None`, and `a.or(b)`.

**RecordBuilder** is `RecordBuilder` of `merge.rs` as pure operators: `Pushed`
is `push_line` (the new builder, the completed record, the time of a stamped
line), `Resolve` and `Dated` are `resolve`. A line is the stamp that
`leading_timestamp` finds in it: absolute, a time of day, or none. A record
keeps the numbers of its first and last line in place of their text.

**SkewWatch** holds `observe`, `check_skew`, `take_skew_note` and
`as_zone_offset` with their three fields. Merger takes its actions into its own;
**SkewClocks** runs them against processes whose clocks are known, so that a
property can say what a *true* skew is: a sample is the clock's offset plus a
delay that is never negative.

**Merger** is the type of that name with its callers: `PushLine` and `Eof` are
what a reader does under the lock, `Tick`/`DrainReady`/`TickDone` is one turn
of `emit_loop`, `Stop`/`DrainAll`/`StopDone` its last turn. Each turn holds the
mutex throughout; it is spread over a step per record because a drain is a loop
over the moving heads of the queues, and `phase` keeps the readers out
meanwhile. `silence[s]` stands for `now - last_line[s]`, stopped at the window.
The history variables count lines in (`fed`), out (`handed`) and record the
times that were handed out past a source.

**LineStream** is what the merger promises: each source is a first-in
first-out stream that ends once. `Merger` implements it (`ImplementsStream`).

**Session** is one `tekops logs`, built on `LineStream`: the main thread's
`run_logs` and `supervise_pager` step by step, a reader thread per producer,
the emitter. Blocking is in the guards: a `read_line` waits for the pipe, a
producer for room in it, a `wait` for an exit, a `join` for a thread.

**LogTargets** is one invocation of `logs` or `dump-logs` up to the point where
it starts or is refused: `AskDocker` is `needs_detection` and, behind it, `docker
ps`; `ResolveSources` is `resolve_log_sources` with its three rules (`OneSlot`,
`Resolve`) on top of the ladder of each slot (`Stated`, `Detected`, `Ladder`);
`CheckSelection` is `check_selection`. **DockerStacks** has the deployments and
how `stack.rs` tells them by the names of containers. A target is the rung it was written on,
one of twelve: flag, variable or config key, for the beacon node or the
validator client, a container or a file.

**Update** is `tekops update` by several operators of one host: `run_update`
(`Start`, `Check`, `Confirm`), `install_version` and `update::install` (`Begin`
to `Return`, one action for each thing done to the file system, `Cleanup` for
the early returns), and `completions::refresh_installed` (`Refresh`, `Truncate`,
`WriteScript`). `Fails` is any of their calls failing, `Crash` a kill. A file is
the build it was written from, whether it is all there, and its mode. `replaced`
stands for the inode: on Linux `current_exe` of a process whose file was renamed
over answers the path with ` (deleted)` after it, which is `stray`.

**Redactor** is the numbering `token` keeps, and **Dump** is one `tekops
dump-logs` with it: the checks before anything is read (`destination`, the size
of a gist, the token), `read_source` and `read_capped` (`Spawn`, `ReadLine`,
`ReadEnd`, `Kill`, `Wait`) against a process that writes into a pipe, the note for
what could not be read, the merged body, header and report through the one redactor, then
the artifact, the question and the upload. The merger underneath is
`LineStream`, pushed to sequentially.

**Settings** holds the ladders of `cli.rs` as functions of what each tier says.
**Commands** is one invocation of `peers`, `health`, `head`, `duties`,
`validators`, `version`, `log-level` or `about`: where the config file is and what
reading it comes to, the endpoints, `docker ps`, each request with every way it
can end (for `version` a page that has the versions of either family, of both or
of none, and the two rows that `VersionReport` reads off one scrape or two), the
hint printed with a failure, and for `log-level` the target, the fetch, the
preview, the confirmation and the `POST`. What a URL serves may be edited at any
step.

**Judgement** is `evaluate`, with every threshold a constant, on facts that were
learned, failed or not asked for; **Doctor** is the run around it: the
configuration it works out, each question in the order of `probe` with its short
circuit, against endpoints that go away and come back and containers that stop.
What an address says to a question (`Reply`) is the node's answer, or a failure of
another kind (`OtherAnswer`) where it says nothing of the kind. A row that says
`ok` carries whether it rests on something that was learned. The nodes that a
property promises something for are described by what they are (`AsDeployed`,
`IsWell`), not marked in a list.

**Completions** is the scripts and rc files of one account: several `tekops
autocomplete` from different environments (`Plan`, `Confirm`, and one action for
each thing `apply` does to the disk, any of which may fail or be the last), and
the refresh an update runs meanwhile. A script is the build that rendered it and
whether it is all there; an rc file is the sequence of stanzas in it.

**Redaction**, **Exposition**, **LogLine**, **Terminal** and **Calendar** are
pure: what `redact` makes of a line of words and delimiters, how a metrics page
is read and summed, how a log line is parsed, dated and shown in a zone, what
`sanitize` lets through (with the state machine of an escape sequence), and the
civil calendar. **Scan** is the loop that `sanitize`, `unquote` and the passes of
`redact` have in common: something is written for a position, and the next one
follows. A pass of `redact` is in two halves: which pieces of the line it hides,
which depends on the line alone (`UrlPieces`, `HomePieces`, `TokenPieces`), and the
naming of those from left to right (`WriteOut`). What `find_closing_brace` and
`parse_labels` find is a matter of two flags, which each character turns on and off
(`Flagged`). **Texts** applies these to one input at a time and states what each
must agree with: an inverse, a writer of the format, the Gregorian rule.

A definition named after another with a suffix (`Safe_wrong_source`) is that
operation with a plausible slip. Nothing uses it: put in place of the original,
it makes the property it was written for fail, which shows that the property
depends on that part of the code.

### Abstractions to know of

- Text is not modelled where no property is about it: no colours, tags or
  wording, and no tables of `output.rs`. Where one is, it is a sequence of
  the characters the code tells apart (Exposition, Terminal), of fields (LogLine)
  or of words with a kind (Redaction): how `is_ipv4`, `is_peer_id` and their like
  recognise a kind is taken as given.
- Bytes are lines: the cap counts lines, a pipe holds lines.
- The lines a session writes besides the logs (the notes at the head of the
  buffer, the skew note, the notice of the cap) are not counted in `written`;
  the code does not count them against its cap either.
- `kill_pager` is one step: the pager is gone. `child.stdout.take()` cannot be
  `None` for a child spawned with a piped stdout, and that branch is left out;
  so is the failure to install the signal handler, before anything has started.
- The merger's arithmetic is on unbounded integers; the code's is `i64`
  milliseconds, and its values are far from the limits.
- `update check`, which changes nothing, is left out. A platform without a
  release asset and a missing `HOME` are among the failures of `Fails`.
- Releases do not change once they are out (`listed` is constant), while a
  download may yield any build, and a release may hold a build that reports
  another version, or none. Removing one's own files succeeds.
- Naming a container or a file that does not exist is found out by the session
  and not by `LogTargets`; the stack in force is given, not detected.
- In a dump a text is the sequence of the values in it that the redactor
  recognises. The notes on sources that could not be read carry none: `dump.rs`
  does not pass them through the redactor (section 6).
- The upload's JSON body and its private temporary files are one step.
- An answer of the node or the metrics page is what the command makes of it: the
  JSON, the arguments given to `curl` and the TOML of the config file are left
  out, and so is how the output of `df`, `docker inspect` and the files of
  `/proc` are parsed. The texts of doctor's rows are left out, their verdicts are not.
- Doctor's node is asked by one run; two dumps or two doctors share nothing.
- Completion scripts are atomic up to "created" and "all there".
- External: what producers write and when they exit, unreadable lines, panics,
  full disks, the node, GitHub, and the operator.

## 3. The runs

| Run | Instance | What it shows |
| --- | --- | --- |
| `skew` | 2 sources, clocks 0, 1, 4, 8 and delays 0..9 in units of the tolerance, a zone step being 4 | one note at most; a true skew is reported as soon as both sources have a live line |
| `merge` | 2 sources, 3 lines each, stamps 0, 2, the time of day 0 of a 3-tick day, or none, around a session start of 1, window 1 | nothing lost, repeated, reordered or overtaken, with the rollover and the clamp; `is_done` means everything was shown |
| `merge_progress` | the same stamps, 2 lines each, fair emitter | no line waits for ever; `LineStream` is implemented |
| `session` | 2 producers, 2 lines each, a pipe of 1, a cap of 3, panics, fair threads | nothing outlives the session, its result is right, what the merger gave up is written; quitting ends it and no join waits for ever |
| `log_targets` | up to 3 of the 12 rungs, any stack, selection and default log, any of 4 containers running | skipping `docker ps` changes nothing; detection never guesses; what is stated by hand on one side is all that is read; the default is a last resort |
| `update` | 2 invocations, 2 versions, 3 builds, 1 shell, a failure or kill anywhere | the command is always a whole, verified release; nothing is left behind; scripts come from what was installed |
| `update_twice` | the same without shells | **violated** `InstalledWhatItSays`, see section 6 |
| `dump` | 2 sources, 2 lines each of two texts, a pipe of 1, a cap of 3 bytes and a gist limit of 4 (a line is 2, a note 1), six requests | every source is in the artifact or in a note; one name per value everywhere; nothing leaves unasked, unapproved or too large; the run ends |
| `doctor` | 6 nodes of three deployments, sound and unsound, 6 invocations, up to 2 changes of the world during the run | every question has its row and no row passes on what is not known; an endpoint that is away costs one timeout and one failure; the defaults find a node that is well |
| `completions` | 2 installs, 3 environments, 2 builds, a refresh, a failure or kill at any step | no file nobody agreed to, no stanza without its script, none twice; "done" means the shell loads it; a refresh leaves no script behind |
| `commands` | hosts with one deployment or two and eight states of the config file, one rung of each tier stated, 5 targets of `log-level`, 12 bodies | the highest tier wins, the config file is the operator's own; the hint helps; the node is told what was previewed |
| `texts` | two lines of up to two pieces each for the redactor, or a URL in a URL behind a keyword; label values of up to 3 characters; every edge of a stamp; terminal texts of up to 5 characters; 4,354 days | the five conversions against their references |

Several properties are conjunctions of named parts, each with its own comment and
each saying one thing of the same state: `ArtifactIsConsistent`,
`SourcesAreAccountedFor`, `NothingLeavesUnasked`, `ReportIsComplete`,
`OutageCostsOnce`, `DefaultsFitTheNode`, `FilesAreSound`,
`SettingsAreTheOperators`, `NodeIsToldWhatWasSeen`, `EndsAreTruthful`,
`EverythingIsWritten`, `SourcesAreThere`, and those of `texts`. The type invariant of a module is one
of those parts, or stands alone in `merge`; those of SkewClocks, LogTargets and
Update are proved and not listed in a run (section 5).

Why these bounds are enough to be interesting: two is the number of sources the
program has. Three lines make a record with a continuation and the stamped line
that completes it, in every order with the other source's. A window of one tick
separates "silent" from "silent for the window". Two stamps, one before the
session's start and one after it, give earlier, later and equal heads, and a time
of day on a three-tick day rolls over within three lines. A cap of three is
reached inside a batch, between two batches, or not at all with four lines; a
pipe of one makes producers block. Three rungs are both slots and a competitor on
either, on all six places of the ladder; two consensus containers of one stack,
one of the other and a validator make detection find none, one or too many with
and without a stack. Two updates interleave in every way one update's steps can;
of the three builds one is an altered copy that only the checksum tells from the
other, and since any release may hold any build, the assets may be mislabelled
too. A dump of up to four lines of two bytes each meets its cap of three in the
first source, in the second or never; two values of one category and one of
another make a shared counter and a separate one. Two changes of doctor's world
are an endpoint that goes away and comes back, or two that go away. The
environments of `completions` are a plain account, one whose data live elsewhere
and one without `$HOME`. Invocations that are alike are symmetric in the runs of
Update, which check invariants only, and of Completions, whose two action
properties speak of one step each and name no installer.

`skew`, `doctor` and `commands` check for deadlock. A merge, a session, a
resolution, an update, a dump, an install and a conversion really end, and their
runs do not.

## 4. Fairness

- `Merger`: weak fairness of the emitter's turn (its thread loops with a sleep)
  and strong fairness of `TimePasses` (the lock is free during that sleep, so
  time passes however often the emitter ticks). Nothing is asked of producers.
- `Session`: weak fairness of each thread, and of the death of a process that
  has been killed. The operator need not quit, a producer need not write or
  exit, a worker need not panic.
- `Dump`: weak fairness of dump-logs' own steps (one thread, which is asleep only
  in a read or a wait) and of each producer: what it is given to read is not
  followed, so it writes what there is and exits. The operator may leave the
  question unanswered for ever.

## 5. What is proved

The proof modules are checked by TLAPS for every value of the constants: any
number of sources, installers or invocations, any set of stamps, any window, cap,
deployment or threshold. A module's assumptions on its constants are named, and
the run of its model evaluates them; most only keep values of different kinds
apart.

| Proof module | Invariants that are proved | Inductive invariant behind them |
| --- | --- | --- |
| MergerProofs | `TypeOK`, `NothingLostOrRepeated`, `PlacedQueuesSorted`, `NeverOvertaken`, `BusySourceKeepsItsRecordOpen`, `DoneMeansEverythingShown`; `ImplementsStream`, the refinement of LineStream; `SaidOnce` and `TrueSkewIsReported` of SkewClocks | `CoreTypeOK`, `OrderInv`, `OpenInv`, `SpreadInv`; `SkewInv` |
| SessionProofs | `NothingOutlivesTheSession`, `ResultIsThatOfTheWorkers`, `EverythingIsWritten` | `SessionInv`, `WrittenInv` |
| LogsProofs | of LogTargets, `TypeOK`, `AskingLessChangesNothing`, `NeverAGuess`, `OneSidedIgnoresTheHost`, `SourcesAreThere`; of Texts, `DatesAreRight`, `LinesKeepTheirText`, `RedactionIsThorough` and `MetricsAreRead` | `TargetsInv`, `MadeInv`, `LogInv` |
| UpdateProofs | `TypeOK`, `InstalledIsARelease`, `NothingLeftBehind`, `ScriptsComeFromTheNewBinary` | `UpdateInv` |
| DumpProofs | `NothingLeavesUnasked`, `SourcesAreAccountedFor`, `ArtifactIsConsistent` | `LeaveInv`, `NameInv`, `DumpInv` |
| CompletionsProofs | `FilesAreSound`; the action properties `DoneMeansLoaded`, `RefreshLeavesNoneBehind` | `IInv`, `HonestInv` |
| CommandsProofs | `SettingsAreTheOperators`, `NodeIsToldWhatWasSeen`, `EndsAreTruthful` | `CommandsInv` |
| DoctorProofs | `ReportIsComplete`, `OutageCostsOnce`, `DefaultsFitTheNode` | `DoctorInv`, `DiskInv`, `FoundInv` |

**MergerProofs.** `LinesConserved` rests on `CoreTypeOK` and the statement
itself, which is inductive: the records a source holds cover consecutive lines
from the last one handed out to the newest one fed. Each operation is first
shown to do one of four things to `Held(s)`, the queue followed by the open
record (nothing, append, extend the last, remove the first), and every
invariant is then preserved by those four. `PlacedSourcesAreSorted` and
`WaitedForIsNeverOvertaken` need a strengthening, `OrderInv`: besides being
sorted, the held records of a source lie between everything handed out past it
and the builder's `last`, and `last` bounds what the next line can bring.
`BusyRecordsStayOpen` and `DoneIsComplete` follow from `OpenInv` and
conservation. A drain picks the earliest head with the lowest number; that such a
head exists, for any number of sources, is a minimum of a well-founded order.

`Merger` implements `LineStream` (`MergerImplementsStream`): a push is a
delivery, an EOF the end of a source, handing out a record moves `handed` forward
within `fed`, which takes `SpreadInv`, and all else stutters. What is proved of
the merger then holds of the stream that Session and Dump are built on.

The skew note is said once for any number of sources. For two, the number the
program has, clocks that differ by a zone have been reported once both sources
are live: the spread that is judged is that of the offsets, and their offsets are
then the clocks. A note that was raised before, even a wrong one, counts as that
report (section 6).

**SessionProofs.** `SessionInv` says how far the main thread's loops have come
(who has been killed, reaped, joined) and with what result, and implies that
nothing is left behind and that the result is right. `EverythingIsWritten` is
about the lines: `AccountInv` says where each line of a producer is (in the pipe,
in a reader's hand, with the merger), and `EmitInv` that what the emitter took is
written, in its batch, or was cut by the cap, so that an end without a cap, a stop
or a failure has written all there was.

**LogsProofs.** Of LogTargets, for any set of containers and any number of rungs at once:
`StepInv` says that what each step leaves is a function of the invocation and
the host, which do not change; every property is then about that function. The
central lemma is that a slot with a rung of its own never looks at detection, so
the negated gate loses nothing. A rung is chosen among six places, no two rungs
of a slot sharing one, hence the choice is always defined. `SourcesAreThere` is
read off the three rules: a slot is left empty by none of them unless the other one
is filled, and the default is reached when nothing else was stated or found.

Of Texts, for every day, before the epoch and after it: a day is an era of 400
years, a year in it and a day of that year (`EveryDayHasADate`), and the program's
divisions find that year and no other (`DayIsFound`): the correction for the
centuries is what makes the quotient by 365 exact, on the last day of a leap year
as well. A day and the next are then in the same month, in two months or in two
years (`NextInYear`, `FirstOfNext`), which is `DayAfter`, and the way back meets
the same three numbers (`DaysOfDate`). For every stamp and zone: whole minutes
leave the fraction of a second alone (`FractionStays`), so that the digits
restamp writes, in the width they came in, are read as the milliseconds it wrote
(`WrittenIsRead`), and the day it carries over is taken back by the same carry
(`ThereAndBack`). That offsets are whole minutes and that a fraction has the
digits of its width are what the assumption on the lines says (`IsStamp`,
`IsZone`).

Of Texts, for a text of any length: what `sanitize` still has to write is a
function of where it stands (`Walk`), which is shown to exist and to be what the
loop says, one position after the other, by induction from the end of the text
(`FromTheEnd`, `WalkIs`). A sequence that is skipped holds parameters,
intermediates and a final character only (`FinalIs`), so that nothing that can be
read is lost (`TextIsKept`). Behind any place the text says the same on its own
(`RestAlike`), and in front of it as well unless it stops inside a sequence
(`HeadAlike`), which is why the fields of a record can be sanitised one by one
(`SplitsWhereClosed`).

Of Texts, for a dump of any number of lines of any length: `LogInv` says that each
line so far reads the same to whoever redacts it with the names given by now, *or
with any that continue them*, which is what the next line needs and what
`NamesAreStable` alone does not say. It holds because a pass marks the same pieces
whatever the names (so the second time each value is found, and none is added),
and because a number, which counts the values of its category in front, is not
changed by those that come behind. `NothingRecognisedIsLeft` follows a line through
the three passes: each writes a text in which what it looks for is nowhere, and the
later ones leave it so. For the home paths that takes an induction from the end of
the line (`Follows`): what is written from a place on may begin with what the line
has there or with a bracket, so that no `/home/` and name come to stand side by
side that did not before.

Of Texts, for any samples a process reports, with any characters in the values of
their labels: a text is read with the flags that what stands in front of it ends
in (`FlagsGoOn`). An escaped value never leaves the quotes it stands in
(`EscapeIsWithin`), so that between its quotes it ends in the flags it began in
and holds no comma or brace that counts (`QuotedIsSealed`); this is where an
escape that is not told from a quote would break the proof. The list of labels is
then cut at the commas between them and nowhere else, by induction from the last
one (`SplitFrom`), the brace behind it is the first that counts (`BraceIsFound`),
and resolving the escapes gives the value back, character by character
(`UnescapeInverts`). The samples of a page are thus what `PageOK` says: each with a
finite value and one value for a label. Sums over two parts of such a page add up
(`SumOverSplits`), and a family is its groups, each taken at its first line
(`GroupsAreTheLabeled`), by induction over the lines.

**UpdateProofs**, for any number of invocations, versions, builds and shells:
`AlwaysARelease` needs to know what the file about to be renamed is. `StagedInv`
says how far the staged copy has come at each step, `CheckedInv` that from the
checksum on the tarball is the listed one and from the smoke test on it reports
the wanted version. `LeftInv` says which files can exist at which step, and
`SinceInv` that the build at `dest` is one put there by this update or after it.

**CompletionsProofs**, for any number of installers, environments and builds:
`FilesAreSound` needs to know where each installer stands. `PlansAreTyped` says a
plan names one of the known files, `ConsentGoesAhead` that an installer past the
prompt was told yes or did not have to ask, `ScriptGoesAhead` that one at the rc
file has its script on the disk, whole, and `RunsAreAlone` that as long as no two
runs have overlapped at most one is under way, so that the marker it looked for
is still absent when it appends. The two action properties are about the step that
ends a run, and need its past: `HonestInv` says that every script and stanza was
put there by a run from one of the environments seen, under that one's base
directories, that a stanza is whole but where a run was cut off, and
which shells the refresh has behind it. "Done" then means that the rc file
sources the very script that was written, and a refresh that ends alone has
brought every script it may touch up to date.

**DumpProofs**, for any sources, texts, caps and requests: `LeaveInv` says what
`run_dump` has checked by each of its steps, which is why an upload implies the
request, the approval, the size and the artifact on the disk. `NameInv` says that
the numbers tell the values of a category apart, that they are never given out
anew, and that all that was placed in the artifact carries its number; since the
header, the report and the lines go through the same registry, one value has one
name throughout (`OneName`). `DumpInv` follows the lines: `SourceInv` says that
the sources behind the one in hand are noted or were read to their end, `ShownInv`
that what the merger gave up is in the body, `NamedInv` that a value with a number
is there as well, so that the summary counts what a reader will find.

**CommandsProofs**, for any hosts, config files, invocations and bodies:
`SettingsInv` says that the config file that was read is the operator's own and
that the endpoints in use are those the tiers come to, `SpecInv` that a level that
is about to be sent was typed, shown, or was not to be shown, `AskInv` that the
requests went to the endpoints in their order and none twice for `version`, and
`EndInv` what each way of ending says. That the rows of `version` are true
(`RowsAreTrue`) splits on whether its two URLs are one: the second row is then
read off the only scrape, and off the last of two otherwise. The ladders of
Settings are first shown to take the highest tier that says anything, rung by
rung.

**DoctorProofs**, for any node and host, anything stated, and any number of
changes of the world: `FactsInv` says that a question that was put has been
answered one way or another, `CallsInv` that a call was to the address its
question is about and was lost when the answer says so, and `SparedInv` which
questions were put and which were spared by what was known. `ReportIsWhole` then goes through
`evaluate` check by check: the checks have names of their own, each gives exactly
one row, and none gives a row that says `ok` without a fact behind it.
`OutageIsCheap` is a count: of the calls to one address at most the first and
those the short circuits do not cover can be lost. `DiskInv` says that the disk
that was measured is the one the node's data are on. `FoundInv` is what
`DefaultsFitTheNode` needs: with nothing stated, the endpoints are those of the
containers that `docker ps` shows (`SettledInv`), and while nothing goes away every
fact is what the node says (`TrueInv`, `HostInv`). Of a node deployed as its stack
does the defaults are then the addresses, and each check passes on good news or on
a question that was rightly not put (`WellIsGood`).

**What is only model-checked**, and why:

- liveness (`EveryLineIsShown`, `EmitterEndsWithItsSources`,
  `QuittingEndsTheSession`, `DumpEnds`) and the fairness of the streams, which the
  prover does not reach;
- `RedactionIsSound` of Texts. `Reversible`, one of its parts, is not true of every
  line: one that holds a literal `<ip-1>` before it is redacted cannot be told from
  one that was redacted, and three readings undo three passes. It is a statement
  on the lines a node writes, of which the run has a sample, and stays with it.

## 6. Where the code and its documentation part

One of these has a run, `update_twice`, that finds the counterexample:
`InstalledWhatItSays`. On Linux, an update whose own binary has been replaced
meanwhile (another update ran while its prompt was open) takes the path
`.../tekops (deleted)` from `current_exe`, installs there and reports success.

Seen while modelling, without a run of their own. In `tekops logs`:

- An undated first line is placed at the session's start, and the stamped backlog
  after it is older: the queue is then not sorted, while docs/ARCHITECTURE.md:643-647
  says that it is. `PlacedQueuesSorted` speaks of the other queues.
- The falling minimum of a backlog can be caught a zone step away from the other
  source, and the once-only note is then wrong and spent (USAGE.md:169-171).
- At the cap the emitter stops, the readers do not (USAGE.md:218-219).
- A first time-only stamp that lies before the session's start is dated
  tomorrow, while USAGE.md:191 speaks only of backlogs that span midnight.
- The emitter's last drain may precede the readers' last pushes: the stop flag
  is set, and the emitter leaves, before the readers are joined. The comment at
  `logs.rs:110` promises the tail. It is harmless: the pager has exited.
- USAGE.md:804 says that several consensus containers make tekops fall through
  to "the hardcoded default path"; if a validator's container is detected, or
  anything is stated for it, and the file is not there, the beacon node is
  dropped instead.
- USAGE.md:107 promises "no delay" for one source, whose newest line is held
  until the next one or for the 250 ms window.

In `dump-logs`:

- docs/ARCHITECTURE.md:927 has everything in the artifact pass the redactor; the
  notes on sources that were not read, which hold an error's text, do not
  (`dump.rs:305-317`).
- `write_dump` sets the mode 0600 only on a file it creates; one that exists keeps its own.
- `--gist -o PATH` prints both the path and the URL on the standard output.
- An unreadable line ends the reading of that source: the rest of that log is
  dropped and the producer is left unreaped.
- A gist may exist although the upload was reported as failed: the answer was lost.
- What Redaction shows is left as it was: a value in a `?query=`, the userinfo of a
  URL nested in another, and an address or peer id followed by `.` or `:`. The
  placeholders after a graffiti or host keyword may be redacted once more.

In `doctor` and the commands:

- After an endpoint failed, only the families of health and of the validator's
  metrics are spared further calls (`doctor.rs:79-81`); there are eight calls
  where the documentation counts seven.
- `docker ps` lists running containers only, so with a stopped consensus container
  and no stated stack the defaults are those of bare metal.
- The calls of `docker` and `df` have no timeout.
- `version` turns two unreachable endpoints into a malformed answer, which has no
  `--stack` hint (USAGE.md:480-483, `cli.rs:1360-1388`); with a stated `--api-url`
  other commands print that hint although the stack would change nothing.

In the completions:

- An `autocomplete` that rendered its script before an update and writes it after
  the refresh leaves the old build's script, which USAGE.md:752 says cannot happen.
- A stanza that was written half has the marker, and the next run says that all is
  set up already.
- With another `$XDG_DATA_HOME` on a later run, the rc file goes on sourcing the old path.
- A script that cannot be rendered ends the refresh of the shells after it.

In the formats:

- `restamp` takes one `Z` off a stamp and `parse_timestamp` takes them all, so a
  stamp that ends in `ZZ` and has a zone to be shown in panics.
- `leading_timestamp` asks for no level: a line whose level is unknown is dated by
  its stamp and yet shown as it came.

## 7. Not modelled, and what could follow

Not modelled: the JSON of the API's answers and the arguments of `curl`, which are
one parse or one command line each, without state; the layout of tables and
reports in `output.rs`; the parsing of `df`, `/proc` and `docker inspect`; the TOML
of the config file; the release scripts and the site, which are around the program.

What could follow, in this order:

1. **Texts**: a proof of `Reversible` for lines that hold no placeholder.
2. `Completions` and `Update` composed, with the refresh being the child of an
   update that may be killed between the rename and the refresh.
