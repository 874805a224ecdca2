------------------------------- MODULE Update -------------------------------
(***************************************************************************)
(* `tekops update' as run_update, install_version, update::install and     *)
(* refresh_installed perform it, by several operators of one host at once, *)
(* any of which may be killed between two steps.                           *)
(*                                                                         *)
(* A build is an opaque file; Reports says what `--version' prints when it *)
(* is run. A file on disk is the build it was written from, whether it is  *)
(* all there, and who may execute it.                                      *)
(*                                                                         *)
(* A definition that carries another's name and a suffix is that operation *)
(* with a slip in it, kept to show that the properties notice the slip.    *)
(***************************************************************************)
EXTENDS Integers, Sequences, Option

CONSTANTS Updater,     \* invocations of `tekops update'
          Version,
          Build,       \* what a download may turn out to be
          Reports,     \* the version a build reports, None if it will not run
          Shells       \* the shells of refresh_installed, in its order

File == [build : Build, whole : BOOLEAN, mode : {"umask", "all"}]

ASSUME UpdateAssumption ==
  /\ Reports \in [Build -> Version \cup {None}]
  /\ None \notin Version \cup Build \cup File
  /\ Version \cap {"prompt", "latest"} = {}
  /\ Shells \in Seq(STRING)

VARIABLES host,        \* the system, which decides what current_exe says
          listed,      \* what each release holds, and its SHA256SUMS lists
          latest,      \* the newest release
          managed      \* whether Homebrew owns the installed binary
VARIABLES installed,   \* the file at tekops' path
          stray,       \* the file at that path with " (deleted)" after it
          scripts      \* the completion script of each shell
VARIABLES pc,          \* what each invocation does next
          asked,       \* its argument
          running,     \* the build it runs
          replaced,    \* whether that build's file has been renamed over
          want,        \* the version to install
          dest,        \* current_exe, as install_version read it
          got,         \* the tarball
          left,        \* its probe file and temporary directory, while there
          staged,      \* .tekops-update-<pid>
          turn,        \* the shell refresh_installed has come to
          rendered,    \* the build the script to be written came from
          since        \* history: the builds at dest since it put its own there

world == <<host, listed, managed>>
disk  == <<installed, stray, scripts>>
plan  == <<asked, running, want, dest, got>>
files == <<left, staged>>
work  == <<turn, rendered>>
vars  == <<world, latest, disk, pc, plan, replaced, files, work, since>>

Whole(build) == [build |-> build, whole |-> TRUE, mode |-> "all"]

Ended == {"done", "failed", "crashed"}
Steps == {"check", "confirm", "begin", "probe", "unprobe", "tarball", "sums", "stage",
          "extract", "smoke", "copy", "copying", "chmod", "rename", "cleanup",
          "return", "refresh", "truncate", "write"}

(* A release whose asset runs and is what it says it is. *)
Good(build, v) == listed[v] = build /\ Reports[build] = v

At(p, step) == pc[p] = step
Goto(p, step) == pc' = [pc EXCEPT ![p] = step]

-----------------------------------------------------------------------------
Init ==
  /\ host \in {"linux", "macos"}
  /\ listed \in [Version -> Build \cup {None}]
  /\ latest \in Version
  /\ managed \in BOOLEAN
  /\ installed \in {Whole(b) : b \in Build}
  /\ \E v \in Version : Good(installed.build, v)
  /\ stray = None
  /\ scripts \in [1..Len(Shells) -> {None, installed}]
  /\ pc = [p \in Updater |-> "idle"]
  /\ asked = [p \in Updater |-> None]
  /\ running = [p \in Updater |-> None]
  /\ replaced = [p \in Updater |-> FALSE]
  /\ want = [p \in Updater |-> None]
  /\ dest = [p \in Updater |-> "place"]
  /\ got = [p \in Updater |-> None]
  /\ left = [p \in Updater |-> {}]
  /\ staged = [p \in Updater |-> None]
  /\ turn = [p \in Updater |-> 1]
  /\ rendered = [p \in Updater |-> None]
  /\ since = [p \in Updater |-> {}]

(* A newer release comes out. *)
Publish(v) ==
  /\ v # latest
  /\ latest' = v
  /\ UNCHANGED <<world, disk, pc, plan, replaced, files, work, since>>

(* run_update: an explicit version is not compared with anything. *)
Start(p, arg) ==
  /\ At(p, "idle")
  /\ asked' = [asked EXCEPT ![p] = arg]
  /\ running' = [running EXCEPT ![p] = installed.build]
  /\ want' = [want EXCEPT ![p] = IF arg \in Version THEN arg ELSE None]
  /\ Goto(p, IF managed THEN "failed" ELSE IF arg \in Version THEN "begin" ELSE "check")
  /\ UNCHANGED <<world, latest, disk, replaced, dest, got, files, work, since>>

(* update::check. *)
Check(p) ==
  /\ At(p, "check")
  /\ want' = [want EXCEPT ![p] = latest]
  /\ Goto(p, IF latest = Reports[running[p]] THEN "done"
             ELSE IF asked[p] = "prompt" THEN "confirm" ELSE "begin")
  /\ UNCHANGED <<world, latest, disk, asked, running, dest, got, replaced, files, work, since>>

Confirm(p) ==
  /\ At(p, "confirm")
  /\ \E answer \in {"begin", "done"} : Goto(p, answer)
  /\ UNCHANGED <<world, latest, disk, plan, replaced, files, work, since>>

(* install_version: current_exe reads /proc/self/exe on Linux, where a     *)
(* file that has been renamed over goes by its path and " (deleted)".      *)
Begin(p) ==
  /\ At(p, "begin")
  /\ dest' = [dest EXCEPT ![p] = IF replaced[p] /\ host = "linux" THEN "stray" ELSE "place"]
  /\ Goto(p, "probe")
  /\ UNCHANGED <<world, latest, disk, asked, running, want, got, replaced, files, work, since>>

(* probe_writable. *)
Probe(p) ==
  /\ At(p, "probe")
  /\ left' = [left EXCEPT ![p] = @ \cup {"probe"}]
  /\ Goto(p, "unprobe")
  /\ UNCHANGED <<world, latest, disk, plan, replaced, staged, work, since>>

Unprobe(p) ==
  /\ At(p, "unprobe")
  /\ left' = [left EXCEPT ![p] = @ \ {"probe"}]
  /\ Goto(p, "tarball")
  /\ UNCHANGED <<world, latest, disk, plan, replaced, staged, work, since>>

(* What arrives need not be what the release holds. *)
FetchTarball(p) ==
  /\ At(p, "tarball")
  /\ \E build \in Build : got' = [got EXCEPT ![p] = build]
  /\ Goto(p, "sums")
  /\ UNCHANGED <<world, latest, disk, asked, running, want, dest, replaced, files, work, since>>

(* verify_checksum. *)
FetchSums_unverified(p) ==
  /\ At(p, "sums")
  /\ Goto(p, IF listed[want[p]] # None THEN "stage" ELSE "cleanup")
  /\ UNCHANGED <<world, latest, disk, plan, replaced, files, work, since>>
FetchSums(p) ==
  /\ At(p, "sums")
  /\ Goto(p, IF got[p] = listed[want[p]] THEN "stage" ELSE "cleanup")
  /\ UNCHANGED <<world, latest, disk, plan, replaced, files, work, since>>

MakeStaging(p) ==
  /\ At(p, "stage")
  /\ left' = [left EXCEPT ![p] = @ \cup {"tempdir"}]
  /\ Goto(p, "extract")
  /\ UNCHANGED <<world, latest, disk, plan, replaced, staged, work, since>>

(* extract_binary and smoke_test. *)
Extract(p) ==
  /\ At(p, "extract")
  /\ Goto(p, "smoke")
  /\ UNCHANGED <<world, latest, disk, plan, replaced, files, work, since>>

SmokeTest(p) ==
  /\ At(p, "smoke")
  /\ Goto(p, IF Reports[got[p]] = want[p] THEN "copy" ELSE "cleanup")
  /\ UNCHANGED <<world, latest, disk, plan, replaced, files, work, since>>

(* install_binary: the copy, the mode and the rename. *)
Copy(p) ==
  /\ At(p, "copy")
  /\ staged' = [staged EXCEPT ![p] = [build |-> got[p], whole |-> FALSE, mode |-> "umask"]]
  /\ Goto(p, "copying")
  /\ UNCHANGED <<world, latest, disk, plan, replaced, left, work, since>>

Copied(p) ==
  /\ At(p, "copying")
  /\ staged' = [staged EXCEPT ![p] = [build |-> got[p], whole |-> TRUE, mode |-> "umask"]]
  /\ Goto(p, "chmod")
  /\ UNCHANGED <<world, latest, disk, plan, replaced, left, work, since>>

Chmod(p) ==
  /\ At(p, "chmod")
  /\ staged' = [staged EXCEPT ![p] = Whole(got[p])]
  /\ Goto(p, "rename")
  /\ UNCHANGED <<world, latest, disk, plan, replaced, left, work, since>>

(* The file every invocation was started from goes with the rename.        *)
(* History: p has put its build there, and those before it see another.    *)
Rename(p) ==
  /\ At(p, "rename")
  /\ IF dest[p] = "place"
     THEN /\ installed' = staged[p]
          /\ replaced' = [q \in Updater |-> replaced[q] \/ ~At(q, "idle")]
          /\ UNCHANGED stray
     ELSE stray' = staged[p] /\ UNCHANGED <<installed, replaced>>
  /\ staged' = [staged EXCEPT ![p] = None]
  /\ since' = [q \in Updater |->
                 IF q = p THEN {got[p]}
                 ELSE IF since[q] # {} /\ dest[q] = dest[p] THEN since[q] \cup {got[p]}
                 ELSE since[q]]
  /\ Goto(p, "return")
  /\ UNCHANGED <<world, latest, scripts, plan, left, work>>

(* install returns, and its TempDir is dropped. *)
Return(p) ==
  /\ At(p, "return")
  /\ left' = [left EXCEPT ![p] = @ \ {"tempdir"}]
  /\ Goto(p, "refresh")
  /\ UNCHANGED <<world, latest, disk, plan, replaced, staged, work, since>>

(* The early returns of install and of install_binary.                     *)
Cleanup_not_staged(p) ==
  /\ At(p, "cleanup")
  /\ left' = [left EXCEPT ![p] = @ \ {"tempdir"}]
  /\ Goto(p, "failed")
  /\ UNCHANGED <<world, latest, disk, plan, replaced, staged, work, since>>
Cleanup(p) ==
  /\ At(p, "cleanup")
  /\ left' = [left EXCEPT ![p] = @ \ {"tempdir"}]
  /\ staged' = [staged EXCEPT ![p] = None]
  /\ Goto(p, "failed")
  /\ UNCHANGED <<world, latest, disk, plan, replaced, work, since>>

(* refresh_installed: a shell that has no script is left alone; the others *)
(* are rendered by the binary that is at dest now.                         *)
AtDest_running(p) == running[p]
AtDest(p) == IF dest[p] = "place" THEN installed.build ELSE stray.build

Refresh(p) ==
  /\ At(p, "refresh")
  /\ IF turn[p] > Len(Shells) THEN Goto(p, "done") /\ UNCHANGED work
     ELSE IF scripts[turn[p]] = None
     THEN turn' = [turn EXCEPT ![p] = @ + 1] /\ UNCHANGED <<pc, rendered>>
     ELSE /\ rendered' = [rendered EXCEPT ![p] = AtDest(p)]
          /\ Goto(p, "truncate")
          /\ UNCHANGED turn
  /\ UNCHANGED <<world, latest, disk, plan, replaced, files, since>>

(* fs::write truncates the script, then fills it. *)
Truncate(p) ==
  /\ At(p, "truncate")
  /\ scripts' = [scripts EXCEPT ![turn[p]] = [build |-> rendered[p], whole |-> FALSE, mode |-> "umask"]]
  /\ Goto(p, "write")
  /\ UNCHANGED <<world, latest, installed, stray, plan, replaced, files, work, since>>

WriteScript_skips_one(p) ==
  /\ At(p, "write")
  /\ scripts' = [scripts EXCEPT ![turn[p]] = Whole(rendered[p])]
  /\ turn' = [turn EXCEPT ![p] = @ + 2]
  /\ rendered' = [rendered EXCEPT ![p] = None]
  /\ Goto(p, "refresh")
  /\ UNCHANGED <<world, latest, installed, stray, plan, replaced, files, since>>
WriteScript(p) ==
  /\ At(p, "write")
  /\ scripts' = [scripts EXCEPT ![turn[p]] = Whole(rendered[p])]
  /\ turn' = [turn EXCEPT ![p] = @ + 1]
  /\ rendered' = [rendered EXCEPT ![p] = None]
  /\ Goto(p, "refresh")
  /\ UNCHANGED <<world, latest, installed, stray, plan, replaced, files, since>>

(* Any call may fail: the network, tar, the disk. What fails before        *)
(* anything was made fails the update; what fails while it is refreshing   *)
(* scripts is a warning.                                                   *)
Fails(p) ==
  /\ \/ pc[p] \in {"check", "begin", "probe", "tarball", "sums", "stage"} /\ Goto(p, "failed")
     \/ pc[p] \in {"extract", "smoke", "copy", "copying", "chmod", "rename"}
        /\ Goto(p, "cleanup")
     \/ pc[p] \in {"refresh", "truncate", "write"} /\ Goto(p, "done")
  /\ UNCHANGED <<world, latest, disk, plan, replaced, files, work, since>>

Crash(p) ==
  /\ pc[p] \in Steps
  /\ Goto(p, "crashed")
  /\ UNCHANGED <<world, latest, disk, plan, replaced, files, work, since>>

Install(p) ==
  \/ Begin(p) \/ Probe(p) \/ Unprobe(p) \/ FetchTarball(p) \/ FetchSums(p)
  \/ MakeStaging(p) \/ Extract(p) \/ SmokeTest(p)
  \/ Copy(p) \/ Copied(p) \/ Chmod(p) \/ Rename(p) \/ Return(p) \/ Cleanup(p)

RefreshScripts(p) == Refresh(p) \/ Truncate(p) \/ WriteScript(p)

Next ==
  \/ \E v \in Version : Publish(v)
  \/ \E p \in Updater :
       \/ \E arg \in Version \cup {"prompt", "latest"} : Start(p, arg)
       \/ Check(p) \/ Confirm(p)
       \/ Install(p)
       \/ RefreshScripts(p)
       \/ Fails(p) \/ Crash(p)

Spec == Init /\ [][Next]_vars

-----------------------------------------------------------------------------
TypeOK ==
  /\ host \in {"linux", "macos"} /\ managed \in BOOLEAN
  /\ listed \in [Version -> Build \cup {None}] /\ latest \in Version
  /\ installed \in File /\ stray \in File \cup {None}
  /\ scripts \in [1..Len(Shells) -> File \cup {None}]
  /\ pc \in [Updater -> {"idle"} \cup Steps \cup Ended]
  /\ asked \in [Updater -> Version \cup {"prompt", "latest", None}]
  /\ running \in [Updater -> Build \cup {None}]
  /\ replaced \in [Updater -> BOOLEAN]
  /\ want \in [Updater -> Version \cup {None}]
  /\ dest \in [Updater -> {"place", "stray"}]
  /\ got \in [Updater -> Build \cup {None}]
  /\ left \in [Updater -> SUBSET {"probe", "tempdir"}]
  /\ staged \in [Updater -> File \cup {None}]
  /\ turn \in [Updater -> 1..Len(Shells) + 1]
  /\ rendered \in [Updater -> Build \cup {None}]
  /\ since \in [Updater -> SUBSET Build]

(* "Either the old binary or the new one is there, never a half-written    *)
(* file" (install_binary), and "a failed update leaves the working binary  *)
(* in place" (USAGE.md): whatever arrives, fails or is killed, and however *)
(* many update at once, what is installed is a whole release that anyone   *)
(* may run, that runs, and that is the version it was published as.        *)
InstalledIsARelease ==
  /\ installed.whole /\ installed.mode = "all"
  /\ \E v \in Version : Good(installed.build, v)

(* "A failed update leaves nothing behind in a directory like              *)
(* /usr/local/bin" (install_binary), nor in the temporary directory: an    *)
(* update that was not killed has removed every file it made.              *)
NothingLeftBehind ==
  \A p \in Updater : pc[p] \in {"done", "failed"} => left[p] = {} /\ staged[p] = None

(* "It must run the newly installed binary rather than generating          *)
(* in-process" (refresh_installed): a script is rendered by a build that   *)
(* was put in place by this update, or by another one after it.            *)
ScriptsComeFromTheNewBinary ==
  \A p \in Updater : rendered[p] # None => rendered[p] \in since[p]

(* USAGE.md:765: "An explicit version installs exactly that", and so does  *)
(* an answered prompt: once tekops says `installed tekops <version>', the  *)
(* command is that version, or one that was installed after it.            *)
InstalledWhatItSays ==
  \A p \in Updater : At(p, "refresh") => installed.build \in since[p]

=============================================================================
