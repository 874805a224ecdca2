---------------------------- MODULE Completions ----------------------------
(***************************************************************************)
(* The completion scripts of one account: `tekops autocomplete', run by    *)
(* several processes, and the refresh after an update of the binary, both  *)
(* of completions.rs.                                                      *)
(*                                                                         *)
(* A script is the build that rendered it and whether it is all there.  An *)
(* rc file is the sequence of the stanzas tekops appended to it, each with *)
(* the script it makes the shell load; a write that fails half-way leaves  *)
(* one that has the marker and nothing that works.                         *)
(*                                                                         *)
(* A definition that carries another's name and a suffix is that operation *)
(* with a slip in it, kept to show that the properties notice the slip.    *)
(***************************************************************************)
EXTENDS Integers, Sequences, Option

CONSTANTS Installer,       \* invocations of `tekops autocomplete'
          Environment,     \* what they may be started with
          Build, OldBuild, NewBuild

Shell    == {"bash", "zsh", "fish"}
Shells   == <<"bash", "zsh", "fish">>       \* the order of refresh_installed
RcName   == {".bashrc", ".bash_profile", ".zshrc"}
BaseDir  == {"home", "elsewhere"}
Path     == Shell \X BaseDir
Script   == [build : Build, whole : BOOLEAN]
Stanza   == [path : Path, whole : BOOLEAN]
Outcome  == {"NotNeeded", "AlreadyPresent", "Appended"}
Stages   == {"idle", "prompt", "mkdir", "truncate", "write", "readrc", "append",
             "done", "printed", "aborted", "failed", "crashed"}
Ended    == {"done", "printed", "aborted", "failed", "crashed"}

ASSUME CompletionsAssumption ==
  /\ None \notin Build \cup Shell \cup RcName \cup Outcome \cup Script
  /\ {OldBuild, NewBuild} \subseteq Build
  /\ \A e \in Environment : e.data \in BaseDir /\ e.config \in BaseDir /\ e.home \in BOOLEAN

VARIABLES macos, build,           \* the platform; the build at tekops' path
          scripts, rc,            \* the files
          pc, plan, script, outcome,
          stage, env, turn, fresh,    \* of the update
          agreed,      \* history: the paths some run was let write
          homes,       \* history: the base directories in use so far
          overlapped, torn, warned    \* history

files  == <<scripts, rc>>
run    == <<pc, plan, script, outcome>>
update == <<build, stage, env, turn, fresh, warned>>
past   == <<agreed, homes, overlapped, torn>>
vars   == <<macos, files, run, update, past>>

Whole(b)     == [build |-> b, whole |-> TRUE]
Goto(i, s)   == pc' = [pc EXCEPT ![i] = s]
Active(i)    == pc[i] \notin {"idle"} \cup Ended
Updating     == stage \notin {"idle", "done"}

-----------------------------------------------------------------------------
DetectShell_any(shell) == shell
DetectShell(shell) == IF shell \in Shell THEN shell ELSE None

BashRcName_bashrc_everywhere(mac) == ".bashrc"
BashRcName(mac) == IF mac THEN ".bash_profile" ELSE ".bashrc"

(* What plan works out: where the script goes, and the rc file to edit.    *)
ScriptPath(shell, e) ==
  <<shell, CASE shell = "bash" -> e.data [] shell = "fish" -> e.config [] OTHER -> "home">>

RcFile(shell) ==
  IF shell = "bash" THEN BashRcName(macos) ELSE IF shell = "zsh" THEN ".zshrc" ELSE None

Mine(i) == ScriptPath(plan[i].shell, plan[i].env)

-----------------------------------------------------------------------------
Init ==
  /\ macos \in BOOLEAN /\ build = OldBuild
  /\ scripts = [p \in Path |-> None] /\ rc = [r \in RcName |-> <<>>]
  /\ pc = [i \in Installer |-> "idle"] /\ plan = [i \in Installer |-> None]
  /\ script = [i \in Installer |-> None] /\ outcome = [i \in Installer |-> None]
  /\ stage = "idle" /\ env \in Environment /\ turn = 1 /\ fresh = None
  /\ agreed = {} /\ homes = {} /\ overlapped = FALSE /\ torn = FALSE /\ warned = FALSE

FirstStep(shell, e, flag) ==
  IF shell = None THEN "failed"
  ELSE IF flag = "--print" THEN "printed"
  ELSE IF ~e.home THEN "failed"
  ELSE IF flag = "--yes" THEN "mkdir" ELSE "prompt"

(* run_autocomplete up to the prompt.  The script is rendered here, by the *)
(* build that runs, and kept until it is written.                          *)
Begin(i, arg, e, flag) ==
  LET shell == IF arg = None THEN DetectShell(e.shell) ELSE arg IN
  /\ pc[i] = "idle"
  /\ plan' = [plan EXCEPT ![i] = [shell |-> shell, env |-> e]]
  /\ script' = [script EXCEPT ![i] = build]
  /\ Goto(i, FirstStep(shell, e, flag))
  /\ agreed' = IF flag = "--yes" /\ shell # None THEN agreed \cup {ScriptPath(shell, e)} ELSE agreed
  /\ homes' = homes \cup {<<e.data, e.config>>}
  /\ overlapped' = (overlapped \/ Updating \/ \E j \in Installer : Active(j))
  /\ UNCHANGED <<macos, files, outcome, update, torn>>

ConfirmInstall(i) ==
  /\ pc[i] = "prompt"
  /\ \/ Goto(i, "mkdir") /\ agreed' = agreed \cup {Mine(i)}
     \/ Goto(i, "aborted") /\ UNCHANGED agreed
  /\ UNCHANGED <<macos, files, plan, script, outcome, update, homes, overlapped, torn>>

(* apply: the directory, the script, then the rc file.                     *)
CreateDir_rc_first(i) ==
  /\ pc[i] = "mkdir"
  /\ Goto(i, IF RcFile(plan[i].shell) = None THEN "truncate" ELSE "readrc")
  /\ UNCHANGED <<macos, files, plan, script, outcome, update, past>>
CreateDir(i) ==
  /\ pc[i] = "mkdir"
  /\ Goto(i, "truncate")
  /\ UNCHANGED <<macos, files, plan, script, outcome, update, past>>

Truncate(i) ==
  /\ pc[i] = "truncate"
  /\ scripts' = [scripts EXCEPT ![Mine(i)] = [build |-> script[i], whole |-> FALSE]]
  /\ Goto(i, "write")
  /\ UNCHANGED <<macos, rc, plan, script, outcome, update, past>>

WriteScript(i) ==
  /\ pc[i] = "write"
  /\ scripts' = [scripts EXCEPT ![Mine(i)] = Whole(script[i])]
  /\ IF RcFile(plan[i].shell) = None
     THEN Goto(i, "done") /\ outcome' = [outcome EXCEPT ![i] = "NotNeeded"]
     ELSE Goto(i, "readrc") /\ UNCHANGED outcome
  /\ UNCHANGED <<macos, rc, plan, script, update, past>>

(* A stanza is recognised by its marker, whatever stands under it.         *)
ReadRc_unmarked(i) ==
  /\ pc[i] = "readrc"
  /\ Goto(i, "append")
  /\ UNCHANGED <<macos, files, plan, script, outcome, update, past>>
ReadRc(i) ==
  /\ pc[i] = "readrc"
  /\ IF rc[RcFile(plan[i].shell)] # <<>>
     THEN Goto(i, "done") /\ outcome' = [outcome EXCEPT ![i] = "AlreadyPresent"]
     ELSE Goto(i, "append") /\ UNCHANGED outcome
  /\ UNCHANGED <<macos, files, plan, script, update, past>>

AppendStanza(i) ==
  LET file == RcFile(plan[i].shell) IN
  /\ pc[i] = "append"
  /\ \E whole \in BOOLEAN :
       /\ rc' = [rc EXCEPT ![file] = Append(@, [path |-> Mine(i), whole |-> whole])]
       /\ IF whole
          THEN Goto(i, "done") /\ outcome' = [outcome EXCEPT ![i] = "Appended"]
          ELSE Goto(i, "failed") /\ UNCHANGED outcome
       /\ torn' = (torn \/ ~whole)
  /\ UNCHANGED <<macos, scripts, plan, script, update, agreed, homes, overlapped>>

(* Any call may fail, and the process may be killed between any two.       *)
Fails(i) ==
  /\ Active(i)
  /\ \E end \in {"failed", "crashed"} : Goto(i, end)
  /\ UNCHANGED <<macos, files, plan, script, outcome, update, past>>

-----------------------------------------------------------------------------
(* install_version has renamed the new build into place.                   *)
NewBinary ==
  /\ stage = "idle"
  /\ build' = NewBuild
  /\ stage' = IF env.home THEN "refresh" ELSE "done"
  /\ warned' = ~env.home
  /\ overlapped' = (overlapped \/ \E j \in Installer : Active(j))
  /\ homes' = homes \cup {<<env.data, env.config>>}
  /\ UNCHANGED <<macos, files, run, env, turn, fresh, agreed, torn>>

Current == ScriptPath(Shells[turn], env)

NextShell ==
  /\ turn' = IF turn = Len(Shells) THEN turn ELSE turn + 1
  /\ stage' = IF turn = Len(Shells) THEN "done" ELSE "refresh"

(* refresh_installed, one shell: a script that is not there is not the     *)
(* user's wish, and one that cannot be rendered ends the whole refresh.    *)
Exists_assumed(p) == TRUE
Exists(p) == scripts[p] # None

Skip_rest(p) ==
  /\ stage = "refresh" /\ ~Exists(p)
  /\ stage' = "done"
  /\ UNCHANGED <<macos, files, run, build, turn, env, fresh, warned, past>>
Skip(p) ==
  /\ stage = "refresh" /\ ~Exists(p)
  /\ NextShell
  /\ UNCHANGED <<macos, files, run, build, env, fresh, warned, past>>

Render(p) ==
  /\ stage = "refresh" /\ Exists(p)
  /\ fresh' = build /\ stage' = "truncate"
  /\ UNCHANGED <<macos, files, run, build, turn, env, warned, past>>

Retruncate(p) ==
  /\ stage = "truncate"
  /\ scripts' = [scripts EXCEPT ![p] = [build |-> fresh, whole |-> FALSE]]
  /\ stage' = "write"
  /\ UNCHANGED <<macos, rc, run, build, turn, env, fresh, warned, past>>

Rewrite(p) ==
  /\ stage = "write"
  /\ scripts' = [scripts EXCEPT ![p] = Whole(fresh)]
  /\ NextShell
  /\ UNCHANGED <<macos, rc, run, build, env, fresh, warned, past>>

(* refresh_completions turns an error into a warning.                      *)
Warn ==
  /\ Updating
  /\ stage' = "done" /\ warned' = TRUE
  /\ UNCHANGED <<macos, files, run, build, turn, env, fresh, past>>

RefreshInstalled == Skip(Current) \/ Render(Current) \/ Retruncate(Current) \/ Rewrite(Current)

Install(i) == \/ ConfirmInstall(i) \/ CreateDir(i) \/ Truncate(i) \/ WriteScript(i)
              \/ ReadRc(i) \/ AppendStanza(i) \/ Fails(i)

Next ==
  \/ \E i \in Installer :
       \/ \E arg \in Shell \cup {None}, e \in Environment, flag \in {"--print", "--yes", "none"} :
            Begin(i, arg, e, flag)
       \/ Install(i)
  \/ NewBinary \/ RefreshInstalled \/ Warn

Spec == Init /\ [][Next]_vars

-----------------------------------------------------------------------------
FilesTypeOK ==
  /\ scripts \in [Path -> Script \cup {None}]
  /\ rc \in [RcName -> Seq(Stanza)]

TypeOK ==
  /\ macos \in BOOLEAN /\ build \in Build
  /\ FilesTypeOK
  /\ pc \in [Installer -> Stages]
  /\ \A i \in Installer : Active(i) => plan[i].shell \in Shell /\ plan[i].env \in Environment
  /\ script \in [Installer -> Build \cup {None}]
  /\ outcome \in [Installer -> Outcome \cup {None}]
  /\ stage \in {"idle", "refresh", "truncate", "write", "done"}
  /\ env \in Environment /\ turn \in 1..Len(Shells) /\ fresh \in Build \cup {None}
  /\ agreed \in SUBSET Path /\ homes \in SUBSET (BaseDir \X BaseDir)
  /\ {overlapped, torn, warned} \subseteq BOOLEAN

(* "Nothing is written until you have seen exactly what will be written    *)
(* and said yes" (USAGE.md:725), and a refresh "never installs completions *)
(* for a shell they did not ask about" (completions.rs:138): every file    *)
(* there is was agreed to, whatever ran between the asking and now.        *)
NothingWithoutConsent ==
  /\ \A p \in Path : scripts[p] # None => p \in agreed
  /\ \A r \in RcName : \A k \in DOMAIN rc[r] : rc[r][k].path \in agreed

(* A shell is never told to load a script that has not been written, even  *)
(* by an install that was killed or failed half-way.                       *)
StanzaHasItsScript ==
  \A r \in RcName : \A k \in DOMAIN rc[r] : scripts[rc[r][k].path] # None

(* "Re-running is safe: ... the rc stanza is added once and then           *)
(* recognized and left alone" (USAGE.md:726), of runs that do not overlap, *)
(* after failures and kills, from other environments and other builds.     *)
AddedOnce == ~overlapped => \A r \in RcName : Len(rc[r]) <= 1

(* The files of the operator after any mixture of installs, refreshes,     *)
(* failures and kills: nothing unasked, nothing dangling, nothing twice    *)
(* (execute, refresh_installed).                                           *)
FilesAreSound ==
  /\ TypeOK
  /\ NothingWithoutConsent
  /\ StanzaHasItsScript
  /\ AddedOnce

(* What a new shell of this kind loads: on macOS a bash reads its profile. *)
Loaded(shell, p) ==
  /\ scripts[p] # None /\ scripts[p].whole
  /\ shell # "fish" =>
       LET reads == IF shell = "zsh" THEN ".zshrc"
                    ELSE IF macos THEN ".bash_profile" ELSE ".bashrc"
       IN \E k \in DOMAIN rc[reads] : rc[reads][k] = [path |-> p, whole |-> TRUE]

(* "Start a new shell to pick the completions up" (USAGE.md:747): a run    *)
(* that says it installed leaves a shell that loads the whole script, also *)
(* when the stanza is an earlier run's - unless that one's write failed,   *)
(* was made for another directory, or something else was writing.          *)
DoneMeansLoaded ==
  [][ \A i \in Installer :
        /\ pc[i] # "done" /\ pc'[i] = "done" /\ ~overlapped'
        /\ outcome'[i] = "AlreadyPresent" => ~torn' /\ \E h \in BaseDir \X BaseDir : homes' = {h}
        => Loaded(plan[i].shell, Mine(i))' ]_vars

(* "Keeps an installed script honest across a `tekops update'"             *)
(* (completions.rs:128): a refresh that ended without a warning, with      *)
(* nothing else writing, has left no script of the old build, nor one that *)
(* an earlier install left half-written.                                   *)
RefreshLeavesNoneBehind ==
  [][ /\ stage # "done" /\ stage' = "done" /\ ~warned' /\ ~overlapped'
      /\ \E h \in BaseDir \X BaseDir : homes' = {h}
      => \A p \in Path : scripts'[p] \in {None, Whole(build')} ]_vars

=============================================================================
