------------------------- MODULE CompletionsProofs -------------------------
(***************************************************************************)
(* What is proved of Completions: the files of the account stay sound, a   *)
(* run that says it installed has, and a refresh leaves nothing behind, for*)
(* any number of installs, environments and builds.                        *)
(***************************************************************************)
EXTENDS Completions, TLAPS

Writing == {"mkdir", "truncate", "write", "readrc", "append"}

(* What a run in progress holds, beyond TypeOK.                            *)
PlansAreTyped ==
  /\ plan \in [Installer -> [shell : Shell, env : Environment] \cup [shell : {None}, env : Environment] \cup {None}]
  /\ \A i \in Installer : Active(i) => script[i] \in Build
  /\ \A i \in Installer : pc[i] \in {"readrc", "append"} => RcFile(plan[i].shell) \in RcName
  /\ stage \in {"truncate", "write"} => fresh \in Build

(* A run that writes was let; the refresh writes only over what is there.  *)
ConsentGoesAhead ==
  /\ \A i \in Installer : pc[i] \in Writing => Mine(i) \in agreed
  /\ stage \in {"truncate", "write"} => Current \in agreed

(* The script is there before the rc file is looked at.                    *)
ScriptGoesAhead ==
  \A i \in Installer : pc[i] \in {"readrc", "append"} => scripts[Mine(i)] # None

(* As long as no two runs have overlapped there is one, and what it has    *)
(* read of its rc file is still so.                                        *)
RunsAreAlone ==
  ~overlapped =>
    /\ \A i, j \in Installer : Active(i) /\ Active(j) => i = j
    /\ Updating => \A i \in Installer : ~Active(i)
    /\ \A i \in Installer : pc[i] = "append" => rc[RcFile(plan[i].shell)] = <<>>

IInv ==
  /\ TypeOK /\ PlansAreTyped
  /\ NothingWithoutConsent /\ ConsentGoesAhead
  /\ StanzaHasItsScript /\ ScriptGoesAhead
  /\ AddedOnce /\ RunsAreAlone

-----------------------------------------------------------------------------
(* plan puts every script at one of the paths (completions.rs:68-124).     *)
LEMMA ScriptPathIsPath ==
  ASSUME NEW shell \in Shell, NEW e \in Environment
  PROVE  ScriptPath(shell, e) \in Path
BY CompletionsAssumption DEF ScriptPath, Path, BaseDir, Shell

(* Each shell the refresh comes to has its path (completions.rs:126-153).  *)
LEMMA CurrentIsPath ==
  ASSUME TypeOK
  PROVE  Current \in Path
<1>1. Shells[turn] \in Shell
  BY DEF TypeOK, Shells, Shell
<1> QED
  BY <1>1, ScriptPathIsPath DEF Current, TypeOK

(* A script that is there is told from none.                               *)
LEMMA ScriptIsThere ==
  ASSUME NEW b \in Build, NEW whole \in BOOLEAN
  PROVE  /\ [build |-> b, whole |-> whole] \in Script
         /\ [build |-> b, whole |-> whole] # None
<1>1. [build |-> b, whole |-> whole] \in Script
  BY DEF Script
<1> QED
  BY <1>1, CompletionsAssumption

(* A run in progress has a plan for one of the shells and paths.           *)
LEMMA ActiveHasPlan ==
  ASSUME TypeOK, NEW i \in Installer, Active(i)
  PROVE  /\ plan[i].shell \in Shell /\ plan[i].env \in Environment
         /\ Mine(i) \in Path
BY ScriptPathIsPath DEF TypeOK, Mine

(* A stanza in an rc file names one of the paths.                          *)
LEMMA StanzaPathIsPath ==
  ASSUME FilesTypeOK, NEW r \in RcName, NEW k \in DOMAIN rc[r]
  PROVE  rc[r][k].path \in Path
<1>1. rc[r] \in Seq(Stanza)
  BY DEF FilesTypeOK
<1>2. rc[r][k] \in Stanza
  BY <1>1
<1> QED
  BY <1>2 DEF Stanza

-----------------------------------------------------------------------------
LEMMA InitSound == Init => IInv
<1> SUFFICES ASSUME Init
    PROVE  IInv
  OBVIOUS
<1>1. TypeOK
  <2>1. FilesTypeOK
    BY DEF Init, FilesTypeOK
  <2>2. /\ pc \in [Installer -> Stages] /\ stage \in {"idle", "refresh", "truncate", "write", "done"}
        /\ \A i \in Installer : ~Active(i)
    BY DEF Init, Stages, Active
  <2>3. build \in Build /\ turn \in 1..Len(Shells)
    BY CompletionsAssumption DEF Init, Shells
  <2>4. {overlapped, torn, warned} \subseteq BOOLEAN
    BY DEF Init
  <2> QED
    BY <2>1, <2>2, <2>3, <2>4 DEF Init, TypeOK
<1>2. PlansAreTyped
  BY DEF Init, PlansAreTyped, Active
<1>3. NothingWithoutConsent /\ StanzaHasItsScript /\ AddedOnce
  BY DEF Init, NothingWithoutConsent, StanzaHasItsScript, AddedOnce
<1>4. ConsentGoesAhead /\ ScriptGoesAhead /\ RunsAreAlone
  BY DEF Init, ConsentGoesAhead, ScriptGoesAhead, RunsAreAlone, Active, Updating, Writing
<1> QED
  BY <1>1, <1>2, <1>3, <1>4 DEF IInv

-----------------------------------------------------------------------------
(* run_autocomplete up to the prompt starts the one run of its installer.  *)
LEMMA BeginSound ==
  ASSUME IInv, NEW i \in Installer, NEW arg \in Shell \cup {None}, NEW e \in Environment,
         NEW flag \in {"--print", "--yes", "none"}, Begin(i, arg, e, flag)
  PROVE  IInv'
<1> DEFINE shell == IF arg = None THEN DetectShell(e.shell) ELSE arg
           to == FirstStep(shell, e, flag)
<1>1. shell \in Shell \cup {None}
  BY DEF DetectShell
<1>2. /\ to \in {"failed", "printed", "mkdir", "prompt"}
      /\ to \in {"mkdir", "prompt"} => shell # None
      /\ to = "mkdir" => flag = "--yes"
  BY DEF FirstStep
<1>3. /\ pc' = [pc EXCEPT ![i] = to] /\ pc[i] = "idle"
      /\ plan' = [plan EXCEPT ![i] = [shell |-> shell, env |-> e]]
      /\ script' = [script EXCEPT ![i] = build]
      /\ agreed' = IF flag = "--yes" /\ shell # None THEN agreed \cup {ScriptPath(shell, e)} ELSE agreed
      /\ homes' = homes \cup {<<e.data, e.config>>}
      /\ overlapped' = (overlapped \/ Updating \/ \E j \in Installer : Active(j))
      /\ UNCHANGED <<macos, scripts, rc, outcome, build, stage, env, turn, fresh, warned, torn>>
  BY DEF Begin, Goto, files, update
<1>4. shell # None => ScriptPath(shell, e) \in Path
  BY <1>1, ScriptPathIsPath
<1> HIDE DEF shell, to
<1>5. TypeOK'
  <2>1. FilesTypeOK'
    BY <1>3 DEF IInv, TypeOK, FilesTypeOK
  <2>2. /\ pc' \in [Installer -> Stages]
        /\ \A j \in Installer : Active(j)' => plan'[j].shell \in Shell /\ plan'[j].env \in Environment
    BY <1>1, <1>2, <1>3 DEF IInv, TypeOK, PlansAreTyped, Active, Stages, Ended
  <2>3. script' \in [Installer -> Build \cup {None}]
    BY <1>3 DEF IInv, TypeOK
  <2>4. agreed' \in SUBSET Path /\ homes' \in SUBSET (BaseDir \X BaseDir)
    BY <1>3, <1>4, CompletionsAssumption DEF IInv, TypeOK
  <2>5. overlapped' \in BOOLEAN
    BY <1>3 DEF IInv, TypeOK
  <2> QED
    BY <1>3, <2>1, <2>2, <2>3, <2>4, <2>5 DEF IInv, TypeOK
<1>6. PlansAreTyped'
  BY <1>1, <1>2, <1>3 DEF IInv, TypeOK, PlansAreTyped, Active, Ended, RcFile, BashRcName
<1>7. NothingWithoutConsent' /\ StanzaHasItsScript' /\ AddedOnce'
  BY <1>3 DEF IInv, NothingWithoutConsent, StanzaHasItsScript, AddedOnce
<1>8. ConsentGoesAhead' /\ ScriptGoesAhead'
  BY <1>1, <1>2, <1>3
  DEF IInv, TypeOK, PlansAreTyped, ConsentGoesAhead, ScriptGoesAhead, Writing, Mine, Current
<1>9. RunsAreAlone'
  BY <1>2, <1>3
  DEF IInv, TypeOK, PlansAreTyped, RunsAreAlone, Active, Updating, RcFile, BashRcName
<1> QED
  BY <1>5, <1>6, <1>7, <1>8, <1>9 DEF IInv

(* A step of a run that changes no file: the operator's answer, the        *)
(* directory, the look at the rc file, a failure or a kill.                *)
LEMMA QuietStepSound ==
  ASSUME IInv, NEW i \in Installer, NEW to \in Stages, Active(i),
         pc' = [pc EXCEPT ![i] = to], to # "idle",
         agreed \subseteq agreed', agreed' \subseteq Path,
         outcome' \in [Installer -> Outcome \cup {None}],
         UNCHANGED <<macos, files, plan, script, update, homes, overlapped, torn>>,
         to \in Writing => Mine(i) \in agreed',
         to \in {"readrc", "append"} => /\ RcFile(plan[i].shell) \in RcName
                                       /\ scripts[Mine(i)] # None,
         to = "append" => rc[RcFile(plan[i].shell)] = <<>>
  PROVE  IInv'
<1> USE DEF files, update
<1>1. TypeOK'
  BY DEF IInv, TypeOK, FilesTypeOK, Active, Stages
<1>2. PlansAreTyped'
  BY DEF IInv, TypeOK, PlansAreTyped, Active, RcFile, BashRcName
<1>3. NothingWithoutConsent' /\ StanzaHasItsScript' /\ AddedOnce'
  BY DEF IInv, NothingWithoutConsent, StanzaHasItsScript, AddedOnce
<1>4. ConsentGoesAhead' /\ ScriptGoesAhead'
  BY DEF IInv, TypeOK, ConsentGoesAhead, ScriptGoesAhead, Mine, Current
<1>5. RunsAreAlone'
  BY DEF IInv, TypeOK, RunsAreAlone, Active, Updating, RcFile, BashRcName
<1> QED
  BY <1>1, <1>2, <1>3, <1>4, <1>5 DEF IInv

(* A step that writes a script where some run was let to, and moves the    *)
(* install to its next stage: apply's two writes.                          *)
LEMMA WriteStepSound ==
  ASSUME IInv, NEW i \in Installer, pc[i] \in {"truncate", "write"},
         NEW whole \in BOOLEAN, NEW to \in {"write", "readrc", "done"},
         scripts' = [scripts EXCEPT ![Mine(i)] = [build |-> script[i], whole |-> whole]],
         pc' = [pc EXCEPT ![i] = to],
         to = "readrc" => RcFile(plan[i].shell) # None,
         outcome' \in [Installer -> Outcome \cup {None}],
         UNCHANGED <<macos, rc, plan, script, update, past>>
  PROVE  IInv'
<1> USE DEF update, past
<1>1. /\ plan[i].shell \in Shell /\ Mine(i) \in Path /\ Mine(i) \in agreed
      /\ Active(i) /\ script[i] \in Build
  BY ActiveHasPlan DEF IInv, Active, Ended, PlansAreTyped, ConsentGoesAhead, Writing
<1>2. /\ scripts'[Mine(i)] \in Script /\ scripts'[Mine(i)] # None
      /\ scripts' \in [Path -> Script \cup {None}]
      /\ \A p \in Path : scripts[p] # None => scripts'[p] # None
      /\ \A p \in Path : p # Mine(i) => scripts'[p] = scripts[p]
  BY <1>1, ScriptIsThere DEF IInv, TypeOK, FilesTypeOK
<1>3. TypeOK'
  <2>1. pc' \in [Installer -> Stages] /\ \A j \in Installer : Active(j)' => Active(j)
    BY <1>1 DEF IInv, TypeOK, Active, Stages, Ended
  <2> QED
    BY <1>2, <2>1 DEF IInv, TypeOK, FilesTypeOK
<1>4. PlansAreTyped'
  BY <1>1 DEF IInv, TypeOK, PlansAreTyped, Active, Ended, RcFile, BashRcName, RcName, Shell
<1>5. NothingWithoutConsent' /\ AddedOnce'
  BY <1>1, <1>2 DEF IInv, NothingWithoutConsent, AddedOnce
<1>6. StanzaHasItsScript'
  <2> SUFFICES ASSUME NEW r \in RcName, NEW k \in DOMAIN rc[r]
      PROVE  scripts'[rc[r][k].path] # None
    BY DEF StanzaHasItsScript
  <2>1. rc[r][k].path \in Path
    BY StanzaPathIsPath DEF IInv, TypeOK
  <2> QED
    BY <2>1, <1>2 DEF IInv, StanzaHasItsScript
<1>7. ConsentGoesAhead'
  BY <1>1 DEF IInv, TypeOK, ConsentGoesAhead, Writing, Mine, Current
<1>8. ScriptGoesAhead'
  <2> SUFFICES ASSUME NEW j \in Installer, pc'[j] \in {"readrc", "append"}
      PROVE  scripts'[Mine(j)] # None
    BY DEF ScriptGoesAhead, Mine
  <2>1. CASE j = i
    BY <2>1, <1>2
  <2>2. CASE j # i
    <3>1. pc[j] \in {"readrc", "append"}
      BY <2>2 DEF IInv, TypeOK
    <3>2. Mine(j) \in Path
      BY <3>1, ActiveHasPlan DEF IInv, Active, Ended
    <3> QED
      BY <3>1, <3>2, <1>2 DEF IInv, ScriptGoesAhead
  <2> QED
    BY <2>1, <2>2
<1>9. RunsAreAlone'
  BY <1>1 DEF IInv, TypeOK, RunsAreAlone, Active, Ended, Updating, RcFile, BashRcName
<1> QED
  BY <1>3, <1>4, <1>5, <1>6, <1>7, <1>8, <1>9 DEF IInv

(* The stanza is appended once the script is there; by a run that is alone *)
(* to a file that still has none.                                          *)
LEMMA AppendStanzaSound ==
  ASSUME IInv, NEW i \in Installer, AppendStanza(i)
  PROVE  IInv'
<1> DEFINE file == RcFile(plan[i].shell)
<1>1. PICK whole \in BOOLEAN :
        /\ rc' = [rc EXCEPT ![file] = Append(@, [path |-> Mine(i), whole |-> whole])]
        /\ IF whole
           THEN Goto(i, "done") /\ outcome' = [outcome EXCEPT ![i] = "Appended"]
           ELSE Goto(i, "failed") /\ UNCHANGED outcome
        /\ torn' = (torn \/ ~whole)
  BY DEF AppendStanza
<1> DEFINE stanza == [path |-> Mine(i), whole |-> whole]
<1>2. /\ pc[i] = "append" /\ pc' = [pc EXCEPT ![i] = IF whole THEN "done" ELSE "failed"]
      /\ outcome' \in [Installer -> Outcome \cup {None}]
      /\ torn' \in BOOLEAN
      /\ UNCHANGED <<macos, scripts, plan, script, build, stage, env, turn, fresh, warned, agreed, homes, overlapped>>
  BY <1>1 DEF AppendStanza, Goto, IInv, TypeOK, Outcome, update
<1>3. /\ file \in RcName /\ Mine(i) \in Path /\ Mine(i) \in agreed
      /\ scripts[Mine(i)] # None /\ Active(i)
  BY <1>2, ActiveHasPlan
  DEF IInv, PlansAreTyped, ConsentGoesAhead, ScriptGoesAhead, Writing, Active, Ended
<1>4. stanza \in Stanza
  BY <1>3 DEF Stanza
<1> HIDE DEF file
<1>5. /\ rc'[file] = Append(rc[file], stanza)
      /\ \A r \in RcName : r # file => rc'[r] = rc[r]
      /\ \A r \in RcName : rc[r] \in Seq(Stanza)
  <2>1. rc \in [RcName -> Seq(Stanza)]
    BY DEF IInv, TypeOK, FilesTypeOK
  <2> QED
    BY <2>1, <1>1, <1>3
<1>6. \A r \in RcName : \A k \in DOMAIN rc'[r] :
        \/ k \in DOMAIN rc[r] /\ rc'[r][k] = rc[r][k]
        \/ rc'[r][k] = stanza
  <2> SUFFICES ASSUME NEW r \in RcName, NEW k \in DOMAIN rc'[r]
      PROVE  \/ k \in DOMAIN rc[r] /\ rc'[r][k] = rc[r][k]
             \/ rc'[r][k] = stanza
    OBVIOUS
  <2>1. CASE r = file
    BY <2>1, <1>4, <1>5
  <2>2. CASE r # file
    BY <2>2, <1>5
  <2> QED
    BY <2>1, <2>2
<1>7. TypeOK'
  <2>1. FilesTypeOK'
    <3>1. rc' \in [RcName -> Seq(Stanza)]
      BY <1>1, <1>3, <1>4, <1>5 DEF IInv, TypeOK, FilesTypeOK
    <3> QED
      BY <3>1, <1>2 DEF IInv, TypeOK, FilesTypeOK
  <2>2. pc' \in [Installer -> Stages] /\ \A j \in Installer : Active(j)' => Active(j)
    BY <1>2, <1>3 DEF IInv, TypeOK, Active, Stages, Ended
  <2> QED
    BY <1>2, <2>1, <2>2 DEF IInv, TypeOK
<1>8. PlansAreTyped'
  BY <1>2 DEF IInv, TypeOK, PlansAreTyped, Active, Ended, RcFile, BashRcName
<1>9. NothingWithoutConsent' /\ StanzaHasItsScript'
  <2>1. stanza.path = Mine(i)
    OBVIOUS
  <2>2. ASSUME NEW r \in RcName, NEW k \in DOMAIN rc'[r]
        PROVE  rc'[r][k].path \in agreed /\ scripts[rc'[r][k].path] # None
    BY <1>3, <1>6, <2>1, <2>2 DEF IInv, NothingWithoutConsent, StanzaHasItsScript
  <2> QED
    BY <1>2, <2>2 DEF IInv, NothingWithoutConsent, StanzaHasItsScript
<1>10. AddedOnce'
  <2> SUFFICES ASSUME ~overlapped, NEW r \in RcName
      PROVE  Len(rc'[r]) <= 1
    BY <1>2 DEF AddedOnce
  <2>1. CASE r = file
    <3>1. rc[file] = <<>>
      BY <1>2 DEF IInv, RunsAreAlone, file
    <3> QED
      BY <2>1, <3>1, <1>4, <1>5
  <2>2. CASE r # file
    BY <2>2, <1>5 DEF IInv, AddedOnce
  <2> QED
    BY <2>1, <2>2
<1>11. ConsentGoesAhead' /\ ScriptGoesAhead'
  BY <1>2 DEF IInv, TypeOK, ConsentGoesAhead, ScriptGoesAhead, Writing, Mine, Current
<1>12. RunsAreAlone'
  <2> SUFFICES ASSUME ~overlapped
      PROVE  /\ \A j, k \in Installer : Active(j)' /\ Active(k)' => j = k
             /\ Updating' => \A j \in Installer : ~Active(j)'
             /\ \A j \in Installer : pc'[j] # "append"
    BY <1>2 DEF RunsAreAlone
  <2>1. \A j \in Installer : Active(j) => j = i
    BY <1>3 DEF IInv, RunsAreAlone
  <2>2. \A j \in Installer : ~Active(j)'
    BY <1>2, <2>1 DEF IInv, TypeOK, Active, Ended
  <2> QED
    BY <2>2 DEF Active, Ended
<1> QED
  BY <1>7, <1>8, <1>9, <1>10, <1>11, <1>12 DEF IInv

-----------------------------------------------------------------------------
(* A step of the update leaves the installs where they are, and of the     *)
(* files changes at most a script that is there.                           *)
LEMMA UpdateStepSound ==
  ASSUME IInv, UNCHANGED <<macos, rc, run, env, agreed, torn>>,
         build' \in Build,
         stage' \in {"idle", "refresh", "truncate", "write", "done"},
         turn' \in 1..Len(Shells), fresh' \in Build \cup {None},
         warned' \in BOOLEAN, overlapped' \in BOOLEAN,
         homes' \in SUBSET (BaseDir \X BaseDir),
         scripts' \in [Path -> Script \cup {None}],
         \A p \in Path : (scripts[p] # None => scripts'[p] # None) /\ (scripts'[p] # None => p \in agreed),
         stage' \in {"truncate", "write"} => fresh' \in Build /\ Current' \in agreed,
         overlapped => overlapped',
         ~overlapped' /\ Updating' /\ ~Updating => \A i \in Installer : ~Active(i)
  PROVE  IInv'
<1> USE DEF run
<1>1. TypeOK'
  BY DEF IInv, TypeOK, FilesTypeOK, Active
<1>2. PlansAreTyped'
  BY DEF IInv, PlansAreTyped, Active, RcFile, BashRcName
<1>3. NothingWithoutConsent' /\ AddedOnce'
  BY DEF IInv, NothingWithoutConsent, AddedOnce
<1>4. StanzaHasItsScript'
  <2> SUFFICES ASSUME NEW r \in RcName, NEW k \in DOMAIN rc[r]
      PROVE  scripts'[rc[r][k].path] # None
    BY DEF StanzaHasItsScript
  <2>1. rc[r][k].path \in Path
    BY StanzaPathIsPath DEF IInv, TypeOK
  <2> QED
    BY <2>1 DEF IInv, StanzaHasItsScript
<1>5. ConsentGoesAhead'
  BY DEF IInv, ConsentGoesAhead, Mine
<1>6. ScriptGoesAhead'
  <2> SUFFICES ASSUME NEW j \in Installer, pc[j] \in {"readrc", "append"}
      PROVE  scripts'[Mine(j)] # None
    BY DEF ScriptGoesAhead, Mine
  <2>1. Mine(j) \in Path
    BY ActiveHasPlan DEF IInv, Active, Ended
  <2> QED
    BY <2>1 DEF IInv, ScriptGoesAhead
<1>7. RunsAreAlone'
  BY DEF IInv, RunsAreAlone, Active, Updating, RcFile, BashRcName
<1> QED
  BY <1>1, <1>2, <1>3, <1>4, <1>5, <1>6, <1>7 DEF IInv

-----------------------------------------------------------------------------
(* An install, one step at a time (completions.rs:238-320).                *)
LEMMA InstallSound ==
  ASSUME IInv, NEW i \in Installer, Install(i)
  PROVE  IInv'
<1> USE DEF Goto
<1>1. CASE ConfirmInstall(i)
  <2>1. Active(i) /\ Mine(i) \in Path
    BY <1>1, ActiveHasPlan DEF ConfirmInstall, IInv, Active, Ended
  <2>2. /\ outcome' \in [Installer -> Outcome \cup {None}]
        /\ agreed \subseteq Path
    BY <1>1 DEF ConfirmInstall, IInv, TypeOK
  <2>3. CASE pc' = [pc EXCEPT ![i] = "mkdir"] /\ agreed' = agreed \cup {Mine(i)}
    BY <1>1, <2>1, <2>2, <2>3, QuietStepSound DEF ConfirmInstall, Stages
  <2>4. CASE pc' = [pc EXCEPT ![i] = "aborted"] /\ UNCHANGED agreed
    BY <1>1, <2>1, <2>2, <2>4, QuietStepSound DEF ConfirmInstall, Stages, Writing
  <2> QED
    BY <1>1, <2>3, <2>4 DEF ConfirmInstall
<1>2. CASE CreateDir(i)
  <2>1. /\ Active(i) /\ Mine(i) \in agreed /\ agreed \subseteq Path
        /\ outcome \in [Installer -> Outcome \cup {None}]
    BY <1>2 DEF CreateDir, IInv, TypeOK, ConsentGoesAhead, Writing, Active, Ended
  <2> QED
    BY <1>2, <2>1, QuietStepSound DEF CreateDir, Stages, past
<1>3. CASE Truncate(i)
  <2>1. outcome \in [Installer -> Outcome \cup {None}]
    BY DEF IInv, TypeOK
  <2> QED
    BY <1>3, <2>1, WriteStepSound DEF Truncate
<1>4. CASE WriteScript(i)
  <2>1. outcome' \in [Installer -> Outcome \cup {None}]
    BY <1>4 DEF WriteScript, IInv, TypeOK, Outcome
  <2>2. CASE RcFile(plan[i].shell) = None
    BY <1>4, <2>1, <2>2, WriteStepSound DEF WriteScript, Whole
  <2>3. CASE RcFile(plan[i].shell) # None
    BY <1>4, <2>1, <2>3, WriteStepSound DEF WriteScript, Whole
  <2> QED
    BY <2>2, <2>3
<1>5. CASE ReadRc(i)
  <2>1. /\ Active(i) /\ Mine(i) \in agreed /\ agreed \subseteq Path
        /\ RcFile(plan[i].shell) \in RcName /\ scripts[Mine(i)] # None
    BY <1>5 DEF ReadRc, IInv, TypeOK, ConsentGoesAhead, ScriptGoesAhead, PlansAreTyped, Writing, Active, Ended
  <2>2. outcome' \in [Installer -> Outcome \cup {None}]
    BY <1>5 DEF ReadRc, IInv, TypeOK, Outcome
  <2>3. CASE rc[RcFile(plan[i].shell)] # <<>>
    BY <1>5, <2>1, <2>2, <2>3, QuietStepSound DEF ReadRc, Stages, past, Writing
  <2>4. CASE rc[RcFile(plan[i].shell)] = <<>>
    BY <1>5, <2>1, <2>2, <2>4, QuietStepSound DEF ReadRc, Stages, past
  <2> QED
    BY <2>3, <2>4
<1>6. CASE AppendStanza(i)
  BY <1>6, AppendStanzaSound
<1>7. CASE Fails(i)
  <2>1. PICK to \in {"failed", "crashed"} : pc' = [pc EXCEPT ![i] = to]
    BY <1>7 DEF Fails
  <2>2. agreed \subseteq Path /\ outcome \in [Installer -> Outcome \cup {None}]
    BY DEF IInv, TypeOK
  <2> QED
    BY <1>7, <2>1, <2>2, QuietStepSound DEF Fails, Stages, past, Writing
<1> QED
  BY <1>1, <1>2, <1>3, <1>4, <1>5, <1>6, <1>7 DEF Install

(* The new build in place, and the refresh, one shell after the other      *)
(* (completions.rs:126-153).                                               *)
LEMMA UpdateSound ==
  ASSUME IInv, NewBinary \/ RefreshInstalled \/ Warn
  PROVE  IInv'
<1> USE DEF past, files
<1>1. /\ Current \in Path
      /\ turn \in 1..Len(Shells) /\ Len(Shells) = 3
      /\ build \in Build /\ fresh \in Build \cup {None}
      /\ scripts \in [Path -> Script \cup {None}]
      /\ warned \in BOOLEAN /\ overlapped \in BOOLEAN /\ env \in Environment
      /\ homes \in SUBSET (BaseDir \X BaseDir)
      /\ \A p \in Path : scripts[p] # None => p \in agreed
  <2>1. Current \in Path
    BY CurrentIsPath DEF IInv
  <2> QED
    BY <2>1 DEF IInv, TypeOK, FilesTypeOK, Shells, NothingWithoutConsent
<1>2. CASE NewBinary
  <2>1. build' \in Build /\ warned' \in BOOLEAN /\ overlapped' \in BOOLEAN
    BY <1>1, <1>2, CompletionsAssumption DEF NewBinary
  <2>2. homes' \in SUBSET (BaseDir \X BaseDir)
    BY <1>1, <1>2, CompletionsAssumption DEF NewBinary
  <2>3. /\ stage' \in {"refresh", "done"} /\ overlapped => overlapped'
        /\ ~overlapped' => \A i \in Installer : ~Active(i)
    BY <1>2 DEF NewBinary
  <2> QED
    BY <1>1, <1>2, <2>1, <2>2, <2>3, UpdateStepSound DEF NewBinary
<1>3. CASE Skip(Current)
  BY <1>1, <1>3, UpdateStepSound DEF Skip, NextShell, Updating
<1>4. CASE Render(Current)
  <2>1. Current \in agreed
    BY <1>1, <1>4 DEF Render, Exists, IInv, NothingWithoutConsent
  <2>2. Current' = Current
    BY <1>4 DEF Render, Current
  <2> QED
    BY <1>1, <1>4, <2>1, <2>2, UpdateStepSound DEF Render, Updating
<1>5. CASE Retruncate(Current)
  <2>1. Current \in agreed /\ fresh \in Build
    BY <1>5 DEF Retruncate, IInv, ConsentGoesAhead, PlansAreTyped
  <2>2. Current' = Current
    BY <1>5 DEF Retruncate, Current
  <2>3. [build |-> fresh, whole |-> FALSE] \in Script /\ [build |-> fresh, whole |-> FALSE] # None
    BY <2>1, ScriptIsThere
  <2>4. /\ scripts' \in [Path -> Script \cup {None}]
        /\ \A p \in Path : (scripts[p] # None => scripts'[p] # None) /\ (scripts'[p] # None => p \in agreed)
    BY <1>1, <1>5, <2>1, <2>3 DEF Retruncate
  <2> QED
    BY <1>1, <1>5, <2>1, <2>2, <2>4, UpdateStepSound DEF Retruncate, Updating
<1>6. CASE Rewrite(Current)
  <2>1. Current \in agreed /\ fresh \in Build
    BY <1>6 DEF Rewrite, IInv, ConsentGoesAhead, PlansAreTyped
  <2>2. Whole(fresh) \in Script /\ Whole(fresh) # None
    BY <2>1, ScriptIsThere DEF Whole
  <2>3. /\ scripts' \in [Path -> Script \cup {None}]
        /\ \A p \in Path : (scripts[p] # None => scripts'[p] # None) /\ (scripts'[p] # None => p \in agreed)
    BY <1>1, <1>6, <2>1, <2>2 DEF Rewrite
  <2>4. turn' \in 1..Len(Shells) /\ stage' \in {"refresh", "done"}
    BY <1>1, <1>6 DEF Rewrite, NextShell
  <2> QED
    BY <1>1, <1>6, <2>1, <2>3, <2>4, UpdateStepSound DEF Rewrite, Updating
<1>7. CASE Warn
  BY <1>1, <1>7, UpdateStepSound DEF Warn, Updating
<1> QED
  BY <1>2, <1>3, <1>4, <1>5, <1>6, <1>7 DEF RefreshInstalled

(* A step that changes nothing.                                            *)
LEMMA StutterSound ==
  ASSUME IInv, UNCHANGED vars
  PROVE  IInv'
<1> USE DEF vars, files, run, update, past
<1>1. TypeOK' /\ PlansAreTyped'
  BY DEF IInv, TypeOK, FilesTypeOK, PlansAreTyped, Active, RcFile, BashRcName
<1>2. NothingWithoutConsent' /\ StanzaHasItsScript' /\ AddedOnce'
  BY DEF IInv, NothingWithoutConsent, StanzaHasItsScript, AddedOnce
<1>3. ConsentGoesAhead' /\ ScriptGoesAhead' /\ RunsAreAlone'
  BY DEF IInv, ConsentGoesAhead, ScriptGoesAhead, RunsAreAlone, Mine, Current, Active, Updating,
     RcFile, BashRcName
<1> QED
  BY <1>1, <1>2, <1>3 DEF IInv

(* No step of an install or of the update breaks the invariant.            *)
LEMMA InstallsInvariant == Spec => []IInv
<1>1. ASSUME IInv, [Next]_vars
      PROVE  IInv'
  <2>1. ASSUME NEW i \in Installer, NEW arg \in Shell \cup {None}, NEW e \in Environment,
               NEW flag \in {"--print", "--yes", "none"}, Begin(i, arg, e, flag)
        PROVE  IInv'
    BY <1>1, <2>1, BeginSound
  <2>2. ASSUME NEW i \in Installer, Install(i)
        PROVE  IInv'
    BY <1>1, <2>2, InstallSound
  <2>3. CASE NewBinary \/ RefreshInstalled \/ Warn
    BY <1>1, <2>3, UpdateSound
  <2>4. CASE UNCHANGED vars
    BY <1>1, <2>4, StutterSound
  <2> QED
    BY <1>1, <2>1, <2>2, <2>3, <2>4 DEF Next
<1> QED
  BY <1>1, InitSound, PTL DEF Spec

(* Whatever installs, fails, is killed or is refreshed, in any order and   *)
(* number: no file nobody agreed to, no stanza without its script, and one *)
(* stanza as long as runs do not overlap (completions.rs, USAGE.md:725).   *)
THEOREM FilesStaySound == Spec => []FilesAreSound
<1>1. IInv => FilesAreSound
  BY DEF IInv, FilesAreSound
<1> QED
  BY <1>1, InstallsInvariant, PTL

-----------------------------------------------------------------------------
(* Where the script of a shell goes under two base directories.            *)
HomeOf(e) == <<e.data, e.config>>

PathUnder(shell, h) ==
  <<shell, IF shell = "bash" THEN h[1] ELSE IF shell = "fish" THEN h[2] ELSE "home">>

(* Every script and every stanza belongs to a shell and a pair of base     *)
(* directories somebody ran with, and a stanza to the rc file of its shell.*)
PlacesAreKnown ==
  /\ \A p \in Path : scripts[p] # None => \E sh \in Shell, h \in homes : p = PathUnder(sh, h)
  /\ \A r \in RcName : \A k \in DOMAIN rc[r] :
       \E sh \in Shell, h \in homes : RcFile(sh) = r /\ rc[r][k].path = PathUnder(sh, h)
  /\ \A i \in Installer : Active(i) => HomeOf(plan[i].env) \in homes
  /\ Updating => HomeOf(env) \in homes

(* Only a write that failed leaves a stanza in pieces.                     *)
StanzasAreWhole == ~torn => \A r \in RcName : \A k \in DOMAIN rc[r] : rc[r][k].whole

(* What an install wrote is still so when it comes to the rc file.         *)
ScriptStaysWhole ==
  ~overlapped =>
    \A i \in Installer : pc[i] \in {"readrc", "append"} => scripts[Mine(i)] = Whole(script[i])

(* The refresh has dealt with the shells before the one it is at.          *)
RefreshedSoFar ==
  /\ stage = "idle" => turn = 1
  /\ stage \in {"truncate", "write"} => fresh = build
  /\ ~overlapped /\ Updating =>
       \A k \in 1..Len(Shells) :
         k < turn => scripts[ScriptPath(Shells[k], env)] \in {None, Whole(build)}

HonestInv == PlacesAreKnown /\ StanzasAreWhole /\ ScriptStaysWhole /\ RefreshedSoFar

-----------------------------------------------------------------------------
(* What plan works out depends on nothing but the shell and the two base   *)
(* directories (plan).                                                     *)
LEMMA PathIsUnderHome ==
  ASSUME NEW shell \in Shell, NEW e \in Environment
  PROVE  /\ ScriptPath(shell, e) = PathUnder(shell, HomeOf(e))
         /\ HomeOf(e) \in BaseDir \X BaseDir
BY CompletionsAssumption DEF ScriptPath, PathUnder, HomeOf, Shell

(* What was placed stays placed where it was.                              *)
LEMMA PlacesKept ==
  ASSUME PlacesAreKnown, homes \subseteq homes', macos' = macos,
         \A p \in Path : scripts'[p] # None =>
            scripts[p] # None \/ \E sh \in Shell, h \in homes' : p = PathUnder(sh, h),
         \A r \in RcName : \A k \in DOMAIN rc'[r] :
            \/ k \in DOMAIN rc[r] /\ rc'[r][k] = rc[r][k]
            \/ \E sh \in Shell, h \in homes' : RcFile(sh) = r /\ rc'[r][k].path = PathUnder(sh, h),
         \A i \in Installer : Active(i)' =>
            (Active(i) /\ plan'[i] = plan[i]) \/ HomeOf(plan'[i].env) \in homes',
         Updating' => (Updating /\ env' = env) \/ HomeOf(env') \in homes'
  PROVE  PlacesAreKnown'
<1>1. ASSUME NEW p \in Path, scripts'[p] # None
      PROVE  \E sh \in Shell, h \in homes' : p = PathUnder(sh, h)
  BY <1>1 DEF PlacesAreKnown
<1>2. ASSUME NEW r \in RcName, NEW k \in DOMAIN rc'[r]
      PROVE  \E sh \in Shell, h \in homes' : RcFile(sh)' = r /\ rc'[r][k].path = PathUnder(sh, h)
  BY <1>2 DEF PlacesAreKnown, RcFile
<1>3. ASSUME NEW i \in Installer, Active(i)'
      PROVE  HomeOf(plan'[i].env) \in homes'
  BY <1>3 DEF PlacesAreKnown
<1>4. Updating' => HomeOf(env') \in homes'
  BY DEF PlacesAreKnown
<1> QED
  BY <1>1, <1>2, <1>3, <1>4 DEF PlacesAreKnown, HomeOf

(* A run that starts has files from nobody and adds where it was started.  *)
LEMMA BeginHonest ==
  ASSUME IInv, HonestInv, NEW i \in Installer, NEW arg \in Shell \cup {None}, NEW e \in Environment,
         NEW flag \in {"--print", "--yes", "none"}, Begin(i, arg, e, flag)
  PROVE  HonestInv'
<1> DEFINE shell == IF arg = None THEN DetectShell(e.shell) ELSE arg
           to == FirstStep(shell, e, flag)
<1>1. /\ pc' = [pc EXCEPT ![i] = to] /\ to \in {"failed", "printed", "mkdir", "prompt"}
      /\ plan' = [plan EXCEPT ![i] = [shell |-> shell, env |-> e]]
      /\ script' = [script EXCEPT ![i] = build]
      /\ homes' = homes \cup {HomeOf(e)}
      /\ overlapped' = (overlapped \/ Updating \/ \E j \in Installer : Active(j))
      /\ UNCHANGED <<macos, scripts, rc, build, stage, env, turn, fresh, torn>>
  BY DEF Begin, Goto, FirstStep, HomeOf, files, update
<1> HIDE DEF shell, to
<1>2. /\ plan'[i] = [shell |-> shell, env |-> e] /\ pc'[i] = to
      /\ \A j \in Installer : j # i => plan'[j] = plan[j] /\ pc'[j] = pc[j] /\ script'[j] = script[j]
  BY <1>1 DEF IInv, TypeOK, PlansAreTyped
<1>3. PlacesAreKnown'
  BY <1>1, <1>2, PlacesKept DEF HonestInv, Active, Updating
<1>4. StanzasAreWhole'
  BY <1>1 DEF HonestInv, StanzasAreWhole
<1>5. ScriptStaysWhole'
  BY <1>1, <1>2 DEF HonestInv, ScriptStaysWhole, Mine
<1>6. RefreshedSoFar'
  BY <1>1 DEF HonestInv, RefreshedSoFar, Updating
<1> QED
  BY <1>3, <1>4, <1>5, <1>6 DEF HonestInv

(* The steps of an install that write no file.                             *)
LEMMA QuietHonest ==
  ASSUME IInv, HonestInv, NEW i \in Installer, NEW to \in Stages, Active(i),
         pc' = [pc EXCEPT ![i] = to],
         to \in {"readrc", "append"} => pc[i] \in {"readrc", "append"},
         UNCHANGED <<macos, files, plan, script, update, homes, overlapped, torn>>
  PROVE  HonestInv'
<1> USE DEF files, update
<1>1. \A j \in Installer : /\ j # i => pc'[j] = pc[j]
                           /\ pc'[i] = to
  BY DEF IInv, TypeOK
<1>2. PlacesAreKnown'
  BY <1>1, PlacesKept DEF HonestInv, Active, Updating
<1>3. StanzasAreWhole'
  BY DEF HonestInv, StanzasAreWhole
<1>4. ScriptStaysWhole'
  BY <1>1 DEF HonestInv, ScriptStaysWhole, Mine
<1>5. RefreshedSoFar'
  BY DEF HonestInv, RefreshedSoFar, Updating
<1> QED
  BY <1>2, <1>3, <1>4, <1>5 DEF HonestInv

(* A write of apply's is to the run's own script; alone, it is the only    *)
(* thing anybody writes.                                                   *)
LEMMA WriteHonest ==
  ASSUME IInv, HonestInv, NEW i \in Installer, pc[i] \in {"truncate", "write"},
         NEW whole \in BOOLEAN, NEW to \in {"write", "readrc", "done"},
         to = "readrc" => whole,
         scripts' = [scripts EXCEPT ![Mine(i)] = [build |-> script[i], whole |-> whole]],
         pc' = [pc EXCEPT ![i] = to],
         UNCHANGED <<macos, rc, plan, script, update, past>>
  PROVE  HonestInv'
<1> USE DEF update, past
<1>1. /\ plan[i].shell \in Shell /\ plan[i].env \in Environment /\ Mine(i) \in Path
      /\ Active(i)
  BY ActiveHasPlan DEF IInv, Active, Ended
<1>2. /\ scripts'[Mine(i)] = [build |-> script[i], whole |-> whole]
      /\ \A p \in Path : p # Mine(i) => scripts'[p] = scripts[p]
      /\ pc'[i] = to /\ \A j \in Installer : j # i => pc'[j] = pc[j]
  BY <1>1 DEF IInv, TypeOK, FilesTypeOK
<1>3. Mine(i) = PathUnder(plan[i].shell, HomeOf(plan[i].env)) /\ HomeOf(plan[i].env) \in homes
  BY <1>1, PathIsUnderHome DEF Mine, HonestInv, PlacesAreKnown
<1>4. PlacesAreKnown'
  BY <1>1, <1>2, <1>3, PlacesKept DEF HonestInv, Active, Updating
<1>5. StanzasAreWhole'
  BY DEF HonestInv, StanzasAreWhole
<1>6. ASSUME ~overlapped
      PROVE  ~Updating /\ \A j \in Installer : j # i => ~Active(j)
  BY <1>1, <1>6 DEF IInv, RunsAreAlone
<1>7. ScriptStaysWhole'
  BY <1>2, <1>6 DEF ScriptStaysWhole, Mine, Whole, Active, Ended
<1>8. RefreshedSoFar'
  BY <1>6 DEF HonestInv, RefreshedSoFar, Updating
<1> QED
  BY <1>4, <1>5, <1>7, <1>8 DEF HonestInv

(* A stanza is the run's own: its shell's file, its script.                *)
LEMMA AppendHonest ==
  ASSUME IInv, HonestInv, NEW i \in Installer, AppendStanza(i)
  PROVE  HonestInv'
<1> USE DEF update
<1> DEFINE file == RcFile(plan[i].shell)
<1>1. /\ pc[i] = "append" /\ Active(i) /\ file \in RcName
      /\ plan[i].shell \in Shell /\ plan[i].env \in Environment
  BY ActiveHasPlan DEF AppendStanza, IInv, Active, Ended, PlansAreTyped
<1>2. PICK whole \in BOOLEAN :
        /\ rc' = [rc EXCEPT ![file] = Append(@, [path |-> Mine(i), whole |-> whole])]
        /\ torn' = (torn \/ ~whole)
        /\ pc' = [pc EXCEPT ![i] = IF whole THEN "done" ELSE "failed"]
  BY DEF AppendStanza, Goto
<1>3. UNCHANGED <<macos, scripts, plan, script, update, homes, overlapped>>
  BY DEF AppendStanza
<1>4. /\ pc'[i] \in {"done", "failed"} /\ \A j \in Installer : j # i => pc'[j] = pc[j]
  BY <1>2 DEF IInv, TypeOK
<1> HIDE DEF file
<1>5. ASSUME NEW r \in RcName, NEW k \in DOMAIN rc'[r]
      PROVE  \/ k \in DOMAIN rc[r] /\ rc'[r][k] = rc[r][k]
             \/ r = file /\ rc'[r][k] = [path |-> Mine(i), whole |-> whole]
  <2>1. rc \in [RcName -> Seq(Stanza)] /\ rc[r] \in Seq(Stanza)
    BY DEF IInv, TypeOK, FilesTypeOK
  <2>2. CASE r = file
    <3>1. rc'[r] = Append(rc[r], [path |-> Mine(i), whole |-> whole])
      BY <1>1, <1>2, <2>1, <2>2
    <3> HIDE DEF IInv
    <3>2. k \in 1..(Len(rc[r]) + 1)
      BY <2>1, <3>1, <1>5
    <3> QED
      BY <2>1, <2>2, <3>1, <3>2
  <2>3. CASE r # file
    BY <1>2, <2>1, <2>3, <1>5
  <2> QED
    BY <2>2, <2>3
<1>6. Mine(i) = PathUnder(plan[i].shell, HomeOf(plan[i].env)) /\ HomeOf(plan[i].env) \in homes
  BY <1>1, PathIsUnderHome DEF Mine, HonestInv, PlacesAreKnown
<1>7. PlacesAreKnown'
  <2>1. ASSUME NEW r \in RcName, NEW k \in DOMAIN rc'[r]
        PROVE  \/ k \in DOMAIN rc[r] /\ rc'[r][k] = rc[r][k]
               \/ \E sh \in Shell, h \in homes' : RcFile(sh) = r /\ rc'[r][k].path = PathUnder(sh, h)
    BY <1>1, <1>3, <1>5, <1>6, <2>1 DEF file
  <2> QED
    BY <1>3, <1>4, <2>1, PlacesKept DEF HonestInv, Active, Updating, Ended
<1>8. StanzasAreWhole'
  <2> SUFFICES ASSUME ~torn', NEW r \in RcName, NEW k \in DOMAIN rc'[r]
      PROVE  rc'[r][k].whole
    BY DEF StanzasAreWhole
  <2>1. ~torn /\ whole
    BY <1>2
  <2> QED
    BY <1>5, <2>1 DEF HonestInv, StanzasAreWhole
<1>9. ScriptStaysWhole'
  BY <1>3, <1>4 DEF HonestInv, ScriptStaysWhole, Mine
<1>10. RefreshedSoFar'
  BY <1>3 DEF HonestInv, RefreshedSoFar, Updating
<1> QED
  BY <1>7, <1>8, <1>9, <1>10 DEF HonestInv

(* An install's steps (execute, plan, confirm_install, apply).             *)
LEMMA InstallHonest ==
  ASSUME IInv, HonestInv, NEW i \in Installer, Install(i)
  PROVE  HonestInv'
<1> USE DEF Active, Ended, Stages
<1>1. CASE ConfirmInstall(i)
  <2>1. PICK to \in {"mkdir", "aborted"} : pc' = [pc EXCEPT ![i] = to]
    BY <1>1 DEF ConfirmInstall, Goto
  <2> QED
    BY <1>1, <2>1, QuietHonest DEF ConfirmInstall
<1>2. CASE CreateDir(i)
  BY <1>2, QuietHonest DEF CreateDir, Goto, past
<1>3. CASE Truncate(i)
  BY <1>3, WriteHonest DEF Truncate, Goto
<1>4. CASE WriteScript(i)
  <2>1. PICK to \in {"readrc", "done"} : pc' = [pc EXCEPT ![i] = to]
    BY <1>4 DEF WriteScript, Goto
  <2> QED
    BY <1>4, <2>1, WriteHonest DEF WriteScript, Whole
<1>5. CASE ReadRc(i)
  <2>1. PICK to \in {"append", "done"} : pc' = [pc EXCEPT ![i] = to]
    BY <1>5 DEF ReadRc, Goto
  <2> QED
    BY <1>5, <2>1, QuietHonest DEF ReadRc, past
<1>6. CASE AppendStanza(i)
  BY <1>6, AppendHonest
<1>7. CASE Fails(i)
  <2>1. PICK to \in {"failed", "crashed"} : pc' = [pc EXCEPT ![i] = to]
    BY <1>7 DEF Fails, Goto
  <2> QED
    BY <1>7, <2>1, QuietHonest DEF Fails, past
<1> QED
  BY <1>1, <1>2, <1>3, <1>4, <1>5, <1>6, <1>7 DEF Install

(* A step of the update that writes at most the script it is at: what was  *)
(* brought up to date before stays so.                                     *)
LEMMA RefreshHonest ==
  ASSUME IInv, HonestInv, Updating,
         UNCHANGED <<macos, rc, run, build, env, past>>,
         \A p \in Path : p # Current => scripts'[p] = scripts[p],
         turn' \in 1..Len(Shells),
         stage' \in {"truncate", "write"} => fresh' = build,
         stage' # "idle",
         Updating' => \/ turn' = turn
                      \/ turn' = turn + 1 /\ scripts'[Current] \in {None, Whole(build)}
  PROVE  HonestInv'
<1> USE DEF run, past
<1>1. turn \in 1..3 /\ turn' \in 1..3 /\ env \in Environment /\ Current \in Path
  BY CurrentIsPath DEF IInv, TypeOK, Shells
<1>2. \A k \in 1..3 : Shells[k] \in Shell
  BY DEF Shells, Shell
<1>3. \A k \in 1..3 : ScriptPath(Shells[k], env) \in Path /\ (k # turn => ScriptPath(Shells[k], env) # Current)
  BY <1>1, <1>2, ScriptPathIsPath DEF Current, ScriptPath, Shells
<1>4. PlacesAreKnown'
  <2>1. /\ Current = PathUnder(Shells[turn], HomeOf(env)) /\ Shells[turn] \in Shell
        /\ HomeOf(env) \in homes
    BY <1>1, <1>2, PathIsUnderHome DEF Current, HonestInv, PlacesAreKnown
  <2> QED
    BY <1>1, <2>1, PlacesKept DEF HonestInv, Active
<1>5. StanzasAreWhole'
  BY DEF HonestInv, StanzasAreWhole
<1>6. ASSUME ~overlapped
      PROVE  \A i \in Installer : ~Active(i)
  BY <1>6 DEF IInv, RunsAreAlone
<1>7. ScriptStaysWhole'
  BY <1>6 DEF ScriptStaysWhole, Active, Ended
<1>8. RefreshedSoFar'
  <2>1. ASSUME ~overlapped, Updating', NEW k \in 1..3, k < turn'
        PROVE  scripts'[ScriptPath(Shells[k], env)] \in {None, Whole(build)}
    <3>1. CASE k < turn
      <4>1. scripts[ScriptPath(Shells[k], env)] \in {None, Whole(build)}
        BY <2>1, <3>1 DEF HonestInv, RefreshedSoFar, Shells
      <4> QED
        BY <1>1, <1>3, <3>1, <4>1
    <3>2. CASE ~(k < turn)
      <4>1. k = turn /\ turn' = turn + 1
        BY <1>1, <2>1, <3>2
      <4> QED
        BY <1>1, <2>1, <4>1 DEF Current
    <3> QED
      BY <3>1, <3>2
  <2>2. Len(Shells) = 3
    BY DEF Shells
  <2> QED
    BY <2>1, <2>2 DEF RefreshedSoFar
<1> QED
  BY <1>4, <1>5, <1>7, <1>8 DEF HonestInv

(* The new binary, the refresh of a shell, a failure of it                 *)
(* (refresh_completions, refresh_installed).                               *)
LEMMA UpdateHonest ==
  ASSUME IInv, HonestInv, NewBinary \/ RefreshInstalled \/ Warn
  PROVE  HonestInv'
<1>1. turn \in 1..3 /\ Len(Shells) = 3
  BY DEF IInv, TypeOK, Shells
<1>2. CASE NewBinary
  <2> USE DEF NewBinary, files, run
  <2>1. homes' = homes \cup {HomeOf(env)}
    BY <1>2 DEF HomeOf
  <2>2. PlacesAreKnown'
    BY <1>2, <2>1, PlacesKept DEF HonestInv, Active
  <2>3. StanzasAreWhole' /\ ScriptStaysWhole'
    BY <1>2 DEF HonestInv, StanzasAreWhole, ScriptStaysWhole, Mine
  <2>4. RefreshedSoFar'
    BY <1>1, <1>2 DEF HonestInv, RefreshedSoFar
  <2> QED
    BY <2>2, <2>3, <2>4 DEF HonestInv
<1>3. CASE Skip(Current)
  <2>1. scripts' = scripts /\ scripts[Current] = None
    BY <1>3 DEF Skip, Exists, files
  <2>2. stage' \in {"refresh", "done"} /\ turn' \in 1..3 /\ (stage' = "refresh" => turn' = turn + 1)
    BY <1>1, <1>3 DEF Skip, NextShell
  <2> QED
    BY <1>1, <1>3, <2>1, <2>2, RefreshHonest DEF Skip, Updating, files
<1>4. CASE Render(Current)
  BY <1>1, <1>4, RefreshHonest DEF Render, Updating, files
<1>5. CASE Retruncate(Current)
  <2>1. fresh = build /\ Current \in Path /\ scripts \in [Path -> Script \cup {None}]
    BY <1>5, CurrentIsPath DEF Retruncate, HonestInv, RefreshedSoFar, IInv, TypeOK, FilesTypeOK
  <2> QED
    BY <1>1, <1>5, <2>1, RefreshHonest DEF Retruncate, Updating
<1>6. CASE Rewrite(Current)
  <2>1. fresh = build /\ Current \in Path /\ scripts \in [Path -> Script \cup {None}]
    BY <1>6, CurrentIsPath DEF Rewrite, HonestInv, RefreshedSoFar, IInv, TypeOK, FilesTypeOK
  <2>2. stage' \in {"refresh", "done"} /\ turn' \in 1..3 /\ (stage' = "refresh" => turn' = turn + 1)
    BY <1>1, <1>6 DEF Rewrite, NextShell
  <2> QED
    BY <1>1, <1>6, <2>1, <2>2, RefreshHonest DEF Rewrite, Updating
<1>7. CASE Warn
  BY <1>1, <1>7, RefreshHonest DEF Warn, Updating, files
<1> QED
  BY <1>2, <1>3, <1>4, <1>5, <1>6, <1>7 DEF RefreshInstalled

(* Nothing is placed at first.                                             *)
LEMMA InitHonest == Init => HonestInv
<1> SUFFICES ASSUME Init
    PROVE  HonestInv
  OBVIOUS
<1>1. PlacesAreKnown
  BY DEF Init, PlacesAreKnown, Active, Updating
<1>2. StanzasAreWhole /\ ScriptStaysWhole
  BY DEF Init, StanzasAreWhole, ScriptStaysWhole
<1>3. RefreshedSoFar
  BY DEF Init, RefreshedSoFar, Updating
<1> QED
  BY <1>1, <1>2, <1>3 DEF HonestInv

(* A step that changes nothing.                                            *)
LEMMA StutterHonest ==
  ASSUME HonestInv, UNCHANGED vars
  PROVE  HonestInv'
<1> USE DEF vars, files, run, update, past
<1>1. PlacesAreKnown'
  BY PlacesKept DEF HonestInv, Active, Updating
<1>2. StanzasAreWhole' /\ ScriptStaysWhole' /\ RefreshedSoFar'
  BY DEF HonestInv, StanzasAreWhole, ScriptStaysWhole, RefreshedSoFar, Mine, Updating
<1> QED
  BY <1>1, <1>2 DEF HonestInv

(* No step of an install or of the update moves, tears or leaves anything  *)
(* behind that it should not.                                              *)
LEMMA HonestInvariant == Spec => [](IInv /\ HonestInv)
<1>1. ASSUME IInv, HonestInv, [Next]_vars
      PROVE  HonestInv'
  <2>1. ASSUME NEW i \in Installer, NEW arg \in Shell \cup {None}, NEW e \in Environment,
               NEW flag \in {"--print", "--yes", "none"}, Begin(i, arg, e, flag)
        PROVE  HonestInv'
    BY <1>1, <2>1, BeginHonest
  <2>2. ASSUME NEW i \in Installer, Install(i)
        PROVE  HonestInv'
    BY <1>1, <2>2, InstallHonest
  <2>3. CASE NewBinary \/ RefreshInstalled \/ Warn
    BY <1>1, <2>3, UpdateHonest
  <2>4. CASE UNCHANGED vars
    BY <1>1, <2>4, StutterHonest
  <2> QED
    BY <1>1, <2>1, <2>2, <2>3, <2>4 DEF Next
<1> QED
  BY <1>1, InstallsInvariant, InitHonest, PTL DEF Spec

-----------------------------------------------------------------------------
(* A step of an install to "done", each on the disk it leaves.             *)
LEMMA DoneLoads ==
  ASSUME IInv, HonestInv, IInv', HonestInv', NEW i \in Installer, Install(i),
         pc[i] # "done", pc'[i] = "done", ~overlapped',
         outcome'[i] = "AlreadyPresent" => ~torn' /\ \E h \in BaseDir \X BaseDir : homes' = {h}
  PROVE  Loaded(plan[i].shell, Mine(i))'
<1> DEFINE shell == plan[i].shell
           file == RcFile(shell)
<1>1. /\ pc[i] \in {"write", "readrc", "append"} /\ Active(i)
      /\ UNCHANGED <<macos, plan, script, overlapped, homes>>
      /\ ~overlapped
  <2>1. pc[i] \in {"write", "readrc", "append"}
    BY DEF Install, ConfirmInstall, CreateDir, Truncate, WriteScript, ReadRc, AppendStanza, Fails,
           Goto, IInv, TypeOK
  <2>2. UNCHANGED <<macos, plan, script, overlapped, homes>>
    BY <2>1 DEF Install, ConfirmInstall, CreateDir, Truncate, WriteScript, ReadRc, AppendStanza, Fails,
                past
  <2> QED
    BY <2>1, <2>2 DEF Active, Ended
<1>2. /\ shell \in Shell /\ plan[i].env \in Environment /\ Mine(i) \in Path
      /\ Mine(i) = PathUnder(shell, HomeOf(plan[i].env)) /\ HomeOf(plan[i].env) \in homes
  BY <1>1, ActiveHasPlan, PathIsUnderHome DEF IInv, HonestInv, PlacesAreKnown, Mine
<1>3. /\ scripts \in [Path -> Script \cup {None}] /\ scripts' \in [Path -> Script \cup {None}]
      /\ rc \in [RcName -> Seq(Stanza)] /\ pc \in [Installer -> Stages]
      /\ outcome \in [Installer -> Outcome \cup {None}]
  BY DEF IInv, TypeOK, FilesTypeOK
<1>4. Whole(script[i]).whole /\ Whole(script[i]) # None
  <2>1. script[i] \in Build
    BY <1>1 DEF IInv, PlansAreTyped
  <2> QED
    BY <2>1, ScriptIsThere DEF Whole
<1>5. scripts'[Mine(i)] = Whole(script[i])
  <2>1. CASE pc[i] = "write"
    <3>1. WriteScript(i)
      BY <1>3, <2>1 DEF Install, ConfirmInstall, CreateDir, Truncate, ReadRc, AppendStanza, Fails, Goto
    <3> QED
      BY <1>2, <1>3, <3>1 DEF WriteScript
  <2>2. CASE pc[i] \in {"readrc", "append"}
    <3>1. scripts' = scripts
      BY <2>2 DEF Install, ConfirmInstall, CreateDir, Truncate, WriteScript, ReadRc,
                  AppendStanza, Fails, files
    <3> QED
      BY <1>1, <2>2, <3>1 DEF HonestInv, ScriptStaysWhole
  <2> QED
    BY <1>1, <2>1, <2>2
<1>6. CASE shell = "fish"
  BY <1>1, <1>4, <1>5, <1>6 DEF Loaded, Mine
<1>7. CASE shell # "fish"
  <2>1. file \in RcName /\ file # None
    <3>1. file \in RcName
      BY <1>2, <1>7 DEF RcFile, BashRcName, RcName, Shell
    <3> QED
      BY <3>1, CompletionsAssumption
  <2>2. file = IF shell = "zsh" THEN ".zshrc" ELSE IF macos THEN ".bash_profile" ELSE ".bashrc"
    BY <1>2, <1>7 DEF RcFile, BashRcName, Shell
  <2>3. \E k \in DOMAIN rc'[file] : rc'[file][k] = [path |-> Mine(i), whole |-> TRUE]
    <3>1. CASE pc[i] = "write"
      BY <1>3, <2>1, <3>1 DEF Install, ConfirmInstall, CreateDir, Truncate, WriteScript, ReadRc,
                              AppendStanza, Fails, Goto
    <3>2. CASE pc[i] = "readrc"
      <4>1. /\ rc[file] # <<>> /\ rc' = rc /\ outcome'[i] = "AlreadyPresent" /\ torn' = torn
        BY <1>3, <2>1, <3>2 DEF Install, ConfirmInstall, CreateDir, Truncate, WriteScript, ReadRc,
                                AppendStanza, Fails, Goto, files, past
      <4>2. PICK h \in BaseDir \X BaseDir : homes = {h} /\ ~torn
        BY <1>1, <4>1
      <4>3. 1 \in DOMAIN rc[file] /\ rc[file][1] \in Stanza
        BY <1>3, <2>1, <4>1
      <4>4. PICK sh \in Shell, g \in homes : RcFile(sh) = file /\ rc[file][1].path = PathUnder(sh, g)
        BY <2>1, <4>3 DEF HonestInv, PlacesAreKnown
      <4>5. sh = shell
        BY <1>2, <1>7, <2>1, <4>4, CompletionsAssumption DEF RcFile, BashRcName, RcName, Shell
      <4>6. rc[file][1].path = Mine(i)
        BY <1>2, <4>2, <4>4, <4>5
      <4>7. rc[file][1].whole = TRUE
        BY <2>1, <4>2, <4>3 DEF HonestInv, StanzasAreWhole, Stanza
      <4> QED
        BY <4>1, <4>3, <4>6, <4>7 DEF Stanza
    <3>3. CASE pc[i] = "append"
      <4>1. rc' = [rc EXCEPT ![file] = Append(@, [path |-> Mine(i), whole |-> TRUE])]
        BY <1>3, <3>3 DEF Install, ConfirmInstall, CreateDir, Truncate, WriteScript, ReadRc,
                          AppendStanza, Fails, Goto
      <4>2. rc'[file] = Append(rc[file], [path |-> Mine(i), whole |-> TRUE])
        BY <1>3, <2>1, <4>1
      <4>3. /\ Len(rc[file]) + 1 \in DOMAIN rc'[file]
            /\ rc'[file][Len(rc[file]) + 1] = [path |-> Mine(i), whole |-> TRUE]
        BY <1>3, <2>1, <4>2
      <4> QED
        BY <4>3
    <3> QED
      BY <1>1, <3>1, <3>2, <3>3
  <2> HIDE DEF file
  <2>4. QED
    BY <1>1, <1>4, <1>5, <2>2, <2>3 DEF Loaded, Mine
<1> QED
  BY <1>6, <1>7

(* A run that says it installed leaves a shell that loads its script: its  *)
(* stanza is in the file such a shell reads and names a script that is     *)
(* whole (execute, apply; USAGE.md:747).                                   *)
THEOREM DoneIsLoaded == Spec => DoneMeansLoaded
<1> DEFINE A == \A i \in Installer :
        /\ pc[i] # "done" /\ pc'[i] = "done" /\ ~overlapped'
        /\ outcome'[i] = "AlreadyPresent" => ~torn' /\ \E h \in BaseDir \X BaseDir : homes' = {h}
        => Loaded(plan[i].shell, Mine(i))'
<1>1. ASSUME IInv, HonestInv, IInv', HonestInv', [Next]_vars
      PROVE  A \/ UNCHANGED vars
  <2> SUFFICES ASSUME NEW i \in Installer,
                      pc[i] # "done", pc'[i] = "done", ~overlapped',
                      outcome'[i] = "AlreadyPresent" =>
                         ~torn' /\ \E h \in BaseDir \X BaseDir : homes' = {h},
                      ~UNCHANGED vars
      PROVE  Loaded(plan[i].shell, Mine(i))'
    OBVIOUS
  <2>1. pc \in [Installer -> Stages]
    BY <1>1 DEF IInv, TypeOK
  <2>2. ~(NewBinary \/ RefreshInstalled \/ Warn)
    BY DEF NewBinary, RefreshInstalled, Skip, Render, Retruncate, Rewrite, Warn, run
  <2>3. ASSUME NEW j \in Installer, NEW arg \in Shell \cup {None}, NEW e \in Environment,
               NEW flag \in {"--print", "--yes", "none"}, Begin(j, arg, e, flag)
        PROVE  FALSE
    BY <2>1, <2>3 DEF Begin, Goto, FirstStep
  <2>4. ASSUME NEW j \in Installer, Install(j), j # i
        PROVE  FALSE
    BY <2>1, <2>4 DEF Install, ConfirmInstall, CreateDir, Truncate, WriteScript, ReadRc, AppendStanza,
                      Fails, Goto
  <2>5. Install(i)
    BY <1>1, <2>2, <2>3, <2>4 DEF Next
  <2> QED
    BY <1>1, <2>5, DoneLoads
<1> QED
  BY <1>1, HonestInvariant, PTL DEF Spec, DoneMeansLoaded

(* A refresh that ended without a warning, with nothing else writing, has  *)
(* left no script of the old build and none half-written: with one pair of *)
(* base directories in use, each script there is one it has been at        *)
(* (refresh_installed, completions.rs:128).                                *)
THEOREM RefreshIsHonest == Spec => RefreshLeavesNoneBehind
<1> DEFINE A == /\ stage # "done" /\ stage' = "done" /\ ~warned' /\ ~overlapped'
                /\ \E h \in BaseDir \X BaseDir : homes' = {h}
                => \A p \in Path : scripts'[p] \in {None, Whole(build')}
<1>1. ASSUME IInv, HonestInv, IInv', HonestInv', [Next]_vars
      PROVE  A \/ UNCHANGED vars
  <2> SUFFICES ASSUME stage # "done", stage' = "done", ~warned', ~overlapped',
                      NEW h \in BaseDir \X BaseDir, homes' = {h},
                      NEW p \in Path, scripts'[p] # None
      PROVE  scripts'[p] = Whole(build')
    OBVIOUS
  <2>1. Skip(Current) \/ Rewrite(Current)
    <3>1. ASSUME NEW j \in Installer, NEW arg \in Shell \cup {None}, NEW e \in Environment,
                 NEW flag \in {"--print", "--yes", "none"}, Begin(j, arg, e, flag)
          PROVE  FALSE
      BY <3>1 DEF Begin, update
    <3>2. ASSUME NEW j \in Installer, Install(j)
          PROVE  FALSE
      BY <3>2 DEF Install, ConfirmInstall, CreateDir, Truncate, WriteScript, ReadRc, AppendStanza,
                  Fails, update
    <3>3. ~NewBinary /\ ~Warn /\ ~Render(Current) /\ ~Retruncate(Current)
      BY <1>1 DEF NewBinary, Warn, Render, Retruncate, IInv, TypeOK
    <3>4. ~UNCHANGED vars
      BY DEF vars, update
    <3> QED
      BY <1>1, <3>1, <3>2, <3>3, <3>4 DEF Next, RefreshInstalled
  <2>2. /\ Updating /\ turn = 3 /\ stage \in {"refresh", "write"}
        /\ UNCHANGED <<macos, env, build, homes, overlapped>>
    <3>1. turn \in 1..3 /\ Len(Shells) = 3
      BY <1>1 DEF IInv, TypeOK, Shells
    <3> QED
      BY <2>1, <3>1 DEF Skip, Rewrite, NextShell, Updating, past
  <2>3. /\ Current \in Path /\ env \in Environment /\ HomeOf(env) = h
        /\ scripts \in [Path -> Script \cup {None}]
    BY <1>1, <2>2, CurrentIsPath DEF IInv, TypeOK, FilesTypeOK, HonestInv, PlacesAreKnown
  <2>4. PICK sh \in Shell : p = PathUnder(sh, h)
    BY <1>1 DEF HonestInv, PlacesAreKnown
  <2>5. p = ScriptPath(sh, env)
    BY <2>3, <2>4, PathIsUnderHome
  <2>6. PICK k \in 1..3 : sh = Shells[k]
    BY DEF Shell, Shells
  <2>7. CASE p = Current
    BY <1>1, <2>1, <2>2, <2>3, <2>7 DEF Skip, Rewrite, Exists, files, HonestInv, RefreshedSoFar
  <2>8. CASE p # Current
    <3>1. k < turn /\ k \in 1..Len(Shells)
      BY <2>2, <2>5, <2>6, <2>8 DEF Current, Shells
    <3>2. scripts[p] \in {None, Whole(build)}
      BY <1>1, <2>2, <2>5, <2>6, <3>1 DEF HonestInv, RefreshedSoFar
    <3>3. scripts'[p] = scripts[p]
      BY <2>1, <2>3, <2>8 DEF Skip, Rewrite, files
    <3> QED
      BY <2>2, <3>2, <3>3
  <2> QED
    BY <2>7, <2>8
<1> QED
  BY <1>1, HonestInvariant, PTL DEF Spec, RefreshLeavesNoneBehind

=============================================================================
