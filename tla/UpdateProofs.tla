----------------------------- MODULE UpdateProofs -----------------------------
(***************************************************************************)
(* Theorems about Update, for any number of invocations at once, any       *)
(* versions, builds and shells, and whatever fails or is killed.           *)
(***************************************************************************)
EXTENDS Update, TLAPS

(* What has been checked of what an invocation is about to install.        *)
Verified  == {"stage", "extract", "smoke", "copy", "copying", "chmod", "rename"}
Tested    == {"copy", "copying", "chmod", "rename"}
Unstarted == {"idle", "check"}

(* The version an invocation installs is known once it has begun, and its  *)
(* tarball is the one the release lists, then one that says so itself.     *)
CheckedInv ==
  \A p \in Updater :
    /\ pc[p] \notin Unstarted \cup Ended => want[p] \in Version
    /\ pc[p] \in {"sums"} \cup Verified => got[p] \in Build
    /\ pc[p] \in Verified => got[p] = listed[want[p]]
    /\ pc[p] \in Tested => Reports[got[p]] = want[p]

(* The staged copy, step by step.                                          *)
StagedInv ==
  \A p \in Updater :
    /\ pc[p] = "copying" => staged[p] = [build |-> got[p], whole |-> FALSE, mode |-> "umask"]
    /\ pc[p] = "chmod"   => staged[p] = [build |-> got[p], whole |-> TRUE, mode |-> "umask"]
    /\ pc[p] = "rename"  => staged[p] = Whole(got[p])
    /\ staged[p] # None => pc[p] \in {"copying", "chmod", "rename", "cleanup", "crashed"}

(* What an invocation has made so far and not yet removed.                 *)
LeftInv ==
  \A p \in Updater :
    /\ "probe" \in left[p] => pc[p] \in {"unprobe", "crashed"}
    /\ "tempdir" \in left[p] =>
         pc[p] \in {"extract", "smoke", "copy", "copying", "chmod", "rename",
                    "return", "cleanup", "crashed"}

(* Where it put its build, and what the script it is writing came from.    *)
SinceInv ==
  \A p \in Updater :
    /\ pc[p] \in {"return", "refresh", "truncate", "write"} =>
         /\ since[p] # {}
         /\ dest[p] = "place" => installed.build \in since[p]
         /\ dest[p] = "stray" => stray # None /\ stray.build \in since[p]
    /\ pc[p] \in {"truncate", "write"} => rendered[p] # None
    /\ rendered[p] # None => /\ rendered[p] \in since[p]
                             /\ pc[p] \in {"truncate", "write", "done", "crashed"}
    /\ pc[p] \in {"truncate", "write"} => turn[p] \in 1..Len(Shells)

UpdateInv == TypeOK /\ CheckedInv /\ StagedInv /\ LeftInv /\ SinceInv /\ InstalledIsARelease

-----------------------------------------------------------------------------
(* One step is a step of one invocation, or a new release. *)
LEMMA OneSteps ==
  ASSUME [Next]_vars
  PROVE  \/ UNCHANGED <<world, disk, pc, plan, replaced, files, work, since>>
            /\ (latest' = latest \/ latest' \in Version)
         \/ \E p \in Updater :
              \/ \E arg \in Version \cup {"prompt", "latest"} : Start(p, arg)
              \/ Check(p)
              \/ Confirm(p)
              \/ Begin(p)
              \/ Probe(p)
              \/ Unprobe(p)
              \/ FetchTarball(p)
              \/ FetchSums(p)
              \/ MakeStaging(p)
              \/ Extract(p)
              \/ SmokeTest(p)
              \/ Copy(p)
              \/ Copied(p)
              \/ Chmod(p)
              \/ Rename(p)
              \/ Return(p)
              \/ Cleanup(p)
              \/ Refresh(p)
              \/ Truncate(p)
              \/ WriteScript(p)
              \/ Fails(p)
              \/ Crash(p)
BY DEF Next, Install, RefreshScripts, Publish, vars

(* What may be written to disk. *)
LEMMA FileTypes ==
  /\ \A b \in Build, w \in BOOLEAN, m \in {"umask", "all"} :
       [build |-> b, whole |-> w, mode |-> m] \in File
  /\ \A b \in Build : Whole(b) \in File /\ Whole(b).build = b
  /\ \A f \in File : f.build \in Build /\ f # None
BY UpdateAssumption DEF File, Whole

(* Types. *)
LEMMA TypeStep ==
  ASSUME UpdateInv, [Next]_vars
  PROVE  TypeOK'
<1> USE DEF UpdateInv, TypeOK, Steps, Ended, Goto, At, world, disk, plan, files, work
<1>1. CASE UNCHANGED <<world, disk, pc, plan, replaced, files, work, since>>
               /\ (latest' = latest \/ latest' \in Version)
  BY <1>1
<1>2. ASSUME NEW p \in Updater, NEW arg \in Version \cup {"prompt", "latest"}, Start(p, arg)
      PROVE  TypeOK'
  BY <1>2, FileTypes DEF Start
<1>3. ASSUME NEW p \in Updater, Check(p)
      PROVE  TypeOK'
  BY <1>3 DEF Check
<1>4. ASSUME NEW p \in Updater, Confirm(p)
      PROVE  TypeOK'
  BY <1>4 DEF Confirm
<1>5. ASSUME NEW p \in Updater, Begin(p)
      PROVE  TypeOK'
  BY <1>5 DEF Begin
<1>6. ASSUME NEW p \in Updater, Probe(p)
      PROVE  TypeOK'
  BY <1>6 DEF Probe
<1>7. ASSUME NEW p \in Updater, Unprobe(p)
      PROVE  TypeOK'
  BY <1>7 DEF Unprobe
<1>8. ASSUME NEW p \in Updater, FetchTarball(p)
      PROVE  TypeOK'
  BY <1>8 DEF FetchTarball
<1>9. ASSUME NEW p \in Updater, FetchSums(p)
      PROVE  TypeOK'
  BY <1>9 DEF FetchSums
<1>10. ASSUME NEW p \in Updater, MakeStaging(p)
      PROVE  TypeOK'
  BY <1>10 DEF MakeStaging
<1>11. ASSUME NEW p \in Updater, Extract(p)
      PROVE  TypeOK'
  BY <1>11 DEF Extract
<1>12. ASSUME NEW p \in Updater, SmokeTest(p)
      PROVE  TypeOK'
  BY <1>12 DEF SmokeTest
<1>13. ASSUME NEW p \in Updater, Copy(p)
      PROVE  TypeOK'
  BY <1>13, FileTypes DEF Copy, CheckedInv, Verified
<1>14. ASSUME NEW p \in Updater, Copied(p)
      PROVE  TypeOK'
  BY <1>14, FileTypes DEF Copied, CheckedInv, Verified
<1>15. ASSUME NEW p \in Updater, Chmod(p)
      PROVE  TypeOK'
  BY <1>15, FileTypes DEF Chmod, CheckedInv, Verified
<1>16. ASSUME NEW p \in Updater, Rename(p)
      PROVE  TypeOK'
  <2>1. staged[p] \in File /\ got[p] \in Build
    BY <1>16, FileTypes DEF Rename, StagedInv, CheckedInv, Verified
  <2>2. /\ UNCHANGED <<host, listed, managed, latest, scripts, asked, running, want, dest, got>>
        /\ UNCHANGED <<left, turn, rendered>>
    BY <1>16 DEF Rename
  <2>3. installed' \in File /\ stray' \in File \cup {None} /\ replaced' \in [Updater -> BOOLEAN]
    <3>1. CASE dest[p] = "place"
      <4>1. installed' = staged[p] /\ stray' = stray
        BY <1>16, <3>1 DEF Rename
      <4>2. replaced' = [q \in Updater |-> replaced[q] \/ ~At(q, "idle")]
        BY <1>16, <3>1 DEF Rename
      <4>3. replaced' \in [Updater -> BOOLEAN]
        BY <4>2
      <4> QED BY <2>1, <4>1, <4>3
    <3>2. CASE dest[p] # "place"
      <4>1. stray' = staged[p] /\ installed' = installed /\ replaced' = replaced
        BY <1>16, <3>2 DEF Rename
      <4> QED BY <2>1, <4>1
    <3> QED BY <3>1, <3>2
  <2>4. staged' \in [Updater -> File \cup {None}] /\ since' \in [Updater -> SUBSET Build]
    <3>1. staged' = [staged EXCEPT ![p] = None]
      BY <1>16 DEF Rename
    <3>2. since' = [q \in Updater |->
                     IF q = p THEN {got[p]}
                     ELSE IF since[q] # {} /\ dest[q] = dest[p] THEN since[q] \cup {got[p]}
                     ELSE since[q]]
      BY <1>16 DEF Rename
    <3>3. since' \in [Updater -> SUBSET Build]
      BY <2>1, <3>2
    <3> QED BY <3>1, <3>3
  <2>5. pc' \in [Updater -> {"idle"} \cup Steps \cup Ended]
    BY <1>16 DEF Rename
  <2> QED BY <2>2, <2>3, <2>4, <2>5
<1>17. ASSUME NEW p \in Updater, Return(p)
      PROVE  TypeOK'
  BY <1>17 DEF Return
<1>18. ASSUME NEW p \in Updater, Cleanup(p)
      PROVE  TypeOK'
  BY <1>18 DEF Cleanup
<1>19. ASSUME NEW p \in Updater, Refresh(p)
      PROVE  TypeOK'
  <2>1. AtDest(p) \in Build
    BY <1>19, FileTypes DEF Refresh, AtDest, SinceInv
  <2>2. ~(turn[p] > Len(Shells)) => turn[p] + 1 \in 1..Len(Shells) + 1
    BY UpdateAssumption
  <2>3. Len(Shells) \in Nat
    BY UpdateAssumption
  <2>4. CASE turn[p] > Len(Shells)
    BY <1>19, <2>4 DEF Refresh
  <2>5. CASE ~(turn[p] > Len(Shells)) /\ scripts[turn[p]] = None
    <3>1. /\ turn' = [turn EXCEPT ![p] = @ + 1]
          /\ UNCHANGED <<world, latest, disk, plan, replaced, files, since, pc, rendered>>
      BY <1>19, <2>5 DEF Refresh
    <3>2. turn' \in [Updater -> 1..Len(Shells) + 1]
      BY <2>2, <2>5, <3>1
    <3> QED BY <3>1, <3>2
  <2>6. CASE ~(turn[p] > Len(Shells)) /\ scripts[turn[p]] # None
    <3>1. /\ rendered' = [rendered EXCEPT ![p] = AtDest(p)] /\ turn' = turn
          /\ pc' = [pc EXCEPT ![p] = "truncate"]
          /\ UNCHANGED <<world, latest, disk, plan, replaced, files, since>>
      BY <1>19, <2>6 DEF Refresh
    <3> QED BY <2>1, <3>1
  <2> QED BY <2>3, <2>4, <2>5, <2>6
<1>20. ASSUME NEW p \in Updater, Truncate(p)
      PROVE  TypeOK'
  <2>1. rendered[p] \in Build /\ turn[p] \in 1..Len(Shells)
    BY <1>20 DEF Truncate, SinceInv
  <2> QED BY <1>20, <2>1, FileTypes DEF Truncate
<1>21. ASSUME NEW p \in Updater, WriteScript(p)
      PROVE  TypeOK'
  <2>1. rendered[p] \in Build /\ turn[p] \in 1..Len(Shells)
    BY <1>21 DEF WriteScript, SinceInv
  <2>2. turn[p] + 1 \in 1..Len(Shells) + 1
    BY <2>1, UpdateAssumption
  <2> QED BY <1>21, <2>1, <2>2, FileTypes DEF WriteScript
<1>22. ASSUME NEW p \in Updater, Fails(p)
      PROVE  TypeOK'
  BY <1>22 DEF Fails
<1>23. ASSUME NEW p \in Updater, Crash(p)
      PROVE  TypeOK'
  BY <1>23 DEF Crash
<1> QED BY <1>1, <1>2, <1>3, <1>4, <1>5, <1>6, <1>7, <1>8, <1>9, <1>10, <1>11, <1>12, <1>13, <1>14, <1>15, <1>16, <1>17, <1>18, <1>19, <1>20, <1>21, <1>22, <1>23, OneSteps

(* What is installed has been checked. *)
LEMMA CheckedStep ==
  ASSUME UpdateInv, [Next]_vars
  PROVE  CheckedInv'
<1> USE DEF UpdateInv, TypeOK, CheckedInv, Unstarted, Verified, Tested, Ended, Goto, At, world, disk, plan, files, work
<1>1. CASE UNCHANGED <<world, disk, pc, plan, replaced, files, work, since>>
               /\ (latest' = latest \/ latest' \in Version)
  BY <1>1
<1>2. ASSUME NEW p \in Updater, NEW arg \in Version \cup {"prompt", "latest"}, Start(p, arg)
      PROVE  CheckedInv'
  BY <1>2 DEF Start
<1>3. ASSUME NEW p \in Updater, Check(p)
      PROVE  CheckedInv'
  BY <1>3 DEF Check
<1>4. ASSUME NEW p \in Updater, Confirm(p)
      PROVE  CheckedInv'
  BY <1>4 DEF Confirm
<1>5. ASSUME NEW p \in Updater, Begin(p)
      PROVE  CheckedInv'
  BY <1>5 DEF Begin
<1>6. ASSUME NEW p \in Updater, Probe(p)
      PROVE  CheckedInv'
  BY <1>6 DEF Probe
<1>7. ASSUME NEW p \in Updater, Unprobe(p)
      PROVE  CheckedInv'
  BY <1>7 DEF Unprobe
<1>8. ASSUME NEW p \in Updater, FetchTarball(p)
      PROVE  CheckedInv'
  BY <1>8 DEF FetchTarball
<1>9. ASSUME NEW p \in Updater, FetchSums(p)
      PROVE  CheckedInv'
  BY <1>9 DEF FetchSums
<1>10. ASSUME NEW p \in Updater, MakeStaging(p)
      PROVE  CheckedInv'
  BY <1>10 DEF MakeStaging
<1>11. ASSUME NEW p \in Updater, Extract(p)
      PROVE  CheckedInv'
  BY <1>11 DEF Extract
<1>12. ASSUME NEW p \in Updater, SmokeTest(p)
      PROVE  CheckedInv'
  BY <1>12 DEF SmokeTest
<1>13. ASSUME NEW p \in Updater, Copy(p)
      PROVE  CheckedInv'
  BY <1>13 DEF Copy
<1>14. ASSUME NEW p \in Updater, Copied(p)
      PROVE  CheckedInv'
  BY <1>14 DEF Copied
<1>15. ASSUME NEW p \in Updater, Chmod(p)
      PROVE  CheckedInv'
  BY <1>15 DEF Chmod
<1>16. ASSUME NEW p \in Updater, Rename(p)
      PROVE  CheckedInv'
  BY <1>16 DEF Rename
<1>17. ASSUME NEW p \in Updater, Return(p)
      PROVE  CheckedInv'
  BY <1>17 DEF Return
<1>18. ASSUME NEW p \in Updater, Cleanup(p)
      PROVE  CheckedInv'
  BY <1>18 DEF Cleanup
<1>19. ASSUME NEW p \in Updater, Refresh(p)
      PROVE  CheckedInv'
  BY <1>19 DEF Refresh
<1>20. ASSUME NEW p \in Updater, Truncate(p)
      PROVE  CheckedInv'
  BY <1>20 DEF Truncate
<1>21. ASSUME NEW p \in Updater, WriteScript(p)
      PROVE  CheckedInv'
  BY <1>21 DEF WriteScript
<1>22. ASSUME NEW p \in Updater, Fails(p)
      PROVE  CheckedInv'
  BY <1>22 DEF Fails
<1>23. ASSUME NEW p \in Updater, Crash(p)
      PROVE  CheckedInv'
  BY <1>23 DEF Crash
<1> QED BY <1>1, <1>2, <1>3, <1>4, <1>5, <1>6, <1>7, <1>8, <1>9, <1>10, <1>11, <1>12, <1>13, <1>14, <1>15, <1>16, <1>17, <1>18, <1>19, <1>20, <1>21, <1>22, <1>23, OneSteps

(* The staged copy is as far as its step says. *)
LEMMA StagedStep ==
  ASSUME UpdateInv, [Next]_vars
  PROVE  StagedInv'
<1> USE DEF UpdateInv, TypeOK, StagedInv, Goto, At, world, disk, plan, files, work
<1>1. CASE UNCHANGED <<world, disk, pc, plan, replaced, files, work, since>>
               /\ (latest' = latest \/ latest' \in Version)
  BY <1>1
<1>2. ASSUME NEW p \in Updater, NEW arg \in Version \cup {"prompt", "latest"}, Start(p, arg)
      PROVE  StagedInv'
  BY <1>2 DEF Start
<1>3. ASSUME NEW p \in Updater, Check(p)
      PROVE  StagedInv'
  BY <1>3 DEF Check
<1>4. ASSUME NEW p \in Updater, Confirm(p)
      PROVE  StagedInv'
  BY <1>4 DEF Confirm
<1>5. ASSUME NEW p \in Updater, Begin(p)
      PROVE  StagedInv'
  BY <1>5 DEF Begin
<1>6. ASSUME NEW p \in Updater, Probe(p)
      PROVE  StagedInv'
  BY <1>6 DEF Probe
<1>7. ASSUME NEW p \in Updater, Unprobe(p)
      PROVE  StagedInv'
  BY <1>7 DEF Unprobe
<1>8. ASSUME NEW p \in Updater, FetchTarball(p)
      PROVE  StagedInv'
  BY <1>8 DEF FetchTarball
<1>9. ASSUME NEW p \in Updater, FetchSums(p)
      PROVE  StagedInv'
  BY <1>9 DEF FetchSums
<1>10. ASSUME NEW p \in Updater, MakeStaging(p)
      PROVE  StagedInv'
  BY <1>10 DEF MakeStaging
<1>11. ASSUME NEW p \in Updater, Extract(p)
      PROVE  StagedInv'
  BY <1>11 DEF Extract
<1>12. ASSUME NEW p \in Updater, SmokeTest(p)
      PROVE  StagedInv'
  BY <1>12 DEF SmokeTest
<1>13. ASSUME NEW p \in Updater, Copy(p)
      PROVE  StagedInv'
  BY <1>13 DEF Copy
<1>14. ASSUME NEW p \in Updater, Copied(p)
      PROVE  StagedInv'
  <2>1. staged'[p] = [build |-> got[p], whole |-> TRUE, mode |-> "umask"]
    BY <1>14 DEF Copied, Whole
  <2>2. \A q \in Updater \ {p} : staged'[q] = staged[q] /\ pc'[q] = pc[q]
    BY <1>14 DEF Copied
  <2>3. pc'[p] = "chmod" /\ got' = got
    BY <1>14 DEF Copied, Steps
  <2> QED BY <2>1, <2>2, <2>3 DEF Whole
<1>15. ASSUME NEW p \in Updater, Chmod(p)
      PROVE  StagedInv'
  <2>1. staged'[p] = [build |-> got[p], whole |-> TRUE, mode |-> "all"]
    BY <1>15 DEF Chmod, Whole
  <2>2. \A q \in Updater \ {p} : staged'[q] = staged[q] /\ pc'[q] = pc[q]
    BY <1>15 DEF Chmod
  <2>3. pc'[p] = "rename" /\ got' = got
    BY <1>15 DEF Chmod, Steps
  <2> QED BY <2>1, <2>2, <2>3 DEF Whole
<1>16. ASSUME NEW p \in Updater, Rename(p)
      PROVE  StagedInv'
  BY <1>16 DEF Rename
<1>17. ASSUME NEW p \in Updater, Return(p)
      PROVE  StagedInv'
  BY <1>17 DEF Return
<1>18. ASSUME NEW p \in Updater, Cleanup(p)
      PROVE  StagedInv'
  BY <1>18 DEF Cleanup
<1>19. ASSUME NEW p \in Updater, Refresh(p)
      PROVE  StagedInv'
  BY <1>19 DEF Refresh
<1>20. ASSUME NEW p \in Updater, Truncate(p)
      PROVE  StagedInv'
  BY <1>20 DEF Truncate
<1>21. ASSUME NEW p \in Updater, WriteScript(p)
      PROVE  StagedInv'
  BY <1>21 DEF WriteScript
<1>22. ASSUME NEW p \in Updater, Fails(p)
      PROVE  StagedInv'
  BY <1>22 DEF Fails
<1>23. ASSUME NEW p \in Updater, Crash(p)
      PROVE  StagedInv'
  BY <1>23 DEF Crash
<1> QED BY <1>1, <1>2, <1>3, <1>4, <1>5, <1>6, <1>7, <1>8, <1>9, <1>10, <1>11, <1>12, <1>13, <1>14, <1>15, <1>16, <1>17, <1>18, <1>19, <1>20, <1>21, <1>22, <1>23, OneSteps

(* Files are removed by whoever made them. *)
LEMMA LeftStep ==
  ASSUME UpdateInv, [Next]_vars
  PROVE  LeftInv'
<1> USE DEF UpdateInv, TypeOK, LeftInv, Goto, At, world, disk, plan, files, work
<1>1. CASE UNCHANGED <<world, disk, pc, plan, replaced, files, work, since>>
               /\ (latest' = latest \/ latest' \in Version)
  BY <1>1
<1>2. ASSUME NEW p \in Updater, NEW arg \in Version \cup {"prompt", "latest"}, Start(p, arg)
      PROVE  LeftInv'
  BY <1>2 DEF Start
<1>3. ASSUME NEW p \in Updater, Check(p)
      PROVE  LeftInv'
  BY <1>3 DEF Check
<1>4. ASSUME NEW p \in Updater, Confirm(p)
      PROVE  LeftInv'
  BY <1>4 DEF Confirm
<1>5. ASSUME NEW p \in Updater, Begin(p)
      PROVE  LeftInv'
  BY <1>5 DEF Begin
<1>6. ASSUME NEW p \in Updater, Probe(p)
      PROVE  LeftInv'
  BY <1>6 DEF Probe
<1>7. ASSUME NEW p \in Updater, Unprobe(p)
      PROVE  LeftInv'
  BY <1>7 DEF Unprobe
<1>8. ASSUME NEW p \in Updater, FetchTarball(p)
      PROVE  LeftInv'
  BY <1>8 DEF FetchTarball
<1>9. ASSUME NEW p \in Updater, FetchSums(p)
      PROVE  LeftInv'
  BY <1>9 DEF FetchSums
<1>10. ASSUME NEW p \in Updater, MakeStaging(p)
      PROVE  LeftInv'
  BY <1>10 DEF MakeStaging
<1>11. ASSUME NEW p \in Updater, Extract(p)
      PROVE  LeftInv'
  BY <1>11 DEF Extract
<1>12. ASSUME NEW p \in Updater, SmokeTest(p)
      PROVE  LeftInv'
  BY <1>12 DEF SmokeTest
<1>13. ASSUME NEW p \in Updater, Copy(p)
      PROVE  LeftInv'
  BY <1>13 DEF Copy
<1>14. ASSUME NEW p \in Updater, Copied(p)
      PROVE  LeftInv'
  BY <1>14 DEF Copied
<1>15. ASSUME NEW p \in Updater, Chmod(p)
      PROVE  LeftInv'
  BY <1>15 DEF Chmod
<1>16. ASSUME NEW p \in Updater, Rename(p)
      PROVE  LeftInv'
  BY <1>16 DEF Rename
<1>17. ASSUME NEW p \in Updater, Return(p)
      PROVE  LeftInv'
  BY <1>17 DEF Return
<1>18. ASSUME NEW p \in Updater, Cleanup(p)
      PROVE  LeftInv'
  BY <1>18 DEF Cleanup
<1>19. ASSUME NEW p \in Updater, Refresh(p)
      PROVE  LeftInv'
  BY <1>19 DEF Refresh
<1>20. ASSUME NEW p \in Updater, Truncate(p)
      PROVE  LeftInv'
  BY <1>20 DEF Truncate
<1>21. ASSUME NEW p \in Updater, WriteScript(p)
      PROVE  LeftInv'
  BY <1>21 DEF WriteScript
<1>22. ASSUME NEW p \in Updater, Fails(p)
      PROVE  LeftInv'
  BY <1>22 DEF Fails
<1>23. ASSUME NEW p \in Updater, Crash(p)
      PROVE  LeftInv'
  BY <1>23 DEF Crash
<1> QED BY <1>1, <1>2, <1>3, <1>4, <1>5, <1>6, <1>7, <1>8, <1>9, <1>10, <1>11, <1>12, <1>13, <1>14, <1>15, <1>16, <1>17, <1>18, <1>19, <1>20, <1>21, <1>22, <1>23, OneSteps

(* What was put in place is there, or what came after it. *)
LEMMA SinceStep ==
  ASSUME UpdateInv, [Next]_vars
  PROVE  SinceInv'
<1> USE DEF UpdateInv, TypeOK, SinceInv, Goto, At, world, disk, plan, files, work
<1>1. CASE UNCHANGED <<world, disk, pc, plan, replaced, files, work, since>>
               /\ (latest' = latest \/ latest' \in Version)
  BY <1>1
<1>2. ASSUME NEW p \in Updater, NEW arg \in Version \cup {"prompt", "latest"}, Start(p, arg)
      PROVE  SinceInv'
  BY <1>2 DEF Start
<1>3. ASSUME NEW p \in Updater, Check(p)
      PROVE  SinceInv'
  BY <1>3 DEF Check
<1>4. ASSUME NEW p \in Updater, Confirm(p)
      PROVE  SinceInv'
  BY <1>4 DEF Confirm
<1>5. ASSUME NEW p \in Updater, Begin(p)
      PROVE  SinceInv'
  BY <1>5 DEF Begin
<1>6. ASSUME NEW p \in Updater, Probe(p)
      PROVE  SinceInv'
  BY <1>6 DEF Probe
<1>7. ASSUME NEW p \in Updater, Unprobe(p)
      PROVE  SinceInv'
  BY <1>7 DEF Unprobe
<1>8. ASSUME NEW p \in Updater, FetchTarball(p)
      PROVE  SinceInv'
  BY <1>8 DEF FetchTarball
<1>9. ASSUME NEW p \in Updater, FetchSums(p)
      PROVE  SinceInv'
  BY <1>9 DEF FetchSums
<1>10. ASSUME NEW p \in Updater, MakeStaging(p)
      PROVE  SinceInv'
  BY <1>10 DEF MakeStaging
<1>11. ASSUME NEW p \in Updater, Extract(p)
      PROVE  SinceInv'
  BY <1>11 DEF Extract
<1>12. ASSUME NEW p \in Updater, SmokeTest(p)
      PROVE  SinceInv'
  BY <1>12 DEF SmokeTest
<1>13. ASSUME NEW p \in Updater, Copy(p)
      PROVE  SinceInv'
  BY <1>13 DEF Copy
<1>14. ASSUME NEW p \in Updater, Copied(p)
      PROVE  SinceInv'
  BY <1>14 DEF Copied
<1>15. ASSUME NEW p \in Updater, Chmod(p)
      PROVE  SinceInv'
  BY <1>15 DEF Chmod
<1>16. ASSUME NEW p \in Updater, Rename(p)
      PROVE  SinceInv'
  <2>1. staged[p] = Whole(got[p]) /\ got[p] \in Build
    BY <1>16 DEF Rename, StagedInv, CheckedInv, Verified
  <2>2. staged[p].build = got[p] /\ staged[p] # None
    BY <2>1, FileTypes
  <2>3. since'[p] = {got[p]} /\ dest' = dest /\ rendered' = rendered /\ turn' = turn
    BY <1>16 DEF Rename
  <2>4. rendered[p] = None
    BY <1>16 DEF Rename
  <2>5. \A q \in Updater \ {p} :
          /\ pc'[q] = pc[q] /\ since[q] \subseteq since'[q]
          /\ since[q] # {} /\ dest[q] = dest[p] => got[p] \in since'[q]
    BY <1>16 DEF Rename
  <2>6. pc'[p] = "return"
    BY <1>16 DEF Rename
  <2>7. CASE dest[p] = "place"
    <3>1. installed' = staged[p] /\ stray' = stray
      BY <1>16, <2>7 DEF Rename
    <3> QED BY <2>2, <2>3, <2>4, <2>5, <2>6, <2>7, <3>1
  <2>8. CASE dest[p] # "place"
    <3>1. stray' = staged[p] /\ installed' = installed /\ dest[p] = "stray"
      BY <1>16, <2>8 DEF Rename
    <3> QED BY <2>2, <2>3, <2>4, <2>5, <2>6, <2>8, <3>1
  <2> QED BY <2>7, <2>8
<1>17. ASSUME NEW p \in Updater, Return(p)
      PROVE  SinceInv'
  BY <1>17 DEF Return
<1>18. ASSUME NEW p \in Updater, Cleanup(p)
      PROVE  SinceInv'
  BY <1>18 DEF Cleanup
<1>19. ASSUME NEW p \in Updater, Refresh(p)
      PROVE  SinceInv'
  <2>1. AtDest(p) \in since[p] /\ AtDest(p) # None
    BY <1>19, UpdateAssumption DEF Refresh, AtDest
  <2>2. UNCHANGED <<installed, stray, dest, since>>
    BY <1>19 DEF Refresh
  <2>3. CASE turn[p] > Len(Shells)
    BY <1>19, <2>2, <2>3 DEF Refresh
  <2>4. CASE turn[p] \in 1..Len(Shells) /\ scripts[turn[p]] = None
    BY <1>19, <2>2, <2>4 DEF Refresh
  <2>5. CASE turn[p] \in 1..Len(Shells) /\ scripts[turn[p]] # None
    BY <1>19, <2>1, <2>2, <2>5 DEF Refresh
  <2> QED BY <2>3, <2>4, <2>5, UpdateAssumption
<1>20. ASSUME NEW p \in Updater, Truncate(p)
      PROVE  SinceInv'
  BY <1>20 DEF Truncate
<1>21. ASSUME NEW p \in Updater, WriteScript(p)
      PROVE  SinceInv'
  BY <1>21 DEF WriteScript
<1>22. ASSUME NEW p \in Updater, Fails(p)
      PROVE  SinceInv'
  BY <1>22 DEF Fails
<1>23. ASSUME NEW p \in Updater, Crash(p)
      PROVE  SinceInv'
  BY <1>23 DEF Crash
<1> QED BY <1>1, <1>2, <1>3, <1>4, <1>5, <1>6, <1>7, <1>8, <1>9, <1>10, <1>11, <1>12, <1>13, <1>14, <1>15, <1>16, <1>17, <1>18, <1>19, <1>20, <1>21, <1>22, <1>23, OneSteps

(* Only a checked and whole file is renamed into place. *)
LEMMA ReleaseStep ==
  ASSUME UpdateInv, [Next]_vars
  PROVE  InstalledIsARelease'
<1> USE DEF UpdateInv, TypeOK, InstalledIsARelease, Good, Goto, At, world, disk, plan, files, work
<1>1. CASE UNCHANGED <<world, disk, pc, plan, replaced, files, work, since>>
               /\ (latest' = latest \/ latest' \in Version)
  BY <1>1
<1>2. ASSUME NEW p \in Updater, NEW arg \in Version \cup {"prompt", "latest"}, Start(p, arg)
      PROVE  InstalledIsARelease'
  BY <1>2 DEF Start
<1>3. ASSUME NEW p \in Updater, Check(p)
      PROVE  InstalledIsARelease'
  BY <1>3 DEF Check
<1>4. ASSUME NEW p \in Updater, Confirm(p)
      PROVE  InstalledIsARelease'
  BY <1>4 DEF Confirm
<1>5. ASSUME NEW p \in Updater, Begin(p)
      PROVE  InstalledIsARelease'
  BY <1>5 DEF Begin
<1>6. ASSUME NEW p \in Updater, Probe(p)
      PROVE  InstalledIsARelease'
  BY <1>6 DEF Probe
<1>7. ASSUME NEW p \in Updater, Unprobe(p)
      PROVE  InstalledIsARelease'
  BY <1>7 DEF Unprobe
<1>8. ASSUME NEW p \in Updater, FetchTarball(p)
      PROVE  InstalledIsARelease'
  BY <1>8 DEF FetchTarball
<1>9. ASSUME NEW p \in Updater, FetchSums(p)
      PROVE  InstalledIsARelease'
  BY <1>9 DEF FetchSums
<1>10. ASSUME NEW p \in Updater, MakeStaging(p)
      PROVE  InstalledIsARelease'
  BY <1>10 DEF MakeStaging
<1>11. ASSUME NEW p \in Updater, Extract(p)
      PROVE  InstalledIsARelease'
  BY <1>11 DEF Extract
<1>12. ASSUME NEW p \in Updater, SmokeTest(p)
      PROVE  InstalledIsARelease'
  BY <1>12 DEF SmokeTest
<1>13. ASSUME NEW p \in Updater, Copy(p)
      PROVE  InstalledIsARelease'
  BY <1>13 DEF Copy
<1>14. ASSUME NEW p \in Updater, Copied(p)
      PROVE  InstalledIsARelease'
  BY <1>14 DEF Copied
<1>15. ASSUME NEW p \in Updater, Chmod(p)
      PROVE  InstalledIsARelease'
  BY <1>15 DEF Chmod
<1>16. ASSUME NEW p \in Updater, Rename(p)
      PROVE  InstalledIsARelease'
  <2>1. /\ staged[p] = Whole(got[p])
        /\ want[p] \in Version /\ got[p] = listed[want[p]] /\ Reports[got[p]] = want[p]
    BY <1>16 DEF Rename, StagedInv, CheckedInv, Unstarted, Ended, Verified, Tested
  <2>2. listed' = listed /\ (installed' = installed \/ installed' = staged[p])
    BY <1>16 DEF Rename
  <2> QED BY <2>1, <2>2 DEF Whole
<1>17. ASSUME NEW p \in Updater, Return(p)
      PROVE  InstalledIsARelease'
  BY <1>17 DEF Return
<1>18. ASSUME NEW p \in Updater, Cleanup(p)
      PROVE  InstalledIsARelease'
  BY <1>18 DEF Cleanup
<1>19. ASSUME NEW p \in Updater, Refresh(p)
      PROVE  InstalledIsARelease'
  BY <1>19 DEF Refresh
<1>20. ASSUME NEW p \in Updater, Truncate(p)
      PROVE  InstalledIsARelease'
  BY <1>20 DEF Truncate
<1>21. ASSUME NEW p \in Updater, WriteScript(p)
      PROVE  InstalledIsARelease'
  BY <1>21 DEF WriteScript
<1>22. ASSUME NEW p \in Updater, Fails(p)
      PROVE  InstalledIsARelease'
  BY <1>22 DEF Fails
<1>23. ASSUME NEW p \in Updater, Crash(p)
      PROVE  InstalledIsARelease'
  BY <1>23 DEF Crash
<1> QED BY <1>1, <1>2, <1>3, <1>4, <1>5, <1>6, <1>7, <1>8, <1>9, <1>10, <1>11, <1>12, <1>13, <1>14, <1>15, <1>16, <1>17, <1>18, <1>19, <1>20, <1>21, <1>22, <1>23, OneSteps

-----------------------------------------------------------------------------
(* The strengthening of the three properties is inductive.                 *)
THEOREM UpdateInvariant == Spec => []UpdateInv
<1>1. Init => UpdateInv
  <2> SUFFICES ASSUME Init PROVE UpdateInv
    OBVIOUS
  <2> USE DEF Init
  <2>1. TypeOK
    BY FileTypes, UpdateAssumption DEF TypeOK, Steps, Ended
  <2>2. CheckedInv /\ StagedInv /\ LeftInv
    BY DEF CheckedInv, StagedInv, LeftInv, Unstarted, Ended, Verified, Tested
  <2>3. SinceInv
    BY DEF SinceInv
  <2>4. InstalledIsARelease
    BY DEF InstalledIsARelease, Whole
  <2> QED BY <2>1, <2>2, <2>3, <2>4 DEF UpdateInv
<1>2. UpdateInv /\ [Next]_vars => UpdateInv'
  BY TypeStep, CheckedStep, StagedStep, LeftStep, SinceStep, ReleaseStep DEF UpdateInv
<1> QED BY <1>1, <1>2, PTL DEF Spec

(* Every variable keeps its type.                                          *)
THEOREM UpdateTypes == Spec => []TypeOK
<1>1. UpdateInv => TypeOK
  BY DEF UpdateInv
<1> QED BY <1>1, UpdateInvariant, PTL

(* Whatever fails, is killed or runs at the same time, the command on the  *)
(* path is a release that was verified and tried before it got there.      *)
THEOREM AlwaysARelease == Spec => []InstalledIsARelease
<1>1. UpdateInv => InstalledIsARelease
  BY DEF UpdateInv
<1> QED BY <1>1, UpdateInvariant, PTL

(* Every update that was not killed has cleaned up after itself.           *)
THEOREM NoLitter == Spec => []NothingLeftBehind
<1>1. UpdateInv => NothingLeftBehind
  <2> SUFFICES ASSUME UpdateInv, NEW p \in Updater, pc[p] \in {"done", "failed"}
               PROVE  left[p] = {} /\ staged[p] = None
    BY DEF NothingLeftBehind
  <2>1. left[p] \subseteq {"probe", "tempdir"}
    BY DEF UpdateInv, TypeOK
  <2>2. "probe" \notin left[p] /\ "tempdir" \notin left[p]
    BY DEF UpdateInv, LeftInv
  <2>3. staged[p] = None
    BY DEF UpdateInv, StagedInv
  <2> QED BY <2>1, <2>2, <2>3
<1> QED BY <1>1, UpdateInvariant, PTL

(* No script is rendered by a binary older than the update that writes it. *)
THEOREM ScriptsAreNew == Spec => []ScriptsComeFromTheNewBinary
<1>1. UpdateInv => ScriptsComeFromTheNewBinary
  BY DEF UpdateInv, SinceInv, ScriptsComeFromTheNewBinary
<1> QED BY <1>1, UpdateInvariant, PTL
=============================================================================
