----------------------------- MODULE LogTargets -----------------------------
(***************************************************************************)
(* Where `tekops logs' and `tekops dump-logs' read from: needs_detection   *)
(* and check_selection of cli.rs, detect_role of stack.rs and              *)
(* resolve_log_sources of logs.rs, as one invocation runs them.            *)
(*                                                                         *)
(* A target is named by the rung of the ladder it was written on - a flag, *)
(* a variable or a key of the config file, for one process, as a container *)
(* or a file - so an invocation is the set of rungs that were given.       *)
(*                                                                         *)
(* A definition that carries another's name and a suffix is that operation *)
(* with a slip in it, kept to show that the properties notice the slip.    *)
(***************************************************************************)
EXTENDS DockerStacks

CONSTANTS DefaultLog,    \* DEFAULT_TEKU_LOG
          Containers,    \* the containers that may be running on this host
          MAX_GIVEN      \* bound: rungs given in one invocation

Tier == {"flag", "env", "config"}
Kind == {"container", "file"}

Rung == [slot : Slot, tier : Tier, kind : Kind]

(* A container's name gives its role and its stack away, and naming one is *)
(* not detecting it.                                                       *)
ASSUME TargetsAssumption ==
  /\ \A c \in Containers : c.role \in Slot /\ c.stack \in Docker /\ c \notin Rung
  /\ DefaultLog \notin Rung \cup Containers
  /\ None \notin Rung \cup Containers \cup {DefaultLog} \cup Slot \cup Stack
  /\ IsFiniteSet(Containers)
  /\ MAX_GIVEN \in Nat

VARIABLES given,      \* the rungs the operator filled in
          only,       \* the stack stated for this invocation
          select,     \* --bn or --vc
          running,    \* the containers running on the host
          answers,    \* whether Docker can be asked
          present,    \* whether the default log file is there
          ps,         \* what `docker ps' said, None if it was not asked
          sources,    \* LogSources
          step        \* how far the invocation has come

invocation == <<given, only, select>>
host == <<running, answers, present>>
vars == <<invocation, host, ps, sources, step>>

-----------------------------------------------------------------------------
(* Places on the ladder: tier by tier, the container first. *)
Place(r) == (CASE r.tier = "flag" -> 0 [] r.tier = "env" -> 2 [] r.tier = "config" -> 4)
              + (IF r.kind = "container" THEN 0 ELSE 1)

FirstTarget(rungs) ==
  IF rungs = {} THEN None
  ELSE CHOOSE r \in rungs : \A q \in rungs : Place(r) <= Place(q)

(* The tiers that are typed for this invocation. *)
ByHand_and_config == {"flag", "env", "config"}
ByHand == {"flag", "env"}

Stated_any_slot(g, slot, tiers) == FirstTarget({r \in g : r.tier \in tiers})
Stated(g, slot, tiers) == FirstTarget({r \in g : r.slot = slot /\ r.tier \in tiers})

NeedsDetection_for_bn_alone(g) == \A r \in g : r.slot # "bn"
NeedsDetection(g) == \E slot \in Slot : \A r \in g : r.slot # slot

(* The ladder of one slot: stated, detected, and for the beacon node the   *)
(* default log if it is there.                                             *)
Ladder_default_assumed(g, found, there, slot) ==
  OrElse(Stated(g, slot, Tier),
  OrElse(found[slot], IF slot = "bn" THEN DefaultLog ELSE None))
Ladder(g, found, there, slot) ==
  OrElse(Stated(g, slot, Tier),
  OrElse(found[slot], IF slot = "bn" /\ there THEN DefaultLog ELSE None))

Other(slot) == IF slot = "bn" THEN "vc" ELSE "bn"

(* Rule 1: when one side only was stated by hand, it is read as stated and *)
(* the other is silent.                                                    *)
OneSlot(g, found, there, slot) ==
  LET explicit(s) == Stated(g, s, ByHand) # None
  IN IF explicit(slot) = explicit(Other(slot)) THEN Ladder(g, found, there, slot)
     ELSE IF explicit(slot) THEN Stated(g, slot, Tier)
     ELSE None

(* resolve_log_sources: rule 1, then the last resort of rule 2, then the   *)
(* filter of rule 3.                                                       *)
Resolve(g, found, there, chosen) ==
  LET slots == [s \in Slot |-> OneSlot(g, found, there, s)]
      last  == IF \A s \in Slot : slots[s] = None
               THEN [slots EXCEPT !["bn"] = DefaultLog]
               ELSE slots
  IN [s \in Slot |-> IF chosen \in {None, s} THEN last[s] ELSE None]

Found(names, stack) == [s \in Slot |-> Detected(names, s, stack)]

Active == {s \in Slot : sources[s] # None}

-----------------------------------------------------------------------------
Init ==
  /\ given \in {g \in SUBSET Rung : Cardinality(g) <= MAX_GIVEN}
  /\ only \in Stack \cup {None}
  /\ select \in Slot \cup {None}
  /\ running \in SUBSET Containers
  /\ answers \in BOOLEAN
  /\ present \in BOOLEAN
  /\ ps = None
  /\ sources = [s \in Slot |-> None]
  /\ step = "start"

(* docker_ps_names, behind the gate: one snapshot for both roles. *)
AskDocker ==
  /\ step = "start"
  /\ ps' = IF NeedsDetection(given) /\ answers THEN running ELSE None
  /\ step' = "asked"
  /\ UNCHANGED <<invocation, host, sources>>

ResolveSources ==
  /\ step = "asked"
  /\ sources' = Resolve(given, Found(ps, only), present, select)
  /\ step' = "resolved"
  /\ UNCHANGED <<invocation, host, ps>>

(* check_selection: a slot that was asked for and has no source. *)
Missing_either == select # None /\ Active # {} /\ sources[select] = None
Missing == select # None /\ sources[select] = None

CheckSelection ==
  /\ step = "resolved"
  /\ step' = IF Missing THEN "refused" ELSE "running"
  /\ UNCHANGED <<invocation, host, ps, sources>>

Next == AskDocker \/ ResolveSources \/ CheckSelection

Spec == Init /\ [][Next]_vars

-----------------------------------------------------------------------------
(* What may fill a slot: a rung of that slot, a container of that role, or *)
(* the default log for the beacon node.                                    *)
Fits(target, slot) ==
  \/ target \in Rung /\ target.slot = slot
  \/ target \in Containers /\ target.role = slot
  \/ target = DefaultLog /\ slot = "bn"

TypeOK ==
  /\ given \subseteq Rung /\ only \in Stack \cup {None} /\ select \in Slot \cup {None}
  /\ running \subseteq Containers /\ answers \in BOOLEAN /\ present \in BOOLEAN
  /\ ps = None \/ ps \subseteq Containers
  /\ DOMAIN sources = Slot
  /\ \A s \in Slot : sources[s] = None \/ Fits(sources[s], s)
  /\ step \in {"start", "asked", "resolved", "running", "refused"}

Resolved == step \notin {"start", "asked"}

(* needs_detection is the ladder "negated by hand": an invocation that     *)
(* skips `docker ps' reads exactly what it would have read had it asked.   *)
AskingLessChangesNothing ==
  Resolved =>
    sources = Resolve(given, Found(IF answers THEN running ELSE None, only),
                      present, select)

(* "An invocation that works today must keep working unchanged": when one  *)
(* side is stated by flag or variable, neither the config file, nor what   *)
(* runs on the host, nor the default log decides anything.                 *)
OneSidedIgnoresTheHost ==
  LET typed == {r \in given : r.tier # "config"}
  IN Resolved /\ Cardinality({r.slot : r \in typed}) = 1 =>
       sources = Resolve(typed, [s \in Slot |-> None], FALSE, select)

(* A session that starts has something to read, and what --bn or --vc      *)
(* asked for is among it: run_logs' own "no log source to read" is never   *)
(* the answer.                                                             *)
SessionHasASource ==
  step = "running" => Active # {} /\ (select # None => Active = {select})

(* "tekops cannot guess which one you mean": a container that was not     *)
(* named is read only if it is the one container of that role running, of  *)
(* the stack in force, so that `--stack bare-metal' "turns container       *)
(* detection off entirely".                                                *)
NeverAGuess ==
  \A s \in Slot : sources[s] \in Containers =>
    \A c \in running :
      c = sources[s] <=> c.role = s /\ only \in {None, c.stack}

(* "Keeping the existence gate is what stops a pure Rocket Pool node being *)
(* handed a file not found for a path it never had": the default is read   *)
(* without being there only if nothing at all was named or found.          *)
AbsentDefaultIsTheLastResort ==
  Resolved /\ sources["bn"] = DefaultLog /\ ~present =>
    given = {} /\ \A s \in Slot : Found(ps, only)[s] = None

(* What a session reads is there, or it was asked for: it has a source,    *)
(* the ones asked for are among them, and the default log is assumed only  *)
(* where there is nothing else to go by (run_logs, resolve_log_sources).   *)
SourcesAreThere ==
  /\ SessionHasASource
  /\ AbsentDefaultIsTheLastResort

=============================================================================
