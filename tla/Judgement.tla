----------------------------- MODULE Judgement ------------------------------
(***************************************************************************)
(* What `tekops doctor' makes of the facts it has collected: evaluate of   *)
(* doctor.rs, a pure function with every threshold and every opinion.      *)
(*                                                                         *)
(* A fact is a Probe: what was learned, a failure, or a question that was  *)
(* not put.  A row says whether it rests on something that was learned; a  *)
(* number the node sent that is none is NaN.                               *)
(*                                                                         *)
(* A definition that carries another's name and a suffix is that operation *)
(* with a slip in it, kept to show that the properties notice the slip.    *)
(***************************************************************************)
EXTENDS DockerStacks

CONSTANTS NaN,
          PEERS_WARN_BELOW,
          FINALITY_WARN_ABOVE, FINALITY_FAIL_ABOVE, SLOTS_PER_EPOCH,
          DISK_WARN_BELOW, DISK_FAIL_BELOW, MEM_WARN_BELOW,
          RESTARTS_FAIL_AT,
          LOAD_WARN_ABOVE_PER_CPU, LOAD_FAIL_ABOVE_PER_CPU

ASSUME JudgementAssumption ==
  /\ {PEERS_WARN_BELOW, FINALITY_WARN_ABOVE, FINALITY_FAIL_ABOVE, RESTARTS_FAIL_AT,
      DISK_WARN_BELOW, DISK_FAIL_BELOW, MEM_WARN_BELOW,
      LOAD_WARN_ABOVE_PER_CPU, LOAD_FAIL_ABOVE_PER_CPU} \subseteq Nat
  /\ FINALITY_WARN_ABOVE <= FINALITY_FAIL_ABOVE
  /\ DISK_FAIL_BELOW <= DISK_WARN_BELOW
  /\ LOAD_WARN_ABOVE_PER_CPU <= LOAD_FAIL_ABOVE_PER_CPU
  /\ SLOTS_PER_EPOCH \in Nat \ {0} /\ RESTARTS_FAIL_AT > 0
  /\ NaN \notin Nat

Ok(v)       == [is |-> "ok", value |-> v]
Failed(why) == [is |-> "failed", why |-> why]
Skipped     == [is |-> "skipped"]

IsOk(p)          == p.is = "ok"
IsUnreachable(p) == p.is = "failed" /\ p.why = "unreachable"

Status == {"pass", "warn", "fail"}
Row(name, status, learned) == [name |-> name, status |-> status, learned |-> learned]
Learned(name, status)      == {Row(name, status, TRUE)}
Unknown(name, status)      == {Row(name, status, FALSE)}

(* The value, when it is one, judged; a probe without one is a finding of  *)
(* its own.                                                                *)
Judge(name, p, status, otherwise) ==
  IF IsOk(p) THEN Learned(name, status) ELSE Unknown(name, otherwise)

CheckBeaconApi(f) ==
  Judge("beacon api", f.health,
        CASE f.health.value = "ready"     -> "pass"
          [] f.health.value = "syncing"   -> "warn"
          [] f.health.value = "not ready" -> "fail", "fail")

CheckMetrics(f) ==
  Judge("beacon node metrics", f.bn_families,
        IF f.bn_families.value.beacon THEN "pass" ELSE "warn", "fail")
  \cup
  Judge("validator metrics", f.vc_families,
        IF f.vc_families.value.validator THEN "pass" ELSE "warn", "fail")

(* check_metrics_layout: an endpoint with the validator's families is the  *)
(* wrong one for a beacon node, or serves both.                            *)
Misplaced == Row("metrics layout: a validator client", "warn", TRUE)
AllInOne  == Row("metrics layout: all in one", "warn", TRUE)

CheckMetricsLayout_any_trouble(f) ==
  IF IsOk(f.bn_families) /\ (f.bn_families.value.counts \/ f.bn_families.value.validator)
  THEN IF ~f.bn_families.value.beacon THEN {Misplaced}
       ELSE IF IsOk(f.vc_families) /\ f.vc_families.value.counts THEN {} ELSE {AllInOne}
  ELSE {}
CheckMetricsLayout(f) ==
  IF IsOk(f.bn_families) /\ (f.bn_families.value.counts \/ f.bn_families.value.validator)
  THEN IF ~f.bn_families.value.beacon THEN {Misplaced}
       ELSE IF IsUnreachable(f.vc_families) THEN {AllInOne} ELSE {}
  ELSE {}

CheckSyncing_fail_again(f) ==
  LET s == f.syncing IN
    Judge("sync status", s, IF s.value.is_syncing THEN "warn" ELSE "pass", "fail")
    \cup Judge("execution layer", s, IF s.value.el_offline THEN "fail" ELSE "pass", "fail")
    \cup Judge("optimistic head", s, IF s.value.is_optimistic THEN "fail" ELSE "pass", "fail")
CheckSyncing(f) ==
  LET s == f.syncing IN
    Judge("sync status", s, IF s.value.is_syncing THEN "warn" ELSE "pass", "warn")
    \cup Judge("execution layer", s, IF s.value.el_offline THEN "fail" ELSE "pass", "warn")
    \cup Judge("optimistic head", s, IF s.value.is_optimistic THEN "fail" ELSE "pass", "warn")

Monus(a, b) == IF a < b THEN 0 ELSE a - b

LagStatus(head, finalized) ==
  LET lag == Monus(head \div SLOTS_PER_EPOCH, finalized) IN
    IF lag > FINALITY_FAIL_ABOVE THEN "fail" ELSE IF lag > FINALITY_WARN_ABOVE THEN "warn" ELSE "pass"

CheckFinality(f) ==
  IF ~IsOk(f.syncing) \/ ~IsOk(f.finality) THEN Unknown("finality lag", "warn")
  ELSE IF NaN \in {f.syncing.value.head_slot, f.finality.value} THEN Learned("finality lag", "warn")
  ELSE Learned("finality lag", LagStatus(f.syncing.value.head_slot, f.finality.value))

CheckPeers_silent(f) ==
  LET n == f.peers.value IN
    IF ~IsOk(f.peers) THEN {}
    ELSE Learned("peer count", IF n = 0 THEN "fail" ELSE IF n < PEERS_WARN_BELOW THEN "warn" ELSE "pass")
CheckPeers(f) ==
  LET n == f.peers.value IN
    Judge("peer count", f.peers,
          IF n = 0 THEN "fail" ELSE IF n < PEERS_WARN_BELOW THEN "warn" ELSE "pass", "warn")

CheckValidators(f) ==
  Judge("validator keys", f.validators, IF f.validators.value > 0 THEN "pass" ELSE "warn", "warn")

CheckDuties(f) ==
  Judge("duties published", f.duties, IF f.duties.value > 0 THEN "pass" ELSE "warn", "warn")

StackHasContainers(stack) == stack \in Docker

UpOrDown(name, containers) ==
  Learned(name, IF \A c \in containers : c.running THEN "pass" ELSE "fail")

(* None found is a failure for the consensus container, and silence for    *)
(* the validator's: a combined deployment has none.                        *)
CheckConsensusContainer(f) ==
  IF ~StackHasContainers(f.stack) THEN {}
  ELSE IF f.containers.is # "ok" THEN Unknown("consensus container", "fail")
  ELSE IF f.containers.value = {} THEN Learned("consensus container", "fail")
  ELSE UpOrDown("consensus container", f.containers.value)

CheckValidatorContainer(f) ==
  IF ~StackHasContainers(f.vc_stack) \/ f.vc_containers.is = "skipped" THEN {}
  ELSE IF f.vc_containers.is = "failed" THEN Unknown("validator container", "fail")
  ELSE IF f.vc_containers.value = {} THEN {}
  ELSE UpOrDown("validator container", f.vc_containers.value)

(* The restarts of the worst container on either side.                     *)
Inspected(stack, p) == IF StackHasContainers(stack) /\ IsOk(p) THEN p.value ELSE {}

CheckContainerRestarts(f) ==
  LET counted == Inspected(f.stack, f.containers) \cup Inspected(f.vc_stack, f.vc_containers) IN
    IF counted = {} THEN {}
    ELSE Learned("container restarts",
           IF \E c \in counted : c.restarts >= RESTARTS_FAIL_AT THEN "fail"
           ELSE IF \E c \in counted : c.restarts > 0 THEN "warn" ELSE "pass")

(* A host fact that could not be read says nothing.                        *)
Below(n, warn, fail) == IF n < fail THEN "fail" ELSE IF n < warn THEN "warn" ELSE "pass"

CheckHost(f) ==
  (IF f.disk = None THEN {} ELSE Learned("disk free", Below(f.disk.free, DISK_WARN_BELOW, DISK_FAIL_BELOW)))
  \cup
  (IF f.memory = None THEN {} ELSE Learned("memory available", Below(f.memory, MEM_WARN_BELOW, 0)))
  \cup
  (IF f.load = None \/ f.cpus = None THEN {}
   ELSE Learned("load average",
          IF f.load > f.cpus * LOAD_FAIL_ABOVE_PER_CPU THEN "fail"
          ELSE IF f.load > f.cpus * LOAD_WARN_ABOVE_PER_CPU THEN "warn" ELSE "pass"))

Evaluate(f) ==
  CheckBeaconApi(f) \cup CheckMetrics(f) \cup CheckMetricsLayout(f)
  \cup CheckSyncing(f) \cup CheckFinality(f) \cup CheckPeers(f)
  \cup CheckValidators(f) \cup CheckDuties(f)
  \cup CheckConsensusContainer(f) \cup CheckValidatorContainer(f) \cup CheckContainerRestarts(f)
  \cup CheckHost(f)

(* exit_for_findings. *)
Succeeds(findings) == \A r \in findings : r.status # "fail"

=============================================================================
