------------------------------- MODULE Doctor -------------------------------
(***************************************************************************)
(* One run of `tekops doctor' against a node that goes on living meanwhile *)
(* (doctor.rs, and run_doctor in cli.rs).                                  *)
(*                                                                         *)
(* node is what runs where: the Beacon API's address and answers, the      *)
(* metrics page at each address (which roles it serves, its counters), the *)
(* containers, the space free at each path.  Between any two questions an  *)
(* endpoint may go away or come back, and a container stop or start; a     *)
(* call to an endpoint that is away is lost, whether the connection is     *)
(* refused or the ten seconds of http.rs pass, and the body of an answer   *)
(* may break off.                                                          *)
(*                                                                         *)
(* A definition that carries another's name and a suffix is that operation *)
(* with a slip in it, kept to show that the properties notice the slip.    *)
(***************************************************************************)
EXTENDS Judgement, Settings

CONSTANTS Nodes,          (* what the node and its host may be             *)
          Givens,         (* what the operator may have stated             *)
          MAX_TROUBLE     (* how often the world changes during the run    *)

ASSUME DoctorAssumption ==
  /\ MAX_TROUBLE \in Nat
  /\ \A n \in Nodes : /\ n.api.health \in {"ready", "syncing", "not ready", None}
                      /\ None \notin DOMAIN n.free
                      /\ n.containers # None /\ None \notin n.containers
                      /\ \A u \in DOMAIN n.pages : n.pages[u] # None
  /\ None \notin Stack

VARIABLES node, given,
          docker,         (* whether docker answers                        *)
          up, running,    (* the endpoints and the containers that live    *)
          trouble,
          step, config, facts, findings,
          calls           (* the network calls made, and which were lost   *)

world == <<node, given, docker>>
life  == <<up, running, trouble>>
vars  == <<world, life, step, config, facts, findings, calls>>

Question == <<"health", "syncing", "finality", "peers", "bn_families", "vc_families",
              "duties", "validators", "containers", "vc_containers", "host">>
Steps    == <<"configure">> \o Question \o <<"evaluate", "done">>

After(s)    == Steps[1 + CHOOSE i \in DOMAIN Steps : Steps[i] = s]
Endpoints(n) == {n.api.at} \cup DOMAIN n.pages

Init ==
  /\ node \in Nodes /\ given \in Givens /\ docker \in BOOLEAN
  /\ up \in SUBSET Endpoints(node)
  /\ running \in SUBSET node.containers
  /\ trouble = 0
  /\ step = "configure" /\ config = None /\ facts = <<>> /\ findings = {} /\ calls = <<>>

(* doctor_probe_config: `docker ps' names what runs, for both roles; a     *)
(* stated stack narrows it, and bare metal spares it.                      *)
Name(c) == IF c = None THEN None ELSE c.stack

Configure ==
  LET stated == ResolveStack(given.stack, None, None)
      names  == IF docker /\ DoctorNeedsDockerPs(stated) THEN running ELSE None
      bn     == Detected(names, "bn", stated)
      vc     == Detected(names, "vc", stated)
      stack  == ResolveDoctorStack(stated, Name(bn))
      vcs    == ResolveDoctorVcStack(stated, Name(vc), Name(bn))
  IN
  /\ step = "configure"
  /\ step' = After(step)
  /\ config' = [stack |-> stack, vc_stack |-> vcs,
                api_url |-> ResolveBaseUrl(given.api, None, None, stack),
                bn_metric_url |-> ResolveBnMetricUrl(given.bn, given.legacy, None, None, None, None, stack),
                vc_metric_url |-> ResolveVcMetricUrl(given.vc, None, None, vcs),
                container |-> bn, vc_container |-> vc,
                data_dir |-> ResolveDoctorDataDir(given.data, None, None, stack)]
  /\ facts' = [stack |-> stack, vc_stack |-> vcs]
  /\ UNCHANGED <<world, life, findings, calls>>

(* A fact is recorded, whatever it is: no question ends the run.           *)
Fact(q, p)  == [x \in {q} |-> p]
Recorded(f) ==
  [q \in DOMAIN f \cup DOMAIN facts |-> IF q \in DOMAIN f THEN f[q] ELSE facts[q]]

Learn(f) ==
  /\ facts' = Recorded(f)
  /\ step' = After(step)
  /\ UNCHANGED <<world, up, running, config, findings>>

(* One request.  An address that serves something else answers with a      *)
(* status, and an answer may break off where there is a body to read.      *)
OtherAnswer == Failed("status")

Reply(url, answer) == IF url \in up THEN answer ELSE Failed("unreachable")

Ask(q, url, answer) ==
  /\ \/ Learn(Fact(q, Reply(url, answer))) /\ UNCHANGED trouble
     \/ /\ url \in up /\ trouble < MAX_TROUBLE /\ q # "health"
        /\ trouble' = trouble + 1
        /\ Learn(Fact(q, Failed("malformed")))
  /\ calls' = Append(calls, [of |-> q, url |-> url, lost |-> url \notin up])

Skip(qs) ==
  /\ facts' = Recorded([q \in qs |-> Skipped])
  /\ step' = After(step)
  /\ UNCHANGED <<world, life, config, findings, calls>>

(* What the node says to a question about it, where it has an answer.      *)
Said(v) == IF v = None THEN OtherAnswer ELSE Ok(v)

ApiAnswer(q) ==
  IF config.api_url = node.api.at THEN Said(node.api[q]) ELSE OtherAnswer

AskHealth == step = "health" /\ Ask(step, config.api_url, ApiAnswer(step))

AskApi_unrecorded ==
  /\ step \in {"syncing", "finality", "peers"}
  /\ IF IsUnreachable(facts.health) THEN Skip({})
     ELSE Ask(step, config.api_url, ApiAnswer(step))
AskApi ==
  /\ step \in {"syncing", "finality", "peers"}
  /\ IF IsUnreachable(facts.health) THEN Skip({step})
     ELSE Ask(step, config.api_url, ApiAnswer(step))

(* families: what one scrape of the address shows of either role.          *)
Page(url) == IF url \in DOMAIN node.pages THEN node.pages[url] ELSE None

Families(url) ==
  LET p == Page(url) IN
    IF p = None THEN OtherAnswer
    ELSE Ok([beacon |-> p.beacon, validator |-> p.validator, counts |-> p.active # None])

AskBnFamilies ==
  step = "bn_families" /\ Ask(step, config.bn_metric_url, Families(config.bn_metric_url))

(* One process for both roles is scraped once. *)
AskVcFamilies_again ==
  step = "vc_families" /\ Ask(step, config.vc_metric_url, Families(config.vc_metric_url))
AskVcFamilies ==
  /\ step = "vc_families"
  /\ IF config.bn_metric_url = config.vc_metric_url
     THEN Learn(Fact(step, facts.bn_families)) /\ UNCHANGED <<trouble, calls>>
     ELSE Ask(step, config.vc_metric_url, Families(config.vc_metric_url))

(* require_metric: a family that is not exported is a failure, not a zero. *)
Counter(q) ==
  LET p == Page(config.vc_metric_url)
      n == IF q = "duties" THEN p.published ELSE p.active
  IN  IF p = None THEN OtherAnswer ELSE IF n = None THEN Failed("no such metric") ELSE Ok(n)

AskValidatorClient ==
  /\ step \in {"duties", "validators"}
  /\ IF IsUnreachable(facts.vc_families) THEN Skip({step})
     ELSE Ask(step, config.vc_metric_url, Counter(step))

(* `docker inspect' of a container found earlier: one that has stopped     *)
(* since may be shown as such, or be gone.                                 *)
Inspection(c) ==
  {Ok({[running |-> c \in running, restarts |-> c.restarts, mount |-> c.mount]})}
  \cup (IF c \in running THEN {} ELSE {Failed("docker inspect")})

InspectConsensus ==
  /\ step = "containers"
  /\ \E p \in IF ~StackHasContainers(config.stack) THEN {Skipped}
              ELSE IF config.container = None THEN {Ok({})}
              ELSE Inspection(config.container) : Learn(Fact(step, p))
  /\ UNCHANGED <<trouble, calls>>

InspectValidator ==
  /\ step = "vc_containers"
  /\ \E p \in IF config.vc_container = None THEN {Skipped}
              ELSE Inspection(config.vc_container) : Learn(Fact(step, p))
  /\ UNCHANGED <<trouble, calls>>

(* host::collect: the disk of the path stated, else of the container's     *)
(* data mount; a path that is not there gives no fact.                     *)
DiskTarget ==
  OrElse(config.data_dir,
         IF IsOk(facts.containers) /\ facts.containers.value # {}
         THEN (CHOOSE c \in facts.containers.value : TRUE).mount ELSE None)

CollectHost ==
  /\ step = "host"
  /\ Learn([disk   |-> IF DiskTarget \in DOMAIN node.free
                       THEN [of |-> DiskTarget, free |-> node.free[DiskTarget]] ELSE None,
            memory |-> node.memory, load |-> node.load, cpus |-> node.cpus])
  /\ UNCHANGED <<trouble, calls>>

Judged ==
  /\ step = "evaluate"
  /\ findings' = Evaluate(facts)
  /\ step' = After(step)
  /\ UNCHANGED <<world, life, config, facts, calls>>

(* Between two questions. *)
Flip(x, s) == IF x \in s THEN s \ {x} ELSE s \cup {x}

Trouble ==
  /\ step \notin {"evaluate", "done"} /\ trouble < MAX_TROUBLE
  /\ trouble' = trouble + 1
  /\ \/ \E u \in Endpoints(node) : up' = Flip(u, up) /\ UNCHANGED running
     \/ \E c \in node.containers : running' = Flip(c, running) /\ UNCHANGED up
  /\ UNCHANGED <<world, step, config, facts, findings, calls>>

Exit == step = "done" /\ UNCHANGED vars

Next ==
  \/ Configure \/ AskHealth \/ AskApi \/ AskBnFamilies \/ AskVcFamilies
  \/ AskValidatorClient \/ InspectConsensus \/ InspectValidator \/ CollectHost
  \/ Judged \/ Trouble \/ Exit

Spec == Init /\ [][Next]_vars

-----------------------------------------------------------------------------
(* Step by step the facts fill up, one for each question that was put.     *)
TypeOK ==
  /\ node \in Nodes /\ given \in Givens /\ docker \in BOOLEAN
  /\ up \subseteq Endpoints(node) /\ running \subseteq node.containers
  /\ trouble \in 0 .. MAX_TROUBLE
  /\ step \in Range(Steps)
  /\ \A i \in DOMAIN Question :
       (\E j \in DOMAIN Steps : Steps[j] = step /\ i + 1 < j) /\ Question[i] # "host"
         => Question[i] \in DOMAIN facts /\ facts[Question[i]].is \in {"ok", "failed", "skipped"}
  /\ \A r \in findings : r.status \in Status /\ r.learned \in BOOLEAN
  /\ \A i \in DOMAIN calls : calls[i].lost \in BOOLEAN

Done == step = "done"

(* The rows that rest on the answer to a question. *)
RestsOn(q) ==
  CASE q = "health"      -> {"beacon api"}
    [] q = "syncing"     -> {"sync status", "execution layer", "optimistic head", "finality lag"}
    [] q = "finality"    -> {"finality lag"}
    [] q = "peers"       -> {"peer count"}
    [] q = "bn_families" -> {"beacon node metrics"}
    [] q = "vc_families" -> {"validator metrics"}
    [] q = "duties"      -> {"duties published"}
    [] q = "validators"  -> {"validator keys"}

Asked(q) ==
  {i \in DOMAIN calls : calls[i].of =
     IF q = "vc_families" /\ config.bn_metric_url = config.vc_metric_url THEN "bn_families" ELSE q}

(* Whatever goes away in the middle of the run, the report has one row for *)
(* each thing it is to say of the node, and a row passes only if all the   *)
(* questions it rests on were answered in this run (evaluate).             *)
EveryQuestionHasItsRow ==
  Done => \A i \in 1 .. 8 : \A name \in RestsOn(Question[i]) :
            /\ Cardinality({r \in findings : r.name = name}) = 1
            /\ \A r \in findings : r.name = name /\ r.status = "pass"
                 => \E k \in Asked(Question[i]) : ~calls[k].lost

(* The report of doctor is whole, and no row of it passes on an answer     *)
(* nobody gave (probe, evaluate).                                          *)
ReportIsComplete ==
  /\ TypeOK
  /\ EveryQuestionHasItsRow

(* An endpoint that does not answer costs one timeout, not one for every   *)
(* question (the short circuits of probe, and the shared scrape).          *)
DeadEndpointAskedOnce ==
  \A u \in {calls[i].url : i \in DOMAIN calls} :
    LET asked == {i \in DOMAIN calls : calls[i].url = u} IN
      (\A i \in asked : calls[i].lost) /\ config.api_url \notin {config.bn_metric_url, config.vc_metric_url}
        => Cardinality(asked) = 1

(* A Beacon API that is down is one failure of the report, with a warning  *)
(* for everything that could not be asked because of it.                   *)
ApiRows == UNION {RestsOn(Question[i]) : i \in 1 .. 4}

OutageFailsOnce ==
  Done /\ IsUnreachable(facts.health)
    => /\ \A r \in findings : r.name \in ApiRows
            => r.status = IF r.name = "beacon api" THEN "fail" ELSE "warn"
       /\ ~Succeeds(findings)

(* An endpoint that is away costs one timeout and one failure (probe,      *)
(* evaluate).                                                              *)
OutageCostsOnce ==
  /\ DeadEndpointAskedOnce
  /\ OutageFailsOnce

(* A node deployed as its stack does: each role in a container of its own, *)
(* on bare metal, or the validator client without one beside the beacon    *)
(* node or within it; everything listens where the stack puts it.          *)
Housed(n, role) == Matches(n.containers, role, None)

HousedIn(n, role, stack) ==
  \E c \in n.containers : Housed(n, role) = {c} /\ c.stack = stack

AsDeployed(n) ==
  \E s, v \in Stack :
    /\ HousedIn(n, "bn", s) \/ (Housed(n, "bn") = {} /\ s = "bare-metal")
    /\ HousedIn(n, "vc", v) \/ (Housed(n, "vc") = {} /\ v = s)
    /\ n.api.at = ApiUrl(s) /\ n.bn = BnMetricUrl(s) /\ n.vc \in {n.bn, VcMetricUrl(v)}
    /\ DOMAIN n.pages = {n.bn, n.vc} /\ n.pages[n.bn].beacon /\ n.pages[n.vc].validator

(* A node that is well: it has an answer to everything, and a good one.    *)
ApiIsWell(api) ==
  /\ None \notin {api.health, api.syncing, api.finality, api.peers}
  /\ api.health = "ready"
  /\ ~api.syncing.is_syncing /\ ~api.syncing.el_offline /\ ~api.syncing.is_optimistic
  /\ api.syncing.head_slot \in Nat /\ api.finality \in Nat
  /\ Monus(api.syncing.head_slot \div SLOTS_PER_EPOCH, api.finality) <= FINALITY_WARN_ABOVE
  /\ api.peers \in Nat \ {0} /\ api.peers >= PEERS_WARN_BELOW

IsWell(n) ==
  /\ ApiIsWell(n.api)
  /\ ~n.pages[n.bn].validator /\ n.pages[n.bn].active = None
  /\ \A number \in {n.pages[n.vc].published, n.pages[n.vc].active} :
       number # None /\ number \in Nat \ {0}
  /\ \A c \in n.containers : c.restarts = 0
  /\ \A p \in DOMAIN n.free : n.free[p] \in Nat /\ n.free[p] >= DISK_WARN_BELOW
  /\ n.memory # None => n.memory \in Nat /\ n.memory >= MEM_WARN_BELOW
  /\ None \notin {n.load, n.cpus}
       => n.load \in Nat /\ n.cpus \in Nat /\ n.load <= n.cpus * LOAD_WARN_ABOVE_PER_CPU

(* With nothing stated, on a host whose docker answers, doctor finds a     *)
(* node that listens where its stack puts it, and has nothing to say of    *)
(* one that is well; one process in both roles is told from a missing one. *)
Undisturbed == trouble = 0 /\ docker /\ up = Endpoints(node) /\ running = node.containers
Unstated    == \A s \in {"stack", "api", "bn", "legacy", "vc", "data"} : given[s] = None

DefaultsFindTheNode ==
  Done /\ Undisturbed /\ Unstated /\ AsDeployed(node)
    => /\ config.api_url = node.api.at /\ config.bn_metric_url = node.bn
       /\ config.vc_metric_url = node.vc \/ AllInOne \in findings
       /\ IsWell(node) /\ node.bn # node.vc => \A r \in findings : r.status = "pass"

(* Without a path stated, the disk that is judged is the one the beacon    *)
(* node writes to: the mount of its container, if it has one.              *)
DiskIsOfTheNode ==
  Done /\ given.data = None /\ facts.disk # None
    => IF config.stack = "bare-metal" THEN facts.disk.of = DefaultDataDir
       ELSE config.container # None /\ facts.disk.of = config.container.mount

(* What the layout row advises works: with the validator's metrics read    *)
(* from the address it names, nothing is left of it, and no failure.       *)
LayoutAdviceWorks ==
  Done /\ AllInOne \in findings =>
    LET after == [facts EXCEPT !.vc_families = facts.bn_families] IN
      /\ CheckMetricsLayout(after) = {}
      /\ \A r \in CheckMetrics(after) : r.status # "fail"

(* What doctor fills in for what was not stated is of the node that runs,  *)
(* and so is what it advises (doctor_probe_config, check_metrics_layout).  *)
DefaultsFitTheNode ==
  /\ DefaultsFindTheNode
  /\ DiskIsOfTheNode
  /\ LayoutAdviceWorks

=============================================================================
