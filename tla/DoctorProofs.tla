---------------------------- MODULE DoctorProofs ----------------------------
(***************************************************************************)
(* What is proved of Doctor and Judgement: the report is whole and honest  *)
(* and an outage costs one timeout and one failure, for any node and host, *)
(* anything stated and any number of things that go wrong meanwhile; and   *)
(* with nothing stated, a node that stands as its stack does is found.     *)
(***************************************************************************)
EXTENDS Doctor, FiniteSetTheorems, SequenceTheorems, TLAPS

Api  == {"syncing", "finality", "peers"}
Keys == {"duties", "validators"}
Net  == {"health", "bn_families", "vc_families"} \cup Api \cup Keys
Put  == Net \cup {"containers", "vc_containers"}

At(s)   == CHOOSE i \in DOMAIN Steps : Steps[i] = s
Past(q) == At(q) < At(step)

UrlOf(q) ==
  IF q \in {"health"} \cup Api THEN config.api_url
  ELSE IF q = "bn_families" THEN config.bn_metric_url ELSE config.vc_metric_url

Shared == config.bn_metric_url = config.vc_metric_url
Calls  == [of : Net, url : {config.api_url, config.bn_metric_url, config.vc_metric_url}, lost : BOOLEAN]

StateInv ==
  /\ node \in Nodes /\ given \in Givens /\ docker \in BOOLEAN
  /\ up \subseteq Endpoints(node) /\ running \subseteq node.containers
  /\ trouble \in 0 .. MAX_TROUBLE
  /\ step \in Range(Steps)

(* What has been put has been answered, one way or another.                *)
FactsInv ==
  /\ \A q \in Put : Past(q) => q \in DOMAIN facts /\ facts[q].is \in {"ok", "failed", "skipped"}
  /\ Past("health") => (IsOk(facts.health) => facts.health.value \in {"ready", "syncing", "not ready"})

(* A call is one of a question that was put, to the address the question   *)
(* is about, and was lost when the answer says so.  No question is put     *)
(* twice.                                                                  *)
CallsInv ==
  /\ calls \in Seq(Calls)
  /\ \A i \in 1 .. Len(calls) :
       /\ Past(calls[i].of) /\ calls[i].url = UrlOf(calls[i].of)
       /\ (calls[i].lost <=> IsUnreachable(facts[calls[i].of]))
  /\ \A i, j \in 1 .. Len(calls) : calls[i].of = calls[j].of => i = j

(* Which questions were put, and which were spared by what was known.      *)
Called(q) == \E i \in 1 .. Len(calls) : calls[i].of = q

SparedInv ==
  /\ \A q \in {"health", "bn_families"} : Past(q) => Called(q)
  /\ Past("vc_families") =>
       IF Shared THEN facts.vc_families = facts.bn_families /\ ~Called("vc_families")
       ELSE Called("vc_families")
  /\ \A q \in Api : Past(q) =>
       IF IsUnreachable(facts.health) THEN facts[q] = Skipped /\ ~Called(q) ELSE Called(q)
  /\ \A q \in Keys : Past(q) =>
       IF IsUnreachable(facts.vc_families) THEN facts[q] = Skipped /\ ~Called(q) ELSE Called(q)

FindingsInv ==
  IF step = "done" THEN findings = Evaluate(facts) ELSE findings = {}

DoctorInv == StateInv /\ FactsInv /\ CallsInv /\ SparedInv /\ FindingsInv

-----------------------------------------------------------------------------
(* The order of the questions.                                             *)
LEMMA StepsAre ==
  /\ DOMAIN Steps = 1 .. 14
  /\ Steps[1] = "configure" /\ Steps[2] = "health" /\ Steps[3] = "syncing"
  /\ Steps[4] = "finality" /\ Steps[5] = "peers" /\ Steps[6] = "bn_families"
  /\ Steps[7] = "vc_families" /\ Steps[8] = "duties" /\ Steps[9] = "validators"
  /\ Steps[10] = "containers" /\ Steps[11] = "vc_containers" /\ Steps[12] = "host"
  /\ Steps[13] = "evaluate" /\ Steps[14] = "done"
BY DEF Steps, Question

LEMMA QuestionsAre ==
  /\ DOMAIN Question = 1 .. 11
  /\ \A i \in 1 .. 11 : Question[i] = Steps[i + 1]
BY DEF Steps, Question

LEMMA StepsDiffer ==
  ASSUME NEW i \in 1 .. 14, NEW j \in 1 .. 14, Steps[i] = Steps[j]
  PROVE  i = j
BY StepsAre

LEMMA AtIs ==
  ASSUME NEW k \in 1 .. 14
  PROVE  At(Steps[k]) = k
<1>1. \A i \in DOMAIN Steps : Steps[i] = Steps[k] => i = k
  BY StepsAre, StepsDiffer
<1> QED
  BY <1>1, StepsAre DEF At

LEMMA AtsAre ==
  /\ At("configure") = 1 /\ At("health") = 2 /\ At("syncing") = 3 /\ At("finality") = 4
  /\ At("peers") = 5 /\ At("bn_families") = 6 /\ At("vc_families") = 7 /\ At("duties") = 8
  /\ At("validators") = 9 /\ At("containers") = 10 /\ At("vc_containers") = 11
  /\ At("host") = 12 /\ At("evaluate") = 13 /\ At("done") = 14
BY StepsAre, AtIs

(* A step is followed by the next.                                         *)
LEMMA AfterIsNext ==
  ASSUME NEW s \in Range(Steps), s # "done"
  PROVE  After(s) \in Range(Steps) /\ At(After(s)) = At(s) + 1 /\ After(s) # "configure"
<1>1. PICK k \in 1 .. 14 : s = Steps[k]
  BY StepsAre DEF Range
<1>2. At(s) = k /\ k # 14
  BY <1>1, AtIs, StepsAre
<1>3. After(s) = Steps[1 + k] /\ 1 + k \in 1 .. 14
  <2>1. After(s) = Steps[1 + At(s)]
    BY DEF After, At
  <2> QED
    BY <1>2, <2>1
<1>4. At(After(s)) = k + 1
  BY <1>3, AtIs
<1> QED
  BY <1>2, <1>3, <1>4, StepsAre, AtsAre DEF Range

(* What a step has put is past.                                            *)
LEMMA PastGrows ==
  ASSUME step \in Range(Steps), step # "done", step' = After(step)
  PROVE  \A q \in Range(Steps) : Past(q)' <=> (Past(q) \/ q = step)
<1> SUFFICES ASSUME NEW q \in Range(Steps)
    PROVE  Past(q)' <=> (Past(q) \/ q = step)
  OBVIOUS
<1>1. PICK k \in 1 .. 14 : q = Steps[k]
  BY StepsAre DEF Range
<1>2. PICK j \in 1 .. 14 : step = Steps[j]
  BY StepsAre DEF Range
<1>3. At(q) = k /\ At(step) = j /\ At(step') = j + 1
  BY <1>1, <1>2, AtIs, AfterIsNext
<1>4. q = step <=> k = j
  BY <1>1, <1>2, StepsDiffer
<1> QED
  BY <1>3, <1>4 DEF Past

(* A fact that is recorded is, and the others are what they were.          *)
LEMMA FactIsRecorded ==
  ASSUME NEW q, NEW p
  PROVE  /\ q \in DOMAIN Recorded(Fact(q, p)) /\ Recorded(Fact(q, p))[q] = p
         /\ \A x \in DOMAIN facts : /\ x \in DOMAIN Recorded(Fact(q, p))
                                    /\ x # q => Recorded(Fact(q, p))[x] = facts[x]
BY DEF Recorded, Fact

(* The questions that are put are steps, in this order.                    *)
LEMMA PutsAreSteps ==
  /\ Put \subseteq Range(Steps) /\ Net \subseteq Put
  /\ \A q \in Put : At(q) \in 2 .. 11
  /\ \A q \in Api : At("health") < At(q) /\ At(q) < At("bn_families")
  /\ \A q \in Keys : At("vc_families") < At(q)
<1>1. Put \subseteq Range(Steps)
  BY StepsAre DEF Put, Net, Api, Keys, Range
<1> QED
  BY <1>1, AtsAre DEF Put, Net, Api, Keys

(* Where the run is.                                                       *)
LEMMA StepIsAt ==
  ASSUME step \in Range(Steps)
  PROVE  At(step) \in 1 .. 14 /\ ~Past(step)
<1>1. PICK k \in 1 .. 14 : step = Steps[k]
  BY StepsAre DEF Range
<1>2. At(step) = k
  BY <1>1, AtIs
<1> QED
  BY <1>2 DEF Past

(* Whatever comes before a question that was put was put.                  *)
LEMMA PastIsClosed ==
  ASSUME step \in Range(Steps), NEW q \in Put, NEW x \in Put, At(x) < At(q), Past(q) \/ q = step
  PROVE  Past(x)
<1>1. At(step) \in 1 .. 14 /\ At(q) \in 2 .. 11 /\ At(x) \in 2 .. 11
  BY PutsAreSteps, StepIsAt
<1> QED
  BY <1>1 DEF Past

(* What comes of a question: an answer, or a failure, which is that nobody *)
(* was there exactly if the endpoint is away.                              *)
Answer(p) == p.is \in {"ok", "failed"}
Honest(p) == IsOk(p) => p.value \in {"ready", "syncing", "not ready"}

LEMMA AskBrings ==
  ASSUME NEW q, NEW url, NEW answer, Ask(q, url, answer),
         Answer(answer), ~IsUnreachable(answer), q = "health" => Honest(answer)
  PROVE  \E p : /\ Learn(Fact(q, p)) /\ Answer(p)
                /\ (IsUnreachable(p) <=> url \notin up)
                /\ (q = "health" => Honest(p))
<1> DEFINE Brings(p) == /\ Learn(Fact(q, p)) /\ Answer(p)
                       /\ (IsUnreachable(p) <=> url \notin up)
                       /\ (q = "health" => Honest(p))
<1>1. \A why \in {"unreachable", "malformed"} :
        /\ Answer(Failed(why)) /\ Honest(Failed(why))
        /\ (IsUnreachable(Failed(why)) <=> why = "unreachable")
  BY DEF Failed, Answer, Honest, IsOk, IsUnreachable
<1>2. ASSUME Learn(Fact(q, Reply(url, answer)))
      PROVE  Brings(Reply(url, answer))
  BY <1>1, <1>2 DEF Reply
<1>3. ASSUME url \in up, Learn(Fact(q, Failed("malformed")))
      PROVE  Brings(Failed("malformed"))
  BY <1>1, <1>3
<1> HIDE DEF Brings
<1>4. \E p : Brings(p)
  BY <1>2, <1>3 DEF Ask
<1> QED
  BY <1>4 DEF Brings

(* A question that was put, with or without a call: its fact is recorded,  *)
(* and nothing else has changed.                                           *)
LEMMA FactsGrow ==
  ASSUME DoctorInv, step \in Put, NEW p, facts' = Recorded(Fact(step, p)), step' = After(step),
         p.is \in {"ok", "failed", "skipped"}, step = "health" => Honest(p)
  PROVE  /\ \A q \in Range(Steps) : Past(q)' <=> (Past(q) \/ q = step)
         /\ facts'[step] = p
         /\ \A q \in Put : Past(q) => facts'[q] = facts[q]
         /\ FactsInv'
<1>1. step \in Range(Steps) /\ step # "done" /\ ~Past(step)
  BY PutsAreSteps, StepIsAt DEF Put, Net, Api, Keys
<1>2. \A q \in Range(Steps) : Past(q)' <=> (Past(q) \/ q = step)
  BY <1>1, PastGrows
<1>3. step \in DOMAIN facts' /\ facts'[step] = p
  BY FactIsRecorded
<1>4. ASSUME NEW q \in Put, Past(q)
      PROVE  q \in DOMAIN facts' /\ facts'[q] = facts[q]
  <2>1. q \in DOMAIN facts /\ q # step
    BY <1>1, <1>4 DEF DoctorInv, FactsInv
  <2> QED
    BY <2>1, FactIsRecorded
<1>6. ASSUME NEW q \in Put, Past(q)'
      PROVE  q \in DOMAIN facts' /\ facts'[q].is \in {"ok", "failed", "skipped"}
  <2>1. Past(q) \/ q = step
    BY <1>2, <1>6, PutsAreSteps
  <2> QED
    BY <1>3, <1>4, <2>1 DEF DoctorInv, FactsInv
<1>7. Past("health")' => Honest(facts'.health)
  <2>1. "health" \in Put /\ "health" \in Range(Steps)
    BY PutsAreSteps DEF Put, Net
  <2>2. CASE step = "health"
    BY <1>3, <2>2
  <2>3. CASE step # "health"
    <3>1. Past("health")' => (Past("health") /\ facts'.health = facts.health)
      BY <1>2, <1>4, <2>1, <2>3
    <3> QED
      BY <3>1 DEF DoctorInv, FactsInv, Honest
  <2> QED
    BY <2>2, <2>3
<1>8. FactsInv'
  BY <1>6, <1>7 DEF FactsInv, Honest
<1> QED
  BY <1>2, <1>3, <1>4, <1>8

(* What was spared stays so: a question that is put changes the account of *)
(* no other.                                                               *)
LEMMA SparedGrows ==
  ASSUME DoctorInv, step \in Put, UNCHANGED config,
         \A q \in Range(Steps) : Past(q)' <=> (Past(q) \/ q = step),
         \A q \in Put : Past(q) => facts'[q] = facts[q],
         NEW asks \in BOOLEAN, \A q \in Put : Called(q)' <=> (Called(q) \/ (asks /\ q = step)),
         step \in {"health", "bn_families"} => asks,
         step = "vc_families" =>
           (IF Shared THEN facts'.vc_families = facts.bn_families /\ ~asks ELSE asks),
         step \in Api =>
           (IF IsUnreachable(facts.health) THEN facts'[step] = Skipped /\ ~asks ELSE asks),
         step \in Keys =>
           (IF IsUnreachable(facts.vc_families) THEN facts'[step] = Skipped /\ ~asks ELSE asks),
         ~Called(step)
  PROVE  SparedInv'
<1>1. /\ {"health", "bn_families", "vc_families"} \subseteq Put /\ Api \subseteq Put /\ Keys \subseteq Put
      /\ Put \subseteq Range(Steps)
  BY PutsAreSteps DEF Put, Net
<1>2. step \in Range(Steps) /\ Shared' = Shared
  BY <1>1 DEF Shared
<1>3. \A q \in {"health", "bn_families"} : Past(q)' => Called(q)'
  BY <1>1 DEF DoctorInv, SparedInv
<1>4. ASSUME Past("vc_families")'
      PROVE  IF Shared THEN facts'.vc_families = facts'.bn_families /\ ~Called("vc_families")'
             ELSE Called("vc_families")'
  <2>1. facts'.bn_families = facts.bn_families
    <3>1. Past("vc_families") \/ "vc_families" = step
      BY <1>1, <1>4
    <3>2. Past("bn_families")
      BY <1>1, <1>2, <3>1, PastIsClosed, AtsAre
    <3> QED
      BY <1>1, <3>2
  <2>2. CASE step = "vc_families"
    BY <1>1, <2>1, <2>2
  <2>3. CASE step # "vc_families"
    <3>1. Past("vc_families")
      BY <1>1, <1>4, <2>3
    <3> QED
      BY <1>1, <2>1, <2>3, <3>1 DEF DoctorInv, SparedInv
  <2> QED
    BY <2>2, <2>3
<1>5. ASSUME NEW q \in Api, Past(q)'
      PROVE  IF IsUnreachable(facts'.health) THEN facts'[q] = Skipped /\ ~Called(q)' ELSE Called(q)'
  <2>1. facts'.health = facts.health
    <3>1. Past(q) \/ q = step
      BY <1>1, <1>5
    <3>2. Past("health")
      BY <1>1, <1>2, <3>1, PastIsClosed, PutsAreSteps
    <3> QED
      BY <1>1, <3>2
  <2>2. CASE q = step
    BY <1>1, <2>1, <2>2
  <2>3. CASE q # step
    <3>1. Past(q)
      BY <1>1, <1>5, <2>3
    <3> QED
      BY <1>1, <2>1, <2>3, <3>1 DEF DoctorInv, SparedInv
  <2> QED
    BY <2>2, <2>3
<1>6. ASSUME NEW q \in Keys, Past(q)'
      PROVE  IF IsUnreachable(facts'.vc_families) THEN facts'[q] = Skipped /\ ~Called(q)' ELSE Called(q)'
  <2>1. facts'.vc_families = facts.vc_families
    <3>1. Past(q) \/ q = step
      BY <1>1, <1>6
    <3>2. Past("vc_families")
      BY <1>1, <1>2, <3>1, PastIsClosed, PutsAreSteps
    <3> QED
      BY <1>1, <3>2
  <2>2. CASE q = step
    BY <1>1, <2>1, <2>2
  <2>3. CASE q # step
    <3>1. Past(q)
      BY <1>1, <1>6, <2>3
    <3> QED
      BY <1>1, <2>1, <2>3, <3>1 DEF DoctorInv, SparedInv
  <2> QED
    BY <2>2, <2>3
<1> QED
  BY <1>2, <1>3, <1>4, <1>5, <1>6 DEF SparedInv

(* Until the facts are judged there are no findings.                       *)
LEMMA NothingFound ==
  ASSUME DoctorInv, step \in Put, step' = After(step), UNCHANGED findings
  PROVE  FindingsInv'
<1>1. step \in Range(Steps) /\ step # "done" /\ At(step) \in 2 .. 11
  BY PutsAreSteps DEF Put, Net, Api, Keys
<1>2. step' # "done"
  BY <1>1, AfterIsNext, AtsAre
<1> QED
  BY <1>1, <1>2 DEF DoctorInv, FindingsInv

(* A question is called for only once: those of the calls are past.        *)
LEMMA NotYetCalled ==
  ASSUME DoctorInv, step \in Put
  PROVE  ~Called(step)
<1>1. ~Past(step)
  BY PutsAreSteps, StepIsAt
<1> QED
  BY <1>1 DEF Called, DoctorInv, CallsInv

(* A question that is asked: what it brings is recorded, the call with it. *)
LEMMA AskKeeps ==
  ASSUME DoctorInv, step \in Net, NEW answer, Ask(step, UrlOf(step), answer),
         Answer(answer), ~IsUnreachable(answer), step = "health" => Honest(answer),
         step = "vc_families" => ~Shared,
         step \in Api => ~IsUnreachable(facts.health),
         step \in Keys => ~IsUnreachable(facts.vc_families)
  PROVE  DoctorInv'
<1> DEFINE url == UrlOf(step)
           c == [of |-> step, url |-> url, lost |-> url \notin up]
           n == Len(calls)
<1>1. PICK p : /\ Learn(Fact(step, p)) /\ Answer(p)
               /\ (IsUnreachable(p) <=> url \notin up)
               /\ (step = "health" => Honest(p))
  BY AskBrings
<1>2. /\ step' = After(step) /\ calls' = Append(calls, c) /\ facts' = Recorded(Fact(step, p))
      /\ UNCHANGED <<node, given, docker, up, running, config, findings>>
  BY <1>1 DEF Ask, Learn, world
<1>3. trouble' \in 0 .. MAX_TROUBLE
  <2>1. trouble' = trouble \/ (trouble < MAX_TROUBLE /\ trouble' = trouble + 1)
    BY DEF Ask
  <2>2. MAX_TROUBLE \in Nat /\ trouble \in 0 .. MAX_TROUBLE
    BY DoctorAssumption DEF DoctorInv, StateInv
  <2> QED
    BY <2>1, <2>2
<1>4. step \in Range(Steps) /\ step \in Put /\ step # "done"
  BY PutsAreSteps DEF Net, Api, Keys
<1>5. /\ \A q \in Range(Steps) : Past(q)' <=> (Past(q) \/ q = step)
      /\ facts'[step] = p
      /\ \A q \in Put : Past(q) => facts'[q] = facts[q]
      /\ FactsInv'
  <2>1. p.is \in {"ok", "failed", "skipped"}
    BY <1>1 DEF Answer
  <2> QED
    BY <1>1, <1>2, <1>4, <2>1, FactsGrow
<1>6. /\ Shared' = Shared /\ Calls' = Calls
      /\ config'.api_url = config.api_url /\ config'.bn_metric_url = config.bn_metric_url
      /\ config'.vc_metric_url = config.vc_metric_url
  BY <1>2 DEF Shared, Calls
<1>7. StateInv'
  BY <1>2, <1>3, <1>4, AfterIsNext DEF DoctorInv, StateInv, Endpoints
<1>8. calls \in Seq(Calls) /\ c \in Calls /\ n \in Nat
  BY DEF DoctorInv, CallsInv, Calls, UrlOf
<1>9. c.of = step /\ c.url = url /\ (c.lost <=> IsUnreachable(p))
  BY <1>1
<1> HIDE DEF c
<1>10. /\ calls' \in Seq(Calls) /\ Len(calls') = n + 1
       /\ calls'[n + 1] = c /\ \A i \in 1 .. n : calls'[i] = calls[i]
  BY <1>2, <1>8, AppendProperties
<1>11. \A i \in 1 .. n : calls[i] \in Calls /\ calls[i].of \in Put
  <2>1. \A i \in 1 .. n : calls[i] \in Calls
    BY <1>8, ElementOfSeq
  <2> QED
    BY <2>1, PutsAreSteps DEF Calls
<1>12. /\ \A i \in 1 .. n : /\ Past(calls[i].of) /\ calls[i].url = UrlOf(calls[i].of)
                            /\ (calls[i].lost <=> IsUnreachable(facts[calls[i].of]))
                            /\ calls[i].of # step
       /\ \A i, j \in 1 .. n : calls[i].of = calls[j].of => i = j
  <2>1. ~Called(step)
    BY <1>4, NotYetCalled
  <2> QED
    BY <2>1 DEF DoctorInv, CallsInv, Called
<1>13. \A i \in 1 .. (n + 1) : i \in 1 .. n \/ i = n + 1
  BY <1>8
<1>14. n + 1 \in 1 .. (n + 1) /\ \A i \in 1 .. n : i \in 1 .. (n + 1)
  BY <1>8
<1> DEFINE m == n + 1
<1> HIDE DEF n, m, url
<1>15. CallsInv'
  <2>1. ASSUME NEW i \in 1 .. m
        PROVE  /\ Past(calls[i].of)' /\ calls'[i].url = UrlOf(calls'[i].of)
               /\ (calls'[i].lost <=> IsUnreachable(facts'[calls'[i].of]))
    <3>1. CASE i = m
      BY <1>4, <1>5, <1>9, <1>10, <3>1 DEF m, url
    <3>2. CASE i \in 1 .. n
      <4>1. calls'[i] = calls[i] /\ calls[i].of \in Put /\ Past(calls[i].of)
        BY <1>10, <1>11, <1>12, <3>2
      <4>2. facts'[calls[i].of] = facts[calls[i].of]
        BY <1>5, <4>1
      <4>3. Past(calls[i].of)'
        BY <1>5, <4>1, PutsAreSteps DEF Past
      <4> QED
        BY <1>12, <3>2, <4>1, <4>2, <4>3
    <3> QED
      BY <1>13, <3>1, <3>2 DEF m
  <2>2. ASSUME NEW i \in 1 .. m, NEW j \in 1 .. m, calls'[i].of = calls'[j].of
        PROVE  i = j
    <3>1. (i \in 1 .. n \/ i = m) /\ (j \in 1 .. n \/ j = m)
      BY <1>13 DEF m
    <3> QED
      BY <1>9, <1>10, <1>12, <2>2, <3>1 DEF m
  <2>3. ASSUME NEW q PROVE UrlOf(q)' = UrlOf(q)
    BY <1>6 DEF UrlOf
  <2>4. Len(calls') = m
    BY <1>10 DEF m
  <2> QED
    BY <1>6, <1>10, <2>1, <2>2, <2>3, <2>4 DEF CallsInv
<1>16. \A q \in Put : Called(q)' <=> (Called(q) \/ (TRUE /\ q = step))
  <2>1. Len(calls') = m /\ Len(calls) = n
    BY <1>10 DEF m, n
  <2> QED
    BY <1>9, <1>10, <1>13, <1>14, <2>1 DEF Called, m
<1>17. SparedInv'
  <2>1. ~Called(step)
    BY <1>4, NotYetCalled
  <2> QED
    BY <1>2, <1>4, <1>5, <1>16, <2>1, SparedGrows
<1>18. FindingsInv'
  BY <1>2, <1>4, NothingFound
<1> QED
  BY <1>5, <1>7, <1>15, <1>17, <1>18 DEF DoctorInv

(* Where nothing is called, the account of the calls is what it was.       *)
LEMMA CallsStay ==
  ASSUME DoctorInv, UNCHANGED <<config, calls>>,
         \A q \in Put : Past(q) => (Past(q)' /\ facts'[q] = facts[q])
  PROVE  CallsInv' /\ \A q : Called(q)' <=> Called(q)
<1>1. Calls' = Calls /\ calls' = calls
  BY DEF Calls
<1>2. ASSUME NEW i \in 1 .. Len(calls)
      PROVE  /\ Past(calls[i].of)' /\ calls[i].url = UrlOf(calls[i].of)
             /\ (calls[i].lost <=> IsUnreachable(facts'[calls[i].of]))
  <2>1. calls[i] \in Calls
    BY ElementOfSeq DEF DoctorInv, CallsInv
  <2>2. calls[i].of \in Put /\ Past(calls[i].of)
    BY <2>1, PutsAreSteps DEF DoctorInv, CallsInv, Calls
  <2>3. Past(calls[i].of)' /\ facts'[calls[i].of] = facts[calls[i].of]
    BY <1>1, <2>2 DEF Past
  <2> QED
    BY <2>3 DEF DoctorInv, CallsInv
<1>3. ASSUME NEW q PROVE UrlOf(q)' = UrlOf(q)
  BY DEF UrlOf
<1>4. CallsInv'
  BY <1>1, <1>2, <1>3 DEF DoctorInv, CallsInv
<1> QED
  BY <1>1, <1>4 DEF Called

(* A question that is put without a call.                                  *)
LEMMA QuietKeeps ==
  ASSUME DoctorInv, step \in Put \ {"health", "bn_families"},
         UNCHANGED <<world, life, config, findings, calls>>,
         NEW p, facts' = Recorded(Fact(step, p)), step' = After(step),
         p.is \in {"ok", "failed", "skipped"},
         step = "vc_families" => (Shared /\ p = facts.bn_families),
         step \in Api => (IsUnreachable(facts.health) /\ p = Skipped),
         step \in Keys => (IsUnreachable(facts.vc_families) /\ p = Skipped)
  PROVE  DoctorInv'
<1>1. /\ \A q \in Range(Steps) : Past(q)' <=> (Past(q) \/ q = step)
      /\ facts'[step] = p
      /\ \A q \in Put : Past(q) => facts'[q] = facts[q]
      /\ FactsInv'
  BY FactsGrow
<1>2. step \in Range(Steps) /\ step # "done"
  BY PutsAreSteps DEF Put, Net, Api, Keys
<1>3. StateInv'
  BY <1>2, AfterIsNext DEF DoctorInv, StateInv, Endpoints, world, life
<1>4. CallsInv' /\ \A q : Called(q)' <=> Called(q)
  BY <1>1, PutsAreSteps, CallsStay
<1>5. SparedInv'
  <2> DEFINE asks == FALSE
  <2>1. asks \in BOOLEAN /\ \A q \in Put : Called(q)' <=> (Called(q) \/ (asks /\ q = step))
    BY <1>4
  <2>2. ~Called(step)
    BY NotYetCalled
  <2> QED
    BY <1>1, <2>1, <2>2, SparedGrows
<1>6. FindingsInv'
  BY NothingFound
<1> QED
  BY <1>1, <1>3, <1>4, <1>5, <1>6 DEF DoctorInv

(* A step that puts no question.                                           *)
LEMMA NoQuestionKeeps ==
  ASSUME DoctorInv, UNCHANGED <<config, calls>>,
         \A q \in Put : /\ Past(q)' <=> Past(q)
                        /\ Past(q) => (q \in DOMAIN facts' /\ facts'[q] = facts[q])
  PROVE  FactsInv' /\ CallsInv' /\ SparedInv'
<1>1. /\ {"health", "bn_families", "vc_families"} \subseteq Put
      /\ Api \subseteq Put /\ Keys \subseteq Put
  BY PutsAreSteps DEF Put, Net
<1>2. FactsInv'
  BY <1>1 DEF DoctorInv, FactsInv
<1>3. CallsInv' /\ \A q : Called(q)' <=> Called(q)
  BY CallsStay
<1>4. SparedInv'
  <2>1. Shared' = Shared
    BY DEF Shared
  <2>2. Past("vc_families")' =>
          IF Shared THEN facts'.vc_families = facts'.bn_families /\ ~Called("vc_families")'
          ELSE Called("vc_families")'
    <3>1. Past("vc_families") => Past("bn_families")
      BY <1>1, PastIsClosed, AtsAre DEF DoctorInv, StateInv
    <3> QED
      BY <1>1, <1>3, <3>1 DEF DoctorInv, SparedInv
  <2>3. ASSUME NEW q \in Api, Past(q)'
        PROVE  IF IsUnreachable(facts'.health) THEN facts'[q] = Skipped /\ ~Called(q)' ELSE Called(q)'
    <3>1. Past(q) /\ Past("health")
      BY <1>1, <2>3, PastIsClosed, PutsAreSteps DEF DoctorInv, StateInv
    <3> QED
      BY <1>1, <1>3, <3>1 DEF DoctorInv, SparedInv
  <2>4. ASSUME NEW q \in Keys, Past(q)'
        PROVE  IF IsUnreachable(facts'.vc_families) THEN facts'[q] = Skipped /\ ~Called(q)' ELSE Called(q)'
    <3>1. Past(q) /\ Past("vc_families")
      BY <1>1, <2>4, PastIsClosed, PutsAreSteps DEF DoctorInv, StateInv
    <3> QED
      BY <1>1, <1>3, <3>1 DEF DoctorInv, SparedInv
  <2>5. \A q \in {"health", "bn_families"} : Past(q)' => Called(q)'
    BY <1>1, <1>3 DEF DoctorInv, SparedInv
  <2> QED
    BY <2>1, <2>2, <2>3, <2>4, <2>5 DEF SparedInv
<1> QED
  BY <1>2, <1>3, <1>4

LEMMA InitDoctor == Init => DoctorInv
<1> SUFFICES ASSUME Init PROVE DoctorInv
  OBVIOUS
<1>1. step \in Range(Steps) /\ At(step) = 1
  BY StepsAre, AtsAre DEF Init, Range
<1>2. ASSUME NEW q \in Put PROVE ~Past(q)
  BY <1>1, PutsAreSteps DEF Past
<1>3. StateInv
  <2>1. MAX_TROUBLE \in Nat /\ trouble = 0
    BY DoctorAssumption DEF Init
  <2>2. trouble \in 0 .. MAX_TROUBLE
    BY <2>1
  <2> QED
    BY <1>1, <2>2 DEF Init, StateInv
<1>4. /\ {"health", "bn_families", "vc_families"} \subseteq Put
      /\ Api \subseteq Put /\ Keys \subseteq Put
  BY PutsAreSteps DEF Put, Net
<1>5. FactsInv /\ SparedInv /\ FindingsInv
  BY <1>2, <1>4 DEF FactsInv, SparedInv, FindingsInv, Init
<1>6. CallsInv
  BY DEF CallsInv, Init
<1> QED
  BY <1>3, <1>5, <1>6 DEF DoctorInv

(* Configure: nothing has been put yet.                                    *)
LEMMA ConfigureKeeps ==
  ASSUME DoctorInv, Configure
  PROVE  DoctorInv'
<1>1. /\ step = "configure" /\ step' = After(step)
      /\ UNCHANGED <<node, given, docker, up, running, trouble, findings, calls>>
  BY DEF Configure, world, life
<1>2. step \in Range(Steps) /\ step' \in Range(Steps) /\ At(step) = 1 /\ At(step') = 2 /\ step' # "done"
  BY <1>1, AtsAre, AfterIsNext DEF DoctorInv, StateInv
<1>3. ASSUME NEW q \in Put PROVE ~Past(q) /\ ~Past(q)'
  BY <1>2, PutsAreSteps DEF Past
<1>4. /\ {"health", "bn_families", "vc_families"} \subseteq Put
      /\ Api \subseteq Put /\ Keys \subseteq Put /\ Net \subseteq Put
  BY PutsAreSteps DEF Put, Net
<1>5. calls \in Seq(Calls) /\ \A i \in 1 .. Len(calls) : FALSE
  <2>1. ASSUME NEW i \in 1 .. Len(calls) PROVE FALSE
    <3>1. calls[i] \in Calls /\ Past(calls[i].of)
      BY ElementOfSeq DEF DoctorInv, CallsInv
    <3>2. calls[i].of \in Put
      BY <1>4, <3>1 DEF Calls
    <3> QED
      BY <1>3, <3>1, <3>2
  <2> QED
    BY <2>1 DEF DoctorInv, CallsInv
<1>6. calls = <<>>
  BY <1>5, EmptySeq
<1>7. StateInv'
  BY <1>1, <1>2 DEF DoctorInv, StateInv, Endpoints
<1>8. FactsInv' /\ SparedInv'
  BY <1>3, <1>4 DEF FactsInv, SparedInv
<1>9. CallsInv'
  BY <1>1, <1>6 DEF CallsInv
<1>10. FindingsInv'
  BY <1>1, <1>2 DEF DoctorInv, FindingsInv
<1> QED
  BY <1>7, <1>8, <1>9, <1>10 DEF DoctorInv

(* The host is looked at when every question has been put.                 *)
LEMMA HostKeeps ==
  ASSUME DoctorInv, CollectHost
  PROVE  DoctorInv'
<1>1. PICK f : DOMAIN f = {"disk", "memory", "load", "cpus"} /\ Learn(f)
  BY DEF CollectHost
<1>2. /\ step = "host" /\ step' = After(step) /\ facts' = Recorded(f)
      /\ UNCHANGED <<node, given, docker, up, running, trouble, config, findings, calls>>
  BY <1>1 DEF CollectHost, Learn, world
<1>3. step \in Range(Steps) /\ step' \in Range(Steps) /\ step' # "done" /\ step \notin Put
  BY <1>2, AtsAre, AfterIsNext DEF DoctorInv, StateInv, Put, Net, Api, Keys
<1>4. ASSUME NEW q \in Put
      PROVE  /\ Past(q)' <=> Past(q)
             /\ Past(q) => (q \in DOMAIN facts' /\ facts'[q] = facts[q])
  <2>1. Past(q)' <=> Past(q)
    BY <1>2, <1>3, PastGrows, PutsAreSteps
  <2>2. q \notin DOMAIN f
    BY <1>1 DEF Put, Net, Api, Keys
  <2>3. Past(q) => q \in DOMAIN facts
    BY DEF DoctorInv, FactsInv
  <2> QED
    BY <1>2, <2>1, <2>2, <2>3 DEF Recorded
<1>5. FactsInv' /\ CallsInv' /\ SparedInv'
  BY <1>2, <1>4, NoQuestionKeeps
<1>6. StateInv' /\ FindingsInv'
  BY <1>2, <1>3 DEF DoctorInv, StateInv, FindingsInv, Endpoints
<1> QED
  BY <1>5, <1>6 DEF DoctorInv

(* Judged: the facts are what they were.                                   *)
LEMMA JudgedKeeps ==
  ASSUME DoctorInv, Judged
  PROVE  DoctorInv'
<1>1. /\ step = "evaluate" /\ step' = After(step) /\ findings' = Evaluate(facts)
      /\ UNCHANGED <<node, given, docker, up, running, trouble, config, facts, calls>>
  BY DEF Judged, world, life
<1>2. step \in Range(Steps) /\ step' = "done" /\ step' \in Range(Steps) /\ step \notin Put
  <2>1. step \in Range(Steps) /\ step \notin Put
    BY <1>1 DEF DoctorInv, StateInv, Put, Net, Api, Keys
  <2>2. After(step) = Steps[1 + At(step)]
    BY DEF After, At
  <2> QED
    BY <1>1, <2>1, <2>2, AtsAre, StepsAre DEF Range
<1>3. ASSUME NEW q \in Put
      PROVE  /\ Past(q)' <=> Past(q)
             /\ Past(q) => (q \in DOMAIN facts' /\ facts'[q] = facts[q])
  <2>1. Past(q)' <=> Past(q)
    BY <1>1, <1>2, PastGrows, PutsAreSteps
  <2> QED
    BY <1>1, <2>1 DEF DoctorInv, FactsInv
<1>4. FactsInv' /\ CallsInv' /\ SparedInv'
  BY <1>1, <1>3, NoQuestionKeeps
<1>5. facts' = facts
  BY <1>1
<1>6. findings' = Evaluate(facts')
  BY <1>1, <1>5
<1>7. StateInv' /\ FindingsInv'
  BY <1>1, <1>2, <1>6 DEF DoctorInv, StateInv, FindingsInv, Endpoints
<1> QED
  BY <1>4, <1>7 DEF DoctorInv

(* What lives changes; what is known does not.                             *)
LEMMA TroubleKeeps ==
  ASSUME DoctorInv, Trouble \/ UNCHANGED vars
  PROVE  DoctorInv'
<1>1. UNCHANGED <<node, given, docker, step, config, facts, findings, calls>>
  BY DEF Trouble, vars, world
<1>2. ASSUME NEW q \in Put
      PROVE  /\ Past(q)' <=> Past(q)
             /\ Past(q) => (q \in DOMAIN facts' /\ facts'[q] = facts[q])
  BY <1>1 DEF DoctorInv, FactsInv, Past
<1>3. FactsInv' /\ CallsInv' /\ SparedInv'
  BY <1>1, <1>2, NoQuestionKeeps
<1>4. trouble' \in 0 .. MAX_TROUBLE
  <2>1. trouble' = trouble \/ (trouble < MAX_TROUBLE /\ trouble' = trouble + 1)
    BY DEF Trouble, vars, life
  <2>2. MAX_TROUBLE \in Nat /\ trouble \in 0 .. MAX_TROUBLE
    BY DoctorAssumption DEF DoctorInv, StateInv
  <2> QED
    BY <2>1, <2>2
<1>5. up' \subseteq Endpoints(node) /\ running' \subseteq node.containers
  BY DEF Trouble, Flip, vars, life, DoctorInv, StateInv
<1>6. StateInv' /\ FindingsInv'
  <2>1. facts' = facts
    BY <1>1
  <2> QED
    BY <1>1, <1>4, <1>5, <2>1 DEF DoctorInv, StateInv, FindingsInv, Endpoints
<1> QED
  BY <1>3, <1>6 DEF DoctorInv

(* A question that is spared.                                              *)
LEMMA SkipKeeps ==
  ASSUME DoctorInv, step \in Api \cup Keys, Skip({step}),
         step \in Api => IsUnreachable(facts.health),
         step \in Keys => IsUnreachable(facts.vc_families)
  PROVE  DoctorInv'
<1>1. /\ facts' = Recorded(Fact(step, Skipped)) /\ step' = After(step)
      /\ UNCHANGED <<world, life, config, findings, calls>>
  BY DEF Skip, Fact
<1>2. Skipped.is = "skipped"
  BY DEF Skipped
<1>3. step \in Put \ {"health", "bn_families"} /\ step # "vc_families"
  BY DEF Put, Net, Api, Keys
<1> QED
  BY <1>1, <1>2, <1>3, QuietKeeps

(* What the node says: an answer of its own.                               *)
LEMMA OkIsAnswer ==
  /\ \A v : Answer(Ok(v)) /\ ~IsUnreachable(Ok(v)) /\ IsOk(Ok(v)) /\ Ok(v).value = v
  /\ \A why : /\ Answer(Failed(why)) /\ Honest(Failed(why))
  /\ \A why \in {"status", "no such metric"} : ~IsUnreachable(Failed(why))
BY DEF Ok, Failed, Answer, Honest, IsOk, IsUnreachable

LEMMA OtherIsAnswer == Answer(OtherAnswer) /\ Honest(OtherAnswer) /\ ~IsUnreachable(OtherAnswer)
BY OkIsAnswer DEF OtherAnswer

LEMMA ApiAnswerIsOk ==
  ASSUME DoctorInv, NEW q
  PROVE  /\ Answer(ApiAnswer(q)) /\ ~IsUnreachable(ApiAnswer(q))
         /\ q = "health" => Honest(ApiAnswer(q))
<1>1. ApiAnswer(q) = OtherAnswer \/ (ApiAnswer(q) = Ok(node.api[q]) /\ node.api[q] # None)
  BY DEF ApiAnswer, Said
<1>2. node.api.health \in {"ready", "syncing", "not ready", None}
  BY DoctorAssumption DEF DoctorInv, StateInv
<1>3. q = "health" /\ node.api[q] # None => Honest(Ok(node.api[q]))
  BY <1>2, OkIsAnswer DEF Honest
<1> QED
  BY <1>1, <1>3, OkIsAnswer, OtherIsAnswer

LEMMA FamiliesAreOk ==
  ASSUME NEW url
  PROVE  Answer(Families(url)) /\ ~IsUnreachable(Families(url))
<1>1. Families(url) = OtherAnswer \/ \E v : Families(url) = Ok(v)
  BY DEF Families
<1> QED
  BY <1>1, OkIsAnswer, OtherIsAnswer

LEMMA CounterIsAnswer ==
  ASSUME NEW q
  PROVE  Answer(Counter(q)) /\ ~IsUnreachable(Counter(q))
<1>1. \/ Counter(q) = OtherAnswer \/ Counter(q) = Failed("no such metric")
      \/ \E v : Counter(q) = Ok(v)
  BY ZenonT(30) DEF Counter
<1> QED
  BY <1>1, OkIsAnswer, OtherIsAnswer

(* Every step of the run keeps the account.                                *)
LEMMA DoctorStep == DoctorInv /\ [Next]_vars => DoctorInv'
<1> SUFFICES ASSUME DoctorInv, [Next]_vars PROVE DoctorInv'
  OBVIOUS
<1>1. CASE Configure
  BY <1>1, ConfigureKeeps
<1>2. CASE AskHealth
  <2>1. step = "health" /\ Ask(step, UrlOf(step), ApiAnswer(step))
    BY <1>2 DEF AskHealth, UrlOf
  <2>2. step \in Net /\ step \notin Api /\ step \notin Keys /\ step # "vc_families"
    BY <2>1 DEF Net, Api, Keys
  <2> QED
    BY <2>1, <2>2, ApiAnswerIsOk, AskKeeps
<1>3. CASE AskApi
  <2>1. step \in Api /\ step \in Net /\ step \notin Keys /\ step # "vc_families" /\ step # "health"
    BY <1>3 DEF AskApi, Net, Api, Keys
  <2>2. CASE IsUnreachable(facts.health)
    BY <1>3, <2>1, <2>2, SkipKeeps DEF AskApi
  <2>3. CASE ~IsUnreachable(facts.health)
    <3>1. Ask(step, UrlOf(step), ApiAnswer(step))
      BY <1>3, <2>1, <2>3 DEF AskApi, UrlOf
    <3> QED
      BY <2>1, <2>3, <3>1, ApiAnswerIsOk, AskKeeps
  <2> QED
    BY <2>2, <2>3
<1>4. CASE AskBnFamilies
  <2>1. step = "bn_families" /\ Ask(step, UrlOf(step), Families(config.bn_metric_url))
    BY <1>4 DEF AskBnFamilies, UrlOf, Api
  <2>2. step \in Net /\ step \notin Api /\ step \notin Keys /\ step # "vc_families" /\ step # "health"
    BY <2>1 DEF Net, Api, Keys
  <2> QED
    BY <2>1, <2>2, FamiliesAreOk, AskKeeps
<1>5. CASE AskVcFamilies
  <2>1. step = "vc_families"
    BY <1>5 DEF AskVcFamilies
  <2>2. step \in Net /\ step \notin Api /\ step \notin Keys /\ step # "health" /\ step # "bn_families"
    BY <2>1 DEF Net, Api, Keys
  <2>3. CASE Shared
    <3>1. Learn(Fact(step, facts.bn_families)) /\ UNCHANGED <<trouble, calls>>
      BY <1>5, <2>3 DEF AskVcFamilies, Shared
    <3>2. /\ facts' = Recorded(Fact(step, facts.bn_families)) /\ step' = After(step)
          /\ UNCHANGED <<world, life, config, findings, calls>>
      BY <3>1 DEF Learn, life
    <3>3. facts.bn_families.is \in {"ok", "failed", "skipped"}
      <4>1. "bn_families" \in Put /\ Past("bn_families")
        BY <2>1, AtsAre DEF Put, Net, Past
      <4> QED
        BY <4>1 DEF DoctorInv, FactsInv
    <3>4. step \in Put
      BY <2>2, PutsAreSteps
    <3> QED
      BY <2>1, <2>2, <2>3, <3>2, <3>3, <3>4, QuietKeeps
  <2>4. CASE ~Shared
    <3>1. Ask(step, UrlOf(step), Families(config.vc_metric_url))
      BY <1>5, <2>1, <2>4 DEF AskVcFamilies, Shared, UrlOf, Api
    <3> QED
      BY <2>2, <2>4, <3>1, FamiliesAreOk, AskKeeps
  <2> QED
    BY <2>3, <2>4
<1>6. CASE AskValidatorClient
  <2>1. step \in Keys /\ step \in Net /\ step \notin Api /\ step # "vc_families" /\ step # "health"
        /\ step # "bn_families"
    BY <1>6 DEF AskValidatorClient, Net, Api, Keys
  <2>2. CASE IsUnreachable(facts.vc_families)
    BY <1>6, <2>1, <2>2, SkipKeeps DEF AskValidatorClient
  <2>3. CASE ~IsUnreachable(facts.vc_families)
    <3>1. Ask(step, UrlOf(step), Counter(step))
      BY <1>6, <2>1, <2>3 DEF AskValidatorClient, UrlOf
    <3> QED
      BY <2>1, <2>3, <3>1, CounterIsAnswer, AskKeeps
  <2> QED
    BY <2>2, <2>3
<1>7. CASE InspectConsensus \/ InspectValidator
  <2>1. step \in {"containers", "vc_containers"}
    BY <1>7 DEF InspectConsensus, InspectValidator
  <2>2. PICK p : Learn(Fact(step, p)) /\ p.is \in {"ok", "failed", "skipped"}
    <3>1. \A v : Ok(v).is = "ok" /\ Failed(v).is = "failed"
      BY DEF Ok, Failed
    <3>2. Skipped.is = "skipped"
      BY DEF Skipped
    <3>3. \A x : \A p \in Inspection(x) : p.is \in {"ok", "failed", "skipped"}
      BY <3>1 DEF Inspection
    <3>4. CASE InspectConsensus
      BY <3>1, <3>2, <3>3, <3>4 DEF InspectConsensus
    <3>5. CASE InspectValidator
      BY <3>2, <3>3, <3>5 DEF InspectValidator
    <3> QED
      BY <1>7, <3>4, <3>5
  <2>3. /\ facts' = Recorded(Fact(step, p)) /\ step' = After(step)
        /\ UNCHANGED <<world, life, config, findings, calls>>
    BY <1>7, <2>2 DEF Learn, life, InspectConsensus, InspectValidator
  <2>4. step \in Put \ {"health", "bn_families"} /\ step # "vc_families" /\ step \notin Api /\ step \notin Keys
    BY <2>1 DEF Put, Net, Api, Keys
  <2> QED
    BY <2>2, <2>3, <2>4, QuietKeeps
<1>8. CASE CollectHost
  BY <1>8, HostKeeps
<1>9. CASE Judged
  BY <1>9, JudgedKeeps
<1>10. CASE Trouble \/ UNCHANGED vars
  BY <1>10, TroubleKeeps
<1> QED
  BY <1>1, <1>2, <1>3, <1>4, <1>5, <1>6, <1>7, <1>8, <1>9, <1>10 DEF Next, Exit

LEMMA DoctorInvariant == Spec => []DoctorInv
BY InitDoctor, DoctorStep, PTL DEF Spec

-----------------------------------------------------------------------------
(* The first question that was put to an address is the one that was lost. *)
First(u) ==
  IF u = config.api_url THEN "health"
  ELSE IF u = config.bn_metric_url THEN "bn_families" ELSE "vc_families"

LEMMA LostAreFirst ==
  ASSUME DoctorInv, config.api_url \notin {config.bn_metric_url, config.vc_metric_url},
         NEW k \in 1 .. Len(calls),
         \A i \in 1 .. Len(calls) : calls[i].url = calls[k].url => calls[i].lost
  PROVE  calls[k].of = First(calls[k].url)
<1> DEFINE q == calls[k].of
<1>1. /\ \A i \in 1 .. Len(calls) :
           /\ calls[i].of \in Net /\ Past(calls[i].of) /\ calls[i].url = UrlOf(calls[i].of)
           /\ (calls[i].lost <=> IsUnreachable(facts[calls[i].of]))
      /\ \A i \in 1 .. Len(calls) : Called(calls[i].of)
  <2>1. \A i \in 1 .. Len(calls) : calls[i].of \in Net
    <3>1. \A i \in 1 .. Len(calls) : calls[i] \in Calls
      BY ElementOfSeq DEF DoctorInv, CallsInv
    <3> QED
      BY <3>1 DEF Calls
  <2> QED
    BY <2>1 DEF DoctorInv, CallsInv, Called
<1>2. q \in Net /\ q \in Put /\ Past(q) /\ Called(q) /\ calls[k].url = UrlOf(q)
  BY <1>1, PutsAreSteps
<1>3. step \in Range(Steps)
  BY DEF DoctorInv, StateInv
<1>4. ASSUME NEW x, Called(x), UrlOf(x) = UrlOf(q) PROVE IsUnreachable(facts[x])
  <2>1. PICK i \in 1 .. Len(calls) : calls[i].of = x
    BY <1>4 DEF Called
  <2>2. calls[i].url = calls[k].url
    BY <1>1, <1>2, <1>4, <2>1
  <2> QED
    BY <1>1, <2>1, <2>2
<1> HIDE DEF q
<1>5. CASE q = "health"
  BY <1>2, <1>5 DEF First, UrlOf, q
<1>6. CASE q = "bn_families"
  BY <1>2, <1>6 DEF First, UrlOf, q, Api
<1>7. CASE q = "vc_families"
  <2>1. ~Shared
    BY <1>2, <1>7 DEF DoctorInv, SparedInv
  <2> QED
    BY <1>2, <1>7, <2>1 DEF First, UrlOf, Shared, q, Api
<1>8. CASE q \in Api
  <2>1. Past("health")
    BY <1>2, <1>3, <1>8, PastIsClosed, PutsAreSteps DEF Put, Net
  <2>2. Called("health") /\ UrlOf("health") = UrlOf(q)
    BY <1>8, <2>1 DEF DoctorInv, SparedInv, UrlOf
  <2>3. IsUnreachable(facts.health)
    BY <1>4, <2>2
  <2> QED
    BY <1>2, <1>8, <2>3 DEF DoctorInv, SparedInv
<1>9. CASE q \in Keys
  <2>1. Past("vc_families") /\ Past("bn_families")
    <3>1. Past("vc_families")
      BY <1>2, <1>3, <1>9, PastIsClosed, PutsAreSteps DEF Put, Net
    <3> QED
      BY <1>3, <3>1, PastIsClosed, AtsAre DEF Put, Net
  <2>2. UrlOf(q) = config.vc_metric_url
    BY <1>9 DEF UrlOf, Keys, Api
  <2>3. IsUnreachable(facts.vc_families)
    <3>1. CASE Shared
      <4>1. Called("bn_families") /\ UrlOf("bn_families") = UrlOf(q) /\ facts.vc_families = facts.bn_families
        BY <2>1, <2>2, <3>1 DEF DoctorInv, SparedInv, UrlOf, Shared, Api
      <4> QED
        BY <1>4, <4>1
    <3>2. CASE ~Shared
      <4>1. Called("vc_families") /\ UrlOf("vc_families") = UrlOf(q)
        BY <2>1, <2>2, <3>2 DEF DoctorInv, SparedInv, UrlOf, Api
      <4> QED
        BY <1>4, <4>1
    <3> QED
      BY <3>1, <3>2
  <2> QED
    BY <1>2, <1>9, <2>3 DEF DoctorInv, SparedInv
<1> QED
  BY <1>2, <1>5, <1>6, <1>7, <1>8, <1>9 DEF Net

LEMMA DeadIsAskedOnce ==
  ASSUME DoctorInv
  PROVE  DeadEndpointAskedOnce
<1>1. DOMAIN calls = 1 .. Len(calls)
  BY DEF DoctorInv, CallsInv
<1> SUFFICES ASSUME NEW k \in DOMAIN calls,
                    \A i \in {i \in DOMAIN calls : calls[i].url = calls[k].url} : calls[i].lost,
                    config.api_url \notin {config.bn_metric_url, config.vc_metric_url}
             PROVE  Cardinality({i \in DOMAIN calls : calls[i].url = calls[k].url}) = 1
  BY DEF DeadEndpointAskedOnce
<1>2. ASSUME NEW i \in DOMAIN calls, calls[i].url = calls[k].url PROVE i = k
  <2>1. calls[i].of = First(calls[i].url) /\ calls[k].of = First(calls[k].url)
    BY <1>1, <1>2, LostAreFirst
  <2> QED
    BY <1>1, <1>2, <2>1 DEF DoctorInv, CallsInv
<1>3. {i \in DOMAIN calls : calls[i].url = calls[k].url} = {k}
  BY <1>2
<1> QED
  BY <1>3, FS_Singleton

-----------------------------------------------------------------------------
(* What evaluate says of the facts, row by row.                            *)
Sound(r) == r.status \in Status /\ r.learned \in BOOLEAN

OneRow(rows, name, learned) ==
  \E s \in Status, b \in BOOLEAN :
    rows = {Row(name, s, b)} /\ (s = "pass" => learned)

LEMMA JudgeIsOneRow ==
  ASSUME NEW name, NEW p, NEW status, NEW otherwise \in Status \ {"pass"},
         IsOk(p) => status \in Status
  PROVE  OneRow(Judge(name, p, status, otherwise), name, IsOk(p))
BY DEF Judge, Learned, Unknown, OneRow

LEMMA JudgeNames ==
  ASSUME NEW name, NEW p, NEW status, NEW otherwise, NEW r \in Judge(name, p, status, otherwise)
  PROVE  r.name = name
BY DEF Judge, Learned, Unknown, Row

LEMMA OneRowIs ==
  ASSUME NEW rows, NEW name, NEW learned, OneRow(rows, name, learned), NEW r \in rows
  PROVE  r.name = name /\ Sound(r) /\ (r.status = "pass" => learned)
BY DEF OneRow, Row, Sound

(* The report has one row for each name, and it passes only on answers.    *)
Reported(all, name, learned) ==
  /\ Cardinality({r \in all : r.name = name}) = 1
  /\ \A r \in all : r.name = name => (Sound(r) /\ (r.status = "pass" => learned))

(* The rows of a name in a report are those of the part that gives it.     *)
LEMMA OneRowOf ==
  ASSUME NEW all, NEW rows \in SUBSET all, NEW name, NEW learned, OneRow(rows, name, learned),
         \A r \in all : r \notin rows => r.name # name
  PROVE  Reported(all, name, learned)
<1>1. PICK s \in Status, b \in BOOLEAN : rows = {Row(name, s, b)}
  BY DEF OneRow
<1>2. Row(name, s, b).name = name
  BY DEF Row
<1>3. {r \in all : r.name = name} = {Row(name, s, b)}
  BY <1>1, <1>2
<1>4. Cardinality({r \in all : r.name = name}) = 1
  BY <1>3, FS_Singleton
<1>5. \A r \in rows : Sound(r) /\ (r.status = "pass" => learned)
  BY OneRowIs
<1> QED
  BY <1>4, <1>5 DEF Reported

(* The other parts of the report.                                          *)
Rest(f) ==
  CheckMetricsLayout(f) \cup CheckConsensusContainer(f) \cup CheckValidatorContainer(f)
  \cup CheckContainerRestarts(f) \cup CheckHost(f)

RestNames ==
  {"metrics layout: a validator client", "metrics layout: all in one", "consensus container",
   "validator container", "container restarts", "disk free", "memory available", "load average"}

LEMMA RestIs ==
  ASSUME NEW f, NEW r \in Rest(f)
  PROVE  /\ r.name \in RestNames /\ Sound(r)
         /\ r.name = "metrics layout: all in one" => r \in CheckMetricsLayout(f)
<1>1. ASSUME NEW name \in RestNames, NEW s \in Status, NEW b \in BOOLEAN, r = Row(name, s, b)
      PROVE  r.name = name /\ Sound(r)
  BY <1>1 DEF Row, Sound
<1>2. {"pass", "warn", "fail"} = Status /\ {TRUE, FALSE} = BOOLEAN
  BY DEF Status
<1>3. CASE r \in CheckMetricsLayout(f)
  <2>1. r = Misplaced \/ r = AllInOne
    BY <1>3 DEF CheckMetricsLayout
  <2> QED
    BY <1>1, <1>2, <1>3, <2>1 DEF Misplaced, AllInOne, RestNames
<1>4. CASE r \in CheckConsensusContainer(f)
  <2>1. \E s \in Status, b \in BOOLEAN : r = Row("consensus container", s, b)
    BY <1>2, <1>4 DEF CheckConsensusContainer, UpOrDown, Learned, Unknown
  <2> QED
    BY <1>1, <2>1 DEF RestNames
<1>5. CASE r \in CheckValidatorContainer(f)
  <2>1. \E s \in Status, b \in BOOLEAN : r = Row("validator container", s, b)
    BY <1>2, <1>5 DEF CheckValidatorContainer, UpOrDown, Learned, Unknown
  <2> QED
    BY <1>1, <2>1 DEF RestNames
<1>6. CASE r \in CheckContainerRestarts(f)
  <2>1. \E s \in Status : r = Row("container restarts", s, TRUE)
    BY <1>2, <1>6 DEF CheckContainerRestarts, Learned
  <2> QED
    BY <1>1, <2>1 DEF RestNames
<1>7. CASE r \in CheckHost(f)
  <2>1. \E s \in Status, name \in {"disk free", "memory available", "load average"} : r = Row(name, s, TRUE)
    BY <1>2, <1>7 DEF CheckHost, Below, Learned
  <2> QED
    BY <1>1, <2>1 DEF RestNames
<1> QED
  BY <1>3, <1>4, <1>5, <1>6, <1>7 DEF Rest

LEMMA PartsAre ==
  ASSUME NEW f, IsOk(f.health) => f.health.value \in {"ready", "syncing", "not ready"}
  PROVE  \E bn, vc, ss, el, oh :
           /\ CheckMetrics(f) = bn \cup vc /\ CheckSyncing(f) = ss \cup el \cup oh
           /\ OneRow(CheckBeaconApi(f), "beacon api", IsOk(f.health))
           /\ OneRow(bn, "beacon node metrics", IsOk(f.bn_families))
           /\ OneRow(vc, "validator metrics", IsOk(f.vc_families))
           /\ OneRow(ss, "sync status", IsOk(f.syncing))
           /\ OneRow(el, "execution layer", IsOk(f.syncing))
           /\ OneRow(oh, "optimistic head", IsOk(f.syncing))
           /\ OneRow(CheckFinality(f), "finality lag", IsOk(f.syncing) /\ IsOk(f.finality))
           /\ OneRow(CheckPeers(f), "peer count", IsOk(f.peers))
           /\ OneRow(CheckValidators(f), "validator keys", IsOk(f.validators))
           /\ OneRow(CheckDuties(f), "duties published", IsOk(f.duties))
<1> DEFINE bn == Judge("beacon node metrics", f.bn_families,
                       IF f.bn_families.value.beacon THEN "pass" ELSE "warn", "fail")
           vc == Judge("validator metrics", f.vc_families,
                       IF f.vc_families.value.validator THEN "pass" ELSE "warn", "fail")
           s  == f.syncing
           ss == Judge("sync status", s, IF s.value.is_syncing THEN "warn" ELSE "pass", "warn")
           el == Judge("execution layer", s, IF s.value.el_offline THEN "fail" ELSE "pass", "warn")
           oh == Judge("optimistic head", s, IF s.value.is_optimistic THEN "fail" ELSE "pass", "warn")
<1>1. /\ "pass" \in Status /\ "warn" \in Status \ {"pass"} /\ "fail" \in Status \ {"pass"}
      /\ "warn" \in Status /\ "fail" \in Status
  BY DEF Status
<1>2. CheckMetrics(f) = bn \cup vc /\ CheckSyncing(f) = ss \cup el \cup oh
  BY DEF CheckMetrics, CheckSyncing
<1>3. OneRow(bn, "beacon node metrics", IsOk(f.bn_families))
  BY <1>1, JudgeIsOneRow
<1>4. OneRow(vc, "validator metrics", IsOk(f.vc_families))
  BY <1>1, JudgeIsOneRow
<1>5. OneRow(ss, "sync status", IsOk(f.syncing))
  BY <1>1, JudgeIsOneRow
<1>6. OneRow(el, "execution layer", IsOk(f.syncing))
  BY <1>1, JudgeIsOneRow
<1>7. OneRow(oh, "optimistic head", IsOk(f.syncing))
  BY <1>1, JudgeIsOneRow
<1>8. OneRow(CheckBeaconApi(f), "beacon api", IsOk(f.health))
  <2> DEFINE st == CASE f.health.value = "ready"     -> "pass"
                     [] f.health.value = "syncing"   -> "warn"
                     [] f.health.value = "not ready" -> "fail"
  <2>1. IsOk(f.health) => st \in Status
    BY <1>1
  <2>2. CheckBeaconApi(f) = Judge("beacon api", f.health, st, "fail")
    BY DEF CheckBeaconApi
  <2> HIDE DEF st
  <2> QED
    BY <1>1, <2>1, <2>2, JudgeIsOneRow
<1>9. OneRow(CheckFinality(f), "finality lag", IsOk(f.syncing) /\ IsOk(f.finality))
  <2>1. /\ \A st \in Status : Learned("finality lag", st) = {Row("finality lag", st, TRUE)}
        /\ Unknown("finality lag", "warn") = {Row("finality lag", "warn", FALSE)}
    BY DEF Learned, Unknown
  <2>2. LagStatus(f.syncing.value.head_slot, f.finality.value) \in Status
    BY DEF LagStatus, Status
  <2>3. CASE ~IsOk(f.syncing) \/ ~IsOk(f.finality)
    <3>1. CheckFinality(f) = Unknown("finality lag", "warn")
      BY <2>3 DEF CheckFinality
    <3> QED
      BY <1>1, <2>1, <3>1 DEF OneRow
  <2>4. CASE IsOk(f.syncing) /\ IsOk(f.finality)
    <3>1. \E st \in Status : CheckFinality(f) = Learned("finality lag", st)
      BY <1>1, <2>2, <2>4 DEF CheckFinality
    <3> QED
      BY <2>1, <2>4, <3>1 DEF OneRow
  <2> QED
    BY <2>3, <2>4
<1>10. OneRow(CheckPeers(f), "peer count", IsOk(f.peers))
  <2> DEFINE st == IF f.peers.value = 0 THEN "fail"
                   ELSE IF f.peers.value < PEERS_WARN_BELOW THEN "warn" ELSE "pass"
  <2>1. st \in Status
    BY <1>1
  <2>2. CheckPeers(f) = Judge("peer count", f.peers, st, "warn")
    BY DEF CheckPeers
  <2> HIDE DEF st
  <2> QED
    BY <1>1, <2>1, <2>2, JudgeIsOneRow
<1>11. OneRow(CheckValidators(f), "validator keys", IsOk(f.validators))
  BY <1>1, JudgeIsOneRow DEF CheckValidators
<1>12. OneRow(CheckDuties(f), "duties published", IsOk(f.duties))
  BY <1>1, JudgeIsOneRow DEF CheckDuties
<1> HIDE DEF bn, vc, ss, el, oh
<1> QED
  BY <1>2, <1>3, <1>4, <1>5, <1>6, <1>7, <1>8, <1>9, <1>10, <1>11, <1>12

(* The questions that take a call come first.                              *)
LEMMA FirstAreCalls == \A i \in 1 .. 8 : Question[i] \in Net
<1>1. /\ Question[1] \in Net /\ Question[2] \in Net /\ Question[3] \in Net /\ Question[4] \in Net
      /\ Question[5] \in Net /\ Question[6] \in Net /\ Question[7] \in Net /\ Question[8] \in Net
  BY DEF Question, Net, Api, Keys
<1> QED
  BY <1>1

LEMMA QuestionsRest ==
  /\ RestsOn("health") = {"beacon api"}
  /\ RestsOn("syncing") = {"sync status", "execution layer", "optimistic head", "finality lag"}
  /\ RestsOn("finality") = {"finality lag"} /\ RestsOn("peers") = {"peer count"}
  /\ RestsOn("bn_families") = {"beacon node metrics"} /\ RestsOn("vc_families") = {"validator metrics"}
  /\ RestsOn("duties") = {"duties published"} /\ RestsOn("validators") = {"validator keys"}
BY DEF RestsOn

LEMMA EvaluateReports ==
  ASSUME NEW f, IsOk(f.health) => f.health.value \in {"ready", "syncing", "not ready"}
  PROVE  /\ \A i \in 1 .. 8 : \A name \in RestsOn(Question[i]) :
              Reported(Evaluate(f), name, IsOk(f[Question[i]]))
         /\ \A r \in Evaluate(f) :
              Sound(r) /\ (r.name = "metrics layout: all in one" => r \in CheckMetricsLayout(f))
<1>1. PICK bn, vc, ss, el, oh :
        /\ CheckMetrics(f) = bn \cup vc /\ CheckSyncing(f) = ss \cup el \cup oh
        /\ OneRow(CheckBeaconApi(f), "beacon api", IsOk(f.health))
        /\ OneRow(bn, "beacon node metrics", IsOk(f.bn_families))
        /\ OneRow(vc, "validator metrics", IsOk(f.vc_families))
        /\ OneRow(ss, "sync status", IsOk(f.syncing))
        /\ OneRow(el, "execution layer", IsOk(f.syncing))
        /\ OneRow(oh, "optimistic head", IsOk(f.syncing))
        /\ OneRow(CheckFinality(f), "finality lag", IsOk(f.syncing) /\ IsOk(f.finality))
        /\ OneRow(CheckPeers(f), "peer count", IsOk(f.peers))
        /\ OneRow(CheckValidators(f), "validator keys", IsOk(f.validators))
        /\ OneRow(CheckDuties(f), "duties published", IsOk(f.duties))
  BY PartsAre
<1> DEFINE all == Evaluate(f)
           ba == CheckBeaconApi(f)
           fl == CheckFinality(f)
           pc == CheckPeers(f)
           vk == CheckValidators(f)
           dp == CheckDuties(f)
           rest == Rest(f)
<1>2. all = ba \cup bn \cup vc \cup ss \cup el \cup oh \cup fl \cup pc \cup vk \cup dp \cup rest
  BY <1>1 DEF Evaluate, Rest
<1>3. \A r \in rest : /\ r.name \in RestNames /\ Sound(r)
                      /\ r.name = "metrics layout: all in one" => r \in CheckMetricsLayout(f)
  BY RestIs
<1> HIDE DEF all, ba, fl, pc, vk, dp, rest
<1>4. /\ \A r \in ba : r.name = "beacon api" /\ Sound(r)
      /\ \A r \in bn : r.name = "beacon node metrics" /\ Sound(r)
      /\ \A r \in vc : r.name = "validator metrics" /\ Sound(r)
      /\ \A r \in ss : r.name = "sync status" /\ Sound(r)
      /\ \A r \in el : r.name = "execution layer" /\ Sound(r)
      /\ \A r \in oh : r.name = "optimistic head" /\ Sound(r)
      /\ \A r \in fl : r.name = "finality lag" /\ Sound(r)
      /\ \A r \in pc : r.name = "peer count" /\ Sound(r)
      /\ \A r \in vk : r.name = "validator keys" /\ Sound(r)
      /\ \A r \in dp : r.name = "duties published" /\ Sound(r)
  BY <1>1, OneRowIs DEF ba, fl, pc, vk, dp
<1>5. \A r \in all : Sound(r) /\ (r.name = "metrics layout: all in one" => r \in CheckMetricsLayout(f))
  BY <1>2, <1>3, <1>4
<1>6. /\ ba \in SUBSET all /\ bn \in SUBSET all /\ vc \in SUBSET all /\ ss \in SUBSET all
      /\ el \in SUBSET all /\ oh \in SUBSET all /\ fl \in SUBSET all /\ pc \in SUBSET all
      /\ vk \in SUBSET all /\ dp \in SUBSET all
  BY <1>2
<1>7. \A r \in all : /\ r \notin ba => r.name # "beacon api"
                     /\ r \notin bn => r.name # "beacon node metrics"
                     /\ r \notin vc => r.name # "validator metrics"
                     /\ r \notin ss => r.name # "sync status"
                     /\ r \notin el => r.name # "execution layer"
                     /\ r \notin oh => r.name # "optimistic head"
                     /\ r \notin fl => r.name # "finality lag"
                     /\ r \notin pc => r.name # "peer count"
                     /\ r \notin vk => r.name # "validator keys"
                     /\ r \notin dp => r.name # "duties published"
  BY <1>2, <1>3, <1>4 DEF RestNames
<1>8. /\ Reported(all, "beacon api", IsOk(f.health))
      /\ Reported(all, "beacon node metrics", IsOk(f.bn_families))
      /\ Reported(all, "validator metrics", IsOk(f.vc_families))
  <2>1. OneRow(ba, "beacon api", IsOk(f.health)) /\ ba \in SUBSET all /\ \A r \in all : r \notin ba => r.name # "beacon api"
    BY <1>1, <1>6, <1>7 DEF ba
  <2>2. OneRow(bn, "beacon node metrics", IsOk(f.bn_families)) /\ bn \in SUBSET all /\ \A r \in all : r \notin bn => r.name # "beacon node metrics"
    BY <1>1, <1>6, <1>7
  <2>3. OneRow(vc, "validator metrics", IsOk(f.vc_families)) /\ vc \in SUBSET all /\ \A r \in all : r \notin vc => r.name # "validator metrics"
    BY <1>1, <1>6, <1>7
  <2>4. Reported(all, "beacon api", IsOk(f.health))
    BY <2>1, OneRowOf
  <2>5. Reported(all, "beacon node metrics", IsOk(f.bn_families))
    BY <2>2, OneRowOf
  <2>6. Reported(all, "validator metrics", IsOk(f.vc_families))
    BY <2>3, OneRowOf
  <2> QED
    BY <2>4, <2>5, <2>6
<1>9. /\ Reported(all, "sync status", IsOk(f.syncing))
      /\ Reported(all, "execution layer", IsOk(f.syncing))
      /\ Reported(all, "optimistic head", IsOk(f.syncing))
      /\ Reported(all, "finality lag", IsOk(f.syncing) /\ IsOk(f.finality))
  <2>1. OneRow(ss, "sync status", IsOk(f.syncing)) /\ ss \in SUBSET all /\ \A r \in all : r \notin ss => r.name # "sync status"
    BY <1>1, <1>6, <1>7
  <2>2. OneRow(el, "execution layer", IsOk(f.syncing)) /\ el \in SUBSET all /\ \A r \in all : r \notin el => r.name # "execution layer"
    BY <1>1, <1>6, <1>7
  <2>3. OneRow(oh, "optimistic head", IsOk(f.syncing)) /\ oh \in SUBSET all /\ \A r \in all : r \notin oh => r.name # "optimistic head"
    BY <1>1, <1>6, <1>7
  <2>4. OneRow(fl, "finality lag", IsOk(f.syncing) /\ IsOk(f.finality)) /\ fl \in SUBSET all /\ \A r \in all : r \notin fl => r.name # "finality lag"
    BY <1>1, <1>6, <1>7 DEF fl
  <2>5. Reported(all, "sync status", IsOk(f.syncing))
    BY <2>1, OneRowOf
  <2>6. Reported(all, "execution layer", IsOk(f.syncing))
    BY <2>2, OneRowOf
  <2>7. Reported(all, "optimistic head", IsOk(f.syncing))
    BY <2>3, OneRowOf
  <2>8. Reported(all, "finality lag", IsOk(f.syncing) /\ IsOk(f.finality))
    BY <2>4, OneRowOf
  <2> QED
    BY <2>5, <2>6, <2>7, <2>8
<1>10. /\ Reported(all, "peer count", IsOk(f.peers))
      /\ Reported(all, "validator keys", IsOk(f.validators))
      /\ Reported(all, "duties published", IsOk(f.duties))
  <2>1. OneRow(pc, "peer count", IsOk(f.peers)) /\ pc \in SUBSET all /\ \A r \in all : r \notin pc => r.name # "peer count"
    BY <1>1, <1>6, <1>7 DEF pc
  <2>2. OneRow(vk, "validator keys", IsOk(f.validators)) /\ vk \in SUBSET all /\ \A r \in all : r \notin vk => r.name # "validator keys"
    BY <1>1, <1>6, <1>7 DEF vk
  <2>3. OneRow(dp, "duties published", IsOk(f.duties)) /\ dp \in SUBSET all /\ \A r \in all : r \notin dp => r.name # "duties published"
    BY <1>1, <1>6, <1>7 DEF dp
  <2>4. Reported(all, "peer count", IsOk(f.peers))
    BY <2>1, OneRowOf
  <2>5. Reported(all, "validator keys", IsOk(f.validators))
    BY <2>2, OneRowOf
  <2>6. Reported(all, "duties published", IsOk(f.duties))
    BY <2>3, OneRowOf
  <2> QED
    BY <2>4, <2>5, <2>6
<1>11. /\ Reported(all, "finality lag", IsOk(f.syncing))
       /\ Reported(all, "finality lag", IsOk(f.finality))
  BY <1>9 DEF Reported
<1>12. ASSUME NEW q \in Net, NEW name \in RestsOn(q) PROVE Reported(all, name, IsOk(f[q]))
  BY <1>8, <1>9, <1>10, <1>11, QuestionsRest DEF Net, Api, Keys
<1>13. \A i \in 1 .. 8 : Question[i] \in Net
  BY FirstAreCalls
<1> QED
  BY <1>5, <1>12, <1>13 DEF all

-----------------------------------------------------------------------------
(* What is known when the run is done.                                     *)
LEMMA DoneKnowsAll ==
  ASSUME DoctorInv, Done
  PROVE  /\ findings = Evaluate(facts)
         /\ \A q \in Put : Past(q) /\ q \in DOMAIN facts
         /\ IsOk(facts.health) => facts.health.value \in {"ready", "syncing", "not ready"}
<1>1. step = "done" /\ At(step) = 14
  BY AtsAre DEF Done
<1>2. \A q \in Put : Past(q)
  BY <1>1, PutsAreSteps DEF Past
<1>3. "health" \in Put
  BY DEF Put, Net
<1> QED
  BY <1>1, <1>2, <1>3 DEF DoctorInv, FactsInv, FindingsInv

(* A question that was answered was asked, and its call was not lost.      *)
LEMMA OkWasAnswered ==
  ASSUME DoctorInv, NEW q \in Net, Past(q), IsOk(facts[q])
  PROVE  \E k \in Asked(q) : ~calls[k].lost
<1> DEFINE x == IF q = "vc_families" /\ Shared THEN "bn_families" ELSE q
<1>1. ~IsUnreachable(facts[q]) /\ facts[q] # Skipped
  BY DEF IsOk, IsUnreachable, Skipped
<1>2. Called(x) /\ facts[x] = facts[q]
  <2>1. CASE q \in {"health", "bn_families"}
    BY <2>1 DEF DoctorInv, SparedInv
  <2>2. CASE q = "vc_families"
    <3>1. Past("bn_families")
      BY <2>2, PastIsClosed, AtsAre DEF DoctorInv, StateInv, Put, Net
    <3> QED
      BY <2>2, <3>1 DEF DoctorInv, SparedInv
  <2>3. CASE q \in Api
    BY <1>1, <2>3 DEF DoctorInv, SparedInv, Api
  <2>4. CASE q \in Keys
    BY <1>1, <2>4 DEF DoctorInv, SparedInv, Keys
  <2> QED
    BY <2>1, <2>2, <2>3, <2>4 DEF Net
<1>3. Asked(q) = {i \in DOMAIN calls : calls[i].of = x}
  BY DEF Asked, Shared
<1>4. PICK k \in 1 .. Len(calls) : calls[k].of = x
  BY <1>2 DEF Called
<1> HIDE DEF x
<1>5. k \in Asked(q) /\ (calls[k].lost <=> IsUnreachable(facts[x]))
  BY <1>3, <1>4 DEF DoctorInv, CallsInv
<1> QED
  BY <1>1, <1>2, <1>5

LEMMA TypesHold ==
  ASSUME DoctorInv
  PROVE  TypeOK
<1>1. ASSUME NEW i \in DOMAIN Question, \E j \in DOMAIN Steps : Steps[j] = step /\ i + 1 < j,
             Question[i] # "host"
      PROVE  Question[i] \in DOMAIN facts /\ facts[Question[i]].is \in {"ok", "failed", "skipped"}
  <2>1. PICK j \in 1 .. 14 : Steps[j] = step /\ i + 1 < j
    BY <1>1, StepsAre
  <2>2. i \in 1 .. 11 /\ i + 1 \in 1 .. 14 /\ Question[i] = Steps[i + 1]
    BY QuestionsAre
  <2>3. At(Question[i]) = i + 1 /\ At(step) = j
    BY <2>1, <2>2, AtIs
  <2>4. Past(Question[i])
    BY <2>1, <2>3 DEF Past
  <2>5. Question[i] \in Put
    <3>1. /\ Steps[2] \in Put /\ Steps[3] \in Put /\ Steps[4] \in Put /\ Steps[5] \in Put
          /\ Steps[6] \in Put /\ Steps[7] \in Put /\ Steps[8] \in Put /\ Steps[9] \in Put
          /\ Steps[10] \in Put /\ Steps[11] \in Put
      BY StepsAre DEF Put, Net, Api, Keys
    <3>2. i # 11
      BY <1>1, <2>2, StepsAre
    <3> QED
      BY <2>2, <3>1, <3>2
  <2> QED
    BY <2>4, <2>5 DEF DoctorInv, FactsInv
<1>2. \A r \in findings : r.status \in Status /\ r.learned \in BOOLEAN
  <2>1. CASE Done
    BY <2>1, DoneKnowsAll, EvaluateReports DEF Sound
  <2>2. CASE ~Done
    BY <2>2 DEF Done, DoctorInv, FindingsInv
  <2> QED
    BY <2>1, <2>2
<1>3. \A i \in DOMAIN calls : calls[i].lost \in BOOLEAN
  <2>1. DOMAIN calls = 1 .. Len(calls) /\ \A i \in 1 .. Len(calls) : calls[i] \in Calls
    BY ElementOfSeq DEF DoctorInv, CallsInv
  <2> QED
    BY <2>1 DEF Calls
<1> QED
  BY <1>1, <1>2, <1>3 DEF TypeOK, DoctorInv, StateInv

(* Whatever the node and its host are, whatever the operator stated and    *)
(* however often things come and go during the run, the report has one row *)
(* for each thing it is to say, and a row passes only if every question it *)
(* rests on was answered in this run.                                      *)
THEOREM ReportIsWhole == Spec => []ReportIsComplete
<1>1. DoctorInv => ReportIsComplete
  <2> SUFFICES ASSUME DoctorInv PROVE TypeOK /\ EveryQuestionHasItsRow
    BY DEF ReportIsComplete
  <2>1. ASSUME Done, NEW i \in 1 .. 8, NEW name \in RestsOn(Question[i])
        PROVE  /\ Cardinality({r \in findings : r.name = name}) = 1
               /\ \A r \in findings : r.name = name /\ r.status = "pass"
                    => \E k \in Asked(Question[i]) : ~calls[k].lost
    <3>1. Question[i] \in Net /\ Question[i] \in Put
      BY FirstAreCalls, PutsAreSteps
    <3>2. Reported(findings, name, IsOk(facts[Question[i]]))
      BY <2>1, DoneKnowsAll, EvaluateReports
    <3>3. Past(Question[i])
      BY <2>1, <3>1, DoneKnowsAll
    <3> QED
      BY <3>1, <3>2, <3>3, OkWasAnswered DEF Reported
  <2>2. EveryQuestionHasItsRow
    BY <2>1 DEF EveryQuestionHasItsRow
  <2> QED
    BY <2>2, TypesHold
<1> QED
  BY <1>1, DoctorInvariant, PTL

LEMMA ApiRowsAre ==
  ApiRows = {"beacon api", "sync status", "execution layer", "optimistic head", "finality lag", "peer count"}
<1>1. Question[1] = "health" /\ Question[2] = "syncing" /\ Question[3] = "finality" /\ Question[4] = "peers"
  BY DEF Question
<1>2. ApiRows = RestsOn("health") \cup RestsOn("syncing") \cup RestsOn("finality") \cup RestsOn("peers")
  <2>1. \A i \in 1 .. 4 : i = 1 \/ i = 2 \/ i = 3 \/ i = 4
    OBVIOUS
  <2>2. 1 \in 1 .. 4 /\ 2 \in 1 .. 4 /\ 3 \in 1 .. 4 /\ 4 \in 1 .. 4
    OBVIOUS
  <2> QED
    BY <1>1, <2>1, <2>2, Zenon DEF ApiRows
<1> QED
  BY <1>2, QuestionsRest

(* A Beacon API that is away is one failure, and a warning for the rest.   *)
LEMMA OutageIsOneFailure ==
  ASSUME DoctorInv
  PROVE  OutageFailsOnce
<1> SUFFICES ASSUME Done, IsUnreachable(facts.health)
             PROVE  /\ \A r \in findings : r.name \in ApiRows
                         => r.status = IF r.name = "beacon api" THEN "fail" ELSE "warn"
                    /\ ~Succeeds(findings)
  BY DEF OutageFailsOnce
<1>1. findings = Evaluate(facts) /\ ~IsOk(facts.health)
  BY DoneKnowsAll DEF IsUnreachable, IsOk
<1>2. /\ ~IsOk(facts.syncing) /\ ~IsOk(facts.finality) /\ ~IsOk(facts.peers)
  <2>1. facts.syncing = Skipped /\ facts.finality = Skipped /\ facts.peers = Skipped
    BY DoneKnowsAll DEF DoctorInv, SparedInv, Api, Put, Net
  <2> QED
    BY <2>1 DEF Skipped, IsOk
<1>3. CheckBeaconApi(facts) = {Row("beacon api", "fail", FALSE)}
  BY <1>1 DEF CheckBeaconApi, Judge, Unknown
<1>4. CheckSyncing(facts) = {Row("sync status", "warn", FALSE), Row("execution layer", "warn", FALSE),
                             Row("optimistic head", "warn", FALSE)}
  BY <1>2 DEF CheckSyncing, Judge, Unknown
<1>5. CheckFinality(facts) = {Row("finality lag", "warn", FALSE)}
  BY <1>2 DEF CheckFinality, Unknown
<1>6. CheckPeers(facts) = {Row("peer count", "warn", FALSE)}
  BY <1>2 DEF CheckPeers, Judge, Unknown
<1>7. \A r \in CheckMetrics(facts) \cup CheckValidators(facts) \cup CheckDuties(facts) \cup Rest(facts) :
        r.name \notin ApiRows
  <2>1. \A r \in CheckMetrics(facts) : r.name \in {"beacon node metrics", "validator metrics"}
    <3>1. PICK bn, vc : /\ CheckMetrics(facts) = bn \cup vc
                        /\ OneRow(bn, "beacon node metrics", IsOk(facts.bn_families))
                        /\ OneRow(vc, "validator metrics", IsOk(facts.vc_families))
      BY <1>1, PartsAre
    <3> QED
      BY <3>1, OneRowIs
  <2>2. \A r \in CheckValidators(facts) : r.name = "validator keys"
    BY JudgeNames DEF CheckValidators
  <2>3. \A r \in CheckDuties(facts) : r.name = "duties published"
    BY JudgeNames DEF CheckDuties
  <2>4. \A r \in Rest(facts) : r.name \in RestNames
    BY RestIs
  <2> QED
    BY <2>1, <2>2, <2>3, <2>4, ApiRowsAre DEF RestNames
<1>8. \A r \in findings :
        \/ r \in CheckMetrics(facts) \cup CheckValidators(facts) \cup CheckDuties(facts) \cup Rest(facts)
        \/ r \in CheckBeaconApi(facts) \/ r \in CheckSyncing(facts)
        \/ r \in CheckFinality(facts) \/ r \in CheckPeers(facts)
  BY <1>1 DEF Evaluate, Rest
<1>9. ASSUME NEW r \in findings, r.name \in ApiRows
      PROVE  r.status = IF r.name = "beacon api" THEN "fail" ELSE "warn"
  <2>1. r = Row("beacon api", "fail", FALSE)
        \/ \E name \in {"sync status", "execution layer", "optimistic head", "finality lag", "peer count"} :
             r = Row(name, "warn", FALSE)
    BY <1>3, <1>4, <1>5, <1>6, <1>7, <1>8, <1>9
  <2>2. /\ Row("beacon api", "fail", FALSE).name = "beacon api"
        /\ Row("beacon api", "fail", FALSE).status = "fail"
        /\ \A name : Row(name, "warn", FALSE).name = name /\ Row(name, "warn", FALSE).status = "warn"
    BY DEF Row
  <2>3. CASE r = Row("beacon api", "fail", FALSE)
    BY <2>2, <2>3
  <2>4. CASE r # Row("beacon api", "fail", FALSE)
    <3>1. PICK name \in {"sync status", "execution layer", "optimistic head", "finality lag", "peer count"} :
             r = Row(name, "warn", FALSE)
      BY <2>1, <2>4
    <3>2. r.name # "beacon api" /\ r.status = "warn"
      BY <2>2, <3>1
    <3> QED
      BY <3>2
  <2> QED
    BY <2>3, <2>4
<1>10. ~Succeeds(findings)
  <2>1. Row("beacon api", "fail", FALSE) \in findings
    BY <1>1, <1>3 DEF Evaluate
  <2>2. Row("beacon api", "fail", FALSE).status = "fail"
    BY DEF Row
  <2> QED
    BY <2>1, <2>2 DEF Succeeds
<1> QED
  BY <1>9, <1>10

(* However many questions there are, an endpoint that is away costs one    *)
(* timeout, and a Beacon API that is away one failure of the report.       *)
THEOREM OutageIsCheap == Spec => []OutageCostsOnce
<1>1. DoctorInv => OutageCostsOnce
  BY DeadIsAskedOnce, OutageIsOneFailure DEF OutageCostsOnce
<1> QED
  BY <1>1, DoctorInvariant, PTL

(* What the layout row advises works: read from the address it names, the  *)
(* validator's metrics are no failure, and the row is gone.                *)
THEOREM AdviceWorks == Spec => []LayoutAdviceWorks
<1>1. DoctorInv => LayoutAdviceWorks
  <2> SUFFICES ASSUME DoctorInv, Done, AllInOne \in findings
        PROVE  LET after == [facts EXCEPT !.vc_families = facts.bn_families] IN
                 /\ CheckMetricsLayout(after) = {}
                 /\ \A r \in CheckMetrics(after) : r.status # "fail"
    BY DEF LayoutAdviceWorks
  <2> DEFINE after == [facts EXCEPT !.vc_families = facts.bn_families]
  <2>1. after.vc_families = facts.bn_families /\ after.bn_families = facts.bn_families
    <3>1. "vc_families" \in DOMAIN facts /\ "bn_families" \in DOMAIN facts
      BY DoneKnowsAll DEF Put, Net
    <3> QED
      BY <3>1
  <2>2. IsOk(facts.bn_families) /\ facts.bn_families.value.beacon
    <3>1. AllInOne.name # Misplaced.name
      BY DEF AllInOne, Misplaced, Row
    <3>2. AllInOne \in CheckMetricsLayout(facts)
      <4>1. AllInOne.name = "metrics layout: all in one"
        BY DEF AllInOne, Row
      <4> QED
        BY <4>1, DoneKnowsAll, EvaluateReports
    <3> QED
      BY <3>1, <3>2 DEF CheckMetricsLayout
  <2> HIDE DEF after
  <2>3. CheckMetricsLayout(after) = {}
    BY <2>1, <2>2 DEF CheckMetricsLayout, IsOk, IsUnreachable
  <2>4. ASSUME NEW r \in CheckMetrics(after) PROVE r.status # "fail"
    <3>1. \E name, s : s \in {"pass", "warn"} /\ r = Row(name, s, TRUE)
      BY <2>1, <2>2 DEF CheckMetrics, Judge, Learned
    <3> QED
      BY <3>1 DEF Row
  <2> QED
    BY <2>3, <2>4 DEF after
<1> QED
  BY <1>1, DoctorInvariant, PTL

-----------------------------------------------------------------------------
(* Which disk is judged: what was settled when the run was configured,     *)
(* what was inspected, and what was looked at.                             *)
DiskInv ==
  /\ step # "configure" /\ given.data = None
       => config.data_dir = IF config.stack = "bare-metal" THEN DefaultDataDir ELSE None
  /\ Past("containers") /\ IsOk(facts.containers) /\ facts.containers.value # {}
       => /\ StackHasContainers(config.stack) /\ config.container # None
          /\ \A c \in facts.containers.value : c.mount = config.container.mount
  /\ Past("host") /\ facts.disk # None
       => facts.disk.of = DiskTarget /\ DiskTarget \in DOMAIN node.free

LEMMA DataDirIs ==
  ASSUME NEW stack
  PROVE  ResolveDoctorDataDir(None, None, None, stack) =
           IF stack = "bare-metal" THEN DefaultDataDir ELSE None
<1> DEFINE last == IF stack = "bare-metal" THEN DefaultDataDir ELSE None
           l == <<None, None, None, last>>
           stated == {k \in DOMAIN l : l[k] # None}
<1>1. DOMAIN l = 1 .. 4 /\ l[1] = None /\ l[2] = None /\ l[3] = None /\ l[4] = last
  OBVIOUS
<1>2. ResolveDoctorDataDir(None, None, None, stack) = FirstOf(l)
  BY DEF ResolveDoctorDataDir
<1>3. FirstOf(l) = IF stated = {} THEN None ELSE l[Min(stated)]
  BY DEF FirstOf
<1> HIDE DEF l, last
<1>4. stated \subseteq {4}
  BY <1>1
<1>5. CASE last = None
  BY <1>1, <1>2, <1>3, <1>4, <1>5 DEF last
<1>6. CASE last # None
  <2>1. stated = {4}
    BY <1>1, <1>4, <1>6
  <2> HIDE DEF stated
  <2>2. Min(stated) = 4
    BY <2>1 DEF Min
  <2> QED
    BY <1>1, <1>2, <1>3, <2>1, <2>2 DEF last
<1> QED
  BY <1>5, <1>6

LEMMA DiskStep ==
  ASSUME DoctorInv, DiskInv, [Next]_vars
  PROVE  DiskInv'
<1>1. step \in Range(Steps) /\ At("containers") = 10 /\ At("host") = 12 /\ At(step) \in 1 .. 14
      /\ "containers" \in Range(Steps) /\ "host" \in Range(Steps) /\ "containers" \in Put
  BY AtsAre, StepIsAt, StepsAre DEF DoctorInv, StateInv, Range, Put
<1>2. ASSUME step # "done", step' = After(step)
      PROVE  /\ Past("containers")' <=> (Past("containers") \/ step = "containers")
             /\ Past("host")' <=> (Past("host") \/ step = "host")
             /\ step' # "configure"
  BY <1>1, <1>2, PastGrows, AfterIsNext
<1>3. CASE Configure
  <2>1. /\ step = "configure" /\ step' = After(step) /\ UNCHANGED given
        /\ config'.data_dir = ResolveDoctorDataDir(given.data, None, None, config'.stack)
    BY <1>3 DEF Configure, world
  <2>2. ~Past("containers")' /\ ~Past("host")'
    BY <1>1, <1>2, <2>1, AtsAre DEF Past
  <2> QED
    BY <2>1, <2>2, DataDirIs DEF DiskInv
<1>4. CASE step \in Net /\ step' = After(step) /\ UNCHANGED <<given, config>>
  <2>1. step \notin {"configure", "containers", "host", "done"} /\ At(step) < 10
    BY <1>4, AtsAre DEF Net, Api, Keys
  <2>2. ~Past("containers")' /\ ~Past("host")'
    BY <1>1, <1>2, <1>4, <2>1 DEF Past
  <2> QED
    BY <1>4, <2>1, <2>2 DEF DiskInv
<1>5. CASE InspectConsensus
  <2> DEFINE seen == IF ~StackHasContainers(config.stack) THEN {Skipped}
                     ELSE IF config.container = None THEN {Ok({})}
                     ELSE Inspection(config.container)
  <2>1. PICK p \in seen : step = "containers" /\ Learn(Fact(step, p))
    BY <1>5 DEF InspectConsensus
  <2>2. /\ step' = After(step) /\ UNCHANGED <<given, config>>
        /\ facts'.containers = p
    BY <2>1, FactIsRecorded DEF Learn, world
  <2>3. ~Past("host")'
    BY <1>1, <1>2, <2>1, <2>2, AtsAre DEF Past
  <2>4. ASSUME IsOk(p), p.value # {}
        PROVE  /\ StackHasContainers(config.stack) /\ config.container # None
               /\ \A c \in p.value : c.mount = config.container.mount
    <3>1. StackHasContainers(config.stack)
      BY <2>1, <2>4 DEF Skipped, IsOk
    <3>2. config.container # None
      BY <2>1, <2>4, <3>1 DEF Ok
    <3>3. p \in Inspection(config.container)
      BY <2>1, <3>1, <3>2
    <3>4. p # Failed("docker inspect")
      <4>1. Failed("docker inspect").is = "failed" /\ p.is = "ok"
        BY <2>4 DEF IsOk, Failed
      <4> QED
        BY <4>1
    <3> DEFINE c == [running |-> config.container \in running, restarts |-> config.container.restarts,
                     mount |-> config.container.mount]
    <3>5. p = Ok({c})
      BY <3>3, <3>4 DEF Inspection
    <3>6. p.value = {c} /\ c.mount = config.container.mount
      BY <3>5 DEF Ok
    <3> HIDE DEF c
    <3> QED
      BY <3>1, <3>2, <3>6
  <2> QED
    BY <2>1, <2>2, <2>3, <2>4 DEF DiskInv
<1>6. CASE InspectValidator
  <2>1. step = "vc_containers" /\ \E p : Learn(Fact(step, p))
    BY <1>6 DEF InspectValidator
  <2>2. PICK p : /\ step' = After(step) /\ UNCHANGED <<given, config>>
                 /\ facts' = Recorded(Fact("vc_containers", p))
    BY <2>1 DEF Learn, world
  <2>3. Past("containers") /\ ~Past("host")'
    BY <1>1, <1>2, <2>1, <2>2, AtsAre DEF Past
  <2>4. facts'.containers = facts.containers
    <3>1. "containers" \in DOMAIN facts
      BY <1>1, <2>3 DEF DoctorInv, FactsInv
    <3> QED
      BY <2>2, <3>1, FactIsRecorded
  <2> QED
    BY <2>1, <2>2, <2>3, <2>4 DEF DiskInv
<1>7. CASE CollectHost
  <2> DEFINE d == IF DiskTarget \in DOMAIN node.free
                  THEN [of |-> DiskTarget, free |-> node.free[DiskTarget]] ELSE None
  <2>1. PICK f : /\ DOMAIN f = {"disk", "memory", "load", "cpus"} /\ f.disk = d /\ Learn(f)
    BY <1>7 DEF CollectHost
  <2>2. step = "host" /\ step' = After(step) /\ facts' = Recorded(f) /\ UNCHANGED <<node, given, config>>
    BY <1>7, <2>1 DEF CollectHost, Learn, world
  <2>3. Past("containers")
    BY <1>1, <2>2, AtsAre DEF Past
  <2>4. facts'.containers = facts.containers /\ facts'.disk = d
    <3>1. "containers" \in DOMAIN facts
      BY <1>1, <2>3 DEF DoctorInv, FactsInv
    <3> HIDE DEF d
    <3> QED
      BY <2>1, <2>2, <3>1 DEF Recorded
  <2>5. DiskTarget' = DiskTarget
    BY <2>2, <2>4 DEF DiskTarget
  <2>6. d # None => d.of = DiskTarget /\ DiskTarget \in DOMAIN node.free
    OBVIOUS
  <2> HIDE DEF d
  <2> QED
    BY <2>2, <2>3, <2>4, <2>5, <2>6 DEF DiskInv
<1>8. CASE Judged
  <2>1. step = "evaluate" /\ step' = After(step) /\ UNCHANGED <<node, given, config, facts>>
    BY <1>8 DEF Judged, world
  <2>2. Past("containers")' <=> Past("containers")
    BY <1>2, <2>1
  <2>3. Past("host")' <=> Past("host")
    BY <1>2, <2>1
  <2>4. DiskTarget' = DiskTarget
    BY <2>1 DEF DiskTarget
  <2> QED
    BY <2>1, <2>2, <2>3, <2>4 DEF DiskInv
<1>9. CASE Trouble \/ UNCHANGED vars
  <2>1. UNCHANGED <<node, given, config, facts, step>>
    BY <1>9 DEF Trouble, vars, world
  <2>2. DiskTarget' = DiskTarget /\ (Past("containers")' <=> Past("containers")) /\ (Past("host")' <=> Past("host"))
    BY <2>1 DEF DiskTarget, Past
  <2> QED
    BY <2>1, <2>2 DEF DiskInv
<1>10. ASSUME AskHealth \/ AskApi \/ AskBnFamilies \/ AskVcFamilies \/ AskValidatorClient
       PROVE  step \in Net /\ step' = After(step) /\ UNCHANGED <<given, config>>
  BY <1>10 DEF AskHealth, AskApi, AskBnFamilies, AskVcFamilies, AskValidatorClient, Ask, Skip, Learn,
               world, Net, Api, Keys
<1> QED
  BY <1>3, <1>4, <1>5, <1>6, <1>7, <1>8, <1>9, <1>10 DEF Next, Exit

(* Without a path stated, the disk that is judged is the one the beacon    *)
(* node writes to: the mount of its container, if it has one.              *)
THEOREM DiskIsJudgedRight == Spec => []DiskIsOfTheNode
<1>1. Init => DiskInv
  <2>1. Init => ~Past("containers") /\ ~Past("host") /\ step = "configure"
    BY AtsAre DEF Init, Past
  <2> QED
    BY <2>1 DEF DiskInv
<1>2. DoctorInv /\ DiskInv /\ [Next]_vars => DiskInv'
  BY DiskStep
<1>3. DoctorInv /\ DiskInv => DiskIsOfTheNode
  <2> SUFFICES ASSUME DoctorInv, DiskInv, Done, given.data = None, facts.disk # None
        PROVE  IF config.stack = "bare-metal" THEN facts.disk.of = DefaultDataDir
               ELSE config.container # None /\ facts.disk.of = config.container.mount
    BY DEF DiskIsOfTheNode
  <2>1. Past("containers") /\ Past("host") /\ step # "configure"
    BY AtsAre DEF Done, Past
  <2>2. facts.disk.of = DiskTarget /\ DiskTarget # None
    <3>1. None \notin DOMAIN node.free
      BY DoctorAssumption DEF DoctorInv, StateInv
    <3> QED
      BY <2>1, <3>1 DEF DiskInv
  <2>3. config.data_dir = IF config.stack = "bare-metal" THEN DefaultDataDir ELSE None
    BY <2>1 DEF DiskInv
  <2>4. CASE config.stack = "bare-metal"
    <3>1. ~StackHasContainers(config.stack)
      BY <2>4 DEF StackHasContainers, Docker
    <3>2. DiskTarget = OrElse(DefaultDataDir, None)
      BY <2>1, <2>3, <2>4, <3>1 DEF DiskTarget, DiskInv
    <3> QED
      BY <2>2, <2>4, <3>2 DEF OrElse
  <2>5. CASE config.stack # "bare-metal"
    <3>1. IsOk(facts.containers) /\ facts.containers.value # {}
      BY <2>2, <2>3, <2>5 DEF DiskTarget, OrElse
    <3>2. DiskTarget = (CHOOSE c \in facts.containers.value : TRUE).mount
      BY <2>3, <2>5, <3>1 DEF DiskTarget, OrElse
    <3>3. (CHOOSE c \in facts.containers.value : TRUE) \in facts.containers.value
      BY <3>1
    <3> QED
      BY <2>1, <2>2, <2>5, <3>1, <3>2, <3>3 DEF DiskInv
  <2> QED
    BY <2>4, <2>5
<1> QED
  BY <1>1, <1>2, <1>3, DoctorInvariant, PTL DEF Spec

-----------------------------------------------------------------------------
(* What is said to a question, and what an inspection finds.               *)
Exactly(q) ==
  IF q \in {"health"} \cup Api THEN ApiAnswer(q)
  ELSE IF q = "bn_families" THEN Families(config.bn_metric_url)
  ELSE IF q = "vc_families" THEN Families(config.vc_metric_url) ELSE Counter(q)

SeenOf(q) ==
  IF q = "containers"
  THEN IF ~StackHasContainers(config.stack) THEN {Skipped}
       ELSE IF config.container = None THEN {Ok({})} ELSE Inspection(config.container)
  ELSE IF config.vc_container = None THEN {Skipped} ELSE Inspection(config.vc_container)

(* What docker shows of a role, and the stacks that follow from it.        *)
Shown(role) == Detected(node.containers, role, None)

SettledInv ==
  step # "configure" =>
    /\ {"stack", "vc_stack"} \subseteq DOMAIN facts
    /\ facts.stack = config.stack /\ facts.vc_stack = config.vc_stack
    /\ Undisturbed /\ Unstated =>
         /\ config.container = Shown("bn") /\ config.vc_container = Shown("vc")
         /\ config.stack = OrElse(Name(Shown("bn")), "bare-metal")
         /\ config.vc_stack = OrElse(OrElse(Name(Shown("vc")), Name(Shown("bn"))), "bare-metal")
         /\ config.api_url = ApiUrl(DefaultStack(config.stack))
         /\ config.bn_metric_url = BnMetricUrl(DefaultStack(config.stack))
         /\ config.vc_metric_url = VcMetricUrl(DefaultStack(config.vc_stack))

(* As long as nothing goes away, the facts are what the node says.         *)
TrueInv ==
  Undisturbed =>
    /\ \A q \in Net : Past(q) /\ Called(q) => facts[q] = Reply(UrlOf(q), Exactly(q))
    /\ \A q \in {"containers", "vc_containers"} : Past(q) => facts[q] \in SeenOf(q)

HostInv ==
  Past("host") =>
    /\ facts.disk # None => \E p \in DOMAIN node.free : facts.disk.free = node.free[p]
    /\ facts.memory = node.memory /\ facts.load = node.load /\ facts.cpus = node.cpus

FoundInv == SettledInv /\ TrueInv /\ HostInv

LEMMA NothingFirst ==
  ASSUME NEW l, \A k \in DOMAIN l : l[k] = None
  PROVE  FirstOf(l) = None
BY DEF FirstOf

LEMMA FirstAfterNone ==
  ASSUME NEW a, NEW b
  PROVE  FirstOf(<<None, a, b>>) = OrElse(a, b)
<1> DEFINE l == <<None, a, b>>
           stated == {k \in DOMAIN l : l[k] # None}
<1>1. DOMAIN l = 1 .. 3 /\ l[1] = None /\ l[2] = a /\ l[3] = b
  OBVIOUS
<1>2. FirstOf(l) = IF stated = {} THEN None ELSE l[Min(stated)]
  BY DEF FirstOf
<1> HIDE DEF l
<1>3. CASE a # None
  <2>1. 2 \in stated /\ \A k \in stated : 2 <= k
    BY <1>1, <1>3
  <2> HIDE DEF stated
  <2>2. Min(stated) = 2
    <3>1. Min(stated) = CHOOSE x \in stated : \A y \in stated : x <= y
      BY DEF Min
    <3>2. \A x \in stated : (\A y \in stated : x <= y) => x = 2
      <4>1. \A x \in stated : x \in 1 .. 3
        BY <1>1 DEF stated
      <4> QED
        BY <2>1, <4>1
    <3> QED
      BY <2>1, <3>1, <3>2
  <2> QED
    BY <1>1, <1>2, <1>3, <2>1, <2>2 DEF OrElse, l
<1>4. CASE a = None /\ b # None
  <2>1. stated = {3}
    BY <1>1, <1>4
  <2> HIDE DEF stated
  <2>2. Min(stated) = 3
    BY <2>1 DEF Min
  <2> QED
    BY <1>1, <1>2, <1>4, <2>1, <2>2 DEF OrElse, l
<1>5. CASE a = None /\ b = None
  <2>1. stated = {}
    BY <1>1, <1>5
  <2> QED
    BY <1>2, <1>5, <2>1 DEF OrElse, l
<1> QED
  BY <1>3, <1>4, <1>5 DEF l

(* A step that is not disturbed leaves the world as it is.                 *)
LEMMA ConfigureSettles ==
  ASSUME DoctorInv, Configure
  PROVE  FoundInv'
<1> DEFINE stated == ResolveStack(given.stack, None, None)
           names  == IF docker /\ DoctorNeedsDockerPs(stated) THEN running ELSE None
           bn     == Detected(names, "bn", stated)
           vc     == Detected(names, "vc", stated)
<1>1. /\ step = "configure" /\ step' = After(step)
      /\ config' = [stack |-> ResolveDoctorStack(stated, Name(bn)),
                    vc_stack |-> ResolveDoctorVcStack(stated, Name(vc), Name(bn)),
                    api_url |-> ResolveBaseUrl(given.api, None, None, ResolveDoctorStack(stated, Name(bn))),
                    bn_metric_url |-> ResolveBnMetricUrl(given.bn, given.legacy, None, None, None, None,
                                                         ResolveDoctorStack(stated, Name(bn))),
                    vc_metric_url |-> ResolveVcMetricUrl(given.vc, None, None,
                                        ResolveDoctorVcStack(stated, Name(vc), Name(bn))),
                    container |-> bn, vc_container |-> vc,
                    data_dir |-> ResolveDoctorDataDir(given.data, None, None,
                                                      ResolveDoctorStack(stated, Name(bn)))]
      /\ facts' = [stack |-> config'.stack, vc_stack |-> config'.vc_stack]
      /\ UNCHANGED <<node, given, docker, up, running, trouble>>
  BY DEF Configure, world, life
<1>2. /\ config'.stack = ResolveDoctorStack(stated, Name(bn))
      /\ config'.vc_stack = ResolveDoctorVcStack(stated, Name(vc), Name(bn))
      /\ config'.api_url = ResolveBaseUrl(given.api, None, None, config'.stack)
      /\ config'.bn_metric_url = ResolveBnMetricUrl(given.bn, given.legacy, None, None, None, None, config'.stack)
      /\ config'.vc_metric_url = ResolveVcMetricUrl(given.vc, None, None, config'.vc_stack)
      /\ config'.container = bn /\ config'.vc_container = vc
  BY <1>1
<1> HIDE DEF stated, names, bn, vc
<1>3. \A q \in Put \cup {"host"} : ~Past(q)'
  <2>1. At(step') = 2
    BY <1>1, AtsAre, AfterIsNext DEF DoctorInv, StateInv
  <2> QED
    BY <2>1, PutsAreSteps, AtsAre DEF Past
<1>4. ASSUME Undisturbed', Unstated'
      PROVE  /\ config'.container = Shown("bn")' /\ config'.vc_container = Shown("vc")'
             /\ config'.stack = OrElse(Name(Shown("bn")), "bare-metal")'
             /\ config'.vc_stack = OrElse(OrElse(Name(Shown("vc")), Name(Shown("bn"))), "bare-metal")'
             /\ config'.api_url = ApiUrl(DefaultStack(config'.stack))
             /\ config'.bn_metric_url = BnMetricUrl(DefaultStack(config'.stack))
             /\ config'.vc_metric_url = VcMetricUrl(DefaultStack(config'.vc_stack))
  <2>1. /\ docker /\ running = node.containers
        /\ given.stack = None /\ given.api = None /\ given.bn = None /\ given.legacy = None /\ given.vc = None
    BY <1>1, <1>4 DEF Undisturbed, Unstated
  <2>2. stated = None
    <3>1. None \notin Stack
      BY DoctorAssumption
    <3>2. stated = FirstOf(<<None, None, None>>)
      BY <2>1, <3>1 DEF stated, ResolveStack
    <3>3. \A k \in DOMAIN <<None, None, None>> : <<None, None, None>>[k] = None
      OBVIOUS
    <3> QED
      BY <3>2, <3>3, NothingFirst
  <2>3. names = node.containers
    <3>1. None # "bare-metal"
      BY DoctorAssumption DEF Stack
    <3> QED
      BY <2>1, <2>2, <3>1 DEF names, DoctorNeedsDockerPs
  <2>4. bn = Shown("bn")' /\ vc = Shown("vc")'
    BY <1>1, <2>2, <2>3 DEF bn, vc, Shown
  <2>5. /\ config'.stack = OrElse(Name(bn), "bare-metal")
        /\ config'.vc_stack = OrElse(OrElse(Name(vc), Name(bn)), "bare-metal")
    BY <1>2, <2>2, FirstAfterNone DEF ResolveDoctorStack, ResolveDoctorVcStack
  <2>6. /\ FirstOf(<<None, None, None>>) = None
        /\ FirstOf(<<None, None, None, None, None, None>>) = None
    <3>1. \A k \in DOMAIN <<None, None, None>> : <<None, None, None>>[k] = None
      OBVIOUS
    <3>2. \A k \in DOMAIN <<None, None, None, None, None, None>> :
             <<None, None, None, None, None, None>>[k] = None
      OBVIOUS
    <3> QED
      BY <3>1, <3>2, NothingFirst
  <2>7. /\ config'.api_url = ApiUrl(DefaultStack(config'.stack))
        /\ config'.bn_metric_url = BnMetricUrl(DefaultStack(config'.stack))
        /\ config'.vc_metric_url = VcMetricUrl(DefaultStack(config'.vc_stack))
    BY <1>2, <2>1, <2>6 DEF ResolveBaseUrl, ResolveBnMetricUrl, ResolveVcMetricUrl, OrElse
  <2> QED
    BY <1>2, <2>4, <2>5, <2>7
<1>5. SettledInv'
  <2>1. {"stack", "vc_stack"} \subseteq DOMAIN facts' /\ facts'.stack = config'.stack
        /\ facts'.vc_stack = config'.vc_stack
    BY <1>1
  <2> QED
    BY <1>4, <2>1 DEF SettledInv
<1>6. TrueInv' /\ HostInv'
  BY <1>3 DEF TrueInv, HostInv, Put
<1> QED
  BY <1>5, <1>6 DEF FoundInv

(* A fact that is recorded leaves what was settled as it was.              *)
LEMMA SettledStays ==
  ASSUME SettledInv, step # "configure", step' # "configure", UNCHANGED <<node, given, docker, config>>,
         {"stack", "vc_stack"} \subseteq DOMAIN facts
           => /\ {"stack", "vc_stack"} \subseteq DOMAIN facts'
              /\ facts'.stack = facts.stack /\ facts'.vc_stack = facts.vc_stack,
         Undisturbed' => Undisturbed
  PROVE  SettledInv'
<1>1. Unstated' = Unstated /\ Shown("bn")' = Shown("bn") /\ Shown("vc")' = Shown("vc")
  BY DEF Unstated, Shown
<1> QED
  BY <1>1 DEF SettledInv

(* A question that is put: what it brings is what there is to be said.     *)
LEMMA PutFinds ==
  ASSUME DoctorInv, FoundInv, step \in Put, NEW p, facts' = Recorded(Fact(step, p)), step' = After(step),
         UNCHANGED <<node, given, docker, up, running, config>>,
         p.is \in {"ok", "failed", "skipped"}, step = "health" => Honest(p),
         trouble' = 0 => trouble = 0,
         \A q \in Net : Called(q)' => (Called(q) \/ q = step),
         \A q \in Net : trouble' = 0 /\ q = step /\ Called(q)' => p = Reply(UrlOf(q), Exactly(q)),
         step \in {"containers", "vc_containers"} => p \in SeenOf(step)
  PROVE  FoundInv'
<1>1. /\ \A q \in Range(Steps) : Past(q)' <=> (Past(q) \/ q = step)
      /\ facts'[step] = p
      /\ \A q \in Put : Past(q) => facts'[q] = facts[q]
  BY FactsGrow
<1>2. /\ Put \subseteq Range(Steps) /\ Net \subseteq Put /\ {"containers", "vc_containers"} \subseteq Put
      /\ "host" \in Range(Steps) /\ "host" \notin Put /\ step # "configure" /\ step # "done"
      /\ "stack" # step /\ "vc_stack" # step
  BY PutsAreSteps, StepsAre DEF Put, Net, Api, Keys, Range
<1>3. Undisturbed' => Undisturbed /\ trouble' = 0
  BY DEF Undisturbed, Endpoints
<1>4. SettledInv'
  <2>1. step' # "configure"
    BY <1>2, AfterIsNext DEF DoctorInv, StateInv
  <2>2. \A x \in {"stack", "vc_stack"} : x \in DOMAIN facts => x \in DOMAIN facts' /\ facts'[x] = facts[x]
    BY <1>2, FactIsRecorded
  <2> QED
    BY <1>2, <1>3, <2>1, <2>2, SettledStays DEF FoundInv
<1>5. ASSUME NEW q PROVE /\ UrlOf(q)' = UrlOf(q) /\ Exactly(q)' = Exactly(q)
                         /\ SeenOf(q)' = SeenOf(q)
  <2>1. UrlOf(q)' = UrlOf(q)
    BY DEF UrlOf
  <2>2. ApiAnswer(q)' = ApiAnswer(q) /\ Counter(q)' = Counter(q)
    BY DEF ApiAnswer, Counter, Page
  <2>3. ASSUME NEW url PROVE (url \in up)' = (url \in up) /\ Families(url)' = Families(url)
    BY DEF Families, Page
  <2>4. Exactly(q)' = Exactly(q)
    BY <2>2, <2>3 DEF Exactly, Families, Page
  <2>5. SeenOf(q)' = SeenOf(q)
    BY DEF SeenOf, Inspection
  <2> QED
    BY <2>1, <2>4, <2>5
<1>6. ASSUME Undisturbed', NEW q \in Net, Past(q)', Called(q)'
      PROVE  facts'[q] = Reply(UrlOf(q), Exactly(q))'
  <2>1. Reply(UrlOf(q), Exactly(q))' = Reply(UrlOf(q), Exactly(q))
    BY <1>5 DEF Reply
  <2>2. CASE q = step
    BY <1>1, <1>3, <1>6, <2>1, <2>2
  <2>3. CASE q # step
    <3>1. Past(q) /\ Called(q)
      BY <1>1, <1>2, <1>6, <2>3
    <3> QED
      BY <1>1, <1>2, <1>3, <1>6, <2>1, <3>1 DEF FoundInv, TrueInv
  <2> QED
    BY <2>2, <2>3
<1>7. ASSUME Undisturbed', NEW q \in {"containers", "vc_containers"}, Past(q)'
      PROVE  facts'[q] \in SeenOf(q)'
  <2>1. CASE q = step
    BY <1>1, <1>5, <2>1
  <2>2. CASE q # step
    <3>1. Past(q) /\ facts'[q] = facts[q]
      BY <1>1, <1>2, <1>7, <2>2
    <3> QED
      BY <1>3, <1>5, <1>7, <3>1 DEF FoundInv, TrueInv
  <2> QED
    BY <2>1, <2>2
<1>8. TrueInv'
  BY <1>6, <1>7 DEF TrueInv
<1>9. HostInv'
  <2>1. ~Past("host")'
    <3>1. At("host") = 12 /\ At(step) \in 2 .. 11
      BY AtsAre, PutsAreSteps
    <3>2. ~Past("host") /\ "host" # step
      BY <1>2, <3>1 DEF Past
    <3> QED
      BY <1>1, <1>2, <3>2
  <2> QED
    BY <2>1 DEF HostInv
<1> QED
  BY <1>4, <1>8, <1>9 DEF FoundInv

(* What a question that is asked brings, if nothing is disturbed.          *)
LEMMA AskFinds ==
  ASSUME DoctorInv, FoundInv, step \in Net, Ask(step, UrlOf(step), Exactly(step)),
         Answer(Exactly(step)), ~IsUnreachable(Exactly(step)), step = "health" => Honest(Exactly(step))
  PROVE  FoundInv'
<1> DEFINE c == [of |-> step, url |-> UrlOf(step), lost |-> UrlOf(step) \notin up]
<1>1. trouble \in Nat /\ (trouble' = trouble \/ trouble' = trouble + 1)
  <2>1. trouble' = trouble \/ trouble' = trouble + 1
    BY DEF Ask
  <2>2. MAX_TROUBLE \in Nat /\ trouble \in 0 .. MAX_TROUBLE
    BY DoctorAssumption DEF DoctorInv, StateInv
  <2> QED
    BY <2>1, <2>2
<1>2. calls' = Append(calls, c)
  BY DEF Ask
<1>3. \A q \in Net : Called(q)' => (Called(q) \/ q = step)
  <2>1. calls \in Seq(Calls) /\ c \in Calls /\ c.of = step
    BY DEF DoctorInv, CallsInv, Calls, UrlOf
  <2> HIDE DEF c
  <2>2. /\ Len(calls) \in Nat /\ Len(calls') = Len(calls) + 1 /\ calls'[Len(calls) + 1] = c
        /\ \A i \in 1 .. Len(calls) : calls'[i] = calls[i]
    BY <1>2, <2>1, AppendProperties
  <2>3. \A i \in 1 .. Len(calls') : i \in 1 .. Len(calls) \/ i = Len(calls) + 1
    BY <2>2
  <2> QED
    BY <2>1, <2>2, <2>3 DEF Called
<1>4. PICK p : /\ Learn(Fact(step, p)) /\ p.is \in {"ok", "failed", "skipped"}
               /\ (step = "health" => Honest(p))
               /\ trouble' = trouble => p = Reply(UrlOf(step), Exactly(step))
  <2>1. CASE trouble' = trouble
    <3>1. Learn(Fact(step, Reply(UrlOf(step), Exactly(step))))
      BY <1>1, <2>1 DEF Ask
    <3>2. Answer(Failed("unreachable")) /\ Honest(Failed("unreachable"))
      BY OkIsAnswer
    <3> QED
      BY <3>1, <3>2 DEF Answer, Reply
  <2>2. CASE trouble' # trouble
    <3>1. PICK a : Learn(Fact(step, a)) /\ Answer(a) /\ (step = "health" => Honest(a))
      BY AskBrings
    <3> QED
      BY <2>2, <3>1 DEF Answer
  <2> QED
    BY <2>1, <2>2
<1>5. /\ facts' = Recorded(Fact(step, p)) /\ step' = After(step)
      /\ UNCHANGED <<node, given, docker, up, running, config>>
  BY <1>4 DEF Learn, world
<1>6. step \in Put /\ step \notin {"containers", "vc_containers"}
  BY PutsAreSteps DEF Net, Api, Keys
<1>7. trouble' = 0 => trouble = 0 /\ trouble' = trouble
  BY <1>1
<1> QED
  BY <1>3, <1>4, <1>5, <1>6, <1>7, PutFinds

(* No question is put and nothing goes away: what was true still is.       *)
LEMMA TrueStays ==
  ASSUME TrueInv, UNCHANGED <<node, docker, up, running, config, calls>>, trouble' = 0 => trouble = 0,
         \A q \in Put : (Past(q)' <=> Past(q)) /\ (Past(q) => facts'[q] = facts[q])
  PROVE  TrueInv'
<1>1. ASSUME NEW q PROVE /\ UrlOf(q)' = UrlOf(q) /\ Exactly(q)' = Exactly(q)
                         /\ SeenOf(q)' = SeenOf(q) /\ (Called(q)' <=> Called(q))
  <2>1. ApiAnswer(q)' = ApiAnswer(q) /\ Counter(q)' = Counter(q)
    BY DEF ApiAnswer, Counter, Page
  <2> QED
    BY <2>1 DEF UrlOf, Exactly, SeenOf, Called, Families, Page, Inspection
<1>2. Undisturbed' => Undisturbed
  BY DEF Undisturbed, Endpoints
<1>3. Net \subseteq Put /\ {"containers", "vc_containers"} \subseteq Put
  BY PutsAreSteps DEF Put
<1>4. ASSUME Undisturbed', NEW q \in Net, Past(q)', Called(q)'
      PROVE  facts'[q] = Reply(UrlOf(q), Exactly(q))'
  <2>1. Reply(UrlOf(q), Exactly(q))' = Reply(UrlOf(q), Exactly(q))
    BY <1>1 DEF Reply
  <2>2. Past(q) /\ Called(q) /\ facts'[q] = facts[q]
    BY <1>1, <1>3, <1>4
  <2> QED
    BY <1>2, <1>4, <2>1, <2>2 DEF TrueInv
<1>5. ASSUME Undisturbed', NEW q \in {"containers", "vc_containers"}, Past(q)'
      PROVE  facts'[q] \in SeenOf(q)'
  BY <1>1, <1>2, <1>3, <1>5 DEF TrueInv
<1> QED
  BY <1>4, <1>5 DEF TrueInv

(* A question that is put without a call.                                  *)
LEMMA QuietFinds ==
  ASSUME DoctorInv, FoundInv, step \in Put, NEW p, facts' = Recorded(Fact(step, p)), step' = After(step),
         UNCHANGED <<world, life, config, calls>>,
         p.is \in {"ok", "failed", "skipped"}, step = "health" => Honest(p),
         step \in {"containers", "vc_containers"} => p \in SeenOf(step)
  PROVE  FoundInv'
<1>1. UNCHANGED <<node, given, docker, up, running, trouble, config, calls>>
  BY DEF world, life
<1>2. \A q : Called(q)' <=> Called(q)
  BY <1>1 DEF Called
<1>3. ~Called(step)
  BY NotYetCalled
<1> QED
  BY <1>1, <1>2, <1>3, PutFinds

LEMMA HostFinds ==
  ASSUME DoctorInv, FoundInv, CollectHost
  PROVE  FoundInv'
<1> DEFINE d == IF DiskTarget \in DOMAIN node.free
                THEN [of |-> DiskTarget, free |-> node.free[DiskTarget]] ELSE None
<1>1. PICK f : /\ DOMAIN f = {"disk", "memory", "load", "cpus"} /\ Learn(f)
               /\ f.disk = d /\ f.memory = node.memory /\ f.load = node.load /\ f.cpus = node.cpus
  BY DEF CollectHost
<1>2. d # None => \E p \in DOMAIN node.free : d.free = node.free[p]
  OBVIOUS
<1> HIDE DEF d
<1>3. /\ step = "host" /\ step' = After(step) /\ facts' = Recorded(f)
      /\ UNCHANGED <<node, given, docker, up, running, trouble, config, calls>>
  BY <1>1 DEF CollectHost, Learn, world
<1>4. step \in Range(Steps) /\ step # "done" /\ step # "configure" /\ step' # "configure" /\ step \notin Put
  BY <1>3, AfterIsNext DEF DoctorInv, StateInv, Put, Net, Api, Keys
<1>5. ASSUME NEW q \in Put
      PROVE  /\ Past(q)' <=> Past(q)
             /\ Past(q) => facts'[q] = facts[q]
  <2>1. Past(q)' <=> Past(q)
    BY <1>3, <1>4, PastGrows, PutsAreSteps
  <2>2. q \notin DOMAIN f
    BY <1>1 DEF Put, Net, Api, Keys
  <2>3. Past(q) => q \in DOMAIN facts
    BY DEF DoctorInv, FactsInv
  <2> QED
    BY <1>3, <2>1, <2>2, <2>3 DEF Recorded
<1>6. SettledInv'
  <2>1. \A x \in {"stack", "vc_stack"} : x \in DOMAIN facts => x \in DOMAIN facts' /\ facts'[x] = facts[x]
    BY <1>1, <1>3 DEF Recorded
  <2>2. Undisturbed' => Undisturbed
    BY <1>3 DEF Undisturbed, Endpoints
  <2> QED
    BY <1>3, <1>4, <2>1, <2>2, SettledStays DEF FoundInv
<1>7. TrueInv'
  BY <1>3, <1>5, TrueStays DEF FoundInv
<1>8. HostInv'
  <2>1. facts'.disk = d /\ facts'.memory = node.memory /\ facts'.load = node.load /\ facts'.cpus = node.cpus
    BY <1>1, <1>3 DEF Recorded
  <2> QED
    BY <1>2, <1>3, <2>1 DEF HostInv
<1> QED
  BY <1>6, <1>7, <1>8 DEF FoundInv

(* Judging, and what goes away, changes no fact.                           *)
LEMMA KnownStays ==
  ASSUME DoctorInv, FoundInv, Judged \/ Trouble \/ UNCHANGED vars
  PROVE  FoundInv'
<1>1. UNCHANGED <<node, given, docker, config, facts, calls>>
  BY DEF Judged, Trouble, vars, world
<1>2. /\ step' = "configure" => step = "configure"
      /\ \A q \in Put \cup {"host"} : Past(q)' <=> Past(q)
  <2>1. CASE Judged
    <3>1. step = "evaluate" /\ step' = After(step) /\ step \in Range(Steps) /\ step \notin Put
      BY <2>1 DEF Judged, DoctorInv, StateInv, Put, Net, Api, Keys
    <3>2. "host" \in Range(Steps) /\ Put \subseteq Range(Steps)
      BY PutsAreSteps, StepsAre DEF Range
    <3> QED
      BY <3>1, <3>2, PastGrows, AfterIsNext
  <2>2. CASE Trouble \/ UNCHANGED vars
    <3>1. step' = step
      BY <2>2 DEF Trouble, vars
    <3> QED
      BY <3>1 DEF Past
  <2> QED
    BY <2>1, <2>2
<1>3. Undisturbed' => Undisturbed /\ UNCHANGED <<up, running>>
  <2>1. CASE Trouble
    <3>1. trouble' = trouble + 1 /\ trouble \in Nat
      <4>1. MAX_TROUBLE \in Nat /\ trouble \in 0 .. MAX_TROUBLE
        BY DoctorAssumption DEF DoctorInv, StateInv
      <4> QED
        BY <2>1, <4>1 DEF Trouble
    <3>2. trouble' # 0
      BY <3>1
    <3> QED
      BY <3>2 DEF Undisturbed
  <2>2. CASE Judged \/ UNCHANGED vars
    BY <2>2 DEF Judged, vars, life, world, Undisturbed, Endpoints
  <2> QED
    BY <2>1, <2>2
<1>4. SettledInv'
  <2>1. CASE step = "configure"
    <3>1. step' = step
      BY <2>1 DEF Judged, Trouble, vars
    <3> QED
      BY <2>1, <3>1 DEF SettledInv
  <2>2. CASE step # "configure"
    BY <1>1, <1>2, <1>3, <2>2, SettledStays DEF FoundInv
  <2> QED
    BY <2>1, <2>2
<1>5. TrueInv'
  <2>1. CASE Undisturbed'
    <3>1. \A q \in Put : Past(q) => facts'[q] = facts[q]
      BY <1>1
    <3>2. trouble = 0
      BY <1>3, <2>1 DEF Undisturbed
    <3>3. \A q \in Put : Past(q)' <=> Past(q)
      BY <1>2
    <3> QED
      BY <1>1, <1>3, <2>1, <3>1, <3>2, <3>3, TrueStays DEF FoundInv
  <2>2. CASE ~Undisturbed'
    BY <2>2 DEF TrueInv
  <2> QED
    BY <2>1, <2>2
<1>6. HostInv'
  <2>1. Past("host")' <=> Past("host")
    BY <1>2
  <2> QED
    BY <1>1, <2>1 DEF FoundInv, HostInv
<1> QED
  BY <1>4, <1>5, <1>6 DEF FoundInv

(* Every step keeps it.                                                    *)
LEMMA FoundStep == DoctorInv /\ FoundInv /\ [Next]_vars => FoundInv'
<1> SUFFICES ASSUME DoctorInv, FoundInv, [Next]_vars PROVE FoundInv'
  OBVIOUS
<1>1. CASE AskHealth
  <2>1. step = "health" /\ step \in Net
    BY <1>1 DEF AskHealth, Net
  <2>2. Ask(step, UrlOf(step), Exactly(step)) /\ Exactly(step) = ApiAnswer(step)
    BY <1>1, <2>1 DEF AskHealth, UrlOf, Exactly
  <2> QED
    BY <2>1, <2>2, ApiAnswerIsOk, AskFinds
<1>2. CASE AskApi
  <2>1. step \in Api /\ step \in Net /\ step # "health" /\ step \in Put
        /\ step \notin {"containers", "vc_containers"}
    BY <1>2 DEF AskApi, Net, Api, Keys, Put
  <2>2. CASE IsUnreachable(facts.health)
    <3>1. /\ facts' = Recorded(Fact(step, Skipped)) /\ step' = After(step)
          /\ UNCHANGED <<world, life, config, calls>>
      BY <1>2, <2>2 DEF AskApi, Skip, Fact
    <3>2. Skipped.is = "skipped"
      BY DEF Skipped
    <3> QED
      BY <2>1, <3>1, <3>2, QuietFinds
  <2>3. CASE ~IsUnreachable(facts.health)
    <3>1. Ask(step, UrlOf(step), Exactly(step)) /\ Exactly(step) = ApiAnswer(step)
      BY <1>2, <2>1, <2>3 DEF AskApi, UrlOf, Exactly
    <3> QED
      BY <2>1, <3>1, ApiAnswerIsOk, AskFinds
  <2> QED
    BY <2>2, <2>3
<1>3. CASE AskBnFamilies
  <2>1. step = "bn_families" /\ step \in Net /\ step # "health" /\ step \notin Api
    BY <1>3 DEF AskBnFamilies, Net, Api
  <2>2. Ask(step, UrlOf(step), Exactly(step)) /\ Exactly(step) = Families(config.bn_metric_url)
    BY <1>3, <2>1 DEF AskBnFamilies, UrlOf, Exactly
  <2> QED
    BY <2>1, <2>2, FamiliesAreOk, AskFinds
<1>4. CASE AskVcFamilies
  <2>1. step = "vc_families" /\ step \in Net /\ step # "health" /\ step \in Put /\ step \notin Api
        /\ step \notin {"containers", "vc_containers"}
    BY <1>4 DEF AskVcFamilies, Net, Api, Put
  <2>2. CASE Shared
    <3>1. /\ facts' = Recorded(Fact(step, facts.bn_families)) /\ step' = After(step)
          /\ UNCHANGED <<world, life, config, calls>>
      BY <1>4, <2>2 DEF AskVcFamilies, Shared, Learn, life
    <3>2. facts.bn_families.is \in {"ok", "failed", "skipped"}
      <4>1. "bn_families" \in Put /\ Past("bn_families")
        BY <2>1, AtsAre DEF Put, Net, Past
      <4> QED
        BY <4>1 DEF DoctorInv, FactsInv
    <3> QED
      BY <2>1, <3>1, <3>2, QuietFinds
  <2>3. CASE ~Shared
    <3>1. Ask(step, UrlOf(step), Exactly(step)) /\ Exactly(step) = Families(config.vc_metric_url)
      BY <1>4, <2>1, <2>3 DEF AskVcFamilies, Shared, UrlOf, Exactly
    <3> QED
      BY <2>1, <3>1, FamiliesAreOk, AskFinds
  <2> QED
    BY <2>2, <2>3
<1>5. CASE AskValidatorClient
  <2>1. step \in Keys /\ step \in Net /\ step # "health" /\ step \in Put /\ step \notin Api
        /\ step \notin {"bn_families", "vc_families"} /\ step \notin {"containers", "vc_containers"}
    BY <1>5 DEF AskValidatorClient, Net, Api, Keys, Put
  <2>2. CASE IsUnreachable(facts.vc_families)
    <3>1. /\ facts' = Recorded(Fact(step, Skipped)) /\ step' = After(step)
          /\ UNCHANGED <<world, life, config, calls>>
      BY <1>5, <2>2 DEF AskValidatorClient, Skip, Fact
    <3>2. Skipped.is = "skipped"
      BY DEF Skipped
    <3> QED
      BY <2>1, <3>1, <3>2, QuietFinds
  <2>3. CASE ~IsUnreachable(facts.vc_families)
    <3>1. Ask(step, UrlOf(step), Exactly(step)) /\ Exactly(step) = Counter(step)
      BY <1>5, <2>1, <2>3 DEF AskValidatorClient, UrlOf, Exactly
    <3> QED
      BY <2>1, <3>1, CounterIsAnswer, AskFinds
  <2> QED
    BY <2>2, <2>3
<1>6. CASE InspectConsensus \/ InspectValidator
  <2>1. step \in {"containers", "vc_containers"} /\ step \in Put /\ step # "health"
    BY <1>6 DEF InspectConsensus, InspectValidator, Put
  <2>2. PICK p \in SeenOf(step) : Learn(Fact(step, p))
    BY <1>6 DEF InspectConsensus, InspectValidator, SeenOf
  <2>3. p.is \in {"ok", "failed", "skipped"}
    <3>1. \A v : Ok(v).is = "ok" /\ Failed(v).is = "failed"
      BY DEF Ok, Failed
    <3>2. Skipped.is = "skipped"
      BY DEF Skipped
    <3>3. \A x : \A s \in Inspection(x) : s.is \in {"ok", "failed", "skipped"}
      BY <3>1 DEF Inspection
    <3> QED
      BY <2>2, <3>1, <3>2, <3>3 DEF SeenOf
  <2>4. /\ facts' = Recorded(Fact(step, p)) /\ step' = After(step)
        /\ UNCHANGED <<world, life, config, calls>>
    BY <1>6, <2>2 DEF Learn, life, InspectConsensus, InspectValidator
  <2> QED
    BY <2>1, <2>2, <2>3, <2>4, QuietFinds
<1> QED
  BY <1>1, <1>2, <1>3, <1>4, <1>5, <1>6, ConfigureSettles, HostFinds, KnownStays DEF Next, Exit

LEMMA FoundInvariant == Spec => []FoundInv
<1>1. Init => FoundInv
  <2>1. ASSUME Init PROVE FoundInv
    <3>1. step = "configure" /\ calls = <<>>
      BY <2>1 DEF Init
    <3>2. At(step) = 1 /\ At("host") = 12
      BY <3>1, AtsAre
    <3>3. \A q \in Put \cup {"host"} : ~Past(q)
      BY <3>2, PutsAreSteps DEF Past
    <3>4. Net \subseteq Put /\ {"containers", "vc_containers"} \subseteq Put
      BY PutsAreSteps DEF Put
    <3> QED
      BY <3>1, <3>3, <3>4 DEF FoundInv, SettledInv, TrueInv, HostInv
  <2> QED
    BY <2>1
<1> QED
  BY <1>1, FoundStep, DoctorInvariant, PTL DEF Spec

(* The ports of the roles are never those of another.                      *)
LEMMA PortsDiffer ==
  ASSUME NEW s \in Stack, NEW v \in Stack
  PROVE  VcMetricUrl(v) \notin {ApiUrl(s), BnMetricUrl(s)} /\ ApiUrl(s) # BnMetricUrl(s)
<1>1. VcMetricUrl(v) \in {8010, 8009, 9101}
  <2>1. v = "bare-metal" \/ v = "eth-docker" \/ v = "rocketpool"
    BY DEF Stack, Docker
  <2> QED
    BY <2>1 DEF VcMetricUrl
<1> QED
  BY <1>1 DEF ApiUrl, BnMetricUrl

(* Docker shows the one container of a role.                               *)
LEMMA ShownIs ==
  ASSUME node \in Nodes, NEW role
  PROVE  /\ Housed(node, role) = {} => Shown(role) = None /\ Name(Shown(role)) = None
         /\ \A s : HousedIn(node, role, s) =>
              /\ Shown(role) \in node.containers /\ Shown(role) # None
              /\ Name(Shown(role)) = s
<1>1. None \notin node.containers /\ node.containers # None
  BY DoctorAssumption
<1>2. Detected(node.containers, role, None) =
        IF Cardinality(Housed(node, role)) = 1 THEN CHOOSE c \in Housed(node, role) : TRUE ELSE None
  BY <1>1 DEF Detected, Housed
<1>4. ASSUME Housed(node, role) = {}
      PROVE  Shown(role) = None
  <2>1. Cardinality(Housed(node, role)) # 1
    BY <1>4, FS_EmptySet
  <2> QED
    BY <1>2, <2>1 DEF Shown
<1>5. ASSUME NEW s, HousedIn(node, role, s)
      PROVE  /\ Shown(role) \in node.containers /\ Shown(role) # None /\ Name(Shown(role)) = s
  <2>1. PICK c \in node.containers : Housed(node, role) = {c} /\ c.stack = s
    BY <1>5 DEF HousedIn
  <2>2. Cardinality(Housed(node, role)) = 1
    BY <2>1, FS_Singleton
  <2>3. (CHOOSE x \in Housed(node, role) : TRUE) = c
    BY <2>1
  <2>4. Shown(role) = c
    BY <1>2, <2>2, <2>3 DEF Shown
  <2> QED
    BY <1>1, <2>1, <2>4 DEF Name
<1> QED
  BY <1>4, <1>5 DEF Name

(* A node that stands as its stack does, and what is settled about it.     *)
Stands(s, v) ==
  /\ s \in Stack /\ v \in Stack
  /\ HousedIn(node, "bn", s) \/ (Housed(node, "bn") = {} /\ s = "bare-metal")
  /\ HousedIn(node, "vc", v) \/ (Housed(node, "vc") = {} /\ v = s)
  /\ node.api.at = ApiUrl(s) /\ node.bn = BnMetricUrl(s) /\ node.vc \in {node.bn, VcMetricUrl(v)}
  /\ DOMAIN node.pages = {node.bn, node.vc} /\ node.pages[node.bn].beacon /\ node.pages[node.vc].validator

LEMMA DefaultsAre ==
  ASSUME DoctorInv, FoundInv, step # "configure", Undisturbed, Unstated, NEW s, NEW v, Stands(s, v)
  PROVE  /\ config.stack = s /\ config.vc_stack = v
         /\ config.api_url = node.api.at /\ config.bn_metric_url = node.bn
         /\ config.vc_metric_url = VcMetricUrl(v)
         /\ config.container # None => config.container \in node.containers
         /\ config.vc_container # None => config.vc_container \in node.containers
         /\ s \in Docker => config.container # None
<1>1. /\ config.container = Shown("bn") /\ config.vc_container = Shown("vc")
      /\ config.stack = OrElse(Name(Shown("bn")), "bare-metal")
      /\ config.vc_stack = OrElse(OrElse(Name(Shown("vc")), Name(Shown("bn"))), "bare-metal")
      /\ config.api_url = ApiUrl(DefaultStack(config.stack))
      /\ config.bn_metric_url = BnMetricUrl(DefaultStack(config.stack))
      /\ config.vc_metric_url = VcMetricUrl(DefaultStack(config.vc_stack))
  BY DEF FoundInv, SettledInv
<1>2. node \in Nodes /\ None \notin Stack /\ s # None /\ v # None
  BY DoctorAssumption DEF DoctorInv, StateInv, Stands
<1>3. \/ Shown("bn") \in node.containers /\ Name(Shown("bn")) = s
      \/ Shown("bn") = None /\ Name(Shown("bn")) = None /\ s = "bare-metal"
  BY <1>2, ShownIs DEF Stands
<1>4. \/ Shown("vc") \in node.containers /\ Name(Shown("vc")) = v
      \/ Shown("vc") = None /\ Name(Shown("vc")) = None /\ v = s
  BY <1>2, ShownIs DEF Stands
<1>5. config.stack = s
  BY <1>1, <1>2, <1>3 DEF OrElse
<1>6. config.vc_stack = v
  BY <1>1, <1>2, <1>3, <1>4 DEF OrElse
<1>7. DefaultStack(s) = s /\ DefaultStack(v) = v
  BY <1>2 DEF DefaultStack, OrElse
<1>8. s \in Docker => s # "bare-metal"
  BY DEF Docker
<1>9. None \notin node.containers
  BY <1>2, DoctorAssumption
<1> QED
  BY <1>1, <1>3, <1>4, <1>5, <1>6, <1>7, <1>8, <1>9 DEF Stands

(* At the end everything that was asked has the answer there is.           *)
LEMMA AnsweredTruly ==
  ASSUME DoctorInv, FoundInv, Done, Undisturbed, NEW q \in Net, Called(q)
  PROVE  facts[q] = Reply(UrlOf(q), Exactly(q))
<1>1. Past(q)
  BY DoneKnowsAll, PutsAreSteps
<1> QED
  BY <1>1 DEF FoundInv, TrueInv

(* What a page shows, when it is there.                                    *)
LEMMA FamiliesAre ==
  ASSUME node \in Nodes, NEW url \in DOMAIN node.pages
  PROVE  Families(url) = Ok([beacon |-> node.pages[url].beacon, validator |-> node.pages[url].validator,
                             counts |-> node.pages[url].active # None])
<1>1. Page(url) = node.pages[url] /\ node.pages[url] # None
  BY DoctorAssumption DEF Page
<1> QED
  BY <1>1 DEF Families


(* One process in both roles: the layout row says so.                      *)
LEMMA SharedIsSaid ==
  ASSUME DoctorInv, FoundInv, Done, Undisturbed, Unstated, NEW s, NEW v, Stands(s, v),
         node.vc # VcMetricUrl(v)
  PROVE  AllInOne \in findings
<1>1. node \in Nodes /\ step # "configure" /\ node.vc = node.bn /\ up = {node.api.at} \cup {node.bn}
  BY DEF DoctorInv, StateInv, Stands, Undisturbed, Endpoints, Done
<1>2. /\ config.bn_metric_url = node.bn /\ config.vc_metric_url = VcMetricUrl(v)
      /\ VcMetricUrl(v) \notin up /\ node.bn # VcMetricUrl(v)
  BY <1>1, DefaultsAre, PortsDiffer DEF Stands
<1>3. Called("bn_families") /\ Called("vc_families") /\ {"bn_families", "vc_families"} \subseteq Net
  BY <1>2, DoneKnowsAll DEF DoctorInv, SparedInv, Shared, Put, Net
<1>4. facts.bn_families = Families(node.bn)
  <2>1. UrlOf("bn_families") = node.bn /\ Exactly("bn_families") = Families(node.bn)
    BY <1>2 DEF UrlOf, Exactly, Api
  <2> QED
    BY <1>1, <1>3, <2>1, AnsweredTruly DEF Reply
<1>5. facts.vc_families = Failed("unreachable")
  <2>1. UrlOf("vc_families") = VcMetricUrl(v)
    BY <1>2 DEF UrlOf, Api
  <2> QED
    BY <1>2, <1>3, <2>1, AnsweredTruly DEF Reply
<1>6. /\ IsOk(facts.bn_families) /\ facts.bn_families.value.validator /\ facts.bn_families.value.beacon
      /\ IsUnreachable(facts.vc_families)
  <2>1. IsUnreachable(Failed("unreachable"))
    BY DEF IsUnreachable, Failed
  <2>2. node.bn \in DOMAIN node.pages /\ node.pages[node.bn].validator /\ node.pages[node.bn].beacon
    BY <1>1 DEF Stands
  <2> DEFINE b == [beacon |-> node.pages[node.bn].beacon, validator |-> node.pages[node.bn].validator,
                   counts |-> node.pages[node.bn].active # None]
  <2>3. b.beacon /\ b.validator
    BY <2>2
  <2>4. facts.bn_families = Ok(b)
    BY <1>1, <1>4, <2>2, FamiliesAre
  <2> HIDE DEF b
  <2> QED
    BY <1>5, <2>1, <2>3, <2>4, OkIsAnswer
<1>7. AllInOne \in CheckMetricsLayout(facts)
  BY <1>6 DEF CheckMetricsLayout
<1> QED
  BY <1>7, DoneKnowsAll DEF Evaluate

(* What passes.                                                            *)
AllPass(rows) == \A r \in rows : r.status = "pass"

LEMMA PassIs ==
  /\ \A name : AllPass(Learned(name, "pass"))
  /\ AllPass({})
  /\ \A name, p, otherwise : IsOk(p) => AllPass(Judge(name, p, "pass", otherwise))
BY DEF AllPass, Learned, Row, Judge

(* Facts about a node and a host that are well.                            *)
Fine(cs) == \A c \in cs : c.running /\ c.restarts = 0

ApiFactsAreGood(f) ==
  /\ f.health = Ok("ready")
  /\ \E a : /\ f.syncing = Ok(a.syncing) /\ f.finality = Ok(a.finality) /\ f.peers = Ok(a.peers)
            /\ ApiIsWell(a)

MetricsFactsAreGood(f) ==
  /\ IsOk(f.bn_families) /\ f.bn_families.value.beacon
  /\ ~f.bn_families.value.validator /\ ~f.bn_families.value.counts
  /\ IsOk(f.vc_families) /\ f.vc_families.value.validator
  /\ \A q \in Keys : IsOk(f[q]) /\ f[q].value \in Nat \ {0}

ContainerFactsAreGood(f) ==
  /\ f.containers = Skipped \/ (\E cs : f.containers = Ok(cs) /\ Fine(cs))
  /\ f.vc_containers = Skipped \/ (\E cs : f.vc_containers = Ok(cs) /\ Fine(cs))
  /\ StackHasContainers(f.stack) => \E cs : f.containers = Ok(cs) /\ cs # {}

HostFactsAreGood(f) ==
  /\ f.disk # None => f.disk.free \in Nat /\ f.disk.free >= DISK_WARN_BELOW
  /\ f.memory # None => f.memory \in Nat /\ f.memory >= MEM_WARN_BELOW
  /\ None \notin {f.load, f.cpus} => /\ f.load \in Nat /\ f.cpus \in Nat
                                     /\ f.load <= f.cpus * LOAD_WARN_ABOVE_PER_CPU

LEMMA ApiPasses ==
  ASSUME NEW f, ApiFactsAreGood(f)
  PROVE  AllPass(CheckBeaconApi(f) \cup CheckSyncing(f) \cup CheckFinality(f) \cup CheckPeers(f))
<1>1. PICK a : /\ f.syncing = Ok(a.syncing) /\ f.finality = Ok(a.finality) /\ f.peers = Ok(a.peers)
               /\ ApiIsWell(a)
  BY DEF ApiFactsAreGood
<1>2. /\ IsOk(f.health) /\ f.health.value = "ready"
      /\ IsOk(f.syncing) /\ f.syncing.value = a.syncing
      /\ IsOk(f.finality) /\ f.finality.value = a.finality
      /\ IsOk(f.peers) /\ f.peers.value = a.peers
  BY <1>1, OkIsAnswer DEF ApiFactsAreGood
<1>3. AllPass(CheckBeaconApi(f))
  <2>1. CheckBeaconApi(f) = Judge("beacon api", f.health, "pass", "fail")
    BY <1>2 DEF CheckBeaconApi
  <2> QED
    BY <1>2, <2>1, PassIs
<1>4. AllPass(CheckSyncing(f))
  <2>1. CheckSyncing(f) = Judge("sync status", f.syncing, "pass", "warn")
                          \cup Judge("execution layer", f.syncing, "pass", "warn")
                          \cup Judge("optimistic head", f.syncing, "pass", "warn")
    BY <1>1, <1>2 DEF CheckSyncing, ApiIsWell
  <2>2. /\ AllPass(Judge("sync status", f.syncing, "pass", "warn"))
        /\ AllPass(Judge("execution layer", f.syncing, "pass", "warn"))
        /\ AllPass(Judge("optimistic head", f.syncing, "pass", "warn"))
    BY <1>2, PassIs
  <2> QED
    BY <2>1, <2>2 DEF AllPass
<1>5. AllPass(CheckFinality(f))
  <2> DEFINE lag == Monus(a.syncing.head_slot \div SLOTS_PER_EPOCH, a.finality)
  <2>1. a.syncing.head_slot \in Nat /\ a.finality \in Nat /\ lag <= FINALITY_WARN_ABOVE
    BY <1>1 DEF ApiIsWell
  <2>2. SLOTS_PER_EPOCH \in Nat \ {0} /\ FINALITY_WARN_ABOVE \in Nat /\ FINALITY_FAIL_ABOVE \in Nat
        /\ FINALITY_WARN_ABOVE <= FINALITY_FAIL_ABOVE /\ NaN \notin Nat
    BY JudgementAssumption
  <2>3. lag \in Nat
    <3>1. a.syncing.head_slot \div SLOTS_PER_EPOCH \in Int
      BY <2>1, <2>2
    <3> DEFINE e == a.syncing.head_slot \div SLOTS_PER_EPOCH
    <3> HIDE DEF e
    <3>2. e \in Int
      BY <3>1 DEF e
    <3>3. Monus(e, a.finality) \in Nat
      BY <2>1, <3>2 DEF Monus
    <3> QED
      BY <3>3 DEF e
  <2>4. LagStatus(a.syncing.head_slot, a.finality)
          = IF lag > FINALITY_FAIL_ABOVE THEN "fail" ELSE IF lag > FINALITY_WARN_ABOVE THEN "warn" ELSE "pass"
    BY DEF LagStatus
  <2> HIDE DEF lag
  <2>5. LagStatus(a.syncing.head_slot, a.finality) = "pass"
    BY <2>1, <2>2, <2>3, <2>4
  <2>6. CheckFinality(f) = Learned("finality lag", "pass")
    BY <1>2, <2>1, <2>2, <2>5 DEF CheckFinality
  <2> QED
    BY <2>6, PassIs
<1>6. AllPass(CheckPeers(f))
  <2>1. a.peers \in Nat /\ a.peers # 0 /\ a.peers >= PEERS_WARN_BELOW
    BY <1>1 DEF ApiIsWell
  <2>2. PEERS_WARN_BELOW \in Nat
    BY JudgementAssumption
  <2>3. ~(a.peers = 0) /\ ~(a.peers < PEERS_WARN_BELOW)
    BY <2>1, <2>2
  <2>4. CheckPeers(f) = Judge("peer count", f.peers, "pass", "warn")
    BY <1>2, <2>3 DEF CheckPeers
  <2> QED
    BY <1>2, <2>4, PassIs
<1> QED
  BY <1>3, <1>4, <1>5, <1>6 DEF AllPass

LEMMA MetricsPass ==
  ASSUME NEW f, MetricsFactsAreGood(f)
  PROVE  AllPass(CheckMetrics(f) \cup CheckMetricsLayout(f) \cup CheckValidators(f) \cup CheckDuties(f))
<1>1. CheckMetricsLayout(f) = {}
  BY DEF CheckMetricsLayout, MetricsFactsAreGood
<1>2. /\ CheckMetrics(f) = Judge("beacon node metrics", f.bn_families, "pass", "fail")
                           \cup Judge("validator metrics", f.vc_families, "pass", "fail")
  BY DEF CheckMetrics, MetricsFactsAreGood
<1>3. /\ IsOk(f.duties) /\ f.duties.value \in Nat \ {0}
      /\ IsOk(f.validators) /\ f.validators.value \in Nat \ {0}
  BY DEF MetricsFactsAreGood, Keys
<1>4. f.duties.value > 0 /\ f.validators.value > 0
  BY <1>3
<1>5. /\ CheckDuties(f) = Judge("duties published", f.duties, "pass", "warn")
      /\ CheckValidators(f) = Judge("validator keys", f.validators, "pass", "warn")
  BY <1>4 DEF CheckDuties, CheckValidators
<1>6. /\ AllPass(Judge("beacon node metrics", f.bn_families, "pass", "fail"))
      /\ AllPass(Judge("validator metrics", f.vc_families, "pass", "fail"))
      /\ AllPass(Judge("duties published", f.duties, "pass", "warn"))
      /\ AllPass(Judge("validator keys", f.validators, "pass", "warn"))
  BY <1>3, PassIs DEF MetricsFactsAreGood
<1> QED
  BY <1>1, <1>2, <1>5, <1>6 DEF AllPass

LEMMA ContainersPass ==
  ASSUME NEW f, ContainerFactsAreGood(f)
  PROVE  AllPass(CheckConsensusContainer(f) \cup CheckValidatorContainer(f) \cup CheckContainerRestarts(f))
<1>1. \A name, cs : Fine(cs) => AllPass(UpOrDown(name, cs))
  <2> TAKE name, cs
  <2>1. Fine(cs) => UpOrDown(name, cs) = Learned(name, "pass")
    BY DEF Fine, UpOrDown
  <2> QED
    BY <2>1, PassIs
<1>2. \A cs : Ok(cs).is = "ok" /\ Ok(cs).value = cs /\ IsOk(Ok(cs))
  BY DEF Ok, IsOk
<1>3. Skipped.is = "skipped" /\ ~IsOk(Skipped)
  BY DEF Skipped, IsOk
<1>4. AllPass(CheckConsensusContainer(f))
  <2>1. CASE ~StackHasContainers(f.stack)
    BY <2>1, PassIs DEF CheckConsensusContainer
  <2>2. CASE StackHasContainers(f.stack)
    <3>1. PICK cs : f.containers = Ok(cs) /\ cs # {}
      BY <2>2 DEF ContainerFactsAreGood
    <3>2. Fine(cs)
      <4>1. f.containers # Skipped
        BY <1>2, <1>3, <3>1
      <4>2. PICK ds : f.containers = Ok(ds) /\ Fine(ds)
        BY <4>1 DEF ContainerFactsAreGood
      <4>3. ds = cs
        <5>1. f.containers.value = ds
          BY <1>2, <4>2
        <5>2. f.containers.value = cs
          BY <1>2, <3>1
        <5> QED
          BY <5>1, <5>2
      <4> QED
        BY <4>2, <4>3
    <3>3. CheckConsensusContainer(f) = UpOrDown("consensus container", cs)
      BY <1>2, <2>2, <3>1 DEF CheckConsensusContainer
    <3> QED
      BY <1>1, <3>2, <3>3
  <2> QED
    BY <2>1, <2>2
<1>5. AllPass(CheckValidatorContainer(f))
  <2>1. CASE f.vc_containers = Skipped
    BY <1>3, <2>1, PassIs DEF CheckValidatorContainer
  <2>2. CASE \E cs : f.vc_containers = Ok(cs) /\ Fine(cs)
    <3>1. PICK cs : f.vc_containers = Ok(cs) /\ Fine(cs)
      BY <2>2
    <3>2. f.vc_containers.is = "ok" /\ f.vc_containers.value = cs
      BY <1>2, <3>1
    <3>3. CheckValidatorContainer(f) \in {{}, UpOrDown("validator container", cs)}
      BY <3>2 DEF CheckValidatorContainer
    <3> QED
      BY <1>1, <3>1, <3>3, PassIs
  <2> QED
    BY <2>1, <2>2 DEF ContainerFactsAreGood
<1>6. AllPass(CheckContainerRestarts(f))
  <2> DEFINE counted == Inspected(f.stack, f.containers) \cup Inspected(f.vc_stack, f.vc_containers)
  <2>1. \A stack : Fine(Inspected(stack, Skipped))
    BY <1>3 DEF Inspected, Fine
  <2>2. \A stack, cs : Fine(cs) => Fine(Inspected(stack, Ok(cs)))
    BY <1>2 DEF Inspected, Fine
  <2>3. Fine(Inspected(f.stack, f.containers)) /\ Fine(Inspected(f.vc_stack, f.vc_containers))
    BY <2>1, <2>2 DEF ContainerFactsAreGood
  <2>4. \A c \in counted : c.restarts = 0
    BY <2>3 DEF Fine
  <2>5. counted # {} => CheckContainerRestarts(f) =
          Learned("container restarts",
            IF \E c \in counted : c.restarts >= RESTARTS_FAIL_AT THEN "fail"
            ELSE IF \E c \in counted : c.restarts > 0 THEN "warn" ELSE "pass")
    BY DEF CheckContainerRestarts
  <2>6. counted = {} => CheckContainerRestarts(f) = {}
    BY DEF CheckContainerRestarts
  <2> HIDE DEF counted
  <2>7. counted # {} => CheckContainerRestarts(f) = Learned("container restarts", "pass")
    <3>1. RESTARTS_FAIL_AT \in Nat \ {0}
      BY JudgementAssumption
    <3>2. ~(\E c \in counted : c.restarts >= RESTARTS_FAIL_AT) /\ ~(\E c \in counted : c.restarts > 0)
      BY <2>4, <3>1
    <3> QED
      BY <2>5, <3>2
  <2> QED
    BY <2>6, <2>7, PassIs
<1> QED
  BY <1>4, <1>5, <1>6 DEF AllPass

LEMMA HostPasses ==
  ASSUME NEW f, HostFactsAreGood(f)
  PROVE  AllPass(CheckHost(f))
<1> DEFINE disk == IF f.disk = None THEN {}
                   ELSE Learned("disk free", Below(f.disk.free, DISK_WARN_BELOW, DISK_FAIL_BELOW))
           memory == IF f.memory = None THEN {} ELSE Learned("memory available", Below(f.memory, MEM_WARN_BELOW, 0))
           load == IF f.load = None \/ f.cpus = None THEN {}
                   ELSE Learned("load average",
                          IF f.load > f.cpus * LOAD_FAIL_ABOVE_PER_CPU THEN "fail"
                          ELSE IF f.load > f.cpus * LOAD_WARN_ABOVE_PER_CPU THEN "warn" ELSE "pass")
<1>1. CheckHost(f) = disk \cup memory \cup load
  BY DEF CheckHost
<1>2. AllPass(disk)
  <2>1. f.disk # None => Below(f.disk.free, DISK_WARN_BELOW, DISK_FAIL_BELOW) = "pass"
    BY JudgementAssumption DEF HostFactsAreGood, Below
  <2> QED
    BY <2>1, PassIs
<1>3. AllPass(memory)
  <2>1. f.memory # None => Below(f.memory, MEM_WARN_BELOW, 0) = "pass"
    BY JudgementAssumption DEF HostFactsAreGood, Below
  <2> QED
    BY <2>1, PassIs
<1>4. AllPass(load)
  <2>1. CASE f.load = None \/ f.cpus = None
    BY <2>1, PassIs
  <2>2. CASE ~(f.load = None \/ f.cpus = None)
    <3> DEFINE w == f.cpus * LOAD_WARN_ABOVE_PER_CPU
               x == f.cpus * LOAD_FAIL_ABOVE_PER_CPU
    <3>1. /\ f.load \in Nat /\ f.cpus \in Nat /\ f.load <= w
          /\ LOAD_WARN_ABOVE_PER_CPU \in Nat /\ LOAD_FAIL_ABOVE_PER_CPU \in Nat
          /\ LOAD_WARN_ABOVE_PER_CPU <= LOAD_FAIL_ABOVE_PER_CPU
      BY <2>2, JudgementAssumption DEF HostFactsAreGood
    <3>2. w <= x /\ w \in Nat /\ x \in Nat
      BY <3>1
    <3>3. load = Learned("load average", IF f.load > x THEN "fail" ELSE IF f.load > w THEN "warn" ELSE "pass")
      BY <2>2
    <3> HIDE DEF w, x, load
    <3>4. ~(f.load > x) /\ ~(f.load > w)
      BY <3>1, <3>2
    <3>5. load = Learned("load average", "pass")
      BY <3>3, <3>4
    <3> QED
      BY <3>5, PassIs
  <2> QED
    BY <2>1, <2>2
<1> HIDE DEF disk, memory, load
<1> QED
  BY <1>1, <1>2, <1>3, <1>4 DEF AllPass

(* The answers of a node that is well are good.                            *)
LEMMA WellIsGood ==
  ASSUME DoctorInv, FoundInv, Done, Undisturbed, Unstated, NEW s, NEW v, Stands(s, v),
         IsWell(node), node.bn # node.vc
  PROVE  /\ ApiFactsAreGood(facts) /\ MetricsFactsAreGood(facts)
         /\ ContainerFactsAreGood(facts) /\ HostFactsAreGood(facts)
<1>1. node \in Nodes /\ step # "configure" /\ up = {node.api.at} \cup {node.bn, node.vc}
      /\ running = node.containers
  BY DEF DoctorInv, StateInv, Stands, Undisturbed, Endpoints, Done
<1>2. /\ config.api_url = node.api.at /\ config.bn_metric_url = node.bn /\ config.vc_metric_url = node.vc
      /\ config.stack = s /\ s \in Stack
      /\ config.container # None => config.container \in node.containers
      /\ config.vc_container # None => config.vc_container \in node.containers
      /\ s \in Docker => config.container # None
  BY <1>1, DefaultsAre DEF Stands
<1>3. /\ \A q \in Put : Past(q) /\ Net \subseteq Put /\ Keys \subseteq Net /\ Api \subseteq Net
      /\ {"health", "bn_families", "vc_families"} \subseteq Net
      /\ {"containers", "vc_containers"} \subseteq Put
  BY DoneKnowsAll, PutsAreSteps DEF Net, Put
<1>4. facts.health = Ok("ready")
  <2>1. Called("health") /\ UrlOf("health") = node.api.at /\ Exactly("health") = ApiAnswer("health")
    BY <1>2, <1>3 DEF DoctorInv, SparedInv, UrlOf, Exactly
  <2>2. ApiAnswer("health") = Ok("ready")
    BY <1>2 DEF ApiAnswer, Said, IsWell, ApiIsWell
  <2> QED
    BY <1>1, <1>3, <2>1, <2>2, AnsweredTruly DEF Reply
<1>5. ASSUME NEW q \in Api, node.api[q] # None
      PROVE  facts[q] = Ok(node.api[q])
  <2>1. ~IsUnreachable(facts.health)
    BY <1>4, OkIsAnswer
  <2>2. Called(q)
    BY <1>3, <1>5, <2>1 DEF DoctorInv, SparedInv
  <2>3. UrlOf(q) = node.api.at /\ Exactly(q) = ApiAnswer(q)
    BY <1>2 DEF UrlOf, Exactly
  <2>4. ApiAnswer(q) = Ok(node.api[q])
    BY <1>2, <1>5 DEF ApiAnswer, Said
  <2> QED
    BY <1>1, <1>3, <2>2, <2>3, <2>4, AnsweredTruly DEF Reply
<1>6. ApiFactsAreGood(facts)
  <2>1. /\ node.api.syncing # None /\ node.api.finality # None /\ node.api.peers # None
        /\ ApiIsWell(node.api)
    BY DEF IsWell, ApiIsWell
  <2>2. /\ facts.syncing = Ok(node.api.syncing) /\ facts.finality = Ok(node.api.finality)
        /\ facts.peers = Ok(node.api.peers)
    BY <1>5, <2>1 DEF Api
  <2> QED
    BY <1>4, <2>1, <2>2 DEF ApiFactsAreGood
<1> DEFINE page(url) == [beacon |-> node.pages[url].beacon, validator |-> node.pages[url].validator,
                         counts |-> node.pages[url].active # None]
<1>7. facts.bn_families = Ok(page(node.bn)) /\ facts.vc_families = Ok(page(node.vc))
  <2>1. /\ UrlOf("bn_families") = node.bn /\ Exactly("bn_families") = Families(node.bn)
        /\ UrlOf("vc_families") = node.vc /\ Exactly("vc_families") = Families(node.vc)
    BY <1>2 DEF UrlOf, Exactly, Api
  <2>2. Called("bn_families") /\ Called("vc_families")
    BY <1>2, <1>3 DEF DoctorInv, SparedInv, Shared
  <2>3. facts.bn_families = Families(node.bn) /\ facts.vc_families = Families(node.vc)
    BY <1>1, <1>3, <2>1, <2>2, AnsweredTruly DEF Reply
  <2>4. node.bn \in DOMAIN node.pages /\ node.vc \in DOMAIN node.pages
    BY DEF Stands
  <2> QED
    BY <1>1, <2>3, <2>4, FamiliesAre
<1>8. /\ page(node.bn).beacon /\ ~page(node.bn).validator /\ ~page(node.bn).counts
      /\ page(node.vc).validator
  BY DEF Stands, IsWell
<1> HIDE DEF page
<1>9. ASSUME NEW q \in Keys
      PROVE  IsOk(facts[q]) /\ facts[q].value \in Nat \ {0}
  <2> DEFINE n == IF q = "duties" THEN node.pages[node.vc].published ELSE node.pages[node.vc].active
  <2>1. Called(q)
    <3>1. ~IsUnreachable(facts.vc_families)
      BY <1>7, OkIsAnswer
    <3> QED
      BY <1>3, <3>1 DEF DoctorInv, SparedInv
  <2>2. UrlOf(q) = node.vc /\ Exactly(q) = Counter(q)
    BY <1>2 DEF UrlOf, Exactly, Api, Keys
  <2>3. Page(config.vc_metric_url) = node.pages[node.vc] /\ node.pages[node.vc] # None
    BY <1>1, <1>2, DoctorAssumption DEF Page, Stands
  <2>4. n # None /\ n \in Nat \ {0}
    BY DEF IsWell
  <2>5. Counter(q) = IF n = None THEN Failed("no such metric") ELSE Ok(n)
    BY <2>3 DEF Counter
  <2> HIDE DEF n
  <2>6. facts[q] = Ok(n)
    BY <1>1, <1>3, <2>1, <2>2, <2>4, <2>5, AnsweredTruly DEF Reply
  <2> QED
    BY <2>4, <2>6, OkIsAnswer
<1>10. MetricsFactsAreGood(facts)
  BY <1>7, <1>8, <1>9, OkIsAnswer DEF MetricsFactsAreGood
<1>11. ASSUME NEW c \in node.containers, NEW p \in Inspection(c)
       PROVE  \E cs : p = Ok(cs) /\ Fine(cs) /\ cs # {}
  <2> DEFINE cs == {[running |-> c \in running, restarts |-> c.restarts, mount |-> c.mount]}
  <2>1. p = Ok(cs)
    BY <1>1, <1>11 DEF Inspection
  <2>2. c \in running /\ c.restarts = 0
    BY <1>1, <1>11 DEF IsWell
  <2> DEFINE seen == [running |-> c \in running, restarts |-> c.restarts, mount |-> c.mount]
  <2>3. seen.running /\ seen.restarts = 0 /\ cs = {seen}
    BY <2>2
  <2> HIDE DEF cs, seen
  <2>4. Fine(cs) /\ cs # {}
    BY <2>3 DEF Fine
  <2> QED
    BY <2>1, <2>4
<1>12. facts.containers \in SeenOf("containers") /\ facts.vc_containers \in SeenOf("vc_containers")
  BY <1>3 DEF FoundInv, TrueInv
<1>13. ContainerFactsAreGood(facts)
  <2>1. facts.stack = s
    BY <1>1, <1>2 DEF FoundInv, SettledInv
  <2>2. /\ StackHasContainers(s) => \E cs : facts.containers = Ok(cs) /\ Fine(cs) /\ cs # {}
        /\ ~StackHasContainers(s) => facts.containers = Skipped
    <3>1. CASE StackHasContainers(s)
      <4>1. config.container # None /\ config.container \in node.containers
        BY <1>2, <3>1 DEF StackHasContainers
      <4>2. facts.containers \in Inspection(config.container)
        BY <1>2, <1>12, <3>1, <4>1 DEF SeenOf
      <4> QED
        BY <1>11, <3>1, <4>1, <4>2
    <3>2. CASE ~StackHasContainers(s)
      BY <1>2, <1>12, <3>2 DEF SeenOf
    <3> QED
      BY <3>1, <3>2
  <2>3. facts.vc_containers = Skipped \/ (\E cs : facts.vc_containers = Ok(cs) /\ Fine(cs))
    <3>1. CASE config.vc_container = None
      BY <1>12, <3>1 DEF SeenOf
    <3>2. CASE config.vc_container # None
      <4>1. facts.vc_containers \in Inspection(config.vc_container)
        BY <1>12, <3>2 DEF SeenOf
      <4> QED
        BY <1>2, <1>11, <3>2, <4>1
    <3> QED
      BY <3>1, <3>2
  <2> QED
    BY <2>1, <2>2, <2>3 DEF ContainerFactsAreGood
<1>14. HostFactsAreGood(facts)
  <2>1. Past("host")
    BY AtsAre DEF Done, Past
  <2>2. /\ facts.disk # None => \E p \in DOMAIN node.free : facts.disk.free = node.free[p]
        /\ facts.memory = node.memory /\ facts.load = node.load /\ facts.cpus = node.cpus
    BY <2>1 DEF FoundInv, HostInv
  <2> QED
    BY <2>2 DEF HostFactsAreGood, IsWell
<1> QED
  BY <1>6, <1>10, <1>13, <1>14

(* Whatever nodes there are: with nothing stated doctor finds the one that *)
(* is deployed as its stack does, and finds nothing wrong with it if it is *)
(* well (doctor_probe_config, probe, evaluate).                            *)
THEOREM DefaultsFindIt == Spec => []DefaultsFindTheNode
<1>1. DoctorInv /\ FoundInv => DefaultsFindTheNode
  <2> SUFFICES ASSUME DoctorInv, FoundInv, Done, Undisturbed, Unstated, AsDeployed(node)
        PROVE  /\ config.api_url = node.api.at /\ config.bn_metric_url = node.bn
               /\ config.vc_metric_url = node.vc \/ AllInOne \in findings
               /\ IsWell(node) /\ node.bn # node.vc => \A r \in findings : r.status = "pass"
    BY DEF DefaultsFindTheNode
  <2>1. PICK s, v : Stands(s, v)
    BY Zenon DEF AsDeployed, Stands
  <2>2. step # "configure"
    BY DEF Done
  <2>3. /\ config.api_url = node.api.at /\ config.bn_metric_url = node.bn
        /\ config.vc_metric_url = VcMetricUrl(v)
    BY <2>1, <2>2, DefaultsAre
  <2>4. VcMetricUrl(v) # node.vc => AllInOne \in findings
    BY <2>1, SharedIsSaid
  <2>5. ASSUME IsWell(node), node.bn # node.vc
        PROVE  \A r \in findings : r.status = "pass"
    <3>1. /\ ApiFactsAreGood(facts) /\ MetricsFactsAreGood(facts)
          /\ ContainerFactsAreGood(facts) /\ HostFactsAreGood(facts)
      BY <2>1, <2>5, WellIsGood
    <3>2. /\ AllPass(CheckBeaconApi(facts) \cup CheckSyncing(facts) \cup CheckFinality(facts)
                      \cup CheckPeers(facts))
          /\ AllPass(CheckMetrics(facts) \cup CheckMetricsLayout(facts) \cup CheckValidators(facts)
                      \cup CheckDuties(facts))
          /\ AllPass(CheckConsensusContainer(facts) \cup CheckValidatorContainer(facts)
                      \cup CheckContainerRestarts(facts))
          /\ AllPass(CheckHost(facts))
      BY <3>1, ApiPasses, MetricsPass, ContainersPass, HostPasses
    <3>3. findings = Evaluate(facts)
      BY DoneKnowsAll
    <3> QED
      BY <3>2, <3>3 DEF Evaluate, AllPass
  <2> QED
    BY <2>3, <2>4, <2>5
<1> QED
  BY <1>1, DoctorInvariant, FoundInvariant, PTL

(* What doctor fills in for itself and what it advises is of the node that *)
(* runs, for any node and host (doctor_probe_config, probe, evaluate).     *)
THEOREM DefaultsAlwaysFit == Spec => []DefaultsFitTheNode
BY DefaultsFindIt, DiskIsJudgedRight, AdviceWorks, PTL DEF DefaultsFitTheNode

=============================================================================
