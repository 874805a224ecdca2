--------------------------- MODULE CommandsProofs ---------------------------
(***************************************************************************)
(* What is proved of Commands and of the ladders of Settings: for any      *)
(* hosts, invocations, bodies and answers, a command acts on its           *)
(* operator's settings, the node is told what was seen, and what is said   *)
(* at the end is so.                                                       *)
(***************************************************************************)
EXTENDS Commands, FiniteSetTheorems, SequenceTheorems, TLAPS

(* The config file is read first, is the operator's own or there is no     *)
(* going on, and what was resolved from it still is what it says.          *)
SettingsInv ==
  /\ host \in Hosts /\ given \in Invocations
  /\ step \in {"config", "target", "confirm", "resolve", "ask", "failed", "left"}
  /\ config # None => TypedRungs(config) /\ ~Broken(Owned) /\ step # "config" /\ failure # "config"
  /\ config = None =>
       /\ url = <<>> /\ asked = <<>> /\ level = None /\ out = <<>> /\ hint = None
       /\ \/ step = "config" /\ failure = None /\ exit = None
          \/ step = "left" /\ failure = "config" /\ exit = "failure" /\ Broken(Owned)
  /\ url = <<>> => stack = None
  /\ url # <<>> => stack = StackInForce /\ url = Endpoints(stack)
  /\ step \in {"target", "confirm", "resolve"} => url = <<>>
  /\ step \in {"ask", "failed"} => url # <<>>
  /\ step = "target" => given.command = "log-level"

(* A request that was settled on is the typed one, or one that was shown,  *)
(* or one that was not to be shown; and the node is told nothing else.     *)
SpecInv ==
  /\ web \in Bodies \cup {NoBody}
  /\ {spec, previewed, level} \subseteq Specs \cup {None}
  /\ given.command # "log-level" \/ step \in {"config", "target"} => spec = None
  /\ spec # None =>
       IF given.target.scheme = "none"
       THEN spec = [level |-> given.target.level, filter |-> Filters(given.filters)]
       ELSE given.yes \/ previewed = spec
  /\ level \in {None, spec}
  /\ step = "confirm" => previewed # None

(* What was asked so far is the first of what is to be scraped, no place   *)
(* twice, and only a page that was read has a version.                     *)
AskInv ==
  /\ asked \in Seq(Result)
  /\ Len(asked) <= Len(url)
  /\ asked # <<>> => Len(asked) <= Len(Scrapes)
  /\ \A k \in DOMAIN asked : /\ asked[k].at = Scrapes[k]
                             /\ asked[k].has # {} => asked[k].answer = "ok"
  /\ Version => \A p, q \in DOMAIN asked : asked[p].at = asked[q].at => p = q

(* Nothing is said before the end, and then what the last request brought, *)
(* or the rows of `version' once all was scraped.                          *)
EndInv ==
  /\ step # "left" => out = <<>> /\ hint = None /\ exit = None
  /\ step \notin {"failed", "left"} => failure = None /\ level = None
  /\ step = "failed" =>
       /\ failure \in Failure \ {"config", "spec"}
       /\ failure = "unreachable" => asked # <<>> /\ asked[Len(asked)].answer = "unreachable"
       /\ Version => failure = "malformed" /\ NoVersion /\ Rest = <<>>
  /\ hint # None =>
       /\ stack = None /\ url # <<>> /\ ~Version
       /\ asked # <<>> /\ asked[Len(asked)].answer = "unreachable"
       /\ hint \in Docker /\ [role |-> "bn", stack |-> hint] \in host.containers
  /\ \/ out \in {<<>>, <<"report">>}
     \/ Version /\ \A k \in 1..2 : out[k].says \in Said
  /\ failure \in Failure \cup {None} /\ exit \in {None, "success", "failure"}
  /\ VersionIsConsistent /\ OutputTellsTheOutcome

CommandsInv == SettingsInv /\ SpecInv /\ AskInv /\ EndInv

-----------------------------------------------------------------------------
(* A ladder yields its first rung that says something (Option::or).        *)
LEMMA FirstOfIs ==
  ASSUME NEW n \in Nat, NEW rungs, DOMAIN rungs = 1..n, NEW k \in 1..n,
         rungs[k] # None, \A j \in 1..n : j < k => rungs[j] = None
  PROVE  FirstOf(rungs) = rungs[k]
<1> DEFINE stated == {j \in DOMAIN rungs : rungs[j] # None}
<1>1. k \in stated /\ \A j \in stated : k <= j
  OBVIOUS
<1>2. \A m \in stated : (\A j \in stated : m <= j) => m = k
  BY <1>1
<1> HIDE DEF stated
<1>3. Min(stated) = k
  BY <1>1, <1>2 DEF Min
<1> QED
  BY <1>1, <1>3 DEF FirstOf, stated

(* And nothing when none does.                                             *)
LEMMA FirstOfNone ==
  ASSUME NEW rungs, \A j \in DOMAIN rungs : rungs[j] = None
  PROVE  FirstOf(rungs) = None
BY DEF FirstOf

(* A ladder of three rungs.                                                *)
LEMMA LadderOfThree ==
  ASSUME NEW a, NEW b, NEW c
  PROVE  FirstOf(<<a, b, c>>) = OrElse(a, OrElse(b, c))
<1> DEFINE l == <<a, b, c>>
<1>1. DOMAIN l = 1..3 /\ l[1] = a /\ l[2] = b /\ l[3] = c
  OBVIOUS
<1> HIDE DEF l
<1>2. \A k \in 1..3 : l[k] # None /\ (\A j \in 1..3 : j < k => l[j] = None) => FirstOf(l) = l[k]
  BY <1>1, FirstOfIs
<1>3. /\ \A j \in 1..3 : ~(j < 1)
      /\ \A j \in 1..3 : j < 2 => j = 1
      /\ \A j \in 1..3 : j < 3 => j \in {1, 2}
  OBVIOUS
<1>4. a # None => FirstOf(l) = a
  BY <1>1, <1>2, <1>3
<1>5. a = None /\ b # None => FirstOf(l) = b
  BY <1>1, <1>2, <1>3
<1>6. a = None /\ b = None /\ c # None => FirstOf(l) = c
  BY <1>1, <1>2, <1>3
<1>7. a = None /\ b = None /\ c = None => FirstOf(l) = None
  <2>1. 1..3 = {1, 2, 3}
    OBVIOUS
  <2> QED
    BY <1>1, <2>1, FirstOfNone
<1> QED
  BY <1>4, <1>5, <1>6, <1>7 DEF l, OrElse

(* And of six.                                                             *)
LEMMA LadderOfSix ==
  ASSUME NEW a, NEW b, NEW c, NEW d, NEW e, NEW f
  PROVE  FirstOf(<<a, b, c, d, e, f>>) =
         OrElse(a, OrElse(b, OrElse(c, OrElse(d, OrElse(e, f)))))
<1> DEFINE l == <<a, b, c, d, e, f>>
<1>1. /\ DOMAIN l = 1..6 /\ l[1] = a /\ l[2] = b /\ l[3] = c
      /\ l[4] = d /\ l[5] = e /\ l[6] = f
  OBVIOUS
<1> HIDE DEF l
<1>2. \A k \in 1..6 : l[k] # None /\ (\A j \in 1..6 : j < k => l[j] = None) => FirstOf(l) = l[k]
  BY <1>1, FirstOfIs
<1>3. /\ \A j \in 1..6 : ~(j < 1)
      /\ \A j \in 1..6 : j < 2 => j = 1
      /\ \A j \in 1..6 : j < 3 => j \in {1, 2}
      /\ \A j \in 1..6 : j < 4 => j \in {1, 2, 3}
      /\ \A j \in 1..6 : j < 5 => j \in {1, 2, 3, 4}
      /\ \A j \in 1..6 : j < 6 => j \in {1, 2, 3, 4, 5}
  OBVIOUS
<1>4. a # None => FirstOf(l) = a
  BY <1>1, <1>2, <1>3
<1>5. a = None /\ b # None => FirstOf(l) = b
  BY <1>1, <1>2, <1>3
<1>6. a = None /\ b = None /\ c # None => FirstOf(l) = c
  BY <1>1, <1>2, <1>3
<1>7. a = None /\ b = None /\ c = None /\ d # None => FirstOf(l) = d
  BY <1>1, <1>2, <1>3
<1>8. a = None /\ b = None /\ c = None /\ d = None /\ e # None => FirstOf(l) = e
  BY <1>1, <1>2, <1>3
<1>9. a = None /\ b = None /\ c = None /\ d = None /\ e = None /\ f # None => FirstOf(l) = f
  BY <1>1, <1>2, <1>3
<1>10. a = None /\ b = None /\ c = None /\ d = None /\ e = None /\ f = None => FirstOf(l) = None
  <2>1. 1..6 = {1, 2, 3, 4, 5, 6}
    OBVIOUS
  <2> QED
    BY <1>1, <2>1, FirstOfNone
<1> QED
  BY <1>4, <1>5, <1>6, <1>7, <1>8, <1>9, <1>10 DEF l, OrElse

(* The stack in force is one of the three, or none was named.              *)
LEMMA StackIsStack ==
  ASSUME given \in Invocations, TypedRungs(config)
  PROVE  /\ StackInForce \in Stack \cup {None}
         /\ StackInForce = None => /\ given.flags["stack"] = None /\ given.env["stack"] \notin Stack
                                   /\ config["stack"] = None
<1> DEFINE env == IF given.env["stack"] \in Stack THEN given.env["stack"] ELSE None
<1>1. StackInForce = OrElse(given.flags["stack"], OrElse(env, config["stack"]))
  BY LadderOfThree DEF StackInForce, ResolveStack, Flag, Env
<1>2. None \notin Stack /\ given.flags["stack"] \in Stack \cup {None} /\ config["stack"] \in Stack \cup {None}
  BY CommandsAssumption DEF TypedRungs
<1> QED
  BY <1>1, <1>2 DEF OrElse

(* Whatever the tiers say, a command has somewhere to ask.                 *)
LEMMA UrlsAreUrls ==
  ASSUME given \in Invocations, TypedRungs(config), NEW s \in Stack \cup {None}
  PROVE  /\ BaseUrl(s) \in Urls /\ VcScrapeUrl(s) \in Urls /\ BnScrapeUrl(s) \in Urls
<1>1. /\ \A r \in UrlRungs : /\ given.flags[r] \in Urls \cup {None} /\ given.env[r] \in Urls \cup {None}
                             /\ config[r] \in Urls \cup {None}
      /\ DefaultStack(s) \in Stack
  BY CommandsAssumption DEF TypedRungs, DefaultStack, OrElse, Stack
<1>2. /\ ApiUrl(DefaultStack(s)) \in Urls /\ BnMetricUrl(DefaultStack(s)) \in Urls
      /\ VcMetricUrl(DefaultStack(s)) \in Urls
  BY <1>1, CommandsAssumption
<1>3. BaseUrl(s) \in Urls
  BY <1>1, <1>2, LadderOfThree DEF BaseUrl, ResolveBaseUrl, Flag, Env, OrElse, UrlRungs
<1>4. VcScrapeUrl(s) \in Urls
  BY <1>1, <1>2, LadderOfThree DEF VcScrapeUrl, ResolveVcMetricUrl, Flag, Env, OrElse, UrlRungs
<1>5. BnScrapeUrl(s) \in Urls
  BY <1>1, <1>2, LadderOfSix DEF BnScrapeUrl, ResolveBnMetricUrl, Flag, Env, OrElse, UrlRungs
<1> QED
  BY <1>3, <1>4, <1>5

(* One request, or two for `version', `health' and `head'.                 *)
LEMMA EndpointsAre ==
  ASSUME given \in Invocations, TypedRungs(config), NEW s \in Stack \cup {None}
  PROVE  \E a \in Urls, b \in Urls :
            /\ Endpoints(s) = <<a>> \/ Endpoints(s) = <<a, b>>
            /\ given.command = "version" => Endpoints(s) = <<a, b>>
            /\ a = IF given.command = "version" THEN BnScrapeUrl(s)
                   ELSE IF given.command \in {"duties", "validators"} THEN VcScrapeUrl(s) ELSE BaseUrl(s)
BY UrlsAreUrls DEF Endpoints

(* detect_role names a container that runs.                                *)
LEMMA DetectedRuns ==
  ASSUME NEW names, IsFiniteSet(names), NEW role, Detected(names, role, None) # None
  PROVE  Detected(names, role, None) \in names /\ Detected(names, role, None).role = role
<1>1. Detected(names, role, None) = CHOOSE c \in Matches(names, role, None) : TRUE
  BY DEF Detected
<1>2. Cardinality(Matches(names, role, None)) = 1
  BY DEF Detected
<1>3. Matches(names, role, None) # {}
  BY <1>2, FS_EmptySet
<1> QED
  BY <1>1, <1>3 DEF Matches

(* What Load makes of a file, and of which.                                *)
LEMMA LoadIs ==
  ASSUME host \in Hosts, given \in Invocations
  PROVE  /\ (FileRead = None) <=> Broken(Owned)
         /\ FileRead # None => TypedRungs(FileRead)
<1> DEFINE file == ConfigPath(host.xdg, host.home)
<1>1. file = Owned
  BY CommandsAssumption DEF ConfigPath, Owned
<1>2. file = None \/ file \in DOMAIN host.files
  BY CommandsAssumption DEF ConfigPath
<1>3. TypedRungs(Unset) /\ Unset["tz"] = None /\ None # Unset
  BY CommandsAssumption DEF TypedRungs, Unset, Rungs
<1>4. CASE file = None
  BY <1>1, <1>3, <1>4 DEF Broken, FileRead
<1>5. CASE file # None
  <2> DEFINE f == host.files[file]
  <2>1. /\ f.is \in {"absent", "toml", "unreadable", "unknown_key"}
        /\ f.is # "toml" => f.says = Unset
        /\ f.says # None /\ TypedRungs(f.says)
    BY <1>2, <1>5, CommandsAssumption
  <2>2. FileRead = Load(f)
    BY <1>5 DEF FileRead
  <2>3. (Load(f) = None) <=> Broken(file)
    <3>1. None # "nowhere"
      BY CommandsAssumption
    <3> HIDE DEF file
    <3>2. QED
      BY <1>3, <1>5, <2>1, <3>1 DEF Load, Broken
  <2>4. Load(f) # None => TypedRungs(Load(f))
    BY <1>3, <2>1 DEF Load
  <2> QED
    BY <1>1, <2>2, <2>3, <2>4
<1> QED
  BY <1>4, <1>5

-----------------------------------------------------------------------------
(* A command starts with nothing read, asked or said.                      *)
LEMMA CommandsStart == Init => CommandsInv
<1> SUFFICES ASSUME Init
    PROVE  CommandsInv
  OBVIOUS
<1>1. SettingsInv
  BY DEF Init, SettingsInv
<1>2. SpecInv
  BY DEF Init, SpecInv
<1>3. AskInv
  BY DEF Init, AskInv
<1>4. EndInv
  BY DEF Init, EndInv, VersionIsConsistent, OutputTellsTheOutcome
<1> QED
  BY <1>1, <1>2, <1>3, <1>4 DEF CommandsInv

(* What is asked, of which stack, depends on nothing that changes later.   *)
LEMMA SettledStays ==
  ASSUME UNCHANGED <<world, config>>
  PROVE  /\ StackInForce' = StackInForce /\ \A s : Endpoints(s)' = Endpoints(s)
         /\ Owned' = Owned /\ (Broken(Owned) <=> Broken(Owned)')
BY DEF world, StackInForce, Endpoints, BaseUrl, VcScrapeUrl, BnScrapeUrl, Flag, Env, Owned, Broken

(* What was asked stays, and where nothing was asked nothing is wrong.     *)
LEMMA AskKept ==
  ASSUME AskInv, UNCHANGED <<world, url, asked>>
  PROVE  AskInv'
BY DEF AskInv, Scrapes, Version, world

LEMMA NothingAsked ==
  ASSUME asked' = <<>>, Len(url') \in Nat
  PROVE  AskInv'
BY DEF AskInv

(* Before the end `version' has asked no place twice, and said nothing.    *)
LEMMA ConsistentSoFar ==
  ASSUME AskInv', step' # "left" \/ url' = <<>> \/ ~Version'
  PROVE  VersionIsConsistent'
BY DEF AskInv, VersionIsConsistent

(* main reads the config before anything else.                             *)
LEMMA ConfigStep ==
  ASSUME CommandsInv, Config
  PROVE  CommandsInv'
<1> USE DEF CommandsInv
<1>1. /\ step = "config" /\ config = None /\ url = <<>> /\ asked = <<>> /\ stack = None
      /\ spec = None /\ level = None /\ host \in Hosts /\ given \in Invocations
      /\ out = <<>> /\ hint = None /\ failure = None /\ exit = None
      /\ UNCHANGED <<world, web, stack, url, asked, spec, previewed, level>>
  BY DEF Config, SettingsInv, SpecInv, EndInv, told
<1>2. /\ ~Broken(Owned) => /\ config' = FileRead /\ FileRead # None /\ TypedRungs(config') /\ hint' = None
                           /\ failure' = None
                           /\ \/ step' = "left" /\ out' = <<"report">> /\ exit' = "success"
                                 /\ given.command = "about"
                              \/ step' = "target" /\ out' = <<>> /\ exit' = None
                                 /\ given.command = "log-level"
                              \/ step' = "resolve" /\ out' = <<>> /\ exit' = None
                                 /\ given.command # "log-level"
      /\ Broken(Owned) => /\ config' = None /\ step' = "left" /\ out' = <<>> /\ hint' = None
                          /\ failure' = "config" /\ exit' = "failure"
  BY <1>1, LoadIs DEF Config, Fail, Leave, ends
<1>3. Broken(Owned)' <=> Broken(Owned)
  BY <1>1 DEF world, Owned, Broken
<1>4. SettingsInv'
  <2>1. CASE Broken(Owned)
    BY <1>1, <1>2, <1>3, <2>1 DEF SettingsInv, world
  <2>2. CASE ~Broken(Owned)
    <3>1. config' # None /\ TypedRungs(config') /\ ~Broken(Owned)'
      BY <1>2, <1>3, <2>2
    <3>2. failure' # "config"
      BY <1>2, <2>2, CommandsAssumption DEF Failure
    <3> QED
      BY <1>1, <1>2, <2>2, <3>1, <3>2 DEF SettingsInv, world
  <2> QED
    BY <2>1, <2>2
<1>5. SpecInv'
  BY <1>1, <1>2 DEF SpecInv, world
<1>6. AskInv'
  BY <1>1, AskKept
<1>7. EndInv'
  <2>1. VersionIsConsistent' /\ OutputTellsTheOutcome'
    BY <1>1, <1>2, <1>6, ConsistentSoFar DEF OutputTellsTheOutcome, world
  <2> QED
    BY <1>1, <1>2, <2>1 DEF EndInv, world, Failure
<1> QED
  BY <1>4, <1>5, <1>6, <1>7

(* An empty list of loggers is no list (parse_spec).                       *)
LEMMA RequestsAreSpecs ==
  ASSUME NEW body, body.level \in Levels \cup {""}, body.filter \in {None} \cup SUBSET Loggers,
         ParseSpec(body) # None
  PROVE  ParseSpec(body) \in Specs
<1>1. body.level \in Levels
  BY DEF ParseSpec
<1>2. (IF body.filter = None THEN None ELSE Filters(body.filter)) \in {None} \cup ((SUBSET Loggers) \ {{}})
  BY DEF Filters
<1> QED
  BY <1>1, <1>2 DEF ParseSpec, Specs

(* Settling on a request: what was typed, or what the URL serves now.      *)
LEMMA TargetStep ==
  ASSUME CommandsInv, Target
  PROVE  CommandsInv'
<1> USE DEF CommandsInv
<1>1. /\ step = "target" /\ config # None /\ url = <<>> /\ asked = <<>> /\ spec = None /\ level = None
      /\ given \in Invocations /\ given.command = "log-level"
      /\ out = <<>> /\ hint = None /\ failure = None /\ exit = None
      /\ UNCHANGED <<world, web, config, stack, url, asked, level>>
  BY DEF Target, SettingsInv, SpecInv, EndInv, AskInv
<1>2. /\ out' = <<>> /\ hint' = None
      /\ \/ step' \in {"resolve", "confirm"} /\ failure' = None /\ exit' = None
         \/ step' = "left" /\ failure' = "spec" /\ exit' = "failure"
  BY <1>1 DEF Target, Fail, Leave, ends
<1>3. /\ spec' \in Specs \cup {None} /\ previewed' \in Specs \cup {None}
      /\ spec' # None =>
           IF given.target.scheme = "none"
           THEN spec' = [level |-> given.target.level, filter |-> Filters(given.filters)]
           ELSE given.yes \/ previewed' = spec'
      /\ step' = "confirm" => previewed' # None
  <2>1. CASE given.target.scheme = "none"
    <3>1. /\ spec' = [level |-> given.target.level, filter |-> Filters(given.filters)]
          /\ step' = "resolve" /\ previewed' = previewed
      BY <2>1 DEF Target
    <3>2. spec' \in Specs
      BY <1>1, <2>1, <3>1, CommandsAssumption DEF Specs, Filters
    <3> QED
      BY <2>1, <3>1, <3>2 DEF SpecInv
  <2>2. CASE given.target.scheme # "none" /\ step' = "left"
    <3>1. UNCHANGED <<spec, previewed>>
      BY <2>2 DEF Target, told, ends
    <3> QED
      BY <1>1, <2>2, <3>1 DEF SpecInv
  <2>3. CASE given.target.scheme # "none" /\ step' # "left"
    <3> DEFINE read == ParseSpec(Served(RawUrl(given.target)))
    <3>1. /\ read # None /\ spec' = read
          /\ previewed' = (IF given.yes THEN None ELSE read)
          /\ step' = IF given.yes THEN "resolve" ELSE "confirm"
      BY <2>3 DEF Target, Fail, Leave
    <3>2. Served(RawUrl(given.target)) \in Bodies \cup {NoBody}
      BY DEF Served, SpecInv
    <3>3. read \in Specs
      BY <3>1, <3>2, RequestsAreSpecs, CommandsAssumption DEF NoBody
    <3> QED
      BY <2>3, <3>1, <3>3
  <2> QED
    BY <1>2, <2>1, <2>2, <2>3
<1>4. SettingsInv'
  <2>1. config # None => ~Broken(Owned) /\ ~Broken(Owned)'
    BY <1>1, SettledStays DEF SettingsInv
  <2> QED
    BY <1>1, <1>2, <2>1 DEF SettingsInv, world
<1>5. SpecInv'
  BY <1>1, <1>2, <1>3 DEF SpecInv, world
<1>6. AskInv'
  BY <1>1, AskKept
<1>7. EndInv'
  <2>1. VersionIsConsistent' /\ OutputTellsTheOutcome'
    BY <1>1, <1>2, <1>6, ConsistentSoFar DEF OutputTellsTheOutcome, world
  <2> QED
    BY <1>1, <1>2, <2>1 DEF EndInv, world, Failure
<1> QED
  BY <1>4, <1>5, <1>6, <1>7

(* Once the config is read no step changes what was settled from it.       *)
LEMMA SettingsKept ==
  ASSUME SettingsInv, config # None, UNCHANGED <<world, config, stack, url>>,
         step' \in {"confirm", "resolve", "ask", "failed", "left"},
         step' \in {"confirm", "resolve"} => url = <<>>,
         step' \in {"ask", "failed"} => url # <<>>,
         failure' # "config"
  PROVE  SettingsInv'
<1>1. ~Broken(Owned)'
  BY SettledStays DEF SettingsInv
<1>2. url # <<>> => stack' = StackInForce' /\ url' = Endpoints(stack)'
  BY SettledStays DEF SettingsInv
<1> QED
  BY <1>1, <1>2 DEF SettingsInv, world

(* Whatever is not "config" is not.                                        *)
LEMMA NoConfigFailure == None # "config"
BY CommandsAssumption DEF Failure

(* confirm_apply.                                                          *)
LEMMA ConfirmStep ==
  ASSUME CommandsInv, ConfirmApply
  PROVE  CommandsInv'
<1> USE DEF CommandsInv
<1>1. /\ step = "confirm" /\ config # None /\ url = <<>> /\ asked = <<>> /\ level = None
      /\ previewed # None /\ out = <<>> /\ hint = None /\ failure = None /\ exit = None
      /\ UNCHANGED <<world, web, config, stack, url, asked, spec, previewed, level>>
  BY DEF ConfirmApply, SettingsInv, SpecInv, EndInv, AskInv, told
<1>2. /\ out' = <<>> /\ hint' = None
      /\ \/ step' = "resolve" /\ failure' = None /\ exit' = None
         \/ step' = "left" /\ failure' = None /\ exit' = "success"
         \/ step' = "left" /\ failure' = "spec" /\ exit' = "failure"
  BY <1>1 DEF ConfirmApply, Fail, Leave, ends
<1>3. SettingsInv'
  BY <1>1, <1>2, SettingsKept, NoConfigFailure
<1>4. SpecInv'
  BY <1>1, <1>2 DEF SpecInv, world
<1>5. AskInv'
  BY <1>1, AskKept
<1>6. EndInv'
  <2>1. VersionIsConsistent' /\ OutputTellsTheOutcome'
    BY <1>1, <1>2, <1>5, ConsistentSoFar DEF OutputTellsTheOutcome, world
  <2> QED
    BY <1>1, <1>2, <2>1 DEF EndInv, world, Failure
<1> QED
  BY <1>3, <1>4, <1>5, <1>6

(* An arm of run resolves what it asks.                                    *)
LEMMA ResolveStep ==
  ASSUME CommandsInv, Resolve
  PROVE  CommandsInv'
<1> USE DEF CommandsInv
<1>1. /\ step = "resolve" /\ config # None /\ url = <<>> /\ asked = <<>> /\ level = None
      /\ out = <<>> /\ hint = None /\ failure = None /\ exit = None
      /\ stack' = StackInForce /\ url' = Endpoints(StackInForce) /\ step' = "ask"
      /\ UNCHANGED <<world, web, config, asked, spec, previewed, level, out, hint, failure, exit>>
  BY DEF Resolve, SettingsInv, SpecInv, EndInv, AskInv, told, ends
<1>2. /\ StackInForce' = StackInForce /\ Endpoints(StackInForce)' = Endpoints(StackInForce)
      /\ ~Broken(Owned)'
  BY <1>1, SettledStays DEF SettingsInv
<1>3. Endpoints(StackInForce) # <<>>
  <2>1. StackInForce \in Stack \cup {None} /\ given \in Invocations /\ TypedRungs(config)
    BY <1>1, StackIsStack DEF SettingsInv
  <2>2. PICK a \in Urls, b \in Urls : Endpoints(StackInForce) = <<a>> \/ Endpoints(StackInForce) = <<a, b>>
    BY <2>1, EndpointsAre
  <2> QED
    BY <2>2
<1>4. url' = Endpoints(stack)'
  BY <1>1 DEF world, Endpoints, BaseUrl, VcScrapeUrl, BnScrapeUrl, Flag, Env
<1>5. SettingsInv'
  BY <1>1, <1>2, <1>3, <1>4 DEF SettingsInv, world
<1>6. SpecInv'
  BY <1>1 DEF SpecInv, world
<1>7. AskInv'
  <2>1. StackInForce \in Stack \cup {None} /\ given \in Invocations /\ TypedRungs(config)
    BY <1>1, StackIsStack DEF SettingsInv
  <2>2. PICK a \in Urls, b \in Urls : Endpoints(StackInForce) = <<a>> \/ Endpoints(StackInForce) = <<a, b>>
    BY <2>1, EndpointsAre
  <2> QED
    BY <1>1, <2>2, NothingAsked
<1>8. EndInv'
  <2>1. VersionIsConsistent' /\ OutputTellsTheOutcome'
    BY <1>1, <1>7, ConsistentSoFar DEF OutputTellsTheOutcome, world
  <2> QED
    BY <1>1, <2>1 DEF EndInv, world
<1> QED
  BY <1>5, <1>6, <1>7, <1>8

(* The endpoints while requests are made.                                  *)
LEMMA AskedUrls ==
  ASSUME CommandsInv, url # <<>>
  PROVE  /\ given \in Invocations /\ config # None /\ TypedRungs(config) /\ stack \in Stack \cup {None}
         /\ \E a \in Urls, b \in Urls :
              /\ url = <<a>> \/ url = <<a, b>>
              /\ given.command = "version" => url = <<a, b>>
              /\ a = IF given.command = "version" THEN BnScrapeUrl(stack)
                     ELSE IF given.command \in {"duties", "validators"} THEN VcScrapeUrl(stack)
                     ELSE BaseUrl(stack)
<1>1. /\ given \in Invocations /\ config # None /\ TypedRungs(config)
      /\ stack = StackInForce /\ url = Endpoints(stack)
  BY DEF CommandsInv, SettingsInv
<1>2. stack \in Stack \cup {None}
  BY <1>1, StackIsStack
<1> QED
  BY <1>1, <1>2, EndpointsAre

(* `version' scrapes once where its two URLs are one, and twice otherwise. *)
LEMMA ScrapesAre ==
  ASSUME CommandsInv, url # <<>>
  PROVE  \E a \in Urls, b \in Urls :
           \/ Scrapes = <<a>> /\ url = <<a>> /\ ~Version
           \/ Scrapes = <<a>> /\ url = <<a, b>> /\ a = b /\ Version
           \/ Scrapes = <<a, b>> /\ url = <<a, b>> /\ (Version => a # b)
<1>1. PICK a \in Urls, b \in Urls :
        /\ url = <<a>> \/ url = <<a, b>>
        /\ given.command = "version" => url = <<a, b>>
  BY AskedUrls
<1>2. CASE url = <<a, b>>
  BY <1>1, <1>2 DEF Scrapes, Version
<1>3. CASE url = <<a>> /\ ~Version
  BY <1>1, <1>3 DEF Scrapes
<1> QED
  BY <1>1, <1>2, <1>3 DEF Version

(* One request, and what it brings.                                        *)
LEMMA AskStep ==
  ASSUME CommandsInv, Ask
  PROVE  CommandsInv'
<1> USE DEF CommandsInv
<1>1. /\ step = "ask" /\ config # None /\ url # <<>> /\ level = None /\ Rest # <<>>
      /\ given.command # "log-level"
      /\ out = <<>> /\ hint = None /\ failure = None /\ exit = None
      /\ UNCHANGED <<world, web, config, stack, url, spec, previewed, level>>
  BY DEF Ask, SettingsInv, EndInv, told
<1>2. /\ Scrapes \in Seq(Urls) /\ Len(Scrapes) \in {1, 2} /\ Len(Scrapes) <= Len(url)
      /\ Version /\ Len(Scrapes) = 2 => Scrapes[1] # Scrapes[2]
  <2>1. PICK a \in Urls, b \in Urls :
           \/ Scrapes = <<a>> /\ url = <<a>> /\ ~Version
           \/ Scrapes = <<a>> /\ url = <<a, b>> /\ a = b /\ Version
           \/ Scrapes = <<a, b>> /\ url = <<a, b>> /\ (Version => a # b)
    BY <1>1, ScrapesAre
  <2>2. CASE Scrapes = <<a>> /\ (url = <<a>> \/ url = <<a, b>>)
    BY <2>2
  <2>3. CASE Scrapes = <<a, b>> /\ url = <<a, b>> /\ (Version => a # b)
    BY <2>3
  <2> QED
    BY <2>1, <2>2, <2>3
<1> DEFINE n == Len(asked)
           u == Scrapes[n + 1]
<1>3. n \in {0, 1} /\ n + 1 <= Len(Scrapes) /\ Head(Rest) = u /\ u \in Urls
  <2>1. n \in Nat /\ n <= Len(Scrapes)
    BY <1>2 DEF AskInv
  <2>2. n # Len(Scrapes)
    BY <1>1, <1>2, <2>1 DEF Rest
  <2>3. n + 1 \in 1..Len(Scrapes)
    BY <1>2, <2>1, <2>2
  <2>4. Head(Rest) = Scrapes[n + 1]
    BY <1>2, <2>1, <2>3 DEF Rest
  <2> HIDE DEF n
  <2> QED
    BY <1>2, <2>1, <2>3, <2>4
<1>4. PICK q \in Results(u) :
        /\ asked' = Append(asked, q)
        /\ IF ~Version /\ q.answer # "ok"
           THEN failure' = q.answer /\ step' = "failed" /\ UNCHANGED <<out, hint, exit>>
           ELSE UNCHANGED <<step, ends>>
  BY <1>3 DEF Ask
<1>5. q \in Result /\ q.at = u /\ (q.has # {} => q.answer = "ok")
  BY <1>3 DEF Results, Brings, Answer, Result
<1>6. /\ out' = <<>> /\ hint' = None /\ exit' = None
      /\ \/ step' = "ask" /\ failure' = None
         \/ /\ step' = "failed" /\ failure' = q.answer /\ ~Version
            /\ q.answer \in Failure \ {"config", "spec"}
  <2>1. q.answer # "ok" => q.answer \in Failure \ {"config", "spec"}
    BY <1>5 DEF Result, Answer, Failure
  <2> QED
    BY <1>1, <1>4, <2>1 DEF ends
<1>7. SettingsInv'
  <2>1. failure' # "config"
    BY <1>6, NoConfigFailure
  <2> QED
    BY <1>1, <1>6, <2>1, SettingsKept
<1>8. SpecInv'
  BY <1>1, <1>6 DEF SpecInv, world
<1>9. /\ asked \in Seq(Result) /\ asked' \in Seq(Result) /\ Len(asked') = n + 1
      /\ DOMAIN asked = 1..n /\ DOMAIN asked' = 1..(n + 1)
      /\ asked'[n + 1] = q /\ \A k \in 1..n : asked'[k] = asked[k]
  <2>1. asked \in Seq(Result)
    BY DEF AskInv
  <2> QED
    BY <1>4, <1>5, <2>1
<1>10. AskInv'
  <2>1. Scrapes' = Scrapes /\ url' = url /\ (Version' <=> Version)
    BY <1>1 DEF Scrapes, Version, world
  <2>2. \A k \in 1..(n + 1) : /\ asked'[k].at = Scrapes[k]
                              /\ asked'[k].has # {} => asked'[k].answer = "ok"
    <3> SUFFICES ASSUME NEW k \in 1..(n + 1)
        PROVE  /\ asked'[k].at = Scrapes[k]
               /\ asked'[k].has # {} => asked'[k].answer = "ok"
      OBVIOUS
    <3>1. CASE k = n + 1
      BY <1>5, <1>9, <3>1
    <3>2. CASE k # n + 1
      <4>1. k \in 1..n
        BY <1>3, <3>2
      <4> QED
        BY <1>9, <4>1 DEF AskInv
    <3> QED
      BY <3>1, <3>2
  <2>3. Version => \A p, r \in 1..(n + 1) : asked'[p].at = asked'[r].at => p = r
    <3>1. Version => \A p, r \in 1..(n + 1) : Scrapes[p] = Scrapes[r] => p = r
      BY <1>2, <1>3
    <3> QED
      BY <2>2, <3>1
  <2>4. n + 1 <= Len(Scrapes) /\ n + 1 <= Len(url)
    <3>1. Len(url) \in Nat
      <4>1. PICK a \in Urls, b \in Urls : url = <<a>> \/ url = <<a, b>>
        BY <1>1, AskedUrls
      <4> QED
        BY <4>1
    <3> QED
      BY <1>2, <1>3, <3>1
  <2> HIDE DEF n, u
  <2> QED
    BY <1>9, <2>1, <2>2, <2>3, <2>4 DEF AskInv
<1>11. EndInv'
  <2>1. VersionIsConsistent' /\ OutputTellsTheOutcome'
    BY <1>6, <1>10, ConsistentSoFar DEF OutputTellsTheOutcome
  <2>2. asked' # <<>> /\ asked'[Len(asked')].answer = q.answer
    BY <1>3, <1>9
  <2>3. Failure \ {"config", "spec"} \subseteq Failure
    OBVIOUS
  <2>4. Version' <=> Version
    BY <1>1 DEF Version, world
  <2> HIDE DEF n, u
  <2> QED
    BY <1>1, <1>6, <2>1, <2>2, <2>3, <2>4 DEF EndInv
<1> QED
  BY <1>7, <1>8, <1>10, <1>11

(* The one request that changes something.                                 *)
LEMMA SetLogLevelStep ==
  ASSUME CommandsInv, SetLogLevel
  PROVE  CommandsInv'
<1> USE DEF CommandsInv
<1>1. /\ step = "ask" /\ given.command = "log-level" /\ config # None /\ url # <<>> /\ level = None
      /\ out = <<>> /\ hint = None /\ failure = None /\ exit = None
      /\ UNCHANGED <<world, web, config, stack, url, spec, previewed>>
  BY DEF SetLogLevel, SettingsInv, EndInv, told
<1>2. PICK c \in Answer :
        /\ c \in Brings(Head(url)) \ {"malformed"}
        /\ asked' = <<[at |-> Head(url), answer |-> c, has |-> {}]>>
        /\ level' \in {None, spec}
        /\ c = "ok" => level' = spec
        /\ IF c = "ok" THEN Leave("success") /\ out' = <<"report">> /\ UNCHANGED <<hint, failure>>
           ELSE failure' = c /\ step' = "failed" /\ UNCHANGED <<out, hint, exit>>
  BY DEF SetLogLevel, Brings, Answer, Sent
<1>3. /\ hint' = None
      /\ \/ /\ step' = "left" /\ out' = <<"report">> /\ exit' = "success" /\ failure' = None
            /\ level' = spec
         \/ /\ step' = "failed" /\ out' = <<>> /\ exit' = None /\ failure' = c
            /\ c \in Failure \ {"config", "spec"}
  BY <1>1, <1>2 DEF Leave, Answer, Failure
<1>4. url[1] \in Urls /\ Head(url) = url[1] /\ Len(url) \in {1, 2} /\ 1 \in DOMAIN url
  <2>1. PICK a \in Urls, b \in Urls : url = <<a>> \/ url = <<a, b>>
    BY <1>1, AskedUrls
  <2>2. CASE url = <<a>>
    BY <2>2
  <2>3. CASE url = <<a, b>>
    BY <2>3
  <2> QED
    BY <2>1, <2>2, <2>3
<1> DEFINE row == [at |-> url[1], answer |-> c, has |-> {}]
<1>5. /\ asked' = <<row>> /\ row \in Result
      /\ asked' \in Seq(Result) /\ Len(asked') = 1 /\ DOMAIN asked' = {1}
      /\ asked'[1] = row /\ row.at = url[1] /\ row.answer = c /\ row.has = {}
  BY <1>2, <1>4 DEF Result
<1> HIDE DEF row
<1>6. SettingsInv'
  <2>1. failure' # "config"
    BY <1>3, NoConfigFailure
  <2> QED
    BY <1>1, <1>3, <2>1, SettingsKept
<1>7. SpecInv'
  BY <1>1, <1>2, <1>3 DEF SpecInv, world
<1>8. AskInv'
  <2>1. Scrapes' = url /\ url' = url /\ ~Version'
    BY <1>1 DEF Scrapes, Version, world
  <2> QED
    BY <1>4, <1>5, <2>1 DEF AskInv
<1>9. EndInv'
  <2>1. VersionIsConsistent' /\ OutputTellsTheOutcome'
    BY <1>1, <1>3, <1>8, ConsistentSoFar DEF OutputTellsTheOutcome, Version, world
  <2>2. asked' # <<>> /\ asked'[Len(asked')].answer = c
    BY <1>5
  <2>3. ~Version'
    BY <1>1 DEF Version, world
  <2> QED
    BY <1>1, <1>3, <2>1, <2>2, <2>3 DEF EndInv, Failure
<1> QED
  BY <1>6, <1>7, <1>8, <1>9

(* Once all was scraped, a row tells what was brought from where its       *)
(* process is: the first row the first scrape, the second row the last.    *)
LEMMA RowsAreTrue ==
  ASSUME CommandsInv, url # <<>>, Version, Rest = <<>>
  PROVE  /\ \A k \in 1..2 : /\ VersionReport[k].says \in Said
                            /\ (VersionReport[k].says = "version") <=> Has(k)
                            /\ (VersionReport[k].says \in {"version", "none"}) <=> Answered(k)
         /\ ~NoVersion <=> \E k \in 1..2 : Has(k)
         /\ VersionReport # <<>>
<1> USE DEF CommandsInv
<1>1. PICK a \in Urls, b \in Urls :
         /\ url = <<a, b>>
         /\ \/ Scrapes = <<a>> /\ a = b
            \/ Scrapes = <<a, b>> /\ a # b
  BY ScrapesAre
<1> DEFINE n == Len(asked)
<1>2. asked \in Seq(Result) /\ n \in Nat /\ DOMAIN asked = 1..n
  BY DEF AskInv
<1>3. Len(Scrapes) \in {1, 2} /\ n = Len(Scrapes)
  <2>1. Len(Scrapes) \in {1, 2} /\ Scrapes \in Seq(Urls)
    <3>1. CASE Scrapes = <<a>>
      BY <3>1
    <3>2. CASE Scrapes = <<a, b>>
      BY <3>2
    <3> QED
      BY <1>1, <3>1, <3>2
  <2>2. asked # <<>> => n <= Len(Scrapes)
    BY DEF AskInv
  <2>3. n <= Len(Scrapes)
    BY <1>2, <2>1, <2>2
  <2>4. Len(Rest) = Len(Scrapes) - n
    BY <1>2, <2>1, <2>3 DEF Rest
  <2> QED
    BY <1>2, <2>1, <2>3, <2>4
<1>4. /\ asked[1] \in Result /\ asked[1].at = a
      /\ asked[n] \in Result /\ asked[n].at = b
      /\ \A q \in 1..n : asked[q].at = a => q = 1
      /\ \A q \in 1..n : asked[q].at = b => q = n
      /\ 1 \in 1..n /\ n \in 1..n
  <2>1. \A k \in 1..n : asked[k] \in Result /\ asked[k].at = Scrapes[k]
    BY <1>2, ElementOfSeq DEF AskInv
  <2>2. CASE Scrapes = <<a>> /\ a = b
    BY <1>3, <2>1, <2>2
  <2>3. CASE Scrapes = <<a, b>> /\ a # b
    <3>1. n = 2 /\ Scrapes[1] = a /\ Scrapes[2] = b
      BY <1>3, <2>3
    <3> HIDE DEF n
    <3> QED
      BY <2>1, <2>3, <3>1
  <2> QED
    BY <1>1, <2>2, <2>3
<1>5. \A q \in 1..n : asked[q].has # {} => asked[q].answer = "ok"
  BY <1>2 DEF AskInv
<1>6. /\ VersionReport[1] = ProcessVersion(a, asked[1], "beacon")
      /\ VersionReport[2] = ProcessVersion(b, asked[n], "validator")
      /\ url[1] = a /\ url[2] = b /\ VersionReport # <<>>
  BY <1>1 DEF VersionReport, VcSource
<1>7. ASSUME NEW u, NEW f, NEW q \in Result, q.has # {} => q.answer = "ok"
      PROVE  /\ ProcessVersion(u, q, f).says \in Said
             /\ (ProcessVersion(u, q, f).says = "version") <=> f \in q.has
             /\ (ProcessVersion(u, q, f).says \in {"version", "none"}) <=> q.answer = "ok"
  <2>1. /\ q.answer \in Answer
        /\ ProcessVersion(u, q, f).says = IF q.answer # "ok" THEN q.answer
                                          ELSE IF f \in q.has THEN "version" ELSE "none"
    BY <1>7 DEF Result, ProcessVersion
  <2> QED
    BY <1>7, <2>1 DEF Answer, Said
<1>8. /\ Has(1) <=> "beacon" \in asked[1].has
      /\ Answered(1) <=> asked[1].answer = "ok"
      /\ Has(2) <=> "validator" \in asked[n].has
      /\ Answered(2) <=> asked[n].answer = "ok"
  BY <1>2, <1>4, <1>6 DEF Has, Answered, Kind
<1>9. \A k \in 1..2 : /\ VersionReport[k].says \in Said
                      /\ (VersionReport[k].says = "version") <=> Has(k)
                      /\ (VersionReport[k].says \in {"version", "none"}) <=> Answered(k)
  <2>1. /\ VersionReport[1].says \in Said
        /\ (VersionReport[1].says = "version") <=> Has(1)
        /\ (VersionReport[1].says \in {"version", "none"}) <=> Answered(1)
    BY <1>4, <1>5, <1>6, <1>7, <1>8
  <2>2. /\ VersionReport[2].says \in Said
        /\ (VersionReport[2].says = "version") <=> Has(2)
        /\ (VersionReport[2].says \in {"version", "none"}) <=> Answered(2)
    BY <1>4, <1>5, <1>6, <1>7, <1>8
  <2>3. 1..2 = {1, 2}
    OBVIOUS
  <2> QED
    BY <2>1, <2>2, <2>3
<1> QED
  BY <1>6, <1>9 DEF NoVersion

(* The report at the end.                                                  *)
LEMMA ReportStep ==
  ASSUME CommandsInv, Report
  PROVE  CommandsInv'
<1> USE DEF CommandsInv
<1>1. /\ step = "ask" /\ given.command # "log-level" /\ config # None /\ url # <<>> /\ level = None
      /\ Rest = <<>> /\ spec = None
      /\ out = <<>> /\ hint = None /\ failure = None /\ exit = None
      /\ UNCHANGED <<world, web, config, stack, url, asked, spec, previewed, level>>
  BY DEF Report, SettingsInv, SpecInv, EndInv, told
<1>2. /\ hint' = None
      /\ \/ /\ step' = "left" /\ exit' = "success" /\ failure' = None
            /\ IF Version THEN out' = VersionReport /\ ~NoVersion ELSE out' = <<"report">>
         \/ /\ step' = "failed" /\ out' = <<>> /\ exit' = None /\ failure' = "malformed"
            /\ Version /\ NoVersion
  BY <1>1 DEF Report, Leave
<1>3. SettingsInv'
  <2>1. failure' # "config"
    BY <1>2, NoConfigFailure
  <2> QED
    BY <1>1, <1>2, <2>1, SettingsKept
<1>4. SpecInv'
  BY <1>1, <1>2 DEF SpecInv, world
<1>5. AskInv'
  BY <1>1, AskKept
<1>6. EndInv'
  <2>1. /\ Version' <=> Version
        /\ NoVersion' <=> NoVersion
        /\ Rest' = Rest
        /\ \A k \in 1..2 : (Has(k)' <=> Has(k)) /\ (Answered(k)' <=> Answered(k))
    BY <1>1 DEF Version, NoVersion, VersionReport, VcSource, Rest, Scrapes, Has, Answered, world
  <2>2. VersionIsConsistent'
    <3>1. CASE step' # "left" \/ ~Version
      BY <1>5, <2>1, <3>1, ConsistentSoFar
    <3>2. CASE step' = "left" /\ Version
      <4>1. exit' = "success" /\ out' = VersionReport /\ ~NoVersion
        BY <1>2, <3>2
      <4>2. \E k \in 1..2 : Has(k)
        BY <1>1, <3>2, <4>1, RowsAreTrue
      <4>3. \A k \in 1..2 : /\ (out'[k].says = "version") <=> Has(k)
                            /\ (out'[k].says \in {"version", "none"}) <=> Answered(k)
        BY <1>1, <3>2, <4>1, RowsAreTrue
      <4>4. \A p, q \in DOMAIN asked' : asked'[p].at = asked'[q].at => p = q
        BY <1>5, <2>1, <3>2 DEF AskInv
      <4> QED
        BY <2>1, <4>1, <4>2, <4>3, <4>4 DEF VersionIsConsistent
    <3> QED
      BY <3>1, <3>2
  <2>3. OutputTellsTheOutcome'
    <3>1. step' = "left" => out' # <<>>
      BY <1>1, <1>2, RowsAreTrue
    <3> QED
      BY <1>1, <1>2, <3>1 DEF OutputTellsTheOutcome, world
  <2>4. \/ out' \in {<<>>, <<"report">>}
        \/ Version' /\ \A k \in 1..2 : out'[k].says \in Said
    BY <1>1, <1>2, <2>1, RowsAreTrue
  <2> QED
    BY <1>1, <1>2, <2>1, <2>2, <2>3, <2>4 DEF EndInv, Failure
<1> QED
  BY <1>3, <1>4, <1>5, <1>6

(* exit_for_api: a hint, perhaps, and always a failure.                    *)
LEMMA ExitStep ==
  ASSUME CommandsInv, ExitForApi
  PROVE  CommandsInv'
<1> USE DEF CommandsInv
<1>1. /\ step = "failed" /\ config # None /\ url # <<>> /\ out = <<>> /\ hint = None /\ exit = None
      /\ step' = "left" /\ exit' = "failure"
      /\ failure \in Failure \ {"config", "spec"} /\ host \in Hosts
      /\ UNCHANGED <<world, web, config, stack, url, asked, spec, previewed, level, out, failure>>
  BY DEF ExitForApi, Leave, Status, SettingsInv, EndInv, told
<1>2. hint' # None =>
        /\ stack = None /\ failure = "unreachable"
        /\ hint' \in Docker /\ [role |-> "bn", stack |-> hint'] \in host.containers
  <2> SUFFICES ASSUME hint' # None
      PROVE  /\ stack = None /\ failure = "unreachable"
             /\ hint' \in Docker /\ [role |-> "bn", stack |-> hint'] \in host.containers
    OBVIOUS
  <2>1. stack = None /\ failure = "unreachable" /\ hint' = DockerStackHint
    BY DEF ExitForApi, ShouldHint
  <2> DEFINE c == Detected(IF host.docker THEN host.containers ELSE None, "bn", None)
  <2>2. c # None /\ hint' = c.stack
    BY <2>1 DEF DockerStackHint
  <2>3. host.docker
    BY <2>2 DEF Detected
  <2>4. c \in host.containers /\ c.role = "bn"
    <3>1. c = Detected(host.containers, "bn", None) /\ IsFiniteSet(host.containers)
      BY <1>1, <2>3, CommandsAssumption
    <3> HIDE DEF c
    <3> QED
      BY <2>2, <3>1, DetectedRuns
  <2>5. c \in [role : Slot, stack : Docker]
    BY <1>1, <2>4, CommandsAssumption
  <2>6. c = [role |-> "bn", stack |-> c.stack] /\ c.stack \in Docker
    BY <2>4, <2>5
  <2> QED
    BY <2>1, <2>2, <2>4, <2>6
<1>3. SettingsInv'
  <2>1. failure' # "config"
    BY <1>1
  <2> QED
    BY <1>1, <2>1, SettingsKept
<1>4. SpecInv'
  BY <1>1 DEF SpecInv, world
<1>5. AskInv'
  BY <1>1, AskKept
<1>6. EndInv'
  <2>1. /\ Version' <=> Version
        /\ \A k \in 1..2 : Has(k)' <=> Has(k)
    BY <1>1 DEF Version, Has, world
  <2>2. VersionIsConsistent'
    <3>1. CASE ~Version
      BY <1>5, <2>1, <3>1, ConsistentSoFar
    <3>2. CASE Version
      <4>1. ~\E k \in 1..2 : Has(k)
        BY <1>1, <3>2, RowsAreTrue DEF EndInv
      <4>2. \A p, q \in DOMAIN asked' : asked'[p].at = asked'[q].at => p = q
        BY <1>5, <2>1, <3>2 DEF AskInv
      <4> QED
        BY <1>1, <2>1, <4>1, <4>2 DEF VersionIsConsistent
    <3> QED
      BY <3>1, <3>2
  <2>3. OutputTellsTheOutcome'
    BY <1>1 DEF OutputTellsTheOutcome, world
  <2>4. hint' # None => /\ ~Version
                        /\ asked # <<>> /\ asked[Len(asked)].answer = "unreachable"
    BY <1>1, <1>2 DEF EndInv
  <2> QED
    BY <1>1, <1>2, <2>1, <2>2, <2>3, <2>4 DEF EndInv, world
<1> QED
  BY <1>3, <1>4, <1>5, <1>6

(* Whoever edits the body changes nothing that was fetched, and a step that*)
(* changes nothing neither.                                                *)
LEMMA OthersStep ==
  ASSUME CommandsInv, Edit \/ UNCHANGED vars
  PROVE  CommandsInv'
<1> USE DEF CommandsInv, world, told, ends
<1>1. /\ UNCHANGED <<host, given, step, config, stack, url, asked, spec, previewed, level, out, hint,
                     failure, exit>>
      /\ web' \in Bodies \cup {NoBody}
  BY DEF Edit, vars, SpecInv
<1>2. SettingsInv'
  <2>1. /\ StackInForce' = StackInForce /\ Endpoints(stack)' = Endpoints(stack)
        /\ Broken(Owned)' <=> Broken(Owned)
    BY <1>1 DEF StackInForce, Endpoints, BaseUrl, VcScrapeUrl, BnScrapeUrl, Flag, Env, Broken, Owned
  <2> QED
    BY <1>1, <2>1 DEF SettingsInv
<1>3. SpecInv'
  BY <1>1 DEF SpecInv
<1>4. AskInv'
  BY <1>1, AskKept
<1>5. EndInv'
  <2>1. /\ Version' <=> Version
        /\ NoVersion' <=> NoVersion
        /\ Rest' = Rest
        /\ \A k \in 1..2 : (Has(k)' <=> Has(k)) /\ (Answered(k)' <=> Answered(k))
    BY <1>1 DEF Version, NoVersion, VersionReport, VcSource, Rest, Scrapes, Has, Answered
  <2>2. VersionIsConsistent'
    BY <1>1, <2>1 DEF EndInv, VersionIsConsistent
  <2>3. OutputTellsTheOutcome'
    BY <1>1 DEF EndInv, OutputTellsTheOutcome
  <2> QED
    BY <1>1, <2>1, <2>2, <2>3 DEF EndInv
<1> QED
  BY <1>2, <1>3, <1>4, <1>5

(* No step of a command, and nobody's edit, breaks the invariant.          *)
LEMMA CommandsInvariant == Spec => []CommandsInv
<1>1. ASSUME CommandsInv, [Next]_vars
      PROVE  CommandsInv'
  BY <1>1, ConfigStep, TargetStep, ConfirmStep, ResolveStep, AskStep, SetLogLevelStep, ReportStep,
     ExitStep, OthersStep DEF Next, Left
<1> QED
  BY <1>1, CommandsStart, PTL DEF Spec

-----------------------------------------------------------------------------
(* The rung of `version''s beacon node, where some tier states one.        *)
LEMMA HighestTierIs ==
  ASSUME given \in Invocations, TypedRungs(config), NEW s,
         NEW k \in TierOf({"bn", "old"}), \A j \in TierOf({"bn", "old"}) : k <= j
  PROVE  BnScrapeUrl(s) \in {Tiers[k][r] : r \in {"bn", "old"}}
<1> DEFINE ladder == OrElse(Flag("bn"), OrElse(Flag("old"), OrElse(Env("bn"),
                       OrElse(Env("old"), OrElse(config["bn"], config["old"])))))
<1>1. BnScrapeUrl(s) = OrElse(ladder, BnMetricUrl(DefaultStack(s)))
  BY LadderOfSix DEF BnScrapeUrl, ResolveBnMetricUrl
<1>2. k \in 1..3 /\ (Tiers[k]["bn"] # None \/ Tiers[k]["old"] # None)
  BY DEF TierOf
<1>3. \A j \in 1..3 : j < k => Tiers[j]["bn"] = None /\ Tiers[j]["old"] = None
  BY <1>2 DEF TierOf
<1>4. Tiers[1] = given.flags /\ Tiers[2] = given.env /\ Tiers[3] = config
  BY DEF Tiers
<1>5. k = 1 \/ k = 2 \/ k = 3
  BY <1>2
<1>6. ladder = OrElse(Tiers[k]["bn"], Tiers[k]["old"]) \/ ladder \in {Tiers[k]["bn"], Tiers[k]["old"]}
  <2>1. CASE k = 1
    BY <1>2, <1>4, <2>1 DEF OrElse, Flag, Env
  <2>2. CASE k = 2
    <3>1. Flag("bn") = None /\ Flag("old") = None
      BY <1>3, <1>4, <2>2 DEF Flag
    <3> QED
      BY <1>2, <1>4, <2>2, <3>1 DEF OrElse, Env
  <2>3. CASE k = 3
    <3>1. Flag("bn") = None /\ Flag("old") = None /\ Env("bn") = None /\ Env("old") = None
      BY <1>3, <1>4, <2>3 DEF Flag, Env
    <3> QED
      BY <1>2, <1>4, <2>3, <3>1 DEF OrElse
  <2> QED
    BY <1>5, <2>1, <2>2, <2>3
<1>7. ladder # None
  BY <1>2, <1>4, <1>5 DEF OrElse, Flag, Env
<1> HIDE DEF ladder
<1>8. BnScrapeUrl(s) = ladder
  BY <1>1, <1>7 DEF OrElse
<1> QED
  BY <1>6, <1>8 DEF OrElse

(* A command acts on its operator's settings: the config file that decides *)
(* is the operator's, a broken one stops every command before a request,   *)
(* and the highest tier that states an endpoint wins (config.rs,           *)
(* resolve_bn_metric_url).                                                 *)
THEOREM SettingsAreRight == Spec => []SettingsAreTheOperators
<1>1. CommandsInv => TypeOK
  <2> SUFFICES ASSUME CommandsInv
      PROVE  TypeOK
    OBVIOUS
  <2>1. given.command \in Command
    BY CommandsAssumption DEF CommandsInv, SettingsInv
  <2>2. step \notin {"config", "left"} => config # None
    BY DEF CommandsInv, SettingsInv
  <2>3. stack \in Stack \cup {None}
    BY AskedUrls DEF CommandsInv, SettingsInv
  <2>4. \A k \in DOMAIN asked : asked[k] \in Result
    <3>1. asked \in Seq(Result)
      BY DEF CommandsInv, AskInv
    <3>2. DOMAIN asked = 1..Len(asked)
      BY <3>1
    <3>3. \A k \in 1..Len(asked) : asked[k] \in Result
      BY <3>1, ElementOfSeq
    <3> QED
      BY <3>2, <3>3
  <2>5. hint \in Docker \cup {None}
    BY DEF CommandsInv, EndInv
  <2> QED
    BY <2>1, <2>2, <2>3, <2>4, <2>5 DEF TypeOK, CommandsInv, SettingsInv, SpecInv, AskInv, EndInv
<1>2. CommandsInv => OnlyOwnConfigCounts
  <2> SUFFICES ASSUME CommandsInv
      PROVE  OnlyOwnConfigCounts
    OBVIOUS
  <2>1. None # "success"
    BY CommandsAssumption
  <2>2. failure = "config" => Broken(Owned)
    BY NoConfigFailure DEF CommandsInv, SettingsInv
  <2>3. Broken(Owned) => asked = <<>> /\ level = None /\ out = <<>> /\ exit # "success"
    BY <2>1 DEF CommandsInv, SettingsInv
  <2> QED
    BY <2>2, <2>3 DEF OnlyOwnConfigCounts
<1>3. CommandsInv => HighestTierWins
  <2> SUFFICES ASSUME CommandsInv, url # <<>>, given.command = "version",
                      NEW k \in TierOf({"bn", "old"}), \A j \in TierOf({"bn", "old"}) : k <= j
      PROVE  url[1] \in {Tiers[k][r] : r \in {"bn", "old"}}
    BY DEF HighestTierWins, Version
  <2>1. url[1] = BnScrapeUrl(stack)
    <3>1. PICK a \in Urls, b \in Urls : url = <<a, b>> /\ a = BnScrapeUrl(stack)
      BY AskedUrls
    <3> QED
      BY <3>1
  <2> QED
    BY <2>1, AskedUrls, HighestTierIs
<1>4. CommandsInv => SettingsAreTheOperators
  BY <1>1, <1>2, <1>3 DEF SettingsAreTheOperators
<1> QED
  BY <1>4, CommandsInvariant, PTL

(* No log level reaches the node but the one that was typed, shown or      *)
(* waved through, whatever the URL serves since it was fetched, and none   *)
(* with an empty list of loggers (run_log_level).                          *)
THEOREM NodeIsToldTheSeen == Spec => []NodeIsToldWhatWasSeen
<1>1. CommandsInv => OnlyWhatWasSeen
  BY DEF CommandsInv, SpecInv, OnlyWhatWasSeen
<1>2. CommandsInv => NoEmptyFilter
  <2>1. \A s \in Specs : s.filter # {}
    <3>1. None # {}
      BY CommandsAssumption
    <3> QED
      BY <3>1 DEF Specs
  <2> QED
    BY <2>1 DEF CommandsInv, SpecInv, NoEmptyFilter
<1>3. CommandsInv => NodeIsToldWhatWasSeen
  BY <1>1, <1>2 DEF NodeIsToldWhatWasSeen
<1> QED
  BY <1>3, CommandsInvariant, PTL

(* The ports a docker stack implies are not bare metal's.                  *)
LEMMA PortsDiffer ==
  ASSUME NEW s \in Docker
  PROVE  ApiUrl(s) # ApiUrl("bare-metal") /\ VcMetricUrl(s) # VcMetricUrl("bare-metal")
BY DEF Docker, ApiUrl, VcMetricUrl

(* A hint is printed when it helps, `version' is consistent, and what is   *)
(* on stdout goes with the exit status (hint_stack, run_version, run).     *)
THEOREM EndsAreSo == Spec => []EndsAreTruthful
<1>1. CommandsInv => HintHelps
  <2> SUFFICES ASSUME CommandsInv, hint # None
      PROVE  /\ asked # <<>> /\ asked[Len(asked)].answer = "unreachable"
             /\ given.flags["stack"] = None /\ given.env["stack"] \notin Stack /\ config["stack"] = None
             /\ [role |-> "bn", stack |-> hint] \in host.containers
             /\ (IF Metrics THEN Stated("vc") ELSE Stated("api")) \/ Port(hint) # url[1]
    BY DEF HintHelps
  <2>1. /\ stack = None /\ url # <<>> /\ given.command # "version" /\ hint \in Docker
        /\ asked # <<>> /\ asked[Len(asked)].answer = "unreachable"
        /\ [role |-> "bn", stack |-> hint] \in host.containers
    BY DEF CommandsInv, EndInv, Version
  <2>2. /\ given \in Invocations /\ TypedRungs(config) /\ stack = StackInForce
    BY <2>1, AskedUrls DEF CommandsInv, SettingsInv
  <2>3. given.flags["stack"] = None /\ given.env["stack"] \notin Stack /\ config["stack"] = None
    BY <2>1, <2>2, StackIsStack
  <2>4. url[1] = IF Metrics THEN VcScrapeUrl(None) ELSE BaseUrl(None)
    <3>1. PICK a \in Urls, b \in Urls :
            /\ url = <<a>> \/ url = <<a, b>>
            /\ a = IF given.command \in {"duties", "validators"} THEN VcScrapeUrl(None) ELSE BaseUrl(None)
      BY <2>1, AskedUrls
    <3>2. url[1] = a
      BY <3>1
    <3> QED
      BY <2>1, <3>1, <3>2 DEF Metrics
  <2>5. \A r \in {"vc", "api"} : ~Stated(r) => Flag(r) = None /\ Env(r) = None /\ config[r] = None
    <3>1. Tiers[1] = given.flags /\ Tiers[2] = given.env /\ Tiers[3] = config
      BY DEF Tiers
    <3> QED
      BY <3>1 DEF Stated, Flag, Env
  <2>6. ~Stated("vc") => VcScrapeUrl(None) = VcMetricUrl("bare-metal")
    BY <2>5, LadderOfThree DEF VcScrapeUrl, ResolveVcMetricUrl, DefaultStack, OrElse
  <2>7. ~Stated("api") => BaseUrl(None) = ApiUrl("bare-metal")
    BY <2>5, LadderOfThree DEF BaseUrl, ResolveBaseUrl, DefaultStack, OrElse
  <2>8. (IF Metrics THEN Stated("vc") ELSE Stated("api")) \/ Port(hint) # url[1]
    BY <2>1, <2>4, <2>6, <2>7, PortsDiffer DEF Port
  <2> QED
    BY <2>1, <2>3, <2>8
<1>2. CommandsInv => EndsAreTruthful
  BY <1>1 DEF CommandsInv, EndInv, EndsAreTruthful
<1> QED
  BY <1>2, CommandsInvariant, PTL

=============================================================================
