------------------------------ MODULE Commands ------------------------------
(***************************************************************************)
(* The commands that ask the node something and print the answer, and      *)
(* `log-level', which changes it (cli.rs, loglevel.rs, config.rs).  One    *)
(* invocation on one host; the node may be away at any call and any answer *)
(* may be wrong, and the body a URL serves may be edited meanwhile.        *)
(*                                                                         *)
(* A definition that carries another's name and a suffix is that operation *)
(* with a slip in it, kept to show that the properties notice the slip.    *)
(***************************************************************************)
EXTENDS Settings

CONSTANTS Hosts,           \* what the host and its node may be
          Invocations,     \* what may be typed, and stand in the environment
          Bodies,          \* what a URL may serve
          Urls,            \* where a node may be asked
          Levels, Loggers  \* what a log level request may name

Command  == {"peers", "health", "head", "duties", "validators", "version", "log-level", "about"}
UrlRungs == {"api", "bn", "old", "vc"}
Rungs    == {"stack"} \cup UrlRungs
Answer   == {"ok", "status", "malformed", "unreachable"}
Family   == {"beacon", "validator"}
Result   == [at : Urls, answer : Answer, has : SUBSET Family]
Failure  == {"config", "spec", "status", "malformed", "unreachable"}
Said     == {"version", "none", "status", "malformed", "unreachable"}
NoBody   == [is |-> "page", level |-> "", filter |-> None]
Unset    == [r \in Rungs \cup {"tz"} |-> None]
Specs    == [level : Levels, filter : {None} \cup ((SUBSET Loggers) \ {{}})]

(* clap and the config parser admit no stack but these; the environment    *)
(* may say anything.                                                       *)
TypedRungs(f) == f["stack"] \in Stack \cup {None} /\ \A r \in UrlRungs : f[r] \in Urls \cup {None}

ASSUME CommandsAssumption ==
  /\ None \notin Urls /\ None \notin Stack \cup Failure \cup {"relative", "nowhere", "success"}
  /\ None \notin Specs /\ None # Unset /\ None # {}
  /\ \A s \in Stack : {ApiUrl(s), BnMetricUrl(s), VcMetricUrl(s)} \subseteq Urls
  /\ \A h \in Hosts :
       /\ h.docker \in BOOLEAN /\ IsFiniteSet(h.containers)
       /\ h.containers \subseteq [role : Slot, stack : Docker]
       /\ h.home \in DOMAIN h.files \cup {None} /\ h.xdg \in DOMAIN h.files \cup {None, "relative"}
       /\ None \notin DOMAIN h.files
       /\ \A f \in DOMAIN h.files :
            /\ h.files[f].is \in {"absent", "toml", "unreadable", "unknown_key"}
            /\ h.files[f].is # "toml" => h.files[f].says = Unset
            /\ h.files[f].says # None /\ TypedRungs(h.files[f].says)
  /\ \A v \in Invocations :
       /\ v.command \in Command /\ v.yes \in BOOLEAN /\ v.filters \subseteq Loggers
       /\ TypedRungs(v.flags) /\ \A r \in UrlRungs : v.env[r] \in Urls \cup {None}
       /\ v.target.scheme = "none" => v.target.level \in Levels
  /\ \A b \in Bodies : b.level \in Levels \cup {""} /\ b.filter \in {None} \cup SUBSET Loggers

VARIABLES host, given,
          web,               \* what the URL that was typed serves
          step, config, stack, url,
          asked,             \* each request so far: where, and what it brought
          spec, previewed,   \* of log-level
          level,             \* what the node was last told
          out, hint, failure, exit

world == <<host, given>>
told  == <<spec, previewed>>
ends  == <<out, hint, failure, exit>>
vars  == <<world, web, step, config, stack, url, asked, told, level, ends>>

Init ==
  /\ host \in Hosts /\ given \in Invocations
  /\ web \in IF given.command = "log-level" THEN Bodies ELSE {NoBody}
  /\ step = "config" /\ config = None /\ stack = None /\ url = <<>>
  /\ asked = <<>> /\ spec = None /\ previewed = None /\ level = None
  /\ out = <<>> /\ hint = None /\ failure = None /\ exit = None

Leave(status) == step' = "left" /\ exit' = status
Fail(kind)    == failure' = kind /\ Leave("failure")

-----------------------------------------------------------------------------
(* The config file: where it is, and what reading it comes to.             *)
ConfigPath_relative_too(xdg, home) == OrElse(xdg, home)
ConfigPath(xdg, home) == IF xdg # None /\ xdg # "relative" THEN xdg ELSE home

(* An absent file is an empty config; an unknown key and an unknown zone   *)
(* are errors, whatever the command.                                       *)
Load(file) ==
  CASE file.is = "absent"                               -> Unset
    [] file.is = "toml" /\ file.says["tz"] # "nowhere"  -> file.says
    [] OTHER                                            -> None

FileRead ==
  LET file == ConfigPath(host.xdg, host.home)
  IN IF file = None THEN Unset ELSE Load(host.files[file])

Config ==
  /\ step = "config"
  /\ IF FileRead = None
     THEN Fail("config") /\ UNCHANGED <<config, out, hint>>
     ELSE /\ config' = FileRead
          /\ IF given.command = "about"
             THEN Leave("success") /\ out' = <<"report">> /\ UNCHANGED <<hint, failure>>
             ELSE /\ step' = IF given.command = "log-level" THEN "target" ELSE "resolve"
                  /\ UNCHANGED ends
  /\ UNCHANGED <<world, web, stack, url, asked, told, level>>

-----------------------------------------------------------------------------
(* resolve_log_level_target, raw_url and parse_spec.                       *)
Filters(names) == IF names = {} THEN None ELSE names

RawUrl(u) == IF u.host = "gist" THEN [u EXCEPT !.path = "raw", !.fragment = FALSE] ELSE u

ParseSpec_empty_list_kept(body) ==
  IF body.is # "request" \/ body.level = "" THEN None
  ELSE [level |-> body.level, filter |-> body.filter]
ParseSpec(body) ==
  IF body.is # "request" \/ body.level = "" THEN None
  ELSE [level |-> body.level,
        filter |-> IF body.filter = None THEN None ELSE Filters(body.filter)]

(* A gist's page is not what its file says.                                *)
Served(u) == IF u.host = "gist" /\ (u.path = "page" \/ u.fragment) THEN NoBody ELSE web

Target ==
  LET t == given.target IN
  /\ step = "target"
  /\ \/ /\ t.scheme = "none"
        /\ spec' = [level |-> t.level, filter |-> Filters(given.filters)]
        /\ step' = "resolve" /\ UNCHANGED <<previewed, ends>>
     \/ /\ t.scheme # "none" /\ (given.filters # {} \/ t.scheme # "https")
        /\ Fail("spec") /\ UNCHANGED <<told, out, hint>>
     \/ /\ t.scheme = "https" /\ given.filters = {}
        /\ LET read == ParseSpec(Served(RawUrl(t))) IN
           IF read = None THEN Fail("spec") /\ UNCHANGED <<told, out, hint>>
           ELSE /\ spec' = read
                /\ previewed' = IF given.yes THEN None ELSE read
                /\ step' = IF given.yes THEN "resolve" ELSE "confirm"
                /\ UNCHANGED ends
  /\ UNCHANGED <<world, web, config, stack, url, asked, level>>

(* Yes; or no, and the command has done what it was told; or an answer     *)
(* that cannot be read.                                                    *)
ConfirmApply ==
  /\ step = "confirm"
  /\ \/ step' = "resolve" /\ UNCHANGED ends
     \/ Leave("success") /\ UNCHANGED <<out, hint, failure>>
     \/ Fail("spec") /\ UNCHANGED <<out, hint>>
  /\ UNCHANGED <<world, web, config, stack, url, asked, told, level>>

-----------------------------------------------------------------------------
(* What an arm of `run' resolves before its first request.                 *)
Flag(r) == given.flags[r]
Env(r)  == given.env[r]

StackInForce == ResolveStack(Flag("stack"), Env("stack"), config["stack"])

BaseUrl(s)      == ResolveBaseUrl(Flag("api"), Env("api"), config["api"], s)
VcScrapeUrl(s)  == ResolveVcMetricUrl(Flag("vc"), Env("vc"), config["vc"], s)
BnScrapeUrl(s)  == ResolveBnMetricUrl(Flag("bn"), Flag("old"), Env("bn"), Env("old"),
                                      config["bn"], config["old"], s)

(* The requests a command makes, one after the other.                      *)
Endpoints(s) ==
  CASE given.command = "version"                   -> <<BnScrapeUrl(s), VcScrapeUrl(s)>>
    [] given.command \in {"duties", "validators"}  -> <<VcScrapeUrl(s)>>
    [] given.command \in {"health", "head"}        -> <<BaseUrl(s), BaseUrl(s)>>
    [] OTHER                                       -> <<BaseUrl(s)>>

Resolve ==
  /\ step = "resolve"
  /\ stack' = StackInForce /\ url' = Endpoints(StackInForce)
  /\ step' = "ask"
  /\ UNCHANGED <<world, web, config, asked, told, level, ends>>

(* What a request may bring: nothing listens there, or nothing in time; a  *)
(* status, or a body that is not the one expected (require_metric makes    *)
(* one of a family that is not there).  A metrics page has the version of  *)
(* a beacon node, of a validator client, of both or of neither.            *)
Listens(u) == u \in host.listens
Brings(u)  == IF Listens(u) THEN Answer ELSE {"unreachable"}

Version == given.command = "version"
Metrics == given.command \in {"duties", "validators", "version"}

Results(u) ==
  {q \in [at : {u}, answer : Brings(u), has : SUBSET Family] :
     q.has # {} => Version /\ q.answer = "ok"}

(* Equal URLs are one process, which is scraped once.                      *)
Scrapes_each == url
Scrapes == IF Version /\ url[1] = url[2] THEN <<url[1]>> ELSE url
Rest    == SubSeq(Scrapes, Len(asked) + 1, Len(Scrapes))

Ask ==
  /\ step = "ask" /\ given.command # "log-level"
  /\ Rest # <<>>
  /\ \E q \in Results(Head(Rest)) :
       /\ asked' = Append(asked, q)
       /\ IF ~Version /\ q.answer # "ok"
          THEN failure' = q.answer /\ step' = "failed" /\ UNCHANGED <<out, hint, exit>>
          ELSE UNCHANGED <<step, ends>>
  /\ UNCHANGED <<world, web, config, stack, url, told, level>>

(* beacon_log_level.  A request that timed out may have been carried out.  *)
Sent_reread == ParseSpec(Served(RawUrl(given.target)))
Sent == spec

SetLogLevel ==
  /\ step = "ask" /\ given.command = "log-level"
  /\ \E a \in Brings(Head(url)) \ {"malformed"} :
       /\ asked' = <<[at |-> Head(url), answer |-> a, has |-> {}]>>
       /\ level' \in (IF a = "ok" THEN {Sent}
                      ELSE IF a = "unreachable" /\ Listens(Head(url)) THEN {Sent, None} ELSE {None})
       /\ IF a = "ok" THEN Leave("success") /\ out' = <<"report">> /\ UNCHANGED <<hint, failure>>
          ELSE failure' = a /\ step' = "failed" /\ UNCHANGED <<out, hint, exit>>
  /\ UNCHANGED <<world, web, config, stack, url, told>>

(* A row of `version': the versions of its family, where a scrape brought  *)
(* any, and else why there are none.  Each row reads its own family, the   *)
(* second one off the scrape of the first if there was no other.           *)
ProcessVersion(u, q, family) ==
  [url |-> u, says |-> IF q.answer # "ok" THEN q.answer
                       ELSE IF family \in q.has THEN "version" ELSE "none"]

VcSource_of_the_beacon_node == asked[1]
VcSource == asked[Len(asked)]

VersionReport ==
  <<ProcessVersion(url[1], asked[1], "beacon"), ProcessVersion(url[2], VcSource, "validator")>>

NoVersion == \A k \in 1..2 : VersionReport[k].says # "version"

(* The report.  `version' fails only if it has no version to show.         *)
Report ==
  /\ step = "ask" /\ given.command # "log-level" /\ Rest = <<>>
  /\ IF Version /\ NoVersion
     THEN failure' = "malformed" /\ step' = "failed" /\ UNCHANGED <<out, hint, exit>>
     ELSE /\ Leave("success") /\ UNCHANGED <<hint, failure>>
          /\ out' = IF Version THEN VersionReport ELSE <<"report">>
  /\ UNCHANGED <<world, web, config, stack, url, asked, told, level>>

(* exit_for_api.                                                           *)
ShouldHint_any_failure(s, e) == s = None
ShouldHint(s, e) == s = None /\ e = "unreachable"

DockerStackHint ==
  LET c == Detected(IF host.docker THEN host.containers ELSE None, "bn", None)
  IN IF c = None THEN None ELSE c.stack

Status_of_the_hint(h) == IF h = None THEN "failure" ELSE "success"
Status(h) == "failure"

ExitForApi ==
  /\ step = "failed"
  /\ hint' = IF ShouldHint(stack, failure) THEN DockerStackHint ELSE None
  /\ Leave(Status(hint'))
  /\ UNCHANGED <<world, web, config, stack, url, asked, told, level, out, failure>>

(* Somebody edits what the URL serves, after it was fetched.               *)
Edit ==
  /\ spec # None /\ step \in {"confirm", "resolve", "ask"} /\ web # NoBody
  /\ web' \in Bodies
  /\ UNCHANGED <<world, step, config, stack, url, asked, told, level, ends>>

Left == step = "left" /\ UNCHANGED vars

Next == Config \/ Target \/ ConfirmApply \/ Resolve \/ Ask \/ SetLogLevel \/ Report
        \/ ExitForApi \/ Edit \/ Left

Spec == Init /\ [][Next]_vars

-----------------------------------------------------------------------------
TypeOK ==
  /\ given.command \in Command /\ web \in Bodies \cup {NoBody}
  /\ step \in {"config", "target", "confirm", "resolve", "ask", "failed", "left"}
  /\ step \notin {"config", "left"} => config # None
  /\ stack \in Stack \cup {None}
  /\ Len(asked) <= Len(url) /\ \A k \in DOMAIN asked : asked[k] \in Result
  /\ {spec, previewed, level} \subseteq Specs \cup {None}
  /\ \/ out \in {<<>>, <<"report">>}
     \/ Version /\ \A k \in 1..2 : out[k].says \in Said
  /\ hint \in Docker \cup {None}
  /\ failure \in Failure \cup {None} /\ exit \in {None, "success", "failure"}

(* "A broken file is reported by whichever command the operator runs       *)
(* first" (cli.rs:305) and a file found only through a relative            *)
(* $XDG_CONFIG_HOME is not the operator's (config.rs:110): whatever the    *)
(* directory tekops is run from holds, the file under an absolute          *)
(* $XDG_CONFIG_HOME, else under $HOME, alone decides whether it runs.      *)
Owned == IF host.xdg \in {None, "relative"} THEN host.home ELSE host.xdg
Broken(file) ==
  /\ file # None
  /\ host.files[file].is \in {"unreadable", "unknown_key"} \/ host.files[file].says["tz"] = "nowhere"

OnlyOwnConfigCounts ==
  /\ failure = "config" => Broken(Owned)
  /\ Broken(Owned) => asked = <<>> /\ level = None /\ out = <<>> /\ exit # "success"

(* A tier that states an endpoint, by either spelling, beats every tier    *)
(* below it, and what the stack implies comes last (cli.rs:907-941).       *)
Tiers == <<given.flags, given.env, config>>

TierOf(rs) == {k \in 1..3 : \E r \in rs : Tiers[k][r] # None}

HighestTierWins ==
  url # <<>> /\ Version =>
    \A k \in TierOf({"bn", "old"}) :
      (\A j \in TierOf({"bn", "old"}) : k <= j) => url[1] \in {Tiers[k][r] : r \in {"bn", "old"}}

(* A command acts on the settings of its operator, and on the highest tier *)
(* that states one (config.rs, cli.rs:859-960).                            *)
SettingsAreTheOperators ==
  /\ TypeOK
  /\ OnlyOwnConfigCounts
  /\ HighestTierWins

(* The hint is printed when it helps: nobody named a stack, in any tier;   *)
(* what failed is a call to the node, and it never got there; a consensus  *)
(* container of that stack runs; and unless a URL was stated, doing as it  *)
(* says asks another port.                                                 *)
Stated(r) == \E k \in 1..3 : Tiers[k][r] # None

Port(s) == IF Metrics THEN VcMetricUrl(s) ELSE ApiUrl(s)

HintHelps ==
  hint # None =>
    /\ asked # <<>> /\ asked[Len(asked)].answer = "unreachable"
    /\ given.flags["stack"] = None /\ given.env["stack"] \notin Stack /\ config["stack"] = None
    /\ [role |-> "bn", stack |-> hint] \in host.containers
    /\ (IF Metrics THEN Stated("vc") ELSE Stated("api")) \/ Port(hint) # url[1]

(* What lands on the node is what the operator typed, or has seen and let  *)
(* through, or has waved through with --yes: the very body, whatever the   *)
(* URL serves since.                                                       *)
OnlyWhatWasSeen ==
  level # None =>
    IF given.target.scheme = "none"
    THEN level = [level |-> given.target.level, filter |-> Filters(given.filters)]
    ELSE given.yes \/ level = previewed

(* An empty list sent to Teku is not the same as none (loglevel.rs:173):   *)
(* no body ever reaches the node with one.                                 *)
NoEmptyFilter == level # None => level.filter # {}

(* No log level reaches the node but the one that was typed or shown, in a *)
(* form Teku reads as it was meant (run_log_level).                        *)
NodeIsToldWhatWasSeen ==
  /\ OnlyWhatWasSeen
  /\ NoEmptyFilter

(* No process is asked twice (build_version_report: "scraped once", not    *)
(* "asking the same URL twice"), so that two rows of one process cannot    *)
(* find it there and away, and "an endpoint that answered but exports no   *)
(* version metric is reported distinctly from one that could not be        *)
(* reached" (process_version): whatever each scrape brought, a row has a   *)
(* version exactly when the page from its URL has one of its kind, and an  *)
(* error exactly when no page came from there.  `version' succeeds exactly *)
(* when one of its rows has a version.                                     *)
Kind == <<"beacon", "validator">>
Answered(k) == \E q \in DOMAIN asked : asked[q].at = url[k] /\ asked[q].answer = "ok"
Has(k)      == \E q \in DOMAIN asked : asked[q].at = url[k] /\ Kind[k] \in asked[q].has

VersionIsConsistent ==
  Version =>
    /\ \A p, q \in DOMAIN asked : asked[p].at = asked[q].at => p = q
    /\ step = "left" /\ url # <<>> =>
         /\ (exit = "success") <=> (\E k \in 1..2 : Has(k))
         /\ exit = "success" =>
              \A k \in 1..2 : /\ (out[k].says = "version") <=> Has(k)
                              /\ (out[k].says \in {"version", "none"}) <=> Answered(k)

(* Stdout carries the one report of a command that succeeded, or nothing:  *)
(* the preview, the prompt and "aborted" are on stderr.                    *)
(* A script may therefore read an empty stdout and a zero status as        *)
(* "declined", and nothing else.                                           *)
OutputTellsTheOutcome ==
  step = "left" =>
    /\ out # <<>> => exit = "success"
    /\ exit = "success" /\ out = <<>> => previewed # None /\ level = None
    /\ out # <<>> /\ given.command = "log-level" => level = spec

(* What a command says at its end - report, hint and exit status - agrees  *)
(* with what the node answered (run, hint_stack, run_version).             *)
EndsAreTruthful ==
  /\ HintHelps
  /\ VersionIsConsistent
  /\ OutputTellsTheOutcome

=============================================================================
