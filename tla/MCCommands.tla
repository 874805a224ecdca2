----------------------------- MODULE MCCommands -----------------------------
(* Values for the constants of Commands: hosts that run one deployment or  *)
(* two and answer at a port of the operator's choice (7001) besides,       *)
(* invocations that state up to two rungs.                                 *)
EXTENDS Commands

C(role, s) == [role |-> role, stack |-> s]
const_Urls == {7001, 7002, 7003, 5051, 5052, 9100, 8008, 8010, 8009, 9101}
Ports(s)       == {ApiUrl(s), BnMetricUrl(s), VcMetricUrl(s)}

NodeHost(stacks, docker) ==
  [listens |-> {7001} \cup UNION {Ports(s) : s \in stacks}, docker |-> docker,
   containers |-> {C("bn", s) : s \in stacks \cap Docker}]

Home(xdg, home, mine, other) ==
  [xdg |-> xdg, home |-> home,
   files |-> [f \in {"home", "xdg", "relative"} |-> IF f = "home" THEN mine ELSE other]]

File(is)   == [is |-> is, says |-> Unset]
Says(r, v) == [is |-> "toml", says |-> [Unset EXCEPT ![r] = v]]
Absent     == File("absent")
NoRungs    == [r \in Rungs |-> None]
Rung(r, v) == [NoRungs EXCEPT ![r] = v]

Stacks1 == {{"bare-metal"}, {"eth-docker"}, {"rocketpool"}, {"bare-metal", "eth-docker"},
            {"eth-docker", "rocketpool"}}

Plain == Home(None, "home", Absent, Absent)
Files == {Plain, Home("relative", "home", Says("stack", "rocketpool"), File("unknown_key")),
          Home("xdg", None, Absent, File("unreadable")),
          Home("xdg", "home", File("unknown_key"), Says("vc", 7002)),
          Home(None, "home", Says("tz", "nowhere"), Absent), Home(None, None, Absent, Absent),
          Home(None, "home", Says("bn", 7001), Absent), Home(None, "home", Says("old", 7002), Absent)}

Merge(a, b) == [k \in DOMAIN a \cup DOMAIN b |-> IF k \in DOMAIN a THEN a[k] ELSE b[k]]

const_Hosts ==
  {Merge(NodeHost(s, TRUE), f) : s \in Stacks1, f \in Files}
    \cup {Merge(NodeHost({"eth-docker"}, FALSE), Plain)}

Tier == {NoRungs} \cup {Rung("stack", s) : s \in {"bare-metal", "eth-docker"}}
        \cup {Rung("api", 7001)}
        \cup {Rung("bn", 7001), Rung("old", 7003), Rung("vc", 7001)}

(* A command takes the flags of the endpoints it asks.                     *)
Takes(c) == {"stack"} \cup CASE c \in {"duties", "validators"} -> {"vc"}
                            [] c = "version" -> {"bn", "old", "vc"}
                            [] OTHER -> {"api"}
Flags(c) == {f \in Tier : \A r \in Rungs \ Takes(c) : f[r] = None}

Level(l)   == [scheme |-> "none", level |-> l, host |-> "none", path |-> "none", fragment |-> FALSE]
Url(s, h, p, f) == [scheme |-> s, level |-> "none", host |-> h, path |-> p, fragment |-> f]

Targets == {Level("debug"), Url("https", "gist", "page", TRUE), Url("https", "gist", "raw", FALSE),
            Url("https", "else", "file", FALSE), Url("http", "else", "file", FALSE)}

Typed(command, flags, env, target, filters, yes) ==
  [command |-> command, flags |-> flags, env |-> env, target |-> target, filters |-> filters, yes |-> yes]

const_Invocations ==
  UNION {{Typed(c, f, e, Level("debug"), {}, FALSE) : f \in Flags(c), e \in Tier \cup {Rung("stack", "mistyped")}} :
     c \in Command \ {"log-level", "about"}}
  \cup {Typed("log-level", NoRungs, e, t, fs, y) :
     e \in {NoRungs, Rung("stack", "eth-docker")}, t \in Targets, fs \in {{}, {"net"}}, y \in BOOLEAN}
  \cup {Typed("about", NoRungs, NoRungs, Level("debug"), {}, FALSE)}

Body(is, l, f) == [is |-> is, level |-> l, filter |-> f]
const_Bodies ==
  {Body(is, "debug", None) : is \in {"unfetched", "page", "unknown_key"}}
    \cup {Body("request", l, f) : l \in {"debug", "info", ""}, f \in {None, {}, {"net"}}}

=============================================================================
