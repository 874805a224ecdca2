------------------------------ MODULE Settings ------------------------------
(***************************************************************************)
(* How tekops settles a setting: the ladders of cli.rs, each a pure        *)
(* function of what the command line, the environment and the config file  *)
(* say.  A setting that was not given is None; a path or a URL is a value. *)
(*                                                                         *)
(* A definition that carries another's name and a suffix is that operation *)
(* with a slip in it, kept to show that the properties notice the slip.    *)
(***************************************************************************)
EXTENDS DockerStacks, Sequences, FiniteSetsExt

CONSTANTS DefaultDataDir, Empty

FirstOf(rungs) ==
  LET given == {k \in DOMAIN rungs : rungs[k] # None}
  IN IF given = {} THEN None ELSE rungs[Min(given)]

(* A stack the environment names wrongly is as if it named none; the other *)
(* two tiers reject such a value before this is reached.                   *)
ResolveStack_env_unread(flag, env, cfg) == FirstOf(<<flag, env, cfg>>)
ResolveStack(flag, env, cfg) ==
  FirstOf(<<flag, IF env \in Stack THEN env ELSE None, cfg>>)

(* The zone, with where it was named; an empty variable is unset.          *)
From(v, origin) == IF v = None THEN None ELSE [zone |-> v, origin |-> origin]

ResolveTz_empty_is_a_zone(flag, env, cfg) ==
  FirstOf(<<From(flag, "--tz"), From(env, "$TEKOPS_TZ"), From(cfg, "config tz")>>)
ResolveTz(flag, env, cfg) ==
  FirstOf(<<From(flag, "--tz"),
            From(IF env = Empty THEN None ELSE env, "$TEKOPS_TZ"),
            From(cfg, "config tz")>>)

DefaultStack(stack) == OrElse(stack, "bare-metal")

ResolveBaseUrl(flag, env, cfg, stack) ==
  OrElse(FirstOf(<<flag, env, cfg>>), ApiUrl(DefaultStack(stack)))

(* The old spelling is beaten by the new one of its own tier, and beats    *)
(* every tier below.                                                       *)
ResolveBnMetricUrl_new_spellings_first(flag, legacy_flag, env, legacy_env, cfg, legacy_cfg, stack) ==
  OrElse(FirstOf(<<flag, env, cfg, legacy_flag, legacy_env, legacy_cfg>>),
         BnMetricUrl(DefaultStack(stack)))
ResolveBnMetricUrl(flag, legacy_flag, env, legacy_env, cfg, legacy_cfg, stack) ==
  OrElse(FirstOf(<<flag, legacy_flag, env, legacy_env, cfg, legacy_cfg>>),
         BnMetricUrl(DefaultStack(stack)))

ResolveVcMetricUrl(flag, env, cfg, stack) ==
  OrElse(FirstOf(<<flag, env, cfg>>), VcMetricUrl(DefaultStack(stack)))

(* doctor's: what is stated, then what docker shows, then bare metal.  A   *)
(* lone consensus container runs the validator client too.                 *)
ResolveDoctorStack(stated, detected) == FirstOf(<<stated, detected, "bare-metal">>)

ResolveDoctorVcStack_own_container_alone(stated, detected_vc, detected_bn) ==
  ResolveDoctorStack(stated, detected_vc)
ResolveDoctorVcStack(stated, detected_vc, detected_bn) ==
  ResolveDoctorStack(stated, OrElse(detected_vc, detected_bn))

ResolveDoctorDataDir_default_everywhere(flag, env, cfg, stack) ==
  FirstOf(<<flag, env, cfg, DefaultDataDir>>)
ResolveDoctorDataDir(flag, env, cfg, stack) ==
  FirstOf(<<flag, env, cfg, IF stack = "bare-metal" THEN DefaultDataDir ELSE None>>)

DoctorNeedsDockerPs(stated) == stated # "bare-metal"

=============================================================================
