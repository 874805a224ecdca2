--------------------------- MODULE MCCompletions ---------------------------
(* Values for the constants of Completions.                                *)
EXTENDS Completions, TLC

Env(shell, home, base) == [shell |-> shell, home |-> home, data |-> base, config |-> base]

(* A plain account, one that moves its data elsewhere, one with no $HOME   *)
(* and a shell that is none of the three.                                  *)
const_Environment ==
  {Env("zsh", TRUE, "home"), Env("fish", TRUE, "elsewhere"), Env("other", FALSE, "home")}

(* The invocations are alike.                                              *)
Symmetry == Permutations(Installer)

=============================================================================
