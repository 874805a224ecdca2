------------------------------ MODULE MCUpdate ------------------------------
(* Values for the constants of Update: two builds of two versions, and one *)
(* that differs from the second in a way `--version' does not show. A      *)
(* release may hold the wrong one of them, or none.                        *)
EXTENDS Update, TLC

const_Build == {"one", "two", "twoAltered"}

const_Reports ==
  [build \in const_Build |-> IF build = "one" THEN "1.0" ELSE "2.0"]

const_Shells == <<"bash">>
const_NoShell == <<>>

(* The invocations are alike: only invariants are checked. *)
Symmetry == Permutations(Updater)

=============================================================================
