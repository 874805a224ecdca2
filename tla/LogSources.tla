----------------------------- MODULE LogSources -----------------------------
(***************************************************************************)
(* The processes a session reads, numbered in the order the merger was     *)
(* given them (merge.rs, enum Source and Merger::sources).                 *)
(***************************************************************************)
EXTENDS Integers, Option

CONSTANT N      \* number of sources

ASSUME SourcesAssumption ==
  /\ N \in Nat \ {0}
  /\ None \notin Int

Source == 1..N

=============================================================================
