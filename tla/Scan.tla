-------------------------------- MODULE Scan --------------------------------
(* The loop of a scanner that takes one piece of its text after the other  *)
(* (sanitize of term.rs, redact_urls and redact_home_paths of redact.rs).  *)
EXTENDS Integers, Sequences

(* A loop over n characters: it writes said[i] at the i-th, then goes on   *)
(* at next[i].                                                             *)
Walk(n, said, next) ==
  LET out[i \in 1..(n + 1)] == IF i > n THEN <<>> ELSE said[i] \o out[next[i]]
  IN out

=============================================================================
