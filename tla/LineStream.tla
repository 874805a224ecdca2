----------------------------- MODULE LineStream -----------------------------
(***************************************************************************)
(* What the merger promises the rest of the program, with the ordering     *)
(* left out: each source's lines come out in the order they went in, none  *)
(* of them twice and none passed over, and nothing goes in after the       *)
(* source has finished.  Merger implements this; Session is built on it.   *)
(***************************************************************************)
EXTENDS LogSources

VARIABLES fed,        \* lines each source has delivered
          handed,     \* lines of each source that have come out
          finished    \* the source will deliver no more

streamVars == <<fed, handed, finished>>

StreamTypeOK ==
  /\ fed \in [Source -> Nat]
  /\ handed \in [Source -> Nat]
  /\ finished \in [Source -> BOOLEAN]

StreamInit ==
  /\ fed = [s \in Source |-> 0]
  /\ handed = [s \in Source |-> 0]
  /\ finished = [s \in Source |-> FALSE]

Deliver(s) ==
  /\ ~finished[s]
  /\ fed' = [fed EXCEPT ![s] = @ + 1]
  /\ UNCHANGED <<handed, finished>>

FinishSource(s) ==
  /\ ~finished[s]
  /\ finished' = [finished EXCEPT ![s] = TRUE]
  /\ UNCHANGED <<fed, handed>>

(* The next lines of some sources come out, at most those that went in. *)
HandOut ==
  /\ handed' \in [Source -> UNION {0..fed[s] : s \in Source}]
  /\ \A s \in Source : handed[s] <= handed'[s] /\ handed'[s] <= fed[s]
  /\ UNCHANGED <<fed, finished>>

StreamNext ==
  \/ \E s \in Source : Deliver(s) \/ FinishSource(s)
  \/ HandOut

StreamSpec == StreamInit /\ [][StreamNext]_streamVars

=============================================================================
