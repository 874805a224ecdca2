------------------------------ MODULE Terminal ------------------------------
(***************************************************************************)
(* sanitize (term.rs), over characters told apart by what the terminal     *)
(* does with them: ESC and [, the three ranges of a control sequence, the  *)
(* tab, the other controls, and text beyond them.                          *)
(***************************************************************************)
EXTENDS Scan

Parameter    == {"digit"}
Intermediate == {"space"}
Final        == {"m", "bracket"}
Control      == {"ESC", "BEL", "C1"}
Char         == Parameter \cup Intermediate \cup Final \cup Control \cup {"TAB", "text"}

IsSafe(c) == c \notin Control

(* The end of a run of characters of a range.                              *)
RunEnd(s, from, range) ==
  CHOOSE j \in from..(Len(s) + 1) :
    (j = Len(s) + 1 \/ s[j] \notin range) /\ \A i \in from..(j - 1) : s[i] \in range

FindCsiFinal(s, start) ==
  LET j == RunEnd(s, RunEnd(s, start, Parameter), Intermediate)
  IN IF j <= Len(s) /\ s[j] \in Final THEN j ELSE 0

(* A whole control sequence goes; an aborted one is one replacement for    *)
(* its two first characters.                                               *)
Introduced(s, i) == s[i] = "ESC" /\ i < Len(s) /\ s[i + 1] = "bracket"
Said(s, i) ==
  IF ~Introduced(s, i) THEN <<IF IsSafe(s[i]) THEN s[i] ELSE "replacement">>
  ELSE IF FindCsiFinal(s, i + 2) # 0 THEN <<>> ELSE <<"replacement">>
After(s, i) ==
  IF ~Introduced(s, i) THEN i + 1
  ELSE IF FindCsiFinal(s, i + 2) # 0 THEN FindCsiFinal(s, i + 2) + 1 ELSE i + 2

Sanitize(s) ==
  Walk(Len(s), [i \in DOMAIN s |-> Said(s, i)], [i \in DOMAIN s |-> After(s, i)])[1]

-----------------------------------------------------------------------------
(* A prefix in the middle of a control sequence: it ends in ESC, or in     *)
(* ESC [ and parameters and intermediates.                                 *)
Open(s) ==
  \E i \in DOMAIN s :
    /\ s[i] = "ESC"
    /\ i < Len(s) => /\ s[i + 1] = "bracket"
                     /\ RunEnd(s, RunEnd(s, i + 2, Parameter), Intermediate) = Len(s) + 1

(* What can be read of a text whatever is done with its controls.          *)
Readable(s) ==
  Walk(Len(s), [i \in DOMAIN s |-> IF s[i] \in {"TAB", "text"} THEN <<s[i]>> ELSE <<>>],
       [i \in DOMAIN s |-> i + 1])[1]

=============================================================================
