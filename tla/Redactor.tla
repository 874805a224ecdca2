------------------------------ MODULE Redactor ------------------------------
(***************************************************************************)
(* The numbering that `Redactor' (redact.rs) keeps for one dump: a number  *)
(* for each sensitive value, counted within its category.  Which pieces of *)
(* a text are sensitive is Redaction's subject.                            *)
(*                                                                         *)
(* A definition that carries another's name and a suffix is that operation *)
(* with a slip in it, kept to show that the properties notice the slip.    *)
(***************************************************************************)
EXTENDS Integers, FiniteSets

CONSTANTS Category,
          Value          \* what may have to be redacted: [cat, text]

ASSUME RedactorAssumption ==
  /\ IsFiniteSet(Value)
  /\ \A v \in Value : v.cat \in Category

VARIABLES assigned,      \* the number each value got, 0 for none
          next           \* the last number given out in each category

redactor == <<assigned, next>>

RedactorTypeOK == assigned \in [Value -> Nat] /\ next \in [Category -> Nat]

RedactorInit ==
  /\ assigned = [v \in Value |-> 0]
  /\ next = [c \in Category |-> 0]

Placeholder(v) == [cat |-> v.cat, number |-> assigned[v]]

(* A value seen before keeps its number. *)
Token_never_bumped(v) ==
  IF assigned[v] # 0 THEN UNCHANGED redactor
  ELSE /\ assigned' = [assigned EXCEPT ![v] = next[v.cat] + 1]
       /\ next' = next
Token(v) ==
  IF assigned[v] # 0 THEN UNCHANGED redactor
  ELSE /\ next' = [next EXCEPT ![v.cat] = @ + 1]
       /\ assigned' = [assigned EXCEPT ![v] = next[v.cat] + 1]

Summary == [values     |-> Cardinality({v \in Value : assigned[v] # 0}),
            categories |-> Cardinality({c \in Category : next[c] # 0})]

-----------------------------------------------------------------------------
(* "The same peer is <peer-1> every time it appears" (USAGE.md), and no    *)
(* other is: the placeholders of a category are numbered from one without  *)
(* a gap, and two values never share one.                                  *)
PlaceholdersTellApart ==
  /\ \A v \in Value : assigned[v] <= next[v.cat]
  /\ \A v, w \in Value :
       assigned[v] # 0 /\ v # w => Placeholder(v) # Placeholder(w)
  /\ \A c \in Category : \A n \in 1..next[c] :
       \E v \in Value : v.cat = c /\ assigned[v] = n

=============================================================================
