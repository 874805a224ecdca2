------------------------------- MODULE MCSkew -------------------------------
(***************************************************************************)
(* Two sources in units of a tolerance: one zone step is four of them.     *)
(* The delays reach past two steps and stop at every distance from them,   *)
(* so a backlog can be caught exactly one step, nearly one step and        *)
(* clearly between two steps behind the other source.                      *)
(***************************************************************************)
EXTENDS SkewClocks

const_Clocks == {0, 1, 4, 8}
const_Delays == 0..9

=============================================================================
