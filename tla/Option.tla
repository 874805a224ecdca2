------------------------------- MODULE Option -------------------------------
(***************************************************************************)
(* Rust's Option: a value, or None.                                        *)
(***************************************************************************)
CONSTANT None

OrElse(a, b) == IF a # None THEN a ELSE b

=============================================================================
