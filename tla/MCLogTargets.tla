---------------------------- MODULE MCLogTargets ----------------------------
(* Values for the constants of LogTargets: two consensus containers of one *)
(* stack and one of the other, so that a detection finds none, one or too  *)
(* many, with and without a stack to narrow it; and a validator.           *)
EXTENDS LogTargets

Running(role, stack, project) == [role |-> role, stack |-> stack, project |-> project]

const_Containers ==
  {Running("bn", "eth-docker", 1), Running("bn", "eth-docker", 2),
   Running("bn", "rocketpool", 1), Running("vc", "rocketpool", 1)}

=============================================================================
