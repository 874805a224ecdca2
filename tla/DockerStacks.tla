---------------------------- MODULE DockerStacks ----------------------------
(***************************************************************************)
(* The deployments tekops knows, and how it tells them by the names of the *)
(* containers that run (stack.rs).                                         *)
(*                                                                         *)
(* A definition that carries another's name and a suffix is that operation *)
(* with a slip in it, kept to show that the properties notice the slip.    *)
(***************************************************************************)
EXTENDS Integers, FiniteSets, Option

Slot   == {"bn", "vc"}
Docker == {"eth-docker", "rocketpool"}
Stack  == {"bare-metal"} \cup Docker

(* A container's name gives its role and its stack away. *)
Matches(names, role, stack) ==
  {c \in names : c.role = role /\ (stack = None \/ c.stack = stack)}

(* detect_role: the one container that matches, never a guess. *)
Detected_any(names, role, stack) ==
  IF names # None /\ Matches(names, role, stack) # {}
  THEN CHOOSE c \in Matches(names, role, stack) : TRUE
  ELSE None
Detected(names, role, stack) ==
  IF names # None /\ Cardinality(Matches(names, role, stack)) = 1
  THEN CHOOSE c \in Matches(names, role, stack) : TRUE
  ELSE None

(* Where the processes of a deployment listen unless told otherwise: the   *)
(* port stands for the URL.                                                *)
ApiUrl(stack)      == IF stack = "bare-metal" THEN 5051 ELSE 5052
BnMetricUrl(stack) == IF stack = "rocketpool" THEN 9100 ELSE 8008
VcMetricUrl(stack) ==
  CASE stack = "bare-metal" -> 8010
    [] stack = "eth-docker" -> 8009
    [] stack = "rocketpool" -> 9101

=============================================================================
