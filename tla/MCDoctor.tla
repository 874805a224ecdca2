------------------------------ MODULE MCDoctor ------------------------------
(* The deployments of stack.rs, well and ill, and a handful of invocations. *)
EXTENDS Doctor, TLC

Well(port) ==
  [at |-> port, health |-> "ready", finality |-> 8, peers |-> 2,
   syncing |-> [is_syncing |-> FALSE, el_offline |-> FALSE, is_optimistic |-> FALSE, head_slot |-> 20]]
Ill(port) ==
  [at |-> port, health |-> "syncing", finality |-> NaN, peers |-> None,
   syncing |-> [is_syncing |-> TRUE, el_offline |-> TRUE, is_optimistic |-> FALSE, head_slot |-> 20]]

BnPage  == [beacon |-> TRUE, validator |-> FALSE, active |-> None, published |-> None]
VcPage  == [beacon |-> FALSE, validator |-> TRUE, active |-> 1, published |-> 1]
Both    == [beacon |-> TRUE, validator |-> TRUE, active |-> 1, published |-> 1]
Keyless == [beacon |-> TRUE, validator |-> TRUE, active |-> None, published |-> 0]

Container(role, stack, restarts) ==
  [role |-> role, stack |-> stack, restarts |-> restarts, mount |-> role]

Node(api, bn, vc, pages, containers, memory) ==
  [api |-> api, bn |-> bn, vc |-> vc, pages |-> pages, containers |-> containers,
   free |-> [p \in {"/var/lib/teku", "bn"} |-> 9], memory |-> memory,
   load |-> 1, cpus |-> 2]

MCNodes ==
  {Node(Well(5051), 8008, 8010, 8008 :> BnPage @@ 8010 :> VcPage, {}, 9),
   Node(Well(5052), 8008, 8009, 8008 :> BnPage @@ 8009 :> VcPage,
        {Container("bn", "eth-docker", 0), Container("vc", "eth-docker", 0)}, 9),
   Node(Well(5052), 8008, 8009, 8008 :> BnPage @@ 8009 :> VcPage, {Container("bn", "eth-docker", 0)}, 9),
   Node(Well(5051), 8008, 9101, 8008 :> BnPage @@ 9101 :> VcPage, {Container("vc", "rocketpool", 0)}, 9),
   Node(Ill(5052), 9100, 9100, 9100 :> Both, {Container("bn", "rocketpool", 6)}, None),
   Node(Ill(5051), 8008, 8008, 8008 :> Keyless, {}, None)}

NothingStated == [s \in {"stack", "api", "bn", "legacy", "vc", "data"} |-> None]

MCGivens ==
  {NothingStated,
   [NothingStated EXCEPT !.stack = "rocketpool"], [NothingStated EXCEPT !.stack = "bare-metal"],
   [NothingStated EXCEPT !.legacy = 8010], [NothingStated EXCEPT !.vc = 8008],
   [NothingStated EXCEPT !.api = 8008, !.data = "nowhere"]}

=============================================================================
