----------------------- MODULE MC_TestValidatorRunner -----------------------
(***************************************************************************)
(* Small instances of TestValidatorRunner for TLC.  Ports 0..7 stand for   *)
(* the u16 range; random bases 1 and 2 give port sets 1..5 and 2..6 that   *)
(* overlap in four ports; a gossip range of two ports keeps the loops of   *)
(* run_internal and Drop more than one step long.                          *)
(***************************************************************************)
EXTENDS TestValidatorRunner, TLC

(* The explicit TestValidatorPorts: the layout of base 1 (shaped like the  *)
(* builder's defaults 8899/8900/9900/(8001, 8021)) and one overlapping it. *)
MCExplicitBoth == {Layout(1), Layout(2)}

MCExplicitOne == {Layout(1)}

MCExplicitNone == {}

(* Explicit ports whose pubsub is not rpc + 1, next to a random search.   *)
MCExplicitSkewed ==
    {[rpc |-> 1, pubsub |-> 3, faucet |-> 4, gossip_range |-> <<5, 6>>]}

MCSymmetry == Permutations(Runner)
=============================================================================
