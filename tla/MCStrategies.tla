---------------------------- MODULE MCStrategies ----------------------------
(***************************************************************************)
(* Three backends with the weights of config/backends.js, and a hash of    *)
(* virtual nodes that collides across backends and leaves gaps between     *)
(* its values and above them.                                              *)
(***************************************************************************)
EXTENDS Strategies

MCPool == <<"b1", "b2", "b3">>
MCInitWeight == [b \in Members |-> IF b = "b1" THEN 3 ELSE IF b = "b2" THEN 2 ELSE 1]
MCPlace(b) == IF b = "b1" THEN 0 ELSE IF b = "b2" THEN 1 ELSE 2
MCHashes == {[<<b, i>> \in Members \X (0..3) |-> 2 * ((2 * (i + MCPlace(b))) % 5)]}
MCOutcomes == {[latency |-> 1200, error |-> FALSE], [latency |-> 10, error |-> TRUE]}
=============================================================================
