-------------------------- MODULE MCInfrastructure --------------------------
(* CORE01 with its uplink (optional), one access link and the services bridge, *)
(* and one access switch; and, for the routes, the router alone.              *)
EXTENDS Infrastructure, TLC

MCInterfaces   == [CORE01 |-> <<"eth1", "eth2", "br-services">>, SW01 |-> <<"br0">>]
MCOptional     == [CORE01 |-> {"eth1"}, SW01 |-> {}]
MCStaticRoutes == [CORE01 |-> {}, SW01 |-> {"br0"}]

RouterInterfaces == [RTR01 |-> <<"eth1">>, CORE01 |-> <<"eth2">>]
RouterOptional   == [RTR01 |-> {}, CORE01 |-> {}]
RouterRoutes     == [RTR01 |-> {"eth1"}, CORE01 |-> {}]

Symmetry == Permutations(Requests)
=============================================================================
