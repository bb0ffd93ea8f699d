--------------------------- MODULE MCProvisioning ---------------------------
(* One office workstation with its user, and a newcomer.                      *)
EXTENDS Provisioning, TLC

Symmetry == Permutations(Requests)

MCUsers       == <<"jordan.lee", "newcomer">>
MCBaseline    == [u \in {"jordan.lee"} |-> "WS01"]
MCOfficeHosts == [h \in {"WS01"} |-> "Finance"]
=============================================================================
