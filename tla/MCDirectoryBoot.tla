--------------------------- MODULE MCDirectoryBoot ---------------------------
(* An employee, a former employee and a user and a group of an earlier          *)
(* version; a laptop and a server.  An earlier directory may have any of them,  *)
(* in any group, enabled or not, and the laptop in any place.                   *)
EXTENDS DirectoryBoot

MCOus       == <<"Workstations", "Laptops", "Servers">>
MCGroups    == <<"Employees", "Former">>
MCUsers     == <<"jordan", "taylor">>
MCOldUsers  == <<"kim">>
MCOldGroups == <<"Floor1">>
MCComputers == <<"LTP01", "FILE01">>
MCBaseline  == ("jordan" :> {"Employees"}) @@ ("taylor" :> {"Former"})
MCPlace     == ("LTP01" :> "Laptops") @@ ("FILE01" :> "Servers")

MCMember(users, groups) ==
  {m \in [AllUsers -> SUBSET groups] : \A u \in AllUsers \ users : m[u] = {}}

MCExisting ==
  UNION {UNION {
    {[ous |-> {"Workstations"}, groups |-> groups, users |-> users, member |-> m, disabled |-> d,
      place |-> [LTP01 |-> p, FILE01 |-> "none"], nested |-> FALSE, settings |-> FALSE] :
        m \in MCMember(users, groups), d \in SUBSET (users \cap Disabled), p \in {"none", "Workstations"}}
    : groups \in {{"Employees"}, {"Employees", "Floor1"}}}
    : users \in SUBSET AllUsers}
=============================================================================
