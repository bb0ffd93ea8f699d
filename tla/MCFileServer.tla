----------------------------- MODULE MCFileServer ----------------------------
(* One share with a group that only reads it, listed after the group that     *)
(* may write it: the order a level must not depend on.                        *)
EXTENDS FileServer, TLC

Symmetry == Permutations(Requests)

MCReadGroups  == [ITTools |-> <<"IT-Admins", "Helpdesk">>]
MCWriteGroups == [ITTools |-> <<"IT-Admins">>]
=============================================================================
