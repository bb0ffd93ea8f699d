---------------------------- MODULE MCWorkstation ----------------------------
(* Two workstations with two threads each, which share one printer.          *)
EXTENDS Workstation, TLC

Symmetry ==
  {[x \in Handlers \cup Workstations |-> IF x \in Handlers THEN p[x] ELSE q[x]] :
     p \in Permutations(Handlers), q \in Permutations(Workstations)}
=============================================================================
