------------------------------ MODULE MCPrinter ------------------------------
(* Instances of Printer for TLC: eight sheets and three units of toner, jobs *)
(* of two pages (one unit) and six pages (two units), so that both supplies  *)
(* run short for one kind of job while they suffice for the other.           *)
EXTENDS Printer

CONSTANTS h1, h2, wks, intruder

TwoHandlers == {h1, h2}
AllSources  == {wks, intruder}
Allowed     == {wks}
TwoSizes    == {2, 6}
=============================================================================
