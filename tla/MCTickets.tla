------------------------------ MODULE MCTickets ------------------------------
(* One printer, SMB with one share, and one employee with a workstation:     *)
(* scenarios of no, one and two faults, with and without undo, that compete  *)
(* for resources, one of them for more than it tests.                        *)
EXTENDS Tickets, TLC

MCFacts    == {"online", "toner", "smb", "share", "connected", "left"}
MCSourceOf == [online |-> "devices", toner |-> "devices", connected |-> "devices",
               smb |-> "files", share |-> "files", left |-> "directory"]

Ready == {"online", "toner"}

\* A scenario that tests every resource it holds.
Testing(scenario, resources) ==
  [resources |-> resources, tested |-> resources] @@ scenario

PrinterOffline == Testing(
  [difficulty |-> "easy", requires |-> Ready, lacks |-> {}, faults |-> <<"online">>,
   undo |-> FALSE, checks |-> <<Ready>>], {"device:PRNT01"})
WorkstationOffline == Testing(
  [difficulty |-> "easy", requires |-> {"connected"}, lacks |-> {}, faults |-> <<"connected">>,
   undo |-> FALSE, checks |-> <<{"connected"}>>], {"device:WS01"})
OffboardEmployee ==
  [difficulty |-> "hard", requires |-> {}, lacks |-> {"left"}, faults |-> <<>>,
   undo |-> FALSE, checks |-> <<{"left"}>>,
   resources |-> {"user:alex.kim", "device:WS01"}, tested |-> {"user:alex.kim"}]
PrinterOfflineAndToner == Testing(
  [difficulty |-> "hard", requires |-> Ready, lacks |-> {}, faults |-> <<"toner", "online">>,
   undo |-> FALSE, checks |-> <<Ready, {"toner"}>>], {"device:PRNT01"})
FileServiceAndShare == Testing(
  [difficulty |-> "hard", requires |-> {"smb", "share"}, lacks |-> {},
   faults |-> <<"smb", "share">>, undo |-> TRUE, checks |-> <<{"smb"}, {"share"}>>],
  {"service:FILE01:SMB", "share:Finance"})

PrinterAndFiles == {PrinterOffline, FileServiceAndShare}
AllScenarios == {PrinterOffline, WorkstationOffline, OffboardEmployee, PrinterOfflineAndToner,
                 FileServiceAndShare}
=============================================================================
