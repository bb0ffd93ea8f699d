----------------------------- MODULE MCMonitoring -----------------------------
(* The core switch, the file server behind it, and one account.  Two of the   *)
(* interfaces CORE01 depends on are enough for a reading that spans a change; *)
(* a refused exec stands for the refused inspect of its container too.        *)
EXTENDS Monitoring

MCDevices  == {"CORE01", "FILE01"}
MCTypeOf   == [CORE01 |-> "layer3_core_switch", FILE01 |-> "file_server"]
MCUpstream == [CORE01 |-> {}, FILE01 |-> {"CORE01"}]
MCLinks    == [CORE01 |-> <<"eth2", "br-services">>, FILE01 |-> <<"container">>]
MCOutages  == [CORE01 |-> {{}, {"eth2"}, {"br-services"}}, FILE01 |-> {{}, {"container"}}]
MCReports  == [CORE01 |-> {Online}, FILE01 |-> {Online}]

\* The file server alone, whose services fail.  At most two conditions hold at once, one of
\* FILE01 and one of the directory or the account, so that a history of two records is long
\* enough for every condition and only recurrences fill it.
FileServerOnly == {"FILE01"}
NoUpstream     == [FILE01 |-> {}]
Faults         == [FILE01 |-> {Online, [status |-> "online", faults |-> {"smb"}]}]

MCIssues  == {<<"alex.kim", "locked">>}
=============================================================================
