-------------------------- MODULE MCAppLifecycle ----------------------------
(* Model-checking instance of AppLifecycle: one VM, two instance names.    *)
EXTENDS AppLifecycle, TLC

MCName == {"givc-chrome-vm", "microvm@chrome-vm", "chrome@0", "chrome@1"}
MCVm == {"chrome-vm"}
MCParseVm == [n \in MCName |-> IF n = "microvm@chrome-vm" THEN {"chrome-vm"} ELSE {}]
MCInstance == <<"chrome@0", "chrome@1">>
MCRegistrable == {AgentEntry} \cup {AppEntry(n, s) : n \in Instances, s \in {StatusActive, StatusFrozen}}
MCReported == {StatusActive, StatusFrozen, StatusFailed, StatusDead}
MCWatcher == {}

Symmetry == Permutations(Caller)
=============================================================================
