---------------------------- MODULE MCRegistry ------------------------------
(* Model-checking instance of Registry: one VM with its agent and one app  *)
(* that the agent manages, and the host's entry for the VM itself.         *)
EXTENDS Registry

Running == [active |-> "active", sub |-> "running", load |-> "loaded", freezer |-> "running"]
Dead == [active |-> "inactive", sub |-> "dead", load |-> "not-found", freezer |-> "error"]

VmUnit == [name |-> "microvm@chrome-vm", type |-> [vm |-> "AppVM", service |-> "VM"],
           status |-> Running, watch |-> TRUE, placement |-> [kind |-> "Endpoint", vm |-> ""]]
Agent == [name |-> "givc-chrome-vm", type |-> [vm |-> "AppVM", service |-> "Mgr"],
          status |-> Running, watch |-> TRUE,
          placement |-> [kind |-> "Endpoint", vm |-> "chrome-vm"]]
App == [name |-> "chrome@0", type |-> [vm |-> "AppVM", service |-> "App"],
        status |-> Running, watch |-> TRUE,
        placement |-> [kind |-> "Managed", vm |-> VmUnit.name, by |-> Agent.name]]

MCName == {VmUnit.name, Agent.name, App.name}
MCVm == {"chrome-vm"}
MCParseVm == [n \in MCName |-> IF n = VmUnit.name THEN {"chrome-vm"} ELSE {}]
MCRegistrable == {VmUnit, Agent, App}
MCReported == {Running, Dead}
=============================================================================
