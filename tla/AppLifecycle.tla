---------------------------- MODULE AppLifecycle ----------------------------
(***************************************************************************)
(* The life of an application in an application VM, as the admin server    *)
(* sees it: `start_app` calls and stop, pause and resume requests that run *)
(* concurrently, the monitor task that polls what is registered, the agent *)
(* that registers itself when its VM comes up, and the units of the VM     *)
(* (crates/admin/src/admin/server.rs, modules/pkgs/servicemanager).  The   *)
(* registry is the module Registry, whose operations the steps here are    *)
(* built from.                                                             *)
(*                                                                         *)
(* One VM, one application, one agent.  The admin's calls to the agent and *)
(* to the host are remote: each is a step that reads or changes the VM and *)
(* a later step that uses the answer, and each can fail.  The host agent   *)
(* is registered and answers.                                              *)
(***************************************************************************)
EXTENDS Registry

CONSTANTS
  Caller,     \* concurrent calls of the application interface
  Request,    \* the requests made for registered applications
  AgentName,  \* givc-<vm>.service
  VmService,  \* microvm@<vm>.service
  AppVm,      \* <vm>
  Instance,   \* Instance[i]: the unit name <app>@<i-1>.service
  MaxFaults   \* bound on remote calls that fail and on crashes of the VM

Instances == {Instance[i] : i \in DOMAIN Instance}

ASSUME AppAssumption ==
  /\ AgentName \in Name \ Instances
  /\ VmService \in Name \ Instances
  /\ AppVm \in Vm
  /\ Instance \in Seq(Name)
  /\ \A n \in Instances : ParseVm[n] = {}
  /\ Request \subseteq {"stop", "pause", "resume"}
  /\ MaxFaults \in Nat

StatusActive == [active |-> "active", sub |-> "running", load |-> "loaded", freezer |-> "running"]
StatusFrozen == [StatusActive EXCEPT !.freezer = "frozen"]
StatusFailed == [active |-> "failed", sub |-> "failed", load |-> "loaded", freezer |-> "running"]
StatusDead == [active |-> "inactive", sub |-> "dead", load |-> "not-found", freezer |-> "running"]

\* Variant of AgentEntry: placed the way handle_error expects a manager to be.
AgentEntryManaged ==
  [name |-> AgentName, type |-> [vm |-> "AppVM", service |-> "Mgr"], status |-> StatusActive,
   watch |-> TRUE, placement |-> [kind |-> "Managed", vm |-> VmService, by |-> AgentName]]

\* TryFrom<RegistryRequest>: always an Endpoint, the VM parsed from the parent.
AgentEntry ==
  [name |-> AgentName, type |-> [vm |-> "AppVM", service |-> "Mgr"], status |-> StatusActive,
   watch |-> TRUE, placement |-> [kind |-> "Endpoint", vm |-> AppVm]]

AppEntry(n, s) ==
  [name |-> n, type |-> [vm |-> "AppVM", service |-> "App"], status |-> s,
   watch |-> TRUE, placement |-> [kind |-> "Managed", vm |-> VmService, by |-> AgentName]]

VARIABLES
  vmUp,     \* the VM runs
  unit,     \* unit[n]: the transient unit n in the VM
  pc,       \* where a call is
  chosen,   \* chosen[p]: the name create_unique_entry_name gave it, or the one it asks for
  merge,    \* merge[p]: the running unit the agent took for a merge candidate ({} or {m})
  answer,   \* answer[p]: the unit status the agent returned
  todo,     \* entries the monitor has still to look at in this round
  watched,  \* the entry the monitor looks at ({} or {e})
  polled,   \* the status the agent returned for it, {} when the call failed
  mpc,      \* where the monitor is in monitor_routine
  faults,   \* history: failures so far
  owed,     \* history: units a start_app call reported as active, and still active
  collided  \* history: two start_app calls held the same unit name

vmVars == <<vmUp, unit>>
callVars == <<pc, chosen, merge, answer>>
monVars == <<todo, watched, polled, mpc>>
histVars == <<faults, owed, collided>>
allVars == <<vars, vmVars, callVars, monVars, histVars>>

\* Every variable has its type; the monitor holds an entry exactly while it is in
\* monitor_routine.
AppTypeOK ==
  /\ vmUp \in BOOLEAN
  /\ unit \in [Instances -> {"absent", "running", "frozen", "failed"}]
  /\ pc \in [Caller -> {"idle", "start_vm", "booting", "recheck", "resolve", "starting",
                        "watching", "answered"} \cup Request]
  /\ \A p \in Caller : chosen[p] \in SUBSET Instances /\ merge[p] \in SUBSET Instances
  /\ \A p \in Caller : pc[p] \in {"starting", "watching"} \cup Request => chosen[p] # {}
  /\ \A p \in Caller : pc[p] = "answered" => answer[p] # {}
  /\ mpc \in {"sleep", "apply", "handle"} /\ (mpc = "sleep") = (watched = {})
  /\ faults \in 0..MaxFaults
  /\ owed \in SUBSET Instances

AppInit ==
  /\ Init
  /\ vmUp \in BOOLEAN
  /\ unit = [n \in Instances |-> "absent"]
  /\ pc = [p \in Caller |-> "idle"]
  /\ chosen = [p \in Caller |-> {}]
  /\ merge = [p \in Caller |-> {}]
  /\ answer = [p \in Caller |-> {}]
  /\ todo = {} /\ watched = {} /\ polled = {} /\ mpc = "sleep"
  /\ faults = 0 /\ owed = {} /\ collided = FALSE

Fault == faults < MaxFaults /\ faults' = faults + 1

-----------------------------------------------------------------------------
(* The VM.                                                                 *)

\* register_service of an agent that has come up (or comes up again).
AgentRegisters ==
  /\ vmUp
  /\ map[AgentName] # AgentEntry
  /\ Register(AgentEntry)
  /\ UNCHANGED <<vmVars, callVars, monVars, histVars>>

\* systemd reports a frozen unit as active.
Active(n) == unit[n] \in {"running", "frozen"}

\* An application ends: its transient unit is unloaded, or kept if it failed.  A
\* frozen one can still be killed.
UnitExits(n) ==
  /\ Active(n)
  /\ \E s \in {"absent", "failed"} : unit' = [unit EXCEPT ![n] = s]
  /\ owed' = owed \ {n}
  /\ UNCHANGED <<vars, vmUp, callVars, monVars, faults, collided>>

VmCrash ==
  /\ vmUp
  /\ Fault
  /\ vmUp' = FALSE
  /\ unit' = [n \in Instances |-> "absent"]
  /\ owed' = {}
  /\ UNCHANGED <<vars, callVars, monVars, collided>>

-----------------------------------------------------------------------------
(* start_app.                                                              *)

Goto(p, l) == pc' = [pc EXCEPT ![p] = l]

\* The call returns to its caller, with an error or with the name it started.
Return(p) ==
  /\ pc' = [pc EXCEPT ![p] = "idle"]
  /\ chosen' = [chosen EXCEPT ![p] = {}]
  /\ merge' = [merge EXCEPT ![p] = {}]
  /\ answer' = [answer EXCEPT ![p] = {}]

StartApp(p) ==
  /\ pc[p] = "idle"
  /\ Unlocked
  /\ Goto(p, IF AgentName \in Known THEN "resolve" ELSE "start_vm")
  /\ UNCHANGED <<vars, vmVars, chosen, merge, answer, monVars, histVars>>

\* start_vm: ask the host for the state of the VM, start it unless it is active.
StartVm(p) ==
  /\ pc[p] = "start_vm"
  /\ vmUp' = TRUE
  /\ Goto(p, IF vmUp THEN "recheck" ELSE "booting")
  /\ UNCHANGED <<vars, unit, chosen, merge, answer, monVars, histVars>>

\* After VM_STARTUP_TIME: the VM must be active.
VmBooted(p) ==
  /\ pc[p] = "booting"
  /\ IF vmUp THEN Goto(p, "recheck") /\ UNCHANGED <<chosen, merge, answer>> ELSE Return(p)
  /\ UNCHANGED <<vars, vmVars, monVars, histVars>>

Recheck(p) ==
  /\ pc[p] = "recheck"
  /\ Unlocked
  /\ IF AgentName \in Known THEN Goto(p, "resolve") /\ UNCHANGED <<chosen, merge, answer>>
     ELSE Return(p)
  /\ UNCHANGED <<vars, vmVars, monVars, histVars>>

\* create_unique_entry_name: the first instance name the registry does not hold.
create_unique_entry_name ==
  {Instance[i] : i \in {j \in DOMAIN Instance :
                          /\ Instance[j] \notin Known
                          /\ \A k \in 1..j-1 : Instance[k] \in Known}}

\* The unit names a start_app call works on: the one it was given and the one it
\* may be merged into.
Held(p) == IF pc[p] \in Request THEN {} ELSE chosen[p] \cup merge[p]

\* agent_endpoint, then the name (the code counts without end: a caller waits
\* here when the model has run out of instance names).
Resolve(p) ==
  /\ pc[p] = "resolve"
  /\ Unlocked
  /\ create_unique_entry_name # {}
  /\ IF AgentName \in Known
     THEN /\ chosen' = [chosen EXCEPT ![p] = create_unique_entry_name]
          /\ collided' = (collided \/ \E q \in Caller \ {p} : Held(q) \cap create_unique_entry_name # {})
          /\ Goto(p, "starting")
          /\ UNCHANGED <<merge, answer>>
     ELSE Return(p) /\ UNCHANGED collided
  /\ UNCHANGED <<vars, vmVars, monVars, faults, owed>>

\* The agent looks for a merge candidate and starts the transient unit; systemd
\* refuses a name that is loaded.
StartTransientUnit(p) ==
  \E n \in chosen[p] :
    /\ pc[p] = "starting"
    /\ vmUp
    /\ unit[n] = "absent"
    /\ unit' = [unit EXCEPT ![n] = "running"]
    /\ \/ merge' = merge /\ \A m \in Instances : ~Active(m)
       \/ \E m \in Instances : Active(m) /\ merge' = [merge EXCEPT ![p] = {m}]
    /\ collided' = (collided \/ \E q \in Caller \ {p} : Held(q) \cap merge'[p] # {})
    /\ Goto(p, "watching")
    /\ UNCHANGED <<vars, vmUp, chosen, answer, monVars, faults, owed>>

StartRefused(p) ==
  /\ pc[p] = "starting"
  /\ ~vmUp \/ \E n \in chosen[p] : unit[n] # "absent"
  /\ Return(p)
  /\ UNCHANGED <<vars, vmVars, monVars, histVars>>

\* getUnitStatus of the agent.
StatusOf(n) ==
  CASE unit[n] = "running" -> StatusActive
    [] unit[n] = "frozen" -> StatusFrozen
    [] unit[n] = "failed" -> StatusFailed
    [] unit[n] = "absent" -> StatusDead

\* The status of a merge candidate: active, as it was seen before the start, with
\* the freezer state it has now.
CandidateStatus(m) == [StatusActive EXCEPT !.freezer = StatusOf(m).freezer]

\* The watch loop of the agent: at the deadline the unit is reported as it is;
\* when it is gone earlier, the candidate is.
Watched(p) ==
  \E n \in chosen[p] :
    /\ pc[p] = "watching"
    /\ vmUp
    /\ \/ answer' = [answer EXCEPT ![p] = {[name |-> n, status |-> StatusOf(n)]}]
       \/ /\ unit[n] = "absent"
          /\ merge[p] # {}
          /\ answer' = [answer EXCEPT ![p] = {[name |-> m, status |-> CandidateStatus(m)] : m \in merge[p]}]
    /\ Goto(p, "answered")
    /\ UNCHANGED <<vars, vmVars, chosen, merge, monVars, histVars>>

WatchFails(p) ==
  /\ pc[p] = "watching"
  /\ ~vmUp \/ \E n \in chosen[p] : unit[n] = "failed"
  /\ Return(p)
  /\ UNCHANGED <<vars, vmVars, monVars, histVars>>

\* Only an active unit is registered, under the name the agent reported.
FinishStart(p) ==
  \E a \in answer[p] :
    /\ pc[p] = "answered"
    /\ IF a.status.active = "active"
       THEN /\ Register(AppEntry(a.name, a.status))
            /\ owed' = IF Active(a.name) THEN owed \cup {a.name} ELSE owed
       ELSE UNCHANGED <<vars, owed>>
    /\ Return(p)
    /\ UNCHANGED <<vmVars, monVars, faults, collided>>

-----------------------------------------------------------------------------
(* stop_application, pause_application and resume_application.             *)

\* The endpoint and the name are looked up; a full instance name is a prefix of
\* itself only, so app_entries finds one name.  A name that is not registered is
\* an error that changes nothing.
Ask(p, r) ==
  \E n \in Instances \cap Known :
    /\ pc[p] = "idle"
    /\ Unlocked
    /\ agent_name(map[n]) \subseteq Known
    /\ chosen' = [chosen EXCEPT ![p] = {n}]
    /\ Goto(p, r)
    /\ UNCHANGED <<vars, vmVars, merge, answer, monVars, histVars>>

\* systemd thaws a frozen unit to stop it; a failed one stays as it is.
StopUnit(p) ==
  \E n \in chosen[p] :
    /\ pc[p] = "stop"
    /\ vmUp
    /\ \/ Active(n) /\ \E s \in {"absent", "failed"} : unit' = [unit EXCEPT ![n] = s]
       \/ unit[n] = "failed" /\ UNCHANGED unit
    /\ owed' = owed \ {n}
    /\ Return(p)
    /\ UNCHANGED <<vars, vmUp, monVars, faults, collided>>

FreezeUnit(p) ==
  \E n \in chosen[p] :
    /\ pc[p] = "pause"
    /\ vmUp /\ Active(n)
    /\ unit' = [unit EXCEPT ![n] = "frozen"]
    /\ Return(p)
    /\ UNCHANGED <<vars, vmUp, monVars, histVars>>

UnfreezeUnit(p) ==
  \E n \in chosen[p] :
    /\ pc[p] = "resume"
    /\ vmUp /\ Active(n)
    /\ unit' = [unit EXCEPT ![n] = "running"]
    /\ Return(p)
    /\ UNCHANGED <<vars, vmUp, monVars, histVars>>

\* systemd stops only what is loaded, and freezes and thaws only what is active.
RequestRefused(p) ==
  \E n \in chosen[p] :
    /\ pc[p] \in Request
    /\ ~vmUp \/ unit[n] = "absent" \/ (unit[n] = "failed" /\ pc[p] # "stop")
    /\ Return(p)
    /\ UNCHANGED <<vars, vmVars, monVars, histVars>>

\* Any remote call can fail, before or after it had its effect.
CallFails(p) ==
  /\ pc[p] \in {"start_vm", "booting", "starting", "watching", "answered"} \cup Request
  /\ Fault
  /\ Return(p)
  /\ UNCHANGED <<vars, vmVars, monVars, owed, collided>>

-----------------------------------------------------------------------------
(* The monitor task.                                                       *)

\* watch_list: a copy of the entries, which the round works from.
Tick ==
  /\ mpc = "sleep"
  /\ todo = {}
  /\ Unlocked
  /\ todo' = {map[n] : n \in {m \in Known : map[m].watch}}
  /\ todo' # {}
  /\ UNCHANGED <<vars, vmVars, callVars, watched, polled, mpc, histVars>>

\* get_remote_status: the endpoint is resolved and the agent answers.
Answers(e) == vmUp /\ agent_name(e) \subseteq Known

Poll(e) ==
  /\ mpc = "sleep"
  /\ e \in todo
  /\ e.placement.kind = "Managed" => Unlocked
  /\ todo' = todo \ {e}
  /\ watched' = {e}
  /\ \/ /\ Answers(e)
        /\ polled' = {IF e.name \in Instances THEN StatusOf(e.name) ELSE StatusActive}
        /\ mpc' = "apply"
        /\ UNCHANGED faults
     \/ ~Answers(e) /\ polled' = {} /\ mpc' = "handle" /\ UNCHANGED faults
     \/ Answers(e) /\ Fault /\ polled' = {} /\ mpc' = "handle"
  /\ UNCHANGED <<vars, vmVars, callVars, owed, collided>>

\* Variant of MonitorDone: the routine ends without giving up its entry.
MonitorDoneKeepsEntry == watched' = watched /\ polled' = {} /\ mpc' = "sleep"

MonitorDone == watched' = {} /\ polled' = {} /\ mpc' = "sleep"

\* Variant of Apply: the status is acted on but not saved.
ApplyWithoutSaving ==
  \E e \in watched, s \in polled :
    /\ mpc = "apply"
    /\ Unlocked
    /\ IF ~is_valid(s) \/ s.active # "active"
       THEN mpc' = "handle" /\ UNCHANGED <<watched, polled>>
       ELSE MonitorDone
    /\ UNCHANGED <<vars, vmVars, callVars, todo, histVars>>

\* update_state, which ends the routine with an error when the entry is gone.
Apply ==
  \E e \in watched, s \in polled :
    /\ mpc = "apply"
    /\ IF e.name \in Known
       THEN /\ UpdateState(e.name, s)
            /\ IF ~is_valid(s) \/ s.active # "active"
               THEN mpc' = "handle" /\ UNCHANGED <<watched, polled>>
               ELSE MonitorDone
       ELSE Unlocked /\ MonitorDone /\ UNCHANGED vars
    /\ UNCHANGED <<vmVars, callVars, todo, histVars>>

\* Variant of handle_error: any failed poll of an application removes it.
handle_error_any_app ==
  \E e \in watched :
    /\ mpc = "handle"
    /\ IF e.type.service = "App" /\ e.name \in Known THEN Deregister(e.name)
       ELSE Unlocked /\ UNCHANGED vars
    /\ MonitorDone
    /\ UNCHANGED <<vmVars, callVars, todo, histVars>>

\* handle_error works on the copy of the entry taken at the start of the round:
\* an exited application is deregistered; the manager of a VM would have its VM
\* started if it were placed as Managed.
handle_error ==
  \E e \in watched :
    /\ mpc = "handle"
    /\ \/ /\ e.type = [vm |-> "AppVM", service |-> "App"]
          /\ IF is_exitted(e.status) /\ e.name \in Known THEN Deregister(e.name)
             ELSE Unlocked /\ UNCHANGED vars
          /\ UNCHANGED vmUp
       \/ /\ e.type.vm \in {"AppVM", "SysVM"} /\ e.type.service = "Mgr"
          /\ vmUp' = (vmUp \/ e.placement.kind = "Managed")
          /\ UNCHANGED vars
    /\ MonitorDone
    /\ UNCHANGED <<unit, callVars, todo, histVars>>

Call(p) ==
  \/ StartApp(p) \/ StartVm(p) \/ VmBooted(p) \/ Recheck(p) \/ Resolve(p)
  \/ StartTransientUnit(p) \/ StartRefused(p) \/ Watched(p) \/ WatchFails(p)
  \/ FinishStart(p)
  \/ (\E r \in Request : Ask(p, r)) \/ StopUnit(p) \/ FreezeUnit(p) \/ UnfreezeUnit(p)
  \/ RequestRefused(p) \/ CallFails(p)

Monitor == Tick \/ (\E e \in todo : Poll(e)) \/ Apply \/ handle_error

Send == SendEvent /\ UNCHANGED <<vmVars, callVars, monVars, histVars>>

AppNext ==
  \/ AgentRegisters \/ VmCrash \/ \E n \in Instances : UnitExits(n)
  \/ \E p \in Caller : Call(p)
  \/ Monitor
  \/ Send

AppSpec == AppInit /\ [][AppNext]_allVars

\* The interval of the monitor keeps ticking, its remote calls answer or fail, and
\* whoever holds the mutex of the registry lets go of it.
AppFairness ==
  /\ WF_allVars(Tick)
  /\ WF_allVars(\E e \in todo : Poll(e))
  /\ WF_allVars(Apply)
  /\ WF_allVars(handle_error)
  /\ WF_allVars(Send)

FairAppSpec == AppSpec /\ AppFairness

-----------------------------------------------------------------------------
(* Properties.                                                             *)

\* The agent of every application the registry lists is listed too, with an
\* endpoint of its own: `endpoint()` (server.rs 179-199) can always resolve an
\* application, so stop, pause and status requests never fail on the lookup.
ManagedHasAgent ==
  \A n \in Known :
    map[n].placement.kind = "Managed" =>
      /\ map[n].placement.by \in Known
      /\ map[map[n].placement.by].placement.kind = "Endpoint"

\* An application that start_app reported as running stays in the registry as
\* long as it runs, although the monitor decides on a copy of the entry that may
\* be two polls old (server.rs 374-378) -- provided no two start_app calls ever
\* worked on the same unit name at the same time.
RunningStaysKnown == ~collided => owed \subseteq Known

\* An application whose unit is gone leaves the registry, or runs again, as long
\* as its VM is up to answer for it (server.rs 396-430).
ExitedAppsLeave ==
  \A n \in Instances :
    <>[]vmUp => ((n \in Known /\ unit[n] = "absent") ~> (n \notin Known \/ unit[n] # "absent"))

\* A VM whose agent is registered and that has gone down is started again by the
\* monitor ("handing error, by restart VM", server.rs 381-388).
VmRecovered == (~vmUp /\ AgentName \in Known) ~> vmUp
=============================================================================
