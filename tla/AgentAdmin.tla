----------------------------- MODULE AgentAdmin -----------------------------
(***************************************************************************)
(* An agent process and the admin server it registers with: AgentProcess   *)
(* and SystemSettings joined at the calls between them.  The worker's call *)
(* enters the agent in the registry and is answered when the greeting has  *)
(* been spawned; a task's call runs on the agent's server, and keeps       *)
(* GracefulStop waiting.  Whatever may fail draws on one budget.           *)
(***************************************************************************)
EXTENDS AgentProcess, SystemSettings

CONSTANT MaxFaults   \* bound on the failures, losses, crashes and restarts

ASSUME AgentAdminAssumption == Agent \notin Service \cup {NoService} /\ MaxFaults \in Nat

VARIABLES
  faults,   \* failures so far
  orphans   \* history: the admin restarted under a worker past its own registration

vars == <<procVars, setVars, faults, orphans>>

Names == Service \cup {Agent}

\* Every variable has its type, a service is being registered exactly while the worker
\* is at that service (registration.go 118-139), and a setting that is not set is never
\* sent (server.rs 583-603).
TypeOK ==
  /\ ProcTypeOK /\ SetTypeOK(Names)
  /\ faults \in 0..MaxFaults /\ orphans \in BOOLEAN

Init == ProcInit /\ SetInit /\ faults = 0 /\ orphans = FALSE

Fault == faults < MaxFaults /\ faults' = faults + 1

NoFault == UNCHANGED faults

\* The listener is there and the server answers or is about to.
Listening == stopper = "waiting" /\ server \in {"starting", "serving"}

Past == {"services", "service_calling"}

ProcStep ==
  /\ \/ HandleSignal \/ HandlerCancelled
     \/ Setup \/ Bind \/ Serve \/ GracefulStop \/ Stopped(calls = Nothing)
     \/ ServeReturns \/ CloseDbus \/ Cancel \/ Exit
     \/ WorkerStarts \/ WorkerCancelled \/ AgentStatus \/ Attempt
     \/ NextService \/ ServicesDone
     \/ ~dbus /\ (AgentStatusFails \/ SkipService)
  /\ NoFault /\ UNCHANGED <<setVars, orphans>>

ProcFault ==
  /\ \/ SetupFails \/ BindFails \/ ServeFails \/ ServiceCallFails
     \/ worker = "calling" /\ AgentCallFails
     \/ dbus /\ (AgentStatusFails \/ SkipService)
  /\ Fault /\ UNCHANGED <<setVars, orphans>>

SignalAgent == Signal /\ NoFault /\ UNCHANGED <<setVars, orphans>>

StartAgent == Start /\ NoFault /\ UNCHANGED <<setVars, orphans>>

KillAgent ==
  /\ Kill /\ DropCalls(worker = "awaiting")
  /\ Fault /\ UNCHANGED orphans

RegisterAgent == AgentSent /\ Register(Agent) /\ orphans' = FALSE /\ NoFault

\* The handler spawns the greeting and answers; the answer may be lost.
Answer ==
  /\ worker = "awaiting"
  /\ Greet
  /\ \/ AgentAccepted /\ NoFault
     \/ AgentCallFails /\ Fault
  /\ UNCHANGED orphans

\* The worker's call runs out of time before that.
TimeOut ==
  /\ worker = "awaiting"
  /\ Abandon /\ AgentCallFails /\ Fault
  /\ UNCHANGED orphans

RegisterService ==
  /\ Register(unit)
  /\ \/ ServiceAccepted /\ NoFault
     \/ ServiceCallFails /\ Fault
  /\ UNCHANGED orphans

Handle(r) ==
  /\ \/ OpenConf(r) \/ WriteConf(r) \/ Broadcast(r) \/ Assign(r)
  /\ NoFault /\ UNCHANGED <<procVars, orphans>>

HandleFault(r) ==
  /\ WriteConfFails(r) \/ OpenConfFails(r)
  /\ Fault /\ UNCHANGED <<procVars, orphans>>

Push ==
  /\ \E v \in Among(pushes) :
       \/ Listening /\ server = "serving" /\ Deliver(v) /\ NoFault
       \/ ~Listening /\ Lose(v) /\ NoFault
       \/ Listening /\ Lose(v) /\ Fault
  /\ UNCHANGED <<procVars, orphans>>

Listen ==
  /\ \E v \in Among(calls) :
       \/ SetLocale(v) /\ NoFault
       \/ SetLocaleFails(v) /\ (IF v = Mixed THEN NoFault ELSE Fault)
  /\ UNCHANGED <<procVars, orphans>>

\* A call the worker is waiting for breaks with the connection.
RestartOfAdmin ==
  /\ RestartAdmin /\ Fault
  /\ IF worker = "awaiting" THEN AgentCallFails ELSE UNCHANGED procVars
  /\ orphans' = (worker \in Past)

Next ==
  \/ ProcStep \/ ProcFault \/ StartAgent \/ SignalAgent \/ KillAgent
  \/ RegisterAgent \/ Answer \/ TimeOut \/ RegisterService
  \/ \E r \in Request : Handle(r) \/ HandleFault(r)
  \/ Push \/ Listen \/ RestartOfAdmin

Spec == Init /\ [][Next]_vars

\* The goroutines of the agent run, the admin takes and answers the worker's calls,
\* and a command on the agent comes to its end.  No request has to be made, no
\* signal has to arrive and nothing has to fail.
FairSpec ==
  /\ Spec
  /\ WF_vars(ProcStep)
  /\ WF_vars(RegisterAgent \/ Answer \/ RegisterService)
  /\ WF_vars(Listen)

\* A process that left through os.Exit cut nothing short: no setting was being
\* applied, and neither the worker nor the signal handler was running, so no
\* registration can follow the exit (main.go 157-164, grpcserver.go 130-134).
ShutdownClean ==
  main = "exited" /\ code # "killed"
    => calls = Nothing /\ worker \in {"none", "done"} /\ handler # "select"

\* While the worker is registering, the calls that the admin makes in return find
\* the server of the agent, unless the process is ending ("Wait for server to
\* start to handle callbacks", registration.go 59-65).
CallbacksServed ==
  worker \in {"retry", "calling", "awaiting"} \cup Past
    => Listening \/ cancelled \/ server = "failed"

\* The admin knows the services only of an agent it knows, unless it has lost its
\* registry while the worker was at the services (registration.go 68-77).
AgentFirst == known \cap Service # {} => Agent \in known \/ orphans

\* Between requests the file of a setting holds what the admin has in memory, so
\* that a restart changes no setting, unless two requests for it overlapped or the
\* file could not be written (server.rs 832-850, 865-884, 135-153).
Persisted == InFlight = {} /\ ~unsaved => conf = cached

\* Once nothing is on its way, a registered agent has the setting the admin has.
\* The exceptions are what excused records: the value met another one on its way
\* to the agent, the agent registered between the listing of the agents and the
\* store of the value, or a call failed (server.rs 564-604, 834-850, 866-884).
Settled ==
  Agent \in known /\ worker # "awaiting" /\ Underway = {} /\ ~excused /\ cached # None
    => applied = cached

\* A signal ends the process, whatever it is doing (main.go 157-181).
SignalEnds == signalled ~> main = "exited"

\* An agent whose registration is tried becomes known to the admin, whatever calls
\* and answers are lost on the way, unless it ends first (registration.go 181-196).
Registers == worker = "retry" ~> (Agent \in known \/ cancelled \/ main = "exited")
=============================================================================
