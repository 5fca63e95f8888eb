---------------------------- MODULE AgentProcess ----------------------------
(***************************************************************************)
(* The givc-agent process from start to exit: modules/cmd/givc-agent/      *)
(* main.go, the registration worker (pkgs/registration) and the gRPC       *)
(* server (pkgs/grpc/grpcserver.go).  Five goroutines share one context:   *)
(*   main     loads, binds, waits for the server, runs its deferred calls  *)
(*   handler  turns a signal into cancel()                                 *)
(*   server   announces itself and serves                                  *)
(*   stopper  waits for the end of the context, then GracefulStop          *)
(*   worker   registers the agent, then its services, with the admin       *)
(* main returns when stopper and server are done; its deferred calls close *)
(* the systemd connection, cancel the context and wait for handler and     *)
(* worker.  systemd starts the process again unless it exited with 0.      *)
(*                                                                         *)
(* A failed attempt to bind that is tried again, and the pause before a    *)
(* registration is tried again, change nothing but the time.  The socket   *)
(* and event proxies that main may start are not part of the model.        *)
(***************************************************************************)
EXTENDS Naturals

CONSTANTS
  Service,     \* the units of Capabilities.Units that end in .service
  NoService,   \* "no service is being registered"
  MaxStarts    \* bound on the starts of the process

ASSUME AgentProcessAssumption == NoService \notin Service /\ MaxStarts \in Nat

VARIABLES
  main,        \* where main() is; "exited" when there is no process
  code,        \* exitCode, or "killed" for a process that did not get to os.Exit
  signalled,   \* a signal has been delivered to this process
  handler,     \* the goroutine that waits for a signal
  cancelled,   \* the context is done
  server,      \* the goroutine that runs Serve
  started,     \* the channel serverStarted is closed
  stopper,     \* the goroutine that runs GracefulStop
  worker,      \* the registration goroutine
  todo,        \* services the worker has not yet come to
  unit,        \* the service it is registering
  dbus,        \* the connection to systemd is open
  starts       \* how often the process has been started

srvVars == <<server, started, stopper>>
workVars == <<worker, todo, unit>>
procVars == <<main, code, signalled, handler, cancelled, server, started, stopper,
              worker, todo, unit, dbus, starts>>

\* What the steps of one goroutine leave alone.
MainStep == UNCHANGED <<code, signalled, handler, srvVars, workVars, starts>>
ServerStep == UNCHANGED <<main, code, signalled, handler, cancelled, workVars, dbus, starts>>
WorkerStep == UNCHANGED <<main, code, signalled, handler, cancelled, srvVars, dbus, starts>>

MainState == {"setup", "bind", "serve", "close", "cancel", "wait", "exited"}
WorkerState == {"none", "select", "status", "retry", "calling", "awaiting",
                "services", "service_calling", "done"}

ProcTypeOK ==
  /\ main \in MainState
  /\ code \in {"0", "1", "killed"}
  /\ signalled \in BOOLEAN /\ cancelled \in BOOLEAN /\ started \in BOOLEAN /\ dbus \in BOOLEAN
  /\ handler \in {"none", "select", "done"}
  /\ server \in {"none", "starting", "serving", "stopped", "failed"}
  /\ stopper \in {"none", "waiting", "stopping", "closed"}
  /\ worker \in WorkerState
  /\ todo \in SUBSET Service
  /\ unit \in Service \cup {NoService}
  /\ worker = "service_calling" <=> unit # NoService
  /\ starts \in 0..MaxStarts

\* The memory of a process goes with it.  Of its goroutines, handler and worker
\* stay as they are at the end, for ShutdownClean to look at.
Gone ==
  /\ signalled' = FALSE /\ cancelled' = FALSE
  /\ server' = "none" /\ started' = FALSE /\ stopper' = "none"
  /\ todo' = {} /\ unit' = NoService
  /\ dbus' = FALSE

ProcInit ==
  /\ main = "exited" /\ code = "1"
  /\ signalled = FALSE /\ cancelled = FALSE /\ handler = "none"
  /\ server = "none" /\ started = FALSE /\ stopper = "none"
  /\ worker = "none" /\ todo = {} /\ unit = NoService
  /\ dbus = FALSE /\ starts = 0

\* systemd starts the process (Restart = "on-failure"), which installs its signal
\* handler before anything else.
Start ==
  /\ main = "exited" /\ code # "0" /\ starts < MaxStarts
  /\ main' = "setup" /\ code' = "1" /\ starts' = starts + 1
  /\ handler' = "select" /\ worker' = "none"
  /\ UNCHANGED <<signalled, cancelled, srvVars, todo, unit, dbus>>

Signal ==
  /\ main # "exited" /\ ~signalled
  /\ signalled' = TRUE
  /\ UNCHANGED <<main, code, handler, cancelled, srvVars, workVars, dbus, starts>>

\* select of the handler: the signal, or the end of the context.
HandleSignal ==
  /\ handler = "select" /\ signalled
  /\ code' = "0" /\ cancelled' = TRUE /\ handler' = "done"
  /\ UNCHANGED <<main, signalled, srvVars, workVars, dbus, starts>>

HandlerCancelled ==
  /\ handler = "select" /\ cancelled
  /\ handler' = "done"
  /\ UNCHANGED <<main, code, signalled, cancelled, srvVars, workVars, dbus, starts>>

\* Configuration and services are set up and the worker is started.
Setup ==
  /\ main = "setup"
  /\ main' = "bind" /\ dbus' = TRUE /\ worker' = "select"
  /\ UNCHANGED <<code, signalled, handler, cancelled, srvVars, todo, unit, starts>>

\* The configuration cannot be read, or systemd cannot be reached.
SetupFails ==
  /\ main = "setup"
  /\ main' = "cancel"
  /\ MainStep /\ UNCHANGED <<cancelled, dbus>>

\* ListenAndServe has its listener and starts server and stopper.
Bind ==
  /\ main = "bind"
  /\ main' = "serve" /\ server' = "starting" /\ stopper' = "waiting"
  /\ UNCHANGED <<code, signalled, handler, cancelled, started, workVars, dbus, starts>>

\* NewServer fails, or the address is malformed, or every attempt to bind fails.
BindFails ==
  /\ main = "bind"
  /\ main' = "close"
  /\ MainStep /\ UNCHANGED <<cancelled, dbus>>

\* The server closes the channel and serves; Serve returns at once with an error on
\* a server that was stopped before.
Serve ==
  /\ server = "starting"
  /\ started' = TRUE
  /\ server' = IF stopper = "waiting" THEN "serving" ELSE "failed"
  /\ ServerStep /\ UNCHANGED stopper

ServeFails ==
  /\ server = "serving" /\ stopper = "waiting"
  /\ server' = "failed"
  /\ ServerStep /\ UNCHANGED <<started, stopper>>

\* The stopper's context ends with the process's, or with an error of the server.
\* GracefulStop closes the listener and refuses new calls.
GracefulStop ==
  /\ stopper = "waiting" /\ (cancelled \/ server = "failed")
  /\ stopper' = "stopping"
  /\ server' = IF server = "serving" THEN "stopped" ELSE server
  /\ ServerStep /\ UNCHANGED started

\* Variant: Stop, which does not wait for the calls that run.
StoppedAtOnce(idle) ==
  /\ stopper = "stopping"
  /\ stopper' = "closed"
  /\ ServerStep /\ UNCHANGED <<server, started>>

\* It returns when the last of the running calls has.
Stopped(idle) ==
  /\ stopper = "stopping" /\ idle
  /\ stopper' = "closed"
  /\ ServerStep /\ UNCHANGED <<server, started>>

\* ListenAndServe waits for the stopper, then for the server.
ServeReturns ==
  /\ main = "serve" /\ stopper = "closed" /\ server \in {"stopped", "failed"}
  /\ main' = "close"
  /\ MainStep /\ UNCHANGED <<cancelled, dbus>>

\* The deferred calls of main, last one first.
CloseDbus ==
  /\ main = "close"
  /\ main' = "cancel" /\ dbus' = FALSE
  /\ MainStep /\ UNCHANGED cancelled

Cancel ==
  /\ main = "cancel"
  /\ main' = "wait" /\ cancelled' = TRUE
  /\ MainStep /\ UNCHANGED dbus

\* The wait group is empty: os.Exit(exitCode).
Exit ==
  /\ main = "wait" /\ handler = "done" /\ worker \in {"none", "done"}
  /\ main' = "exited"
  /\ Gone
  /\ UNCHANGED <<code, handler, worker, starts>>

\* The process dies on the spot: a crash of the VM, or systemd's SIGKILL.
Kill ==
  /\ main # "exited"
  /\ main' = "exited" /\ code' = "killed" /\ handler' = "none" /\ worker' = "none"
  /\ Gone
  /\ UNCHANGED starts

\* Variant: the worker does not wait for the server.
WorkerStartsAtOnce ==
  /\ worker = "select"
  /\ worker' = "status"
  /\ WorkerStep /\ UNCHANGED <<todo, unit>>

\* The worker waits for the server or the end of the context.
WorkerStarts ==
  /\ worker = "select" /\ started
  /\ worker' = "status"
  /\ WorkerStep /\ UNCHANGED <<todo, unit>>

\* Variant: the worker waits for the server only.
WorkerCancelledLater ==
  /\ worker \in {"retry", "services"} /\ cancelled
  /\ worker = "services" => todo # {}
  /\ worker' = "done"
  /\ WorkerStep /\ UNCHANGED <<todo, unit>>

WorkerCancelled ==
  /\ worker \in {"select", "retry", "services"} /\ cancelled
  /\ worker = "services" => todo # {}
  /\ worker' = "done"
  /\ WorkerStep /\ UNCHANGED <<todo, unit>>

\* RegisterAgent asks systemd once for the agent's own unit.
AgentStatus ==
  /\ worker = "status" /\ dbus
  /\ worker' = "retry"
  /\ WorkerStep /\ UNCHANGED <<todo, unit>>

AgentStatusFails ==
  /\ worker = "status"
  /\ worker' = "done"
  /\ WorkerStep /\ UNCHANGED <<todo, unit>>

\* registerWithRetry looks at the context before each call.
Attempt ==
  /\ worker = "retry" /\ ~cancelled
  /\ worker' = "calling"
  /\ WorkerStep /\ UNCHANGED <<todo, unit>>

\* The admin has the request and has not yet answered.
AgentSent ==
  /\ worker = "calling"
  /\ worker' = "awaiting"
  /\ WorkerStep /\ UNCHANGED <<todo, unit>>

AgentAccepted ==
  /\ worker = "awaiting"
  /\ worker' = "services" /\ todo' = Service
  /\ WorkerStep /\ UNCHANGED unit

\* Variant: the services are registered whatever became of the agent.
AgentCallFailsGoesOn ==
  /\ worker \in {"calling", "awaiting"}
  /\ worker' = "services" /\ todo' = Service
  /\ WorkerStep /\ UNCHANGED unit

\* Variant: no second attempt.
AgentCallFailsGivesUp ==
  /\ worker \in {"calling", "awaiting"}
  /\ worker' = "done"
  /\ WorkerStep /\ UNCHANGED <<todo, unit>>

\* The call fails: the client's retry interceptor sends it again, or gives up
\* and leaves the next attempt to registerWithRetry.
AgentCallFails ==
  /\ worker \in {"calling", "awaiting"}
  /\ worker' \in {"calling", "retry"}
  /\ WorkerStep /\ UNCHANGED <<todo, unit>>

\* RegisterServices goes through the units in any order, asks systemd for the next
\* one and sends it to the admin; a unit that systemd does not know is skipped.
NextService ==
  /\ worker = "services" /\ ~cancelled /\ dbus
  /\ \E s \in todo : unit' = s /\ todo' = todo \ {s}
  /\ worker' = "service_calling"
  /\ WorkerStep

SkipService ==
  /\ worker = "services" /\ ~cancelled
  /\ \E s \in todo : todo' = todo \ {s}
  /\ WorkerStep /\ UNCHANGED <<worker, unit>>

ServicesDone ==
  /\ worker = "services" /\ todo = {}
  /\ worker' = "done"
  /\ WorkerStep /\ UNCHANGED <<todo, unit>>

ServiceAccepted ==
  /\ worker = "service_calling"
  /\ worker' = "services" /\ unit' = NoService
  /\ WorkerStep /\ UNCHANGED todo

\* A failed call is sent again by the interceptor or the service is skipped.
ServiceCallFails ==
  /\ worker = "service_calling"
  /\ \/ UNCHANGED <<worker, unit>>
     \/ worker' = "services" /\ unit' = NoService
  /\ WorkerStep /\ UNCHANGED todo

=============================================================================
