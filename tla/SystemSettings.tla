--------------------------- MODULE SystemSettings ---------------------------
(***************************************************************************)
(* The locale and the timezone of the system: set_locale, set_timezone and *)
(* the greeting of a registering agent in crates/admin/src/admin/server.rs *)
(* and the listener of the agent (pkgs/localelistener), for one agent.     *)
(* The two settings go through the same steps and share nothing but the    *)
(* task of a greeting, which sends one after the other whatever becomes of *)
(* the first: the model has one setting, which stands for either.          *)
(*                                                                         *)
(* The admin keeps the setting in memory and in a file.  A request         *)
(* validates, rewrites the file, spawns a task that sends the value to the *)
(* agents registered at that moment, and then stores the value in memory.  *)
(* A registering agent is entered in the registry; the handler then reads  *)
(* the setting from memory and spawns a task that sends it.  No task waits *)
(* for another, and errors of tasks and file writes are ignored.           *)
(***************************************************************************)
EXTENDS Naturals

CONSTANTS
  Agent,      \* the agent's name in the registry
  Value,      \* values that the validator accepts
  None,       \* the empty setting, and an empty file
  Mixed,      \* what two writers leave in the file that write over each other
  Request,    \* calls of set_locale, or of set_timezone
  Asks        \* Asks[r]: the values r may ask for

Stored == Value \cup {None, Mixed}

ASSUME SettingsAssumption ==
  /\ None \notin Value /\ Mixed \notin Value \cup {None}
  /\ Asks \in [Request -> SUBSET Value]

VARIABLES
  known,      \* names in the registry of the admin
  cached,     \* the setting in the admin's memory
  conf,       \* what its file holds
  req,        \* req[r]: stage and value of request r
  pushes,     \* how many tasks have still to send a value to the agent
  calls,      \* how many calls are applying a value on the agent
  applied,    \* the setting of the agent's VM
  excused,    \* history: a race or a failure may have kept the setting from the agent
  unsaved     \* history: a race or a failure may have spoilt the file

setVars == <<known, cached, conf, req, pushes, calls, applied, excused, unsaved>>

Stages == {"writing", "written", "spawned"}
Idle == [stage |-> "idle"]
Done == [stage |-> "done"]

\* Tasks and calls are told apart by their values only: their number, for each value.
Count == [Stored -> Nat]
Nothing == [v \in Stored |-> 0]
Among(count) == {v \in Stored : count[v] > 0}
Plus(count, v) == [count EXCEPT ![v] = @ + 1]
Minus(count, v) == [count EXCEPT ![v] = @ - 1]

SetTypeOK(Names) ==
  /\ known \in SUBSET Names
  /\ cached \in Stored /\ conf \in Stored /\ applied \in Stored
  /\ req \in [Request -> {Idle, Done} \cup [stage : Stages, val : Value]]
  /\ pushes \in Count /\ calls \in Count /\ pushes[None] = 0 /\ calls[None] = 0
  /\ excused \in BOOLEAN /\ unsaved \in BOOLEAN

SetInit ==
  /\ known = {}
  /\ cached = None /\ conf = None /\ applied = None
  /\ req = [r \in Request |-> Idle]
  /\ pushes = Nothing /\ calls = Nothing
  /\ excused = FALSE /\ unsaved = FALSE

At(r, stage) == req[r].stage = stage
Goto(r, stage) == req' = [req EXCEPT ![r].stage = stage]

InFlight == {r \in Request : req[r].stage \in Stages}

\* Values on their way to the agent, or broadcast and soon to be stored.
Underway ==
  Among(pushes) \cup Among(calls) \cup {req[r].val : r \in {q \in InFlight : At(q, "spawned")}}

\* A value sent now reaches the agent last unless another one is underway.
Contested(v) == ~(Underway \subseteq {v})

\* A request whose arguments the validator refuses changes nothing.  For the others
\* fs::write opens and truncates the file ...
OpenConf(r) ==
  /\ At(r, "idle")
  /\ \E v \in Asks[r] : req' = [req EXCEPT ![r] = [stage |-> "writing", val |-> v]]
  /\ conf' = None
  /\ unsaved' = (InFlight # {})
  /\ UNCHANGED <<known, cached, pushes, calls, applied, excused>>

\* ... or cannot open it, which is ignored.
OpenConfFails(r) ==
  /\ At(r, "idle")
  /\ \E v \in Asks[r] : req' = [req EXCEPT ![r] = [stage |-> "written", val |-> v]]
  /\ unsaved' = TRUE
  /\ UNCHANGED <<known, cached, conf, pushes, calls, applied, excused>>

\* The content goes over whatever another writer has put there since: a shorter
\* one leaves the end of the longer.
WriteConf(r) ==
  /\ At(r, "writing")
  /\ Goto(r, "written")
  /\ conf' \in IF conf = None THEN {req[r].val} ELSE {req[r].val, Mixed}
  /\ UNCHANGED <<known, cached, pushes, calls, applied, excused, unsaved>>

WriteConfFails(r) ==
  /\ At(r, "writing")
  /\ Goto(r, "written")
  /\ unsaved' = TRUE
  /\ UNCHANGED <<known, cached, conf, pushes, calls, applied, excused>>

\* The registered agents are listed and a task is spawned to tell them.
Broadcast(r) ==
  /\ At(r, "written")
  /\ Goto(r, "spawned")
  /\ IF Agent \in known
     THEN pushes' = Plus(pushes, req[r].val) /\ excused' = Contested(req[r].val)
     ELSE UNCHANGED <<pushes, excused>>
  /\ UNCHANGED <<known, cached, conf, calls, applied, unsaved>>

Assign(r) ==
  /\ At(r, "spawned")
  /\ req' = [req EXCEPT ![r] = Done]
  /\ cached' = req[r].val
  /\ UNCHANGED <<known, conf, pushes, calls, applied, excused, unsaved>>

\* register_service, up to the locks of the settings, where the handler of an
\* agent's registration may be suspended.
Register(name) ==
  /\ known' = known \cup {name}
  /\ UNCHANGED <<cached, conf, req, pushes, calls, applied, excused, unsaved>>

\* Variant: a registering agent is not told.
GreetSilently ==
  /\ excused' = Contested(cached)
  /\ UNCHANGED <<known, cached, conf, req, pushes, calls, applied, unsaved>>

\* The rest of it: a setting that is not set is not sent.
Greet ==
  /\ pushes' = IF cached = None THEN pushes ELSE Plus(pushes, cached)
  /\ excused' = Contested(cached)
  /\ UNCHANGED <<known, cached, conf, req, calls, applied, unsaved>>

\* The caller gives up and the handler of its call is dropped where it is suspended.
Abandon ==
  /\ excused' = TRUE
  /\ UNCHANGED <<known, cached, conf, req, pushes, calls, applied, unsaved>>

\* A task connects and its call reaches the listener.
Deliver(v) ==
  /\ v \in Among(pushes)
  /\ pushes' = Minus(pushes, v) /\ calls' = Plus(calls, v)
  /\ UNCHANGED <<known, cached, conf, req, applied, excused, unsaved>>

\* The task cannot connect, or its call fails.
Lose(v) ==
  /\ v \in Among(pushes)
  /\ pushes' = Minus(pushes, v) /\ excused' = TRUE
  /\ UNCHANGED <<known, cached, conf, req, calls, applied, unsaved>>

\* localectl, or timedatectl, has run.
SetLocale(v) ==
  /\ v \in Among(calls)
  /\ calls' = Minus(calls, v) /\ applied' = v
  /\ UNCHANGED <<known, cached, conf, req, pushes, excused, unsaved>>

\* It fails, or the listener refuses the value.
SetLocaleFails(v) ==
  /\ v \in Among(calls)
  /\ calls' = Minus(calls, v) /\ excused' = TRUE
  /\ UNCHANGED <<known, cached, conf, req, pushes, applied, unsaved>>

\* The agent dies, with the calls it runs and, if it has one, its registration call.
DropCalls(registering) ==
  /\ calls' = Nothing
  /\ excused' = (excused \/ registering \/ calls # Nothing)
  /\ UNCHANGED <<known, cached, conf, req, pushes, applied, unsaved>>

\* Variant: the file is not read.
RestartAdminForgets ==
  /\ known' = {} /\ cached' = None
  /\ req' = [r \in Request |-> IF At(r, "idle") THEN Idle ELSE Done]
  /\ pushes' = Nothing
  /\ excused' = FALSE /\ unsaved' = FALSE
  /\ UNCHANGED <<conf, calls, applied>>

\* The admin starts again with an empty registry and the setting of the file.  The
\* requests and tasks are gone; what runs on the agent runs on.
RestartAdmin ==
  /\ known' = {} /\ cached' = conf
  /\ req' = [r \in Request |-> IF At(r, "idle") THEN Idle ELSE Done]
  /\ pushes' = Nothing
  /\ excused' = FALSE /\ unsaved' = FALSE
  /\ UNCHANGED <<conf, calls, applied>>

=============================================================================
