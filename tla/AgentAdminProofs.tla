-------------------------- MODULE AgentAdminProofs --------------------------
(***************************************************************************)
(* What AgentAdmin promises, for any number of services, requests, values, *)
(* starts and faults.  The invariant has four parts, one per promise:      *)
(*   ProcInv   how far main, server, stopper and worker may be apart, and  *)
(*             that calls run only between the start of the server and the *)
(*             end of GracefulStop                                         *)
(*   NamesInv  a worker past its own registration is known to the admin    *)
(*   FileInv   a file that is not marked as spoilt holds the value of the  *)
(*             only request in flight, or the one in memory                *)
(*   WordInv   unless excused, one value is the last word: everything      *)
(*             underway carries it, and it ends in memory and on the agent *)
(***************************************************************************)
EXTENDS AgentAdmin, TLAPS

\* The goroutines of the process.
ProcInv ==
  /\ main \in MainState /\ worker \in WorkerState
  /\ server \in {"none", "starting", "serving", "stopped", "failed"}
  /\ stopper \in {"none", "waiting", "stopping", "closed"}
  /\ started \in BOOLEAN /\ cancelled \in BOOLEAN
  /\ main = "exited" => worker \in {"none", "done"} /\ handler # "select"
  /\ main \in {"setup", "bind", "exited"} => stopper = "none" /\ server = "none"
  /\ main \in {"close", "cancel", "wait"} => stopper \in {"none", "closed"}
  /\ stopper \in {"none", "closed"} => calls = Nothing
  /\ server # "none" => stopper # "none"
  /\ started => server \in {"serving", "stopped", "failed"}
  /\ worker \notin {"none", "select", "done"} => started
  /\ stopper \in {"stopping", "closed"} => cancelled \/ server = "failed"
  /\ server = "stopped" => cancelled

\* The steps of the process, whatever the admin does in the same step; Kill apart.
ProcAction ==
  \/ Start \/ Signal \/ HandleSignal \/ HandlerCancelled \/ Setup \/ SetupFails \/ Bind
  \/ BindFails \/ Serve \/ ServeFails \/ GracefulStop \/ Stopped(calls = Nothing)
  \/ ServeReturns \/ CloseDbus \/ Cancel \/ Exit
  \/ WorkerStarts \/ WorkerCancelled \/ AgentStatus \/ AgentStatusFails \/ Attempt
  \/ AgentSent \/ AgentAccepted \/ AgentCallFails \/ NextService \/ SkipService
  \/ ServicesDone \/ ServiceAccepted \/ ServiceCallFails

\* At the start there is no process.
LEMMA ProcInitInv == Init => ProcInv
BY ZenonT(40) DEF Init, ProcInit, SetInit, ProcInv, MainState, WorkerState

\* The steps of main and of the signal handler keep the invariant of the process.
LEMMA MainKeeps ==
  ASSUME ProcInv, calls' = calls,
         \/ Start \/ Signal \/ HandleSignal \/ HandlerCancelled \/ Setup \/ SetupFails \/ Bind
         \/ BindFails \/ ServeReturns \/ CloseDbus \/ Cancel \/ Exit
  PROVE  ProcInv'
<1> USE DEF ProcInv, MainState, WorkerState, MainStep, srvVars, workVars
<1>1. CASE Start
  BY <1>1 DEF Start
<1>2. CASE Signal
  BY <1>2 DEF Signal
<1>3. CASE HandleSignal
  BY <1>3 DEF HandleSignal
<1>4. CASE HandlerCancelled
  BY <1>4 DEF HandlerCancelled
<1>5. CASE Setup
  BY <1>5 DEF Setup
<1>6. CASE SetupFails
  BY <1>6 DEF SetupFails
<1>7. CASE Bind
  BY <1>7 DEF Bind
<1>8. CASE BindFails
  BY <1>8 DEF BindFails
<1>9. CASE ServeReturns
  BY <1>9 DEF ServeReturns
<1>10. CASE CloseDbus
  BY <1>10 DEF CloseDbus
<1>11. CASE Cancel
  BY <1>11 DEF Cancel
<1>12. CASE Exit
  BY ZenonT(40), <1>12 DEF Exit, Gone
<1> QED BY <1>1, <1>2, <1>3, <1>4, <1>5, <1>6, <1>7, <1>8, <1>9, <1>10, <1>11, <1>12

\* So do those of server and stopper.
LEMMA ServerKeeps ==
  ASSUME ProcInv, calls' = calls,
         Serve \/ ServeFails \/ GracefulStop \/ Stopped(calls = Nothing)
  PROVE  ProcInv'
<1> USE DEF ProcInv, MainState, WorkerState, ServerStep, workVars
<1>1. CASE Serve
  BY <1>1 DEF Serve
<1>2. CASE ServeFails
  BY <1>2 DEF ServeFails
<1>3. CASE GracefulStop
  BY <1>3 DEF GracefulStop
<1>4. CASE Stopped(calls = Nothing)
  BY <1>4 DEF Stopped
<1> QED BY <1>1, <1>2, <1>3, <1>4

\* So do those of the worker, which only moves on from a state in which the server
\* has been announced, except out of its first wait.
LEMMA WorkerKeeps ==
  ASSUME ProcInv, calls' = calls,
         \/ WorkerStarts \/ WorkerCancelled \/ AgentStatus \/ AgentStatusFails \/ Attempt
         \/ AgentSent \/ AgentAccepted \/ AgentCallFails \/ NextService \/ SkipService
         \/ ServicesDone \/ ServiceAccepted \/ ServiceCallFails
  PROVE  ProcInv'
<1>1. /\ UNCHANGED <<main, code, handler, cancelled, server, started, stopper>>
      /\ worker' \in WorkerState
      /\ worker \notin {"none", "done"}
      /\ worker' \in {"none", "select", "done"} \/ started
  BY DEF ProcInv, WorkerState, WorkerStep, srvVars, WorkerStarts, WorkerCancelled, AgentStatus,
         AgentStatusFails, Attempt, AgentSent, AgentAccepted, AgentCallFails, NextService,
         SkipService, ServicesDone, ServiceAccepted, ServiceCallFails
<1> QED BY <1>1 DEF ProcInv

\* Every step of the system keeps the invariant of the process.  Settings are applied
\* by calls that come while the server serves, which is before its stopper is done.
LEMMA ProcStepInv == ProcInv /\ [Next]_vars => ProcInv'
<1> SUFFICES ASSUME ProcInv, [Next]_vars PROVE ProcInv'
  OBVIOUS
<1> USE DEF setVars
<1>1. CASE ProcStep \/ ProcFault
  BY <1>1, MainKeeps, ServerKeeps, WorkerKeeps DEF ProcStep, ProcFault
<1>2. CASE StartAgent \/ SignalAgent
  BY <1>2, MainKeeps DEF StartAgent, SignalAgent
<1>3. CASE KillAgent
  <2>1. Kill /\ calls' = Nothing
    BY <1>3 DEF KillAgent, DropCalls
  <2> QED BY ZenonT(40), <2>1 DEF Kill, Gone, ProcInv, MainState, WorkerState
<1>4. CASE RegisterAgent \/ Answer \/ TimeOut \/ RegisterService
  BY <1>4, WorkerKeeps
     DEF RegisterAgent, Answer, TimeOut, RegisterService, Register, Greet, Abandon
<1>5. ASSUME NEW r \in Request, Handle(r) \/ HandleFault(r) PROVE ProcInv'
  BY <1>5 DEF Handle, HandleFault, OpenConf, OpenConfFails, WriteConf, WriteConfFails, Broadcast,
              Assign, procVars, ProcInv
<1>6. CASE Push
  <2>1. PICK v \in Among(pushes) :
          \/ Listening /\ Deliver(v)
          \/ Lose(v)
    BY <1>6 DEF Push
  <2>2. UNCHANGED procVars
    BY <1>6 DEF Push
  <2> QED BY <2>1, <2>2 DEF Listening, Deliver, Lose, procVars, ProcInv
<1>7. CASE Listen
  <2>1. PICK v \in Among(calls) : SetLocale(v) \/ SetLocaleFails(v)
    BY <1>7 DEF Listen
  <2>2. calls # Nothing
    BY <2>1 DEF Among, Nothing
  <2>3. UNCHANGED procVars
    BY <1>7 DEF Listen
  <2> QED BY <2>2, <2>3 DEF procVars, ProcInv
<1>8. CASE RestartOfAdmin
  <2>1. calls' = calls
    BY <1>8 DEF RestartOfAdmin, RestartAdmin
  <2>2. AgentCallFails \/ UNCHANGED procVars
    BY <1>8 DEF RestartOfAdmin
  <2> QED BY <2>1, <2>2, WorkerKeeps DEF procVars, ProcInv
<1>9. CASE UNCHANGED vars
  BY <1>9 DEF vars, procVars, ProcInv
<1> QED BY <1>1, <1>2, <1>3, <1>4, <1>5, <1>6, <1>7, <1>8, <1>9 DEF Next

\* Names in the registry and the worker that put them there.
NamesInv ==
  /\ todo \subseteq Service /\ unit \in Service \cup {NoService}
  /\ worker = "awaiting" => Agent \in known
  /\ worker \in Past => Agent \in known \/ orphans
  /\ known \cap Service # {} => Agent \in known \/ orphans

WorkerKept ==
  /\ worker' = "awaiting" <=> worker = "awaiting"
  /\ worker' \in Past => worker \in Past
  /\ todo' \subseteq Service /\ unit' \in Service \cup {NoService}

\* A step of the process alone neither begins nor ends a wait for the answer of the
\* admin, and does not enter the services.
LEMMA WorkerAlone ==
  ASSUME ProcInv, NamesInv, ProcStep \/ ProcFault \/ StartAgent \/ SignalAgent
  PROVE  WorkerKept
<1> USE DEF WorkerKept, ProcInv, NamesInv, Past, srvVars, workVars
<1>1. CASE \/ HandleSignal \/ HandlerCancelled \/ Bind \/ BindFails \/ SetupFails \/ ServeReturns
           \/ CloseDbus \/ Cancel \/ Signal
           \/ Serve \/ ServeFails \/ GracefulStop \/ Stopped(calls = Nothing)
  BY <1>1 DEF HandleSignal, HandlerCancelled, Bind, BindFails, SetupFails, ServeReturns, CloseDbus,
              Cancel, Signal, Serve, ServeFails, GracefulStop, Stopped, MainStep, ServerStep
<1>2. CASE Start \/ Setup \/ Exit
  BY <1>2 DEF Start, Setup, Exit, Gone
<1>3. CASE \/ WorkerStarts \/ WorkerCancelled \/ AgentStatus \/ AgentStatusFails \/ Attempt
           \/ ServicesDone \/ SkipService
           \/ worker = "calling" /\ AgentCallFails
  BY <1>3 DEF WorkerStarts, WorkerCancelled, AgentStatus, AgentStatusFails, Attempt, ServicesDone,
              SkipService, AgentCallFails
<1>4. CASE NextService \/ ServiceCallFails
  <2>1. ASSUME NextService PROVE todo' \subseteq Service /\ unit' \in Service
    BY <2>1 DEF NextService
  <2> QED BY <1>4, <2>1 DEF NextService, ServiceCallFails
<1> HIDE DEF WorkerKept, ProcInv, NamesInv, Past
<1>5. CASE ProcStep
  BY <1>1, <1>2, <1>3, <1>4, <1>5 DEF ProcStep
<1>6. CASE ProcFault
  BY <1>1, <1>2, <1>3, <1>4, <1>6 DEF ProcFault
<1> QED BY SMTT(30), <1>1, <1>2, <1>5, <1>6 DEF StartAgent, SignalAgent

\* Nothing is registered at the start.
LEMMA NamesInitInv == Init => NamesInv
BY DEF Init, ProcInit, SetInit, NamesInv, Past

\* Every step keeps the order of registrations: the services are entered only from
\* the states a worker reaches through its own registration.
LEMMA NamesStepInv == ProcInv /\ NamesInv /\ [Next]_vars => NamesInv'
<1> SUFFICES ASSUME ProcInv, NamesInv, [Next]_vars PROVE NamesInv'
  OBVIOUS
<1>1. CASE ProcStep \/ ProcFault \/ StartAgent \/ SignalAgent
  <2>1. UNCHANGED <<known, orphans>>
    BY <1>1 DEF ProcStep, ProcFault, StartAgent, SignalAgent, setVars
  <2> QED BY <1>1, <2>1, WorkerAlone DEF WorkerKept, NamesInv
<1>2. CASE KillAgent
  <2>1. /\ Gone /\ worker' = "none"
        /\ UNCHANGED <<known, orphans>>
    BY <1>2 DEF KillAgent, Kill, DropCalls
  <2> QED BY <2>1 DEF Gone, NamesInv, Past
<1>3. CASE RegisterAgent
  BY <1>3 DEF RegisterAgent, AgentSent, Register, NamesInv
<1>4. CASE Answer \/ TimeOut
  <2>1. worker = "awaiting" /\ UNCHANGED <<known, orphans>> /\ (AgentAccepted \/ AgentCallFails)
    BY <1>4 DEF Answer, TimeOut, Greet, Abandon
  <2> QED BY <2>1 DEF AgentAccepted, AgentCallFails, NamesInv
<1>5. CASE RegisterService
  <2>1. known' = known \cup {unit} /\ UNCHANGED orphans /\ (ServiceAccepted \/ ServiceCallFails)
    BY <1>5 DEF RegisterService, Register
  <2> QED BY <2>1 DEF ServiceAccepted, ServiceCallFails, NamesInv, Past
<1>6. ASSUME NEW r \in Request, Handle(r) \/ HandleFault(r) PROVE NamesInv'
  <2>1. UNCHANGED <<worker, todo, unit, known, orphans>>
    BY <1>6 DEF Handle, HandleFault, OpenConf, OpenConfFails, WriteConf, WriteConfFails,
                Broadcast, Assign, procVars
  <2> QED BY <2>1 DEF NamesInv
<1>7. CASE Push \/ Listen
  <2>1. UNCHANGED <<worker, todo, unit, known, orphans>>
    BY <1>7 DEF Push, Listen, Deliver, Lose, SetLocale, SetLocaleFails, procVars
  <2> QED BY <2>1 DEF NamesInv
<1>8. CASE RestartOfAdmin
  <2>1. known' = {} /\ orphans' = (worker \in Past)
    BY <1>8 DEF RestartOfAdmin, RestartAdmin
  <2>2. CASE worker = "awaiting" /\ AgentCallFails
    BY <2>1, <2>2 DEF AgentCallFails, NamesInv, Past
  <2>3. CASE worker # "awaiting" /\ UNCHANGED procVars
    BY ZenonT(40), <2>1, <2>3 DEF procVars, NamesInv
  <2> QED BY <1>8, <2>2, <2>3 DEF RestartOfAdmin
<1>9. CASE UNCHANGED vars
  BY <1>9 DEF vars, procVars, setVars, NamesInv
<1> QED BY <1>1, <1>2, <1>3, <1>4, <1>5, <1>6, <1>7, <1>8, <1>9 DEF Next

ReqOK == req \in [Request -> {Idle, Done} \cup [stage : Stages, val : Value]]

\* The file.  Of a request in flight that is alone, the file holds nothing while it
\* is being written, and its value from then on.
FileInv ==
  /\ ReqOK
  /\ ~unsaved =>
       \/ InFlight = {} /\ conf = cached
       \/ \E r \in Request :
            /\ InFlight = {r}
            /\ conf = IF At(r, "writing") THEN None ELSE req[r].val

\* The file and the memory are both empty at the start.
LEMMA FileInitInv == Init => FileInv
BY DEF Init, SetInit, FileInv, ReqOK, Idle, InFlight, Stages

\* A request at a stage of its handling has a value.
LEMMA ReqHasValue ==
  ASSUME ReqOK, NEW r \in Request, req[r].stage \in Stages
  PROVE  req[r] \in [stage : Stages, val : Value]
BY DEF ReqOK, Idle, Done, Stages

\* A request in flight that moves to its next stage keeps its value, and the others
\* stay as they are.
LEMMA ReqGoes ==
  ASSUME ReqOK, NEW r \in Request, NEW t \in Stages, r \in InFlight, Goto(r, t)
  PROVE  /\ ReqOK' /\ InFlight' = InFlight
         /\ req'[r].stage = t /\ req'[r].val = req[r].val
         /\ \A q \in Request \ {r} : req'[q] = req[q]
<1>1. req[r] \in [stage : Stages, val : Value]
  BY ReqHasValue DEF InFlight
<1>2. req'[r] = [req[r] EXCEPT !.stage = t] /\ \A q \in Request \ {r} : req'[q] = req[q]
  BY DEF Goto, ReqOK
<1>3. req'[r] \in [stage : Stages, val : Value] /\ req'[r].stage = t /\ req'[r].val = req[r].val
  BY <1>1, <1>2
<1>4. ReqOK'
  BY <1>2, <1>3 DEF ReqOK, Goto
<1> QED BY <1>2, <1>3, <1>4 DEF InFlight

\* A request that comes in is in flight with the value it asks for.
LEMMA ReqComes ==
  ASSUME ReqOK, NEW r \in Request, NEW t \in Stages, NEW v \in Value,
         req' = [req EXCEPT ![r] = [stage |-> t, val |-> v]]
  PROVE  /\ ReqOK' /\ InFlight' = InFlight \cup {r}
         /\ req'[r].stage = t /\ req'[r].val = v
         /\ \A q \in Request \ {r} : req'[q] = req[q]
<1>1. req'[r] = [stage |-> t, val |-> v] /\ \A q \in Request \ {r} : req'[q] = req[q]
  BY DEF ReqOK
<1>2. ReqOK'
  BY <1>1 DEF ReqOK
<1> QED BY <1>1, <1>2 DEF InFlight

\* A request that is done is no longer in flight.
LEMMA ReqEnds ==
  ASSUME ReqOK, NEW r \in Request, req' = [req EXCEPT ![r] = Done]
  PROVE  /\ ReqOK' /\ InFlight' = InFlight \ {r}
         /\ req'[r] = Done
         /\ \A q \in Request \ {r} : req'[q] = req[q]
<1>1. req'[r] = Done /\ \A q \in Request \ {r} : req'[q] = req[q]
  BY DEF ReqOK
<1>2. ReqOK'
  BY <1>1 DEF ReqOK
<1> QED BY <1>1, <1>2 DEF InFlight, Done, Stages

\* The requests that a restart of the admin finds in flight are gone.
LEMMA ReqGone ==
  ASSUME ReqOK, RestartAdmin
  PROVE  ReqOK' /\ InFlight' = {}
<1>1. \A r \in Request : req'[r] \in {Idle, Done}
  BY DEF RestartAdmin
<1>2. ReqOK'
  BY <1>1 DEF RestartAdmin, ReqOK
<1> QED BY <1>1, <1>2 DEF InFlight, Idle, Done, Stages

\* Every step keeps the promise of the file.  A request that opens the file while
\* another is in flight, and one that cannot write it, are on record.
LEMMA FileStepInv == FileInv /\ [Next]_vars => FileInv'
<1> SUFFICES ASSUME FileInv, [Next]_vars PROVE FileInv'
  OBVIOUS
<1>0. ReqOK
  BY DEF FileInv
<1>1. ASSUME UNCHANGED <<cached, conf, req, unsaved>> PROVE FileInv'
  BY <1>1 DEF FileInv, ReqOK, InFlight, At
<1>2. CASE ProcStep \/ ProcFault \/ StartAgent \/ SignalAgent \/ UNCHANGED vars
  BY <1>1, <1>2 DEF ProcStep, ProcFault, StartAgent, SignalAgent, setVars, vars
<1>3. CASE KillAgent \/ RegisterAgent \/ Answer \/ TimeOut \/ RegisterService
  BY <1>1, <1>3 DEF KillAgent, DropCalls, RegisterAgent, Answer, TimeOut, RegisterService,
                    Register, Greet, Abandon
<1>4. CASE Push \/ Listen
  BY <1>1, <1>4 DEF Push, Listen, Deliver, Lose, SetLocale, SetLocaleFails
<1>5. ASSUME NEW r \in Request, OpenConf(r) \/ OpenConfFails(r) PROVE FileInv'
  <2>1. PICK v \in Value, t \in {"writing", "written"} :
          req' = [req EXCEPT ![r] = [stage |-> t, val |-> v]]
    BY <1>5, SettingsAssumption DEF OpenConf, OpenConfFails
  <2>2. /\ ReqOK' /\ InFlight' = InFlight \cup {r}
        /\ req'[r].stage = t
    BY ZenonT(40), <1>0, <2>1, ReqComes DEF Stages
  <2>3. CASE OpenConfFails(r)
    BY <2>2, <2>3 DEF OpenConfFails, FileInv
  <2>4. CASE OpenConf(r)
    <3>1. At(r, "writing")'
      BY ZenonT(40), <1>0, <2>4, ReqComes, SettingsAssumption DEF OpenConf, Stages, At
    <3>2. ~unsaved' => InFlight = {}
      BY ZenonT(40), <2>4 DEF OpenConf
    <3> QED BY <2>2, <2>4, <3>1, <3>2 DEF OpenConf, FileInv
  <2> QED BY <1>5, <2>3, <2>4
<1>6. ASSUME NEW r \in Request, WriteConf(r) \/ WriteConfFails(r) \/ Broadcast(r) PROVE FileInv'
  <2>1. PICK t \in {"written", "spawned"} : r \in InFlight /\ Goto(r, t)
    BY <1>6 DEF WriteConf, WriteConfFails, Broadcast, At, InFlight, Stages
  <2>2. /\ ReqOK' /\ InFlight' = InFlight
        /\ ~At(r, "writing")' /\ req'[r].val = req[r].val
    BY <1>0, <2>1, ReqGoes DEF Stages, At
  <2>3. CASE WriteConfFails(r)
    BY <2>2, <2>3 DEF WriteConfFails, FileInv
  <2>4. CASE unsaved'
    BY <2>2, <2>4 DEF FileInv
  <2>5. CASE ~unsaved' /\ (WriteConf(r) \/ Broadcast(r))
    <3>1. InFlight = {r} /\ conf = IF At(r, "writing") THEN None ELSE req[r].val
      BY <2>1, <2>5 DEF WriteConf, Broadcast, FileInv
    <3>2. conf' = req[r].val
      BY <2>5, <3>1 DEF WriteConf, Broadcast, At
    <3> QED BY <2>2, <3>1, <3>2 DEF FileInv
  <2> QED BY <1>6, <2>3, <2>4, <2>5
<1>7. ASSUME NEW r \in Request, Assign(r) PROVE FileInv'
  <2>1. r \in InFlight /\ ~At(r, "writing")
    BY <1>7 DEF Assign, At, InFlight, Stages
  <2>2. ReqOK' /\ InFlight' = InFlight \ {r}
    BY ZenonT(40), <1>0, <1>7, ReqEnds DEF Assign
  <2>3. ~unsaved => InFlight = {r} /\ conf = req[r].val
    BY <2>1 DEF FileInv
  <2> QED BY <1>7, <2>2, <2>3 DEF Assign, FileInv
<1>8. CASE RestartOfAdmin
  BY ZenonT(40), <1>0, <1>8, ReqGone DEF RestartOfAdmin, RestartAdmin, FileInv
<1> QED BY <1>2, <1>3, <1>4, <1>5, <1>6, <1>7, <1>8 DEF Next, Handle, HandleFault

\* What another one of v, and one less, do to the values among which v is.
LEMMA Counting ==
  ASSUME NEW count \in Count, NEW v \in Stored
  PROVE  /\ Plus(count, v) \in Count
         /\ Among(Plus(count, v)) = Among(count) \cup {v}
         /\ v \in Among(count) => /\ Minus(count, v) \in Count
                                 /\ Among(Minus(count, v)) \subseteq Among(count)
BY DEF Count, Plus, Minus, Among

\* w is the last word on the setting: all that is underway carries it, the memory
\* has it once no request is about to store it, and so has the agent once nothing
\* is underway to it.
LastWord(w) ==
  /\ Among(pushes) \subseteq {w} /\ Among(calls) \subseteq {w}
  /\ \A r \in Request : At(r, "spawned") => req[r].val = w
  /\ (\A r \in Request : ~At(r, "spawned")) => cached = w
  /\ Among(pushes) = {} /\ Among(calls) = {} /\ w # None => applied = w

WordInv ==
  /\ cached \in Stored /\ conf \in Stored
  /\ pushes \in Count /\ calls \in Count
  /\ Agent \in known /\ worker # "awaiting" /\ ~excused => \E w \in Stored : LastWord(w)

\* A value that is not contested is the only one underway.
LEMMA Uncontested ==
  ASSUME NEW v, ~Contested(v)
  PROVE  /\ Among(pushes) \subseteq {v} /\ Among(calls) \subseteq {v}
         /\ \A r \in Request : At(r, "spawned") => req[r].val = v
BY DEF Contested, Underway, InFlight, At, Stages

\* At the start the agent is not known.
LEMMA WordInitInv == Init => WordInv
BY DEF Init, SetInit, WordInv, Stored, Count, Nothing

\* The steps of a request that it takes before it is broadcast concern the file only.
LEMMA WordBefore ==
  ASSUME ReqOK, WordInv, NEW r \in Request, UNCHANGED <<worker, known>>,
         OpenConf(r) \/ OpenConfFails(r) \/ WriteConf(r) \/ WriteConfFails(r)
  PROVE  WordInv'
<1>1. /\ UNCHANGED <<cached, pushes, calls, applied, excused>>
      /\ \A q \in Request : At(q, "spawned")' <=> At(q, "spawned")
      /\ \A q \in Request : At(q, "spawned") => req'[q] = req[q]
      /\ conf' \in Stored
  <2>1. CASE OpenConf(r) \/ OpenConfFails(r)
    <3>1. PICK v \in Value, t \in {"writing", "written"} :
            req' = [req EXCEPT ![r] = [stage |-> t, val |-> v]]
      BY <2>1, SettingsAssumption DEF OpenConf, OpenConfFails
    <3>2. /\ req'[r].stage = t
          /\ \A q \in Request \ {r} : req'[q] = req[q]
      BY ZenonT(40), <3>1, ReqComes DEF Stages
    <3>3. ~At(r, "spawned") /\ ~At(r, "spawned")'
      BY SMTT(30), <2>1, <3>2 DEF OpenConf, OpenConfFails, At
    <3> QED BY <2>1, <3>2, <3>3 DEF OpenConf, OpenConfFails, At, WordInv, Stored
  <2>2. CASE WriteConf(r) \/ WriteConfFails(r)
    <3>1. r \in InFlight /\ Goto(r, "written")
      BY <2>2 DEF WriteConf, WriteConfFails, At, InFlight, Stages
    <3>2. /\ req'[r].stage = "written"
          /\ \A q \in Request \ {r} : req'[q] = req[q]
      BY <3>1, ReqGoes DEF Stages
    <3>3. ~At(r, "spawned") /\ ~At(r, "spawned")'
      BY <2>2, <3>2 DEF WriteConf, WriteConfFails, At
    <3>4. req[r].val \in Value
      BY SMTT(30), <3>1, ReqHasValue DEF InFlight
    <3> QED BY SMTT(30), <2>2, <3>2, <3>3, <3>4 DEF WriteConf, WriteConfFails, At, WordInv, Stored
  <2> QED BY SMTT(30), <2>1, <2>2
<1>2. \A w : LastWord(w) => LastWord(w)'
  BY <1>1 DEF LastWord
<1> QED BY <1>1, <1>2 DEF WordInv

\* A value that is broadcast becomes the last word, or is on record as contested.
LEMMA WordBroadcast ==
  ASSUME ReqOK, WordInv, NEW r \in Request, UNCHANGED <<worker, known>>, Broadcast(r)
  PROVE  WordInv'
<1>1. r \in InFlight /\ Goto(r, "spawned")
  BY DEF Broadcast, At, InFlight, Stages
<1>2. PICK v \in Stored : v = req[r].val
  BY <1>1, ReqHasValue DEF InFlight, Stored
<1>3. /\ req'[r].stage = "spawned" /\ req'[r].val = v
      /\ \A q \in Request \ {r} : req'[q] = req[q]
  BY <1>1, <1>2, ReqGoes DEF Stages
<1>4. cached' = cached /\ conf' = conf /\ calls' = calls
  BY DEF Broadcast
<1>5. ASSUME Agent \in known', ~excused' PROVE LastWord(v)'
  <2>1. Agent \in known
    BY <1>5
  <2>2. pushes' = Plus(pushes, v) /\ ~Contested(v)
    BY <1>2, <1>5, <2>1 DEF Broadcast
  <2>3. Among(pushes') = Among(pushes) \cup {v}
    BY <2>2, Counting DEF WordInv
  <2>4. At(r, "spawned")'
    BY <1>3 DEF At
  <2>5. \A q \in Request : At(q, "spawned")' => req'[q].val = v
    BY <1>3, <2>2, Uncontested DEF At
  <2>6. Among(pushes') \subseteq {v} /\ Among(calls') \subseteq {v}
    BY <1>4, <2>2, <2>3, Uncontested
  <2> QED BY <2>3, <2>4, <2>5, <2>6 DEF LastWord
<1>6. pushes' \in Count
  BY <1>2, Counting DEF Broadcast, WordInv
<1> QED BY <1>4, <1>5, <1>6 DEF WordInv

\* A request that stores its value stores the last word.
LEMMA WordAssign ==
  ASSUME ReqOK, WordInv, NEW r \in Request, UNCHANGED <<worker, known>>, Assign(r)
  PROVE  WordInv'
<1>1. r \in InFlight /\ At(r, "spawned")
  BY DEF Assign, At, InFlight, Stages
<1>2. req'[r] = Done /\ \A q \in Request \ {r} : req'[q] = req[q]
  BY ZenonT(40), ReqEnds DEF Assign
<1>3. cached' = req[r].val /\ UNCHANGED <<conf, pushes, calls, applied, excused>>
  BY DEF Assign
<1>4. cached' \in Stored
  BY <1>1, <1>3, ReqHasValue DEF InFlight, Stored
<1>5. \A q \in Request : At(q, "spawned")' => At(q, "spawned") /\ req'[q] = req[q]
  BY <1>2 DEF At, Done
<1>6. \A w : LastWord(w) => LastWord(w)'
  BY <1>1, <1>3, <1>5 DEF LastWord
<1> QED BY <1>3, <1>4, <1>6 DEF WordInv

\* A registering agent is told the last word, unless it is contested at that moment.
LEMMA WordGreet ==
  ASSUME WordInv, Greet
  PROVE  WordInv'
<1>1. PICK v \in Stored : v = cached
  BY DEF WordInv
<1>2. UNCHANGED <<cached, conf, req, calls>>
  BY DEF Greet
<1>3. ASSUME ~excused' PROVE LastWord(v)'
  <2>1. ~Contested(v)
    BY <1>1, <1>3 DEF Greet
  <2>2. Among(pushes') = IF v = None THEN Among(pushes) ELSE Among(pushes) \cup {v}
    BY ZenonT(40), <1>1, Counting DEF Greet, WordInv
  <2>3. Among(pushes') \subseteq {v} /\ Among(calls') \subseteq {v}
    BY <1>2, <2>1, <2>2, Uncontested
  <2>4. \A q \in Request : At(q, "spawned")' => req'[q].val = v
    BY <1>2, <2>1, Uncontested DEF At
  <2> QED BY <1>1, <1>2, <2>2, <2>3, <2>4 DEF LastWord
<1>4. pushes' \in Count
  BY <1>1, Counting DEF Greet, WordInv
<1> QED BY <1>2, <1>3, <1>4 DEF WordInv

\* On its way to the agent the last word is sent, taken and applied, or its loss is on
\* record.
LEMMA WordTravels ==
  ASSUME WordInv, UNCHANGED <<worker, known>>, NEW v,
         Deliver(v) \/ Lose(v) \/ SetLocale(v) \/ SetLocaleFails(v)
  PROVE  WordInv'
<1>1. UNCHANGED <<cached, conf, req>>
  BY DEF Deliver, Lose, SetLocale, SetLocaleFails
<1>2. \A q \in Request : At(q, "spawned")' <=> At(q, "spawned")
  BY <1>1 DEF At
<1>3. CASE Lose(v) \/ SetLocaleFails(v)
  <2>1. pushes' \in Count /\ calls' \in Count
    <3>1. v \in Stored /\ pushes \in Count /\ calls \in Count
      BY <1>3 DEF Lose, SetLocaleFails, Among, WordInv
    <3> QED BY <1>3, <3>1, Counting DEF Lose, SetLocaleFails
  <2> QED BY <1>1, <1>3, <2>1 DEF Lose, SetLocaleFails, WordInv
<1>4. CASE Deliver(v)
  <2>1. /\ v \in Among(pushes)
        /\ Among(pushes') \subseteq Among(pushes) /\ pushes' \in Count
        /\ Among(calls') = Among(calls) \cup {v} /\ calls' \in Count
    <3>1. v \in Among(pushes) /\ v \in Stored /\ pushes \in Count /\ calls \in Count
      BY <1>4 DEF Deliver, Among, WordInv
    <3> QED BY <1>4, <3>1, Counting DEF Deliver
  <2>2. \A w : LastWord(w) => LastWord(w)'
    BY <1>1, <1>2, <2>1 DEF LastWord
  <2> QED BY <1>1, <1>4, <2>1, <2>2 DEF Deliver, WordInv
<1>5. CASE SetLocale(v)
  <2>1. /\ v \in Among(calls)
        /\ Among(calls') \subseteq Among(calls) /\ calls' \in Count
        /\ pushes' = pushes /\ applied' = v
    <3>1. v \in Among(calls) /\ v \in Stored /\ calls \in Count
      BY <1>5 DEF SetLocale, Among, WordInv
    <3> QED BY <1>5, <3>1, Counting DEF SetLocale
  <2>2. \A w : LastWord(w) => LastWord(w)'
    BY <1>1, <1>2, <2>1 DEF LastWord
  <2> QED BY <1>1, <1>5, <2>1, <2>2 DEF SetLocale, WordInv
<1> QED BY <1>3, <1>4, <1>5

\* Every step keeps the last word.  That a service is registered says nothing about
\* the agent, whose name is not one of a service.
LEMMA WordStepInv == ProcInv /\ NamesInv /\ FileInv /\ WordInv /\ [Next]_vars => WordInv'
<1> SUFFICES ASSUME ProcInv, NamesInv, FileInv, WordInv, [Next]_vars PROVE WordInv'
  OBVIOUS
<1>0. ReqOK
  BY DEF FileInv
<1>1. ASSUME UNCHANGED <<cached, conf, req, pushes, calls, applied, excused>>,
             Agent \in known' => Agent \in known,
             worker' # "awaiting" => worker # "awaiting"
      PROVE  WordInv'
  <2>1. \A w : LastWord(w) => LastWord(w)'
    BY <1>1 DEF LastWord, At
  <2> QED BY <1>1, <2>1 DEF WordInv
<1>2. CASE ProcStep \/ ProcFault \/ StartAgent \/ SignalAgent
  <2>1. UNCHANGED setVars
    BY <1>2 DEF ProcStep, ProcFault, StartAgent, SignalAgent
  <2> QED BY <1>1, <1>2, <2>1, WorkerAlone DEF WorkerKept, setVars
<1>3. CASE KillAgent
  <2>1. /\ calls' = Nothing
        /\ excused' = (excused \/ worker = "awaiting" \/ calls # Nothing)
        /\ UNCHANGED <<known, cached, conf, req, pushes, applied>>
    BY <1>3 DEF KillAgent, DropCalls
  <2>2. CASE excused'
    BY <2>1, <2>2 DEF WordInv, Count, Nothing
  <2>3. CASE ~excused'
    <3>1. ~excused /\ worker # "awaiting" /\ calls' = calls
      BY <2>1, <2>3
    <3>2. \A w : LastWord(w) => LastWord(w)'
      BY <2>1, <3>1 DEF LastWord, At
    <3> QED BY <2>1, <3>1, <3>2 DEF WordInv
  <2> QED BY <2>2, <2>3
<1>4. CASE RegisterAgent
  BY <1>4 DEF RegisterAgent, AgentSent, Register, WordInv
<1>5. CASE Answer
  BY <1>5, WordGreet DEF Answer
<1>6. CASE TimeOut
  BY <1>6 DEF TimeOut, Abandon, WordInv
<1>7. CASE RegisterService
  <2>1. Register(unit) /\ (ServiceAccepted \/ ServiceCallFails)
    BY <1>7 DEF RegisterService
  <2>2. unit # Agent
    BY AgentAdminAssumption DEF NamesInv
  <2>3. worker # "awaiting"
    BY <2>1 DEF ServiceAccepted, ServiceCallFails
  <2> QED BY <1>1, <2>1, <2>2, <2>3 DEF Register
<1>8. ASSUME NEW r \in Request, Handle(r) \/ HandleFault(r) PROVE WordInv'
  <2>1. /\ UNCHANGED <<worker, known>>
        /\ \/ OpenConf(r) \/ OpenConfFails(r) \/ WriteConf(r) \/ WriteConfFails(r)
           \/ Broadcast(r) \/ Assign(r)
    BY ZenonT(40), <1>8 DEF Handle, HandleFault, procVars, OpenConf, OpenConfFails, WriteConf,
                WriteConfFails, Broadcast, Assign
  <2> QED BY SMTT(30), <1>0, <2>1, WordBefore, WordBroadcast, WordAssign
<1>9. CASE Push \/ Listen
  <2>1. PICK v : Deliver(v) \/ Lose(v) \/ SetLocale(v) \/ SetLocaleFails(v)
    BY SMTT(30), <1>9 DEF Push, Listen
  <2>2. UNCHANGED <<worker, known>>
    BY <1>9, <2>1 DEF Push, Listen, Deliver, Lose, SetLocale, SetLocaleFails, procVars
  <2> QED BY <2>1, <2>2, WordTravels
<1>10. CASE RestartOfAdmin
  BY <1>10 DEF RestartOfAdmin, RestartAdmin, WordInv, Count, Nothing
<1>11. CASE UNCHANGED vars
  BY SMTT(30), <1>1, <1>11 DEF vars, procVars, setVars
<1> QED
  BY <1>2, <1>3, <1>4, <1>5, <1>6, <1>7, <1>8, <1>9, <1>10, <1>11 DEF Next

\* A process that is being set up, or is gone, has no worker at a service.
ProcTypeInv ==
  ProcTypeOK /\ (main \in {"setup", "exited"} => worker \in {"none", "done"})

\* The types of the process survive each of its steps.
LEMMA ProcTypesKept ==
  ASSUME ProcTypeInv,
         \/ Start \/ Signal \/ HandleSignal \/ HandlerCancelled \/ Setup \/ SetupFails \/ Bind
         \/ BindFails \/ Serve \/ ServeFails \/ GracefulStop \/ Stopped(calls = Nothing)
         \/ ServeReturns \/ CloseDbus \/ Cancel \/ Exit \/ Kill
         \/ WorkerStarts \/ WorkerCancelled \/ AgentStatus \/ AgentStatusFails \/ Attempt
         \/ AgentSent \/ AgentAccepted \/ AgentCallFails \/ NextService \/ SkipService
         \/ ServicesDone \/ ServiceAccepted \/ ServiceCallFails
  PROVE  ProcTypeInv'
<1> USE AgentProcessAssumption DEF ProcTypeInv, ProcTypeOK, MainState, WorkerState, srvVars, workVars
<1>1. CASE Start
  BY <1>1 DEF Start
<1>2. CASE Signal
  BY <1>2 DEF Signal
<1>3. CASE HandleSignal
  BY <1>3 DEF HandleSignal
<1>4. CASE HandlerCancelled
  BY <1>4 DEF HandlerCancelled
<1>5. CASE Setup
  BY <1>5 DEF Setup
<1>6. CASE Bind
  BY <1>6 DEF Bind
<1>7. CASE SetupFails
  BY <1>7 DEF SetupFails, MainStep
<1>8. CASE BindFails
  BY <1>8 DEF BindFails, MainStep
<1>9. CASE ServeReturns
  BY <1>9 DEF ServeReturns, MainStep
<1>10. CASE CloseDbus
  <2>1. dbus' \in BOOLEAN
    BY <1>10, Zenon DEF CloseDbus
  <2>2. main' = "cancel" /\ UNCHANGED <<cancelled, code, signalled, handler>>
    BY <1>10 DEF CloseDbus, MainStep
  <2>3. UNCHANGED <<server, started, stopper, worker, todo, unit, starts>>
    BY <1>10 DEF CloseDbus, MainStep
  <2> QED BY <2>1, <2>2, <2>3
<1>11. CASE Cancel
  BY <1>11 DEF Cancel, MainStep
<1>12. CASE Serve
  BY <1>12 DEF Serve, ServerStep
<1>13. CASE ServeFails
  BY <1>13 DEF ServeFails, ServerStep
<1>14. CASE GracefulStop
  BY <1>14 DEF GracefulStop, ServerStep
<1>15. CASE Stopped(calls = Nothing)
  BY <1>15 DEF Stopped, ServerStep
<1>16. CASE Exit
  BY ZenonT(40), <1>16 DEF Exit, Gone
<1>17. CASE Kill
  BY ZenonT(40), <1>17 DEF Kill, Gone
<1>18. CASE \/ WorkerStarts \/ WorkerCancelled \/ AgentStatus \/ AgentStatusFails \/ Attempt
            \/ AgentSent \/ AgentCallFails \/ ServicesDone
  <2>1. /\ UNCHANGED <<main, code, signalled, handler, cancelled, server, started, stopper>>
        /\ UNCHANGED <<todo, unit, dbus, starts>>
    BY <1>18, Zenon DEF WorkerStarts, WorkerCancelled, AgentStatus, AgentStatusFails, Attempt,
                        AgentSent, AgentCallFails, ServicesDone, WorkerStep
  <2>2. /\ worker' \in WorkerState \ {"none", "service_calling"}
        /\ worker \notin {"none", "done", "service_calling"}
    BY <1>18, SMTT(30) DEF WorkerStarts, WorkerCancelled, AgentStatus, AgentStatusFails, Attempt,
                      AgentSent, AgentCallFails, ServicesDone
  <2> QED BY <2>1, <2>2
<1>19. CASE AgentAccepted \/ ServiceAccepted \/ ServiceCallFails
  BY <1>19 DEF AgentAccepted, ServiceAccepted, ServiceCallFails, WorkerStep
<1>20. CASE NextService
  <2>1. PICK s \in todo : unit' = s /\ todo' = todo \ {s}
    BY <1>20 DEF NextService
  <2> QED BY <1>20, <2>1 DEF NextService, WorkerStep
<1>21. CASE SkipService
  BY <1>21 DEF SkipService, WorkerStep
<1> QED
  BY ZenonT(40), <1>1, <1>2, <1>3, <1>4, <1>5, <1>6, <1>7, <1>8, <1>9, <1>10, <1>11,
     <1>12, <1>13, <1>14, <1>15, <1>16, <1>17, <1>18, <1>19, <1>20, <1>21

\* One more of a value that is set, and one less of a value that is there, leave
\* none of the value that is not.
LEMMA CountingNone ==
  ASSUME NEW count \in Count, count[None] = 0, NEW v \in Stored
  PROVE  /\ v # None => Plus(count, v)[None] = 0
         /\ v \in Among(count) => v # None /\ Minus(count, v)[None] = 0
BY DEF Count, Plus, Minus, Among, Stored

\* The types of the settings survive each step of a request.
LEMMA RequestTypesKept ==
  ASSUME SetTypeOK(Names), NEW r \in Request,
         \/ OpenConf(r) \/ OpenConfFails(r) \/ WriteConf(r) \/ WriteConfFails(r)
         \/ Broadcast(r) \/ Assign(r)
  PROVE  SetTypeOK(Names)'
<1> USE DEF SetTypeOK
<1>0. ReqOK
  BY SMTT(30) DEF ReqOK
<1>1. CASE OpenConf(r) \/ OpenConfFails(r)
  <2>1. PICK w \in Value, t \in {"writing", "written"} :
          req' = [req EXCEPT ![r] = [stage |-> t, val |-> w]]
    BY ZenonT(40), <1>1, SettingsAssumption DEF OpenConf, OpenConfFails
  <2>2. ReqOK'
    BY ZenonT(40), <1>0, <2>1, ReqComes DEF Stages
  <2> QED BY ZenonT(40), <1>1, <2>2 DEF OpenConf, OpenConfFails, ReqOK, Stored
<1>2. CASE WriteConf(r) \/ WriteConfFails(r) \/ Broadcast(r)
  <2>1. PICK t \in {"written", "spawned"} : r \in InFlight /\ Goto(r, t)
    BY ZenonT(40), <1>2 DEF WriteConf, WriteConfFails, Broadcast, At, InFlight, Stages
  <2>2. ReqOK'
    BY ZenonT(40), <1>0, <2>1, ReqGoes DEF Stages
  <2>3. req[r].val \in Value
    BY SMTT(30), <1>0, <2>1, ReqHasValue DEF InFlight
  <2>4. CASE WriteConf(r) \/ WriteConfFails(r)
    BY ZenonT(40), <2>2, <2>3, <2>4 DEF WriteConf, WriteConfFails, ReqOK, Stored
  <2>5. CASE Broadcast(r)
    <3>1. Plus(pushes, req[r].val) \in Count /\ Plus(pushes, req[r].val)[None] = 0
      BY ZenonT(40), <2>3, Counting, CountingNone, SettingsAssumption DEF Stored
    <3> QED BY ZenonT(40), <2>2, <2>5, <3>1 DEF Broadcast, ReqOK, Contested
  <2> QED BY <1>2, <2>4, <2>5
<1>3. CASE Assign(r)
  <2>1. req[r].val \in Value
    BY ZenonT(40), <1>0, <1>3, ReqHasValue DEF Assign, At, Stages
  <2>2. ReqOK'
    BY ZenonT(40), <1>0, <1>3, ReqEnds DEF Assign
  <2> QED BY ZenonT(40), <1>3, <2>1, <2>2 DEF Assign, ReqOK, Stored
<1> QED BY <1>1, <1>2, <1>3

\* They survive each step of a registration, of the listener and of a restart.
LEMMA SetTypesKept ==
  ASSUME SetTypeOK(Names), NEW v,
         \/ v \in Names /\ Register(v)
         \/ Greet \/ Abandon \/ DropCalls(worker = "awaiting") \/ RestartAdmin
         \/ Deliver(v) \/ Lose(v) \/ SetLocale(v) \/ SetLocaleFails(v)
  PROVE  SetTypeOK(Names)'
<1> USE DEF SetTypeOK
<1>0. ReqOK /\ Nothing \in Count /\ Nothing[None] = 0
  BY DEF ReqOK, Count, Nothing, Stored
<1>1. CASE v \in Names /\ Register(v)
  BY SMTT(30), <1>1 DEF Register
<1>2. CASE Greet
  <2>1. cached # None => Plus(pushes, cached) \in Count /\ Plus(pushes, cached)[None] = 0
    BY SMTT(30), Counting, CountingNone
  <2> QED BY ZenonT(40), <1>2, <2>1 DEF Greet, Contested
<1>3. CASE Abandon \/ DropCalls(worker = "awaiting")
  BY ZenonT(40), <1>0, <1>3 DEF Abandon, DropCalls
<1>4. CASE RestartAdmin
  BY ZenonT(40), <1>0, <1>4, ReqGone DEF RestartAdmin, ReqOK
<1>5. CASE Deliver(v) \/ Lose(v)
  <2>1. v \in Stored /\ v \in Among(pushes)
    BY <1>5 DEF Deliver, Lose, Among
  <2>2. Minus(pushes, v) \in Count /\ Minus(pushes, v)[None] = 0
    BY <2>1, Counting, CountingNone
  <2>3. Plus(calls, v) \in Count /\ Plus(calls, v)[None] = 0
    BY SMTT(30), <2>1, Counting, CountingNone
  <2> QED BY ZenonT(40), <1>5, <2>2, <2>3 DEF Deliver, Lose
<1>6. CASE SetLocale(v) \/ SetLocaleFails(v)
  <2>1. v \in Stored /\ v \in Among(calls)
    BY <1>6 DEF SetLocale, SetLocaleFails, Among
  <2>2. Minus(calls, v) \in Count /\ Minus(calls, v)[None] = 0
    BY <2>1, Counting, CountingNone
  <2> QED BY ZenonT(40), <1>6, <2>1, <2>2 DEF SetLocale, SetLocaleFails
<1> QED BY <1>1, <1>2, <1>3, <1>4, <1>5, <1>6

\* Types, the exact place of a service registration, and that a setting that is not
\* set is not sent (registration.go 118-139, server.rs 583-603), in every state.
THEOREM AgentAdminTypes == Spec => []TypeOK
<1> DEFINE TypeInv == ProcTypeInv /\ SetTypeOK(Names) /\ faults \in 0..MaxFaults /\ orphans \in BOOLEAN
<1>1. Init => TypeInv
  <2> SUFFICES ASSUME Init PROVE TypeInv
    OBVIOUS
  <2>1. ProcTypeInv
    <3>1. starts \in 0..MaxStarts
      BY SMTT(30), AgentProcessAssumption DEF Init, ProcInit
    <3> QED BY <3>1, Zenon
            DEF Init, ProcInit, ProcTypeInv, ProcTypeOK, MainState, WorkerState
  <2>2. SetTypeOK(Names)
    BY ZenonT(40) DEF Init, SetInit, SetTypeOK, Stored, Count, Nothing, Idle
  <2>3. faults \in 0..MaxFaults
    BY AgentAdminAssumption DEF Init
  <2> QED BY <2>1, <2>2, <2>3, Zenon DEF Init
<1>2. TypeInv /\ [Next]_vars => TypeInv'
  <2> SUFFICES ASSUME TypeInv, [Next]_vars PROVE TypeInv'
    OBVIOUS
  <2>1. ASSUME UNCHANGED procVars PROVE ProcTypeInv'
    BY <2>1 DEF procVars, ProcTypeInv, ProcTypeOK
  <2>2. ASSUME UNCHANGED setVars PROVE SetTypeOK(Names)'
    BY <2>2 DEF setVars, SetTypeOK
  <2>3. ASSUME NoFault \/ Fault PROVE faults' \in 0..MaxFaults
    BY <2>3, AgentAdminAssumption DEF NoFault, Fault
  <2>4. CASE ProcStep \/ ProcFault \/ StartAgent \/ SignalAgent
    <3>1. ProcTypeInv'
      BY <2>4, ProcTypesKept DEF ProcStep, ProcFault, StartAgent, SignalAgent
    <3>2. (NoFault \/ Fault) /\ UNCHANGED <<setVars, orphans>>
      BY <2>4 DEF ProcStep, ProcFault, StartAgent, SignalAgent
    <3> QED BY <2>2, <2>3, <3>1, <3>2
  <2>5. CASE KillAgent
    <3>1. Kill /\ DropCalls(worker = "awaiting") /\ Fault /\ UNCHANGED orphans
      BY <2>5 DEF KillAgent
    <3> QED BY <2>3, <3>1, ProcTypesKept, SetTypesKept
  <2>6. CASE RegisterAgent
    <3>1. AgentSent /\ Register(Agent) /\ orphans' = FALSE /\ NoFault /\ Agent \in Names
      BY <2>6 DEF RegisterAgent, Names
    <3> QED BY ZenonT(40), <2>3, <3>1, ProcTypesKept, SetTypesKept
  <2>7. CASE Answer \/ TimeOut
    <3>1. /\ AgentAccepted \/ AgentCallFails
          /\ Greet \/ Abandon
          /\ (NoFault \/ Fault) /\ UNCHANGED orphans
      BY <2>7 DEF Answer, TimeOut
    <3> QED BY <2>3, <3>1, ProcTypesKept, SetTypesKept
  <2>8. CASE RegisterService
    <3>1. /\ ServiceAccepted \/ ServiceCallFails
          /\ Register(unit)
          /\ (NoFault \/ Fault) /\ UNCHANGED orphans
      BY <2>8 DEF RegisterService
    <3>2. unit \in Names
      BY <3>1 DEF ServiceAccepted, ServiceCallFails, ProcTypeInv, ProcTypeOK, Names
    <3> QED BY <2>3, <3>1, <3>2, ProcTypesKept, SetTypesKept
  <2>9. ASSUME NEW r \in Request, Handle(r) \/ HandleFault(r) PROVE TypeInv'
    <3>1. (NoFault \/ Fault) /\ UNCHANGED <<procVars, orphans>>
      BY <2>9 DEF Handle, HandleFault
    <3>2. SetTypeOK(Names)'
      BY <2>9, RequestTypesKept DEF Handle, HandleFault
    <3> QED BY <2>1, <2>3, <3>1, <3>2
  <2>10. CASE Push \/ Listen
    <3>1. PICK v : Deliver(v) \/ Lose(v) \/ SetLocale(v) \/ SetLocaleFails(v)
      BY <2>10 DEF Push, Listen
    <3>2. SetTypeOK(Names)'
      BY <3>1, SetTypesKept
    <3>3. (NoFault \/ Fault) /\ UNCHANGED <<procVars, orphans>>
      BY <2>10 DEF Push, Listen
    <3> QED BY <2>1, <2>3, <3>2, <3>3
  <2>11. CASE RestartOfAdmin
    <3>1. SetTypeOK(Names)'
      BY <2>11, SetTypesKept DEF RestartOfAdmin
    <3>2. ProcTypeInv'
      BY <2>1, <2>11, ProcTypesKept DEF RestartOfAdmin
    <3> QED BY <2>3, <2>11, <3>1, <3>2 DEF RestartOfAdmin
  <2>12. CASE UNCHANGED vars
    <3>1. UNCHANGED <<procVars, setVars, faults, orphans>>
      BY <2>12 DEF vars
    <3> QED BY <2>1, <2>2, <3>1
  <2> QED BY <2>4, <2>5, <2>6, <2>7, <2>8, <2>9, <2>10, <2>11, <2>12 DEF Next
<1>3. TypeInv => TypeOK
  BY DEF TypeOK, ProcTypeInv
<1> QED BY <1>1, <1>2, <1>3, PTL DEF Spec

IInv == ProcInv /\ NamesInv /\ FileInv /\ WordInv

\* The four parts hold together in every reachable state.
THEOREM Invariance == Spec => []IInv
<1>1. Init => IInv
  BY ProcInitInv, NamesInitInv, FileInitInv, WordInitInv DEF IInv
<1>2. IInv /\ [Next]_vars => IInv'
  BY ProcStepInv, NamesStepInv, FileStepInv, WordStepInv DEF IInv
<1> QED BY <1>1, <1>2, PTL DEF Spec

\* A process that leaves through os.Exit leaves no call and no goroutine behind
\* (main.go 157-164): main gets to its deferred calls only after GracefulStop.
THEOREM ShutdownIsClean == Spec => []ShutdownClean
<1>1. IInv => ShutdownClean
  BY DEF IInv, ProcInv, ShutdownClean
<1> QED BY <1>1, Invariance, PTL

\* While the worker registers, the agent's server is there to be called back, unless
\* the process is ending (registration.go 59-65).
THEOREM CallbacksAreServed == Spec => []CallbacksServed
<1>1. IInv => CallbacksServed
  BY DEF IInv, ProcInv, CallbacksServed, Listening, Past
<1> QED BY <1>1, Invariance, PTL

\* The admin knows services only of an agent it knows, unless it restarted under the
\* worker (registration.go 68-77).
THEOREM AgentComesFirst == Spec => []AgentFirst
<1>1. IInv => AgentFirst
  BY DEF IInv, NamesInv, AgentFirst
<1> QED BY <1>1, Invariance, PTL

\* Between requests that did not overlap and whose writes succeeded, the file holds
\* the setting of the memory (server.rs 832-850, 865-884).
THEOREM SettingIsPersisted == Spec => []Persisted
<1>1. IInv => Persisted
  BY DEF IInv, FileInv, Persisted
<1> QED BY <1>1, Invariance, PTL

\* With nothing underway a registered agent has the setting of the admin, apart from
\* the races and failures on record (server.rs 564-604, 834-850, 866-884).
THEOREM SettingSettles == Spec => []Settled
<1>1. IInv => Settled
  <2> SUFFICES ASSUME WordInv, Agent \in known, worker # "awaiting", Underway = {}, ~excused,
                      cached # None
               PROVE  applied = cached
    BY DEF IInv, Settled
  <2>1. PICK w \in Stored : LastWord(w)
    BY DEF WordInv
  <2>2. Among(pushes) = {} /\ Among(calls) = {} /\ \A r \in Request : ~At(r, "spawned")
    BY DEF Underway, InFlight, At, Stages
  <2> QED BY <2>1, <2>2 DEF LastWord
<1> QED BY <1>1, Invariance, PTL

=============================================================================
