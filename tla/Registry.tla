------------------------------ MODULE Registry ------------------------------
(***************************************************************************)
(* The service registry of the admin server and its event stream           *)
(* (crates/admin/src/admin/registry.rs, entry.rs and the `watch` call of   *)
(* server.rs).  The registry is a map guarded by one mutex.  Every change  *)
(* is announced on a broadcast channel while the mutex is held; a watcher  *)
(* subscribes to the channel, then takes the mutex and copies the map, and *)
(* from there on only follows the events.  The channel keeps the last      *)
(* Capacity events (16 in the code): a receiver that falls further behind  *)
(* gets an error instead of the events it missed, and its stream ends.     *)
(*                                                                         *)
(* An option (agent_name, vm_name, parse_vm_name) is a set of at most one  *)
(* element.  The mutex is held while outbox is not empty: an operation     *)
(* changes the map and queues its events there, SendEvent broadcasts them  *)
(* one by one, and only then can another operation start.  Receivers and   *)
(* `subscribe`, which opens its receiver before it locks, do not wait.     *)
(***************************************************************************)
EXTENDS Integers, Sequences, FiniteSets

CONSTANTS
  Name,         \* unit names
  Vm,           \* virtual machine names
  ParseVm,      \* ParseVm[n]: parse_vm_name(n), {} unless n is microvm@<vm>.service
  Registrable,  \* the entries registration requests and started apps produce
  Reported,     \* the unit statuses an agent reports
  Watcher,      \* callers of the `watch` stream
  Capacity,     \* events the broadcast channel keeps
  NoEntry       \* "no entry under this name"

ActiveState == {"active", "inactive", "failed"}
SubState == {"running", "dead", "failed"}
LoadState == {"loaded", "not-found"}
FreezerState == {"running", "frozen", "error"}

UnitStatus == [active : ActiveState, sub : SubState, load : LoadState, freezer : FreezerState]

UnitType == [vm : {"Host", "AdmVM", "SysVM", "AppVM"}, service : {"Mgr", "Svc", "App", "VM"}]

\* Placement::Host is never constructed outside the enum.
Placement ==
  [kind : {"Endpoint"}, vm : Vm \cup {""}] \cup [kind : {"Managed"}, vm : Name, by : Name]

Entry ==
  [name : Name, type : UnitType, status : UnitStatus, placement : Placement, watch : BOOLEAN]

\* Names are finitely many, and so are those of any set of them.
ASSUME RegistryAssumption ==
  /\ IsFiniteSet(Name) /\ \A S \in SUBSET Name : Cardinality(S) \in Nat
  /\ ParseVm \in [Name -> SUBSET Vm]
  /\ \A n \in Name : Cardinality(ParseVm[n]) <= 1
  /\ Registrable \subseteq Entry
  /\ Reported \subseteq UnitStatus
  /\ Capacity \in Nat \ {0}
  /\ NoEntry \notin Entry

is_valid(s) == s.freezer # "error" /\ s.sub \in {"dead", "running"}

is_paused(s) == s.freezer = "frozen"

is_running(s) ==
  ~is_paused(s) /\ s.active = "active" /\ s.load = "loaded" /\ s.sub = "running"

is_exitted(s) == s.active = "inactive" /\ s.sub = "dead"

agent_name(e) == IF e.placement.kind = "Endpoint" THEN {e.name} ELSE {e.placement.by}

vm_name(e) ==
  IF e.type.service = "VM" THEN ParseVm[e.name]
  ELSE IF e.placement.kind = "Endpoint" THEN {e.placement.vm}
  ELSE ParseVm[e.placement.vm]

VMStatus(s) == IF is_running(s) THEN "Running" ELSE IF is_paused(s) THEN "Paused" ELSE "PoweredOff"

\* What a watcher is told about an entry.
QueryResult(e) ==
  [name |-> e.name, status |-> VMStatus(e.status), type |-> e.type,
   vm |-> vm_name(e), agent |-> agent_name(e)]

VARIABLES
  map,      \* map[n]: the entry under n, or NoEntry
  outbox,   \* events the holder of the mutex has still to broadcast
  stream,   \* stream[w]: where w is in its `watch` call
  queue,    \* queue[w]: events kept for w's receiver, oldest first
  lagged,   \* lagged[w]: w's receiver has lost an event
  view      \* view[w][n]: what w knows of n from the initial list and the events

regVars == <<map, outbox>>
watchVars == <<stream, queue, lagged, view>>
vars == <<map, outbox, stream, queue, lagged, view>>

Unlocked == outbox = <<>>

UnitRegistered(e) == [kind |-> "UnitRegistered", unit |-> QueryResult(e)]
UnitStatusChanged(e) == [kind |-> "UnitStatusChanged", unit |-> QueryResult(e)]
UnitShutdown(e) == [kind |-> "UnitShutdown", unit |-> QueryResult(e)]

\* What the map says of n, in the terms of a watcher.
Listed(n) == IF map[n] = NoEntry THEN NoEntry ELSE QueryResult(map[n])

Known == {n \in Name : map[n] # NoEntry}

Receiving(w) == stream[w] \in {"subscribed", "open"}

Unit == [name : Name, status : {"Running", "Paused", "PoweredOff"}, type : UnitType,
         vm : SUBSET (Vm \cup {""}), agent : SUBSET Name]

Event == [kind : {"UnitRegistered", "UnitStatusChanged", "UnitShutdown"}, unit : Unit]

\* Every variable has its type, an entry is stored under its own name, and the
\* channel keeps at most Capacity events for a receiver (registry.rs 54, 58-68).
TypeOK ==
  /\ map \in [Name -> Entry \cup {NoEntry}]
  /\ \A n \in Known : map[n].name = n
  /\ outbox \in Seq(Event)
  /\ stream \in [Watcher -> {"none", "subscribed", "open", "closed"}]
  /\ queue \in [Watcher -> Seq(Event)]
  /\ \A w \in Watcher : Len(queue[w]) <= Capacity
  /\ lagged \in [Watcher -> BOOLEAN]
  /\ view \in [Watcher -> [Name -> Unit \cup {NoEntry}]]

Init ==
  /\ map = [n \in Name |-> NoEntry]
  /\ outbox = <<>>
  /\ stream = [w \in Watcher |-> "none"]
  /\ queue = [w \in Watcher |-> <<>>]
  /\ lagged = [w \in Watcher |-> FALSE]
  /\ view = [w \in Watcher |-> [n \in Name |-> NoEntry]]

-----------------------------------------------------------------------------
(* Operations of the registry, each under the mutex.                       *)

Register(e) ==
  /\ Unlocked
  /\ map' = [map EXCEPT ![e.name] = e]
  /\ outbox' = IF e.name \in Known
               THEN <<UnitShutdown(map[e.name]), UnitRegistered(e)>>
               ELSE <<UnitRegistered(e)>>
  /\ UNCHANGED watchVars

\* The entries that go with n: those it is the agent of, and those in its VM.
Cascade(n) ==
  {m \in Known \ {n} : n \in agent_name(map[m]) \/ vm_name(map[m]) \cap ParseVm[n] # {}}

\* extract_if visits a hash map: the order of the cascade is not determined.
Orders(S) ==
  {s \in [1..Cardinality(S) -> S] : \A x \in S : \E i \in 1..Cardinality(S) : s[i] = x}

\* Variant of Deregister: the cascade is removed without an announcement.
DeregisterQuietly(n) ==
  /\ Unlocked
  /\ n \in Known
  /\ map' = [m \in Name |-> IF m = n \/ m \in Cascade(n) THEN NoEntry ELSE map[m]]
  /\ outbox' = <<UnitShutdown(map[n])>>
  /\ UNCHANGED watchVars

Deregister(n) ==
  /\ Unlocked
  /\ n \in Known
  /\ map' = [m \in Name |-> IF m = n \/ m \in Cascade(n) THEN NoEntry ELSE map[m]]
  /\ \E s \in Orders(Cascade(n)) :
       outbox' = Append([i \in 1..Cardinality(Cascade(n)) |-> UnitShutdown(map[s[i]])],
                        UnitShutdown(map[n]))
  /\ UNCHANGED watchVars

UpdateState(n, s) ==
  /\ Unlocked
  /\ n \in Known
  /\ LET e == [map[n] EXCEPT !.status = s] IN
       /\ map' = [map EXCEPT ![n] = e]
       /\ outbox' = <<UnitStatusChanged(e)>>
  /\ UNCHANGED watchVars

-----------------------------------------------------------------------------
(* The broadcast channel and the watchers.                                 *)

SendEvent ==
  /\ ~Unlocked
  /\ outbox' = Tail(outbox)
  /\ queue' = [w \in Watcher |->
                IF ~Receiving(w) THEN queue[w]
                ELSE IF Len(queue[w]) < Capacity THEN Append(queue[w], Head(outbox))
                ELSE Append(Tail(queue[w]), Head(outbox))]
  /\ lagged' = [w \in Watcher |-> lagged[w] \/ (Receiving(w) /\ Len(queue[w]) >= Capacity)]
  /\ UNCHANGED <<map, stream, view>>

\* The receiver is opened before the mutex is taken.
Subscribe(w) ==
  /\ stream[w] = "none"
  /\ stream' = [stream EXCEPT ![w] = "subscribed"]
  /\ UNCHANGED <<regVars, queue, lagged, view>>

Snapshot(w) ==
  /\ Unlocked
  /\ stream[w] = "subscribed"
  /\ stream' = [stream EXCEPT ![w] = "open"]
  /\ view' = [view EXCEPT ![w] = [n \in Name |-> Listed(n)]]
  /\ UNCHANGED <<regVars, queue, lagged>>

\* What a client that keeps the list does with an event.
Told(ev) == IF ev.kind = "UnitShutdown" THEN NoEntry ELSE ev.unit

\* Variant of Recv: the loss of events goes unnoticed.
RecvPastLoss(w) ==
  /\ stream[w] = "open"
  /\ queue[w] # <<>>
  /\ LET ev == Head(queue[w]) IN
       view' = [view EXCEPT ![w] = [@ EXCEPT ![ev.unit.name] = Told(ev)]]
  /\ queue' = [queue EXCEPT ![w] = Tail(@)]
  /\ UNCHANGED <<regVars, stream, lagged>>

Recv(w) ==
  /\ stream[w] = "open"
  /\ ~lagged[w]
  /\ queue[w] # <<>>
  /\ LET ev == Head(queue[w]) IN
       view' = [view EXCEPT ![w] = [@ EXCEPT ![ev.unit.name] = Told(ev)]]
  /\ queue' = [queue EXCEPT ![w] = Tail(@)]
  /\ UNCHANGED <<regVars, stream, lagged>>

Close(w) ==
  /\ stream' = [stream EXCEPT ![w] = "closed"]
  /\ queue' = [queue EXCEPT ![w] = <<>>]
  /\ UNCHANGED <<regVars, lagged, view>>

\* Variant of RecvLagged: the loop carries on with the events that are left.
RecvLaggedContinues(w) ==
  /\ stream[w] = "open"
  /\ lagged[w]
  /\ lagged' = [lagged EXCEPT ![w] = FALSE]
  /\ UNCHANGED <<regVars, stream, queue, view>>

\* recv() returns Err(Lagged): the stream of the watcher breaks out of its loop.
RecvLagged(w) == stream[w] = "open" /\ lagged[w] /\ Close(w)

Hangup(w) == stream[w] = "open" /\ Close(w)

\* A new `watch` call.
Rewatch(w) ==
  /\ stream[w] = "closed"
  /\ stream' = [stream EXCEPT ![w] = "none"]
  /\ lagged' = [lagged EXCEPT ![w] = FALSE]
  /\ view' = [view EXCEPT ![w] = [n \in Name |-> NoEntry]]
  /\ UNCHANGED <<regVars, queue>>

Operation ==
  \/ \E e \in Registrable : Register(e)
  \/ \E n \in Name : Deregister(n)
  \/ \E n \in Name, s \in Reported : UpdateState(n, s)

Watch(w) ==
  Subscribe(w) \/ Snapshot(w) \/ Recv(w) \/ RecvLagged(w) \/ Hangup(w) \/ Rewatch(w)

Next == Operation \/ SendEvent \/ \E w \in Watcher : Watch(w)

Spec == Init /\ [][Next]_vars

\* The holder of the mutex broadcasts without waiting for anybody, and the task
\* behind a stream is polled as long as its client reads.
Fairness ==
  /\ WF_vars(SendEvent)
  /\ \A w \in Watcher : WF_vars(Snapshot(w)) /\ WF_vars(Recv(w)) /\ WF_vars(RecvLagged(w))

FairSpec == Spec /\ Fairness

-----------------------------------------------------------------------------
(* Properties.                                                             *)

\* A watcher whose stream is open and who has read every event knows exactly
\* what the registry holds, although it copied the map after it subscribed and
\* may be told of a change twice: `subscribe` opens the receiver before it reads
\* the map (registry.rs 179-184), events are sent under the mutex, and a receiver
\* that lost an event is cut off rather than left behind (server.rs 925-936).
WatchersCurrent ==
  \A w \in Watcher :
    (stream[w] = "open" /\ ~lagged[w] /\ queue[w] = <<>> /\ Unlocked)
      => \A n \in Name : view[w][n] = Listed(n)

\* A watcher that has lost an event is never told anything more on that stream:
\* recv() answers Lagged first and the loop ends (server.rs 930-933).
NoEventsAfterLoss ==
  [][\A w \in Watcher : lagged[w] /\ stream[w] = stream'[w] => view'[w] = view[w]]_vars

\* Once the registry is left alone (the mutex stays free), every stream that is
\* still open has brought its watcher up to date, or has ended.
WatchersCatchUp ==
  <>[]Unlocked =>
    \A w \in Watcher : <>[](stream[w] = "open" => \A n \in Name : view[w][n] = Listed(n))
=============================================================================
