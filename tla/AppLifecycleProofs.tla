------------------------- MODULE AppLifecycleProofs -------------------------
(***************************************************************************)
(* Part 1, the registry: it keeps its watchers current, for any set of     *)
(* names, entries, statuses and watchers and any capacity of the channel.  *)
(*                                                                         *)
(* The argument: look at the events a watcher has not read yet, those kept *)
(* by its receiver followed by those the holder of the mutex has still to  *)
(* send.  The LAST of them about a unit says what the registry holds for   *)
(* it (Decided); a unit none of them is about (Silent) is already right in *)
(* the watcher's view.  With nothing left to read the view is the registry.*)
(*                                                                         *)
(* Part 2, the applications, below.                                        *)
(***************************************************************************)
EXTENDS AppLifecycle, TLAPS

\* Zenon proves the steps that are first order; the others name their prover.
USE Zenon

\* The last event of s about a unit tells what `listing` says of it.
Decided(s, listing) ==
  \A i \in 1..Len(s) :
    (\A j \in i+1..Len(s) : s[j].unit.name # s[i].unit.name)
      => Told(s[i]) = listing[s[i].unit.name]

\* No event of s is about unit n.
Silent(s, n) == \A i \in 1..Len(s) : s[i].unit.name # n

Listing == [n \in Name |-> Listed(n)]

Unread(w) == queue[w] \o outbox

\* The inductive invariant.
IInv ==
  /\ TypeOK
  /\ Decided(outbox, Listing)
  /\ \A w \in Watcher :
       /\ ~Receiving(w) => queue[w] = <<>>
       /\ Receiving(w) /\ ~lagged[w] => Decided(Unread(w), Listing)
       /\ stream[w] = "open" /\ ~lagged[w] =>
            \A n \in Name : Silent(Unread(w), n) => view[w][n] = Listing[n]

-----------------------------------------------------------------------------
(* Sequences of events.                                                    *)

\* What is left of a queue.
LEMMA TailFacts ==
  ASSUME NEW s \in Seq(Event), s # <<>>
  PROVE  /\ Head(s) \in Event /\ Tail(s) \in Seq(Event)
         /\ Len(s) \in Nat /\ Len(Tail(s)) = Len(s) - 1
BY SMT

\* A unit is in the silence of a concatenation when it is in that of both parts.
LEMMA SilentConcat ==
  ASSUME NEW s \in Seq(Event), NEW t \in Seq(Event), NEW n, Silent(s \o t, n)
  PROVE  Silent(s, n) /\ Silent(t, n)
<1>1. \A i \in 1..Len(s) : (s \o t)[i] = s[i] /\ i \in 1..Len(s \o t)
  BY SMT
<1>2. \A i \in 1..Len(t) : (s \o t)[i + Len(s)] = t[i] /\ i + Len(s) \in 1..Len(s \o t)
  BY SMT
<1> QED BY <1>1, <1>2 DEF Silent

\* Events that follow settle the units they are about; the others keep the value
\* the earlier events gave them.
LEMMA DecidedConcat ==
  ASSUME NEW s \in Seq(Event), NEW t \in Seq(Event), NEW old, NEW new,
         Decided(s, old), Decided(t, new),
         \A n \in Name : Silent(t, n) => new[n] = old[n]
  PROVE  Decided(s \o t, new)
<1> DEFINE u == s \o t
<1>1. /\ Len(s) \in Nat /\ Len(t) \in Nat /\ Len(u) = Len(s) + Len(t)
      /\ \A i \in 1..Len(s) : u[i] = s[i]
      /\ \A i \in 1..Len(t) : u[i + Len(s)] = t[i]
  BY SMT
<1> SUFFICES ASSUME NEW i \in 1..Len(u),
                    \A j \in i+1..Len(u) : u[j].unit.name # u[i].unit.name
             PROVE  Told(u[i]) = new[u[i].unit.name]
  BY DEF Decided
<1> HIDE DEF u
<1>2. CASE i <= Len(s)
  <2>1. i \in 1..Len(s) /\ u[i] = s[i] /\ s[i] \in Event
    BY <1>1, <1>2, SMT
  <2>2. s[i].unit.name \in Name
    BY <2>1 DEF Event, Unit
  <2>3. \A j \in i+1..Len(s) : s[j].unit.name # s[i].unit.name
    BY <1>1, <2>1, SMT
  <2>4. Silent(t, s[i].unit.name)
    <3> SUFFICES ASSUME NEW k \in 1..Len(t) PROVE t[k].unit.name # s[i].unit.name
      BY DEF Silent
    <3>1. k + Len(s) \in i+1..Len(u) /\ u[k + Len(s)] = t[k]
      BY <1>1, <2>1, SMT
    <3> QED BY <3>1, <2>1
  <2> QED BY <2>1, <2>2, <2>3, <2>4, SMT DEF Decided
<1>3. CASE i > Len(s)
  <2> DEFINE k == i - Len(s)
  <2>1. k \in 1..Len(t) /\ u[i] = t[k] /\ i = k + Len(s)
    BY <1>1, <1>3, SMT
  <2>2. \A j \in k+1..Len(t) : t[j].unit.name # t[k].unit.name
    <3> SUFFICES ASSUME NEW j \in k+1..Len(t) PROVE t[j].unit.name # t[k].unit.name
      OBVIOUS
    <3>1. j + Len(s) \in i+1..Len(u) /\ u[j + Len(s)] = t[j]
      BY <1>1, <2>1, SMT
    <3> QED BY <3>1, <2>1
  <2> QED BY <2>1, <2>2 DEF Decided
<1> QED BY <1>1, <1>2, <1>3, SMT

\* Reading the first event leaves the rest decided, and brings the view of its
\* unit up to date unless a later event is about the same unit.
LEMMA ReadFirst ==
  ASSUME NEW s \in Seq(Event), s # <<>>, NEW listing, Decided(s, listing)
  PROVE  /\ Decided(Tail(s), listing)
         /\ Silent(Tail(s), Head(s).unit.name) => Told(Head(s)) = listing[Head(s).unit.name]
         /\ \A n : Silent(Tail(s), n) /\ n # Head(s).unit.name => Silent(s, n)
<1>1. /\ Len(s) \in Nat \ {0} /\ Len(Tail(s)) = Len(s) - 1 /\ Head(s) = s[1]
      /\ \A i \in 1..Len(Tail(s)) : Tail(s)[i] = s[i+1]
  BY SMT
<1>2. Decided(Tail(s), listing)
  <2> SUFFICES ASSUME NEW i \in 1..Len(Tail(s)),
                      \A j \in i+1..Len(Tail(s)) : Tail(s)[j].unit.name # Tail(s)[i].unit.name
               PROVE  Told(Tail(s)[i]) = listing[Tail(s)[i].unit.name]
    BY DEF Decided
  <2>1. i + 1 \in 1..Len(s) /\ Tail(s)[i] = s[i+1]
    BY <1>1, SMT
  <2>2. ASSUME NEW j \in (i+1)+1..Len(s) PROVE s[j].unit.name # s[i+1].unit.name
    <3>1. j - 1 \in i+1..Len(Tail(s)) /\ j - 1 \in 1..Len(Tail(s))
      BY <1>1, SMT
    <3>2. Tail(s)[j-1] = s[j]
      BY <1>1, <3>1, SMT
    <3> QED BY <2>1, <3>1, <3>2
  <2> QED BY <2>1, <2>2 DEF Decided
<1>3. ASSUME Silent(Tail(s), Head(s).unit.name)
      PROVE  Told(Head(s)) = listing[Head(s).unit.name]
  <2>1. ASSUME NEW j \in 2..Len(s) PROVE s[j].unit.name # s[1].unit.name
    <3>1. j - 1 \in 1..Len(Tail(s)) /\ Tail(s)[j-1] = s[j]
      BY <1>1, SMT
    <3> QED BY <1>1, <1>3, <3>1 DEF Silent
  <2> QED BY <1>1, <2>1, SMT DEF Decided
<1>4. ASSUME NEW n, Silent(Tail(s), n), n # Head(s).unit.name
      PROVE  Silent(s, n)
  <2> SUFFICES ASSUME NEW i \in 1..Len(s) PROVE s[i].unit.name # n
    BY DEF Silent
  <2>1. CASE i = 1
    BY <2>1, <1>1, <1>4
  <2>2. CASE i # 1
    <3>1. i - 1 \in 1..Len(Tail(s)) /\ Tail(s)[i-1] = s[i]
      BY <1>1, <2>2, SMT
    <3> QED BY <3>1, <1>4 DEF Silent
  <2> QED BY <2>1, <2>2
<1> QED BY <1>2, <1>3, <1>4

\* Sending an event moves it from the outbox to the queue: what is unread stays.
LEMMA SendKeepsUnread ==
  ASSUME NEW q \in Seq(Event), NEW o \in Seq(Event), o # <<>>
  PROVE  Append(q, Head(o)) \o Tail(o) = q \o o
<1>1. /\ Head(o) \in Event /\ Tail(o) \in Seq(Event) /\ Len(Tail(o)) = Len(o) - 1
      /\ \A i \in 1..Len(Tail(o)) : Tail(o)[i] = o[i+1]
      /\ Len(o) \in Nat \ {0} /\ Len(q) \in Nat
  BY SMT
<1> DEFINE a == Append(q, Head(o))
<1>2. /\ a \in Seq(Event) /\ Len(a) = Len(q) + 1
      /\ \A i \in 1..Len(q) : a[i] = q[i]
      /\ a[Len(q) + 1] = o[1]
  BY <1>1, SMT
<1> HIDE DEF a
<1>3. /\ a \o Tail(o) \in Seq(Event) /\ q \o o \in Seq(Event)
      /\ Len(a \o Tail(o)) = Len(q \o o)
  <2>1. a \o Tail(o) \in Seq(Event) /\ Len(a \o Tail(o)) = Len(a) + Len(Tail(o))
    BY <1>1, <1>2, SMT
  <2>2. q \o o \in Seq(Event) /\ Len(q \o o) = Len(q) + Len(o)
    BY SMT
  <2> QED BY <2>1, <2>2, <1>1, <1>2, SMT
<1>4. ASSUME NEW i \in 1..Len(q \o o) PROVE (a \o Tail(o))[i] = (q \o o)[i]
  <2>1. /\ (a \o Tail(o))[i] = IF i <= Len(a) THEN a[i] ELSE Tail(o)[i - Len(a)]
        /\ (q \o o)[i] = IF i <= Len(q) THEN q[i] ELSE o[i - Len(q)]
        /\ i \in Nat \ {0} /\ i <= Len(q) + Len(o)
    BY <1>1, <1>2, <1>3, SMT
  <2>2. CASE i <= Len(q)
    BY <2>1, <2>2, <1>1, <1>2, SMT
  <2>3. CASE i = Len(q) + 1
    BY <2>1, <2>3, <1>1, <1>2, SMT
  <2>4. CASE i > Len(q) + 1
    <3>1. i - Len(a) \in 1..Len(Tail(o)) /\ (i - Len(a)) + 1 = i - Len(q)
      BY <2>1, <2>4, <1>1, <1>2, SMT
    <3> QED BY <3>1, <2>1, <2>4, <1>1, <1>2, SMT
  <2>5. i <= Len(q) \/ i = Len(q) + 1 \/ i > Len(q) + 1
    BY <2>1, <1>1, SMT
  <2> QED BY <2>2, <2>3, <2>4, <2>5
<1> QED BY <1>3, <1>4, SMT DEF a

\* Reading the first event of the queue is reading the first unread event.
LEMMA ReadUnread ==
  ASSUME NEW q \in Seq(Event), NEW o \in Seq(Event), q # <<>>
  PROVE  q \o o # <<>> /\ Head(q \o o) = Head(q) /\ Tail(q \o o) = Tail(q) \o o
<1>1. /\ Tail(q) \in Seq(Event) /\ Len(Tail(q)) = Len(q) - 1 /\ Head(q) = q[1]
      /\ \A i \in 1..Len(Tail(q)) : Tail(q)[i] = q[i+1]
      /\ Len(q) \in Nat \ {0} /\ Len(o) \in Nat
  BY SMT
<1>2. /\ q \o o \in Seq(Event) /\ Len(q \o o) = Len(q) + Len(o)
      /\ \A i \in 1..Len(q) + Len(o) : (q \o o)[i] = IF i <= Len(q) THEN q[i] ELSE o[i - Len(q)]
  BY SMT
<1>3. q \o o # <<>>
  BY <1>1, <1>2, SMT
<1>4. /\ Tail(q \o o) \in Seq(Event) /\ Len(Tail(q \o o)) = Len(q \o o) - 1
      /\ \A i \in 1..Len(Tail(q \o o)) : Tail(q \o o)[i] = (q \o o)[i+1]
      /\ Head(q \o o) = (q \o o)[1]
  BY <1>2, <1>3, SMT
<1>5. /\ Tail(q) \o o \in Seq(Event) /\ Len(Tail(q) \o o) = Len(Tail(q)) + Len(o)
      /\ \A i \in 1..Len(Tail(q)) + Len(o) :
           (Tail(q) \o o)[i] = IF i <= Len(Tail(q)) THEN Tail(q)[i] ELSE o[i - Len(Tail(q))]
  BY <1>1, SMT
<1>6. ASSUME NEW i \in 1..Len(Tail(q \o o)) PROVE Tail(q \o o)[i] = (Tail(q) \o o)[i]
  <2>1. i \in Nat \ {0} /\ i + 1 \in 1..Len(q) + Len(o) /\ i \in 1..Len(Tail(q)) + Len(o)
    BY <1>1, <1>2, <1>4, SMT
  <2>2. CASE i <= Len(Tail(q))
    BY <2>1, <2>2, <1>1, <1>2, <1>4, <1>5, SMT
  <2>3. CASE i > Len(Tail(q))
    <3>1. i - Len(Tail(q)) = (i + 1) - Len(q)
      BY <2>1, <1>1, SMT
    <3> QED BY <3>1, <2>1, <2>3, <1>1, <1>2, <1>4, <1>5, SMT
  <2> QED BY <2>1, <2>2, <2>3, <1>1, SMT
<1>7. Tail(q \o o) = Tail(q) \o o
  BY <1>1, <1>2, <1>4, <1>5, <1>6, SMT
<1> QED BY <1>1, <1>2, <1>3, <1>4, <1>7, SMT

-----------------------------------------------------------------------------
(* Types.                                                                  *)

\* What is told of an entry is well formed and names the entry.
LEMMA QueryResultType ==
  ASSUME NEW e \in Entry
  PROVE  QueryResult(e) \in Unit /\ QueryResult(e).name = e.name
<1>1. e.name \in Name /\ e.type \in UnitType /\ e.placement \in Placement
  BY DEF Entry
<1>2. VMStatus(e.status) \in {"Running", "Paused", "PoweredOff"}
  BY DEF VMStatus
<1>3. agent_name(e) \in SUBSET Name
  <2>1. CASE e.placement.kind = "Endpoint"
    BY <2>1, <1>1 DEF agent_name
  <2>2. CASE e.placement.kind # "Endpoint"
    BY <2>2, <1>1 DEF agent_name, Placement
  <2> QED BY <2>1, <2>2
<1>4. vm_name(e) \in SUBSET (Vm \cup {""})
  <2>1. CASE e.type.service = "VM"
    BY <2>1, <1>1, RegistryAssumption DEF vm_name
  <2>2. CASE e.type.service # "VM" /\ e.placement.kind = "Endpoint"
    <3>1. e.placement.vm \in Vm \cup {""}
      BY <2>2, <1>1 DEF Placement
    <3> QED BY <2>2, <3>1 DEF vm_name
  <2>3. CASE e.type.service # "VM" /\ e.placement.kind # "Endpoint"
    <3>1. e.placement.vm \in Name
      BY <2>3, <1>1 DEF Placement
    <3> QED BY <2>3, <3>1, RegistryAssumption DEF vm_name
  <2> QED BY <2>1, <2>2, <2>3
<1> QED BY <1>1, <1>2, <1>3, <1>4 DEF QueryResult, Unit

\* The three events about an entry are events, and are about its name.
LEMMA EventType ==
  ASSUME NEW e \in Entry
  PROVE  /\ UnitRegistered(e) \in Event /\ UnitRegistered(e).unit.name = e.name
         /\ Told(UnitRegistered(e)) = QueryResult(e)
         /\ UnitStatusChanged(e) \in Event /\ UnitStatusChanged(e).unit.name = e.name
         /\ Told(UnitStatusChanged(e)) = QueryResult(e)
         /\ UnitShutdown(e) \in Event /\ UnitShutdown(e).unit.name = e.name
         /\ Told(UnitShutdown(e)) = NoEntry
<1>1. QueryResult(e) \in Unit /\ QueryResult(e).name = e.name
  BY QueryResultType
<1> QED BY <1>1 DEF Event, UnitRegistered, UnitStatusChanged, UnitShutdown, Told

\* Types hold initially, and so does the rest: there are no events and no views.
LEMMA InitIInv == Init => IInv
<1> SUFFICES ASSUME Init PROVE IInv
  OBVIOUS
<1>1. <<>> \in Seq(Event) /\ Len(<<>>) = 0
  BY SMT
<1>2. TypeOK
  BY <1>1, RegistryAssumption, SMT DEF Init, TypeOK, Known
<1>3. Decided(outbox, Listing)
  BY <1>1, SMT DEF Init, Decided
<1> QED BY <1>2, <1>3 DEF Init, IInv, Receiving

\* The obligation of an operation of the registry: what it queues in the outbox
\* must settle every unit whose entry it changes.
LEMMA Announced ==
  ASSUME IInv, Unlocked, UNCHANGED watchVars,
         map' \in [Name -> Entry \cup {NoEntry}],
         \A n \in Name : map'[n] # NoEntry => map'[n].name = n,
         outbox' \in Seq(Event),
         Decided(outbox', Listing'),
         \A n \in Name : Silent(outbox', n) => Listing'[n] = Listing[n]
  PROVE  IInv'
<1>1. TypeOK'
  BY DEF IInv, TypeOK, watchVars, Known
<1>2. ASSUME NEW w \in Watcher
      PROVE  /\ ~Receiving(w)' => queue'[w] = <<>>
             /\ Receiving(w)' /\ ~lagged'[w] => Decided(Unread(w)', Listing')
             /\ stream'[w] = "open" /\ ~lagged'[w] =>
                  \A n \in Name : Silent(Unread(w)', n) => view'[w][n] = Listing'[n]
  <2>1. /\ queue'[w] = queue[w] /\ stream'[w] = stream[w] /\ lagged'[w] = lagged[w]
        /\ view'[w] = view[w] /\ queue[w] \in Seq(Event)
    BY DEF IInv, TypeOK, watchVars
  <2>2. Unread(w) = queue[w] /\ Unread(w)' = queue[w] \o outbox'
    BY <2>1, SMT DEF Unread, Unlocked
  <2>3. ~Receiving(w)' => queue'[w] = <<>>
    BY <2>1 DEF IInv, Receiving
  <2>4. ASSUME Receiving(w)', ~lagged'[w] PROVE Decided(Unread(w)', Listing')
    <3>1. Decided(queue[w], Listing)
      BY <2>1, <2>2, <2>4 DEF IInv, Receiving
    <3> QED BY <3>1, <2>1, <2>2, DecidedConcat, SMT
  <2>5. ASSUME stream'[w] = "open", ~lagged'[w], NEW n \in Name, Silent(Unread(w)', n)
        PROVE  view'[w][n] = Listing'[n]
    <3>1. Silent(queue[w], n) /\ Silent(outbox', n)
      BY <2>1, <2>2, <2>5, SilentConcat
    <3>2. view[w][n] = Listing[n]
      BY <2>1, <2>2, <2>5, <3>1 DEF IInv
    <3> QED BY <2>1, <3>1, <3>2
  <2> QED BY <2>3, <2>4, <2>5
<1> QED BY <1>1, <1>2 DEF IInv

-----------------------------------------------------------------------------
(* The operations.                                                         *)

\* register: the new entry is the last word on its name.
LEMMA RegisterIInv ==
  ASSUME IInv, NEW e \in Registrable, Register(e)
  PROVE  IInv'
<1>1. e \in Entry /\ e.name \in Name /\ e # NoEntry
  BY RegistryAssumption DEF Entry
<1>2. map' = [map EXCEPT ![e.name] = e] /\ map \in [Name -> Entry \cup {NoEntry}]
  BY DEF Register, IInv, TypeOK
<1>3. /\ map' \in [Name -> Entry \cup {NoEntry}]
      /\ \A n \in Name : map'[n] # NoEntry => map'[n].name = n
  BY <1>1, <1>2 DEF IInv, TypeOK, Known
<1>4. Listing'[e.name] = QueryResult(e) /\ \A n \in Name : n # e.name => Listing'[n] = Listing[n]
  BY <1>1, <1>2 DEF Listing, Listed
<1>5. UnitRegistered(e) \in Event /\ UnitRegistered(e).unit.name = e.name
      /\ Told(UnitRegistered(e)) = QueryResult(e)
  BY <1>1, EventType
<1>6. CASE e.name \in Known
  <2> DEFINE old == map[e.name]
  <2>1. old \in Entry /\ old.name = e.name
    BY <1>1, <1>2, <1>6 DEF Known, IInv, TypeOK
  <2>2. UnitShutdown(old) \in Event /\ UnitShutdown(old).unit.name = e.name
    BY <2>1, EventType
  <2>3. outbox' = <<UnitShutdown(old), UnitRegistered(e)>>
    BY <1>6 DEF Register
  <2>4. outbox' \in Seq(Event) /\ Len(outbox') = 2
        /\ outbox'[1] = UnitShutdown(old) /\ outbox'[2] = UnitRegistered(e)
    BY <1>5, <2>2, <2>3, SMT
  <2>5. Decided(outbox', Listing')
    <3>1. outbox'[2].unit.name = outbox'[1].unit.name
      BY <1>5, <2>2, <2>4
    <3>2. Told(outbox'[2]) = Listing'[outbox'[2].unit.name]
      BY <1>4, <1>5, <2>4
    <3> QED BY <2>4, <3>1, <3>2, SMT DEF Decided
  <2>6. \A n \in Name : Silent(outbox', n) => n # e.name
    BY <1>5, <2>4, SMT DEF Silent
  <2> QED BY <1>3, <1>4, <2>4, <2>5, <2>6, Announced DEF Register
<1>7. CASE e.name \notin Known
  <2>1. outbox' = <<UnitRegistered(e)>>
    BY <1>7 DEF Register
  <2>2. outbox' \in Seq(Event) /\ Len(outbox') = 1 /\ outbox'[1] = UnitRegistered(e)
    BY <1>5, <2>1, SMT
  <2>3. Decided(outbox', Listing')
    BY <1>4, <1>5, <2>2, SMT DEF Decided
  <2>4. \A n \in Name : Silent(outbox', n) => n # e.name
    BY <1>5, <2>2, SMT DEF Silent
  <2> QED BY <1>3, <1>4, <2>2, <2>3, <2>4, Announced DEF Register
<1> QED BY <1>6, <1>7

\* update_state: the same name, a new status.
LEMMA UpdateStateIInv ==
  ASSUME IInv, NEW n \in Name, NEW s \in Reported, UpdateState(n, s)
  PROVE  IInv'
<1> DEFINE e == [map[n] EXCEPT !.status = s]
<1>1. map[n] \in Entry /\ map[n].name = n /\ map \in [Name -> Entry \cup {NoEntry}]
  BY DEF UpdateState, Known, IInv, TypeOK
<1>2. e \in Entry /\ e.name = n /\ e # NoEntry
  BY <1>1, RegistryAssumption DEF Entry
<1>3. map' = [map EXCEPT ![n] = e] /\ outbox' = <<UnitStatusChanged(e)>>
  BY DEF UpdateState
<1> HIDE DEF e
<1>4. /\ map' \in [Name -> Entry \cup {NoEntry}]
      /\ \A m \in Name : map'[m] # NoEntry => map'[m].name = m
  BY <1>1, <1>2, <1>3 DEF IInv, TypeOK, Known
<1>5. Listing'[n] = QueryResult(e) /\ \A m \in Name : m # n => Listing'[m] = Listing[m]
  BY <1>1, <1>2, <1>3 DEF Listing, Listed
<1>6. UnitStatusChanged(e) \in Event /\ UnitStatusChanged(e).unit.name = n
      /\ Told(UnitStatusChanged(e)) = QueryResult(e)
  BY <1>2, EventType
<1>7. outbox' \in Seq(Event) /\ Len(outbox') = 1 /\ outbox'[1] = UnitStatusChanged(e)
  BY <1>3, <1>6, SMT
<1>8. Decided(outbox', Listing')
  BY <1>5, <1>6, <1>7, SMT DEF Decided
<1>9. \A m \in Name : Silent(outbox', m) => m # n
  BY <1>6, <1>7, SMT DEF Silent
<1> QED BY <1>4, <1>5, <1>7, <1>8, <1>9, Announced DEF UpdateState

\* deregister: every entry that goes is announced, in whatever order.
LEMMA DeregisterIInv ==
  ASSUME IInv, NEW n \in Name, Deregister(n)
  PROVE  IInv'
<1> DEFINE C == Cascade(n)
           k == Cardinality(C)
<1>1. C \in SUBSET Name /\ k \in Nat
  BY RegistryAssumption DEF Cascade, Known
<1>2. PICK s \in Orders(C) :
        outbox' = Append([i \in 1..k |-> UnitShutdown(map[s[i]])], UnitShutdown(map[n]))
  BY DEF Deregister
<1>3. s \in [1..k -> C] /\ \A x \in C : \E i \in 1..k : s[i] = x
  BY <1>2 DEF Orders
<1>4. map \in [Name -> Entry \cup {NoEntry}]
      /\ map' = [m \in Name |-> IF m = n \/ m \in C THEN NoEntry ELSE map[m]]
  BY DEF Deregister, IInv, TypeOK
<1>5. \A m \in C \cup {n} : map[m] \in Entry /\ map[m].name = m /\ m \in Name
  BY <1>1, <1>4 DEF Cascade, Known, Deregister, IInv, TypeOK
<1> DEFINE head == [i \in 1..k |-> UnitShutdown(map[s[i]])]
<1>6. \A m \in C \cup {n} : UnitShutdown(map[m]) \in Event
        /\ UnitShutdown(map[m]).unit.name = m /\ Told(UnitShutdown(map[m])) = NoEntry
  BY <1>5, EventType
<1> HIDE DEF C, k
<1>7. head \in Seq(Event) /\ Len(head) = k /\ \A i \in 1..k : head[i] = UnitShutdown(map[s[i]])
  <2>1. \A i \in 1..k : UnitShutdown(map[s[i]]) \in Event
    BY <1>3, <1>6
  <2>2. head \in [1..k -> Event]
    BY <2>1
  <2> QED BY <1>1, <2>2, SMT
<1> HIDE DEF head
<1>8. /\ outbox' \in Seq(Event) /\ Len(outbox') = k + 1
      /\ \A i \in 1..k : outbox'[i] = UnitShutdown(map[s[i]])
      /\ outbox'[k+1] = UnitShutdown(map[n])
  <2>1. outbox' = Append(head, UnitShutdown(map[n]))
    BY <1>2 DEF head
  <2> QED BY <2>1, <1>1, <1>6, <1>7, SMT
<1>9. \A i \in 1..k+1 : \E m \in C \cup {n} : outbox'[i] = UnitShutdown(map[m])
  BY <1>1, <1>3, <1>8, SMT
<1>10. \A m \in Name : Listing'[m] = IF m \in C \cup {n} THEN NoEntry ELSE Listing[m]
  BY <1>4 DEF Listing, Listed
<1>11. Decided(outbox', Listing')
  <2> SUFFICES ASSUME NEW i \in 1..Len(outbox')
               PROVE  Told(outbox'[i]) = Listing'[outbox'[i].unit.name]
    BY DEF Decided
  <2>1. PICK m \in C \cup {n} : outbox'[i] = UnitShutdown(map[m])
    BY <1>8, <1>9
  <2> QED BY <2>1, <1>5, <1>6, <1>10, SMT
<1>12. ASSUME NEW m \in Name, Silent(outbox', m) PROVE m \notin C \cup {n}
  <2> SUFFICES ASSUME m \in C \cup {n} PROVE FALSE
    OBVIOUS
  <2>1. PICK i \in 1..k+1 : outbox'[i] = UnitShutdown(map[m])
    BY <1>1, <1>3, <1>8, SMT
  <2> QED BY <2>1, <1>6, <1>8, <1>12 DEF Silent
<1>13. /\ map' \in [Name -> Entry \cup {NoEntry}]
       /\ \A m \in Name : map'[m] # NoEntry => map'[m].name = m
  BY <1>4 DEF IInv, TypeOK, Known
<1> QED BY <1>8, <1>10, <1>11, <1>12, <1>13, Announced DEF Deregister

-----------------------------------------------------------------------------
(* The channel and the watchers.                                           *)

\* send_event: an event changes hands, or a receiver that is full loses one.
LEMMA SendEventIInv ==
  ASSUME IInv, SendEvent
  PROVE  IInv'
<1>1. /\ outbox \in Seq(Event) /\ outbox # <<>> /\ outbox' = Tail(outbox)
      /\ Decided(outbox, Listing) /\ map' = map /\ stream' = stream /\ view' = view
  BY DEF IInv, TypeOK, SendEvent, Unlocked
<1>2. Head(outbox) \in Event /\ outbox' \in Seq(Event)
  BY <1>1, SMT
<1>3. Listing' = Listing
  BY <1>1 DEF Listing, Listed
<1>4. Decided(outbox', Listing')
  BY <1>1, <1>3, ReadFirst
<1>5. ASSUME NEW w \in Watcher
      PROVE  /\ queue'[w] \in Seq(Event) /\ Len(queue'[w]) <= Capacity
             /\ lagged'[w] \in BOOLEAN
             /\ ~Receiving(w) => queue'[w] = queue[w]
             /\ Receiving(w) /\ ~lagged'[w] => ~lagged[w] /\ Unread(w)' = Unread(w)
  <2>1. queue[w] \in Seq(Event) /\ Len(queue[w]) \in Nat /\ Len(queue[w]) <= Capacity
        /\ Capacity \in Nat \ {0} /\ lagged[w] \in BOOLEAN
    BY RegistryAssumption, SMT DEF IInv, TypeOK
  <2>2. CASE ~Receiving(w)
    BY <2>1, <2>2 DEF SendEvent
  <2>3. CASE Receiving(w) /\ Len(queue[w]) < Capacity
    <3>1. queue'[w] = Append(queue[w], Head(outbox)) /\ lagged'[w] = lagged[w]
      BY <2>1, <2>3, SMT DEF SendEvent
    <3>2. Len(queue'[w]) = Len(queue[w]) + 1 /\ queue'[w] \in Seq(Event)
      BY <1>2, <2>1, <3>1, SMT
    <3>3. Unread(w)' = Unread(w)
      BY <1>1, <2>1, <3>1, SendKeepsUnread DEF Unread
    <3> QED BY <2>1, <2>3, <3>1, <3>2, <3>3, SMT
  <2>4. CASE Receiving(w) /\ ~(Len(queue[w]) < Capacity)
    <3>1. queue'[w] = Append(Tail(queue[w]), Head(outbox))
      BY <2>4 DEF SendEvent
    <3>2. lagged'[w]
      <4>1. Len(queue[w]) >= Capacity
        BY <2>1, <2>4, SMT
      <4> QED BY <2>4, <4>1 DEF SendEvent
    <3>3. queue[w] # <<>>
      BY <2>1, <2>4, SMT
    <3>4. Tail(queue[w]) \in Seq(Event) /\ Len(Tail(queue[w])) = Len(queue[w]) - 1
      BY <2>1, <3>3, SMT
    <3>5. queue'[w] \in Seq(Event) /\ Len(queue'[w]) = Len(queue[w])
      BY <1>2, <2>1, <3>1, <3>4, SMT
    <3> QED BY <2>1, <2>4, <3>1, <3>2, <3>5
  <2> QED BY <2>2, <2>3, <2>4
<1>6. TypeOK'
  <2>1. queue' \in [Watcher -> Seq(Event)] /\ lagged' \in [Watcher -> BOOLEAN]
    BY <1>5 DEF SendEvent
  <2> QED BY <1>1, <1>2, <1>5, <2>1 DEF IInv, TypeOK, Known
<1>7. ASSUME NEW w \in Watcher
      PROVE  /\ ~Receiving(w)' => queue'[w] = <<>>
             /\ Receiving(w)' /\ ~lagged'[w] => Decided(Unread(w)', Listing')
             /\ stream'[w] = "open" /\ ~lagged'[w] =>
                  \A n \in Name : Silent(Unread(w)', n) => view'[w][n] = Listing'[n]
  <2>1. Receiving(w)' = Receiving(w) /\ (stream[w] = "open" => Receiving(w))
    BY <1>1 DEF Receiving
  <2> QED BY <1>1, <1>3, <1>5, <2>1 DEF IInv
<1> QED BY <1>4, <1>6, <1>7 DEF IInv

\* The steps of one watcher.
LEMMA WatchIInv ==
  ASSUME IInv, NEW w \in Watcher, Watch(w)
  PROVE  IInv'
<1> DEFINE Inv(v) ==
      /\ ~Receiving(v) => queue[v] = <<>>
      /\ Receiving(v) /\ ~lagged[v] => Decided(Unread(v), Listing)
      /\ stream[v] = "open" /\ ~lagged[v] =>
           \A n \in Name : Silent(Unread(v), n) => view[v][n] = Listing[n]
<1>1. map' = map /\ outbox' = outbox
  BY DEF Watch, Subscribe, Snapshot, Recv, RecvLagged, Hangup, Close, Rewatch, regVars
<1>2. Listing' = Listing /\ Decided(outbox', Listing')
  BY <1>1 DEF Listing, Listed, IInv
<1>3. /\ stream \in [Watcher -> {"none", "subscribed", "open", "closed"}]
      /\ queue \in [Watcher -> Seq(Event)] /\ queue[w] \in Seq(Event) /\ outbox \in Seq(Event)
      /\ lagged \in [Watcher -> BOOLEAN] /\ view \in [Watcher -> [Name -> Unit \cup {NoEntry}]]
      /\ Inv(w)
  BY DEF IInv, TypeOK
<1>4. SUFFICES /\ stream' \in [Watcher -> {"none", "subscribed", "open", "closed"}]
               /\ queue' \in [Watcher -> Seq(Event)] /\ Len(queue'[w]) <= Capacity
               /\ lagged' \in [Watcher -> BOOLEAN]
               /\ view' \in [Watcher -> [Name -> Unit \cup {NoEntry}]]
               /\ Inv(w)'
  <2>1. ASSUME NEW v \in Watcher, v # w
        PROVE  /\ stream'[v] = stream[v] /\ queue'[v] = queue[v]
               /\ lagged'[v] = lagged[v] /\ view'[v] = view[v]
    BY <1>3, <2>1 DEF Watch, Subscribe, Snapshot, Recv, RecvLagged, Hangup, Close, Rewatch
  <2>2. ASSUME NEW v \in Watcher, v # w PROVE Inv(v)'
    BY <1>1, <1>2, <2>1, <2>2, ZenonT(40) DEF IInv, Receiving, Unread
  <2>3. \A v \in Watcher : Len(queue'[v]) <= Capacity
    BY <1>4, <2>1 DEF IInv, TypeOK
  <2>4. TypeOK'
    BY <1>1, <1>4, <2>3 DEF IInv, TypeOK, Known
  <2> QED BY <1>2, <1>4, <2>2, <2>4 DEF IInv
<1>5. Len(queue[w]) <= Capacity /\ Capacity \in Nat /\ 0 <= Capacity
  <2>1. Capacity \in Nat
    BY RegistryAssumption
  <2>2. Len(queue[w]) <= Capacity
    BY DEF IInv, TypeOK
  <2> QED BY <2>1, <2>2, SMT
<1>6. CASE Subscribe(w)
  <2>1. queue[w] = <<>> /\ stream'[w] = "subscribed" /\ queue' = queue
    BY <1>3, <1>6 DEF Subscribe, Receiving
  <2>2. Unread(w)' = outbox
    BY <1>1, <1>3, <2>1, SMT DEF Unread
  <2>3. Inv(w)'
    BY <1>1, <1>2, <2>1, <2>2 DEF Receiving
  <2> QED BY <1>3, <1>5, <1>6, <2>3 DEF Subscribe
<1>7. CASE Snapshot(w)
  <2>1. /\ stream[w] = "subscribed" /\ stream'[w] = "open" /\ queue' = queue /\ lagged' = lagged
        /\ view'[w] = Listing
    BY <1>3, <1>7 DEF Snapshot, Listing
  <2>2. Unread(w)' = Unread(w)
    BY <1>1, <2>1 DEF Unread
  <2>3. Inv(w)'
    BY <1>2, <1>3, <2>1, <2>2 DEF Receiving
  <2>4. Listing \in [Name -> Unit \cup {NoEntry}]
    <3>1. ASSUME NEW n \in Name PROVE Listed(n) \in Unit \cup {NoEntry}
      BY QueryResultType, SMT DEF Listed, IInv, TypeOK
    <3> QED BY <3>1 DEF Listing
  <2> QED BY <1>3, <1>5, <1>7, <2>3, <2>4 DEF Snapshot, Listing
<1>8. CASE Recv(w)
  <2> DEFINE ev == Head(queue[w])
  <2>1. /\ stream[w] = "open" /\ ~lagged[w] /\ queue[w] # <<>>
        /\ stream' = stream /\ lagged' = lagged /\ queue'[w] = Tail(queue[w])
        /\ view'[w] = [view[w] EXCEPT ![ev.unit.name] = Told(ev)]
    BY <1>3, <1>8 DEF Recv
  <2>2. /\ Unread(w) \in Seq(Event) /\ Unread(w) # <<>> /\ Head(Unread(w)) = ev
        /\ Unread(w)' = Tail(Unread(w))
    <3>1. Unread(w) = queue[w] \o outbox /\ Unread(w)' = Tail(queue[w]) \o outbox
      BY <1>1, <2>1 DEF Unread
    <3>2. queue[w] \o outbox \in Seq(Event)
      BY <1>3, SMT
    <3> QED BY <1>3, <2>1, <3>1, <3>2, ReadUnread, SMTT(30)
  <2>3. Decided(Unread(w), Listing) /\ \A n \in Name : Silent(Unread(w), n) => view[w][n] = Listing[n]
    BY <1>3, <2>1 DEF Receiving
  <2>4. ev \in Event /\ ev.unit \in Unit /\ ev.unit.name \in Name
        /\ Tail(queue[w]) \in Seq(Event) /\ Len(Tail(queue[w])) = Len(queue[w]) - 1
    <3>1. ev \in Event /\ Tail(queue[w]) \in Seq(Event) /\ Len(Tail(queue[w])) = Len(queue[w]) - 1
      BY <1>3, <2>1, TailFacts
    <3> QED BY <3>1 DEF Event, Unit
  <2>5. Inv(w)'
    <3>1. Decided(Unread(w)', Listing')
      BY <1>2, <2>2, <2>3, ReadFirst
    <3>2. /\ Silent(Unread(w)', ev.unit.name) => Told(ev) = Listing[ev.unit.name]
          /\ \A n : Silent(Unread(w)', n) /\ n # ev.unit.name => Silent(Unread(w), n)
      BY <2>2, <2>3, ReadFirst, SMT
    <3>3. view[w] \in [Name -> Unit \cup {NoEntry}]
      BY <1>3
    <3>4. ASSUME NEW n \in Name, Silent(Unread(w)', n) PROVE view'[w][n] = Listing'[n]
      <4>1. CASE n = ev.unit.name
        <5>1. view'[w][n] = Told(ev)
          BY <2>1, <3>3, <4>1
        <5> QED BY <1>2, <3>2, <3>4, <4>1, <5>1
      <4>2. CASE n # ev.unit.name
        <5>1. view'[w][n] = view[w][n]
          BY <2>1, <3>3, <4>2
        <5> QED BY <1>2, <2>3, <3>2, <3>4, <4>2, <5>1
      <4> QED BY <4>1, <4>2
    <3> QED BY <2>1, <3>1, <3>4 DEF Receiving
  <2>6. view' \in [Watcher -> [Name -> Unit \cup {NoEntry}]]
    BY <1>3, <1>8, <2>4 DEF Recv, Told
  <2>7. Len(queue'[w]) <= Capacity
    <3>1. Len(queue[w]) \in Nat /\ Len(Tail(queue[w])) = Len(queue[w]) - 1
      BY <1>3, <2>1, TailFacts
    <3> QED BY <1>5, <2>1, <3>1, SMT
  <2> QED BY <1>3, <1>8, <2>4, <2>5, <2>6, <2>7 DEF Recv
<1>9. CASE Close(w)
  <2>1. <<>> \in Seq(Event) /\ Len(<<>>) = 0
    BY SMT
  <2>2. stream'[w] = "closed" /\ queue'[w] = <<>>
    BY <1>3, <1>9 DEF Close
  <2> QED BY <1>3, <1>5, <1>9, <2>1, <2>2 DEF Close, Receiving
<1>10. CASE Rewatch(w)
  <2>1. stream[w] = "closed" /\ stream'[w] = "none" /\ queue' = queue
    BY <1>3, <1>10 DEF Rewatch
  <2>2. Inv(w)'
    BY <1>3, <2>1 DEF Receiving
  <2> QED BY <1>3, <1>5, <1>10, <2>2 DEF Rewatch
<1> QED BY <1>6, <1>7, <1>8, <1>9, <1>10 DEF Watch, RecvLagged, Hangup

-----------------------------------------------------------------------------
\* Every step keeps the invariant.
LEMMA NextIInv == IInv /\ [Next]_vars => IInv'
<1> SUFFICES ASSUME IInv, [Next]_vars PROVE IInv'
  OBVIOUS
<1>1. CASE Operation
  BY <1>1, RegisterIInv, DeregisterIInv, UpdateStateIInv DEF Operation
<1>2. CASE SendEvent
  BY <1>2, SendEventIInv
<1>3. CASE \E w \in Watcher : Watch(w)
  BY <1>3, WatchIInv
<1>4. CASE UNCHANGED vars
  <2>1. /\ map' = map /\ outbox' = outbox /\ stream' = stream /\ queue' = queue
        /\ lagged' = lagged /\ view' = view
    BY <1>4 DEF vars
  <2>2. Listing' = Listing
    BY <2>1 DEF Listing, Listed
  <2>3. \A w \in Watcher : Receiving(w)' = Receiving(w) /\ Unread(w)' = Unread(w)
    BY <2>1 DEF Receiving, Unread
  <2>4. TypeOK'
    BY <2>1 DEF IInv, TypeOK, Known
  <2> QED BY <2>1, <2>2, <2>3, <2>4 DEF IInv
<1> QED BY <1>1, <1>2, <1>3, <1>4 DEF Next

\* Whatever is registered, removed or updated, in whatever order and however
\* slowly the watchers read: types hold (register, deregister, update_state and
\* the stream of `watch`), and a watcher that has read everything knows exactly
\* what the registry holds (subscribe opens the receiver before it reads the map).
THEOREM RegistrySafety == Spec => [](TypeOK /\ WatchersCurrent)
<1>1. IInv => TypeOK /\ WatchersCurrent
  <2> SUFFICES ASSUME IInv, NEW w \in Watcher, stream[w] = "open", ~lagged[w],
                      queue[w] = <<>>, Unlocked, NEW n \in Name
               PROVE  view[w][n] = Listed(n)
    BY DEF IInv, WatchersCurrent
  <2>1. Unread(w) = <<>> /\ Len(Unread(w)) = 0
    BY SMT DEF Unread, Unlocked
  <2>2. Silent(Unread(w), n)
    BY <2>1, SMT DEF Silent
  <2> QED BY <2>2 DEF IInv, Listing
<1> QED BY <1>1, InitIInv, NextIInv, PTL DEF Spec

\* On a stream that has lost an event nothing more is delivered: recv() answers
\* Lagged and the loop of `watch` ends (server.rs 930-933).
THEOREM LossEndsStream == Spec => NoEventsAfterLoss
<1>1. ASSUME IInv, [Next]_vars, NEW w \in Watcher, lagged[w], stream[w] = stream'[w]
      PROVE  view'[w] = view[w]
  <2>1. stream \in [Watcher -> {"none", "subscribed", "open", "closed"}]
        /\ view \in [Watcher -> [Name -> Unit \cup {NoEntry}]]
    BY <1>1 DEF IInv, TypeOK
  <2>2. CASE Operation \/ SendEvent \/ UNCHANGED vars
    BY <2>2 DEF Operation, Register, Deregister, UpdateState, SendEvent, watchVars, vars
  <2>3. ASSUME NEW v \in Watcher, Watch(v) PROVE view'[w] = view[w]
    <3>1. CASE v # w
      BY <2>1, <2>3, <3>1
      DEF Watch, Subscribe, Snapshot, Recv, RecvLagged, Hangup, Close, Rewatch
    <3>2. CASE v = w
      BY <1>1, <2>1, <2>3, <3>2
      DEF Watch, Subscribe, Snapshot, Recv, RecvLagged, Hangup, Close, Rewatch
    <3> QED BY <3>1, <3>2
  <2> QED BY <1>1, <2>2, <2>3 DEF Next
<1>2. IInv /\ [Next]_vars =>
        [\A w \in Watcher : lagged[w] /\ stream[w] = stream'[w] => view'[w] = view[w]]_vars
  BY <1>1
<1> QED BY <1>2, InitIInv, NextIInv, PTL DEF Spec, NoEventsAfterLoss

-----------------------------------------------------------------------------
(* Part 2.                                                                 *)
(* The agent of a registered application is always registered, for any     *)
(* number of callers, instance names and faults.                           *)
(*                                                                         *)
(* The registry alone does not give it: an application is registered after *)
(* remote calls, long after its agent was looked up.  The argument is that *)
(* once an agent is registered nothing removes it.  The monitor is the     *)
(* only caller of deregister, it passes it the name of an application (so  *)
(* the copies of entries it works from are part of the invariant), and the *)
(* cascade of an application's name is empty.                              *)

\* An entry that is either the agent, placed with an endpoint, or an application
\* managed by the agent.
Sound(e) ==
  /\ e \in Entry
  /\ \/ e.name = AgentName /\ e.placement.kind = "Endpoint" /\ e.type.service = "Mgr"
     \/ /\ e.name \in Instances /\ e.placement.kind = "Managed" /\ e.placement.by = AgentName
        /\ e.type.service = "App"

\* The registry holds sound entries, and an application only beside its agent.
MapInv ==
  /\ map \in [Name -> Entry \cup {NoEntry}]
  /\ \A n \in Known : Sound(map[n]) /\ map[n].name = n
  /\ Known \cap Instances # {} => AgentName \in Known

\* What the calls and the monitor carry from one step to the next.
CarriedInv ==
  /\ unit \in [Instances -> {"absent", "running", "frozen", "failed"}]
  /\ pc \in [Caller -> {"idle", "start_vm", "booting", "recheck", "resolve", "starting",
                        "watching", "answered"} \cup Request]
  /\ chosen \in [Caller -> SUBSET Instances]
  /\ merge \in [Caller -> SUBSET Instances]
  /\ answer \in [Caller -> SUBSET [name : Instances, status : UnitStatus]]
  /\ \A e \in todo \cup watched : Sound(e)
  /\ polled \in SUBSET UnitStatus

\* A call that has chosen a name has found the agent.
FoundInv ==
  \A p \in Caller : pc[p] \in {"starting", "watching", "answered"} => AgentName \in Known

AppInv == MapInv /\ CarriedInv /\ FoundInv

-----------------------------------------------------------------------------
\* The four statuses are statuses; names of instances are names, apart from the agent's.
LEMMA ConstantFacts ==
  /\ StatusActive \in UnitStatus /\ StatusFailed \in UnitStatus /\ StatusDead \in UnitStatus
  /\ StatusFrozen \in UnitStatus
  /\ Instances \subseteq Name /\ AgentName \in Name /\ AgentName \notin Instances
  /\ NoEntry \notin Entry
<1>1. /\ StatusActive \in UnitStatus /\ StatusFailed \in UnitStatus /\ StatusDead \in UnitStatus
      /\ StatusFrozen \in UnitStatus
  BY DEF StatusActive, StatusFrozen, StatusFailed, StatusDead, UnitStatus, ActiveState, SubState, LoadState,
         FreezerState
<1>2. Instances \subseteq Name
  BY AppAssumption, SMT DEF Instances
<1> QED BY <1>1, <1>2, AppAssumption, RegistryAssumption

\* The entries that are registered are sound.
LEMMA EntriesSound ==
  /\ Sound(AgentEntry) /\ AgentEntry.name = AgentName
  /\ \A n \in Instances, s \in UnitStatus : Sound(AppEntry(n, s)) /\ AppEntry(n, s).name = n
<1>1. AgentEntry \in Entry
  BY ConstantFacts, AppAssumption DEF AgentEntry, Entry, UnitType, Placement
<1>2. ASSUME NEW n \in Instances, NEW s \in UnitStatus PROVE AppEntry(n, s) \in Entry
  BY ConstantFacts, AppAssumption DEF AppEntry, Entry, UnitType, Placement
<1> QED BY <1>1, <1>2 DEF Sound, AgentEntry, AppEntry

\* register keeps the registry sound, given an agent beside an application, and
\* never loses the agent.
LEMMA RegisterKeeps ==
  ASSUME MapInv, NEW e, Sound(e), Register(e), e.name = AgentName \/ AgentName \in Known
  PROVE  MapInv' /\ AgentName \in Known'
<1>1. e \in Entry /\ e.name \in Name /\ e # NoEntry
  BY ConstantFacts DEF Sound, Entry
<1>2. map' = [map EXCEPT ![e.name] = e] /\ map \in [Name -> Entry \cup {NoEntry}]
  BY DEF Register, MapInv
<1>3. map' \in [Name -> Entry \cup {NoEntry}]
  BY <1>1, <1>2
<1>4. ASSUME NEW n \in Known' PROVE Sound(map'[n]) /\ map'[n].name = n
  BY <1>1, <1>2, <1>4 DEF MapInv, Known
<1>5. AgentName \in Known'
  BY <1>1, <1>2, ConstantFacts DEF Known
<1> QED BY <1>3, <1>4, <1>5 DEF MapInv

\* update_state changes a status and nothing else.
LEMMA UpdateKeeps ==
  ASSUME MapInv, NEW n, NEW s \in UnitStatus, UpdateState(n, s)
  PROVE  MapInv' /\ Known' = Known
<1> DEFINE e == [map[n] EXCEPT !.status = s]
<1>1. n \in Known /\ n \in Name /\ map[n] \in Entry /\ map[n].name = n /\ Sound(map[n])
  BY DEF UpdateState, MapInv, Known, Sound
<1>2. /\ e \in Entry /\ e.name = map[n].name /\ e.placement = map[n].placement
      /\ e.type = map[n].type
  BY <1>1 DEF Entry
<1>3. Sound(e) /\ e.name = n /\ e # NoEntry
  BY <1>1, <1>2, ConstantFacts DEF Sound
<1>4. map' = [map EXCEPT ![n] = e] /\ map \in [Name -> Entry \cup {NoEntry}]
  BY DEF UpdateState, MapInv
<1> HIDE DEF e
<1>5. map' \in [Name -> Entry \cup {NoEntry}] /\ Known' = Known
  BY <1>1, <1>2, <1>3, <1>4 DEF Known
<1>6. ASSUME NEW m \in Known' PROVE Sound(map'[m]) /\ map'[m].name = m
  BY <1>1, <1>3, <1>4, <1>5, <1>6 DEF MapInv, Known
<1> QED BY <1>5, <1>6 DEF MapInv

\* deregister of an application removes that application only.
LEMMA DeregisterKeeps ==
  ASSUME MapInv, NEW n \in Instances, Deregister(n)
  PROVE  MapInv' /\ Known' = Known \ {n} /\ \A m \in Known' : map'[m] = map[m]
<1>1. Cascade(n) = {}
  <2> SUFFICES ASSUME NEW m \in Known \ {n},
                      n \in agent_name(map[m]) \/ vm_name(map[m]) \cap ParseVm[n] # {}
               PROVE  FALSE
    BY DEF Cascade
  <2>1. ParseVm[n] = {}
    BY AppAssumption
  <2>2. Sound(map[m]) /\ map[m].name = m
    BY DEF MapInv
  <2>3. agent_name(map[m]) \in {{m}, {AgentName}}
    BY <2>2 DEF Sound, agent_name
  <2> QED BY <2>1, <2>3, ConstantFacts
<1>2. map' = [m \in Name |-> IF m = n THEN NoEntry ELSE map[m]]
  BY <1>1 DEF Deregister
<1>3. Known' = Known \ {n}
  BY <1>2 DEF Known
<1>4. map' \in [Name -> Entry \cup {NoEntry}]
  BY <1>2 DEF MapInv
<1>5. ASSUME NEW m \in Known' PROVE Sound(map'[m]) /\ map'[m].name = m
  BY <1>2, <1>3 DEF MapInv, Known
<1>6. AgentName \notin Instances
  BY ConstantFacts
<1>7. \A m \in Known' : map'[m] = map[m]
  BY <1>2, <1>3 DEF Known
<1> QED BY <1>3, <1>4, <1>5, <1>6, <1>7 DEF MapInv

-----------------------------------------------------------------------------
\* Nothing is registered and nothing is under way at the start.
LEMMA AppInitInv == AppInit => AppInv
<1> SUFFICES ASSUME AppInit PROVE AppInv
  OBVIOUS
<1>1. MapInv
  BY DEF AppInit, Init, MapInv, Known
<1>2. CarriedInv /\ FoundInv
  BY DEF AppInit, CarriedInv, FoundInv
<1> QED BY <1>1, <1>2 DEF AppInv

\* A step that leaves the registry alone keeps what is known of it.
LEMMA MapUnchanged ==
  ASSUME MapInv, map' = map
  PROVE  MapInv' /\ Known' = Known
<1>1. Known' = Known
  BY DEF Known
<1> QED BY <1>1 DEF MapInv

\* The steps of the VM, and the broadcast.
LEMMA VmStepInv ==
  ASSUME AppInv, AgentRegisters \/ VmCrash \/ Send \/ \E n \in Instances : UnitExits(n)
  PROVE  AppInv'
<1>1. CASE AgentRegisters
  <2>1. MapInv' /\ AgentName \in Known'
    BY <1>1, EntriesSound, RegisterKeeps DEF AgentRegisters, AppInv
  <2>2. CarriedInv'
    BY <1>1 DEF AgentRegisters, AppInv, CarriedInv, vmVars, callVars, monVars
  <2>3. FoundInv'
    BY <2>1 DEF FoundInv
  <2> QED BY <2>1, <2>2, <2>3 DEF AppInv
<1>2. CASE VmCrash \/ Send \/ \E n \in Instances : UnitExits(n)
  <2>1. map' = map /\ pc' = pc /\ chosen' = chosen /\ merge' = merge /\ answer' = answer
        /\ todo' = todo /\ watched' = watched /\ polled' = polled
    BY <1>2 DEF VmCrash, Send, SendEvent, UnitExits, vars, callVars, monVars
  <2>2. unit' \in [Instances -> {"absent", "running", "frozen", "failed"}]
    BY <1>2 DEF VmCrash, Send, UnitExits, Active, vmVars, AppInv, CarriedInv
  <2>3. MapInv' /\ Known' = Known
    BY <2>1, MapUnchanged DEF AppInv
  <2>4. CarriedInv' /\ FoundInv'
    BY <2>1, <2>2, <2>3 DEF AppInv, CarriedInv, FoundInv
  <2> QED BY <2>3, <2>4 DEF AppInv
<1> QED BY <1>1, <1>2

\* The steps of a call.
LEMMA CallInv ==
  ASSUME AppInv, NEW p \in Caller, Call(p)
  PROVE  AppInv'
<1> USE DEF AppInv
<1>1. todo' = todo /\ watched' = watched /\ polled' = polled
  BY DEF Call, StartApp, StartVm, VmBooted, Recheck, Resolve, StartTransientUnit, StartRefused,
         Watched, WatchFails, FinishStart, CallFails, Ask, StopUnit, FreezeUnit, UnfreezeUnit,
         RequestRefused, monVars
<1>2. ASSUME Return(p), map' = map,
             unit' \in [Instances -> {"absent", "running", "frozen", "failed"}]
      PROVE  AppInv'
  <2>1. MapInv' /\ Known' = Known
    BY <1>2, MapUnchanged
  <2>2. CarriedInv' /\ FoundInv'
    BY <1>1, <1>2, <2>1 DEF Return, CarriedInv, FoundInv
  <2> QED BY <2>1, <2>2
<1>3. ASSUME NEW l \in {"booting", "recheck", "resolve", "start_vm"}, Goto(p, l), map' = map,
             unit' = unit, UNCHANGED <<chosen, merge, answer>>
      PROVE  AppInv'
  <2>1. MapInv' /\ Known' = Known
    BY <1>3, MapUnchanged
  <2>2. CarriedInv'
    BY <1>1, <1>3 DEF Goto, CarriedInv
  <2>3. FoundInv'
    BY <1>3, <2>1 DEF Goto, CarriedInv, FoundInv
  <2> QED BY <2>1, <2>2, <2>3
<1>units. unit \in [Instances -> {"absent", "running", "frozen", "failed"}]
  BY DEF CarriedInv
<1>4. CASE StartApp(p) \/ StartVm(p)
  BY <1>3, <1>4 DEF StartApp, StartVm, vars, vmVars
<1>5. CASE VmBooted(p) \/ Recheck(p)
  BY <1>2, <1>3, <1>5, <1>units DEF VmBooted, Recheck, vars, vmVars
<1>6. CASE StartRefused(p) \/ WatchFails(p) \/ CallFails(p) \/ RequestRefused(p)
  BY <1>2, <1>6, <1>units DEF StartRefused, WatchFails, CallFails, RequestRefused, vars, vmVars
<1>7. CASE Resolve(p)
  <2>1. CASE AgentName \notin Known
    BY <1>2, <1>7, <1>units, <2>1 DEF Resolve, vars, vmVars
  <2>2. CASE AgentName \in Known
    <3>1. map' = map /\ unit' = unit /\ merge' = merge /\ answer' = answer
          /\ chosen' = [chosen EXCEPT ![p] = create_unique_entry_name] /\ Goto(p, "starting")
      BY <1>7, <2>2 DEF Resolve, vars, vmVars
    <3>2. create_unique_entry_name \in SUBSET Instances
      BY DEF create_unique_entry_name, Instances
    <3>3. MapInv' /\ Known' = Known
      BY <3>1, MapUnchanged
    <3>4. CarriedInv'
      BY <1>1, <3>1, <3>2 DEF Goto, CarriedInv
    <3>5. FoundInv'
      BY <2>2, <3>3 DEF FoundInv
    <3> QED BY <3>3, <3>4, <3>5
  <2> QED BY <2>1, <2>2
<1>8. CASE StartTransientUnit(p)
  <2>1. /\ map' = map /\ chosen' = chosen /\ answer' = answer /\ pc[p] = "starting"
        /\ Goto(p, "watching")
    BY <1>8 DEF StartTransientUnit, vars
  <2>2. unit' \in [Instances -> {"absent", "running", "frozen", "failed"}]
    BY <1>8 DEF StartTransientUnit, CarriedInv
  <2>3. merge' \in [Caller -> SUBSET Instances]
    BY <1>8, SMT DEF StartTransientUnit, CarriedInv
  <2>4. MapInv' /\ Known' = Known
    BY <2>1, MapUnchanged
  <2>5. CarriedInv'
    BY <1>1, <2>1, <2>2, <2>3 DEF Goto, CarriedInv
  <2>6. FoundInv'
    BY <2>1, <2>4 DEF Goto, CarriedInv, FoundInv
  <2> QED BY <2>4, <2>5, <2>6
<1>9. CASE Watched(p)
  <2>1. /\ map' = map /\ unit' = unit /\ chosen' = chosen /\ merge' = merge
        /\ pc[p] = "watching" /\ Goto(p, "answered")
    BY <1>9 DEF Watched, vars, vmVars
  <2>2. answer' \in [Caller -> SUBSET [name : Instances, status : UnitStatus]]
    <3>1. ASSUME NEW n \in Instances PROVE StatusOf(n) \in UnitStatus
      BY ConstantFacts DEF StatusOf, CarriedInv
    <3>2. chosen[p] \in SUBSET Instances /\ merge[p] \in SUBSET Instances
      BY DEF CarriedInv
    <3>3. ASSUME NEW m \in Instances PROVE CandidateStatus(m) \in UnitStatus
      BY <3>1, ConstantFacts DEF CandidateStatus, UnitStatus
    <3>4. answer \in [Caller -> SUBSET [name : Instances, status : UnitStatus]]
      BY DEF CarriedInv
    <3>5. PICK n \in chosen[p] :
            \/ answer' = [answer EXCEPT ![p] = {[name |-> n, status |-> StatusOf(n)]}]
            \/ answer' = [answer EXCEPT ![p] =
                            {[name |-> m, status |-> CandidateStatus(m)] : m \in merge[p]}]
      BY <1>9 DEF Watched
    <3>6. {[name |-> n, status |-> StatusOf(n)]} \subseteq [name : Instances, status : UnitStatus]
      BY <3>1, <3>2, SMT
    <3>7. ASSUME NEW m \in merge[p]
          PROVE  [name |-> m, status |-> CandidateStatus(m)] \in [name : Instances, status : UnitStatus]
      BY <3>2, <3>3
    <3> QED BY <3>4, <3>5, <3>6, <3>7, SMT
  <2>3. MapInv' /\ Known' = Known
    BY <2>1, MapUnchanged
  <2>4. CarriedInv'
    BY <1>1, <2>1, <2>2 DEF Goto, CarriedInv
  <2>5. FoundInv'
    BY <2>1, <2>3 DEF Goto, CarriedInv, FoundInv
  <2> QED BY <2>3, <2>4, <2>5
<1>10. ASSUME NEW a \in answer[p], pc[p] = "answered", Return(p), UNCHANGED vmVars,
              IF a.status.active = "active" THEN Register(AppEntry(a.name, a.status))
              ELSE UNCHANGED vars
       PROVE  AppInv'
  <2>1. CASE a.status.active = "active"
    <3>1. a.name \in Instances /\ a.status \in UnitStatus /\ AgentName \in Known
      BY <1>10, SMT DEF CarriedInv, FoundInv
    <3>2. MapInv' /\ AgentName \in Known'
      BY <1>10, <2>1, <3>1, EntriesSound, RegisterKeeps
    <3>3. CarriedInv'
      BY <1>1, <1>10 DEF Return, vmVars, CarriedInv
    <3>4. FoundInv'
      BY <3>2 DEF FoundInv
    <3> QED BY <3>2, <3>3, <3>4
  <2>2. CASE a.status.active # "active"
    BY <1>2, <1>10, <1>units, <2>2 DEF vars, vmVars
  <2> QED BY <2>1, <2>2
<1>11. CASE FinishStart(p)
  BY <1>10, <1>11 DEF FinishStart
<1>12. CASE StopUnit(p) \/ FreezeUnit(p) \/ UnfreezeUnit(p)
  <2>1. Return(p) /\ map' = map
    BY <1>12 DEF StopUnit, FreezeUnit, UnfreezeUnit, vars
  <2>2. unit' \in [Instances -> {"absent", "running", "frozen", "failed"}]
    BY <1>12, <1>units DEF StopUnit, FreezeUnit, UnfreezeUnit
  <2> QED BY <1>2, <2>1, <2>2, SMT
<1>13. ASSUME NEW r \in Request, Ask(p, r) PROVE AppInv'
  <2>1. PICK n \in Instances :
          /\ map' = map /\ unit' = unit /\ merge' = merge /\ answer' = answer
          /\ chosen' = [chosen EXCEPT ![p] = {n}] /\ Goto(p, r)
    BY <1>13 DEF Ask, vars, vmVars
  <2>2. MapInv' /\ Known' = Known
    BY <2>1, MapUnchanged
  <2>3. CarriedInv'
    BY <1>1, <2>1 DEF Goto, CarriedInv
  <2>4. r \notin {"starting", "watching", "answered"}
    BY AppAssumption
  <2>5. FoundInv'
    BY <2>1, <2>2, <2>4 DEF Goto, CarriedInv, FoundInv
  <2> QED BY <2>2, <2>3, <2>5
<1> QED BY <1>4, <1>5, <1>6, <1>7, <1>8, <1>9, <1>11, <1>12, <1>13, SMT DEF Call

\* The steps of the monitor.
LEMMA MonitorInv ==
  ASSUME AppInv, Monitor
  PROVE  AppInv'
<1> USE DEF AppInv
<1>1. /\ unit' = unit /\ pc' = pc /\ chosen' = chosen /\ merge' = merge /\ answer' = answer
  BY DEF Monitor, Tick, Poll, Apply, handle_error, vmVars, callVars
<1>2. SUFFICES /\ MapInv' /\ (AgentName \in Known => AgentName \in Known')
               /\ \A e \in todo' \cup watched' : Sound(e)
               /\ polled' \in SUBSET UnitStatus
  <2>1. CarriedInv'
    BY <1>1, <1>2 DEF CarriedInv
  <2>2. FoundInv'
    BY <1>1, <1>2 DEF FoundInv
  <2> QED BY <1>2, <2>1, <2>2
<1>3. /\ \A e \in todo \cup watched : Sound(e) /\ (polled \in SUBSET UnitStatus)
      /\ \A n \in Known : Sound(map[n])
  BY DEF CarriedInv, MapInv
<1>4. ASSUME map' = map PROVE MapInv' /\ Known' = Known
  BY <1>4, MapUnchanged
<1>5. CASE Tick
  <2>1. map' = map /\ watched' = watched /\ polled' = polled
        /\ todo' = {map[n] : n \in {m \in Known : map[m].watch}}
    BY <1>5 DEF Tick, vars
  <2>2. polled' \in SUBSET UnitStatus
    BY <2>1 DEF CarriedInv
  <2> QED BY <1>3, <1>4, <2>1, <2>2
<1>6. ASSUME NEW e \in todo, Poll(e)
      PROVE  /\ MapInv' /\ (AgentName \in Known => AgentName \in Known')
             /\ \A f \in todo' \cup watched' : Sound(f)
             /\ polled' \in SUBSET UnitStatus
  <2>1. map' = map /\ watched' = {e} /\ todo' \subseteq todo
    BY <1>6 DEF Poll, vars
  <2>2. ASSUME NEW n \in Instances PROVE StatusOf(n) \in UnitStatus
    BY ConstantFacts DEF StatusOf, CarriedInv
  <2>3. polled' \in SUBSET UnitStatus
    BY <1>6, <2>2, ConstantFacts DEF Poll
  <2> QED BY <1>3, <1>4, <2>1, <2>3
<1>7. CASE Apply
  <2>1. PICK e \in watched, s \in polled :
          /\ IF e.name \in Known THEN UpdateState(e.name, s) ELSE UNCHANGED vars
          /\ \/ UNCHANGED <<watched, polled>>
             \/ watched' = {} /\ polled' = {}
          /\ todo' = todo
    BY <1>7 DEF Apply, MonitorDone
  <2>2. s \in UnitStatus
    BY <2>1 DEF CarriedInv
  <2>3. MapInv' /\ Known' = Known
    <3>1. CASE e.name \in Known
      BY <2>1, <2>2, <3>1, UpdateKeeps
    <3>2. CASE e.name \notin Known
      BY <1>4, <2>1, <3>2 DEF vars
    <3> QED BY <3>1, <3>2
  <2>4. polled' \in SUBSET UnitStatus /\ watched' \subseteq watched
    BY <2>1 DEF CarriedInv
  <2> QED BY <1>3, <2>1, <2>3, <2>4
<1>8. CASE handle_error
  <2>1. PICK e \in watched :
          /\ \/ e.type.service = "App" /\ e.name \in Known /\ Deregister(e.name)
             \/ UNCHANGED vars
          /\ watched' = {} /\ polled' = {} /\ todo' = todo
    BY <1>8, SMT DEF handle_error, MonitorDone
  <2>2. Sound(e)
    BY <1>3
  <2>3. MapInv' /\ (AgentName \in Known => AgentName \in Known')
    <3>1. CASE e.type.service = "App" /\ e.name \in Known /\ Deregister(e.name)
      <4>1. e.name \in Instances
        BY <2>2, <3>1 DEF Sound
      <4> QED BY <3>1, <4>1, DeregisterKeeps, ConstantFacts
    <3>2. CASE UNCHANGED vars
      BY <1>4, <3>2 DEF vars
    <3> QED BY <2>1, <3>1, <3>2
  <2> QED BY <1>3, <2>1, <2>3
<1> QED BY <1>5, <1>6, <1>7, <1>8 DEF Monitor

\* Every step keeps the invariant.
LEMMA AppNextInv == AppInv /\ [AppNext]_allVars => AppInv'
<1> SUFFICES ASSUME AppInv, [AppNext]_allVars PROVE AppInv'
  OBVIOUS
<1>1. CASE UNCHANGED allVars
  <2>1. /\ map' = map /\ unit' = unit /\ pc' = pc /\ chosen' = chosen /\ merge' = merge
        /\ answer' = answer /\ todo' = todo /\ watched' = watched /\ polled' = polled
    BY <1>1 DEF allVars, vars, vmVars, callVars, monVars
  <2>2. MapInv' /\ Known' = Known
    BY <2>1, MapUnchanged DEF AppInv
  <2> QED BY <2>1, <2>2 DEF AppInv, CarriedInv, FoundInv
<1>2. CASE AppNext
  BY <1>2, VmStepInv, CallInv, MonitorInv DEF AppNext
<1> QED BY <1>1, <1>2

-----------------------------------------------------------------------------
(* Types.                                                                  *)

\* What a step of a call does to the parts of the type invariant that AppInv leaves out.
LEMMA CallTypes ==
  ASSUME AppInv, AppTypeOK, NEW p \in Caller, Call(p)
  PROVE  AppTypeOK'
<1>0. /\ pc \in [Caller -> {"idle", "start_vm", "booting", "recheck", "resolve", "starting",
                             "watching", "answered"} \cup Request]
      /\ chosen \in [Caller -> SUBSET Instances] /\ merge \in [Caller -> SUBSET Instances]
      /\ answer \in [Caller -> SUBSET [name : Instances, status : UnitStatus]]
  BY DEF AppInv, CarriedInv
<1>1. /\ unit' \in [Instances -> {"absent", "running", "frozen", "failed"}]
      /\ pc' \in [Caller -> {"idle", "start_vm", "booting", "recheck", "resolve", "starting",
                             "watching", "answered"} \cup Request]
      /\ \A q \in Caller : chosen'[q] \in SUBSET Instances /\ merge'[q] \in SUBSET Instances
  BY CallInv DEF AppInv, CarriedInv
<1>2. mpc' = mpc /\ watched' = watched
  BY DEF Call, StartApp, StartVm, VmBooted, Recheck, Resolve, StartTransientUnit, StartRefused,
         Watched, WatchFails, FinishStart, CallFails, Ask, StopUnit, FreezeUnit, UnfreezeUnit,
         RequestRefused, monVars
<1>3. vmUp' \in BOOLEAN
  BY DEF Call, StartApp, StartVm, VmBooted, Recheck, Resolve, StartTransientUnit, StartRefused,
         Watched, WatchFails, FinishStart, CallFails, Ask, StopUnit, FreezeUnit, UnfreezeUnit,
         RequestRefused, vmVars, AppTypeOK
<1>4. faults' \in 0..MaxFaults
  <2>1. faults' = faults \/ Fault
    BY DEF Call, StartApp, StartVm, VmBooted, Recheck, Resolve, StartTransientUnit, StartRefused,
           Watched, WatchFails, FinishStart, CallFails, Ask, StopUnit, FreezeUnit, UnfreezeUnit,
           RequestRefused, histVars
  <2>2. QED BY <2>1, AppAssumption, SMT DEF AppTypeOK, Fault
<1>5. owed' \in SUBSET Instances
  <2>1. owed' \subseteq owed \/ \E a \in answer[p] : owed' = owed \cup {a.name}
    BY DEF Call, StartApp, StartVm, VmBooted, Recheck, Resolve, StartTransientUnit, StartRefused,
           Watched, WatchFails, FinishStart, CallFails, Ask, StopUnit, FreezeUnit, UnfreezeUnit,
           RequestRefused, histVars
  <2>2. QED BY <1>0, <2>1, SMT DEF AppTypeOK
<1>6. ASSUME NEW q \in Caller
      PROVE  /\ pc'[q] \in {"starting", "watching"} \cup Request => chosen'[q] # {}
             /\ pc'[q] = "answered" => answer'[q] # {}
  <2>0. /\ pc[q] \in {"starting", "watching"} \cup Request => chosen[q] # {}
        /\ pc[q] = "answered" => answer[q] # {}
    BY DEF AppTypeOK
  <2>1. Request \cap {"idle", "start_vm", "booting", "recheck", "resolve", "starting",
                      "watching", "answered"} = {}
    BY AppAssumption
  <2>2. CASE \/ StartApp(p) \/ StartVm(p) \/ VmBooted(p) \/ Recheck(p) \/ StartRefused(p)
             \/ WatchFails(p) \/ FinishStart(p) \/ StopUnit(p) \/ FreezeUnit(p) \/ UnfreezeUnit(p)
             \/ RequestRefused(p) \/ CallFails(p)
    BY <1>0, <2>0, <2>1, <2>2, SMT DEF StartApp, StartVm, VmBooted, Recheck, StartRefused, WatchFails,
         FinishStart, StopUnit, FreezeUnit, UnfreezeUnit, RequestRefused, CallFails, Goto, Return
  <2>3. CASE Resolve(p)
    BY <1>0, <2>0, <2>1, <2>3, SMT DEF Resolve, Goto, Return
  <2>4. CASE StartTransientUnit(p)
    BY <1>0, <2>0, <2>1, <2>4 DEF StartTransientUnit, Goto
  <2>5. CASE Watched(p)
    <3>1. \/ \E n : answer' = [answer EXCEPT ![p] = {[name |-> n, status |-> StatusOf(n)]}]
          \/ /\ merge[p] # {}
             /\ answer' = [answer EXCEPT ![p] =
                             {[name |-> m, status |-> CandidateStatus(m)] : m \in merge[p]}]
      BY <2>5 DEF Watched
    <3>2. \E A : A # {} /\ answer' = [answer EXCEPT ![p] = A]
      <4> DEFINE As == {[name |-> m, status |-> CandidateStatus(m)] : m \in merge[p]}
      <4>1. merge[p] # {} => As # {}
        OBVIOUS
      <4>2. \A x : {x} # {}
        OBVIOUS
      <4> HIDE DEF As
      <4>3. CASE merge[p] # {} /\ answer' = [answer EXCEPT ![p] = As]
        BY <4>1, <4>3, Zenon
      <4>4. CASE \E n : answer' = [answer EXCEPT ![p] = {[name |-> n, status |-> StatusOf(n)]}]
        BY <4>2, <4>4, Zenon
      <4>5. QED BY <3>1, <4>3, <4>4 DEF As
    <3> answer'[p] # {} /\ (q # p => answer'[q] = answer[q])
      BY <1>0, <3>2
    <3>3. chosen' = chosen /\ Goto(p, "answered")
      BY <2>5 DEF Watched
    <3>4. QED BY <1>0, <2>0, <2>1, <3>3 DEF Goto
  <2>6. CASE \E r \in Request : Ask(p, r)
    BY <1>0, <2>0, <2>1, <2>6, SMT DEF Ask, Goto
  <2>7. QED BY <2>2, <2>3, <2>4, <2>5, <2>6 DEF Call
<1>7. QED BY <1>1, <1>2, <1>3, <1>4, <1>5, <1>6 DEF AppTypeOK

\* The same for the other steps.
LEMMA OtherTypes ==
  ASSUME AppInv, AppTypeOK,
         \/ AgentRegisters \/ VmCrash \/ (\E n \in Instances : UnitExits(n)) \/ Monitor \/ Send
         \/ UNCHANGED allVars
  PROVE  AppTypeOK'
<1>1. /\ UNCHANGED <<pc, chosen, merge, answer>>
      /\ unit' \in [Instances -> {"absent", "running", "frozen", "failed"}]
  BY DEF AgentRegisters, VmCrash, UnitExits, Monitor, Tick, Poll, Apply, handle_error, Send,
         allVars, callVars, vmVars, AppTypeOK
<1>2. vmUp' \in BOOLEAN
  BY DEF AgentRegisters, VmCrash, UnitExits, Monitor, Tick, Poll, Apply, handle_error, Send,
         allVars, vmVars, AppTypeOK
<1>3. faults' \in 0..MaxFaults /\ owed' \in SUBSET Instances
  <2>1. (faults' = faults \/ Fault) /\ owed' \subseteq owed
    BY DEF AgentRegisters, VmCrash, UnitExits, Monitor, Tick, Poll, Apply, handle_error, Send,
           allVars, histVars
  <2>2. faults \in 0..MaxFaults /\ MaxFaults \in Nat /\ owed \in SUBSET Instances
    BY AppAssumption DEF AppTypeOK
  <2>3. faults' \in 0..MaxFaults
    BY <2>1, <2>2, SMT DEF Fault
  <2>4. QED BY <2>1, <2>2, <2>3
<1>4. mpc' \in {"sleep", "apply", "handle"} /\ (mpc' = "sleep" <=> watched' = {})
  BY DEF AgentRegisters, VmCrash, UnitExits, Monitor, Tick, Poll, Apply, handle_error, Send,
         MonitorDone, allVars, monVars, AppTypeOK
<1>5. QED BY <1>1, <1>2, <1>3, <1>4 DEF AppTypeOK

-----------------------------------------------------------------------------
(* Running applications stay known.  The monitor deregisters on the status *)
(* in its copy of an entry, which may be two polls old.  It is right to do *)
(* so because a name stays in the registry, and so is given to nobody      *)
(* else, from the poll that found its unit gone to the deregistration.     *)

\* Nothing is held by a call that has no name yet, and what a call reports is a
\* name it holds.
HeldOK(p) ==
  /\ pc[p] \in {"idle", "start_vm", "booting", "recheck", "resolve"} =>
       chosen[p] = {} /\ merge[p] = {}
  /\ pc[p] \in Request => merge[p] = {}
  /\ pc[p] = "answered" => \A a \in answer[p] : a.name \in chosen[p] \cup merge[p]

HeldInv == \A p \in Caller : HeldOK(p)

\* Unless collided, calls hold different names, and a call that starts an application
\* has a name the registry does not list.
ApartInv ==
  ~collided =>
    /\ \A p, q \in Caller : p # q => Held(p) \cap Held(q) = {}
    /\ \A p \in Caller : pc[p] \notin Request => chosen[p] \cap Known = {}

\* The monitor has at most one copy of an entry, and of registered ones only.
CopyInv ==
  /\ \A e \in todo \cup watched : e.name \in Known
  /\ \A d, e \in todo \cup watched : d.name = e.name => d = e
  /\ todo \cap watched = {}

\* What the admin takes for evidence that an application has ended.
SeenDead(n) ==
  \/ n \in Known /\ is_exitted(map[n].status)
  \/ \E e \in todo \cup watched : e.name = n /\ is_exitted(e.status)
  \/ \E e \in watched, s \in polled : e.name = n /\ is_exitted(s)

EvidenceInv == ~collided => \A n \in Instances : SeenDead(n) => ~Active(n)

OwedInv == (\A n \in owed : Active(n)) /\ RunningStaysKnown

RunInv == HeldInv /\ ApartInv /\ CopyInv /\ EvidenceInv /\ OwedInv

-----------------------------------------------------------------------------
(* The steps of a call, by what they do to the names it holds.             *)

\* It has no name yet and gets none.
Moves(p) ==
  /\ pc[p] \in {"idle", "start_vm", "booting", "recheck"}
  /\ \E l \in {"start_vm", "booting", "recheck", "resolve"} : Goto(p, l)
  /\ UNCHANGED <<map, unit, chosen, merge, collided, owed>>

\* It returns without registering anything; a unit may have ended.
Gives(p) ==
  /\ Return(p)
  /\ UNCHANGED <<map, collided>>
  /\ owed' \subseteq owed
  /\ \A n \in Instances : Active(n)' => Active(n)
  /\ \A n \in owed' : Active(n) => Active(n)'

\* It is given a name.
Chooses(p) ==
  /\ pc[p] = "resolve"
  /\ chosen' = [chosen EXCEPT ![p] = create_unique_entry_name]
  /\ collided' = (collided \/ \E q \in Caller \ {p} : Held(q) \cap create_unique_entry_name # {})
  /\ Goto(p, "starting")
  /\ UNCHANGED <<map, unit, merge, owed>>

LEMMA CallMoves ==
  ASSUME AppInv, AppTypeOK, NEW p \in Caller, Call(p)
  PROVE  /\ \/ Moves(p) \/ Gives(p) \/ Chooses(p) \/ StartTransientUnit(p) \/ Watched(p)
            \/ FinishStart(p) \/ \E r \in Request : Ask(p, r)
         /\ UNCHANGED monVars
<1>0. UNCHANGED monVars
  BY DEF Call, StartApp, StartVm, VmBooted, Recheck, Resolve, StartTransientUnit, StartRefused,
         Watched, WatchFails, FinishStart, CallFails, Ask, StopUnit, FreezeUnit, UnfreezeUnit,
         RequestRefused, monVars
<1>1. CASE StartApp(p) \/ StartVm(p)
  BY <1>0, <1>1 DEF StartApp, StartVm, Moves, vars, vmVars, histVars
<1>2. ASSUME Return(p), UNCHANGED <<map, unit, owed, collided>> PROVE Gives(p)
  BY <1>2 DEF Gives, Active
<1>3. CASE VmBooted(p) \/ Recheck(p)
  BY <1>0, <1>2, <1>3 DEF VmBooted, Recheck, Moves, vars, vmVars, histVars
<1>4. CASE StartRefused(p) \/ WatchFails(p) \/ RequestRefused(p) \/ CallFails(p)
  BY <1>0, <1>2, <1>4 DEF StartRefused, WatchFails, RequestRefused, CallFails, vars, vmVars, histVars
<1>5. CASE Resolve(p)
  BY <1>0, <1>2, <1>5 DEF Resolve, Chooses, vars, vmVars
<1>6. CASE StopUnit(p)
  <2>1. PICK n \in chosen[p] :
          /\ \/ \E s \in {"absent", "failed"} : unit' = [unit EXCEPT ![n] = s]
             \/ UNCHANGED unit
          /\ owed' = owed \ {n} /\ Return(p) /\ UNCHANGED <<map, collided>>
    BY <1>6 DEF StopUnit, vars
  <2>2. owed \subseteq Instances /\ unit \in [Instances -> {"absent", "running", "frozen", "failed"}]
    BY DEF AppTypeOK
  <2>3. QED BY <1>0, <2>1, <2>2 DEF Gives, Active
<1>7. CASE FreezeUnit(p) \/ UnfreezeUnit(p)
  <2>1. PICK n \in chosen[p], s \in {"frozen", "running"} :
          /\ Active(n) /\ unit' = [unit EXCEPT ![n] = s]
          /\ Return(p) /\ UNCHANGED <<map, owed, collided>>
    BY <1>7 DEF FreezeUnit, UnfreezeUnit, vars, histVars
  <2>2. owed \subseteq Instances /\ unit \in [Instances -> {"absent", "running", "frozen", "failed"}]
    BY DEF AppTypeOK
  <2>3. QED BY <1>0, <2>1, <2>2 DEF Gives, Active
<1>8. QED BY <1>0, <1>1, <1>3, <1>4, <1>5, <1>6, <1>7 DEF Call

\* The other calls are where they were.
Frame(p) ==
  \A q \in Caller \ {p} :
    pc'[q] = pc[q] /\ chosen'[q] = chosen[q] /\ merge'[q] = merge[q] /\ answer'[q] = answer[q]

LEMMA CallFrame ==
  ASSUME AppInv, NEW p \in Caller, Call(p)
  PROVE  Frame(p)
<1>0. /\ DOMAIN pc = Caller /\ DOMAIN chosen = Caller /\ DOMAIN merge = Caller /\ DOMAIN answer = Caller
      /\ pc = [q \in Caller |-> pc[q]] /\ chosen = [q \in Caller |-> chosen[q]]
      /\ merge = [q \in Caller |-> merge[q]] /\ answer = [q \in Caller |-> answer[q]]
  BY DEF AppInv, CarriedInv
<1>1. ASSUME Return(p) PROVE Frame(p)
  BY <1>0, <1>1 DEF Return, Frame
<1>2. ASSUME NEW l, Goto(p, l), NEW A, NEW B, NEW C,
             chosen' \in {chosen, [chosen EXCEPT ![p] = A]},
             merge' \in {merge, [merge EXCEPT ![p] = B]},
             answer' \in {answer, [answer EXCEPT ![p] = C]}
      PROVE  Frame(p)
  BY <1>0, <1>2 DEF Goto, Frame
<1>3. CASE StartApp(p) \/ StartVm(p) \/ VmBooted(p) \/ Recheck(p) \/ Resolve(p)
  BY <1>1, <1>2, <1>3 DEF StartApp, StartVm, VmBooted, Recheck, Resolve
<1>4. CASE StartTransientUnit(p) \/ Watched(p)
  <2>1. CASE StartTransientUnit(p)
    <3>1. /\ Goto(p, "watching") /\ chosen' = chosen /\ answer' = answer
          /\ merge' = merge \/ \E m \in Instances : merge' = [merge EXCEPT ![p] = {m}]
      BY <2>1 DEF StartTransientUnit
    <3>2. PICK B : merge' \in {merge, [merge EXCEPT ![p] = B]}
      BY <3>1
    <3>3. /\ chosen' \in {chosen, [chosen EXCEPT ![p] = {}]}
          /\ answer' \in {answer, [answer EXCEPT ![p] = {}]}
      BY <3>1
    <3>4. QED BY <1>2, <3>1, <3>2, <3>3
  <2>2. CASE Watched(p)
    <3>1. /\ Goto(p, "answered") /\ chosen' = chosen /\ merge' = merge
          /\ \E C : answer' = [answer EXCEPT ![p] = C]
      BY <2>2 DEF Watched
    <3>2. PICK C : answer' = [answer EXCEPT ![p] = C]
      BY <3>1
    <3>3. QED BY <1>0, <3>1, <3>2 DEF Goto, Frame
  <2>3. QED BY <1>4, <2>1, <2>2
<1>5. CASE \E r \in Request : Ask(p, r)
  BY <1>1, <1>2, <1>5 DEF Ask
<1>6. CASE \/ StartRefused(p) \/ WatchFails(p) \/ FinishStart(p) \/ StopUnit(p) \/ FreezeUnit(p)
           \/ UnfreezeUnit(p) \/ RequestRefused(p) \/ CallFails(p)
  BY <1>1, <1>6 DEF StartRefused, WatchFails, FinishStart, StopUnit, FreezeUnit, UnfreezeUnit,
                    RequestRefused, CallFails
<1>7. QED BY <1>3, <1>4, <1>5, <1>6 DEF Call

\* Only the call that moves can disturb what is said of calls.
LEMMA HeldKept ==
  ASSUME HeldInv, NEW p \in Caller, Frame(p), HeldOK(p)'
  PROVE  HeldInv'
BY DEF HeldInv, HeldOK, Frame

LEMMA ApartKept ==
  ASSUME ApartInv, NEW p \in Caller, Frame(p), ~collided' => ~collided,
         ~collided' => \A q \in Caller \ {p} : Held(p)' \cap Held(q) = {},
         ~collided' /\ pc'[p] \notin Request => chosen'[p] \cap Known' = {},
         ~collided' => \A q \in Caller \ {p} : pc[q] \notin Request => chosen[q] \cap Known' = {}
  PROVE  ApartInv'
<1> SUFFICES ASSUME ~collided' 
             PROVE  /\ \A q, r \in Caller : q # r => Held(q)' \cap Held(r)' = {}
                    /\ \A q \in Caller : pc'[q] \notin Request => chosen'[q] \cap Known' = {}
  BY DEF ApartInv
<1>1. \A q \in Caller \ {p} : Held(q)' = Held(q) /\ pc'[q] = pc[q] /\ chosen'[q] = chosen[q]
  BY DEF Frame, Held
<1>2. \A q, r \in Caller : q # r => Held(q) \cap Held(r) = {}
  BY DEF ApartInv
<1>3. ASSUME NEW q \in Caller, NEW r \in Caller, q # r PROVE Held(q)' \cap Held(r)' = {}
  <2>1. CASE q = p
    BY <1>1, <1>3, <2>1, ZenonT(40)
  <2>2. CASE r = p
    BY <1>1, <1>3, <2>2, SMT
  <2>3. CASE q # p /\ r # p
    BY <1>1, <1>2, <1>3, <2>3
  <2>4. QED BY <2>1, <2>2, <2>3
<1>4. ASSUME NEW q \in Caller, pc'[q] \notin Request PROVE chosen'[q] \cap Known' = {}
  BY <1>1, <1>4
<1>5. QED BY <1>3, <1>4

\* Steps that leave the registry alone.
LEMMA StillSeen ==
  ASSUME map' = map, UNCHANGED <<todo, watched, polled>>
  PROVE  /\ Known' = Known /\ \A n : SeenDead(n)' => SeenDead(n)
         /\ CopyInv => CopyInv'
<1>1. Known' = Known
  BY DEF Known
<1>2. QED BY <1>1 DEF SeenDead, CopyInv

LEMMA EvidenceKept ==
  ASSUME EvidenceInv, ~collided' => ~collided, \A n \in Instances : SeenDead(n)' => SeenDead(n),
         \A n \in Instances : Active(n)' => Active(n)
  PROVE  EvidenceInv'
BY DEF EvidenceInv

\* Evidence is about registered names only.
LEMMA SeenIsKnown == ASSUME CopyInv, NEW n, SeenDead(n) PROVE n \in Known
BY DEF CopyInv, SeenDead

LEMMA CallRun ==
  ASSUME AppInv, AppTypeOK, RunInv, NEW p \in Caller, Call(p)
  PROVE  RunInv'
<1>0. /\ pc \in [Caller -> {"idle", "start_vm", "booting", "recheck", "resolve", "starting",
                            "watching", "answered"} \cup Request]
      /\ chosen \in [Caller -> SUBSET Instances] /\ merge \in [Caller -> SUBSET Instances]
      /\ answer \in [Caller -> SUBSET [name : Instances, status : UnitStatus]]
      /\ unit \in [Instances -> {"absent", "running", "frozen", "failed"}]
      /\ owed \subseteq Instances
  BY DEF AppInv, CarriedInv, AppTypeOK
<1>1. Request \cap {"idle", "start_vm", "booting", "recheck", "resolve", "starting",
                    "watching", "answered"} = {}
  BY AppAssumption
<1>2. Frame(p) /\ UNCHANGED <<todo, watched, polled>>
  BY CallFrame, CallMoves DEF monVars
<1>3. HeldInv /\ HeldOK(p) /\ ApartInv /\ CopyInv /\ EvidenceInv /\ OwedInv
  BY DEF RunInv, HeldInv
<1>4. ~collided => /\ \A q \in Caller \ {p} : Held(q) \cap Held(p) = {}
                   /\ \A q \in Caller : pc[q] \notin Request => chosen[q] \cap Known = {}
  BY <1>3 DEF ApartInv
(* A step that neither registers nor starts anything. *)
<1>5. ASSUME map' = map, collided' = collided, HeldOK(p)', Held(p)' \subseteq Held(p),
             ~collided /\ pc'[p] \notin Request => chosen'[p] \cap Known = {},
             owed' \subseteq owed, \A n \in Instances : Active(n)' => Active(n),
             \A n \in owed' : Active(n) => Active(n)'
      PROVE  RunInv'
  <2>1. Known' = Known /\ CopyInv' /\ \A n : SeenDead(n)' => SeenDead(n)
    BY <1>2, <1>3, <1>5, StillSeen
  <2>2. HeldInv'
    BY <1>2, <1>3, <1>5, HeldKept
  <2>3. ApartInv'
    BY <1>2, <1>3, <1>4, <1>5, <2>1, ApartKept
  <2>4. EvidenceInv'
    BY <1>3, <1>5, <2>1, EvidenceKept
  <2>5. OwedInv'
    BY <1>3, <1>5, <2>1 DEF OwedInv, RunningStaysKnown
  <2>6. QED BY <2>1, <2>2, <2>3, <2>4, <2>5 DEF RunInv
<1>6. ASSUME Return(p)
      PROVE  HeldOK(p)' /\ Held(p)' = {} /\ chosen'[p] = {} /\ pc'[p] = "idle"
  BY <1>0, <1>1, <1>6 DEF Return, HeldOK, Held
<1>7. CASE Moves(p)
  <2>1. PICK l \in {"start_vm", "booting", "recheck", "resolve"} : pc' = [pc EXCEPT ![p] = l]
    BY <1>7 DEF Moves, Goto
  <2>2. pc'[p] = l /\ chosen'[p] = {} /\ merge'[p] = {} /\ chosen' = chosen
    BY <1>0, <1>3, <1>7, <2>1 DEF Moves, HeldOK
  <2>3. HeldOK(p)' /\ Held(p)' = {}
    BY <1>1, <2>1, <2>2 DEF HeldOK, Held
  <2>4. \A n \in Instances : Active(n)' <=> Active(n)
    BY <1>7 DEF Moves, Active
  <2>5. QED BY <1>0, <1>5, <1>7, <2>2, <2>3, <2>4 DEF Moves
<1>8. CASE Gives(p)
  BY <1>5, <1>6, <1>8 DEF Gives
<1>9. CASE \E r \in Request : Ask(p, r)
  <2>1. PICK r \in Request, n \in Instances :
          /\ pc[p] = "idle" /\ chosen' = [chosen EXCEPT ![p] = {n}] /\ pc' = [pc EXCEPT ![p] = r]
          /\ UNCHANGED <<map, unit, merge, owed, collided>>
    BY <1>9 DEF Ask, Goto, vars, vmVars, histVars
  <2>2. pc'[p] = r /\ merge'[p] = {}
    BY <1>0, <1>3, <2>1 DEF HeldOK
  <2>3. HeldOK(p)' /\ Held(p)' = {}
    BY <1>1, <2>1, <2>2 DEF HeldOK, Held
  <2>4. \A m \in Instances : Active(m)' <=> Active(m)
    BY <2>1 DEF Active
  <2>5. QED BY <1>0, <1>5, <2>1, <2>2, <2>3, <2>4
<1>10. CASE Watched(p)
  <2>1. /\ pc[p] = "watching" /\ pc' = [pc EXCEPT ![p] = "answered"]
        /\ UNCHANGED <<map, unit, chosen, merge, owed, collided>>
    BY <1>10 DEF Watched, Goto, vars, vmVars, histVars
  <2>2. \A a \in answer'[p] : a.name \in chosen[p] \cup merge[p]
    <3>1. PICK n \in chosen[p] :
            \/ answer' = [answer EXCEPT ![p] = {[name |-> n, status |-> StatusOf(n)]}]
            \/ answer' = [answer EXCEPT ![p] =
                            {[name |-> m, status |-> CandidateStatus(m)] : m \in merge[p]}]
      BY <1>10 DEF Watched
    <3>2. \/ answer'[p] = {[name |-> n, status |-> StatusOf(n)]}
          \/ answer'[p] = {[name |-> m, status |-> CandidateStatus(m)] : m \in merge[p]}
      BY <1>0, <3>1
    <3>3. CASE answer'[p] = {[name |-> n, status |-> StatusOf(n)]}
      BY <3>1, <3>3, SMT
    <3>4. CASE answer'[p] = {[name |-> m, status |-> CandidateStatus(m)] : m \in merge[p]}
      BY <3>4, SMT
    <3>5. QED BY <3>2, <3>3, <3>4
  <2>3. pc'[p] = "answered" /\ chosen'[p] = chosen[p] /\ merge'[p] = merge[p]
    BY <1>0, <2>1
  <2>4. HeldOK(p)' /\ Held(p)' = Held(p) /\ pc[p] \notin Request
    BY <1>1, <2>1, <2>2, <2>3 DEF HeldOK, Held
  <2>5. \A m \in Instances : Active(m)' <=> Active(m)
    BY <2>1 DEF Active
  <2>6. ~collided => chosen'[p] \cap Known = {}
    BY <1>4, <2>3, <2>4
  <2>7. QED BY <1>0, <1>5, <2>1, <2>4, <2>5, <2>6
<1>11. CASE Chooses(p)
  <2>1. ~collided' => /\ ~collided
                      /\ \A q \in Caller \ {p} : Held(q) \cap create_unique_entry_name = {}
    BY <1>11, Zenon DEF Chooses
  <2>2. create_unique_entry_name \cap Known = {}
    BY DEF create_unique_entry_name
  <2>3. /\ pc'[p] = "starting" /\ chosen'[p] = create_unique_entry_name /\ merge'[p] = {}
        /\ UNCHANGED <<map, unit, owed>>
    BY <1>0, <1>3, <1>11 DEF Chooses, Goto, HeldOK
  <2>4. HeldOK(p)' /\ Held(p)' = create_unique_entry_name
    BY <1>1, <2>3 DEF HeldOK, Held
  <2>5. Known' = Known /\ CopyInv' /\ \A n : SeenDead(n)' => SeenDead(n)
    BY <1>2, <1>3, <2>3, StillSeen
  <2>6. HeldInv'
    BY <1>2, <1>3, <2>4, HeldKept
  <2>7. ApartInv'
    BY <1>2, <1>3, <1>4, <2>1, <2>2, <2>3, <2>4, <2>5, ApartKept
  <2>8. \A m \in Instances : Active(m)' <=> Active(m)
    BY <2>3 DEF Active
  <2>9. EvidenceInv'
    BY <1>3, <2>1, <2>5, <2>8, EvidenceKept
  <2>10. OwedInv'
    BY <1>0, <1>3, <2>1, <2>3, <2>5, <2>8 DEF OwedInv, RunningStaysKnown
  <2>11. QED BY <2>5, <2>6, <2>7, <2>9, <2>10 DEF RunInv
<1>12. CASE StartTransientUnit(p)
  <2>1. PICK n \in chosen[p] :
          /\ pc[p] = "starting" /\ unit[n] = "absent" /\ unit' = [unit EXCEPT ![n] = "running"]
          /\ merge' = merge \/ \E m \in Instances : merge' = [merge EXCEPT ![p] = {m}]
          /\ collided' = (collided \/ \E q \in Caller \ {p} : Held(q) \cap merge'[p] # {})
          /\ pc' = [pc EXCEPT ![p] = "watching"]
          /\ UNCHANGED <<map, chosen, owed>>
    BY <1>12 DEF StartTransientUnit, Goto, vars
  <2>2. ~collided' => ~collided /\ \A q \in Caller \ {p} : Held(q) \cap merge'[p] = {}
    BY <2>1, Zenon
  <2>3. pc'[p] = "watching" /\ chosen'[p] = chosen[p]
    BY <1>0, <2>1
  <2>4. /\ HeldOK(p)' /\ Held(p)' = chosen[p] \cup merge'[p]
        /\ Held(p) = chosen[p] \cup merge[p] /\ pc[p] \notin Request
    BY <1>1, <2>1, <2>3 DEF HeldOK, Held
  <2>5. Known' = Known /\ CopyInv' /\ \A m : SeenDead(m)' => SeenDead(m)
    BY <1>2, <1>3, <2>1, StillSeen
  <2>6. HeldInv'
    BY <1>2, <1>3, <2>4, HeldKept
  <2>7. ApartInv'
    <3>1. ~collided' => \A q \in Caller \ {p} : Held(p)' \cap Held(q) = {}
      BY <1>4, <2>2, <2>4
    <3>2. QED BY <1>2, <1>3, <1>4, <2>2, <2>3, <2>4, <2>5, <3>1, ApartKept
  <2>8. \A m \in Instances : /\ m # n => (Active(m)' <=> Active(m))
                             /\ Active(m) => Active(m)'
    BY <1>0, <2>1 DEF Active
  <2>9. EvidenceInv'
    <3>1. ASSUME ~collided', NEW m \in Instances, SeenDead(m)' PROVE ~Active(m)'
      <4>1. ~collided /\ SeenDead(m) /\ m \in Known
        BY <1>3, <2>2, <2>5, <3>1, SeenIsKnown
      <4>2. m # n
        BY <1>4, <2>4, <4>1
      <4>3. QED BY <1>3, <2>8, <4>1, <4>2 DEF EvidenceInv
    <3>2. QED BY <3>1 DEF EvidenceInv
  <2>10. OwedInv'
    BY <1>0, <1>3, <2>1, <2>2, <2>5, <2>8 DEF OwedInv, RunningStaysKnown
  <2>11. QED BY <2>5, <2>6, <2>7, <2>9, <2>10 DEF RunInv
<1>13. CASE FinishStart(p)
  <2>1. PICK a \in answer[p] :
          /\ pc[p] = "answered" /\ Return(p) /\ UNCHANGED <<unit, collided>>
          /\ IF a.status.active = "active"
             THEN /\ Register(AppEntry(a.name, a.status))
                  /\ owed' = IF Active(a.name) THEN owed \cup {a.name} ELSE owed
             ELSE UNCHANGED <<map, owed>>
    BY <1>13 DEF FinishStart, vars, vmVars
  <2>2. \A m \in Instances : Active(m)' <=> Active(m)
    BY <2>1 DEF Active
  <2>3. CASE a.status.active # "active"
    BY <1>0, <1>5, <1>6, <2>1, <2>2, <2>3
  <2>4. CASE a.status.active = "active"
    <3>1. a.name \in Held(p) /\ a.name \in Instances /\ a.status \in UnitStatus
      BY <1>0, <1>1, <1>3, <2>1, SMT DEF HeldOK, Held
    <3> DEFINE n == a.name
               e == AppEntry(n, a.status)
    <3>2. e.name = n /\ e.status = a.status /\ e # NoEntry /\ n \in Name
      <4>1. Sound(e) /\ e.name = n
        BY <3>1, EntriesSound
      <4>2. e.status = a.status
        BY DEF AppEntry
      <4>3. e # NoEntry /\ n \in Name
        BY <3>1, <4>1, ConstantFacts DEF Sound
      <4>4. QED BY <4>1, <4>2, <4>3
    <3>3. map' = [map EXCEPT ![n] = e] /\ map \in [Name -> Entry \cup {NoEntry}]
      BY <2>1, <2>4, <3>2 DEF Register, AppInv, MapInv
    <3> HIDE DEF e
    <3>4. /\ Known' = Known \cup {n} /\ map'[n] = e
          /\ \A m \in Name \ {n} : map'[m] = map[m]
      BY <3>2, <3>3 DEF Known
    <3>5. HeldInv'
      BY <1>2, <1>3, <1>6, <2>1, HeldKept
    <3>6. ApartInv'
      <4>1. ASSUME ~collided', NEW q \in Caller \ {p}, pc[q] \notin Request
            PROVE  chosen[q] \cap Known' = {}
        <5>1. n \notin Held(q) /\ Held(q) = chosen[q] \cup merge[q] /\ chosen[q] \cap Known = {}
          BY <1>4, <2>1, <3>1, <4>1 DEF Held
        <5>2. QED BY <3>4, <5>1
      <4>2. QED BY <1>2, <1>3, <1>6, <2>1, <4>1, ApartKept
    <3>7. CopyInv'
      BY <1>2, <1>3, <3>4 DEF CopyInv
    <3>8. ~is_exitted(e.status)
      BY <2>4, <3>2 DEF is_exitted
    <3>9. \A m \in Instances : SeenDead(m)' => SeenDead(m)
      BY <1>2, <3>4, <3>8, ConstantFacts DEF SeenDead
    <3>10. EvidenceInv'
      BY <1>3, <2>1, <2>2, <3>9, EvidenceKept
    <3>11. OwedInv'
      BY <1>0, <1>3, <2>1, <2>2, <2>4, <3>1, <3>4 DEF OwedInv, RunningStaysKnown
    <3>12. QED BY <3>5, <3>6, <3>7, <3>10, <3>11 DEF RunInv
  <2>5. QED BY <2>3, <2>4
<1>14. QED BY <1>7, <1>8, <1>9, <1>10, <1>11, <1>12, <1>13, CallMoves

\* The VM, its agent and the broadcast.
LEMMA VmRun ==
  ASSUME AppInv, AppTypeOK, RunInv,
         \/ AgentRegisters \/ VmCrash \/ (\E n \in Instances : UnitExits(n)) \/ Send
         \/ UNCHANGED allVars
  PROVE  RunInv'
<1>0. /\ HeldInv /\ ApartInv /\ CopyInv /\ EvidenceInv /\ OwedInv /\ owed \subseteq Instances
      /\ unit \in [Instances -> {"absent", "running", "frozen", "failed"}]
  BY DEF RunInv, AppTypeOK
<1>1. UNCHANGED <<pc, chosen, merge, answer, collided, todo, watched, polled>>
  BY DEF AgentRegisters, VmCrash, UnitExits, Send, allVars, callVars, histVars, monVars
<1>2. HeldInv'
  BY <1>0, <1>1 DEF HeldInv, HeldOK
<1>3. CASE AgentRegisters
  <2>1. /\ map' = [map EXCEPT ![AgentName] = AgentEntry] /\ AgentEntry # NoEntry
        /\ map \in [Name -> Entry \cup {NoEntry}]
    BY <1>3, EntriesSound, ConstantFacts DEF AgentRegisters, Register, AppInv, MapInv, Sound
  <2>2. UNCHANGED <<unit, owed>>
    BY <1>3 DEF AgentRegisters, vmVars, histVars
  <2>3. Known' = Known \cup {AgentName} /\ \A n \in Instances : map'[n] = map[n]
    BY <2>1, ConstantFacts DEF Known
  <2>4. ApartInv'
    <3>1. \A p \in Caller : chosen[p] \subseteq Instances
      BY DEF AppTypeOK
    <3>2. \A p \in Caller : Held(p)' = Held(p)
      BY <1>1 DEF Held
    <3>3. QED BY <1>0, <1>1, <2>3, <3>1, <3>2, ConstantFacts DEF ApartInv
  <2>5. CopyInv'
    BY <1>0, <1>1, <2>3 DEF CopyInv
  <2>6. \A n \in Instances : (SeenDead(n)' => SeenDead(n)) /\ (Active(n)' <=> Active(n))
    BY <1>1, <2>2, <2>3, ConstantFacts DEF SeenDead, Active
  <2>7. EvidenceInv'
    BY <1>0, <1>1, <2>6, EvidenceKept
  <2>8. OwedInv'
    BY <1>0, <1>1, <2>2, <2>3, <2>6 DEF OwedInv, RunningStaysKnown
  <2>9. QED BY <1>2, <2>4, <2>5, <2>7, <2>8 DEF RunInv
<1>4. CASE VmCrash \/ (\E n \in Instances : UnitExits(n)) \/ Send \/ UNCHANGED allVars
  <2>1. map' = map
    BY <1>4 DEF VmCrash, UnitExits, Send, SendEvent, allVars, vars
  <2>2. /\ owed' \subseteq owed
        /\ \A n \in Instances : Active(n)' => Active(n)
        /\ \A n \in owed' : Active(n) => Active(n)'
    BY <1>0, <1>4 DEF VmCrash, UnitExits, Send, allVars, vmVars, histVars, Active
  <2>3. Known' = Known /\ CopyInv' /\ \A n : SeenDead(n)' => SeenDead(n)
    BY <1>0, <1>1, <2>1, StillSeen
  <2>4. \A p \in Caller : Held(p)' = Held(p)
    BY <1>1 DEF Held
  <2>5. ApartInv'
    BY <1>0, <1>1, <2>3, <2>4 DEF ApartInv
  <2>6. EvidenceInv'
    BY <1>0, <1>1, <2>2, <2>3, EvidenceKept
  <2>7. OwedInv'
    BY <1>0, <1>1, <2>2, <2>3 DEF OwedInv, RunningStaysKnown
  <2>8. QED BY <1>2, <2>3, <2>5, <2>6, <2>7 DEF RunInv
<1>5. QED BY <1>3, <1>4

\* The monitor.
LEMMA MonitorRun ==
  ASSUME AppInv, AppTypeOK, RunInv, Monitor
  PROVE  RunInv'
<1>0. /\ HeldInv /\ ApartInv /\ CopyInv /\ EvidenceInv /\ OwedInv /\ owed \subseteq Instances
      /\ unit \in [Instances -> {"absent", "running", "frozen", "failed"}]
      /\ (mpc = "sleep" => watched = {})
  BY DEF RunInv, AppTypeOK
<1>1. UNCHANGED <<pc, chosen, merge, answer, unit, owed, collided>>
  BY DEF Monitor, Tick, Poll, Apply, handle_error, callVars, vmVars, histVars
<1>2. HeldInv'
  BY <1>0, <1>1 DEF HeldInv, HeldOK
<1>3. \A n : Active(n)' <=> Active(n)
  BY <1>1 DEF Active
<1>4. \A p \in Caller : Held(p)' = Held(p)
  BY <1>1 DEF Held
<1>5. ASSUME Known' \subseteq Known, CopyInv', EvidenceInv', ~collided => owed \subseteq Known'
      PROVE  RunInv'
  <2>1. ApartInv'
    BY <1>0, <1>1, <1>4, <1>5 DEF ApartInv
  <2>2. OwedInv'
    BY <1>0, <1>1, <1>3, <1>5 DEF OwedInv, RunningStaysKnown
  <2>3. QED BY <1>2, <1>5, <2>1, <2>2 DEF RunInv
<1>6. ~collided => owed \subseteq Known
  BY <1>0 DEF OwedInv, RunningStaysKnown
<1>7. \A n \in Known : map[n].name = n
  BY DEF AppInv, MapInv
<1>8. CASE Tick
  <2>1. /\ map' = map /\ watched = {} /\ watched' = {} /\ polled' = polled
        /\ todo' = {map[n] : n \in {m \in Known : map[m].watch}}
    BY <1>0, <1>8 DEF Tick, vars
  <2>2. Known' = Known
    BY <2>1 DEF Known
  <2>3. \A e \in todo' : e.name \in Known /\ e = map[e.name]
    BY <1>7, <2>1, SMT
  <2>4. CopyInv'
    BY <2>1, <2>2, <2>3 DEF CopyInv
  <2>5. \A n \in Instances : SeenDead(n)' => SeenDead(n)
    BY <2>1, <2>2, <2>3 DEF SeenDead
  <2>6. EvidenceInv'
    BY <1>0, <1>1, <1>3, <2>5, EvidenceKept
  <2>7. QED BY <1>5, <1>6, <2>2, <2>4, <2>6
<1>9. ASSUME NEW e \in todo, Poll(e) PROVE RunInv'
  <2>1. /\ map' = map /\ watched = {} /\ watched' = {e} /\ todo' = todo \ {e}
        /\ \A s \in polled' : e.name \in Instances => s = StatusOf(e.name)
    BY <1>0, <1>9 DEF Poll, vars
  <2>2. Known' = Known
    BY <2>1 DEF Known
  <2>3. CopyInv'
    BY <1>0, <2>1, <2>2, SMT DEF CopyInv
  <2>4. ASSUME ~collided', NEW n \in Instances, SeenDead(n)' PROVE ~Active(n)'
    <3>1. CASE SeenDead(n)
      BY <1>0, <1>1, <1>3, <2>4, <3>1 DEF EvidenceInv
    <3>2. CASE ~SeenDead(n)
      <4>1. PICK s \in polled' : e.name = n /\ is_exitted(s)
        BY <2>1, <2>2, <2>4, <3>2 DEF SeenDead
      <4>2. is_exitted(StatusOf(n))
        BY <2>1, <4>1
      <4>3. ~Active(n)
        BY <1>0, <4>2 DEF is_exitted, StatusOf, StatusActive, StatusFrozen, Active
      <4>4. QED BY <1>3, <4>3
    <3>3. QED BY <3>1, <3>2
  <2>5. QED BY <1>5, <1>6, <2>2, <2>3, <2>4 DEF EvidenceInv
<1>10. CASE Apply
  <2>1. PICK e \in watched, s \in polled :
          /\ IF e.name \in Known THEN UpdateState(e.name, s) ELSE UNCHANGED vars
          /\ watched' \subseteq watched /\ polled' \subseteq polled /\ todo' = todo
    BY <1>10 DEF Apply, MonitorDone
  <2>2. e.name \in Known /\ e.name \in Name /\ s \in UnitStatus
    BY <1>0, <2>1 DEF CopyInv, Known, AppInv, CarriedInv
  <2>3. Known' = Known
    BY <2>1, <2>2, UpdateKeeps DEF AppInv
  <2>4. /\ map' = [map EXCEPT ![e.name] = [@ EXCEPT !.status = s]]
        /\ map \in [Name -> Entry \cup {NoEntry}] /\ map[e.name] \in Entry
    BY <2>1, <2>2 DEF UpdateState, AppInv, MapInv, Known
  <2>5. /\ \A m \in Name \ {e.name} : map'[m] = map[m]
        /\ map'[e.name].status = s
    BY <2>2, <2>4 DEF Entry
  <2>6. CopyInv'
    BY <1>0, <2>1, <2>3 DEF CopyInv
  <2>7. \A n \in Instances : SeenDead(n)' => SeenDead(n)
    BY <2>1, <2>3, <2>5, ConstantFacts DEF SeenDead
  <2>8. EvidenceInv'
    BY <1>0, <1>1, <1>3, <2>7, EvidenceKept
  <2>9. QED BY <1>5, <1>6, <2>3, <2>6, <2>8
<1>11. CASE handle_error
  <2>1. PICK e \in watched :
          /\ \/ /\ e.type.service = "App" /\ is_exitted(e.status) /\ e.name \in Known
                /\ Deregister(e.name)
             \/ UNCHANGED vars
          /\ watched' = {} /\ polled' = {} /\ todo' = todo
    <3>1. PICK e \in watched :
            /\ \/ /\ e.type = [vm |-> "AppVM", service |-> "App"]
                  /\ IF is_exitted(e.status) /\ e.name \in Known THEN Deregister(e.name)
                     ELSE Unlocked /\ UNCHANGED vars
               \/ UNCHANGED vars
            /\ MonitorDone /\ todo' = todo
      BY <1>11 DEF handle_error
    <3>2. watched' = {} /\ polled' = {}
      BY <3>1 DEF MonitorDone
    <3>3. \/ e.type.service = "App" /\ is_exitted(e.status) /\ e.name \in Known
             /\ Deregister(e.name)
          \/ UNCHANGED vars
      BY <3>1, SMT
    <3>4. QED BY <3>1, <3>2, <3>3
  <2>2. CASE UNCHANGED vars
    <3>1. Known' = Known /\ map' = map
      BY <2>2 DEF Known, vars
    <3>2. CopyInv'
      BY <1>0, <2>1, <3>1 DEF CopyInv
    <3>3. \A n \in Instances : SeenDead(n)' => SeenDead(n)
      BY <2>1, <3>1 DEF SeenDead
    <3>4. EvidenceInv'
      BY <1>0, <1>1, <1>3, <3>3, EvidenceKept
    <3>5. QED BY <1>5, <1>6, <3>1, <3>2, <3>4
  <2>3. CASE e.type.service = "App" /\ is_exitted(e.status) /\ Deregister(e.name)
    <3>1. e.name \in Instances
      BY <2>1, <2>3 DEF AppInv, CarriedInv, Sound
    <3>2. Known' = Known \ {e.name} /\ \A m \in Known' : map'[m] = map[m]
      BY <2>3, <3>1, DeregisterKeeps DEF AppInv
    <3>3. ~collided => e.name \notin owed
      BY <1>0, <2>1, <2>3, <3>1 DEF EvidenceInv, SeenDead, OwedInv
    <3>4. \A d \in todo : d.name # e.name
      BY <1>0, <2>1 DEF CopyInv
    <3>5. CopyInv'
      BY <1>0, <2>1, <3>2, <3>4 DEF CopyInv
    <3>6. \A n \in Instances : SeenDead(n)' => SeenDead(n)
      BY <2>1, <3>2 DEF SeenDead
    <3>7. EvidenceInv'
      BY <1>0, <1>1, <1>3, <3>6, EvidenceKept
    <3>8. QED BY <1>5, <1>6, <3>2, <3>3, <3>5, <3>7
  <2>4. QED BY <2>1, <2>2, <2>3
<1>12. QED BY <1>8, <1>9, <1>10, <1>11 DEF Monitor

-----------------------------------------------------------------------------
(* The theorems.                                                           *)

\* Types of the application lifecycle, for any callers, requests and faults: a call
\* that waits for the agent has a name to wait for (server.rs 229-290), and the monitor
\* has an entry exactly while it is in monitor_routine (server.rs 396-430).
THEOREM AppTypes == AppSpec => []AppTypeOK
<1>1. AppInit => AppTypeOK
  <2> SUFFICES ASSUME AppInit PROVE AppTypeOK
    OBVIOUS
  <2>1. vmUp \in BOOLEAN /\ mpc = "sleep" /\ watched = {} /\ owed = {} /\ faults = 0
    BY DEF AppInit
  <2>2. faults \in 0..MaxFaults
    BY <2>1, AppAssumption, SMT
  <2>3. \A p \in Caller : pc[p] = "idle" /\ chosen[p] = {} /\ merge[p] = {}
    BY DEF AppInit
  <2>4. "idle" \notin Request
    BY AppAssumption
  <2>5. /\ unit \in [Instances -> {"absent", "running", "frozen", "failed"}]
        /\ pc \in [Caller -> {"idle", "start_vm", "booting", "recheck", "resolve", "starting",
                              "watching", "answered"} \cup Request]
    BY DEF AppInit
  <2>6. QED BY <2>1, <2>2, <2>3, <2>4, <2>5 DEF AppTypeOK
<1>2. AppInv /\ AppTypeOK /\ [AppNext]_allVars => AppTypeOK'
  BY CallTypes, OtherTypes DEF AppNext
<1>3. QED BY <1>1, <1>2, AppInitInv, AppNextInv, PTL DEF AppSpec

\* `endpoint()` (server.rs 179-199) resolves every registered application: its
\* agent is registered, with an endpoint of its own, whatever fails and however
\* calls, monitor and VM interleave.
THEOREM AgentsStayKnown == AppSpec => []ManagedHasAgent
<1>1. AppInv => ManagedHasAgent
  <2> SUFFICES ASSUME AppInv, NEW n \in Known, map[n].placement.kind = "Managed"
               PROVE  /\ map[n].placement.by \in Known
                      /\ map[map[n].placement.by].placement.kind = "Endpoint"
    BY DEF ManagedHasAgent
  <2>1. n \in Instances /\ map[n].placement.by = AgentName
    BY DEF AppInv, MapInv, Sound
  <2>2. AgentName \in Known
    BY <2>1 DEF AppInv, MapInv
  <2>3. map[AgentName].placement.kind = "Endpoint"
    BY <2>2, ConstantFacts DEF AppInv, MapInv, Sound
  <2> QED BY <2>1, <2>2, <2>3
<1> QED BY <1>1, AppNextInv, AppInitInv, PTL DEF AppSpec

\* The monitor never drops an application that start_app reported as running and that
\* still runs (server.rs 374-378, 396-430), for any number of callers, names and faults,
\* unless two start_app calls were given one name.
THEOREM RunningIsKnown == AppSpec => []RunningStaysKnown
<1>1. AppInit => RunInv
  <2> SUFFICES ASSUME AppInit PROVE RunInv
    OBVIOUS
  <2>1. HeldInv /\ ApartInv
    BY AppAssumption DEF AppInit, HeldInv, HeldOK, ApartInv, Held
  <2>2. Known = {}
    BY DEF AppInit, Init, Known
  <2>3. CopyInv /\ EvidenceInv /\ OwedInv
    BY <2>2 DEF AppInit, CopyInv, EvidenceInv, SeenDead, OwedInv, RunningStaysKnown
  <2>4. QED BY <2>1, <2>3 DEF RunInv
<1>2. AppInv /\ AppTypeOK /\ RunInv /\ [AppNext]_allVars => RunInv'
  BY CallRun, VmRun, MonitorRun DEF AppNext
<1>3. RunInv => RunningStaysKnown
  BY DEF RunInv, OwedInv
<1>4. QED BY <1>1, <1>2, <1>3, AppInitInv, AppNextInv, AppTypes, PTL DEF AppSpec
=============================================================================
