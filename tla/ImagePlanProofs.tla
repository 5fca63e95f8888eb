-------------------------- MODULE ImagePlanProofs --------------------------
(* TLAPS proofs about what the plans of ImageUpdate achieve: an install    *)
(* delivers its image, a removal removes it, and slots and boot entries    *)
(* stay consistent meanwhile.                                              *)
EXTENDS ImageUpdateProofs

\* Zenon proves the steps that are first order; the others name their prover.
USE Zenon

-----------------------------------------------------------------------------
(* Seen from a plan, a step of the system is one of four: nobody's plan    *)
(* advances, an invocation makes its plan, runs the next command of it, or *)
(* is stopped in the middle of a command.                                  *)
Stays(p) ==
  /\ plan'[p] = plan[p] /\ req'[p] = req[p] /\ outcome'[p] = outcome[p]
  /\ phase'[p] = phase[p] /\ seen'[p] = seen[p]
  /\ plan[p] # <<>> /\ lpc[p] = "held" => lpc'[p] = "held"
  /\ outcome[p] = "ok" /\ lpc'[p] = "held" => lpc[p] = "held"

Stops(p) ==
  /\ plan'[p] = <<>> /\ outcome'[p] # "ok"
  /\ phase'[p] = "read" => seen'[p].ukis = Ukis

StaysBut(p) == \A q \in Proc \ {p} : Stays(q)

QuietMove ==
  /\ UNCHANGED diskVars
  /\ \A p \in Proc : Stops(p) \/ (Stays(p) /\ kernel' = kernel)

PlansInstall(p) ==
  /\ req[p].cmd = "install" /\ req[p].version \in Version
  /\ \E s \in EmptyStatus, a \in ActiveGroups(Groups(p)) :
     \E pre \in {resize_steps_for_slot(s), create_empty_slot(s)} :
       /\ kernel = NoRevision => is_legacy(a)
       /\ Planned(p, req[p].version,
                  pre \o install_into_slot(s, req[p].version, is_legacy(a)))
  /\ StaysBut(p) /\ UNCHANGED <<diskVars, kernel>>

PlansRemove(p) ==
  /\ phase[p] = "read" /\ req[p].cmd = "remove"
  /\ \E g \in Groups(p), v \in Version, n \in allocate_empty_identifier(Groups(p)) :
       /\ has_version(g, v)
       /\ Planned(p, v, remove_slot(g, v, n, seen[p].legacy))
  /\ StaysBut(p) /\ UNCHANGED <<diskVars, kernel>>

Runs(st) ==
  \/ Succeeds(st)
  \/ /\ st.cmd = "dd"
     /\ SetVol(st.kind, st.at, Torn)
     /\ UNCHANGED <<uki, legacyEntry, migrated>>

Works(p) == Executing(p) /\ NextStep(p) /\ Runs(Head(plan[p])) /\ StaysBut(p)

Breaks(p) ==
  /\ Executing(p) /\ Interrupted(Head(plan[p])) /\ Stops(p) /\ phase'[p] # "read"
  /\ StaysBut(p) /\ kernel' = kernel

(* What a step of p leaves of the others, when it touches only p's entry.  *)
OnlyOf(p) ==
  \A q \in Proc \ {p} :
    /\ plan'[q] = plan[q] /\ req'[q] = req[q] /\ outcome'[q] = outcome[q]
    /\ phase'[q] = phase[q] /\ seen'[q] = seen[q] /\ lpc'[q] = lpc[q]

LEMMA OnlyOfStays == ASSUME NEW p, OnlyOf(p) PROVE StaysBut(p)
BY DEF OnlyOf, StaysBut, Stays

LEMMA LockOnly ==
  ASSUME LockTypeOK, NEW p \in Proc, LockStep(p) \/ UNCHANGED lockVars
  PROVE  \A q \in Proc \ {p} : lpc'[q] = lpc[q]
BY DEF LockTypeOK, LockStep, OpenLock, TryLock, LockRefused, WriteOwner, WriteOwnerFails,
       DropUnlink, DropClose, LockCrash, CloseFd, lockVars

(* Every step of the system is one of the four, and keeps PhaseInv.        *)
LEMMA EndMove ==
  ASSUME ProcOK, PhaseInv, NEW p \in Proc, End(p), lpc \in [Proc -> LockPC],
         \A q \in Proc \ {p} : lpc'[q] = lpc[q], lpc'[p] = "out"
  PROVE  PhaseInv' /\ Stops(p) /\ StaysBut(p) /\ phase'[p] = "idle"
<1>1. OnlyOf(p) /\ plan'[p] = <<>> /\ outcome'[p] = "none" /\ phase'[p] = "idle"
  BY DEF End, ProcOK, OnlyOf
<1>2. Stops(p) /\ StaysBut(p)
  BY <1>1, OnlyOfStays DEF Stops
<1>3. PhaseInv'
  BY <1>1 DEF OnlyOf, PhaseInv
<1>4. QED BY <1>1, <1>2, <1>3

LEMMA PlannedMove ==
  ASSUME ProcOK, PhaseInv, NEW p \in Proc, NEW v, NEW steps, phase[p] = "read",
         Planned(p, v, steps), UNCHANGED lockVars
  PROVE  /\ PhaseInv' /\ StaysBut(p)
         /\ plan'[p] = steps /\ phase'[p] = "planned" /\ outcome'[p] # "ok"
<1>1. OnlyOf(p) /\ plan'[p] = steps /\ phase'[p] = "planned" /\ outcome'[p] = outcome[p]
  BY DEF Planned, ProcOK, OnlyOf, lockVars
<1>2. outcome'[p] # "ok"
  BY <1>1 DEF PhaseInv
<1>3. PhaseInv'
  BY <1>1, <1>2 DEF OnlyOf, PhaseInv
<1>4. QED BY <1>1, <1>2, <1>3, OnlyOfStays

LEMMA PlanInstallMove ==
  ASSUME IInv, PhaseInv, NEW p \in Proc, PlanInstall(p)
  PROVE  PhaseInv' /\ (QuietMove \/ PlansInstall(p))
<1> DEFINE groups == Groups(p)
           v == req[p].version
<1>0. /\ ProcOK /\ LockTypeOK /\ lpc \in [Proc -> LockPC]
      /\ phase[p] = "read" /\ req[p].cmd = "install" /\ plan[p] = <<>>
      /\ UNCHANGED <<diskVars, kernel, lockVars>>
  BY IInvParts DEF PlanInstall, ProcOK, LockIInv, LockTypeOK
<1>1. v \in Version
  <2>1. req[p] \in [cmd : {"install"}, version : InstallArg]
    BY <1>0, RequestFields
  <2>2. QED BY <2>1 DEF InstallArg
<1>2. lpc' = lpc /\ lpc[p] = "out"
  BY <1>0 DEF lockVars, PhaseInv
<1>3. CASE End(p)
  <2>1. PhaseInv' /\ Stops(p) /\ StaysBut(p)
    BY <1>0, <1>2, <1>3, EndMove
  <2>2. QED BY <1>0, <2>1 DEF QuietMove, StaysBut
<1>4. CASE NothingToDo(p)
  <2>1. OnlyOf(p) /\ plan'[p] = <<>> /\ outcome'[p] = "nothing" /\ phase'[p] = "idle"
    BY <1>0, <1>2, <1>4 DEF NothingToDo, ProcOK, OnlyOf
  <2>2. Stops(p) /\ StaysBut(p)
    BY <2>1, OnlyOfStays DEF Stops
  <2>3. PhaseInv'
    BY <1>2, <2>1 DEF OnlyOf, PhaseInv
  <2>4. QED BY <1>0, <2>2, <2>3 DEF QuietMove, StaysBut
<1>5. ASSUME NEW a \in ActiveGroups(groups), NEW s \in EmptyStatus,
             NEW pre \in {resize_steps_for_slot(s), create_empty_slot(s)},
             Planned(p, v, pre \o install_into_slot(s, v, is_legacy(a)))
      PROVE  PhaseInv' /\ PlansInstall(p)
  <2>1. kernel = NoRevision => is_legacy(a)
    BY DEF ActiveGroups, is_active
  <2>2. PhaseInv' /\ StaysBut(p)
    BY <1>0, <1>5, PlannedMove
  <2>3. QED BY <1>0, <1>1, <1>5, <2>1, <2>2 DEF PlansInstall
<1>6. ASSUME NEW a \in ActiveGroups(groups), NEW g \in SuitableSlots(groups),
             Planned(p, v, resize_steps_for_slot(g.status)
                           \o install_into_slot(g.status, v, is_legacy(a)))
      PROVE  PhaseInv' /\ PlansInstall(p)
  BY <1>5, <1>6, SpareSlots
<1>7. ASSUME NEW a \in ActiveGroups(groups), NEW n \in allocate_empty_identifier(groups),
             Planned(p, v, create_empty_slot(Empty(n))
                           \o install_into_slot(Empty(n), v, is_legacy(a)))
      PROVE  PhaseInv' /\ PlansInstall(p)
  BY <1>5, <1>7, SpareSlots
<1>8. QED BY <1>3, <1>4, <1>6, <1>7 DEF PlanInstall

LEMMA PlanRemoveMove ==
  ASSUME IInv, PhaseInv, NEW p \in Proc, PlanRemove(p)
  PROVE  PhaseInv' /\ (QuietMove \/ PlansRemove(p))
<1> DEFINE groups == Groups(p)
<1>0. /\ ProcOK /\ lpc \in [Proc -> LockPC]
      /\ phase[p] = "read" /\ req[p].cmd = "remove"
      /\ UNCHANGED <<diskVars, kernel, lockVars>>
  BY IInvParts DEF PlanRemove, ProcOK, LockIInv, LockTypeOK
<1>1. lpc' = lpc /\ lpc[p] = "out"
  BY <1>0 DEF lockVars, PhaseInv
<1>2. CASE End(p)
  <2>1. PhaseInv' /\ Stops(p) /\ StaysBut(p)
    BY <1>0, <1>1, <1>2, EndMove
  <2>2. QED BY <1>0, <2>1 DEF QuietMove, StaysBut
<1>3. ASSUME NEW g \in find_slot_group(groups, req[p].version), NEW v \in Version,
             NEW n \in allocate_empty_identifier(groups), has_version(g, v),
             Planned(p, v, remove_slot(g, v, n, seen[p].legacy))
      PROVE  PhaseInv' /\ PlansRemove(p)
  <2>1. g \in groups
    BY DEF find_slot_group
  <2>2. PhaseInv' /\ StaysBut(p)
    BY <1>0, <1>3, PlannedMove
  <2>3. QED BY <1>0, <1>3, <2>1, <2>2 DEF PlansRemove
<1>4. QED BY <1>2, <1>3 DEF PlanRemove

(* Taking and dropping the lock advances no plan.                          *)
LEMMA LockMoves ==
  ASSUME IInv, PhaseInv, NEW p \in Proc, Acquire(p) \/ AcquireFails(p) \/ Release(p)
  PROVE  PhaseInv' /\ QuietMove
<1>0. /\ ProcOK /\ LockTypeOK /\ lpc \in [Proc -> LockPC]
      /\ UNCHANGED <<diskVars, kernel>>
  BY IInvParts DEF Acquire, AcquireFails, Release, LockIInv, LockTypeOK
<1>1. \A q \in Proc \ {p} : lpc'[q] = lpc[q]
  BY <1>0, LockOnly DEF Acquire, AcquireFails, Release, LockStep
<1>2. ASSUME End(p), lpc'[p] = "out" PROVE PhaseInv' /\ QuietMove
  <2>1. PhaseInv' /\ Stops(p) /\ StaysBut(p)
    BY <1>0, <1>1, <1>2, EndMove
  <2>2. QED BY <1>0, <2>1 DEF QuietMove, StaysBut
<1>3. CASE AcquireFails(p)
  <2>1. End(p) /\ lpc'[p] = "out"
    BY <1>0, <1>3 DEF AcquireFails, LockRefused, WriteOwnerFails, CloseFd
  <2>2. QED BY <1>2, <2>1
<1>4. CASE Release(p) /\ ~UNCHANGED procVars
  <2>1. End(p) /\ lpc'[p] = "out"
    BY <1>0, <1>4 DEF Release, DropClose, CloseFd
  <2>2. QED BY <1>2, <2>1
<1>5. ASSUME UNCHANGED procVars, phase[p] \in {"planned", "running"},
             plan[p] # <<>> /\ lpc[p] = "held" => lpc'[p] = "held",
             outcome[p] = "ok" /\ lpc'[p] = "held" => lpc[p] = "held"
      PROVE  PhaseInv' /\ QuietMove
  <2>1. Stays(p)
    BY <1>5 DEF procVars, Stays
  <2>2. OnlyOf(p)
    BY <1>1, <1>5 DEF procVars, OnlyOf
  <2>3. StaysBut(p)
    BY <2>2, OnlyOfStays
  <2>4. PhaseInv'
    BY <1>1, <1>5 DEF procVars, PhaseInv
  <2>5. QED BY <1>0, <2>1, <2>3, <2>4 DEF QuietMove, StaysBut
<1>6. CASE Release(p) /\ UNCHANGED procVars
  <2>1. plan[p] = <<>> /\ phase[p] = "running" /\ lpc'[p] \in {"unlinked", "out"}
    BY <1>0, <1>6 DEF Release, DropUnlink, DropClose, CloseFd
  <2>2. QED BY <1>5, <1>6, <2>1
<1>7. CASE Acquire(p)
  <2>1. UNCHANGED procVars /\ phase[p] = "planned" /\ lpc[p] # "held"
    BY <1>0, <1>7 DEF Acquire, OpenLock, TryLock, WriteOwner
  <2>2. outcome[p] # "ok"
    BY <2>1 DEF PhaseInv
  <2>3. QED BY <1>5, <2>1, <2>2
<1>8. QED BY <1>3, <1>4, <1>6, <1>7

(* The commands of a plan.                                                 *)
LEMMA ExecMoves ==
  ASSUME IInv, PhaseInv, NEW p \in Proc,
         ExecStep(p) \/ ExecShortWrite(p) \/ ExecFails(p) \/ DryRun(p)
  PROVE  PhaseInv' /\ (QuietMove \/ Works(p) \/ Breaks(p))
<1>0. /\ ProcOK /\ plan[p] # <<>> /\ outcome[p] # "ok"
      /\ phase[p] \in {"planned", "running"} /\ plan[p] \in Seq(SafeStep)
      /\ kernel' = kernel /\ lpc' = lpc /\ Executing(p)
  BY IInvParts DEF ExecStep, ExecShortWrite, ExecFails, DryRun, NextStep, Executing,
                   PhaseInv, ProcOK, lockVars
<1>1. OnlyOf(p)
  BY <1>0 DEF ExecStep, ExecShortWrite, ExecFails, DryRun, NextStep, ProcOK, OnlyOf
<1>2. StaysBut(p)
  BY <1>1, OnlyOfStays
<1>3. CASE ExecStep(p) \/ ExecShortWrite(p)
  <2>1. Works(p)
    BY <1>0, <1>2, <1>3 DEF ExecStep, ExecShortWrite, Works, Runs
  <2>2. /\ plan'[p] = Tail(plan[p]) /\ phase'[p] = "running"
        /\ outcome'[p] = IF Len(plan[p]) = 1 THEN "ok" ELSE outcome[p]
    BY <1>0, <2>1 DEF Works, NextStep, ProcOK
  <2>3. outcome'[p] = "ok" => plan'[p] = <<>>
    <3>1. ASSUME NEW q \in Seq(SafeStep), Len(q) = 1 PROVE Tail(q) = <<>>
      <4>1. q # <<>>
        BY <3>1, SMT
      <4>2. Tail(q) \in Seq(SafeStep) /\ Len(Tail(q)) = 0
        BY <3>1, <4>1, SMT
      <4>3. QED BY <4>2, NoSteps
    <3>2. QED BY <1>0, <2>2, <3>1
  <2>4. PhaseInv'
    BY <1>1, <2>2, <2>3 DEF PhaseInv, OnlyOf
  <2>5. QED BY <2>1, <2>4
<1>4. CASE ExecFails(p) \/ DryRun(p)
  <2>1. plan'[p] = <<>> /\ phase'[p] = "running" /\ outcome'[p] = outcome[p]
    BY <1>0, <1>4 DEF ExecFails, DryRun, ProcOK
  <2>2. Stops(p)
    BY <1>0, <2>1 DEF Stops
  <2>3. PhaseInv'
    BY <1>0, <1>1, <2>1 DEF PhaseInv, OnlyOf
  <2>4. ExecFails(p) => Breaks(p)
    BY <1>0, <1>2, <2>1, <2>2 DEF ExecFails, Breaks, Interrupted
  <2>5. DryRun(p) => QuietMove
    BY <1>0, <1>2, <2>2 DEF DryRun, QuietMove, StaysBut
  <2>6. QED BY <1>4, <2>3, <2>4, <2>5
<1>5. QED BY <1>3, <1>4

LEMMA Moves ==
  ASSUME IInv, PhaseInv, [Next]_vars
  PROVE  /\ PhaseInv'
         /\ \/ QuietMove
            \/ \E p \in Proc : PlansInstall(p) \/ PlansRemove(p) \/ Works(p) \/ Breaks(p)
<1>0. ProcOK /\ LockTypeOK /\ lpc \in [Proc -> LockPC]
  BY IInvParts DEF LockIInv, LockTypeOK
<1>1. ASSUME NEW p \in Proc, Invoke(p) PROVE PhaseInv' /\ QuietMove
  <2>1. PICK r : ReadBoot(p, r)
    BY <1>1 DEF Invoke
  <2>2. /\ OnlyOf(p) /\ plan'[p] = <<>> /\ outcome'[p] = "none"
        /\ seen'[p] = [ukis |-> Ukis, legacy |-> legacyEntry]
        /\ lpc'[p] = "out" /\ UNCHANGED <<diskVars, kernel>>
    BY <1>0, <2>1 DEF ReadBoot, ProcOK, OnlyOf, lockVars
  <2>3. Stops(p) /\ StaysBut(p)
    BY <2>2, OnlyOfStays, SMT DEF Stops
  <2>4. PhaseInv'
    BY <2>2 DEF PhaseInv, OnlyOf
  <2>5. QED BY <2>2, <2>3, <2>4 DEF QuietMove, StaysBut
<1>2. ASSUME NEW p \in Proc, Crash(p) PROVE PhaseInv' /\ (QuietMove \/ Breaks(p))
  <2>1. /\ End(p) /\ lpc'[p] = "out" /\ kernel' = kernel
        /\ \A q \in Proc \ {p} : lpc'[q] = lpc[q]
    BY <1>0, <1>2, LockOnly DEF Crash, LockCrash, CloseFd, LockStep, lockVars
  <2>2. PhaseInv' /\ Stops(p) /\ StaysBut(p) /\ phase'[p] = "idle"
    BY <1>0, <2>1, EndMove
  <2>3. Executing(p) => Breaks(p)
    BY <1>2, <2>1, <2>2 DEF Crash, Breaks
  <2>4. ~Executing(p) => QuietMove
    BY <1>2, <2>1, <2>2 DEF Crash, QuietMove, StaysBut
  <2>5. QED BY <2>2, <2>3, <2>4
<1>3. CASE Reboot
  <2>1. UNCHANGED <<diskVars, procVars, lpc>> /\ \A p \in Proc : phase[p] = "idle"
    BY <1>3 DEF Reboot, LockReboot
  <2>2. \A p \in Proc : Stops(p)
    BY <1>0, <2>1 DEF Stops, procVars, ProcOK, PhaseInv
  <2>3. PhaseInv'
    BY <2>1 DEF PhaseInv, procVars
  <2>4. QED BY <2>1, <2>2, <2>3 DEF QuietMove
<1>4. CASE UNCHANGED vars
  <2>1. UNCHANGED <<diskVars, procVars, lpc, kernel>>
    BY <1>4 DEF vars, lockVars
  <2>2. PhaseInv' /\ \A p \in Proc : Stays(p)
    BY <2>1 DEF PhaseInv, procVars, Stays
  <2>3. QED BY <2>1, <2>2 DEF QuietMove
<1>5. ASSUME NEW p \in Proc, ProcStep(p)
      PROVE  /\ PhaseInv'
             /\ QuietMove \/ PlansInstall(p) \/ PlansRemove(p) \/ Works(p) \/ Breaks(p)
  BY <1>1, <1>2, <1>5, PlanInstallMove, PlanRemoveMove, LockMoves, ExecMoves DEF ProcStep
<1>6. QED BY <1>3, <1>4, <1>5 DEF Next

(* Plans stay well formed.                                                 *)
LEMMA ShapeKept ==
  ASSUME IInv, PlanInv, [Next]_vars
  PROVE  PlanInv'
<1>0. ProcOK /\ PhaseInv
  BY IInvParts DEF PlanInv
<1>1. ASSUME NEW q \in Proc, Stays(q) PROVE PlanShape(q)'
  BY <1>1 DEF PlanInv, PlanShape, Stays
<1>2. ASSUME NEW q \in Proc, Stops(q) PROVE PlanShape(q)'
  BY <1>2, SmallTodo DEF PlanShape, Stops
<1>3. ASSUME NEW p \in Proc, StaysBut(p), PlanShape(p)' PROVE \A q \in Proc : PlanShape(q)'
  BY <1>1, <1>3 DEF StaysBut
<1>4. ASSUME NEW p \in Proc, PlansInstall(p) PROVE \A q \in Proc : PlanShape(q)'
  <2>1. PICK s \in EmptyStatus, a \in ActiveGroups(Groups(p)) :
        \E pre \in {resize_steps_for_slot(s), create_empty_slot(s)} :
          Planned(p, req[p].version, pre \o install_into_slot(s, req[p].version, is_legacy(a)))
    BY <1>4 DEF PlansInstall
  <2>2. PICK pre \in {resize_steps_for_slot(s), create_empty_slot(s)} :
          Planned(p, req[p].version, pre \o install_into_slot(s, req[p].version, is_legacy(a)))
    BY <2>1
  <2>3. /\ plan'[p] = pre \o install_into_slot(s, req[p].version, is_legacy(a))
        /\ req'[p].cmd = "install" /\ req'[p].version = req[p].version
        /\ req[p].version \in Version
    <3>1. req[p] \in [cmd : {"install"}, version : InstallArg]
      BY <1>0, <1>4, RequestFields DEF PlansInstall
    <3>2. QED BY <1>0, <1>4, <2>2, <3>1 DEF Planned, ProcOK, PlansInstall
  <2>4. Ordered(plan'[p]) /\ Todo(plan'[p]) \subseteq InstallSteps(s, req[p].version)
    BY <2>2, <2>3, InstallPlanShape
  <2>5. PlanShape(p)'
    BY <2>3, <2>4 DEF PlanShape
  <2>6. QED BY <1>3, <1>4, <2>5 DEF PlansInstall
<1>5. ASSUME NEW p \in Proc, PlansRemove(p) PROVE \A q \in Proc : PlanShape(q)'
  <2>1. PICK g \in Groups(p), v \in Version, n \in allocate_empty_identifier(Groups(p)) :
          Planned(p, v, remove_slot(g, v, n, seen[p].legacy))
    BY <1>5 DEF PlansRemove
  <2>2. /\ plan'[p] = remove_slot(g, v, n, seen[p].legacy)
        /\ req'[p].cmd = "remove" /\ req'[p].version = v
    <3>1. req[p] \in [cmd : {"remove"}, version : RemoveArg]
      BY <1>0, <1>5, RequestFields DEF PlansRemove
    <3>2. QED BY <1>0, <1>5, <2>1, <3>1 DEF Planned, ProcOK, PlansRemove
  <2>3. Empty(n) \in EmptyStatus
    BY SpareSlots
  <2>4. Ordered(plan'[p]) /\ Todo(plan'[p]) \subseteq RemoveSteps(v, n)
    BY <2>2, <2>3, RemovePlanShape
  <2>5. PlanShape(p)'
    BY <2>2, <2>3, <2>4 DEF PlanShape
  <2>6. QED BY <1>3, <1>5, <2>5 DEF PlansRemove
<1>6. ASSUME NEW p \in Proc, Works(p) PROVE \A q \in Proc : PlanShape(q)'
  <2>1. plan[p] \in Seq(SafeStep) /\ plan[p] # <<>> /\ plan'[p] = Tail(plan[p]) /\ req' = req
    BY <1>0, <1>6 DEF Works, Executing, NextStep, ProcOK
  <2>2. /\ Todo(plan'[p]) \subseteq Todo(plan[p])
        /\ Ordered(plan[p]) => Ordered(plan'[p])
    BY <2>1, TailTodo
  <2>3. PlanShape(p)'
    BY <2>1, <2>2 DEF PlanShape, PlanInv
  <2>4. QED BY <1>3, <1>6, <2>3 DEF Works
<1>7. ASSUME NEW p \in Proc, Breaks(p) PROVE \A q \in Proc : PlanShape(q)'
  BY <1>2, <1>3, <1>7 DEF Breaks
<1>8. QuietMove => \A q \in Proc : PlanShape(q)'
  BY <1>1, <1>2 DEF QuietMove
<1>9. QED BY <1>0, <1>4, <1>5, <1>6, <1>7, <1>8, Moves DEF PlanInv

-----------------------------------------------------------------------------
LEMMA StepFields ==
  ASSUME NEW st \in Step
  PROVE  /\ st.cmd \in {"lvcreate", "dd", "lvrename"} => st.kind \in Kind /\ st.at \in Status
         /\ st.cmd = "lvrename" => st.to \in Status
         /\ st.cmd \in {"dd", "install", "unlink"} => st.version \in Version
BY DEF Step

(* What a command may change, and what it achieves.                        *)
VolFrame(st) ==
  \A k \in Kind, s \in Status : vol'[k][s] # vol[k][s] =>
    /\ st.cmd \in {"lvcreate", "dd", "lvrename"} /\ st.kind = k
    /\ s = st.at \/ (st.cmd = "lvrename" /\ s = st.to)

UkiFrame(st) ==
  \A v \in Version : uki'[v] # uki[v] => st.cmd \in {"install", "unlink"} /\ st.version = v

LEMMA RunFrame ==
  ASSUME DiskTypeOK, NEW st \in Step, Runs(st)
  PROVE  VolFrame(st) /\ UkiFrame(st) /\ migrated \subseteq migrated'
<1> USE DEF VolFrame, UkiFrame
<1>1. CASE st.cmd \in {"lvcreate", "dd"}
  <2>1. st.kind \in Kind /\ st.at \in Status
    BY <1>1, StepFields
  <2>2. UNCHANGED <<uki, migrated>> /\ (UNCHANGED vol \/ \E c : SetVol(st.kind, st.at, c))
    BY <1>1 DEF Runs, Succeeds
  <2>3. CASE UNCHANGED vol
    BY <2>2, <2>3
  <2>4. ASSUME NEW c, SetVol(st.kind, st.at, c)
        PROVE  \A k \in Kind, s \in Status : vol'[k][s] # vol[k][s] => st.kind = k /\ s = st.at
    BY <2>1, <2>4 DEF SetVol, DiskTypeOK
  <2>5. QED BY <1>1, <2>2, <2>3, <2>4
<1>2. CASE st.cmd = "lvrename"
  <2>1. st.kind \in Kind /\ st.at \in Status /\ st.to \in Status
    BY <1>2, StepFields
  <2>2. /\ vol' = [vol EXCEPT ![st.kind] =
                     [@ EXCEPT ![st.to] = vol[st.kind][st.at], ![st.at] = Absent]]
        /\ UNCHANGED <<uki, migrated>>
    BY <1>2 DEF Runs, Succeeds
  <2>3. \A k \in Kind, s \in Status : vol'[k][s] # vol[k][s] =>
          st.kind = k /\ (s = st.at \/ s = st.to)
    BY <2>1, <2>2 DEF DiskTypeOK
  <2>4. QED BY <1>2, <2>2, <2>3
<1>3. CASE st.cmd \in {"install", "unlink"}
  <2>1. st.version \in Version
    BY <1>3, StepFields
  <2>2. UNCHANGED <<vol, migrated>> /\ \E f : uki' = [uki EXCEPT ![st.version] = f]
    BY <1>3 DEF Runs, Succeeds
  <2>3. QED BY <1>3, <2>1, <2>2 DEF DiskTypeOK
<1>4. CASE st.cmd \in {"lvresize", "flush", "unlink_legacy", "migrate"}
  <2>1. UNCHANGED <<vol, uki>> /\ migrated \subseteq migrated'
    BY <1>4 DEF Runs, Succeeds, diskVars
  <2>2. QED BY <2>1
<1>5. QED BY <1>1, <1>2, <1>3, <1>4 DEF Step

LEMMA RunEffect ==
  ASSUME DiskTypeOK, NEW st \in Step, Runs(st)
  PROVE  /\ st.cmd = "dd" => vol'[st.kind][st.at] \in {Absent, Torn, Image(st.version)}
         /\ st.cmd = "lvrename" => /\ vol[st.kind][st.at] # Absent
                                   /\ vol'[st.kind][st.to] = vol[st.kind][st.at]
                                   /\ vol'[st.kind][st.at] = Absent
         /\ st.cmd = "install" => uki'[st.version] = "whole"
         /\ st.cmd = "unlink" => uki'[st.version] = "none"
         /\ st.cmd = "migrate" => st.what \in migrated'
<1>1. CASE st.cmd = "dd"
  <2>1. st.kind \in Kind /\ st.at \in Status
    BY <1>1, StepFields
  <2>2. \/ UNCHANGED vol /\ vol[st.kind][st.at] = Absent
        \/ SetVol(st.kind, st.at, Image(st.version))
        \/ SetVol(st.kind, st.at, Torn)
    BY <1>1 DEF Runs, Succeeds
  <2>3. QED BY <1>1, <2>1, <2>2, SMT DEF SetVol, DiskTypeOK
<1>2. CASE st.cmd = "lvrename"
  <2>1. st.kind \in Kind /\ st.at \in Status /\ st.to \in Status
    BY <1>2, StepFields
  <2>2. /\ vol[st.kind][st.at] # Absent /\ vol[st.kind][st.to] = Absent
        /\ vol' = [vol EXCEPT ![st.kind] =
                     [@ EXCEPT ![st.to] = vol[st.kind][st.at], ![st.at] = Absent]]
    BY <1>2 DEF Runs, Succeeds, CanRun
  <2>3. QED BY <1>2, <2>1, <2>2 DEF DiskTypeOK
<1>3. CASE st.cmd \in {"install", "unlink"}
  BY <1>3, StepFields DEF Runs, Succeeds, DiskTypeOK
<1>4. CASE st.cmd = "migrate"
  BY <1>4 DEF Runs, Succeeds
<1>5. QED BY <1>1, <1>2, <1>3, <1>4

LEMMA InterruptFrame ==
  ASSUME DiskTypeOK, NEW st \in Step, Interrupted(st)
  PROVE  /\ \A k \in Kind, s \in Status : vol'[k][s] # vol[k][s] =>
              st.cmd = "dd" /\ s = st.at
         /\ \A v \in Version : uki'[v] # uki[v] => st.cmd = "install" /\ st.version = v
         /\ migrated' = migrated
         /\ \A k \in Kind, s \in Status : vol[k][s] # Absent => vol'[k][s] # Absent
<1>1. CASE UNCHANGED diskVars
  BY <1>1 DEF diskVars
<1>2. CASE /\ st.cmd = "dd" /\ SetVol(st.kind, st.at, Torn)
           /\ UNCHANGED <<uki, legacyEntry, migrated>>
  <2>1. st.kind \in Kind /\ st.at \in Status
    BY <1>2, StepFields
  <2>2. QED BY <1>2, <2>1, ContentDistinct DEF SetVol, DiskTypeOK
<1>3. CASE /\ st.cmd = "install" /\ uki' = [uki EXCEPT ![st.version] = "torn"]
           /\ UNCHANGED <<vol, legacyEntry, migrated>>
  <2>1. st.version \in Version
    BY <1>3, StepFields
  <2>2. QED BY <1>3, <2>1 DEF DiskTypeOK
<1>4. QED BY <1>1, <1>2, <1>3 DEF Interrupted

-----------------------------------------------------------------------------
(* The state of the plan whose next command runs.                          *)
LEMMA Working ==
  ASSUME IInv, PlanInv, NEW p \in Proc, Works(p)
  PROVE  LET h == Head(plan[p])
         IN  /\ h \in SafeStep /\ h \in Step /\ Runs(h) /\ DiskTypeOK
             /\ h \in Todo(plan[p]) /\ Todo(plan[p]) = {h} \cup Todo(plan'[p])
             /\ \A b \in Todo(plan'[p]) : MayFollow(h, b)
             /\ req'[p] = req[p] /\ kernel' = kernel /\ plan[p] # <<>>
             /\ lpc' = lpc /\ lpc[p] = "held"
<1>1. /\ ProcOK /\ DiskTypeOK /\ plan[p] \in Seq(SafeStep) /\ plan[p] # <<>>
      /\ plan'[p] = Tail(plan[p]) /\ req' = req /\ kernel' = kernel
      /\ lpc' = lpc /\ lpc[p] = "held"
  BY IInvParts DEF Works, Executing, NextStep, ProcOK, DiskOK, lockVars
<1>2. Ordered(plan[p])
  BY DEF PlanInv, PlanShape
<1>3. Head(plan[p]) \in SafeStep /\ Head(plan[p]) \in Step
  BY <1>1, TailTodo, SafeIsStep
<1>4. QED BY <1>1, <1>2, <1>3, TailTodo DEF Works

(* Before the first race an invocation that does not run the command does  *)
(* not hold the lock either, and keeps what it has.                        *)
LEMMA OthersKeep ==
  ASSUME NEW q \in Proc, Stays(q), lpc[q] # "held", kernel' = kernel,
         migrated \subseteq migrated', WritesFirst(q), InstallOnCourse(q)
  PROVE  WritesFirst(q)' /\ InstallOnCourse(q)'
<1>1. plan'[q] = plan[q] /\ req'[q] = req[q] /\ outcome'[q] = outcome[q]
  BY DEF Stays
<1>2. OnCourse(q, "install")' => OnCourse(q, "install")
  BY <1>1 DEF OnCourse, Stays
<1>3. WritesFirst(q)'
  BY <1>1, SMT DEF WritesFirst, PendingOn
<1>4. InstallOnCourse(q)'
  BY <1>1, <1>2 DEF InstallOnCourse, Pending, PendingOn
<1>5. QED BY <1>3, <1>4

LEMMA StillKeep ==
  ASSUME NEW q \in Proc, Stays(q), UNCHANGED <<diskVars, kernel>>,
         WritesFirst(q), InstallOnCourse(q)
  PROVE  WritesFirst(q)' /\ InstallOnCourse(q)'
<1>1. plan'[q] = plan[q] /\ req'[q] = req[q] /\ outcome'[q] = outcome[q]
  BY DEF Stays
<1>2. CASE plan[q] = <<>>
  <2>1. Todo(plan'[q]) = {}
    BY <1>1, <1>2, SmallTodo
  <2>2. OnCourse(q, "install")' => lpc'[q] = "held" /\ lpc[q] = "held" /\ OnCourse(q, "install")
    BY <1>1, <1>2 DEF OnCourse, Stays
  <2>3. QED
    BY <1>1, <2>1, <2>2 DEF WritesFirst, InstallOnCourse, Pending, PendingOn, diskVars
<1>3. CASE plan[q] # <<>>
  <2>1. lpc[q] = "held" => lpc'[q] = "held"
    BY <1>3 DEF Stays
  <2>2. OnCourse(q, "install")' => OnCourse(q, "install")
    BY <1>1, <1>3 DEF OnCourse
  <2>3. WritesFirst(q)'
    BY <1>1, <2>1 DEF WritesFirst, PendingOn, diskVars
  <2>4. InstallOnCourse(q)'
    BY <1>1, <2>1, <2>2 DEF InstallOnCourse, Pending, PendingOn, diskVars
  <2>5. QED BY <2>3, <2>4
<1>4. QED BY <1>2, <1>3

LEMMA StoppedKeeps ==
  ASSUME NEW q \in Proc, Stops(q)
  PROVE  WritesFirst(q)' /\ InstallOnCourse(q)' /\ RemoveOnCourse(q)'
<1>1. Todo(plan'[q]) = {}
  BY SmallTodo DEF Stops
<1>2. QED
  BY <1>1 DEF Stops, WritesFirst, InstallOnCourse, RemoveOnCourse, OnCourse

(* A new install plan has everything before it.                            *)
LEMMA NewInstall ==
  ASSUME IInv, PlanInv, NEW p \in Proc, PlansInstall(p)
  PROVE  WritesFirst(p)' /\ InstallOnCourse(p)'
<1>0. ProcOK
  BY IInvParts
<1> DEFINE v == req[p].version
<1>1. PICK s \in EmptyStatus, a \in ActiveGroups(Groups(p)) :
      \E pre \in {resize_steps_for_slot(s), create_empty_slot(s)} :
        /\ kernel = NoRevision => is_legacy(a)
        /\ Planned(p, v, pre \o install_into_slot(s, v, is_legacy(a)))
  BY DEF PlansInstall
<1>2. PICK pre \in {resize_steps_for_slot(s), create_empty_slot(s)} :
        /\ kernel = NoRevision => is_legacy(a)
        /\ Planned(p, v, pre \o install_into_slot(s, v, is_legacy(a)))
  BY <1>1
<1>3. v \in Version /\ kernel' = kernel
  BY DEF PlansInstall
<1>4. plan'[p] = pre \o install_into_slot(s, v, is_legacy(a))
  BY <1>0, <1>2 DEF Planned, ProcOK
<1>5. /\ Todo(plan'[p]) \subseteq InstallSteps(s, v)
      /\ \A k \in Kind : /\ Dd(k, s, v) \in Todo(plan'[p])
                         /\ LvRename(k, s, Used(v)) \in Todo(plan'[p])
      /\ InstallUki(v) \in Todo(plan'[p])
      /\ is_legacy(a) => \A m \in Migration : Migrate(m) \in Todo(plan'[p])
  BY <1>3, <1>4, InstallPlanShape
<1>6. /\ \A k \in Kind : PendingOn(p, "dd", k)' /\ PendingOn(p, "lvrename", k)'
      /\ Pending(p, "install")'
      /\ kernel' = NoRevision => \A m \in Migration :
           \E st \in Todo(plan'[p]) : st.cmd = "migrate" /\ st.what = m
  <2>1. \A k \in Kind : PendingOn(p, "dd", k)'
    BY <1>5 DEF PendingOn, Dd
  <2>2. \A k \in Kind : PendingOn(p, "lvrename", k)'
    BY <1>5 DEF PendingOn, LvRename
  <2>3. Pending(p, "install")'
    BY <1>5 DEF Pending, InstallUki
  <2>4. \A m \in Migration : Migrate(m).cmd = "migrate" /\ Migrate(m).what = m
    BY DEF Migrate
  <2>5. QED BY <1>2, <1>3, <1>5, <2>1, <2>2, <2>3, <2>4
<1>7. \A st \in Todo(plan'[p]) : st.cmd = "lvrename" => st.kind \in Kind
  BY <1>5, StepFields DEF InstallSteps
<1>8. QED BY <1>6, <1>7 DEF WritesFirst, InstallOnCourse

(* A command of an install brings it nearer to its end.                    *)
LEMMA InstallAdvances ==
  ASSUME IInv, PlanInv, NEW p \in Proc, Works(p), WritesFirst(p), InstallOnCourse(p)
  PROVE  WritesFirst(p)' /\ InstallOnCourse(p)'
<1> DEFINE h == Head(plan[p])
           v == req[p].version
<1>0. /\ h \in Step /\ Runs(h) /\ DiskTypeOK
      /\ h \in Todo(plan[p]) /\ Todo(plan[p]) = {h} \cup Todo(plan'[p])
      /\ \A b \in Todo(plan'[p]) : MayFollow(h, b)
      /\ req'[p] = req[p] /\ kernel' = kernel /\ plan[p] # <<>>
      /\ lpc'[p] = "held"
  BY Working
<1> HIDE DEF h
<1>1. SUFFICES ASSUME req[p].cmd = "install" PROVE WritesFirst(p)' /\ InstallOnCourse(p)'
  BY <1>0 DEF WritesFirst, InstallOnCourse, OnCourse
<1>2. PICK s \in EmptyStatus : Todo(plan[p]) \subseteq InstallSteps(s, v)
  BY <1>0, <1>1 DEF PlanInv, PlanShape
<1>3. v \in Version /\ s \in Status /\ Used(v) \in Status /\ s # Used(v)
  BY <1>0, <1>1, StatusDistinct DEF PlanInv, PlanShape
<1>4. /\ h.cmd \in {"lvcreate", "dd", "lvrename"} => h.at = s
      /\ h.cmd \in {"dd", "install"} => h.version = v
      /\ h.cmd = "lvrename" => h.to = Used(v)
      /\ h.cmd # "unlink"
  BY <1>0, <1>2 DEF InstallSteps
<1>5. /\ \A k \in Kind, t \in Status : vol'[k][t] # vol[k][t] =>
           /\ h.cmd \in {"lvcreate", "dd", "lvrename"} /\ h.kind = k
           /\ t = h.at \/ (h.cmd = "lvrename" /\ t = h.to)
      /\ \A w \in Version : uki'[w] # uki[w] =>
           h.cmd \in {"install", "unlink"} /\ h.version = w
      /\ migrated \subseteq migrated'
  <2>1. VolFrame(h) /\ UkiFrame(h) /\ migrated \subseteq migrated'
    BY <1>0, RunFrame
  <2>2. QED BY <2>1 DEF VolFrame, UkiFrame
<1>6. /\ h.cmd = "dd" => vol'[h.kind][h.at] \in {Absent, Torn, Image(v)}
      /\ h.cmd = "lvrename" => /\ vol[h.kind][h.at] # Absent
                               /\ vol'[h.kind][h.to] = vol[h.kind][h.at]
                               /\ vol'[h.kind][h.at] = Absent
      /\ h.cmd = "install" => uki'[v] = "whole"
      /\ h.cmd = "migrate" => h.what \in migrated'
  BY <1>0, <1>4, RunEffect
<1>7. WritesFirst(p)'
  <2>1. SUFFICES ASSUME NEW st \in Todo(plan'[p]), st.cmd = "lvrename", ~PendingOn(p, "dd", st.kind)'
                 PROVE  /\ ~PendingOn(p, "lvcreate", st.kind)'
                        /\ vol'[st.kind][st.at] \in {Absent, Torn, Image(v)}
    BY <1>0 DEF WritesFirst
  <2>2. st \in Todo(plan[p]) /\ st.kind \in Kind /\ st.at = s /\ MayFollow(h, st)
    BY <1>0, <1>2, <2>1, StepFields DEF InstallSteps
  <2>3. ~(h.cmd = "lvrename" /\ h.kind = st.kind)
    BY <2>1, <2>2 DEF MayFollow
  <2>4. CASE h.cmd = "dd" /\ h.kind = st.kind
    <3>1. ~PendingOn(p, "lvcreate", st.kind)'
      BY <1>0, <2>4 DEF PendingOn, MayFollow, Misplaced
    <3>2. QED BY <1>4, <1>6, <2>2, <2>4, <3>1
  <2>5. CASE ~(h.cmd = "dd" /\ h.kind = st.kind)
    <3>1. ~PendingOn(p, "dd", st.kind)
      BY <1>0, <2>1, <2>5 DEF PendingOn
    <3>2. /\ ~PendingOn(p, "lvcreate", st.kind)
          /\ vol[st.kind][st.at] \in {Absent, Torn, Image(v)}
      BY <1>1, <2>1, <2>2, <3>1 DEF WritesFirst
    <3>3. ~PendingOn(p, "lvcreate", st.kind)' /\ ~(h.cmd = "lvcreate" /\ h.kind = st.kind)
      BY <1>0, <3>2 DEF PendingOn
    <3>4. vol'[st.kind][s] = vol[st.kind][s]
      BY <1>3, <1>5, <2>2, <2>3, <2>5, <3>3
    <3>5. QED BY <2>2, <3>2, <3>3, <3>4
  <2>6. QED BY <2>4, <2>5
<1>8. InstallOnCourse(p)'
  <2>1. OnCourse(p, "install")
    BY <1>0, <1>1 DEF OnCourse
  <2>2. ASSUME NEW k \in Kind
        PROVE  PendingOn(p, "lvrename", k)' \/ vol'[k][Used(v)] # Absent
    <3>1. CASE h.cmd = "lvrename" /\ h.kind = k
      BY <1>4, <1>6, <3>1
    <3>2. CASE ~(h.cmd = "lvrename" /\ h.kind = k)
      <4>1. vol'[k][Used(v)] = vol[k][Used(v)]
        BY <1>3, <1>4, <1>5, <3>2
      <4>2. PendingOn(p, "lvrename", k) => PendingOn(p, "lvrename", k)'
        BY <1>0, <3>2 DEF PendingOn
      <4>3. QED BY <2>1, <4>1, <4>2 DEF InstallOnCourse
    <3>3. QED BY <3>1, <3>2
  <2>3. Pending(p, "install")' \/ uki'[v] = "whole"
    <3>1. CASE h.cmd = "install"
      BY <1>6, <3>1
    <3>2. CASE h.cmd # "install"
      <4>1. uki'[v] = uki[v]
        BY <1>3, <1>4, <1>5, <3>2
      <4>2. Pending(p, "install") => Pending(p, "install")'
        BY <1>0, <3>2 DEF Pending
      <4>3. QED BY <2>1, <4>1, <4>2 DEF InstallOnCourse
    <3>3. QED BY <3>1, <3>2
  <2>4. ASSUME kernel' = NoRevision, NEW m \in Migration
        PROVE  (\E st \in Todo(plan'[p]) : st.cmd = "migrate" /\ st.what = m) \/ m \in migrated'
    <3>1. (\E st \in Todo(plan[p]) : st.cmd = "migrate" /\ st.what = m) \/ m \in migrated
      BY <1>0, <2>1, <2>4 DEF InstallOnCourse
    <3>2. QED BY <1>0, <1>5, <1>6, <3>1
  <2>5. QED BY <1>0, <2>2, <2>3, <2>4 DEF InstallOnCourse
<1>9. QED BY <1>7, <1>8

-----------------------------------------------------------------------------
LEMMA InitWork == Init => PlanInv /\ WorkInv /\ AloneInv
<1> SUFFICES ASSUME Init PROVE PlanInv /\ WorkInv /\ AloneInv
  OBVIOUS
<1>1. PICK v \in Version :
       /\ vol = [k \in Kind |-> [s \in Status |->
                   IF s = Used(v) THEN Image(v)
                   ELSE IF s = EmptyLegacy THEN Blank ELSE Absent]]
       /\ uki = [w \in Version |-> IF w = v /\ HasHash(v) THEN "whole" ELSE "none"]
  BY DEF Init
<1>2. \A p \in Proc : /\ plan[p] = <<>> /\ outcome[p] = "none" /\ phase[p] = "idle"
                      /\ lpc[p] = "out" /\ Todo(plan[p]) = {} /\ Ordered(plan[p])
  BY SmallTodo DEF Init, LockInit
<1>3. ~raced
  BY DEF Init, LockInit
<1>4. PlanInv
  BY <1>2 DEF PlanInv, PhaseInv, PlanShape
<1>5. \A k \in Kind, w \in Version : vol[k][Used(w)] = IF w = v THEN Image(v) ELSE Absent
  BY <1>1, StatusDistinct DEF EmptyStatus
<1>6. SlotHoldsItsImage
  BY <1>5 DEF SlotHoldsItsImage
<1>7. BootEntriesBacked
  BY <1>1, <1>5, ContentDistinct DEF BootEntriesBacked, Ukis
<1>8. QED
  BY <1>2, <1>3, <1>4, <1>6, <1>7
     DEF WorkInv, AloneInv, WritesFirst, InstallOnCourse, RemoveOnCourse, OnCourse

(* raced is for ever, and comes with two invocations at the lock.          *)
LEMMA RacedStep ==
  ASSUME [Next]_vars
  PROVE  /\ ~raced' => ~raced
         /\ raced' /\ ~raced => \E p, q \in Proc : lpc[p] = "held" /\ lpc[q] = "opened"
<1>1. [LockNext]_lockVars
  BY NextIsLockStep
<1>2. ASSUME NEW p \in Proc, LockStep(p)
      PROVE  raced' = raced \/ (raced' = (raced \/ \E q \in Proc : lpc[q] = "opened") /\ lpc[p] = "held")
  BY <1>2 DEF LockStep, OpenLock, TryLock, LockRefused, WriteOwner, WriteOwnerFails,
              DropUnlink, DropClose, LockCrash, lockVars
<1>3. CASE LockReboot \/ UNCHANGED lockVars
  BY <1>3, SMT DEF LockReboot, lockVars
<1>4. QED BY <1>1, <1>2, <1>3 DEF LockNext

(* The slots that carry a version's name: nothing but a finished install   *)
(* makes one.                                                              *)
LEMMA SlotsHold ==
  ASSUME IInv, PlanInv, NEW p \in Proc, Works(p), WritesFirst(p),
         \A k \in Kind, v \in Version : vol[k][Used(v)] \in {Absent, Torn, Image(v)}
  PROVE  \A k \in Kind, v \in Version : vol'[k][Used(v)] \in {Absent, Torn, Image(v)}
<1> DEFINE h == Head(plan[p])
<1>0. /\ h \in SafeStep /\ h \in Step /\ Runs(h) /\ DiskTypeOK
      /\ h \in Todo(plan[p]) /\ Todo(plan[p]) = {h} \cup Todo(plan'[p])
      /\ \A b \in Todo(plan'[p]) : MayFollow(h, b)
      /\ plan[p] # <<>>
  BY Working
<1> HIDE DEF h
<1>1. SUFFICES ASSUME NEW k \in Kind, NEW v \in Version, vol'[k][Used(v)] # vol[k][Used(v)]
               PROVE  vol'[k][Used(v)] \in {Absent, Torn, Image(v)}
  OBVIOUS
<1>2. /\ h.cmd \in {"lvcreate", "dd", "lvrename"} /\ h.kind = k
      /\ Used(v) = h.at \/ (h.cmd = "lvrename" /\ Used(v) = h.to)
  <2>1. Used(v) \in Status
    BY StatusDistinct
  <2>2. VolFrame(h)
    BY <1>0, RunFrame
  <2>3. QED BY <1>1, <2>1, <2>2 DEF VolFrame
<1>3. h.cmd = "lvrename"
  BY <1>0, <1>2, StatusDistinct DEF SafeStep
<1>4. /\ vol'[h.kind][h.to] = vol[h.kind][h.at]
      /\ vol'[h.kind][h.at] = Absent
  BY <1>0, <1>3, RunEffect
<1>5. CASE Used(v) = h.at
  BY <1>2, <1>4, <1>5
<1>6. CASE Used(v) = h.to
  <2>1. CASE req[p].cmd = "install"
    <3>1. h.to = Used(req[p].version) /\ req[p].version \in Version
      BY <1>0, <1>3, <2>1 DEF PlanInv, PlanShape, InstallSteps
    <3>2. v = req[p].version
      BY <1>6, <3>1, StatusDistinct
    <3>3. ~PendingOn(p, "dd", h.kind)
      BY <1>0, <1>3 DEF PendingOn, MayFollow, Misplaced
    <3>4. vol[h.kind][h.at] \in {Absent, Torn, Image(v)}
      BY <1>0, <1>3, <2>1, <3>2, <3>3 DEF WritesFirst
    <3>5. QED BY <1>2, <1>4, <1>6, <3>4
  <2>2. CASE req[p].cmd # "install"
    <3>1. h.to \in EmptyStatus
      BY <1>0, <1>3, <2>2 DEF PlanInv, PlanShape, RemoveSteps
    <3>2. QED BY <1>6, <3>1, StatusDistinct
  <2>3. QED BY <2>1, <2>2
<1>7. QED BY <1>2, <1>5, <1>6

(* The lock keeps installs whole.                                          *)
LEMMA WorkKept ==
  ASSUME IInv, PlanInv, WorkInv, [Next]_vars
  PROVE  WorkInv'
<1>1. SUFFICES ASSUME ~raced' PROVE WorkInv'
  BY DEF WorkInv
<1>2. /\ ~raced /\ \A q \in Proc : WritesFirst(q) /\ InstallOnCourse(q)
      /\ \A k \in Kind, v \in Version : vol[k][Used(v)] \in {Absent, Torn, Image(v)}
  BY <1>1, RacedStep DEF WorkInv, SlotHoldsItsImage
<1>3. SUFFICES /\ \A q \in Proc : WritesFirst(q)' /\ InstallOnCourse(q)'
               /\ \A k \in Kind, v \in Version : vol'[k][Used(v)] \in {Absent, Torn, Image(v)}
  BY DEF WorkInv, SlotHoldsItsImage
<1>4. \A p, q \in Proc : lpc[p] = "held" /\ lpc[q] = "held" => p = q
  BY <1>2 DEF IInv, LockIInv, ExclusiveUnlessRaced, MutualExclusion
<1>5. CASE QuietMove
  <2>1. ASSUME NEW q \in Proc PROVE WritesFirst(q)' /\ InstallOnCourse(q)'
    BY <1>2, <1>5, StillKeep, StoppedKeeps DEF QuietMove
  <2>2. vol' = vol
    BY <1>5 DEF QuietMove, diskVars
  <2>3. QED BY <1>2, <2>1, <2>2
<1>6. ASSUME NEW p \in Proc, StaysBut(p), UNCHANGED <<diskVars, kernel>>,
             WritesFirst(p)' /\ InstallOnCourse(p)'
      PROVE  /\ \A q \in Proc : WritesFirst(q)' /\ InstallOnCourse(q)'
             /\ \A k \in Kind, v \in Version : vol'[k][Used(v)] \in {Absent, Torn, Image(v)}
  <2>1. ASSUME NEW q \in Proc \ {p} PROVE WritesFirst(q)' /\ InstallOnCourse(q)'
    BY <1>2, <1>6, StillKeep DEF StaysBut
  <2>2. vol' = vol
    BY <1>6 DEF diskVars
  <2>3. QED BY <1>2, <1>6, <2>1, <2>2
<1>7. ASSUME NEW p \in Proc, PlansInstall(p)
      PROVE  /\ \A q \in Proc : WritesFirst(q)' /\ InstallOnCourse(q)'
             /\ \A k \in Kind, v \in Version : vol'[k][Used(v)] \in {Absent, Torn, Image(v)}
  BY <1>6, <1>7, NewInstall DEF PlansInstall
<1>8. ASSUME NEW p \in Proc, PlansRemove(p)
      PROVE  /\ \A q \in Proc : WritesFirst(q)' /\ InstallOnCourse(q)'
             /\ \A k \in Kind, v \in Version : vol'[k][Used(v)] \in {Absent, Torn, Image(v)}
  <2>1. req'[p].cmd = "remove"
    <3>1. ProcOK /\ req[p].cmd = "remove"
      BY <1>8, IInvParts DEF PlansRemove
    <3>2. req[p] \in [cmd : {"remove"}, version : RemoveArg]
      BY <3>1, SMT DEF ProcOK, Request, NoReq
    <3>3. QED BY <1>8, <3>1, <3>2, SMT DEF PlansRemove, Planned, ProcOK
  <2>2. WritesFirst(p)' /\ InstallOnCourse(p)'
    BY <2>1 DEF WritesFirst, InstallOnCourse, OnCourse
  <2>3. QED BY <1>6, <1>8, <2>2 DEF PlansRemove
<1>9. ASSUME NEW p \in Proc, StaysBut(p), lpc[p] = "held", kernel' = kernel,
             migrated \subseteq migrated', NEW q \in Proc \ {p}
      PROVE  WritesFirst(q)' /\ InstallOnCourse(q)'
  <2>1. lpc[q] # "held" /\ Stays(q)
    BY <1>4, <1>9 DEF StaysBut
  <2>2. QED BY <1>2, <1>9, <2>1, OthersKeep
<1>10. ASSUME NEW p \in Proc, Works(p)
       PROVE  /\ \A q \in Proc : WritesFirst(q)' /\ InstallOnCourse(q)'
              /\ \A k \in Kind, v \in Version : vol'[k][Used(v)] \in {Absent, Torn, Image(v)}
  <2>1. WritesFirst(p)' /\ InstallOnCourse(p)'
    BY <1>2, <1>10, InstallAdvances
  <2>2. \A k \in Kind, v \in Version : vol'[k][Used(v)] \in {Absent, Torn, Image(v)}
    BY <1>2, <1>10, SlotsHold
  <2>3. StaysBut(p) /\ lpc[p] = "held" /\ kernel' = kernel /\ migrated \subseteq migrated'
    BY <1>10, Working, RunFrame DEF Works
  <2>4. QED BY <1>9, <2>1, <2>2, <2>3
<1>11. ASSUME NEW p \in Proc, Breaks(p)
       PROVE  /\ \A q \in Proc : WritesFirst(q)' /\ InstallOnCourse(q)'
              /\ \A k \in Kind, v \in Version : vol'[k][Used(v)] \in {Absent, Torn, Image(v)}
  <2>1. /\ DiskTypeOK /\ Head(plan[p]) \in SafeStep /\ Head(plan[p]) \in Step
        /\ Interrupted(Head(plan[p])) /\ lpc[p] = "held" /\ StaysBut(p) /\ kernel' = kernel
    BY <1>11, IInvParts, HeadSafe DEF Breaks, DiskOK, SafeStep, Executing
  <2>2. WritesFirst(p)' /\ InstallOnCourse(p)'
    BY <1>11, StoppedKeeps DEF Breaks
  <2>3. \A k \in Kind, v \in Version : vol'[k][Used(v)] = vol[k][Used(v)]
    BY <2>1, InterruptFrame, StatusDistinct, SMT DEF SafeStep
  <2>4. migrated \subseteq migrated'
    BY <2>1, InterruptFrame
  <2>5. QED BY <1>2, <1>9, <2>1, <2>2, <2>3, <2>4
<1>12. QED BY <1>5, <1>7, <1>8, <1>10, <1>11, Moves DEF PlanInv

-----------------------------------------------------------------------------
(* A removal planned on what is really there.                              *)
LEMMA NewRemoval ==
  ASSUME IInv, AloneInv, NEW p \in Proc, PlansRemove(p)
  PROVE  RemoveOnCourse(p)'
<1>0. ProcOK /\ seen[p].ukis = Ukis
  BY IInvParts DEF AloneInv, PlansRemove
<1>1. PICK g \in Groups(p), v \in Version, n \in allocate_empty_identifier(Groups(p)) :
        /\ g.status = Used(v)
        /\ Planned(p, v, remove_slot(g, v, n, seen[p].legacy))
  BY DEF PlansRemove, has_version
<1>2. /\ plan'[p] = remove_slot(g, v, n, seen[p].legacy)
      /\ req'[p].version = v /\ UNCHANGED diskVars
  <2>1. req[p] \in [cmd : {"remove"}, version : RemoveArg]
    BY <1>0, RequestFields DEF PlansRemove
  <2>2. QED BY <1>0, <1>1, <2>1 DEF Planned, ProcOK, PlansRemove
<1>3. Empty(n) \in EmptyStatus /\ Empty(n) \in Status
  BY SpareSlots, StatusDistinct
<1>4. /\ Todo(plan'[p]) \subseteq RemoveSteps(v, n)
      /\ g.boot => UnlinkUki(v) \in Todo(plan'[p])
      /\ \A k \in g.kinds \cap Kind : LvRename(k, Used(v), Empty(n)) \in Todo(plan'[p])
  BY <1>2, <1>3, RemovePlanShape
<1>5. uki[v] # "none" => \A k \in Kind : <<k, Used(v)>> \in Present
  BY StatusDistinct DEF AloneInv, BootEntriesBacked, Ukis, Present
<1>6. (uki[v] # "none" => g.boot) /\ g.kinds = KindsOf(Present, Used(v))
  <2>1. ASSUME NEW s \in Status,
               g = [status |-> s, kinds |-> KindsOf(Present, s),
                    boot |-> "root" \in KindsOf(Present, s) /\ \E u \in seen[p].ukis : s = Used(u)]
        PROVE  (uki[v] # "none" => g.boot) /\ g.kinds = KindsOf(Present, Used(v))
    <3>1. s = Used(v)
      BY <1>1, <2>1
    <3>2. g.kinds = KindsOf(Present, s)
      BY <2>1
    <3>3. uki[v] # "none" => "root" \in KindsOf(Present, s) /\ \E u \in seen[p].ukis : s = Used(u)
      BY <1>0, <1>5, <3>1 DEF KindsOf, Kind, Ukis
    <3>4. uki[v] # "none" => g.boot
      BY <2>1, <3>3
    <3>5. QED BY <3>1, <3>2, <3>4
  <2>2. ASSUME NEW u \in seen[p].ukis, <<"root", Used(u)>> \notin Present,
               g = [status |-> Used(u), kinds |-> {}, boot |-> TRUE]
        PROVE  FALSE
    <3>1. g.status = Used(u)
      BY <2>2
    <3>2. u = v /\ uki[v] # "none"
      BY <1>0, <1>1, <3>1, StatusDistinct DEF Ukis
    <3>3. QED BY <1>5, <2>2, <3>2 DEF Kind
  <2>3. QED BY <2>1, <2>2 DEF Groups, group_volumes
<1>7. \A k \in Kind : vol[k][Used(v)] # Absent => k \in g.kinds
  BY <1>6, StatusDistinct DEF KindsOf, Present
<1>8. \A k \in Kind : vol[k][Empty(n)] = Absent
  <2>1. SUFFICES ASSUME NEW k \in Kind, vol[k][Empty(n)] # Absent PROVE FALSE
    OBVIOUS
  <2>2. KindsOf(Present, Empty(n)) # {}
    BY <1>3, <2>1 DEF KindsOf, Present
  <2> DEFINE e == [status |-> Empty(n), kinds |-> KindsOf(Present, Empty(n)),
                   boot |-> "root" \in KindsOf(Present, Empty(n))
                            /\ \E u \in seen[p].ukis : Empty(n) = Used(u)]
  <2>3. e \in Groups(p) /\ e.status = Empty(n)
    BY <1>3, <2>2 DEF Groups, group_volumes
  <2> HIDE DEF e
  <2>4. QED BY <2>3 DEF allocate_empty_identifier
<1>9. Pending(p, "unlink")' \/ uki'[v] = "none"
  <2>1. UnlinkUki(v).cmd = "unlink"
    BY DEF UnlinkUki
  <2>2. QED BY <1>2, <1>4, <1>6, <2>1 DEF Pending, diskVars
<1>10. \A k \in Kind : PendingOn(p, "lvrename", k)' \/ vol'[k][Used(v)] = Absent
  <2>1. \A k \in Kind : /\ LvRename(k, Used(v), Empty(n)).cmd = "lvrename"
                        /\ LvRename(k, Used(v), Empty(n)).kind = k
    BY DEF LvRename
  <2>2. QED BY <1>2, <1>4, <1>7, <2>1 DEF PendingOn, diskVars
<1>11. \A st \in Todo(plan'[p]) : st.cmd = "lvrename" => vol'[st.kind][st.to] = Absent
  BY <1>2, <1>4, <1>8, StepFields DEF RemoveSteps, diskVars
<1>12. QED BY <1>2, <1>9, <1>10, <1>11 DEF RemoveOnCourse

(* A command of a removal brings it nearer to its end.                     *)
LEMMA RemoveAdvances ==
  ASSUME IInv, PlanInv, NEW p \in Proc, Works(p), RemoveOnCourse(p)
  PROVE  RemoveOnCourse(p)'
<1> DEFINE h == Head(plan[p])
           v == req[p].version
<1>0. /\ h \in Step /\ Runs(h) /\ DiskTypeOK
      /\ h \in Todo(plan[p]) /\ Todo(plan[p]) = {h} \cup Todo(plan'[p])
      /\ \A b \in Todo(plan'[p]) : MayFollow(h, b)
      /\ req'[p] = req[p] /\ plan[p] # <<>>
  BY Working
<1> HIDE DEF h
<1>1. SUFFICES ASSUME req[p].cmd = "remove" PROVE RemoveOnCourse(p)'
  BY <1>0 DEF RemoveOnCourse, OnCourse
<1>2. PICK n : Empty(n) \in EmptyStatus /\ Todo(plan[p]) \subseteq RemoveSteps(v, n)
  BY <1>0, <1>1 DEF PlanInv, PlanShape
<1>3. v \in Version /\ Used(v) \in Status /\ Empty(n) \in Status /\ Empty(n) # Used(v)
  BY <1>0, <1>1, <1>2, StatusDistinct DEF PlanInv, PlanShape
<1>4. /\ h.cmd \in {"unlink", "unlink_legacy", "lvrename"}
      /\ h.cmd = "unlink" => h.version = v
      /\ h.cmd = "lvrename" => h.at = Used(v) /\ h.to = Empty(n)
  BY <1>0, <1>2 DEF RemoveSteps
<1>5. /\ \A k \in Kind, t \in Status : vol'[k][t] # vol[k][t] => h.cmd = "lvrename" /\ h.kind = k
      /\ \A w \in Version : uki'[w] # uki[w] => h.cmd = "unlink"
  <2>1. /\ \A k \in Kind, t \in Status : vol'[k][t] # vol[k][t] =>
             h.cmd \in {"lvcreate", "dd", "lvrename"} /\ h.kind = k
        /\ \A w \in Version : uki'[w] # uki[w] => h.cmd \in {"install", "unlink"}
    <3>1. VolFrame(h) /\ UkiFrame(h)
      BY <1>0, RunFrame
    <3>2. QED BY <3>1 DEF VolFrame, UkiFrame
  <2>2. QED BY <1>4, <2>1
<1>6. /\ h.cmd = "lvrename" => vol'[h.kind][Used(v)] = Absent
      /\ h.cmd = "unlink" => uki'[v] = "none"
  BY <1>0, <1>4, RunEffect
<1>7. OnCourse(p, "remove")
  BY <1>0, <1>1 DEF OnCourse
<1>8. Pending(p, "unlink")' \/ uki'[v] = "none"
  <2>1. CASE h.cmd = "unlink"
    BY <1>6, <2>1
  <2>2. CASE h.cmd # "unlink"
    <3>1. uki'[v] = uki[v]
      BY <1>3, <1>5, <2>2
    <3>2. Pending(p, "unlink") => Pending(p, "unlink")'
      BY <1>0, <2>2 DEF Pending
    <3>3. QED BY <1>7, <3>1, <3>2 DEF RemoveOnCourse
  <2>3. QED BY <2>1, <2>2
<1>9. ASSUME NEW k \in Kind PROVE PendingOn(p, "lvrename", k)' \/ vol'[k][Used(v)] = Absent
  <2>1. CASE h.cmd = "lvrename" /\ h.kind = k
    BY <1>6, <2>1
  <2>2. CASE ~(h.cmd = "lvrename" /\ h.kind = k)
    <3>1. vol'[k][Used(v)] = vol[k][Used(v)]
      BY <1>3, <1>5, <2>2
    <3>2. PendingOn(p, "lvrename", k) => PendingOn(p, "lvrename", k)'
      BY <1>0, <2>2 DEF PendingOn
    <3>3. QED BY <1>7, <3>1, <3>2 DEF RemoveOnCourse
  <2>3. QED BY <2>1, <2>2
<1>10. ASSUME NEW st \in Todo(plan'[p]), st.cmd = "lvrename"
       PROVE  vol'[st.kind][st.to] = Absent
  <2>1. st \in Todo(plan[p]) /\ st.kind \in Kind /\ st.to = Empty(n) /\ MayFollow(h, st)
    BY <1>0, <1>2, <1>10, StepFields DEF RemoveSteps
  <2>2. ~(h.cmd = "lvrename" /\ h.kind = st.kind)
    BY <1>10, <2>1 DEF MayFollow
  <2>3. vol'[st.kind][Empty(n)] = vol[st.kind][Empty(n)]
    BY <1>3, <1>5, <2>1, <2>2
  <2>4. vol[st.kind][st.to] = Absent
    BY <1>7, <1>10, <2>1 DEF RemoveOnCourse
  <2>5. QED BY <2>1, <2>3, <2>4
<1>11. QED BY <1>0, <1>8, <1>9, <1>10 DEF RemoveOnCourse

(* The UKI goes in when both volumes have the version's name.              *)
LEMMA InstallBacked ==
  ASSUME IInv, PlanInv, WorkInv, ~raced, NEW p \in Proc, Executing(p),
         Head(plan[p]).cmd = "install"
  PROVE  \A k \in Kind : vol[k][Used(Head(plan[p]).version)] # Absent
<1> DEFINE h == Head(plan[p])
<1>1. plan[p] \in Seq(SafeStep) /\ plan[p] # <<>>
  BY IInvParts DEF Executing, ProcOK
<1>2. /\ h \in Todo(plan[p]) /\ Todo(plan[p]) = {h} \cup Todo(Tail(plan[p]))
      /\ \A b \in Todo(Tail(plan[p])) : MayFollow(h, b)
  BY <1>1, TailTodo, SMT DEF PlanInv, PlanShape
<1> HIDE DEF h
<1>3. h.cmd = "install"
  BY DEF h
<1>4. req[p].cmd = "install" /\ h.version = req[p].version
  BY <1>1, <1>2, <1>3 DEF PlanInv, PlanShape, InstallSteps, RemoveSteps
<1>5. \A k \in Kind : ~PendingOn(p, "lvrename", k)
  BY <1>2, <1>3 DEF PendingOn, MayFollow, Misplaced
<1>6. OnCourse(p, "install")
  BY <1>1, <1>4 DEF OnCourse
<1>7. \A k \in Kind : vol[k][Used(h.version)] # Absent
  BY <1>4, <1>5, <1>6, SMT DEF WorkInv, InstallOnCourse
<1>8. QED BY <1>7 DEF h

(* Without overlap no command strands a boot entry.                        *)
LEMMA BackedKept ==
  ASSUME IInv, PlanInv, WorkInv, AloneInv, NEW p \in Proc, Works(p) \/ Breaks(p)
  PROVE  BootEntriesBacked'
<1> DEFINE h == Head(plan[p])
<1>0. Executing(p) /\ plan[p] \in Seq(SafeStep) /\ plan[p] # <<>> /\ DiskTypeOK
  BY IInvParts DEF Works, Breaks, Executing, ProcOK, DiskOK
<1>1. /\ h \in SafeStep /\ h \in Step /\ h \in Todo(plan[p])
      /\ Todo(plan[p]) = {h} \cup Todo(Tail(plan[p]))
      /\ \A b \in Todo(Tail(plan[p])) : MayFollow(h, b)
  BY <1>0, TailTodo, SafeIsStep, SMT DEF PlanInv, PlanShape
<1>2. Runs(h) \/ Interrupted(h)
  BY DEF Works, Breaks
<1>3. h.cmd = "install" => \A k \in Kind : vol[k][Used(h.version)] # Absent
  BY <1>0, InstallBacked DEF AloneInv
<1> HIDE DEF h
<1>4. SUFFICES ASSUME NEW v \in Version, uki'[v] # "none", NEW k \in Kind
               PROVE  vol'[k][Used(v)] # Absent
  BY DEF BootEntriesBacked, Ukis
<1>5. Used(v) \in Status
  BY StatusDistinct
<1>6. vol[k][Used(v)] # Absent
  <2>1. CASE uki[v] # "none"
    BY <2>1 DEF AloneInv, BootEntriesBacked, Ukis
  <2>2. CASE uki[v] = "none"
    <3>1. h.cmd \in {"install", "unlink"} /\ h.version = v
      <4>1. CASE Runs(h)
        <5>1. UkiFrame(h)
          BY <1>0, <1>1, <4>1, RunFrame
        <5>2. QED BY <1>4, <2>2, <5>1 DEF UkiFrame
      <4>2. CASE Interrupted(h)
        BY <1>0, <1>1, <1>4, <2>2, <4>2, InterruptFrame
      <4>3. QED BY <1>2, <4>1, <4>2
    <3>2. h.cmd = "install"
      BY <1>0, <1>1, <1>2, <1>4, <2>2, <3>1, RunEffect, InterruptFrame
    <3>3. QED BY <1>3, <3>1, <3>2
  <2>3. QED BY <2>1, <2>2
<1>7. CASE Interrupted(h)
  BY <1>0, <1>1, <1>5, <1>6, <1>7, InterruptFrame
<1>8. CASE Runs(h)
  <2>1. SUFFICES ASSUME vol'[k][Used(v)] # vol[k][Used(v)] PROVE vol'[k][Used(v)] # Absent
    BY <1>6
  <2>2. /\ h.cmd \in {"lvcreate", "dd", "lvrename"} /\ h.kind = k
        /\ Used(v) = h.at \/ (h.cmd = "lvrename" /\ Used(v) = h.to)
    <3>1. VolFrame(h)
      BY <1>0, <1>1, <1>8, RunFrame
    <3>2. QED BY <1>1, <1>5, <2>1, <3>1 DEF VolFrame
  <2>3. h.cmd = "lvrename"
    BY <1>1, <2>2, StatusDistinct DEF SafeStep
  <2>4. vol[k][h.at] # Absent /\ vol'[k][h.to] = vol[k][h.at]
    BY <1>0, <1>1, <1>8, <2>2, <2>3, RunEffect
  <2>5. CASE Used(v) = h.to
    BY <2>4, <2>5
  <2>6. CASE Used(v) = h.at
    (* Only a removal renames it, and only once the UKI is gone. *)
    <3>1. req[p].cmd = "remove" /\ h.at = Used(req[p].version) /\ req[p].version \in Version
      <4>1. CASE req[p].cmd = "install"
        <5>1. PICK s \in EmptyStatus : h \in InstallSteps(s, req[p].version)
          BY <1>0, <1>1, <4>1 DEF PlanInv, PlanShape
        <5>2. h.at \in EmptyStatus
          BY <2>3, <5>1 DEF InstallSteps
        <5>3. QED BY <2>6, <5>2, StatusDistinct
      <4>2. CASE req[p].cmd # "install"
        BY <1>0, <1>1, <2>3, <4>2 DEF PlanInv, PlanShape, RemoveSteps
      <4>3. QED BY <4>1, <4>2
    <3>2. v = req[p].version
      BY <2>6, <3>1, StatusDistinct
    <3>3. ~Pending(p, "unlink")
      BY <1>1, <2>3 DEF Pending, MayFollow, Misplaced
    <3>4. uki[v] = "none"
      BY <1>0, <3>1, <3>2, <3>3 DEF AloneInv, RemoveOnCourse, OnCourse
    <3>5. uki'[v] = uki[v]
      <4>1. UkiFrame(h)
        BY <1>0, <1>1, <1>8, RunFrame
      <4>2. QED BY <2>3, <4>1 DEF UkiFrame
    <3>6. QED BY <1>4, <3>4, <3>5
  <2>7. QED BY <2>2, <2>5, <2>6
<1>9. QED BY <1>2, <1>7, <1>8

LEMMA AloneKept ==
  ASSUME IInv, PlanInv, WorkInv, AloneInv, Alone, [Next]_vars
  PROVE  AloneInv'
<1>0. ProcOK /\ PhaseInv /\ phase \in [Proc -> {"idle", "read", "planned", "running"}]
  BY IInvParts DEF PlanInv, ProcOK
<1>1. ~raced'
  <2>1. ASSUME NEW p \in Proc, NEW q \in Proc, lpc[p] = "held", lpc[q] = "opened" PROVE FALSE
    <3>1. phase[p] # "idle" /\ phase[q] # "idle"
      BY <1>0, <2>1 DEF PhaseInv
    <3>2. QED BY <2>1, <3>1 DEF Alone
  <2>2. QED BY <2>1, RacedStep DEF AloneInv
<1> DEFINE Fine(q) == /\ phase'[q] = "read" => seen'[q].ukis = Ukis'
                      /\ RemoveOnCourse(q)'
<1>2. SUFFICES BootEntriesBacked' /\ \A q \in Proc : Fine(q)
  BY <1>1 DEF AloneInv
<1>3. ASSUME UNCHANGED diskVars PROVE BootEntriesBacked' /\ Ukis' = Ukis
  BY <1>3 DEF AloneInv, BootEntriesBacked, Ukis, diskVars
<1>4. ASSUME NEW q \in Proc, Stops(q), UNCHANGED diskVars PROVE Fine(q)
  BY <1>3, <1>4, StoppedKeeps DEF Stops
<1>5. ASSUME NEW q \in Proc, Stays(q), UNCHANGED diskVars PROVE Fine(q)
  <2>1. phase'[q] = "read" => seen'[q].ukis = Ukis'
    BY <1>3, <1>5 DEF AloneInv, Stays
  <2>2. OnCourse(q, "remove")' => OnCourse(q, "remove")
    BY <1>5 DEF OnCourse, Stays
  <2>3. RemoveOnCourse(q)'
    BY <1>5, <2>2 DEF AloneInv, RemoveOnCourse, Pending, PendingOn, Stays, diskVars
  <2>4. QED BY <2>1, <2>3
<1>6. CASE QuietMove
  BY <1>3, <1>4, <1>5, <1>6 DEF QuietMove
<1>7. ASSUME NEW p \in Proc, PlansInstall(p) \/ PlansRemove(p)
      PROVE  BootEntriesBacked' /\ \A q \in Proc : Fine(q)
  <2>1. UNCHANGED diskVars /\ StaysBut(p) /\ phase'[p] = "planned"
    BY <1>0, <1>7 DEF PlansInstall, PlansRemove, Planned
  <2>2. RemoveOnCourse(p)'
    <3>1. CASE PlansRemove(p)
      BY <3>1, NewRemoval
    <3>2. CASE PlansInstall(p)
      <4>1. req[p].cmd = "install" /\ \E w, steps : Planned(p, w, steps)
        BY <3>2 DEF PlansInstall
      <4>2. req[p] \in [cmd : {"install"}, version : InstallArg]
        BY <1>0, <4>1, RequestFields
      <4>3. req'[p].cmd = "install"
        BY <1>0, <4>1, <4>2, SMT DEF Planned, ProcOK
      <4>4. QED BY <4>3 DEF RemoveOnCourse, OnCourse
    <3>3. QED BY <1>7, <3>1, <3>2
  <2>3. QED BY <1>3, <1>5, <2>1, <2>2 DEF StaysBut
<1>8. ASSUME NEW p \in Proc, StaysBut(p), Executing(p), NEW q \in Proc \ {p} PROVE Fine(q)
  <2>1. phase[q] = "idle" /\ plan[q] = <<>> /\ outcome[q] # "ok"
    BY <1>0, <1>8 DEF Executing, Alone, ProcOK, PhaseInv
  <2>2. Stays(q)
    BY <1>8 DEF StaysBut
  <2>3. phase'[q] = "idle" /\ ~OnCourse(q, "remove")'
    BY <2>1, <2>2 DEF OnCourse, Stays
  <2>4. QED BY <2>3 DEF RemoveOnCourse
<1>9. ASSUME NEW p \in Proc, Works(p)
      PROVE  BootEntriesBacked' /\ \A q \in Proc : Fine(q)
  <2>1. RemoveOnCourse(p)'
    BY <1>9, RemoveAdvances DEF AloneInv
  <2>2. phase'[p] = "running" /\ StaysBut(p) /\ Executing(p)
    BY <1>0, <1>9 DEF Works, NextStep
  <2>3. QED BY <1>8, <1>9, <2>1, <2>2, BackedKept
<1>10. ASSUME NEW p \in Proc, Breaks(p)
       PROVE  BootEntriesBacked' /\ \A q \in Proc : Fine(q)
  <2>1. RemoveOnCourse(p)' /\ phase'[p] # "read" /\ StaysBut(p) /\ Executing(p)
    BY <1>10, StoppedKeeps DEF Breaks
  <2>2. QED BY <1>8, <1>10, <2>1, BackedKept
<1>11. QED BY <1>0, <1>6, <1>7, <1>9, <1>10, Moves

-----------------------------------------------------------------------------
(* Plan::install (plan.rs:48-57) writes before it renames, and the lock    *)
(* keeps a second writer away: for any versions and any number of          *)
(* invocations, a volume that carries a version's name holds its image or  *)
(* part of it, as long as the lock file's unlink has not raced an open.    *)
THEOREM SlotsHoldTheirImages == Spec => []SlotHoldsItsImage
<1>1. WorkInv => SlotHoldsItsImage
  BY DEF WorkInv, SlotHoldsItsImage
<1>2. QED BY <1>1, InitIInv, InitWork, NextIInv, ShapeKept, WorkKept, PTL DEF Spec

(* Under the same condition an install that ran to the end (plan.rs:37-62) *)
(* has left its version bootable, whatever other invocations did meanwhile.*)
THEOREM InstallsDeliver == Spec => [](~raced => InstallDelivers)
<1>1. IInv /\ PlanInv /\ WorkInv => (~raced => InstallDelivers)
  <2>1. SUFFICES ASSUME IInv, PlanInv, WorkInv, ~raced, NEW p \in Proc, Completed(p, "install")
                 PROVE  /\ uki[req[p].version] = "whole"
                        /\ \A k \in Kind : vol[k][Used(req[p].version)] # Absent
                        /\ kernel = NoRevision => migrated = Migration
    BY DEF InstallDelivers
  <2>2. Todo(plan[p]) = {}
    BY <2>1, SmallTodo DEF PlanInv, PhaseInv, Completed
  <2>3. OnCourse(p, "install")
    BY <2>1 DEF OnCourse, Completed
  <2>4. InstallOnCourse(p) /\ migrated \subseteq Migration
    BY <2>1 DEF WorkInv, IInv, TypeOK
  <2>5. ~Pending(p, "install") /\ \A k \in Kind : ~PendingOn(p, "lvrename", k)
    BY <2>2 DEF Pending, PendingOn
  <2>6. kernel = NoRevision => Migration \subseteq migrated
    BY <2>2, <2>3, <2>4 DEF InstallOnCourse
  <2>7. QED BY <2>3, <2>4, <2>5, <2>6 DEF InstallOnCourse
<1>2. QED BY <1>1, InitIInv, InitWork, NextIInv, ShapeKept, WorkKept, PTL DEF Spec

(* A boot entry always has its volumes (plan.rs:57, 152-155), as long as   *)
(* invocations do not overlap: plans are made before the lock is taken.    *)
THEOREM EntriesStayBacked == Spec /\ []Alone => []BootEntriesBacked
<1>1. AloneInv => BootEntriesBacked
  BY DEF AloneInv
<1>2. QED
  BY <1>1, InitIInv, InitWork, NextIInv, ShapeKept, WorkKept, AloneKept, PTL DEF Spec

(* A removal that ran to the end leaves nothing of its version (plan.rs:   *)
(* 137-167), as long as invocations do not overlap.                        *)
THEOREM RemovalsDeliver == Spec /\ []Alone => []RemoveDelivers
<1>1. PlanInv /\ AloneInv => RemoveDelivers
  <2>1. SUFFICES ASSUME PlanInv, AloneInv, NEW p \in Proc, Completed(p, "remove")
                 PROVE  /\ uki[req[p].version] = "none"
                        /\ \A k \in Kind : vol[k][Used(req[p].version)] = Absent
    BY DEF RemoveDelivers
  <2>2. Todo(plan[p]) = {}
    BY <2>1, SmallTodo DEF PlanInv, PhaseInv, Completed
  <2>3. OnCourse(p, "remove")
    BY <2>1 DEF OnCourse, Completed
  <2>4. RemoveOnCourse(p)
    BY <2>1 DEF AloneInv
  <2>5. ~Pending(p, "unlink") /\ \A k \in Kind : ~PendingOn(p, "lvrename", k)
    BY <2>2 DEF Pending, PendingOn
  <2>6. QED BY <2>3, <2>4, <2>5 DEF RemoveOnCourse
<1>2. QED
  BY <1>1, InitIInv, InitWork, NextIInv, ShapeKept, WorkKept, AloneKept, PTL DEF Spec

(* The name a removal gives a volume (runtime.rs:274-286) is free when the *)
(* rename runs, as long as invocations do not overlap.                     *)
THEOREM EmptyNamesAreFree == Spec /\ []Alone => []EmptyNameFree
<1>1. IInv /\ PlanInv /\ AloneInv => EmptyNameFree
  <2>1. SUFFICES ASSUME IInv, PlanInv, AloneInv, NEW p \in Proc, Executing(p),
                        req[p].cmd = "remove", Head(plan[p]).cmd = "lvrename"
                 PROVE  vol[Head(plan[p]).kind][Head(plan[p]).to] = Absent
    BY DEF EmptyNameFree
  <2>2. plan[p] \in Seq(SafeStep) /\ plan[p] # <<>>
    BY <2>1, IInvParts DEF Executing, ProcOK
  <2>3. Head(plan[p]) \in Todo(plan[p])
    BY <2>2, TailTodo
  <2>4. OnCourse(p, "remove")
    BY <2>1, <2>2 DEF OnCourse
  <2>5. QED BY <2>1, <2>3, <2>4 DEF AloneInv, RemoveOnCourse
<1>2. QED
  BY <1>1, InitIInv, InitWork, NextIInv, ShapeKept, WorkKept, AloneKept, PTL DEF Spec

=============================================================================
