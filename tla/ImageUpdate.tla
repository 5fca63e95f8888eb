---------------------------- MODULE ImageUpdate ----------------------------
(***************************************************************************)
(* `ota-update image install` and `ota-update image remove`                *)
(* (crates/ota-update/src/image/{cli,install,plan,runtime,executor}.rs) on *)
(* the volumes and boot entries of one host.                               *)
(*                                                                         *)
(* An invocation reads the boot entries, then the volumes, computes a plan *)
(* from what it read, and only then takes the lock and runs the plan, one  *)
(* shell command at a time, stopping at the first that fails.  Invocations *)
(* interleave; a command may fail half way, a process may be killed at any *)
(* point, and the host may reboot into any entry that still boots.         *)
(***************************************************************************)
EXTENDS UpdateLock, SlotGroups, Sequences

CONSTANTS
  Undersized, \* kinds whose empty volumes are smaller than the new image
  MaxFaults   \* bound on failed commands, short writes and killed processes

ASSUME FaultAssumption == MaxFaults \in Nat

VARIABLES
  vol,        \* vol[k][s]: what the volume of kind k and status s holds
  uki,        \* uki[v]: the UKI file of version v
  legacyEntry,\* the type-1 (nixos-generation) boot entry exists
  migrated,   \* the legacy boot loader settings already migrated
  kernel,     \* KernelParams::to_version of the running kernel
  phase,      \* phase[p] of the invocation p runs
  req,        \* req[p]: the command p was given
  seen,       \* seen[p]: the boot entries p read
  plan,       \* plan[p]: the steps p still has to run
  outcome,    \* outcome[p]: how p's current or last invocation went
  faults      \* faults so far

diskVars == <<vol, uki, legacyEntry, migrated>>
procVars == <<phase, req, seen, plan, outcome>>
vars == <<diskVars, kernel, procVars, lockVars, faults>>

(* What a volume holds: nothing written yet, an image cut short, the image *)
(* of a version; Absent when there is no volume of that name.              *)
Absent == <<"absent">>
Blank == <<"blank">>
Torn == <<"torn">>
Image(v) == <<"image", v>>
Content == {Absent, Blank, Torn} \cup {Image(v) : v \in Version}

UkiFile == {"none", "torn", "whole"}

(* legacy_bootloader_migration: loader.conf, entries.srel, EFI default.    *)
Migration == {"loader.conf", "entries.srel", "default"}

(* The commands a plan is made of.                                         *)
LvCreate(k, s) == [cmd |-> "lvcreate", kind |-> k, at |-> s]
LvResize(k, s) == [cmd |-> "lvresize", kind |-> k, at |-> s]
Dd(k, s, v) == [cmd |-> "dd", kind |-> k, at |-> s, version |-> v]
Flush(k, s) == [cmd |-> "flush", kind |-> k, at |-> s]
LvRename(k, s, t) == [cmd |-> "lvrename", kind |-> k, at |-> s, to |-> t]
InstallUki(v) == [cmd |-> "install", version |-> v]
UnlinkUki(v) == [cmd |-> "unlink", version |-> v]
UnlinkLegacy == [cmd |-> "unlink_legacy"]
Migrate(m) == [cmd |-> "migrate", what |-> m]

Step ==
       [cmd : {"lvcreate", "lvresize", "flush"}, kind : Kind, at : Status]
  \cup [cmd : {"dd"}, kind : Kind, at : Status, version : Version]
  \cup [cmd : {"lvrename"}, kind : Kind, at : Status, to : Status]
  \cup [cmd : {"install", "unlink"}, version : Version]
  \cup [cmd : {"unlink_legacy"}]
  \cup [cmd : {"migrate"}, what : Migration]

InstallArg == {v \in Version : HasHash(v)}
RemoveArg == Version \cup {[rev |-> v.rev, hash |-> NoHash] : v \in Version}
NoReq == [cmd |-> "none"]
NoBoot == [ukis |-> {}, legacy |-> FALSE]
Request == {NoReq} \cup [cmd : {"install"}, version : InstallArg]
                   \cup [cmd : {"remove"}, version : RemoveArg]

(* Every variable has its type; plans name only volumes the identifiers of *)
(* allocate_empty_identifier (runtime.rs:274-286) can name.                *)
TypeOK ==
  /\ LockTypeOK
  /\ vol \in [Kind -> [Status -> Content]]
  /\ uki \in [Version -> UkiFile]
  /\ legacyEntry \in BOOLEAN
  /\ migrated \in SUBSET Migration
  /\ kernel \in Version \cup {NoRevision}
  /\ phase \in [Proc -> {"idle", "read", "planned", "running"}]
  /\ req \in [Proc -> Request]
  /\ seen \in [Proc -> [ukis : SUBSET Version, legacy : BOOLEAN]]
  /\ plan \in [Proc -> Seq(Step)]
  /\ outcome \in [Proc -> {"none", "ok", "nothing"}]
  /\ faults \in 0 .. MaxFaults

-----------------------------------------------------------------------------
(* A host with one booted slot and one empty slot: either a legacy system  *)
(* started from a nixos-generation entry, or an image started by its UKI.  *)
Init ==
  /\ LockInit
  /\ \E v \in Version :
       /\ vol = [k \in Kind |-> [s \in Status |->
                   IF s = Used(v) THEN Image(v)
                   ELSE IF s = EmptyLegacy THEN Blank ELSE Absent]]
       /\ uki = [w \in Version |-> IF w = v /\ HasHash(v) THEN "whole" ELSE "none"]
       /\ legacyEntry = ~HasHash(v)
       /\ kernel = IF HasHash(v) THEN v ELSE NoRevision
  /\ migrated = {}
  /\ phase = [p \in Proc |-> "idle"]
  /\ req = [p \in Proc |-> NoReq]
  /\ seen = [p \in Proc |-> NoBoot]
  /\ plan = [p \in Proc |-> <<>>]
  /\ outcome = [p \in Proc |-> "none"]
  /\ faults = 0

Present == {ks \in Kind \X Status : vol[ks[1]][ks[2]] # Absent}
Ukis == {v \in Version : uki[v] # "none"}

-----------------------------------------------------------------------------
(* populate_runtime, first half: /proc/cmdline and bootctl.                *)
ReadBoot(p, r) ==
  /\ phase[p] = "idle"
  /\ lpc[p] = "out"
  /\ req' = [req EXCEPT ![p] = r]
  /\ seen' = [seen EXCEPT ![p] = [ukis |-> Ukis, legacy |-> legacyEntry]]
  /\ phase' = [phase EXCEPT ![p] = "read"]
  /\ outcome' = [outcome EXCEPT ![p] = "none"]
  /\ UNCHANGED <<diskVars, kernel, plan, lockVars, faults>>

(* The groups of Runtime::new: the boot entries read earlier, the volumes  *)
(* lvs lists now.                                                          *)
Groups(p) == group_volumes(Present, seen[p].ukis)

(* The invocation is over, and what it knew is forgotten.                  *)
End(p) ==
  /\ phase' = [phase EXCEPT ![p] = "idle"]
  /\ req' = [req EXCEPT ![p] = NoReq]
  /\ seen' = [seen EXCEPT ![p] = NoBoot]
  /\ plan' = [plan EXCEPT ![p] = <<>>]
  /\ outcome' = [outcome EXCEPT ![p] = "none"]

NothingToDo(p) ==
  /\ phase' = [phase EXCEPT ![p] = "idle"]
  /\ seen' = [seen EXCEPT ![p] = NoBoot]
  /\ outcome' = [outcome EXCEPT ![p] = "nothing"]
  /\ UNCHANGED <<req, plan>>

Planned(p, v, steps) ==
  /\ phase' = [phase EXCEPT ![p] = "planned"]
  /\ req' = [req EXCEPT ![p].version = v]
  /\ seen' = [seen EXCEPT ![p] = NoBoot]
  /\ plan' = [plan EXCEPT ![p] = steps]
  /\ UNCHANGED outcome

(* Bugs: the renames run before the writes; the legacy boot loader keeps   *)
(* its settings.                                                           *)
install_into_slot_rename_first(s, v, legacyActive) ==
  << LvRename("root", s, Used(v)), LvRename("verity", s, Used(v)),
     Dd("root", Used(v), v), Dd("verity", Used(v), v), InstallUki(v) >>

install_into_slot_no_migration(s, v, legacyActive) ==
  << Dd("root", s, v), Dd("verity", s, v),
     LvRename("root", s, Used(v)), LvRename("verity", s, Used(v)),
     InstallUki(v) >>

(* Plan::install_into_slot.                                                *)
install_into_slot(s, v, legacyActive) ==
  << Dd("root", s, v), Dd("verity", s, v),
     Flush("root", s), Flush("verity", s),
     LvRename("root", s, Used(v)), LvRename("verity", s, Used(v)),
     InstallUki(v) >>
  \o IF legacyActive
     THEN <<Migrate("loader.conf"), Migrate("entries.srel"), Migrate("default")>>
     ELSE <<>>

(* Runtime::resize_steps_for_slot and the lvcreate steps of                *)
(* Runtime::create_empty_slot.                                             *)
resize_steps_for_slot(s) ==
  (IF "root" \in Undersized THEN <<LvResize("root", s)>> ELSE <<>>)
  \o (IF "verity" \in Undersized THEN <<LvResize("verity", s)>> ELSE <<>>)

create_empty_slot(s) == <<LvCreate("root", s), LvCreate("verity", s)>>

(* Runtime::select_update_slot, step 1.                                    *)
AlreadyInstalled(groups, v) ==
  \E g \in groups : is_used(g) /\ is_complete(g) /\ has_version(g, v)

(* Step 2: the empty slots an install may go to.  The code takes the first *)
(* in the order lvs lists them.                                            *)
SuitableSlots(groups) ==
  {g \in groups : is_empty(g) /\ ~is_active(g, kernel) /\ is_complete(g)}

(* Runtime::active_slot, which must be the only one.                       *)
ActiveGroups(groups) == {g \in groups : is_active(g, kernel)}

(* install_from_manifest_path: lvs, Plan::install, and execute_plan's      *)
(* "Nothing to do." for an empty plan.                                     *)
PlanInstall(p) ==
  /\ phase[p] = "read"
  /\ req[p].cmd = "install"
  /\ LET groups == Groups(p)
         v == req[p].version
     IN  \/ /\ AlreadyInstalled(groups, v)
            /\ NothingToDo(p)
         \/ /\ ~AlreadyInstalled(groups, v)
            /\ \E a \in ActiveGroups(groups) :
                 /\ ActiveGroups(groups) = {a}
                 /\ \/ \E g \in SuitableSlots(groups) :
                         Planned(p, v, resize_steps_for_slot(g.status)
                                    \o install_into_slot(g.status, v, is_legacy(a)))
                    \/ /\ SuitableSlots(groups) = {}
                       /\ is_complete(a)
                       /\ \E n \in allocate_empty_identifier(groups) :
                            Planned(p, v, create_empty_slot(Empty(n))
                                       \o install_into_slot(Empty(n), v, is_legacy(a)))
         \/ /\ ~AlreadyInstalled(groups, v)
            /\ \/ \A a \in ActiveGroups(groups) : ActiveGroups(groups) # {a}
               \/ /\ SuitableSlots(groups) = {}
                  /\ \/ \E a \in ActiveGroups(groups) : ~is_complete(a)
                     \/ allocate_empty_identifier(groups) = {}
            /\ End(p)
  /\ UNCHANGED <<diskVars, kernel, lockVars, faults>>

(* The check before a removal: "cannot remove active slot".                *)
RemovableAnyUsed(g) == is_used(g)
Removable(g) == ~is_active(g, kernel)

(* Bugs: the UKI goes last; the verity volume is forgotten.                *)
remove_slot_uki_last(g, v, n, legacySeen) ==
  <<LvRename("root", Used(v), Empty(n)), LvRename("verity", Used(v), Empty(n))>>
  \o (IF g.boot THEN <<UnlinkUki(v)>> ELSE <<>>)

remove_slot_root_only(g, v, n, legacySeen) ==
  (IF g.boot THEN <<UnlinkUki(v)>> ELSE <<>>)
  \o <<LvRename("root", Used(v), Empty(n))>>

(* Plan::remove on a group: unlink its UKI, the legacy entries when it is  *)
(* legacy, and rename the volumes it has.                                  *)
remove_slot(g, v, n, legacySeen) ==
  (IF g.boot THEN <<UnlinkUki(v)>> ELSE <<>>)
  \o (IF is_legacy(g) /\ legacySeen THEN <<UnlinkLegacy>> ELSE <<>>)
  \o (IF "root" \in g.kinds THEN <<LvRename("root", Used(v), Empty(n))>> ELSE <<>>)
  \o (IF "verity" \in g.kinds THEN <<LvRename("verity", Used(v), Empty(n))>> ELSE <<>>)

(* ImageAction::Remove: lvs, Plan::remove.  The version of the slot found  *)
(* replaces the argument, which may be a bare revision.                    *)
PlanRemove(p) ==
  /\ phase[p] = "read"
  /\ req[p].cmd = "remove"
  /\ LET groups == Groups(p)
         found == find_slot_group(groups, req[p].version)
         ids == allocate_empty_identifier(groups)
     IN  \/ \E g \in found, v \in Version, n \in ids :
              /\ found = {g}
              /\ has_version(g, v)
              /\ Removable(g)
              /\ Planned(p, v, remove_slot(g, v, n, seen[p].legacy))
         \/ /\ \/ \A g \in found : found # {g} \/ ~Removable(g)
               \/ ids = {}
            /\ End(p)
  /\ UNCHANGED <<diskVars, kernel, lockVars, faults>>

-----------------------------------------------------------------------------
Fault == faults < MaxFaults /\ faults' = faults + 1

(* execute_plan takes the lock around the plan and gives up when it is     *)
(* refused; the lock is dropped when the plan ends, well or not.           *)
Acquire(p) ==
  /\ phase[p] = "planned"
  /\ OpenLock(p) \/ TryLock(p) \/ WriteOwner(p)
  /\ UNCHANGED <<diskVars, kernel, procVars, faults>>

AcquireFails(p) ==
  /\ phase[p] = "planned"
  /\ \/ LockRefused(p) /\ UNCHANGED faults
     \/ WriteOwnerFails(p) /\ Fault
  /\ End(p)
  /\ UNCHANGED <<diskVars, kernel>>

Release(p) ==
  /\ phase[p] = "running"
  /\ plan[p] = <<>>
  /\ \/ DropUnlink(p) /\ UNCHANGED procVars
     \/ DropClose(p) /\ End(p)
  /\ UNCHANGED <<diskVars, kernel, faults>>

-----------------------------------------------------------------------------
(* A command that names a missing volume or file fails, except dd, which   *)
(* writes a stray file under /dev/mapper instead.                          *)
CanRun(st) ==
  CASE st.cmd = "lvcreate" -> vol[st.kind][st.at] = Absent
    [] st.cmd \in {"lvresize", "flush"} -> vol[st.kind][st.at] # Absent
    [] st.cmd = "lvrename" -> vol[st.kind][st.at] # Absent /\ vol[st.kind][st.to] = Absent
    [] st.cmd = "unlink" -> uki[st.version] # "none"
    [] st.cmd = "unlink_legacy" -> legacyEntry
    [] st.cmd \in {"dd", "install", "migrate"} -> TRUE

SetVol(k, s, c) == vol' = [vol EXCEPT ![k][s] = c]

(* The effect of a command that does its work.                             *)
Succeeds(st) ==
  /\ CanRun(st)
  /\ \/ /\ st.cmd = "lvcreate"
        /\ SetVol(st.kind, st.at, Blank)
        /\ UNCHANGED <<uki, legacyEntry, migrated>>
     \/ /\ st.cmd \in {"lvresize", "flush"}
        /\ UNCHANGED diskVars
     \/ /\ st.cmd = "dd"
        /\ IF vol[st.kind][st.at] = Absent
           THEN UNCHANGED vol
           ELSE SetVol(st.kind, st.at, Image(st.version))
        /\ UNCHANGED <<uki, legacyEntry, migrated>>
     \/ /\ st.cmd = "lvrename"
        /\ vol' = [vol EXCEPT ![st.kind] =
                     [@ EXCEPT ![st.to] = vol[st.kind][st.at], ![st.at] = Absent]]
        /\ UNCHANGED <<uki, legacyEntry, migrated>>
     \/ /\ st.cmd = "install"
        /\ uki' = [uki EXCEPT ![st.version] = "whole"]
        /\ UNCHANGED <<vol, legacyEntry, migrated>>
     \/ /\ st.cmd = "unlink"
        /\ uki' = [uki EXCEPT ![st.version] = "none"]
        /\ UNCHANGED <<vol, legacyEntry, migrated>>
     \/ /\ st.cmd = "unlink_legacy"
        /\ legacyEntry' = FALSE
        /\ UNCHANGED <<vol, uki, migrated>>
     \/ /\ st.cmd = "migrate"
        /\ migrated' = migrated \cup {st.what}
        /\ UNCHANGED <<vol, uki, legacyEntry>>

(* What a command that fails or is cut short leaves behind.                *)
Interrupted(st) ==
  \/ UNCHANGED diskVars
  \/ /\ st.cmd = "dd" /\ vol[st.kind][st.at] # Absent
     /\ SetVol(st.kind, st.at, Torn)
     /\ UNCHANGED <<uki, legacyEntry, migrated>>
  \/ /\ st.cmd = "install"
     /\ uki' = [uki EXCEPT ![st.version] = "torn"]
     /\ UNCHANGED <<vol, legacyEntry, migrated>>

Executing(p) == phase[p] \in {"planned", "running"} /\ lpc[p] = "held" /\ plan[p] # <<>>

(* ShellExecutor: run_plan takes the next step when the shell reports      *)
(* success, and stops at the first failure.                                *)
NextStep(p) ==
  /\ plan' = [plan EXCEPT ![p] = Tail(@)]
  /\ phase' = [phase EXCEPT ![p] = "running"]
  /\ outcome' = [outcome EXCEPT ![p] = IF Len(plan[p]) = 1 THEN "ok" ELSE @]
  /\ UNCHANGED <<kernel, req, seen, lockVars>>

ExecStep(p) ==
  /\ Executing(p)
  /\ Succeeds(Head(plan[p]))
  /\ NextStep(p)
  /\ UNCHANGED faults

(* `zstdcat FILE | dd` runs under /bin/sh without pipefail: the shell      *)
(* reports dd's status, so a stream that zstdcat cuts short is a success.  *)
ExecShortWrite(p) ==
  /\ Executing(p)
  /\ LET st == Head(plan[p])
     IN  /\ st.cmd = "dd"
         /\ vol[st.kind][st.at] # Absent
         /\ SetVol(st.kind, st.at, Torn)
  /\ NextStep(p)
  /\ Fault
  /\ UNCHANGED <<uki, legacyEntry, migrated>>

ExecFails(p) ==
  /\ Executing(p)
  /\ \/ CanRun(Head(plan[p])) /\ Fault /\ Interrupted(Head(plan[p]))
     \/ ~CanRun(Head(plan[p])) /\ UNCHANGED <<faults, diskVars>>
  /\ plan' = [plan EXCEPT ![p] = <<>>]
  /\ phase' = [phase EXCEPT ![p] = "running"]
  /\ UNCHANGED <<kernel, req, seen, outcome, lockVars>>

(* DryRunExecutor prints every step and runs none.                         *)
DryRun(p) ==
  /\ Executing(p)
  /\ phase[p] = "planned"
  /\ plan' = [plan EXCEPT ![p] = <<>>]
  /\ phase' = [phase EXCEPT ![p] = "running"]
  /\ UNCHANGED <<diskVars, kernel, req, seen, outcome, lockVars, faults>>

(* Bug: a killed process takes the lock file with it.                      *)
CrashUnlinks(p) ==
  /\ phase[p] # "idle"
  /\ IF Executing(p) THEN Interrupted(Head(plan[p])) ELSE UNCHANGED diskVars
  /\ CloseFd(p)
  /\ lockPath' = None
  /\ End(p)
  /\ Fault
  /\ UNCHANGED <<kernel, raced>>

(* The process is killed, possibly half way through a command; or, before  *)
(* it has the lock, it gives up on an input it cannot read or validate.    *)
Crash(p) ==
  /\ phase[p] # "idle"
  /\ IF Executing(p) THEN Interrupted(Head(plan[p])) ELSE UNCHANGED diskVars
  /\ IF lpc[p] = "out" THEN UNCHANGED lockVars ELSE LockCrash(p)
  /\ End(p)
  /\ Fault
  /\ UNCHANGED kernel

(* A reboot, or a power cut after the crash of every process, into an      *)
(* entry that can start: a whole UKI, or the legacy entry, whose slot has  *)
(* both volumes.                                                           *)
Reboot ==
  /\ \A p \in Proc : phase[p] = "idle"
  /\ \E v \in Version :
       /\ \A k \in Kind : vol[k][Used(v)] # Absent
       /\ \/ HasHash(v) /\ uki[v] = "whole" /\ kernel' = v
          \/ ~HasHash(v) /\ legacyEntry /\ kernel' = NoRevision
  /\ LockReboot
  /\ UNCHANGED <<diskVars, procVars, faults>>

Invoke(p) ==
  \/ \E v \in InstallArg : ReadBoot(p, [cmd |-> "install", version |-> v])
  \/ \E v \in RemoveArg : ReadBoot(p, [cmd |-> "remove", version |-> v])

ProcStep(p) ==
  \/ Invoke(p) \/ PlanInstall(p) \/ PlanRemove(p)
  \/ Acquire(p) \/ AcquireFails(p)
  \/ ExecStep(p) \/ ExecShortWrite(p) \/ ExecFails(p) \/ DryRun(p) \/ Release(p)
  \/ Crash(p)

Next == (\E p \in Proc : ProcStep(p)) \/ Reboot

Spec == Init /\ [][Next]_vars

-----------------------------------------------------------------------------
(* No invocation ever writes, renames or unlinks what the running system   *)
(* was booted from (plan.rs:139-142 bails for the active slot, runtime.rs  *)
(* 98-101 passes over it): its root and verity volumes and its UKI stay as *)
(* they are, whatever runs concurrently, crashes or fails, and even when   *)
(* two invocations hold the lock together.                                 *)
Booted(v) == IF kernel = NoRevision THEN ~HasHash(v) ELSE v = kernel

BootedSlotUntouched ==
  [][kernel' = kernel =>
       \A v \in Version : Booted(v) =>
         /\ \A k \in Kind : vol[k][Used(v)] # Absent => vol'[k][Used(v)] = vol[k][Used(v)]
         /\ uki[v] # "none" => uki'[v] = uki[v]]_vars

(* Runtime::active_slot (runtime.rs:260-264) finds exactly one group on    *)
(* the disk as it is, with both volumes, so an install never dies of "no   *)
(* active slot detected" or "ambiguous slot selection".                    *)
ActiveSlotUnique ==
  \E g \in Group : /\ ActiveGroups(group_volumes(Present, Ukis)) = {g}
                   /\ is_complete(g)

(* Until the lock file's unlink has raced an open, a volume that carries a *)
(* version's name never holds another version's image, nor one that was    *)
(* never written: the writes of install_into_slot (plan.rs:48-57) all      *)
(* precede its renames, and the lock keeps a second writer away.           *)
SlotHoldsItsImage ==
  ~raced => \A k \in Kind, v \in Version :
              vol[k][Used(v)] \in {Absent, Torn, Image(v)}

(* A finished invocation: its plan ran to the end.                         *)
Completed(p, cmd) ==
  /\ phase[p] = "running" /\ lpc[p] = "held"
  /\ outcome[p] = "ok" /\ req[p].cmd = cmd

(* Every UKI has both volumes of its version: install puts the UKI in      *)
(* last (plan.rs:57) and remove takes it out first (plan.rs:152-155), so   *)
(* no crash in between strands a boot entry.                               *)
BootEntriesBacked ==
  \A v \in Ukis : \A k \in Kind : vol[k][Used(v)] # Absent

(* An install that runs to the end leaves the version complete with its    *)
(* UKI and, on a legacy system, the boot loader migrated (plan.rs:37-62).  *)
InstallDelivers ==
  \A p \in Proc : Completed(p, "install") =>
    /\ uki[req[p].version] = "whole"
    /\ \A k \in Kind : vol[k][Used(req[p].version)] # Absent
    /\ kernel = NoRevision => migrated = Migration

(* A remove that runs to the end leaves neither the UKI nor a volume of    *)
(* the version (plan.rs:137-167, "Remove UKI if present").                 *)
RemoveDelivers ==
  \A p \in Proc : Completed(p, "remove") =>
    /\ uki[req[p].version] = "none"
    /\ \A k \in Kind : vol[k][Used(req[p].version)] = Absent

(* The identifier allocate_empty_identifier picks (runtime.rs:274-286) is  *)
(* free for both volumes when the rename runs, so a remove is never        *)
(* stopped by a name that is already taken.                                *)
EmptyNameFree ==
  \A p \in Proc :
    Executing(p) /\ req[p].cmd = "remove" /\ Head(plan[p]).cmd = "lvrename" =>
      vol[Head(plan[p]).kind][Head(plan[p]).to] = Absent

(* "Nothing to do." (install.rs:63-66), reported when the target is        *)
(* "already installed (complete used slot)" (runtime.rs:90), means that    *)
(* the version can be booted.                                              *)
NothingToDoIsBootable ==
  \A p \in Proc : outcome[p] = "nothing" => uki[req[p].version] = "whole"
=============================================================================
