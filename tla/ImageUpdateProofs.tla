------------------------- MODULE ImageUpdateProofs -------------------------
(* TLAPS proofs about ImageUpdate and the UpdateLock it uses, for any      *)
(* versions, processes, inodes and bounds.                                 *)
EXTENDS ImageUpdate, TLAPS

\* Zenon proves the steps that are first order; the others name their prover.
USE Zenon

-----------------------------------------------------------------------------
(* The lock.                                                               *)

(* The strengthening behind ExclusiveUnlessRaced: outside the race, every  *)
(* process between its open and its drop refers to the inode the path      *)
(* names, and whoever is past its flock owns the lock of its inode.        *)
LockIInv ==
  /\ LockTypeOK
  /\ NoStaleFlock
  /\ \A p \in Proc : lpc[p] \in {"locked", "held", "unlinked"} => flock[fd[p]] = p
  /\ ~raced => \A p \in Proc : lpc[p] \in {"opened", "locked", "held"} => fd[p] = lockPath

LEMMA LockInitIInv == LockInit => LockIInv
BY NoneAssumption DEF LockInit, LockIInv, LockTypeOK, LockPC, NoStaleFlock

(* Closing a descriptor, the effect shared by every way out of the lock    *)
(* (refusal, failed owner write, drop, crash), keeps the invariant.        *)
LEMMA CloseFdIInv ==
  ASSUME NEW p \in Proc, LockIInv, CloseFd(p), lpc[p] # "out",
         UNCHANGED <<lockPath, raced>>
  PROVE  LockIInv'
<1>1. LockTypeOK'
  BY DEF LockIInv, LockTypeOK, LockPC, CloseFd
<1>2. NoStaleFlock'
  BY NoneAssumption, SMT DEF LockIInv, LockTypeOK, LockPC, CloseFd, NoStaleFlock
<1>3. \A q \in Proc : lpc'[q] \in {"locked", "held", "unlinked"} => flock'[fd'[q]] = q
  <2>1. TAKE q \in Proc
  <2>2. HAVE lpc'[q] \in {"locked", "held", "unlinked"}
  <2>3. q # p /\ lpc[q] = lpc'[q] /\ fd'[q] = fd[q]
    BY <2>2 DEF LockIInv, LockTypeOK, CloseFd
  <2>4. flock[fd[q]] = q /\ fd[q] \in Inode
    BY <2>2, <2>3 DEF LockIInv, LockTypeOK
  <2>5. QED BY <2>3, <2>4 DEF CloseFd
<1>4. ~raced' => \A q \in Proc : lpc'[q] \in {"opened", "locked", "held"} => fd'[q] = lockPath'
  BY DEF LockIInv, LockTypeOK, CloseFd
<1>5. QED BY <1>1, <1>2, <1>3, <1>4 DEF LockIInv

LEMMA LockNextIInv == LockIInv /\ [LockNext]_lockVars => LockIInv'
<1> SUFFICES ASSUME LockIInv, [LockNext]_lockVars PROVE LockIInv'
  OBVIOUS
<1> USE NoneAssumption
<1>1. ASSUME NEW p \in Proc, OpenLock(p) PROVE LockIInv'
  <2>1. LockTypeOK'
    BY <1>1, SMT DEF OpenLock, LockIInv, LockTypeOK, LockPC
  <2>2. NoStaleFlock'
    BY <1>1, SMT DEF OpenLock, LockIInv, LockTypeOK, LockPC, NoStaleFlock
  <2>3. \A q \in Proc : lpc'[q] \in {"locked", "held", "unlinked"} => flock'[fd'[q]] = q
    BY <1>1 DEF OpenLock, LockIInv, LockTypeOK, LockPC
  <2>4. ~raced' => \A q \in Proc : lpc'[q] \in {"opened", "locked", "held"} => fd'[q] = lockPath'
    BY <1>1, SMT DEF OpenLock, LockIInv, LockTypeOK, LockPC
  <2>5. QED BY <2>1, <2>2, <2>3, <2>4 DEF LockIInv
<1>2. ASSUME NEW p \in Proc, TryLock(p) PROVE LockIInv'
  <2>0. fd[p] \in Inode
    BY <1>2 DEF TryLock, LockIInv, LockTypeOK
  <2>1. LockTypeOK'
    BY <1>2, <2>0 DEF TryLock, LockIInv, LockTypeOK, LockPC
  <2>2. NoStaleFlock'
    BY <1>2, <2>0, SMT DEF TryLock, LockIInv, LockTypeOK, LockPC, NoStaleFlock
  <2>3. \A q \in Proc : lpc'[q] \in {"locked", "held", "unlinked"} => flock'[fd'[q]] = q
    BY <1>2, <2>0, SMT DEF TryLock, LockIInv, LockTypeOK, LockPC
  <2>4. ~raced' => \A q \in Proc : lpc'[q] \in {"opened", "locked", "held"} => fd'[q] = lockPath'
    BY <1>2 DEF TryLock, LockIInv, LockTypeOK, LockPC
  <2>5. QED BY <2>1, <2>2, <2>3, <2>4 DEF LockIInv
<1>3. ASSUME NEW p \in Proc, LockRefused(p) PROVE LockIInv'
  BY <1>3, CloseFdIInv DEF LockRefused
<1>4. ASSUME NEW p \in Proc, WriteOwner(p) PROVE LockIInv'
  BY <1>4, SMT DEF WriteOwner, LockIInv, LockTypeOK, LockPC, NoStaleFlock
<1>5. ASSUME NEW p \in Proc, WriteOwnerFails(p) PROVE LockIInv'
  BY <1>5, CloseFdIInv DEF WriteOwnerFails
<1>6. ASSUME NEW p \in Proc, DropUnlink(p) PROVE LockIInv'
  <2>1. LockTypeOK'
    BY <1>6 DEF DropUnlink, LockIInv, LockTypeOK, LockPC
  <2>2. NoStaleFlock'
    BY <1>6, SMT DEF DropUnlink, LockIInv, LockTypeOK, LockPC, NoStaleFlock
  <2>3. \A q \in Proc : lpc'[q] \in {"locked", "held", "unlinked"} => flock'[fd'[q]] = q
    BY <1>6 DEF DropUnlink, LockIInv, LockTypeOK, LockPC
  <2>4. ASSUME ~raced', NEW q \in Proc PROVE lpc'[q] \notin {"opened", "locked", "held"}
    <3>1. ~raced /\ lpc[q] # "opened"
      BY <1>6, <2>4 DEF DropUnlink, LockIInv, LockTypeOK
    <3>2. CASE q = p
      BY <1>6, <3>2 DEF DropUnlink, LockIInv, LockTypeOK
    <3>3. CASE q # p
      (* Both would own the lock of the one inode the path names. *)
      <4>1. lpc[q] \in {"locked", "held"} => fd[q] = fd[p] /\ flock[fd[q]] = q /\ flock[fd[p]] = p
        BY <1>6, <3>1 DEF DropUnlink, LockIInv
      <4>2. QED BY <1>6, <3>1, <3>3, <4>1 DEF DropUnlink, LockIInv, LockTypeOK
    <3>4. QED BY <3>2, <3>3
  <2>5. QED BY <2>1, <2>2, <2>3, <2>4 DEF LockIInv
<1>7. ASSUME NEW p \in Proc, DropClose(p) PROVE LockIInv'
  BY <1>7, CloseFdIInv DEF DropClose
<1>8. ASSUME NEW p \in Proc, LockCrash(p) PROVE LockIInv'
  BY <1>8, CloseFdIInv DEF LockCrash
<1>9. CASE UNCHANGED lockVars
  BY <1>9 DEF lockVars, LockIInv, LockTypeOK, NoStaleFlock
<1>10. CASE LockReboot
  BY <1>10 DEF LockReboot, LockIInv, LockTypeOK, NoStaleFlock
<1>11. QED
  BY <1>1, <1>2, <1>3, <1>4, <1>5, <1>6, <1>7, <1>8, <1>9, <1>10 DEF LockNext, LockStep

(* UpdateLock::acquire and drop (lock.rs:17-50): in every behaviour and    *)
(* for any number of processes, the types hold, two processes hold the     *)
(* lock together only after an unlink has raced an open, and an inode is   *)
(* never locked by a process that has let go of it.                        *)
THEOREM LockSafety == LockSpec => [](LockTypeOK /\ ExclusiveUnlessRaced /\ NoStaleFlock)
<1>1. LockIInv => LockTypeOK /\ ExclusiveUnlessRaced /\ NoStaleFlock
  BY DEF LockIInv, ExclusiveUnlessRaced, MutualExclusion
<1>2. QED
  BY <1>1, LockInitIInv, LockNextIInv, PTL DEF LockSpec

-----------------------------------------------------------------------------
(* The installer, first what it never touches.                             *)


(* The commands that cannot harm the booted slot: writes go to spare       *)
(* volumes, neither a rename nor the UKI commands name the booted version, *)
(* and no volume gets the name of a legacy version.                        *)
SafeStep ==
  {st \in Step :
     /\ st.cmd \in {"lvcreate", "dd"} => st.at \in EmptyStatus
     /\ st.cmd = "lvrename" => /\ \A v \in Version : Booted(v) => st.at # Used(v)
                               /\ \A v \in Version : ~HasHash(v) => st.to # Used(v)
     /\ st.cmd \in {"install", "unlink"} => ~Booted(st.version)
     /\ st.cmd = "install" => HasHash(st.version)}

(* Every pending plan consists of such commands, because the slot a kernel *)
(* with a revision runs from is complete (so that it counts as installed)  *)
(* and only versions with a hash have UKIs.                                *)
PlansSafe ==
  \A p \in Proc : /\ plan[p] \in Seq(SafeStep)
                  /\ phase[p] \in {"idle", "read"} => plan[p] = <<>>

HasSlot(v) == \A k \in Kind : vol[k][Used(v)] # Absent

BootedComplete ==
  /\ kernel \in Version => HasSlot(kernel)
  /\ kernel = NoRevision => \E v \in Version : ~HasHash(v) /\ HasSlot(v)

(* No volume ever takes the name of a legacy version, so that the host has *)
(* at most the one it began with.                                          *)
OneLegacy ==
  \A v, w \in Version, j, k \in Kind :
    /\ ~HasHash(v) /\ vol[j][Used(v)] # Absent
    /\ ~HasHash(w) /\ vol[k][Used(w)] # Absent
    => v = w

UkisHashed ==
  /\ \A v \in Version : uki[v] # "none" => HasHash(v)
  /\ \A p \in Proc : \A v \in seen[p].ukis : HasHash(v)

(* The inductive invariant.                                                *)
IInv == TypeOK /\ LockIInv /\ PlansSafe /\ BootedComplete /\ OneLegacy /\ UkisHashed

(* What a step must leave alone (BootedSlotUntouched).                     *)
KeepsBooted ==
  \A v \in Version : Booted(v) =>
    /\ \A k \in Kind : vol[k][Used(v)] # Absent => vol'[k][Used(v)] = vol[k][Used(v)]
    /\ uki[v] # "none" => uki'[v] = uki[v]

DiskTypeOK ==
  /\ vol \in [Kind -> [Status -> Content]]
  /\ uki \in [Version -> UkiFile]
  /\ legacyEntry \in BOOLEAN
  /\ migrated \in SUBSET Migration

-----------------------------------------------------------------------------
LEMMA StatusDistinct ==
  /\ \A v, w \in Version : Used(v) = Used(w) => v = w
  /\ \A v \in Version : Used(v) \notin EmptyStatus
  /\ \A v \in Version : Used(v) \in Status
  /\ EmptyStatus \subseteq Status
BY DEF Used, EmptyStatus, Empty, EmptyLegacy, Status, UsedStatus

LEMMA ContentDistinct ==
  /\ Absent # Blank /\ Absent # Torn
  /\ \A v \in Version : Image(v) # Absent
  /\ \A v \in Version : Image(v) \in Content
  /\ Absent \in Content /\ Blank \in Content /\ Torn \in Content
BY DEF Absent, Blank, Torn, Image, Content

(* Lists of steps.                                                         *)
LEMMA ConcatIn ==
  ASSUME NEW S, NEW q \in Seq(S), NEW r \in Seq(S) PROVE q \o r \in Seq(S)
BY SMT

LEMMA HeadTailIn ==
  ASSUME NEW S, NEW q \in Seq(S), q # <<>> PROVE Head(q) \in S /\ Tail(q) \in Seq(S)
BY SMT

LEMMA NoSteps ==
  ASSUME NEW S, NEW q \in Seq(S), Len(q) = 0 PROVE q = <<>>
BY SMT

(* The plans of install and remove (plan.rs:37-62, 137-193) are safe.      *)
LEMMA InstallPlanSafe ==
  ASSUME NEW s \in EmptyStatus, NEW v \in InstallArg, ~Booted(v),
         NEW legacyActive
  PROVE  install_into_slot(s, v, legacyActive) \in Seq(SafeStep)
<1>0. /\ s \in Status /\ v \in Version /\ Used(v) \in Status /\ HasHash(v)
      /\ \A w \in Version : Used(w) # s
      /\ \A w \in Version : ~HasHash(w) => Used(v) # Used(w)
  BY StatusDistinct DEF InstallArg
<1>1. \A k \in Kind : /\ Dd(k, s, v) \in SafeStep
                      /\ Flush(k, s) \in SafeStep
                      /\ LvRename(k, s, Used(v)) \in SafeStep
  BY <1>0 DEF Dd, Flush, LvRename, SafeStep, Step
<1>2. InstallUki(v) \in SafeStep
  BY <1>0 DEF InstallUki, SafeStep, Step
<1>3. \A m \in Migration : Migrate(m) \in SafeStep
  BY DEF Migrate, SafeStep, Step
<1>4. << Dd("root", s, v), Dd("verity", s, v), Flush("root", s), Flush("verity", s),
         LvRename("root", s, Used(v)), LvRename("verity", s, Used(v)),
         InstallUki(v) >> \in Seq(SafeStep)
  BY <1>1, <1>2, SMT DEF Kind
<1>5. (IF legacyActive
       THEN <<Migrate("loader.conf"), Migrate("entries.srel"), Migrate("default")>>
       ELSE <<>>) \in Seq(SafeStep)
  BY <1>3, SMT DEF Migration
<1>6. QED BY <1>4, <1>5, ConcatIn DEF install_into_slot

LEMMA PreparePlanSafe ==
  ASSUME NEW s \in EmptyStatus
  PROVE  resize_steps_for_slot(s) \in Seq(SafeStep) /\ create_empty_slot(s) \in Seq(SafeStep)
<1>1. s \in Status
  BY StatusDistinct
<1>2. \A k \in Kind : LvResize(k, s) \in SafeStep /\ LvCreate(k, s) \in SafeStep
  BY <1>1 DEF LvResize, LvCreate, SafeStep, Step
<1>3. (IF "root" \in Undersized THEN <<LvResize("root", s)>> ELSE <<>>) \in Seq(SafeStep)
  BY <1>2, SMT DEF Kind
<1>4. (IF "verity" \in Undersized THEN <<LvResize("verity", s)>> ELSE <<>>) \in Seq(SafeStep)
  BY <1>2, SMT DEF Kind
<1>5. create_empty_slot(s) \in Seq(SafeStep)
  BY <1>2, SMT DEF create_empty_slot, Kind
<1>6. QED BY <1>3, <1>4, <1>5, ConcatIn DEF resize_steps_for_slot

LEMMA RemovePlanSafe ==
  ASSUME NEW g, NEW v \in Version, ~Booted(v), NEW s \in EmptyStatus,
         NEW n, s = Empty(n), NEW legacySeen
  PROVE  remove_slot(g, v, n, legacySeen) \in Seq(SafeStep)
<1>0. /\ s \in Status /\ Used(v) \in Status
      /\ \A w \in Version : Used(w) = Used(v) => w = v
      /\ \A w \in Version : Empty(n) # Used(w)
  BY StatusDistinct
<1>1. \A k \in Kind : LvRename(k, Used(v), Empty(n)) \in SafeStep
  BY <1>0 DEF LvRename, SafeStep, Step
<1>2. UnlinkUki(v) \in SafeStep /\ UnlinkLegacy \in SafeStep
  BY DEF UnlinkUki, UnlinkLegacy, SafeStep, Step
<1>3. (IF g.boot THEN <<UnlinkUki(v)>> ELSE <<>>) \in Seq(SafeStep)
  BY <1>2, SMT
<1>4. (IF is_legacy(g) /\ legacySeen THEN <<UnlinkLegacy>> ELSE <<>>) \in Seq(SafeStep)
  BY <1>2, SMT
<1>5. (IF "root" \in g.kinds THEN <<LvRename("root", Used(v), Empty(n))>> ELSE <<>>) \in Seq(SafeStep)
  BY <1>1, SMT DEF Kind
<1>6. (IF "verity" \in g.kinds THEN <<LvRename("verity", Used(v), Empty(n))>> ELSE <<>>) \in Seq(SafeStep)
  BY <1>1, SMT DEF Kind
<1>7. QED BY <1>3, <1>4, <1>5, <1>6, ConcatIn DEF remove_slot

-----------------------------------------------------------------------------
(* The running image counts as installed (runtime.rs:90-95), so no install *)
(* of it is ever planned.                                                  *)
LEMMA BootedInstalled ==
  ASSUME IInv, NEW p \in Proc, kernel \in Version
  PROVE  AlreadyInstalled(Groups(p), kernel)
<1> DEFINE s == Used(kernel)
           g == [status |-> s, kinds |-> KindsOf(Present, s),
                 boot |-> "root" \in KindsOf(Present, s) /\ \E v \in seen[p].ukis : s = Used(v)]
<1>1. s \in Status
  BY StatusDistinct
<1>2. \A k \in Kind : <<k, s>> \in Present
  BY <1>1 DEF IInv, BootedComplete, HasSlot, Present
<1>3. KindsOf(Present, s) = Kind
  BY <1>2 DEF KindsOf
<1>4. g \in Groups(p)
  BY <1>1, <1>3 DEF Groups, group_volumes, Kind
<1>5. is_used(g) /\ is_complete(g) /\ has_version(g, kernel)
  BY <1>3 DEF is_used, is_complete, has_version, UsedStatus, Kind
<1>6. QED BY <1>4, <1>5 DEF AlreadyInstalled

(* The check "cannot remove active slot" (plan.rs:140-142) covers every    *)
(* version the kernel may be running.                                      *)
LEMMA RemovableNotBooted ==
  ASSUME IInv, NEW p \in Proc, NEW g \in Groups(p), NEW v \in Version,
         has_version(g, v), Removable(g)
  PROVE  ~Booted(v)
<1>1. ~is_active(g, kernel)
  BY DEF Removable
<1>2. CASE kernel # NoRevision
  BY <1>1, <1>2 DEF is_active, Booted
<1>3. CASE kernel = NoRevision
  <2>1. SUFFICES ASSUME ~HasHash(v) PROVE FALSE
    BY <1>3 DEF Booted
  <2>2. g.kinds = {}
    BY <1>1, <1>3, <2>1 DEF is_active, is_legacy
  <2>3. PICK w \in seen[p].ukis : g = [status |-> Used(w), kinds |-> {}, boot |-> TRUE]
    <3>1. ASSUME NEW s \in Status, KindsOf(Present, s) # {},
                 g = [status |-> s, kinds |-> KindsOf(Present, s),
                      boot |-> "root" \in KindsOf(Present, s)
                               /\ \E u \in seen[p].ukis : s = Used(u)]
          PROVE  FALSE
      BY <2>2, <3>1
    <3>2. QED BY <3>1 DEF Groups, group_volumes
  <2>4. w \in Version /\ HasHash(w)
    BY DEF IInv, TypeOK, UkisHashed
  <2>5. Used(v) = Used(w)
    BY <2>3 DEF has_version
  <2>6. QED BY <2>1, <2>4, <2>5, StatusDistinct
<1>4. QED BY <1>2, <1>3

-----------------------------------------------------------------------------
(* The effect on the disk of a safe command, whether it succeeds or is cut *)
(* short.                                                                  *)
DiskStep(st) ==
  \/ Succeeds(st)
  \/ Interrupted(st)
  \/ /\ st.cmd = "dd"
     /\ SetVol(st.kind, st.at, Torn)
     /\ UNCHANGED <<uki, legacyEntry, migrated>>

LEMMA DiskStepSafe ==
  ASSUME IInv, NEW st \in SafeStep, DiskStep(st), kernel' = kernel
  PROVE  /\ DiskTypeOK'
         /\ KeepsBooted
         /\ BootedComplete' /\ OneLegacy'
         /\ \A v \in Version : uki'[v] # "none" => HasHash(v)
<1> USE ContentDistinct
<1>0. DiskTypeOK /\ st \in Step
  BY DEF IInv, TypeOK, DiskTypeOK, SafeStep
<1>1. CASE UNCHANGED diskVars
  BY <1>0, <1>1 DEF diskVars, DiskTypeOK, KeepsBooted, IInv, BootedComplete, HasSlot, OneLegacy, UkisHashed
<1>2. ASSUME NEW k \in Kind, NEW s \in EmptyStatus, NEW c \in Content \ {Absent},
             SetVol(k, s, c), UNCHANGED <<uki, legacyEntry, migrated>>
      PROVE  DiskTypeOK' /\ KeepsBooted /\ BootedComplete' /\ OneLegacy'
  <2>1. vol' \in [Kind -> [Status -> Content]]
    BY <1>0, <1>2, StatusDistinct DEF SetVol, DiskTypeOK
  <2>2. \A j \in Kind, v \in Version : vol'[j][Used(v)] = vol[j][Used(v)]
    BY <1>0, <1>2, StatusDistinct DEF SetVol, DiskTypeOK
  <2>3. BootedComplete' /\ OneLegacy'
    BY <2>2, SMT DEF IInv, BootedComplete, HasSlot, OneLegacy
  <2>4. QED
    BY <1>0, <1>2, <2>1, <2>2, <2>3 DEF DiskTypeOK, KeepsBooted
<1>3. CASE st.cmd = "lvcreate" /\ SetVol(st.kind, st.at, Blank)
           /\ UNCHANGED <<uki, legacyEntry, migrated>>
  <2>1. st.kind \in Kind /\ st.at \in EmptyStatus
    BY <1>3 DEF SafeStep, Step
  <2>2. QED BY <1>2, <1>3, <2>1 DEF IInv, UkisHashed
<1>4. CASE st.cmd = "dd" /\ (\E c \in {Torn, Image(st.version)} : SetVol(st.kind, st.at, c))
           /\ UNCHANGED <<uki, legacyEntry, migrated>>
  <2>1. st.kind \in Kind /\ st.at \in EmptyStatus /\ st.version \in Version
    BY <1>4 DEF SafeStep, Step
  <2>2. PICK c \in {Torn, Image(st.version)} : SetVol(st.kind, st.at, c)
    BY <1>4
  <2>3. c \in Content \ {Absent}
    BY <2>1, <2>2
  <2>4. QED BY <1>2, <1>4, <2>1, <2>2, <2>3 DEF IInv, UkisHashed
<1>5. CASE st.cmd = "lvrename" /\ Succeeds(st)
  <2>1. /\ st.kind \in Kind /\ st.at \in Status /\ st.to \in Status
        /\ \A v \in Version : Booted(v) => st.at # Used(v)
        /\ \A v \in Version : ~HasHash(v) => st.to # Used(v)
    BY <1>5 DEF SafeStep, Step
  <2>2. /\ vol[st.kind][st.at] # Absent /\ vol[st.kind][st.to] = Absent
        /\ vol' = [vol EXCEPT ![st.kind] =
                     [@ EXCEPT ![st.to] = vol[st.kind][st.at], ![st.at] = Absent]]
        /\ UNCHANGED <<uki, legacyEntry, migrated>>
    BY <1>5 DEF Succeeds, CanRun
  <2>3. DiskTypeOK'
    BY <1>0, <2>1, <2>2 DEF DiskTypeOK
  <2>4. \A v \in Version, k \in Kind : Booted(v) /\ vol[k][Used(v)] # Absent =>
          vol'[k][Used(v)] = vol[k][Used(v)]
    BY <1>0, <2>1, <2>2, StatusDistinct DEF DiskTypeOK
  <2>5. KeepsBooted
    BY <2>2, <2>4 DEF KeepsBooted
  <2>6. BootedComplete'
    <3>1. CASE kernel \in Version
      BY <2>4, <3>1, SlotAssumption DEF IInv, BootedComplete, HasSlot, Booted
    <3>2. CASE kernel = NoRevision
      <4>1. PICK v \in Version : ~HasHash(v) /\ HasSlot(v)
        BY <3>2 DEF IInv, BootedComplete
      <4>2. Booted(v)
        BY <3>2, <4>1 DEF Booted
      <4>3. HasSlot(v)'
        BY <2>4, <4>1, <4>2 DEF HasSlot
      <4>4. QED BY <3>2, <4>1, <4>3, SlotAssumption DEF BootedComplete
    <3>3. QED BY <3>1, <3>2 DEF BootedComplete
  <2>7. \A v \in Version, k \in Kind : ~HasHash(v) /\ vol'[k][Used(v)] # Absent =>
          vol[k][Used(v)] # Absent
    BY <1>0, <2>1, <2>2, StatusDistinct DEF DiskTypeOK
  <2>8. OneLegacy'
    BY <2>7 DEF IInv, OneLegacy
  <2>9. QED BY <2>2, <2>3, <2>5, <2>6, <2>8 DEF IInv, UkisHashed
<1>6. ASSUME NEW f \in UkiFile, st.cmd \in {"install", "unlink"},
             st.cmd = "unlink" => f = "none",
             uki' = [uki EXCEPT ![st.version] = f],
             UNCHANGED <<vol, legacyEntry, migrated>>
      PROVE  DiskTypeOK' /\ KeepsBooted /\ BootedComplete' /\ OneLegacy'
             /\ \A v \in Version : uki'[v] # "none" => HasHash(v)
  <2>1. /\ st.version \in Version /\ ~Booted(st.version)
        /\ st.cmd = "install" => HasHash(st.version)
    BY <1>6 DEF SafeStep, Step
  <2>2. DiskTypeOK'
    BY <1>0, <1>6, <2>1 DEF DiskTypeOK
  <2>3. KeepsBooted
    BY <1>0, <1>6, <2>1 DEF KeepsBooted, DiskTypeOK
  <2>4. BootedComplete' /\ OneLegacy'
    BY <1>6 DEF IInv, BootedComplete, HasSlot, OneLegacy
  <2>5. \A v \in Version : uki'[v] # "none" => HasHash(v)
    BY <1>0, <1>6, <2>1 DEF IInv, UkisHashed, DiskTypeOK
  <2>6. QED BY <2>2, <2>3, <2>4, <2>5
<1>7. CASE /\ UNCHANGED <<vol, uki>>
           /\ legacyEntry' \in BOOLEAN /\ migrated' \in SUBSET Migration
  BY <1>0, <1>7 DEF DiskTypeOK, KeepsBooted, IInv, BootedComplete, HasSlot, OneLegacy, UkisHashed
<1>8. QED
  <2>1. CASE Interrupted(st)
    BY <1>1, <1>4, <1>6, <2>1 DEF Interrupted, UkiFile
  <2>2. CASE st.cmd = "dd" /\ SetVol(st.kind, st.at, Torn) /\ UNCHANGED <<uki, legacyEntry, migrated>>
    BY <1>4, <2>2
  <2>3. CASE Succeeds(st)
    <3>1. CASE st.cmd = "lvcreate"
      BY <1>3, <2>3, <3>1 DEF Succeeds
    <3>2. CASE st.cmd \in {"lvresize", "flush"}
      BY <1>1, <2>3, <3>2 DEF Succeeds
    <3>3. CASE st.cmd = "dd"
      BY <1>1, <1>4, <2>3, <3>3 DEF Succeeds, diskVars
    <3>4. CASE st.cmd = "lvrename"
      BY <1>5, <2>3, <3>4
    <3>5. CASE st.cmd \in {"install", "unlink"}
      BY <1>6, <2>3, <3>5 DEF Succeeds, UkiFile
    <3>6. CASE st.cmd = "unlink_legacy"
      BY <1>0, <1>7, <2>3, <3>6 DEF Succeeds, DiskTypeOK
    <3>7. CASE st.cmd = "migrate"
      <4>1. st.what \in Migration
        BY <3>7, <1>0 DEF Step
      <4>2. QED BY <1>0, <1>7, <2>3, <3>7, <4>1 DEF Succeeds, DiskTypeOK
    <3>8. QED BY <1>0, <3>1, <3>2, <3>3, <3>4, <3>5, <3>6, <3>7 DEF Step
  <2>4. QED BY <2>1, <2>2, <2>3 DEF DiskStep

-----------------------------------------------------------------------------
(* The part of the invariant that concerns what invocations know.          *)
ProcOK ==
  /\ phase \in [Proc -> {"idle", "read", "planned", "running"}]
  /\ req \in [Proc -> Request]
  /\ seen \in [Proc -> [ukis : SUBSET Version, legacy : BOOLEAN]]
  /\ \A p \in Proc : \A v \in seen[p].ukis : HasHash(v)
  /\ plan \in [Proc -> Seq(SafeStep)]
  /\ \A p \in Proc : phase[p] \in {"idle", "read"} => plan[p] = <<>>
  /\ outcome \in [Proc -> {"none", "ok", "nothing"}]

DiskOK ==
  /\ DiskTypeOK
  /\ BootedComplete
  /\ OneLegacy
  /\ \A v \in Version : uki[v] # "none" => HasHash(v)

LEMMA IInvParts ==
  IInv <=> /\ ProcOK /\ DiskOK /\ LockIInv
           /\ kernel \in Version \cup {NoRevision}
           /\ faults \in 0 .. MaxFaults
<1>1. Seq(SafeStep) \subseteq Seq(Step)
  BY SMT DEF SafeStep
<1>2. QED
  BY <1>1 DEF IInv, TypeOK, PlansSafe, UkisHashed, ProcOK, DiskOK, DiskTypeOK, LockIInv

LEMMA IInvPartsNext ==
  (/\ ProcOK /\ DiskOK /\ LockIInv
   /\ kernel \in Version \cup {NoRevision}
   /\ faults \in 0 .. MaxFaults)' => IInv'
BY IInvParts, PTL

(* While the kernel stays, so does the set of safe commands.               *)
LEMMA SafeStepStable == ASSUME kernel' = kernel PROVE SafeStep' = SafeStep
BY DEF SafeStep, Booted

LEMMA QuietDisk ==
  ASSUME DiskOK, UNCHANGED diskVars, kernel' = kernel
  PROVE  DiskOK' /\ KeepsBooted
BY DEF DiskOK, DiskTypeOK, BootedComplete, HasSlot, OneLegacy, diskVars, KeepsBooted

LEMMA EndOK ==
  ASSUME ProcOK, NEW p \in Proc, End(p), kernel' = kernel
  PROVE  ProcOK'
<1>1. <<>> \in Seq(SafeStep) /\ NoReq \in Request
  BY SMT DEF Request
<1>2. NoBoot \in [ukis : SUBSET Version, legacy : BOOLEAN] /\ NoBoot.ukis = {}
  BY DEF NoBoot
<1>3. QED BY <1>1, <1>2, SafeStepStable DEF ProcOK, End

LEMMA ReadBootOK ==
  ASSUME IInv, NEW p \in Proc, NEW r \in Request, ReadBoot(p, r)
  PROVE  ProcOK'
<1>0. ProcOK /\ kernel' = kernel /\ plan' = plan
  BY IInvParts DEF ReadBoot
<1>1. Ukis \subseteq Version /\ \A v \in Ukis : HasHash(v)
  BY DEF Ukis, IInv, UkisHashed
<1>2. legacyEntry \in BOOLEAN
  BY DEF IInv, TypeOK
<1>3. QED BY <1>0, <1>1, <1>2, SafeStepStable DEF ProcOK, ReadBoot

LEMMA PlannedOK ==
  ASSUME ProcOK, NEW p \in Proc, req[p].cmd \in {"install", "remove"},
         NEW v, IF req[p].cmd = "install" THEN v \in InstallArg ELSE v \in RemoveArg,
         NEW steps \in Seq(SafeStep), Planned(p, v, steps), kernel' = kernel
  PROVE  ProcOK'
<1>1. [req[p] EXCEPT !.version = v] \in Request
  <2>1. CASE req[p].cmd = "install"
    <3>1. req[p] \in [cmd : {"install"}, version : InstallArg]
      BY <2>1, SMT DEF ProcOK, Request, NoReq
    <3>2. QED BY <2>1, <3>1 DEF Request
  <2>2. CASE req[p].cmd = "remove"
    <3>1. req[p] \in [cmd : {"remove"}, version : RemoveArg]
      BY <2>2, SMT DEF ProcOK, Request, NoReq
    <3>2. QED BY <2>2, <3>1 DEF Request
  <2>3. QED BY <2>1, <2>2
<1>2. NoBoot \in [ukis : SUBSET Version, legacy : BOOLEAN] /\ NoBoot.ukis = {}
  BY DEF NoBoot
<1>3. QED BY <1>1, <1>2, SafeStepStable DEF ProcOK, Planned

LEMMA NothingToDoOK ==
  ASSUME ProcOK, NEW p \in Proc, NothingToDo(p), phase[p] = "read", kernel' = kernel
  PROVE  ProcOK'
<1>1. NoBoot \in [ukis : SUBSET Version, legacy : BOOLEAN] /\ NoBoot.ukis = {}
  BY DEF NoBoot
<1>2. QED BY <1>1, SafeStepStable DEF ProcOK, NothingToDo

(* The identifiers and slots plans are made for are spare.                 *)
LEMMA SpareSlots ==
  /\ \A groups : \A n \in allocate_empty_identifier(groups) : Empty(n) \in EmptyStatus
  /\ \A groups : \A g \in SuitableSlots(groups) : g.status \in EmptyStatus
<1>1. \A groups : \A n \in allocate_empty_identifier(groups) : n \in 0 .. MaxEmptyId - 1
  BY DEF allocate_empty_identifier
<1>2. QED BY <1>1 DEF SuitableSlots, is_empty, EmptyStatus

LEMMA PlanInstallOK ==
  ASSUME IInv, NEW p \in Proc, PlanInstall(p)
  PROVE  ProcOK'
<1> DEFINE groups == Groups(p)
           v == req[p].version
<1>0. ProcOK /\ kernel' = kernel /\ phase[p] = "read" /\ req[p].cmd = "install"
  BY IInvParts DEF PlanInstall
<1>1. v \in InstallArg /\ v \in Version /\ HasHash(v)
  <2>1. req[p] \in [cmd : {"install"}, version : InstallArg]
    BY <1>0, SMT DEF ProcOK, Request, NoReq
  <2>2. QED BY <2>1 DEF InstallArg
<1>2. ~AlreadyInstalled(groups, v) => ~Booted(v)
  <2>1. CASE kernel \in Version
    BY <2>1, BootedInstalled, SlotAssumption DEF Booted
  <2>2. CASE kernel = NoRevision
    BY <2>2, <1>1 DEF Booted
  <2>3. QED BY <2>1, <2>2 DEF IInv, TypeOK
<1>3. CASE NothingToDo(p)
  BY <1>0, <1>3, NothingToDoOK
<1>4. CASE End(p)
  BY <1>0, <1>4, EndOK
<1>5. ASSUME NEW a \in ActiveGroups(groups), NEW g \in SuitableSlots(groups),
             ~AlreadyInstalled(groups, v),
             Planned(p, v, resize_steps_for_slot(g.status)
                           \o install_into_slot(g.status, v, is_legacy(a)))
      PROVE  ProcOK'
  <2>1. g.status \in EmptyStatus
    BY SpareSlots
  <2>2. resize_steps_for_slot(g.status) \in Seq(SafeStep)
    BY <2>1, PreparePlanSafe
  <2>3. install_into_slot(g.status, v, is_legacy(a)) \in Seq(SafeStep)
    BY <1>1, <1>2, <1>5, <2>1, InstallPlanSafe
  <2>4. resize_steps_for_slot(g.status) \o install_into_slot(g.status, v, is_legacy(a))
          \in Seq(SafeStep)
    BY <2>2, <2>3, ConcatIn
  <2>5. QED BY <1>0, <1>1, <1>5, <2>4, PlannedOK
<1>6. ASSUME NEW a \in ActiveGroups(groups), NEW n \in allocate_empty_identifier(groups),
             ~AlreadyInstalled(groups, v),
             Planned(p, v, create_empty_slot(Empty(n))
                           \o install_into_slot(Empty(n), v, is_legacy(a)))
      PROVE  ProcOK'
  <2>1. Empty(n) \in EmptyStatus
    BY SpareSlots
  <2>2. create_empty_slot(Empty(n)) \in Seq(SafeStep)
    BY <2>1, PreparePlanSafe
  <2>3. install_into_slot(Empty(n), v, is_legacy(a)) \in Seq(SafeStep)
    BY <1>1, <1>2, <1>6, <2>1, InstallPlanSafe
  <2>4. create_empty_slot(Empty(n)) \o install_into_slot(Empty(n), v, is_legacy(a))
          \in Seq(SafeStep)
    BY <2>2, <2>3, ConcatIn
  <2>5. QED BY <1>0, <1>1, <1>6, <2>4, PlannedOK
<1>7. QED BY <1>3, <1>4, <1>5, <1>6 DEF PlanInstall

LEMMA PlanRemoveOK ==
  ASSUME IInv, NEW p \in Proc, PlanRemove(p)
  PROVE  ProcOK'
<1> DEFINE groups == Groups(p)
<1>0. ProcOK /\ kernel' = kernel /\ phase[p] = "read" /\ req[p].cmd = "remove"
  BY IInvParts DEF PlanRemove
<1>1. CASE End(p)
  BY <1>0, <1>1, EndOK
<1>2. ASSUME NEW g \in find_slot_group(groups, req[p].version), NEW v \in Version,
             NEW n \in allocate_empty_identifier(groups),
             has_version(g, v), Removable(g),
             Planned(p, v, remove_slot(g, v, n, seen[p].legacy))
      PROVE  ProcOK'
  <2>1. g \in groups
    BY DEF find_slot_group
  <2>2. ~Booted(v)
    BY <1>2, <2>1, RemovableNotBooted
  <2>3. Empty(n) \in EmptyStatus
    BY SpareSlots
  <2>4. remove_slot(g, v, n, seen[p].legacy) \in Seq(SafeStep)
    BY <2>2, <2>3, RemovePlanSafe
  <2>5. v \in RemoveArg
    BY DEF RemoveArg
  <2>6. QED BY <1>0, <1>2, <2>4, <2>5, PlannedOK
<1>3. QED BY <1>1, <1>2 DEF PlanRemove

LEMMA NextStepOK ==
  ASSUME ProcOK, NEW p \in Proc, Executing(p), NextStep(p)
  PROVE  ProcOK'
<1>0. plan[p] \in Seq(SafeStep) /\ plan[p] # <<>> /\ kernel' = kernel
  BY DEF ProcOK, Executing, NextStep
<1>1. Tail(plan[p]) \in Seq(SafeStep)
  BY <1>0, HeadTailIn
<1>2. QED BY <1>0, <1>1, SafeStepStable DEF ProcOK, NextStep

LEMMA HeadSafe ==
  ASSUME ProcOK, NEW p \in Proc, Executing(p)
  PROVE  Head(plan[p]) \in SafeStep
BY HeadTailIn DEF ProcOK, Executing

(* Every step of ImageUpdate is a step of UpdateLock or leaves the lock    *)
(* alone.                                                                  *)
LEMMA NextIsLockStep == [Next]_vars => [LockNext]_lockVars
<1> SUFFICES ASSUME [Next]_vars PROVE [LockNext]_lockVars
  OBVIOUS
<1>1. ASSUME NEW p \in Proc, ProcStep(p) PROVE LockStep(p) \/ UNCHANGED lockVars
  <2>1. CASE Invoke(p) \/ PlanInstall(p) \/ PlanRemove(p) \/ DryRun(p)
    BY <2>1 DEF Invoke, ReadBoot, PlanInstall, PlanRemove, DryRun
  <2>2. CASE ExecStep(p) \/ ExecShortWrite(p) \/ ExecFails(p)
    BY <2>2 DEF ExecStep, ExecShortWrite, ExecFails, NextStep
  <2>3. CASE Acquire(p) \/ AcquireFails(p) \/ Release(p) \/ Crash(p)
    BY <2>3 DEF Acquire, AcquireFails, Release, Crash, LockStep
  <2>4. QED BY <1>1, <2>1, <2>2, <2>3 DEF ProcStep
<1>2. CASE Reboot
  BY <1>2 DEF Reboot, LockNext
<1>3. CASE UNCHANGED vars
  BY <1>3 DEF vars
<1>4. QED BY <1>1, <1>2, <1>3 DEF Next, LockNext

LEMMA InitIInv == Init => IInv
<1> SUFFICES ASSUME Init PROVE IInv
  OBVIOUS
<1>1. LockIInv
  BY LockInitIInv DEF Init
<1>2. PICK v \in Version :
       /\ vol = [k \in Kind |-> [s \in Status |->
                   IF s = Used(v) THEN Image(v)
                   ELSE IF s = EmptyLegacy THEN Blank ELSE Absent]]
       /\ uki = [w \in Version |-> IF w = v /\ HasHash(v) THEN "whole" ELSE "none"]
       /\ legacyEntry = ~HasHash(v)
       /\ kernel = IF HasHash(v) THEN v ELSE NoRevision
  BY DEF Init
<1>3. kernel \in Version \cup {NoRevision} /\ faults \in 0 .. MaxFaults
  BY <1>2, FaultAssumption, SMT DEF Init
<1>4. ProcOK
  <2>1. <<>> \in Seq(SafeStep) /\ NoReq \in Request
    BY SMT DEF Request
  <2>2. NoBoot \in [ukis : SUBSET Version, legacy : BOOLEAN] /\ NoBoot.ukis = {}
    BY DEF NoBoot
  <2>3. QED BY <2>1, <2>2 DEF Init, ProcOK
<1>5. DiskOK
  <2>1. vol \in [Kind -> [Status -> Content]]
    BY <1>2, ContentDistinct
  <2>2. uki \in [Version -> UkiFile]
    BY <1>2 DEF UkiFile
  <2>3. BootedComplete
    <3>1. HasSlot(v)
      BY <1>2, StatusDistinct, ContentDistinct DEF HasSlot
    <3>2. QED BY <1>2, <3>1, SlotAssumption DEF BootedComplete
  <2>4. legacyEntry \in BOOLEAN /\ migrated \in SUBSET Migration
    BY <1>2 DEF Init
  <2>5. \A w \in Version : uki[w] # "none" => HasHash(w)
    BY <1>2
  <2>6. OneLegacy
    <3>1. \A w \in Version, k \in Kind : vol[k][Used(w)] # Absent => w = v
      BY <1>2, StatusDistinct DEF EmptyStatus
    <3>2. QED BY <3>1 DEF OneLegacy
  <2>7. QED BY <2>1, <2>2, <2>3, <2>4, <2>5, <2>6 DEF DiskOK, DiskTypeOK
<1>6. QED BY <1>1, <1>3, <1>4, <1>5, IInvParts

(* A step of an invocation that leaves the disk alone.                     *)
LEMMA QuietStepIInv ==
  ASSUME IInv, ProcOK', LockIInv', UNCHANGED <<diskVars, kernel>>, faults' \in 0 .. MaxFaults
  PROVE  IInv' /\ KeepsBooted
<1>1. DiskOK' /\ KeepsBooted
  BY IInvParts, QuietDisk
<1>2. kernel' \in Version \cup {NoRevision}
  BY DEF IInv, TypeOK
<1>3. QED BY <1>1, <1>2, IInvPartsNext

LEMMA NextIInv == IInv /\ [Next]_vars => IInv' /\ (kernel' = kernel => KeepsBooted)
<1> SUFFICES ASSUME IInv, [Next]_vars
             PROVE  IInv' /\ (kernel' = kernel => KeepsBooted)
  OBVIOUS
<1>0. /\ LockIInv' /\ ProcOK /\ DiskOK /\ faults \in 0 .. MaxFaults
      /\ kernel \in Version \cup {NoRevision}
  BY NextIsLockStep, LockNextIInv, IInvParts DEF IInv
<1>f. Fault => faults' \in 0 .. MaxFaults
  BY <1>0, FaultAssumption, SMT DEF Fault
<1>1. ASSUME NEW p \in Proc, Invoke(p) PROVE IInv' /\ KeepsBooted
  <2>1. PICK r \in Request : ReadBoot(p, r)
    <3>1. \A v \in InstallArg : [cmd |-> "install", version |-> v] \in Request
      BY DEF Request
    <3>2. \A v \in RemoveArg : [cmd |-> "remove", version |-> v] \in Request
      BY DEF Request
    <3>3. QED BY <1>1, <3>1, <3>2 DEF Invoke
  <2>2. ProcOK'
    BY <2>1, ReadBootOK
  <2>3. QED BY <1>0, <2>1, <2>2, QuietStepIInv DEF ReadBoot
<1>2. ASSUME NEW p \in Proc, PlanInstall(p) PROVE IInv' /\ KeepsBooted
  BY <1>0, <1>2, PlanInstallOK, QuietStepIInv DEF PlanInstall
<1>3. ASSUME NEW p \in Proc, PlanRemove(p) PROVE IInv' /\ KeepsBooted
  BY <1>0, <1>3, PlanRemoveOK, QuietStepIInv DEF PlanRemove
<1>4. ASSUME UNCHANGED <<diskVars, kernel, procVars, faults>> PROVE IInv' /\ KeepsBooted
  <2>1. ProcOK'
    BY <1>0, <1>4, SafeStepStable DEF ProcOK, procVars
  <2>2. QED BY <1>0, <1>4, <2>1, QuietStepIInv
<1>5. ASSUME NEW p \in Proc, AcquireFails(p) PROVE IInv' /\ KeepsBooted
  BY <1>0, <1>f, <1>5, EndOK, QuietStepIInv DEF AcquireFails
<1>6. ASSUME NEW p \in Proc, Release(p) PROVE IInv' /\ KeepsBooted
  <2>1. CASE UNCHANGED procVars
    BY <1>4, <1>6, <2>1 DEF Release
  <2>2. CASE End(p)
    BY <1>0, <1>6, <2>2, EndOK, QuietStepIInv DEF Release
  <2>3. QED BY <1>6, <2>1, <2>2 DEF Release
<1>7. ASSUME NEW p \in Proc, DryRun(p) PROVE IInv' /\ KeepsBooted
  <2>1. ProcOK'
    BY <1>0, <1>7, SafeStepStable, SMT DEF ProcOK, DryRun
  <2>2. QED BY <1>0, <1>7, <2>1, QuietStepIInv DEF DryRun
<1>8. ASSUME NEW st \in SafeStep, DiskStep(st), kernel' = kernel, ProcOK',
             faults' \in 0 .. MaxFaults
      PROVE  IInv' /\ KeepsBooted
  <2>1. DiskOK' /\ KeepsBooted
    BY <1>8, DiskStepSafe DEF DiskOK
  <2>2. QED BY <1>0, <1>8, <2>1, IInvPartsNext
<1>9. ASSUME NEW p \in Proc, ExecStep(p) \/ ExecShortWrite(p) PROVE IInv' /\ KeepsBooted
  <2>1. Executing(p) /\ NextStep(p) /\ DiskStep(Head(plan[p])) /\ faults' \in 0 .. MaxFaults
    BY <1>0, <1>f, <1>9 DEF ExecStep, ExecShortWrite, DiskStep
  <2>2. Head(plan[p]) \in SafeStep /\ ProcOK' /\ kernel' = kernel
    BY <1>0, <2>1, HeadSafe, NextStepOK DEF NextStep
  <2>3. QED BY <1>8, <2>1, <2>2
<1>10. ASSUME NEW p \in Proc, ExecFails(p) PROVE IInv' /\ KeepsBooted
  <2>1. Executing(p) /\ DiskStep(Head(plan[p])) /\ faults' \in 0 .. MaxFaults /\ kernel' = kernel
    BY <1>0, <1>f, <1>10 DEF ExecFails, DiskStep, Interrupted
  <2>2. ProcOK'
    BY <1>0, <1>10, SafeStepStable, SMT DEF ProcOK, ExecFails
  <2>3. QED BY <1>0, <1>8, <2>1, <2>2, HeadSafe
<1>11. ASSUME NEW p \in Proc, Crash(p) PROVE IInv' /\ KeepsBooted
  <2>1. ProcOK' /\ kernel' = kernel /\ faults' \in 0 .. MaxFaults
    BY <1>0, <1>f, <1>11, EndOK DEF Crash
  <2>2. CASE Executing(p)
    BY <1>0, <1>8, <1>11, <2>1, <2>2, HeadSafe DEF Crash, DiskStep
  <2>3. CASE ~Executing(p)
    BY <1>0, <1>11, <2>1, <2>3, QuietStepIInv DEF Crash
  <2>4. QED BY <2>2, <2>3
<1>12. CASE Reboot
  (* No plan is pending, and the new slot has both volumes. *)
  <2>1. \A p \in Proc : plan[p] = <<>>
    BY <1>0, <1>12 DEF Reboot, ProcOK
  <2>2. PICK v \in Version :
          /\ HasSlot(v)
          /\ kernel' = v \/ (kernel' = NoRevision /\ ~HasHash(v))
    BY <1>12 DEF Reboot, HasSlot
  <2>3. plan' \in [Proc -> Seq(SafeStep')] /\ plan' = plan
    <3>1. plan' = plan /\ <<>> \in Seq(SafeStep')
      BY <1>12, SMT DEF Reboot, procVars
    <3>2. QED BY <1>0, <2>1, <3>1 DEF ProcOK
  <2>4. ProcOK'
    BY <1>0, <1>12, <2>3 DEF Reboot, procVars, ProcOK
  <2>5. DiskOK'
    <3>1. HasSlot(v)' /\ OneLegacy'
      BY <1>0, <1>12, <2>2 DEF Reboot, diskVars, DiskOK, HasSlot, OneLegacy
    <3>2. BootedComplete'
      BY <2>2, <3>1, SlotAssumption DEF BootedComplete
    <3>3. QED BY <1>0, <1>12, <3>1, <3>2 DEF Reboot, diskVars, DiskOK, DiskTypeOK
  <2>6. KeepsBooted
    BY <1>12 DEF Reboot, diskVars, KeepsBooted
  <2>7. faults' \in 0 .. MaxFaults /\ kernel' \in Version \cup {NoRevision}
    BY <1>0, <1>12, <2>2 DEF Reboot
  <2>8. QED BY <1>0, <2>4, <2>5, <2>6, <2>7, IInvPartsNext
<1>13. CASE UNCHANGED vars
  BY <1>4, <1>13 DEF vars
<1>14. ASSUME NEW p \in Proc, Acquire(p) PROVE IInv' /\ KeepsBooted
  BY <1>4, <1>14 DEF Acquire
<1>15. QED
  BY <1>1, <1>2, <1>3, <1>5, <1>6, <1>7, <1>9, <1>10, <1>11, <1>12, <1>13, <1>14
     DEF Next, ProcStep

-----------------------------------------------------------------------------
(* Every state of every behaviour is well typed.                           *)
THEOREM ImageUpdateTypes == Spec => []TypeOK
<1>1. IInv => TypeOK
  BY DEF IInv
<1>2. QED BY <1>1, InitIInv, NextIInv, PTL DEF Spec

(* install (plan.rs:37-62, runtime.rs:86-119) and remove (plan.rs:137-193) *)
(* never touch the slot the host runs from: for any number of concurrent   *)
(* invocations and whatever fails, as the lock is not even used.           *)
THEOREM BootedSlotSafe == Spec => BootedSlotUntouched
<1>1. IInv /\ [Next]_vars =>
        [kernel' = kernel =>
           \A v \in Version : Booted(v) =>
             /\ \A k \in Kind : vol[k][Used(v)] # Absent => vol'[k][Used(v)] = vol[k][Used(v)]
             /\ uki[v] # "none" => uki'[v] = uki[v]]_vars
  BY NextIInv DEF KeepsBooted
<1>2. QED BY <1>1, InitIInv, NextIInv, PTL DEF Spec, BootedSlotUntouched

(* The group of the booted version is the only active one.                 *)
LEMMA OneActive == IInv => ActiveSlotUnique
<1> SUFFICES ASSUME IInv PROVE ActiveSlotUnique
  OBVIOUS
<1> DEFINE groups == group_volumes(Present, Ukis)
           G(s) == [status |-> s, kinds |-> KindsOf(Present, s),
                    boot |-> "root" \in KindsOf(Present, s) /\ \E v \in Ukis : s = Used(v)]
<1>1. PICK w \in Version :
         /\ HasSlot(w)
         /\ \/ kernel = w
            \/ kernel = NoRevision /\ ~HasHash(w)
  BY DEF IInv, TypeOK, BootedComplete
<1>2. Used(w) \in Status /\ KindsOf(Present, Used(w)) = Kind
  BY <1>1, StatusDistinct DEF HasSlot, Present, KindsOf
<1>3. /\ G(Used(w)) \in groups /\ G(Used(w)) \in Group
      /\ G(Used(w)).kinds = Kind /\ G(Used(w)).status = Used(w)
  <2>1. G(Used(w)) \in groups
    BY <1>2 DEF group_volumes, Kind
  <2>2. G(Used(w)) \in Group
    BY <1>2 DEF Group
  <2>3. QED BY <1>2, <2>1, <2>2
<1>4. is_active(G(Used(w)), kernel)
  <2>1. is_legacy(G(Used(w))) \/ HasHash(w)
    BY <1>3 DEF is_legacy, has_version, Kind
  <2>2. has_version(G(Used(w)), w)
    BY <1>3 DEF has_version
  <2>3. QED BY <1>1, <2>1, <2>2, SlotAssumption DEF is_active
<1>5. ASSUME NEW g \in groups, is_active(g, kernel) PROVE g = G(Used(w))
  <2>1. PICK v \in Version :
           /\ g.status = Used(v)
           /\ kernel # NoRevision => v = kernel
           /\ kernel = NoRevision => is_legacy(g)
    BY <1>5 DEF is_active, has_version
  <2>2. ASSUME NEW u \in Ukis, <<"root", Used(u)>> \notin Present,
               g = [status |-> Used(u), kinds |-> {}, boot |-> TRUE]
        PROVE  FALSE
    <3>0. g.kinds = {} /\ g.status = Used(u)
      BY <2>2
    <3>1. kernel # NoRevision
      BY <2>1, <3>0 DEF is_legacy
    <3>2. u = w
      BY <1>1, <2>1, <3>0, <3>1, StatusDistinct DEF Ukis
    <3>3. QED BY <1>2, <2>2, <3>2 DEF KindsOf, Kind
  <2>3. PICK s \in Status : KindsOf(Present, s) # {} /\ g = G(s)
    BY <2>2 DEF group_volumes
  <2>4. s = Used(v)
    <3>1. G(s).status = s
      OBVIOUS
    <3>2. QED BY <2>1, <2>3, <3>1
  <2> HIDE DEF G
  <2>5. CASE kernel # NoRevision
    BY <1>1, <2>1, <2>3, <2>4, <2>5
  <2>6. CASE kernel = NoRevision
    <3>1. PICK x \in Version : Used(v) = Used(x) /\ ~HasHash(x)
      BY <2>1, <2>6, StatusDistinct DEF is_legacy, has_version, EmptyStatus
    <3>2. ~HasHash(v)
      BY <3>1, StatusDistinct
    <3>3. PICK k \in Kind : vol[k][Used(v)] # Absent
      BY <2>3, <2>4 DEF KindsOf, Present
    <3>4. v = w
      BY <1>1, <2>6, <3>2, <3>3, SlotAssumption DEF IInv, OneLegacy, HasSlot, Kind
    <3>5. QED BY <2>3, <2>4, <3>4
  <2>7. QED BY <2>5, <2>6
<1>6. ActiveGroups(groups) = {G(Used(w))}
  BY <1>3, <1>4, <1>5 DEF ActiveGroups
<1>7. is_complete(G(Used(w)))
  BY <1>3 DEF is_complete
<1>8. QED BY <1>3, <1>6, <1>7 DEF ActiveSlotUnique

(* Runtime::active_slot (runtime.rs:260-264) always finds exactly one slot, *)
(* and it is complete: for any versions, and whatever invocations run      *)
(* concurrently or fail.                                                   *)
THEOREM ActiveSlotFound == Spec => []ActiveSlotUnique
BY OneActive, InitIInv, NextIInv, PTL DEF Spec

(* The installer uses the lock as UpdateLock specifies it (install.rs:62-  *)
(* 79), so what LockSafety proves of the lock holds of the installer.      *)
THEOREM ImplementsLock == Spec => LockSpec
<1>1. Init => LockInit
  BY DEF Init
<1>2. QED BY <1>1, NextIsLockStep, PTL DEF Spec, LockSpec
-----------------------------------------------------------------------------
(* What plans achieve.  A plan is a list of steps that                     *)
(* still have to run, and its order matters: within a plan, volumes are    *)
(* created before they are written and written before they are renamed,    *)
(* the UKI is installed after the renames and unlinked before them, and no *)
(* volume is renamed twice.                                                *)
Todo(q) == {q[i] : i \in 1 .. Len(q)}

Misplaced ==
  { <<"dd", "lvcreate">>, <<"lvrename", "lvcreate">>, <<"lvrename", "dd">>,
    <<"install", "lvrename">>, <<"lvrename", "unlink">> }

MayFollow(a, b) ==
  /\ <<a.cmd, b.cmd>> \notin Misplaced
  /\ ~(a.cmd = "lvrename" /\ b.cmd = "lvrename" /\ a.kind = b.kind)

Ordered(q) == \A i, j \in 1 .. Len(q) : i < j => MayFollow(q[i], q[j])

(* The steps of an install of version v into the spare slot s, and those   *)
(* of a removal of version v that leaves the volumes the status Empty(n).  *)
InstallSteps(s, v) ==
  {st \in Step :
     /\ st.cmd \notin {"unlink", "unlink_legacy"}
     /\ st.cmd \in {"lvcreate", "dd", "lvrename"} => st.at = s
     /\ st.cmd \in {"dd", "install"} => st.version = v
     /\ st.cmd = "lvrename" => st.to = Used(v)}

RemoveSteps(v, n) ==
  {st \in Step :
     /\ st.cmd \in {"unlink", "unlink_legacy", "lvrename"}
     /\ st.cmd = "unlink" => st.version = v
     /\ st.cmd = "lvrename" => st.at = Used(v) /\ st.to = Empty(n)}

PlanShape(p) ==
  /\ Ordered(plan[p])
  /\ \/ plan[p] = <<>>
     \/ /\ req[p].cmd = "install" /\ req[p].version \in Version
        /\ \E s \in EmptyStatus : Todo(plan[p]) \subseteq InstallSteps(s, req[p].version)
     \/ /\ req[p].cmd = "remove" /\ req[p].version \in Version
        /\ \E n : Empty(n) \in EmptyStatus
                  /\ Todo(plan[p]) \subseteq RemoveSteps(req[p].version, n)

(* Plans are well formed, only a planned invocation goes for the lock, and *)
(* only one whose plan ran to the end has succeeded.                       *)
PhaseInv ==
  \A p \in Proc :
    /\ phase[p] \in {"idle", "read"} => lpc[p] = "out"
    /\ outcome[p] = "ok" => phase[p] = "running" /\ plan[p] = <<>>

PlanInv == PhaseInv /\ \A p \in Proc : PlanShape(p)

Pending(p, c) == \E st \in Todo(plan[p]) : st.cmd = c
PendingOn(p, c, k) == \E st \in Todo(plan[p]) : st.cmd = c /\ st.kind = k

(* A rename of an install still has its write before it, or its volume is  *)
(* written.                                                                *)
WritesFirst(p) ==
  req[p].cmd = "install" =>
    \A st \in Todo(plan[p]) : st.cmd = "lvrename" =>
      \/ PendingOn(p, "dd", st.kind)
      \/ /\ lpc[p] = "held"
         /\ ~PendingOn(p, "lvcreate", st.kind)
         /\ vol[st.kind][st.at] \in {Absent, Torn, Image(req[p].version)}

(* An invocation at work, or done with all of its plan.                    *)
OnCourse(p, cmd) ==
  /\ req[p].cmd = cmd
  /\ plan[p] # <<>> \/ (outcome[p] = "ok" /\ lpc[p] = "held")

(* Each thing an install has to achieve is pending or achieved.            *)
InstallOnCourse(p) ==
  OnCourse(p, "install") =>
    /\ \A k \in Kind : \/ PendingOn(p, "lvrename", k)
                       \/ lpc[p] = "held" /\ vol[k][Used(req[p].version)] # Absent
    /\ Pending(p, "install") \/ (lpc[p] = "held" /\ uki[req[p].version] = "whole")
    /\ kernel = NoRevision =>
         \A m \in Migration : \/ \E st \in Todo(plan[p]) : st.cmd = "migrate" /\ st.what = m
                              \/ m \in migrated

WorkInv ==
  ~raced => /\ SlotHoldsItsImage
            /\ \A p \in Proc : WritesFirst(p) /\ InstallOnCourse(p)

(* The same for a removal, as long as no other invocation runs meanwhile.  *)
RemoveOnCourse(p) ==
  OnCourse(p, "remove") =>
    /\ Pending(p, "unlink") \/ uki[req[p].version] = "none"
    /\ \A k \in Kind : PendingOn(p, "lvrename", k) \/ vol[k][Used(req[p].version)] = Absent
    /\ \A st \in Todo(plan[p]) : st.cmd = "lvrename" => vol[st.kind][st.to] = Absent

(* Invocations do not overlap.                                             *)
Alone == \A p, q \in Proc : phase[p] # "idle" /\ phase[q] # "idle" => p = q

AloneInv ==
  /\ ~raced
  /\ BootEntriesBacked
  /\ \A p \in Proc : /\ phase[p] = "read" => seen[p].ukis = Ukis
                     /\ RemoveOnCourse(p)

(* The arguments a request carries.                                        *)
LEMMA RequestFields ==
  ASSUME ProcOK, NEW p \in Proc
  PROVE  /\ req[p].cmd = "install" => req[p] \in [cmd : {"install"}, version : InstallArg]
         /\ req[p].cmd = "remove" => req[p] \in [cmd : {"remove"}, version : RemoveArg]
BY SMT DEF ProcOK, Request, NoReq

LEMMA SafeIsStep == SafeStep \subseteq Step
BY DEF SafeStep

(* What is left of a list of steps once the first one has run.             *)
LEMMA TailTodo ==
  ASSUME NEW S, NEW q \in Seq(S), q # <<>>
  PROVE  /\ Head(q) \in S /\ Tail(q) \in Seq(S)
         /\ Todo(q) = {Head(q)} \cup Todo(Tail(q))
         /\ Ordered(q) => /\ Ordered(Tail(q))
                          /\ \A b \in Todo(Tail(q)) : MayFollow(Head(q), b)
<1>1. /\ Len(q) \in Nat /\ Len(q) >= 1 /\ Head(q) = q[1] /\ Head(q) \in S
      /\ Tail(q) \in Seq(S) /\ Len(Tail(q)) = Len(q) - 1
      /\ \A i \in 1 .. Len(Tail(q)) : Tail(q)[i] = q[i + 1]
  BY SMT
<1>2. ASSUME NEW x \in Todo(q) PROVE x \in {Head(q)} \cup Todo(Tail(q))
  <2>1. PICK i \in 1 .. Len(q) : x = q[i]
    BY DEF Todo
  <2>2. CASE i = 1
    BY <1>1, <2>1, <2>2
  <2>3. CASE i # 1
    <3>1. i - 1 \in 1 .. Len(Tail(q)) /\ (i - 1) + 1 = i
      BY <1>1, <2>1, <2>3, SMT
    <3>2. QED BY <1>1, <2>1, <3>1 DEF Todo
  <2>4. QED BY <2>2, <2>3
<1>3. ASSUME NEW x \in Todo(Tail(q)) PROVE \E i \in 2 .. Len(q) : x = q[i]
  <2>1. PICK i \in 1 .. Len(Tail(q)) : x = Tail(q)[i]
    BY DEF Todo
  <2>2. i + 1 \in 2 .. Len(q) /\ x = q[i + 1]
    BY <1>1, <2>1, SMT
  <2>3. QED BY <2>2
<1>4. Todo(q) = {Head(q)} \cup Todo(Tail(q))
  <2>1. Head(q) \in Todo(q)
    BY <1>1, SMT DEF Todo
  <2>2. Todo(Tail(q)) \subseteq Todo(q)
    BY <1>1, <1>3, SMT DEF Todo
  <2>3. QED BY <1>2, <2>1, <2>2
<1>5. ASSUME Ordered(q) PROVE Ordered(Tail(q))
  <2>1. SUFFICES ASSUME NEW i \in 1 .. Len(Tail(q)), NEW j \in 1 .. Len(Tail(q)), i < j
                 PROVE  MayFollow(Tail(q)[i], Tail(q)[j])
    BY DEF Ordered
  <2>2. i + 1 \in 1 .. Len(q) /\ j + 1 \in 1 .. Len(q) /\ i + 1 < j + 1
    BY <1>1, <2>1, SMT
  <2>3. MayFollow(q[i + 1], q[j + 1])
    BY <1>5, <2>2 DEF Ordered
  <2>4. QED BY <1>1, <2>3
<1>6. ASSUME Ordered(q), NEW b \in Todo(Tail(q)) PROVE MayFollow(Head(q), b)
  <2>1. PICK i \in 2 .. Len(q) : b = q[i]
    BY <1>3, <1>6
  <2>2. 1 \in 1 .. Len(q) /\ i \in 1 .. Len(q) /\ 1 < i
    BY <1>1, <2>1, SMT
  <2>3. QED BY <1>1, <1>6, <2>1, <2>2 DEF Ordered
<1>7. QED BY <1>1, <1>4, <1>5, <1>6

(* Plans are put together from pieces.                                     *)
LEMMA ConcatTodo ==
  ASSUME NEW S, NEW q \in Seq(S), NEW r \in Seq(S)
  PROVE  /\ q \o r \in Seq(S)
         /\ Todo(q \o r) = Todo(q) \cup Todo(r)
         /\ (/\ Ordered(q) /\ Ordered(r)
             /\ \A a \in Todo(q), b \in Todo(r) : MayFollow(a, b)) => Ordered(q \o r)
<1> DEFINE t == q \o r
<1>1. /\ t \in Seq(S) /\ Len(q) \in Nat /\ Len(r) \in Nat /\ Len(t) = Len(q) + Len(r)
      /\ \A i \in 1 .. Len(t) : t[i] = IF i <= Len(q) THEN q[i] ELSE r[i - Len(q)]
  BY SMT
<1> HIDE DEF t
<1>2. ASSUME NEW i \in 1 .. Len(q) PROVE i \in 1 .. Len(t) /\ t[i] = q[i]
  BY <1>1, SMT
<1>3. ASSUME NEW i \in 1 .. Len(r)
      PROVE  i + Len(q) \in 1 .. Len(t) /\ t[i + Len(q)] = r[i]
  <2>1. i + Len(q) \in 1 .. Len(t) /\ ~(i + Len(q) <= Len(q)) /\ (i + Len(q)) - Len(q) = i
    BY <1>1, SMT
  <2>2. QED BY <1>1, <2>1
<1>4. ASSUME NEW i \in 1 .. Len(t)
      PROVE  \/ i \in 1 .. Len(q) /\ t[i] = q[i]
             \/ ~(i <= Len(q)) /\ i - Len(q) \in 1 .. Len(r) /\ t[i] = r[i - Len(q)]
  BY <1>1, SMT
<1>5. Todo(t) = Todo(q) \cup Todo(r)
  <2>1. Todo(t) \subseteq Todo(q) \cup Todo(r)
    BY <1>4 DEF Todo
  <2>2. Todo(q) \subseteq Todo(t)
    BY <1>2 DEF Todo
  <2>3. Todo(r) \subseteq Todo(t)
    BY <1>3 DEF Todo
  <2>4. QED BY <2>1, <2>2, <2>3
<1>6. ASSUME Ordered(q), Ordered(r), \A a \in Todo(q), b \in Todo(r) : MayFollow(a, b)
      PROVE  Ordered(t)
  <2>1. SUFFICES ASSUME NEW i \in 1 .. Len(t), NEW j \in 1 .. Len(t), i < j
                 PROVE  MayFollow(t[i], t[j])
    BY DEF Ordered
  <2>2. CASE j \in 1 .. Len(q) /\ t[j] = q[j]
    <3>1. i \in 1 .. Len(q)
      BY <1>1, <2>1, <2>2, SMT
    <3>2. QED BY <1>2, <1>6, <2>1, <2>2, <3>1 DEF Ordered
  <2>3. CASE ~(j <= Len(q)) /\ j - Len(q) \in 1 .. Len(r) /\ t[j] = r[j - Len(q)]
    <3>1. CASE i \in 1 .. Len(q) /\ t[i] = q[i]
      BY <1>6, <2>3, <3>1 DEF Todo
    <3>2. CASE ~(i <= Len(q)) /\ i - Len(q) \in 1 .. Len(r) /\ t[i] = r[i - Len(q)]
      <4>1. i - Len(q) < j - Len(q)
        BY <1>1, <2>1, SMT
      <4>2. QED BY <1>6, <2>3, <3>2, <4>1 DEF Ordered
    <3>3. QED BY <1>4, <3>1, <3>2
  <2>4. QED BY <1>4, <2>2, <2>3
<1>7. QED BY <1>1, <1>5, <1>6 DEF t

LEMMA TodoIn == ASSUME NEW S, NEW q \in Seq(S) PROVE Todo(q) \subseteq S
BY SMT DEF Todo

(* The empty list and the list of one step.                                *)
LEMMA SmallTodo ==
  /\ Todo(<<>>) = {} /\ Ordered(<<>>)
  /\ \A a : Todo(<<a>>) = {a} /\ Ordered(<<a>>)
<1>1. Todo(<<>>) = {} /\ Ordered(<<>>)
  BY SMT DEF Todo, Ordered
<1>2. ASSUME NEW a PROVE Todo(<<a>>) = {a} /\ Ordered(<<a>>)
  <2>1. Len(<<a>>) = 1 /\ <<a>>[1] = a /\ 1 .. 1 = {1}
    BY SMT
  <2>2. Todo(<<a>>) = {a}
    BY <2>1 DEF Todo
  <2>3. \A i, j \in 1 .. 1 : ~(i < j)
    BY SMT
  <2>4. QED BY <2>1, <2>2, <2>3 DEF Ordered
<1>3. QED BY <1>1, <1>2

(* What the constructors of the steps of a plan make (plan.rs:64-193).     *)
LEMMA StepCommands ==
  /\ \A k, st, v : Dd(k, st, v).cmd = "dd"
  /\ \A k, st : Flush(k, st).cmd = "flush"
  /\ \A k, st, t : LvRename(k, st, t).cmd = "lvrename" /\ LvRename(k, st, t).kind = k
  /\ \A v : InstallUki(v).cmd = "install" /\ UnlinkUki(v).cmd = "unlink"
  /\ UnlinkLegacy.cmd = "unlink_legacy"
<1>1. \A k, st, v : Dd(k, st, v).cmd = "dd"
  BY DEF Dd
<1>2. \A k, st : Flush(k, st).cmd = "flush"
  BY DEF Flush
<1>3. \A k, st, t : LvRename(k, st, t).cmd = "lvrename" /\ LvRename(k, st, t).kind = k
  BY DEF LvRename
<1>4. \A v : InstallUki(v).cmd = "install" /\ UnlinkUki(v).cmd = "unlink"
  BY DEF InstallUki, UnlinkUki
<1>5. UnlinkLegacy.cmd = "unlink_legacy"
  BY DEF UnlinkLegacy
<1>6. QED BY <1>1, <1>2, <1>3, <1>4, <1>5, SMT

(* The plan of an install (plan.rs:37-62, runtime.rs:86-119) consists of   *)
(* its steps, in order, and lacks none of them.                            *)
LEMMA InstallPlanShape ==
  ASSUME NEW s \in EmptyStatus, NEW v \in Version, NEW leg,
         NEW pre \in {resize_steps_for_slot(s), create_empty_slot(s)}
  PROVE  LET q == pre \o install_into_slot(s, v, leg)
         IN  /\ Ordered(q) /\ Todo(q) \subseteq InstallSteps(s, v)
             /\ \A k \in Kind : Dd(k, s, v) \in Todo(q) /\ LvRename(k, s, Used(v)) \in Todo(q)
             /\ InstallUki(v) \in Todo(q)
             /\ leg => \A m \in Migration : Migrate(m) \in Todo(q)
<1> DEFINE S == InstallSteps(s, v)
           a == << Dd("root", s, v), Dd("verity", s, v), Flush("root", s), Flush("verity", s),
                   LvRename("root", s, Used(v)), LvRename("verity", s, Used(v)),
                   InstallUki(v) >>
           b == IF leg
                THEN <<Migrate("loader.conf"), Migrate("entries.srel"), Migrate("default")>>
                ELSE <<>>
<1>0. s \in Status /\ Used(v) \in Status
  BY StatusDistinct
<1>1. \A k \in Kind : /\ Dd(k, s, v) \in S /\ Flush(k, s) \in S
                      /\ LvRename(k, s, Used(v)) \in S
                      /\ LvResize(k, s) \in S /\ LvCreate(k, s) \in S
  BY <1>0 DEF Dd, Flush, LvRename, LvResize, LvCreate, InstallSteps, Step
<1>2. InstallUki(v) \in S /\ \A m \in Migration : Migrate(m) \in S
  BY DEF InstallUki, Migrate, InstallSteps, Step
<1> HIDE DEF S
<1>3. /\ a \in Seq(S) /\ Ordered(a)
      /\ Todo(a) = { Dd("root", s, v), Dd("verity", s, v), Flush("root", s), Flush("verity", s),
                     LvRename("root", s, Used(v)), LvRename("verity", s, Used(v)),
                     InstallUki(v) }
  <2>1. a \in Seq(S)
    BY <1>1, <1>2, SMT DEF Kind
  <2>2. /\ Len(a) = 7 /\ a[1] = Dd("root", s, v) /\ a[2] = Dd("verity", s, v)
        /\ a[3] = Flush("root", s) /\ a[4] = Flush("verity", s)
        /\ a[5] = LvRename("root", s, Used(v)) /\ a[6] = LvRename("verity", s, Used(v))
        /\ a[7] = InstallUki(v)
    OBVIOUS
  <2> HIDE DEF a
  <2>3. \A i \in 1 .. 7 : i = 1 \/ i = 2 \/ i = 3 \/ i = 4 \/ i = 5 \/ i = 6 \/ i = 7
    BY SMT
  <2>4. /\ a[1].cmd = "dd" /\ a[2].cmd = "dd" /\ a[3].cmd = "flush" /\ a[4].cmd = "flush"
        /\ a[5].cmd = "lvrename" /\ a[6].cmd = "lvrename" /\ a[7].cmd = "install"
        /\ a[5].kind = "root" /\ a[6].kind = "verity"
    BY <2>2, StepCommands, SMT
  <2>5. Ordered(a)
    <3>1. SUFFICES ASSUME NEW i \in 1 .. 7, NEW j \in 1 .. 7, i < j PROVE MayFollow(a[i], a[j])
      BY <2>2 DEF Ordered
    <3>2. ~(a[i].cmd = "lvrename" /\ a[j].cmd = "lvrename" /\ a[i].kind = a[j].kind)
      BY <2>3, <2>4, <3>1, SMT
    <3>3. <<a[i].cmd, a[j].cmd>> \notin Misplaced
      BY <2>3, <2>4, <3>1, SMT DEF Misplaced
    <3>4. QED BY <3>2, <3>3 DEF MayFollow
  <2>6. Todo(a) = {a[1], a[2], a[3], a[4], a[5], a[6], a[7]}
    <3>1. 1 .. 7 = {1, 2, 3, 4, 5, 6, 7}
      BY SMT
    <3>2. QED BY <2>2, <3>1 DEF Todo
  <2>7. QED BY <2>1, <2>2, <2>5, <2>6
<1>4. /\ b \in Seq(S) /\ Ordered(b) /\ \A x \in Todo(b) : x.cmd = "migrate"
      /\ leg => \A m \in Migration : Migrate(m) \in Todo(b)
  <2>1. CASE ~leg
    <3>1. b = <<>>
      BY <2>1
    <3>2. QED BY <2>1, <3>1, SmallTodo, SMT
  <2>2. CASE leg
    <3>1. /\ b = <<Migrate("loader.conf"), Migrate("entries.srel"), Migrate("default")>>
          /\ b \in Seq(S)
      BY <1>2, <2>2, SMT DEF Migration
    <3>2. /\ Len(b) = 3 /\ b[1] = Migrate("loader.conf") /\ b[2] = Migrate("entries.srel")
          /\ b[3] = Migrate("default")
      BY <3>1
    <3> HIDE DEF b
    <3>3. \A i \in 1 .. 3 : b[i].cmd = "migrate"
      <4>1. \A i \in 1 .. 3 : i = 1 \/ i = 2 \/ i = 3
        BY SMT
      <4>2. QED BY <3>2, <4>1, SMT DEF Migrate
    <3>4. Ordered(b)
      BY <3>2, <3>3 DEF Ordered, MayFollow, Misplaced
    <3>5. \A x \in Todo(b) : x.cmd = "migrate"
      BY <3>2, <3>3 DEF Todo
    <3>6. \A m \in Migration : Migrate(m) \in Todo(b)
      <4>1. 1 \in 1 .. 3 /\ 2 \in 1 .. 3 /\ 3 \in 1 .. 3
        BY SMT
      <4>2. QED BY <3>2, <4>1 DEF Todo, Migration
    <3>7. QED BY <3>1, <3>4, <3>5, <3>6
  <2>3. QED BY <2>1, <2>2
<1>5. /\ pre \in Seq(S) /\ Ordered(pre)
      /\ \A x \in Todo(pre) : x.cmd \in {"lvresize", "lvcreate"}
  <2>1. CASE pre = create_empty_slot(s)
    <3> DEFINE x == LvCreate("root", s)
               y == LvCreate("verity", s)
    <3>1. x \in S /\ y \in S /\ x.cmd = "lvcreate" /\ y.cmd = "lvcreate"
      BY <1>1 DEF LvCreate, Kind
    <3> HIDE DEF x, y
    <3>2. pre = <<x>> \o <<y>> /\ <<x>> \in Seq(S) /\ <<y>> \in Seq(S)
      BY <2>1, <3>1, SMT DEF create_empty_slot, x, y
    <3>3. MayFollow(x, y)
      BY <3>1 DEF MayFollow, Misplaced
    <3>4. /\ Todo(<<x>>) = {x} /\ Ordered(<<x>>)
          /\ Todo(<<y>>) = {y} /\ Ordered(<<y>>)
      BY SmallTodo
    <3> DEFINE xs == <<x>>
               ys == <<y>>
    <3> HIDE DEF xs, ys
    <3>5. xs \o ys \in Seq(S) /\ Ordered(xs \o ys) /\ Todo(xs \o ys) = Todo(xs) \cup Todo(ys)
      <4>1. /\ xs \in Seq(S) /\ ys \in Seq(S) /\ Ordered(xs) /\ Ordered(ys)
            /\ \A c \in Todo(xs), d \in Todo(ys) : MayFollow(c, d)
        BY <3>2, <3>3, <3>4 DEF xs, ys
      <4>2. QED BY <4>1, ConcatTodo, SMT
    <3>6. QED BY <3>1, <3>2, <3>4, <3>5 DEF xs, ys
  <2>2. CASE pre = resize_steps_for_slot(s)
    <3> DEFINE x == IF "root" \in Undersized THEN <<LvResize("root", s)>> ELSE <<>>
               y == IF "verity" \in Undersized THEN <<LvResize("verity", s)>> ELSE <<>>
    <3>1. /\ x \in Seq(S) /\ Ordered(x) /\ \A z \in Todo(x) : z.cmd = "lvresize"
          /\ y \in Seq(S) /\ Ordered(y) /\ \A z \in Todo(y) : z.cmd = "lvresize"
      <4>1. \A k \in Kind : /\ LvResize(k, s).cmd = "lvresize"
                            /\ <<LvResize(k, s)>> \in Seq(S)
        BY <1>1, SMT DEF LvResize
      <4>2. <<>> \in Seq(S)
        BY SMT
      <4>3. /\ \A z \in Todo(<<>>) : z.cmd = "lvresize"
            /\ \A k \in Kind : \A z \in Todo(<<LvResize(k, s)>>) : z.cmd = "lvresize"
        BY <4>1, SmallTodo
      <4>4. "root" \in Kind /\ "verity" \in Kind
        BY DEF Kind
      <4>5. x \in Seq(S) /\ Ordered(x) /\ \A z \in Todo(x) : z.cmd = "lvresize"
        BY <4>1, <4>2, <4>3, <4>4, SmallTodo
      <4>6. y \in Seq(S) /\ Ordered(y) /\ \A z \in Todo(y) : z.cmd = "lvresize"
        BY <4>1, <4>2, <4>3, <4>4, SmallTodo
      <4>7. QED BY <4>5, <4>6
    <3>2. pre = x \o y
      BY <2>2 DEF resize_steps_for_slot
    <3> HIDE DEF x, y
    <3>3. \A c \in Todo(x), d \in Todo(y) : MayFollow(c, d)
      BY <3>1 DEF MayFollow, Misplaced
    <3>4. QED BY <3>1, <3>2, <3>3, ConcatTodo, SMT
  <2>3. QED BY <2>1, <2>2
<1>6. install_into_slot(s, v, leg) = a \o b
  BY DEF install_into_slot
<1>7. \A x \in Todo(a) : x.cmd \in {"dd", "flush", "lvrename", "install"}
  BY <1>3, StepCommands, SMT
<1> HIDE DEF a, b
<1>8. \A x \in Todo(a), y \in Todo(b) : MayFollow(x, y)
  BY <1>4, <1>7 DEF MayFollow, Misplaced
<1> DEFINE ab == a \o b
<1>9. ab \in Seq(S) /\ Ordered(ab) /\ Todo(ab) = Todo(a) \cup Todo(b)
  BY <1>3, <1>4, <1>8, ConcatTodo, SMT
<1> HIDE DEF ab
<1>10. \A x \in Todo(pre), y \in Todo(ab) : MayFollow(x, y)
  BY <1>4, <1>5, <1>7, <1>9 DEF MayFollow, Misplaced
<1>11. /\ pre \o ab \in Seq(S) /\ Ordered(pre \o ab)
       /\ Todo(pre \o ab) = Todo(pre) \cup Todo(ab)
  BY <1>5, <1>9, <1>10, ConcatTodo, SMT
<1>12. Todo(pre \o ab) \subseteq S
  BY <1>11, TodoIn
<1>13. \A k \in Kind : Dd(k, s, v) \in Todo(a) /\ LvRename(k, s, Used(v)) \in Todo(a)
  BY <1>3 DEF Kind
<1>14. QED BY <1>3, <1>4, <1>6, <1>9, <1>11, <1>12, <1>13 DEF S, ab

(* The plan of a removal (plan.rs:137-193): the UKI goes first, and each   *)
(* volume of the group is renamed.                                         *)
LEMMA RemovePlanShape ==
  ASSUME NEW g, NEW v \in Version, NEW n, Empty(n) \in EmptyStatus, NEW legacySeen
  PROVE  LET q == remove_slot(g, v, n, legacySeen)
         IN  /\ Ordered(q) /\ Todo(q) \subseteq RemoveSteps(v, n)
             /\ g.boot => UnlinkUki(v) \in Todo(q)
             /\ \A k \in g.kinds \cap Kind : LvRename(k, Used(v), Empty(n)) \in Todo(q)
<1> DEFINE S == RemoveSteps(v, n)
           a == IF g.boot THEN <<UnlinkUki(v)>> ELSE <<>>
           b == IF is_legacy(g) /\ legacySeen THEN <<UnlinkLegacy>> ELSE <<>>
           c == IF "root" \in g.kinds THEN <<LvRename("root", Used(v), Empty(n))>> ELSE <<>>
           d == IF "verity" \in g.kinds THEN <<LvRename("verity", Used(v), Empty(n))>> ELSE <<>>
<1>0. Empty(n) \in Status /\ Used(v) \in Status
  BY StatusDistinct
<1>1. \A k \in Kind : LvRename(k, Used(v), Empty(n)) \in S
  BY <1>0 DEF LvRename, RemoveSteps, Step
<1>2. UnlinkUki(v) \in S /\ UnlinkLegacy \in S
  BY DEF UnlinkUki, UnlinkLegacy, RemoveSteps, Step
<1> HIDE DEF S
<1>3. <<>> \in Seq(S) /\ \A x \in S : <<x>> \in Seq(S)
  BY SMT
<1>4. /\ a \in Seq(S) /\ Ordered(a) /\ Todo(a) \subseteq {UnlinkUki(v)}
      /\ g.boot => UnlinkUki(v) \in Todo(a)
  BY <1>2, <1>3, SmallTodo
<1>5. b \in Seq(S) /\ Ordered(b) /\ Todo(b) \subseteq {UnlinkLegacy}
  BY <1>2, <1>3, SmallTodo
<1>6. /\ c \in Seq(S) /\ Ordered(c) /\ Todo(c) \subseteq {LvRename("root", Used(v), Empty(n))}
      /\ "root" \in g.kinds => LvRename("root", Used(v), Empty(n)) \in Todo(c)
  BY <1>1, <1>3, SmallTodo DEF Kind
<1>7. /\ d \in Seq(S) /\ Ordered(d) /\ Todo(d) \subseteq {LvRename("verity", Used(v), Empty(n))}
      /\ "verity" \in g.kinds => LvRename("verity", Used(v), Empty(n)) \in Todo(d)
  BY <1>1, <1>3, SmallTodo DEF Kind
<1>8. remove_slot(g, v, n, legacySeen) = ((a \o b) \o c) \o d
  BY DEF remove_slot
<1> HIDE DEF a, b, c, d
<1>9. /\ \A x \in Todo(a) : x.cmd = "unlink"
      /\ \A x \in Todo(b) : x.cmd = "unlink_legacy"
      /\ \A x \in Todo(c) : x.cmd = "lvrename" /\ x.kind = "root"
      /\ \A x \in Todo(d) : x.cmd = "lvrename" /\ x.kind = "verity"
  BY <1>4, <1>5, <1>6, <1>7, StepCommands, SMT
<1> DEFINE ab == a \o b
<1>10. ab \in Seq(S) /\ Ordered(ab) /\ Todo(ab) = Todo(a) \cup Todo(b)
  <2>1. \A x \in Todo(a), y \in Todo(b) : MayFollow(x, y)
    BY <1>9 DEF MayFollow, Misplaced
  <2>2. QED BY <1>4, <1>5, <2>1, ConcatTodo, SMT
<1> HIDE DEF ab
<1> DEFINE abc == ab \o c
<1>11. abc \in Seq(S) /\ Ordered(abc) /\ Todo(abc) = Todo(ab) \cup Todo(c)
  <2>1. \A x \in Todo(ab), y \in Todo(c) : MayFollow(x, y)
    BY <1>9, <1>10 DEF MayFollow, Misplaced
  <2>2. /\ ab \in Seq(S) /\ c \in Seq(S) /\ Ordered(ab) /\ Ordered(c)
    BY <1>6, <1>10
  <2>3. QED BY <2>1, <2>2, ConcatTodo, SMT
<1> HIDE DEF abc
<1>12. abc \o d \in Seq(S) /\ Ordered(abc \o d) /\ Todo(abc \o d) = Todo(abc) \cup Todo(d)
  <2>1. \A x \in Todo(abc), y \in Todo(d) : MayFollow(x, y)
    BY <1>9, <1>10, <1>11 DEF MayFollow, Misplaced
  <2>2. /\ abc \in Seq(S) /\ d \in Seq(S) /\ Ordered(abc) /\ Ordered(d)
    BY <1>7, <1>11
  <2>3. QED BY <2>1, <2>2, ConcatTodo, SMT
<1>13. Todo(abc \o d) \subseteq S
  BY <1>12, TodoIn
<1>14. QED BY <1>4, <1>6, <1>7, <1>8, <1>10, <1>11, <1>12, <1>13 DEF S, ab, abc, Kind

=============================================================================
