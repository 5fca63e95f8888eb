----------------------------- MODULE UpdateLock -----------------------------
(***************************************************************************)
(* The lock file that serialises invocations of `ota-update`               *)
(* (crates/ota-update/src/lock.rs).  A process opens the file, creating it *)
(* when it is absent, takes a non-blocking flock on the inode it opened,   *)
(* writes its owner text, works, then unlinks the PATH and closes the      *)
(* descriptor.  The flock belongs to the inode, the unlink to the path:    *)
(* the two part company when a second process opens the file before the    *)
(* holder unlinks it and locks the orphaned inode afterwards.              *)
(***************************************************************************)
EXTENDS Naturals

CONSTANTS
  Proc,     \* the invocations that may run at the same time
  Inode,    \* inodes the file system hands out for the lock file
  None      \* "no inode" and "no process"

ASSUME NoneAssumption == None \notin Proc /\ None \notin Inode

VARIABLES
  lockPath, \* the inode the lock path names, or None
  fd,       \* fd[p]: the inode p has open, or None
  flock,    \* flock[i]: the process that holds the exclusive lock of inode i
  lpc,      \* where p is in UpdateLock::acquire / drop
  raced     \* history: a holder unlinked the path between another process's
            \* open and its flock

lockVars == <<lockPath, fd, flock, lpc, raced>>

LockPC == {"out", "opened", "locked", "held", "unlinked"}

(* Every variable has its type, and a process has the file open exactly    *)
(* while it is in acquire, holds the lock or is in drop (lock.rs:17-50).   *)
LockTypeOK ==
  /\ lockPath \in Inode \cup {None}
  /\ fd \in [Proc -> Inode \cup {None}]
  /\ flock \in [Inode -> Proc \cup {None}]
  /\ lpc \in [Proc -> LockPC]
  /\ raced \in BOOLEAN
  /\ \A p \in Proc : (lpc[p] = "out") = (fd[p] = None)

LockInit ==
  /\ lockPath = None
  /\ fd = [p \in Proc |-> None]
  /\ flock = [i \in Inode |-> None]
  /\ lpc = [p \in Proc |-> "out"]
  /\ raced = FALSE

-----------------------------------------------------------------------------
(* An inode is free for a new file when neither the path nor a descriptor  *)
(* refers to it.                                                           *)
FreeInode(i) == i # lockPath /\ \A q \in Proc : fd[q] # i

(* OpenOptions::create(true).truncate(false).open(path)                    *)
OpenLock(p) ==
  /\ lpc[p] = "out"
  /\ \/ /\ lockPath # None
        /\ fd' = [fd EXCEPT ![p] = lockPath]
        /\ UNCHANGED lockPath
     \/ /\ lockPath = None
        /\ \E i \in Inode : /\ FreeInode(i)
                            /\ lockPath' = i
                            /\ fd' = [fd EXCEPT ![p] = i]
  /\ lpc' = [lpc EXCEPT ![p] = "opened"]
  /\ UNCHANGED <<flock, raced>>

(* try_lock_exclusive succeeds.                                            *)
TryLock(p) ==
  /\ lpc[p] = "opened"
  /\ flock[fd[p]] = None
  /\ flock' = [flock EXCEPT ![fd[p]] = p]
  /\ lpc' = [lpc EXCEPT ![p] = "locked"]
  /\ UNCHANGED <<lockPath, fd, raced>>

(* Closing a descriptor drops the flock that was taken through it.         *)
CloseFd(p) ==
  /\ fd' = [fd EXCEPT ![p] = None]
  /\ flock' = [i \in Inode |-> IF flock[i] = p THEN None ELSE flock[i]]
  /\ lpc' = [lpc EXCEPT ![p] = "out"]

(* Bug: a refused process runs Drop::drop, as it would if the UpdateLock   *)
(* value were built before try_lock_exclusive.                             *)
LockRefusedDrops(p) ==
  /\ lpc[p] = "opened"
  /\ flock[fd[p]] # None
  /\ CloseFd(p)
  /\ lockPath' = None
  /\ UNCHANGED raced

(* try_lock_exclusive fails: "another ota-update instance is already       *)
(* running"; the file is closed on the way out.                            *)
LockRefused(p) ==
  /\ lpc[p] = "opened"
  /\ flock[fd[p]] # None
  /\ CloseFd(p)
  /\ UNCHANGED <<lockPath, raced>>

(* set_len, write_all and sync_data of the owner text.                     *)
WriteOwner(p) ==
  /\ lpc[p] = "locked"
  /\ lpc' = [lpc EXCEPT ![p] = "held"]
  /\ UNCHANGED <<lockPath, fd, flock, raced>>

(* One of them fails: no UpdateLock value exists yet, so the file is closed *)
(* and the path stays.                                                     *)
WriteOwnerFails(p) ==
  /\ lpc[p] = "locked"
  /\ CloseFd(p)
  /\ UNCHANGED <<lockPath, raced>>

(* Drop::drop: remove_file(path), whatever file the path names by now; an  *)
(* error is ignored.                                                       *)
DropUnlink(p) ==
  /\ lpc[p] = "held"
  /\ lockPath' = None
  /\ lpc' = [lpc EXCEPT ![p] = "unlinked"]
  /\ raced' = (raced \/ \E q \in Proc : lpc[q] = "opened")
  /\ UNCHANGED <<fd, flock>>

(* The File field is dropped after Drop::drop has run.                     *)
DropClose(p) ==
  /\ lpc[p] = "unlinked"
  /\ CloseFd(p)
  /\ UNCHANGED <<lockPath, raced>>

(* The process dies: the kernel closes its descriptor, the file remains.   *)
LockCrash(p) ==
  /\ lpc[p] # "out"
  /\ CloseFd(p)
  /\ UNCHANGED <<lockPath, raced>>

LockStep(p) ==
  \/ OpenLock(p) \/ TryLock(p) \/ LockRefused(p)
  \/ WriteOwner(p) \/ WriteOwnerFails(p)
  \/ DropUnlink(p) \/ DropClose(p)
  \/ LockCrash(p)

(* /run is a tmpfs: a reboot takes the lock file away with the processes.  *)
LockReboot ==
  /\ \A p \in Proc : lpc[p] = "out"
  /\ lockPath' = None
  /\ UNCHANGED <<fd, flock, lpc, raced>>

LockNext == (\E p \in Proc : LockStep(p)) \/ LockReboot

LockSpec == LockInit /\ [][LockNext]_lockVars

-----------------------------------------------------------------------------
(* lock.rs:27-32 tells the caller that "another ota-update instance is     *)
(* already running": at most one process is past acquire and not yet in    *)
(* drop.                                                                   *)
MutualExclusion ==
  \A p, q \in Proc : lpc[p] = "held" /\ lpc[q] = "held" => p = q

(* The exact condition under which acquire (lock.rs:17-43) and drop        *)
(* (lock.rs:46-50) exclude: as long as no holder ever unlinked the path    *)
(* while another process sat between its open and its flock, two processes *)
(* never hold the lock together, whatever crashes and failed owner writes  *)
(* happened before.                                                        *)
ExclusiveUnlessRaced == ~raced => MutualExclusion

(* A lock file left behind by a crash or by a failed owner write locks     *)
(* nobody out: an inode is locked only through the open descriptor of a    *)
(* live process that is between try_lock_exclusive and the close.          *)
NoStaleFlock ==
  \A i \in Inode : \A p \in Proc :
    flock[i] = p => fd[p] = i /\ lpc[p] \in {"locked", "held", "unlinked"}
=============================================================================
