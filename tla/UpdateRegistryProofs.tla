------------------------ MODULE UpdateRegistryProofs ------------------------
(***************************************************************************)
(* The inductive invariant of UpdateRegistry, the steps that keep its      *)
(* conjuncts, and what follows from it, for any number of invocations,     *)
(* tags, versions and artifacts.                                           *)
(***************************************************************************)
EXTENDS UpdateRegistry, TLAPS

-----------------------------------------------------------------------------
(* The inductive invariant.                                                *)

Locked == {"fetch", "blobs", "blob", "writing", "written", "prune", "remove"}
Installing == {"check", "read", "installed"}

(* p has touched the directory of its pull and is not done with it.        *)
Fresh(p) ==
  \/ pc[p] \in {"blob", "writing", "written"}
  \/ pc[p] = "blobs" /\ job[p].left # Artifact

LockInv ==
  /\ stale # {} => \E p \in Proc : holder = p /\ pc[p] \in {"prune", "remove"}
  /\ \A p \in Proc : /\ pc[p] \in Locked => holder = p
                     /\ holder = p => pc[p] \in Locked \cup Installing

JobInv ==
  /\ stale \subseteq dirs
  /\ \A p \in Proc :
       /\ pc[p] \notin {"idle", "prune"} => job[p].tag \in Tag
       /\ pc[p] \in Locked \ {"prune"} => job[p].tag \in dirs
       /\ pc[p] \notin {"idle", "fetch", "prune", "remove"} => job[p].ver \in Version
       /\ pc[p] \notin Installing => p \notin doubtful
       /\ pc[p] = "check" => job[p].wrong = FALSE

RemoteInv ==
  /\ RemoteComplete
  /\ \A p \in Proc : pc[p] = "push" =>
       \A a \in Artifact \ job[p].left : <<job[p].ver, a>> \in blobs

(* What a pull has stored so far.                                          *)
Pulled(p) ==
  LET t == job[p].tag v == job[p].ver IN
  /\ pc[p] \in {"blobs", "blob"} =>
       \A a \in Artifact \ job[p].left : entry[t][FileName[v][a]] = <<v, a>>
  /\ pc[p] \in {"writing", "written"} => Valid(t, v, TRUE)
  /\ pc[p] = "writing" => entry[t][MANIFEST] = Torn
  /\ pc[p] = "written" => entry[t][MANIFEST] = v

PullInv == \A p \in Proc : Pulled(p)

DirInv == \A t \in Tag \ dirs : entry[t] = EmptyDir

InstallInv ==
  \A p \in Proc : pc[p] \in Installing =>
    /\ holder = p => p \notin doubtful
    /\ p \notin doubtful =>
         /\ job[p].wrong = FALSE
         /\ pc[p] = "check" /\ ~job[p].validate => Valid(job[p].tag, job[p].ver, TRUE)
         /\ pc[p] = "read" => Valid(job[p].tag, job[p].ver, TRUE)

LastInv ==
  /\ \A p \in Proc : Fresh(p) => newer[job[p].tag] = {}
  /\ last # None =>
       /\ Complete(last)
       /\ newer[last] \subseteq unfinished
       /\ last \notin stale
       /\ \A p \in Proc : Fresh(p) \/ pc[p] = "remove" => job[p].tag # last

IInv ==
  /\ TypeOK /\ LockInv /\ JobInv /\ RemoteInv /\ PullInv /\ DirInv
  /\ ManifestVouches /\ InstallInv /\ LastInv

-----------------------------------------------------------------------------
(* The actions, one by one: a step of Next is one of them.                 *)
Step(p) ==
  \/ PushStart(p) \/ PushLayer(p) \/ PushConfig(p) \/ PushManifest(p)
  \/ PullStart(p) \/ Fetch(p) \/ FetchFails(p)
  \/ OpenPart(p) \/ Download(p) \/ DownloadFails(p)
  \/ OpenManifest(p) \/ WriteManifest(p) \/ PullDone(p)
  \/ PruneStart(p) \/ PruneNext(p) \/ PruneDone(p)
  \/ RemoveEntry(p) \/ RemoveDir(p)
  \/ InstallStart(p) \/ InstallCheck(p) \/ InstallRead(p)
  \/ InstallRefused(p) \/ InstallDone(p)
  \/ Abort(p)

(* Next is a step of some invocation.                                      *)
LEMMA NextIsStep == Next <=> \E p \in Proc : Step(p)
  BY DEF Next, Step, Push, Pull, Prune, Remove, Install

(* The initial states satisfy the invariant.                               *)
LEMMA InitInv == Init => IInv
<1> SUFFICES ASSUME Init PROVE IInv
  OBVIOUS
<1> USE UpdateAssumption, ValueAssumption DEF Init
<1>1. TypeOK
  <2>1. NoJob \in Job
    BY DEF NoJob, JobOn, Job
  <2>2. EmptyDir \in [Entry -> Content]
    BY DEF EmptyDir, Content
  <2>3. blobs \subseteq Blob
    BY DEF BlobsOf, Blob
  <2> QED
    BY <2>1, <2>2, <2>3 DEF TypeOK, Stage
<1>2. LockInv /\ PullInv /\ InstallInv
  BY DEF LockInv, PullInv, Pulled, InstallInv, Locked, Installing
<1>3. JobInv
  BY DEF JobInv, Locked, Installing, NoJob, JobOn
<1>4. RemoteInv
  BY DEF RemoteInv, RemoteComplete
<1>5. DirInv /\ ManifestVouches
  BY DEF DirInv, ManifestVouches
<1>6. LastInv
  BY DEF LastInv, Fresh
<1> QED
  BY <1>1, <1>2, <1>3, <1>4, <1>5, <1>6 DEF IInv

-----------------------------------------------------------------------------
(* Type correctness.                                                       *)

(* The parts a job is made of keep their types.                            *)
LEMMA JobType ==
  ASSUME TypeOK, NEW p \in Proc
  PROVE  /\ NoJob \in Job
         /\ job[p] \in Job
         /\ EmptyDir \in [Entry -> Content]
  BY DEF TypeOK, NoJob, JobOn, Job, EmptyDir, Content

(* A job that turns to other artifacts is a job.                           *)
LEMMA TurnType ==
  ASSUME NEW j \in Job, NEW v \in Version \cup {None}, NEW l \in SUBSET Artifact,
         NEW w \in BOOLEAN
  PROVE  Turn(j, v, l, w) \in Job
  BY DEF Turn, Job

(* A change that leaves the directories and their order alone keeps what   *)
(* TypeOK says of them; touching a directory, or removing one, keeps it an *)
(* order.                                                                  *)
Order ==
  /\ dirs \subseteq Tag
  /\ newer \in [Tag -> SUBSET Tag]
  /\ \A t \in Tag : newer[t] \subseteq dirs
  /\ \A t, u \in dirs : (t \in newer[u]) = (t # u /\ u \notin newer[t])

(* Touching a directory, which may be a new one, keeps the order.          *)
LEMMA TouchOrder ==
  ASSUME Order, NEW t \in Tag, Touch(t), dirs' = dirs \cup {t}
  PROVE  Order'
  BY DEF Order, Touch

(* Every step keeps the types and the order of the directories.            *)
LEMMA TypeStep ==
  ASSUME TypeOK, JobInv, NEW p \in Proc, Step(p)
  PROVE  TypeOK'
<1>0. NoJob \in Job /\ job[p] \in Job /\ EmptyDir \in [Entry -> Content]
  BY JobType
<1>1. CASE PushStart(p)
  BY <1>0, <1>1 DEF PushStart, Begin, TypeOK, JobOn, NoJob, Job, Stage, remoteVars, localVars, historyVars
<1>2. CASE PushLayer(p)
  <2>1. PICK a \in job[p].left :
          /\ blobs' = blobs \cup {<<job[p].ver, a>>}
          /\ job' = [job EXCEPT ![p] = Turn(@, @.ver, @.left \ {a}, FALSE)]
    BY Zenon, <1>0, <1>2 DEF PushLayer
  <2>2. job[p].ver \in Version /\ job[p].left \subseteq Artifact
    BY <1>0, <1>2 DEF PushLayer, JobInv, Job
  <2>3. Turn(job[p], job[p].ver, job[p].left \ {a}, FALSE) \in Job
    BY Zenon, <1>0, <2>2, TurnType
  <2>4. blobs' \subseteq Blob
    BY <2>1, <2>2 DEF TypeOK, Blob
  <2>5. job' \in [Proc -> Job]
    BY Zenon, <2>1, <2>3 DEF TypeOK
  <2> QED
    BY ZenonT(40), <1>2, <2>4, <2>5 DEF PushLayer, TypeOK, remoteVars, localVars, historyVars
<1>3. CASE PushConfig(p)
  BY <1>0, <1>3 DEF PushConfig, TypeOK, JobInv, Blob, remoteVars, localVars, historyVars
<1>4. CASE PushManifest(p)
  BY <1>0, <1>4 DEF PushManifest, End, TypeOK, JobInv, Stage, remoteVars, localVars, historyVars
<1>5. CASE PullStart(p)
  <2>1. PICK t \in Tag, validate \in BOOLEAN, install \in BOOLEAN :
          /\ Begin(p, "fetch", JobOn(t, None, {}, validate, install))
          /\ dirs' = dirs \cup {t}
          /\ IF t \in dirs THEN UNCHANGED <<newer, unfinished>> ELSE Touch(t)
    BY <1>0, <1>5 DEF PullStart
  <2>2. JobOn(t, None, {}, validate, install) \in Job
    BY DEF JobOn, Job
  <2>3. Order'
    <3>1. CASE t \in dirs
      BY <2>1, <3>1 DEF TypeOK, Order
    <3>2. CASE t \notin dirs
      BY <2>1, <3>2, TouchOrder DEF TypeOK, Order
    <3> QED
      BY <3>1, <3>2
  <2>4. unfinished' \subseteq Tag
    BY <2>1 DEF TypeOK, Touch
  <2> QED
    BY <1>0, <1>5, <2>1, <2>2, <2>3, <2>4
    DEF PullStart, Begin, Order, TypeOK, Stage, remoteVars, localVars, historyVars
<1>6. CASE Fetch(p)
  BY <1>0, <1>6 DEF Fetch, Goto, TypeOK, JobInv, Turn, Job, Stage, remoteVars, localVars, historyVars
<1>7. CASE FetchFails(p)
  BY <1>0, <1>7 DEF FetchFails, Fault, Goto, Forsake, TypeOK, Stage, remoteVars, localVars, historyVars
<1>8. CASE OpenPart(p)
  BY <1>0, <1>8 DEF OpenPart, Goto, Touch, Forsake, TypeOK, JobInv, Locked, Stage, remoteVars, localVars, historyVars
<1>9. CASE Download(p)
  <2>1. PICK a \in job[p].left :
          /\ <<job[p].ver, a>> \in blobs
          /\ Store(p, job[p].tag, FileName[job[p].ver][a], <<job[p].ver, a>>)
          /\ job' = [job EXCEPT ![p] = Turn(@, @.ver, @.left \ {a}, FALSE)]
    BY Zenon, <1>0, <1>9 DEF Download
  <2>2. job[p].ver \in Version /\ job[p].left \subseteq Artifact
    BY <1>0, <1>9 DEF Download, JobInv, Job
  <2>3. Turn(job[p], job[p].ver, job[p].left \ {a}, FALSE) \in Job
    BY Zenon, <1>0, <2>2, TurnType
  <2>4. entry' \in [Tag -> [Entry -> Content]]
    BY Zenon, <2>1 DEF Store, TypeOK, Content
  <2>5. doubtful' \subseteq Proc
    BY <2>1 DEF Store, TypeOK
  <2> QED
    BY ZenonT(40), <1>0, <1>9, <2>1, <2>3, <2>4, <2>5 DEF Download, Goto, TypeOK, Stage, remoteVars, localVars, historyVars
<1>10. CASE DownloadFails(p)
  BY <1>0, <1>10 DEF DownloadFails, Fault, Goto, TypeOK, Stage, remoteVars, localVars, historyVars
<1>11. CASE OpenManifest(p)
  BY ZenonT(40), <1>0, <1>11 DEF OpenManifest, Goto, Store, TypeOK, Stage, Entry, Content, remoteVars, localVars, historyVars
<1>12. CASE WriteManifest(p)
  BY <1>0, <1>12 DEF WriteManifest, Goto, Store, TypeOK, JobInv, Stage, Entry, Content, remoteVars, localVars, historyVars
<1>13. CASE PullDone(p)
  <2>1. job[p].ver \in Version /\ job[p].tag \in Tag
    BY <1>0, <1>13 DEF PullDone, JobInv
  <2>2. Turn(job[p], job[p].ver, Artifact, FALSE) \in Job
    BY Zenon, <1>0, <2>1, TurnType
  <2>3. /\ pc' \in [Proc -> Stage] /\ job' \in [Proc -> Job]
        /\ holder' \in Proc \cup {None} /\ stale' \subseteq Tag /\ commands' = commands
    <3>1. CASE job[p].install
      <4>1. /\ Goto(p, "check")
            /\ job' = [job EXCEPT ![p] = Turn(@, @.ver, Artifact, FALSE)]
            /\ UNCHANGED <<holder, stale>>
        BY <1>13, <3>1, Zenon DEF PullDone
      <4> QED
        BY Zenon, <2>2, <4>1 DEF Goto, TypeOK, Stage
    <3>2. CASE ~job[p].install
      <4>1. End(p)
        BY <1>13, <3>2, Zenon DEF PullDone
      <4> QED
        BY <1>0, <4>1 DEF End, TypeOK, Stage
    <3> QED
      BY <3>1, <3>2
  <2> QED
    BY <1>13, <2>1, <2>3 DEF PullDone, TypeOK, remoteVars, localVars
<1>14. CASE PruneStart(p)
  BY <1>0, <1>14 DEF PruneStart, Begin, Stale, Updates, TypeOK, JobOn, NoJob, Job, Stage, remoteVars, localVars, historyVars
<1>15. CASE PruneNext(p)
  BY <1>0, <1>15 DEF PruneNext, Goto, TypeOK, JobOn, Turn, Job, Stage, remoteVars, localVars, historyVars
<1>16. CASE PruneDone(p)
  BY <1>0, <1>16 DEF PruneDone, End, TypeOK, Stage, remoteVars, localVars, historyVars
<1>17. CASE RemoveEntry(p)
  <2>1. job[p].tag \in dirs /\ job[p].tag \in Tag
    BY <1>0, <1>17 DEF RemoveEntry, JobInv, Locked
  <2>2. PICK e \in Entry : Store(p, job[p].tag, e, None)
    BY <1>17 DEF RemoveEntry
  <2>4. entry' \in [Tag -> [Entry -> Content]] /\ doubtful' \subseteq Proc
    BY Zenon, <2>2 DEF Store, TypeOK, Content
  <2>3. Order' /\ unfinished' \subseteq Tag
    <3>1. Touch(job[p].tag) /\ dirs' = dirs \cup {job[p].tag}
      BY <1>0, <1>17, <2>1 DEF RemoveEntry
    <3> QED
      BY SMTT(30), <2>1, <3>1, TouchOrder DEF Touch, TypeOK, Order
  <2> QED
    BY <1>17, <2>3, <2>4 DEF RemoveEntry, TypeOK, Order, remoteVars, localVars, historyVars
<1>18. CASE RemoveDir(p)
  <2>1. Order'
    BY <1>0, <1>18 DEF RemoveDir, TypeOK, Order
  <2>2. CASE job[p].tag \in stale
    BY <1>0, <1>18, <2>1, <2>2 DEF RemoveDir, Goto, Order, TypeOK, Stage, remoteVars, localVars, historyVars
  <2>3. CASE job[p].tag \notin stale
    BY <1>0, <1>18, <2>1, <2>3 DEF RemoveDir, End, Order, TypeOK, Stage, remoteVars, localVars, historyVars
  <2> QED
    BY <2>2, <2>3
<1>19. CASE InstallStart(p)
  BY <1>0, <1>19 DEF InstallStart, Begin, TypeOK, JobOn, NoJob, Job, Stage, remoteVars, localVars, historyVars
<1>20. CASE InstallCheck(p)
  BY <1>0, <1>20 DEF InstallCheck, Goto, TypeOK, Stage, remoteVars, localVars, historyVars
<1>21. CASE InstallRead(p)
  <2>1. PICK a \in job[p].left, w \in BOOLEAN :
          /\ job' = [job EXCEPT ![p] = Turn(@, @.ver, @.left \ {a}, w)]
          /\ Goto(p, IF job[p].left = {a} THEN "installed" ELSE "read")
    BY Zenon, <1>0, <1>21 DEF InstallRead, Job
  <2>2. job[p].ver \in Version \cup {None} /\ job[p].left \subseteq Artifact
    BY <1>0 DEF Job
  <2>3. Turn(job[p], job[p].ver, job[p].left \ {a}, w) \in Job
    BY <1>0, <2>2, TurnType
  <2> QED
    BY ZenonT(40), <1>0, <1>21, <2>1, <2>3 DEF InstallRead, Goto, TypeOK, Stage, remoteVars, localVars, historyVars
<1>22. CASE InstallRefused(p) \/ InstallDone(p)
  <2>1. /\ End(p) /\ doubtful' = doubtful \ {p}
        /\ UNCHANGED <<remoteVars, localVars, cut, last, unfinished, faults>>
    BY <1>0, <1>22 DEF InstallRefused, InstallDone
  <2> QED
    BY <1>0, <2>1 DEF End, TypeOK, Stage, remoteVars, localVars
<1>23. CASE Abort(p)
  BY <1>0, <1>23 DEF Abort, Fault, End, Dirty, TypeOK, JobInv, Stage, remoteVars, localVars, historyVars
<1> QED
  BY <1>0, <1>1, <1>2, <1>3, <1>4, <1>5, <1>6, <1>7, <1>8, <1>9, <1>10, <1>11, <1>12, <1>13,
     <1>14, <1>15, <1>16, <1>17, <1>18, <1>19, <1>20, <1>21, <1>22, <1>23 DEF Step
-----------------------------------------------------------------------------
(* The lock.                                                               *)

(* Pull and prune work only while they hold the lock, and no one else does. *)
LEMMA LockStep ==
  ASSUME TypeOK, LockInv, NEW p \in Proc, Step(p)
  PROVE  LockInv'
<1>0. /\ pc \in [Proc -> Stage]
      /\ holder \in Proc \cup {None} /\ None \notin Proc
  BY ValueAssumption DEF TypeOK
<1>1. CASE PushStart(p)
  BY <1>0, <1>1 DEF PushStart, Begin, LockInv, Locked, Installing
<1>2. CASE PushLayer(p)
  BY <1>0, <1>2 DEF PushLayer, LockInv, Locked, Installing
<1>3. CASE PushConfig(p)
  BY <1>0, <1>3 DEF PushConfig, LockInv, Locked, Installing
<1>4. CASE PushManifest(p)
  BY <1>0, <1>4 DEF PushManifest, End, LockInv, Locked, Installing
<1>5. CASE PullStart(p)
  BY <1>0, <1>5 DEF PullStart, Begin, LockInv, Locked, Installing
<1>6. CASE Fetch(p)
  BY <1>0, <1>6 DEF Fetch, Goto, LockInv, Locked, Installing
<1>7. CASE FetchFails(p)
  BY <1>0, <1>7 DEF FetchFails, Goto, LockInv, Locked, Installing
<1>8. CASE OpenPart(p)
  BY <1>0, <1>8 DEF OpenPart, Goto, LockInv, Locked, Installing
<1>9. CASE Download(p)
  BY <1>0, <1>9 DEF Download, Goto, LockInv, Locked, Installing
<1>10. CASE DownloadFails(p)
  BY <1>0, <1>10, ZenonT(30) DEF DownloadFails, Goto, LockInv, Locked, Installing
<1>11. CASE OpenManifest(p)
  BY <1>0, <1>11 DEF OpenManifest, Goto, LockInv, Locked, Installing
<1>12. CASE WriteManifest(p)
  BY <1>0, <1>12 DEF WriteManifest, Goto, LockInv, Locked, Installing
<1>13. CASE PullDone(p)
  BY ZenonT(40), <1>0, <1>13 DEF PullDone, Goto, End, LockInv, Locked, Installing
<1>14. CASE PruneStart(p)
  BY <1>0, <1>14 DEF PruneStart, Begin, LockInv, Locked, Installing
<1>15. CASE PruneNext(p)
  BY <1>0, <1>15 DEF PruneNext, Goto, LockInv, Locked, Installing
<1>16. CASE PruneDone(p)
  BY <1>0, <1>16 DEF PruneDone, End, LockInv, Locked, Installing
<1>17. CASE RemoveEntry(p)
  BY <1>0, <1>17 DEF RemoveEntry, LockInv, Locked, Installing
<1>18. CASE RemoveDir(p)
  BY <1>0, <1>18 DEF RemoveDir, Goto, End, LockInv, Locked, Installing
<1>19. CASE InstallStart(p)
  BY <1>0, <1>19 DEF InstallStart, Begin, LockInv, Locked, Installing
<1>20. CASE InstallCheck(p)
  BY <1>0, <1>20 DEF InstallCheck, Goto, LockInv, Locked, Installing
<1>21. CASE InstallRead(p)
  BY Zenon, <1>0, <1>21 DEF InstallRead, Goto, LockInv, Locked, Installing
<1>22. CASE InstallRefused(p)
  BY Zenon, <1>0, <1>22 DEF InstallRefused, End, LockInv, Locked, Installing
<1>23. CASE InstallDone(p)
  BY <1>0, <1>23 DEF InstallDone, End, LockInv, Locked, Installing
<1>24. CASE Abort(p)
  BY <1>0, <1>24 DEF Abort, End, LockInv, Locked, Installing
<1> QED
  BY <1>1, <1>2, <1>3, <1>4, <1>5, <1>6, <1>7, <1>8, <1>9, <1>10, <1>11, <1>12, <1>13, <1>14, <1>15, <1>16, <1>17, <1>18, <1>19, <1>20, <1>21, <1>22, <1>23, <1>24 DEF Step

-----------------------------------------------------------------------------
(* The jobs.                                                               *)

(* A command keeps the tag and the version its stage relies on.            *)
LEMMA JobStep ==
  ASSUME TypeOK, LockInv, JobInv, NEW p \in Proc, Step(p)
  PROVE  JobInv'
<1>0. /\ pc \in [Proc -> Stage] /\ job \in [Proc -> Job] /\ tagged \in [Tag -> Version \cup {None}]
      /\ dirs \subseteq Tag
      /\ holder \in Proc \cup {None} /\ None \notin Proc
  BY ValueAssumption DEF TypeOK
<1>1. CASE PushStart(p)
  BY <1>0, <1>1 DEF PushStart, Begin, JobInv, LockInv, Locked, Installing, JobOn, NoJob, Turn, remoteVars, localVars, historyVars
<1>2. CASE PushLayer(p)
  BY <1>0, <1>2 DEF PushLayer, JobInv, LockInv, Locked, Installing, JobOn, NoJob, Turn, remoteVars, localVars, historyVars
<1>3. CASE PushConfig(p)
  BY <1>0, <1>3 DEF PushConfig, JobInv, LockInv, Locked, Installing, JobOn, NoJob, Turn, remoteVars, localVars, historyVars
<1>4. CASE PushManifest(p)
  BY <1>0, <1>4 DEF PushManifest, End, JobInv, LockInv, Locked, Installing, JobOn, NoJob, Turn, remoteVars, localVars, historyVars
<1>5. CASE PullStart(p)
  BY <1>0, <1>5 DEF PullStart, Begin, Touch, JobInv, LockInv, Locked, Installing, JobOn, NoJob, Turn, remoteVars, localVars, historyVars
<1>6. CASE Fetch(p)
  BY <1>0, <1>6 DEF Fetch, Goto, JobInv, LockInv, Locked, Installing, JobOn, NoJob, Turn, remoteVars, localVars, historyVars
<1>7. CASE FetchFails(p)
  BY <1>0, <1>7 DEF FetchFails, Goto, Forsake, JobInv, LockInv, Locked, Installing, JobOn, NoJob, Turn, remoteVars, localVars, historyVars
<1>8. CASE OpenPart(p)
  BY <1>0, <1>8 DEF OpenPart, Goto, Touch, Forsake, JobInv, LockInv, Locked, Installing, JobOn, NoJob, Turn, remoteVars, localVars, historyVars
<1>9. CASE Download(p)
  BY <1>0, <1>9 DEF Download, Goto, Store, JobInv, LockInv, Locked, Installing, JobOn, NoJob, Turn, remoteVars, localVars, historyVars
<1>10. CASE DownloadFails(p)
  BY <1>0, <1>10 DEF DownloadFails, Goto, JobInv, LockInv, Locked, Installing, JobOn, NoJob, Turn, remoteVars, localVars, historyVars
<1>11. CASE OpenManifest(p)
  BY <1>0, <1>11 DEF OpenManifest, Goto, Store, JobInv, LockInv, Locked, Installing, JobOn, NoJob, Turn, remoteVars, localVars, historyVars
<1>12. CASE WriteManifest(p)
  BY <1>0, <1>12 DEF WriteManifest, Goto, Store, JobInv, LockInv, Locked, Installing, JobOn, NoJob, Turn, remoteVars, localVars, historyVars
<1>13. CASE PullDone(p)
  <2>1. CASE job[p].install
    <3>1. /\ Goto(p, "check")
          /\ job' = [job EXCEPT ![p] = Turn(@, @.ver, Artifact, FALSE)]
          /\ UNCHANGED <<holder, stale>>
      BY <1>13, <2>1, Zenon DEF PullDone
    <3> QED
      BY <1>0, <1>13, <3>1 DEF PullDone, Goto, JobInv, LockInv, Locked, Installing, Turn, localVars
  <2>2. CASE ~job[p].install
    <3>1. End(p)
      BY ZenonT(40), <1>13, <2>2 DEF PullDone
    <3> QED
      BY <1>0, <1>13, <3>1 DEF PullDone, End, JobInv, LockInv, Locked, Installing, localVars
  <2> QED
    BY <2>1, <2>2
<1>14. CASE PruneStart(p)
  BY <1>0, <1>14 DEF PruneStart, Begin, Stale, Updates, JobInv, LockInv, Locked, Installing, JobOn, NoJob, Turn, remoteVars, localVars, historyVars
<1>15. CASE PruneNext(p)
  BY <1>0, <1>15 DEF PruneNext, Goto, JobInv, LockInv, Locked, Installing, JobOn, NoJob, Turn, remoteVars, localVars, historyVars
<1>16. CASE PruneDone(p)
  BY <1>0, <1>16 DEF PruneDone, End, JobInv, LockInv, Locked, Installing, JobOn, NoJob, Turn, remoteVars, localVars, historyVars
<1>17. CASE RemoveEntry(p)
  BY SMTT(30), <1>0, <1>17 DEF RemoveEntry, Store, Touch, JobInv, LockInv, Locked, Installing, JobOn, NoJob, Turn, remoteVars, localVars, historyVars
<1>18. CASE RemoveDir(p)
  BY SMTT(30), <1>0, <1>18 DEF RemoveDir, Goto, End, JobInv, LockInv, Locked, Installing, JobOn, NoJob, Turn, remoteVars, localVars, historyVars
<1>19. CASE InstallStart(p)
  <2>1. PICK t \in dirs, validate \in BOOLEAN :
          /\ entry[t][MANIFEST] \in Version
          /\ Begin(p, "check", JobOn(t, entry[t][MANIFEST], Artifact, validate, FALSE))
          /\ doubtful' = IF validate \/ Complete(t) THEN doubtful ELSE doubtful \cup {p}
    BY Zenon, <1>19 DEF InstallStart
  <2>2. /\ pc' = [pc EXCEPT ![p] = "check"]
        /\ job' = [job EXCEPT ![p] = JobOn(t, entry[t][MANIFEST], Artifact, validate, FALSE)]
    BY Zenon, <2>1 DEF Begin
  <2>3. job'[p] = JobOn(t, entry[t][MANIFEST], Artifact, validate, FALSE)
    BY Zenon, <1>0, <2>2
  <2>4. job'[p].tag = t
    BY <2>3 DEF JobOn
  <2>5. job'[p].ver = entry[t][MANIFEST]
    BY <2>3 DEF JobOn
  <2>6. job'[p].wrong = FALSE
    BY <2>3 DEF JobOn
  <2>7. doubtful' \subseteq doubtful \cup {p}
    BY Zenon, <2>1
  <2>8. dirs' = dirs /\ stale' = stale
    BY Zenon, <1>19 DEF InstallStart, localVars
  <2>9. \A q \in Proc \ {p} : pc'[q] = pc[q] /\ job'[q] = job[q]
    BY <1>0, <2>2
  <2>10. pc'[p] = "check" /\ t \in Tag
    BY <1>0, <2>2
  <2> QED
    BY <2>1, <2>4, <2>5, <2>6, <2>7, <2>8, <2>9, <2>10 DEF JobInv, Locked, Installing
<1>20. CASE InstallCheck(p)
  BY <1>0, <1>20 DEF InstallCheck, Goto, JobInv, LockInv, Locked, Installing, JobOn, NoJob, Turn, remoteVars, localVars, historyVars
<1>21. CASE InstallRead(p)
  <2>1. PICK a \in job[p].left :
          LET c == entry[job[p].tag][FileName[job[p].ver][a]] IN
          /\ job' = [job EXCEPT ![p] =
                       Turn(@, @.ver, @.left \ {a}, @.wrong \/ c # <<@.ver, a>>)]
          /\ Goto(p, IF job[p].left = {a} THEN "installed" ELSE "read")
    BY <1>21, Zenon DEF InstallRead
  <2> QED
    BY ZenonT(40), <1>0, <1>21, <2>1 DEF InstallRead, Goto, JobInv, LockInv, Locked, Installing, Turn, localVars, historyVars
<1>22. CASE InstallRefused(p)
  BY Zenon, <1>0, <1>22 DEF InstallRefused, End, JobInv, LockInv, Locked, Installing, JobOn, NoJob, Turn, remoteVars, localVars, historyVars
<1>23. CASE InstallDone(p)
  BY <1>0, <1>23 DEF InstallDone, End, JobInv, LockInv, Locked, Installing, JobOn, NoJob, Turn, remoteVars, localVars, historyVars
<1>24. CASE Abort(p)
  BY <1>0, <1>24 DEF Abort, End, JobInv, LockInv, Locked, Installing, JobOn, NoJob, Turn, remoteVars, localVars, historyVars
<1> QED
  BY <1>1, <1>2, <1>3, <1>4, <1>5, <1>6, <1>7, <1>8, <1>9, <1>10, <1>11, <1>12, <1>13, <1>14, <1>15, <1>16, <1>17, <1>18, <1>19, <1>20, <1>21, <1>22, <1>23, <1>24 DEF Step

-----------------------------------------------------------------------------
(* The registry.                                                           *)

(* A tag moves to a version whose blobs are all there, and none goes away. *)
LEMMA RemoteStep ==
  ASSUME TypeOK, JobInv, RemoteInv, NEW p \in Proc, Step(p)
  PROVE  RemoteInv'
<1>0. /\ pc \in [Proc -> Stage] /\ job \in [Proc -> Job] /\ tagged \in [Tag -> Version \cup {None}]
  BY DEF TypeOK
<1>1. CASE PushStart(p)
  BY <1>0, <1>1 DEF PushStart, Begin, RemoteInv, RemoteComplete, JobOn, NoJob, Turn, remoteVars
<1>2. CASE PushLayer(p)
  BY <1>0, <1>2 DEF PushLayer, RemoteInv, RemoteComplete, JobOn, NoJob, Turn, remoteVars
<1>3. CASE PushConfig(p)
  BY <1>0, <1>3, ZenonT(30) DEF PushConfig, RemoteInv, RemoteComplete, JobOn, NoJob, Turn, remoteVars
<1>4. CASE PushManifest(p)
  <2>1. BlobsOf(job[p].ver) \subseteq blobs
    BY <1>4 DEF PushManifest, RemoteInv, BlobsOf
  <2>2. RemoteComplete'
    BY <1>0, <1>4, <2>1 DEF PushManifest, RemoteInv, RemoteComplete, BlobsOf
  <2> QED
    BY <1>0, <1>4, <2>2 DEF PushManifest, End, RemoteInv, NoJob, JobOn
<1>5. CASE PullStart(p)
  BY <1>0, <1>5 DEF PullStart, Begin, RemoteInv, RemoteComplete, JobOn, NoJob, Turn, remoteVars
<1>6. CASE Fetch(p)
  BY <1>0, <1>6 DEF Fetch, Goto, RemoteInv, RemoteComplete, JobOn, NoJob, Turn, remoteVars
<1>7. CASE FetchFails(p)
  BY SMTT(30), <1>0, <1>7 DEF FetchFails, Goto, RemoteInv, RemoteComplete, JobOn, NoJob, Turn, remoteVars
<1>8. CASE OpenPart(p)
  BY <1>0, <1>8 DEF OpenPart, Goto, RemoteInv, RemoteComplete, JobOn, NoJob, Turn, remoteVars
<1>9. CASE Download(p)
  BY SMTT(30), <1>0, <1>9 DEF Download, Goto, RemoteInv, RemoteComplete, JobOn, NoJob, Turn, remoteVars
<1>10. CASE DownloadFails(p)
  BY SMTT(30), <1>0, <1>10 DEF DownloadFails, Goto, RemoteInv, RemoteComplete, JobOn, NoJob, Turn, remoteVars
<1>11. CASE OpenManifest(p)
  BY SMTT(30), <1>0, <1>11 DEF OpenManifest, Goto, RemoteInv, RemoteComplete, JobOn, NoJob, Turn, remoteVars
<1>12. CASE WriteManifest(p)
  BY <1>0, <1>12 DEF WriteManifest, Goto, RemoteInv, RemoteComplete, JobOn, NoJob, Turn, remoteVars
<1>13. CASE PullDone(p)
  BY SMTT(30), <1>0, <1>13 DEF PullDone, Goto, End, RemoteInv, RemoteComplete, JobOn, NoJob, Turn, remoteVars
<1>14. CASE PruneStart(p)
  BY <1>0, <1>14, ZenonT(30) DEF PruneStart, Begin, RemoteInv, RemoteComplete, JobOn, NoJob, Turn, remoteVars
<1>15. CASE PruneNext(p)
  BY SMTT(30), <1>0, <1>15 DEF PruneNext, Goto, RemoteInv, RemoteComplete, JobOn, NoJob, Turn, remoteVars
<1>16. CASE PruneDone(p)
  BY SMTT(30), <1>0, <1>16 DEF PruneDone, End, RemoteInv, RemoteComplete, JobOn, NoJob, Turn, remoteVars
<1>17. CASE RemoveEntry(p)
  BY <1>0, <1>17, ZenonT(30) DEF RemoveEntry, RemoteInv, RemoteComplete, JobOn, NoJob, Turn, remoteVars
<1>18. CASE RemoveDir(p)
  BY Zenon, <1>0, <1>18 DEF RemoveDir, Goto, End, RemoteInv, RemoteComplete, JobOn, NoJob, Turn, remoteVars
<1>19. CASE InstallStart(p)
  BY Zenon, <1>0, <1>19 DEF InstallStart, Begin, RemoteInv, RemoteComplete, JobOn, NoJob, Turn, remoteVars
<1>20. CASE InstallCheck(p)
  BY Zenon, <1>0, <1>20 DEF InstallCheck, Goto, RemoteInv, RemoteComplete, JobOn, NoJob, Turn, remoteVars
<1>21. CASE InstallRead(p)
  BY ZenonT(40), <1>0, <1>21 DEF InstallRead, Goto, RemoteInv, RemoteComplete, JobOn, NoJob, Turn, remoteVars
<1>22. CASE InstallRefused(p)
  BY Zenon, <1>0, <1>22 DEF InstallRefused, End, RemoteInv, RemoteComplete, JobOn, NoJob, Turn, remoteVars
<1>23. CASE InstallDone(p)
  BY Zenon, <1>0, <1>23 DEF InstallDone, End, RemoteInv, RemoteComplete, JobOn, NoJob, Turn, remoteVars
<1>24. CASE Abort(p)
  BY Zenon, <1>0, <1>24 DEF Abort, End, RemoteInv, RemoteComplete, JobOn, NoJob, Turn, remoteVars
<1> QED
  BY <1>1, <1>2, <1>3, <1>4, <1>5, <1>6, <1>7, <1>8, <1>9, <1>10, <1>11, <1>12, <1>13, <1>14, <1>15, <1>16, <1>17, <1>18, <1>19, <1>20, <1>21, <1>22, <1>23, <1>24 DEF Step

-----------------------------------------------------------------------------
(* The directories.                                                        *)

(* Only a step that stores or removes a file changes the entries, in the   *)
(* directory its job is on.                                                *)
LEMMA DirStep ==
  ASSUME TypeOK, JobInv, DirInv, NEW p \in Proc, Step(p)
  PROVE  DirInv'
<1>0. entry \in [Tag -> [Entry -> Content]] /\ dirs \subseteq Tag
  BY DEF TypeOK
<1>1. CASE UNCHANGED <<dirs, entry>>
  BY <1>1 DEF DirInv, EmptyDir
<1>2. CASE PullStart(p)
  BY <1>0, <1>2 DEF PullStart, DirInv, EmptyDir
<1>3. CASE dirs' = dirs /\ job[p].tag \in dirs /\ \E e, c : Store(p, job[p].tag, e, c)
  BY <1>0, <1>3, ZenonT(30) DEF Store, DirInv, EmptyDir
<1>4. CASE RemoveDir(p)
  BY <1>0, <1>4 DEF RemoveDir, DirInv, EmptyDir
<1>5. Download(p) \/ OpenManifest(p) \/ WriteManifest(p) \/ RemoveEntry(p)
        => dirs' = dirs /\ job[p].tag \in dirs /\ \E e, c : Store(p, job[p].tag, e, c)
  BY Zenon DEF Download, OpenManifest, WriteManifest, RemoveEntry, JobInv, Locked
<1>6. Step(p) => \/ UNCHANGED <<dirs, entry>> \/ PullStart(p) \/ RemoveDir(p)
                 \/ Download(p) \/ OpenManifest(p) \/ WriteManifest(p) \/ RemoveEntry(p)
  BY Zenon DEF Step, PushStart, PushLayer, PushConfig, PushManifest, Fetch, FetchFails, OpenPart,
         DownloadFails, PullDone, PruneStart, PruneNext, PruneDone, InstallStart,
         InstallCheck, InstallRead, InstallRefused, InstallDone, Abort, localVars
<1> QED
  BY <1>1, <1>2, <1>3, <1>4, <1>5, <1>6

(* The steps that store or remove a file.                                  *)
Storing(p) == Download(p) \/ OpenManifest(p) \/ WriteManifest(p) \/ RemoveEntry(p)

(* They are taken under the lock, in the directory of the job, and make    *)
(* every install that reads it doubtful; no other step changes an entry.   *)
LEMMA StoreStep ==
  ASSUME TypeOK, LockInv, JobInv, NEW p \in Proc, Step(p)
  PROVE  /\ ~Storing(p) => entry' = entry
         /\ Storing(p) => /\ holder = p /\ pc[p] \in Locked /\ job[p].tag \in Tag
                          /\ \E e, c : Store(p, job[p].tag, e, c)
  BY ZenonT(30) DEF Step, Storing, PushStart, PushLayer, PushConfig, PushManifest, PullStart, Fetch,
         FetchFails, OpenPart, Download, DownloadFails, OpenManifest, WriteManifest,
         PullDone, PruneStart, PruneNext, PruneDone, RemoveEntry, RemoveDir, InstallStart,
         InstallCheck, InstallRead, InstallRefused, InstallDone, Abort, localVars,
         LockInv, JobInv, Locked

(* A step of one invocation leaves the stages and jobs of the others alone. *)
LEMMA OthersStay ==
  ASSUME TypeOK, NEW p \in Proc, Step(p)
  PROVE  \A q \in Proc \ {p} : pc'[q] = pc[q] /\ job'[q] = job[q]
<1>0. pc \in [Proc -> Stage] /\ job \in [Proc -> Job]
  BY DEF TypeOK
<1>1. CASE PushStart(p)
  BY <1>0, <1>1 DEF PushStart, Begin
<1>2. CASE PushLayer(p)
  BY ZenonT(40), <1>0, <1>2 DEF PushLayer
<1>3. CASE PushConfig(p)
  BY <1>0, <1>3 DEF PushConfig
<1>4. CASE PushManifest(p)
  BY <1>0, <1>4 DEF PushManifest, End
<1>5. CASE PullStart(p)
  BY <1>0, <1>5 DEF PullStart, Begin
<1>6. CASE Fetch(p)
  BY ZenonT(40), <1>0, <1>6 DEF Fetch, Goto
<1>7. CASE FetchFails(p)
  BY <1>0, <1>7 DEF FetchFails, Goto
<1>8. CASE OpenPart(p)
  BY <1>0, <1>8, ZenonT(30) DEF OpenPart, Goto
<1>9. CASE Download(p)
  BY <1>0, <1>9 DEF Download, Goto
<1>10. CASE DownloadFails(p)
  BY <1>0, <1>10, ZenonT(30) DEF DownloadFails, Goto
<1>11. CASE OpenManifest(p)
  BY <1>0, <1>11 DEF OpenManifest, Goto
<1>12. CASE WriteManifest(p)
  BY <1>0, <1>12 DEF WriteManifest, Goto
<1>13. CASE PullDone(p)
  BY Zenon, <1>0, <1>13 DEF PullDone, Goto, End
<1>14. CASE PruneStart(p)
  BY <1>0, <1>14 DEF PruneStart, Begin
<1>15. CASE PruneNext(p)
  BY <1>0, <1>15 DEF PruneNext, Goto
<1>16. CASE PruneDone(p)
  BY <1>0, <1>16 DEF PruneDone, End
<1>17. CASE RemoveEntry(p)
  BY <1>0, <1>17, ZenonT(30) DEF RemoveEntry
<1>18. CASE RemoveDir(p)
  BY <1>0, <1>18 DEF RemoveDir, Goto, End
<1>19. CASE InstallStart(p)
  BY <1>0, <1>19 DEF InstallStart, Begin
<1>20. CASE InstallCheck(p)
  BY <1>0, <1>20 DEF InstallCheck, Goto
<1>21. CASE InstallRead(p)
  BY ZenonT(40), <1>0, <1>21 DEF InstallRead, Goto
<1>22. CASE InstallRefused(p)
  BY <1>0, <1>22, ZenonT(30) DEF InstallRefused, End
<1>23. CASE InstallDone(p)
  BY <1>0, <1>23 DEF InstallDone, End
<1>24. CASE Abort(p)
  BY <1>0, <1>24 DEF Abort, End
<1> QED
  BY Zenon, <1>1, <1>2, <1>3, <1>4, <1>5, <1>6, <1>7, <1>8, <1>9, <1>10, <1>11, <1>12, <1>13, <1>14, <1>15, <1>16, <1>17, <1>18, <1>19, <1>20, <1>21, <1>22, <1>23, <1>24 DEF Step

(* A pull has stored what it has ticked off, and writes the manifest last. *)
LEMMA PullStep ==
  ASSUME TypeOK, LockInv, JobInv, PullInv, NEW p \in Proc, Step(p)
  PROVE  PullInv'
<1>0. /\ pc \in [Proc -> Stage] /\ job \in [Proc -> Job]
      /\ entry \in [Tag -> [Entry -> Content]]
  BY DEF TypeOK
<1>1. ASSUME NEW q \in Proc PROVE Pulled(q)'
  <2>1. CASE q # p
    <3>1. pc'[q] = pc[q] /\ job'[q] = job[q]
      BY <2>1, OthersStay
    <3>2. pc[q] \in Locked => entry' = entry
      BY <2>1, StoreStep DEF LockInv
    <3> QED
      BY ZenonT(40), <3>1, <3>2 DEF PullInv, Pulled, Valid, Locked
  <2>2. CASE q = p
    <3>1. CASE Fetch(p)
      BY Zenon, <1>0, <2>2, <3>1 DEF Fetch, Goto, Pulled, Turn
    <3>2. CASE OpenPart(p)
      BY Zenon, <1>0, <2>2, <3>2 DEF OpenPart, Goto, PullInv, Pulled
    <3>3. CASE Download(p)
      <4>1. PICK a \in job[p].left :
              /\ Store(p, job[p].tag, FileName[job[p].ver][a], <<job[p].ver, a>>)
              /\ job' = [job EXCEPT ![p] = Turn(@, @.ver, @.left \ {a}, FALSE)]
        BY ZenonT(40), <3>3 DEF Download
      <4>2. /\ pc'[p] = "blobs" /\ job'[p].tag = job[p].tag /\ job'[p].ver = job[p].ver
            /\ job'[p].left = job[p].left \ {a}
        BY SMTT(30), <1>0, <3>3, <4>1 DEF Download, Goto, Turn
      <4>3. /\ job[p].ver \in Version /\ job[p].tag \in Tag /\ job[p].left \subseteq Artifact
            /\ \A b \in Artifact : FileName[job[p].ver][b] \in Entry
            /\ \A b \in Artifact : FileName[job[p].ver][a] = FileName[job[p].ver][b] => a = b
        BY <1>0, <3>3, UpdateAssumption DEF Download, JobInv, Job, Entry
      <4>4. \A b \in Artifact \ job[p].left :
              entry[job[p].tag][FileName[job[p].ver][b]] = <<job[p].ver, b>>
        BY Zenon, <3>3 DEF Download, PullInv, Pulled
      <4>5. \A b \in Artifact \ (job[p].left \ {a}) :
              entry'[job[p].tag][FileName[job[p].ver][b]] = <<job[p].ver, b>>
        BY ZenonT(40), <1>0, <4>1, <4>3, <4>4 DEF Store
      <4> QED
        BY Zenon, <2>2, <4>2, <4>5 DEF Pulled
    <3>4. CASE OpenManifest(p)
      <4>1. /\ pc'[p] = "writing" /\ job'[p] = job[p]
            /\ job[p].tag \in Tag /\ job[p].ver \in Version
            /\ entry' = [entry EXCEPT ![job[p].tag][MANIFEST] = Torn]
        BY Zenon, <1>0, <3>4 DEF OpenManifest, Goto, Store, JobInv
      <4>2. \A b \in Artifact : entry[job[p].tag][FileName[job[p].ver][b]] = <<job[p].ver, b>>
        BY Zenon, <3>4 DEF OpenManifest, PullInv, Pulled
      <4>3. \A b \in Artifact : FileName[job[p].ver][b] \in Entry \ {MANIFEST}
        BY <4>1, UpdateAssumption DEF Entry
      <4>4. MANIFEST \in Entry
        BY DEF Entry
      <4>5. entry'[job[p].tag][MANIFEST] = Torn
        BY <1>0, <4>1, <4>4
      <4>6. \A b \in Artifact : entry'[job[p].tag][FileName[job[p].ver][b]] = <<job[p].ver, b>>
        BY Zenon, <1>0, <4>1, <4>2, <4>3
      <4> QED
        BY Zenon, <2>2, <4>1, <4>5, <4>6 DEF Pulled, Valid
    <3>5. CASE WriteManifest(p)
      <4>1. /\ pc'[p] = "written" /\ job'[p] = job[p]
            /\ job[p].tag \in Tag /\ job[p].ver \in Version
            /\ entry' = [entry EXCEPT ![job[p].tag][MANIFEST] = job[p].ver]
        BY <1>0, <3>5 DEF WriteManifest, Goto, Store, JobInv
      <4>2. \A b \in Artifact : entry[job[p].tag][FileName[job[p].ver][b]] = <<job[p].ver, b>>
        BY Zenon, <3>5 DEF WriteManifest, PullInv, Pulled, Valid
      <4>3. \A b \in Artifact : FileName[job[p].ver][b] \in Entry \ {MANIFEST}
        BY <4>1, UpdateAssumption DEF Entry
      <4>4. MANIFEST \in Entry
        BY DEF Entry
      <4>5. entry'[job[p].tag][MANIFEST] = job[p].ver
        BY <1>0, <4>1, <4>4
      <4>6. \A b \in Artifact : entry'[job[p].tag][FileName[job[p].ver][b]] = <<job[p].ver, b>>
        BY Zenon, <1>0, <4>1, <4>2, <4>3
      <4> QED
        BY ZenonT(40), <2>2, <4>1, <4>5, <4>6 DEF Pulled, Valid
    <3>6. CASE /\ ~Fetch(p) /\ ~OpenPart(p)
               /\ ~Download(p) /\ ~OpenManifest(p) /\ ~WriteManifest(p)
      <4>1. pc'[p] \notin {"blobs", "blob", "writing", "written"}
        BY Zenon, <1>0, <3>6
        DEF Step, PushStart, PushLayer, PushConfig, PushManifest, PullStart, FetchFails,
            DownloadFails, PullDone, PruneStart, PruneNext, PruneDone, RemoveEntry,
            RemoveDir, InstallStart, InstallCheck, InstallRead, InstallRefused,
            InstallDone, Abort, Begin, Goto, End
      <4> QED
        BY Zenon, <2>2, <4>1 DEF Pulled
    <3> QED
      BY <3>1, <3>2, <3>3, <3>4, <3>5, <3>6
  <2> QED
    BY <2>1, <2>2
<1> QED
  BY <1>1 DEF PullInv

(* A lock that is held by one invocation is neither taken nor released by  *)
(* a step of another.                                                      *)
LEMMA HolderStays ==
  ASSUME TypeOK, NEW p \in Proc, Step(p), holder # None, holder # p
  PROVE  holder' = holder
  BY Zenon DEF Step, PushStart, PushLayer, PushConfig, PushManifest, PullStart, Fetch,
         FetchFails, OpenPart, Download, DownloadFails, OpenManifest, WriteManifest,
         PullDone, PruneStart, PruneNext, PruneDone, RemoveEntry, RemoveDir, InstallStart,
         InstallCheck, InstallRead, InstallRefused, InstallDone, Abort, End

(* The directory of t is being rewritten or removed.                       *)
Under(t) == \E q \in Proc : holder = q /\ job[q].tag = t /\ Dirty(q)

Vouched(t) ==
  entry[t][MANIFEST] \in {None, Torn} \/ Complete(t) \/ t \in cut \/ Under(t)

(* A stored manifest goes on vouching for its artifacts.                   *)
LEMMA VouchStep ==
  ASSUME TypeOK, LockInv, JobInv, PullInv, PullInv', DirInv, ManifestVouches,
         NEW p \in Proc, Step(p)
  PROVE  ManifestVouches'
<1>0. /\ pc \in [Proc -> Stage] /\ job \in [Proc -> Job] /\ dirs \subseteq Tag
      /\ entry \in [Tag -> [Entry -> Content]] /\ holder \in Proc \cup {None} /\ None \notin Proc
  BY ValueAssumption DEF TypeOK
<1>1. SUFFICES ASSUME NEW t \in dirs' PROVE Vouched(t)'
  BY Zenon DEF ManifestVouches, Vouched, Under
<1>2. t \in dirs => Vouched(t)
  BY Zenon DEF ManifestVouches, Vouched, Under
<1>3. ASSUME t \in dirs, entry'[t] = entry[t], t \in cut => t \in cut',
             Under(t) => Under(t)' \/ t \in cut'
      PROVE  Vouched(t)'
  BY Zenon, <1>2, <1>3 DEF Vouched, Complete, Valid
<1>4. CASE Storing(p)
  <2>1. holder = p /\ pc[p] \in Locked /\ job[p].tag \in Tag
    BY <1>4, StoreStep
  <2>2. PICK e, c : Store(p, job[p].tag, e, c)
    BY <1>4, StoreStep
  <2>3. dirs' = dirs /\ (UNCHANGED cut \/ cut' = cut \ {job[p].tag})
    BY Zenon, <1>4 DEF Storing, Download, OpenManifest, WriteManifest, RemoveEntry
  <2>4. CASE t # job[p].tag
    <3>1. entry'[t] = entry[t]
      BY <1>0, <2>2, <2>4 DEF Store
    <3>2. ~Under(t)
      BY <2>1, <2>4 DEF Under
    <3> QED
      BY Zenon, <1>3, <2>3, <2>4, <3>1, <3>2
  <2>5. CASE t = job[p].tag
    <3>1. CASE Download(p)
      <4>1. PICK a \in job[p].left : job' = [job EXCEPT ![p] = Turn(@, @.ver, @.left \ {a}, FALSE)]
        BY Zenon, <3>1 DEF Download
      <4>2. job'[p].tag = t /\ job'[p].left = job[p].left \ {a}
        BY <1>0, <2>5, <4>1 DEF Turn
      <4>3. job'[p].left # Artifact
        BY <1>0, <4>2 DEF Job
      <4>4. pc'[p] = "blobs" /\ holder' = p
        BY Zenon, <1>0, <2>1, <3>1 DEF Download, Goto
      <4> QED
        BY <4>2, <4>3, <4>4 DEF Vouched, Under, Dirty
    <3>2. CASE OpenManifest(p)
      <4>1. pc'[p] = "writing" /\ job'[p].tag = t
        BY Zenon, <1>0, <2>5, <3>2 DEF OpenManifest, Goto
      <4> QED
        BY Zenon, <4>1 DEF PullInv, Pulled, Vouched
    <3>3. CASE WriteManifest(p)
      <4>1. pc'[p] = "written" /\ job'[p].tag = t /\ job'[p].ver \in Version
        BY <1>0, <2>5, <3>3 DEF WriteManifest, Goto, JobInv
      <4> QED
        BY Zenon, <4>1 DEF PullInv, Pulled, Vouched, Complete
    <3>4. CASE RemoveEntry(p)
      <4>1. pc'[p] = "remove" /\ job'[p].tag = t /\ holder' = p
        BY Zenon, <2>1, <2>5, <3>4 DEF RemoveEntry
      <4> QED
        BY Zenon, <4>1 DEF Vouched, Under, Dirty
    <3> QED
      BY SMTT(30), <1>4, <3>1, <3>2, <3>3, <3>4 DEF Storing
  <2> QED
    BY <2>4, <2>5
<1>5. CASE PullStart(p)
  <2>1. entry' = entry /\ cut' = cut /\ ~Under(t)
    BY <1>0, <1>5 DEF PullStart, Under
  <2>2. CASE t \in dirs
    BY <1>3, <2>1, <2>2
  <2>3. CASE t \notin dirs
    <3>1. t \in Tag
      BY <1>0, <1>5 DEF PullStart
    <3>2. entry[t][MANIFEST] = None
      BY SMTT(30), <2>3, <3>1 DEF DirInv, EmptyDir, Entry
    <3> QED
      BY <2>1, <3>2 DEF Vouched
  <2> QED
    BY <2>2, <2>3
<1>6. CASE RemoveDir(p)
  <2>1. /\ entry' = entry /\ cut' = cut \ {job[p].tag} /\ dirs' = dirs \ {job[p].tag}
    BY Zenon, <1>6 DEF RemoveDir
  <2>2. holder = p
    BY Zenon, <1>6 DEF RemoveDir, LockInv, Locked
  <2> QED
    BY <1>3, <2>1, <2>2 DEF Under
<1>7. CASE ~Storing(p) /\ ~PullStart(p) /\ ~RemoveDir(p)
  <2>1. entry' = entry
    BY Zenon, <1>7, StoreStep
  <2>2. dirs' = dirs /\ cut \subseteq cut'
    BY Zenon, <1>7
    DEF Step, Storing, PushStart, PushLayer, PushConfig, PushManifest, Fetch, FetchFails,
        OpenPart, DownloadFails, PullDone, PruneStart, PruneNext, PruneDone, InstallStart,
        InstallCheck, InstallRead, InstallRefused, InstallDone, Abort, localVars, historyVars
  <2>3. Under(t) => Under(t)' \/ t \in cut'
    <3>1. SUFFICES ASSUME Under(t) PROVE Under(t)' \/ t \in cut'
      OBVIOUS
    <3>2. PICK q \in Proc : holder = q /\ job[q].tag = t /\ Dirty(q)
      BY <3>1 DEF Under
    <3>3. CASE q # p
      <4>1. pc'[q] = pc[q] /\ job'[q] = job[q]
        BY <3>3, OthersStay
      <4>2. holder' = q
        BY <1>0, <3>2, <3>3, HolderStays
      <4> QED
        BY <3>2, <4>1, <4>2 DEF Under, Dirty
    <3>4. CASE q = p
      <4>1. pc[p] \in {"remove", "blobs", "blob"}
        BY <3>2, <3>4 DEF Dirty
      <4>2. OpenPart(p) \/ DownloadFails(p) \/ Abort(p)
        BY Zenon, <1>7, <4>1
        DEF Step, Storing, PushStart, PushLayer, PushConfig, PushManifest, Fetch, FetchFails,
            PullDone, PruneStart, PruneNext, PruneDone, InstallStart, InstallCheck,
            InstallRead, InstallRefused, InstallDone, Begin
      <4>3. CASE OpenPart(p) \/ DownloadFails(p)
        BY ZenonT(40), <1>0, <3>2, <3>4, <4>3 DEF OpenPart, DownloadFails, Goto, Under, Dirty
      <4>4. CASE Abort(p)
        BY <3>2, <3>4, <4>4 DEF Abort
      <4> QED
        BY <4>2, <4>3, <4>4
    <3> QED
      BY <3>3, <3>4
  <2> QED
    BY <1>3, <2>1, <2>2, <2>3
<1> QED
  BY <1>4, <1>5, <1>6, <1>7

(* What an install may rely on.                                            *)
Sound(p) ==
  pc[p] \in Installing =>
    /\ holder = p => p \notin doubtful
    /\ p \notin doubtful =>
         /\ job[p].wrong = FALSE
         /\ pc[p] = "check" /\ ~job[p].validate => Valid(job[p].tag, job[p].ver, TRUE)
         /\ pc[p] = "read" => Valid(job[p].tag, job[p].ver, TRUE)

(* An install that nobody interferes with works on a valid directory.      *)
LEMMA InstallStep ==
  ASSUME TypeOK, TypeOK', LockInv, JobInv, JobInv', PullInv, InstallInv, NEW p \in Proc, Step(p)
  PROVE  InstallInv'
<1>0. /\ pc \in [Proc -> Stage] /\ job \in [Proc -> Job]
      /\ entry \in [Tag -> [Entry -> Content]] /\ holder \in Proc \cup {None} /\ None \notin Proc
  BY ValueAssumption DEF TypeOK
<1>1. SUFFICES ASSUME NEW q \in Proc PROVE Sound(q)'
  BY Zenon DEF InstallInv, Sound
<1>2. Sound(q)
  BY Zenon DEF InstallInv, Sound
<1>3. CASE q # p
  <2>1. pc'[q] = pc[q] /\ job'[q] = job[q]
    BY <1>3, OthersStay
  <2>2. holder' = q => holder = q
    BY Zenon, <1>0, <1>3
    DEF Step, PushStart, PushLayer, PushConfig, PushManifest, PullStart, Fetch,
        FetchFails, OpenPart, Download, DownloadFails, OpenManifest, WriteManifest,
        PullDone, PruneStart, PruneNext, PruneDone, RemoveEntry, RemoveDir, InstallStart,
        InstallCheck, InstallRead, InstallRefused, InstallDone, Abort, End
  <2>3. CASE Storing(p)
    <3>1. holder = p
      BY <2>3, StoreStep, ZenonT(30)
    <3>2. PICK e, c : Store(p, job[p].tag, e, c)
      BY <2>3, StoreStep
    <3>3. holder' # q
      BY <1>3, <2>2, <3>1
    <3>4. CASE pc[q] \in {"check", "read"} /\ job[q].tag = job[p].tag
      BY Zenon, <1>3, <2>1, <3>2, <3>3, <3>4 DEF Store, Sound
    <3>5. CASE pc[q] \in {"check", "read"} /\ job[q].tag # job[p].tag
      <4>1. job[q].tag \in Tag
        BY <3>5 DEF JobInv
      <4>2. entry'[job[q].tag] = entry[job[q].tag]
        BY <1>0, <3>2, <3>5, <4>1 DEF Store
      <4>3. doubtful \subseteq doubtful'
        BY <3>2 DEF Store
      <4> QED
        BY ZenonT(40), <1>2, <2>1, <3>3, <4>2, <4>3 DEF Sound, Valid
    <3>6. CASE pc[q] \notin {"check", "read"}
      <4>3. doubtful \subseteq doubtful'
        BY <3>2 DEF Store
      <4> QED
        BY Zenon, <1>2, <2>1, <3>3, <3>6, <4>3 DEF Sound
    <3> QED
      BY <3>4, <3>5, <3>6
  <2>4. CASE ~Storing(p)
    <3>1. entry' = entry
      BY <2>4, StoreStep
    <3>2. (q \in doubtful') = (q \in doubtful)
      <4>1. CASE InstallStart(p)
        <5>1. doubtful' = doubtful \/ doubtful' = doubtful \cup {p}
          BY Zenon, <4>1 DEF InstallStart
        <5> QED
          BY <1>3, <5>1
      <4>2. CASE ~InstallStart(p)
        <5>1. doubtful' = doubtful \/ doubtful' = doubtful \ {p}
          BY Zenon, <2>4, <4>2
          DEF Step, Storing, PushStart, PushLayer, PushConfig, PushManifest, PullStart,
              Fetch, FetchFails, OpenPart, DownloadFails, PullDone, PruneStart, PruneNext,
              PruneDone, RemoveDir, InstallCheck, InstallRead, InstallRefused, InstallDone,
              Abort, historyVars
        <5> QED
          BY <1>3, <5>1
      <4> QED
        BY <4>1, <4>2
    <3>3. Valid(job[q].tag, job[q].ver, TRUE) => Valid(job[q].tag, job[q].ver, TRUE)'
      BY Zenon, <2>1, <3>1 DEF Valid
    <3>4. (job[q].validate)' = job[q].validate /\ (job[q].wrong)' = job[q].wrong
      BY <2>1
    <3> QED
      BY ZenonT(40), <1>2, <2>1, <2>2, <3>2, <3>3, <3>4 DEF Sound
  <2> QED
    BY <2>3, <2>4
<1>4. CASE q = p
  <2>1. CASE pc'[p] \notin Installing
    BY Zenon, <1>4, <2>1 DEF Sound
  <2>2. CASE pc'[p] \in Installing
    <3>1. PullDone(p) \/ InstallStart(p) \/ InstallCheck(p) \/ InstallRead(p)
      BY Zenon, <1>0, <2>2
      DEF Step, PushStart, PushLayer, PushConfig, PushManifest, PullStart, Fetch,
          FetchFails, OpenPart, Download, DownloadFails, OpenManifest, WriteManifest,
          PruneStart, PruneNext, PruneDone, RemoveEntry, RemoveDir,
          InstallRefused, InstallDone, Abort, End, Goto, Begin, Installing
    <3>2. CASE PullDone(p)
      <4>1. pc[p] = "written" /\ Valid(job[p].tag, job[p].ver, TRUE) /\ p \notin doubtful
        BY Zenon, <3>2 DEF PullDone, PullInv, Pulled, JobInv, Installing
      <4>2. pc'[p] = "check" /\ job' = [job EXCEPT ![p] = Turn(@, @.ver, Artifact, FALSE)]
        BY ZenonT(40), <1>0, <2>2, <3>2 DEF PullDone, Goto, End, Installing
      <4>3. /\ job'[p].tag = job[p].tag /\ job'[p].ver = job[p].ver /\ job'[p].wrong = FALSE
        BY <1>0, <4>2 DEF Turn
      <4>4. entry' = entry /\ doubtful' = doubtful
        BY <3>2 DEF PullDone, localVars
      <4> QED
        BY Zenon, <1>4, <4>1, <4>2, <4>3, <4>4 DEF Sound, Valid
    <3>3. CASE InstallStart(p)
      <4>1. PICK t \in dirs, validate \in BOOLEAN :
              /\ entry[t][MANIFEST] \in Version
              /\ Begin(p, "check", JobOn(t, entry[t][MANIFEST], Artifact, validate, FALSE))
              /\ doubtful' = IF validate \/ Complete(t) THEN doubtful ELSE doubtful \cup {p}
        BY Zenon, <3>3 DEF InstallStart
      <4>2. /\ pc[p] = "idle" /\ pc'[p] = "check"
            /\ job'[p] = JobOn(t, entry[t][MANIFEST], Artifact, validate, FALSE)
        BY <1>0, <4>1, ZenonT(30) DEF Begin
      <4>3. /\ job'[p].tag = t /\ job'[p].ver = entry[t][MANIFEST]
            /\ job'[p].wrong = FALSE
        BY <4>2 DEF JobOn
      <4>4. job'[p].validate = validate
        BY <4>2 DEF JobOn
      <4>5. holder' # p /\ entry' = entry
        BY Zenon, <3>3, <4>2 DEF InstallStart, LockInv, Locked, Installing, localVars
      <4>6. p \notin doubtful' /\ ~validate => Complete(t)
        BY <4>1
      <4>7. p \notin doubtful' /\ ~validate => Valid(job[p].tag, job[p].ver, TRUE)'
        BY Zenon, <4>3, <4>5, <4>6 DEF Complete, Valid
      <4>8. p \notin doubtful' /\ ~job'[p].validate => Valid(job[p].tag, job[p].ver, TRUE)'
        BY Zenon, <4>4, <4>7
      <4> QED
        BY Zenon, <1>4, <4>2, <4>3, <4>5, <4>8 DEF Sound
    <3>4. CASE InstallCheck(p)
      <4>1. /\ pc[p] = "check" /\ pc'[p] = "read" /\ job' = job /\ entry' = entry
            /\ doubtful' = doubtful /\ holder' = holder
            /\ Valid(job[p].tag, job[p].ver, job[p].validate)
        BY <1>0, <3>4 DEF InstallCheck, Goto, localVars, historyVars
      <4>2. job[p].validate \in BOOLEAN
        BY <1>0 DEF Job
      <4>3. p \notin doubtful => Valid(job[p].tag, job[p].ver, TRUE)
        <5>1. CASE job[p].validate = TRUE
          BY Zenon, <4>1, <5>1
        <5>2. CASE job[p].validate = FALSE
          BY Zenon, <1>2, <1>4, <4>1, <5>2 DEF Sound, Installing
        <5> QED
          BY Zenon, <4>2, <5>1, <5>2
      <4> QED
        BY Zenon, <1>2, <1>4, <4>1, <4>3 DEF Sound, Valid, Installing
    <3>5. CASE InstallRead(p)
      <4>1. PICK a \in job[p].left :
              /\ job' = [job EXCEPT ![p] =
                    Turn(@, @.ver, @.left \ {a},
                         @.wrong \/ entry[job[p].tag][FileName[job[p].ver][a]] # <<@.ver, a>>)]
              /\ Goto(p, IF job[p].left = {a} THEN "installed" ELSE "read")
        BY Zenon, <3>5 DEF InstallRead
      <4>2. /\ job'[p].tag = job[p].tag /\ job'[p].ver = job[p].ver
            /\ job'[p].wrong = (job[p].wrong \/ entry[job[p].tag][FileName[job[p].ver][a]] # <<job[p].ver, a>>)
        BY Zenon, <1>0, <4>1 DEF Turn
      <4>3. pc[p] = "read" /\ entry' = entry /\ doubtful' = doubtful /\ holder' = holder
        BY Zenon, <3>5 DEF InstallRead, localVars, historyVars
      <4>4. pc'[p] \in {"installed", "read"}
        BY Zenon, <1>0, <4>1 DEF Goto
      <4>5. a \in Artifact
        BY Zenon, <1>0, <4>1 DEF Job
      <4>6. p \notin doubtful => job[p].wrong = FALSE /\ Valid(job[p].tag, job[p].ver, TRUE)
        BY Zenon, <1>2, <1>4, <4>3 DEF Sound, Installing
      <4>7. p \notin doubtful => entry[job[p].tag][FileName[job[p].ver][a]] = <<job[p].ver, a>>
        BY Zenon, <4>5, <4>6 DEF Valid
      <4>8. p \notin doubtful => job'[p].wrong = FALSE
        BY Zenon, <4>2, <4>6, <4>7
      <4>9. holder = p => p \notin doubtful
        BY Zenon, <1>2, <1>4, <4>3 DEF Sound, Installing
      <4> QED
        BY Zenon, <1>4, <4>2, <4>3, <4>4, <4>6, <4>8, <4>9 DEF Sound, Valid
    <3> QED
      BY <3>1, <3>2, <3>3, <3>4, <3>5
  <2> QED
    BY <2>1, <2>2
<1> QED
  BY <1>3, <1>4, ZenonT(30)

(* The steps after which another directory may be the newest.              *)
Touching(p) == PullStart(p) \/ OpenPart(p) \/ RemoveEntry(p) \/ RemoveDir(p)

(* No other step changes the order of the directories.                     *)
LEMMA OrderStays ==
  ASSUME NEW p \in Proc, Step(p), ~Touching(p)
  PROVE  newer' = newer /\ dirs' = dirs /\ (PullDone(p) \/ unfinished' = unfinished)
  BY ZenonT(40) DEF Touching, Step, PushStart, PushLayer, PushConfig, PushManifest, PullStart, Fetch, FetchFails,
        OpenPart, Download, DownloadFails, OpenManifest, WriteManifest, PullDone, PruneStart,
        PruneNext, PruneDone, RemoveEntry, RemoveDir, InstallStart, InstallCheck, InstallRead,
        InstallRefused, InstallDone, Abort,
         localVars, historyVars

(* A directory a pull is rewriting is the newest one.                      *)
LEMMA FreshStep ==
  ASSUME TypeOK, LockInv, JobInv, LastInv, NEW p \in Proc, Step(p), NEW q \in Proc, Fresh(q)'
  PROVE  newer'[job'[q].tag] = {}
<1>0. /\ pc \in [Proc -> Stage] /\ job \in [Proc -> Job] /\ Artifact # {}
      /\ newer \in [Tag -> SUBSET Tag] /\ None \notin Proc
  BY UpdateAssumption, ValueAssumption DEF TypeOK
<1>1. Fresh(q) => newer[job[q].tag] = {}
  BY ZenonT(30) DEF LastInv
<1>2. CASE q # p
  <2>1. pc'[q] = pc[q] /\ job'[q] = job[q]
    BY <1>2, OthersStay
  <2>2. Fresh(q) /\ holder = q
    BY <2>1 DEF Fresh, LockInv, Locked
  <2>3. ~Touching(p)
    BY Zenon, <1>0, <1>2, <2>2 DEF Touching, PullStart, OpenPart, RemoveEntry, RemoveDir, LockInv, Locked
  <2> QED
    BY <1>1, <2>1, <2>2, <2>3, OrderStays, ZenonT(30)
<1>3. CASE q = p
  <2>1. OpenPart(p) \/ Download(p) \/ OpenManifest(p) \/ WriteManifest(p)
    <3>1. ~Fetch(p)
      BY <1>0, <1>3 DEF Fetch, Goto, Turn, Fresh
    <3>2. pc'[p] \in {"blob", "blobs", "writing", "written"}
      BY Zenon, <1>3 DEF Fresh
    <3> QED
      BY ZenonT(40), <1>0, <3>1, <3>2
      DEF Step, PushStart, PushLayer, PushConfig, PushManifest, PullStart, Fetch, FetchFails,
        OpenPart, Download, DownloadFails, OpenManifest, WriteManifest, PullDone, PruneStart,
        PruneNext, PruneDone, RemoveEntry, RemoveDir, InstallStart, InstallCheck, InstallRead,
        InstallRefused, InstallDone, Abort,
          End, Goto, Begin
  <2>2. CASE OpenPart(p)
    BY ZenonT(40), <1>0, <1>3, <2>2 DEF OpenPart, Touch, JobInv, Locked
  <2>3. CASE Download(p)
    <3>1. PICK a \in job[p].left : job' = [job EXCEPT ![p] = Turn(@, @.ver, @.left \ {a}, FALSE)]
      BY Zenon, <2>3 DEF Download
    <3>2. job'[p].tag = job[p].tag
      BY <1>0, <3>1 DEF Turn
    <3>3. Fresh(p) /\ newer' = newer
      BY Zenon, <2>3 DEF Download, Fresh
    <3> QED
      BY <1>1, <1>3, <3>2, <3>3
  <2>4. CASE OpenManifest(p) \/ WriteManifest(p)
    <3>1. Fresh(p) /\ newer' = newer /\ job' = job
      BY ZenonT(40), <1>0, <2>4 DEF OpenManifest, WriteManifest, Fresh
    <3> QED
      BY Zenon, <1>1, <1>3, <3>1
  <2> QED
    BY Zenon, <2>1, <2>2, <2>3, <2>4
<1> QED
  BY <1>2, <1>3, ZenonT(30)

(* The update of the last pull stays, and stays out of the way of prune.   *)
LEMMA LastStep ==
  ASSUME TypeOK, TypeOK', LockInv, JobInv, PullInv, LastInv, NEW p \in Proc, Step(p),
         last # None /\ ~(Cardinality(unfinished) >= Keep) => last \notin Stale
  PROVE  LastInv'
<1>0. /\ pc \in [Proc -> Stage] /\ job \in [Proc -> Job] /\ dirs \subseteq Tag /\ Artifact # {}
      /\ newer \in [Tag -> SUBSET Tag] /\ entry \in [Tag -> [Entry -> Content]]
      /\ holder \in Proc \cup {None} /\ None \notin Proc \cup Tag
  BY UpdateAssumption, ValueAssumption, ZenonT(30) DEF TypeOK
<1>1. ASSUME NEW q \in Proc, Fresh(q)' PROVE (newer[job[q].tag] = {})'
  BY <1>1, FreshStep, ZenonT(30)
<1>2. SUFFICES ASSUME last' # None
               PROVE  /\ Complete(last)'
                      /\ newer'[last'] \subseteq unfinished'
                      /\ last' \notin stale'
                      /\ \A q \in Proc : Fresh(q)' \/ pc'[q] = "remove" => job'[q].tag # last'
  BY <1>1 DEF LastInv
<1>3. CASE PullDone(p)
  <2>1. /\ pc[p] = "written" /\ last' = job[p].tag
        /\ entry' = entry /\ dirs' = dirs /\ newer' = newer
    BY <1>3 DEF PullDone, localVars
  <2>2. /\ job[p].tag \in dirs /\ job[p].ver \in Version
        /\ entry[job[p].tag][MANIFEST] = job[p].ver /\ Valid(job[p].tag, job[p].ver, TRUE)
    BY Zenon, <2>1 DEF PullInv, Pulled, JobInv, Locked
  <2>3. Complete(last)'
    BY ZenonT(40), <2>1, <2>2 DEF Complete, Valid
  <2>4. newer'[last'] = {}
    BY <2>1 DEF LastInv, Fresh
  <2>5. holder = p /\ stale = {}
    BY <1>0, <2>1 DEF LockInv, Locked
  <2>6. stale' = {}
    BY Zenon, <1>3, <2>5 DEF PullDone, End
  <2>7. ASSUME NEW q \in Proc, Fresh(q)' \/ pc'[q] = "remove" PROVE FALSE
    <3>1. CASE q = p
      BY Zenon, <1>0, <1>3, <2>7, <3>1 DEF PullDone, End, Goto, Fresh
    <3>2. CASE q # p
      <4>1. pc'[q] = pc[q]
        BY <3>2, OthersStay
      <4>2. pc[q] \in Locked
        BY <2>7, <4>1, ZenonT(30) DEF Fresh, Locked
      <4> QED
        BY <2>5, <3>2, <4>2 DEF LockInv
    <3> QED
      BY <3>1, <3>2
  <2> QED
    BY <2>3, <2>4, <2>6, <2>7
<1>4. CASE ~PullDone(p)
  <2>1. last' = last
    BY Zenon, <1>2, <1>4
    DEF Step, PushStart, PushLayer, PushConfig, PushManifest, PullStart, Fetch, FetchFails,
        OpenPart, Download, DownloadFails, OpenManifest, WriteManifest, PullDone, PruneStart,
        PruneNext, PruneDone, RemoveEntry, RemoveDir, InstallStart, InstallCheck, InstallRead,
        InstallRefused, InstallDone, Abort,
        historyVars, Forsake
  <2>2. /\ last # None /\ last \in dirs /\ last \in Tag /\ Complete(last)
        /\ newer[last] \subseteq unfinished /\ last \notin stale
        /\ \A q \in Proc : Fresh(q) \/ pc[q] = "remove" => job[q].tag # last
    BY Zenon, <1>0, <1>2, <2>1 DEF LastInv, Complete
  <2>3. OpenPart(p) \/ FetchFails(p) => job[p].tag # last
    BY Zenon, <1>2, <2>1 DEF OpenPart, FetchFails, Forsake
  <2>4. Storing(p) \/ RemoveDir(p) => job[p].tag # last
    BY Zenon, <1>0, <2>2
    DEF Storing, Download, OpenManifest, WriteManifest, RemoveEntry, RemoveDir, Fresh
  <2>5. entry'[last] = entry[last]
    <3>1. CASE Storing(p)
      <4>1. PICK e, c : Store(p, job[p].tag, e, c)
        BY ZenonT(40), <3>1, StoreStep
      <4> QED
        BY <1>0, <2>2, <2>4, <3>1, <4>1 DEF Store
    <3>2. CASE ~Storing(p)
      BY <3>2, StoreStep, ZenonT(30)
    <3> QED
      BY ZenonT(40), <3>1, <3>2
  <2>6. last \in dirs' /\ newer'[last] \subseteq unfinished'
    <3>1. CASE ~Touching(p)
      BY <1>4, <2>2, <3>1, OrderStays, ZenonT(30)
    <3>2. CASE PullStart(p)
      BY <1>0, <2>2, <3>2 DEF PullStart, Touch
    <3>3. CASE OpenPart(p)
      BY ZenonT(40), <1>0, <2>2, <2>3, <3>3 DEF OpenPart, Touch
    <3>4. CASE RemoveEntry(p)
      BY <1>0, <2>2, <2>4, <3>4, ZenonT(30) DEF RemoveEntry, Touch, Storing
    <3>5. CASE RemoveDir(p)
      BY <1>0, <2>2, <2>4, <3>5 DEF RemoveDir
    <3> QED
      BY <3>1, <3>2, <3>3, <3>4, <3>5, ZenonT(30) DEF Touching
  <2>7. Complete(last)'
    BY Zenon, <2>1, <2>2, <2>5, <2>6 DEF Complete, Valid
  <2>8. last \notin stale'
    <3>1. CASE PruneStart(p)
      <4>1. ~(Cardinality(unfinished) >= Keep) /\ stale' = Stale
        BY <1>2, <3>1, ZenonT(30) DEF PruneStart
      <4> QED
        BY <2>2, <4>1
    <3>2. CASE ~PruneStart(p)
      <4>1. stale' \subseteq stale
        BY Zenon, <3>2
        DEF Step, PushStart, PushLayer, PushConfig, PushManifest, PullStart, Fetch, FetchFails,
        OpenPart, Download, DownloadFails, OpenManifest, WriteManifest, PullDone, PruneStart,
        PruneNext, PruneDone, RemoveEntry, RemoveDir, InstallStart, InstallCheck, InstallRead,
        InstallRefused, InstallDone, Abort,
            End
      <4> QED
        BY <2>2, <4>1, ZenonT(30)
    <3> QED
      BY <3>1, <3>2, ZenonT(30)
  <2>9. ASSUME NEW q \in Proc, Fresh(q)' \/ pc'[q] = "remove" PROVE job'[q].tag # last
    <3>1. CASE q # p
      <4>1. pc'[q] = pc[q] /\ job'[q] = job[q]
        BY <3>1, OthersStay
      <4> QED
        BY ZenonT(40), <2>2, <2>9, <4>1 DEF Fresh
    <3>2. CASE q = p
      <4>1. \/ OpenPart(p) \/ FetchFails(p) \/ Download(p) \/ DownloadFails(p)
            \/ OpenManifest(p) \/ WriteManifest(p) \/ PruneNext(p) \/ RemoveEntry(p)
        <5>1. ~Fetch(p)
          BY <1>0, <2>9, <3>2 DEF Fetch, Goto, Turn, Fresh
        <5>2. pc'[p] \in {"blob", "blobs", "writing", "written", "remove"}
          BY <2>9, <3>2 DEF Fresh
        <5> QED
          BY ZenonT(40), <1>0, <1>4, <5>1, <5>2
          DEF Step, PushStart, PushLayer, PushConfig, PushManifest, PullStart, Fetch, FetchFails,
        OpenPart, Download, DownloadFails, OpenManifest, WriteManifest, PullDone, PruneStart,
        PruneNext, PruneDone, RemoveEntry, RemoveDir, InstallStart, InstallCheck, InstallRead,
        InstallRefused, InstallDone, Abort,
              End, Goto, Begin
      <4>2. CASE OpenPart(p) \/ FetchFails(p)
        BY Zenon, <2>3, <3>2, <4>2 DEF OpenPart, FetchFails
      <4>3. CASE DownloadFails(p)
        BY ZenonT(40), <2>2, <3>2, <4>3 DEF DownloadFails, Fresh
      <4>4. CASE Download(p)
        <5>1. PICK a \in job[p].left : job' = [job EXCEPT ![p] = Turn(@, @.ver, @.left \ {a}, FALSE)]
          BY ZenonT(40), <4>4 DEF Download
        <5>2. job'[p].tag = job[p].tag
          BY <1>0, <5>1 DEF Turn
        <5> QED
          BY <2>4, <3>2, <4>4, <5>2, ZenonT(30) DEF Storing
      <4>5. CASE OpenManifest(p) \/ WriteManifest(p) \/ RemoveEntry(p)
        BY Zenon, <2>4, <3>2, <4>5 DEF Storing, OpenManifest, WriteManifest, RemoveEntry
      <4>6. CASE PruneNext(p)
        <5>1. PICK t \in stale : job' = [job EXCEPT ![p] = JobOn(t, None, {}, FALSE, FALSE)]
          BY ZenonT(40), <4>6 DEF PruneNext
        <5>2. job'[p].tag = t
          BY <1>0, <5>1 DEF JobOn
        <5> QED
          BY Zenon, <2>2, <3>2, <5>2
      <4> QED
        BY <4>1, <4>2, <4>3, <4>4, <4>5, <4>6
    <3> QED
      BY <3>1, <3>2
  <2> QED
    BY <2>1, <2>6, <2>7, <2>8, <2>9
<1> QED
  BY <1>3, <1>4, ZenonT(30)

INSTANCE FiniteSetTheorems

(* Keep directories newer than `last` are Keep unfinished ones.            *)
LEMMA LastNotStale ==
  ASSUME TypeOK, LastInv, last # None, ~(Cardinality(unfinished) >= Keep)
  PROVE  last \notin Stale
<1>1. IsFiniteSet(Tag) /\ Keep \in Nat
  BY UpdateAssumption
<1>2. newer[last] \cap Updates \subseteq unfinished /\ unfinished \subseteq Tag
  BY DEF LastInv, TypeOK
<1>3. IsFiniteSet(unfinished)
  BY Zenon, <1>1, <1>2, FS_Subset
<1>4. /\ IsFiniteSet(newer[last] \cap Updates)
      /\ Cardinality(newer[last] \cap Updates) <= Cardinality(unfinished)
  BY Zenon, <1>2, <1>3, FS_Subset
<1>5. Cardinality(newer[last] \cap Updates) \in Nat /\ Cardinality(unfinished) \in Nat
  BY Zenon, <1>3, <1>4, FS_CardinalityType
<1> QED
  BY <1>1, <1>4, <1>5 DEF Stale

-----------------------------------------------------------------------------
(* The invariant is inductive ...                                          *)
THEOREM Invariance == Spec => []IInv
<1>1. Init => IInv
  BY InitInv
<1>2. IInv /\ [Next]_vars => IInv'
  <2>1. SUFFICES ASSUME IInv, [Next]_vars PROVE IInv'
    OBVIOUS
  <2>2. CASE UNCHANGED vars
    <3>1. /\ UNCHANGED <<blobs, tagged, dirs, entry, newer, holder, pc, job, stale>>
          /\ UNCHANGED <<cut, doubtful, last, unfinished, commands, faults>>
      BY <2>2, ZenonT(30) DEF vars, remoteVars, localVars, historyVars
    <3>2. TypeOK' /\ LockInv' /\ DirInv'
      BY <2>1, <3>1 DEF IInv, TypeOK, LockInv, DirInv
    <3>3. JobInv' /\ RemoteInv'
      BY Zenon, <2>1, <3>1 DEF IInv, JobInv, RemoteInv, RemoteComplete
    <3>4. PullInv'
      BY Zenon, <2>1, <3>1 DEF IInv, PullInv, Pulled, Valid
    <3>5. ManifestVouches'
      BY Zenon, <2>1, <3>1 DEF IInv, ManifestVouches, Complete, Valid, Dirty
    <3>6. InstallInv'
      BY Zenon, <2>1, <3>1 DEF IInv, InstallInv, Valid
    <3>7. LastInv'
      BY ZenonT(40), <2>1, <3>1 DEF IInv, LastInv, Complete, Valid, Fresh
    <3> QED
      BY <3>2, <3>3, <3>4, <3>5, <3>6, <3>7 DEF IInv
  <2>3. CASE Next
    <3>1. PICK p \in Proc : Step(p)
      BY <2>3, NextIsStep
    <3>2. /\ TypeOK /\ LockInv /\ JobInv /\ RemoteInv /\ PullInv /\ DirInv
          /\ ManifestVouches /\ InstallInv /\ LastInv
      BY <2>1 DEF IInv
    <3>3. TypeOK'
      BY <3>1, <3>2, TypeStep
    <3>4. LockInv'
      BY <3>1, <3>2, LockStep
    <3>5. JobInv'
      BY <3>1, <3>2, JobStep
    <3>6. RemoteInv'
      BY <3>1, <3>2, RemoteStep
    <3>7. PullInv'
      BY <3>1, <3>2, <3>3, <3>5, PullStep
    <3>8. DirInv'
      BY <3>1, <3>2, DirStep
    <3>9. ManifestVouches'
      BY <3>1, <3>2, <3>7, VouchStep
    <3>10. InstallInv'
      BY <3>1, <3>2, <3>3, <3>5, InstallStep
    <3>11. LastInv'
      BY <3>1, <3>2, <3>3, LastNotStale, LastStep
    <3> QED
      BY <3>3, <3>4, <3>5, <3>6, <3>7, <3>8, <3>9, <3>10, <3>11, ZenonT(30) DEF IInv
  <2> QED
    BY <2>1, <2>2, <2>3
<1> QED
  BY <1>1, <1>2, PTL DEF Spec

(* ... and implies the properties: the type invariant with the order of    *)
(* the directories,                                                        *)
THEOREM UpdateTypes == Spec => []TypeOK
<1>1. IInv => TypeOK
  BY DEF IInv
<1> QED
  BY <1>1, Invariance, PTL

(* the remote promise of push_layers_and_config (oras.rs:373-473): a tag   *)
(* names a manifest all of whose blobs can be pulled,                      *)
THEOREM PushedIsComplete == Spec => []RemoteComplete
<1>1. IInv => RemoteComplete
  BY DEF IInv, RemoteInv
<1> QED
  BY <1>1, Invariance, PTL

(* the local promise of pull_update (registry/mod.rs:243-312): a stored    *)
(* manifest vouches for the artifacts beside it,                           *)
THEOREM StoredIsVouched == Spec => []ManifestVouches
<1>1. IInv => ManifestVouches
  BY DEF IInv
<1> QED
  BY <1>1, Invariance, PTL

(* what install_from_manifest_path (image/install.rs:17-35) installs is    *)
(* the update of the manifest it was given,                                *)
THEOREM InstalledIsManifest == Spec => []InstallsManifest
<1>1. IInv => InstallsManifest
  BY Zenon DEF IInv, InstallInv, InstallsManifest, Installing
<1> QED
  BY <1>1, Invariance, PTL

(* and prune_downloaded_updates (registry/mod.rs:380-424) spares the       *)
(* update that was pulled last.                                            *)
THEOREM LastIsSpared == Spec => []LastPulledSurvives
<1>1. IInv => LastPulledSurvives
  BY Zenon DEF IInv, LastInv, LastPulledSurvives
<1> QED
  BY <1>1, Invariance, PTL
=============================================================================
