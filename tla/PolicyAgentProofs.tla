-------------------------- MODULE PolicyAgentProofs -------------------------
(***************************************************************************)
(* The recorded hashes of the policy agent tell the truth, and restarts    *)
(* lose no policy, for any policies, payloads, calls and faults.           *)
(***************************************************************************)
EXTENDS PolicyAgent, TLAPS

(* What RecordedIsInstalled says of one policy.                            *)
Truthful(p) ==
  policyMap[p] \in Payload /\ p \notin cut =>
    /\ store[p] = policyMap[p]
    /\ p \in Deployed => dest[p] = policyMap[p]

(* The step at which c has files out of step with the recorded hash.       *)
Midway(c) == pc[c] \in {"copying", "record"} \/ (pc[c] = "rename" /\ name[c] \in Deployed)

(* Only a policy in the middle of its installation may be untruthful.      *)
Truth == \A p \in Policy : (\A c \in Call : Midway(c) => name[c] # p) => Truthful(p)

(* How far the call that holds the mutex has come.                         *)
Progress ==
  \A c \in Call :
    /\ pc[c] \in {"copy", "copying"} => name[c] \in Deployed
    /\ pc[c] = "rename" /\ name[c] \in Deployed => dest[name[c]] = temp[c]
    /\ pc[c] = "record" => /\ store[name[c]] = temp[c]
                           /\ name[c] \in Deployed => dest[name[c]] = temp[c]
    /\ pc[c] \in Installing => policyMap[name[c]] # Unknown

(* policies.json, when it is whole, knows the policies the map knows; and  *)
(* while the agent is down it holds their hashes, except for what was cut. *)
Filed ==
  \A m \in Map : info = <<m>> =>
    \A p \in Policy : /\ (policyMap[p] = Unknown) = (m[p] = Unknown)
                      /\ ~up /\ p \notin cut => m[p] = policyMap[p]

Quiet == ~up => \A c \in Call : pc[c] = "idle"

IInv == TypeOK /\ Truth /\ Progress /\ Filed /\ Quiet

-----------------------------------------------------------------------------
(* At most one call is past the lock of UpdatePolicy.                      *)
LEMMA OneInstalls ==
  ASSUME TypeOK, NEW c \in Call, NEW d \in Call, c # d, pc[c] \in {"success"} \cup Installing
  PROVE  pc[d] \notin {"success"} \cup Installing
  BY DEF TypeOK

(* The map of the agent is empty before anything was installed.            *)
LEMMA IInvInit == Init => IInv
<1> SUFFICES ASSUME Init PROVE IInv
  OBVIOUS
<1>1. TypeOK
  BY PolicyAssumption DEF Init, TypeOK, Map, Sha, Installing
<1>2. Truth
  BY PolicyAssumption DEF Init, Truth, Truthful
<1>3. Progress
  BY DEF Init, Progress, Installing
<1>4. Filed
  BY PolicyAssumption DEF Init, Filed
<1>5. Quiet
  BY DEF Init, Quiet
<1> QED
  BY <1>1, <1>2, <1>3, <1>4, <1>5 DEF IInv

(* Every step of StreamPolicy, UpdatePolicy and of a restart keeps types.  *)
LEMMA TypeStep == TypeOK /\ [Next]_vars => TypeOK'
<1> SUFFICES ASSUME TypeOK, [Next]_vars PROVE TypeOK'
  OBVIOUS
<1> USE PolicyAssumption DEF TypeOK, Installing
<1>1. ASSUME NEW c \in Call, StreamPolicy(c) PROVE TypeOK'
  BY <1>1 DEF StreamPolicy, fileVars
<1>2. ASSUME NEW c \in Call, UpdatePolicy(c) PROVE TypeOK'
  BY <1>2 DEF UpdatePolicy, Leave, Goto, fileVars
<1>3. ASSUME NEW c \in Call, CopyOpen(c) PROVE TypeOK'
  BY <1>3 DEF CopyOpen, Goto
<1>4. ASSUME NEW c \in Call, CopyWrite(c) PROVE TypeOK'
  BY <1>4 DEF CopyWrite, Goto
<1>5. ASSUME NEW c \in Call, Rename(c) PROVE TypeOK'
  BY <1>5 DEF Rename, Goto
<1>6. ASSUME NEW c \in Call, UpdateFails(c) PROVE TypeOK'
  BY <1>6 DEF UpdateFails, Leave, Fault, CutOff, fileVars
<1>7. ASSUME NEW c \in Call, Record(c) PROVE TypeOK'
  BY <1>7 DEF Record, Goto, Fault, Map, Sha
<1>8. ASSUME NEW c \in Call, Save(c) PROVE TypeOK'
  BY <1>8 DEF Save, Goto, Fault
<1>9. ASSUME NEW c \in Call, Success(c) PROVE TypeOK'
  BY <1>9 DEF Success, Leave, fileVars
<1>10. CASE Stop
  <2>1. faults' \in 0..MaxFaults
    BY <1>10 DEF Stop, Fault
  <2>2. cut' \in SUBSET Policy
    BY <1>10 DEF Stop
  <2>3. \A c \in Call : mu' # c /\ pc'[c] = "idle"
    BY <1>10 DEF Stop
  <2>4. /\ pc' \in [Call -> {"idle", "received", "success"} \cup Installing]
        /\ name' \in [Call -> Policy \cup {None}]
        /\ temp' \in [Call -> Payload \cup {None}]
    BY <1>10 DEF Stop
  <2>5. mu' = None /\ up' = FALSE /\ UNCHANGED <<config, policyMap, info, dest, store>>
    BY <1>10 DEF Stop, fileVars
  <2>6. \A c \in Call : (mu' = c) = (pc'[c] \in {"success"} \cup Installing)
    BY <2>3
  <2>7. mu' \in Call \cup {None} /\ up' \in BOOLEAN
    BY <2>5
  <2> QED
    BY <2>1, <2>2, <2>3, <2>4, <2>5, <2>6, <2>7
<1>11. CASE NewPolicyAdminController
  <2> PICK cfg \in SUBSET Policy : config' = cfg /\ policyMap' = loadPolicyMap(cfg)
    BY <1>11 DEF NewPolicyAdminController
  <2>1. loadPolicyMap(cfg) \in Map
    BY DEF loadPolicyMap, Map, Sha
  <2> QED
    BY <1>11, <2>1 DEF NewPolicyAdminController, fileVars, callVars
<1>12. CASE UNCHANGED vars
  BY <1>12 DEF vars, fileVars, callVars
<1> QED
  BY <1>1, <1>2, <1>3, <1>4, <1>5, <1>6, <1>7, <1>8, <1>9, <1>10, <1>11, <1>12
  DEF Next, CallStep

-----------------------------------------------------------------------------
(* Steps that leave the maps and files alone and move one call between     *)
(* places at which its policy is in step with the recorded hash keep Truth *)
(* and Filed.                                                              *)
LEMMA Untouched ==
  ASSUME IInv, UNCHANGED <<policyMap, info, dest, store, up>>, cut \subseteq cut',
         NEW c \in Call, \A d \in Call \ {c} : pc'[d] = pc[d] /\ name'[d] = name[d],
         Midway(c) => name[c] \in cut'
  PROVE  Truth' /\ Filed'
<1>1. Truth'
  <2> SUFFICES ASSUME NEW p \in Policy, (\A d \in Call : Midway(d) => name[d] # p)',
                      p \notin cut'
               PROVE  Truthful(p)'
    BY DEF Truth, Truthful
  <2>1. \A d \in Call \ {c} : Midway(d) <=> Midway(d)'
    BY DEF Midway
  <2>2. \A d \in Call : Midway(d) => name[d] # p
    BY <2>1
  <2>3. Truthful(p)
    BY <2>2 DEF IInv, Truth
  <2> QED
    BY <2>3 DEF Truthful
<1>2. Filed'
  BY DEF IInv, Filed
<1> QED
  BY <1>1, <1>2

(* One step of a call, of its failures included, keeps the invariant.      *)
LEMMA CallKeeps ==
  ASSUME IInv, NEW c \in Call, CallStep(c), TypeOK'
  PROVE  Truth' /\ Progress' /\ Filed' /\ Quiet'
<1> USE PolicyAssumption DEF IInv
<1>0. Quiet'
  BY DEF CallStep, Quiet, TypeOK, Installing, StreamPolicy, UpdatePolicy, CopyOpen, CopyWrite, Rename,
     UpdateFails, Record, Save, Success, Goto, Leave, fileVars
<1>1. CASE StreamPolicy(c)
  <2>1. Truth' /\ Filed'
    BY <1>1, Untouched DEF StreamPolicy, fileVars, TypeOK, Midway
  <2>2. Progress'
    BY <1>1 DEF StreamPolicy, fileVars, TypeOK, Progress, Installing
  <2> QED
    BY <1>0, <2>1, <2>2
<1>2. CASE UpdatePolicy(c)
  <2>1. pc[c] = "received" /\ ~Midway(c)
    BY <1>2 DEF UpdatePolicy, Midway
  <2>2. Truth' /\ Filed'
    BY <1>2, <2>1, Untouched DEF UpdatePolicy, Goto, Leave, fileVars, TypeOK
  <2>3. Progress'
    BY <1>2 DEF UpdatePolicy, Goto, Leave, fileVars, TypeOK, Progress, Installing
  <2> QED
    BY <1>0, <2>2, <2>3
<1> DEFINE n == name[c]
<1>3. ASSUME pc[c] \in Installing
      PROVE  /\ up /\ n \in Policy /\ temp[c] \in Payload
             /\ \A d \in Call \ {c} : pc[d] \notin Installing /\ ~Midway(d)
             /\ \A p \in Policy \ {n} : Truthful(p)
  <2>1. up /\ n \in Policy /\ temp[c] \in Payload
    BY <1>3 DEF Quiet, TypeOK, Installing
  <2>2. \A d \in Call \ {c} : pc[d] \notin Installing /\ ~Midway(d)
    BY <1>3, OneInstalls DEF Midway, Installing
  <2>3. \A p \in Policy \ {n} : Truthful(p)
    BY <2>2 DEF Truth
  <2> QED
    BY <2>1, <2>2, <2>3
<1>4. CASE CopyOpen(c)
  <2> USE <1>3, <1>4 DEF CopyOpen, Goto, TypeOK, Installing
  <2>1. Midway(c)' /\ name' = name
    BY DEF Midway
  <2>2. Truth'
    BY <2>1 DEF Truth, Truthful
  <2>3. Progress'
    BY DEF Progress
  <2>4. Filed'
    BY DEF Filed
  <2> QED
    BY <1>0, <2>2, <2>3, <2>4
<1>5. CASE CopyWrite(c)
  <2> USE <1>3, <1>5 DEF CopyWrite, Goto, TypeOK, Installing
  <2>1. Midway(c)' /\ name' = name
    BY DEF Midway, Progress
  <2>2. Truth'
    BY <2>1 DEF Truth, Truthful
  <2>3. Progress'
    BY DEF Progress
  <2>4. Filed'
    BY DEF Filed
  <2> QED
    BY <1>0, <2>2, <2>3, <2>4
<1>6. CASE Rename(c)
  <2> USE <1>3, <1>6 DEF Rename, Goto, TypeOK, Installing
  <2>1. Midway(c)' /\ name' = name
    BY DEF Midway
  <2>2. Truth'
    BY <2>1 DEF Truth, Truthful
  <2>3. Progress'
    BY DEF Progress
  <2>4. Filed'
    BY DEF Filed
  <2> QED
    BY <1>0, <2>2, <2>3, <2>4
<1>7. CASE UpdateFails(c)
  <2>1. Truth' /\ Filed'
    BY <1>7, Untouched DEF UpdateFails, CutOff, Midway, Leave, fileVars, TypeOK
  <2>2. Progress'
    BY <1>7 DEF UpdateFails, Leave, fileVars, TypeOK, Progress, Installing
  <2> QED
    BY <1>0, <2>1, <2>2
<1>8. CASE Record(c)
  <2> USE <1>3, <1>8 DEF Record, Goto, TypeOK, Installing
  <2>1. policyMap' = [policyMap EXCEPT ![n] = temp[c]] /\ policyMap'[n] = temp[c]
    BY DEF Map
  <2>2. Truthful(n)'
    BY <2>1 DEF Truthful, Progress
  <2>3. \A p \in Policy \ {n} : Truthful(p)'
    BY <2>1 DEF Truthful, Map
  <2>4. Truth'
    BY <2>2, <2>3 DEF Truth
  <2>5. Progress'
    BY DEF Progress
  <2>6. \A p \in Policy : (policyMap'[p] = Unknown) = (policyMap[p] = Unknown)
    BY <2>1 DEF Map, Progress
  <2>7. info' = Torn \/ info' = info
    OBVIOUS
  <2>8. Filed'
    BY <2>6, <2>7 DEF Filed
  <2> QED
    BY <1>0, <2>4, <2>5, <2>8
<1>9. CASE Save(c)
  <2> USE <1>3, <1>9 DEF Save, Goto, TypeOK, Installing
  <2>1. ~Midway(c) /\ ~Midway(c)'
    BY DEF Midway
  <2>2. Truth'
    BY <2>1 DEF Truth, Truthful, Midway
  <2>3. Progress'
    BY DEF Progress
  <2>4. Filed'
    BY DEF Filed
  <2> QED
    BY <1>0, <2>2, <2>3, <2>4
<1>10. CASE Success(c)
  <2>1. Truth' /\ Filed'
    BY <1>10, Untouched DEF Success, Midway, Leave, fileVars, TypeOK
  <2>2. Progress'
    BY <1>10 DEF Success, Leave, fileVars, TypeOK, Progress, Installing
  <2> QED
    BY <1>0, <2>1, <2>2
<1> QED
  BY <1>1, <1>2, <1>4, <1>5, <1>6, <1>7, <1>8, <1>9, <1>10 DEF CallStep

(* What is cut off when the agent is killed, and what it finds in          *)
(* policies.json when it starts again.                                     *)
LEMMA RestartKeeps ==
  ASSUME IInv, Stop \/ NewPolicyAdminController, TypeOK'
  PROVE  Truth' /\ Progress' /\ Filed' /\ Quiet'
<1> USE PolicyAssumption DEF IInv
<1>1. CASE Stop
  <2> USE <1>1 DEF Stop, fileVars
  <2>1. \A p \in Policy \ cut' : \A c \in Call : Midway(c) => name[c] # p
    BY DEF Midway, CutOff
  <2>2. Truth'
    BY <2>1 DEF Truth, Truthful
  <2>3. Progress'
    BY DEF Progress, Installing
  <2>4. Filed'
    BY DEF Filed
  <2>5. Quiet'
    BY DEF Quiet
  <2> QED
    BY <2>2, <2>3, <2>4, <2>5
<1>2. CASE NewPolicyAdminController
  <2>1. up' /\ UNCHANGED <<info, dest, store, pc, name, temp, cut>> /\ ~up
    BY <1>2 DEF NewPolicyAdminController, fileVars, callVars, TypeOK
  <2>2. \A c \in Call : pc[c] = "idle" /\ ~Midway(c)
    BY <2>1 DEF Quiet, Midway
  <2> PICK cfg \in SUBSET Policy : policyMap' = loadPolicyMap(cfg)
    BY <1>2 DEF NewPolicyAdminController
  <2>3. CASE info \in {None, Torn}
    <3>1. \A p \in Policy : policyMap'[p] \in {NoSha, Unknown}
      BY <2>3 DEF loadPolicyMap
    <3>2. Truth'
      BY <3>1 DEF Truth, Truthful
    <3>3. Filed'
      BY <2>1, <2>3 DEF Filed
    <3> QED
      BY <2>1, <2>2, <3>2, <3>3 DEF Progress, Quiet, Installing
  <2>4. ASSUME NEW m \in Map, info = <<m>> PROVE Truth' /\ Filed'
    <3>1. policyMap' = m
      BY <2>4 DEF loadPolicyMap
    <3>2. \A p \in Policy : Truthful(p)
      BY <2>2 DEF Truth
    <3>3. \A p \in Policy \ cut : policyMap'[p] = policyMap[p]
      BY <2>1, <2>4, <3>1 DEF Filed
    <3>4. Truth'
      BY <2>1, <3>2, <3>3 DEF Truth, Truthful
    <3>5. Filed'
      BY <2>1, <2>4, <3>1 DEF Filed
    <3> QED
      BY <3>4, <3>5
  <2>5. Progress' /\ Quiet'
    BY <2>1, <2>2 DEF Progress, Quiet, Installing
  <2> QED
    BY <2>3, <2>4, <2>5 DEF TypeOK
<1> QED
  BY <1>1, <1>2

(* The invariant is inductive.                                             *)
LEMMA IInvStep == IInv /\ [Next]_vars => IInv'
<1> SUFFICES ASSUME IInv, [Next]_vars PROVE IInv'
  OBVIOUS
<1>1. TypeOK'
  BY TypeStep DEF IInv
<1>2. CASE UNCHANGED vars
  <2>1. Truth' /\ Filed' /\ Progress' /\ Quiet'
    BY <1>2 DEF vars, fileVars, callVars, IInv, Truth, Truthful, Midway, Filed, Progress, Quiet
  <2> QED
    BY <1>1, <2>1 DEF IInv
<1>3. CASE Next
  BY <1>1, <1>3, CallKeeps, RestartKeeps DEF IInv, Next
<1> QED
  BY <1>2, <1>3

-----------------------------------------------------------------------------
(* UpdatePolicy's mutex and types, and: the hash it records for a policy   *)
(* is that of the installed file, unless an installation was cut off, for  *)
(* any number of concurrent StreamPolicy calls and of restarts.            *)
THEOREM PolicyAgentSafety == Spec => [](TypeOK /\ RecordedIsInstalled)
<1>1. IInv => TypeOK /\ RecordedIsInstalled
  <2> SUFFICES ASSUME IInv PROVE TypeOK /\ RecordedIsInstalled
    OBVIOUS
  <2>1. \A c \in Call : Midway(c) => pc[c] \in Installing
    BY DEF Midway, Installing
  <2> QED
    BY <2>1 DEF IInv, Truth, Truthful, RecordedIsInstalled
<1> QED
  BY <1>1, IInvInit, IInvStep, PTL DEF Spec

(* Neither a call nor a restart makes a configured policy unknown, unless  *)
(* policies.json is being rewritten.                                       *)
THEOREM KnownAcrossRestarts == Spec => KnownUnlessTorn
<1> DEFINE Kept == \A p \in Policy :
       policyMap[p] # Unknown /\ p \in config' /\ info # Torn => policyMap'[p] # Unknown
<1>1. IInv /\ [Next]_vars => [Kept]_vars
  <2> SUFFICES ASSUME IInv, Next PROVE Kept
    BY DEF IInv
  <2> USE PolicyAssumption
  <2>1. ASSUME NEW c \in Call, Record(c) PROVE Kept
    <3>1. temp[c] # Unknown
      BY <2>1 DEF IInv, TypeOK, Record
    <3> QED
      BY <2>1, <3>1 DEF IInv, TypeOK, Map, Record
  <2>2. CASE NewPolicyAdminController
    <3> PICK cfg \in SUBSET Policy : config' = cfg /\ policyMap' = loadPolicyMap(cfg)
      BY <2>2 DEF NewPolicyAdminController
    <3>1. CASE info = None
      BY <3>1 DEF loadPolicyMap
    <3>2. ASSUME NEW m \in Map, info = <<m>> PROVE Kept
      BY <3>2 DEF loadPolicyMap, IInv, Filed
    <3> QED
      BY <3>1, <3>2 DEF IInv, TypeOK
  <2>3. CASE UNCHANGED policyMap
    BY <2>3
  <2> QED
    BY <2>1, <2>2, <2>3 DEF Next, CallStep, StreamPolicy, UpdatePolicy, CopyOpen, CopyWrite,
       Rename, UpdateFails, Save, Success, Stop
<1> QED
  BY <1>1, IInvInit, IInvStep, PTL DEF Spec, KnownUnlessTorn
=============================================================================
