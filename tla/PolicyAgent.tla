---------------------------- MODULE PolicyAgent -----------------------------
(***************************************************************************)
(* The agent's side of policy distribution                                 *)
(* (modules/pkgs/policyadmin/{transport,controller}.go).  StreamPolicy     *)
(* calls run concurrently; each receives a file into a temporary of its    *)
(* own and hands it to UpdatePolicy, which runs under one mutex: it copies *)
(* the file over its destination in place, renames it into the store, and  *)
(* records its hash in the policy map and in policies.json.  Every one of  *)
(* these steps can fail, and the agent can be killed between any two.      *)
(*                                                                         *)
(* The hash of a file identifies its bytes, so a file, its hash and the    *)
(* upload it came from are one value, a payload.                           *)
(***************************************************************************)
EXTENDS Naturals

CONSTANTS
  Call,         \* StreamPolicy calls in progress at the same time
  Policy,       \* policy names
  Deployed,     \* policies with a destination; the others are only stored
  Payload,      \* what an upload may contain, a stream cut short included
  MaxFaults,    \* bound on failed file operations and kills
  None,         \* no file, no holder
  Torn,         \* a file that was truncated and not, or not all, written
  NoSha,        \* the empty hash of a policy that was never installed
  Unknown       \* no entry in the policy map

Sha == Payload \cup {NoSha, Unknown}
Map == [Policy -> Sha]

ASSUME PolicyAssumption ==
  /\ Deployed \subseteq Policy
  /\ MaxFaults \in Nat
  /\ {None, Torn, NoSha, Unknown} \cap Payload = {}
  /\ None \notin Call \cup Policy
  /\ NoSha # Unknown /\ None # Torn
  /\ \A m \in Map : <<m>> \notin {None, Torn}

VARIABLES
  config,       \* policies the configuration of the running agent names
  policyMap,    \* policyMap[p]: the recorded hash, or Unknown
  info,         \* policies.json: None, Torn or <<map>>
  dest,         \* dest[p]: the file at the destination
  store,        \* store[p]: policy.bin
  up,           \* the agent runs
  mu,           \* the call that holds the mutex
  pc,           \* where a call is in StreamPolicy and UpdatePolicy
  name, temp,   \* the policy a call is about and the file it received
  cut,          \* history: policies whose last installation was cut off
  faults

fileVars == <<info, dest, store>>
callVars == <<pc, name, temp>>
vars == <<config, policyMap, fileVars, up, mu, callVars, cut, faults>>

Installing == {"copy", "copying", "rename", "record", "saving"}

\* Every variable has its type, and a call is past the lock of UpdatePolicy
\* exactly while it holds the mutex (controller.go 52-53).
TypeOK ==
  /\ config \in SUBSET Policy
  /\ policyMap \in Map
  /\ info \in {None, Torn} \cup {<<m>> : m \in Map}
  /\ dest \in [Policy -> Payload \cup {None, Torn}]
  /\ store \in [Policy -> Payload \cup {None}]
  /\ up \in BOOLEAN
  /\ mu \in Call \cup {None}
  /\ pc \in [Call -> {"idle", "received", "success"} \cup Installing]
  /\ name \in [Call -> Policy \cup {None}]
  /\ temp \in [Call -> Payload \cup {None}]
  /\ cut \in SUBSET Policy
  /\ faults \in 0..MaxFaults
  /\ \A c \in Call : (mu = c) = (pc[c] \in {"success"} \cup Installing)
  /\ \A c \in Call : pc[c] # "idle" => name[c] # None /\ temp[c] # None

Init ==
  /\ config \in SUBSET Policy
  /\ policyMap = [p \in Policy |-> IF p \in config THEN NoSha ELSE Unknown]
  /\ info = None
  /\ dest = [p \in Policy |-> None]
  /\ store = [p \in Policy |-> None]
  /\ up = TRUE /\ mu = None
  /\ pc = [c \in Call |-> "idle"]
  /\ name = [c \in Call |-> None]
  /\ temp = [c \in Call |-> None]
  /\ cut = {} /\ faults = 0

Fault == faults < MaxFaults /\ faults' = faults + 1

Goto(c, l) == pc' = [pc EXCEPT ![c] = l] /\ UNCHANGED <<name, temp>>

\* The call is over: its temporary is renamed or removed by now.
Leave(c) ==
  /\ pc' = [pc EXCEPT ![c] = "idle"]
  /\ name' = [name EXCEPT ![c] = None]
  /\ temp' = [temp EXCEPT ![c] = None]

\* StreamPolicy: chunks are written to a temporary until the stream ends.  A
\* stream that ends in an error leaves nothing behind.
StreamPolicy(c) ==
  /\ up
  /\ pc[c] = "idle"
  /\ \E p \in Policy, x \in Payload :
       /\ name' = [name EXCEPT ![c] = p]
       /\ temp' = [temp EXCEPT ![c] = x]
  /\ pc' = [pc EXCEPT ![c] = "received"]
  /\ UNCHANGED <<config, policyMap, fileVars, up, mu, cut, faults>>

\* Variant of UpdatePolicy: the test for a destination is the wrong way round.
UpdatePolicySkipsCopy(c) ==
  /\ pc[c] = "received"
  /\ mu = None
  /\ \/ policyMap[name[c]] = Unknown /\ Leave(c) /\ UNCHANGED mu
     \/ policyMap[name[c]] = temp[c] /\ mu' = c /\ Goto(c, "success")
     \/ /\ policyMap[name[c]] \notin {Unknown, temp[c]}
        /\ mu' = c
        /\ Goto(c, IF name[c] \in Deployed THEN "rename" ELSE "copy")
  /\ UNCHANGED <<config, policyMap, fileVars, up, cut, faults>>

\* UpdatePolicy up to the comparison of the hashes.
UpdatePolicy(c) ==
  /\ pc[c] = "received"
  /\ mu = None
  /\ \/ policyMap[name[c]] = Unknown /\ Leave(c) /\ UNCHANGED mu
     \/ policyMap[name[c]] = temp[c] /\ mu' = c /\ Goto(c, "success")
     \/ /\ policyMap[name[c]] \notin {Unknown, temp[c]}
        /\ mu' = c
        /\ Goto(c, IF name[c] \in Deployed THEN "copy" ELSE "rename")
  /\ UNCHANGED <<config, policyMap, fileVars, up, cut, faults>>

\* copyPolicy opens the destination with O_TRUNC, then copies.
CopyOpen(c) ==
  /\ pc[c] = "copy"
  /\ dest' = [dest EXCEPT ![name[c]] = Torn]
  /\ Goto(c, "copying")
  /\ UNCHANGED <<config, policyMap, info, store, up, mu, cut, faults>>

CopyWrite(c) ==
  /\ pc[c] = "copying"
  /\ dest' = [dest EXCEPT ![name[c]] = temp[c]]
  /\ Goto(c, "rename")
  /\ UNCHANGED <<config, policyMap, info, store, up, mu, cut, faults>>

Rename(c) ==
  /\ pc[c] = "rename"
  /\ store' = [store EXCEPT ![name[c]] = temp[c]]
  /\ Goto(c, "record")
  /\ UNCHANGED <<config, policyMap, info, dest, up, mu, cut, faults>>

\* What an installation that stops at c's step leaves out of step with the
\* recorded hash.
CutOff(c) ==
  IF pc[c] \in {"copying", "record"} \/ (pc[c] = "rename" /\ name[c] \in Deployed)
  THEN {name[c]} ELSE {}

\* An open, a copy or the rename fails: the call returns the error.
UpdateFails(c) ==
  /\ pc[c] \in {"copy", "copying", "rename"}
  /\ Fault
  /\ cut' = cut \cup CutOff(c)
  /\ mu' = None
  /\ Leave(c)
  /\ UNCHANGED <<config, policyMap, fileVars, up>>

\* The hash goes into the map; savePolicyMap truncates policies.json.
Record(c) ==
  /\ pc[c] = "record"
  /\ policyMap' = [policyMap EXCEPT ![name[c]] = temp[c]]
  /\ cut' = cut \ {name[c]}
  /\ \/ info' = Torn /\ Goto(c, "saving") /\ UNCHANGED faults
     \/ Fault /\ Goto(c, "success") /\ UNCHANGED info
  /\ UNCHANGED <<config, dest, store, up, mu>>

\* Variant of Save: only the policy that was updated is written.
SaveOnlyThis(c) ==
  /\ pc[c] = "saving"
  /\ info' = <<[p \in Policy |-> IF p = name[c] THEN policyMap[p] ELSE Unknown]>>
  /\ Goto(c, "success")
  /\ UNCHANGED <<config, policyMap, dest, store, up, mu, cut, faults>>

\* ... and writes it; the error of a write that fails is dropped.
Save(c) ==
  /\ pc[c] = "saving"
  /\ \/ info' = <<policyMap>> /\ UNCHANGED faults
     \/ Fault /\ UNCHANGED info
  /\ Goto(c, "success")
  /\ UNCHANGED <<config, policyMap, dest, store, up, mu, cut>>

\* UpdatePolicy returns nil and StreamPolicy answers "Success".
Success(c) ==
  /\ pc[c] = "success"
  /\ mu' = None
  /\ Leave(c)
  /\ UNCHANGED <<config, policyMap, fileVars, up, cut, faults>>

\* The agent stops; while a call is in progress this counts as a fault.  An
\* installation in progress is cut off, and so is one whose hash has not reached
\* policies.json.
Stop ==
  /\ up
  /\ IF \A c \in Call : pc[c] = "idle" THEN UNCHANGED faults ELSE Fault
  /\ up' = FALSE
  /\ mu' = None
  /\ pc' = [c \in Call |-> "idle"]
  /\ name' = [c \in Call |-> None]
  /\ temp' = [c \in Call |-> None]
  /\ cut' = cut \cup {p \in Policy : \/ \E c \in Call : p \in CutOff(c)
                                    \/ \E m \in Map : info = <<m>> /\ m[p] # policyMap[p]}
  /\ UNCHANGED <<config, policyMap, fileVars>>

\* loadPolicyMap: policies.json wins over the configuration; an error is dropped
\* and leaves the map empty.
loadPolicyMap(cfg) ==
  CASE info = None -> [p \in Policy |-> IF p \in cfg THEN NoSha ELSE Unknown]
    [] info = Torn -> [p \in Policy |-> Unknown]
    [] OTHER -> info[1]

\* The agent starts, with the configuration it now has.
NewPolicyAdminController ==
  /\ ~up
  /\ up' = TRUE
  /\ \E cfg \in SUBSET Policy : config' = cfg /\ policyMap' = loadPolicyMap(cfg)
  /\ UNCHANGED <<fileVars, mu, callVars, cut, faults>>

CallStep(c) ==
  \/ StreamPolicy(c) \/ UpdatePolicy(c) \/ CopyOpen(c) \/ CopyWrite(c) \/ Rename(c)
  \/ UpdateFails(c) \/ Record(c) \/ Save(c) \/ Success(c)

Next == (\E c \in Call : CallStep(c)) \/ Stop \/ NewPolicyAdminController

Spec == Init /\ [][Next]_vars

-----------------------------------------------------------------------------
(* Properties.                                                             *)

\* The recorded hash tells the truth: unless its last installation was cut off
\* by an error or a kill, a policy that is not being installed is in the store,
\* and at its destination, with the bytes whose hash is recorded, so that
\* UpdatePolicy may answer "Success" on the hash alone (controller.go 73-75).
RecordedIsInstalled ==
  \A p \in Policy :
    (/\ policyMap[p] \in Payload
     /\ p \notin cut
     /\ ~\E c \in Call : pc[c] \in Installing /\ name[c] = p)
      => /\ store[p] = policyMap[p]
         /\ p \in Deployed => dest[p] = policyMap[p]

\* A policy the agent knows, and that is still configured, stays known across
\* restarts unless the agent was killed while it rewrote policies.json
\* (controller.go 143-175).
KnownUnlessTorn ==
  [][\A p \in Policy :
       policyMap[p] # Unknown /\ p \in config' /\ info # Torn => policyMap'[p] # Unknown]_vars
=============================================================================
