----------------------------- MODULE SlotGroups -----------------------------
(***************************************************************************)
(* Names of A/B slot volumes and how `ota-update image` groups them        *)
(* (crates/ota-update/src/image/{version,slot,group,uki,runtime}.rs).      *)
(*                                                                         *)
(* A logical volume is named by its kind (root or verity) and its status.  *)
(* A group collects the volumes of one status and the UKI (the bootable    *)
(* kernel image) of the same version.                                      *)
(***************************************************************************)
EXTENDS Integers

CONSTANTS
  Version,      \* versions [rev, hash]; a legacy one has hash NoHash
  NoHash,
  NoRevision,   \* the kernel command line carries no ghaf.revision
  MaxEmptyId    \* empty identifiers are 0 .. MaxEmptyId-1 (100 in the code)

ASSUME SlotAssumption ==
  /\ \A v \in Version : DOMAIN v = {"rev", "hash"}
  /\ NoRevision \notin Version
  /\ MaxEmptyId \in Nat

Kind == {"root", "verity"}
HasHash(v) == v.hash # NoHash

(* Status::Used, Status::Empty(Known) and Status::Empty(Legacy).           *)
Used(v) == <<"used", v>>
Empty(n) == <<"empty", n>>
EmptyLegacy == <<"empty_legacy">>

UsedStatus == {Used(v) : v \in Version}
EmptyStatus == {Empty(n) : n \in 0 .. MaxEmptyId - 1} \cup {EmptyLegacy}
Status == UsedStatus \cup EmptyStatus

-----------------------------------------------------------------------------
(* A group: its status, the kinds of volume present, whether it has a UKI. *)
Group == [status : Status, kinds : SUBSET Kind, boot : BOOLEAN]

(* SlotGroup::group_volumes on the volumes in `present` (pairs of kind and *)
(* status) and the versions that have a UKI.  A UKI attaches to the group  *)
(* that has the root volume of its version, otherwise it forms a group of  *)
(* its own.                                                                *)
KindsOf(present, s) == {k \in Kind : <<k, s>> \in present}

group_volumes(present, ukis) ==
  { [status |-> s, kinds |-> KindsOf(present, s),
     boot |-> "root" \in KindsOf(present, s) /\ \E v \in ukis : s = Used(v)]
      : s \in {t \in Status : KindsOf(present, t) # {}} }
  \cup
  { [status |-> Used(v), kinds |-> {}, boot |-> TRUE]
      : v \in {w \in ukis : <<"root", Used(w)>> \notin present} }

has_version(g, v) == g.status = Used(v)

is_empty(g) == g.kinds # {} /\ g.status \in EmptyStatus

is_used(g) == (g.kinds # {} /\ g.status \in UsedStatus) \/ g.boot

is_complete(g) == g.kinds = Kind

is_legacy(g) ==
  /\ g.kinds # {}
  /\ g.status = EmptyLegacy \/ \E v \in Version : has_version(g, v) /\ ~HasHash(v)

(* Bug: the hash is not compared.                                          *)
is_active_by_revision(g, kernel) ==
  \E v \in Version :
    /\ has_version(g, v)
    /\ IF kernel = NoRevision THEN is_legacy(g) ELSE v.rev = kernel.rev

(* The group the running kernel was booted from.  Without a revision on    *)
(* the command line it is the used legacy group.                           *)
is_active(g, kernel) ==
  \E v \in Version :
    /\ has_version(g, v)
    /\ IF kernel = NoRevision THEN is_legacy(g) ELSE v = kernel

-----------------------------------------------------------------------------
(* Runtime::find_slot_group: the groups that match a version exactly or,   *)
(* for a bare revision, the hashed versions of that revision.  The caller  *)
(* requires exactly one.                                                   *)
find_slot_group(groups, ver) ==
  LET exact == {g \in groups : has_version(g, ver)}
      byRevision == {g \in groups : \E v \in Version :
                       has_version(g, v) /\ HasHash(v) /\ v.rev = ver.rev}
  IN  IF exact # {} \/ HasHash(ver) THEN exact ELSE byRevision

(* Bugs: an identifier too many; half slots are overlooked.                *)
allocate_empty_identifier_inclusive(groups) ==
  LET free == {n \in 0 .. MaxEmptyId : \A g \in groups : g.status # Empty(n)}
  IN  {n \in free : \A m \in free : n <= m}

allocate_empty_identifier_complete(groups) ==
  LET free == {n \in 0 .. MaxEmptyId - 1 :
                 \A g \in groups : is_complete(g) => g.status # Empty(n)}
  IN  {n \in free : \A m \in free : n <= m}

(* Runtime::allocate_empty_identifier: the smallest identifier that no     *)
(* group carries; none when all are taken ("empty identifier space         *)
(* exhausted").                                                            *)
allocate_empty_identifier(groups) ==
  LET free == {n \in 0 .. MaxEmptyId - 1 : \A g \in groups : g.status # Empty(n)}
  IN  {n \in free : \A m \in free : n <= m}
=============================================================================
