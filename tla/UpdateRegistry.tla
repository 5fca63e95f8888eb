--------------------------- MODULE UpdateRegistry ---------------------------
(***************************************************************************)
(* The image registry side of `ota-update`                                 *)
(* (crates/ota-update/src/registry): `registry push`, `registry pull` and  *)
(* `registry prune`, and the installs that read what a pull has stored.    *)
(*                                                                         *)
(* An OCI registry holds content-addressed blobs and tags that name a      *)
(* manifest.  A pull copies the update of a tag into the directory of that *)
(* tag: every artifact under the name the manifest gives it, manifest.json *)
(* last.  Pull and prune run under the lock of the destination; an install *)
(* of a stored update (image/install.rs) reads the directory without it.   *)
(*                                                                         *)
(* The lock is the one of module UpdateLock on another path; here it       *)
(* excludes, which is what UpdateLock shows of it as long as it is not     *)
(* raced.  One repository is modelled: the tags of a repository share the  *)
(* parent directory that prune goes through.  The .part files are not part *)
(* of the state: nothing reads them, and File::create empties one that an  *)
(* earlier pull left.                                                      *)
(***************************************************************************)
EXTENDS Naturals, FiniteSets

CONSTANTS
  Proc,         \* invocations of ota-update that may run at the same time
  Tag,          \* tags of the repository, and the directories named after them
  Version,      \* the updates that may be pushed: a manifest with its artifacts
  Artifact,     \* what a manifest lists: kernel, store and verity image
  Name,         \* names of artifact files
  FileName,     \* FileName[v][a]: the name the manifest of v gives artifact a
  Keep,         \* KEEP_PER_REPOSITORY
  None,         \* no file, no version, no process
  Torn,         \* a manifest.json that does not parse
  MaxCommands,  \* bound: commands started
  MaxFaults     \* bound: I/O errors, lost connections, cancellations and kills

MANIFEST == "manifest.json"
CONFIG == "config"

(* An update is pushed only after its own manifest has been validated      *)
(* against its files: two artifacts with one name would need one checksum, *)
(* and a file cannot hold its own.                                         *)
ASSUME UpdateAssumption ==
  /\ IsFiniteSet(Tag)
  /\ Artifact # {} /\ CONFIG \notin Artifact
  /\ FileName \in [Version -> [Artifact -> Name]]
  /\ MANIFEST \notin Name
  /\ \A v \in Version : \A a, b \in Artifact :
       FileName[v][a] = FileName[v][b] => a = b
  /\ Keep \in Nat \ {0}

Blob == Version \X (Artifact \cup {CONFIG})

ASSUME ValueAssumption ==
  /\ None \notin Proc \cup Tag \cup Version \cup Blob
  /\ Torn \notin Version \cup Blob \cup {None}
  /\ Version \cap Blob = {}

VARIABLES
  blobs,       \* the blobs the registry has
  tagged,      \* tagged[t]: the version the manifest under tag t belongs to
  dirs,        \* the tag directories that exist below the destination
  entry,       \* entry[t][e]: content of file e in the directory of t
  newer,       \* newer[t]: the directories with a later modification time
  holder,      \* who holds the lock of the destination
  pc,          \* where each invocation is
  job,         \* what it works on
  stale,       \* the directories the prune under way has yet to remove
  cut,         \* history: directories a pull or a removal left half way
  doubtful,    \* history: installs whose directory was changed under them, or
               \* that were told not to check one that was left half way
  last,        \* history: tag of the last pull that succeeded, while its
               \* update is owed (see LastPulledSurvives)
  unfinished,  \* history: directories modified since, by pulls of other tags
  commands, faults

remoteVars == <<blobs, tagged>>
localVars == <<dirs, entry, newer>>
historyVars == <<cut, doubtful, last, unfinished>>
vars == <<remoteVars, localVars, holder, pc, job, stale, historyVars, commands, faults>>

Entry == Name \cup {MANIFEST}
Content == Blob \cup Version \cup {None, Torn}

(* A pull goes from "fetch" over "blobs", "blob", "writing" and "written",  *)
(* or through "remove"; a prune from "prune" to "remove" and back.          *)
Stage == {"idle", "push", "fetch", "blobs", "blob", "writing", "written",
          "prune", "remove", "check", "read", "installed"}

Job == [tag : Tag \cup {None}, ver : Version \cup {None}, left : SUBSET Artifact,
        validate : BOOLEAN, install : BOOLEAN, wrong : BOOLEAN]

(* A command on tag t, with its flags, that has the artifacts l of v to do. *)
JobOn(t, v, l, validate, install) ==
  [tag |-> t, ver |-> v, left |-> l, validate |-> validate,
   install |-> install, wrong |-> FALSE]

NoJob == JobOn(None, None, {}, FALSE, FALSE)

(* Job j after it has turned to the artifacts l of version v; w: whether it *)
(* has read a file of another version.                                      *)
Turn(j, v, l, w) ==
  [tag |-> j.tag, ver |-> v, left |-> l, validate |-> j.validate,
   install |-> j.install, wrong |-> w]

EmptyDir == [e \in Entry |-> None]

-----------------------------------------------------------------------------
(* What a directory holds.                                                 *)

BlobsOf(v) == {<<v, a>> : a \in Artifact \cup {CONFIG}}

(* Manifest::validate: every artifact exists, and with checksums is the    *)
(* one of the version.                                                     *)
Valid(t, v, checksum) ==
  \A a \in Artifact : LET c == entry[t][FileName[v][a]]
                      IN  IF checksum THEN c = <<v, a>> ELSE c # None

Complete(t) ==
  /\ t \in dirs
  /\ entry[t][MANIFEST] \in Version
  /\ Valid(t, entry[t][MANIFEST], TRUE)

(* Directories prune counts: those with a manifest.json, whatever is in it. *)
Updates == {t \in dirs : entry[t][MANIFEST] # None}

(* Bug: the oldest updates are kept.                                       *)
StaleOldestFirst ==
  {t \in Updates : Cardinality(Updates \ (newer[t] \cup {t})) >= Keep}

(* sort_by modification time, newest first, then skip(KEEP_PER_REPOSITORY). *)
Stale == {t \in Updates : Cardinality(newer[t] \cap Updates) >= Keep}

(* Every variable has its type, and the directories are ordered by their   *)
(* modification times.                                                     *)
TypeOK ==
  /\ blobs \subseteq Blob
  /\ tagged \in [Tag -> Version \cup {None}]
  /\ dirs \subseteq Tag
  /\ entry \in [Tag -> [Entry -> Content]]
  /\ newer \in [Tag -> SUBSET Tag]
  /\ holder \in Proc \cup {None}
  /\ pc \in [Proc -> Stage]
  /\ job \in [Proc -> Job]
  /\ stale \subseteq Tag
  /\ cut \subseteq Tag /\ doubtful \subseteq Proc
  /\ last \in Tag \cup {None} /\ unfinished \subseteq Tag
  /\ commands \in Nat /\ faults \in Nat
  /\ \A t \in Tag : newer[t] \subseteq dirs
  /\ \A t, u \in dirs : (t \in newer[u]) = (t # u /\ u \notin newer[t])

(* The registry may have been pushed to before, and nothing is stored yet. *)
Init ==
  /\ tagged \in [Tag -> Version \cup {None}]
  /\ blobs = UNION {BlobsOf(v) : v \in {tagged[t] : t \in Tag} \ {None}}
  /\ dirs = {}
  /\ entry = [t \in Tag |-> EmptyDir]
  /\ newer = [t \in Tag |-> {}]
  /\ holder = None
  /\ pc = [p \in Proc |-> "idle"]
  /\ job = [p \in Proc |-> NoJob]
  /\ stale = {}
  /\ cut = {} /\ doubtful = {} /\ last = None /\ unfinished = {}
  /\ commands = 0 /\ faults = 0

-----------------------------------------------------------------------------
(* Steps that several actions share.                                       *)

Fault == faults < MaxFaults /\ faults' = faults + 1

(* An invocation begins with job j at stage s.                             *)
Begin(p, s, j) ==
  /\ pc[p] = "idle"
  /\ commands < MaxCommands
  /\ commands' = commands + 1
  /\ pc' = [pc EXCEPT ![p] = s]
  /\ job' = [job EXCEPT ![p] = j]
  /\ UNCHANGED faults

Goto(p, s) ==
  /\ pc' = [pc EXCEPT ![p] = s]
  /\ UNCHANGED commands

(* An invocation ends; dropping the UpdateLock value releases the lock.    *)
End(p) ==
  /\ pc' = [pc EXCEPT ![p] = "idle"]
  /\ job' = [job EXCEPT ![p] = NoJob]
  /\ holder' = IF holder = p THEN None ELSE holder
  /\ stale' = IF holder = p THEN {} ELSE stale
  /\ UNCHANGED commands

(* Adding or removing an entry makes directory t the one modified last.    *)
Touch(t) ==
  /\ newer' = [u \in Tag |-> IF u \in dirs \ {t} THEN newer[u] \cup {t} ELSE {}]
  /\ unfinished' = unfinished \cup {t}

(* File e of directory t gets content c under the installs that read it.   *)
Store(p, t, e, c) ==
  /\ entry' = [entry EXCEPT ![t][e] = c]
  /\ doubtful' = doubtful \cup
       {q \in Proc \ {p} : pc[q] \in {"check", "read"} /\ job[q].tag = t}

(* The update of t is no longer the one the last pull left.                *)
Forsake(t) == last' = IF last = t THEN None ELSE last

(* Whether the directory p works on may be between two updates.            *)
Dirty(p) ==
  \/ pc[p] = "remove"
  \/ pc[p] \in {"blobs", "blob"} /\ job[p].left # Artifact

-----------------------------------------------------------------------------
(* registry push: no lock; the layers, then the config, then the manifest. *)

PushStart(p) ==
  /\ \E t \in Tag, v \in Version :
       Begin(p, "push", JobOn(t, v, Artifact, FALSE, FALSE))
  /\ UNCHANGED <<remoteVars, localVars, holder, stale, historyVars>>

(* digest_and_size and push_blob_stream of one layer.                      *)
PushLayer(p) ==
  /\ pc[p] = "push"
  /\ \E a \in job[p].left :
       /\ blobs' = blobs \cup {<<job[p].ver, a>>}
       /\ job' = [job EXCEPT ![p] = Turn(@, @.ver, @.left \ {a}, FALSE)]
  /\ UNCHANGED <<tagged, localVars, holder, stale, pc, historyVars, commands, faults>>

PushConfig(p) ==
  /\ pc[p] = "push"
  /\ job[p].left = {}
  /\ <<job[p].ver, CONFIG>> \notin blobs
  /\ blobs' = blobs \cup {<<job[p].ver, CONFIG>>}
  /\ UNCHANGED <<tagged, localVars, holder, stale, pc, job, historyVars, commands, faults>>

(* Bug: the manifest goes out without waiting for the layers.              *)
PushManifestEarly(p) ==
  /\ pc[p] = "push"
  /\ tagged' = [tagged EXCEPT ![job[p].tag] = job[p].ver]
  /\ End(p)
  /\ UNCHANGED <<blobs, localVars, historyVars, faults>>

(* push_manifest moves the tag.  What follows only reads the tag back.     *)
PushManifest(p) ==
  /\ pc[p] = "push"
  /\ job[p].left = {}
  /\ <<job[p].ver, CONFIG>> \in blobs
  /\ tagged' = [tagged EXCEPT ![job[p].tag] = job[p].ver]
  /\ End(p)
  /\ UNCHANGED <<blobs, localVars, historyVars, faults>>

-----------------------------------------------------------------------------
(* registry pull.                                                          *)

(* The lock, and the output directory, which may be there already.         *)
PullStart(p) ==
  /\ holder = None
  /\ holder' = p
  /\ \E t \in Tag, validate, install \in BOOLEAN :
       /\ Begin(p, "fetch", JobOn(t, None, {}, validate, install))
       /\ dirs' = dirs \cup {t}
       /\ IF t \in dirs THEN UNCHANGED <<newer, unfinished>> ELSE Touch(t)
  /\ UNCHANGED <<remoteVars, entry, stale, cut, doubtful, last>>

(* fetch_manifest_and_config: the layers are bound by digest from here on, *)
(* whatever happens to the tag.                                            *)
Fetch(p) ==
  /\ pc[p] = "fetch"
  /\ tagged[job[p].tag] # None
  /\ <<tagged[job[p].tag], CONFIG>> \in blobs
  /\ job' = [job EXCEPT ![p] = Turn(@, tagged[job[p].tag], Artifact, FALSE)]
  /\ Goto(p, "blobs")
  /\ UNCHANGED <<remoteVars, localVars, holder, stale, historyVars, faults>>

(* The tag is unknown, the connection is lost or the pull is cancelled: the *)
(* output directory goes, with what an earlier pull had put there.          *)
FetchFails(p) ==
  /\ pc[p] = "fetch"
  /\ \/ tagged[job[p].tag] = None /\ UNCHANGED faults
     \/ Fault
  /\ Goto(p, "remove")
  /\ Forsake(job[p].tag)
  /\ UNCHANGED <<remoteVars, localVars, holder, stale, job, cut, doubtful, unfinished>>

(* File::create of the .part file.                                         *)
OpenPart(p) ==
  /\ pc[p] = "blobs"
  /\ job[p].left # {}
  /\ Goto(p, "blob")
  /\ Touch(job[p].tag)
  /\ Forsake(job[p].tag)
  /\ UNCHANGED <<remoteVars, dirs, entry, holder, stale, job, cut, doubtful, faults>>

(* download_blob_to_file to the end, then rename.                          *)
Download(p) ==
  /\ pc[p] = "blob"
  /\ \E a \in job[p].left :
       /\ <<job[p].ver, a>> \in blobs
       /\ Store(p, job[p].tag, FileName[job[p].ver][a], <<job[p].ver, a>>)
       /\ job' = [job EXCEPT ![p] = Turn(@, @.ver, @.left \ {a}, FALSE)]
  /\ Goto(p, "blobs")
  /\ UNCHANGED <<remoteVars, dirs, newer, holder, stale, cut, last, unfinished, faults>>

(* The download fails, times out between two chunks or is cancelled.       *)
DownloadFails(p) ==
  /\ pc[p] = "blob"
  /\ Fault
  /\ Goto(p, "remove")
  /\ UNCHANGED <<remoteVars, localVars, holder, stale, job, historyVars>>

(* Bug: manifest.json is written before the last artifact is there.        *)
OpenManifestEarly(p) ==
  /\ pc[p] = "blobs"
  /\ Cardinality(job[p].left) <= 1
  /\ job[p].left # Artifact
  /\ Store(p, job[p].tag, MANIFEST, Torn)
  /\ Goto(p, "writing")
  /\ UNCHANGED <<remoteVars, dirs, newer, holder, stale, job, cut, last, unfinished, faults>>

(* Manifest::write_to_file is fs::write, which truncates ...               *)
OpenManifest(p) ==
  /\ pc[p] = "blobs"
  /\ job[p].left = {}
  /\ Store(p, job[p].tag, MANIFEST, Torn)
  /\ Goto(p, "writing")
  /\ UNCHANGED <<remoteVars, dirs, newer, holder, stale, job, cut, last, unfinished, faults>>

(* ... and then writes.                                                    *)
WriteManifest(p) ==
  /\ pc[p] = "writing"
  /\ Store(p, job[p].tag, MANIFEST, job[p].ver)
  /\ cut' = cut \ {job[p].tag}
  /\ Goto(p, "written")
  /\ UNCHANGED <<remoteVars, dirs, newer, holder, stale, job, last, unfinished, faults>>

(* The pulled artifacts are validated when asked for, and the update is     *)
(* installed, still under the lock, or the pull returns.                    *)
PullDone(p) ==
  /\ pc[p] = "written"
  /\ job[p].validate => Valid(job[p].tag, job[p].ver, TRUE)
  /\ last' = job[p].tag
  /\ unfinished' = {}
  /\ IF job[p].install
     THEN /\ Goto(p, "check")
          /\ job' = [job EXCEPT ![p] = Turn(@, @.ver, Artifact, FALSE)]
          /\ UNCHANGED <<holder, stale>>
     ELSE End(p)
  /\ UNCHANGED <<remoteVars, localVars, cut, doubtful, faults>>

-----------------------------------------------------------------------------
(* remove_dir_all, and registry prune.                                     *)

PruneStart(p) ==
  /\ holder = None
  /\ holder' = p
  /\ Begin(p, "prune", NoJob)
  /\ stale' = Stale
  /\ last' = IF Cardinality(unfinished) >= Keep THEN None ELSE last
  /\ UNCHANGED <<remoteVars, localVars, cut, doubtful, unfinished>>

(* The next stale directory.                                               *)
PruneNext(p) ==
  /\ pc[p] = "prune"
  /\ \E t \in stale : job' = [job EXCEPT ![p] = JobOn(t, None, {}, FALSE, FALSE)]
  /\ Goto(p, "remove")
  /\ UNCHANGED <<remoteVars, localVars, holder, stale, historyVars, faults>>

PruneDone(p) ==
  /\ pc[p] = "prune"
  /\ stale = {}
  /\ End(p)
  /\ UNCHANGED <<remoteVars, localVars, historyVars, faults>>

(* remove_dir_all unlinks the entries in directory order ...               *)
RemoveEntry(p) ==
  /\ pc[p] = "remove"
  /\ \E e \in Entry : /\ entry[job[p].tag][e] # None
                      /\ Store(p, job[p].tag, e, None)
  /\ Touch(job[p].tag)
  /\ UNCHANGED <<remoteVars, dirs, holder, stale, pc, job, cut, last, commands, faults>>

(* ... and then the directory; a pull returns its error, a prune goes on.  *)
RemoveDir(p) ==
  LET t == job[p].tag IN
  /\ pc[p] = "remove"
  /\ entry[t] = EmptyDir
  /\ dirs' = dirs \ {t}
  /\ newer' = [u \in Tag |-> IF u = t THEN {} ELSE newer[u] \ {t}]
  /\ cut' = cut \ {t}
  /\ unfinished' = unfinished \ {t}
  /\ IF t \in stale
     THEN /\ Goto(p, "prune")
          /\ stale' = stale \ {t}
          /\ job' = [job EXCEPT ![p] = NoJob]
          /\ UNCHANGED holder
     ELSE End(p)
  /\ UNCHANGED <<remoteVars, entry, doubtful, last, faults>>

-----------------------------------------------------------------------------
(* install_from_manifest_path, as a command of its own (no lock of the     *)
(* destination) or at the end of a pull.                                   *)

InstallStart(p) ==
  /\ \E t \in dirs, validate \in BOOLEAN :
       /\ entry[t][MANIFEST] \in Version
       /\ Begin(p, "check", JobOn(t, entry[t][MANIFEST], Artifact, validate, FALSE))
       /\ doubtful' = IF validate \/ Complete(t) THEN doubtful ELSE doubtful \cup {p}
  /\ UNCHANGED <<remoteVars, localVars, holder, stale, cut, last, unfinished>>

(* Bug: validation only looks whether the files exist.                     *)
InstallCheckExists(p) ==
  /\ pc[p] = "check"
  /\ Valid(job[p].tag, job[p].ver, FALSE)
  /\ Goto(p, "read")
  /\ UNCHANGED <<remoteVars, localVars, holder, stale, job, historyVars, faults>>

InstallCheck(p) ==
  /\ pc[p] = "check"
  /\ Valid(job[p].tag, job[p].ver, job[p].validate)
  /\ Goto(p, "read")
  /\ UNCHANGED <<remoteVars, localVars, holder, stale, job, historyVars, faults>>

(* A step of the plan reads one artifact.                                  *)
InstallRead(p) ==
  /\ pc[p] = "read"
  /\ \E a \in job[p].left :
       LET c == entry[job[p].tag][FileName[job[p].ver][a]] IN
       /\ c # None
       /\ job' = [job EXCEPT ![p] =
                    Turn(@, @.ver, @.left \ {a}, @.wrong \/ c # <<@.ver, a>>)]
       /\ Goto(p, IF job[p].left = {a} THEN "installed" ELSE "read")
  /\ UNCHANGED <<remoteVars, localVars, holder, stale, historyVars, faults>>

(* The check fails, or a file is gone.                                     *)
InstallRefused(p) ==
  /\ \/ pc[p] = "check" /\ ~Valid(job[p].tag, job[p].ver, job[p].validate)
     \/ pc[p] = "read" /\ \E a \in job[p].left :
                             entry[job[p].tag][FileName[job[p].ver][a]] = None
  /\ End(p)
  /\ doubtful' = doubtful \ {p}
  /\ UNCHANGED <<remoteVars, localVars, cut, last, unfinished, faults>>

InstallDone(p) ==
  /\ pc[p] = "installed"
  /\ End(p)
  /\ doubtful' = doubtful \ {p}
  /\ UNCHANGED <<remoteVars, localVars, cut, last, unfinished, faults>>

-----------------------------------------------------------------------------
(* The command is killed, or returns one of the errors that no cleanup     *)
(* follows: the timeout of the fetch, a create, a rename or a write that   *)
(* fails, a removal that fails.                                            *)
Abort(p) ==
  /\ pc[p] # "idle"
  /\ Fault
  /\ cut' = IF Dirty(p) THEN cut \cup {job[p].tag} ELSE cut
  /\ doubtful' = doubtful \ {p}
  /\ End(p)
  /\ UNCHANGED <<remoteVars, localVars, last, unfinished>>

Push(p) == PushStart(p) \/ PushLayer(p) \/ PushConfig(p) \/ PushManifest(p)

Pull(p) ==
  \/ PullStart(p) \/ Fetch(p) \/ FetchFails(p)
  \/ OpenPart(p) \/ Download(p) \/ DownloadFails(p)
  \/ OpenManifest(p) \/ WriteManifest(p) \/ PullDone(p)

Prune(p) == PruneStart(p) \/ PruneNext(p) \/ PruneDone(p)

Remove(p) == RemoveEntry(p) \/ RemoveDir(p)

Install(p) ==
  \/ InstallStart(p) \/ InstallCheck(p) \/ InstallRead(p)
  \/ InstallRefused(p) \/ InstallDone(p)

Next ==
  \E p \in Proc : Push(p) \/ Pull(p) \/ Prune(p) \/ Remove(p) \/ Install(p) \/ Abort(p)

Spec == Init /\ [][Next]_vars

-----------------------------------------------------------------------------
(* Properties.                                                             *)

(* push_layers_and_config (oras.rs:373-473) moves the tag last: whatever   *)
(* pushes are under way, stopped half way or crossing each other on one    *)
(* tag, a tag names a manifest whose config and layers can all be pulled.  *)
RemoteComplete ==
  \A t \in Tag : tagged[t] # None => BlobsOf(tagged[t]) \subseteq blobs

(* pull_update (registry/mod.rs:243-312) writes manifest.json last and a   *)
(* failed download removes the directory: a stored manifest vouches for    *)
(* the artifacts beside it, all of them those of its own version, though   *)
(* the tag may have moved during the pull and an older update may have     *)
(* been stored there before.  The exceptions are a directory that is being *)
(* rewritten or removed, and one in which that was cut off.                *)
ManifestVouches ==
  \A t \in dirs :
    \/ entry[t][MANIFEST] \in {None, Torn}
    \/ Complete(t)
    \/ t \in cut
    \/ \E p \in Proc : holder = p /\ job[p].tag = t /\ Dirty(p)

(* install_from_manifest_path (image/install.rs:27-34) validates first and *)
(* reads the files later, without the lock of the destination: what has    *)
(* been installed at the end is the version of the manifest, unless a pull *)
(* or a prune changed the directory in the meantime or an unchecked        *)
(* directory was incomplete to begin with.  An install that is part of a   *)
(* pull has neither excuse.                                                *)
InstallsManifest ==
  \A p \in Proc : pc[p] \in {"check", "read", "installed"} =>
    /\ pc[p] = "installed" /\ job[p].wrong => p \in doubtful
    /\ holder = p => p \notin doubtful

(* prune_downloaded_updates (registry/mod.rs:380-424) goes by modification *)
(* time: the update that was pulled last survives every prune, complete,   *)
(* until its own tag is pulled again.  The exact exception, after which    *)
(* `last` names no update: directories that pulls or prunes touched later  *)
(* and did not finish are newer, and Keep of them may push it out.         *)
LastPulledSurvives == last # None => Complete(last)
=============================================================================
