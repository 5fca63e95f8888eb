------------------------- MODULE PolicyDistribution -------------------------
(***************************************************************************)
(* The admin's side of policy distribution                                 *)
(* (crates/policyadmin/src/{policy_repo,policy_urls,policy_manager}.rs and *)
(* push_policy_update in crates/admin/src/admin/server.rs).  A monitor     *)
(* looks for changes at the source, stores them and queues the changed     *)
(* files; every VM has a worker that hands one file at a time to the       *)
(* single consumer, which copies it from the store and uploads it.  An     *)
(* agent that registers is sent everything.  The source is a git branch    *)
(* with one monitor, or a URL for each policy with a task for each.        *)
(*                                                                         *)
(* A file is its policy.  Its content is the number of the commit that     *)
(* last changed it, to the branch or to the servers behind the URLs.       *)
(* PolicyAgent has the other end of an upload.                             *)
(***************************************************************************)
EXTENDS Integers, FiniteSets, Sequences, Functions

CONSTANTS
  Vm,
  File,         \* the policies of the configuration
  Vms,          \* Vms[f]: the VMs that subscribe to f
  Urls,         \* the policies that have a URL
  Polls,        \* the poll interval is not zero
  Retries,      \* attempts to clone after the first (3)
  MaxCommits, MaxFaults

Absent == 0
Torn == -1

\* Policies are finitely many, so any set of them can be listed.
ASSUME DistributionAssumption ==
  /\ IsFiniteSet(File)
  /\ \A S \in SUBSET File :
       Cardinality(S) \in Nat /\ \E s \in [1 .. Cardinality(S) -> S] : Range(s) = S
  /\ Vms \in [File -> SUBSET Vm]
  /\ Urls \subseteq File
  /\ Polls \in BOOLEAN
  /\ {Retries, MaxCommits, MaxFaults} \subseteq Nat
  /\ MaxCommits > 0

VARIABLES
  source,       \* a git branch, or URLs with or without ETag or Last-Modified
  log,          \* log[n]: the tree of commit n
  work,         \* work[f]: the file in the work tree, or downloaded
  head,         \* the commit the repository was cloned at (its HEAD), or 0
  oldHead, newHead, \* RepoState; 0 is None
  mon,          \* where the git monitor is
  todo,         \* files the checkout has yet to write
  fetched,      \* the commit being checked out or cloned, or 0
  tries,        \* failed attempts to clone in this round
  task,         \* task[f]: where the task of the URL is, and what it was answered
  cur,          \* cur[f]: current_head of the task; 0 is none
  mem,          \* mem[f]: the head in config_state
  saved,        \* saved[f]: the head in config.json
  torn,         \* config.json is half written
  q,            \* q[vm]: channel of the worker
  waits,        \* waits[vm]: the worker waits for the answer to its update
  updates,      \* update_channel
  sending,      \* the upload in progress, <<vm, file, content>>, or <<>>
  reg,          \* VMs whose agent is registered
  hello,        \* VMs whose registration has yet to send everything
  have,         \* have[vm][f]: what the agent was last sent
  owed,         \* history: <<vm, f>> whose last push failed, was torn or was never queued
  faults

urlVars == <<source, task, cur, mem, saved, torn>>
gitVars == <<head, oldHead, newHead, mon, todo, fetched, tries>>
repoVars == <<work, gitVars, urlVars>>
pushVars == <<q, waits, updates, sending>>
vmVars == <<reg, hello, have>>
vars == <<log, repoVars, pushVars, vmVars, owed, faults>>

Content == Torn..MaxCommits
Stage == {"head", "get", "write", "notify", "record", "save", "done"}
At(stage, h, b) == [at |-> stage, head |-> h, body |-> b]

\* Every variable has its type; a worker waits exactly while its update is in
\* the channel or with the consumer, so no VM is sent two files at a time.
TypeOK ==
  /\ log \in Seq([File -> 1..MaxCommits]) /\ Len(log) \in 1..MaxCommits
  /\ work \in [File -> Content]
  /\ {head, oldHead, newHead, fetched} \subseteq 0..Len(log)
  /\ mon \in {"poll", "checkout", "clone", "replace", "rename", "force", "done",
             "off", "dead"}
  /\ source \in {"git", "header", "hash"}
  /\ task \in [File -> [at : Stage, head : 0..Len(log), body : 0..Len(log)]]
  /\ \A h \in {cur, mem, saved} : h \in [File -> 0..Len(log)]
  /\ torn \in BOOLEAN
  /\ todo \subseteq File
  /\ tries \in 0..Retries
  /\ \A vm \in Vm : q[vm] \in Seq(File)
  /\ waits \in [Vm -> BOOLEAN]
  /\ \A u \in Range(updates) : u \in Vm \X File
  /\ sending # <<>> => sending \in Vm \X File \X Content
  /\ reg \subseteq Vm /\ hello \subseteq reg
  /\ have \in [Vm -> [File -> Content]]
  /\ owed \subseteq Vm \X File
  /\ faults \in 0..MaxFaults
  /\ \A i, j \in DOMAIN updates : updates[i][1] = updates[j][1] => i = j
  /\ sending # <<>> => \A u \in Range(updates) : u[1] # sending[1]
  /\ \A vm \in Vm :
       waits[vm] <=> \/ \E u \in Range(updates) : u[1] = vm
                     \/ sending # <<>> /\ sending[1] = vm

\* What differs between the trees of two commits, and what the source has now.
Diff(old, new) == {f \in File : log[old][f] # log[new][f]}
NoFiles == [f \in File |-> Absent]
Remote(f) == log[Len(log)][f]

\* A policy without a URL has no task, or one that ends at once.
Fresh(f) == At(IF f \in Urls THEN "head" ELSE "done", 0, 0)

Init ==
  /\ source \in {"git", "header", "hash"}
  /\ log = <<[f \in File |-> 1]>>
  /\ work = NoFiles
  /\ head = 0 /\ oldHead = 0 /\ newHead = 0
  /\ mon = (IF source = "git" THEN "poll" ELSE "off")
  /\ todo = {} /\ fetched = 0 /\ tries = 0
  /\ task = [f \in File |-> Fresh(f)]
  /\ cur = NoFiles /\ mem = NoFiles /\ saved = NoFiles /\ torn = FALSE
  /\ q = [vm \in Vm |-> <<>>]
  /\ waits = [vm \in Vm |-> FALSE]
  /\ updates = <<>> /\ sending = <<>>
  /\ reg = {} /\ hello = {}
  /\ have = [vm \in Vm |-> NoFiles]
  /\ owed = {} /\ faults = 0

\* A failure or a restart of the admin.
Fault == faults < MaxFaults /\ faults' = faults + 1

\* Somebody pushes a commit; it may change no file at all.
Commit ==
  /\ Len(log) < MaxCommits
  /\ \E F \in SUBSET File :
       log' = Append(log, [f \in File |-> IF f \in F THEN Len(log) + 1 ELSE Remote(f)])
  /\ UNCHANGED <<repoVars, pushVars, vmVars, owed, faults>>

-----------------------------------------------------------------------------
(* PolicyManager: what is queued.                                          *)

\* A set in an order of no meaning (that of a HashMap).
SetToSeq(S) == CHOOSE s \in [1 .. Cardinality(S) -> S] : Range(s) = S

\* send_all_policies: the files that exist, to the VMs in V that subscribe.
send_all_policies(V) ==
  q' = [vm \in Vm |->
          IF vm \in V THEN q[vm] \o SetToSeq({f \in File : vm \in Vms[f] /\ work[f] # Absent})
                      ELSE q[vm]]

force_update_all_vms == send_all_policies(Vm)

\* Variant of process_changeset: only one of the subscribers is sent the file.
process_changeset_first(changes) ==
  /\ q' = IF Cardinality(changes) = 1
          THEN [vm \in Vm |-> q[vm] \o SetToSeq({f \in changes :
                  vm \in Vms[f] /\ vm = CHOOSE v \in Vms[f] : TRUE})]
          ELSE q
  /\ owed' = IF Cardinality(changes) = 1 THEN owed
             ELSE owed \cup {d \in Vm \X File : d[2] \in changes /\ d[1] \in Vms[d[2]]}

\* process_changeset: the changes come as one line without separators, so that
\* only a change set of one file names a file that exists.
process_changeset(changes) ==
  /\ q' = IF Cardinality(changes) = 1
          THEN [vm \in Vm |-> q[vm] \o SetToSeq({f \in changes : vm \in Vms[f]})]
          ELSE q
  /\ owed' = IF Cardinality(changes) = 1 THEN owed
             ELSE owed \cup {d \in Vm \X File : d[2] \in changes /\ d[1] \in Vms[d[2]]}

-----------------------------------------------------------------------------
(* PolicyRepoMonitor.                                                      *)

\* After a round without an error the monitor sleeps, or ends when it is not
\* to poll again.
Sleep == mon' = IF Polls THEN "poll" ELSE "done"

\* get_update finds nothing new.
UpToDate ==
  /\ mon = "poll"
  /\ head # 0 /\ newHead = Len(log)
  /\ Sleep
  /\ UNCHANGED <<log, urlVars, work, head, oldHead, newHead, todo, fetched, tries, pushVars, vmVars, owed, faults>>

\* get_update cannot open the repository, or cannot fetch.
FetchFails ==
  /\ mon = "poll"
  /\ IF head = 0 THEN UNCHANGED faults ELSE Fault
  /\ mon' = "clone"
  /\ UNCHANGED <<log, urlVars, work, head, oldHead, newHead, todo, fetched, tries, pushVars, vmVars, owed>>

\* get_update fetches a new commit and starts to check it out ...
FetchUpdate ==
  /\ mon = "poll"
  /\ head # 0 /\ newHead # Len(log)
  /\ mon' = "checkout" /\ todo' = File /\ fetched' = Len(log)
  /\ UNCHANGED <<log, urlVars, work, head, oldHead, newHead, tries, pushVars, vmVars, owed, faults>>

\* ... writing every file of the commit, changed or not, over the old one ...
CheckoutFile ==
  /\ mon = "checkout"
  /\ \E f \in todo :
       IF work[f] # Torn
       THEN work' = [work EXCEPT ![f] = Torn] /\ UNCHANGED todo
       ELSE work' = [work EXCEPT ![f] = log[fetched][f]] /\ todo' = todo \ {f}
  /\ UNCHANGED <<log, urlVars, head, oldHead, newHead, mon, fetched, tries, pushVars, vmVars, owed, faults>>

CheckoutFails ==
  /\ mon = "checkout"
  /\ Fault
  /\ mon' = "clone" /\ todo' = {} /\ fetched' = 0
  /\ UNCHANGED <<log, urlVars, work, head, oldHead, newHead, tries, pushVars, vmVars, owed>>

\* ... and moves the heads at the end.  get_change_set compares the two commits
\* and start acts on the result; nothing else looks at the heads.
Dispatch ==
  /\ mon = "checkout"
  /\ todo = {}
  /\ oldHead' = newHead /\ newHead' = fetched /\ fetched' = 0
  /\ LET changes == Diff(newHead, fetched)
     IN  IF changes # {} THEN process_changeset(changes)
                         ELSE force_update_all_vms /\ UNCHANGED owed
  /\ Sleep
  /\ UNCHANGED <<log, urlVars, work, head, todo, tries, waits, updates, sending, vmVars, faults>>

\* Variant of CloneFetch: what an earlier attempt left in the temporary directory
\* is taken for the clone.
CloneFetchStale ==
  /\ mon = "clone"
  /\ fetched' \in 1..Len(log)
  /\ mon' = "replace"
  /\ UNCHANGED <<log, urlVars, work, head, oldHead, newHead, todo, tries, pushVars, vmVars, owed, faults>>

\* clone_repo: fetch into a temporary directory, remove the old one, rename.
CloneFetch ==
  /\ mon = "clone"
  /\ fetched' = Len(log)
  /\ mon' = "replace"
  /\ UNCHANGED <<log, urlVars, work, head, oldHead, newHead, todo, tries, pushVars, vmVars, owed, faults>>

CloneReplace ==
  /\ mon = "replace"
  /\ work' = NoFiles /\ head' = 0
  /\ mon' = "rename"
  /\ UNCHANGED <<log, urlVars, oldHead, newHead, todo, fetched, tries, pushVars, vmVars, owed, faults>>

CloneRename ==
  /\ mon = "rename"
  /\ work' = log[fetched] /\ head' = fetched
  /\ newHead' = fetched /\ oldHead' = 0
  /\ mon' = "force" /\ tries' = 0 /\ fetched' = 0
  /\ UNCHANGED <<log, urlVars, todo, pushVars, vmVars, owed, faults>>

\* ensure_clone tries again, and gives up in the end.
CloneFails ==
  /\ mon \in {"clone", "replace", "rename"}
  /\ Fault
  /\ IF tries < Retries THEN mon' = "clone" /\ tries' = tries + 1
                        ELSE mon' = "force" /\ tries' = 0
  /\ fetched' = 0
  /\ UNCHANGED <<log, urlVars, work, head, oldHead, newHead, todo, pushVars, vmVars, owed>>

\* After an error everything is sent again, whether or not the clone was made.
ForceUpdate ==
  /\ mon = "force"
  /\ force_update_all_vms
  /\ mon' = "poll"
  /\ UNCHANGED <<log, urlVars, work, head, oldHead, newHead, todo, fetched, tries, waits, updates, sending,
                 vmVars, owed, faults>>

Monitor ==
  \/ UpToDate \/ FetchFails \/ FetchUpdate \/ CheckoutFile \/ CheckoutFails
  \/ Dispatch \/ CloneFetch \/ CloneReplace \/ CloneRename \/ CloneFails \/ ForceUpdate

-----------------------------------------------------------------------------
(* PolicyUrlMonitor: a task for each policy.                               *)

Goto(f, stage, h, b) == task' = [task EXCEPT ![f] = At(stage, h, b)]
Rest(f) == Goto(f, IF Polls THEN "head" ELSE "done", 0, 0)

\* poll_once asks for the headers.  A head that is the current one ends the
\* poll; without one (0) the body decides.
HeadRequest(f) ==
  LET h == IF source = "header" THEN Remote(f) ELSE 0 IN
  /\ mon = "off" /\ task[f].at = "head"
  /\ IF h # 0 /\ h = cur[f] THEN Rest(f) ELSE Goto(f, "get", h, 0)
  /\ UNCHANGED <<log, work, gitVars, source, cur, mem, saved, torn, pushVars, vmVars, owed, faults>>

\* Variant of GetRequest: the head is taken over before the file is written.
GetRequestEarly(f) ==
  LET h == IF source = "hash" THEN Remote(f) ELSE task[f].head IN
  /\ mon = "off" /\ task[f].at = "get"
  /\ cur' = [cur EXCEPT ![f] = h]
  /\ IF source = "hash" /\ h = cur[f] THEN Rest(f) ELSE Goto(f, "write", h, Remote(f))
  /\ UNCHANGED <<log, work, gitVars, source, mem, saved, torn, pushVars, vmVars, owed, faults>>

\* It downloads, by which time the content may be newer than the headers said.
GetRequest(f) ==
  LET h == IF source = "hash" THEN Remote(f) ELSE task[f].head IN
  /\ mon = "off" /\ task[f].at = "get"
  /\ IF source = "hash" /\ h = cur[f] THEN Rest(f) ELSE Goto(f, "write", h, Remote(f))
  /\ UNCHANGED <<log, work, gitVars, source, cur, mem, saved, torn, pushVars, vmVars, owed, faults>>

\* fs::write truncates the file and fills it again.
WriteFile(f) ==
  /\ mon = "off" /\ task[f].at = "write"
  /\ IF work[f] # Torn
     THEN work' = [work EXCEPT ![f] = Torn] /\ UNCHANGED task
     ELSE work' = [work EXCEPT ![f] = task[f].body] /\ Goto(f, "notify", task[f].head, 0)
  /\ UNCHANGED <<log, gitVars, source, cur, mem, saved, torn, pushVars, vmVars, owed, faults>>

\* The download or the write fails, and the poll is tried again later.  (After
\* a failed HEAD request the task is where it was.)
PollFails(f) ==
  /\ mon = "off" /\ task[f].at \in {"get", "write"}
  /\ Fault
  /\ Goto(f, "head", 0, 0)
  /\ UNCHANGED <<log, work, gitVars, source, cur, mem, saved, torn, pushVars, vmVars, owed>>

\* monitor_loop queues the file for the VMs and takes the head over.
Notify(f) ==
  /\ mon = "off" /\ task[f].at = "notify"
  /\ q' = [vm \in Vm |-> IF vm \in Vms[f] THEN Append(q[vm], f) ELSE q[vm]]
  /\ cur' = [cur EXCEPT ![f] = task[f].head]
  /\ Goto(f, "record", 0, 0)
  /\ UNCHANGED <<log, work, gitVars, source, mem, saved, torn, waits, updates, sending, vmVars, owed, faults>>

\* update_head: under the lock of config_state, config.json is truncated ...
UpdateHead(f) ==
  /\ mon = "off" /\ task[f].at = "record"
  /\ \A g \in File : task[g].at # "save"
  /\ mem' = [mem EXCEPT ![f] = cur[f]]
  /\ torn' = TRUE
  /\ Goto(f, "save", 0, 0)
  /\ UNCHANGED <<log, work, gitVars, source, cur, saved, pushVars, vmVars, owed, faults>>

\* ... and written, heads of the other policies included.
SaveConfig(f) ==
  /\ mon = "off" /\ task[f].at = "save"
  /\ saved' = mem /\ torn' = FALSE
  /\ Rest(f)
  /\ UNCHANGED <<log, work, gitVars, source, cur, mem, pushVars, vmVars, owed, faults>>

\* A failed write leaves half of it, and is only logged.
SaveFails(f) ==
  /\ mon = "off" /\ task[f].at = "save"
  /\ Fault
  /\ Rest(f)
  /\ UNCHANGED <<log, work, gitVars, source, cur, mem, saved, torn, pushVars, vmVars, owed>>

UrlTask(f) ==
  \/ HeadRequest(f) \/ GetRequest(f) \/ WriteFile(f) \/ PollFails(f)
  \/ Notify(f) \/ UpdateHead(f) \/ SaveConfig(f) \/ SaveFails(f)

-----------------------------------------------------------------------------
(* Workers, the consumer and registration.                                 *)

\* Variant of Work: the worker does not wait for the answer.
WorkAhead(vm) ==
  /\ q[vm] # <<>>
  /\ updates' = Append(updates, <<vm, Head(q[vm])>>)
  /\ waits' = [waits EXCEPT ![vm] = TRUE]
  /\ q' = [q EXCEPT ![vm] = Tail(q[vm])]
  /\ UNCHANGED <<log, repoVars, sending, vmVars, owed, faults>>

\* worker_loop: one update is handed on, then its answer awaited.
Work(vm) ==
  /\ ~waits[vm]
  /\ q[vm] # <<>>
  /\ updates' = Append(updates, <<vm, Head(q[vm])>>)
  /\ waits' = [waits EXCEPT ![vm] = TRUE]
  /\ q' = [q EXCEPT ![vm] = Tail(q[vm])]
  /\ UNCHANGED <<log, repoVars, sending, vmVars, owed, faults>>

\* push_policy_update copies the file before it is uploaded ...
Copy ==
  /\ sending = <<>>
  /\ updates # <<>>
  /\ LET u == Head(updates) IN
       /\ u[1] \in reg
       /\ work[u[2]] # Absent
       /\ sending' = <<u[1], u[2], work[u[2]]>>
  /\ updates' = Tail(updates)
  /\ UNCHANGED <<log, repoVars, q, waits, vmVars, owed, faults>>

\* ... unless the agent is unknown or the file is gone.
CopyFails ==
  /\ sending = <<>>
  /\ updates # <<>>
  /\ LET u == Head(updates) IN
       /\ u[1] \notin reg \/ work[u[2]] = Absent
       /\ waits' = [waits EXCEPT ![u[1]] = FALSE]
  /\ updates' = Tail(updates)
  /\ UNCHANGED <<log, repoVars, q, sending, vmVars, owed, faults>>

\* What an upload leaves at the agent, and owed.
Arrives(vm, f, x) ==
  /\ have' = [have EXCEPT ![vm][f] = x]
  /\ owed' = IF x = Torn THEN owed \cup {<<vm, f>>}
             ELSE IF x = work[f] THEN owed \ {<<vm, f>>} ELSE owed

Upload ==
  /\ sending # <<>>
  /\ Arrives(sending[1], sending[2], sending[3])
  /\ waits' = [waits EXCEPT ![sending[1]] = FALSE]
  /\ sending' = <<>>
  /\ UNCHANGED <<log, repoVars, q, updates, reg, hello, faults>>

\* The error is the answer to the worker, which only logs that it has one.
UploadFails ==
  /\ sending # <<>>
  /\ Fault
  /\ owed' = owed \cup {<<sending[1], sending[2]>>}
  /\ waits' = [waits EXCEPT ![sending[1]] = FALSE]
  /\ sending' = <<>>
  /\ UNCHANGED <<log, repoVars, q, updates, vmVars>>

\* register_service for an agent; a task that sends everything is spawned.
Register(vm) ==
  /\ vm \notin reg /\ mon # "dead"
  /\ reg' = reg \cup {vm} /\ hello' = hello \cup {vm}
  /\ UNCHANGED <<log, repoVars, pushVars, have, owed, faults>>

Welcome(vm) ==
  /\ vm \in hello
  /\ send_all_policies({vm})
  /\ hello' = hello \ {vm}
  /\ UNCHANGED <<log, repoVars, waits, updates, sending, reg, have, owed, faults>>

\* The task cannot connect to the agent.
WelcomeFails(vm) ==
  /\ vm \in hello
  /\ Fault
  /\ hello' = hello \ {vm}
  /\ owed' = owed \cup {d \in Vm \X File : d[1] = vm /\ vm \in Vms[d[2]]}
  /\ UNCHANGED <<log, repoVars, pushVars, reg, have>>

\* Variant of RestartRepo: the heads are those of the branch that was fetched last.
RestartRepoAtFetched ==
  /\ source = "git"
  /\ newHead' = IF mon = "checkout" THEN fetched ELSE head
  /\ oldHead' = newHead'
  /\ mon' = "poll" /\ todo' = {} /\ fetched' = 0 /\ tries' = 0
  /\ UNCHANGED <<head, urlVars>>

\* PolicyRepoMonitor::new takes both heads from the repository's HEAD, which
\* get_update never moves.
RestartRepo ==
  /\ source = "git"
  /\ newHead' = head /\ oldHead' = head
  /\ mon' = "poll" /\ todo' = {} /\ fetched' = 0 /\ tries' = 0
  /\ UNCHANGED <<head, urlVars>>

\* PolicyUrlMonitor::new prefers config.json to the configuration given, and
\* fails if it cannot be parsed; then the admin does not start.
RestartUrls ==
  /\ source # "git"
  /\ mon' = IF torn THEN "dead" ELSE "off"
  /\ cur' = saved /\ mem' = saved
  /\ task' = [f \in File |-> Fresh(f)]
  /\ UNCHANGED <<head, oldHead, newHead, todo, fetched, tries, source, saved, torn>>

\* The admin restarts: queues and registry are empty.  An upload in progress has
\* arrived or not.
Restart ==
  /\ mon # "dead"
  /\ Fault
  /\ RestartRepo \/ RestartUrls
  /\ q' = [vm \in Vm |-> <<>>]
  /\ waits' = [vm \in Vm |-> FALSE]
  /\ updates' = <<>> /\ sending' = <<>>
  /\ reg' = {} /\ hello' = {}
  /\ \/ sending # <<>> /\ Arrives(sending[1], sending[2], sending[3])
     \/ UNCHANGED <<have, owed>>
  /\ UNCHANGED <<log, work>>

\* It is started again, to the same end.
StartFails == mon = "dead" /\ UNCHANGED vars

Push == (\E vm \in Vm : Work(vm)) \/ Copy \/ CopyFails \/ Upload \/ UploadFails

Next ==
  \/ Commit \/ Monitor \/ Push \/ Restart \/ StartFails
  \/ \E f \in File : UrlTask(f)
  \/ \E vm \in Vm : Register(vm) \/ Welcome(vm) \/ WelcomeFails(vm)

Spec == Init /\ [][Next]_vars

\* Tasks that can run do: the tokio scheduler is fair, and remote calls return.
Fairness ==
  /\ WF_vars(Monitor) /\ WF_vars(Copy \/ CopyFails) /\ WF_vars(Upload \/ UploadFails)
  /\ \A f \in File : WF_vars(UrlTask(f))
  /\ \A vm \in Vm : WF_vars(Work(vm)) /\ WF_vars(Welcome(vm) \/ WelcomeFails(vm))

FairSpec == Spec /\ Fairness

-----------------------------------------------------------------------------
(* Properties.                                                             *)

Pending(vm, f) ==
  \/ vm \in hello
  \/ f \in Range(q[vm])
  \/ <<vm, f>> \in Range(updates)
  \/ sending # <<>> /\ sending[1] = vm /\ sending[2] = f

\* The store is not being changed where f is.
Quiet(f) ==
  IF source = "git" THEN mon \in {"poll", "done"} ELSE task[f].at \notin {"write", "notify"}

\* While its monitor does not change a file, a registered VM that subscribes to
\* it has been sent it as it is in the store, or a push is under way, or its
\* last push is known to have failed, to have been torn or to be part of a
\* change set of several files (policy_repo.rs 267-319, policy_urls.rs 171-219,
\* policy_manager.rs 115-141 and 173-284, server.rs 239-265 and 564-577).
Delivered ==
  \A f \in File : Quiet(f) /\ work[f] > 0 =>
    \A vm \in reg \cap Vms[f] :
      have[vm][f] = work[f] \/ Pending(vm, f) \/ <<vm, f>> \in owed

\* A VM that holds a whole file is never sent an older one, whatever happens to
\* the queues, the store and the admin in between.
NoRollback ==
  [][\A vm \in Vm, f \in File : have'[vm][f] # Torn => have'[vm][f] >= have[vm][f]]_vars

\* A head that makes poll_once report no change (policy_urls.rs 259-266 and 285)
\* is that of a file that is whole in the store, also after a download that
\* failed, a config.json that was not written or a restart: no torn or missing
\* file is ever taken for the present one.
HeadIsStored ==
  source # "git" =>
    \A f \in File : Remote(f) \in {cur[f], mem[f], saved[f]} => work[f] = Remote(f)

\* Every commit is noticed, and comes to every registered VM that subscribes to
\* a file it changed, except for the losses Delivered names: the monitors
\* recover from failed requests, checkouts, clones and writes by themselves.
\* Only an admin that does not start, because it was stopped while it wrote
\* config.json or after that had failed, notices nothing.
CommitsArrive ==
  <>[](/\ IF source = "git" THEN newHead = Len(log)
          ELSE mon = "dead" \/ \A f \in Urls : cur[f] = Remote(f)
       /\ \A f \in File, vm \in reg : vm \in Vms[f] =>
            have[vm][f] = Remote(f) \/ <<vm, f>> \in owed)
=============================================================================
