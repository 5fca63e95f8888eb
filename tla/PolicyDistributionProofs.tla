---------------------- MODULE PolicyDistributionProofs ----------------------
(***************************************************************************)
(* The safety properties of policy distribution, for any VMs, policies,    *)
(* subscriptions and numbers of commits, attempts and failures.            *)
(*                                                                         *)
(* The argument, in the parts of the invariant:                            *)
(*  - a later commit has no older content of a file (LogInv);              *)
(*  - a worker's update is in the channel or with the consumer, once       *)
(*    (WaitInv);                                                           *)
(*  - a file of the work tree is torn or that of a commit between the      *)
(*    monitor's head and what it is checking out (GitStore);               *)
(*  - the heads of a URL lag behind its file, which is newer than them or  *)
(*    else torn and not yet what the server has (UrlStore);                *)
(*  - nothing older than what was sent is in the store or about to be      *)
(*    written there (VersionInv);                                          *)
(*  - a subscriber has, or has coming, what the store will hold again      *)
(*    unless the file is about to be queued (GitSends, UrlSends).          *)
(***************************************************************************)
EXTENDS PolicyDistribution, TLAPS

\* Zenon proves the steps that are first order; the others name their prover.
USE Zenon

Commits == 1 .. Len(log)

\* TypeOK in parts, with the domains and the sequences that it looks into.  A
\* commit has no older content of a file than the ones before it.
LogInv ==
  /\ log \in Seq([File -> 1 .. MaxCommits]) /\ Len(log) \in 1 .. MaxCommits
  /\ \A i \in Commits, f \in File : log[i][f] \in 1 .. i
  /\ \A i, j \in Commits, f \in File : i <= j => log[i][f] <= log[j][f]

GitTypes ==
  /\ work \in [File -> Content]
  /\ head \in 0 .. Len(log) /\ oldHead \in 0 .. Len(log)
  /\ newHead \in 0 .. Len(log) /\ fetched \in 0 .. Len(log)
  /\ mon \in {"poll", "checkout", "clone", "replace", "rename", "force", "done",
             "off", "dead"}
  /\ source \in {"git", "header", "hash"}
  /\ source = "git" <=> mon \notin {"off", "dead"}
  /\ todo \subseteq File
  /\ tries \in 0 .. Retries

UrlTypes ==
  /\ task \in [File -> [at : Stage, head : 0 .. Len(log), body : 0 .. Len(log)]]
  /\ cur \in [File -> 0 .. Len(log)] /\ mem \in [File -> 0 .. Len(log)]
  /\ saved \in [File -> 0 .. Len(log)]
  /\ torn \in BOOLEAN

PushTypes ==
  /\ q \in [Vm -> Seq(File)]
  /\ waits \in [Vm -> BOOLEAN]
  /\ updates \in Seq(Vm \X File)
  /\ sending # <<>> => sending \in Vm \X File \X Content

VmTypes ==
  /\ reg \subseteq Vm /\ hello \subseteq reg
  /\ have \in [Vm -> [File -> Content]]
  /\ owed \subseteq Vm \X File

Types ==
  LogInv /\ GitTypes /\ UrlTypes /\ PushTypes /\ VmTypes /\ faults \in 0 .. MaxFaults

WaitInv ==
  /\ \A i, j \in 1 .. Len(updates) : updates[i][1] = updates[j][1] => i = j
  /\ sending # <<>> => \A i \in 1 .. Len(updates) : updates[i][1] # sending[1]
  /\ \A vm \in Vm :
       waits[vm] <=> \/ \E i \in 1 .. Len(updates) : updates[i][1] = vm
                     \/ sending # <<>> /\ sending[1] = vm

\* f is torn, or as it was in a commit from m to n.
Between(f, m, n) == work[f] = Torn \/ \E i \in m .. n : work[f] = log[i][f]

GitStore ==
  source = "git" =>
    /\ head = 0 => \A f \in File : work[f] = Absent
    /\ head # 0 => head <= newHead /\ \A f \in File : Between(f, newHead, Len(log))
    /\ mon \in {"checkout", "replace", "rename"} => fetched # 0
    /\ mon = "rename" => head = 0
    /\ mon = "checkout" =>
         /\ head # 0 /\ newHead <= fetched
         /\ \A f \in File : Between(f, newHead, fetched)
         /\ \A f \in File \ todo : work[f] = log[fetched][f]

UrlFile(f) ==
  /\ saved[f] <= mem[f] /\ mem[f] <= cur[f] /\ cur[f] <= Remote(f)
  /\ work[f] # Torn => cur[f] <= work[f] /\ work[f] <= Remote(f)
  /\ work[f] = Torn => cur[f] < Remote(f)
  /\ task[f].at = "get" /\ source = "header" => cur[f] < task[f].head /\ task[f].head <= Remote(f)
  /\ task[f].at = "write" =>
       /\ cur[f] < task[f].head /\ task[f].head <= task[f].body
       /\ task[f].body <= Remote(f)
  /\ task[f].at = "notify" => cur[f] < task[f].head /\ task[f].head <= work[f]

UrlStore == source # "git" => \A f \in File : UrlFile(f)

Sends(vm, f) == sending # <<>> /\ sending[1] = vm /\ sending[2] = f

\* No VM has or is being sent anything newer than c.
NoneNewer(f, c) ==
  \A vm \in Vm : have[vm][f] <= c /\ (Sends(vm, f) => sending[3] <= c)

\* What is being sent is torn, or no older than what the VM has.
InOrder(f) ==
  \A vm \in Vm : Sends(vm, f) =>
    sending[3] \in {Torn} \cup {c \in 1 .. MaxCommits : have[vm][f] <= c}

VersionInv ==
  \A f \in File :
    /\ work[f] <= Remote(f) /\ NoneNewer(f, Remote(f))
    /\ work[f] > 0 => NoneNewer(f, work[f])
    /\ mon \in {"checkout", "replace", "rename"} =>
         work[f] <= log[fetched][f] /\ NoneNewer(f, log[fetched][f])
    /\ mon \in {"off", "dead"} /\ task[f].at = "write" =>
         work[f] <= task[f].body /\ NoneNewer(f, task[f].body)
    /\ InOrder(f)

\* vm has f with content c, or it comes, or its loss is on record.
Queued(vm, f) == vm \in hello \/ f \in Range(q[vm]) \/ <<vm, f>> \in Range(updates)

Served(vm, f, c) ==
  \/ Queued(vm, f)
  \/ <<vm, f>> \in owed
  \/ IF Sends(vm, f) THEN sending[3] \in {c, Torn} ELSE have[vm][f] = c

GitSends ==
  source = "git" =>
    \A f \in File, vm \in reg : vm \in Vms[f] =>
      /\ mon \in {"poll", "done"} /\ work[f] > 0 => Served(vm, f, work[f])
      /\ mon \in {"poll", "done"} /\ work[f] = Torn => Served(vm, f, log[newHead][f])
      /\ mon = "checkout" /\ f \notin Diff(newHead, fetched) => Served(vm, f, log[newHead][f])

UrlSends ==
  source # "git" =>
    \A f \in File, vm \in reg : vm \in Vms[f] =>
      (task[f].at # "notify" /\ work[f] > 0 => Served(vm, f, work[f]))

Inv == Types /\ WaitInv /\ GitStore /\ UrlStore /\ VersionInv /\ GitSends /\ UrlSends

-----------------------------------------------------------------------------
(* The operators of the model.                                             *)

\* SetToSeq lists a set of files.
LEMMA Enumerates ==
  ASSUME NEW S \in SUBSET File
  PROVE  SetToSeq(S) \in Seq(S) /\ Range(SetToSeq(S)) = S
<1> DEFINE s == SetToSeq(S)
<1>1. Cardinality(S) \in Nat /\ s \in [1 .. Cardinality(S) -> S] /\ Range(s) = S
  BY DistributionAssumption DEF SetToSeq
<1> HIDE DEF s
<1>2. s \in Seq(S)
  BY <1>1, SMT
<1>3. QED BY <1>1, <1>2 DEF s

\* What a concatenation, an append and a tail hold.
LEMMA SeqSets ==
  ASSUME NEW S, NEW s \in Seq(S), NEW t \in Seq(S), NEW e \in S
  PROVE  /\ s \o t \in Seq(S) /\ Range(s \o t) = Range(s) \cup Range(t)
         /\ Append(s, e) \in Seq(S) /\ Range(Append(s, e)) = Range(s) \cup {e}
         /\ Range(<<>>) = {}
<1>1. s \o t \in Seq(S) /\ Range(s \o t) = Range(s) \cup Range(t)
  <2>1. /\ s \o t \in Seq(S) /\ Len(s) \in Nat /\ Len(t) \in Nat
        /\ DOMAIN s = 1 .. Len(s) /\ DOMAIN t = 1 .. Len(t)
        /\ DOMAIN (s \o t) = 1 .. Len(s) + Len(t)
    BY SMT
  <2>2. /\ \A i \in 1 .. Len(s) : (s \o t)[i] = s[i] /\ i \in 1 .. Len(s) + Len(t)
        /\ \A i \in 1 .. Len(t) : /\ (s \o t)[Len(s) + i] = t[i]
                                 /\ Len(s) + i \in 1 .. Len(s) + Len(t)
    BY <2>1, SMT
  <2>3. \A i \in 1 .. Len(s) + Len(t) :
          i \in 1 .. Len(s) \/ (i - Len(s) \in 1 .. Len(t) /\ Len(s) + (i - Len(s)) = i)
    BY <2>1, SMT
  <2>4. Range(s) \subseteq Range(s \o t) /\ Range(t) \subseteq Range(s \o t)
    BY <2>1, <2>2 DEF Range
  <2>5. ASSUME NEW i \in 1 .. Len(s) + Len(t) PROVE (s \o t)[i] \in Range(s) \cup Range(t)
    BY <2>1, <2>2, <2>3, ZenonT(40) DEF Range
  <2>6. \A x \in Range(s \o t) : \E i \in 1 .. Len(s) + Len(t) : x = (s \o t)[i]
    BY <2>1 DEF Range
  <2>7. QED BY <2>1, <2>4, <2>5, <2>6
<1>2. Append(s, e) \in Seq(S) /\ Range(Append(s, e)) = Range(s) \cup {e}
  <2>1. Append(s, e) \in Seq(S)
    BY SMT
  <2>2. /\ Len(s) \in Nat /\ DOMAIN s = 1 .. Len(s) /\ DOMAIN Append(s, e) = 1 .. Len(s) + 1
        /\ Append(s, e)[Len(s) + 1] = e
        /\ \A i \in 1 .. Len(s) : Append(s, e)[i] = s[i]
    BY SMT
  <2>3. QED BY <2>1, <2>2, SMT DEF Range
<1>3. Range(<<>>) = {}
  BY SMT DEF Range
<1>4. QED BY <1>1, <1>2, <1>3

LEMMA HeadOrTail ==
  ASSUME NEW S, NEW s \in Seq(S), s # <<>>
  PROVE  /\ Head(s) \in S /\ Tail(s) \in Seq(S)
         /\ Head(s) \in Range(s)
         /\ Range(s) = Range(Tail(s)) \cup {Head(s)}
         /\ Len(s) \in Nat /\ Len(Tail(s)) = Len(s) - 1 /\ Head(s) = s[1]
         /\ \A i \in 1 .. Len(Tail(s)) : Tail(s)[i] = s[i + 1]
<1>1. /\ Len(s) \in Nat /\ Len(s) >= 1 /\ Head(s) = s[1] /\ Head(s) \in S /\ Tail(s) \in Seq(S)
      /\ Len(Tail(s)) = Len(s) - 1 /\ DOMAIN s = 1 .. Len(s) /\ DOMAIN Tail(s) = 1 .. Len(s) - 1
      /\ \A i \in 1 .. Len(s) - 1 : Tail(s)[i] = s[i + 1]
  BY SMT
<1>2. \A i \in 1 .. Len(s) : i = 1 \/ (i - 1 \in 1 .. Len(s) - 1 /\ s[i] = Tail(s)[i - 1])
  BY <1>1, SMT
<1>3. \A i \in 1 .. Len(s) - 1 : i + 1 \in 1 .. Len(s)
  BY <1>1, SMT
<1>4. 1 \in 1 .. Len(s)
  BY <1>1, SMT
<1>5. Range(s) = Range(Tail(s)) \cup {Head(s)}
  <2>1. ASSUME NEW x \in Range(s) PROVE x \in Range(Tail(s)) \cup {Head(s)}
    <3>1. PICK i \in 1 .. Len(s) : x = s[i]
      BY <1>1, <2>1 DEF Range
    <3>2. x = Head(s) \/ (i - 1 \in DOMAIN Tail(s) /\ x = Tail(s)[i - 1])
      BY <1>1, <1>2, <3>1
    <3>3. QED BY <3>2 DEF Range
  <2>2. ASSUME NEW x \in Range(Tail(s)) PROVE x \in Range(s)
    <3>1. PICK i \in 1 .. Len(s) - 1 : x = Tail(s)[i]
      BY <1>1, <2>2 DEF Range
    <3>2. x = s[i + 1] /\ i + 1 \in DOMAIN s
      BY <1>1, <1>3, <3>1
    <3>3. QED BY <3>2 DEF Range
  <2>3. Head(s) \in Range(s)
    BY <1>1, <1>4 DEF Range
  <2>4. QED BY <2>1, <2>2, <2>3
<1>6. QED BY <1>1, <1>5

\* The contents of a file in the commits.
LEMMA LogFacts ==
  ASSUME LogInv, NEW f \in File
  PROVE  /\ Len(log) \in Commits
         /\ Remote(f) \in 1 .. Len(log) /\ Remote(f) \in Content
         /\ \A i \in Commits : /\ log[i][f] \in 1 .. Len(log) /\ log[i][f] \in Content
                               /\ log[i][f] <= Remote(f)
         /\ \A i, j \in Commits : i <= j => log[i][f] <= log[j][f]
<1>1. MaxCommits \in Nat
  BY DistributionAssumption
<1>2. /\ Len(log) \in 1 .. MaxCommits /\ \A i \in Commits : log[i][f] \in 1 .. i
      /\ \A i, j \in Commits : i <= j => log[i][f] <= log[j][f]
  BY DEF LogInv
<1>3. Len(log) \in Commits /\ Commits = 1 .. Len(log)
  BY <1>1, <1>2, SMT DEF Commits
<1>4. \A i \in Commits : log[i][f] \in 1 .. Len(log) /\ log[i][f] \in Content
  BY <1>1, <1>2, <1>3, SMT DEF Content, Torn
<1>5. \A i \in Commits : i <= Len(log)
  BY <1>1, <1>2, <1>3, SMT
<1>6. QED BY <1>2, <1>3, <1>4, <1>5 DEF Remote

-----------------------------------------------------------------------------
(* What the manager queues.                                                *)

LEMMA Selection ==
  ASSUME PushTypes, NEW vm \in Vm, NEW S \in SUBSET File
  PROVE  /\ q[vm] \o SetToSeq(S) \in Seq(File)
         /\ Range(q[vm] \o SetToSeq(S)) = Range(q[vm]) \cup S
<1> DEFINE s == SetToSeq(S)
<1>2. s \in Seq(S) /\ Range(s) = S
  BY Enumerates
<1> HIDE DEF s
<1>3. s \in Seq(File) /\ q[vm] \in Seq(File)
  BY <1>2, SMT DEF PushTypes
<1>4. q[vm] \o s \in Seq(File) /\ Range(q[vm] \o s) = Range(q[vm]) \cup Range(s)
  <2>1. CASE File = {}
    <3>1. S = {} /\ q[vm] = <<>> /\ s = <<>>
      BY <1>2, <1>3, <2>1, SMT
    <3>2. QED BY <1>3, <3>1, SMT DEF Range
  <2>2. CASE File # {}
    BY <1>3, <2>2, SeqSets, SMT
  <2>3. QED BY <2>1, <2>2
<1>5. QED BY <1>2, <1>4 DEF s

\* Queues only grow.
Grows ==
  /\ q' \in [Vm -> Seq(File)]
  /\ \A vm \in Vm : Range(q[vm]) \subseteq Range(q'[vm])

LEMMA SendAll ==
  ASSUME PushTypes, NEW V, send_all_policies(V)
  PROVE  /\ Grows
         /\ \A vm \in Vm, f \in File :
              vm \in V /\ vm \in Vms[f] /\ work[f] # Absent => f \in Range(q'[vm])
<1> DEFINE S(vm) == {f \in File : vm \in Vms[f] /\ work[f] # Absent}
<1>1. /\ q' \in [Vm -> {q'[vm] : vm \in Vm}]
      /\ \A vm \in Vm : q'[vm] = IF vm \in V THEN q[vm] \o SetToSeq(S(vm)) ELSE q[vm]
  BY DEF send_all_policies
<1>2. \A vm \in Vm : S(vm) \in SUBSET File
  OBVIOUS
<1>3. ASSUME NEW vm \in Vm
      PROVE  /\ q'[vm] \in Seq(File) /\ Range(q[vm]) \subseteq Range(q'[vm])
             /\ vm \in V => S(vm) \subseteq Range(q'[vm])
  <2>1. q[vm] \in Seq(File)
    BY DEF PushTypes
  <2>2. QED BY <1>1, <1>2, <2>1, Selection
<1>4. QED BY <1>1, <1>3 DEF Grows

LEMMA ChangesetQueued ==
  ASSUME PushTypes, VmTypes, NEW changes \in SUBSET File, process_changeset(changes)
  PROVE  /\ Grows /\ owed \subseteq owed' /\ owed' \subseteq Vm \X File
         /\ \A vm \in Vm, f \in changes :
              vm \in Vms[f] => f \in Range(q'[vm]) \/ <<vm, f>> \in owed'
<1>1. CASE Cardinality(changes) = 1
  <2> DEFINE S(vm) == {f \in changes : vm \in Vms[f]}
  <2>1. /\ q' \in [Vm -> {q'[vm] : vm \in Vm}] /\ owed' = owed
        /\ \A vm \in Vm : q'[vm] = q[vm] \o SetToSeq(S(vm))
    BY <1>1 DEF process_changeset
  <2>2. \A vm \in Vm : S(vm) \in SUBSET File
    OBVIOUS
  <2>3. ASSUME NEW vm \in Vm
        PROVE  q'[vm] \in Seq(File) /\ Range(q'[vm]) = Range(q[vm]) \cup S(vm)
    BY <2>1, <2>2, Selection
  <2>4. QED BY <2>1, <2>3 DEF Grows, VmTypes
<1>2. CASE Cardinality(changes) # 1
  <2>1. /\ q' = q
        /\ owed' = owed \cup {d \in Vm \X File : d[2] \in changes /\ d[1] \in Vms[d[2]]}
    BY <1>2 DEF process_changeset
  <2>2. QED BY <2>1 DEF Grows, PushTypes, VmTypes
<1>3. QED BY <1>1, <1>2

-----------------------------------------------------------------------------
(* A monitor, or a task of a URL, at most adds to the queues and to what   *)
(* is owed.                                                                *)

Adds ==
  /\ Grows /\ owed \subseteq owed' /\ owed' \subseteq Vm \X File
  /\ UNCHANGED <<log, waits, updates, sending, reg, hello, have>>

LEMMA SameQueues ==
  ASSUME PushTypes, VmTypes, UNCHANGED <<log, pushVars, vmVars, owed>>
  PROVE  Adds
BY DEF Adds, Grows, PushTypes, VmTypes, pushVars, vmVars

LEMMA AddServes ==
  ASSUME PushTypes, Adds, NEW vm \in Vm, NEW f, NEW c, Served(vm, f, c)
  PROVE  Served(vm, f, c)'
<1>1. Sends(vm, f)' = Sends(vm, f)
  BY DEF Adds, Sends
<1>2. Queued(vm, f) => Queued(vm, f)'
  BY DEF Adds, Grows, Queued
<1>3. QED BY <1>1, <1>2 DEF Served, Adds

LEMMA AddNoneNewer ==
  ASSUME Adds, NEW f, NEW c
  PROVE  /\ NoneNewer(f, c)' <=> NoneNewer(f, c)
         /\ \A vm : Sends(vm, f)' <=> Sends(vm, f)
BY DEF Adds, NoneNewer, Sends

LEMMA AddTypes ==
  ASSUME PushTypes, VmTypes, WaitInv, Adds
  PROVE  PushTypes' /\ VmTypes' /\ WaitInv'
BY DEF PushTypes, VmTypes, WaitInv, Adds, Grows

-----------------------------------------------------------------------------
(* Workers, the consumer and registrations.                                *)

PushInv == PushTypes /\ VmTypes /\ WaitInv

LEMMA WorkInv ==
  ASSUME PushInv, NEW v \in Vm, Work(v)
  PROVE  PushInv'
<1> DEFINE h == Head(q[v])
           n == Len(updates)
           u == <<v, h>>
<1>0. PushTypes /\ VmTypes /\ WaitInv
  BY DEF PushInv
<1>1. q[v] \in Seq(File) /\ q[v] # <<>> /\ h \in File /\ Tail(q[v]) \in Seq(File)
  BY <1>0, HeadOrTail DEF PushTypes, Work
<1>2. /\ ~waits[v] /\ updates' = Append(updates, u) /\ waits' = [waits EXCEPT ![v] = TRUE]
      /\ q' = [q EXCEPT ![v] = Tail(q[v])] /\ UNCHANGED <<sending, vmVars, owed>>
  BY DEF Work
<1> HIDE DEF h
<1>3. u \in Vm \X File
  BY <1>1
<1>4. u[1] = v
  OBVIOUS
<1> HIDE DEF u
<1>5. /\ n \in Nat /\ updates \in Seq(Vm \X File) /\ updates' \in Seq(Vm \X File)
      /\ Len(updates') = n + 1
      /\ updates'[n + 1] = u /\ \A i \in 1 .. n : updates'[i] = updates[i]
  BY <1>0, <1>2, <1>3, SMT DEF PushTypes
<1> HIDE DEF n
<1>6. PushTypes'
  BY <1>0, <1>1, <1>2, <1>5 DEF PushTypes
<1>7. VmTypes'
  BY <1>0, <1>2 DEF VmTypes, vmVars
<1>8. WaitInv'
  <2>1. /\ \A i \in 1 .. n : updates[i][1] # v
        /\ sending # <<>> => sending[1] # v
    BY <1>0, <1>2 DEF WaitInv, n
  <2>2. \A i \in 1 .. n + 1 : i = n + 1 \/ i \in 1 .. n
    BY <1>5, SMT
  <2>3. n + 1 \in 1 .. n + 1 /\ \A i \in 1 .. n : i \in 1 .. n + 1
    BY <1>5, SMT
  <2>4. \A i, j \in 1 .. n + 1 : updates'[i][1] = updates'[j][1] => i = j
    <3>1. \A i, j \in 1 .. n : updates[i][1] = updates[j][1] => i = j
      BY <1>0 DEF WaitInv, n
    <3>2. SUFFICES ASSUME NEW i \in 1 .. n + 1, NEW j \in 1 .. n + 1,
                          updates'[i][1] = updates'[j][1]
                   PROVE  i = j
      OBVIOUS
    <3>3. (i = n + 1 \/ i \in 1 .. n) /\ (j = n + 1 \/ j \in 1 .. n)
      BY <2>2
    <3>4. \A k \in 1 .. n : updates'[k][1] # v /\ updates'[k] = updates[k]
      BY <1>5, <2>1
    <3>5. QED BY <1>4, <1>5, <3>1, <3>2, <3>3, <3>4
  <2>5. sending # <<>> => \A i \in 1 .. n + 1 : updates'[i][1] # sending[1]
    BY <1>0, <1>4, <1>5, <2>1, <2>2 DEF WaitInv, n
  <2>6. \A w \in Vm : (\E i \in 1 .. n + 1 : updates'[i][1] = w) <=>
                      (w = v \/ \E i \in 1 .. n : updates[i][1] = w)
    BY <1>4, <1>5, <2>2, <2>3
  <2>7. \A w \in Vm : waits'[w] <=> (w = v \/ waits[w])
    BY <1>0, <1>2 DEF PushTypes
  <2>8. \A w \in Vm : waits[w] <=> \/ \E i \in 1 .. n : updates[i][1] = w
                                   \/ sending # <<>> /\ sending[1] = w
    BY <1>0 DEF WaitInv, n
  <2>9. \A w \in Vm : waits'[w] <=> \/ \E i \in 1 .. n + 1 : updates'[i][1] = w
                                    \/ sending # <<>> /\ sending[1] = w
    BY <2>6, <2>7, <2>8, Zenon
  <2>10. QED BY <1>2, <1>5, <2>4, <2>5, <2>9, SMT DEF WaitInv
<1>9. QED BY <1>6, <1>7, <1>8 DEF PushInv

\* The consumer takes the first update.
LEMMA TakeUpdate ==
  ASSUME PushInv, updates # <<>>, updates' = Tail(updates), sending = <<>>
  PROVE  LET u == Head(updates)
         IN  /\ u \in Vm \X File /\ u[1] \in Vm /\ u[2] \in File /\ u \in Range(updates)
             /\ u = <<u[1], u[2]>>
             /\ updates' \in Seq(Vm \X File) /\ waits[u[1]]
             /\ Range(updates) = Range(updates') \cup {u}
             /\ \A i, j \in 1 .. Len(updates') : updates'[i][1] = updates'[j][1] => i = j
             /\ \A i \in 1 .. Len(updates') : updates'[i][1] # u[1]
             /\ \A w \in Vm : w # u[1] =>
                  (waits[w] <=> \E i \in 1 .. Len(updates') : updates'[i][1] = w)
<1> DEFINE u == Head(updates)
           n == Len(updates)
           t == Tail(updates)
<1>0. updates \in Seq(Vm \X File) /\ WaitInv
  BY DEF PushInv, PushTypes
<1>1. /\ u \in Vm \X File /\ u \in Range(updates) /\ t \in Seq(Vm \X File)
      /\ Range(updates) = Range(t) \cup {u} /\ n \in Nat /\ Len(t) = n - 1
      /\ u = updates[1] /\ \A i \in 1 .. Len(t) : t[i] = updates[i + 1]
  BY <1>0, HeadOrTail
<1>2. n >= 1
  BY <1>0, SMT
<1> HIDE DEF u, n, t
<1>3. u[1] \in Vm /\ u[2] \in File /\ u = <<u[1], u[2]>>
  BY <1>1, SMT
<1>4. \A i \in 1 .. Len(t) : i + 1 \in 1 .. n /\ i + 1 # 1
  BY <1>1, <1>2, SMT
<1>5. 1 \in 1 .. n /\ \A i \in 1 .. n : i = 1 \/ (i - 1 \in 1 .. Len(t) /\ (i - 1) + 1 = i)
  BY <1>1, <1>2, SMT
<1>6. \A i, j \in 1 .. n : updates[i][1] = updates[j][1] => i = j
  BY <1>0 DEF WaitInv, n
<1>7. \A w \in Vm : waits[w] <=> \E i \in 1 .. n : updates[i][1] = w
  BY <1>0 DEF WaitInv, n
<1>8. \A i, j \in 1 .. Len(t) : t[i][1] = t[j][1] => i = j
  <2>1. SUFFICES ASSUME NEW i \in 1 .. Len(t), NEW j \in 1 .. Len(t), t[i][1] = t[j][1]
                 PROVE  i = j
    OBVIOUS
  <2>2. /\ i + 1 \in 1 .. n /\ j + 1 \in 1 .. n
        /\ t[i] = updates[i + 1] /\ t[j] = updates[j + 1]
    BY <1>1, <1>4
  <2>3. i + 1 = j + 1
    BY <1>6, <2>1, <2>2
  <2>4. QED BY <2>3, SMT
<1>9. \A i \in 1 .. Len(t) : t[i][1] # u[1]
  BY <1>1, <1>4, <1>5, <1>6
<1>10. waits[u[1]]
  BY <1>1, <1>3, <1>5, <1>7
<1>11. ASSUME NEW w \in Vm, w # u[1]
       PROVE  waits[w] <=> \E i \in 1 .. Len(t) : t[i][1] = w
  <2>1. ASSUME NEW i \in 1 .. n, updates[i][1] = w PROVE \E j \in 1 .. Len(t) : t[j][1] = w
    <3>1. i - 1 \in 1 .. Len(t) /\ (i - 1) + 1 = i
      BY <1>1, <1>5, <1>11, <2>1
    <3>2. t[i - 1][1] = w
      BY <1>1, <2>1, <3>1
    <3>3. QED BY <3>1, <3>2
  <2>2. ASSUME NEW j \in 1 .. Len(t), t[j][1] = w PROVE \E i \in 1 .. n : updates[i][1] = w
    BY <1>1, <1>4, <2>2
  <2>3. QED BY <1>7, <2>1, <2>2
<1>12. updates' = t
  BY DEF t
<1>13. /\ u \in Vm \X File /\ u[1] \in Vm /\ u[2] \in File /\ u \in Range(updates)
       /\ u = <<u[1], u[2]>> /\ t \in Seq(Vm \X File) /\ waits[u[1]]
       /\ Range(updates) = Range(t) \cup {u}
  BY <1>1, <1>3, <1>10
<1>14. QED BY <1>8, <1>9, <1>11, <1>12, <1>13, ZenonT(30) DEF u

LEMMA CopyInv ==
  ASSUME PushInv, work \in [File -> Content], Copy
  PROVE  PushInv'
<1> DEFINE u == Head(updates)
           c == work[u[2]]
<1>0. PushTypes /\ VmTypes
  BY DEF PushInv
<1>1. /\ sending = <<>> /\ updates # <<>> /\ updates' = Tail(updates)
      /\ sending' = <<u[1], u[2], c>> /\ UNCHANGED <<q, waits, vmVars, owed>>
  BY DEF Copy
<1>2. /\ u[1] \in Vm /\ u[2] \in File /\ updates' \in Seq(Vm \X File) /\ waits[u[1]]
      /\ \A i, j \in 1 .. Len(updates') : updates'[i][1] = updates'[j][1] => i = j
      /\ \A i \in 1 .. Len(updates') : updates'[i][1] # u[1]
      /\ \A w \in Vm : w # u[1] =>
           (waits[w] <=> \E i \in 1 .. Len(updates') : updates'[i][1] = w)
  BY <1>1, TakeUpdate
<1> HIDE DEF u
<1>3. c \in Content
  BY <1>2
<1> HIDE DEF c
<1>4. sending' # <<>> /\ sending' \in Vm \X File \X Content /\ sending'[1] = u[1]
  BY <1>1, <1>2, <1>3
<1>5. PushTypes'
  BY <1>0, <1>1, <1>2, <1>4 DEF PushTypes
<1>6. VmTypes'
  BY <1>0, <1>1 DEF VmTypes, vmVars
<1>7. WaitInv'
  BY <1>1, <1>2, <1>4 DEF WaitInv
<1>8. QED BY <1>5, <1>6, <1>7 DEF PushInv

LEMMA CopyFailsInv ==
  ASSUME PushInv, CopyFails
  PROVE  PushInv'
<1> DEFINE u == Head(updates)
<1>0. PushTypes /\ VmTypes
  BY DEF PushInv
<1>1. /\ sending = <<>> /\ updates # <<>> /\ updates' = Tail(updates)
      /\ waits' = [waits EXCEPT ![u[1]] = FALSE] /\ UNCHANGED <<q, sending, vmVars, owed>>
  BY DEF CopyFails
<1>2. /\ u[1] \in Vm /\ updates' \in Seq(Vm \X File)
      /\ \A i, j \in 1 .. Len(updates') : updates'[i][1] = updates'[j][1] => i = j
      /\ \A i \in 1 .. Len(updates') : updates'[i][1] # u[1]
      /\ \A w \in Vm : w # u[1] =>
           (waits[w] <=> \E i \in 1 .. Len(updates') : updates'[i][1] = w)
  BY <1>1, TakeUpdate
<1> HIDE DEF u
<1>3. PushTypes'
  BY <1>0, <1>1, <1>2 DEF PushTypes
<1>4. VmTypes'
  BY <1>0, <1>1 DEF VmTypes, vmVars
<1>5. \A w \in Vm : waits'[w] <=> (w # u[1] /\ waits[w])
  BY <1>0, <1>1 DEF PushTypes
<1>6. \A w \in Vm : waits'[w] <=> \E i \in 1 .. Len(updates') : updates'[i][1] = w
  BY <1>2, <1>5, Zenon
<1>7. WaitInv'
  BY <1>1, <1>2, <1>6 DEF WaitInv
<1>8. QED BY <1>3, <1>4, <1>7 DEF PushInv

\* The answer of an upload.
LEMMA AnswerInv ==
  ASSUME PushInv, sending # <<>>, sending' = <<>>, UNCHANGED <<q, updates>>,
         waits' = [waits EXCEPT ![sending[1]] = FALSE]
  PROVE  PushTypes' /\ WaitInv'
<1> DEFINE v == sending[1]
<1>0. PushTypes /\ WaitInv
  BY DEF PushInv
<1>1. v \in Vm
  BY <1>0 DEF PushTypes
<1> HIDE DEF v
<1>2. PushTypes'
  BY <1>0 DEF PushTypes
<1>3. \A w \in Vm : waits'[w] <=> (w # v /\ waits[w])
  BY <1>0 DEF PushTypes, v
<1>4. \A i \in 1 .. Len(updates) : updates[i][1] # v
  BY <1>0 DEF WaitInv, v
<1>5. \A w \in Vm : waits[w] <=> \/ \E i \in 1 .. Len(updates) : updates[i][1] = w
                                 \/ v = w
  BY <1>0 DEF WaitInv, v
<1>6. \A w \in Vm : waits'[w] <=> \E i \in 1 .. Len(updates) : updates[i][1] = w
  BY <1>3, <1>4, <1>5, Zenon
<1>7. WaitInv'
  BY <1>0, <1>6 DEF WaitInv
<1>8. QED BY <1>2, <1>7

\* What arrives at a VM.
Arrived(v, f, x) ==
  /\ have'[v][f] = x
  /\ \A w \in Vm, g \in File : w # v \/ g # f =>
       have'[w][g] = have[w][g] /\ (<<w, g>> \in owed' <=> <<w, g>> \in owed)
  /\ x = Torn => <<v, f>> \in owed'
  /\ x # Torn /\ x # work[f] => (<<v, f>> \in owed' <=> <<v, f>> \in owed)

LEMMA ArrivesTypes ==
  ASSUME VmTypes, NEW v \in Vm, NEW f \in File, NEW x \in Content, Arrives(v, f, x)
  PROVE  /\ have' \in [Vm -> [File -> Content]] /\ owed' \subseteq Vm \X File
         /\ Arrived(v, f, x)
<1>1. have' = [have EXCEPT ![v][f] = x] /\ have \in [Vm -> [File -> Content]]
  BY DEF Arrives, VmTypes
<1>2. /\ have' \in [Vm -> [File -> Content]]
      /\ \A w \in Vm, g \in File : have'[w][g] = IF w = v /\ g = f THEN x ELSE have[w][g]
  BY <1>1
<1>3. /\ owed \subseteq Vm \X File
      /\ owed' = IF x = Torn THEN owed \cup {<<v, f>>}
                 ELSE IF x = work[f] THEN owed \ {<<v, f>>} ELSE owed
  BY DEF Arrives, VmTypes
<1>4. Arrived(v, f, x)
  <2>1. \A w, g : w # v \/ g # f => <<w, g>> # <<v, f>>
    OBVIOUS
  <2>2. \A w \in Vm, g \in File : w # v \/ g # f => (<<w, g>> \in owed' <=> <<w, g>> \in owed)
    BY <1>3, <2>1
  <2>3. \A w \in Vm, g \in File : w # v \/ g # f => have'[w][g] = have[w][g]
    BY <1>2
  <2>4. QED BY <1>2, <1>3, <2>2, <2>3 DEF Arrived
<1>5. QED BY <1>2, <1>3, <1>4, SMT

LEMMA UploadInv ==
  ASSUME PushInv, Upload \/ UploadFails
  PROVE  PushInv'
<1>0. PushTypes /\ VmTypes /\ sending # <<>> /\ sending \in Vm \X File \X Content
  BY DEF PushInv, PushTypes, Upload, UploadFails
<1>1. PushTypes' /\ WaitInv'
  BY <1>0, AnswerInv DEF Upload, UploadFails
<1>2. sending[1] \in Vm /\ sending[2] \in File /\ sending[3] \in Content
  BY <1>0
<1>3. CASE Upload
  <2>1. Arrives(sending[1], sending[2], sending[3]) /\ UNCHANGED <<reg, hello>>
    BY <1>3 DEF Upload
  <2>2. have' \in [Vm -> [File -> Content]] /\ owed' \subseteq Vm \X File
    BY <1>0, <1>2, <2>1, ArrivesTypes
  <2>3. QED BY <1>0, <1>1, <2>1, <2>2 DEF PushInv, VmTypes
<1>4. CASE UploadFails
  <2>1. VmTypes'
    BY <1>0, <1>2, <1>4, SMT DEF UploadFails, VmTypes, vmVars
  <2>2. QED BY <1>1, <2>1 DEF PushInv
<1>5. QED BY <1>3, <1>4

LEMMA RegisterInv ==
  ASSUME PushInv, NEW v \in Vm, Register(v) \/ Welcome(v) \/ WelcomeFails(v)
  PROVE  PushInv'
<1>0. PushTypes /\ VmTypes /\ WaitInv
  BY DEF PushInv
<1>1. UNCHANGED <<waits, updates, sending, have>>
  BY DEF Register, Welcome, WelcomeFails, pushVars
<1>2. q' \in [Vm -> Seq(File)]
  BY <1>0, SendAll DEF Register, Welcome, WelcomeFails, pushVars, PushTypes, Grows
<1>3. PushTypes' /\ WaitInv'
  BY <1>0, <1>1, <1>2 DEF PushTypes, WaitInv
<1>4. VmTypes'
  BY <1>0, <1>1 DEF Register, Welcome, WelcomeFails, VmTypes, pushVars
<1>5. QED BY <1>3, <1>4 DEF PushInv

PushStep ==
  Push \/ \E v \in Vm : Register(v) \/ Welcome(v) \/ WelcomeFails(v)

LEMMA PushKeepsTypes ==
  ASSUME PushInv, work \in [File -> Content], PushStep
  PROVE  PushInv' /\ UNCHANGED <<log, repoVars>> /\ (faults' = faults \/ Fault)
<1>1. PushInv'
  BY WorkInv, CopyInv, CopyFailsInv, UploadInv, RegisterInv DEF PushStep, Push
<1>2. UNCHANGED <<log, repoVars>> /\ (faults' = faults \/ Fault)
  BY DEF PushStep, Push, Work, Copy, CopyFails, Upload, UploadFails, Register, Welcome,
         WelcomeFails
<1>3. QED BY <1>1, <1>2

(* What a VM was served, or is new to, it stays served with, as long as    *)
(* the store has nothing but that content or half of it.                   *)
LEMMA PushServes ==
  ASSUME PushInv, work \in [File -> Content], PushStep,
         NEW vm \in reg', NEW f \in File, vm \in Vms[f],
         NEW c, c # Absent, work[f] \in {c, Torn}, vm \in reg => Served(vm, f, c)
  PROVE  Served(vm, f, c)'
<1>0. PushTypes /\ VmTypes /\ work[f] # Absent
  BY SMT DEF PushInv, Torn, Absent
<1>1. ASSUME NEW v \in Vm, Work(v) PROVE Served(vm, f, c)'
  <2>1. vm \in reg /\ UNCHANGED <<hello, have, sending, owed>>
    BY <1>1 DEF Work, vmVars
  <2>2. vm \in Vm
    BY <1>0, <2>1 DEF VmTypes
  <2>3. /\ q[v] \in Seq(File) /\ q[v] # <<>> /\ updates \in Seq(Vm \X File)
        /\ updates' = Append(updates, <<v, Head(q[v])>>) /\ q' = [q EXCEPT ![v] = Tail(q[v])]
    BY <1>0, <1>1 DEF Work, PushTypes
  <2>4. Head(q[v]) \in File /\ Range(q[v]) = Range(Tail(q[v])) \cup {Head(q[v])}
    BY <2>3, HeadOrTail
  <2>5. Range(updates') = Range(updates) \cup {<<v, Head(q[v])>>}
    <3>1. <<v, Head(q[v])>> \in Vm \X File
      BY <2>4
    <3>2. QED BY <2>3, <3>1, SeqSets, SMTT(60)
  <2>6. Queued(vm, f) => Queued(vm, f)'
    <3>1. CASE vm = v
      <4>1. Range(q'[vm]) = Range(Tail(q[v]))
        BY <1>0, <2>3, <3>1 DEF PushTypes
      <4>2. QED BY <2>1, <2>4, <2>5, <3>1, <4>1 DEF Queued
    <3>2. CASE vm # v
      <4>1. q'[vm] = q[vm]
        BY <1>0, <2>2, <2>3, <3>2 DEF PushTypes
      <4>2. QED BY <2>1, <2>5, <4>1 DEF Queued
    <3>3. QED BY <3>1, <3>2
  <2>7. Sends(vm, f)' <=> Sends(vm, f)
    BY <2>1 DEF Sends
  <2>8. QED BY <2>1, <2>6, <2>7 DEF Served
<1>2. ASSUME Copy \/ CopyFails PROVE Served(vm, f, c)'
  <2> DEFINE u == Head(updates)
  <2>1. /\ sending = <<>> /\ updates # <<>> /\ updates' = Tail(updates) /\ vm \in reg
        /\ UNCHANGED <<q, hello, have, owed, reg>>
    BY <1>2 DEF Copy, CopyFails, vmVars
  <2>2. /\ u[1] \in Vm /\ u[2] \in File /\ u = <<u[1], u[2]>>
        /\ Range(updates) = Range(updates') \cup {u}
    BY <2>1, TakeUpdate
  <2>3. /\ Copy => sending' = <<u[1], u[2], work[u[2]]>>
        /\ CopyFails => sending' = <<>> /\ (u[1] \notin reg \/ work[u[2]] = Absent)
    BY <2>1 DEF Copy, CopyFails
  <2> HIDE DEF u
  <2>4. CASE u = <<vm, f>>
    <3>1. Copy /\ u[1] = vm /\ u[2] = f
      BY <1>0, <1>2, <2>1, <2>2, <2>3, <2>4
    <3>2. sending' = <<vm, f, work[f]>>
      BY <2>3, <3>1
    <3>3. Sends(vm, f)' /\ sending'[3] \in {c, Torn}
      BY <3>2 DEF Sends
    <3>4. QED BY <3>3 DEF Served
  <2>5. CASE u # <<vm, f>>
    <3>1. Queued(vm, f) => Queued(vm, f)'
      BY <2>1, <2>2, <2>5 DEF Queued
    <3>2. ~Sends(vm, f) /\ ~Sends(vm, f)'
      BY <1>2, <2>1, <2>2, <2>3, <2>5, SMT DEF Sends
    <3>3. QED BY <2>1, <3>1, <3>2 DEF Served
  <2>6. QED BY <2>4, <2>5
<1>3. ASSUME Upload PROVE Served(vm, f, c)'
  <2>1. /\ sending # <<>> /\ sending \in Vm \X File \X Content /\ vm \in reg
        /\ sending' = <<>> /\ UNCHANGED <<q, hello, updates>>
        /\ Arrives(sending[1], sending[2], sending[3])
    BY <1>0, <1>3 DEF Upload, PushTypes
  <2>2. Queued(vm, f) => Queued(vm, f)'
    BY <2>1 DEF Queued
  <2>3. ~Sends(vm, f)' /\ vm \in Vm
    BY <1>0, <2>1 DEF Sends, VmTypes
  <2> DEFINE v == sending[1]
             g == sending[2]
             x == sending[3]
  <2>4. v \in Vm /\ g \in File /\ x \in Content /\ Arrives(v, g, x)
    BY <2>1
  <2>5. Sends(vm, f) <=> vm = v /\ f = g
    BY <2>1 DEF Sends
  <2> HIDE DEF v, g, x
  <2>9. Arrived(v, g, x)
    BY <1>0, <2>4, ArrivesTypes
  <2>6. CASE vm = v /\ f = g
    <3>1. /\ have'[vm][f] = x
          /\ x = Torn => <<vm, f>> \in owed'
          /\ x # Torn /\ x # work[f] => (<<vm, f>> \in owed' <=> <<vm, f>> \in owed)
      BY <2>6, <2>9 DEF Arrived
    <3>2. Queued(vm, f) \/ <<vm, f>> \in owed \/ x \in {c, Torn}
      BY <2>1, <2>5, <2>6 DEF Served, x
    <3>3. Queued(vm, f)' \/ <<vm, f>> \in owed' \/ have'[vm][f] = c
      BY <2>2, <3>1, <3>2
    <3>4. QED BY <2>3, <3>3 DEF Served
  <2>7. CASE ~(vm = v /\ f = g)
    <3>1. have'[vm][f] = have[vm][f] /\ (<<vm, f>> \in owed' <=> <<vm, f>> \in owed)
      BY <2>3, <2>7, <2>9 DEF Arrived
    <3>2. QED BY <2>1, <2>2, <2>3, <2>5, <2>7, <3>1 DEF Served
  <2>8. QED BY <2>6, <2>7
<1>4. ASSUME UploadFails PROVE Served(vm, f, c)'
  <2>1. /\ sending # <<>> /\ sending' = <<>> /\ UNCHANGED <<q, hello, updates, have>>
        /\ vm \in reg /\ owed' = owed \cup {<<sending[1], sending[2]>>}
    BY <1>4 DEF UploadFails, vmVars
  <2>2. Queued(vm, f) => Queued(vm, f)'
    BY <2>1 DEF Queued
  <2>3. ~Sends(vm, f)' /\ (Sends(vm, f) => <<vm, f>> \in owed')
    BY <2>1 DEF Sends
  <2>4. QED BY <2>1, <2>2, <2>3 DEF Served
<1>5. ASSUME NEW v \in Vm, Register(v) PROVE Served(vm, f, c)'
  <2>1. /\ UNCHANGED <<q, updates, sending, have, owed>> /\ hello' = hello \cup {v}
        /\ vm \in reg \/ vm = v
    BY <1>5 DEF Register, pushVars
  <2>2. (Sends(vm, f)' <=> Sends(vm, f)) /\ (Queued(vm, f) => Queued(vm, f)')
    BY <2>1 DEF Sends, Queued
  <2>3. vm = v => Queued(vm, f)'
    BY <2>1 DEF Queued
  <2>4. QED BY <2>1, <2>2, <2>3 DEF Served
<1>6. ASSUME NEW v \in Vm, Welcome(v) PROVE Served(vm, f, c)'
  <2>1. /\ UNCHANGED <<updates, sending, have, owed>> /\ hello' = hello \ {v} /\ vm \in reg
        /\ send_all_policies({v})
    BY <1>6 DEF Welcome
  <2>2. vm \in Vm
    BY <1>0, <2>1 DEF VmTypes
  <2>3. /\ Range(q[vm]) \subseteq Range(q'[vm])
        /\ vm = v => f \in Range(q'[vm])
    BY <1>0, <2>1, <2>2, SendAll DEF Grows
  <2>4. (Sends(vm, f)' <=> Sends(vm, f)) /\ (Queued(vm, f) => Queued(vm, f)')
    BY <2>1, <2>3 DEF Sends, Queued
  <2>5. QED BY <2>1, <2>4 DEF Served
<1>7. ASSUME NEW v \in Vm, WelcomeFails(v) PROVE Served(vm, f, c)'
  <2>1. /\ UNCHANGED <<q, updates, sending, have>> /\ hello' = hello \ {v} /\ vm \in reg
        /\ owed' = owed \cup {d \in Vm \X File : d[1] = v /\ v \in Vms[d[2]]}
    BY <1>7 DEF WelcomeFails, pushVars
  <2>2. vm = v => <<vm, f>> \in owed'
    BY <2>1
  <2>3. /\ Sends(vm, f)' <=> Sends(vm, f)
        /\ vm # v /\ Queued(vm, f) => Queued(vm, f)'
    BY <2>1 DEF Sends, Queued
  <2>4. QED BY <2>1, <2>2, <2>3 DEF Served
<1>8. QED BY <1>1, <1>2, <1>3, <1>4, <1>5, <1>6, <1>7 DEF PushStep, Push

-----------------------------------------------------------------------------
(* Nothing goes back.                                                      *)

Forward ==
  \A vm \in Vm, f \in File : have'[vm][f] # Torn => have'[vm][f] >= have[vm][f]

Keeps == UNCHANGED have /\ (sending' = sending \/ sending' = <<>>)

Copies ==
  \E v \in Vm, g \in File :
    /\ UNCHANGED have /\ sending = <<>> /\ sending' = <<v, g, work[g]>> /\ work[g] # Absent

Ends ==
  /\ sending # <<>> /\ sending' = <<>>
  /\ Arrived(sending[1], sending[2], sending[3])

LEMMA PushEffect ==
  ASSUME PushInv, PushStep
  PROVE  Keeps \/ Copies \/ Ends
<1>0. PushTypes /\ VmTypes
  BY DEF PushInv
<1>1. CASE Copy
  <2> DEFINE u == Head(updates)
  <2>1. /\ sending = <<>> /\ updates # <<>> /\ updates' = Tail(updates)
        /\ sending' = <<u[1], u[2], work[u[2]]>> /\ work[u[2]] # Absent /\ UNCHANGED have
    BY <1>1 DEF Copy, vmVars
  <2>2. u[1] \in Vm /\ u[2] \in File
    BY <2>1, TakeUpdate
  <2>3. QED BY <2>1, <2>2 DEF Copies
<1>2. CASE Upload
  <2>1. sending # <<>> /\ sending \in Vm \X File \X Content
    BY <1>0, <1>2 DEF Upload, PushTypes
  <2>2. sending[1] \in Vm /\ sending[2] \in File /\ sending[3] \in Content
    BY <2>1
  <2>3. Arrived(sending[1], sending[2], sending[3])
    BY <1>0, <1>2, <2>2, ArrivesTypes DEF Upload
  <2>4. QED BY <1>2, <2>1, <2>3 DEF Ends, Upload
<1>3. CASE CopyFails \/ UploadFails \/ \E v \in Vm : Work(v) \/ Register(v) \/ Welcome(v) \/ WelcomeFails(v)
  BY <1>3 DEF CopyFails, UploadFails, Work, Register, Welcome, WelcomeFails, Keeps, vmVars, pushVars
<1>4. QED BY <1>1, <1>2, <1>3 DEF PushStep, Push

\* What is newer than all that was sent stays so while no more than that is copied.
LEMMA EffectNoneNewer ==
  ASSUME PushTypes, VmTypes, Keeps \/ Copies \/ Ends,
         NEW f \in File, NEW c \in Int, NoneNewer(f, c), work[f] <= c
  PROVE  NoneNewer(f, c)'
<1>1. SUFFICES ASSUME NEW vm \in Vm
               PROVE  have'[vm][f] <= c /\ (Sends(vm, f)' => sending'[3] <= c)
  BY DEF NoneNewer
<1>2. have[vm][f] <= c /\ (Sends(vm, f) => sending[3] <= c)
  BY DEF NoneNewer
<1>3. CASE Keeps
  BY <1>2, <1>3 DEF Keeps, Sends
<1>4. CASE Copies
  BY <1>2, <1>4, SMT DEF Copies, Sends
<1>5. CASE Ends
  <2>1. ~Sends(vm, f)'
    BY <1>5 DEF Ends, Sends
  <2>2. CASE Sends(vm, f)
    BY <1>2, <1>5, <2>1, <2>2 DEF Ends, Sends, Arrived
  <2>3. CASE ~Sends(vm, f)
    BY <1>2, <1>5, <2>1, <2>3 DEF Ends, Sends, Arrived
  <2>4. QED BY <2>2, <2>3
<1>6. QED BY <1>3, <1>4, <1>5

LEMMA EffectForward ==
  ASSUME PushTypes, VmTypes, work \in [File -> Content], Keeps \/ Copies \/ Ends,
         \A f \in File : InOrder(f) /\ (work[f] > 0 => NoneNewer(f, work[f]))
  PROVE  Forward /\ \A f \in File : InOrder(f)'
<1>0. have \in [Vm -> [File -> Content]] /\ Content \subseteq Int /\ MaxCommits \in Nat
  BY DistributionAssumption, SMT DEF VmTypes, Content, Torn
<1>1. have' = have => Forward
  <2>1. \A vm \in Vm, f \in File : have[vm][f] \in Int
    BY <1>0
  <2>2. \A i \in Int : i >= i
    BY SMT
  <2>3. QED BY <2>1, <2>2 DEF Forward
<1>2. CASE Keeps
  <2>1. Forward
    BY <1>2, <1>1 DEF Keeps
  <2>2. \A f \in File : InOrder(f)'
    BY <1>2 DEF Keeps, InOrder, Sends
  <2>3. QED BY <2>1, <2>2
<1>3. CASE Copies
  <2>1. Forward
    BY <1>3, <1>1 DEF Copies
  <2>2. ASSUME NEW f \in File, NEW vm \in Vm, Sends(vm, f)'
        PROVE  sending'[3] \in {Torn} \cup {c \in 1 .. MaxCommits : have'[vm][f] <= c}
    <3>1. sending'[3] = work[f] /\ work[f] # Absent /\ have' = have
      BY <1>3, <2>2, SMT DEF Copies, Sends
    <3>2. CASE work[f] = Torn
      BY <3>1, <3>2
    <3>3. CASE work[f] # Torn
      <4>1. work[f] \in 1 .. MaxCommits /\ work[f] > 0
        BY <1>0, <3>1, <3>3, SMT DEF Content, Torn, Absent
      <4>2. have[vm][f] <= work[f]
        BY <4>1 DEF NoneNewer
      <4>3. QED BY <3>1, <4>1, <4>2
    <3>4. QED BY <3>2, <3>3
  <2>3. QED BY <2>1, <2>2 DEF InOrder
<1>4. CASE Ends
  <2>1. \A f \in File : InOrder(f)'
    BY <1>4 DEF Ends, InOrder, Sends
  <2>2. ASSUME NEW vm \in Vm, NEW f \in File, have'[vm][f] # Torn
        PROVE  have'[vm][f] >= have[vm][f]
    <3>1. have[vm][f] \in Int
      BY <1>0
    <3>2. CASE Sends(vm, f)
      <4>1. have'[vm][f] = sending[3]
        BY <1>4, <3>2 DEF Ends, Sends, Arrived
      <4>2. sending[3] \in {c \in 1 .. MaxCommits : have[vm][f] <= c}
        BY <2>2, <3>2, <4>1 DEF InOrder
      <4>3. QED BY <1>0, <3>1, <4>1, <4>2
    <3>3. CASE ~Sends(vm, f)
      <4>1. have'[vm][f] = have[vm][f]
        BY <1>4, <3>3 DEF Ends, Sends, Arrived
      <4>2. QED BY <3>1, <4>1, SMT
    <3>4. QED BY <3>2, <3>3
  <2>3. QED BY <2>1, <2>2 DEF Forward
<1>5. QED BY <1>2, <1>3, <1>4

-----------------------------------------------------------------------------
(* The invariant under the steps of workers, consumer and registrations.   *)

\* A file that is the same in two commits is the same in those between them.
LEMMA SteadyFile ==
  ASSUME LogInv, NEW f \in File, NEW m \in Commits, NEW n \in Commits, Between(f, m, n),
         log[m][f] = log[n][f]
  PROVE  work[f] \in {log[m][f], Torn}
<1>1. ASSUME NEW i \in m .. n PROVE log[i][f] = log[m][f]
  <2>1. m \in Int /\ n \in Int /\ Len(log) \in Nat /\ 1 <= m /\ n <= Len(log)
    BY DistributionAssumption, SMT DEF LogInv, Commits
  <2>2. i \in Commits /\ m <= i /\ i <= n
    BY <2>1, SMT DEF Commits
  <2>3. log[m][f] <= log[i][f] /\ log[i][f] <= log[n][f]
    BY <2>2, LogFacts
  <2>4. log[m][f] \in 1 .. Len(log) /\ log[i][f] \in 1 .. Len(log)
    BY <2>2, LogFacts
  <2>5. QED BY <2>1, <2>3, <2>4, SMT
<1>2. QED BY <1>1 DEF Between

\* While a commit is checked out, a file that does not differ is whole as it
\* was and will be, or torn.
LEMMA SameFile ==
  ASSUME LogInv, GitTypes, GitStore, mon = "checkout", NEW f \in File
  PROVE  /\ newHead \in Commits /\ fetched \in Commits /\ newHead <= fetched
         /\ f \notin Diff(newHead, fetched) =>
              /\ log[newHead][f] = log[fetched][f]
              /\ work[f] \in {log[newHead][f], Torn}
<1>1. /\ head # 0 /\ head <= newHead /\ newHead <= fetched /\ Between(f, newHead, fetched)
      /\ head \in 0 .. Len(log) /\ newHead \in 0 .. Len(log) /\ fetched \in 0 .. Len(log)
      /\ Len(log) \in Nat
  BY DistributionAssumption, SMT DEF GitStore, GitTypes, LogInv
<1>2. newHead \in Commits /\ fetched \in Commits /\ newHead <= fetched
  BY <1>1, SMT DEF Commits
<1>3. ASSUME f \notin Diff(newHead, fetched)
      PROVE  log[newHead][f] = log[fetched][f] /\ work[f] \in {log[newHead][f], Torn}
  <2>1. log[newHead][f] = log[fetched][f]
    BY <1>3 DEF Diff
  <2>2. QED BY <1>1, <1>2, <2>1, SteadyFile
<1>4. QED BY <1>2, <1>3

\* Outside a checkout too, the heads are commits once there is a clone.
LEMMA HeadsFacts ==
  ASSUME LogInv, GitTypes, GitStore, source = "git", head # 0
  PROVE  newHead \in Commits /\ head \in Commits /\ head <= newHead
<1>1. /\ head <= newHead /\ head \in 0 .. Len(log) /\ newHead \in 0 .. Len(log)
      /\ Len(log) \in Nat
  BY DistributionAssumption, SMT DEF GitStore, GitTypes, LogInv
<1>2. QED BY <1>1, SMT DEF Commits

LEMMA PushNext ==
  ASSUME Inv, PushStep
  PROVE  Inv' /\ Forward
<1>0. /\ Types /\ LogInv /\ GitTypes /\ UrlTypes /\ PushTypes /\ VmTypes /\ faults \in 0 .. MaxFaults
      /\ WaitInv /\ GitStore /\ UrlStore /\ VersionInv /\ GitSends /\ UrlSends
      /\ work \in [File -> Content]
  BY DEF Inv, Types, GitTypes
<1>1. PushInv' /\ UNCHANGED <<log, repoVars>> /\ (faults' = faults \/ Fault)
  BY <1>0, PushKeepsTypes DEF PushInv
<1>2. UNCHANGED <<log, work, head, oldHead, newHead, mon, todo, fetched, tries, source, task,
                  cur, mem, saved, torn>>
  BY <1>1 DEF repoVars, gitVars, urlVars
<1>3. Types'
  <2>1. LogInv' /\ GitTypes' /\ UrlTypes'
    BY <1>0, <1>2 DEF LogInv, Commits, GitTypes, UrlTypes
  <2>2. faults' \in 0 .. MaxFaults
    BY <1>0, <1>1, DistributionAssumption, SMT DEF Fault
  <2>3. QED BY <1>1, <2>1, <2>2 DEF Types, PushInv
<1>4. GitStore' /\ UrlStore'
  BY <1>0, <1>2 DEF GitStore, UrlStore, UrlFile, Between, Remote
<1>5. Keeps \/ Copies \/ Ends
  BY <1>0, PushEffect DEF PushInv
<1>6. Forward /\ \A f \in File : InOrder(f)'
  <2>1. \A f \in File : InOrder(f) /\ (work[f] > 0 => NoneNewer(f, work[f]))
    BY <1>0 DEF VersionInv
  <2>2. QED BY <1>0, <1>5, <2>1, EffectForward
<1>7. VersionInv'
  <2>1. ASSUME NEW f \in File, NEW c \in Int, NoneNewer(f, c), work[f] <= c PROVE NoneNewer(f, c)'
    BY <1>0, <1>5, <2>1, EffectNoneNewer
  <2>2. SUFFICES ASSUME NEW f \in File
                 PROVE  /\ work[f] <= Remote(f) /\ NoneNewer(f, Remote(f))'
                        /\ work[f] > 0 => NoneNewer(f, work[f])'
                        /\ mon \in {"checkout", "replace", "rename"} =>
                             work[f] <= log[fetched][f] /\ NoneNewer(f, log[fetched][f])'
                        /\ mon \in {"off", "dead"} /\ task[f].at = "write" =>
                             work[f] <= task[f].body /\ NoneNewer(f, task[f].body)'
    BY <1>2, <1>6 DEF VersionInv, Remote
  <2>3. work[f] \in Int /\ work[f] <= work[f]
    BY <1>0, SMT DEF Content, Torn
  <2>4. work[f] <= Remote(f) /\ NoneNewer(f, Remote(f))'
    <3>1. PICK c : c = Remote(f)
      OBVIOUS
    <3>2. c \in Int /\ NoneNewer(f, c) /\ work[f] <= c
      BY <1>0, <3>1, LogFacts, SMT DEF VersionInv
    <3>3. NoneNewer(f, c)'
      BY <2>1, <3>2
    <3>4. QED BY <1>2, <3>1, <3>2, <3>3 DEF NoneNewer, Remote
  <2>5. ASSUME work[f] > 0 PROVE NoneNewer(f, work[f])'
    <3>1. PICK c : c = work[f]
      OBVIOUS
    <3>2. c \in Int /\ NoneNewer(f, c) /\ work[f] <= c
      BY <1>0, <2>3, <2>5, <3>1 DEF VersionInv
    <3>3. NoneNewer(f, c)'
      BY <2>1, <3>2
    <3>4. QED BY <1>2, <3>1, <3>3 DEF NoneNewer
  <2>6. ASSUME mon \in {"checkout", "replace", "rename"}
        PROVE  work[f] <= log[fetched][f] /\ NoneNewer(f, log[fetched][f])'
    <3>1. PICK c : c = log[fetched][f]
      OBVIOUS
    <3>2. fetched \in Commits
      BY <1>0, <2>6, DistributionAssumption, SMT DEF GitTypes, GitStore, Commits, LogInv
    <3>3. c \in Int /\ NoneNewer(f, c) /\ work[f] <= c
      BY <1>0, <2>6, <3>1, <3>2, LogFacts, SMT DEF VersionInv
    <3>4. NoneNewer(f, c)'
      BY <2>1, <3>3
    <3>5. QED BY <1>2, <3>1, <3>3, <3>4 DEF NoneNewer
  <2>7. ASSUME mon \in {"off", "dead"}, task[f].at = "write"
        PROVE  work[f] <= task[f].body /\ NoneNewer(f, task[f].body)'
    <3>1. PICK c : c = task[f].body
      OBVIOUS
    <3>2. c \in Int /\ NoneNewer(f, c) /\ work[f] <= c
      BY <1>0, <2>7, <3>1, SMT DEF VersionInv, UrlTypes
    <3>3. NoneNewer(f, c)'
      BY <2>1, <3>2
    <3>4. QED BY <1>2, <3>1, <3>2, <3>3 DEF NoneNewer
  <2>8. QED BY <2>4, <2>5, <2>6, <2>7
<1>8. ASSUME NEW vm \in reg', NEW f \in File, vm \in Vms[f], NEW c, c # Absent,
             work[f] \in {c, Torn}, vm \in reg => Served(vm, f, c)
      PROVE  Served(vm, f, c)'
  BY <1>0, <1>8, PushServes DEF PushInv
<1>9. GitSends'
  <2>1. SUFFICES ASSUME source = "git", NEW f \in File, NEW vm \in reg', vm \in Vms[f]
                 PROVE  /\ mon \in {"poll", "done"} /\ work[f] > 0 => Served(vm, f, work[f])'
                        /\ mon \in {"poll", "done"} /\ work[f] = Torn =>
                             Served(vm, f, log[newHead][f])'
                        /\ mon = "checkout" /\ f \notin Diff(newHead, fetched) =>
                             Served(vm, f, log[newHead][f])'
    BY <1>2 DEF GitSends, Diff
  <2>2. ASSUME mon \in {"poll", "done"}, work[f] > 0 PROVE Served(vm, f, work[f])'
    <3>1. PICK c : c = work[f]
      OBVIOUS
    <3>2. c # Absent /\ (vm \in reg => Served(vm, f, c))
      BY <1>0, <2>1, <2>2, <3>1, SMT DEF GitSends, Absent
    <3>3. Served(vm, f, c)'
      BY <1>8, <2>1, <3>1, <3>2
    <3>4. QED BY <1>2, <3>1, <3>3 DEF Served
  <2>3. ASSUME mon \in {"poll", "done"}, work[f] = Torn PROVE Served(vm, f, log[newHead][f])'
    <3>1. PICK c : c = log[newHead][f]
      OBVIOUS
    <3>2. head # 0
      BY <1>0, <2>1, <2>3, SMT DEF GitStore, Absent, Torn
    <3>3. newHead \in Commits
      BY <1>0, <2>1, <3>2, HeadsFacts
    <3>4. c # Absent
      BY <1>0, <3>1, <3>3, LogFacts, SMT DEF Absent
    <3>5. vm \in reg => Served(vm, f, c)
      BY <1>0, <2>1, <2>3, <3>1 DEF GitSends
    <3>6. Served(vm, f, c)'
      BY <1>8, <2>1, <2>3, <3>4, <3>5
    <3>7. QED BY <1>2, <3>1, <3>6 DEF Served
  <2>4. ASSUME mon = "checkout", f \notin Diff(newHead, fetched)
        PROVE  Served(vm, f, log[newHead][f])'
    <3>1. PICK c : c = log[newHead][f]
      OBVIOUS
    <3>2. newHead \in Commits /\ work[f] \in {c, Torn}
      BY <1>0, <2>4, <3>1, SameFile
    <3>3. c # Absent
      BY <1>0, <3>1, <3>2, LogFacts, SMT DEF Absent
    <3>4. vm \in reg => Served(vm, f, c)
      BY <1>0, <2>1, <2>4, <3>1 DEF GitSends
    <3>5. Served(vm, f, c)'
      BY <1>8, <2>1, <3>2, <3>3, <3>4
    <3>6. QED BY <1>2, <3>1, <3>5 DEF Served
  <2>5. QED BY <2>2, <2>3, <2>4
<1>10. UrlSends'
  <2>1. SUFFICES ASSUME source # "git", NEW f \in File, NEW vm \in reg', vm \in Vms[f],
                        task[f].at # "notify", work[f] > 0
                 PROVE  Served(vm, f, work[f])'
    BY <1>2 DEF UrlSends
  <2>2. PICK c : c = work[f]
    OBVIOUS
  <2>3. c # Absent /\ (vm \in reg => Served(vm, f, c))
    BY <1>0, <2>1, <2>2, SMT DEF UrlSends, Absent
  <2>4. Served(vm, f, c)'
    BY <1>8, <2>1, <2>2, <2>3
  <2>5. QED BY <1>2, <2>2, <2>4 DEF Served
<1>11. QED BY <1>1, <1>3, <1>4, <1>6, <1>7, <1>9, <1>10 DEF Inv, PushInv

-----------------------------------------------------------------------------
(* The invariant under the steps of the git monitor.                       *)

\* What each step is shown to keep; the rest of the invariant follows from Adds.
MonitorInv == GitTypes /\ GitStore /\ VersionInv /\ GitSends

\* What the monitor is about to make of the store is no older than what was sent.
NotOlder ==
  \A f \in File :
    /\ work'[f] <= Remote(f)
    /\ work'[f] > 0 => NoneNewer(f, work'[f])
    /\ mon' \in {"checkout", "replace", "rename"} =>
         work'[f] <= log[fetched'][f] /\ NoneNewer(f, log[fetched'][f])

LEMMA MonitorVersions ==
  ASSUME VersionInv, Adds, mon' \notin {"off", "dead"}, NotOlder
  PROVE  VersionInv'
<1>1. log' = log /\ sending' = sending /\ have' = have
  BY DEF Adds
<1>2. SUFFICES ASSUME NEW f \in File
               PROVE  /\ work'[f] <= Remote(f) /\ NoneNewer(f, Remote(f))'
                      /\ work'[f] > 0 => NoneNewer(f, work[f])'
                      /\ mon' \in {"checkout", "replace", "rename"} =>
                           work'[f] <= log[fetched'][f] /\ NoneNewer(f, log[fetched][f])'
                      /\ InOrder(f)'
  BY <1>1 DEF VersionInv, Remote
<1>3. work'[f] <= Remote(f) /\ NoneNewer(f, Remote(f))'
  BY <1>1 DEF NotOlder, VersionInv, NoneNewer, Remote, Sends
<1>4. work'[f] > 0 => NoneNewer(f, work[f])'
  BY <1>1 DEF NotOlder, NoneNewer, Sends
<1>5. mon' \in {"checkout", "replace", "rename"} =>
        work'[f] <= log[fetched'][f] /\ NoneNewer(f, log[fetched][f])'
  BY <1>1 DEF NotOlder, NoneNewer, Sends
<1>6. InOrder(f)'
  BY <1>1 DEF VersionInv, InOrder, Sends
<1>7. QED BY <1>3, <1>4, <1>5, <1>6

\* A step that leaves the store and the head as they are, and does not begin to
\* write.
LEMMA IdleStep ==
  ASSUME VersionInv, GitStore, Adds, source = "git", source' = source,
         UNCHANGED <<work, head, newHead>>,
         mon' \notin {"checkout", "replace", "rename", "off", "dead"}
  PROVE  GitStore' /\ VersionInv'
<1>1. log' = log
  BY DEF Adds
<1>2. GitStore'
  BY <1>1 DEF GitStore, Between
<1>3. NotOlder
  BY DEF NotOlder, VersionInv
<1>4. QED BY <1>2, <1>3, MonitorVersions

LEMMA IdleSteps ==
  ASSUME Inv, source = "git", Adds, FetchFails \/ CheckoutFails \/ CloneFails
  PROVE  MonitorInv'
<1>1. /\ GitTypes /\ GitStore /\ VersionInv /\ Len(log) \in Nat /\ log' = log
      /\ Retries \in Nat
  BY DistributionAssumption, SMT DEF Inv, Types, LogInv, Adds
<1>2. /\ UNCHANGED <<source, work, head, oldHead, newHead>>
      /\ mon' \in {"clone", "force"} /\ todo' \in {todo, {}} /\ fetched' \in {fetched, 0}
  BY DEF FetchFails, CheckoutFails, CloneFails, urlVars
<1>3. tries' \in {tries, 0} \/ (tries < Retries /\ tries' = tries + 1)
  BY DEF FetchFails, CheckoutFails, CloneFails
<1>4. tries' \in 0 .. Retries
  BY <1>1, <1>3, SMT DEF GitTypes
<1>5. GitTypes'
  BY <1>1, <1>2, <1>4, SMT DEF GitTypes
<1>6. GitStore' /\ VersionInv'
  BY <1>1, <1>2, IdleStep
<1>7. GitSends'
  BY <1>2 DEF GitSends
<1>8. QED BY <1>5, <1>6, <1>7 DEF MonitorInv

LEMMA UpToDateInv ==
  ASSUME Inv, source = "git", Adds, UpToDate
  PROVE  MonitorInv'
<1>1. GitTypes /\ GitStore /\ VersionInv /\ GitSends /\ PushTypes /\ VmTypes /\ log' = log /\ reg' = reg
  BY DEF Inv, Types, Adds
<1>2. /\ UNCHANGED <<source, work, head, oldHead, newHead, todo, fetched, tries>>
      /\ mon = "poll" /\ mon' \in {"poll", "done"}
  BY DEF UpToDate, Sleep, urlVars
<1>3. GitTypes'
  BY <1>1, <1>2 DEF GitTypes
<1>4. GitStore' /\ VersionInv'
  BY <1>1, <1>2, IdleStep
<1>5. GitSends'
  <2>1. SUFFICES ASSUME NEW f \in File, NEW vm \in reg, vm \in Vms[f]
                 PROVE  /\ work[f] > 0 => Served(vm, f, work[f])'
                        /\ work[f] = Torn => Served(vm, f, log[newHead][f])'
    BY <1>1, <1>2 DEF GitSends
  <2>2. vm \in Vm
    BY <1>1 DEF VmTypes
  <2>3. PICK c, d : c = work[f] /\ d = log[newHead][f]
    OBVIOUS
  <2>4. (work[f] > 0 => Served(vm, f, c)') /\ (work[f] = Torn => Served(vm, f, d)')
    BY <1>1, <1>2, <2>1, <2>2, <2>3, AddServes DEF GitSends
  <2>5. QED BY <1>1, <1>2, <2>3, <2>4 DEF Served
<1>6. QED BY <1>3, <1>4, <1>5 DEF MonitorInv

LEMMA ForceUpdateInv ==
  ASSUME Inv, source = "git", Adds, ForceUpdate
  PROVE  MonitorInv'
<1>1. GitTypes /\ GitStore /\ VersionInv /\ PushTypes /\ VmTypes /\ log' = log /\ reg' = reg
  BY DEF Inv, Types, Adds
<1>2. /\ UNCHANGED <<source, work, head, oldHead, newHead, todo, fetched, tries>>
      /\ mon' = "poll" /\ send_all_policies(Vm)
  BY DEF ForceUpdate, force_update_all_vms, urlVars
<1>3. GitTypes'
  BY <1>1, <1>2 DEF GitTypes
<1>4. GitStore' /\ VersionInv'
  BY <1>1, <1>2, IdleStep
<1>5. \A f \in File, vm \in Vm : vm \in Vms[f] /\ work[f] # Absent => f \in Range(q'[vm])
  BY <1>1, <1>2, SendAll
<1>6. GitSends'
  <2>1. SUFFICES ASSUME NEW f \in File, NEW vm \in reg, vm \in Vms[f],
                        work[f] > 0 \/ work[f] = Torn
                 PROVE  f \in Range(q'[vm])
    BY <1>1, <1>2 DEF GitSends, Served, Queued
  <2>2. vm \in Vm /\ work[f] # Absent
    BY <1>1, <2>1, SMT DEF VmTypes, Absent, Torn
  <2>3. QED BY <1>5, <2>1, <2>2
<1>7. QED BY <1>3, <1>4, <1>6 DEF MonitorInv

LEMMA FetchUpdateInv ==
  ASSUME Inv, source = "git", Adds, FetchUpdate
  PROVE  MonitorInv'
<1>1. /\ LogInv /\ GitTypes /\ GitStore /\ VersionInv /\ GitSends /\ PushTypes /\ VmTypes
      /\ log' = log /\ reg' = reg /\ Len(log) \in Nat /\ Len(log) >= 1
  BY DistributionAssumption, SMT DEF Inv, Types, LogInv, Adds
<1>2. /\ UNCHANGED <<source, work, head, oldHead, newHead, tries>>
      /\ mon = "poll" /\ mon' = "checkout" /\ todo' = File /\ fetched' = Len(log) /\ head # 0
  BY DEF FetchUpdate, urlVars
<1>3. GitTypes'
  BY <1>1, <1>2, SMT DEF GitTypes
<1>4. newHead \in Commits /\ head <= newHead /\ newHead <= Len(log) /\ Len(log) \in Commits
  BY <1>1, <1>2, HeadsFacts, SMT DEF Commits
<1>5. GitStore'
  BY <1>1, <1>2, <1>4, SMT DEF GitStore, Between
<1>6. VersionInv'
  <2>1. NotOlder
    BY <1>1, <1>2 DEF NotOlder, VersionInv, Remote
  <2>2. QED BY <1>1, <1>2, <2>1, MonitorVersions
<1>7. GitSends'
  <2>1. SUFFICES ASSUME NEW f \in File, NEW vm \in reg, vm \in Vms[f],
                        log[newHead][f] = log[Len(log)][f]
                 PROVE  Served(vm, f, log[newHead][f])'
    BY <1>1, <1>2 DEF GitSends, Diff
  <2>2. vm \in Vm
    BY <1>1 DEF VmTypes
  <2>3. PICK c : c = log[newHead][f]
    OBVIOUS
  <2>4. Between(f, newHead, Len(log))
    BY <1>1, <1>2 DEF GitStore
  <2>5. work[f] \in {c, Torn} /\ c > 0
    BY <1>1, <1>4, <2>1, <2>3, <2>4, SteadyFile, LogFacts, SMT
  <2>6. Served(vm, f, c)
    BY <1>1, <1>2, <2>1, <2>3, <2>5 DEF GitSends
  <2>7. Served(vm, f, c)'
    BY <1>1, <2>2, <2>6, AddServes
  <2>8. QED BY <1>1, <1>2, <2>3, <2>7 DEF Served
<1>8. QED BY <1>3, <1>5, <1>6, <1>7 DEF MonitorInv

LEMMA CloneFetchInv ==
  ASSUME Inv, source = "git", Adds, CloneFetch
  PROVE  MonitorInv'
<1>1. /\ GitTypes /\ GitStore /\ VersionInv
      /\ log' = log /\ Len(log) \in Nat /\ Len(log) >= 1
  BY DistributionAssumption, SMT DEF Inv, Types, LogInv, Adds
<1>2. /\ UNCHANGED <<source, work, head, oldHead, newHead, todo, tries>>
      /\ mon' = "replace" /\ fetched' = Len(log)
  BY DEF CloneFetch, urlVars
<1>3. GitTypes'
  BY <1>1, <1>2, SMT DEF GitTypes
<1>4. GitStore'
  BY <1>1, <1>2, SMT DEF GitStore, Between
<1>5. VersionInv'
  <2>1. NotOlder
    BY <1>1, <1>2 DEF NotOlder, VersionInv, Remote
  <2>2. QED BY <1>1, <1>2, <2>1, MonitorVersions
<1>6. GitSends'
  BY <1>2 DEF GitSends
<1>7. QED BY <1>3, <1>4, <1>5, <1>6 DEF MonitorInv

LEMMA CheckoutFileInv ==
  ASSUME Inv, source = "git", Adds, CheckoutFile
  PROVE  MonitorInv'
<1>1. /\ LogInv /\ GitTypes /\ GitStore /\ VersionInv /\ GitSends /\ PushTypes /\ VmTypes
      /\ log' = log /\ reg' = reg /\ mon = "checkout" /\ mon' = mon
      /\ UNCHANGED <<source, head, oldHead, newHead, fetched, tries>>
      /\ head # 0 /\ fetched # 0 /\ newHead <= fetched /\ Len(log) \in Nat
      /\ newHead \in Int /\ fetched \in Int
  BY DistributionAssumption, SMT DEF Inv, Types, LogInv, Adds, CheckoutFile, urlVars, GitStore, GitTypes
<1>2. PICK g \in todo :
        \/ work' = [work EXCEPT ![g] = Torn] /\ todo' = todo
        \/ work' = [work EXCEPT ![g] = log[fetched][g]] /\ todo' = todo \ {g}
  BY DEF CheckoutFile
<1>3. g \in File /\ work \in [File -> Content]
  BY <1>1 DEF GitTypes
<1>4. newHead \in Commits /\ fetched \in Commits /\ newHead <= fetched /\ fetched <= Len(log)
  BY <1>1, <1>3, SameFile, SMT DEF Commits
<1>5. \A f \in File : log[fetched][f] \in Content /\ log[fetched][f] > 0 /\ log[fetched][f] <= Remote(f)
  BY <1>1, <1>4, LogFacts, SMT
<1>6. /\ work' \in [File -> Content]
      /\ \A f \in File : \/ f = g /\ work'[f] = Torn /\ todo' = todo
                         \/ f = g /\ work'[f] = log[fetched][f]
                         \/ f # g /\ work'[f] = work[f]
      /\ todo' \subseteq todo /\ todo \ {g} \subseteq todo'
  <2>1. Torn \in Content /\ log[fetched][g] \in Content
    BY <1>3, <1>5, DistributionAssumption, SMT DEF Content, Torn
  <2>2. QED BY <1>2, <1>3, <2>1
<1>7. GitTypes'
  BY <1>1, <1>6 DEF GitTypes
<1>8. fetched \in newHead .. fetched /\ fetched \in newHead .. Len(log)
  BY <1>1, <1>4, SMT
<1>9. GitStore'
  <2>1. SUFFICES ASSUME NEW f \in File
                 PROVE  /\ Between(f, newHead, Len(log))' /\ Between(f, newHead, fetched)'
                        /\ f \notin todo' => work'[f] = log[fetched][f]
    BY <1>1 DEF GitStore
  <2>2. Between(f, newHead, Len(log)) /\ Between(f, newHead, fetched)
    BY <1>1 DEF GitStore
  <2>3. Between(f, newHead, Len(log))' /\ Between(f, newHead, fetched)'
    BY <1>1, <1>6, <1>8, <2>2 DEF Between
  <2>4. f \notin todo' => work'[f] = log[fetched][f]
    BY <1>1, <1>2, <1>6, SMT DEF GitStore
  <2>5. QED BY <2>3, <2>4
<1>10. VersionInv'
  <2>1. NotOlder
    <3>1. SUFFICES ASSUME NEW f \in File
                   PROVE  /\ work'[f] <= Remote(f)
                          /\ work'[f] > 0 => NoneNewer(f, work'[f])
                          /\ work'[f] <= log[fetched][f] /\ NoneNewer(f, log[fetched][f])
      BY <1>1 DEF NotOlder
    <3>2. /\ work[f] <= Remote(f) /\ (work[f] > 0 => NoneNewer(f, work[f]))
          /\ work[f] <= log[fetched][f] /\ NoneNewer(f, log[fetched][f])
      BY <1>1 DEF VersionInv
    <3>3. /\ log[fetched][f] \in Int /\ log[fetched][f] <= log[fetched][f]
          /\ Remote(f) \in Int /\ Torn <= Remote(f) /\ Torn <= log[fetched][f] /\ ~(Torn > 0)
      BY <1>1, <1>4, LogFacts, SMT DEF Torn
    <3>4. QED BY <1>5, <1>6, <3>2, <3>3
  <2>2. QED BY <1>1, <2>1, MonitorVersions
<1>11. GitSends'
  <2>1. SUFFICES ASSUME NEW f \in File, NEW vm \in reg, vm \in Vms[f],
                        f \notin Diff(newHead, fetched)
                 PROVE  Served(vm, f, log[newHead][f])'
    BY <1>1 DEF GitSends, Diff
  <2>2. PICK c : c = log[newHead][f]
    OBVIOUS
  <2>3. vm \in Vm /\ Served(vm, f, c)
    BY <1>1, <2>1, <2>2 DEF GitSends, VmTypes
  <2>4. Served(vm, f, c)'
    BY <1>1, <2>3, AddServes
  <2>5. QED BY <1>1, <2>2, <2>4 DEF Served
<1>12. QED BY <1>7, <1>9, <1>10, <1>11 DEF MonitorInv

LEMMA CloneReplaceInv ==
  ASSUME Inv, source = "git", Adds, CloneReplace
  PROVE  MonitorInv'
<1>1. /\ LogInv /\ GitTypes /\ GitStore /\ VersionInv /\ log' = log
      /\ fetched # 0 /\ mon = "replace" /\ mon' = "rename" /\ work' = NoFiles /\ head' = 0
      /\ UNCHANGED <<source, oldHead, newHead, todo, fetched, tries>>
      /\ Len(log) \in Nat /\ MaxCommits \in Nat
  BY DistributionAssumption, SMT DEF Inv, Types, LogInv, Adds, CloneReplace, urlVars, GitStore
<1>2. work' \in [File -> Content] /\ \A f \in File : work'[f] = 0
  BY <1>1, SMT DEF NoFiles, Content, Absent, Torn
<1>3. GitTypes'
  BY <1>1, <1>2, SMT DEF GitTypes
<1>4. GitStore'
  BY <1>1, <1>2 DEF GitStore, Absent
<1>5. fetched \in Commits
  BY <1>1, SMT DEF GitTypes, Commits
<1>6. VersionInv'
  <2>1. ASSUME NEW f \in File
        PROVE  /\ 0 <= Remote(f) /\ 0 <= log[fetched][f] /\ NoneNewer(f, log[fetched][f])
    <3>1. Remote(f) \in 1 .. Len(log) /\ log[fetched][f] \in 1 .. Len(log)
      BY <1>1, <1>5, LogFacts
    <3>2. 0 <= Remote(f) /\ 0 <= log[fetched][f]
      BY <3>1, SMT
    <3>3. NoneNewer(f, log[fetched][f])
      BY <1>1 DEF VersionInv
    <3>4. QED BY <3>2, <3>3
  <2>2. NotOlder
    BY <1>1, <1>2, <2>1, SMT DEF NotOlder
  <2>3. QED BY <1>1, <2>2, MonitorVersions
<1>7. GitSends'
  BY <1>1 DEF GitSends
<1>8. QED BY <1>3, <1>4, <1>6, <1>7 DEF MonitorInv

LEMMA CloneRenameInv ==
  ASSUME Inv, source = "git", Adds, CloneRename
  PROVE  MonitorInv'
<1>1. /\ LogInv /\ GitTypes /\ GitStore /\ VersionInv /\ log' = log
      /\ fetched # 0 /\ mon = "rename" /\ mon' = "force"
      /\ work' = log[fetched] /\ head' = fetched /\ newHead' = fetched /\ oldHead' = 0
      /\ fetched' = 0 /\ tries' = 0 /\ UNCHANGED <<source, todo>>
      /\ Len(log) \in Nat /\ MaxCommits \in Nat /\ Retries \in Nat
  BY DistributionAssumption, SMT DEF Inv, Types, LogInv, Adds, CloneRename, urlVars, GitStore
<1>2. fetched \in Commits /\ fetched \in fetched .. Len(log) /\ fetched <= fetched
  BY <1>1, SMT DEF GitTypes, Commits
<1>3. work' \in [File -> Content]
  <2>1. log[fetched] \in [File -> 1 .. MaxCommits]
    BY <1>1, <1>2, SMT DEF LogInv, Commits
  <2>2. 1 .. MaxCommits \subseteq Content
    BY <1>1, SMT DEF Content, Torn
  <2>3. QED BY <1>1, <2>1, <2>2
<1>4. GitTypes'
  BY <1>1, <1>3, SMT DEF GitTypes
<1>5. GitStore'
  BY <1>1, <1>2 DEF GitStore, Between
<1>6. VersionInv'
  <2>1. NotOlder
    BY <1>1, <1>2, LogFacts DEF NotOlder, VersionInv
  <2>2. QED BY <1>1, <2>1, MonitorVersions
<1>7. GitSends'
  BY <1>1 DEF GitSends
<1>8. QED BY <1>4, <1>5, <1>6, <1>7 DEF MonitorInv

\* Dispatch queues what differs, or records that it was lost; what does not
\* differ was served before and still is.
LEMMA DispatchQueues ==
  ASSUME PushTypes, VmTypes, Dispatch
  PROVE  /\ Grows /\ owed \subseteq owed' /\ owed' \subseteq Vm \X File
         /\ \A vm \in Vm, f \in File :
              vm \in Vms[f] /\ work[f] # Absent /\ f \in Diff(newHead, fetched) =>
                f \in Range(q'[vm]) \/ <<vm, f>> \in owed'
<1> DEFINE changes == Diff(newHead, fetched)
<1>1. changes \in SUBSET File
  BY DEF Diff
<1>2. IF changes # {} THEN process_changeset(changes)
                      ELSE send_all_policies(Vm) /\ owed' = owed
  BY DEF Dispatch, force_update_all_vms
<1> HIDE DEF changes
<1>3. CASE changes # {}
  BY <1>1, <1>2, <1>3, ChangesetQueued DEF changes
<1>4. CASE changes = {}
  BY <1>2, <1>4, SendAll DEF VmTypes, changes
<1>5. QED BY <1>3, <1>4

LEMMA DispatchInv ==
  ASSUME Inv, source = "git", Adds, Dispatch
  PROVE  MonitorInv'
<1>1. /\ LogInv /\ GitTypes /\ GitStore /\ VersionInv /\ GitSends /\ PushTypes /\ VmTypes
      /\ log' = log /\ reg' = reg
      /\ mon = "checkout" /\ todo = {} /\ mon' \in {"poll", "done"}
      /\ oldHead' = newHead /\ newHead' = fetched /\ fetched' = 0
      /\ UNCHANGED <<source, work, head, todo, tries>>
      /\ Len(log) \in Nat
  BY DistributionAssumption, SMT DEF Inv, Types, LogInv, Adds, Dispatch, Sleep, urlVars
<1>2. /\ head # 0 /\ head <= newHead /\ newHead <= fetched /\ fetched # 0
      /\ \A f \in File : work[f] = log[fetched][f]
      /\ head \in 0 .. Len(log) /\ newHead \in 0 .. Len(log) /\ fetched \in 0 .. Len(log)
  BY <1>1 DEF GitStore, GitTypes
<1>3. fetched \in Commits /\ newHead \in Commits /\ head <= fetched /\ fetched \in fetched .. Len(log)
  BY <1>1, <1>2, SMT DEF Commits
<1>4. GitTypes'
  BY <1>1, <1>2, SMT DEF GitTypes
<1>5. GitStore'
  BY <1>1, <1>2, <1>3 DEF GitStore, Between
<1>6. VersionInv'
  <2>1. NotOlder
    BY <1>1 DEF NotOlder, VersionInv
  <2>2. QED BY <1>1, <2>1, MonitorVersions
<1>7. GitSends'
  <2>1. SUFFICES ASSUME NEW f \in File, NEW vm \in reg, vm \in Vms[f]
                 PROVE  Served(vm, f, work[f])' /\ Served(vm, f, log[newHead][f])'
    BY <1>1 DEF GitSends
  <2>2. PICK c : c = log[fetched][f]
    OBVIOUS
  <2>3. vm \in Vm /\ work[f] = c /\ c # Absent
    BY <1>1, <1>2, <1>3, <2>2, LogFacts, SMT DEF VmTypes, Absent
  <2>4. CASE f \in Diff(newHead, fetched)
    <3>1. f \in Range(q'[vm]) \/ <<vm, f>> \in owed'
      BY <1>1, <2>1, <2>3, <2>4, DispatchQueues
    <3>2. QED BY <3>1 DEF Served, Queued
  <2>5. CASE f \notin Diff(newHead, fetched)
    <3>1. log[newHead][f] = c
      BY <2>2, <2>5 DEF Diff
    <3>2. Served(vm, f, c)
      BY <1>1, <2>1, <2>5, <3>1 DEF GitSends
    <3>3. Served(vm, f, c)'
      BY <1>1, <2>3, <3>2, AddServes
    <3>4. work'[f] = c /\ log'[newHead'][f] = c
      BY <1>1, <2>2, <2>3
    <3>5. QED BY <3>3, <3>4 DEF Served
  <2>6. QED BY <2>4, <2>5
<1>8. QED BY <1>4, <1>5, <1>6, <1>7 DEF MonitorInv

LEMMA MonitorAdds ==
  ASSUME PushTypes, VmTypes, GitTypes, Monitor
  PROVE  Adds /\ source = "git" /\ urlVars' = urlVars /\ (faults' = faults \/ Fault)
<1>1. source = "git"
  BY DEF GitTypes, Monitor, UpToDate, FetchFails, FetchUpdate, CheckoutFile, CheckoutFails,
         Dispatch, CloneFetch, CloneReplace, CloneRename, CloneFails, ForceUpdate
<1>2. CASE UpToDate \/ FetchFails \/ FetchUpdate \/ CheckoutFile \/ CheckoutFails
  <2>1. /\ UNCHANGED <<log, pushVars, vmVars, owed>> /\ urlVars' = urlVars
        /\ faults' = faults \/ Fault
    BY <1>2 DEF UpToDate, FetchFails, FetchUpdate, CheckoutFile, CheckoutFails
  <2>2. QED BY <1>1, <2>1, SameQueues
<1>3. CASE CloneFetch \/ CloneReplace \/ CloneRename \/ CloneFails
  <2>1. /\ UNCHANGED <<log, pushVars, vmVars, owed>> /\ urlVars' = urlVars
        /\ faults' = faults \/ Fault
    BY <1>3 DEF CloneFetch, CloneReplace, CloneRename, CloneFails
  <2>2. QED BY <1>1, <2>1, SameQueues
<1>4. CASE Dispatch
  <2>1. UNCHANGED <<log, waits, updates, sending, reg, hello, have, faults, urlVars>>
    BY <1>4 DEF Dispatch, vmVars
  <2>2. Grows /\ owed \subseteq owed' /\ owed' \subseteq Vm \X File
    BY <1>4, DispatchQueues
  <2>3. QED BY <1>1, <2>1, <2>2 DEF Adds
<1>5. CASE ForceUpdate
  <2>1. /\ UNCHANGED <<log, waits, updates, sending, reg, hello, have, owed, faults, urlVars>>
        /\ send_all_policies(Vm)
    BY <1>5 DEF ForceUpdate, vmVars, force_update_all_vms
  <2>2. Grows
    BY <2>1, SendAll
  <2>3. QED BY <1>1, <2>1, <2>2 DEF Adds, VmTypes
<1>6. QED BY <1>2, <1>3, <1>4, <1>5 DEF Monitor

\* What a step that only adds leaves as it is, and Forward.
LEMMA AddForward ==
  ASSUME VmTypes, Adds
  PROVE  Forward
<1>1. have' = have /\ \A vm \in Vm, f \in File : have[vm][f] \in Int
  BY DistributionAssumption, SMT DEF Adds, VmTypes, Content, Torn
<1>2. \A i \in Int : i >= i
  BY SMT
<1>3. QED BY <1>1, <1>2 DEF Forward

LEMMA MonitorNext ==
  ASSUME Inv, Monitor
  PROVE  Inv' /\ Forward
<1>1. /\ Types /\ LogInv /\ GitTypes /\ UrlTypes /\ PushTypes /\ VmTypes /\ WaitInv
      /\ faults \in 0 .. MaxFaults
  BY DEF Inv, Types
<1>2. Adds /\ source = "git" /\ urlVars' = urlVars /\ (faults' = faults \/ Fault)
  BY <1>1, MonitorAdds
<1>3. MonitorInv'
  BY <1>2, IdleSteps, UpToDateInv, ForceUpdateInv, FetchUpdateInv, CloneFetchInv, CheckoutFileInv,
     CloneReplaceInv, CloneRenameInv, DispatchInv DEF Monitor
<1>4. PushTypes' /\ VmTypes' /\ WaitInv' /\ log' = log
  BY <1>1, <1>2, AddTypes DEF Adds
<1>5. LogInv' /\ UrlTypes' /\ faults' \in 0 .. MaxFaults
  <2>1. LogInv'
    BY <1>1, <1>4 DEF LogInv, Commits
  <2>2. UrlTypes'
    BY <1>1, <1>2, <1>4 DEF UrlTypes, urlVars
  <2>3. faults' \in 0 .. MaxFaults
    BY <1>1, <1>2, DistributionAssumption, SMT DEF Fault
  <2>4. QED BY <2>1, <2>2, <2>3
<1>6. UrlStore' /\ UrlSends'
  BY <1>2 DEF UrlStore, UrlSends, urlVars
<1>7. Forward
  BY <1>1, <1>2, AddForward
<1>8. QED BY <1>3, <1>4, <1>5, <1>6, <1>7 DEF Inv, Types, MonitorInv

-----------------------------------------------------------------------------
(* The invariant under the steps of the tasks of the URLs.                 *)

\* What a step of f's task does to f, and what it leaves of the other files.
UrlOthers(f) ==
  \A g \in File \ {f} :
    /\ work'[g] = work[g] /\ task'[g] = task[g] /\ cur'[g] = cur[g] /\ mem'[g] = mem[g]
    /\ saved'[g] \in {saved[g], mem[g]}

UrlNotOlder(f) ==
  /\ work'[f] <= Remote(f)
  /\ work'[f] > 0 => NoneNewer(f, work'[f])
  /\ task'[f].at = "write" => work'[f] <= task'[f].body /\ NoneNewer(f, task'[f].body)

UrlServes(f) ==
  task'[f].at # "notify" /\ work'[f] > 0 => \A vm \in reg : vm \in Vms[f] => Served(vm, f, work[f])'

LEMMA UrlEffect ==
  ASSUME Inv, NEW f \in File, source # "git", Adds, source' = source, gitVars' = gitVars,
         work' \in [File -> Content], UrlTypes', faults' = faults \/ Fault,
         UrlOthers(f), UrlFile(f)', UrlNotOlder(f), UrlServes(f)
  PROVE  Inv' /\ Forward
<1>1. /\ LogInv /\ GitTypes /\ UrlTypes /\ PushTypes /\ VmTypes /\ faults \in 0 .. MaxFaults
      /\ WaitInv /\ UrlStore /\ VersionInv /\ UrlSends
  BY DEF Inv, Types
<1>2. /\ log' = log /\ reg' = reg /\ sending' = sending /\ have' = have
      /\ UNCHANGED <<head, oldHead, newHead, mon, todo, fetched, tries>>
      /\ mon \in {"off", "dead"}
  BY <1>1 DEF Adds, gitVars, GitTypes
<1>3. Types' /\ WaitInv'
  <2>1. PushTypes' /\ VmTypes' /\ WaitInv'
    BY <1>1, AddTypes
  <2>2. LogInv' /\ GitTypes'
    BY <1>1, <1>2 DEF LogInv, Commits, GitTypes
  <2>3. faults' \in 0 .. MaxFaults
    BY <1>1, DistributionAssumption, SMT DEF Fault
  <2>4. QED BY <2>1, <2>2, <2>3 DEF Types
<1>4. GitStore' /\ GitSends'
  BY DEF GitStore, GitSends
<1>5. UrlStore'
  <2>1. ASSUME NEW g \in File, g # f PROVE UrlFile(g)'
    <3>1. UrlFile(g) /\ mem[g] \in Int /\ cur[g] \in Int
      BY <1>1, SMT DEF UrlStore, UrlTypes
    <3>2. /\ work'[g] = work[g] /\ task'[g] = task[g] /\ cur'[g] = cur[g] /\ mem'[g] = mem[g]
          /\ saved'[g] \in {saved[g], mem[g]} /\ Remote(g)' = Remote(g)
      BY <1>2, <2>1 DEF UrlOthers, Remote
    <3>3. mem[g] <= mem[g]
      BY <3>1, SMT
    <3>4. QED BY <3>1, <3>2, <3>3 DEF UrlFile
  <2>2. QED BY <2>1 DEF UrlStore
<1>6. VersionInv'
  <2>1. SUFFICES ASSUME NEW g \in File
                 PROVE  /\ work'[g] <= Remote(g) /\ NoneNewer(g, Remote(g))'
                        /\ work'[g] > 0 => NoneNewer(g, work[g])'
                        /\ task'[g].at = "write" =>
                             work'[g] <= task'[g].body /\ NoneNewer(g, task[g].body)'
                        /\ InOrder(g)'
    BY <1>2 DEF VersionInv, Remote
  <2>2. NoneNewer(g, Remote(g))' /\ InOrder(g)'
    BY <1>1, <1>2 DEF VersionInv, NoneNewer, Remote, Sends, InOrder
  <2>3. UrlNotOlder(g)
    <3>1. CASE g = f
      BY <3>1
    <3>2. CASE g # f
      BY <1>1, <1>2, <3>2 DEF UrlOthers, UrlNotOlder, VersionInv
    <3>3. QED BY <3>1, <3>2
  <2>4. work'[g] > 0 => NoneNewer(g, work[g])'
    BY <1>2, <2>3 DEF UrlNotOlder, NoneNewer, Sends
  <2>5. task'[g].at = "write" => NoneNewer(g, task[g].body)'
    BY <1>2, <2>3 DEF UrlNotOlder, NoneNewer, Sends
  <2>6. QED BY <2>2, <2>3, <2>4, <2>5 DEF UrlNotOlder
<1>7. UrlSends'
  <2>1. SUFFICES ASSUME NEW g \in File, NEW vm \in reg, vm \in Vms[g], g # f,
                        task'[g].at # "notify", work'[g] > 0
                 PROVE  Served(vm, g, work[g])'
    BY <1>2 DEF UrlSends, UrlServes
  <2>2. PICK c : c = work[g]
    OBVIOUS
  <2>3. vm \in Vm /\ work'[g] = c /\ Served(vm, g, c)
    BY <1>1, <2>1, <2>2 DEF UrlSends, UrlOthers, VmTypes
  <2>4. Served(vm, g, c)'
    BY <1>1, <2>3, AddServes
  <2>5. QED BY <2>3, <2>4 DEF Served
<1>8. Forward
  BY <1>1, AddForward
<1>9. QED BY <1>3, <1>4, <1>5, <1>6, <1>7, <1>8 DEF Inv

\* A step of a task that does not write the file.
LEMMA UrlKeepsFile ==
  ASSUME Inv, NEW f \in File, source # "git", Adds, work' = work, task[f].at # "notify"
  PROVE  /\ UrlServes(f)
         /\ task'[f].at # "write" => UrlNotOlder(f)
<1>1. PushTypes /\ VmTypes /\ VersionInv /\ UrlSends
  BY DEF Inv, Types
<1>2. ASSUME work[f] > 0, NEW vm \in reg, vm \in Vms[f] PROVE Served(vm, f, work[f])'
  <2>1. PICK c : c = work[f]
    OBVIOUS
  <2>2. vm \in Vm /\ Served(vm, f, c)
    BY <1>1, <1>2, <2>1 DEF UrlSends, VmTypes
  <2>3. Served(vm, f, c)'
    BY <1>1, <2>2, AddServes
  <2>4. QED BY <2>1, <2>3 DEF Served
<1>3. task'[f].at # "write" => UrlNotOlder(f)
  BY <1>1 DEF UrlNotOlder, VersionInv
<1>4. QED BY <1>2, <1>3 DEF UrlServes

TaskTypes == [File -> [at : Stage, head : 0 .. Len(log), body : 0 .. Len(log)]]

LEMMA GotoFacts ==
  ASSUME UrlTypes, NEW f \in File, NEW s \in Stage, NEW h \in 0 .. Len(log),
         NEW b \in 0 .. Len(log), Goto(f, s, h, b)
  PROVE  /\ task' \in TaskTypes
         /\ task'[f].at = s /\ task'[f].head = h /\ task'[f].body = b
         /\ \A g \in File \ {f} : task'[g] = task[g]
<1>1. At(s, h, b) \in [at : Stage, head : 0 .. Len(log), body : 0 .. Len(log)]
  BY DEF At
<1>2. task \in TaskTypes /\ task' = [task EXCEPT ![f] = At(s, h, b)]
  BY DEF UrlTypes, TaskTypes, Goto
<1>3. task' \in TaskTypes /\ task'[f] = At(s, h, b) /\ \A g \in File \ {f} : task'[g] = task[g]
  BY <1>1, <1>2 DEF TaskTypes
<1>4. QED BY <1>3, SMT DEF At

LEMMA UrlFacts ==
  ASSUME Inv, NEW f \in File, source # "git"
  PROVE  /\ LogInv /\ UrlTypes /\ PushTypes /\ VmTypes /\ UrlFile(f) /\ work \in [File -> Content]
         /\ Len(log) \in Nat /\ Remote(f) \in 1 .. Len(log) /\ work[f] \in Int
         /\ cur[f] \in 0 .. Len(log) /\ mem[f] \in 0 .. Len(log) /\ saved[f] \in 0 .. Len(log)
         /\ task[f].head \in 0 .. Len(log) /\ task[f].body \in 0 .. Len(log)
         /\ source \in {"header", "hash"}
<1>1. LogInv /\ UrlTypes /\ PushTypes /\ VmTypes /\ UrlFile(f) /\ GitTypes
  BY DEF Inv, Types, UrlStore
<1>2. Len(log) \in Nat /\ Remote(f) \in 1 .. Len(log)
  BY <1>1, LogFacts, DistributionAssumption, SMT DEF LogInv
<1>3. work \in [File -> Content] /\ work[f] \in Int /\ source \in {"header", "hash"}
  BY <1>1, DistributionAssumption, SMT DEF GitTypes, Content, Torn
<1>4. QED BY <1>1, <1>2, <1>3 DEF UrlTypes

LEMMA HeadRequestInv ==
  ASSUME Inv, NEW f \in File, source # "git", HeadRequest(f)
  PROVE  Inv' /\ Forward
<1> DEFINE h == IF source = "header" THEN Remote(f) ELSE 0
<1>1. /\ UNCHANGED <<log, work, gitVars, source, cur, mem, saved, torn, pushVars, vmVars, owed, faults>>
      /\ task[f].at = "head"
      /\ \/ Goto(f, "head", 0, 0) \/ Goto(f, "done", 0, 0)
         \/ Goto(f, "get", h, 0) /\ ~(h # 0 /\ h = cur[f])
  BY DEF HeadRequest, Rest
<1>2. /\ UrlTypes /\ PushTypes /\ VmTypes /\ UrlFile(f) /\ Len(log) \in Nat /\ Remote(f) \in 1 .. Len(log)
      /\ cur[f] \in 0 .. Len(log) /\ work \in [File -> Content]
  BY UrlFacts
<1>3. h \in 0 .. Len(log) /\ (source = "header" => h = Remote(f) /\ h # 0)
  BY <1>2, SMT
<1> HIDE DEF h
<1>4. {"head", "done", "get"} \subseteq Stage /\ 0 \in 0 .. Len(log)
  BY <1>2, SMT DEF Stage
<1>5. /\ task' \in TaskTypes /\ \A g \in File \ {f} : task'[g] = task[g]
      /\ \/ task'[f].at \in {"head", "done"}
         \/ task'[f].at = "get" /\ task'[f].head = h /\ ~(h # 0 /\ h = cur[f])
  BY <1>1, <1>2, <1>3, <1>4, GotoFacts
<1>6. Adds /\ source' = source /\ gitVars' = gitVars /\ work' \in [File -> Content]
  BY <1>1, <1>2, SameQueues
<1>7. UrlTypes' /\ UrlOthers(f)
  BY <1>1, <1>2, <1>5 DEF UrlTypes, UrlOthers, TaskTypes
<1>8. UrlServes(f) /\ UrlNotOlder(f)
  BY <1>1, <1>5, <1>6, UrlKeepsFile
<1>9. UrlFile(f)'
  <2>1. task'[f].at = "get" /\ source = "header" => cur[f] < task'[f].head /\ task'[f].head <= Remote(f)
    <3>1. cur[f] <= Remote(f)
      BY <1>2 DEF UrlFile
    <3>2. QED BY <1>2, <1>3, <1>5, <3>1, SMT
  <2>2. Remote(f)' = Remote(f) /\ task'[f].at \notin {"write", "notify"}
    BY <1>1, <1>5 DEF Remote
  <2>3. QED BY <1>1, <1>2, <2>1, <2>2 DEF UrlFile
<1>10. QED BY <1>1, <1>6, <1>7, <1>8, <1>9, UrlEffect

LEMMA GetRequestInv ==
  ASSUME Inv, NEW f \in File, source # "git", GetRequest(f)
  PROVE  Inv' /\ Forward
<1> DEFINE h == IF source = "hash" THEN Remote(f) ELSE task[f].head
           r == Remote(f)
<1>1. /\ UNCHANGED <<log, work, gitVars, source, cur, mem, saved, torn, pushVars, vmVars, owed, faults>>
      /\ task[f].at = "get"
      /\ \/ Goto(f, "head", 0, 0) \/ Goto(f, "done", 0, 0)
         \/ Goto(f, "write", h, r) /\ ~(source = "hash" /\ h = cur[f])
  BY DEF GetRequest, Rest
<1>2. /\ UrlTypes /\ PushTypes /\ VmTypes /\ UrlFile(f) /\ Len(log) \in Nat /\ Remote(f) \in 1 .. Len(log)
      /\ cur[f] \in 0 .. Len(log) /\ work \in [File -> Content] /\ task[f].head \in 0 .. Len(log)
      /\ source \in {"header", "hash"}
  BY UrlFacts
<1>3. h \in 0 .. Len(log) /\ r \in 0 .. Len(log) /\ h <= r
      /\ (~(source = "hash" /\ h = cur[f]) => cur[f] < h)
  <2>1. /\ cur[f] <= Remote(f)
        /\ source = "header" => cur[f] < task[f].head /\ task[f].head <= Remote(f)
    BY <1>1, <1>2 DEF UrlFile
  <2>2. QED BY <1>2, <2>1, SMT
<1>4. r = Remote(f)
  OBVIOUS
<1> HIDE DEF h, r
<1>5. {"head", "done", "write"} \subseteq Stage /\ 0 \in 0 .. Len(log)
  BY <1>2, SMT DEF Stage
<1>6. /\ task' \in TaskTypes /\ \A g \in File \ {f} : task'[g] = task[g]
      /\ \/ task'[f].at \in {"head", "done"}
         \/ task'[f].at = "write" /\ task'[f].head = h /\ task'[f].body = r /\ cur[f] < h
  BY <1>1, <1>2, <1>3, <1>5, GotoFacts
<1>7. Adds /\ source' = source /\ gitVars' = gitVars /\ work' \in [File -> Content]
  BY <1>1, <1>2, SameQueues
<1>8. UrlTypes' /\ UrlOthers(f)
  BY <1>1, <1>2, <1>6 DEF UrlTypes, UrlOthers, TaskTypes
<1>9. UrlServes(f) /\ UrlNotOlder(f)
  <2>1. UrlServes(f) /\ (task'[f].at # "write" => UrlNotOlder(f))
    BY <1>1, <1>6, <1>7, UrlKeepsFile
  <2>2. CASE task'[f].at = "write"
    <3>1. VersionInv
      BY DEF Inv
    <3>2. QED BY <1>1, <1>4, <1>6, <2>1, <2>2, <3>1 DEF UrlNotOlder, VersionInv
  <2>3. QED BY <2>1, <2>2
<1>10. UrlFile(f)'
  <2>1. task'[f].at = "write" =>
          cur[f] < task'[f].head /\ task'[f].head <= task'[f].body /\ task'[f].body <= Remote(f)
    BY <1>2, <1>3, <1>4, <1>6, SMT
  <2>2. Remote(f)' = Remote(f) /\ task'[f].at \notin {"get", "notify"}
    BY <1>1, <1>6 DEF Remote
  <2>3. QED BY <1>1, <1>2, <2>1, <2>2 DEF UrlFile
<1>11. QED BY <1>1, <1>7, <1>8, <1>9, <1>10, UrlEffect

LEMMA WriteFileInv ==
  ASSUME Inv, NEW f \in File, source # "git", WriteFile(f)
  PROVE  Inv' /\ Forward
<1> DEFINE h == task[f].head
           b == task[f].body
<1>1. /\ UNCHANGED <<log, gitVars, source, cur, mem, saved, torn, pushVars, vmVars, owed, faults>>
      /\ task[f].at = "write"
      /\ \/ work' = [work EXCEPT ![f] = Torn] /\ task' = task
         \/ work' = [work EXCEPT ![f] = b] /\ Goto(f, "notify", h, 0)
  BY DEF WriteFile
<1>2. /\ UrlTypes /\ PushTypes /\ VmTypes /\ UrlFile(f) /\ Len(log) \in Nat /\ Remote(f) \in 1 .. Len(log)
      /\ cur[f] \in 0 .. Len(log) /\ work \in [File -> Content] /\ LogInv
      /\ h \in 0 .. Len(log) /\ b \in 0 .. Len(log) /\ mon \in {"off", "dead"}
  BY UrlFacts DEF WriteFile
<1>3. /\ cur[f] < h /\ h <= b /\ b <= Remote(f)
      /\ NoneNewer(f, b)
  BY <1>1, <1>2 DEF UrlFile, Inv, VersionInv
<1>4. h = task[f].head /\ b = task[f].body
  OBVIOUS
<1> HIDE DEF h, b
<1>5. "notify" \in Stage /\ 0 \in 0 .. Len(log) /\ Torn \in Content /\ b \in Content
  <2>1. MaxCommits \in Nat /\ Len(log) \in 1 .. MaxCommits
    BY <1>2, DistributionAssumption DEF LogInv
  <2>2. QED BY <1>2, <2>1, SMT DEF Stage, Torn, Content
<1>6. /\ task' \in TaskTypes /\ \A g \in File \ {f} : task'[g] = task[g] /\ work'[g] = work[g]
      /\ \/ work'[f] = Torn /\ task'[f] = task[f]
         \/ work'[f] = b /\ task'[f].at = "notify" /\ task'[f].head = h
      /\ work' \in [File -> Content]
  <2>1. CASE work' = [work EXCEPT ![f] = Torn] /\ task' = task
    BY <1>2, <1>5, <2>1 DEF UrlTypes, TaskTypes
  <2>2. CASE work' = [work EXCEPT ![f] = b] /\ Goto(f, "notify", h, 0)
    <3>1. /\ task' \in TaskTypes /\ task'[f].at = "notify" /\ task'[f].head = h
          /\ \A g \in File \ {f} : task'[g] = task[g]
      BY <1>2, <1>5, <2>2, GotoFacts
    <3>2. QED BY <1>2, <1>5, <2>2, <3>1
  <2>3. QED BY <1>1, <2>1, <2>2
<1>7. Adds /\ source' = source /\ gitVars' = gitVars
  BY <1>1, <1>2, SameQueues
<1>8. UrlTypes' /\ UrlOthers(f)
  BY <1>1, <1>2, <1>6 DEF UrlTypes, UrlOthers, TaskTypes
<1>9. UrlServes(f)
  BY <1>6, SMT DEF UrlServes, Torn
<1>10. UrlNotOlder(f)
  <2>1. CASE work'[f] = Torn /\ task'[f] = task[f]
    <3>1. Torn <= Remote(f) /\ ~(Torn > 0) /\ Torn <= b
      BY <1>2, SMT DEF Torn
    <3>2. QED BY <1>3, <1>4, <2>1, <3>1 DEF UrlNotOlder
  <2>2. CASE work'[f] = b /\ task'[f].at = "notify"
    BY <1>3, <2>2 DEF UrlNotOlder
  <2>3. QED BY <1>6, <2>1, <2>2
<1>11. UrlFile(f)'
  <2>1. /\ saved[f] <= mem[f] /\ mem[f] <= cur[f] /\ cur[f] <= Remote(f)
        /\ cur[f] < Remote(f) /\ cur[f] <= b /\ b # Torn
    BY <1>2, <1>3, SMT DEF UrlFile, Torn
  <2>2. Remote(f)' = Remote(f) /\ UNCHANGED <<cur, mem, saved, source>>
    BY <1>1 DEF Remote
  <2>3. CASE work'[f] = Torn /\ task'[f] = task[f]
    BY <1>1, <1>3, <1>4, <2>1, <2>2, <2>3 DEF UrlFile
  <2>4. CASE work'[f] = b /\ task'[f].at = "notify" /\ task'[f].head = h
    BY <1>3, <2>1, <2>2, <2>4 DEF UrlFile
  <2>5. QED BY <1>6, <2>3, <2>4
<1>12. QED BY <1>1, <1>6, <1>7, <1>8, <1>9, <1>10, <1>11, UrlEffect

\* The file is queued for all its VMs before its head is taken over.
LEMMA NotifyInv ==
  ASSUME Inv, NEW f \in File, source # "git", Notify(f)
  PROVE  Inv' /\ Forward
<1> DEFINE h == task[f].head
<1>1. /\ UNCHANGED <<log, work, gitVars, source, mem, saved, torn, waits, updates, sending, vmVars, owed, faults>>
      /\ task[f].at = "notify"
      /\ q' = [vm \in Vm |-> IF vm \in Vms[f] THEN Append(q[vm], f) ELSE q[vm]]
      /\ cur' = [cur EXCEPT ![f] = h] /\ Goto(f, "record", 0, 0)
  BY DEF Notify
<1>2. /\ UrlTypes /\ PushTypes /\ VmTypes /\ UrlFile(f) /\ Len(log) \in Nat /\ Remote(f) \in 1 .. Len(log)
      /\ cur[f] \in 0 .. Len(log) /\ mem[f] \in 0 .. Len(log) /\ work \in [File -> Content]
      /\ work[f] \in Int /\ h \in 0 .. Len(log)
  BY UrlFacts
<1>3. /\ saved[f] <= mem[f] /\ mem[f] <= cur[f] /\ cur[f] < h /\ h <= work[f]
      /\ work[f] # Torn => work[f] <= Remote(f)
  BY <1>1, <1>2 DEF UrlFile
<1> HIDE DEF h
<1>4. "record" \in Stage /\ 0 \in 0 .. Len(log)
  BY <1>2, SMT DEF Stage
<1>5. /\ task' \in TaskTypes /\ task'[f].at = "record" /\ \A g \in File \ {f} : task'[g] = task[g]
  BY <1>1, <1>2, <1>4, GotoFacts
<1>6. cur' \in [File -> 0 .. Len(log)] /\ cur'[f] = h /\ \A g \in File \ {f} : cur'[g] = cur[g]
  BY <1>1, <1>2 DEF UrlTypes
<1>7. /\ q' \in [Vm -> Seq(File)]
      /\ \A vm \in Vm : /\ Range(q[vm]) \subseteq Range(q'[vm])
                        /\ vm \in Vms[f] => f \in Range(q'[vm])
  <2>1. ASSUME NEW vm \in Vm
        PROVE  /\ q[vm] \in Seq(File) /\ Append(q[vm], f) \in Seq(File)
               /\ Range(Append(q[vm], f)) = Range(q[vm]) \cup {f}
    <3>1. q[vm] \in Seq(File)
      BY <1>2 DEF PushTypes
    <3>2. QED BY <3>1, SeqSets, SMT
  <2>2. QED BY <1>1, <2>1
<1>8. Adds /\ source' = source /\ gitVars' = gitVars /\ work' \in [File -> Content]
  BY <1>1, <1>2, <1>7 DEF Adds, Grows, vmVars, VmTypes
<1>9. UrlTypes' /\ UrlOthers(f)
  BY <1>1, <1>2, <1>5, <1>6 DEF UrlTypes, UrlOthers, TaskTypes
<1>10. UrlServes(f)
  BY <1>2, <1>7 DEF UrlServes, Served, Queued, VmTypes
<1>11. UrlNotOlder(f)
  BY <1>1, <1>5 DEF UrlNotOlder, Inv, VersionInv
<1>12. UrlFile(f)'
  <2>1. work[f] # Torn /\ mem[f] <= h /\ h <= Remote(f)
    BY <1>2, <1>3, SMT DEF Torn
  <2>2. Remote(f)' = Remote(f)
    BY <1>1 DEF Remote
  <2>3. QED BY <1>1, <1>3, <1>5, <1>6, <2>1, <2>2 DEF UrlFile
<1>13. QED BY <1>1, <1>8, <1>9, <1>10, <1>11, <1>12, UrlEffect

\* The task goes back, or on; heads only follow.
LEMMA RecordInv ==
  ASSUME Inv, NEW f \in File, source # "git",
         PollFails(f) \/ UpdateHead(f) \/ SaveConfig(f) \/ SaveFails(f)
  PROVE  Inv' /\ Forward
<1>1. /\ UNCHANGED <<log, work, gitVars, source, cur, pushVars, vmVars, owed>>
      /\ task[f].at # "notify"
      /\ faults' = faults \/ Fault
      /\ mem' = mem \/ (mem' = [mem EXCEPT ![f] = cur[f]] /\ saved' = saved)
      /\ saved' = saved \/ (saved' = mem /\ mem' = mem)
      /\ Goto(f, "head", 0, 0) \/ Goto(f, "done", 0, 0) \/ Goto(f, "save", 0, 0)
  BY DEF PollFails, UpdateHead, SaveConfig, SaveFails, Rest
<1>2. /\ UrlTypes /\ PushTypes /\ VmTypes /\ UrlFile(f) /\ Len(log) \in Nat
      /\ cur[f] \in 0 .. Len(log) /\ mem[f] \in 0 .. Len(log) /\ saved[f] \in 0 .. Len(log)
      /\ work \in [File -> Content]
  BY UrlFacts
<1>3. torn' \in BOOLEAN
  <2>1. torn \in BOOLEAN
    BY <1>2 DEF UrlTypes
  <2>2. torn' \in {torn, TRUE, FALSE}
    BY DEF PollFails, UpdateHead, SaveConfig, SaveFails
  <2>3. QED BY <2>1, <2>2
<1>4. {"head", "done", "save"} \subseteq Stage /\ 0 \in 0 .. Len(log)
  BY <1>2, SMT DEF Stage
<1>5. /\ task' \in TaskTypes /\ task'[f].at \in {"head", "done", "save"}
      /\ \A g \in File \ {f} : task'[g] = task[g]
  BY <1>1, <1>2, <1>4, GotoFacts
<1>6. /\ mem' \in [File -> 0 .. Len(log)] /\ saved' \in [File -> 0 .. Len(log)]
      /\ \A g \in File \ {f} : mem'[g] = mem[g] /\ saved'[g] \in {saved[g], mem[g]}
      /\ \/ mem'[f] = mem[f] /\ saved'[f] \in {saved[f], mem[f]}
         \/ mem'[f] = cur[f] /\ saved'[f] = saved[f]
  BY <1>1, <1>2 DEF UrlTypes
<1>7. Adds /\ source' = source /\ gitVars' = gitVars /\ work' \in [File -> Content]
  BY <1>1, <1>2, SameQueues
<1>8. UrlTypes' /\ UrlOthers(f)
  <2>1. UrlTypes'
    BY <1>1, <1>2, <1>3, <1>5, <1>6 DEF UrlTypes, TaskTypes
  <2>2. UrlOthers(f)
    BY <1>1, <1>5, <1>6 DEF UrlOthers
  <2>3. QED BY <2>1, <2>2
<1>9. UrlServes(f) /\ UrlNotOlder(f)
  BY <1>1, <1>5, <1>7, UrlKeepsFile
<1>10. UrlFile(f)'
  <2>1. saved[f] <= mem[f] /\ mem[f] <= cur[f]
    BY <1>2 DEF UrlFile
  <2>2. saved'[f] <= mem'[f] /\ mem'[f] <= cur[f]
    BY <1>2, <1>6, <2>1, SMT
  <2>3. Remote(f)' = Remote(f)
    BY <1>1 DEF Remote
  <2>4. QED BY <1>1, <1>2, <1>5, <2>2, <2>3 DEF UrlFile
<1>11. QED BY <1>1, <1>7, <1>8, <1>9, <1>10, UrlEffect

LEMMA UrlTaskNext ==
  ASSUME Inv, NEW f \in File, UrlTask(f)
  PROVE  Inv' /\ Forward
<1>1. source # "git"
  BY DEF Inv, Types, GitTypes, UrlTask, HeadRequest, GetRequest, WriteFile, PollFails, Notify,
         UpdateHead, SaveConfig, SaveFails
<1>2. QED BY <1>1, HeadRequestInv, GetRequestInv, WriteFileInv, NotifyInv, RecordInv DEF UrlTask

-----------------------------------------------------------------------------
(* The invariant under commits and restarts, and in the first state.       *)

\* What a commit adds to the log.
LEMMA CommitLog ==
  ASSUME LogInv, Commit
  PROVE  /\ LogInv' /\ Len(log') = Len(log) + 1 /\ Len(log) \in Nat
         /\ \A i \in Commits : log'[i] = log[i]
         /\ \A f \in File : Remote(f) <= Remote(f)' /\ Remote(f)' \in Int /\ Remote(f) \in Int
<1> DEFINE n == Len(log)
<1>1. PICK F \in SUBSET File :
        log' = Append(log, [f \in File |-> IF f \in F THEN n + 1 ELSE Remote(f)])
  BY DEF Commit
<1> DEFINE T == [f \in File |-> IF f \in F THEN n + 1 ELSE Remote(f)]
<1>2. n \in Nat /\ n \in 1 .. MaxCommits /\ n < MaxCommits /\ MaxCommits \in Nat
  BY DistributionAssumption, SMT DEF LogInv, Commit
<1>3. \A f \in File : Remote(f) \in 1 .. n
  BY LogFacts
<1> HIDE DEF n
<1>4. \A f \in File : T[f] \in 1 .. n + 1 /\ Remote(f) <= T[f]
  BY <1>2, <1>3, SMT
<1>5. T \in [File -> 1 .. MaxCommits]
  BY <1>2, <1>3, SMT
<1>6. log' = Append(log, T) /\ log \in Seq([File -> 1 .. MaxCommits]) /\ n = Len(log)
  BY <1>1 DEF LogInv, n
<1> HIDE DEF T
<1>7. /\ log' \in Seq([File -> 1 .. MaxCommits]) /\ Len(log') = n + 1
      /\ log'[n + 1] = T /\ \A i \in 1 .. n : log'[i] = log[i]
  BY <1>5, <1>6, SMT
<1>8. \A f \in File : Remote(f)' = T[f]
  BY <1>7 DEF Remote
<1>9. \A i \in 1 .. n + 1 : i = n + 1 \/ i \in 1 .. n
  BY <1>2, SMT
<1>10. LogInv'
  <2>1. Len(log') \in 1 .. MaxCommits
    BY <1>2, <1>7, SMT
  <2>2. ASSUME NEW i \in 1 .. n + 1, NEW f \in File PROVE log'[i][f] \in 1 .. i
    <3>1. CASE i = n + 1
      BY <1>4, <1>7, <3>1
    <3>2. CASE i \in 1 .. n
      BY <1>6, <1>7, <3>2 DEF LogInv, Commits
    <3>3. QED BY <1>9, <3>1, <3>2
  <2>3. ASSUME NEW i \in 1 .. n + 1, NEW j \in 1 .. n + 1, NEW f \in File, i <= j
        PROVE  log'[i][f] <= log'[j][f]
    <3>1. CASE j \in 1 .. n
      <4>1. i \in 1 .. n
        BY <1>2, <2>3, <3>1, SMT
      <4>2. QED BY <1>6, <1>7, <2>3, <3>1, <4>1 DEF LogInv, Commits
    <3>2. CASE j = n + 1
      <4>1. CASE i = n + 1
        BY <1>2, <1>4, <1>7, <3>2, <4>1, SMT
      <4>2. CASE i \in 1 .. n
        <5>1. log[i][f] <= Remote(f) /\ log[i][f] \in 1 .. n
          BY <1>6, <4>2, LogFacts DEF Commits
        <5>2. Remote(f) <= T[f] /\ Remote(f) \in 1 .. n /\ T[f] \in 1 .. n + 1
          BY <1>3, <1>4
        <5>3. log[i][f] <= T[f]
          BY <1>2, <5>1, <5>2, SMT
        <5>4. QED BY <1>7, <3>2, <4>2, <5>3
      <4>3. QED BY <1>9, <4>1, <4>2
    <3>3. QED BY <1>9, <3>1, <3>2
  <2>4. QED BY <1>7, <2>1, <2>2, <2>3 DEF LogInv, Commits
<1>11. \A f \in File : Remote(f) <= Remote(f)' /\ Remote(f)' \in Int /\ Remote(f) \in Int
  BY <1>2, <1>3, <1>4, <1>8, SMT
<1>12. QED BY <1>2, <1>6, <1>7, <1>10, <1>11 DEF Commits

LEMMA CommitNext ==
  ASSUME Inv, Commit
  PROVE  Inv' /\ Forward
<1>1. /\ LogInv /\ GitTypes /\ UrlTypes /\ PushTypes /\ VmTypes /\ faults \in 0 .. MaxFaults
      /\ WaitInv /\ GitStore /\ UrlStore /\ VersionInv /\ GitSends /\ UrlSends
      /\ work \in [File -> Content]
  BY DEF Inv, Types, GitTypes
<1>2. UNCHANGED <<work, head, oldHead, newHead, mon, todo, fetched, tries, source, task, cur, mem, saved,
                  torn, q, waits, updates, sending, reg, hello, have, owed, faults>>
  BY DEF Commit, repoVars, gitVars, urlVars, pushVars, vmVars
<1>3. /\ LogInv' /\ Len(log') = Len(log) + 1 /\ Len(log) \in Nat
      /\ \A i \in Commits : log'[i] = log[i]
      /\ \A f \in File : Remote(f) <= Remote(f)' /\ Remote(f)' \in Int /\ Remote(f) \in Int
  BY <1>1, CommitLog
<1>4. \A i \in 0 .. Len(log) : i \in 0 .. Len(log')
  BY <1>3, SMT
<1>5. Types'
  <2>1. GitTypes'
    BY <1>1, <1>2, <1>4 DEF GitTypes
  <2>2. UrlTypes'
    BY <1>1, <1>2, <1>4 DEF UrlTypes
  <2>3. PushTypes' /\ VmTypes'
    BY <1>1, <1>2 DEF PushTypes, VmTypes
  <2>4. QED BY <1>1, <1>2, <1>3, <2>1, <2>2, <2>3 DEF Types
<1>6. WaitInv'
  BY <1>1, <1>2 DEF WaitInv
<1>7. \A i, f : f \in File /\ i \in Commits => log'[i][f] = log[i][f]
  BY <1>3
<1>8. GitStore'
  <2>1. SUFFICES ASSUME source = "git", head # 0
                 PROVE  /\ \A f \in File : Between(f, newHead, Len(log))'
                        /\ mon = "checkout" =>
                             /\ \A f \in File : Between(f, newHead, fetched)'
                             /\ \A f \in File \ todo : work[f] = log'[fetched][f]
    BY <1>1, <1>2 DEF GitStore
  <2>2. newHead \in Commits
    BY <1>1, <2>1, HeadsFacts
  <2>3. \A i \in newHead .. Len(log) : i \in Commits /\ i \in newHead .. Len(log')
    BY <1>3, <2>2, SMT DEF Commits
  <2>4. ASSUME NEW f \in File PROVE Between(f, newHead, Len(log))'
    BY <1>1, <1>2, <1>7, <2>1, <2>3, SMT DEF GitStore, Between
  <2>5. ASSUME mon = "checkout"
        PROVE  /\ \A f \in File : Between(f, newHead, fetched)'
               /\ \A f \in File \ todo : work[f] = log'[fetched][f]
    <3>1. fetched # 0 /\ fetched \in Commits
      BY <1>1, <2>1, <2>5, SMT DEF GitStore, GitTypes, Commits
    <3>2. \A i \in newHead .. fetched : i \in Commits
      BY <1>3, <2>2, <3>1, SMT DEF Commits
    <3>3. QED BY <1>1, <1>2, <1>7, <2>1, <2>5, <3>1, <3>2, SMT DEF GitStore, Between
  <2>6. QED BY <2>4, <2>5
<1>9. UrlStore'
  <2>1. SUFFICES ASSUME source # "git", NEW f \in File PROVE UrlFile(f)'
    BY <1>2 DEF UrlStore
  <2>2. /\ UrlFile(f) /\ work[f] \in Int /\ cur[f] \in Int /\ task[f].head \in Int /\ task[f].body \in Int
    BY <2>1, UrlFacts, SMT
  <2>3. \A i \in Int : (i <= Remote(f) => i <= Remote(f)') /\ (i < Remote(f) => i < Remote(f)')
    BY <1>3, SMT
  <2>4. QED BY <1>2, <2>2, <2>3 DEF UrlFile
<1>10. VersionInv'
  <2>1. SUFFICES ASSUME NEW f \in File
                 PROVE  /\ work[f] <= Remote(f)' /\ NoneNewer(f, Remote(f))'
                        /\ mon \in {"checkout", "replace", "rename"} =>
                             log'[fetched][f] = log[fetched][f]
    BY <1>1, <1>2 DEF VersionInv, NoneNewer, Sends, InOrder
  <2>2. \A i \in Int : i <= Remote(f) => i <= Remote(f)'
    BY <1>3, SMT
  <2>3. work[f] \in Int /\ \A vm \in Vm : have[vm][f] \in Int /\ (Sends(vm, f) => sending[3] \in Int)
    BY <1>1, DistributionAssumption, SMT DEF VmTypes, PushTypes, Sends, Content, Torn
  <2>4. work[f] <= Remote(f) /\ NoneNewer(f, Remote(f))
    BY <1>1 DEF VersionInv
  <2>5. NoneNewer(f, Remote(f))'
    BY <1>2, <2>2, <2>3, <2>4 DEF NoneNewer, Sends
  <2>6. ASSUME mon \in {"checkout", "replace", "rename"} PROVE log'[fetched][f] = log[fetched][f]
    <3>1. fetched \in Commits
      BY <1>1, <1>3, <2>6, SMT DEF GitStore, GitTypes, Commits
    <3>2. QED BY <1>7, <3>1
  <2>7. QED BY <2>2, <2>3, <2>4, <2>5, <2>6
<1>11. GitSends'
  <2>1. SUFFICES ASSUME source = "git", NEW f \in File, NEW vm \in reg, vm \in Vms[f]
                 PROVE  /\ mon \in {"poll", "done"} /\ work[f] > 0 => Served(vm, f, work[f])'
                        /\ mon \in {"poll", "done"} /\ work[f] = Torn =>
                             Served(vm, f, log[newHead][f])'
                        /\ mon = "checkout" /\ f \notin Diff(newHead, fetched)' =>
                             Served(vm, f, log[newHead][f])'
    BY <1>2 DEF GitSends
  <2>2. UNCHANGED <<q, updates, sending, hello, have, owed, work, newHead, fetched>>
    BY <1>2
  <2>3. ASSUME mon \in {"poll", "done"}, work[f] > 0 PROVE Served(vm, f, work[f])'
    <3>1. Served(vm, f, work[f])
      BY <1>1, <2>1, <2>3 DEF GitSends
    <3>2. QED BY <2>2, <3>1 DEF Served, Queued, Sends
  <2>4. ASSUME mon \in {"poll", "done"}, work[f] = Torn PROVE Served(vm, f, log[newHead][f])'
    <3>1. Served(vm, f, log[newHead][f])
      BY <1>1, <2>1, <2>4 DEF GitSends
    <3>2. newHead \in Commits
      BY <1>1, <2>1, <2>4, HeadsFacts, SMT DEF GitStore, Absent, Torn
    <3>3. log'[newHead][f] = log[newHead][f]
      BY <1>7, <3>2
    <3>4. QED BY <2>2, <3>1, <3>3 DEF Served, Queued, Sends
  <2>5. ASSUME mon = "checkout", f \notin Diff(newHead, fetched)'
        PROVE  Served(vm, f, log[newHead][f])'
    <3>1. newHead \in Commits /\ fetched \in Commits
      BY <1>1, <2>5, SameFile
    <3>2. log'[newHead][f] = log[newHead][f] /\ log'[fetched][f] = log[fetched][f]
      BY <1>7, <3>1
    <3>3. f \notin Diff(newHead, fetched)
      BY <2>2, <2>5, <3>2 DEF Diff
    <3>4. Served(vm, f, log[newHead][f])
      BY <1>1, <2>1, <2>5, <3>3 DEF GitSends
    <3>5. QED BY <2>2, <3>2, <3>4 DEF Served, Queued, Sends
  <2>6. QED BY <2>3, <2>4, <2>5
<1>12. UrlSends'
  BY <1>1, <1>2 DEF UrlSends, Served, Queued, Sends
<1>13. Forward
  <2>1. \A vm \in Vm, f \in File : have[vm][f] \in Int
    BY <1>1, DistributionAssumption, SMT DEF VmTypes, Content, Torn
  <2>2. \A i \in Int : i >= i
    BY SMT
  <2>3. QED BY <1>2, <2>1, <2>2 DEF Forward
<1>14. QED BY <1>5, <1>6, <1>8, <1>9, <1>10, <1>11, <1>12, <1>13 DEF Inv

LEMMA RestartNext ==
  ASSUME Inv, Restart
  PROVE  Inv' /\ Forward
<1>1. /\ LogInv /\ GitTypes /\ UrlTypes /\ PushTypes /\ VmTypes /\ faults \in 0 .. MaxFaults
      /\ WaitInv /\ GitStore /\ UrlStore /\ VersionInv
      /\ work \in [File -> Content]
  BY DEF Inv, Types, GitTypes
<1>2. /\ q' = [vm \in Vm |-> <<>>] /\ waits' = [vm \in Vm |-> FALSE]
      /\ updates' = <<>> /\ sending' = <<>> /\ reg' = {} /\ hello' = {}
      /\ UNCHANGED <<log, work, source, head, saved, torn>> /\ Fault
      /\ RestartRepo \/ RestartUrls
  BY DEF Restart, RestartRepo, RestartUrls, urlVars
<1>3. /\ have' \in [Vm -> [File -> Content]] /\ owed' \subseteq Vm \X File
      /\ Keeps \/ Ends
  <2>1. CASE sending # <<>> /\ Arrives(sending[1], sending[2], sending[3])
    <3>1. sending[1] \in Vm /\ sending[2] \in File /\ sending[3] \in Content
      BY <1>1, <2>1 DEF PushTypes
    <3>2. QED BY <1>1, <1>2, <2>1, <3>1, ArrivesTypes DEF Ends
  <2>2. CASE UNCHANGED <<have, owed>>
    BY <1>1, <1>2, <2>2 DEF VmTypes, Keeps
  <2>3. QED BY <2>1, <2>2 DEF Restart
<1>4. GitTypes'
  <2>1. CASE RestartRepo
    BY <1>1, <1>2, <2>1, DistributionAssumption, SMT DEF GitTypes, RestartRepo
  <2>2. CASE RestartUrls
    BY <1>1, <1>2, <2>2 DEF GitTypes, RestartUrls
  <2>3. QED BY <1>2, <2>1, <2>2
<1>5. UrlTypes' /\ (source # "git" => \A f \in File : task'[f].at \in {"head", "done"})
  <2>1. CASE RestartRepo
    BY <1>1, <1>2, <2>1 DEF UrlTypes, RestartRepo, urlVars
  <2>2. CASE RestartUrls
    <3>1. \A f \in File : /\ Fresh(f) \in [at : Stage, head : 0 .. Len(log), body : 0 .. Len(log)]
                          /\ Fresh(f).at \in {"head", "done"}
      BY <1>1, DistributionAssumption, SMT DEF Fresh, At, Stage, LogInv
    <3>2. task' = [f \in File |-> Fresh(f)] /\ cur' = saved /\ mem' = saved
      BY <2>2 DEF RestartUrls
    <3>3. QED BY <1>1, <1>2, <3>1, <3>2 DEF UrlTypes
  <2>3. QED BY <1>2, <2>1, <2>2
<1>6. Types'
  <2>1. LogInv' /\ faults' \in 0 .. MaxFaults
    BY <1>1, <1>2, DistributionAssumption, SMT DEF LogInv, Commits, Fault
  <2>2. PushTypes'
    BY <1>2, SMT DEF PushTypes
  <2>3. VmTypes'
    BY <1>2, <1>3 DEF VmTypes
  <2>4. QED BY <1>4, <1>5, <2>1, <2>2, <2>3 DEF Types
<1>7. WaitInv'
  BY <1>2, SMT DEF WaitInv
<1>8. GitStore'
  <2>1. SUFFICES ASSUME source = "git" PROVE GitStore'
    BY <1>2 DEF GitStore
  <2>2. newHead' = head /\ mon' = "poll"
    BY <1>2, <2>1 DEF RestartRepo, RestartUrls
  <2>3. ASSUME head # 0
        PROVE  head <= head /\ \A f \in File : Between(f, newHead, Len(log))'
    <3>1. head \in Commits /\ newHead \in Commits /\ head <= newHead
      BY <1>1, <2>1, <2>3, HeadsFacts
    <3>2. head <= head /\ \A i \in newHead .. Len(log) : i \in head .. Len(log)
      BY <3>1, SMT DEF Commits
    <3>3. QED BY <1>1, <1>2, <2>1, <2>2, <2>3, <3>2 DEF GitStore, Between
  <2>4. QED BY <1>1, <1>2, <2>1, <2>2, <2>3 DEF GitStore
<1>9. UrlStore'
  <2>1. SUFFICES ASSUME source # "git", NEW f \in File PROVE UrlFile(f)'
    BY <1>2 DEF UrlStore
  <2>2. /\ UrlFile(f) /\ work[f] \in Int /\ cur[f] \in Int /\ mem[f] \in Int /\ saved[f] \in Int
        /\ Remote(f) \in Int
    BY <2>1, UrlFacts, SMT
  <2>3. saved[f] <= mem[f] /\ mem[f] <= cur[f] /\ saved[f] <= saved[f] /\ cur[f] <= Remote(f)
    BY <2>2, SMT DEF UrlFile
  <2>4. \A i \in Int : (cur[f] <= i => saved[f] <= i) /\ (cur[f] < i => saved[f] < i)
    BY <2>2, <2>3, SMT
  <2>5. cur' = saved /\ mem' = saved /\ saved' = saved /\ Remote(f)' = Remote(f)
    BY <1>2, <2>1 DEF RestartRepo, RestartUrls, Remote
  <2>6. task'[f].at \notin {"get", "write", "notify"}
    BY <1>5, <2>1
  <2>7. QED BY <1>2, <2>2, <2>3, <2>4, <2>5, <2>6 DEF UrlFile
<1>10. Forward /\ \A f \in File : InOrder(f)'
  <2>1. \A f \in File : InOrder(f) /\ (work[f] > 0 => NoneNewer(f, work[f]))
    BY <1>1 DEF VersionInv
  <2>2. QED BY <1>1, <1>3, <2>1, EffectForward
<1>11. VersionInv'
  <2>1. SUFFICES ASSUME NEW f \in File
                 PROVE  /\ work[f] <= Remote(f) /\ NoneNewer(f, Remote(f))'
                        /\ work[f] > 0 => NoneNewer(f, work[f])'
    <3>1. mon' \notin {"checkout", "replace", "rename"} /\ (mon' \in {"off", "dead"} => source # "git")
      BY <1>2 DEF RestartRepo, RestartUrls
    <3>2. QED BY <1>2, <1>5, <1>10, <3>1 DEF VersionInv, Remote
  <2>2. work[f] <= Remote(f) /\ NoneNewer(f, Remote(f))'
    <3>1. PICK c : c = Remote(f)
      OBVIOUS
    <3>2. c \in Int /\ NoneNewer(f, c) /\ work[f] <= c
      BY <1>1, <3>1, LogFacts, SMT DEF VersionInv
    <3>3. NoneNewer(f, c)'
      BY <1>1, <1>3, <3>2, EffectNoneNewer
    <3>4. QED BY <1>2, <3>1, <3>2, <3>3 DEF NoneNewer, Remote
  <2>3. ASSUME work[f] > 0 PROVE NoneNewer(f, work[f])'
    <3>1. PICK c : c = work[f]
      OBVIOUS
    <3>2. c \in Int /\ c <= c
      BY <1>1, <3>1, DistributionAssumption, SMT DEF Content, Torn
    <3>3. NoneNewer(f, c) /\ work[f] <= c
      BY <1>1, <2>3, <3>1, <3>2 DEF VersionInv
    <3>4. NoneNewer(f, c)'
      BY <1>1, <1>3, <3>2, <3>3, EffectNoneNewer
    <3>5. QED BY <1>2, <3>1, <3>4 DEF NoneNewer
  <2>4. QED BY <2>2, <2>3
<1>12. GitSends' /\ UrlSends'
  BY <1>2 DEF GitSends, UrlSends
<1>13. QED BY <1>6, <1>7, <1>8, <1>9, <1>10, <1>11, <1>12 DEF Inv

LEMMA InitInv == Init => Inv
<1> SUFFICES ASSUME Init PROVE Inv
  OBVIOUS
<1>0. {Retries, MaxCommits, MaxFaults} \subseteq Nat /\ MaxCommits > 0
  BY DistributionAssumption
<1>1. /\ log = <<[f \in File |-> 1]>> /\ source \in {"git", "header", "hash"}
      /\ \A f \in File : work[f] = 0 /\ cur[f] = 0 /\ mem[f] = 0 /\ saved[f] = 0
      /\ \A vm \in Vm, f \in File : have[vm][f] = 0
      /\ head = 0 /\ updates = <<>> /\ sending = <<>> /\ reg = {}
      /\ mon = (IF source = "git" THEN "poll" ELSE "off")
  BY DEF Init, NoFiles, Absent
<1>2. Len(log) = 1 /\ log[1] = [f \in File |-> 1] /\ Commits = {1} /\ \A f \in File : Remote(f) = 1
  BY <1>1, SMT DEF Commits, Remote
<1>3. LogInv
  <2>1. [f \in File |-> 1] \in [File -> 1 .. MaxCommits]
    BY <1>0, SMT
  <2>2. log \in Seq([File -> 1 .. MaxCommits]) /\ Len(log) \in 1 .. MaxCommits
    BY <1>0, <1>1, <1>2, <2>1, SMT
  <2>3. \A i \in Commits, f \in File : log[i][f] = 1 /\ i = 1
    BY <1>2
  <2>4. QED BY <2>2, <2>3, SMT DEF LogInv
<1>4. \A f \in File : /\ Fresh(f) \in [at : Stage, head : 0 .. Len(log), body : 0 .. Len(log)]
                      /\ task[f].at \in {"head", "done"}
  BY <1>2, SMT DEF Fresh, At, Stage, Init
<1>5. GitTypes
  BY <1>0, <1>2, SMT DEF Init, GitTypes, NoFiles, Absent, Content, Torn
<1>6. UrlTypes
  <2>1. torn = FALSE /\ task = [f \in File |-> Fresh(f)] /\ cur = NoFiles /\ mem = NoFiles /\ saved = NoFiles
    BY DEF Init
  <2>2. NoFiles \in [File -> 0 .. Len(log)]
    <3>1. 0 \in 0 .. 1
      BY SMT
    <3>2. 0 \in 0 .. Len(log)
      BY <1>2, <3>1
    <3>3. QED BY <3>2 DEF NoFiles, Absent
  <2>3. task \in [File -> [at : Stage, head : 0 .. Len(log), body : 0 .. Len(log)]]
    BY <1>4, <2>1
  <2>4. torn \in BOOLEAN
    BY <2>1
  <2>5. QED BY <2>1, <2>2, <2>3, <2>4 DEF UrlTypes
<1>7. PushTypes
  BY SMT DEF Init, PushTypes
<1>8. VmTypes
  <2>1. 0 \in Content
    BY <1>0, SMT DEF Content, Torn
  <2>2. NoFiles \in [File -> Content]
    BY <2>1 DEF NoFiles, Absent
  <2>3. reg = {} /\ hello = {} /\ have = [vm \in Vm |-> NoFiles] /\ owed = {}
    BY DEF Init
  <2>4. QED BY <2>2, <2>3 DEF VmTypes
<1>9. Types /\ WaitInv
  BY <1>0, <1>3, <1>5, <1>6, <1>7, <1>8, SMT DEF Types, WaitInv, Init
<1>10. GitStore
  BY <1>1 DEF GitStore, Absent
<1>11. UrlStore
  BY <1>1, <1>2, <1>4, SMT DEF UrlStore, UrlFile, Torn
<1>12. VersionInv
  <2>1. SUFFICES ASSUME NEW f \in File
                 PROVE  work[f] <= Remote(f) /\ NoneNewer(f, Remote(f)) /\ ~(work[f] > 0) /\ InOrder(f)
    BY <1>1, <1>4 DEF VersionInv
  <2>2. work[f] = 0 /\ Remote(f) = 1
    BY <1>1, <1>2
  <2>3. NoneNewer(f, Remote(f)) /\ InOrder(f)
    BY <1>1, <2>2, SMT DEF NoneNewer, InOrder, Sends
  <2>4. QED BY <2>2, <2>3, SMT
<1>13. GitSends /\ UrlSends
  BY <1>1 DEF GitSends, UrlSends
<1>14. QED BY <1>9, <1>10, <1>11, <1>12, <1>13 DEF Inv

LEMMA NextInv == Inv /\ [Next]_vars => Inv' /\ [Forward]_vars
<1> SUFFICES ASSUME Inv, [Next]_vars PROVE Inv' /\ [Forward]_vars
  OBVIOUS
<1>1. CASE Commit \/ Monitor \/ Restart
  BY <1>1, CommitNext, MonitorNext, RestartNext
<1>2. CASE Push \/ \E vm \in Vm : Register(vm) \/ Welcome(vm) \/ WelcomeFails(vm)
  BY <1>2, PushNext DEF PushStep
<1>3. CASE \E f \in File : UrlTask(f)
  BY <1>3, UrlTaskNext
<1>4. CASE StartFails \/ UNCHANGED vars
  <2>1. UNCHANGED vars
    BY <1>4 DEF StartFails
  <2>2. Inv'
    <3>1. UNCHANGED <<log, work, head, oldHead, newHead, mon, todo, fetched, tries, source, task, cur, mem,
                      saved, torn, q, waits, updates, sending, reg, hello, have, owed, faults>>
      BY <2>1 DEF vars, repoVars, gitVars, urlVars, pushVars, vmVars
    <3>2. Types'
      BY <3>1 DEF Inv, Types, LogInv, Commits, GitTypes, UrlTypes, PushTypes, VmTypes
    <3>3. WaitInv' /\ GitStore' /\ UrlStore'
      BY <3>1 DEF Inv, WaitInv, GitStore, UrlStore, UrlFile, Between, Remote
    <3>4. VersionInv'
      BY <3>1 DEF Inv, VersionInv, NoneNewer, InOrder, Sends, Remote
    <3>5. ASSUME NEW vm, NEW f
          PROVE  /\ Served(vm, f, work[f])' <=> Served(vm, f, work[f])
                 /\ Served(vm, f, log[newHead][f])' <=> Served(vm, f, log[newHead][f])
      <4>1. (Queued(vm, f)' <=> Queued(vm, f)) /\ (Sends(vm, f)' <=> Sends(vm, f))
        BY <3>1 DEF Queued, Sends
      <4>2. QED BY <3>1, <4>1 DEF Served
    <3>6. Diff(newHead, fetched)' = Diff(newHead, fetched)
      BY <3>1 DEF Diff
    <3>7. GitSends' /\ UrlSends'
      BY <3>1, <3>5, <3>6 DEF Inv, GitSends, UrlSends
    <3>8. QED BY <3>2, <3>3, <3>4, <3>7 DEF Inv
  <2>3. QED BY <2>1, <2>2
<1>5. QED BY <1>1, <1>2, <1>3, <1>4 DEF Next

-----------------------------------------------------------------------------
(* The theorems.                                                           *)

LEMMA InvTypeOK == Inv => TypeOK
<1> SUFFICES ASSUME Inv PROVE TypeOK
  OBVIOUS
<1>1. /\ LogInv /\ GitTypes /\ UrlTypes /\ PushTypes /\ VmTypes /\ faults \in 0 .. MaxFaults /\ WaitInv
  BY DEF Inv, Types
<1>2. /\ log \in Seq([File -> 1 .. MaxCommits]) /\ Len(log) \in 1 .. MaxCommits
      /\ work \in [File -> Content] /\ {head, oldHead, newHead, fetched} \subseteq 0 .. Len(log)
      /\ mon \in {"poll", "checkout", "clone", "replace", "rename", "force", "done", "off", "dead"}
      /\ source \in {"git", "header", "hash"} /\ todo \subseteq File /\ tries \in 0 .. Retries
  BY <1>1 DEF LogInv, GitTypes
<1>3. /\ task \in [File -> [at : Stage, head : 0 .. Len(log), body : 0 .. Len(log)]]
      /\ \A h \in {cur, mem, saved} : h \in [File -> 0 .. Len(log)]
      /\ torn \in BOOLEAN
  BY <1>1 DEF UrlTypes
<1>4. /\ \A vm \in Vm : q[vm] \in Seq(File)
      /\ \A u \in Range(updates) : u \in Vm \X File
      /\ sending # <<>> => sending \in Vm \X File \X Content
  BY <1>1, SMT DEF PushTypes, Range
<1>5. waits \in [Vm -> BOOLEAN]
  BY <1>1 DEF PushTypes
<1>6. reg \subseteq Vm /\ hello \subseteq reg /\ have \in [Vm -> [File -> Content]] /\ owed \subseteq Vm \X File
  BY <1>1 DEF VmTypes
<1>7. /\ \A i, j \in DOMAIN updates : updates[i][1] = updates[j][1] => i = j
      /\ sending # <<>> => \A u \in Range(updates) : u[1] # sending[1]
      /\ \A vm \in Vm :
           waits[vm] <=> \/ \E u \in Range(updates) : u[1] = vm
                         \/ sending # <<>> /\ sending[1] = vm
  <2>1. DOMAIN updates = 1 .. Len(updates)
    BY <1>1, SMT DEF PushTypes
  <2>2. QED BY <1>1, <2>1, SMTT(60) DEF WaitInv, Range
<1>8. QED BY <1>1, <1>2, <1>3, <1>4, <1>5, <1>6, <1>7, Zenon DEF TypeOK

LEMMA InvDelivered == Inv => Delivered
<1> SUFFICES ASSUME Inv, NEW f \in File, Quiet(f), work[f] > 0, NEW vm \in reg \cap Vms[f]
             PROVE  have[vm][f] = work[f] \/ Pending(vm, f) \/ <<vm, f>> \in owed
  BY DEF Delivered
<1>1. GitSends /\ UrlSends
  BY DEF Inv
<1>2. Served(vm, f, work[f])
  BY <1>1 DEF Quiet, GitSends, UrlSends
<1>3. QED BY <1>2 DEF Served, Queued, Sends, Pending

LEMMA InvHeadIsStored == Inv => HeadIsStored
<1> SUFFICES ASSUME Inv, source # "git", NEW f \in File, Remote(f) \in {cur[f], mem[f], saved[f]}
             PROVE  work[f] = Remote(f)
  BY DEF HeadIsStored
<1>1. /\ UrlFile(f) /\ work[f] \in Int /\ cur[f] \in Int /\ mem[f] \in Int /\ saved[f] \in Int
      /\ Remote(f) \in Int
  BY UrlFacts, SMT
<1>2. /\ saved[f] <= mem[f] /\ mem[f] <= cur[f] /\ cur[f] <= Remote(f)
      /\ work[f] # Torn => cur[f] <= work[f] /\ work[f] <= Remote(f)
      /\ work[f] = Torn => cur[f] < Remote(f)
  BY <1>1 DEF UrlFile
<1>3. QED BY <1>1, <1>2, SMT

\* Every variable has its type, and a worker waits exactly while its one update
\* is in the channel or with the consumer (policy_manager.rs 218-284): for any
\* number of VMs and policies, no VM is sent two files at a time.
THEOREM DistributionTypes == Spec => []TypeOK
BY InitInv, NextInv, InvTypeOK, PTL DEF Spec

\* Whatever fails, is restarted or overtakes: while its file is not being
\* changed, a registered subscriber has what the store has, or it is on its way,
\* or its loss is one of those the code makes (policy_repo.rs 267-319,
\* policy_urls.rs 171-219, policy_manager.rs 115-141, server.rs 564-577).
THEOREM PoliciesDelivered == Spec => []Delivered
BY InitInv, NextInv, InvDelivered, PTL DEF Spec

\* A head that ends a poll is that of a file that is whole in the store
\* (policy_urls.rs 259-266 and 285), also after failures and restarts.
THEOREM HeadsAreStored == Spec => []HeadIsStored
BY InitInv, NextInv, InvHeadIsStored, PTL DEF Spec

\* No VM that holds a whole file is ever sent an older one (server.rs 239-265,
\* with what the monitors write to the store).
THEOREM NeverRollsBack == Spec => NoRollback
<1>1. Inv /\ [Next]_vars =>
        [\A vm \in Vm, f \in File : have'[vm][f] # Torn => have'[vm][f] >= have[vm][f]]_vars
  BY NextInv DEF Forward
<1>2. QED BY InitInv, NextInv, <1>1, PTL DEF Spec, NoRollback
=============================================================================
