---------------------------- MODULE DnsUpdateProofs ----------------------------
(***************************************************************************)
(* The safety of concurrent DNS updates, for any number of calls, names,   *)
(* values and commits from elsewhere.                                      *)
(***************************************************************************)
EXTENDS DnsUpdate, ZoneFileProofs

(***************************************************************************)
(* The inductive invariant.  Serialised alone is not inductive: that a     *)
(* pushed tree is an edit of the commit before it comes from what the call *)
(* had in its clone, which WorkInProgress keeps.  RepliesExplained keeps   *)
(* why a call was answered as it was.                                      *)
(***************************************************************************)
LogTerminated == \A i \in 1..Len(log) : TerminatedTree(log[i].tree)

Explained(r) ==
    /\ reply[r] # "None" => pc[r] \in {"orphan", "done"}
    /\ reply[r] = "OK" => pc[r] = "done"
    /\ reply[r] = "NothingToCommit" =>
           /\ pc[r] = "done"
           /\ job[r] \in Jobs
           /\ clone[r].base \in 1..Len(log)
           /\ log[clone[r].base].tree[ZoneOf(job[r].fqdn)] # NoFile
           /\ Edited(log[clone[r].base].tree, job[r]) = log[clone[r].base].tree
    /\ ~ RemoteMayRefuse /\ reply[r] = "OK" /\ ~ Landed(r) =>
           clone[r].base \in 1..(Len(log) - 1)

RepliesExplained == \A r \in Requests : Explained(r)

IInv == TypeOK /\ LogTerminated /\ WorkInProgress /\ Serialised /\ RepliesExplained

-----------------------------------------------------------------------------
LEMMA EditedTree ==
    ASSUME NEW tree \in Trees, TerminatedTree(tree),
           NEW j \in Jobs, tree[ZoneOf(j.fqdn)] # NoFile
    PROVE  Edited(tree, j) \in Trees /\ TerminatedTree(Edited(tree, j))
<1> DEFINE zone == ZoneOf(j.fqdn)
           owner == OwnerOf(j.fqdn)
           file == WriteRecordFile(tree[zone], owner, j.value)
<1>1. /\ zone \in Zones /\ owner \in Words /\ j.value \in Words \cup {NoValue}
  BY JobsAssumption
<1> HIDE DEF zone, owner
<1>2. tree[zone] \in Seq(Lines) /\ Terminated(tree[zone])
  BY <1>1 DEF Trees, TerminatedTree, zone
<1>3. file \in Seq(Lines) /\ Terminated(file)
  BY <1>1, <1>2, EditSparesOthers
<1>4. Edited(tree, j) = [tree EXCEPT ![zone] = file]
  BY DEF Edited, zone, owner
<1> HIDE DEF file
<1> QED
  BY <1>1, <1>3, <1>4 DEF Trees, TerminatedTree

LEMMA TreesOfTheLog ==
    ASSUME IInv
    PROVE  /\ log \in Seq(Commits) /\ Len(log) \in Nat /\ Len(log) >= 1
           /\ \A i \in 1..Len(log) : /\ log[i] \in Commits
                                     /\ log[i].tree \in Trees
                                     /\ TerminatedTree(log[i].tree)
           /\ Tip \in Trees /\ TerminatedTree(Tip)
<1>1. log \in Seq(Commits) /\ Len(log) \in Nat /\ Len(log) >= 1
  BY DEF IInv, TypeOK
<1>2. ASSUME NEW i \in 1..Len(log)
      PROVE  log[i] \in Commits /\ log[i].tree \in Trees /\ TerminatedTree(log[i].tree)
  <2>1. log[i] \in Commits
    BY <1>1
  <2>2. log[i].tree \in Trees
    BY <2>1 DEF Commits
  <2> QED
    BY <2>1, <2>2 DEF IInv, LogTerminated
<1> QED
  BY <1>1, <1>2 DEF Tip

\* What a commit adds to the branch.
LEMMA Grown ==
    ASSUME log \in Seq(Commits), NEW e \in Commits, log' = Append(log, e)
    PROVE  /\ log' \in Seq(Commits)
           /\ Len(log') = Len(log) + 1
           /\ \A i \in 1..Len(log) : log'[i] = log[i]
           /\ log'[Len(log) + 1] = e
           /\ \A r \in Requests : Landed(r)' <=> Landed(r) \/ e.by = r
<1>1. /\ log' \in Seq(Commits)
      /\ Len(log') = Len(log) + 1
      /\ \A i \in 1..Len(log) : log'[i] = log[i]
      /\ log'[Len(log) + 1] = e
  BY AppendProperties
<1>2. Len(log) \in Nat
  OBVIOUS
<1>3. 1..Len(log') = 1..Len(log) \cup {Len(log) + 1}
  BY <1>1, <1>2
<1>4. ASSUME NEW r \in Requests PROVE Landed(r)' <=> Landed(r) \/ e.by = r
  BY <1>1, <1>3 DEF Landed
<1> QED
  BY <1>1, <1>4

\* A call is not disturbed by a step that leaves its own state alone, whatever
\* commit of another the step may add to the branch.
LEMMA Frame ==
    ASSUME IInv, NEW q \in Requests,
           pc'[q] = pc[q], job'[q] = job[q], clone'[q] = clone[q], reply'[q] = reply[q],
           \/ log' = log
           \/ \E e \in Commits : log' = Append(log, e) /\ e.by # q
    PROVE  WorksOnAPastCommit(q)' /\ Explained(q)'
<1>1. WorksOnAPastCommit(q) /\ Explained(q) /\ log \in Seq(Commits)
  BY DEF IInv, WorkInProgress, RepliesExplained, TypeOK
<1>2. /\ Len(log) \in Nat /\ Len(log') \in Nat
      /\ Len(log) =< Len(log')
      /\ \A i \in 1..Len(log) : log'[i] = log[i]
      /\ Landed(q)' <=> Landed(q)
  <2>1. CASE log' = log
    BY <1>1, <2>1 DEF Landed
  <2>2. CASE \E e \in Commits : log' = Append(log, e) /\ e.by # q
    BY <1>1, <2>2, Grown
  <2> QED
    BY <2>1, <2>2
<1>3. WorksOnAPastCommit(q)'
  BY <1>1, <1>2 DEF WorksOnAPastCommit
<1>4. Explained(q)'
  BY <1>1, <1>2 DEF Explained
<1> QED
  BY <1>3, <1>4

\* A step of one call that leaves the branch alone.
LEMMA QuietStep ==
    ASSUME IInv, NEW r \in Requests, pc[r] # "done", log' = log, TypeOK',
           \A q \in Requests \ {r} : /\ pc'[q] = pc[q] /\ job'[q] = job[q]
                                     /\ clone'[q] = clone[q] /\ reply'[q] = reply[q],
           WorksOnAPastCommit(r)', Explained(r)'
    PROVE  IInv'
<1>1. LogTerminated'
  BY DEF IInv, LogTerminated
<1>2. ASSUME NEW q \in Requests
      PROVE  WorksOnAPastCommit(q)' /\ Explained(q)'
  <2>1. CASE q = r
    BY <2>1
  <2>2. CASE q # r
    BY <2>2, Frame
  <2> QED
    BY <2>1, <2>2
<1>3. Serialised'
  <2> SUFFICES ASSUME NEW i \in 1..Len(log), log[i].by \in Requests
               PROVE  LET q == log[i].by
                      IN  /\ i >= 2
                          /\ clone'[q].base = i - 1
                          /\ log[i].tree = Edited(log[i - 1].tree, job'[q])
    BY DEF Serialised
  <2>1. log[i].by # r
    BY DEF IInv, WorkInProgress, WorksOnAPastCommit, Landed
  <2> QED
    BY <2>1 DEF IInv, Serialised
<1> QED
  BY <1>1, <1>2, <1>3 DEF IInv, WorkInProgress, RepliesExplained

\* The push of a call is taken.
LEMMA LandingStep ==
    ASSUME IInv, NEW r \in Requests, pc[r] \in {"push", "orphan"}, FastForward(r),
           job' = job, clone' = clone, pc' = [pc EXCEPT ![r] = "done"],
           \/ pc[r] = "push" /\ reply' = [reply EXCEPT ![r] = "OK"]
           \/ pc[r] = "push" /\ reply' = [reply EXCEPT ![r] = "GitFailed"]
           \/ pc[r] = "orphan" /\ reply' = reply
    PROVE  IInv'
<1> DEFINE e == [tree |-> clone[r].tree, by |-> r]
           base == log[Len(log)].tree
<1>1. /\ log \in Seq(Commits) /\ Len(log) \in Nat /\ Len(log) >= 1
      /\ clone[r].base = Len(log) /\ log' = Append(log, e)
      /\ job[r] \in Jobs /\ ~ Landed(r)
      /\ clone[r].tree = Edited(base, job[r])
      /\ base[ZoneOf(job[r].fqdn)] # NoFile
  BY DEF IInv, TypeOK, WorkInProgress, WorksOnAPastCommit, FastForward
<1>2. Len(log) \in 1..Len(log)
  BY <1>1
<1>3. base \in Trees /\ TerminatedTree(base)
  BY <1>2, TreesOfTheLog
<1>4. e \in Commits /\ TerminatedTree(e.tree)
  BY <1>1, <1>3, EditedTree DEF Commits
<1>5. /\ log' \in Seq(Commits)
      /\ Len(log') = Len(log) + 1
      /\ \A i \in 1..Len(log) : log'[i] = log[i]
      /\ log'[Len(log) + 1] = e
      /\ \A q \in Requests : Landed(q)' <=> Landed(q) \/ e.by = q
  BY <1>1, <1>4, Grown
<1>6. \A i \in 1..Len(log') : i \in 1..Len(log) \/ i = Len(log) + 1
  BY <1>1, <1>5
<1>7. TypeOK'
  <2>1. /\ pc \in [Requests -> Steps] /\ reply \in [Requests -> Replies]
        /\ job \in [Requests -> Jobs \cup {NoJob}]
        /\ clone \in [Requests -> [base : Nat, tree : Trees]]
    BY DEF IInv, TypeOK
  <2>2. pc' \in [Requests -> Steps] /\ reply' \in [Requests -> Replies]
    BY <2>1 DEF Steps, Replies
  <2>3. log' \in Seq(Commits) /\ Len(log') >= 1
    BY <1>1, <1>5
  <2> QED
    BY <2>1, <2>2, <2>3 DEF TypeOK
<1>8. LogTerminated'
  <2> HIDE DEF e
  <2> QED
    BY <1>4, <1>5, <1>6 DEF IInv, LogTerminated
<1>9. ASSUME NEW q \in Requests
      PROVE  WorksOnAPastCommit(q)' /\ Explained(q)'
  <2>1. CASE q = r
    <3>1. pc'[r] = "done" /\ Landed(r)' /\ job'[r] \in Jobs
      BY <1>1, <1>5 DEF IInv, TypeOK
    <3>2. reply'[r] # "NothingToCommit"
      BY DEF IInv, TypeOK, RepliesExplained, Explained
    <3> QED
      BY <2>1, <3>1, <3>2 DEF WorksOnAPastCommit, Explained
  <2>2. CASE q # r
    <3>1. pc'[q] = pc[q] /\ reply'[q] = reply[q]
      BY <2>2 DEF IInv, TypeOK
    <3>2. e.by # q
      BY <2>2
    <3> HIDE DEF e
    <3> QED
      BY <1>1, <1>4, <3>1, <3>2, Frame
  <2> QED
    BY <2>1, <2>2
<1>10. Serialised'
  <2> SUFFICES ASSUME NEW i \in 1..Len(log'), log'[i].by \in Requests
               PROVE  LET q == log'[i].by
                      IN  /\ i >= 2
                          /\ clone[q].base = i - 1
                          /\ log'[i].tree = Edited(log'[i - 1].tree, job[q])
    BY DEF Serialised
  <2>1. CASE i \in 1..Len(log)
    <3>1. log'[i] = log[i]
      BY <1>5, <2>1
    <3>2. /\ i >= 2
          /\ clone[log[i].by].base = i - 1
          /\ log[i].tree = Edited(log[i - 1].tree, job[log[i].by])
      BY <2>1, <3>1 DEF IInv, Serialised
    <3>3. i - 1 \in 1..Len(log)
      BY <1>1, <2>1, <3>2
    <3> QED
      BY <1>5, <3>1, <3>2, <3>3
  <2>2. CASE i = Len(log) + 1
    <3>1. log'[i].by = r /\ log'[i].tree = Edited(base, job[r]) /\ log'[i - 1] = log[Len(log)]
      BY <1>1, <1>2, <1>5, <2>2
    <3> QED
      BY <1>1, <2>2, <3>1
  <2> QED
    BY <1>6, <2>1, <2>2
<1> QED
  BY <1>7, <1>8, <1>9, <1>10 DEF IInv, WorkInProgress, RepliesExplained

\* A commit from elsewhere.
LEMMA OperatorStep ==
    ASSUME IInv, NEW zone \in Zones, NEW content \in Seq(Lines), Terminated(content),
           OperatorPush(zone, content)
    PROVE  IInv'
<1> DEFINE tree == [Tip EXCEPT ![zone] = content]
           e == [tree |-> tree, by |-> Operator]
<1>1. /\ log \in Seq(Commits) /\ Len(log) \in Nat /\ Len(log) >= 1
      /\ log' = Append(log, e) /\ UNCHANGED <<job, pc, clone, reply>>
  BY DEF IInv, TypeOK, OperatorPush
<1>2. Len(log) \in 1..Len(log)
  BY <1>1
<1>3. Tip \in Trees /\ TerminatedTree(Tip)
  BY TreesOfTheLog
<1>4. tree \in Trees /\ TerminatedTree(tree)
  BY <1>3 DEF Trees, TerminatedTree
<1> HIDE DEF tree
<1>5. e \in Commits /\ e.by \notin Requests /\ e.tree = tree
  BY <1>4, JobsAssumption DEF Commits
<1> HIDE DEF e
<1>6. /\ log' \in Seq(Commits)
      /\ Len(log') = Len(log) + 1
      /\ \A i \in 1..Len(log) : log'[i] = log[i]
      /\ log'[Len(log) + 1] = e
  BY <1>1, <1>5, Grown
<1>7. \A i \in 1..Len(log') : i \in 1..Len(log) \/ i = Len(log) + 1
  BY <1>1, <1>6
<1>8. TypeOK'
  BY <1>1, <1>6 DEF IInv, TypeOK
<1>9. LogTerminated'
  BY <1>4, <1>5, <1>6, <1>7 DEF IInv, LogTerminated
<1>10. \A q \in Requests : WorksOnAPastCommit(q)' /\ Explained(q)'
  BY <1>1, <1>5, Frame
<1>11. Serialised'
  <2> SUFFICES ASSUME NEW i \in 1..Len(log'), log'[i].by \in Requests
               PROVE  LET q == log'[i].by
                      IN  /\ i >= 2
                          /\ clone[q].base = i - 1
                          /\ log'[i].tree = Edited(log'[i - 1].tree, job[q])
    BY <1>1 DEF Serialised
  <2>1. i \in 1..Len(log) /\ log'[i] = log[i]
    BY <1>5, <1>6, <1>7
  <2>2. /\ i >= 2
        /\ clone[log[i].by].base = i - 1
        /\ log[i].tree = Edited(log[i - 1].tree, job[log[i].by])
    BY <2>1 DEF IInv, Serialised
  <2>3. i - 1 \in 1..Len(log)
    BY <1>1, <2>1, <2>2
  <2> QED
    BY <1>6, <2>1, <2>2, <2>3
<1> QED
  BY <1>8, <1>9, <1>10, <1>11 DEF IInv, WorkInProgress, RepliesExplained

LEMMA OperatorContents ==
    ASSUME IInv, NEW zone \in Zones
    PROVE  /\ \A line \in HostLines : OperatorAdds(zone, line) => IInv'
           /\ \A j \in Jobs : OperatorRemoves(j) => IInv'
<1>1. ASSUME NEW z \in Zones, Tip[z] # NoFile
      PROVE  Tip[z] \in Seq(Lines) /\ Terminated(Tip[z])
  BY <1>1, TreesOfTheLog DEF Trees, TerminatedTree
<1>2. ASSUME NEW line \in HostLines, OperatorAdds(zone, line) PROVE IInv'
  <2> DEFINE content == IF Tip[zone] = NoFile THEN <<line>> ELSE Joined(Tip[zone], line)
  <2>1. line \in Lines /\ line.ended
    BY RepositoryAssumption
  <2>2. content \in Seq(Lines) /\ Terminated(content)
    <3>1. CASE Tip[zone] = NoFile
      <4>1. <<line>> \in Seq(Lines) /\ Terminated(<<line>>)
        BY <2>1 DEF Terminated
      <4> QED
        BY <3>1, <4>1
    <3>2. CASE Tip[zone] # NoFile
      <4> DEFINE file == Tip[zone]
      <4>1. file \in Seq(Lines) /\ Terminated(file)
        BY <1>1, <3>2
      <4> HIDE DEF file
      <4>2. EndsWithNewline(file)
        <5>1. file # << >> => Len(file) \in 1..Len(file)
          BY <4>1
        <5> QED
          BY <4>1, <5>1 DEF EndsWithNewline, Terminated
      <4>3. Joined(file, line) = Append(file, line)
        BY <4>2 DEF Joined
      <4>4. /\ Append(file, line) \in Seq(Lines)
            /\ LinesIn(Append(file, line)) = LinesIn(file) \cup {line}
        BY <2>1, <4>1, LinesInAppend
      <4>5. Terminated(Append(file, line))
        BY <2>1, <4>1, <4>4, LinesGiveTermination
      <4>6. content = Append(file, line)
        BY <3>2, <4>3 DEF file
      <4> QED
        BY <4>4, <4>5, <4>6
    <3> QED
      BY <3>1, <3>2
  <2>3. OperatorPush(zone, content)
    BY <1>2 DEF OperatorAdds
  <2> HIDE DEF content
  <2> QED
    BY <2>2, <2>3, OperatorStep
<1>3. ASSUME NEW j \in Jobs, OperatorRemoves(j) PROVE IInv'
  <2> DEFINE file == Tip[ZoneOf(j.fqdn)]
             content == RemoveEntries(file, OwnerOf(j.fqdn))
  <2>1. ZoneOf(j.fqdn) \in Zones /\ file # NoFile
    BY <1>3, JobsAssumption DEF OperatorRemoves
  <2>2. file \in Seq(Lines) /\ Terminated(file)
    BY <1>1, <2>1
  <2>3. OperatorPush(ZoneOf(j.fqdn), content)
    BY <1>3 DEF OperatorRemoves
  <2> HIDE DEF file
  <2>4. content \in Seq(Lines) /\ Terminated(content)
    BY <2>2, RemoveEntriesLines, LinesGiveTermination
  <2> QED
    BY <2>1, <2>3, <2>4, OperatorStep
<1> QED
  BY <1>2, <1>3

LEMMA InitIInv == Init => IInv
<1> SUFFICES ASSUME Init PROVE IInv
  OBVIOUS
<1> DEFINE e == [tree |-> InitialTree, by |-> Operator]
<1>1. InitialTree \in Trees /\ TerminatedTree(InitialTree)
  BY RepositoryAssumption
<1>2. e \in Commits /\ e.by \notin Requests /\ e.tree = InitialTree
  BY <1>1, JobsAssumption DEF Commits
<1> HIDE DEF e
<1>3. log = <<e>>
  BY DEF Init, e
<1>4. log \in Seq(Commits) /\ Len(log) = 1 /\ log[1] = e
  BY <1>2, <1>3
<1>5. TypeOK
  BY <1>1, <1>4 DEF Init, TypeOK, NoClone, Steps, Replies
<1>6. LogTerminated
  BY <1>1, <1>2, <1>4 DEF LogTerminated
<1>7. \A r \in Requests : ~ Landed(r)
  BY <1>2, <1>4 DEF Landed
<1>8. WorkInProgress
  BY <1>7 DEF Init, WorkInProgress, WorksOnAPastCommit
<1>9. Serialised
  BY <1>2, <1>4 DEF Serialised
<1>10. RepliesExplained
  BY DEF Init, RepliesExplained, Explained
<1> QED
  BY <1>5, <1>6, <1>8, <1>9, <1>10 DEF IInv

LEMMA ProgressKeepsIInv ==
    ASSUME IInv, NEW r \in Requests, Progress(r)
    PROVE  IInv'
<1>1. /\ TypeOK /\ WorksOnAPastCommit(r) /\ Explained(r)
      /\ log \in Seq(Commits) /\ Len(log) \in Nat /\ Len(log) >= 1
      /\ Tip \in Trees
  BY TreesOfTheLog DEF IInv, WorkInProgress, RepliesExplained
<1>2. CASE CloneTip(r)
  <2>1. TypeOK'
    BY <1>1, <1>2 DEF CloneTip, TypeOK, Steps
  <2>2. WorksOnAPastCommit(r)'
    BY <1>1, <1>2 DEF CloneTip, TypeOK, WorksOnAPastCommit, Landed, Tip
  <2>3. Explained(r)'
    BY <1>1, <1>2 DEF CloneTip, TypeOK, Explained
  <2> QED
    BY <1>2, <2>1, <2>2, <2>3, QuietStep DEF CloneTip, TypeOK
<1>3. CASE GitFails(r) \/ NoZoneFile(r)
  <2>1. TypeOK'
    BY <1>1, <1>3 DEF GitFails, NoZoneFile, Answer, TypeOK, Steps, Replies
  <2>2. WorksOnAPastCommit(r)'
    BY <1>1, <1>3 DEF GitFails, NoZoneFile, Answer, TypeOK, WorksOnAPastCommit
  <2>3. Explained(r)'
    BY <1>1, <1>3 DEF GitFails, NoZoneFile, Answer, TypeOK, Explained
  <2> QED
    BY <1>1, <1>3, <2>1, <2>2, <2>3, QuietStep DEF GitFails, NoZoneFile, Answer, TypeOK
<1>4. CASE NothingToCommit(r)
  <2>1. TypeOK'
    BY <1>1, <1>4 DEF NothingToCommit, Answer, TypeOK, Steps, Replies
  <2>2. WorksOnAPastCommit(r)'
    BY <1>1, <1>4 DEF NothingToCommit, Answer, TypeOK, WorksOnAPastCommit
  <2>3. Explained(r)'
    BY <1>1, <1>4 DEF NothingToCommit, HasZoneFile, Answer, TypeOK, WorksOnAPastCommit, Explained
  <2> QED
    BY <1>1, <1>4, <2>1, <2>2, <2>3, QuietStep DEF NothingToCommit, Answer, TypeOK
<1>5. CASE Commit(r)
  <2> DEFINE base == clone[r].tree
  <2>1. /\ clone[r].base \in 1..Len(log) /\ base = log[clone[r].base].tree
        /\ job[r] \in Jobs /\ base[ZoneOf(job[r].fqdn)] # NoFile
    BY <1>1, <1>5 DEF Commit, HasZoneFile, WorksOnAPastCommit
  <2>2. Edited(base, job[r]) \in Trees
    BY <2>1, TreesOfTheLog, EditedTree
  <2>3. /\ clone' = [clone EXCEPT ![r] = [base |-> clone[r].base, tree |-> Edited(base, job[r])]]
        /\ pc' = [pc EXCEPT ![r] = "push"]
        /\ UNCHANGED <<log, job, reply>>
    BY <1>1, <1>5 DEF Commit, TypeOK
  <2>4. TypeOK'
    BY <1>1, <2>2, <2>3 DEF TypeOK, Steps
  <2>5. WorksOnAPastCommit(r)'
    BY <1>1, <1>5, <2>1, <2>3 DEF Commit, TypeOK, WorksOnAPastCommit, Landed
  <2>6. Explained(r)'
    BY <1>1, <1>5, <2>3 DEF Commit, TypeOK, Explained
  <2> QED
    BY <1>1, <1>5, <2>3, <2>4, <2>5, <2>6, QuietStep DEF Commit, TypeOK
<1>6. CASE PushLands(r)
  BY <1>6, LandingStep DEF PushLands, Answer
<1>7. CASE PushRejected(r)
  <2>1. TypeOK'
    BY <1>1, <1>7 DEF PushRejected, Answer, TypeOK, Steps, Replies
  <2>2. WorksOnAPastCommit(r)'
    BY <1>1, <1>7 DEF PushRejected, Answer, TypeOK, WorksOnAPastCommit
  <2>3. Explained(r)'
    BY <1>1, <1>7 DEF PushRejected, Answer, TypeOK, WorksOnAPastCommit, Explained
  <2> QED
    BY <1>1, <1>7, <2>1, <2>2, <2>3, QuietStep DEF PushRejected, Answer, TypeOK
<1>8. CASE PushFails(r) /\ UNCHANGED log
  <2>1. TypeOK'
    BY <1>1, <1>8 DEF PushFails, Answer, TypeOK, Steps, Replies
  <2>2. WorksOnAPastCommit(r)'
    BY <1>1, <1>8 DEF PushFails, Answer, TypeOK, WorksOnAPastCommit
  <2>3. Explained(r)'
    BY <1>1, <1>8 DEF PushFails, Answer, TypeOK, Explained
  <2> QED
    BY <1>1, <1>8, <2>1, <2>2, <2>3, QuietStep DEF PushFails, Answer, TypeOK
<1>9. CASE PushFails(r) /\ FastForward(r)
  BY <1>9, LandingStep DEF PushFails, Answer
<1>10. CASE Abort(r)
  <2>1. PICK next \in {"done", "orphan"} :
            /\ next = "orphan" => pc[r] = "push"
            /\ pc' = [pc EXCEPT ![r] = next]
    BY <1>10 DEF Abort
  <2>2. TypeOK'
    BY <1>1, <1>10, <2>1 DEF Abort, TypeOK, Steps, Replies
  <2>3. WorksOnAPastCommit(r)'
    BY <1>1, <1>10, <2>1 DEF Abort, TypeOK, WorksOnAPastCommit, Landed
  <2>4. Explained(r)'
    BY <1>1, <1>10, <2>1 DEF Abort, TypeOK, Explained
  <2> QED
    BY <1>1, <1>10, <2>1, <2>2, <2>3, <2>4, QuietStep DEF Abort, TypeOK
<1>11. CASE OrphanEnds(r) /\ UNCHANGED log
  <2>1. TypeOK'
    BY <1>1, <1>11 DEF OrphanEnds, TypeOK, Steps
  <2>2. WorksOnAPastCommit(r)'
    BY <1>1, <1>11 DEF OrphanEnds, TypeOK, WorksOnAPastCommit
  <2>3. Explained(r)'
    BY <1>1, <1>11 DEF OrphanEnds, TypeOK, Explained, Landed
  <2> QED
    BY <1>1, <1>11, <2>1, <2>2, <2>3, QuietStep DEF OrphanEnds, TypeOK
<1>12. CASE OrphanEnds(r) /\ FastForward(r)
  BY <1>12, LandingStep DEF OrphanEnds
<1> QED
  BY <1>2, <1>3, <1>4, <1>5, <1>6, <1>7, <1>8, <1>9, <1>10, <1>11, <1>12
  DEF Progress, PushFails, OrphanEnds

LEMMA NextKeepsIInv == IInv /\ [Next]_vars => IInv'
<1> SUFFICES ASSUME IInv, [Next]_vars PROVE IInv'
  OBVIOUS
<1>1. ASSUME NEW r \in Requests, Submit(r) PROVE IInv'
  <2>1. TypeOK /\ WorksOnAPastCommit(r) /\ Explained(r)
    BY DEF IInv, WorkInProgress, RepliesExplained
  <2>2. PICK j \in Jobs : job' = [job EXCEPT ![r] = j]
    BY <1>1 DEF Submit
  <2>3. TypeOK'
    BY <1>1, <2>1, <2>2 DEF Submit, TypeOK, Steps
  <2>4. WorksOnAPastCommit(r)'
    BY <1>1, <2>1, <2>2 DEF Submit, TypeOK, WorksOnAPastCommit, Landed
  <2>5. Explained(r)'
    BY <1>1, <2>1 DEF Submit, TypeOK, Explained
  <2> QED
    BY <1>1, <2>1, <2>2, <2>3, <2>4, <2>5, QuietStep DEF Submit, TypeOK
<1>2. ASSUME NEW r \in Requests, Progress(r) PROVE IInv'
  BY <1>2, ProgressKeepsIInv
<1>3. ASSUME NEW zone \in Zones, NEW line \in HostLines, OperatorAdds(zone, line) PROVE IInv'
  BY <1>3, OperatorContents
<1>4. ASSUME NEW j \in Jobs, OperatorRemoves(j) PROVE IInv'
  <2>1. ZoneOf(j.fqdn) \in Zones
    BY JobsAssumption
  <2> QED
    BY <1>4, <2>1, OperatorContents
<1>5. CASE UNCHANGED vars
  BY <1>5 DEF vars, IInv, TypeOK, LogTerminated, WorkInProgress, WorksOnAPastCommit,
      Serialised, RepliesExplained, Explained, Landed
<1> QED
  BY <1>1, <1>2, <1>3, <1>4, <1>5 DEF Next

LEMMA Invariance == Safety => []IInv
<1>1. Init => IInv
  BY InitIInv
<1>2. IInv /\ [Next]_vars => IInv'
  BY NextKeepsIInv
<1> QED
  BY <1>1, <1>2, PTL DEF Safety

(***************************************************************************)
(* THE INVARIANTS                                                          *)
(***************************************************************************)

\* The state has its type in every behaviour.
THEOREM TypeCorrect == Safety => []TypeOK
<1>1. IInv => TypeOK
  BY DEF IInv
<1> QED
  BY <1>1, Invariance, PTL

\* Updates that overlap never overwrite one another: however many workers run,
\* die or are outlived by their push, every commit of the API is the edit its
\* request asked for, made to the commit right before it.
THEOREM UpdatesAreSerialised == Safety => []Serialised
<1>1. IInv => Serialised
  BY DEF IInv
<1> QED
  BY <1>1, Invariance, PTL

\* Every call works on a commit the branch has.
THEOREM CallsWorkOnPastCommits == Safety => []WorkInProgress
<1>1. IInv => WorkInProgress
  BY DEF IInv
<1> QED
  BY <1>1, Invariance, PTL

\* A record lost behind a 204 was lost to another commit.
THEOREM LossNeedsRace ==
    ASSUME ~ RemoteMayRefuse
    PROVE  Safety => []SilentLossNeedsRace
<1>1. IInv => SilentLossNeedsRace
  <2> SUFFICES ASSUME IInv, NEW r \in Requests,
                      reply[r] = "OK", ~ Landed(r)
               PROVE  clone[r].base < Len(log) /\ log[clone[r].base + 1].by # r
    BY DEF SilentLossNeedsRace
  <2>1. clone[r].base \in 1..(Len(log) - 1) /\ Len(log) \in Nat
    BY TreesOfTheLog DEF IInv, RepliesExplained, Explained
  <2>2. clone[r].base + 1 \in 1..Len(log)
    BY <2>1
  <2> QED
    BY <2>1, <2>2 DEF Landed
<1> QED
  BY <1>1, Invariance, PTL

\* A call that found nothing to commit found what it asked for.
THEOREM NothingToCommitFoundIt == Safety => []NothingToCommitIsBenign
<1>1. IInv => NothingToCommitIsBenign
  <2> SUFFICES ASSUME IInv, NEW r \in Requests, reply[r] = "NothingToCommit"
               PROVE  TextsOf(log[clone[r].base].tree[ZoneOf(job[r].fqdn)], OwnerOf(job[r].fqdn))
                          = Requested(job[r].value)
    BY DEF NothingToCommitIsBenign
  <2> DEFINE tree == log[clone[r].base].tree
             zone == ZoneOf(job[r].fqdn)
             owner == OwnerOf(job[r].fqdn)
  <2>1. /\ job[r] \in Jobs /\ tree \in Trees /\ TerminatedTree(tree)
        /\ tree[zone] # NoFile /\ Edited(tree, job[r]) = tree
    BY TreesOfTheLog DEF IInv, RepliesExplained, Explained
  <2>2. zone \in Zones /\ owner \in Words /\ job[r].value \in Words \cup {NoValue}
    BY <2>1, JobsAssumption
  <2>3. tree[zone] \in Seq(Lines) /\ Terminated(tree[zone])
    BY <2>1, <2>2 DEF Trees, TerminatedTree
  <2>4. Edited(tree, job[r])[zone] = WriteRecordFile(tree[zone], owner, job[r].value)
    BY <2>1, <2>2 DEF Edited, Trees
  <2>5. EditIsExact(tree[zone], WriteRecordFile(tree[zone], owner, job[r].value),
                    owner, job[r].value)
    BY <2>2, <2>3, WordsAssumption, TerminatedEditIsExact
  <2> QED
    BY <2>1, <2>4, <2>5 DEF EditIsExact
<1> QED
  BY <1>1, Invariance, PTL

(***************************************************************************)
(* THE UPDATES IMPLEMENT THE STORE                                         *)
(***************************************************************************)
LEMMA StatusKept ==
    ASSUME IInv, NEW q \in Requests, pc'[q] = pc[q], Landed(q)' <=> Landed(q)
    PROVE  StatusOf(q)' = StatusOf(q)
  BY DEF StatusOf

\* A call that has not ended is pending, once made.
LEMMA StatusOfCall ==
    ASSUME IInv, NEW r \in Requests, pc[r] # "done"
    PROVE  StatusOf(r) = IF pc[r] = "new" THEN "idle" ELSE "pending"
<1>1. ~ Landed(r)
  BY DEF IInv, WorkInProgress, WorksOnAPastCommit
<1> QED
  BY <1>1 DEF StatusOf

LEMMA EditedStore ==
    ASSUME NEW tree \in Trees, TerminatedTree(tree),
           NEW j \in Jobs, tree[ZoneOf(j.fqdn)] # NoFile
    PROVE  StoreOf(Edited(tree, j)) =
               [StoreOf(tree) EXCEPT ![AskOf(j).zone][AskOf(j).owner] = AskOf(j).texts]
<1> DEFINE zone == ZoneOf(j.fqdn)
           owner == OwnerOf(j.fqdn)
           file == WriteRecordFile(tree[zone], owner, j.value)
           edited == Edited(tree, j)
           S == StoreOf(tree)
           Target == [S EXCEPT ![zone] = [S[zone] EXCEPT ![owner] = Requested(j.value)]]
<1>1. zone \in Zones /\ owner \in Words /\ j.value \in Words \cup {NoValue}
  BY JobsAssumption
<1>2. tree[zone] \in Seq(Lines) /\ Terminated(tree[zone]) /\ tree[zone] # NoFile
  BY <1>1 DEF Trees, TerminatedTree
<1>3. edited = [tree EXCEPT ![zone] = file]
  BY DEF Edited
<1>4. /\ file \in Seq(Lines)
      /\ \A other : other # owner => TextsOf(file, other) = TextsOf(tree[zone], other)
  BY <1>1, <1>2, EditSparesOthers
<1>5. TextsOf(file, owner) = Requested(j.value)
  <2>1. EditIsExact(tree[zone], file, owner, j.value)
    BY <1>1, <1>2, WordsAssumption, TerminatedEditIsExact
  <2> QED
    BY <2>1 DEF EditIsExact
<1>6. file # NoFile
  BY <1>4, RepositoryAssumption
<1> HIDE DEF zone, owner, file
<1>7. /\ edited[zone] = file
      /\ \A z \in Zones \ {zone} : edited[z] = tree[z]
  BY <1>1, <1>3 DEF Trees
<1> HIDE DEF edited
<1>8. \A z \in Zones, o \in Words :
          StoreOf(edited)[z][o] =
              IF z = zone /\ o = owner THEN Requested(j.value) ELSE S[z][o]
  BY <1>1, <1>2, <1>4, <1>5, <1>6, <1>7 DEF StoreOf
<1>9. \A z \in Zones, o \in Words :
          Target[z][o] = IF z = zone /\ o = owner THEN Requested(j.value) ELSE S[z][o]
  BY <1>1 DEF StoreOf
<1>10. StoreOf(edited) = [z \in Zones |-> [o \in Words |-> StoreOf(edited)[z][o]]]
  BY DEF StoreOf
<1>11. Target = [z \in Zones |-> [o \in Words |-> Target[z][o]]]
  BY <1>1 DEF StoreOf
<1>12. StoreOf(edited) = Target
  <2> HIDE DEF Target, S
  <2> QED
    BY <1>8, <1>9, <1>10, <1>11
<1>13. AskOf(j).zone = zone /\ AskOf(j).owner = owner /\ AskOf(j).texts = Requested(j.value)
  BY DEF AskOf, zone, owner
<1> QED
  BY <1>12, <1>13 DEF edited

\* A push that is taken applies its request.
LEMMA LandingApplies ==
    ASSUME IInv, NEW r \in Requests, pc[r] \in {"push", "orphan"}, FastForward(r),
           job' = job, pc' = [pc EXCEPT ![r] = "done"]
    PROVE  Store!Apply(r)
<1> DEFINE e == [tree |-> clone[r].tree, by |-> r]
<1>1. /\ job[r] \in Jobs
      /\ Tip \in Trees /\ TerminatedTree(Tip) /\ Tip[ZoneOf(job[r].fqdn)] # NoFile
      /\ clone[r].tree = Edited(Tip, job[r])
      /\ log' = Append(log, e)
  BY TreesOfTheLog DEF IInv, WorkInProgress, WorksOnAPastCommit, FastForward, Tip
<1>2. e \in Commits
  BY <1>1, EditedTree DEF Commits
<1>3. /\ Tip' = Edited(Tip, job[r])
      /\ \A q \in Requests : Landed(q)' <=> Landed(q) \/ r = q
  BY <1>1, <1>2, TreesOfTheLog, Grown DEF Tip
<1>4. StatusOf(r) = "pending" /\ StatusOf(r)' = "applied"
  <2>1. pc'[r] = "done"
    BY DEF IInv, TypeOK
  <2> QED
    BY <1>3, <2>1, StatusOfCall DEF StatusOf
<1>5. \A q \in Requests : StatusOf(q)' = IF q = r THEN "applied" ELSE StatusOf(q)
  <2>1. \A q \in Requests \ {r} : pc'[q] = pc[q]
    BY DEF IInv, TypeOK
  <2> QED
    BY <1>3, <1>4, <2>1, StatusKept
<1>6. [q \in Requests |-> StatusOf(q)]' = [[q \in Requests |-> StatusOf(q)] EXCEPT ![r] = "applied"]
  BY <1>5
<1>7. StoreOf(Tip)' = StoreOf(Edited(Tip, job[r]))
  BY <1>3 DEF StoreOf
<1>8. StoreOf(Tip)' = [StoreOf(Tip) EXCEPT ![AskOf(job[r]).zone][AskOf(job[r]).owner] = AskOf(job[r]).texts]
  BY <1>1, <1>7, EditedStore
<1>9. [q \in Requests |-> AskOf(job[q])]' = [q \in Requests |-> AskOf(job[q])]
  OBVIOUS
<1> QED
  BY <1>4, <1>6, <1>8, <1>9 DEF Store!Apply

\* A call that ends without having pushed drops its request.
LEMMA EndingDrops ==
    ASSUME IInv, NEW r \in Requests, pc[r] \notin {"new", "done"},
           log' = log, job' = job, pc' = [pc EXCEPT ![r] = "done"]
    PROVE  Store!Drop(r)
<1>1. \A q \in Requests : Landed(q)' <=> Landed(q)
  BY DEF Landed
<1>2. ~ Landed(r) /\ pc'[r] = "done" /\ \A q \in Requests \ {r} : pc'[q] = pc[q]
  BY DEF IInv, TypeOK, WorkInProgress, WorksOnAPastCommit
<1>3. StatusOf(r) = "pending" /\ StatusOf(r)' = "dropped"
  BY <1>1, <1>2, StatusOfCall DEF StatusOf
<1>4. \A q \in Requests : StatusOf(q)' = IF q = r THEN "dropped" ELSE StatusOf(q)
  BY <1>1, <1>2, <1>3, StatusKept
<1>5. [q \in Requests |-> StatusOf(q)]' = [[q \in Requests |-> StatusOf(q)] EXCEPT ![r] = "dropped"]
  BY <1>4
<1>6. StoreOf(Tip)' = StoreOf(Tip)
  BY DEF StoreOf, Tip
<1> QED
  BY <1>3, <1>5, <1>6 DEF Store!Drop

\* Any other step of a call is none of the store's.
LEMMA WorkingStutters ==
    ASSUME IInv, NEW r \in Requests, log' = log, job' = job,
           pc[r] \notin {"new", "done"},
           NEW p \in Steps \ {"new", "done"}, pc' = [pc EXCEPT ![r] = p]
    PROVE  UNCHANGED Store!vars
<1>1. \A q \in Requests : Landed(q)' <=> Landed(q)
  BY DEF Landed
<1>2. ~ Landed(r) /\ pc'[r] = p /\ \A q \in Requests \ {r} : pc'[q] = pc[q]
  BY DEF IInv, TypeOK, WorkInProgress, WorksOnAPastCommit
<1>3. StatusOf(r) = "pending" /\ StatusOf(r)' = "pending"
  BY <1>1, <1>2, StatusOfCall DEF StatusOf
<1>4. \A q \in Requests : StatusOf(q)' = StatusOf(q)
  BY <1>1, <1>2, <1>3, StatusKept
<1>5. StoreOf(Tip)' = StoreOf(Tip)
  BY DEF StoreOf, Tip
<1> QED
  BY <1>4, <1>5 DEF Store!vars

LEMMA SubmitSubmits ==
    ASSUME IInv, NEW r \in Requests, Submit(r)
    PROVE  Store!Submit(r)
<1>1. PICK j \in Jobs : job' = [job EXCEPT ![r] = j]
  BY DEF Submit
<1>2. pc[r] = "new" /\ pc' = [pc EXCEPT ![r] = "clone"] /\ log' = log
  BY DEF Submit
<1>3. \A q \in Requests : Landed(q)' <=> Landed(q)
  BY <1>2 DEF Landed
<1>4. ~ Landed(r) /\ pc'[r] = "clone" /\ \A q \in Requests \ {r} : pc'[q] = pc[q]
  BY <1>2 DEF IInv, TypeOK, WorkInProgress, WorksOnAPastCommit
<1>5. StatusOf(r) = "idle" /\ StatusOf(r)' = "pending"
  BY <1>2, <1>3, <1>4, StatusOfCall DEF StatusOf
<1>6. \A q \in Requests : StatusOf(q)' = IF q = r THEN "pending" ELSE StatusOf(q)
  BY <1>3, <1>4, <1>5, StatusKept
<1>7. [q \in Requests |-> StatusOf(q)]' = [[q \in Requests |-> StatusOf(q)] EXCEPT ![r] = "pending"]
  BY <1>6
<1>8. [q \in Requests |-> AskOf(job[q])]' = [[q \in Requests |-> AskOf(job[q])] EXCEPT ![r] = AskOf(j)]
  BY <1>1 DEF IInv, TypeOK
<1>9. StoreOf(Tip)' = StoreOf(Tip)
  BY <1>2 DEF StoreOf, Tip
<1> QED
  BY <1>5, <1>7, <1>8, <1>9 DEF Store!Submit

LEMMA OperatorChanges ==
    ASSUME IInv, NEW zone \in Zones, NEW content, OperatorPush(zone, content)
    PROVE  Store!ChangeFromOutside
<1> DEFINE tree == [Tip EXCEPT ![zone] = content]
           e == [tree |-> tree, by |-> Operator]
<1>1. log' = Append(log, e) /\ UNCHANGED <<job, pc>> /\ log \in Seq(Commits)
  BY TreesOfTheLog DEF OperatorPush
<1>2. e.tree = tree /\ e.by = Operator /\ Operator \notin Requests
  BY JobsAssumption
<1> HIDE DEF e
<1>3. /\ Len(log) \in Nat /\ Len(log') = Len(log) + 1
      /\ \A i \in 1..Len(log) : log'[i] = log[i]
      /\ log'[Len(log) + 1] = e
  BY <1>1
<1>4. 1..Len(log') = 1..Len(log) \cup {Len(log) + 1}
  BY <1>3
<1>5. \A q \in Requests : Landed(q)' <=> Landed(q)
  BY <1>2, <1>3, <1>4 DEF Landed
<1>6. \A q \in Requests : StatusOf(q)' = StatusOf(q)
  BY <1>1, <1>5, StatusKept
<1>7. Tip' = tree
  BY <1>2, <1>3 DEF Tip
<1>8. \A y \in Zones \ {zone} : StoreOf(Tip)'[y] = StoreOf(Tip)[y]
  <2>1. Tip \in Trees
    BY TreesOfTheLog
  <2>2. \A y \in Zones \ {zone} : Tip'[y] = Tip[y]
    BY <1>7, <2>1 DEF Trees
  <2> QED
    BY <2>2 DEF StoreOf
<1> QED
  BY <1>1, <1>6, <1>8 DEF Store!ChangeFromOutside

LEMMA StepMaps ==
    ASSUME IInv, [Next]_vars
    PROVE  [Store!Next]_(Store!vars)
<1>1. ASSUME NEW r \in Requests, Submit(r) PROVE Store!Next
  BY <1>1, SubmitSubmits DEF Store!Next
<1>2. ASSUME NEW r \in Requests, Progress(r) PROVE [Store!Next]_(Store!vars)
  <2>1. CASE CloneTip(r) \/ Commit(r)
    <3>1. UNCHANGED Store!vars
      BY <2>1, WorkingStutters DEF CloneTip, Commit, Steps
    <3> QED
      BY <3>1
  <2>2. CASE GitFails(r) \/ NoZoneFile(r) \/ NothingToCommit(r) \/ PushRejected(r)
    <3>1. Store!Drop(r)
      BY <2>2, EndingDrops DEF GitFails, NoZoneFile, NothingToCommit, PushRejected, Answer
    <3> QED
      BY <3>1 DEF Store!Next
  <2>3. CASE PushLands(r)
    <3>1. Store!Apply(r)
      BY <2>3, LandingApplies DEF PushLands, Answer
    <3> QED
      BY <3>1 DEF Store!Next
  <2>4. CASE PushFails(r) \/ OrphanEnds(r)
    <3>1. /\ pc[r] \in {"push", "orphan"} /\ job' = job /\ pc' = [pc EXCEPT ![r] = "done"]
          /\ FastForward(r) \/ log' = log
      BY <2>4 DEF PushFails, OrphanEnds, Answer
    <3>2. Store!Apply(r) \/ Store!Drop(r)
      BY <3>1, LandingApplies, EndingDrops
    <3> QED
      BY <3>2 DEF Store!Next
  <2>5. CASE Abort(r)
    <3>1. /\ pc[r] \in {"clone", "commit", "push"} /\ log' = log /\ job' = job
          /\ \/ pc' = [pc EXCEPT ![r] = "done"]
             \/ pc' = [pc EXCEPT ![r] = "orphan"]
      BY <2>5 DEF Abort
    <3>2. Store!Drop(r) \/ UNCHANGED Store!vars
      BY <3>1, EndingDrops, WorkingStutters DEF Steps
    <3> QED
      BY <3>2 DEF Store!Next
  <2> QED
    BY <1>2, <2>1, <2>2, <2>3, <2>4, <2>5 DEF Progress
<1>3. ASSUME NEW zone \in Zones, NEW line \in HostLines, OperatorAdds(zone, line)
      PROVE  Store!Next
  BY <1>3, OperatorChanges DEF OperatorAdds, Store!Next
<1>4. ASSUME NEW j \in Jobs, OperatorRemoves(j) PROVE Store!Next
  <2>1. ZoneOf(j.fqdn) \in Zones
    BY JobsAssumption
  <2> QED
    BY <1>4, <2>1, OperatorChanges DEF OperatorRemoves, Store!Next
<1>5. CASE UNCHANGED vars
  <2>1. log' = log /\ job' = job /\ pc' = pc
    BY <1>5 DEF vars
  <2>2. \A q \in Requests : StatusOf(q)' = StatusOf(q)
    BY <2>1, StatusKept DEF Landed
  <2>3. StoreOf(Tip)' = StoreOf(Tip)
    BY <2>1 DEF StoreOf, Tip
  <2>4. UNCHANGED Store!vars
    BY <2>1, <2>2, <2>3 DEF Store!vars
  <2> QED
    BY <2>4
<1> QED
  BY <1>1, <1>2, <1>3, <1>4, <1>5 DEF Next

LEMMA InitMaps == Init => Store!Init
<1> SUFFICES ASSUME Init PROVE Store!Init
  OBVIOUS
<1>1. \A r \in Requests : StatusOf(r) = "idle"
  BY DEF Init, StatusOf
<1> QED
  BY <1>1 DEF Store!Init, Store!Idle

\* Concurrent updates through git behave as a store in which each request is
\* applied in one step, to the texts of its own name alone, or not at all.
THEOREM UpdatesImplementStore == Safety => Store!Safety
<1>1. Init => Store!Init
  BY InitMaps
<1>2. IInv /\ [Next]_vars => [Store!Next]_(Store!vars)
  BY StepMaps
<1> QED
  BY <1>1, <1>2, Invariance, PTL DEF Safety, Store!Safety

=============================================================================
