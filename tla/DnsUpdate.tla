------------------------------ MODULE DnsUpdate ------------------------------
(***************************************************************************)
(* The update of a DNS record (dns.py), as several workers run it at once  *)
(* against one branch of one git repository.                               *)
(*                                                                         *)
(* An update clones the tip of the branch, edits one zone file, commits    *)
(* and pushes.  Nothing holds other writers off in between: the remote     *)
(* takes a push only if its commit was made on what still is the tip, and  *)
(* that is all the coordination there is.  The code does not look at what  *)
(* push() returns, and push() raises only when git printed no report at    *)
(* all: a push the remote rejects is answered like one it takes.           *)
(***************************************************************************)
EXTENDS Names, ZoneFile, FiniteSets

CONSTANTS
    Requests,            \* the calls of write_dns_record and remove_dns_record
    Jobs,                \* what they may be called with: [fqdn, value]
    Operator,            \* whoever else commits to the branch
    NoFile,              \* stands for the content of a file that is not there
    Zones,               \* the zones that have a file, or may have one
    InitialTree,         \* the files of the branch at the start
    HostLines,           \* lines the operators add to a zone file
    MaxOperatorCommits,  \* bound on the commits of the operators
    RemoteMayRefuse      \* may the remote refuse a commit made on the tip?

ASSUME JobsAssumption ==
    /\ Operator \notin Requests
    /\ \A j \in Jobs : /\ j.fqdn \in AcceptedNames
                       /\ ZoneOf(j.fqdn) \in Zones
                       /\ OwnerOf(j.fqdn) \in Words
                       /\ j.value \in Words \cup {NoValue}

Trees == [Zones -> Seq(Lines) \cup {NoFile}]

\* Every zone file ends with a newline, as git and the operators' editors have it.
TerminatedTree(tree) == \A z \in Zones : tree[z] # NoFile => Terminated(tree[z])

ASSUME RepositoryAssumption ==
    /\ NoFile \notin Seq(Lines)
    /\ InitialTree \in Trees /\ TerminatedTree(InitialTree)
    /\ \A line \in HostLines : line \in Lines /\ line.ended

ASSUME BoundsAssumption ==
    /\ MaxOperatorCommits \in Nat
    /\ RemoteMayRefuse \in BOOLEAN

NoJob == [fqdn |-> << >>, value |-> NoValue]
NoClone == [base |-> 0, tree |-> InitialTree]

VARIABLES
    log,      \* the commits of the remote branch: [tree, by]
    job,      \* job[r], the arguments of the call
    pc,       \* pc[r], the step the call is about to take
    clone,    \* clone[r]: the temporary clone, base is the commit it was made from
    reply     \* reply[r], what became of the call

Commits == [tree : Trees, by : Requests \cup {Operator}]

vars == <<log, job, pc, clone, reply>>

Replies == {"None", "OK", "NoZoneFile", "NothingToCommit", "GitFailed", "Aborted"}
Steps == {"new", "clone", "commit", "push", "orphan", "done"}

Tip == log[Len(log)].tree

Landed(r) == \E i \in 1..Len(log) : log[i].by = r

\* What one update makes of a tree.
Edited(tree, j) ==
    [tree EXCEPT ![ZoneOf(j.fqdn)] = WriteRecordFile(@, OwnerOf(j.fqdn), j.value)]

Answer(r, what) ==
    /\ pc' = [pc EXCEPT ![r] = "done"]
    /\ reply' = [reply EXCEPT ![r] = what]

Init ==
    /\ log = <<[tree |-> InitialTree, by |-> Operator]>>
    /\ job = [r \in Requests |-> NoJob]
    /\ pc = [r \in Requests |-> "new"]
    /\ clone = [r \in Requests |-> NoClone]
    /\ reply = [r \in Requests |-> "None"]

(***************************************************************************)
(* A view calls write_dns_record or remove_dns_record.                     *)
(***************************************************************************)
Submit(r) ==
    /\ pc[r] = "new"
    /\ \E j \in Jobs : job' = [job EXCEPT ![r] = j]
    /\ pc' = [pc EXCEPT ![r] = "clone"]
    /\ UNCHANGED <<log, clone, reply>>

(***************************************************************************)
(* Repo.clone_from with depth 1 takes the tip as it is now.                *)
(***************************************************************************)
\* A faulty variant: one directory serves all calls.
CloneShared(r) ==
    /\ pc[r] = "clone"
    /\ \E q \in Requests :
           clone' = [clone EXCEPT ![r] = [base |-> Len(log), tree |-> clone[q].tree]]
    /\ pc' = [pc EXCEPT ![r] = "commit"]
    /\ UNCHANGED <<log, job, reply>>

CloneTip(r) ==
    /\ pc[r] = "clone"
    /\ clone' = [clone EXCEPT ![r] = [base |-> Len(log), tree |-> Tip]]
    /\ pc' = [pc EXCEPT ![r] = "commit"]
    /\ UNCHANGED <<log, job, reply>>

\* The network, the disk or git itself fails before anything was pushed.
GitFails(r) ==
    /\ pc[r] \in {"clone", "commit"}
    /\ Answer(r, "GitFailed")
    /\ UNCHANGED <<log, job, clone>>

(***************************************************************************)
(* The edit of the zone file in the clone, and the commit of it.  There is *)
(* no commit when the file is not there, and git refuses to make one when  *)
(* the edit left the file as it was.                                       *)
(***************************************************************************)
HasZoneFile(r) == clone[r].tree[ZoneOf(job[r].fqdn)] # NoFile

NoZoneFile(r) ==
    /\ pc[r] = "commit"
    /\ ~ HasZoneFile(r)
    /\ Answer(r, "NoZoneFile")
    /\ UNCHANGED <<log, job, clone>>

\* A faulty variant: nothing is done for a name that has a record.
NothingForKnownName(r) ==
    /\ pc[r] = "commit"
    /\ HasZoneFile(r)
    /\ TextsOf(clone[r].tree[ZoneOf(job[r].fqdn)], OwnerOf(job[r].fqdn)) # {}
    /\ Answer(r, "NothingToCommit")
    /\ UNCHANGED <<log, job, clone>>

NothingToCommit(r) ==
    /\ pc[r] = "commit"
    /\ HasZoneFile(r)
    /\ Edited(clone[r].tree, job[r]) = clone[r].tree
    /\ Answer(r, "NothingToCommit")
    /\ UNCHANGED <<log, job, clone>>

Commit(r) ==
    /\ pc[r] = "commit"
    /\ HasZoneFile(r)
    /\ Edited(clone[r].tree, job[r]) # clone[r].tree
    /\ clone' = [clone EXCEPT ![r] = [base |-> @.base, tree |-> Edited(@.tree, job[r])]]
    /\ pc' = [pc EXCEPT ![r] = "push"]
    /\ UNCHANGED <<log, job, reply>>

(***************************************************************************)
(* The push.  The remote moves the branch only from the commit the clone   *)
(* was made from.                                                          *)
(***************************************************************************)
FastForward(r) ==
    /\ clone[r].base = Len(log)
    /\ log' = Append(log, [tree |-> clone[r].tree, by |-> r])

\* A faulty variant: push(force=True).
PushForced(r) ==
    /\ pc[r] = "push"
    /\ log' = Append(log, [tree |-> clone[r].tree, by |-> r])
    /\ Answer(r, "OK")
    /\ UNCHANGED <<job, clone>>

PushLands(r) ==
    /\ pc[r] = "push"
    /\ FastForward(r)
    /\ Answer(r, "OK")
    /\ UNCHANGED <<job, clone>>

\* A faulty variant: a rejected push starts the update again, without end.
PushTriedAgain(r) ==
    /\ pc[r] = "push"
    /\ clone[r].base # Len(log) \/ RemoteMayRefuse
    /\ pc' = [pc EXCEPT ![r] = "clone"]
    /\ UNCHANGED <<log, job, clone, reply>>

\* The report says that the branch was not moved; nobody reads it.
PushRejected(r) ==
    /\ pc[r] = "push"
    /\ clone[r].base # Len(log) \/ RemoteMayRefuse
    /\ Answer(r, "OK")
    /\ UNCHANGED <<log, job, clone>>

\* A faulty variant: the error of a push without a report is swallowed as well.
PushErrorSwallowed(r) ==
    /\ pc[r] = "push"
    /\ FastForward(r) \/ UNCHANGED log
    /\ Answer(r, "OK")
    /\ UNCHANGED <<job, clone>>

\* No report at all: the connection failed before the remote moved the
\* branch, or after it.
PushFails(r) ==
    /\ pc[r] = "push"
    /\ FastForward(r) \/ UNCHANGED log
    /\ Answer(r, "GitFailed")
    /\ UNCHANGED <<job, clone>>

(***************************************************************************)
(* The server kills a worker that takes longer than its timeout.  A git    *)
(* push under way may outlive the worker, and end either way.              *)
(***************************************************************************)
Abort(r) ==
    /\ pc[r] \in {"clone", "commit", "push"}
    /\ reply' = [reply EXCEPT ![r] = "Aborted"]
    /\ \E next \in {"done"} \cup (IF pc[r] = "push" THEN {"orphan"} ELSE {}) :
           pc' = [pc EXCEPT ![r] = next]
    /\ UNCHANGED <<log, job, clone>>

OrphanEnds(r) ==
    /\ pc[r] = "orphan"
    /\ FastForward(r) \/ UNCHANGED log
    /\ pc' = [pc EXCEPT ![r] = "done"]
    /\ UNCHANGED <<job, clone, reply>>

(***************************************************************************)
(* Commits from elsewhere: a line is added to a zone file, which is made   *)
(* when it is not there, or the record of a name is taken out by hand.     *)
(***************************************************************************)
OperatorCommits == Cardinality({i \in 2..Len(log) : log[i].by = Operator})

OperatorPush(zone, content) ==
    /\ OperatorCommits < MaxOperatorCommits
    /\ content # Tip[zone]
    /\ log' = Append(log, [tree |-> [Tip EXCEPT ![zone] = content], by |-> Operator])
    /\ UNCHANGED <<job, pc, clone, reply>>

OperatorAdds(zone, line) ==
    OperatorPush(zone, IF Tip[zone] = NoFile THEN <<line>> ELSE Joined(Tip[zone], line))

OperatorRemoves(j) ==
    /\ Tip[ZoneOf(j.fqdn)] # NoFile
    /\ OperatorPush(ZoneOf(j.fqdn), RemoveEntries(Tip[ZoneOf(j.fqdn)], OwnerOf(j.fqdn)))

Progress(r) ==
    \/ CloneTip(r)
    \/ GitFails(r)
    \/ NoZoneFile(r)
    \/ NothingToCommit(r)
    \/ Commit(r)
    \/ PushLands(r)
    \/ PushRejected(r)
    \/ PushFails(r)
    \/ Abort(r)
    \/ OrphanEnds(r)

Next ==
    \/ \E r \in Requests : Submit(r) \/ Progress(r)
    \/ \E zone \in Zones, line \in HostLines : OperatorAdds(zone, line)
    \/ \E j \in Jobs : OperatorRemoves(j)

Safety == Init /\ [][Next]_vars

\* A call that was made goes on or is killed, and a process left behind ends.
Fairness == \A r \in Requests : WF_vars(Progress(r))

Spec == Safety /\ Fairness

(***************************************************************************)
(* INVARIANTS                                                              *)
(***************************************************************************)

\* The state has its type.
TypeOK ==
    /\ log \in Seq(Commits) /\ Len(log) >= 1
    /\ job \in [Requests -> Jobs \cup {NoJob}]
    /\ pc \in [Requests -> Steps]
    /\ clone \in [Requests -> [base : Nat, tree : Trees]]
    /\ reply \in [Requests -> Replies]

\* No update undoes what it did not see: whatever the API pushed is the edit
\* the request asked for, made to the very commit that precedes it on the
\* branch.  Updates that overlap never overwrite one another (dns.py:147-156),
\* and one request lands once at most, even when its worker was killed.
Serialised ==
    \A i \in 1..Len(log) : log[i].by \in Requests =>
        LET r == log[i].by
        IN  /\ i >= 2
            /\ clone[r].base = i - 1
            /\ log[i].tree = Edited(log[i - 1].tree, job[r])

\* A call works on a commit the branch has, as it was or with its own edit in
\* it, and on nothing that another call or a killed worker left behind; what it
\* asked for is not on the branch before it has pushed (dns.py:144-156).
WorksOnAPastCommit(r) ==
    /\ pc[r] # "new" => job[r] \in Jobs
    /\ pc[r] # "done" => ~ Landed(r)
    /\ pc[r] \in {"commit", "push", "orphan"} => clone[r].base \in 1..Len(log)
    /\ pc[r] = "commit" => clone[r].tree = log[clone[r].base].tree
    /\ pc[r] \in {"push", "orphan"} =>
           /\ log[clone[r].base].tree[ZoneOf(job[r].fqdn)] # NoFile
           /\ clone[r].tree = Edited(log[clone[r].base].tree, job[r])

WorkInProgress == \A r \in Requests : WorksOnAPastCommit(r)

\* With a remote that takes every commit made on its tip, a record is lost
\* behind a 204 only to a commit that came in between (dns.py:156): an update
\* that no other writer overlapped and that was answered OK is on the branch.
SilentLossNeedsRace ==
    \A r \in Requests :
        reply[r] = "OK" /\ ~ Landed(r) =>
            /\ clone[r].base < Len(log)
            /\ log[clone[r].base + 1].by # r

\* The 500 of a commit with nothing in it is a false alarm: the branch the
\* update was made on already held what was asked for (dns.py:154).
NothingToCommitIsBenign ==
    \A r \in Requests :
        reply[r] = "NothingToCommit" =>
            TextsOf(log[clone[r].base].tree[ZoneOf(job[r].fqdn)], OwnerOf(job[r].fqdn))
                = Requested(job[r].value)

(***************************************************************************)
(* TEMPORAL PROPERTIES                                                     *)
(***************************************************************************)

\* Every call ends, with an answer or with the loss of its worker, and no
\* process of it is left behind: nothing waits for another writer.
EveryCallEnds ==
    \A r \in Requests : pc[r] = "clone" ~> pc[r] = "done" /\ reply[r] # "None"

(***************************************************************************)
(* REFINEMENT                                                              *)
(***************************************************************************)
StoreOf(tree) ==
    [z \in Zones |->
        [o \in Words |-> IF tree[z] = NoFile THEN {} ELSE TextsOf(tree[z], o)]]

AskOf(j) ==
    [zone |-> ZoneOf(j.fqdn), owner |-> OwnerOf(j.fqdn), texts |-> Requested(j.value)]

StatusOf(r) ==
    IF pc[r] = "new" THEN "idle"
    ELSE IF Landed(r) THEN "applied"
    ELSE IF pc[r] = "done" THEN "dropped"
    ELSE "pending"

Store == INSTANCE RecordStore WITH
    Asks   <- {AskOf(j) : j \in Jobs},
    store  <- StoreOf(Tip),
    ask    <- [r \in Requests |-> AskOf(job[r])],
    status <- [r \in Requests |-> StatusOf(r)]

\* The updates implement the store: each lands in one step or not at all, and
\* a landed update changes the texts of its own name and of no other owner.
ImplementsStore == Store!Spec

(***************************************************************************)
(* What the docstrings promise, and the code does not keep.                *)
(***************************************************************************)

\* "DnsSourceUpdateError: if an error while updating the repository occurs"
\* (dns.py:140-141): a call that returns without the error updated it.
AckImpliesLanded ==
    \A r \in Requests : reply[r] = "OK" => Landed(r)

\* "Delete a DNS record if it exists." (dns.py:174): there is nothing wrong
\* when it does not.
RemovingNothingSucceeds ==
    \A r \in Requests : job[r].value = NoValue => reply[r] # "NothingToCommit"

=============================================================================
