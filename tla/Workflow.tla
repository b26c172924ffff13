------------------------------ MODULE Workflow ------------------------------
(***************************************************************************)
(* The workflow kernel of apps/api/src/workflow.ts: versions of one        *)
(* definition, instances that run one version each, and the approval tasks *)
(* of an instance.  Every handler runs to completion without an await.     *)
(* Permissions come from the session; here a principal has all of them, so *)
(* what remains is what the handlers check themselves: actor type,         *)
(* segregation of duties, authority expiry, idempotency keys, versions.    *)
(***************************************************************************)
EXTENDS Naturals, Sequences, FiniteSets

CONSTANTS
    Principal,  \* principals of the tenant
    AiAgent,    \* those of actor type AiAgent
    Version,    \* the version numbers used: 1..n
    Node,       \* node keys a graph may use
    Graphs,     \* the graphs a version may be given
    Instance    \* identities of instances

\* A graph has a start and, for each of its nodes, two optional successors.  A
\* successor need not be one of its nodes: nobody validates the graph.
NoNode == "none"

ASSUME WorkflowAssumption ==
    /\ AiAgent \subseteq Principal
    /\ Version \subseteq Nat \ {0}
    /\ NoNode \notin Node
    /\ \A g \in Graphs :
          /\ g.start \in Node /\ g.nodes \subseteq Node
          /\ g.approve \in [g.nodes -> Node \cup {NoNode}]
          /\ g.reject \in [g.nodes -> Node \cup {NoNode}]

VARIABLES
    version,   \* store.workflowVersions: status and graph by version number
    instance,  \* store.workflowInstances: status, version and starter
    task,      \* store.workflowTasks of each instance, in order of creation
    started    \* store.actions: who executed "workflow:execute:instance" on what

vars == <<version, instance, task, started>>

NoBody == "nobody"

NoKey == <<>>

\* A client makes up an idempotency key for the task it decides, named after that
\* task here, or sends one that was made up for another.
Position == 1..Cardinality(Node) + 1
Key == Instance \X Position

Unwritten == [status |-> "none"]

Absent == [status |-> "none", version |-> 0, starter |-> NoBody]

NewTask(node) ==
    [node |-> node, status |-> "pending", by |-> NoBody, key |-> NoKey, expired |-> FALSE]

Init ==
    /\ version = [v \in Version |-> Unwritten]
    /\ instance = [i \in Instance |-> Absent]
    /\ task = [i \in Instance |-> <<>>]
    /\ started = {}

Tasks == {t \in Key : t[2] \in DOMAIN task[t[1]]}

GraphOf(i) == version[instance[i].version].graph

\* nextNodeKey: the successor of a node the graph does not have is undefined.
NextNode(g, node, decision) ==
    IF node \notin g.nodes THEN NoNode
    ELSE IF decision = "approved" THEN g.approve[node] ELSE g.reject[node]

-----------------------------------------------------------------------------
\* addWorkflowVersion: a draft numbered one above the highest.
AddVersion(v, g) ==
    /\ version[v] = Unwritten
    /\ \A u \in Version : u < v => version[u] # Unwritten
    /\ version' = [version EXCEPT ![v] = [status |-> "draft", graph |-> g]]
    /\ UNCHANGED <<instance, task, started>>

\* publishWorkflowVersion: whatever the status of v, retired included.
PublishVersion(v) ==
    /\ version[v] # Unwritten
    /\ version' = [u \in Version |->
          IF u = v THEN [version[v] EXCEPT !.status = "published"]
          ELSE IF version[u].status = "published" THEN [version[u] EXCEPT !.status = "retired"]
          ELSE version[u]]
    /\ UNCHANGED <<instance, task, started>>

Published == {v \in Version : version[v].status = "published"}

\* startWorkflowInstance: on the highest published version.
StartInstance(i, p) ==
    /\ instance[i] = Absent
    /\ \E v \in Published :
          /\ \A u \in Published : u <= v
          /\ instance' = [instance EXCEPT ![i] = [status |-> "running", version |-> v, starter |-> p]]
          /\ task' = [task EXCEPT ![i] = <<NewTask(version[v].graph.start)>>]
    /\ started' = started \cup {<<p, i>>}
    /\ UNCHANGED version

\* The 24 hours of a first task's authority pass; later tasks have no limit.
ExpireAuthority(i) ==
    /\ task[i] # <<>> /\ ~task[i][1].expired
    /\ task' = [task EXCEPT ![i][1].expired = TRUE]
    /\ UNCHANGED <<version, instance, started>>

\* Mutation of MayDecide: keys are not compared with those of other tasks.
MayDecideAnyKey(i, k, p, key) ==
    /\ task[i][k].status = "pending"
    /\ instance[i].status = "running"
    /\ version[instance[i].version].status = "published"
    /\ p \notin AiAgent
    /\ ~task[i][k].expired
    /\ p # instance[i].starter

\* completeWorkflowTask, up to the point where it changes anything.
MayDecide(i, k, p, key) ==
    /\ task[i][k].status = "pending"
    /\ instance[i].status = "running"
    /\ version[instance[i].version].status = "published"
    /\ p \notin AiAgent
    /\ ~task[i][k].expired
    /\ p # instance[i].starter
    /\ <<p, i>> \notin started
    /\ \A t \in Tasks : task[t[1]][t[2]].key # key

\* Mutation of Decided: the task takes the decision for its status.
DecidedRaw(t, p, key, decision) == [t EXCEPT !.status = decision, !.by = p, !.key = key]

Decided(t, p, key, decision) ==
    [t EXCEPT !.status = IF decision = "approved" THEN "completed" ELSE "rejected",
              !.by = p, !.key = key]

\* Mutation of DecideTask: a rejected last step completes the instance.
DecideIgnoringOutcome(i, k, p, key, decision) ==
    /\ <<i, k>> \in Tasks
    /\ MayDecide(i, k, p, key)
    /\ task' = [task EXCEPT ![i][k] = Decided(@, p, key, decision)]
    /\ instance' = [instance EXCEPT ![i].status = "completed"]
    /\ UNCHANGED <<version, started>>

\* Mutation of DecideTask: the next node is entered and its task forgotten.
DecideLosingNext(i, k, p, key, decision) ==
    LET next == NextNode(GraphOf(i), task[i][k].node, decision)
    IN  /\ <<i, k>> \in Tasks
        /\ MayDecide(i, k, p, key)
        /\ task' = [task EXCEPT ![i][k] = Decided(@, p, key, decision)]
        /\ instance' = IF next # NoNode THEN instance
                       ELSE [instance EXCEPT ![i].status =
                               IF decision = "approved" THEN "completed" ELSE "cancelled"]
        /\ UNCHANGED <<version, started>>

\* ... and the change: the task is decided and the instance moves to the next
\* node or ends.
DecideTask(i, k, p, key, decision) ==
    LET next == NextNode(GraphOf(i), task[i][k].node, decision)
        done == [task[i] EXCEPT ![k] = Decided(@, p, key, decision)]
    IN  /\ <<i, k>> \in Tasks
        /\ MayDecide(i, k, p, key)
        /\ IF next = NoNode
           THEN /\ task' = [task EXCEPT ![i] = done]
                /\ instance' = [instance EXCEPT ![i].status =
                      IF decision = "approved" THEN "completed" ELSE "cancelled"]
           ELSE /\ task' = [task EXCEPT ![i] = Append(done, NewTask(next))]
                /\ UNCHANGED instance
        /\ UNCHANGED <<version, started>>

Decide(i) ==
    \E k \in DOMAIN task[i] :
        \E key \in {<<i, k>>} \cup ({task[t[1]][t[2]].key : t \in Tasks} \ {NoKey}),
           p \in Principal, d \in {"approved", "rejected"} :
            DecideTask(i, k, p, key, d)

\* Mutation of CancelInstance: the open task survives its instance.
CancelInstanceOnly(i) ==
    /\ instance[i].status = "running"
    /\ instance' = [instance EXCEPT ![i].status = "cancelled"]
    /\ UNCHANGED <<version, task, started>>

\* cancelWorkflowInstance
CancelInstance(i) ==
    /\ instance[i].status = "running"
    /\ instance' = [instance EXCEPT ![i].status = "cancelled"]
    /\ task' = [task EXCEPT ![i] = [k \in DOMAIN @ |->
          IF @[k].status = "pending" THEN [@[k] EXCEPT !.status = "cancelled"] ELSE @[k]]]
    /\ UNCHANGED <<version, started>>

\* escalateOverdueTasks, at a time when the given first tasks are overdue (only
\* they get a dueAt).  The task leaves "pending"; nothing takes its place.
EscalateOverdue(I) ==
    /\ I # {} /\ \A i \in I : task[i] # <<>> /\ task[i][1].status = "pending"
    /\ task' = [i \in Instance |->
          IF i \in I THEN [task[i] EXCEPT ![1].status = "escalated"] ELSE task[i]]
    /\ UNCHANGED <<version, instance, started>>

\* A completed, rejected, expired or conflicting request is answered and changes
\* nothing but the audit trail, which this module leaves out.
Next ==
    \/ \E v \in Version, g \in Graphs : AddVersion(v, g)
    \/ \E v \in Version : PublishVersion(v)
    \/ \E i \in Instance, p \in Principal : StartInstance(i, p)
    \/ \E i \in Instance : ExpireAuthority(i)
    \/ \E i \in Instance : Decide(i)
    \/ \E i \in Instance : CancelInstance(i)
    \/ \E I \in SUBSET Instance : EscalateOverdue(I)

Spec == Init /\ [][Next]_vars

\* The last task is decided under its own key.
DecideOpen(i) ==
    /\ instance[i].status = "running"
    /\ \E p \in Principal, d \in {"approved", "rejected"} :
          DecideTask(i, Len(task[i]), p, <<i, Len(task[i])>>, d)

\* Somebody keeps approving or rejecting what is open.
Fairness == \A i \in Instance : WF_vars(DecideOpen(i))

FairSpec == Spec /\ Fairness

-----------------------------------------------------------------------------
(* Properties.                                                             *)

TaskStatus == {"pending", "completed", "rejected", "cancelled", "escalated"}

TypeOK ==
    /\ version \in [Version -> {Unwritten} \cup
                       [status : {"draft", "published", "retired"}, graph : Graphs]]
    /\ instance \in [Instance -> [status : {"none", "running", "completed", "cancelled"},
                                  version : Version \cup {0},
                                  starter : Principal \cup {NoBody}]]
    /\ task \in [Instance -> Seq([node : Node, status : TaskStatus,
                                  by : Principal \cup {NoBody}, key : Key \cup {NoKey},
                                  expired : BOOLEAN])]
    /\ started \subseteq Principal \X Instance

\* startWorkflowInstance relies on there being at most one effective version.  An
\* instance has an open task only while it runs, and then only one, its last;
\* if it runs without one, the task was escalated.
OneOpenTask ==
    /\ Cardinality(Published) <= 1
    /\ \A i \in Instance : \A k \in DOMAIN task[i] :
          /\ task[i][k].status = "pending" => instance[i].status = "running" /\ k = Len(task[i])
          /\ instance[i].status = "running" /\ k = Len(task[i])
                => task[i][k].status \in {"pending", "escalated"}

\* What an instance has been through is a path of its version's graph, decision
\* by decision, and its outcome is that of the last step: completed means that
\* the last node was approved and has no successor on approval.
FollowsGraph ==
    \A i \in Instance : task[i] # <<>> =>
        LET outcome(k) == IF task[i][k].status = "completed" THEN "approved" ELSE "rejected"
            last == Len(task[i])
        IN  /\ task[i][1].node = GraphOf(i).start
            /\ \A k \in 1..last - 1 :
                  /\ task[i][k].status \in {"completed", "rejected"}
                  /\ task[i][k + 1].node = NextNode(GraphOf(i), task[i][k].node, outcome(k))
            /\ instance[i].status = "completed" =>
                  /\ task[i][last].status = "completed"
                  /\ NextNode(GraphOf(i), task[i][last].node, "approved") = NoNode

\* One idempotency key decides at most one task, and whoever decided it is a
\* human who did not start the instance.
OneDecisionPerKey ==
    /\ \A s, t \in Tasks : s # t /\ task[s[1]][s[2]].key = task[t[1]][t[2]].key
          => task[s[1]][s[2]].key = NoKey
    /\ \A t \in Tasks : task[t[1]][t[2]].by # NoBody
          => task[t[1]][t[2]].by \notin AiAgent \cup {instance[t[1]].starter}

\* While somebody keeps deciding, an instance ends unless its version is
\* retired, its first task expires or is escalated: those three stop it for good.
EventuallyEnds ==
    \A i \in Instance :
        instance[i].status = "running" ~>
            \/ instance[i].status # "running"
            \/ version[instance[i].version].status = "retired"
            \/ task[i][1].expired \/ task[i][1].status = "escalated"

=============================================================================
