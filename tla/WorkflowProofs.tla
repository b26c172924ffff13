--------------------------- MODULE WorkflowProofs ---------------------------
(***************************************************************************)
(* Theorems about Workflow, for every set of principals, versions, graphs  *)
(* and instances.                                                          *)
(***************************************************************************)
EXTENDS Workflow, FiniteSetTheorems, TLAPS

Status == {"none", "running", "completed", "cancelled"}

TaskType == [node : Node, status : TaskStatus, by : Principal \cup {NoBody},
             key : Key \cup {NoKey}, expired : BOOLEAN]

\* What an instance rests on: a version that was written, and no tasks before that.
Rooted ==
    \A i \in Instance :
        /\ instance[i].status = "none" => task[i] = <<>>
        /\ instance[i].status # "none" =>
              instance[i].version \in Version /\ version[instance[i].version] # Unwritten

\* One version is published at most, without cardinalities.
PublishedOnce == \A u, v \in Published : u = v

\* The second part of OneOpenTask, of one instance.
OpenIsLastOf(i) ==
    \A k \in DOMAIN task[i] :
        /\ task[i][k].status = "pending" => instance[i].status = "running" /\ k = Len(task[i])
        /\ instance[i].status = "running" /\ k = Len(task[i])
              => task[i][k].status \in {"pending", "escalated"}

OpenIsLast == \A i \in Instance : OpenIsLastOf(i)

\* FollowsGraph, of one instance that has tasks.
Outcome(i, k) == IF task[i][k].status = "completed" THEN "approved" ELSE "rejected"

PathOf(i) ==
    LET last == Len(task[i])
    IN  /\ task[i][1].node = GraphOf(i).start
        /\ \A k \in 1 .. last - 1 :
              /\ task[i][k].status \in {"completed", "rejected"}
              /\ task[i][k + 1].node = NextNode(GraphOf(i), task[i][k].node, Outcome(i, k))
        /\ instance[i].status = "completed" =>
              /\ task[i][last].status = "completed"
              /\ NextNode(GraphOf(i), task[i][last].node, "approved") = NoNode

PathsFollow == \A i \in Instance : task[i] # <<>> => PathOf(i)

Inv ==
    /\ TypeOK
    /\ Rooted
    /\ PublishedOnce
    /\ OpenIsLast
    /\ PathsFollow
    /\ OneDecisionPerKey

-----------------------------------------------------------------------------

LEMMA NewTaskType == ASSUME NEW n \in Node PROVE NewTask(n) \in TaskType
  BY DEF NewTask, TaskType, TaskStatus

LEMMA KeyIsGiven == ASSUME NEW key \in Key PROVE key # NoKey
<1>1. PICK i \in Instance, k \in Position : key = <<i, k>>
  BY DEF Key
<1>2. <<i, k>> # <<>>
  OBVIOUS
<1> QED
  BY <1>1, <1>2 DEF NoKey

\* The path of an instance whose tasks, status and graph a step leaves alone.
LEMMA PathKept ==
    ASSUME NEW j \in Instance, GraphOf(j)' = GraphOf(j), task'[j] = task[j],
           instance'[j].status = instance[j].status, PathOf(j)
    PROVE  PathOf(j)'
  BY DEF PathOf, Outcome, NextNode

LEMMA NextNodeType ==
    ASSUME NEW g \in Graphs, NEW n \in Node, NEW d
    PROVE  NextNode(g, n, d) \in Node \cup {NoNode}
  BY WorkflowAssumption DEF NextNode

LEMMA DecidedType ==
    ASSUME NEW t \in TaskType, NEW p \in Principal, NEW key \in Key, NEW d
    PROVE  Decided(t, p, key, d) \in TaskType
  BY DEF Decided, TaskType, TaskStatus

LEMMA VersionFacts ==
    ASSUME TypeOK, NEW v \in Version, version[v] # Unwritten
    PROVE  /\ version[v] \in [status : {"draft", "published", "retired"}, graph : Graphs]
           /\ version[v].graph \in Graphs
  BY DEF TypeOK

LEMMA TasksFacts ==
    ASSUME NEW t \in Tasks
    PROVE  t[1] \in Instance /\ t[2] \in DOMAIN task[t[1]] /\ t \in Key
  BY DEF Tasks, Key

LEMMA TypeTasks ==
    ASSUME TypeOK
    PROVE  task \in [Instance -> Seq(TaskType)]
  BY DEF TypeOK, TaskType

\* What the steps that only change a status or an expiry leave alone.
KeepsShape ==
    /\ task' \in [Instance -> Seq(TaskType)]
    /\ \A j \in Instance :
          /\ Len(task'[j]) = Len(task[j])
          /\ \A k \in 1 .. Len(task[j]) :
                /\ task'[j][k].node = task[j][k].node
                /\ task'[j][k].by = task[j][k].by
                /\ task'[j][k].key = task[j][k].key

LEMMA ExpireFacts ==
    ASSUME TypeOK, NEW i \in Instance, ExpireAuthority(i)
    PROVE  /\ KeepsShape
           /\ \A j \in Instance : \A k \in 1 .. Len(task[j]) : task'[j][k].status = task[j][k].status
<1>1. task \in [Instance -> Seq(TaskType)]
  BY TypeTasks
<1>2. task[i] \in Seq(TaskType) /\ 1 \in 1 .. Len(task[i])
  BY <1>1 DEF ExpireAuthority
<1> DEFINE new == [task[i] EXCEPT ![1].expired = TRUE]
<1>3. [task[i][1] EXCEPT !.expired = TRUE] \in TaskType
  <2>1. task[i][1] \in TaskType
    BY <1>2
  <2> QED
    BY <2>1 DEF TaskType
<1>4. /\ new \in Seq(TaskType) /\ Len(new) = Len(task[i])
      /\ \A k \in 1 .. Len(task[i]) :
            new[k] = IF k = 1 THEN [task[i][1] EXCEPT !.expired = TRUE] ELSE task[i][k]
  BY <1>2, <1>3
<1>5. task' = [task EXCEPT ![i] = new]
  BY DEF ExpireAuthority
<1>6. \A k \in 1 .. Len(task[i]) : /\ new[k].node = task[i][k].node
                                    /\ new[k].by = task[i][k].by
                                    /\ new[k].key = task[i][k].key
                                    /\ new[k].status = task[i][k].status
  BY <1>2, <1>4 DEF TaskType
<1> HIDE DEF new
<1> QED
  BY <1>1, <1>4, <1>5, <1>6 DEF KeepsShape

LEMMA CancelFacts ==
    ASSUME TypeOK, NEW i \in Instance, CancelInstance(i)
    PROVE  /\ KeepsShape
           /\ \A j \in Instance : \A k \in 1 .. Len(task[j]) :
                 task'[j][k].status = IF j = i /\ task[j][k].status = "pending" THEN "cancelled"
                                      ELSE task[j][k].status
<1>1. task \in [Instance -> Seq(TaskType)] /\ task[i] \in Seq(TaskType)
  BY TypeTasks
<1> DEFINE cancelled(t) == IF t.status = "pending" THEN [t EXCEPT !.status = "cancelled"] ELSE t
           new == [k \in DOMAIN task[i] |-> cancelled(task[i][k])]
<1>2. \A t \in TaskType : /\ cancelled(t) \in TaskType
                           /\ cancelled(t).node = t.node /\ cancelled(t).by = t.by /\ cancelled(t).key = t.key
                           /\ cancelled(t).status = IF t.status = "pending" THEN "cancelled" ELSE t.status
  BY DEF TaskType, TaskStatus
<1>3. task' = [task EXCEPT ![i] = new]
  BY DEF CancelInstance
<1> HIDE DEF cancelled
<1>4. /\ new \in Seq(TaskType) /\ Len(new) = Len(task[i])
      /\ \A k \in 1 .. Len(task[i]) : new[k] = cancelled(task[i][k]) /\ task[i][k] \in TaskType
  BY <1>1, <1>2
<1> HIDE DEF new
<1> QED
  BY <1>1, <1>2, <1>3, <1>4 DEF KeepsShape

LEMMA EscalateFacts ==
    ASSUME TypeOK, NEW I \in SUBSET Instance, EscalateOverdue(I)
    PROVE  /\ KeepsShape
           /\ \A j \in Instance : \A k \in 1 .. Len(task[j]) :
                 task'[j][k].status = IF j \in I /\ k = 1 THEN "escalated" ELSE task[j][k].status
<1>1. task \in [Instance -> Seq(TaskType)]
  BY TypeTasks
<1> DEFINE new(j) == [task[j] EXCEPT ![1].status = "escalated"]
<1>2. task' = [j \in Instance |-> IF j \in I THEN new(j) ELSE task[j]]
  BY DEF EscalateOverdue
<1>3. ASSUME NEW j \in I
      PROVE  /\ new(j) \in Seq(TaskType) /\ Len(new(j)) = Len(task[j])
             /\ \A k \in 1 .. Len(task[j]) :
                   /\ new(j)[k].node = task[j][k].node
                   /\ new(j)[k].by = task[j][k].by
                   /\ new(j)[k].key = task[j][k].key
                   /\ new(j)[k].status = IF k = 1 THEN "escalated" ELSE task[j][k].status
  <2>1. task[j] \in Seq(TaskType) /\ 1 \in 1 .. Len(task[j])
    BY <1>1 DEF EscalateOverdue
  <2>2. [task[j][1] EXCEPT !.status = "escalated"] \in TaskType
    <3>1. task[j][1] \in TaskType
      BY <2>1
    <3> QED
      BY <3>1 DEF TaskType, TaskStatus
  <2>3. /\ new(j) \in Seq(TaskType) /\ Len(new(j)) = Len(task[j])
        /\ \A k \in 1 .. Len(task[j]) :
              new(j)[k] = IF k = 1 THEN [task[j][1] EXCEPT !.status = "escalated"] ELSE task[j][k]
    BY <2>1, <2>2
  <2> QED
    BY <2>1, <2>3 DEF TaskType
<1> HIDE DEF new
<1> QED
  BY <1>1, <1>2, <1>3 DEF KeepsShape

\* A decision is one on the last task of a running instance, which it closes.
LEMMA DecideFacts ==
    ASSUME TypeOK, Rooted, OpenIsLast, NEW i \in Instance, NEW k, NEW p \in Principal, NEW key \in Key,
           NEW d \in {"approved", "rejected"}, DecideTask(i, k, p, key, d)
    PROVE  LET next == NextNode(GraphOf(i), task[i][k].node, d)
               done == Decided(task[i][k], p, key, d)
           IN  /\ k \in 1 .. Len(task[i]) /\ k = Len(task[i]) /\ instance[i].status = "running"
               /\ task[i] \in Seq(TaskType) /\ done \in TaskType
               /\ task[i][k].status = "pending"
               /\ \A j \in Instance \ {i} : task'[j] = task[j]
               /\ task'[i] \in Seq(TaskType)
               /\ Len(task'[i]) = IF next = NoNode THEN k ELSE k + 1
               /\ task'[i][k] = done
               /\ \A m \in 1 .. k - 1 : task'[i][m] = task[i][m]
               /\ next # NoNode => next \in Node /\ task'[i][k + 1] = NewTask(next)
<1> DEFINE next == NextNode(GraphOf(i), task[i][k].node, d)
           rec == Decided(task[i][k], p, key, d)
           done == [task[i] EXCEPT ![k] = Decided(@, p, key, d)]
<1>1. task \in [Instance -> Seq(TaskType)] /\ task[i] \in Seq(TaskType)
  BY TypeTasks
<1>2. k \in 1 .. Len(task[i]) /\ task[i][k] \in TaskType
  BY <1>1, TasksFacts DEF DecideTask, Tasks
<1>3. k = Len(task[i]) /\ instance[i].status = "running" /\ task[i][k].status = "pending"
  BY <1>1, <1>2 DEF DecideTask, MayDecide, OpenIsLast, OpenIsLastOf
<1>4. rec \in TaskType
  BY <1>2, DecidedType
<1>5. /\ done \in Seq(TaskType) /\ Len(done) = k /\ done[k] = rec
      /\ \A m \in 1 .. k - 1 : done[m] = task[i][m]
  BY <1>1, <1>2, <1>3, <1>4
<1>6. next \in Node \cup {NoNode}
  <2>1. instance[i].version \in Version /\ version[instance[i].version] # Unwritten
    BY <1>3 DEF Rooted
  <2>2. GraphOf(i) \in Graphs
    BY <2>1, VersionFacts DEF GraphOf
  <2> QED
    BY <1>2, <2>2, NextNodeType DEF TaskType
<1>7. task' = [task EXCEPT ![i] = IF next = NoNode THEN done ELSE Append(done, NewTask(next))]
  BY DEF DecideTask
<1> HIDE DEF done, rec, next
<1>8. task'[i] = IF next = NoNode THEN done ELSE Append(done, NewTask(next))
  BY <1>1, <1>7
<1>9. /\ task'[i] \in Seq(TaskType)
      /\ Len(task'[i]) = IF next = NoNode THEN k ELSE k + 1
      /\ task'[i][k] = rec
      /\ \A m \in 1 .. k - 1 : task'[i][m] = task[i][m]
      /\ next # NoNode => task'[i][k + 1] = NewTask(next)
  <2>1. CASE next = NoNode
    BY <1>2, <1>5, <1>8, <2>1
  <2>2. CASE next # NoNode
    <3>1. NewTask(next) \in TaskType
      BY <1>6, <2>2, NewTaskType
    <3> QED
      BY <1>2, <1>3, <1>5, <1>8, <2>2, <3>1
  <2> QED  BY <2>1, <2>2
<1>10. \A j \in Instance \ {i} : task'[j] = task[j]
  BY <1>1, <1>7
<1> QED
  BY <1>1, <1>2, <1>3, <1>4, <1>6, <1>9, <1>10 DEF next, rec

LEMMA InitInv == Init => Inv
<1> SUFFICES ASSUME Init PROVE Inv
  OBVIOUS
<1>1. TypeOK
  BY DEF Init, TypeOK, Absent, Unwritten
<1>2. \A i \in Instance : task[i] = <<>> /\ DOMAIN task[i] = {} /\ instance[i].status = "none"
  BY DEF Init, Absent
<1>4. Rooted /\ OpenIsLast /\ PathsFollow
  BY <1>2 DEF Rooted, OpenIsLast, OpenIsLastOf, PathsFollow
<1>5. OneDecisionPerKey
  BY <1>2, TasksFacts DEF OneDecisionPerKey
<1>3. PublishedOnce
  BY DEF Init, PublishedOnce, Published, Unwritten
<1> QED
  BY <1>1, <1>3, <1>4, <1>5 DEF Inv

\* A step that keeps the shape of tasks and the starters of instances keeps the
\* keys, and who decided.
LEMMA KeysKept ==
    ASSUME TypeOK, OneDecisionPerKey, KeepsShape,
           \A j \in Instance : instance'[j].starter = instance[j].starter
    PROVE  OneDecisionPerKey'
<1>1. task \in [Instance -> Seq(TaskType)]
  BY TypeTasks
<1>2. ASSUME NEW t \in Tasks'
      PROVE  /\ t \in Tasks /\ t[1] \in Instance
             /\ task'[t[1]][t[2]].key = task[t[1]][t[2]].key
             /\ task'[t[1]][t[2]].by = task[t[1]][t[2]].by
  <2>1. t \in Key /\ t[1] \in Instance /\ t[2] \in DOMAIN task'[t[1]]
    BY DEF Tasks, Key
  <2>2. task[t[1]] \in Seq(TaskType) /\ task'[t[1]] \in Seq(TaskType)
    BY <1>1, <2>1 DEF KeepsShape
  <2>3. DOMAIN task'[t[1]] = 1 .. Len(task[t[1]]) /\ DOMAIN task[t[1]] = 1 .. Len(task[t[1]])
    BY <2>1, <2>2 DEF KeepsShape
  <2> QED
    BY <2>1, <2>3 DEF KeepsShape, Tasks
<1>3. ASSUME NEW s \in Tasks', NEW t \in Tasks', s # t,
             task'[s[1]][s[2]].key = task'[t[1]][t[2]].key
      PROVE  task'[s[1]][s[2]].key = NoKey
  <2>1. s \in Tasks /\ t \in Tasks /\ task[s[1]][s[2]].key = task[t[1]][t[2]].key
    BY <1>2, <1>3
  <2>2. task[s[1]][s[2]].key = NoKey
    BY <1>3, <2>1 DEF OneDecisionPerKey
  <2> QED
    BY <1>2, <2>2
<1>4. ASSUME NEW t \in Tasks', task'[t[1]][t[2]].by # NoBody
      PROVE  task'[t[1]][t[2]].by \notin AiAgent \cup {instance'[t[1]].starter}
  <2>1. t \in Tasks /\ t[1] \in Instance /\ task'[t[1]][t[2]].by = task[t[1]][t[2]].by
    BY <1>2
  <2>2. task[t[1]][t[2]].by \notin AiAgent \cup {instance[t[1]].starter}
    BY <1>4, <2>1 DEF OneDecisionPerKey
  <2> QED
    BY <2>1, <2>2
<1> QED
  BY <1>3, <1>4 DEF OneDecisionPerKey

\* The graph of an instance that has tasks never changes.
LEMMA GraphKept ==
    ASSUME TypeOK, Rooted, NEW i \in Instance, task[i] # <<>>,
           instance'[i].version = instance[i].version,
           \A v \in Version : version[v] # Unwritten => version'[v].graph = version[v].graph
    PROVE  GraphOf(i)' = GraphOf(i)
  BY DEF Rooted, GraphOf

\* New drafts and publications: instances and tasks stay as they are, and every
\* version that was written keeps its graph.
LEMMA VersionStepInv ==
    ASSUME Inv, UNCHANGED <<instance, task, started>>,
           version' \in [Version -> {Unwritten} \cup
                            [status : {"draft", "published", "retired"}, graph : Graphs]],
           \A v \in Version : version[v] # Unwritten =>
               version'[v] # Unwritten /\ version'[v].graph = version[v].graph,
           PublishedOnce'
    PROVE  Inv'
<1>1. TypeOK'
  BY DEF Inv, TypeOK
<1>2. Rooted'
  BY DEF Inv, Rooted
<1>3. OpenIsLast' /\ OneDecisionPerKey'
  BY DEF Inv, OpenIsLast, OpenIsLastOf, OneDecisionPerKey, Tasks
<1>4. \A i \in Instance : task[i] # <<>> => GraphOf(i)' = GraphOf(i)
  BY GraphKept DEF Inv
<1>5. PathsFollow'
  BY <1>4 DEF Inv, PathsFollow, PathOf, Outcome, NextNode
<1> QED
  BY <1>1, <1>2, <1>3, <1>5 DEF Inv

LEMMA AddInv == ASSUME Inv, NEW v \in Version, NEW g \in Graphs, AddVersion(v, g) PROVE Inv'
<1>1. version' = [version EXCEPT ![v] = [status |-> "draft", graph |-> g]] /\ version[v] = Unwritten
  BY DEF AddVersion
<1>2. [status |-> "draft", graph |-> g] \in [status : {"draft", "published", "retired"}, graph : Graphs]
  OBVIOUS
<1>3. version' \in [Version -> {Unwritten} \cup
                       [status : {"draft", "published", "retired"}, graph : Graphs]]
  BY <1>1, <1>2 DEF Inv, TypeOK
<1>4. \A u \in Version : u # v => version'[u] = version[u]
  BY <1>1 DEF Inv, TypeOK
<1>5. version'[v].status = "draft"
  BY <1>1 DEF Inv, TypeOK
<1>6. PublishedOnce'
  BY <1>4, <1>5 DEF Inv, PublishedOnce, Published
<1> QED
  BY <1>1, <1>3, <1>4, <1>6, VersionStepInv DEF AddVersion

LEMMA PublishInv == ASSUME Inv, NEW v \in Version, PublishVersion(v) PROVE Inv'
<1> DEFINE V == [status : {"draft", "published", "retired"}, graph : Graphs]
           new(u) == IF u = v THEN [version[v] EXCEPT !.status = "published"]
                     ELSE IF version[u].status = "published" THEN [version[u] EXCEPT !.status = "retired"]
                     ELSE version[u]
<1>1. version' = [u \in Version |-> new(u)] /\ version[v] # Unwritten
  BY DEF PublishVersion
<1>2. \A u \in Version : version[u] # Unwritten => version[u] \in V
  BY DEF Inv, TypeOK
<1>3. \A u \in Version : version[u] # Unwritten =>
          /\ new(u) \in V /\ new(u).graph = version[u].graph
          /\ (new(u).status = "published") = (u = v)
  BY <1>2
<1>4. \A u \in Version : version[u] = Unwritten => new(u) = Unwritten /\ u # v
  BY <1>1 DEF Unwritten
<1>5. \A r \in V : r # Unwritten
  BY DEF Unwritten
<1>6. version' \in [Version -> {Unwritten} \cup V]
  BY <1>1, <1>3, <1>4
<1>7. PublishedOnce'
  <2> SUFFICES ASSUME NEW u \in Version, version'[u].status = "published" PROVE u = v
    BY DEF PublishedOnce, Published
  <2>1. version'[u] = new(u)
    BY <1>1
  <2> QED
    BY <1>3, <1>4, <2>1 DEF Unwritten
<1>8. \A u \in Version : version[u] # Unwritten =>
          version'[u] # Unwritten /\ version'[u].graph = version[u].graph
  BY <1>1, <1>3, <1>5
<1> QED
  BY <1>6, <1>7, <1>8, VersionStepInv DEF PublishVersion

LEMMA StartInv == ASSUME Inv, NEW i \in Instance, NEW p \in Principal, StartInstance(i, p) PROVE Inv'
<1>1. PICK v \in Published :
          /\ instance' = [instance EXCEPT ![i] = [status |-> "running", version |-> v, starter |-> p]]
          /\ task' = [task EXCEPT ![i] = <<NewTask(version[v].graph.start)>>]
  BY DEF StartInstance
<1> DEFINE first == NewTask(version[v].graph.start)
<1>2. v \in Version /\ version[v] # Unwritten /\ version[v].graph \in Graphs
  BY VersionFacts DEF Inv, Published, Unwritten
<1>3. version[v].graph.start \in Node
  BY <1>2, WorkflowAssumption
<1>4. first \in TaskType
  BY <1>3, NewTaskType
<1>5. first.node = version[v].graph.start /\ first.status = "pending" /\ first.by = NoBody /\ first.key = NoKey
  BY DEF NewTask
<1>6. task \in [Instance -> Seq(TaskType)] /\ UNCHANGED version
  BY TypeTasks DEF Inv, StartInstance
<1> HIDE DEF first
<1>7. /\ task'[i] = <<first>> /\ \A j \in Instance \ {i} : task'[j] = task[j]
      /\ task' \in [Instance -> Seq(TaskType)]
  BY <1>1, <1>4, <1>6 DEF first
<1>8. /\ instance'[i] = [status |-> "running", version |-> v, starter |-> p]
      /\ \A j \in Instance \ {i} : instance'[j] = instance[j]
  BY <1>1 DEF Inv, TypeOK
<1>9. TypeOK'
  <2>1. [status |-> "running", version |-> v, starter |-> p] \in
           [status : {"none", "running", "completed", "cancelled"},
            version : Version \cup {0}, starter : Principal \cup {NoBody}]
    BY <1>2
  <2>2. instance' \in [Instance -> [status : {"none", "running", "completed", "cancelled"},
                                    version : Version \cup {0},
                                    starter : Principal \cup {NoBody}]]
    BY <1>1, <2>1 DEF Inv, TypeOK
  <2>3. started' \subseteq Principal \X Instance
    BY DEF StartInstance, Inv, TypeOK
  <2> QED
    <3>1. task' \in [Instance -> Seq([node : Node, status : TaskStatus,
                                       by : Principal \cup {NoBody}, key : Key \cup {NoKey},
                                       expired : BOOLEAN])]
      BY <1>7 DEF TaskType
    <3>2. version' \in [Version -> {Unwritten} \cup
                           [status : {"draft", "published", "retired"}, graph : Graphs]]
      BY <1>6 DEF Inv, TypeOK
    <3> QED
      BY <2>2, <2>3, <3>1, <3>2 DEF TypeOK
<1>10. Rooted'
  <2>1. ASSUME NEW j \in Instance \ {i}
        PROVE  /\ instance'[j].status = "none" => task'[j] = <<>>
               /\ instance'[j].status # "none" =>
                     instance'[j].version \in Version /\ version'[instance'[j].version] # Unwritten
    BY <1>6, <1>7, <1>8 DEF Inv, Rooted
  <2>2. instance'[i].status = "running" /\ instance'[i].version = v
    BY <1>8
  <2> QED
    BY <1>2, <1>6, <2>1, <2>2 DEF Rooted
<1>11. PublishedOnce'
  BY <1>6 DEF Inv, PublishedOnce, Published
<1>12. DOMAIN task'[i] = {1} /\ Len(task'[i]) = 1 /\ task'[i][1] = first
  BY <1>7
<1>13. OpenIsLast'
  <2>1. OpenIsLastOf(i)'
    BY <1>5, <1>8, <1>12 DEF OpenIsLastOf
  <2>2. \A j \in Instance \ {i} : OpenIsLastOf(j)'
    BY <1>7, <1>8 DEF Inv, OpenIsLast, OpenIsLastOf
  <2> QED
    BY <2>1, <2>2 DEF OpenIsLast
<1>14. PathsFollow'
  <2>1. GraphOf(i)' = version[v].graph
    BY <1>6, <1>8 DEF GraphOf
  <2>2. PathOf(i)'
    BY <1>5, <1>8, <1>12, <2>1 DEF PathOf
  <2>3. ASSUME NEW j \in Instance \ {i}, task'[j] # <<>>
        PROVE  PathOf(j)'
    <3>1. PathOf(j)
      BY <1>7, <2>3 DEF Inv, PathsFollow
    <3>2. GraphOf(j)' = GraphOf(j)
      BY <1>6, <1>8 DEF GraphOf
    <3> QED
      BY <1>7, <1>8, <3>1, <3>2 DEF PathOf, Outcome, NextNode
  <2> QED
    BY <2>2, <2>3 DEF PathsFollow
<1>15. OneDecisionPerKey'
  <2>1. ASSUME NEW t \in Tasks'
        PROVE  /\ t[1] \in Instance
               /\ t[1] = i => task'[t[1]][t[2]].key = NoKey /\ task'[t[1]][t[2]].by = NoBody
               /\ t[1] # i => t \in Tasks /\ task'[t[1]] = task[t[1]] /\ instance'[t[1]] = instance[t[1]]
    <3>1. t \in Key /\ t[1] \in Instance /\ t[2] \in DOMAIN task'[t[1]]
      BY DEF Tasks, Key
    <3> QED
      BY <1>5, <1>7, <1>8, <1>12, <3>1 DEF Tasks
  <2>2. OneDecisionPerKey
    BY DEF Inv
  <2>3. ASSUME NEW s \in Tasks', NEW t \in Tasks', s # t,
               task'[s[1]][s[2]].key = task'[t[1]][t[2]].key
        PROVE  task'[s[1]][s[2]].key = NoKey
    <3>1. CASE s[1] = i \/ t[1] = i
      BY <2>1, <2>3, <3>1
    <3>2. CASE s[1] # i /\ t[1] # i
      BY <2>1, <2>2, <2>3, <3>2 DEF OneDecisionPerKey
    <3> QED
      BY <3>1, <3>2
  <2>4. ASSUME NEW t \in Tasks', task'[t[1]][t[2]].by # NoBody
        PROVE  task'[t[1]][t[2]].by \notin AiAgent \cup {instance'[t[1]].starter}
    <3>1. t[1] # i
      BY <2>1, <2>4
    <3> QED
      BY <2>1, <2>2, <2>4, <3>1 DEF OneDecisionPerKey
  <2> QED
    BY <2>3, <2>4 DEF OneDecisionPerKey
<1> QED
  BY <1>9, <1>10, <1>11, <1>13, <1>14, <1>15 DEF Inv

\* Expiry, cancellation and escalation change a status or an expiry only.
LEMMA ShapeStepInv ==
    ASSUME Inv, KeepsShape, UNCHANGED version, started' \subseteq Principal \X Instance,
           instance' \in [Instance -> [status : Status, version : Version \cup {0},
                                       starter : Principal \cup {NoBody}]],
           \A j \in Instance :
               /\ instance'[j].starter = instance[j].starter
               /\ instance'[j].version = instance[j].version
               /\ (instance'[j].status = "none") = (instance[j].status = "none")
               /\ instance'[j].status = "completed" => instance[j].status = "completed"
               /\ \A k \in 1 .. Len(task[j]) :
                     task[j][k].status # "pending" => task'[j][k].status = task[j][k].status,
           OpenIsLast'
    PROVE  Inv'
<1>1. task \in [Instance -> Seq(TaskType)] /\ task' \in [Instance -> Seq(TaskType)]
  BY TypeTasks DEF Inv, KeepsShape
<1>2. TypeOK'
  BY <1>1 DEF Inv, TypeOK, TaskType, Status
<1>3. \A j \in Instance : /\ Len(task'[j]) = Len(task[j])
                          /\ Len(task[j]) \in Nat
                          /\ (task'[j] = <<>>) = (Len(task[j]) = 0)
                          /\ (task[j] = <<>>) = (Len(task[j]) = 0)
  BY <1>1 DEF KeepsShape
<1>4. Rooted'
  BY <1>3 DEF Inv, Rooted
<1>5. PublishedOnce'
  BY DEF Inv, PublishedOnce, Published
<1>6. OneDecisionPerKey'
  BY KeysKept DEF Inv
<1>7. PathsFollow'
  <2> SUFFICES ASSUME NEW j \in Instance, task'[j] # <<>> PROVE PathOf(j)'
    BY DEF PathsFollow
  <2>1. PathOf(j) /\ Len(task[j]) \in Nat \ {0} /\ Len(task'[j]) = Len(task[j])
    BY <1>3 DEF Inv, PathsFollow
  <2>2. GraphOf(j)' = GraphOf(j)
    BY DEF GraphOf
  <2>3. \A k \in 1 .. Len(task[j]) :
            /\ task'[j][k].node = task[j][k].node
            /\ task[j][k].status # "pending" => task'[j][k].status = task[j][k].status
    BY DEF KeepsShape
  <2>4. task'[j][1].node = GraphOf(j)'.start
    BY <2>1, <2>2, <2>3 DEF PathOf
  <2>5. ASSUME NEW k \in 1 .. Len(task[j]) - 1
        PROVE  /\ task'[j][k].status \in {"completed", "rejected"}
               /\ task'[j][k + 1].node = NextNode(GraphOf(j), task'[j][k].node, Outcome(j, k)')
    <3>1. k \in 1 .. Len(task[j]) /\ k + 1 \in 1 .. Len(task[j])
      BY <2>1
    <3>2. /\ task[j][k].status \in {"completed", "rejected"}
          /\ task[j][k + 1].node = NextNode(GraphOf(j), task[j][k].node, Outcome(j, k))
      BY <2>1 DEF PathOf
    <3>3. task'[j][k].status = task[j][k].status
      BY <2>3, <3>1, <3>2
    <3> QED
      BY <2>3, <3>1, <3>2, <3>3 DEF Outcome
  <2>6. instance'[j].status = "completed" =>
            /\ task'[j][Len(task[j])].status = "completed"
            /\ NextNode(GraphOf(j), task'[j][Len(task[j])].node, "approved") = NoNode
    <3>1. Len(task[j]) \in 1 .. Len(task[j])
      BY <2>1
    <3> QED
      BY <2>1, <2>3, <3>1 DEF PathOf
  <2> HIDE DEF NextNode
  <2> QED
    BY <2>1, <2>2, <2>4, <2>5, <2>6 DEF PathOf, NextNode
<1> QED
  BY <1>2, <1>4, <1>5, <1>6, <1>7 DEF Inv

LEMMA ExpireInv == ASSUME Inv, NEW i \in Instance, ExpireAuthority(i) PROVE Inv'
<1>1. /\ KeepsShape
      /\ \A j \in Instance : \A k \in 1 .. Len(task[j]) : task'[j][k].status = task[j][k].status
  BY ExpireFacts DEF Inv
<1>2. UNCHANGED <<version, instance, started>>
  BY DEF ExpireAuthority
<1>3. task \in [Instance -> Seq(TaskType)]
  BY TypeTasks DEF Inv
<1>4. OpenIsLast'
  BY <1>1, <1>2, <1>3 DEF Inv, OpenIsLast, OpenIsLastOf, KeepsShape
<1> QED
  BY <1>1, <1>2, <1>4, ShapeStepInv DEF Inv, TypeOK, Status

LEMMA CancelInv == ASSUME Inv, NEW i \in Instance, CancelInstance(i) PROVE Inv'
<1>1. /\ KeepsShape
      /\ \A j \in Instance : \A k \in 1 .. Len(task[j]) :
            task'[j][k].status = IF j = i /\ task[j][k].status = "pending" THEN "cancelled"
                                 ELSE task[j][k].status
  BY CancelFacts DEF Inv
<1>2. UNCHANGED <<version, started>> /\ instance' = [instance EXCEPT ![i].status = "cancelled"]
  BY DEF CancelInstance
<1>3. /\ instance' \in [Instance -> [status : Status, version : Version \cup {0},
                                     starter : Principal \cup {NoBody}]]
      /\ \A j \in Instance :
            /\ instance'[j].starter = instance[j].starter
            /\ instance'[j].version = instance[j].version
            /\ instance'[j].status = IF j = i THEN "cancelled" ELSE instance[j].status
  BY <1>2 DEF Inv, TypeOK, Status
<1>4. task \in [Instance -> Seq(TaskType)]
  BY TypeTasks DEF Inv
<1>5. instance[i].status = "running"
  BY DEF CancelInstance
<1>6. OpenIsLast'
  <2> SUFFICES ASSUME NEW j \in Instance PROVE OpenIsLastOf(j)'
    BY DEF OpenIsLast
  <2>1. DOMAIN task'[j] = 1 .. Len(task[j]) /\ DOMAIN task[j] = 1 .. Len(task[j]) /\ Len(task'[j]) = Len(task[j])
    BY <1>1, <1>4 DEF KeepsShape
  <2>2. OpenIsLastOf(j)
    BY DEF Inv, OpenIsLast
  <2> QED
    BY <1>1, <1>3, <2>1, <2>2 DEF OpenIsLastOf
<1>7. \A j \in Instance :
          /\ (instance'[j].status = "none") = (instance[j].status = "none")
          /\ instance'[j].status = "completed" => instance[j].status = "completed"
          /\ \A k \in 1 .. Len(task[j]) :
                task[j][k].status # "pending" => task'[j][k].status = task[j][k].status
  BY <1>1, <1>3, <1>5
<1> QED
  BY <1>1, <1>2, <1>3, <1>6, <1>7, ShapeStepInv DEF Inv, TypeOK

LEMMA EscalateInv == ASSUME Inv, NEW I \in SUBSET Instance, EscalateOverdue(I) PROVE Inv'
<1>1. /\ KeepsShape
      /\ \A j \in Instance : \A k \in 1 .. Len(task[j]) :
            task'[j][k].status = IF j \in I /\ k = 1 THEN "escalated" ELSE task[j][k].status
  BY EscalateFacts DEF Inv
<1>2. UNCHANGED <<version, instance, started>>
  BY DEF EscalateOverdue
<1>3. task \in [Instance -> Seq(TaskType)]
  BY TypeTasks DEF Inv
<1>4. ASSUME NEW j \in I
      PROVE  /\ task[j][1].status = "pending" /\ 1 \in 1 .. Len(task[j])
             /\ Len(task[j]) = 1 /\ instance[j].status = "running"
  <2>1. task[j] # <<>> /\ task[j][1].status = "pending" /\ task[j] \in Seq(TaskType)
    BY <1>3 DEF EscalateOverdue
  <2>2. 1 \in DOMAIN task[j] /\ 1 \in 1 .. Len(task[j])
    BY <2>1
  <2> QED
    BY <2>1, <2>2 DEF Inv, OpenIsLast, OpenIsLastOf
<1>5. OpenIsLast'
  BY <1>1, <1>2, <1>3, <1>4 DEF Inv, OpenIsLast, OpenIsLastOf, KeepsShape
<1>6. \A j \in Instance : \A k \in 1 .. Len(task[j]) :
          task[j][k].status # "pending" => task'[j][k].status = task[j][k].status
  BY <1>1, <1>4
<1> QED
  BY <1>1, <1>2, <1>5, <1>6, ShapeStepInv DEF Inv, TypeOK, Status

LEMMA DecideInv ==
    ASSUME Inv, NEW i \in Instance, NEW k, NEW p \in Principal, NEW key \in Key,
           NEW d \in {"approved", "rejected"}, DecideTask(i, k, p, key, d)
    PROVE  Inv'
<1> DEFINE next == NextNode(GraphOf(i), task[i][k].node, d)
           done == Decided(task[i][k], p, key, d)
<1>1. /\ k \in 1 .. Len(task[i]) /\ k = Len(task[i]) /\ instance[i].status = "running"
      /\ task[i] \in Seq(TaskType) /\ done \in TaskType
      /\ task[i][k].status = "pending"
      /\ \A j \in Instance \ {i} : task'[j] = task[j]
      /\ task'[i] \in Seq(TaskType)
      /\ Len(task'[i]) = IF next = NoNode THEN k ELSE k + 1
      /\ task'[i][k] = done
      /\ \A m \in 1 .. k - 1 : task'[i][m] = task[i][m]
      /\ next # NoNode => next \in Node /\ task'[i][k + 1] = NewTask(next)
  BY DecideFacts DEF Inv
<1>2. /\ done.node = task[i][k].node /\ done.by = p /\ done.key = key
      /\ done.status = IF d = "approved" THEN "completed" ELSE "rejected"
  <2>1. task[i][k] \in TaskType
    BY <1>1
  <2> QED
    BY <2>1 DEF Decided, TaskType
<1>3. /\ UNCHANGED <<version, started>>
      /\ IF next = NoNode
         THEN instance' = [instance EXCEPT ![i].status = IF d = "approved" THEN "completed" ELSE "cancelled"]
         ELSE UNCHANGED instance
  BY DEF DecideTask
<1>4. MayDecide(i, k, p, key)
  BY DEF DecideTask
<1> HIDE DEF next, done
<1>5. /\ instance' \in [Instance -> [status : Status, version : Version \cup {0},
                                     starter : Principal \cup {NoBody}]]
      /\ \A j \in Instance :
            /\ instance'[j].starter = instance[j].starter
            /\ instance'[j].version = instance[j].version
            /\ j # i => instance'[j].status = instance[j].status
      /\ instance'[i].status = IF next = NoNode
                               THEN IF d = "approved" THEN "completed" ELSE "cancelled"
                               ELSE "running"
  <2>1. instance \in [Instance -> [status : Status, version : Version \cup {0},
                                   starter : Principal \cup {NoBody}]]
    BY DEF Inv, TypeOK, Status
  <2>2. CASE next = NoNode
    BY <1>3, <2>1, <2>2 DEF Status
  <2>3. CASE next # NoNode
    BY <1>1, <1>3, <2>1, <2>3
  <2> QED  BY <2>2, <2>3
<1>6. task' \in [Instance -> Seq(TaskType)]
  <2>1. task \in [Instance -> Seq(TaskType)]
    BY TypeTasks DEF Inv
  <2>2. task' = [task EXCEPT ![i] = task'[i]]
    BY <2>1 DEF DecideTask
  <2> QED
    BY <1>1, <2>1, <2>2
<1>7. TypeOK'
  BY <1>3, <1>5, <1>6 DEF Inv, TypeOK, TaskType, Status
<1>8. Rooted'
  BY <1>1, <1>3, <1>5 DEF Inv, Rooted
<1>9. PublishedOnce'
  BY <1>3 DEF Inv, PublishedOnce, Published
<1>10. OpenIsLast'
  <2>1. \A j \in Instance \ {i} : OpenIsLastOf(j)'
    BY <1>1, <1>5 DEF Inv, OpenIsLast, OpenIsLastOf
  <2>2. \A m \in 1 .. k - 1 : task[i][m].status # "pending" /\ m \in DOMAIN task[i]
    BY <1>1 DEF Inv, OpenIsLast, OpenIsLastOf
  <2>3. DOMAIN task'[i] = 1 .. Len(task'[i])
    BY <1>1
  <2>4. OpenIsLastOf(i)'
    <3>1. CASE next = NoNode
      <4>1. instance'[i].status # "running"
        BY <1>5, <3>1
      <4>2. \A m \in 1 .. k : task'[i][m].status # "pending"
        BY <1>1, <1>2, <2>2
      <4> QED
        BY <1>1, <2>3, <3>1, <4>1, <4>2 DEF OpenIsLastOf
    <3>2. CASE next # NoNode
      <4>1. instance'[i].status = "running" /\ task'[i][k + 1].status = "pending"
        BY <1>1, <1>5, <3>2 DEF NewTask
      <4>2. \A m \in 1 .. k : task'[i][m].status # "pending"
        BY <1>1, <1>2, <2>2
      <4> QED
        BY <1>1, <2>3, <3>2, <4>1, <4>2 DEF OpenIsLastOf
    <3> QED  BY <3>1, <3>2
  <2> QED
    BY <2>1, <2>4 DEF OpenIsLast
<1>11. PathsFollow'
  <2>1. \A j \in Instance : GraphOf(j)' = GraphOf(j)
    BY <1>3, <1>5 DEF GraphOf
  <2>2. ASSUME NEW j \in Instance \ {i}, task'[j] # <<>>
        PROVE  PathOf(j)'
    <3>0. instance'[j].status = instance[j].status
      BY <1>5
    <3>1. task'[j] = task[j] /\ GraphOf(j)' = GraphOf(j)
      BY <1>1, <2>1
    <3>2. PathOf(j)
      BY <2>2, <3>1 DEF Inv, PathsFollow
    <3> QED
      BY <3>0, <3>1, <3>2, PathKept
  <2>3. PathOf(i)'
    <3>1. task[i] # <<>> /\ PathOf(i)
      BY <1>1 DEF Inv, PathsFollow
    <3>2. task'[i][1].node = GraphOf(i).start
      BY <1>1, <1>2, <3>1 DEF PathOf
    <3>3. Outcome(i, k)' = d
      BY <1>1, <1>2 DEF Outcome
    <3>4. ASSUME NEW m \in 1 .. k - 1
          PROVE  /\ task'[i][m].status \in {"completed", "rejected"}
                 /\ task'[i][m + 1].node = NextNode(GraphOf(i), task'[i][m].node, Outcome(i, m)')
      <4>1. /\ task[i][m].status \in {"completed", "rejected"}
            /\ task[i][m + 1].node = NextNode(GraphOf(i), task[i][m].node, Outcome(i, m))
        BY <1>1, <3>1 DEF PathOf
      <4>2. task'[i][m] = task[i][m] /\ task'[i][m + 1].node = task[i][m + 1].node
        <5>1. CASE m + 1 = k
          BY <1>1, <1>2, <5>1
        <5>2. CASE m + 1 # k
          BY <1>1, <5>2
        <5> QED  BY <5>1, <5>2
      <4> QED
        BY <4>1, <4>2 DEF Outcome
    <3>5. /\ task'[i][k].status \in {"completed", "rejected"}
          /\ next = NextNode(GraphOf(i), task'[i][k].node, Outcome(i, k)')
      BY <1>1, <1>2, <3>3 DEF next
    <3>6. CASE next = NoNode
      <4>1. Len(task'[i]) = k
        BY <1>1, <3>6
      <4>2. instance'[i].status = "completed" =>
                /\ task'[i][k].status = "completed"
                /\ NextNode(GraphOf(i), task'[i][k].node, "approved") = NoNode
        BY <1>1, <1>2, <1>5, <3>3, <3>5, <3>6
      <4> QED
        BY <2>1, <3>2, <3>4, <4>1, <4>2 DEF PathOf, NextNode
    <3>7. CASE next # NoNode
      <4>1. Len(task'[i]) = k + 1 /\ task'[i][k + 1].node = next /\ instance'[i].status = "running"
        BY <1>1, <1>5, <3>7 DEF NewTask
      <4>2. \A m \in 1 .. k :
                /\ task'[i][m].status \in {"completed", "rejected"}
                /\ task'[i][m + 1].node = NextNode(GraphOf(i), task'[i][m].node, Outcome(i, m)')
        <5> SUFFICES ASSUME NEW m \in 1 .. k
                     PROVE  /\ task'[i][m].status \in {"completed", "rejected"}
                            /\ task'[i][m + 1].node = NextNode(GraphOf(i), task'[i][m].node, Outcome(i, m)')
          OBVIOUS
        <5>1. CASE m = k
          BY <3>5, <4>1, <5>1
        <5>2. CASE m \in 1 .. k - 1
          BY <3>4, <5>2
        <5> QED
          BY <1>1, <5>1, <5>2
      <4> QED
        BY <1>1, <2>1, <3>2, <4>1, <4>2 DEF PathOf, NextNode
    <3> QED  BY <3>6, <3>7
  <2> QED
    BY <2>2, <2>3 DEF PathsFollow
<1>12. OneDecisionPerKey'
  <2>1. ASSUME NEW t \in Tasks'
        PROVE  /\ t \in Key /\ t[1] \in Instance
               /\ \/ /\ t \in Tasks /\ t # <<i, k>>
                     /\ task'[t[1]][t[2]].key = task[t[1]][t[2]].key
                     /\ task'[t[1]][t[2]].by = task[t[1]][t[2]].by
                  \/ /\ t = <<i, k>>
                     /\ task'[t[1]][t[2]].key = key /\ task'[t[1]][t[2]].by = p
                  \/ /\ task'[t[1]][t[2]].key = NoKey /\ task'[t[1]][t[2]].by = NoBody
    <3>1. t \in Key /\ t[1] \in Instance /\ t[2] \in DOMAIN task'[t[1]] /\ t = <<t[1], t[2]>>
      BY DEF Tasks, Key
    <3>2. CASE t[1] # i
      BY <1>1, <3>1, <3>2 DEF Tasks
    <3>3. CASE t[1] = i
      <4>1. t[2] \in 1 .. Len(task'[i])
        BY <1>1, <3>1, <3>3
      <4>2. CASE t[2] < k
        <5>1. t[2] \in 1 .. k - 1 /\ t[2] \in DOMAIN task[i]
          BY <1>1, <4>1, <4>2
        <5> QED
          BY <1>1, <3>1, <3>3, <4>2, <5>1 DEF Tasks
      <4>3. CASE t[2] = k
        BY <1>1, <1>2, <3>1, <3>3, <4>3
      <4>4. CASE t[2] = k + 1
        BY <1>1, <3>1, <3>3, <4>1, <4>4 DEF NewTask
      <4> QED
        BY <1>1, <4>1, <4>2, <4>3, <4>4
    <3> QED  BY <3>2, <3>3
  <2>2. \A t \in Tasks : task[t[1]][t[2]].key # key
    BY <1>4 DEF MayDecide
  <2>3. p \notin AiAgent /\ p # instance[i].starter
    BY <1>4 DEF MayDecide
  <2>4. key # NoKey
    BY KeyIsGiven
  <2>5. ASSUME NEW s \in Tasks', NEW t \in Tasks', s # t,
               task'[s[1]][s[2]].key = task'[t[1]][t[2]].key
        PROVE  task'[s[1]][s[2]].key = NoKey
    BY <2>1, <2>2, <2>4, <2>5 DEF Inv, OneDecisionPerKey
  <2>6. ASSUME NEW t \in Tasks', task'[t[1]][t[2]].by # NoBody
        PROVE  task'[t[1]][t[2]].by \notin AiAgent \cup {instance'[t[1]].starter}
    <3>1. CASE t = <<i, k>> /\ task'[t[1]][t[2]].by = p
      BY <1>5, <2>3, <3>1
    <3>2. CASE t \in Tasks /\ task'[t[1]][t[2]].by = task[t[1]][t[2]].by
      BY <1>5, <2>1, <2>6, <3>2 DEF Inv, OneDecisionPerKey
    <3> QED
      BY <2>1, <2>6, <3>1, <3>2
  <2> QED
    BY <2>5, <2>6 DEF OneDecisionPerKey
<1> QED
  BY <1>7, <1>8, <1>9, <1>10, <1>11, <1>12 DEF Inv

-----------------------------------------------------------------------------

LEMMA StepInv == Inv /\ [Next]_vars => Inv'
<1> SUFFICES ASSUME Inv, [Next]_vars PROVE Inv'
  OBVIOUS
<1>1. ASSUME NEW v \in Version, NEW g \in Graphs, AddVersion(v, g) PROVE Inv'
  BY <1>1, AddInv
<1>2. ASSUME NEW v \in Version, PublishVersion(v) PROVE Inv'
  BY <1>2, PublishInv
<1>3. ASSUME NEW i \in Instance, NEW p \in Principal, StartInstance(i, p) PROVE Inv'
  BY <1>3, StartInv
<1>4. ASSUME NEW i \in Instance, ExpireAuthority(i) PROVE Inv'
  BY <1>4, ExpireInv
<1>5. ASSUME NEW i \in Instance, Decide(i) PROVE Inv'
  <2>1. PICK k \in DOMAIN task[i] :
            \E key \in {<<i, k>>} \cup ({task[t[1]][t[2]].key : t \in Tasks} \ {NoKey}),
               p \in Principal, d \in {"approved", "rejected"} : DecideTask(i, k, p, key, d)
    BY <1>5 DEF Decide
  <2>2. PICK key \in {<<i, k>>} \cup ({task[t[1]][t[2]].key : t \in Tasks} \ {NoKey}),
             p \in Principal, d \in {"approved", "rejected"} : DecideTask(i, k, p, key, d)
    BY <2>1
  <2>3. <<i, k>> \in Key
    BY <2>2, TasksFacts DEF DecideTask
  <2>4. \A t \in Tasks : task[t[1]][t[2]].key \in Key \cup {NoKey}
    <3> SUFFICES ASSUME NEW t \in Tasks PROVE task[t[1]][t[2]].key \in Key \cup {NoKey}
      OBVIOUS
    <3>1. task[t[1]] \in Seq(TaskType) /\ t[2] \in DOMAIN task[t[1]]
      BY TypeTasks, TasksFacts DEF Inv
    <3>2. task[t[1]][t[2]] \in TaskType
      BY <3>1
    <3> QED
      BY <3>2 DEF TaskType
  <2>5. key \in Key
    BY <2>3, <2>4
  <2> QED
    BY <2>2, <2>5, DecideInv
<1>6. ASSUME NEW i \in Instance, CancelInstance(i) PROVE Inv'
  BY <1>6, CancelInv
<1>7. ASSUME NEW I \in SUBSET Instance, EscalateOverdue(I) PROVE Inv'
  BY <1>7, EscalateInv
<1>8. ASSUME UNCHANGED vars PROVE Inv'
  <2>1. UNCHANGED <<version, instance, task, started>>
    BY <1>8 DEF vars
  <2>2. TypeOK' /\ PublishedOnce'
    BY <2>1 DEF Inv, TypeOK, PublishedOnce, Published
  <2> QED
    BY <2>1, <2>2, VersionStepInv DEF Inv, TypeOK
<1> QED
  BY <1>1, <1>2, <1>3, <1>4, <1>5, <1>6, <1>7, <1>8 DEF Next

LEMMA Invariance == Spec => []Inv
  BY InitInv, StepInv, PTL DEF Spec

\* The type invariant, for every set of principals, versions, graphs and instances.
THEOREM TypeCorrect == Spec => []TypeOK
  BY Invariance, PTL DEF Inv

\* publishWorkflowVersion and completeWorkflowTask keep one version effective and
\* one task of a running instance open at most, however many versions, instances
\* and steps there are.
THEOREM OneTaskOpen == Spec => []OneOpenTask
<1>1. ASSUME Inv PROVE OneOpenTask
  <2>1. Cardinality(Published) <= 1
    <3>1. CASE Published = {}
      BY <3>1, FS_EmptySet
    <3>2. CASE Published # {}
      <4>1. PICK v \in Published : TRUE
        BY <3>2
      <4>2. Published = {v}
        BY <1>1, <4>1 DEF Inv, PublishedOnce
      <4> QED
        BY <4>2, FS_Singleton
    <3> QED  BY <3>1, <3>2
  <2> QED
    BY <1>1, <2>1 DEF Inv, OpenIsLast, OpenIsLastOf, OneOpenTask
<1> QED
  BY <1>1, Invariance, PTL

\* completeWorkflowTask takes an instance along its version's graph, also while
\* other versions are published and whatever nodes a graph leaves dangling.
THEOREM PathIsFollowed == Spec => []FollowsGraph
<1>1. ASSUME Inv PROVE FollowsGraph
  BY <1>1 DEF Inv, PathsFollow, PathOf, Outcome, FollowsGraph
<1> QED
  BY <1>1, Invariance, PTL

\* An idempotency key decides one task at most, and its decider is a human who did
\* not start the instance.
THEOREM KeysDecideOnce == Spec => []OneDecisionPerKey
  BY Invariance, PTL DEF Inv

=============================================================================
