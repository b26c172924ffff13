---------------------------- MODULE OutboxProofs ----------------------------
(***************************************************************************)
(* Theorems about Outbox, for every set of events and requests and every   *)
(* value of MaxAttempts and MaxCrashes.                                    *)
(*                                                                         *)
(* The safety properties are not inductive: that no acknowledged event is  *)
(* lost depends on what the queries in flight may still do to PostgreSQL,  *)
(* and on what the transport has seen.  Inv adds exactly those facts.      *)
(***************************************************************************)
EXTENDS Outbox, FiniteSetTheorems, TLAPS

\* Queries are INSERTs of a pending row or UPDATEs to a final status.
WritesWellFormed ==
    \A w \in writes : \/ w.op = "insert" /\ w.status = "pending"
                      \/ w.op = "update" /\ w.status \in {"published", "dead_letter"}

\* Nothing calls an event published, in memory, in PostgreSQL or in a query
\* under way, before the (in-process) transport has taken it.
PublishedAccepted ==
    Transport # "nats-jetstream" =>
        \A e \in Event :
            /\ row[e].status = "published" => accepted[e] > 0
            /\ db[e] = "published" => accepted[e] > 0
            /\ Update(e, "published") \in writes => accepted[e] > 0
            /\ e \in seen => accepted[e] > 0
            /\ sent[e] = 0

\* A commit is acknowledged only once PostgreSQL has its row.
AckedStored == Durable => \A e \in acked : db[e] # "absent"

\* An INSERT under way concerns a row PostgreSQL does not have.
InsertsAbsent == \A e \in Event : Insert(e) \in writes => db[e] = "absent"

\* A process that is down has no memory.
DownIsEmpty ==
    ~alive => \A e \in Event : row[e] = NoRow /\ dlq[e] = "none" /\ e \notin seen /\ sent[e] = 0

\* One delivery for each crash, and one more while this process remembers it.
AcceptedBound ==
    Transport # "nats-jetstream" =>
        \A e \in Event : /\ accepted[e] <= 1 + crashes
                         /\ e \notin seen => accepted[e] <= crashes

Inv ==
    /\ TypeOK
    /\ DeadLettersMatchRows
    /\ WritesWellFormed
    /\ PublishedAccepted
    /\ AckedStored
    /\ InsertsAbsent
    /\ DownIsEmpty
    /\ AcceptedBound

USE DEF RowStatus, DlqStatus

-----------------------------------------------------------------------------

LEMMA OneMoreRange ==
    ASSUME NEW n \in 0..MaxAttempts
    PROVE  OneMore(n) \in 0..MaxAttempts
  BY OutboxAssumption DEF OneMore

LEMMA PassRowType ==
    ASSUME NEW r \in [Event -> [status : RowStatus, attempts : 0..MaxAttempts]],
           NEW P \in SUBSET Event, NEW F \in SUBSET P
    PROVE  /\ PassRow(r, P, F) \in [Event -> [status : RowStatus, attempts : 0..MaxAttempts]]
           /\ \A e \in Event \ P : PassRow(r, P, F)[e] = r[e]
           /\ \A e \in P \ F : PassRow(r, P, F)[e].status = "published"
           /\ \A e \in F : PassRow(r, P, F)[e].status \in {"pending", "dead_letter"}
  BY OneMoreRange DEF PassRow, Turn

LEMMA InitInv == Init => Inv
  BY OutboxAssumption DEF Init, Inv, TypeOK, DeadLettersMatchRows, WritesWellFormed,
     PublishedAccepted, AckedStored, InsertsAbsent, DownIsEmpty, AcceptedBound, NoRow,
     NoRequest, Insert, Update

\* What a publisher pass preserves.  It is the body of PublishPass, over the rows
\* in memory, and of Restart, over the rows it has just loaded.
LEMMA PublishInv ==
    ASSUME Inv, NEW r \in [Event -> [status : RowStatus, attempts : 0..MaxAttempts]],
           NEW F \in SUBSET {e \in Event : r[e].status = "pending"},
           \A e \in Event : /\ r[e].status = "dead_letter" => dlq[e] # "none"
                            /\ dlq[e] # "none" => r[e].status # "absent",
           Transport # "nats-jetstream" =>
               \A e \in Event : r[e].status = "published" => accepted[e] > 0,
           Publish(r, {e \in Event : r[e].status = "pending"}, F),
           alive', UNCHANGED <<db, acked, request, crashes>>
    PROVE  Inv'
<1> DEFINE P == {e \in Event : r[e].status = "pending"}
<1> DEFINE new == PassRow(r, P, F)
<1>1. /\ new \in [Event -> [status : RowStatus, attempts : 0..MaxAttempts]]
      /\ \A e \in Event \ P : new[e] = r[e]
      /\ \A e \in P \ F : new[e].status = "published"
      /\ \A e \in F : new[e].status \in {"pending", "dead_letter"}
  BY PassRowType
<1>2. /\ row' = new
      /\ dlq' = [e \in Event |->
                   IF e \in P /\ new[e].status = "dead_letter" THEN "failed" ELSE dlq[e]]
      /\ writes' = writes \cup
           (IF Durable THEN {Update(e, new[e].status) : e \in Marked(r, P, F)} ELSE {})
  BY DEF Publish
<1>3. \A e \in Marked(r, P, F) : e \in P /\ new[e].status \in {"published", "dead_letter"}
  BY <1>1 DEF Marked
<1>4. /\ Transport = "nats-jetstream" =>
           /\ sent' = [e \in Event |-> IF e \in P \ F THEN sent[e] + 1 ELSE sent[e]]
           /\ UNCHANGED <<seen, accepted>>
      /\ Transport # "nats-jetstream" =>
           /\ accepted' = [e \in Event |->
                             IF e \in (P \ F) \ seen THEN accepted[e] + 1 ELSE accepted[e]]
           /\ seen' = seen \cup (P \ F)
           /\ UNCHANGED sent
  BY DEF Publish
<1>5. \A w \in writes' : w \in writes \/ \E e \in P : /\ w = Update(e, new[e].status)
                                                      /\ new[e].status \in {"published", "dead_letter"}
  BY <1>2, <1>3
<1>6. TypeOK'
  <2>1. writes' \subseteq [ev : Event, op : {"insert", "update"}, status : RowStatus]
    <3> SUFFICES ASSUME NEW w \in writes', w \notin writes
                 PROVE  w \in [ev : Event, op : {"insert", "update"}, status : RowStatus]
      BY DEF Inv, TypeOK
    <3>1. PICK e \in P : w = Update(e, new[e].status) /\ new[e].status \in {"published", "dead_letter"}
      BY <1>5
    <3> QED  BY <3>1 DEF Update
  <2>2. sent' \in [Event -> Nat] /\ accepted' \in [Event -> Nat] /\ seen' \subseteq Event
    BY <1>4 DEF Inv, TypeOK
  <2>3. dlq' \in [Event -> DlqStatus]
    BY <1>2 DEF Inv, TypeOK
  <2> QED
    BY <1>1, <1>2, <2>1, <2>2, <2>3 DEF Inv, TypeOK
<1>7. DeadLettersMatchRows'
  BY <1>1, <1>2 DEF DeadLettersMatchRows, Inv, TypeOK
<1>8. WritesWellFormed'
  BY <1>5 DEF Inv, WritesWellFormed, Update
<1>9. ASSUME Transport # "nats-jetstream"
      PROVE  \A e \in Event : /\ accepted'[e] >= accepted[e]
                              /\ e \in P \ F => accepted'[e] > 0
  BY <1>4, <1>9 DEF Inv, TypeOK, PublishedAccepted
<1>10. PublishedAccepted'
  <2> SUFFICES ASSUME Transport # "nats-jetstream", NEW e \in Event
               PROVE  /\ row'[e].status = "published" => accepted'[e] > 0
                      /\ db'[e] = "published" => accepted'[e] > 0
                      /\ Update(e, "published") \in writes' => accepted'[e] > 0
                      /\ e \in seen' => accepted'[e] > 0
                      /\ sent'[e] = 0
    BY DEF PublishedAccepted, Update
  <2>0. accepted[e] \in Nat /\ accepted'[e] \in Nat
    BY <1>6 DEF Inv, TypeOK
  <2>1. row'[e].status = "published" => accepted'[e] > 0
    BY <1>1, <1>2, <1>9, <2>0
  <2>2. db'[e] = "published" => accepted'[e] > 0
    BY <1>9, <2>0 DEF Inv, PublishedAccepted
  <2>3. Update(e, "published") \in writes' => accepted'[e] > 0
    <3> SUFFICES ASSUME Update(e, "published") \in writes', Update(e, "published") \notin writes
                 PROVE  accepted'[e] > 0
      BY <1>9, <2>0 DEF Inv, PublishedAccepted
    <3>1. PICK f \in P : Update(e, "published") = Update(f, new[f].status)
      BY <1>5
    <3>2. f = e /\ new[e].status = "published"
      BY <3>1 DEF Update
    <3> QED  BY <3>1, <3>2, <1>1, <1>9, <2>0
  <2>4. e \in seen' => accepted'[e] > 0
    BY <1>4, <1>9, <2>0 DEF Inv, PublishedAccepted
  <2>5. sent'[e] = 0
    BY <1>4 DEF Inv, PublishedAccepted
  <2> QED  BY <2>1, <2>2, <2>3, <2>4, <2>5
<1>11. AckedStored'
  BY DEF Inv, AckedStored
<1>12. InsertsAbsent'
  BY <1>5 DEF Inv, InsertsAbsent, Insert, Update
<1>13. DownIsEmpty'
  BY DEF DownIsEmpty
<1>14. AcceptedBound'
  <2> SUFFICES ASSUME Transport # "nats-jetstream", NEW e \in Event
               PROVE  accepted'[e] <= 1 + crashes /\ (e \notin seen' => accepted'[e] <= crashes)
    BY DEF AcceptedBound
  <2>1. accepted[e] \in Nat /\ crashes \in Nat
    BY OutboxAssumption DEF Inv, TypeOK
  <2> QED  BY <1>4, <2>1 DEF Inv, AcceptedBound, TypeOK
<1> QED
  BY <1>6, <1>7, <1>8, <1>10, <1>11, <1>12, <1>13, <1>14 DEF Inv

-----------------------------------------------------------------------------

LEMMA StepInv == Inv /\ [Next]_vars => Inv'
<1> SUFFICES ASSUME Inv, [Next]_vars PROVE Inv'
  OBVIOUS
<1> USE OutboxAssumption DEF Inv
<1>1. ASSUME NEW e \in Event, CommitInMemory(e) PROVE Inv'
  BY <1>1 DEF CommitInMemory, TypeOK, DeadLettersMatchRows, WritesWellFormed, Unused,
     PublishedAccepted, AckedStored, InsertsAbsent, DownIsEmpty, AcceptedBound, NoRow,
     FreshRow, Insert, Update
<1>2. ASSUME NEW e \in Event, CommitTx(e) PROVE Inv'
  BY <1>2 DEF CommitTx, TypeOK, DeadLettersMatchRows, WritesWellFormed, Unused,
     PublishedAccepted, AckedStored, InsertsAbsent, DownIsEmpty, AcceptedBound, NoRow,
     FreshRow, Insert, Update
<1>3. ASSUME NEW e \in Event, RememberCommit(e) PROVE Inv'
  BY <1>3 DEF RememberCommit, TypeOK, DeadLettersMatchRows, WritesWellFormed,
     PublishedAccepted, AckedStored, InsertsAbsent, DownIsEmpty, AcceptedBound, NoRow,
     FreshRow, Insert, Update
<1>4. ASSUME NEW e \in Event, Emit(e) PROVE Inv'
  BY <1>4 DEF Emit, TypeOK, DeadLettersMatchRows, WritesWellFormed, Unused,
     PublishedAccepted, AckedStored, InsertsAbsent, DownIsEmpty, AcceptedBound, NoRow,
     FreshRow, Insert, Update
<1>5. CASE PublishPass
  <2>1. PICK F \in Refusals(Pending) : Publish(row, Pending, F)
    BY <1>5 DEF PublishPass
  <2>2. F \in SUBSET Pending
    BY DEF Refusals
  <2>3. UNCHANGED <<db, acked, request, crashes>> /\ alive'
    BY <1>5 DEF PublishPass
  <2> QED
    BY <2>1, <2>2, <2>3, PublishInv DEF Pending, TypeOK, DeadLettersMatchRows, PublishedAccepted
<1>6. ASSUME NEW e \in Event, BrokerAck(e) PROVE Inv'
  BY <1>6 DEF BrokerAck, TypeOK, DeadLettersMatchRows, WritesWellFormed,
     PublishedAccepted, AckedStored, InsertsAbsent, DownIsEmpty, AcceptedBound
<1>7. ASSUME NEW e \in Event, RunInsert(e) PROVE Inv'
  BY <1>7 DEF RunInsert, TypeOK, DeadLettersMatchRows, WritesWellFormed,
     PublishedAccepted, AckedStored, InsertsAbsent, DownIsEmpty, AcceptedBound,
     Insert, Update
<1>8. ASSUME NEW e \in Event, NEW s \in {"published", "dead_letter"}, RunUpdate(e, s) PROVE Inv'
  BY <1>8 DEF RunUpdate, TypeOK, DeadLettersMatchRows, WritesWellFormed,
     PublishedAccepted, AckedStored, InsertsAbsent, DownIsEmpty, AcceptedBound,
     Insert, Update
<1>9. ASSUME NEW e \in Event, NEW s \in DlqStatus, Remediate(e, s) PROVE Inv'
  <2>1. s # "none" /\ dlq[e] # "none"
    BY <1>9 DEF Remediate, DlqTransitions
  <2> QED
    BY <1>9, <2>1 DEF Remediate, TypeOK, DeadLettersMatchRows, WritesWellFormed,
       PublishedAccepted, AckedStored, InsertsAbsent, DownIsEmpty, AcceptedBound
<1>10. ASSUME NEW r \in Request, NEW i \in {"reconstruction", "reexecute"},
              NEW T \in SUBSET Event, RequestReplay(r, i, T)
       PROVE  Inv'
  BY <1>10 DEF RequestReplay, TypeOK, DeadLettersMatchRows, WritesWellFormed,
     PublishedAccepted, AckedStored, InsertsAbsent, DownIsEmpty, AcceptedBound
<1>11. ASSUME NEW r \in Request, ExecuteReplay(r) PROVE Inv'
  BY <1>11 DEF ExecuteReplay, Replay, Replayable, FreshRow, TypeOK, DeadLettersMatchRows,
     WritesWellFormed, PublishedAccepted, AckedStored, InsertsAbsent, DownIsEmpty, AcceptedBound
<1>12. ASSUME NEW r \in Request, NEW i \in {"reconstruction", "reexecute"},
              NEW e \in Event, ReplayDeadLetter(r, i, e)
       PROVE  Inv'
  BY <1>12 DEF ReplayDeadLetter, Replay, Replayable, FreshRow, TypeOK, DeadLettersMatchRows,
     WritesWellFormed, PublishedAccepted, AckedStored, InsertsAbsent, DownIsEmpty, AcceptedBound
<1>13. CASE Crash
  <2>1. writes' \subseteq writes
    BY <1>13 DEF Crash
  <2>2. TypeOK'
    <3>1. crashes' \in 0..MaxCrashes
      BY <1>13 DEF Crash, TypeOK
    <3>2. row' \in [Event -> [status : RowStatus, attempts : 0..MaxAttempts]]
      BY <1>13 DEF Crash, NoRow
    <3> QED  BY <1>13, <2>1, <3>1, <3>2 DEF Crash, NoRequest, TypeOK
  <2>3. PublishedAccepted'
    BY <1>13, <2>1 DEF Crash, NoRow, PublishedAccepted, Update
  <2>4. AcceptedBound'
    BY <1>13 DEF Crash, AcceptedBound, TypeOK
  <2>5. InsertsAbsent'
    BY <1>13, <2>1 DEF Crash, InsertsAbsent, Insert
  <2> QED
    BY <1>13, <2>1, <2>2, <2>3, <2>4, <2>5 DEF Crash, NoRow, DeadLettersMatchRows,
       WritesWellFormed, AckedStored, DownIsEmpty
<1>14. CASE Restart
  <2>1. CASE Durable /\ Transport # "nats-stub"
    <3>1. PICK F \in Refusals(HydratedPending) : Publish(Hydrated, HydratedPending, F)
      BY <1>14, <2>1 DEF Restart
    <3>2. HydratedPending = {e \in Event : Hydrated[e].status = "pending"}
      BY DEF HydratedPending, Hydrated, FreshRow, NoRow
    <3>3. Hydrated \in [Event -> [status : RowStatus, attempts : 0..MaxAttempts]]
      BY DEF Hydrated, FreshRow, NoRow
    <3>4. \A e \in Event : Hydrated[e].status \in {"absent", "pending"} /\ dlq[e] = "none"
      BY <1>14 DEF Restart, Hydrated, FreshRow, NoRow, DownIsEmpty
    <3>5. F \in SUBSET HydratedPending
      BY DEF Refusals
    <3>6. UNCHANGED <<db, acked, request, crashes>> /\ alive'
      BY <1>14 DEF Restart
    <3> QED  BY <3>1, <3>2, <3>3, <3>4, <3>5, <3>6, PublishInv
  <2>2. CASE ~(Durable /\ Transport # "nats-stub")
    BY <1>14, <2>2 DEF Restart, Hydrated, FreshRow, NoRow, TypeOK, DeadLettersMatchRows,
       WritesWellFormed, PublishedAccepted, AckedStored, InsertsAbsent, DownIsEmpty, AcceptedBound
  <2> QED  BY <2>1, <2>2
<1>15. ASSUME NEW e \in Event, FailInsert(e) PROVE Inv'
  BY <1>15 DEF FailInsert, TypeOK, DeadLettersMatchRows, WritesWellFormed,
     PublishedAccepted, AckedStored, InsertsAbsent, DownIsEmpty, AcceptedBound,
     Insert, Update
<1>16. CASE UNCHANGED vars
  BY <1>16 DEF vars, TypeOK, DeadLettersMatchRows, WritesWellFormed, Update, Insert,
     PublishedAccepted, AckedStored, InsertsAbsent, DownIsEmpty, AcceptedBound
<1> QED
  BY <1>1, <1>2, <1>3, <1>4, <1>5, <1>6, <1>7, <1>8, <1>9, <1>10, <1>11, <1>12, <1>13,
     <1>14, <1>15, <1>16 DEF Next, RunWrite

-----------------------------------------------------------------------------

\* Inv holds in every reachable state of the outbox.
THEOREM Invariance == Spec => []Inv
  BY InitInv, StepInv, PTL DEF Spec

\* Rows, dead letters, queries and counters keep their types (the variables of
\* Outbox, as its Init and actions assign them).
THEOREM TypeCorrect == Spec => []TypeOK
<1>1. Inv => TypeOK
  BY DEF Inv
<1> QED  BY <1>1, Invariance, PTL

\* A dead-lettered row always has its dead letter and a dead letter its row
\* (moveToDlq, executeReplayRequest, hydratePendingOutbox).
THEOREM DeadLettersTracked == Spec => []DeadLettersMatchRows
<1>1. Inv => DeadLettersMatchRows
  BY DEF Inv
<1> QED  BY <1>1, Invariance, PTL

\* On an in-process transport no crash, lost or reordered query, retry or replay
\* makes an acknowledged event vanish (commitWithOutbox, emitCrmEvent,
\* publishPendingOutbox, hydratePendingOutbox).
THEOREM NothingAckedIsLost == Spec => []NoSilentLoss
<1>1. Inv => NoSilentLoss
  <2> SUFFICES ASSUME Inv, Durable, Transport # "nats-jetstream", NEW e \in acked
               PROVE  accepted[e] > 0 \/ db[e] \in {"pending", "dead_letter"}
    BY DEF NoSilentLoss
  <2>1. e \in Event /\ db[e] \in RowStatus \ {"absent"}
    BY DEF Inv, TypeOK, AckedStored
  <2> QED  BY <2>1 DEF Inv, PublishedAccepted
<1> QED  BY <1>1, Invariance, PTL

\* On an in-process transport an event is delivered once, and once more for each
\* crash at most (the `published` set of createInMemoryDevTransport).
THEOREM OneDeliveryPerProcess == Spec => []DuplicatesNeedCrash
<1>1. Inv => DuplicatesNeedCrash
  BY DEF Inv, AcceptedBound, DuplicatesNeedCrash
<1> QED  BY <1>1, Invariance, PTL

-----------------------------------------------------------------------------
(* The outbox implements the delivery promise.                             *)


\* The moves of one event that the promise allows.
Moves(e) ==
    \/ Progress(e)' = Progress(e)
    \/ Progress(e) = "none" /\ Progress(e)' = "owed"
    \/ Progress(e) = "owed" /\ Progress(e)' \in {"delivered", "parked"}
    \/ Progress(e) = "parked" /\ Progress(e)' \in {"owed", "delivered"}
    \/ Progress(e) # "delivered" /\ Progress(e)' = "none" /\ e \notin acked

LEMMA MovesRefine ==
    ASSUME \A e \in Event : Moves(e),
           acked \subseteq acked', acked' \subseteq Event,
           \A e \in acked' \ acked : Progress(e)' # "none"
    PROVE  Promise!Next
<1> DEFINE now == [e \in Event |-> Progress(e)]
<1> DEFINE then == [e \in Event |-> Progress(e)']
<1>1. \A e \in Event : Progress(e) \in Promise!State /\ Progress(e)' \in Promise!State
  BY DEF Progress, Promise!State
<1>2. \A e \in Event : now[e] = Progress(e) /\ then[e] = Progress(e)'
  OBVIOUS
<1>3. \A e \in Event : then[e] \in Promise!MayBecome(e)
                       \/ (then[e] = "none" /\ now[e] # "delivered" /\ e \notin acked)
  <2> SUFFICES ASSUME NEW e \in Event
               PROVE  then[e] \in Promise!MayBecome(e)
                      \/ (then[e] = "none" /\ now[e] # "delivered" /\ e \notin acked)
    OBVIOUS
  <2>1. Moves(e) /\ Progress(e) \in Promise!State
    BY <1>1
  <2> HIDE DEF now, then
  <2>2. Promise!MayBecome(e) =
          CASE Progress(e) = "none"      -> {"none", "owed"}
            [] Progress(e) = "owed"      -> {"owed", "delivered", "parked"}
            [] Progress(e) = "parked"    -> {"parked", "owed", "delivered"}
            [] Progress(e) = "delivered" -> {"delivered"}
    BY DEF Promise!MayBecome
  <2> QED  BY <1>2, <2>1, <2>2 DEF Moves, Promise!State
<1>4. then \in [Event -> Promise!State]
  BY <1>1
<1> QED  BY <1>2, <1>3, <1>4 DEF Promise!Next, Promise!Forgotten

LEMMA PublishMoves ==
    ASSUME Inv, Durable, Transport # "nats-jetstream",
           NEW r \in [Event -> [status : RowStatus, attempts : 0..MaxAttempts]],
           NEW F \in SUBSET {x \in Event : r[x].status = "pending"},
           Publish(r, {x \in Event : r[x].status = "pending"}, F),
           \A x \in Event : r[x].status = "pending" => Progress(x) \in {"owed", "parked", "delivered"},
           \A x \in Event : r[x].status # "pending" => r[x] = row[x],
           UNCHANGED <<db, acked, request, crashes>>,
           NEW e \in Event
    PROVE  Moves(e)
<1> DEFINE P == {x \in Event : r[x].status = "pending"}
<1> DEFINE new == PassRow(r, P, F)
<1>1. /\ new \in [Event -> [status : RowStatus, attempts : 0..MaxAttempts]]
      /\ \A x \in Event \ P : new[x] = r[x]
      /\ \A x \in P \ F : new[x].status = "published"
      /\ \A x \in F : new[x].status \in {"pending", "dead_letter"}
  BY PassRowType
<1>2. /\ row' = new
      /\ accepted' = [x \in Event |->
                        IF x \in (P \ F) \ seen THEN accepted[x] + 1 ELSE accepted[x]]
      /\ writes' = writes \cup
           {Update(x, new[x].status) : x \in Marked(r, P, F)}
  BY DEF Publish
<1>3. Insert(e) \in writes' <=> Insert(e) \in writes
  BY <1>2 DEF Insert, Update
<1>4. accepted[e] \in Nat /\ accepted'[e] \in Nat /\ accepted'[e] >= accepted[e]
  BY <1>2 DEF Inv, TypeOK
<1>5. CASE e \in P \ F
  <2>1. accepted'[e] > 0
    BY <1>2, <1>4, <1>5 DEF Inv, PublishedAccepted, TypeOK
  <2>2. Progress(e)' = "delivered"
    BY <2>1 DEF Progress
  <2> QED  BY <2>2, <1>5 DEF Moves
<1>6. CASE e \in F
  <2>1. accepted'[e] = accepted[e]
    BY <1>2, <1>6 DEF Inv, TypeOK
  <2>2. row'[e].status \in {"pending", "dead_letter"}
    BY <1>1, <1>2, <1>6
  <2>3. Progress(e)' = IF accepted[e] > 0 THEN "delivered"
                       ELSE IF row'[e].status = "pending" THEN "owed" ELSE "parked"
    BY <2>1, <2>2 DEF Progress
  <2>4. Progress(e) = "delivered" <=> accepted[e] > 0
    BY DEF Progress
  <2> QED  BY <2>3, <2>4, <1>6 DEF Moves
<1>7. CASE e \notin P
  <2>1. row'[e] = row[e] /\ accepted'[e] = accepted[e] /\ db' = db
    BY <1>1, <1>2, <1>7 DEF Inv, TypeOK
  <2>2. Progress(e)' = Progress(e)
    BY <2>1, <1>3 DEF Progress
  <2> QED  BY <2>2 DEF Moves
<1> QED  BY <1>5, <1>6, <1>7


LEMMA StepMoves ==
    ASSUME Inv, Inv', Durable, Transport # "nats-jetstream", [Next]_vars
    PROVE  /\ \A e \in Event : Moves(e)
           /\ acked \subseteq acked' /\ acked' \subseteq Event
           /\ \A e \in acked' \ acked : Progress(e)' # "none"
<1> USE DEF Inv
<1>0. \A e \in Event : Progress(e) = "delivered" <=> accepted[e] > 0
  BY DEF Progress
<1>1. ASSUME NEW x \in Event, CommitTx(x) PROVE \A e \in Event : Moves(e)
  BY <1>1 DEF CommitTx, Unused, NoRow, Moves, Progress, TypeOK
<1>2. ASSUME NEW x \in Event, RememberCommit(x) PROVE \A e \in Event : Moves(e)
  BY <1>2 DEF RememberCommit, FreshRow, NoRow, Moves, Progress, TypeOK
<1>3. ASSUME NEW x \in Event, Emit(x) PROVE \A e \in Event : Moves(e)
  BY <1>3 DEF Emit, Unused, NoRow, FreshRow, Moves, Progress, TypeOK, Insert
<1>4. ASSUME PublishPass PROVE \A e \in Event : Moves(e)
  <2>1. PICK F \in Refusals(Pending) : Publish(row, Pending, F)
    BY <1>4 DEF PublishPass
  <2>2. F \in SUBSET Pending
    BY DEF Refusals
  <2>3. UNCHANGED <<db, acked, request, crashes>>
    BY <1>4 DEF PublishPass
  <2>4. \A x \in Event : row[x].status = "pending" => Progress(x) \in {"owed", "parked", "delivered"}
    BY DEF Progress
  <2> QED
    BY <2>1, <2>2, <2>3, <2>4, PublishMoves DEF Pending, TypeOK
<1>5. ASSUME NEW x \in Event, BrokerAck(x) PROVE \A e \in Event : Moves(e)
  BY <1>5 DEF BrokerAck, PublishedAccepted
<1>6. ASSUME NEW x \in Event, RunInsert(x) PROVE \A e \in Event : Moves(e)
  <2> SUFFICES ASSUME NEW e \in Event PROVE Moves(e)
    OBVIOUS
  <2>1. row' = row /\ accepted' = accepted /\ db[x] = "absent" /\ Insert(x) \in writes
    BY <1>6 DEF RunInsert, InsertsAbsent
  <2>2. CASE e = x
    <3>1. db'[e] = "pending"
      BY <1>6, <2>1, <2>2 DEF RunInsert, TypeOK
    <3> QED  BY <2>1, <2>2, <3>1 DEF Progress, Moves
  <2>3. CASE e # x
    <3>1. db'[e] = db[e] /\ (Insert(e) \in writes' <=> Insert(e) \in writes)
      BY <1>6, <2>3 DEF RunInsert, TypeOK, Insert
    <3> QED  BY <2>1, <3>1 DEF Progress, Moves
  <2> QED  BY <2>2, <2>3
<1>7. ASSUME NEW x \in Event, NEW s \in {"published", "dead_letter"}, RunUpdate(x, s)
      PROVE  \A e \in Event : Moves(e)
  <2> SUFFICES ASSUME NEW e \in Event PROVE Moves(e)
    OBVIOUS
  <2>1. Insert(e) \in writes' <=> Insert(e) \in writes
    BY <1>7 DEF RunUpdate, Insert, Update
  <2>2. row' = row /\ accepted' = accepted /\ db[e] \in RowStatus
    BY <1>7 DEF RunUpdate, TypeOK
  <2>3. CASE db'[e] = db[e]
    BY <2>1, <2>2, <2>3 DEF Moves, Progress
  <2>4. CASE db'[e] # db[e]
    <3>1. e = x /\ db[e] # "absent" /\ db'[e] = s
      BY <1>7, <2>4 DEF RunUpdate, TypeOK
    <3>2. s = "published" => accepted[e] > 0
      BY <1>7, <3>1 DEF RunUpdate, PublishedAccepted
    <3>3. Insert(e) \notin writes
      BY <3>1 DEF InsertsAbsent
    <3>4. db[e] = "published" => accepted[e] > 0
      BY DEF PublishedAccepted
    <3> QED  BY <2>1, <2>2, <3>1, <3>2, <3>3, <3>4 DEF Moves, Progress
  <2> QED  BY <2>3, <2>4
<1>8. ASSUME NEW x \in Event, NEW s \in DlqStatus, Remediate(x, s)
      PROVE  \A e \in Event : Moves(e)
  BY <1>8 DEF Remediate, Moves, Progress, Insert
<1>9. ASSUME NEW r \in Request, NEW i \in {"reconstruction", "reexecute"},
             NEW T \in SUBSET Event, RequestReplay(r, i, T)
      PROVE  \A e \in Event : Moves(e)
  BY <1>9 DEF RequestReplay, Moves, Progress, Insert
<1>10. ASSUME NEW T \in SUBSET Event, Replay(T), UNCHANGED <<db, writes, accepted>>
       PROVE  \A e \in Event : Moves(e)
  BY <1>10 DEF Replay, Replayable, FreshRow, Moves, Progress, Insert, TypeOK,
     DeadLettersMatchRows, PublishedAccepted
<1>11. ASSUME Crash PROVE \A e \in Event : Moves(e)
  <2> SUFFICES ASSUME NEW e \in Event PROVE Moves(e)
    OBVIOUS
  <2>1. /\ writes' \subseteq writes /\ accepted' = accepted /\ db' = db
        /\ row'[e] = NoRow /\ db[e] \in RowStatus /\ row[e].status \in RowStatus
    BY <1>11 DEF Crash, TypeOK
  <2>2. e \in acked => db[e] # "absent"
    BY DEF AckedStored
  <2>3. db[e] = "published" \/ row[e].status = "published" => accepted[e] > 0
    BY DEF PublishedAccepted
  <2>4. Insert(e) \in writes => db[e] = "absent"
    BY DEF InsertsAbsent
  <2>5. Insert(e) \in writes' => Insert(e) \in writes
    BY <2>1 DEF Insert
  <2>6. Progress(e)' = IF accepted[e] > 0 THEN "delivered"
                       ELSE IF db[e] = "dead_letter" THEN "parked"
                       ELSE IF db[e] = "pending" \/ Insert(e) \in writes' THEN "owed" ELSE "none"
    BY <2>1 DEF Progress, NoRow, Insert
  <2>7. CASE accepted[e] > 0
    BY <2>6, <2>7 DEF Moves, Progress
  <2>8. CASE ~(accepted[e] > 0) /\ row[e].status \in {"pending", "dead_letter"}
    <3>1. Progress(e) = IF row[e].status = "pending" THEN "owed" ELSE "parked"
      BY <2>8 DEF Progress
    <3>2. Progress(e)' = "none" => e \notin acked
      BY <2>1, <2>2, <2>3, <2>6, <2>8
    <3>3. Progress(e)' \in {"parked", "owed", "none"}
      BY <2>6, <2>8
    <3> QED  BY <3>1, <3>2, <3>3 DEF Moves
  <2>9. CASE ~(accepted[e] > 0) /\ row[e].status = "absent"
    BY <2>1, <2>2, <2>3, <2>4, <2>5, <2>6, <2>9 DEF Moves, Progress
  <2> QED  BY <2>1, <2>3, <2>7, <2>8, <2>9
<1>12. ASSUME Restart PROVE \A e \in Event : Moves(e)
  <2>0. /\ ~alive /\ writes = {}
        /\ UNCHANGED <<db, acked, request, crashes>>
        /\ \A x \in Event : row[x] = NoRow
    BY <1>12 DEF Restart, DownIsEmpty
  <2>1. CASE Transport # "nats-stub"
    <3>1. PICK F \in Refusals(HydratedPending) : Publish(Hydrated, HydratedPending, F)
      BY <1>12, <2>1 DEF Restart
    <3>2. HydratedPending = {x \in Event : Hydrated[x].status = "pending"}
      BY DEF HydratedPending, Hydrated, FreshRow, NoRow
    <3>3. Hydrated \in [Event -> [status : RowStatus, attempts : 0..MaxAttempts]]
      BY OutboxAssumption DEF Hydrated, FreshRow, NoRow
    <3>4. \A x \in Event : Hydrated[x].status # "pending" => Hydrated[x] = row[x]
      BY <2>0 DEF Hydrated, FreshRow, NoRow
    <3>5. \A x \in Event : Hydrated[x].status = "pending" => Progress(x) \in {"owed", "parked", "delivered"}
      BY <2>0 DEF Hydrated, FreshRow, NoRow, Progress
    <3>6. F \in SUBSET HydratedPending
      BY DEF Refusals
    <3> QED  BY <2>0, <3>1, <3>2, <3>3, <3>4, <3>5, <3>6, PublishMoves
  <2>2. CASE Transport = "nats-stub"
    <3>1. row' = Hydrated /\ UNCHANGED <<writes, accepted, db>>
      BY <1>12, <2>0, <2>2 DEF Restart
    <3> QED  BY <2>0, <3>1 DEF Hydrated, FreshRow, NoRow, Moves, Progress, Insert
  <2> QED  BY <2>1, <2>2
<1>13. ASSUME UNCHANGED vars PROVE \A e \in Event : Moves(e)
  BY <1>13 DEF vars, Moves, Progress, Insert
<1>14. ASSUME NEW x \in Event, FailInsert(x) PROVE \A e \in Event : Moves(e)
  <2> SUFFICES ASSUME NEW e \in Event PROVE Moves(e)
    OBVIOUS
  <2>1. /\ UNCHANGED <<row, db, accepted>> /\ Insert(x) \in writes
        /\ Insert(e) \in writes' => Insert(e) \in writes
        /\ e # x => (Insert(e) \in writes' <=> Insert(e) \in writes)
    BY <1>14 DEF FailInsert, Insert
  <2>2. e = x => db[e] = "absent" /\ (Durable => e \notin acked)
    BY <2>1 DEF InsertsAbsent, AckedStored
  <2> QED  BY <2>1, <2>2 DEF Moves, Progress
<1>15. \A e \in Event : Moves(e)
  <2>1. ASSUME NEW r \in Request, ExecuteReplay(r) PROVE \A e \in Event : Moves(e)
    <3>1. request[r].targets \in SUBSET Event
      BY DEF TypeOK
    <3> QED  BY <2>1, <3>1, <1>10 DEF ExecuteReplay
  <2>2. ASSUME NEW r \in Request, NEW i \in {"reconstruction", "reexecute"}, NEW e \in Event,
               ReplayDeadLetter(r, i, e)
        PROVE  \A x \in Event : Moves(x)
    BY <2>2, <1>10 DEF ReplayDeadLetter
  <2>3. ASSUME NEW e \in Event, CommitInMemory(e) PROVE FALSE
    BY <2>3 DEF CommitInMemory
  <2> QED
    BY <1>1, <1>2, <1>3, <1>4, <1>5, <1>6, <1>7, <1>8, <1>9, <1>11, <1>12, <1>13,
       <1>14, <2>1, <2>2, <2>3 DEF Next, RunWrite
<1>16. acked \subseteq acked' /\ acked' \subseteq Event
  BY DEF TypeOK, Next, vars, CommitInMemory, CommitTx, RememberCommit, Emit, PublishPass,
     BrokerAck, RunWrite, RunInsert, RunUpdate, FailInsert, Remediate, RequestReplay, ExecuteReplay,
     ReplayDeadLetter, Crash, Restart
<1>17. \A e \in acked' \ acked : Progress(e)' # "none"
  <2> SUFFICES ASSUME NEW e \in Event, e \in acked' PROVE Progress(e)' # "none"
    BY <1>16
  <2>1. db'[e] \in RowStatus /\ db'[e] # "absent"
    BY DEF AckedStored, TypeOK
  <2>2. db'[e] = "published" => accepted'[e] > 0
    BY DEF PublishedAccepted
  <2> QED  BY <2>1, <2>2 DEF Progress
<1> QED  BY <1>15, <1>16, <1>17

\* With PostgreSQL and an in-process transport, the outbox implements the
\* at-least-once promise: every step maps to a step of Delivery or to none.
THEOREM ImplementsDelivery ==
    Durable /\ Transport # "nats-jetstream" => (Spec => KeepsPromise)
<1> SUFFICES ASSUME Durable, Transport # "nats-jetstream" PROVE Spec => KeepsPromise
  OBVIOUS
<1>1. Init => Promise!Init
  BY DEF Init, Promise!Init, Progress, NoRow, Insert
<1>2. Inv /\ Inv' /\ [Next]_vars => [Promise!Next]_Promise!vars
  BY StepMoves, MovesRefine
<1> QED  BY <1>1, <1>2, Invariance, PTL DEF Spec, KeepsPromise, Promise!Spec

-----------------------------------------------------------------------------
(* What a replay is answerable for.  Neither property is inductive: that    *)
(* PostgreSQL runs ahead of memory only after a replay depends on which     *)
(* UPDATEs are in flight, and the deliveries an event may still get depend  *)
(* on whether its row is waiting for a pass.  ReplayInv adds both, and Inv   *)
(* supplies the rest.                                                       *)

Replays(e) == {r \in Request : request[r].status = "executed" /\ e \in request[r].targets}

\* Only a crash stops the process.
NeverCrashed == crashes = 0 => alive

\* A pass sends the UPDATE of a row only when the row stops being pending, and
\* only a replay makes it pending again.
UpdatesKnown ==
    alive => \A e \in Event, s \in {"published", "dead_letter"} :
        Update(e, s) \in writes =>
            /\ row[e].status # "absent"
            /\ row[e].status = "pending" => Replays(e) # {}

\* The copy in PostgreSQL runs behind memory but for a replay.
DbBehind ==
    \A e \in Event :
        row[e].status = "pending" /\ db[e] \in {"published", "dead_letter"} => Replays(e) # {}

\* The publish a row is still waiting for.
Waiting(e) == IF row[e].status \in {"absent", "pending"} THEN 1 ELSE 0

\* What was delivered, what is being sent and what waits to be sent.
BudgetKept ==
    crashes = 0 =>
        \A e \in Event :
            /\ row[e].status = "absent" => accepted[e] = 0 /\ sent[e] = 0
            /\ accepted[e] + sent[e] + Waiting(e) <= 1 + Cardinality(Replays(e))

ReplayInv ==
    /\ \A e \in Event : IsFiniteSet(Replays(e))
    /\ NeverCrashed
    /\ UpdatesKnown
    /\ DbBehind
    /\ BudgetKept

\* Executed replays are only added: an execution adds one request to those of
\* its targets, and every other step of the process leaves them alone.
LEMMA ReplaysGrow ==
    ASSUME NEW r \in Request, request[r].status # "executed", ReplayInv,
           NEW T \in SUBSET Event, NEW i \in {"reconstruction", "reexecute"},
           request \in [Request -> [status : {"none", "pending", "approved", "executed"},
                                    intent : {"reconstruction", "reexecute"},
                                    targets : SUBSET Event]],
           request' = [request EXCEPT ![r] = [status |-> "executed", intent |-> i, targets |-> T]],
           NEW e \in Event
    PROVE  /\ IsFiniteSet(Replays(e)')
           /\ Replays(e) # {} => Replays(e)' # {}
           /\ e \in T => /\ Replays(e)' # {}
                         /\ Cardinality(Replays(e)') = Cardinality(Replays(e)) + 1
           /\ e \notin T => Cardinality(Replays(e)') = Cardinality(Replays(e))
           /\ Cardinality(Replays(e)) \in Nat
<1>1. IsFiniteSet(Replays(e)) /\ r \notin Replays(e)
  BY DEF ReplayInv, Replays
<1>2. \A q \in Request : request'[q] = IF q = r
                           THEN [status |-> "executed", intent |-> i, targets |-> T] ELSE request[q]
  OBVIOUS
<1>3. CASE e \in T
  <2>1. Replays(e)' = Replays(e) \cup {r}
    BY <1>2, <1>3 DEF Replays
  <2> QED  BY <1>1, <1>3, <2>1, FS_AddElement, FS_CardinalityType
<1>4. CASE e \notin T
  <2>1. Replays(e)' = Replays(e)
    BY <1>1, <1>2, <1>4 DEF Replays
  <2> QED  BY <1>1, <1>4, <2>1, FS_CardinalityType
<1> QED  BY <1>3, <1>4

LEMMA ReplaysKept ==
    ASSUME ReplayInv, \/ request' = request
                      \/ \E r \in Request, q \in [status : {"pending", "approved"},
                                                   intent : {"reconstruction", "reexecute"},
                                                   targets : SUBSET Event] :
                            request[r].status # "executed" /\ request' = [request EXCEPT ![r] = q],
           request \in [Request -> [status : {"none", "pending", "approved", "executed"},
                                    intent : {"reconstruction", "reexecute"},
                                    targets : SUBSET Event]],
           NEW e \in Event
    PROVE  /\ Replays(e)' = Replays(e)
           /\ IsFiniteSet(Replays(e)) /\ Cardinality(Replays(e)) \in Nat
<1>1. IsFiniteSet(Replays(e)) /\ Cardinality(Replays(e)) \in Nat
  BY FS_CardinalityType DEF ReplayInv
<1>2. CASE request' = request
  BY <1>1, <1>2 DEF Replays
<1>3. CASE request' # request
  <2>1. PICK r \in Request, q \in [status : {"pending", "approved"},
                                   intent : {"reconstruction", "reexecute"},
                                   targets : SUBSET Event] :
                request[r].status # "executed" /\ request' = [request EXCEPT ![r] = q]
    BY <1>3
  <2>2. q.status # "executed"
    OBVIOUS
  <2>3. \A x \in Request : request'[x] = IF x = r THEN q ELSE request[x]
    BY <2>1
  <2>4. Replays(e)' = Replays(e)
    BY <2>1, <2>2, <2>3 DEF Replays
  <2> QED  BY <1>1, <2>4
<1> QED  BY <1>2, <1>3

\* A pass turns a pending row's wait into a publish, or leaves it waiting.
LEMMA PublishReplays ==
    ASSUME Inv, NEW r \in [Event -> [status : RowStatus, attempts : 0..MaxAttempts]],
           NEW F \in SUBSET {e \in Event : r[e].status = "pending"},
           \A e \in Event : Replays(e)' = Replays(e),
           \A e \in Event : IsFiniteSet(Replays(e)) /\ Cardinality(Replays(e)) \in Nat,
           \A e \in Event, s \in {"published", "dead_letter"} :
               Update(e, s) \in writes =>
                   /\ r[e].status # "absent"
                   /\ r[e].status = "pending" => Replays(e) # {},
           \A e \in Event : r[e].status = "pending" /\ db[e] \in {"published", "dead_letter"}
                            => Replays(e) # {},
           crashes = 0 =>
               \A e \in Event :
                   /\ r[e].status = "absent" => accepted[e] = 0 /\ sent[e] = 0
                   /\ accepted[e] + sent[e]
                        + (IF r[e].status \in {"absent", "pending"} THEN 1 ELSE 0)
                      <= 1 + Cardinality(Replays(e)),
           Publish(r, {e \in Event : r[e].status = "pending"}, F),
           alive', UNCHANGED <<db, crashes>>
    PROVE  ReplayInv'
<1> DEFINE P == {e \in Event : r[e].status = "pending"}
<1> DEFINE new == PassRow(r, P, F)
<1>1. /\ new \in [Event -> [status : RowStatus, attempts : 0..MaxAttempts]]
      /\ \A e \in Event \ P : new[e] = r[e]
      /\ \A e \in P \ F : new[e].status = "published"
      /\ \A e \in F : new[e].status \in {"pending", "dead_letter"}
  BY PassRowType
<1>2. /\ row' = new
      /\ writes' = writes \cup
           (IF Durable THEN {Update(e, new[e].status) : e \in Marked(r, P, F)} ELSE {})
  BY DEF Publish
<1>3. \A e \in Event : r[e].status = "absent" => row'[e].status = "absent" /\ e \notin P
  BY <1>1, <1>2
<1>4. \A e \in Event : row'[e].status = "absent" => r[e].status = "absent"
  BY <1>1, <1>2
<1>5. \A e \in Event : row'[e].status = "pending" => r[e].status = "pending" /\ e \in F
  BY <1>1, <1>2
<1>6. \A e \in Event : IsFiniteSet(Replays(e)')
  OBVIOUS
<1>7. NeverCrashed'
  BY DEF NeverCrashed
<1>8. UpdatesKnown'
  <2> SUFFICES ASSUME NEW e \in Event, NEW s \in {"published", "dead_letter"},
                      Update(e, s) \in writes'
               PROVE  /\ row'[e].status # "absent"
                      /\ row'[e].status = "pending" => Replays(e) # {}
    BY DEF UpdatesKnown, Update
  <2>1. CASE Update(e, s) \in writes
    BY <2>1, <1>4, <1>5
  <2>2. CASE Update(e, s) \notin writes
    <3>1. PICK f \in Marked(r, P, F) : Update(e, s) = Update(f, new[f].status)
      BY <1>2, <2>2
    <3>2. f = e /\ e \in P /\ new[e].status # "pending"
      BY <3>1 DEF Update, Marked
    <3> QED  BY <3>2, <1>2, <1>4
  <2> QED  BY <2>1, <2>2
<1>9. DbBehind'
  <2> SUFFICES ASSUME NEW e \in Event, row'[e].status = "pending",
                      db[e] \in {"published", "dead_letter"}
               PROVE  Replays(e) # {}
    BY DEF DbBehind
  <2> QED  BY <1>5
<1>10. BudgetKept'
  <2> SUFFICES ASSUME crashes = 0, NEW e \in Event
               PROVE  /\ row'[e].status = "absent" => accepted'[e] = 0 /\ sent'[e] = 0
                      /\ accepted'[e] + sent'[e] + Waiting(e)' <= 1 + Cardinality(Replays(e))
    BY DEF BudgetKept
  <2>1. accepted[e] \in Nat /\ sent[e] \in Nat /\ Cardinality(Replays(e)) \in Nat
    BY DEF Inv, TypeOK
  <2>2. /\ e \notin P \ F => accepted'[e] = accepted[e] /\ sent'[e] = sent[e]
        /\ accepted'[e] + sent'[e] <= accepted[e] + sent[e] + 1
        /\ accepted'[e] + sent'[e] \in Nat
    <3>1. CASE Transport = "nats-jetstream"
      <4>1. accepted'[e] = accepted[e]
        BY <3>1 DEF Publish
      <4>2. sent'[e] = IF e \in P \ F THEN sent[e] + 1 ELSE sent[e]
        BY <3>1 DEF Publish
      <4> QED  BY <4>1, <4>2, <2>1
    <3>2. CASE Transport # "nats-jetstream"
      <4>1. sent'[e] = sent[e]
        BY <3>2 DEF Publish
      <4>2. accepted'[e] = IF e \in (P \ F) \ seen THEN accepted[e] + 1 ELSE accepted[e]
        BY <3>2 DEF Publish
      <4> QED  BY <4>1, <4>2, <2>1
    <3> QED  BY <3>1, <3>2
  <2>3. CASE e \in P \ F
    <3>1. Waiting(e)' = 0 /\ r[e].status = "pending" /\ row'[e].status = "published"
      BY <2>3, <1>1, <1>2 DEF Waiting
    <3> QED  BY <3>1, <2>1, <2>2
  <2>4. CASE e \notin P \ F
    <3>1. /\ Waiting(e)' = 0 \/ Waiting(e)' = 1
          /\ Waiting(e)' = 1 => r[e].status \in {"absent", "pending"}
      BY <1>4, <1>5 DEF Waiting
    <3>2. row'[e].status = "absent" => r[e].status = "absent"
      BY <1>4
    <3> QED  BY <3>1, <3>2, <2>1, <2>2, <2>4
  <2> QED  BY <2>3, <2>4
<1> QED  BY <1>6, <1>7, <1>8, <1>9, <1>10 DEF ReplayInv

\* A replay owes its targets one delivery more, and it may put a row of theirs
\* back to pending.
LEMMA ReplayKeeps ==
    ASSUME Inv, ReplayInv, NEW r \in Request, request[r].status # "executed",
           NEW T \in SUBSET Event, NEW i \in {"reconstruction", "reexecute"}, Replay(T),
           request' = [request EXCEPT ![r] = [status |-> "executed", intent |-> i, targets |-> T]],
           UNCHANGED <<alive, db, writes, sent, accepted, crashes>>
    PROVE  ReplayInv'
<1>1. \A e \in Event :
          /\ IsFiniteSet(Replays(e)')
          /\ Replays(e) # {} => Replays(e)' # {}
          /\ e \in T => /\ Replays(e)' # {}
                        /\ Cardinality(Replays(e)') = Cardinality(Replays(e)) + 1
          /\ e \notin T => Cardinality(Replays(e)') = Cardinality(Replays(e))
          /\ Cardinality(Replays(e)) \in Nat
  BY ReplaysGrow DEF Inv, TypeOK
<1>2. \A e \in Event :
          \/ e \in T /\ row[e].status # "absent" /\ row'[e].status = "pending"
          \/ row'[e] = row[e]
  BY DEF Replay, Replayable, FreshRow
<1>3. NeverCrashed' /\ DbBehind'
  BY <1>1, <1>2 DEF ReplayInv, NeverCrashed, DbBehind
<1>4. UpdatesKnown'
  <2> SUFFICES ASSUME alive, NEW e \in Event, NEW s \in {"published", "dead_letter"},
                      Update(e, s) \in writes
               PROVE  /\ row'[e].status # "absent"
                      /\ row'[e].status = "pending" => Replays(e)' # {}
    BY DEF UpdatesKnown, Update
  <2>1. /\ row[e].status # "absent"
        /\ row[e].status = "pending" => Replays(e) # {}
    BY DEF ReplayInv, UpdatesKnown
  <2> QED  BY <2>1, <1>1, <1>2
<1>5. BudgetKept'
  <2> SUFFICES ASSUME crashes = 0, NEW e \in Event
               PROVE  /\ row'[e].status = "absent" => accepted[e] = 0 /\ sent[e] = 0
                      /\ accepted[e] + sent[e] + Waiting(e)' <= 1 + Cardinality(Replays(e)')
    BY DEF BudgetKept
  <2>1. /\ row[e].status = "absent" => accepted[e] = 0 /\ sent[e] = 0
        /\ accepted[e] + sent[e] + Waiting(e) <= 1 + Cardinality(Replays(e))
        /\ accepted[e] \in Nat /\ sent[e] \in Nat
    BY DEF ReplayInv, BudgetKept, Inv, TypeOK
  <2>2. /\ Waiting(e) \in {0, 1} /\ Waiting(e)' \in {0, 1}
        /\ row'[e] = row[e] => Waiting(e)' = Waiting(e)
    BY DEF Waiting
  <2> QED  BY <1>1, <1>2, <2>1, <2>2
<1> QED  BY <1>1, <1>3, <1>4, <1>5 DEF ReplayInv

LEMMA InitReplayInv == Init => ReplayInv
<1> SUFFICES ASSUME Init PROVE ReplayInv
  OBVIOUS
<1>1. \A e \in Event : Replays(e) = {}
  BY DEF Init, Replays, NoRequest
<1>2. \A e \in Event : IsFiniteSet(Replays(e)) /\ Cardinality(Replays(e)) = 0
  BY <1>1, FS_EmptySet
<1> QED
  BY <1>2 DEF Init, ReplayInv, NeverCrashed, UpdatesKnown, DbBehind, BudgetKept, Waiting, NoRow

LEMMA StepReplayInv == Inv /\ Inv' /\ ReplayInv /\ [Next]_vars => ReplayInv'
<1> SUFFICES ASSUME Inv, Inv', ReplayInv, [Next]_vars PROVE ReplayInv'
  OBVIOUS
<1> USE OutboxAssumption DEF Inv
<1>0. ASSUME request' = request
      PROVE  /\ \A e \in Event : Replays(e)' = Replays(e)
             /\ \A e \in Event : IsFiniteSet(Replays(e)) /\ Cardinality(Replays(e)) \in Nat
  BY <1>0, ReplaysKept DEF TypeOK
<1>1. ASSUME NEW e \in Event, CommitInMemory(e) \/ RememberCommit(e) PROVE ReplayInv'
  <2>1. /\ row[e] = NoRow /\ row' = [row EXCEPT ![e] = FreshRow] /\ db[e] \in {"absent", "pending"}
        /\ UNCHANGED <<alive, db, writes, request, sent, accepted, crashes>> /\ alive
    BY <1>1 DEF CommitInMemory, RememberCommit, Unused
  <2>2. \A s \in {"published", "dead_letter"} : Update(e, s) \notin writes
    BY <2>1 DEF ReplayInv, UpdatesKnown, NoRow
  <2> QED
    BY <1>0, <2>1, <2>2 DEF ReplayInv, NeverCrashed, UpdatesKnown, DbBehind, BudgetKept, Waiting,
       NoRow, FreshRow, Update, TypeOK
<1>2. ASSUME NEW e \in Event, CommitTx(e) PROVE ReplayInv'
  BY <1>0, <1>2 DEF CommitTx, Unused, NoRow, ReplayInv, NeverCrashed, UpdatesKnown, DbBehind,
     BudgetKept, Waiting, Update, TypeOK
<1>3. ASSUME NEW e \in Event, Emit(e) PROVE ReplayInv'
  <2>1. /\ row[e] = NoRow /\ row' = [row EXCEPT ![e] = FreshRow] /\ db[e] = "absent"
        /\ UNCHANGED <<alive, db, request, sent, accepted, crashes>> /\ alive
        /\ \A x \in Event, s \in {"published", "dead_letter"} :
              Update(x, s) \in writes' => Update(x, s) \in writes
    BY <1>3 DEF Emit, Unused, Insert, Update
  <2>2. \A s \in {"published", "dead_letter"} : Update(e, s) \notin writes
    BY <2>1 DEF ReplayInv, UpdatesKnown, NoRow
  <2> QED
    BY <1>0, <2>1, <2>2 DEF ReplayInv, NeverCrashed, UpdatesKnown, DbBehind, BudgetKept, Waiting,
       NoRow, FreshRow, Update, TypeOK
<1>4. CASE PublishPass
  <2>1. PICK F \in Refusals(Pending) : Publish(row, Pending, F)
    BY <1>4 DEF PublishPass
  <2>2. F \in SUBSET Pending
    BY DEF Refusals
  <2>3. UNCHANGED <<db, request, crashes>> /\ alive' /\ alive
    BY <1>4 DEF PublishPass
  <2>4. row \in [Event -> [status : RowStatus, attempts : 0..MaxAttempts]]
    BY DEF TypeOK
  <2> QED
    BY <1>0, <2>1, <2>2, <2>3, <2>4, PublishReplays
       DEF Pending, ReplayInv, UpdatesKnown, DbBehind, BudgetKept, Waiting
<1>5. ASSUME NEW e \in Event, BrokerAck(e) PROVE ReplayInv'
  <2>1. /\ UNCHANGED <<alive, row, db, writes, request, crashes>>
        /\ \A x \in Event : /\ accepted'[x] + sent'[x] = accepted[x] + sent[x]
                            /\ accepted[x] = 0 /\ sent[x] = 0 =>
                                  accepted'[x] = 0 /\ sent'[x] = 0
    <3>1. /\ UNCHANGED <<alive, row, db, writes, request, crashes>> /\ sent[e] > 0
          /\ sent' = [sent EXCEPT ![e] = sent[e] - 1]
          /\ accepted' = [accepted EXCEPT ![e] = accepted[e] + 1]
          /\ sent \in [Event -> Nat] /\ accepted \in [Event -> Nat]
      BY <1>5 DEF BrokerAck, TypeOK
    <3>2. \A x \in Event : /\ sent'[x] = IF x = e THEN sent[x] - 1 ELSE sent[x]
                           /\ accepted'[x] = IF x = e THEN accepted[x] + 1 ELSE accepted[x]
                           /\ sent[x] \in Nat /\ accepted[x] \in Nat
      BY <3>1
    <3> QED  BY <3>1, <3>2
  <2> QED
    BY <1>0, <2>1 DEF ReplayInv, NeverCrashed, UpdatesKnown, DbBehind, BudgetKept, Waiting,
       Update
<1>6. ASSUME NEW e \in Event, RunInsert(e) \/ FailInsert(e) PROVE ReplayInv'
  <2>1. /\ UNCHANGED <<alive, row, request, sent, accepted, crashes>> /\ writes' \subseteq writes
        /\ \A x \in Event : db'[x] \in {"published", "dead_letter"} => db'[x] = db[x]
    BY <1>6 DEF RunInsert, FailInsert, TypeOK
  <2> QED
    BY <1>0, <2>1 DEF ReplayInv, NeverCrashed, UpdatesKnown, DbBehind, BudgetKept, Waiting, Update
<1>7. ASSUME NEW e \in Event, NEW s \in {"published", "dead_letter"}, RunUpdate(e, s)
      PROVE  ReplayInv'
  <2>1. /\ UNCHANGED <<alive, row, request, sent, accepted, crashes>> /\ writes' \subseteq writes
        /\ \A x \in Event : x # e => db'[x] = db[x]
        /\ Update(e, s) \in writes
    BY <1>7 DEF RunUpdate, TypeOK
  <2>2. row[e].status = "pending" => Replays(e) # {}
    BY <2>1 DEF ReplayInv, UpdatesKnown, DownIsEmpty, NoRow
  <2> QED
    BY <1>0, <2>1, <2>2 DEF ReplayInv, NeverCrashed, UpdatesKnown, DbBehind, BudgetKept, Waiting,
       Update
<1>8. ASSUME NEW e \in Event, NEW s \in DlqStatus, Remediate(e, s) PROVE ReplayInv'
  BY <1>0, <1>8 DEF Remediate, ReplayInv, NeverCrashed, UpdatesKnown, DbBehind, BudgetKept,
     Waiting, Update
<1>9. ASSUME NEW r \in Request, NEW i \in {"reconstruction", "reexecute"},
             NEW T \in SUBSET Event, RequestReplay(r, i, T)
      PROVE  ReplayInv'
  <2> DEFINE q == [status |-> IF i = "reconstruction" THEN "approved" ELSE "pending",
                   intent |-> i, targets |-> T]
  <2>1. /\ request[r].status # "executed" /\ request' = [request EXCEPT ![r] = q]
        /\ UNCHANGED <<alive, row, db, writes, sent, accepted, crashes>>
    BY <1>9 DEF RequestReplay, NoRequest
  <2>2. q \in [status : {"pending", "approved"}, intent : {"reconstruction", "reexecute"},
               targets : SUBSET Event]
    OBVIOUS
  <2>3. \A e \in Event : Replays(e)' = Replays(e) /\ IsFiniteSet(Replays(e))
    <3> HIDE DEF q
    <3> QED  BY <2>1, <2>2, ReplaysKept DEF TypeOK
  <2> QED
    BY <2>1, <2>3 DEF ReplayInv, NeverCrashed, UpdatesKnown, DbBehind, BudgetKept, Waiting, Update
<1>10. ASSUME NEW r \in Request, ExecuteReplay(r) PROVE ReplayInv'
  <2> DEFINE i == request[r].intent
             T == request[r].targets
  <2>1. /\ i \in {"reconstruction", "reexecute"} /\ T \in SUBSET Event
        /\ request[r] = [status |-> request[r].status, intent |-> i, targets |-> T]
    BY DEF TypeOK
  <2>2. /\ request[r].status # "executed" /\ Replay(T)
        /\ request' = [request EXCEPT ![r].status = "executed"]
        /\ UNCHANGED <<alive, db, writes, sent, accepted, crashes>>
    BY <1>10 DEF ExecuteReplay
  <2>3. request' = [request EXCEPT ![r] = [status |-> "executed", intent |-> i, targets |-> T]]
    <3>1. [request[r] EXCEPT !.status = "executed"]
             = [status |-> "executed", intent |-> i, targets |-> T]
      BY <2>1
    <3> QED  BY <2>2, <3>1
  <2> HIDE DEF i, T
  <2> QED  BY <2>1, <2>2, <2>3, ReplayKeeps
<1>11. ASSUME NEW r \in Request, NEW i \in {"reconstruction", "reexecute"},
              NEW e \in Event, ReplayDeadLetter(r, i, e)
       PROVE  ReplayInv'
  <2>1. /\ request[r].status # "executed" /\ Replay({e}) /\ {e} \in SUBSET Event
        /\ request' = [request EXCEPT ![r] =
               [status |-> "executed", intent |-> i, targets |-> {e}]]
        /\ UNCHANGED <<alive, db, writes, sent, accepted, crashes>>
    BY <1>11 DEF ReplayDeadLetter, NoRequest
  <2> QED  BY <2>1, ReplayKeeps
<1>12. CASE Crash
  <2>1. /\ ~alive' /\ crashes' # 0 /\ \A e \in Event : row'[e].status = "absent"
    BY <1>12 DEF Crash, NoRow, TypeOK
  <2>2. \A e \in Event : IsFiniteSet(Replays(e)')
    <3>1. \A e \in Event : Replays(e)' = {}
      BY <1>12 DEF Crash, Replays, NoRequest
    <3> QED  BY <3>1, FS_EmptySet
  <2> QED
    BY <2>1, <2>2 DEF ReplayInv, NeverCrashed, UpdatesKnown, DbBehind, BudgetKept
<1>13. CASE Restart
  <2>1. /\ writes = {} /\ alive' /\ UNCHANGED <<db, request, crashes>> /\ crashes # 0
    BY <1>13 DEF Restart, ReplayInv, NeverCrashed
  <2>2. Hydrated \in [Event -> [status : RowStatus, attempts : 0..MaxAttempts]]
    BY DEF Hydrated, FreshRow, NoRow
  <2>3. \A e \in Event : Hydrated[e].status = "pending" => db[e] = "pending"
    BY DEF Hydrated, FreshRow, NoRow
  <2>4. CASE Durable /\ Transport # "nats-stub"
    <3>1. PICK F \in Refusals(HydratedPending) : Publish(Hydrated, HydratedPending, F)
      BY <1>13, <2>4 DEF Restart
    <3>2. HydratedPending = {e \in Event : Hydrated[e].status = "pending"}
      BY DEF HydratedPending, Hydrated, FreshRow, NoRow
    <3>3. F \in SUBSET HydratedPending
      BY DEF Refusals
    <3> QED  BY <1>0, <2>1, <2>2, <2>3, <3>1, <3>2, <3>3, PublishReplays
  <2>5. CASE ~(Durable /\ Transport # "nats-stub")
    <3>1. row' = Hydrated /\ writes' = {}
      BY <1>13, <2>1, <2>5 DEF Restart
    <3> QED
      BY <1>0, <2>1, <2>3, <3>1 DEF ReplayInv, NeverCrashed, UpdatesKnown, DbBehind, BudgetKept
  <2> QED  BY <2>4, <2>5
<1>14. CASE UNCHANGED vars
  BY <1>0, <1>14 DEF vars, ReplayInv, NeverCrashed, UpdatesKnown, DbBehind, BudgetKept, Waiting,
     Update
<1> HIDE DEF Inv
<1> QED
  BY <1>1, <1>2, <1>3, <1>4, <1>5, <1>6, <1>7, <1>8, <1>9, <1>10, <1>11, <1>12, <1>13,
     <1>14 DEF Next, RunWrite

\* Every reachable state accounts for its replays.
THEOREM ReplayInvariance == Spec => []ReplayInv
<1>1. Inv /\ Inv' /\ ReplayInv /\ [Next]_vars => ReplayInv'
  BY StepReplayInv
<1> QED  BY <1>1, InitReplayInv, Invariance, PTL DEF Spec

\* While the process lives, on any transport, each delivery of an event after the
\* first is owed to an executed replay of it (publishPendingOutbox,
\* executeReplayRequest, createNatsJetStreamTransport).
THEOREM RedeliveriesAreReplays == Spec => []DuplicatesNeedReplay
<1>1. Inv /\ ReplayInv => DuplicatesNeedReplay
  <2> SUFFICES ASSUME Inv, ReplayInv, crashes = 0, NEW e \in Event
               PROVE  accepted[e] + sent[e] <= 1 + Cardinality(Replays(e))
    BY DEF DuplicatesNeedReplay, Replays
  <2>1. accepted[e] \in Nat /\ sent[e] \in Nat /\ Cardinality(Replays(e)) \in Nat
    BY FS_CardinalityType DEF Inv, TypeOK, ReplayInv
  <2>2. Waiting(e) \in {0, 1} /\ accepted[e] + sent[e] + Waiting(e) <= 1 + Cardinality(Replays(e))
    BY DEF ReplayInv, BudgetKept, Waiting
  <2> QED  BY <2>1, <2>2
<1> QED  BY <1>1, Invariance, ReplayInvariance, PTL

\* A row still to be published that PostgreSQL calls published or dead-lettered was
\* made pending by a replay (executeReplayRequest, updateOutboxRow).
THEOREM DbRunsBehind == Spec => []OnlyReplayOutrunsDb
<1>1. ReplayInv => OnlyReplayOutrunsDb
  BY DEF ReplayInv, DbBehind, OnlyReplayOutrunsDb, Replays
<1> QED  BY <1>1, ReplayInvariance, PTL

=============================================================================
