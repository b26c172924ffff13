------------------------------- MODULE Outbox -------------------------------
(***************************************************************************)
(* The transactional outbox of apps/api: rows of store.outboxEvents, the   *)
(* publisher pass that drains them through an EventTransport, publisher    *)
(* dead letters, controlled replay, the write-behind copy of a row's       *)
(* status in PostgreSQL, and restart from that copy.                       *)
(*                                                                         *)
(* One JavaScript process runs every handler to completion, so a handler   *)
(* without an await is one action.  What happens after an await, a         *)
(* fire-and-forget query or a publish promise is an action of its own.     *)
(***************************************************************************)
EXTENDS Naturals, FiniteSets

CONSTANTS
    Event,        \* identities of the events (outbox row id = event id here)
    Request,      \* identities available for replay requests
    MaxAttempts,  \* publishPendingOutbox's maxAttempts (3 in production)
    Durable,      \* TRUE iff store.dbPool is configured
    Transport,    \* the EventTransport initEventTransport installed
    MaxCrashes    \* bound on process crashes

ASSUME OutboxAssumption ==
    /\ MaxAttempts \in Nat \ {0}
    /\ Durable \in BOOLEAN
    /\ Transport \in {"in-memory-dev", "nats-jetstream", "nats-stub"}
    /\ MaxCrashes \in Nat

RowStatus == {"absent", "pending", "published", "dead_letter"}

DlqStatus == {"none", "failed", "investigating", "corrected", "replay_approved",
              "replayed", "resolved", "permanently_rejected", "closed"}

VARIABLES
    alive,     \* the API process is running
    row,       \* store.outboxEvents: status and attempts of each row in memory
    db,        \* outbox_events.status of each row ("absent": no such row)
    writes,    \* queries issued with `void`, or awaited, that PostgreSQL has not run yet
    acked,     \* events whose commit returned ok to its caller
    dlq,       \* store.deadLetters of consumer "outbox-publisher": status by event
    request,   \* store.replayRequests
    seen,      \* the in-memory transport's `published` set
    sent,      \* NATS publish promises not settled yet, by event
    accepted,  \* how often the transport accepted each event, over all processes
    crashes    \* crashes so far

vars == <<alive, row, db, writes, acked, dlq, request, seen, sent, accepted, crashes>>

-----------------------------------------------------------------------------
NoRow == [status |-> "absent", attempts |-> 0]

FreshRow == [status |-> "pending", attempts |-> 0]

Insert(e) == [ev |-> e, op |-> "insert", status |-> "pending"]
Update(e, s) == [ev |-> e, op |-> "update", status |-> s]

NoRequest == [status |-> "none", intent |-> "reexecute", targets |-> {}]

Pending == {e \in Event : row[e].status = "pending"}

\* DLQ_TRANSITIONS, the remediation moves an operator may ask for.
DlqTransitions ==
    {<<"failed", "investigating">>,
     <<"investigating", "corrected">>,
     <<"investigating", "permanently_rejected">>,
     <<"investigating", "failed">>,
     <<"corrected", "resolved">>,
     <<"corrected", "investigating">>,
     <<"replay_approved", "resolved">>,
     <<"replay_approved", "replayed">>,
     <<"replayed", "resolved">>,
     <<"resolved", "closed">>,
     <<"permanently_rejected", "closed">>}

Init ==
    /\ alive = TRUE
    /\ row = [e \in Event |-> NoRow]
    /\ db = [e \in Event |-> "absent"]
    /\ writes = {}
    /\ acked = {}
    /\ dlq = [e \in Event |-> "none"]
    /\ request = [r \in Request |-> NoRequest]
    /\ seen = {}
    /\ sent = [e \in Event |-> 0]
    /\ accepted = [e \in Event |-> 0]
    /\ crashes = 0

-----------------------------------------------------------------------------
(* Committing an event with its domain change.                             *)

\* A business event is new: no row, no query and no caller knows it yet.
Unused(e) ==
    /\ row[e] = NoRow
    /\ db[e] = "absent"
    /\ Insert(e) \notin writes
    /\ e \notin acked
    /\ accepted[e] = 0

\* commitWithOutbox without a pool: the row is pushed, ok is returned.
CommitInMemory(e) ==
    /\ alive /\ ~Durable /\ Unused(e)
    /\ row' = [row EXCEPT ![e] = FreshRow]
    /\ acked' = acked \cup {e}
    /\ UNCHANGED <<alive, db, writes, dlq, request, seen, sent, accepted, crashes>>

\* commitWithOutbox with a pool: runDurableTx commits the audit and outbox rows.
CommitTx(e) ==
    /\ alive /\ Durable /\ Unused(e)
    /\ db' = [db EXCEPT ![e] = "pending"]
    /\ UNCHANGED <<alive, row, writes, acked, dlq, request, seen, sent, accepted, crashes>>

\* ... and after the await the row enters memory and ok is returned
\* (outboxEvents.push, rememberPostCommit).
RememberCommit(e) ==
    /\ alive /\ Durable
    /\ db[e] = "pending" /\ row[e] = NoRow /\ e \notin acked
    /\ row' = [row EXCEPT ![e] = FreshRow]
    /\ acked' = acked \cup {e}
    /\ UNCHANGED <<alive, db, writes, dlq, request, seen, sent, accepted, crashes>>

\* Mutation of Emit: the caller is answered before the INSERT has run.
EmitAnsweredEarly(e) ==
    /\ alive /\ Durable /\ Unused(e)
    /\ row' = [row EXCEPT ![e] = FreshRow]
    /\ writes' = writes \cup {Insert(e)}
    /\ acked' = acked \cup {e}
    /\ UNCHANGED <<alive, db, dlq, request, seen, sent, accepted, crashes>>

\* emitCrmEvent: the row is in memory before the awaited INSERT has run.
Emit(e) ==
    /\ alive /\ Durable /\ Unused(e)
    /\ row' = [row EXCEPT ![e] = FreshRow]
    /\ writes' = writes \cup {Insert(e)}
    /\ UNCHANGED <<alive, db, acked, dlq, request, seen, sent, accepted, crashes>>

-----------------------------------------------------------------------------
(* The publisher.                                                          *)

\* A row's attempt counter after one more attempt; it saturates at MaxAttempts,
\* the only value the code compares it with.
OneMore(n) == IF n < MaxAttempts THEN n + 1 ELSE MaxAttempts

\* The rows whose transport.publish throws: the stub refuses every row, the
\* other transports refuse any set of rows (failEventIds, a throwing adapter).
Refusals(P) == IF Transport = "nats-stub" THEN {P} ELSE SUBSET P

\* Mutations of Turn: a refusal is swallowed; a row whose attempts are used up
\* starts over.
TurnSwallowingErrors(r, F, e) ==
    [status |-> "published", attempts |-> OneMore(r[e].attempts)]

TurnStartingOver(r, F, e) ==
    [status |-> IF e \in F THEN "pending" ELSE "published",
     attempts |-> OneMore(r[e].attempts) % MaxAttempts]

\* The row r[e] after its turn in a pass over P in which F is refused: a refused
\* row stays pending until its attempts are used up and is then dead-lettered;
\* any other row is marked published as soon as publish() has returned.
Turn(r, F, e) ==
    LET n == OneMore(r[e].attempts)
    IN  [status |-> IF e \notin F THEN "published"
                    ELSE IF n = MaxAttempts THEN "dead_letter" ELSE "pending",
         attempts |-> n]

PassRow(r, P, F) == [e \in Event |-> IF e \in P THEN Turn(r, F, e) ELSE r[e]]

\* Rows of P that leave the pass with a new status; each sends an UPDATE.
Marked(r, P, F) == {e \in P : PassRow(r, P, F)[e].status # "pending"}

\* Mutation of Publish: a refusing transport has taken the event all the same and
\* remembers nothing.
PublishRefusedLate(r, P, F) ==
    LET new == PassRow(r, P, F)
    IN  /\ row' = new
        /\ dlq' = [e \in Event |->
                     IF e \in P /\ new[e].status = "dead_letter" THEN "failed" ELSE dlq[e]]
        /\ writes' = writes \cup
             (IF Durable THEN {Update(e, new[e].status) : e \in Marked(r, P, F)} ELSE {})
        /\ accepted' = [e \in Event |-> IF e \in P THEN accepted[e] + 1 ELSE accepted[e]]
        /\ UNCHANGED <<seen, sent>>

\* publishPendingOutbox over the rows r, whose pending ones are P.  moveToDlq
\* creates the dead letter or sends the existing one back to `failed`.
Publish(r, P, F) ==
    LET new == PassRow(r, P, F)
        out == P \ F
    IN  /\ row' = new
        /\ dlq' = [e \in Event |->
                     IF e \in P /\ new[e].status = "dead_letter" THEN "failed" ELSE dlq[e]]
        /\ writes' = writes \cup
             (IF Durable THEN {Update(e, new[e].status) : e \in Marked(r, P, F)} ELSE {})
        /\ IF Transport = "nats-jetstream"
           THEN /\ sent' = [e \in Event |-> IF e \in out THEN sent[e] + 1 ELSE sent[e]]
                /\ UNCHANGED <<seen, accepted>>
           ELSE /\ accepted' = [e \in Event |->
                                  IF e \in out \ seen THEN accepted[e] + 1 ELSE accepted[e]]
                /\ seen' = seen \cup out
                /\ UNCHANGED sent

\* POST /v1/events/outbox/publish
PublishPass ==
    /\ alive /\ Pending # {}
    /\ \E F \in Refusals(Pending) : Publish(row, Pending, F)
    /\ UNCHANGED <<alive, db, acked, request, crashes>>

\* JetStream acknowledges an outstanding publish.  (It is the environment.)
BrokerAck(e) ==
    /\ alive /\ sent[e] > 0
    /\ sent' = [sent EXCEPT ![e] = @ - 1]
    /\ accepted' = [accepted EXCEPT ![e] = @ + 1]
    /\ UNCHANGED <<alive, row, db, writes, acked, dlq, request, seen, crashes>>

-----------------------------------------------------------------------------
(* PostgreSQL runs the queries in flight in any order: the pool has several *)
(* connections and nothing awaits an UPDATE.                                *)

RunInsert(e) ==
    /\ Insert(e) \in writes
    /\ db' = [db EXCEPT ![e] = IF @ = "absent" THEN "pending" ELSE @]
    /\ writes' = writes \ {Insert(e)}
    /\ acked' = IF alive THEN acked \cup {e} ELSE acked
    /\ UNCHANGED <<alive, row, dlq, request, seen, sent, accepted, crashes>>

\* The awaited INSERT fails: emitCrmEvent throws, and its row stays in memory.
FailInsert(e) ==
    /\ alive
    /\ Insert(e) \in writes
    /\ writes' = writes \ {Insert(e)}
    /\ UNCHANGED <<alive, row, db, acked, dlq, request, seen, sent, accepted, crashes>>

RunUpdate(e, s) ==
    /\ Update(e, s) \in writes
    /\ db' = [db EXCEPT ![e] = IF @ = "absent" THEN @ ELSE s]
    /\ writes' = writes \ {Update(e, s)}
    /\ UNCHANGED <<alive, row, acked, dlq, request, seen, sent, accepted, crashes>>

RunWrite(e) == RunInsert(e) \/ \E s \in {"published", "dead_letter"} : RunUpdate(e, s)

-----------------------------------------------------------------------------
(* Dead letters and replay.                                                *)

\* updateDeadLetterRemediation
Remediate(e, s) ==
    /\ alive
    /\ <<dlq[e], s>> \in DlqTransitions
    /\ dlq' = [dlq EXCEPT ![e] = s]
    /\ UNCHANGED <<alive, row, db, writes, acked, request, seen, sent, accepted, crashes>>

\* requestReplay: whatever their status, the dead letters must exist.
RequestReplay(r, intent, T) ==
    /\ alive /\ request[r] = NoRequest
    /\ T # {} /\ \A e \in T : dlq[e] # "none"
    /\ request' = [request EXCEPT ![r] =
           [status |-> IF intent = "reconstruction" THEN "approved" ELSE "pending",
            intent |-> intent, targets |-> T]]
    /\ UNCHANGED <<alive, row, db, writes, acked, dlq, seen, sent, accepted, crashes>>

\* The effect of executing a replay of T on rows and dead letters.
Replayable(T) == {e \in T : dlq[e] # "none" /\ row[e].status # "absent"}

\* Mutation of Replay: the row takes the dead letter's status.
ReplayConfusingStatus(T) ==
    /\ row' = [e \in Event |-> IF e \in Replayable(T)
                               THEN [status |-> "replay_approved", attempts |-> 0] ELSE row[e]]
    /\ dlq' = [e \in Event |-> IF e \in Replayable(T) THEN "replay_approved" ELSE dlq[e]]

Replay(T) ==
    /\ row' = [e \in Event |-> IF e \in Replayable(T) THEN FreshRow ELSE row[e]]
    /\ dlq' = [e \in Event |-> IF e \in Replayable(T) THEN "replay_approved" ELSE dlq[e]]

\* Mutation of ExecuteReplay: an executed request may be executed again.
ExecuteReplayAgain(r) ==
    /\ alive
    /\ request[r].status # "none"
    /\ Replay(request[r].targets)
    /\ request' = [request EXCEPT ![r].status = "executed"]
    /\ UNCHANGED <<alive, db, writes, acked, seen, sent, accepted, crashes>>

\* executeReplayRequest
ExecuteReplay(r) ==
    /\ alive
    /\ request[r].status \in {"pending", "approved"}
    /\ Replay(request[r].targets)
    /\ request' = [request EXCEPT ![r].status = "executed"]
    /\ UNCHANGED <<alive, db, writes, acked, seen, sent, accepted, crashes>>

\* replayDeadLetter: request, approve and execute in one call.
ReplayDeadLetter(r, intent, e) ==
    /\ alive /\ request[r] = NoRequest
    /\ dlq[e] # "none"
    /\ Replay({e})
    /\ request' = [request EXCEPT ![r] =
           [status |-> "executed", intent |-> intent, targets |-> {e}]]
    /\ UNCHANGED <<alive, db, writes, acked, seen, sent, accepted, crashes>>

-----------------------------------------------------------------------------
(* Crash and restart.  A rejected publish promise or UPDATE is a crash too: *)
(* nothing handles the rejection, and Node ends the process.                *)

Crash ==
    /\ alive /\ crashes < MaxCrashes
    /\ alive' = FALSE
    /\ crashes' = crashes + 1
    /\ row' = [e \in Event |-> NoRow]
    /\ dlq' = [e \in Event |-> "none"]
    /\ request' = [r \in Request |-> NoRequest]
    /\ seen' = {}
    /\ sent' = [e \in Event |-> 0]
    /\ \E lost \in SUBSET writes : writes' = writes \ lost
    /\ UNCHANGED <<db, acked, accepted>>

\* Mutations of Hydrated: dead-lettered rows are loaded too, as they stand or as
\* work to do.
HydratedDeadLetters ==
    [e \in Event |-> IF db[e] = "pending" THEN FreshRow
                     ELSE IF db[e] = "dead_letter"
                     THEN [status |-> "dead_letter", attempts |-> MaxAttempts] ELSE NoRow]

HydratedAsPending ==
    [e \in Event |-> IF db[e] \in {"pending", "dead_letter"} THEN FreshRow ELSE NoRow]

\* hydratePendingOutbox
Hydrated == [e \in Event |-> IF db[e] = "pending" THEN FreshRow ELSE NoRow]

HydratedPending == {e \in Event : db[e] = "pending"}

\* main.ts: hydrate, install the transport, then drain unless
\* shouldDrainOutboxOnStartup refuses (the stub is unhealthy).
Restart ==
    /\ ~alive /\ writes = {}
    /\ alive' = TRUE
    /\ IF Durable /\ Transport # "nats-stub"
       THEN \E F \in Refusals(HydratedPending) : Publish(Hydrated, HydratedPending, F)
       ELSE /\ row' = Hydrated
            /\ UNCHANGED <<writes, dlq, seen, sent, accepted>>
    /\ UNCHANGED <<db, acked, request, crashes>>

-----------------------------------------------------------------------------
Next ==
    \/ \E e \in Event : CommitInMemory(e)
    \/ \E e \in Event : CommitTx(e)
    \/ \E e \in Event : RememberCommit(e)
    \/ \E e \in Event : Emit(e)
    \/ PublishPass
    \/ \E e \in Event : BrokerAck(e)
    \/ \E e \in Event : RunWrite(e)
    \/ \E e \in Event : FailInsert(e)
    \/ \E e \in Event, s \in DlqStatus : Remediate(e, s)
    \/ \E r \in Request, i \in {"reconstruction", "reexecute"}, T \in SUBSET Event :
          RequestReplay(r, i, T)
    \/ \E r \in Request : ExecuteReplay(r)
    \/ \E r \in Request, i \in {"reconstruction", "reexecute"}, e \in Event :
          ReplayDeadLetter(r, i, e)
    \/ Crash
    \/ Restart

Spec == Init /\ [][Next]_vars

\* Nothing in the code schedules the publisher: the route is called by an
\* operator.  The liveness claims assume that somebody keeps calling it, that
\* PostgreSQL runs the queries it was sent and that JetStream answers.
Fairness ==
    /\ WF_vars(PublishPass)
    /\ \A e \in Event : WF_vars(RunWrite(e))
    /\ \A e \in Event : WF_vars(BrokerAck(e))

FairSpec == Spec /\ Fairness

-----------------------------------------------------------------------------
(* Properties.                                                             *)

TypeOK ==
    /\ alive \in BOOLEAN
    /\ row \in [Event -> [status : RowStatus, attempts : 0..MaxAttempts]]
    /\ db \in [Event -> RowStatus]
    /\ writes \subseteq [ev : Event, op : {"insert", "update"}, status : RowStatus]
    /\ acked \subseteq Event
    /\ dlq \in [Event -> DlqStatus]
    /\ request \in [Request -> [status : {"none", "pending", "approved", "executed"},
                                intent : {"reconstruction", "reexecute"},
                                targets : SUBSET Event]]
    /\ seen \subseteq Event
    /\ sent \in [Event -> Nat]
    /\ accepted \in [Event -> Nat]
    /\ crashes \in 0..MaxCrashes

\* moveToDlq and executeReplayRequest keep the two collections in step: a
\* dead-lettered row always has its dead letter, so an operator can find it, and
\* every dead letter has a row, so no replay is skipped without a word.
DeadLettersMatchRows ==
    \A e \in Event :
        /\ row[e].status = "dead_letter" => dlq[e] # "none"
        /\ dlq[e] # "none" => row[e].status # "absent"

\* Whatever crashes, delays and replays happen, an event whose commit was
\* acknowledged has reached the transport or still stands in PostgreSQL as
\* pending or dead_letter (the in-process transport and the stub).
NoSilentLoss ==
    (Durable /\ Transport # "nats-jetstream") =>
        \A e \in acked : accepted[e] > 0 \/ db[e] \in {"pending", "dead_letter"}

\* publishPendingOutbox republishes only because the process crashed in between:
\* replays in one process are absorbed by the transport's `published` set.
DuplicatesNeedCrash ==
    Transport # "nats-jetstream" => \A e \in Event : accepted[e] <= 1 + crashes

\* On JetStream, which keeps no such set, every delivery after the first is
\* owed to an executed replay of the event (while the process lives).
DuplicatesNeedReplay ==
    crashes = 0 =>
        \A e \in Event :
            accepted[e] + sent[e] <=
                1 + Cardinality({r \in Request : request[r].status = "executed"
                                                  /\ e \in request[r].targets})

\* The copy in PostgreSQL runs behind memory, never ahead: a row that memory
\* still has to publish is marked otherwise in PostgreSQL only after a replay
\* (whose new pending status no code persists).
OnlyReplayOutrunsDb ==
    \A e \in Event :
        row[e].status = "pending" /\ db[e] \in {"published", "dead_letter"} =>
            \E r \in Request : request[r].status = "executed" /\ e \in request[r].targets

\* A pass that keeps being called settles every committed event: the transport
\* takes it or its attempts run out and it becomes a dead letter.
EventuallySettled ==
    \A e \in Event :
        (alive /\ row[e].status = "pending") ~>
            (~alive \/ accepted[e] > 0 \/ row[e].status = "dead_letter")

\* ADR-0010: "No dual-write loss".  What PostgreSQL calls published has been
\* accepted by the transport, or its publish is still being waited for.
NoDualWriteLoss ==
    \A e \in acked : db[e] = "published" => accepted[e] > 0 \/ sent[e] > 0

-----------------------------------------------------------------------------
(* The abstraction: what has become of an event, read off memory, the       *)
(* database and the transport.                                             *)

Progress(e) ==
    IF accepted[e] > 0 THEN "delivered"
    ELSE IF row[e].status = "pending" THEN "owed"
    ELSE IF row[e].status = "dead_letter" THEN "parked"
    ELSE IF db[e] = "dead_letter" THEN "parked"
    ELSE IF db[e] = "pending" \/ Insert(e) \in writes THEN "owed"
    ELSE "none"

Promise == INSTANCE Delivery WITH state <- [e \in Event |-> Progress(e)]

\* Every behaviour of the outbox on an in-process transport is one the promise
\* allows: crashes, restarts, lost and reordered UPDATEs, retries and replays
\* lose no acknowledged event and never take a delivery back.
KeepsPromise == Promise!Spec

=============================================================================
