--------------------------- MODULE EventConsumer ---------------------------
(***************************************************************************)
(* The platform-observer consumer on JetStream.  A stored message reaches  *)
(* consumeEventIdempotent along two paths, the continuation that           *)
(* wrapTransportWithConsumer hangs on the publish promise and the durable  *)
(* subscription of startNatsJetStreamConsumer, and operators may replay    *)
(* it along two more.  store.processedEvents and the stream offset live in *)
(* memory; `void` queries carry them to PostgreSQL, a restart reads them   *)
(* back.  One tenant and one consumer name.                                *)
(***************************************************************************)
EXTENDS Naturals, Sequences

CONSTANTS
    Event,       \* event identities
    Deliverable, \* events whose type has a handler and whose tenant a consumer principal
    MaxStream,   \* bound on the messages of the stream
    MaxForced,   \* bound on forced replays of an event
    MaxFailures, \* bound on the failures of its handler
    MaxCrashes   \* bound on process crashes

ASSUME ConsumerAssumption ==
    /\ Deliverable \subseteq Event
    /\ MaxStream \in Nat /\ MaxForced \in Nat
    /\ MaxFailures \in Nat /\ MaxCrashes \in Nat

VARIABLES
    alive,        \* the API process is running
    stream,       \* the messages JetStream stores: an event each
    settled,      \* messages whose ack reached JetStream
    awaiting,     \* messages whose publish promise still has to run the consumer
    inMemory,     \* events whose envelope this process can find for a replay
    processed,    \* store.processedEvents
    dbProcessed,  \* processed_events
    inserts,      \* INSERTs into it that PostgreSQL has not run yet, by event
    deletes,      \* DELETEs likewise
    offset,       \* store.natsConsumerOffsets: lastStreamSeq, 0 for none
    dbOffset,     \* nats_consumer_offsets.last_stream_seq
    upserts,      \* offsets on their way there
    letters,      \* dead letters of the consumer, counted by event
    handled,      \* how often the handler ran to its end, over all processes
    failed,       \* how often it threw
    forced,       \* how often a replay forced it
    streamReplay, \* whether replayNatsStreamFromSeq has ever run
    crashes

vars == <<alive, stream, settled, awaiting, inMemory, processed, dbProcessed, inserts,
          deletes, offset, dbOffset, upserts, letters, handled, failed, forced,
          streamReplay, crashes>>

queries == <<dbProcessed, dbOffset>>
broker == <<stream, awaiting, inMemory>>

Message == DOMAIN stream

NoEvents == [e \in Event |-> 0]

Init ==
    /\ alive = TRUE
    /\ stream = <<>>
    /\ settled = {}
    /\ awaiting = {}
    /\ inMemory = {}
    /\ processed = {}
    /\ dbProcessed = {}
    /\ inserts = NoEvents
    /\ deletes = NoEvents
    /\ offset = 0
    /\ dbOffset = 0
    /\ upserts = {}
    /\ letters = NoEvents
    /\ handled = NoEvents
    /\ failed = NoEvents
    /\ forced = NoEvents
    /\ streamReplay = FALSE
    /\ crashes = 0

Bump(f, e) == [f EXCEPT ![e] = @ + 1]

-----------------------------------------------------------------------------
(* One run of consumeEventIdempotent, as its four outcomes.                *)

\* The principal, the handler or the authorisation is missing.
Undelivered(e) ==
    /\ e \notin Deliverable
    /\ UNCHANGED <<processed, inserts, letters, handled, failed>>

\* already_processed; prior is what the lookup sees.
Skip(e, prior) ==
    /\ e \in Deliverable /\ e \in prior
    /\ processed' = prior
    /\ UNCHANGED <<inserts, letters, handled, failed>>

\* The handler returns: the key is pushed and its INSERT sent.
Handle(e, prior) ==
    /\ e \in Deliverable /\ e \notin prior
    /\ processed' = prior \cup {e}
    /\ inserts' = Bump(inserts, e)
    /\ handled' = Bump(handled, e)
    /\ UNCHANGED <<letters, failed>>

\* Mutation of HandlerThrows: the error is logged and forgotten.
HandlerThrowsQuietly(e, prior) ==
    /\ e \in Deliverable /\ e \notin prior
    /\ processed' = prior
    /\ UNCHANGED <<inserts, letters, handled, failed>>

\* The handler throws: a dead letter is pushed, whether or not there is one.
HandlerThrows(e, prior) ==
    /\ e \in Deliverable /\ e \notin prior
    /\ failed[e] < MaxFailures
    /\ processed' = prior
    /\ letters' = Bump(letters, e)
    /\ failed' = Bump(failed, e)
    /\ UNCHANGED <<inserts, handled>>

Delivered(e, prior) == Skip(e, prior) \/ Handle(e, prior) \/ HandlerThrows(e, prior)

\* Mutation of RecordOffset: the next sequence number is recorded.
RecordNextOffset(s) ==
    /\ offset' = IF s + 1 >= offset THEN s + 1 ELSE offset
    /\ upserts' = upserts \cup {offset'}

\* recordNatsConsumerOffset: memory only advances; its value is sent off.
RecordOffset(s) ==
    /\ offset' = IF s >= offset THEN s ELSE offset
    /\ upserts' = upserts \cup {offset'}

KeepOffset == UNCHANGED <<offset, upserts>>

-----------------------------------------------------------------------------
\* JetStream stores a published envelope and the promise resolves.  The outbox
\* may publish an event again (replay, restart).
Publish(e) ==
    /\ alive /\ Len(stream) < MaxStream
    /\ stream' = Append(stream, e)
    /\ awaiting' = awaiting \cup {Len(stream) + 1}
    /\ inMemory' = inMemory \cup {e}
    /\ UNCHANGED <<alive, settled, processed, inserts, deletes, queries, offset, upserts,
                   letters, handled, failed, forced, streamReplay, crashes>>

\* The continuation of the publish promise; nothing looks at its outcome.
WrapperConsumes(s) ==
    /\ alive /\ s \in awaiting
    /\ awaiting' = awaiting \ {s}
    /\ Undelivered(stream[s]) \/ Delivered(stream[s], processed)
    /\ KeepOffset
    /\ UNCHANGED <<alive, stream, settled, inMemory, deletes, queries, forced, streamReplay,
                   crashes>>

\* Mutation of SubscriptionConsumes: a message is acknowledged before it is consumed.
SubscriptionAcksFirst(s) ==
    /\ alive /\ s \in Message \ settled
    /\ settled' = settled \cup {s}
    /\ KeepOffset
    /\ UNCHANGED <<alive, broker, processed, inserts, letters, handled, failed, deletes,
                   queries, forced, streamReplay, crashes>>

\* The subscription takes a message nobody has acknowledged.  A delivered one is
\* acked (the ack may be lost on the way), any other is nak'ed and comes again.
SubscriptionConsumes(s) ==
    /\ alive /\ s \in Message \ settled
    /\ \/ /\ Undelivered(stream[s])
          /\ UNCHANGED settled
          /\ KeepOffset
       \/ /\ Handle(stream[s], processed)
          /\ RecordOffset(s)
          /\ settled' \in {settled, settled \cup {s}}
       \/ /\ Skip(stream[s], processed) \/ HandlerThrows(stream[s], processed)
          /\ KeepOffset
          /\ settled' \in {settled, settled \cup {s}}
    /\ UNCHANGED <<alive, broker, deletes, queries, forced, streamReplay, crashes>>

\* One message of replayNatsStreamFromSeq.  force takes the record out of
\* memory, and only there; a skipped message records no offset, any other does,
\* whatever became of it.
ReplayMessage(s, force) ==
    LET e == stream[s]
        forcing == force /\ e \in processed
        prior == IF forcing THEN processed \ {e} ELSE processed
    IN  /\ alive
        /\ forcing => forced[e] < MaxForced
        /\ streamReplay' = TRUE
        /\ forced' = IF forcing THEN Bump(forced, e) ELSE forced
        /\ \/ e \in prior /\ Skip(e, prior) /\ KeepOffset
           \/ Undelivered(e) /\ RecordOffset(s)
           \/ (Handle(e, prior) \/ HandlerThrows(e, prior)) /\ RecordOffset(s)
        /\ UNCHANGED <<alive, broker, settled, deletes, queries, crashes>>

\* Mutation of ReplayToConsumer: every replay skips the lookup.
ReplayUnchecked(e, force) ==
    /\ alive /\ e \in inMemory
    /\ Undelivered(e) \/ Handle(e, processed \ {e}) \/ HandlerThrows(e, processed \ {e})
    /\ KeepOffset
    /\ UNCHANGED <<alive, broker, settled, deletes, forced, queries, streamReplay, crashes>>

\* One event of replayEventsToConsumer.  force also sends a DELETE.
ReplayToConsumer(e, force) ==
    LET forcing == force /\ e \in processed
        prior == IF forcing THEN processed \ {e} ELSE processed
    IN  /\ alive /\ e \in inMemory
        /\ forcing => forced[e] < MaxForced
        /\ forced' = IF forcing THEN Bump(forced, e) ELSE forced
        /\ deletes' = IF forcing THEN Bump(deletes, e) ELSE deletes
        /\ Undelivered(e) \/ Delivered(e, prior)
        /\ KeepOffset
        /\ UNCHANGED <<alive, broker, settled, queries, streamReplay, crashes>>

-----------------------------------------------------------------------------
(* PostgreSQL runs the queries in flight in any order.                     *)

RunInsert(e) ==
    /\ inserts[e] > 0
    /\ inserts' = [inserts EXCEPT ![e] = @ - 1]
    /\ dbProcessed' = dbProcessed \cup {e}
    /\ UNCHANGED <<alive, broker, settled, processed, deletes, offset, dbOffset, upserts,
                   letters, handled, failed, forced, streamReplay, crashes>>

RunDelete(e) ==
    /\ deletes[e] > 0
    /\ deletes' = [deletes EXCEPT ![e] = @ - 1]
    /\ dbProcessed' = dbProcessed \ {e}
    /\ UNCHANGED <<alive, broker, settled, processed, inserts, offset, dbOffset, upserts,
                   letters, handled, failed, forced, streamReplay, crashes>>

\* Mutation of Stored: the last writer wins.
StoredLast(s) == s

\* The upsert keeps the GREATEST of the two.
Stored(s) == IF s > dbOffset THEN s ELSE dbOffset

RunUpsert(s) ==
    /\ s \in upserts
    /\ upserts' = upserts \ {s}
    /\ dbOffset' = Stored(s)
    /\ UNCHANGED <<alive, broker, settled, processed, dbProcessed, inserts, deletes, offset,
                   letters, handled, failed, forced, streamReplay, crashes>>

QueriesDone == inserts = NoEvents /\ deletes = NoEvents /\ upserts = {}

\* The process dies; each query in flight is lost or still runs.
Crash ==
    /\ alive /\ crashes < MaxCrashes
    /\ alive' = FALSE
    /\ crashes' = crashes + 1
    /\ inserts' \in {f \in [Event -> 0..(MaxForced + 1)] : \A e \in Event : f[e] <= inserts[e]}
    /\ deletes' \in {f \in [Event -> 0..MaxForced] : \A e \in Event : f[e] <= deletes[e]}
    /\ upserts' \in SUBSET upserts
    /\ awaiting' = {}
    /\ inMemory' = {}
    /\ processed' = {}
    /\ offset' = 0
    /\ letters' = NoEvents
    /\ UNCHANGED <<stream, settled, queries, handled, failed, forced, streamReplay>>

\* main.ts: hydrateProcessedEvents, hydrateNatsConsumerOffsets, subscribe again.
Restart ==
    /\ ~alive /\ QueriesDone
    /\ alive' = TRUE
    /\ processed' = dbProcessed
    /\ offset' = dbOffset
    /\ UNCHANGED <<broker, settled, queries, inserts, deletes, upserts, letters, handled,
                   failed, forced, streamReplay, crashes>>

Next ==
    \/ \E e \in Event : Publish(e)
    \/ \E s \in 1..MaxStream : WrapperConsumes(s)
    \/ \E s \in Message : SubscriptionConsumes(s)
    \/ \E s \in Message, force \in BOOLEAN : ReplayMessage(s, force)
    \/ \E e \in Event, force \in BOOLEAN : ReplayToConsumer(e, force)
    \/ \E e \in Event : RunInsert(e)
    \/ \E e \in Event : RunDelete(e)
    \/ \E s \in 1..MaxStream : RunUpsert(s)
    \/ Crash
    \/ Restart

Spec == Init /\ [][Next]_vars

\* JetStream redelivers what is not acknowledged, PostgreSQL runs what it was
\* sent and the process is started again.  No operator has to replay anything.
Fairness ==
    /\ \A s \in 1..MaxStream : WF_vars(s \in Message /\ SubscriptionConsumes(s))
    /\ \A e \in Event : WF_vars(RunInsert(e)) /\ WF_vars(RunDelete(e))
    /\ \A s \in 1..MaxStream : WF_vars(RunUpsert(s))
    /\ WF_vars(Restart)

FairSpec == Spec /\ Fairness

-----------------------------------------------------------------------------
(* Properties.                                                             *)

TypeOK ==
    /\ alive \in BOOLEAN
    /\ stream \in Seq(Event)
    /\ settled \subseteq Message /\ awaiting \subseteq Message
    /\ inMemory \subseteq Event
    /\ processed \subseteq Event /\ dbProcessed \subseteq Event
    /\ inserts \in [Event -> Nat] /\ deletes \in [Event -> Nat]
    /\ offset \in 0..Len(stream) /\ dbOffset \in 0..Len(stream)
    /\ upserts \subseteq Message
    /\ letters \in [Event -> Nat]
    /\ handled \in [Event -> Nat] /\ failed \in [Event -> Nat]
    /\ forced \in [Event -> 0..MaxForced]
    /\ streamReplay \in BOOLEAN
    /\ crashes \in 0..MaxCrashes

\* Idempotent consumption: two paths, redeliveries, republished copies and
\* replays run a handler again only on demand (force) or because a crash took
\* the record before its INSERT had run.
HandledOncePerCause ==
    \A e \in Event : handled[e] <= 1 + forced[e] + crashes

\* A message JetStream no longer holds has been handled, or has a dead letter
\* that lasts as long as the process.
SettledIsAccountedFor ==
    \A s \in settled :
        \/ handled[stream[s]] > 0
        \/ failed[stream[s]] > 0 /\ (crashes = 0 => letters[stream[s]] > 0)

\* Without forced replays memory and processed_events agree as soon as nothing
\* is in flight, so a restart skips exactly what was processed.
RecordsAgree ==
    alive /\ forced = NoEvents /\ inserts = NoEvents => processed = dbProcessed

\* The offset counts what was handled, not what was seen (a stream replay moves
\* it over messages no handler took), and PostgreSQL never forgets progress:
\* once every upsert has run it holds memory's value, in whatever order they ran.
OffsetCountsHandled ==
    /\ ~streamReplay /\ offset > 0 => handled[stream[offset]] > 0
    /\ alive /\ upserts = {} => dbOffset = offset

\* What the consumer remembers and what PostgreSQL keeps of it tell the same story,
\* records and offset.
ProgressIsRight == RecordsAgree /\ OffsetCountsHandled

\* i4-operational-recovery: unprocessed events are re-delivered.  Each stored
\* message of a deliverable event is handled or dead-lettered in the end,
\* across crashes and next to messages that are nak'ed for ever.
EventuallyConsumed ==
    \A s \in 1..MaxStream :
        (s \in Message /\ stream[s] \in Deliverable) ~>
            (s \in Message /\ (handled[stream[s]] > 0 \/ failed[stream[s]] > 0))

=============================================================================
