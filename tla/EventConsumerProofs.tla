-------------------------- MODULE EventConsumerProofs --------------------------
(***************************************************************************)
(* Proofs about EventConsumer, for any events, any number of messages,     *)
(* forced replays, handler failures and crashes.                           *)
(*                                                                         *)
(* An event is remembered in three places, store.processedEvents, the rows *)
(* of processed_events and the INSERTs on their way there, and so is the   *)
(* offset.  Inv says how the three relate while the process lives, and     *)
(* what a crash may take from them.                                        *)
(***************************************************************************)
EXTENDS EventConsumer, TLAPS

-----------------------------------------------------------------------------
(* The inductive invariant.                                                *)

One(b) == IF b THEN 1 ELSE 0

\* The runs of the handler, the queries and the records of one event.
Counts(e) ==
    /\ handled[e] <= forced[e] + crashes + One(e \in processed)
    /\ inserts[e] <= forced[e] + One(e \in processed \/ ~alive)
    /\ deletes[e] <= forced[e]
    /\ e \in processed \/ e \in dbProcessed \/ inserts[e] > 0 => handled[e] > 0

CountPart == \A e \in Event : Counts(e)

\* Memory is the table and what is on its way there, unless a replay was forced.
RecordPart ==
    /\ ~alive => processed = {}
    /\ alive /\ forced = NoEvents => \A e \in Event : e \in processed <=> e \in dbProcessed \/ inserts[e] > 0

Handled(s) == s > 0 => handled[stream[s]] > 0

\* Memory's offset is the greatest of the table's and those on their way there.
OffsetPart ==
    /\ ~streamReplay => Handled(offset) /\ Handled(dbOffset) /\ \A s \in upserts : Handled(s)
    /\ alive => /\ dbOffset <= offset /\ \A s \in upserts : s <= offset
                /\ dbOffset = offset \/ offset \in upserts

Inv == TypeOK /\ CountPart /\ SettledIsAccountedFor /\ RecordPart /\ OffsetPart

-----------------------------------------------------------------------------
(* Helpers.                                                                *)

LEMMA Bumped ==
    ASSUME NEW f \in [Event -> Nat], NEW e \in Event
    PROVE  /\ Bump(f, e) \in [Event -> Nat] /\ Bump(f, e)[e] = f[e] + 1
           /\ \A x \in Event : x # e => Bump(f, e)[x] = f[x]
           /\ \A x \in Event : Bump(f, e)[x] >= f[x]
           /\ Bump(f, e) # NoEvents
<1>1. /\ Bump(f, e) \in [Event -> Nat] /\ Bump(f, e)[e] = f[e] + 1
      /\ \A x \in Event : x # e => Bump(f, e)[x] = f[x]
  BY DEF Bump
<1>2. Bump(f, e)[e] # 0 /\ NoEvents[e] = 0
  BY <1>1 DEF NoEvents
<1> QED BY <1>1, <1>2

LEMMA Numbers ==
    ASSUME TypeOK
    PROVE  /\ stream \in Seq(Event) /\ Len(stream) \in Nat /\ Message = 1 .. Len(stream)
           /\ \A s \in Message : stream[s] \in Event
           /\ forced \in [Event -> Nat] /\ crashes \in Nat
           /\ offset \in Nat /\ dbOffset \in Nat
           /\ \A s \in upserts : s \in Message /\ s \in Nat
<1>1. stream \in Seq(Event)
  BY DEF TypeOK
<1>2. Len(stream) \in Nat /\ Message = 1 .. Len(stream) /\ \A s \in Message : stream[s] \in Event
  BY <1>1 DEF Message
<1>3. forced \in [Event -> Nat] /\ crashes \in Nat
  BY ConsumerAssumption DEF TypeOK
<1>4. offset \in Nat /\ dbOffset \in Nat /\ \A s \in upserts : s \in Message /\ s \in Nat
  BY <1>2 DEF TypeOK
<1> QED BY <1>1, <1>2, <1>3, <1>4

\* A replay takes the record of e out of memory, or the consumer sees what there is.
Sees(e, prior) ==
    \/ prior = processed /\ forced' = forced
    \/ e \in processed /\ prior = processed \ {e} /\ forced' = Bump(forced, e)

\* What one run of consumeEventIdempotent leaves behind.
Ran(e, prior) ==
    /\ Sees(e, prior)
    /\ Undelivered(e) \/ Delivered(e, prior)
    /\ deletes' = deletes \/ (prior # processed /\ deletes' = Bump(deletes, e))
    /\ alive /\ UNCHANGED <<alive, stream, dbProcessed, crashes>>

LEMMA RanOutcome ==
    ASSUME TypeOK, NEW e \in Event, NEW prior, Ran(e, prior)
    PROVE  /\ prior \subseteq processed /\ processed' \subseteq Event
           /\ \A x \in Event : x # e => /\ x \in processed' <=> x \in processed
                                        /\ x \in prior <=> x \in processed
                                        /\ inserts'[x] = inserts[x] /\ handled'[x] = handled[x]
                                        /\ deletes'[x] = deletes[x] /\ forced'[x] = forced[x]
           /\ \A x \in Event : handled'[x] >= handled[x]
           /\ inserts' \in [Event -> Nat] /\ deletes' \in [Event -> Nat]
           /\ handled' \in [Event -> Nat] /\ failed' \in [Event -> Nat] /\ letters' \in [Event -> Nat]
           /\ \/ processed' = processed /\ inserts' = inserts /\ handled' = handled
              \/ processed' = prior /\ inserts' = inserts /\ handled' = handled
              \/ /\ e \notin prior /\ e \in processed' /\ handled'[e] = handled[e] + 1
                 /\ inserts'[e] = inserts[e] + 1
           /\ \/ prior = processed /\ forced' = forced /\ deletes' = deletes
              \/ /\ e \in processed /\ prior = processed \ {e} /\ forced'[e] = forced[e] + 1
                 /\ forced' # NoEvents /\ deletes'[e] \in {deletes[e], deletes[e] + 1}
<1>1. /\ inserts \in [Event -> Nat] /\ deletes \in [Event -> Nat] /\ handled \in [Event -> Nat]
      /\ failed \in [Event -> Nat] /\ letters \in [Event -> Nat] /\ forced \in [Event -> Nat]
      /\ processed \subseteq Event
  BY Numbers DEF TypeOK
<1>2. prior \subseteq processed /\ \A x \in Event : x # e => (x \in prior <=> x \in processed)
  BY DEF Ran, Sees
<1>3. /\ \/ prior = processed /\ forced' = forced /\ deletes' = deletes
         \/ /\ e \in processed /\ prior = processed \ {e} /\ forced'[e] = forced[e] + 1
            /\ forced' # NoEvents /\ deletes'[e] \in {deletes[e], deletes[e] + 1}
      /\ deletes' \in [Event -> Nat]
      /\ \A x \in Event : x # e => deletes'[x] = deletes[x] /\ forced'[x] = forced[x]
  BY <1>1, Bumped DEF Ran, Sees
<1>4. CASE Undelivered(e)
  BY <1>1, <1>2, <1>3, <1>4 DEF Undelivered
<1>5. CASE Skip(e, prior)
  BY <1>1, <1>2, <1>3, <1>5 DEF Skip
<1>6. CASE Handle(e, prior)
  <2>1. /\ e \notin prior /\ processed' = prior \cup {e} /\ inserts' = Bump(inserts, e)
        /\ handled' = Bump(handled, e) /\ letters' = letters /\ failed' = failed
    BY <1>6 DEF Handle
  <2>2. /\ inserts' \in [Event -> Nat] /\ inserts'[e] = inserts[e] + 1
        /\ handled' \in [Event -> Nat] /\ handled'[e] = handled[e] + 1
        /\ \A x \in Event : x # e => inserts'[x] = inserts[x] /\ handled'[x] = handled[x]
        /\ \A x \in Event : handled'[x] >= handled[x]
    BY <1>1, <2>1, Bumped
  <2> QED BY <1>1, <1>2, <1>3, <2>1, <2>2
<1>7. CASE HandlerThrows(e, prior)
  <2>1. /\ processed' = prior /\ inserts' = inserts /\ handled' = handled
        /\ letters' = Bump(letters, e) /\ failed' = Bump(failed, e)
    BY <1>7 DEF HandlerThrows
  <2>2. letters' \in [Event -> Nat] /\ failed' \in [Event -> Nat]
    BY <1>1, <2>1, Bumped
  <2> QED BY <1>1, <1>2, <1>3, <2>1, <2>2
<1> QED BY <1>4, <1>5, <1>6, <1>7 DEF Ran, Delivered

\* The letters and failures of a run only grow, and a failure leaves both.
LEMMA RanLetters ==
    ASSUME TypeOK, NEW e \in Event, NEW prior, Ran(e, prior)
    PROVE  \A x \in Event : failed'[x] >= failed[x] /\ letters'[x] >= letters[x]
<1>1. failed \in [Event -> Nat] /\ letters \in [Event -> Nat]
  BY DEF TypeOK
<1>2. failed' = failed \/ failed' = Bump(failed, e)
  BY DEF Ran, Delivered, Undelivered, Skip, Handle, HandlerThrows
<1>3. letters' = letters \/ letters' = Bump(letters, e)
  BY DEF Ran, Delivered, Undelivered, Skip, Handle, HandlerThrows
<1> QED BY <1>1, <1>2, <1>3, Bumped

\* The counts and the records after a run.
LEMMA RanCounts ==
    ASSUME TypeOK, CountPart, RecordPart, NEW e \in Event, NEW prior, Ran(e, prior)
    PROVE  CountPart' /\ RecordPart'
<1>1. /\ inserts \in [Event -> Nat] /\ deletes \in [Event -> Nat] /\ handled \in [Event -> Nat]
      /\ forced \in [Event -> Nat] /\ crashes \in Nat
      /\ alive /\ alive' /\ dbProcessed' = dbProcessed /\ crashes' = crashes
  BY Numbers DEF TypeOK, Ran
<1>2. Counts(e)'
  <2>1. Counts(e)
    BY DEF CountPart
  <2>2. CASE processed' = processed /\ inserts' = inserts /\ handled' = handled
    BY <1>1, <2>1, <2>2, RanOutcome DEF Counts, One
  <2>3. CASE processed' = prior /\ inserts' = inserts /\ handled' = handled
    BY <1>1, <2>1, <2>3, RanOutcome DEF Counts, One
  <2>4. CASE /\ e \notin prior /\ e \in processed' /\ handled'[e] = handled[e] + 1
             /\ inserts'[e] = inserts[e] + 1
    BY <1>1, <2>1, <2>4, RanOutcome DEF Counts, One
  <2> QED BY <2>2, <2>3, <2>4, RanOutcome
<1>3. ASSUME NEW x \in Event, x # e PROVE Counts(x)'
  <2>1. Counts(x)
    BY DEF CountPart
  <2>2. /\ x \in processed' <=> x \in processed
        /\ inserts'[x] = inserts[x] /\ handled'[x] = handled[x]
        /\ deletes'[x] = deletes[x] /\ forced'[x] = forced[x]
    BY <1>3, RanOutcome
  <2> QED BY <1>1, <2>1, <2>2 DEF Counts, One
<1>4. RecordPart'
  <2> SUFFICES ASSUME forced' = NoEvents, NEW x \in Event
               PROVE  x \in processed' <=> x \in dbProcessed' \/ inserts'[x] > 0
    BY <1>1 DEF RecordPart
  <2>1. prior = processed /\ forced' = forced
    BY RanOutcome
  <2>2. x \in processed <=> x \in dbProcessed \/ inserts[x] > 0
    BY <1>1, <2>1 DEF RecordPart
  <2>3. CASE x # e
    BY <1>1, <2>2, <2>3, RanOutcome
  <2>4. CASE x = e
    BY <1>1, <2>1, <2>2, <2>4, RanOutcome
  <2> QED BY <2>3, <2>4
<1> QED BY <1>2, <1>3, <1>4 DEF CountPart

\* A message settled now was handled or has a letter, and one settled before still.
LEMMA SettledKept ==
    ASSUME TypeOK, SettledIsAccountedFor, stream' = stream, crashes' = crashes,
           \A x \in Event : handled'[x] >= handled[x] /\ failed'[x] >= failed[x] /\ letters'[x] >= letters[x],
           handled' \in [Event -> Nat], failed' \in [Event -> Nat], letters' \in [Event -> Nat],
           \A s \in settled' : s \in settled \/ handled'[stream[s]] > 0
                               \/ (failed'[stream[s]] > 0 /\ letters'[stream[s]] > 0)
    PROVE  SettledIsAccountedFor'
<1>1. /\ handled \in [Event -> Nat] /\ failed \in [Event -> Nat] /\ letters \in [Event -> Nat]
      /\ \A s \in settled : stream[s] \in Event
  BY Numbers DEF TypeOK
<1>2. ASSUME NEW s \in settled
      PROVE  \/ handled'[stream[s]] > 0
             \/ failed'[stream[s]] > 0 /\ (crashes = 0 => letters'[stream[s]] > 0)
  BY <1>1 DEF SettledIsAccountedFor
<1> QED BY <1>2 DEF SettledIsAccountedFor

\* recordNatsConsumerOffset moves on to a handled message, or a stream replay ran.
LEMMA OffsetMoves ==
    ASSUME TypeOK, OffsetPart, alive, alive', stream' = stream, dbOffset' = dbOffset,
           handled' \in [Event -> Nat], \A x \in Event : handled'[x] >= handled[x],
           streamReplay => streamReplay', NEW s,
           KeepOffset \/ (s \in Message /\ RecordOffset(s) /\ (streamReplay' \/ handled'[stream[s]] > 0))
    PROVE  OffsetPart' /\ offset' \in 0 .. Len(stream) /\ upserts' \subseteq Message
<1>1. /\ handled \in [Event -> Nat] /\ offset \in Nat /\ dbOffset \in Nat /\ Len(stream) \in Nat
      /\ Message = 1 .. Len(stream) /\ \A x \in Message : stream[x] \in Event /\ x \in Nat
      /\ \A x \in upserts : x \in Message /\ x \in Nat
      /\ offset <= Len(stream) /\ dbOffset <= Len(stream)
  <2>1. Len(stream) \in Nat /\ offset \in 0 .. Len(stream) /\ dbOffset \in 0 .. Len(stream)
    BY Numbers DEF TypeOK
  <2>2. handled \in [Event -> Nat]
    BY DEF TypeOK
  <2> QED BY <2>1, <2>2, Numbers
<1>2. ASSUME NEW x \in 0 .. Len(stream), Handled(x) PROVE Handled(x)'
  BY <1>1, <1>2 DEF Handled
<1>3. CASE KeepOffset
  <2>1. offset' = offset /\ upserts' = upserts
    BY <1>3 DEF KeepOffset
  <2>2. ~streamReplay' => Handled(offset)' /\ Handled(dbOffset)' /\ \A x \in upserts' : Handled(x)'
    BY <1>1, <1>2, <2>1 DEF OffsetPart, Handled
  <2>3. dbOffset <= offset' /\ (\A x \in upserts' : x <= offset') /\ (dbOffset = offset' \/ offset' \in upserts')
    BY <2>1 DEF OffsetPart
  <2> QED BY <1>1, <2>1, <2>2, <2>3 DEF OffsetPart
<1>4. CASE s \in Message /\ RecordOffset(s) /\ (streamReplay' \/ handled'[stream[s]] > 0)
  <2>1. /\ (offset' = s /\ s >= offset) \/ (offset' = offset /\ offset > s)
        /\ upserts' = upserts \cup {offset'}
    BY <1>1, <1>4 DEF RecordOffset
  <2>0. s \in Message /\ s \in 1 .. Len(stream) /\ s \in Nat
    BY <1>1, <1>4
  <2>2. /\ offset' \in Message /\ offset' >= offset /\ offset' \in Nat
        /\ offset' = s \/ offset' = offset
    <3>1. CASE offset' = s /\ s >= offset
      BY <2>0, <3>1
    <3>2. CASE offset' = offset /\ offset > s
      <4>1. offset \in 1 .. Len(stream)
        BY <1>1, <2>0, <3>2
      <4> QED BY <1>1, <3>2, <4>1
    <3> QED BY <2>1, <3>1, <3>2
  <2>3. ~streamReplay' => Handled(offset)'
    <3>1. CASE offset' = s
      BY <1>4, <3>1 DEF Handled
    <3>2. CASE offset' = offset
      BY <1>1, <1>2, <3>2 DEF OffsetPart, Handled
    <3> QED BY <2>2, <3>1, <3>2
  <2>4. ~streamReplay' => Handled(dbOffset)' /\ \A x \in upserts' : Handled(x)'
    <3>1. ~streamReplay' => Handled(dbOffset)'
      BY <1>1, <1>2 DEF OffsetPart, Handled
    <3>2. ASSUME ~streamReplay', NEW x \in upserts PROVE Handled(x)'
      BY <1>1, <1>2, <3>2 DEF OffsetPart
    <3>3. ASSUME ~streamReplay', NEW x, x = offset' PROVE handled'[stream[x]] > 0
      BY <2>2, <2>3, <3>3, <1>1 DEF Handled
    <3> QED BY <2>1, <3>1, <3>2, <3>3 DEF Handled
  <2>5. dbOffset <= offset' /\ \A x \in upserts' : x <= offset'
    BY <1>1, <2>1, <2>2 DEF OffsetPart
  <2>6. offset' \in upserts'
    BY <2>1
  <2> QED BY <1>1, <2>1, <2>2, <2>3, <2>4, <2>5, <2>6 DEF OffsetPart
<1> QED BY <1>3, <1>4

\* A run, whatever path it came on.
LEMMA RanStep ==
    ASSUME Inv, NEW e \in Event, NEW prior, Ran(e, prior), dbOffset' = dbOffset,
           prior # processed => forced[e] < MaxForced,
           streamReplay' \in BOOLEAN, streamReplay => streamReplay',
           awaiting' \subseteq Message, inMemory' \subseteq Event, settled' \subseteq Message,
           \A s \in settled' : s \in settled \/ handled'[stream[s]] > 0
                               \/ (failed'[stream[s]] > 0 /\ letters'[stream[s]] > 0),
           NEW s, KeepOffset \/ (s \in Message /\ RecordOffset(s) /\ (streamReplay' \/ handled'[stream[s]] > 0))
    PROVE  Inv'
<1>1. TypeOK /\ CountPart /\ RecordPart /\ SettledIsAccountedFor /\ OffsetPart
  BY DEF Inv
<1>2. /\ stream' = stream /\ crashes' = crashes /\ alive /\ alive' = alive /\ dbProcessed' = dbProcessed
      /\ processed' \subseteq Event
      /\ inserts' \in [Event -> Nat] /\ deletes' \in [Event -> Nat]
      /\ handled' \in [Event -> Nat] /\ failed' \in [Event -> Nat] /\ letters' \in [Event -> Nat]
      /\ \A x \in Event : handled'[x] >= handled[x]
  BY <1>1, RanOutcome DEF Ran
<1>3. CountPart' /\ RecordPart'
  BY <1>1, RanCounts
<1>4. SettledIsAccountedFor'
  BY <1>1, <1>2, RanLetters, SettledKept
<1>5. OffsetPart' /\ offset' \in 0 .. Len(stream) /\ upserts' \subseteq Message
  BY <1>1, <1>2, OffsetMoves
<1>6. forced' \in [Event -> 0 .. MaxForced]
  <2>1. forced \in [Event -> 0 .. MaxForced] /\ MaxForced \in Nat
    BY <1>1, ConsumerAssumption DEF TypeOK
  <2>2. CASE prior = processed /\ forced' = forced
    BY <2>1, <2>2
  <2>3. CASE prior # processed /\ forced' = Bump(forced, e)
    BY <2>1, <2>3 DEF Bump
  <2> QED BY <2>2, <2>3 DEF Ran, Sees
<1>7. Message' = Message
  BY <1>2 DEF Message
<1>8. TypeOK'
  BY <1>1, <1>2, <1>5, <1>6, <1>7 DEF TypeOK
<1> QED BY <1>3, <1>4, <1>5, <1>8 DEF Inv

-----------------------------------------------------------------------------
(* The paths.                                                              *)

LEMMA WrapperStep ==
    ASSUME Inv, NEW s, WrapperConsumes(s)
    PROVE  Inv'
<1>1. TypeOK
  BY DEF Inv
<1>2. s \in Message /\ stream[s] \in Event
  BY <1>1, Numbers DEF WrapperConsumes, TypeOK
<1>3. PICK e \in Event : e = stream[s]
  BY <1>2
<1>4. PICK p : p = processed
  OBVIOUS
<1>5. Ran(e, p)
  BY <1>3, <1>4 DEF WrapperConsumes, Ran, Sees, queries
<1>6. /\ KeepOffset /\ dbOffset' = dbOffset /\ settled' = settled /\ inMemory' = inMemory
      /\ streamReplay' = streamReplay /\ awaiting' = awaiting \ {s}
  BY DEF WrapperConsumes, queries
<1>7. /\ awaiting' \subseteq Message /\ inMemory' \subseteq Event /\ settled' \subseteq Message
      /\ streamReplay' \in BOOLEAN
  BY <1>1, <1>6 DEF TypeOK
<1> QED BY <1>4, <1>5, <1>6, <1>7, RanStep

LEMMA SettledBefore ==
    ASSUME Inv, NEW e \in Event, Skip(e, processed) \/ Handle(e, processed) \/ HandlerThrows(e, processed)
    PROVE  handled'[e] > 0 \/ (failed'[e] > 0 /\ letters'[e] > 0)
<1>1. handled \in [Event -> Nat] /\ failed \in [Event -> Nat] /\ letters \in [Event -> Nat]
  BY DEF Inv, TypeOK
<1>2. CASE Skip(e, processed)
  BY <1>2 DEF Skip, Inv, CountPart, Counts
<1>3. CASE Handle(e, processed)
  BY <1>1, <1>3, Bumped DEF Handle
<1>4. CASE HandlerThrows(e, processed)
  BY <1>1, <1>4, Bumped DEF HandlerThrows
<1> QED BY <1>2, <1>3, <1>4

LEMMA SubscriptionStep ==
    ASSUME Inv, NEW s \in Message, SubscriptionConsumes(s)
    PROVE  Inv'
<1>1. TypeOK
  BY DEF Inv
<1>2. PICK e \in Event : e = stream[s]
  BY <1>1, Numbers
<1>3. PICK p : p = processed
  OBVIOUS
<1>4. Ran(e, p)
  BY <1>2, <1>3 DEF SubscriptionConsumes, Ran, Sees, Delivered, queries, broker
<1>5. /\ dbOffset' = dbOffset /\ inMemory' = inMemory /\ streamReplay' = streamReplay /\ awaiting' = awaiting
      /\ settled' \in {settled, settled \cup {s}}
  BY DEF SubscriptionConsumes, queries, broker
<1>6. /\ awaiting' \subseteq Message /\ inMemory' \subseteq Event /\ settled' \subseteq Message
      /\ streamReplay' \in BOOLEAN
  BY <1>1, <1>5 DEF TypeOK
<1>7. CASE Undelivered(e) /\ settled' = settled /\ KeepOffset
  BY <1>3, <1>4, <1>5, <1>6, <1>7, RanStep
<1>8. CASE Skip(e, processed) \/ Handle(e, processed) \/ HandlerThrows(e, processed)
  <2>1. handled'[e] > 0 \/ (failed'[e] > 0 /\ letters'[e] > 0)
    BY <1>8, SettledBefore
  <2>2. \A x \in settled' : x \in settled \/ handled'[stream[x]] > 0
                            \/ (failed'[stream[x]] > 0 /\ letters'[stream[x]] > 0)
    BY <1>2, <1>5, <2>1
  <2>3. Handle(e, processed) => handled'[stream[s]] > 0
    <3>1. handled \in [Event -> Nat]
      BY <1>1 DEF TypeOK
    <3> QED BY <1>2, <3>1, Bumped DEF Handle
  <2>4. KeepOffset \/ (Handle(e, processed) /\ RecordOffset(s))
        \/ (Undelivered(e) /\ settled' = settled /\ KeepOffset)
    BY <1>2 DEF SubscriptionConsumes
  <2>5. KeepOffset \/ (s \in Message /\ RecordOffset(s) /\ (streamReplay' \/ handled'[stream[s]] > 0))
    BY <2>3, <2>4
  <2> QED BY <1>3, <1>4, <1>5, <1>6, <2>2, <2>5, RanStep
<1> QED BY <1>2, <1>7, <1>8 DEF SubscriptionConsumes

LEMMA ReplayMessageStep ==
    ASSUME Inv, NEW s \in Message, NEW force \in BOOLEAN, ReplayMessage(s, force)
    PROVE  Inv'
<1>1. TypeOK
  BY DEF Inv
<1>2. PICK e \in Event : e = stream[s]
  BY <1>1, Numbers
<1>3. PICK p : p = IF force /\ e \in processed THEN processed \ {e} ELSE processed
  OBVIOUS
<1>4. Ran(e, p) /\ (p # processed => forced[e] < MaxForced)
  <2>1. /\ alive /\ UNCHANGED <<alive, stream, dbProcessed, deletes, crashes>>
        /\ (Undelivered(e) \/ Delivered(e, p))
    BY <1>2, <1>3 DEF ReplayMessage, Delivered, queries, broker
  <2>2. forced' = IF force /\ e \in processed THEN Bump(forced, e) ELSE forced
    BY <1>2 DEF ReplayMessage
  <2>3. force /\ e \in processed => forced[e] < MaxForced
    BY <1>2 DEF ReplayMessage
  <2> QED BY <1>3, <2>1, <2>2, <2>3 DEF Ran, Sees
<1>5. /\ dbOffset' = dbOffset /\ inMemory' = inMemory /\ streamReplay' = TRUE /\ awaiting' = awaiting
      /\ settled' = settled /\ (KeepOffset \/ RecordOffset(s))
  BY DEF ReplayMessage, queries, broker
<1>6. awaiting' \subseteq Message /\ inMemory' \subseteq Event /\ settled' \subseteq Message
  BY <1>1, <1>5 DEF TypeOK
<1> QED BY <1>4, <1>5, <1>6, RanStep

LEMMA ReplayEventStep ==
    ASSUME Inv, NEW e \in Event, NEW force \in BOOLEAN, ReplayToConsumer(e, force)
    PROVE  Inv'
<1>1. TypeOK
  BY DEF Inv
<1>2. PICK p : p = IF force /\ e \in processed THEN processed \ {e} ELSE processed
  OBVIOUS
<1>3. Ran(e, p) /\ (p # processed => forced[e] < MaxForced)
  <2>1. /\ alive /\ UNCHANGED <<alive, stream, dbProcessed, crashes>>
        /\ (Undelivered(e) \/ Delivered(e, p))
    BY <1>2 DEF ReplayToConsumer, queries, broker
  <2>2. /\ forced' = IF force /\ e \in processed THEN Bump(forced, e) ELSE forced
        /\ deletes' = IF force /\ e \in processed THEN Bump(deletes, e) ELSE deletes
        /\ force /\ e \in processed => forced[e] < MaxForced
    BY DEF ReplayToConsumer
  <2> QED BY <1>2, <2>1, <2>2 DEF Ran, Sees
<1>4. /\ dbOffset' = dbOffset /\ inMemory' = inMemory /\ streamReplay' = streamReplay /\ awaiting' = awaiting
      /\ settled' = settled /\ KeepOffset
  BY DEF ReplayToConsumer, queries, broker
<1>5. /\ awaiting' \subseteq Message /\ inMemory' \subseteq Event /\ settled' \subseteq Message
      /\ streamReplay' \in BOOLEAN
  BY <1>1, <1>4 DEF TypeOK
<1> QED BY <1>3, <1>4, <1>5, RanStep

LEMMA PublishStep ==
    ASSUME Inv, NEW e \in Event, Publish(e)
    PROVE  Inv'
<1>1. /\ TypeOK /\ stream \in Seq(Event) /\ Len(stream) \in Nat /\ Message = 1 .. Len(stream)
  BY Numbers DEF Inv
<1>2. /\ stream' = Append(stream, e) /\ awaiting' = awaiting \cup {Len(stream) + 1}
      /\ inMemory' = inMemory \cup {e}
      /\ UNCHANGED <<alive, settled, processed, inserts, deletes, dbProcessed, dbOffset, offset, upserts,
                     letters, handled, failed, forced, streamReplay, crashes>>
  BY DEF Publish, queries
<1>3. /\ stream' \in Seq(Event) /\ Len(stream') = Len(stream) + 1 /\ Message' = 1 .. (Len(stream) + 1)
      /\ \A s \in Message : stream'[s] = stream[s]
  BY <1>1, <1>2 DEF Message
<1>4. TypeOK'
  <2>1. Message \subseteq Message' /\ Len(stream) + 1 \in Message'
    BY <1>1, <1>3
  <2>2. offset' \in 0 .. Len(stream') /\ dbOffset' \in 0 .. Len(stream')
    BY <1>1, <1>2, <1>3 DEF TypeOK
  <2> QED BY <1>1, <1>2, <1>3, <2>1, <2>2 DEF TypeOK
<1>5. CountPart' /\ RecordPart'
  BY <1>2 DEF Inv, CountPart, Counts, RecordPart
<1>6. SettledIsAccountedFor'
  BY <1>1, <1>2, <1>3 DEF Inv, SettledIsAccountedFor, TypeOK
<1>7. OffsetPart'
  <2>1. \A s \in 0 .. Len(stream) : Handled(s) => Handled(s)'
    BY <1>1, <1>2, <1>3 DEF Handled
  <2>2. offset \in 0 .. Len(stream) /\ dbOffset \in 0 .. Len(stream) /\ \A s \in upserts : s \in 0 .. Len(stream)
    BY <1>1 DEF TypeOK
  <2>3. ~streamReplay => Handled(offset) /\ Handled(dbOffset) /\ \A s \in upserts : Handled(s)
    BY DEF Inv, OffsetPart
  <2>4. ~streamReplay => Handled(offset)' /\ Handled(dbOffset)' /\ \A s \in upserts' : Handled(s)'
    BY <1>2, <2>1, <2>2, <2>3 DEF Handled
  <2> QED BY <1>2, <2>4 DEF Inv, OffsetPart
<1> QED BY <1>4, <1>5, <1>6, <1>7 DEF Inv

-----------------------------------------------------------------------------
(* The queries, the crash and the restart.                                 *)

LEMMA InsertStep ==
    ASSUME Inv, NEW e \in Event, RunInsert(e)
    PROVE  Inv'
<1>1. TypeOK /\ inserts \in [Event -> Nat] /\ forced \in [Event -> Nat]
  BY Numbers DEF Inv, TypeOK
<1>2. /\ inserts[e] > 0 /\ dbProcessed' = dbProcessed \cup {e}
      /\ inserts' = [inserts EXCEPT ![e] = @ - 1]
      /\ UNCHANGED <<alive, stream, awaiting, inMemory, settled, processed, deletes, offset, dbOffset, upserts,
                     letters, handled, failed, forced, streamReplay, crashes>>
  BY DEF RunInsert, broker
<1>3. /\ inserts' \in [Event -> Nat] /\ inserts'[e] = inserts[e] - 1
      /\ \A x \in Event : x # e => inserts'[x] = inserts[x]
  BY <1>1, <1>2
<1>4. TypeOK'
  BY <1>1, <1>2, <1>3 DEF TypeOK, Message
<1>5. ASSUME NEW x \in Event PROVE Counts(x)'
  <2>1. Counts(x) /\ inserts'[x] <= inserts[x] /\ (x = e => inserts[x] > 0)
    BY <1>1, <1>2, <1>3 DEF Inv, CountPart
  <2>2. One(x \in processed \/ ~alive) \in Nat /\ inserts[x] \in Nat /\ inserts'[x] \in Nat /\ forced[x] \in Nat
    BY <1>1, <1>3 DEF One
  <2> QED BY <1>2, <2>1, <2>2 DEF Counts
<1>6. RecordPart'
  <2>1. ASSUME NEW x \in Event
        PROVE  (x \in dbProcessed' \/ inserts'[x] > 0) <=> (x \in dbProcessed \/ inserts[x] > 0)
    BY <1>1, <1>2, <1>3
  <2> QED BY <1>2, <2>1 DEF Inv, RecordPart
<1>7. SettledIsAccountedFor' /\ OffsetPart'
  BY <1>2 DEF Inv, SettledIsAccountedFor, OffsetPart, Handled
<1> QED BY <1>4, <1>5, <1>6, <1>7 DEF Inv, CountPart

\* A DELETE was sent for a forced replay only.
LEMMA DeleteStep ==
    ASSUME Inv, NEW e \in Event, RunDelete(e)
    PROVE  Inv'
<1>1. TypeOK /\ deletes \in [Event -> Nat] /\ forced \in [Event -> Nat]
  BY Numbers DEF Inv, TypeOK
<1>2. /\ deletes[e] > 0 /\ dbProcessed' = dbProcessed \ {e}
      /\ deletes' = [deletes EXCEPT ![e] = @ - 1]
      /\ UNCHANGED <<alive, stream, awaiting, inMemory, settled, processed, inserts, offset, dbOffset, upserts,
                     letters, handled, failed, forced, streamReplay, crashes>>
  BY DEF RunDelete, broker
<1>3. /\ deletes' \in [Event -> Nat] /\ deletes'[e] = deletes[e] - 1
      /\ \A x \in Event : x # e => deletes'[x] = deletes[x]
  BY <1>1, <1>2
<1>4. TypeOK'
  BY <1>1, <1>2, <1>3 DEF TypeOK, Message
<1>5. ASSUME NEW x \in Event PROVE Counts(x)'
  <2>1. Counts(x) /\ deletes'[x] <= deletes[x] /\ deletes[x] \in Nat /\ deletes'[x] \in Nat /\ forced[x] \in Nat
    BY <1>1, <1>2, <1>3 DEF Inv, CountPart
  <2> QED BY <1>2, <2>1 DEF Counts
<1>6. RecordPart'
  <2>1. forced[e] > 0
    BY <1>1, <1>2 DEF Inv, CountPart, Counts
  <2>2. forced' # NoEvents
    BY <1>2, <2>1 DEF NoEvents
  <2> QED BY <1>2, <2>2 DEF Inv, RecordPart
<1>7. SettledIsAccountedFor' /\ OffsetPart'
  BY <1>2 DEF Inv, SettledIsAccountedFor, OffsetPart, Handled
<1> QED BY <1>4, <1>5, <1>6, <1>7 DEF Inv, CountPart

\* The greatest of the offsets is kept, in whatever order they arrive.
LEMMA UpsertStep ==
    ASSUME Inv, NEW s, RunUpsert(s)
    PROVE  Inv'
<1>1. TypeOK /\ dbOffset \in Nat /\ offset \in Nat /\ s \in Nat /\ s \in Message /\ Message = 1 .. Len(stream)
      /\ \A x \in upserts : x \in Nat
  BY Numbers DEF Inv, RunUpsert
<1>2. /\ s \in upserts /\ upserts' = upserts \ {s} /\ dbOffset' = Stored(s)
      /\ UNCHANGED <<alive, stream, awaiting, inMemory, settled, processed, dbProcessed, inserts, deletes, offset,
                     letters, handled, failed, forced, streamReplay, crashes>>
  BY DEF RunUpsert, broker
<1>3. (dbOffset' = s /\ s > dbOffset) \/ (dbOffset' = dbOffset /\ s <= dbOffset)
  BY <1>1, <1>2 DEF Stored
<1>4. TypeOK'
  <2>1. dbOffset' \in 0 .. Len(stream)
    <3>1. dbOffset \in 0 .. Len(stream)
      BY <1>1 DEF TypeOK
    <3>2. s \in 1 .. Len(stream)
      BY <1>1
    <3> QED BY <1>1, <1>3, <3>1, <3>2
  <2> QED BY <1>1, <1>2, <2>1 DEF TypeOK, Message
<1>5. CountPart' /\ RecordPart' /\ SettledIsAccountedFor'
  BY <1>2 DEF Inv, CountPart, Counts, RecordPart, SettledIsAccountedFor
<1>6. ~streamReplay => Handled(offset)' /\ Handled(dbOffset)' /\ \A x \in upserts' : Handled(x)'
  BY <1>2, <1>3 DEF Inv, OffsetPart, Handled
<1>7. alive => /\ dbOffset' <= offset /\ \A x \in upserts' : x <= offset
               /\ dbOffset' = offset \/ offset \in upserts'
  BY <1>1, <1>2, <1>3 DEF Inv, OffsetPart
<1> QED BY <1>2, <1>4, <1>5, <1>6, <1>7 DEF Inv, OffsetPart

\* The crash takes the records, and with them one run's worth of idempotency.
LEMMA CrashStep ==
    ASSUME Inv, Crash
    PROVE  Inv'
<1>1. /\ TypeOK /\ inserts \in [Event -> Nat] /\ deletes \in [Event -> Nat] /\ handled \in [Event -> Nat]
      /\ forced \in [Event -> Nat] /\ crashes \in Nat /\ MaxCrashes \in Nat /\ MaxForced \in Nat
      /\ Len(stream) \in Nat
  BY Numbers, ConsumerAssumption DEF Inv, TypeOK
<1>2. /\ alive /\ crashes < MaxCrashes /\ alive' = FALSE /\ crashes' = crashes + 1
      /\ inserts' \in [Event -> 0..(MaxForced + 1)] /\ \A e \in Event : inserts'[e] <= inserts[e]
      /\ deletes' \in [Event -> 0..MaxForced] /\ \A e \in Event : deletes'[e] <= deletes[e]
      /\ upserts' \subseteq upserts /\ awaiting' = {} /\ inMemory' = {} /\ processed' = {} /\ offset' = 0
      /\ letters' = NoEvents
      /\ UNCHANGED <<stream, settled, dbProcessed, dbOffset, handled, failed, forced, streamReplay>>
  BY DEF Crash, queries
<1>3. inserts' \in [Event -> Nat] /\ deletes' \in [Event -> Nat] /\ letters' \in [Event -> Nat]
  BY <1>1, <1>2 DEF NoEvents
<1>4. TypeOK'
  <2>1. crashes' \in 0 .. MaxCrashes /\ offset' \in 0 .. Len(stream')
    BY <1>1, <1>2
  <2>2. upserts' \subseteq Message /\ Message' = Message
    BY <1>1, <1>2 DEF TypeOK, Message
  <2> QED BY <1>1, <1>2, <1>3, <2>1, <2>2 DEF TypeOK
<1>5. ASSUME NEW e \in Event PROVE Counts(e)'
  <2>1. Counts(e) /\ alive /\ e \notin processed'
    BY <1>2 DEF Inv, CountPart
  <2>2. /\ inserts[e] \in Nat /\ deletes[e] \in Nat /\ handled[e] \in Nat /\ forced[e] \in Nat
        /\ inserts'[e] \in Nat /\ deletes'[e] \in Nat
    BY <1>1, <1>3
  <2> QED BY <1>1, <1>2, <2>1, <2>2 DEF Counts, One
<1>6. RecordPart'
  BY <1>2 DEF RecordPart
<1>7. SettledIsAccountedFor'
  BY <1>1, <1>2 DEF Inv, SettledIsAccountedFor
<1>8. OffsetPart'
  BY <1>2 DEF Inv, OffsetPart, Handled
<1> QED BY <1>4, <1>5, <1>6, <1>7, <1>8 DEF Inv, CountPart

LEMMA RestartStep ==
    ASSUME Inv, Restart
    PROVE  Inv'
<1>1. TypeOK /\ inserts \in [Event -> Nat] /\ forced \in [Event -> Nat] /\ dbOffset \in Nat
      /\ handled \in [Event -> Nat] /\ crashes \in Nat
  BY Numbers DEF Inv, TypeOK
<1>2. /\ ~alive /\ inserts = NoEvents /\ upserts = {} /\ alive' = TRUE /\ processed' = dbProcessed
      /\ offset' = dbOffset
      /\ UNCHANGED <<stream, awaiting, inMemory, settled, dbProcessed, dbOffset, inserts, deletes, upserts,
                     letters, handled, failed, forced, streamReplay, crashes>>
  BY DEF Restart, QueriesDone, broker, queries
<1>3. \A e \in Event : inserts[e] = 0
  BY <1>2 DEF NoEvents
<1>4. processed = {}
  BY <1>2 DEF Inv, RecordPart
<1>5. TypeOK'
  BY <1>1, <1>2 DEF TypeOK, Message
<1>6. ASSUME NEW e \in Event PROVE Counts(e)'
  <2>1. Counts(e)
    BY DEF Inv, CountPart
  <2> QED BY <1>1, <1>2, <1>3, <1>4, <2>1 DEF Counts, One
<1>7. RecordPart'
  BY <1>2, <1>3 DEF RecordPart
<1>8. SettledIsAccountedFor' /\ OffsetPart'
  BY <1>1, <1>2 DEF Inv, SettledIsAccountedFor, OffsetPart, Handled
<1> QED BY <1>5, <1>6, <1>7, <1>8 DEF Inv, CountPart

-----------------------------------------------------------------------------
(* The invariant and what follows from it.                                 *)

LEMMA InitInv == Init => Inv
<1> SUFFICES ASSUME Init PROVE Inv
  OBVIOUS
<1>1. NoEvents \in [Event -> 0 .. MaxForced] /\ NoEvents \in [Event -> Nat] /\ \A e \in Event : NoEvents[e] = 0
  BY ConsumerAssumption DEF NoEvents
<1>2. TypeOK
  <2>1. stream \in Seq(Event) /\ Len(stream) = 0
    BY DEF Init
  <2>2. offset \in 0 .. Len(stream) /\ dbOffset \in 0 .. Len(stream) /\ crashes \in 0 .. MaxCrashes
    BY <2>1, ConsumerAssumption DEF Init
  <2> QED BY <1>1, <2>1, <2>2 DEF Init, TypeOK
<1>3. CountPart
  <2> SUFFICES ASSUME NEW e \in Event PROVE Counts(e)
    BY DEF CountPart
  <2>1. /\ handled[e] = 0 /\ inserts[e] = 0 /\ deletes[e] = 0 /\ forced[e] = 0 /\ crashes = 0 /\ alive
        /\ e \notin processed /\ e \notin dbProcessed
    BY <1>1 DEF Init
  <2> QED BY <2>1 DEF Counts, One
<1>4. SettledIsAccountedFor /\ RecordPart /\ OffsetPart
  BY <1>1 DEF Init, SettledIsAccountedFor, RecordPart, OffsetPart, Handled
<1> QED BY <1>2, <1>3, <1>4 DEF Inv

LEMMA StepInv == Inv /\ [Next]_vars => Inv'
<1> SUFFICES ASSUME Inv, [Next]_vars PROVE Inv'
  OBVIOUS
<1>1. CASE UNCHANGED vars
  <2>1. TypeOK'
    BY <1>1 DEF Inv, TypeOK, Message, vars
  <2>2. CountPart' /\ RecordPart' /\ SettledIsAccountedFor' /\ OffsetPart'
    BY <1>1 DEF Inv, CountPart, Counts, RecordPart, SettledIsAccountedFor, OffsetPart, Handled, vars
  <2> QED BY <2>1, <2>2 DEF Inv
<1> QED
  BY <1>1, PublishStep, WrapperStep, SubscriptionStep, ReplayMessageStep, ReplayEventStep, InsertStep,
     DeleteStep, UpsertStep, CrashStep, RestartStep DEF Next

\* Whatever the redeliveries, replays, failures and crashes, Inv holds.
THEOREM Invariance == Spec => []Inv
BY InitInv, StepInv, PTL DEF Spec

\* The records of the consumer, its queries in flight and its offsets have their types.
THEOREM TypeCorrect == Spec => []TypeOK
<1>1. Inv => TypeOK
  BY DEF Inv
<1> QED BY <1>1, Invariance, PTL

\* consumeEventIdempotent runs the handler of an event again only when a replay forced
\* it, or when a crash took the record before its INSERT had run.
THEOREM HandledOncePerReason == Spec => []HandledOncePerCause
<1>1. Inv => HandledOncePerCause
  <2> SUFFICES ASSUME Inv, NEW e \in Event PROVE handled[e] <= 1 + forced[e] + crashes
    BY DEF HandledOncePerCause
  <2>1. handled[e] <= forced[e] + crashes + One(e \in processed)
    BY DEF Inv, CountPart, Counts
  <2>2. handled[e] \in Nat /\ forced[e] \in Nat /\ crashes \in Nat
    BY Numbers DEF Inv, TypeOK
  <2> QED BY <2>1, <2>2 DEF One
<1> QED BY <1>1, Invariance, PTL

\* startNatsJetStreamConsumer acknowledges what was handled, was handled before or
\* failed with a dead letter, and nothing else.
THEOREM SettledIsDone == Spec => []SettledIsAccountedFor
<1>1. Inv => SettledIsAccountedFor
  BY DEF Inv
<1> QED BY <1>1, Invariance, PTL

\* What processedEvents and the recorded offset say in memory is what the queries in
\* flight will leave in the tables, unless a replay was forced.
THEOREM ProgressAgrees == Spec => []ProgressIsRight
<1>1. Inv => ProgressIsRight
  <2> SUFFICES ASSUME Inv PROVE ProgressIsRight
    OBVIOUS
  <2>1. RecordsAgree
    <3> SUFFICES ASSUME alive, forced = NoEvents, inserts = NoEvents PROVE processed = dbProcessed
      BY DEF RecordsAgree
    <3>1. \A e \in Event : ~(inserts[e] > 0)
      <4> SUFFICES ASSUME NEW e \in Event PROVE ~(inserts[e] > 0)
        OBVIOUS
      <4>1. inserts[e] = 0
        BY DEF NoEvents
      <4> QED BY <4>1
    <3>2. \A e \in Event : e \in processed <=> e \in dbProcessed
      <4>1. \A e \in Event : e \in processed <=> (e \in dbProcessed \/ inserts[e] > 0)
        BY DEF Inv, RecordPart
      <4> QED BY <3>1, <4>1
    <3>3. processed \subseteq Event /\ dbProcessed \subseteq Event
      BY DEF Inv, TypeOK
    <3> QED BY <3>2, <3>3
  <2>2. OffsetCountsHandled
    BY DEF Inv, OffsetPart, Handled, OffsetCountsHandled
  <2> QED BY <2>1, <2>2 DEF ProgressIsRight
<1> QED BY <1>1, Invariance, PTL

\* The bound on the INSERTs a crash leaves in flight keeps none out.
THEOREM InsertsInFlight == Spec => [](\A e \in Event : inserts[e] <= MaxForced + 1 /\ deletes[e] <= MaxForced)
<1>1. Inv => \A e \in Event : inserts[e] <= MaxForced + 1 /\ deletes[e] <= MaxForced
  <2> SUFFICES ASSUME Inv, NEW e \in Event PROVE inserts[e] <= MaxForced + 1 /\ deletes[e] <= MaxForced
    OBVIOUS
  <2>1. /\ inserts[e] <= forced[e] + One(e \in processed \/ ~alive) /\ deletes[e] <= forced[e]
    BY DEF Inv, CountPart, Counts
  <2>2. inserts[e] \in Nat /\ deletes[e] \in Nat /\ forced[e] \in 0 .. MaxForced /\ MaxForced \in Nat
    BY ConsumerAssumption DEF Inv, TypeOK
  <2> QED BY <2>1, <2>2 DEF One
<1> QED BY <1>1, Invariance, PTL

================================================================================
