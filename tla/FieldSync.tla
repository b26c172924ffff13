------------------------------ MODULE FieldSync ------------------------------
(***************************************************************************)
(* Field tasks of one booking, edited offline.  A device keeps a bundle of *)
(* the tasks in the browser's localStorage with a queue of edits; a sync   *)
(* pushes the queue, clears it and pulls a new bundle.  The server takes an*)
(* edit whose version is not behind the task's and files a conflict for the*)
(* others, which the operations desk resolves.                             *)
(*                                                                         *)
(* The cache is read before an await (decryption, encryption, a request)   *)
(* and written after it, and nothing locks it: an edit may be queued while *)
(* a sync is under way.  Requests and answers are lost, and a request may  *)
(* arrive after the page that sent it is gone.                             *)
(*                                                                         *)
(* The page toggles a task between pending and complete; in_progress and   *)
(* new titles reach the server from no page.  Server restarts (everything  *)
(* is in memory) and the encryption are not modelled.                      *)
(***************************************************************************)
EXTENDS Integers, Sequences

CONSTANTS
    Device,     \* devices, each with a principal of its own
    Task,       \* field tasks of the booking
    MaxEdit,    \* bound on the edits made
    MaxVersion, \* bound on the versions the desk makes
    MaxWire     \* bound on the pushes under way to the server

Desk == "desk"

\* (A device's principal works in the field, not at the desk.)
ASSUME FieldAssumption ==
    /\ MaxEdit \in Nat /\ MaxVersion \in Nat /\ MaxWire \in Nat
    /\ Desk \notin Device

VARIABLES
    task,      \* the server's tasks: status, version, who made each version
    conflicts, \* edits the server filed a conflict for
    cache,     \* localStorage of each device: the bundle and the queue, if any
    view,      \* what the page shows: the cache as it last set it
    sync,      \* the sync under way on a device
    toggles,   \* edits being queued on a device, with the cache they were clicked on
    wire,      \* pushes on their way to the server
    edits,     \* all edits in the order of the clicks
    applied,   \* per edit, the versions a push applied it to (history)
    excused    \* edits that may be lost, for a reason known (history)

vars == <<task, conflicts, cache, view, sync, toggles, wire, edits, applied, excused>>

server == <<task, conflicts, applied>>

Flip(status) == IF status = "complete" THEN "pending" ELSE "complete"

None == [bundle |-> <<>>, pending |-> <<>>]

Idle == [at |-> "idle"]

Init ==
    /\ task = [t \in Task |-> [status |-> "pending", ver |-> 1, by |-> <<Desk>>]]
    /\ conflicts = {}
    /\ cache = [d \in Device |-> None]
    /\ view = [d \in Device |-> None]
    /\ sync = [d \in Device |-> Idle]
    /\ toggles = [d \in Device |-> {}]
    /\ wire = {}
    /\ edits = <<>>
    /\ applied = <<>>
    /\ excused = {}

-----------------------------------------------------------------------------
(* The server.                                                             *)

\* pullSyncBundle
Bundle == [t \in Task |-> [status |-> task[t].status, ver |-> task[t].ver]]

\* Mutation of Written: the change keeps the version.
WrittenInPlace(old, status, who) == [status |-> status, ver |-> old.ver, by |-> Append(old.by, who)]

Written(old, status, who) == [status |-> status, ver |-> old.ver + 1, by |-> Append(old.by, who)]

\* Mutation of Accepts: the version is not compared.
AcceptsAny(old, e) == old.status = "complete" => edits[e].status = "complete"

\* shouldAcceptClientFieldTaskUpdate
Accepts(old, e) ==
    edits[e].ver >= old.ver /\ (old.status = "complete" => edits[e].status = "complete")

\* The server after one edit of a push.
PushedOne(s, dev, e) ==
    LET t == edits[e].task
    IN  IF Accepts(s.task[t], e)
        THEN [s EXCEPT !.task[t] = Written(@, edits[e].status, dev),
                       !.applied[e] = Append(@, s.task[t].ver)]
        ELSE [s EXCEPT !.conflicts = @ \cup {e}]

\* pushSyncDeltas, one edit of the batch after the other.
Pushed(dev, batch) ==
    LET after[k \in 0 .. Len(batch)] ==
            IF k = 0 THEN [task |-> task, conflicts |-> conflicts, applied |-> applied]
            ELSE PushedOne(after[k - 1], dev, batch[k])
    IN  after[Len(batch)]

\* A push reaches the server.  The page that sent it may be waiting or not.
ReceivePush(w) ==
    /\ LET new == Pushed(w.dev, w.batch)
       IN  task' = new.task /\ conflicts' = new.conflicts /\ applied' = new.applied
    /\ wire' = wire \ {w}
    /\ sync' = IF sync[w.dev] = [at |-> "push", n |-> w.n]
               THEN [sync EXCEPT ![w.dev] = [at |-> "answer"]] ELSE sync
    /\ UNCHANGED <<cache, view, toggles, edits, excused>>

\* The push is lost on its way, and the page told so.
LosePush(w) ==
    /\ wire' = wire \ {w}
    /\ sync' = IF sync[w.dev] = [at |-> "push", n |-> w.n]
               THEN [sync EXCEPT ![w.dev] = Idle] ELSE sync
    /\ UNCHANGED <<server, cache, view, toggles, edits, excused>>

\* completeFieldTask, at the desk.
CompleteFieldTask(t) ==
    /\ task[t].status # "complete" /\ task[t].ver < MaxVersion
    /\ task' = [task EXCEPT ![t] = Written(@, "complete", Desk)]
    /\ UNCHANGED <<conflicts, cache, view, sync, toggles, wire, edits, applied, excused>>

\* resolveSyncConflict with client_wins.  (server_wins changes no task.)  Neither
\* the version nor an earlier resolution is looked at.
AcceptField(e) ==
    /\ task[edits[e].task].ver < MaxVersion
    /\ task' = [task EXCEPT ![edits[e].task] = Written(@, edits[e].status, Desk)]
    /\ UNCHANGED <<conflicts, cache, view, sync, toggles, wire, edits, applied, excused>>

-----------------------------------------------------------------------------
(* The booking page of a device.                                           *)

\* toggleTask: the edit is made on what the page shows, and will be added to the
\* cache as it is now.
Click(d, t) ==
    /\ view[d] # None /\ Len(edits) < MaxEdit
    /\ LET e == Len(edits) + 1
           seen == view[d].bundle[t]
           others == {g.edit : g \in toggles[d]}
       IN  /\ edits' = Append(edits, [dev |-> d, task |-> t, ver |-> seen.ver, status |-> Flip(seen.status)])
           /\ applied' = Append(applied, <<>>)
           /\ toggles' = [toggles EXCEPT ![d] = @ \cup {[edit |-> e, on |-> cache[d]]}]
           /\ excused' = IF sync[d] # Idle \/ others # {} THEN excused \cup others \cup {e} ELSE excused
    /\ UNCHANGED <<task, conflicts, cache, view, sync, wire>>

Queued(on, e) ==
    [bundle |-> [on.bundle EXCEPT ![edits[e].task].status = edits[e].status],
     pending |-> Append(on.pending, e)]

\* queueFieldDelta writes the cache it has read; without one, there is nothing to
\* write and the page shows none.
Queue(d, g) ==
    LET new == IF g.on = None THEN None ELSE Queued(g.on, g.edit)
    IN  /\ cache' = IF g.on = None THEN cache ELSE [cache EXCEPT ![d] = new]
        /\ view' = [view EXCEPT ![d] = new]
        /\ toggles' = [toggles EXCEPT ![d] = @ \ {g}]
        /\ UNCHANGED <<server, sync, wire, edits, excused>>

\* handleSync: the queue the page shows is pushed, if there is any.
StartSync(d) ==
    /\ view[d] # None /\ sync[d] = Idle
    /\ IF view[d].pending = <<>>
       THEN sync' = [sync EXCEPT ![d] = [at |-> "pull"]] /\ UNCHANGED wire
       ELSE \E n \in {k \in 1 .. MaxWire : \A w \in wire : w.n # k} :
              /\ sync' = [sync EXCEPT ![d] = [at |-> "push", n |-> n]]
              /\ wire' = wire \cup {[dev |-> d, n |-> n, batch |-> view[d].pending]}
    /\ excused' = excused \cup {g.edit : g \in toggles[d]}
    /\ UNCHANGED <<server, cache, view, toggles, edits>>

\* Mutation of AnswerPush: the queue is cleared although the push has failed.
AnswerAnyhow(d) ==
    /\ sync[d].at \in {"push", "answer"}
    /\ sync' = [sync EXCEPT ![d] = [at |-> "clear", on |-> cache[d]]]
    /\ UNCHANGED <<server, cache, view, toggles, wire, edits, excused>>

\* clearPendingDeltas reads the cache.
AnswerPush(d) ==
    /\ sync[d].at = "answer"
    /\ sync' = [sync EXCEPT ![d] = [at |-> "clear", on |-> cache[d]]]
    /\ UNCHANGED <<server, cache, view, toggles, wire, edits, excused>>

\* clearPendingDeltas writes it.
ClearPending(d) ==
    /\ sync[d].at = "clear"
    /\ cache' = IF sync[d].on = None THEN cache
                ELSE [cache EXCEPT ![d] = [sync[d].on EXCEPT !.pending = <<>>]]
    /\ sync' = [sync EXCEPT ![d] = [at |-> "pull"]]
    /\ UNCHANGED <<server, view, toggles, wire, edits, excused>>

Pull(d) ==
    /\ sync[d].at = "pull"
    /\ sync' = [sync EXCEPT ![d] = [at |-> "write", bundle |-> Bundle]]
    /\ UNCHANGED <<server, cache, view, toggles, wire, edits, excused>>

Downloaded(bundle) == [bundle |-> bundle, pending |-> <<>>]

\* The new bundle replaces the cache, and the page shows it.
WriteBundle(d) ==
    /\ sync[d].at = "write"
    /\ cache' = [cache EXCEPT ![d] = Downloaded(sync[d].bundle)]
    /\ view' = [view EXCEPT ![d] = Downloaded(sync[d].bundle)]
    /\ sync' = [sync EXCEPT ![d] = Idle]
    /\ UNCHANGED <<server, toggles, wire, edits, excused>>

\* The answer of the push, or the pull, is lost: the sync fails as it is.
FailSync(d) ==
    /\ sync[d].at \in {"answer", "pull"}
    /\ sync' = [sync EXCEPT ![d] = Idle]
    /\ UNCHANGED <<server, cache, view, toggles, wire, edits, excused>>

Leave(d, left) ==
    /\ cache' = [cache EXCEPT ![d] = left]
    /\ view' = [view EXCEPT ![d] = left]
    /\ sync' = [sync EXCEPT ![d] = Idle]
    /\ toggles' = [toggles EXCEPT ![d] = {}]
    /\ excused' = excused \cup {g.edit : g \in toggles[d]}
                          \cup IF left = cache[d] THEN {} ELSE {cache[d].pending[k] : k \in DOMAIN cache[d].pending}
    /\ UNCHANGED <<server, wire, edits>>

\* The page is loaded again; what it was doing is forgotten.
Reload(d) == (sync[d] # Idle \/ toggles[d] # {} \/ view[d] # cache[d]) /\ Leave(d, cache[d])

\* handleDownload of the list page, "Download for offline" or "Refresh bundle".
Download(d) == sync[d] = Idle /\ toggles[d] = {} /\ Leave(d, Downloaded(Bundle))

\* storeSession: signing in clears the caches.
SignIn(d) == cache[d] # None /\ Leave(d, None)

Next ==
    \/ \E w \in wire : ReceivePush(w) \/ LosePush(w)
    \/ \E t \in Task : CompleteFieldTask(t)
    \/ \E e \in conflicts : AcceptField(e)
    \/ \E d \in Device, t \in Task : Click(d, t)
    \/ \E d \in Device : \E g \in toggles[d] : Queue(d, g)
    \/ \E d \in Device : StartSync(d) \/ AnswerPush(d) \/ ClearPending(d) \/ Pull(d) \/ WriteBundle(d) \/ FailSync(d)
    \/ \E d \in Device : Reload(d) \/ Download(d) \/ SignIn(d)

Spec == Init /\ [][Next]_vars

-----------------------------------------------------------------------------
(* Properties.                                                             *)

Status == {"pending", "complete"}

BundleType == {<<>>} \cup [Task -> [status : Status, ver : Nat]]

CacheType == [bundle : BundleType, pending : Seq(DOMAIN edits)]

\* Versions count the changes; queues, conflicts and pushes hold edits that exist.
TypeOK ==
    /\ task \in [Task -> [status : Status, ver : Nat \ {0}, by : Seq(Device \cup {Desk})]]
    /\ \A t \in Task : task[t].ver = Len(task[t].by)
    /\ conflicts \subseteq DOMAIN edits
    /\ cache \in [Device -> CacheType] /\ view \in [Device -> CacheType]
    /\ sync \in [Device -> {Idle} \cup [at : {"push"}, n : 1 .. MaxWire]
                    \cup [at : {"answer", "pull"}] \cup [at : {"clear"}, on : CacheType]
                    \cup [at : {"write"}, bundle : BundleType]]
    /\ toggles \in [Device -> SUBSET [edit : DOMAIN edits, on : CacheType]]
    /\ wire \subseteq [dev : Device, n : 1 .. MaxWire, batch : Seq(DOMAIN edits)]
    /\ edits \in Seq([dev : Device, task : Task, ver : Nat \ {0}, status : Status])
    /\ applied \in Seq(Seq(Nat)) /\ Len(applied) = Len(edits)
    /\ excused \subseteq DOMAIN edits

Holds(c, e) == \E k \in DOMAIN c.pending : c.pending[k] = e

\* No edit made offline is lost: it waits in the device's cache until a push has
\* applied it or filed a conflict, whatever requests and answers are lost.  The
\* exceptions are edits clicked while a sync or another edit was under way, which
\* a cache read earlier may overwrite, and those the page, a download or a sign-in
\* dropped.
EditsAreAccountedFor ==
    \A e \in DOMAIN edits \ excused :
        \/ Holds(cache[edits[e].dev], e)
        \/ \E g \in toggles[edits[e].dev] : g.edit = e
        \/ applied[e] # <<>> \/ e \in conflicts

\* i9-field-sync: "version LWW; stale client -> conflict".  A push applies an edit
\* once at most, however often it is sent again, and to the very version of the
\* task its user was looking at.
AppliedOnceToWhatWasSeen ==
    \A e \in DOMAIN edits : applied[e] \in {<<>>, <<edits[e].ver>>}

\* The desk is asked about an edit no push has applied only if somebody else had
\* changed the task since the bundle was pulled, the same device had edited that
\* version before, or the edit would reopen a completed task.
RefusedForAReason ==
    \A e \in conflicts :
        LET me == edits[e]
            by == task[me.task].by
        IN  \/ applied[e] # <<>>
            \/ \E k \in me.ver + 1 .. Len(by) : by[k] # me.dev
            \/ \E o \in DOMAIN edits \ {e} : edits[o].dev = me.dev /\ edits[o].task = me.task /\ edits[o].ver = me.ver
            \/ me.status = "pending"

\* Both verdicts of the server on an edit are right, whatever was lost, sent again
\* or arrived late.
VerdictsAreRight == AppliedOnceToWhatWasSeen /\ RefusedForAReason

=============================================================================
