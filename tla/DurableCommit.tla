--------------------------- MODULE DurableCommit ---------------------------
(***************************************************************************)
(* How a request commits a domain change together with its audit and       *)
(* outbox rows when PostgreSQL is configured, and what its neighbours in   *)
(* the same process see.  Four writers share the memory of the process and *)
(* the audit_events table:                                                 *)
(*   "platform"  commitWithOutbox (outbox.ts)                              *)
(*   "crm"       commitCrmWithOutbox around a mutation that adds a record  *)
(*   "crmEdit"   commitCrmWithOutbox around an update made in place        *)
(*   "spine"     a commercial-spine service: runDurableTx, rememberPostCommit *)
(* A request runs from one await to the next without interruption; every   *)
(* await is a point where other requests run.                              *)
(***************************************************************************)
EXTENDS Naturals, Sequences, FiniteSets, Functions

CONSTANTS
    Tx,    \* requests
    Kinds  \* the writers the requests may use

ASSUME CommitAssumption == Kinds \subseteq {"platform", "crm", "crmEdit", "spine"}

\* What an array holds at an index that `length = n` created.
Hole == "hole"

VARIABLES
    pc,         \* where each request is
    kind,       \* its writer
    snap,       \* what it saved to restore on failure
    todo,       \* audit records its transaction still has to insert
    tip,        \* the hash it read with loadLastAuditHash
    own,        \* audit rows it has inserted and not committed
    number,     \* the aggregate sequence number of its event
    domain,     \* requests whose added record is in the in-memory collections
    edited,     \* requests whose in-place change is in the in-memory records
    audit,      \* store.audit, by the request each entry is about
    outbox,     \* store.outboxEvents, likewise
    counter,    \* store.aggregateSequences for the one aggregate
    rows,       \* committed audit_events rows
    identity,   \* last value of audit_events.sequence
    dbOutbox,   \* committed outbox_events rows
    overlapped  \* whether two requests were ever under way together

vars == <<pc, kind, snap, todo, tip, own, number, domain, edited, audit, outbox,
          counter, rows, identity, dbOutbox, overlapped>>

memory == <<domain, edited, audit, outbox, counter>>
database == <<rows, identity, dbOutbox>>

NoSnap == [domain |-> {}, audit |-> 0, outbox |-> 0, counter |-> 0]

Row(t, n, p) == [about |-> t, seq |-> n, prev |-> p]

Active(t) == pc[t] \notin {"idle", "ok", "failed"}

\* `array.length = n`: cut, or lengthen with holes.
SetLength(s, n) == [i \in 1..n |-> IF i <= Len(s) THEN s[i] ELSE Hole]

Init ==
    /\ pc = [t \in Tx |-> "idle"]
    /\ kind = [t \in Tx |-> "none"]
    /\ snap = [t \in Tx |-> NoSnap]
    /\ todo = [t \in Tx |-> <<>>]
    /\ tip = [t \in Tx |-> 0]
    /\ own = [t \in Tx |-> {}]
    /\ number = [t \in Tx |-> 0]
    /\ domain = {}
    /\ edited = {}
    /\ audit = <<>>
    /\ outbox = <<>>
    /\ counter = 0
    /\ rows = {}
    /\ identity = 0
    /\ dbOutbox = {}
    /\ overlapped = FALSE

-----------------------------------------------------------------------------
\* The synchronous start of a request.  The event takes the next sequence
\* number of its aggregate, the snapshot is taken, and the mutation runs up to
\* its first await.  An update in place has changed the record already: the
\* snapshot copies the collection, not the records in it.  A spine service
\* keeps nothing in memory and assigns no number.
Start(t, k) ==
    /\ pc[t] = "idle"
    /\ pc' = [pc EXCEPT ![t] = "mutated"]
    /\ kind' = [kind EXCEPT ![t] = k]
    /\ counter' = IF k = "spine" THEN counter ELSE counter + 1
    /\ number' = [number EXCEPT ![t] = IF k = "spine" THEN 0 ELSE counter + 1]
    /\ snap' = [snap EXCEPT ![t] = [domain |-> domain, audit |-> Len(audit),
                                    outbox |-> Len(outbox), counter |-> counter']]
    /\ domain' = IF k \in {"platform", "crm"} THEN domain \cup {t} ELSE domain
    /\ edited' = IF k = "crmEdit" THEN edited \cup {t} ELSE edited
    /\ audit' = IF k \in {"crm", "crmEdit"} THEN Append(audit, t) ELSE audit
    /\ overlapped' = (overlapped \/ \E u \in Tx : Active(u))
    /\ UNCHANGED <<todo, tip, own, outbox, rows, identity, dbOutbox>>

\* runDurableTx takes a connection and BEGINs.  A CRM commit will insert every
\* audit entry added since its snapshot, whoever added it.
Begin(t) ==
    /\ pc[t] = "mutated"
    /\ pc' = [pc EXCEPT ![t] = "begun"]
    /\ todo' = [todo EXCEPT ![t] =
          IF kind[t] \in {"crm", "crmEdit"}
          THEN SubSeq(audit, snap[t].audit + 1, Len(audit)) ELSE <<t>>]
    /\ UNCHANGED <<kind, snap, tip, own, number, memory, database, overlapped>>

\* The rows a query of t can see: READ COMMITTED, and its own.
Visible(t) == rows \cup own[t]

\* Mutations of LastSeq: it sees rows of open transactions; on an empty
\* table it answers with the index of no row instead of the genesis hash.
LastSeqDirty(t) ==
    LET all == rows \cup UNION {own[u] : u \in Tx}
    IN  IF all = {} THEN 0 ELSE (CHOOSE r \in all : \A s \in all : s.seq <= r.seq).seq

LastSeqNoGenesis(t) ==
    IF Visible(t) = {} THEN 0 - 1
    ELSE (CHOOSE r \in Visible(t) : \A s \in Visible(t) : s.seq <= r.seq).seq

LastSeq(t) ==
    IF Visible(t) = {} THEN 0
    ELSE (CHOOSE r \in Visible(t) : \A s \in Visible(t) : s.seq <= r.seq).seq

\* loadLastAuditHash: a SELECT without a lock.  A hole among the entries to
\* insert throws before it: such a transaction can only abort.
ReadTip(t) ==
    /\ pc[t] = "begun" /\ todo[t] # <<>> /\ Head(todo[t]) # Hole
    /\ pc' = [pc EXCEPT ![t] = "tip"]
    /\ tip' = [tip EXCEPT ![t] = LastSeq(t)]
    /\ UNCHANGED <<kind, snap, todo, own, number, memory, database, overlapped>>

\* insertAuditEventOn: the identity column numbers the row at once.
InsertAudit(t) ==
    /\ pc[t] = "tip"
    /\ pc' = [pc EXCEPT ![t] = "begun"]
    /\ identity' = identity + 1
    /\ own' = [own EXCEPT ![t] = @ \cup {Row(Head(todo[t]), identity + 1, tip[t])}]
    /\ todo' = [todo EXCEPT ![t] = Tail(@)]
    /\ UNCHANGED <<kind, snap, tip, number, memory, rows, dbOutbox, overlapped>>

\* insertOutboxEventOn and COMMIT.
Commit(t) ==
    /\ pc[t] = "begun" /\ todo[t] = <<>>
    /\ rows' = rows \cup own[t]
    /\ dbOutbox' = dbOutbox \cup {t}
    /\ pc' = [pc EXCEPT ![t] = "committed"]
    /\ UNCHANGED <<kind, snap, todo, tip, own, number, memory, identity, overlapped>>

\* Any statement may fail: ROLLBACK.  An identity value once taken stays taken.
Abort(t) ==
    /\ pc[t] \in {"begun", "tip"}
    /\ pc' = [pc EXCEPT ![t] = "aborted"]
    /\ UNCHANGED <<kind, snap, todo, tip, own, number, memory, database, overlapped>>

\* PostgreSQL commits and the answer is lost with the connection: to the
\* request that is a failure like any other.
LoseCommitAnswer(t) ==
    /\ pc[t] = "committed"
    /\ pc' = [pc EXCEPT ![t] = "aborted"]
    /\ UNCHANGED <<kind, snap, todo, tip, own, number, memory, database, overlapped>>

\* The audit entries of t's committed rows, in the order they were inserted.
Persisted(t) ==
    LET n == Cardinality(own[t])
        nth(i) == CHOOSE r \in own[t] : Cardinality({s \in own[t] : s.seq <= r.seq}) = i
    IN  [i \in 1..n |-> nth(i).about]

\* The request resumes after COMMIT and answers ok.
Succeed(t) ==
    /\ pc[t] = "committed"
    /\ pc' = [pc EXCEPT ![t] = "ok"]
    /\ outbox' = Append(outbox, t)
    /\ audit' = IF kind[t] \in {"crm", "crmEdit"}
                THEN SetLength(audit, snap[t].audit) \o Persisted(t)
                ELSE Append(audit, t)
    /\ UNCHANGED <<kind, snap, todo, tip, own, number, domain, edited, counter, database, overlapped>>

\* Mutation of Fail: the audit trail is left as it is.
FailKeepingAudit(t) ==
    /\ pc[t] = "aborted"
    /\ pc' = [pc EXCEPT ![t] = "failed"]
    /\ domain' = IF kind[t] = "spine" THEN domain ELSE snap[t].domain
    /\ outbox' = IF kind[t] = "spine" THEN outbox ELSE SetLength(outbox, snap[t].outbox)
    /\ counter' = IF kind[t] \in {"crm", "crmEdit"} THEN snap[t].counter ELSE counter
    /\ UNCHANGED <<kind, snap, todo, tip, own, number, edited, audit, database, overlapped>>

\* The request resumes after ROLLBACK: restoreDomain or restoreCrmDomain.
Fail(t) ==
    /\ pc[t] = "aborted"
    /\ pc' = [pc EXCEPT ![t] = "failed"]
    /\ IF kind[t] = "spine"
       THEN UNCHANGED <<domain, audit, outbox, counter>>
       ELSE /\ domain' = snap[t].domain
            /\ audit' = SetLength(audit, snap[t].audit)
            /\ outbox' = SetLength(outbox, snap[t].outbox)
            /\ counter' = IF kind[t] = "platform" THEN counter ELSE snap[t].counter
    /\ UNCHANGED <<kind, snap, todo, tip, own, number, edited, database, overlapped>>

Next ==
    \/ \E t \in Tx, k \in Kinds : Start(t, k)
    \/ \E t \in Tx : Begin(t)
    \/ \E t \in Tx : ReadTip(t)
    \/ \E t \in Tx : InsertAudit(t)
    \/ \E t \in Tx : Commit(t)
    \/ \E t \in Tx : Abort(t)
    \/ \E t \in Tx : LoseCommitAnswer(t)
    \/ \E t \in Tx : Succeed(t)
    \/ \E t \in Tx : Fail(t)

Spec == Init /\ [][Next]_vars

-----------------------------------------------------------------------------
(* Properties.                                                             *)

TypeOK ==
    /\ pc \in [Tx -> {"idle", "mutated", "begun", "tip", "committed", "aborted", "ok", "failed"}]
    /\ kind \in [Tx -> Kinds \cup {"none"}]
    /\ snap \in [Tx -> [domain : SUBSET Tx, audit : Nat, outbox : Nat, counter : Nat]]
    /\ \A t \in Tx : Range(todo[t]) \subseteq Tx \cup {Hole}
    /\ tip \in [Tx -> Nat]
    /\ \A t \in Tx : own[t] \subseteq [about : Tx \cup {Hole}, seq : Nat, prev : Nat]
    /\ number \in [Tx -> Nat]
    /\ domain \subseteq Tx
    /\ edited \subseteq Tx
    /\ Range(audit) \subseteq Tx \cup {Hole}
    /\ Range(outbox) \subseteq Tx \cup {Hole}
    /\ counter \in Nat
    /\ rows \subseteq [about : Tx \cup {Hole}, seq : Nat, prev : Nat]
    /\ identity \in Nat
    /\ dbOutbox \subseteq Tx
    /\ overlapped \in BOOLEAN

\* Whatever the interleaving, a request answered ok has its outbox row and its
\* own audit row committed (runDurableTx before the answer).
OkIsDurable ==
    \A t \in Tx : pc[t] = "ok" =>
        /\ t \in dbOutbox
        /\ (kind[t] \in {"platform", "spine"} => \E r \in rows : r.about = t)

\* Whatever the interleaving, every committed audit row hangs on the genesis
\* hash or on a committed row numbered before it: the rows form a tree.
ParentsCommitted ==
    \A r \in rows : r.prev < r.seq /\ (r.prev = 0 \/ \E s \in rows : s.seq = r.prev)

\* Whatever the interleaving, what PostgreSQL holds is right: the rows of a request
\* answered ok, and an audit table without a row whose parent was rolled back.
TablesAreRight == OkIsDurable /\ ParentsCommitted

\* Requests may overlap freely as long as none fails: each one answered ok is in
\* the in-memory outbox, once, and numbers of one aggregate are not reused.
FailureFreeOverlap ==
    (\A t \in Tx : pc[t] \notin {"aborted", "failed"}) =>
        /\ \A t \in Tx : pc[t] = "ok" => Cardinality({i \in DOMAIN outbox : outbox[i] = t}) = 1
        /\ \A t, u \in Tx : t # u /\ number[t] = number[u] => number[t] = 0

\* The chain verifyChain accepts: each row's prev is the row numbered next below it.
ChainLinear ==
    \A r \in rows : r.prev = LET below == {s \in rows : s.seq < r.seq}
                             IN  IF below = {} THEN 0
                                 ELSE (CHOOSE s \in below : \A u \in below : u.seq <= s.seq).seq

\* A request that failed left nothing of its own in memory, but a change made in
\* place: the snapshot holds the record itself, against the comment "Rolls back CRM
\* state, audit, and outbox on failure" of commitCrmWithOutbox.
FailedLeavesNothing(t) ==
    pc[t] = "failed" =>
        /\ t \notin domain \cup Range(audit) \cup Range(outbox)
        /\ t \in edited => kind[t] = "crmEdit"

\* One request at a time, the code keeps its word exactly: the chain verifies,
\* each commit is audited once, memory holds the ok requests in order and
\* nothing of the failed ones.
ExactWhenSerial ==
    ~overlapped =>
        /\ ChainLinear
        /\ \A r, s \in rows : r.about = s.about => r = s
        /\ \A t \in Tx : FailedLeavesNothing(t)
        /\ \A t \in Tx : pc[t] = "ok" => t \in Range(outbox) /\ t \in Range(audit)

\* What memory may be trusted for: everything while requests run one at a time, and
\* while they overlap as much as follows from none having failed.
MemoryIsRight == FailureFreeOverlap /\ ExactWhenSerial

\* 21-initial-database-schema.md: each row stores the hash of the row before it
\* and its own; verifyAuditChain reports a row that does not as broken.
HashChain == ChainLinear

=============================================================================
