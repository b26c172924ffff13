-------------------------- MODULE DurableCommitProofs --------------------------
(***************************************************************************)
(* Proofs about DurableCommit, for any number of requests and any writers. *)
(*                                                                         *)
(* What the tables hold follows from what each transaction can see: a row  *)
(* hangs on a row of its own transaction or on a committed one (RowsPart). *)
(* What memory holds is weaker, and said twice: as long as no request has  *)
(* failed, for requests that overlap (OverlapPart), and for requests that  *)
(* run one at a time, with failures (SerialPart, Busy).                    *)
(***************************************************************************)
EXTENDS DurableCommit, FiniteSetTheorems, SequenceTheorems, WellFoundedInduction, TLAPS

-----------------------------------------------------------------------------
(* The inductive invariant.                                                *)

Entry == Tx \cup {Hole}

RowType == [about : Entry, seq : Nat, prev : Nat]

SnapType == [domain : SUBSET Tx, audit : Nat, outbox : Nat, counter : Nat]

TypePart ==
    /\ pc \in [Tx -> {"idle", "mutated", "begun", "tip", "committed", "aborted", "ok", "failed"}]
    /\ kind \in [Tx -> Kinds \cup {"none"}]
    /\ snap \in [Tx -> SnapType]
    /\ todo \in [Tx -> Seq(Entry)]
    /\ tip \in [Tx -> Nat]
    /\ own \in [Tx -> SUBSET RowType]
    /\ number \in [Tx -> Nat]
    /\ domain \subseteq Tx /\ edited \subseteq Tx
    /\ audit \in Seq(Entry) /\ outbox \in Seq(Entry)
    /\ counter \in Nat /\ identity \in Nat
    /\ rows \subseteq RowType /\ dbOutbox \subseteq Tx
    /\ overlapped \in BOOLEAN

\* p is the genesis hash or the number of one of the rows rs.
Hangs(p, rs) == p = 0 \/ \E s \in rs : s.seq = p

RowOK(r, rs) == r.prev < r.seq /\ Hangs(r.prev, rs) /\ r.seq <= identity

\* Each place from the first to the last is that of some row: Persisted finds them all.
Ranked(rs) ==
    /\ IsFiniteSet(rs)
    /\ \A i \in 1 .. Cardinality(rs) : \E r \in rs : Cardinality({s \in rs : s.seq <= r.seq}) = i

RowsPart ==
    /\ \A r \in rows : RowOK(r, rows)
    /\ \A t \in Tx : Ranked(own[t]) /\ \A r \in own[t] : RowOK(r, Visible(t))
    /\ \A t \in Tx : pc[t] = "tip" => tip[t] <= identity /\ Hangs(tip[t], Visible(t))

\* How far the transaction of a request has come.  One that is not a CRM commit
\* inserts the row about itself.
Progress(t) ==
    /\ pc[t] \in {"idle", "mutated"} => own[t] = {}
    /\ pc[t] = "tip" => todo[t] # <<>>
    /\ pc[t] \in {"committed", "ok"} => own[t] \subseteq rows /\ t \in dbOutbox
    /\ kind[t] \in {"platform", "spine"} =>
          /\ pc[t] \in {"begun", "tip"} => todo[t] = <<t>> \/ \E r \in own[t] : r.about = t
          /\ pc[t] \in {"committed", "ok"} => \E r \in own[t] : r.about = t

ProgressPart == \A t \in Tx : Progress(t)

\* Only records added are in the collections and in their snapshots.
DomainPart ==
    /\ \A t \in Tx : /\ pc[t] = "idle" => kind[t] = "none"
                     /\ t \in domain => kind[t] \in {"platform", "crm"}
                     /\ t \in edited => kind[t] = "crmEdit"
                     /\ t \notin snap[t].domain
    /\ \A t, u \in Tx : t \in snap[u].domain => kind[t] \in {"platform", "crm"}

FailureFree == \A t \in Tx : pc[t] \notin {"aborted", "failed"}

\* As long as nothing failed, the outbox of the process holds what was answered ok,
\* once, and the numbers of the aggregate only grow.
OverlapPart ==
    FailureFree =>
        /\ \A t \in Tx : pc[t] = "ok" <=> \E i \in DOMAIN outbox : outbox[i] = t
        /\ \A i, j \in DOMAIN outbox : outbox[i] = outbox[j] => i = j
        /\ \A t \in Tx : number[t] <= counter /\ (pc[t] = "idle" => number[t] = 0)
        /\ \A t, u \in Tx : t # u /\ number[t] = number[u] => number[t] = 0

\* p is the greatest number of the rows rs, or the genesis hash of none.
LastOf(p, rs) ==
    \/ rs = {} /\ p = 0
    \/ (\E s \in rs : s.seq = p) /\ (\A s \in rs : s.seq <= p)

Listed(s, t) == \E i \in DOMAIN s : s[i] = t

\* A request that runs alone: what it added to memory is on top of what its
\* snapshot counted, and its transaction inserts one row, about itself.
Busy(t) ==
    /\ snap[t].domain \subseteq domain
    /\ Len(outbox) = snap[t].outbox /\ ~Listed(outbox, t)
    /\ Len(audit) = IF kind[t] \in {"crm", "crmEdit"} THEN snap[t].audit + 1 ELSE snap[t].audit
    /\ \A i \in DOMAIN audit : (audit[i] = t) <=> (i > snap[t].audit)
    /\ pc[t] \in {"mutated", "begun", "tip"} => \A r \in rows : r.about # t
    /\ pc[t] \in {"begun", "tip"} /\ todo[t] # <<>> => todo[t] = <<t>> /\ own[t] = {}
    /\ (pc[t] = "begun" /\ todo[t] = <<>>) \/ pc[t] = "committed" =>
          \E r \in own[t] : own[t] = {r} /\ r.about = t
    /\ pc[t] = "tip" => LastOf(tip[t], rows)
    /\ pc[t] = "begun" => \A r \in own[t] : LastOf(r.prev, rows) /\ \A s \in rows : s.seq < r.seq

\* A request that has not begun, or is over.
Rest(t) ==
    /\ pc[t] = "idle" => ~Listed(audit, t) /\ ~Listed(outbox, t) /\ \A r \in rows : r.about # t
    /\ pc[t] = "failed" => t \notin domain /\ ~Listed(audit, t) /\ ~Listed(outbox, t)
    /\ pc[t] = "ok" => Listed(audit, t) /\ Listed(outbox, t)

\* The chain verifyChain accepts, with one row for each commit.
ChainPart ==
    /\ \A r \in rows : LastOf(r.prev, {s \in rows : s.seq < r.seq})
    /\ \A r, s \in rows : r.about = s.about => r = s

Serial ==
    /\ \A t, u \in Tx : Active(t) /\ Active(u) => t = u
    /\ \A t \in Tx : Rest(t) /\ (Active(t) => Busy(t))
    /\ ChainPart

SerialPart == ~overlapped => Serial

Inv == TypePart /\ RowsPart /\ ProgressPart /\ DomainPart /\ OverlapPart /\ SerialPart

-----------------------------------------------------------------------------
(* Helpers.                                                                *)

\* Rows whose numbers have a bound have a last one.
LEMMA LastRow ==
    ASSUME NEW rs \in SUBSET RowType, rs # {}, NEW b \in Nat, \A r \in rs : r.seq <= b
    PROVE  \E r \in rs : \A s \in rs : s.seq <= r.seq
<1> DEFINE Down == {b - r.seq : r \in rs}
<1>1. Down \subseteq Nat /\ Down # {}
  BY DEF RowType
<1>2. \E x \in Down : \A y \in Down : ~(<<y, x>> \in OpToRel(<, Nat))
  <2> HIDE DEF Down
  <2> QED BY <1>1, NatLessThanWellFounded, WFMin
<1>3. PICK x \in Down : \A y \in Down : ~(y < x)
  BY <1>1, <1>2 DEF OpToRel
<1>4. PICK r \in rs : x = b - r.seq
  OBVIOUS
<1>5. \A s \in rs : ~(b - s.seq < x)
  BY <1>3
<1>6. \A s \in rs : s.seq \in Nat
  BY DEF RowType
<1> QED BY <1>4, <1>5, <1>6

LEMMA RankedEmpty == Ranked({})
BY FS_EmptySet DEF Ranked

\* A row that comes after the others takes the last place.
LEMMA RankedMore ==
    ASSUME NEW rs \in SUBSET RowType, Ranked(rs), NEW r \in RowType, \A s \in rs : s.seq < r.seq
    PROVE  Ranked(rs \cup {r})
<1> DEFINE all == rs \cup {r}
<1>1. r \notin rs /\ r.seq \in Nat /\ \A s \in rs : s.seq \in Nat
  BY DEF RowType
<1>2. IsFiniteSet(rs) /\ Cardinality(rs) \in Nat
  BY FS_CardinalityType DEF Ranked
<1>3. IsFiniteSet(all) /\ Cardinality(all) = Cardinality(rs) + 1
  BY <1>1, <1>2, FS_AddElement
<1>4. {s \in all : s.seq <= r.seq} = all
  BY <1>1
<1>5. \A x \in rs : {s \in all : s.seq <= x.seq} = {s \in rs : s.seq <= x.seq}
  BY <1>1
<1>6. ASSUME NEW i \in 1 .. Cardinality(all)
      PROVE  \E x \in all : Cardinality({s \in all : s.seq <= x.seq}) = i
  <2>1. CASE i = Cardinality(all)
    BY <1>4, <2>1
  <2>2. CASE i # Cardinality(all)
    <3>1. i \in 1 .. Cardinality(rs)
      BY <1>2, <1>3, <2>2
    <3>2. PICK x \in rs : Cardinality({s \in rs : s.seq <= x.seq}) = i
      BY <3>1 DEF Ranked
    <3> QED BY <1>5, <3>2
  <2> QED BY <2>1, <2>2
<1> QED BY <1>3, <1>6 DEF Ranked

\* `array.length = n`, for an n the array has.
LEMMA LengthSet ==
    ASSUME NEW s \in Seq(Entry), NEW n \in Nat
    PROVE  /\ SetLength(s, n) \in Seq(Entry) /\ Len(SetLength(s, n)) = n
           /\ DOMAIN SetLength(s, n) = 1 .. n /\ DOMAIN s = 1 .. Len(s) /\ Len(s) \in Nat
           /\ \A i \in 1 .. n : SetLength(s, n)[i] = IF i <= Len(s) THEN s[i] ELSE Hole
<1>1. DOMAIN s = 1 .. Len(s) /\ Len(s) \in Nat /\ \A i \in 1 .. Len(s) : s[i] \in Entry
  BY LenProperties, ElementOfSeq
<1>2. PICK x : x = SetLength(s, n)
  OBVIOUS
<1>3. x = [i \in 1 .. n |-> IF i <= Len(s) THEN s[i] ELSE Hole]
  BY <1>2 DEF SetLength
<1>4. \A i \in 1 .. n : (IF i <= Len(s) THEN s[i] ELSE Hole) \in Entry
  BY <1>1 DEF Entry
<1>5. x \in [1 .. n -> Entry]
  BY <1>3, <1>4
<1>6. x \in Seq(Entry) /\ Len(x) = n
  BY <1>5
<1> QED BY <1>1, <1>2, <1>3, <1>6

LEMMA CutAt ==
    ASSUME NEW s \in Seq(Entry), NEW n \in Nat, n <= Len(s)
    PROVE  /\ SetLength(s, n) \in Seq(Entry) /\ Len(SetLength(s, n)) = n /\ DOMAIN SetLength(s, n) = 1 .. n
           /\ \A i \in 1 .. n : SetLength(s, n)[i] = s[i]
<1>1. PICK x : x = SetLength(s, n)
  OBVIOUS
<1>2. /\ x \in Seq(Entry) /\ Len(x) = n /\ DOMAIN x = 1 .. n /\ Len(s) \in Nat
      /\ \A i \in 1 .. n : x[i] = IF i <= Len(s) THEN s[i] ELSE Hole
  BY <1>1, LengthSet
<1>3. \A i \in 1 .. n : x[i] = s[i]
  BY <1>2
<1> QED BY <1>1, <1>2, <1>3

\* What a committed request puts in the audit trail are entries, one for each row.
LEMMA PersistedType ==
    ASSUME NEW t \in Tx, own[t] \in SUBSET RowType, Ranked(own[t])
    PROVE  Persisted(t) \in Seq(Entry)
<1> DEFINE n == Cardinality(own[t])
<1> DEFINE nth(i) == CHOOSE r \in own[t] : Cardinality({s \in own[t] : s.seq <= r.seq}) = i
<1>1. n \in Nat
  BY FS_CardinalityType DEF Ranked
<1>2. ASSUME NEW i \in 1 .. n PROVE nth(i).about \in Entry
  <2>1. \E r \in own[t] : Cardinality({s \in own[t] : s.seq <= r.seq}) = i
    BY DEF Ranked
  <2>2. nth(i) \in own[t]
    BY <2>1
  <2> QED BY <2>2 DEF RowType
<1>3. PICK x : x = [i \in 1 .. n |-> nth(i).about]
  OBVIOUS
<1>4. x \in [1 .. n -> Entry]
  BY <1>2, <1>3
<1>5. x \in Seq(Entry)
  <2> HIDE DEF n, nth
  <2> QED BY <1>1, <1>4
<1>6. Persisted(t) = x
  BY <1>3 DEF Persisted
<1> QED BY <1>5, <1>6

\* The audit entry of a request that inserted one row.
LEMMA PersistedOne ==
    ASSUME NEW t \in Tx, NEW r, r.seq \in Nat, own[t] = {r}
    PROVE  Persisted(t) = <<r.about>>
<1> DEFINE nth(i) == CHOOSE x \in own[t] : Cardinality({s \in own[t] : s.seq <= x.seq}) = i
<1>1. Cardinality(own[t]) = 1
  BY FS_Singleton
<1>2. Persisted(t) = [i \in 1 .. 1 |-> nth(i).about]
  BY <1>1 DEF Persisted
<1>3. \E x \in own[t] : Cardinality({s \in own[t] : s.seq <= x.seq}) = 1
  <2>1. {s \in own[t] : s.seq <= r.seq} = own[t]
    OBVIOUS
  <2> QED BY <1>1, <2>1
<1>4. nth(1) \in own[t]
  BY <1>3
<1>5. nth(1) = r
  BY <1>4
<1>6. \A i \in 1 .. 1 : nth(i).about = r.about
  <2> SUFFICES ASSUME NEW i, i = 1 PROVE nth(i).about = r.about
    OBVIOUS
  <2> HIDE DEF nth
  <2> QED BY <1>5
<1>7. [i \in 1 .. 1 |-> nth(i).about] = [i \in 1 .. 1 |-> r.about]
  BY <1>6
<1> QED BY <1>2, <1>7

-----------------------------------------------------------------------------
(* The types.                                                              *)

LEMMA Writers == "none" \notin Kinds
BY CommitAssumption

LEMMA StartTypes ==
    ASSUME TypePart, NEW t \in Tx, NEW k \in Kinds, Start(t, k)
    PROVE  TypePart'
<1>1. PICK new : new = [domain |-> domain, audit |-> Len(audit), outbox |-> Len(outbox), counter |-> counter']
  OBVIOUS
<1>2. counter' \in Nat /\ number' \in [Tx -> Nat] /\ Len(audit) \in Nat /\ Len(outbox) \in Nat
  BY DEF Start, TypePart
<1>3. new \in SnapType
  BY <1>1, <1>2 DEF SnapType, TypePart
<1>4. snap' \in [Tx -> SnapType]
  BY <1>1, <1>3 DEF Start, TypePart
<1>5. audit' \in Seq(Entry)
  BY AppendProperties DEF Start, TypePart, Entry
<1>6. pc' \in [Tx -> {"idle", "mutated", "begun", "tip", "committed", "aborted", "ok", "failed"}]
      /\ kind' \in [Tx -> Kinds \cup {"none"}] /\ domain' \subseteq Tx /\ edited' \subseteq Tx
      /\ overlapped' \in BOOLEAN
  BY DEF Start, TypePart
<1>7. UNCHANGED <<todo, tip, own, outbox, rows, identity, dbOutbox>>
  BY DEF Start
<1> QED BY <1>2, <1>4, <1>5, <1>6, <1>7 DEF TypePart

LEMMA BeginTypes ==
    ASSUME TypePart, NEW t \in Tx, Begin(t)
    PROVE  TypePart'
<1>1. PICK m : m = snap[t].audit + 1
  OBVIOUS
<1>2. m \in Nat /\ m >= 1 /\ Len(audit) \in Nat /\ \A i \in 1 .. Len(audit) : audit[i] \in Entry
  BY <1>1, LenProperties, ElementOfSeq DEF TypePart, SnapType
<1>3. SubSeq(audit, m, Len(audit)) \in Seq(Entry)
  BY <1>2, SubSeqProperties
<1>4. <<t>> \in Seq(Entry)
  BY DEF Entry
<1>5. PICK new : new = IF kind[t] \in {"crm", "crmEdit"} THEN SubSeq(audit, m, Len(audit)) ELSE <<t>>
  OBVIOUS
<1>6. new \in Seq(Entry) /\ todo' = [todo EXCEPT ![t] = new]
  BY <1>1, <1>3, <1>4, <1>5 DEF Begin
<1>7. todo' \in [Tx -> Seq(Entry)]
  BY <1>6 DEF TypePart
<1> QED BY <1>7 DEF Begin, TypePart, memory, database

\* What loadLastAuditHash reads: the number of the last row it can see.
LEMMA LastSeqIs ==
    ASSUME TypePart, RowsPart, NEW t \in Tx
    PROVE  LastSeq(t) \in Nat /\ LastSeq(t) <= identity /\ LastOf(LastSeq(t), Visible(t))
<1>1. Visible(t) \in SUBSET RowType /\ \A r \in Visible(t) : r.seq <= identity /\ r.seq \in Nat
  <2>1. \A r \in Visible(t) : r \in RowType
    BY DEF Visible, TypePart
  <2>2. \A r \in Visible(t) : r.seq <= identity
    BY DEF Visible, RowsPart, RowOK
  <2> QED BY <2>1, <2>2 DEF RowType
<1>2. CASE Visible(t) = {}
  BY <1>2 DEF LastSeq, LastOf, TypePart
<1>3. CASE Visible(t) # {}
  <2>1. \E r \in Visible(t) : \A s \in Visible(t) : s.seq <= r.seq
    BY <1>1, <1>3, LastRow DEF TypePart
  <2>2. PICK r : r = CHOOSE x \in Visible(t) : \A s \in Visible(t) : s.seq <= x.seq
    OBVIOUS
  <2>3. r \in Visible(t) /\ \A s \in Visible(t) : s.seq <= r.seq
    BY <2>1, <2>2
  <2>4. LastSeq(t) = r.seq
    BY <1>3, <2>2 DEF LastSeq
  <2> QED BY <1>1, <2>3, <2>4 DEF LastOf
<1> QED BY <1>2, <1>3

LEMMA ReadTipTypes ==
    ASSUME TypePart, RowsPart, NEW t \in Tx, ReadTip(t)
    PROVE  TypePart'
BY LastSeqIs DEF ReadTip, TypePart, memory, database

\* The row that InsertAudit(t) inserts.
NewRow(t) == Row(Head(todo[t]), identity + 1, tip[t])

LEMMA RowFields ==
    ASSUME TypePart, NEW t \in Tx, todo[t] # <<>>
    PROVE  /\ NewRow(t) \in RowType /\ NewRow(t).seq = identity + 1 /\ NewRow(t).prev = tip[t]
           /\ NewRow(t).about = Head(todo[t])
           /\ Tail(todo[t]) \in Seq(Entry)
<1>1. Head(todo[t]) \in Entry /\ Tail(todo[t]) \in Seq(Entry)
  BY HeadTailProperties DEF TypePart
<1> QED BY <1>1 DEF NewRow, Row, RowType, TypePart

LEMMA Inserted ==
    ASSUME TypePart, NEW t \in Tx, InsertAudit(t)
    PROVE  /\ own'[t] = own[t] \cup {NewRow(t)} /\ todo'[t] = Tail(todo[t])
           /\ pc'[t] = "begun" /\ identity' = identity + 1 /\ rows' = rows
           /\ \A u \in Tx : u # t => own'[u] = own[u] /\ todo'[u] = todo[u] /\ pc'[u] = pc[u]
BY DEF InsertAudit, TypePart, NewRow

LEMMA InsertAuditTypes ==
    ASSUME TypePart, ProgressPart, NEW t \in Tx, InsertAudit(t)
    PROVE  TypePart'
<1>1. todo[t] # <<>>
  BY DEF ProgressPart, Progress, InsertAudit
<1>2. own' \in [Tx -> SUBSET RowType]
  BY <1>1, RowFields DEF InsertAudit, TypePart, NewRow
<1>3. todo' \in [Tx -> Seq(Entry)]
  BY <1>1, RowFields DEF InsertAudit, TypePart
<1>4. identity' \in Nat
  BY DEF InsertAudit, TypePart
<1> QED BY <1>2, <1>3, <1>4 DEF InsertAudit, TypePart, memory

LEMMA EndTypes ==
    ASSUME TypePart, NEW t \in Tx, Commit(t) \/ Abort(t) \/ LoseCommitAnswer(t)
    PROVE  TypePart'
<1>1. pc' \in [Tx -> {"idle", "mutated", "begun", "tip", "committed", "aborted", "ok", "failed"}]
      /\ rows' \subseteq RowType /\ dbOutbox' \subseteq Tx
  BY DEF Commit, Abort, LoseCommitAnswer, TypePart, database
<1>2. UNCHANGED <<kind, snap, todo, tip, own, number, memory, identity, overlapped>>
  BY DEF Commit, Abort, LoseCommitAnswer, database
<1> QED BY <1>1, <1>2 DEF TypePart, memory

LEMMA SucceedTypes ==
    ASSUME TypePart, RowsPart, NEW t \in Tx, Succeed(t)
    PROVE  TypePart'
<1>1. outbox' \in Seq(Entry)
  BY AppendProperties DEF Succeed, TypePart, Entry
<1>2. Persisted(t) \in Seq(Entry) /\ SetLength(audit, snap[t].audit) \in Seq(Entry)
  BY PersistedType, LengthSet DEF TypePart, RowsPart, SnapType
<1>3. audit' \in Seq(Entry)
  BY <1>2, AppendProperties, ConcatProperties DEF Succeed, TypePart, Entry
<1> QED BY <1>1, <1>3 DEF Succeed, TypePart, database

LEMMA FailTypes ==
    ASSUME TypePart, NEW t \in Tx, Fail(t)
    PROVE  TypePart'
<1>1. snap[t] \in SnapType
  BY DEF TypePart
<1>2. SetLength(audit, snap[t].audit) \in Seq(Entry) /\ SetLength(outbox, snap[t].outbox) \in Seq(Entry)
  BY <1>1, LengthSet DEF TypePart, SnapType
<1>3. audit' \in Seq(Entry) /\ outbox' \in Seq(Entry) /\ domain' \subseteq Tx /\ counter' \in Nat
  BY <1>1, <1>2 DEF Fail, TypePart, SnapType
<1> QED BY <1>3 DEF Fail, TypePart, database

-----------------------------------------------------------------------------
(* The rows.                                                               *)

LEMMA RowsStay ==
    ASSUME RowsPart, rows' = rows, own' = own, identity' = identity, tip' = tip,
           \A u \in Tx : pc'[u] = "tip" => pc[u] = "tip"
    PROVE  RowsPart'
BY DEF RowsPart, RowOK, Visible

LEMMA TipRows ==
    ASSUME TypePart, RowsPart, NEW t \in Tx, ReadTip(t)
    PROVE  RowsPart'
<1>1. /\ rows' = rows /\ own' = own /\ identity' = identity
      /\ tip'[t] = LastSeq(t) /\ \A u \in Tx : u # t => tip'[u] = tip[u] /\ pc'[u] = pc[u]
  BY DEF ReadTip, TypePart, database
<1>2. \A u \in Tx : Visible(u)' = Visible(u)
  BY <1>1 DEF Visible
<1>3. LastSeq(t) <= identity /\ Hangs(LastSeq(t), Visible(t))
  BY LastSeqIs DEF LastOf, Hangs
<1> QED BY <1>1, <1>2, <1>3 DEF RowsPart, RowOK

\* The inserted row comes after every row there is, and hangs on the one that was
\* read or on none.
LEMMA InsertedRows ==
    ASSUME TypePart, RowsPart, ProgressPart, NEW t \in Tx, InsertAudit(t)
    PROVE  RowsPart'
<1>1. todo[t] # <<>> /\ tip' = tip
  BY DEF ProgressPart, Progress, InsertAudit
<1>2. PICK n : n = NewRow(t)
  OBVIOUS
<1>3. n \in RowType /\ n.seq = identity + 1 /\ n.prev = tip[t]
  BY <1>1, <1>2, RowFields
<1>4. /\ own'[t] = own[t] \cup {n} /\ identity' = identity + 1 /\ rows' = rows /\ identity \in Nat
      /\ \A u \in Tx : u # t => own'[u] = own[u] /\ pc'[u] = pc[u]
      /\ pc'[t] = "begun"
  BY <1>2, Inserted DEF TypePart
<1>5. \A u \in Tx : \A r \in Visible(u) : r \in RowType /\ r.seq \in Nat /\ r.seq <= identity
  <2>1. \A u \in Tx : \A r \in Visible(u) : r \in RowType
    BY DEF Visible, TypePart
  <2> QED BY <2>1 DEF RowType, Visible, RowsPart, RowOK
<1>6. \A r \in rows : RowOK(r, rows)'
  <2> SUFFICES ASSUME NEW r \in rows PROVE RowOK(r, rows)'
    OBVIOUS
  <2>1. RowOK(r, rows) /\ r.seq \in Nat
    BY <1>5 DEF RowsPart, Visible
  <2> QED BY <1>4, <2>1 DEF RowOK
<1>7. Ranked(own[t] \cup {n})
  <2>1. own[t] \in SUBSET RowType /\ Ranked(own[t])
    BY DEF TypePart, RowsPart
  <2>2. \A s \in own[t] : s.seq < n.seq
    BY <1>3, <1>4, <1>5 DEF Visible
  <2> QED BY <1>3, <2>1, <2>2, RankedMore
<1>8. ASSUME NEW u \in Tx PROVE Ranked(own'[u]) /\ \A r \in own'[u] : RowOK(r, Visible(u))'
  <2>1. Visible(u)' = rows \cup own'[u]
    BY <1>4 DEF Visible
  <2>2. ASSUME NEW r \in own[u] PROVE RowOK(r, Visible(u))'
    <3>1. RowOK(r, Visible(u)) /\ r.seq \in Nat /\ own[u] \subseteq own'[u]
      BY <1>4, <1>5 DEF RowsPart, Visible
    <3>2. Hangs(r.prev, Visible(u)')
      BY <2>1, <3>1 DEF RowOK, Hangs, Visible
    <3> QED BY <1>4, <3>1, <3>2 DEF RowOK
  <2>3. CASE u = t
    <3>1. tip[t] <= identity /\ Hangs(tip[t], Visible(t)) /\ tip[t] \in Nat
      BY DEF RowsPart, InsertAudit, TypePart
    <3>2. Hangs(n.prev, Visible(t)')
      BY <1>3, <1>4, <2>1, <2>3, <3>1 DEF Hangs, Visible
    <3>3. RowOK(n, Visible(t))'
      BY <1>3, <1>4, <3>1, <3>2 DEF RowOK
    <3> QED BY <1>4, <1>7, <2>2, <2>3, <3>3
  <2>4. CASE u # t
    BY <1>4, <2>2, <2>4 DEF RowsPart
  <2> QED BY <2>3, <2>4
<1>9. ASSUME NEW u \in Tx, pc'[u] = "tip" PROVE tip'[u] <= identity' /\ Hangs(tip'[u], Visible(u)')
  <2>1. u # t /\ pc[u] = "tip" /\ tip[u] \in Nat
    BY <1>4, <1>9 DEF TypePart
  <2>2. Visible(u)' = Visible(u)
    BY <1>4, <2>1 DEF Visible
  <2> QED BY <1>1, <1>4, <2>1, <2>2 DEF RowsPart
<1> QED BY <1>4, <1>6, <1>8, <1>9 DEF RowsPart

\* COMMIT makes the rows of one transaction visible to the others.
LEMMA CommittedRows ==
    ASSUME RowsPart, NEW t \in Tx, Commit(t), pc' = [pc EXCEPT ![t] = "committed"], TypePart
    PROVE  RowsPart'
<1>1. /\ rows' = rows \cup own[t] /\ own' = own /\ identity' = identity /\ tip' = tip
      /\ rows' = Visible(t)
  BY DEF Commit, Visible
<1>2. \A u \in Tx : Visible(u) \subseteq Visible(u)'
  BY <1>1 DEF Visible
<1>3. ASSUME NEW r, NEW u \in Tx, RowOK(r, Visible(u)) PROVE RowOK(r, Visible(u))'
  BY <1>1, <1>2, <1>3 DEF RowOK, Hangs
<1>4. ASSUME NEW r \in rows' PROVE RowOK(r, rows)'
  <2>1. RowOK(r, Visible(t))
    BY <1>1, <1>4 DEF RowsPart, RowOK, Hangs, Visible
  <2> QED BY <1>1, <2>1 DEF RowOK
<1>5. \A u \in Tx : pc'[u] = "tip" => pc[u] = "tip"
  BY DEF TypePart
<1>6. \A u \in Tx : pc'[u] = "tip" => tip'[u] <= identity' /\ Hangs(tip'[u], Visible(u)')
  BY <1>1, <1>2, <1>5 DEF RowsPart, Hangs
<1> QED BY <1>1, <1>3, <1>4, <1>6 DEF RowsPart

-----------------------------------------------------------------------------
(* How far the requests have come.                                         *)

\* A step of t: the other requests are where they were, and no row is lost.
StepOf(t) ==
    /\ \A u \in Tx : u # t => /\ pc'[u] = pc[u] /\ kind'[u] = kind[u] /\ own'[u] = own[u]
                              /\ todo'[u] = todo[u] /\ snap'[u] = snap[u] /\ number'[u] = number[u]
                              /\ tip'[u] = tip[u]
    /\ rows \subseteq rows' /\ dbOutbox \subseteq dbOutbox'

LEMMA StepsOfOne ==
    ASSUME TypePart, NEW t \in Tx,
           \/ \E k \in Kinds : Start(t, k)
           \/ Begin(t) \/ ReadTip(t) \/ InsertAudit(t) \/ Commit(t) \/ Abort(t)
           \/ LoseCommitAnswer(t) \/ Succeed(t) \/ Fail(t)
    PROVE  StepOf(t)
<1>1. CASE \E k \in Kinds : Start(t, k)
  BY <1>1 DEF Start, TypePart, StepOf
<1>2. CASE Begin(t)
  BY <1>2 DEF Begin, TypePart, StepOf, database
<1>3. CASE ReadTip(t)
  BY <1>3 DEF ReadTip, TypePart, StepOf, database
<1>4. CASE InsertAudit(t)
  BY <1>4 DEF InsertAudit, TypePart, StepOf
<1>5. CASE Commit(t)
  BY <1>5 DEF Commit, TypePart, StepOf
<1>6. CASE Abort(t) \/ LoseCommitAnswer(t)
  BY <1>6 DEF Abort, LoseCommitAnswer, TypePart, StepOf, database
<1>7. CASE Succeed(t)
  BY <1>7 DEF Succeed, TypePart, StepOf, database
<1>8. CASE Fail(t)
  BY <1>8 DEF Fail, TypePart, StepOf, database
<1> QED BY <1>1, <1>2, <1>3, <1>4, <1>5, <1>6, <1>7, <1>8

LEMMA ProgressOfOne ==
    ASSUME ProgressPart, NEW t \in Tx, StepOf(t), Progress(t)'
    PROVE  ProgressPart'
<1>1. ASSUME NEW u \in Tx, u # t PROVE Progress(u)'
  <2>1. Progress(u)
    BY DEF ProgressPart
  <2>2. /\ pc'[u] = pc[u] /\ kind'[u] = kind[u] /\ own'[u] = own[u] /\ todo'[u] = todo[u]
        /\ rows \subseteq rows' /\ dbOutbox \subseteq dbOutbox'
    BY <1>1 DEF StepOf
  <2> QED BY <2>1, <2>2 DEF Progress
<1> QED BY <1>1 DEF ProgressPart

LEMMA StartProgress ==
    ASSUME TypePart, ProgressPart, NEW t \in Tx, NEW k \in Kinds, Start(t, k)
    PROVE  Progress(t)'
<1>1. pc'[t] = "mutated" /\ own' = own /\ pc[t] = "idle"
  BY DEF Start, TypePart
<1> QED BY <1>1 DEF ProgressPart, Progress

LEMMA BeginProgress ==
    ASSUME TypePart, ProgressPart, NEW t \in Tx, Begin(t)
    PROVE  Progress(t)'
<1>1. pc'[t] = "begun" /\ own' = own /\ kind' = kind
  BY DEF Begin, TypePart
<1>2. kind[t] \in {"platform", "spine"} => todo'[t] = <<t>>
  BY DEF Begin, TypePart
<1> QED BY <1>1, <1>2 DEF Progress

LEMMA ReadTipProgress ==
    ASSUME TypePart, ProgressPart, NEW t \in Tx, ReadTip(t)
    PROVE  Progress(t)'
<1>1. /\ pc'[t] = "tip" /\ pc[t] = "begun" /\ own' = own /\ kind' = kind /\ todo' = todo
      /\ todo[t] # <<>>
  BY DEF ReadTip, TypePart
<1>2. Progress(t)
  BY DEF ProgressPart
<1> QED BY <1>1, <1>2 DEF Progress

\* The one entry of a request that is not a CRM commit is about itself.
LEMMA InsertProgress ==
    ASSUME TypePart, ProgressPart, NEW t \in Tx, InsertAudit(t)
    PROVE  Progress(t)'
<1>1. Progress(t) /\ pc[t] = "tip" /\ kind' = kind
  BY DEF ProgressPart, InsertAudit
<1>2. pc'[t] = "begun" /\ own'[t] = own[t] \cup {NewRow(t)} /\ todo'[t] = Tail(todo[t])
  BY Inserted
<1>3. NewRow(t).about = Head(todo[t])
  BY <1>1, RowFields DEF Progress
<1>4. todo[t] = <<t>> => NewRow(t).about = t
  BY <1>3
<1> QED BY <1>1, <1>2, <1>4 DEF Progress

LEMMA CommitProgress ==
    ASSUME TypePart, ProgressPart, NEW t \in Tx, Commit(t)
    PROVE  Progress(t)'
<1>1. /\ pc'[t] = "committed" /\ pc[t] = "begun" /\ todo[t] = <<>> /\ own' = own /\ kind' = kind
      /\ own'[t] \subseteq rows' /\ t \in dbOutbox'
  BY DEF Commit, TypePart
<1>2. Progress(t) /\ <<t>> # <<>>
  BY DEF ProgressPart
<1>3. kind[t] \in {"platform", "spine"} => \E r \in own[t] : r.about = t
  BY <1>1, <1>2 DEF Progress
<1> QED BY <1>1, <1>3 DEF Progress

LEMMA EndProgress ==
    ASSUME TypePart, ProgressPart, NEW t \in Tx,
           Abort(t) \/ LoseCommitAnswer(t) \/ Succeed(t) \/ Fail(t)
    PROVE  Progress(t)'
<1>1. /\ pc'[t] \in {"aborted", "failed"} \/ (pc'[t] = "ok" /\ pc[t] = "committed")
      /\ own' = own /\ kind' = kind /\ todo' = todo /\ rows' = rows /\ dbOutbox' = dbOutbox
  BY DEF Abort, LoseCommitAnswer, Succeed, Fail, TypePart, database
<1>2. Progress(t)
  BY DEF ProgressPart
<1> QED BY <1>1, <1>2 DEF Progress

-----------------------------------------------------------------------------
(* The collections.                                                        *)

LEMMA StartDomain ==
    ASSUME TypePart, DomainPart, NEW t \in Tx, NEW k \in Kinds, Start(t, k)
    PROVE  DomainPart'
<1>1. pc[t] = "idle" /\ kind[t] = "none" /\ k # "none"
  BY Writers DEF Start, DomainPart
<1>2. /\ kind'[t] = k /\ pc'[t] = "mutated" /\ snap'[t].domain = domain
      /\ \A u \in Tx : u # t => kind'[u] = kind[u] /\ pc'[u] = pc[u] /\ snap'[u] = snap[u]
  BY DEF Start, TypePart
<1>3. /\ domain' = IF k \in {"platform", "crm"} THEN domain \cup {t} ELSE domain
      /\ edited' = IF k = "crmEdit" THEN edited \cup {t} ELSE edited
  BY DEF Start
<1>4. t \notin domain /\ t \notin edited /\ \A u \in Tx : t \notin snap[u].domain
  BY <1>1 DEF DomainPart
<1>5. ASSUME NEW u \in Tx
      PROVE  /\ pc'[u] = "idle" => kind'[u] = "none"
             /\ u \in domain' => kind'[u] \in {"platform", "crm"}
             /\ u \in edited' => kind'[u] = "crmEdit"
             /\ u \notin snap'[u].domain
  BY <1>2, <1>3, <1>4 DEF DomainPart
<1>6. ASSUME NEW u \in Tx, NEW v \in Tx, u \in snap'[v].domain
      PROVE  kind'[u] \in {"platform", "crm"}
  <2>1. u # t
    BY <1>2, <1>4, <1>6
  <2> QED BY <1>2, <1>6, <2>1 DEF DomainPart
<1> QED BY <1>5, <1>6 DEF DomainPart

LEMMA FailDomain ==
    ASSUME TypePart, DomainPart, NEW t \in Tx, Fail(t)
    PROVE  DomainPart'
<1>1. /\ kind' = kind /\ snap' = snap /\ edited' = edited /\ domain' \in {domain, snap[t].domain}
      /\ \A u \in Tx : pc'[u] = "idle" => pc[u] = "idle"
  BY DEF Fail, TypePart
<1>2. \A u \in Tx : u \in domain' => kind[u] \in {"platform", "crm"}
  BY <1>1 DEF DomainPart
<1> QED BY <1>1, <1>2 DEF DomainPart

LEMMA DomainStays ==
    ASSUME DomainPart, kind' = kind, snap' = snap, domain' = domain, edited' = edited,
           \A u \in Tx : pc'[u] = "idle" => pc[u] = "idle"
    PROVE  DomainPart'
BY DEF DomainPart

-----------------------------------------------------------------------------
(* Requests that overlap, as long as none fails.                           *)

LEMMA FailureStays ==
    ASSUME TypePart, NEW t \in Tx, StepOf(t), pc[t] \notin {"aborted", "failed"}, FailureFree'
    PROVE  FailureFree
BY DEF FailureFree, StepOf

LEMMA OverlapStays ==
    ASSUME OverlapPart, FailureFree' => FailureFree,
           outbox' = outbox, counter' = counter, number' = number,
           \A u \in Tx : /\ pc'[u] = "ok" <=> pc[u] = "ok"
                         /\ pc'[u] = "idle" => pc[u] = "idle"
    PROVE  OverlapPart'
BY DEF OverlapPart

\* The next number of the aggregate is greater than all before it.
LEMMA StartOverlap ==
    ASSUME TypePart, OverlapPart, NEW t \in Tx, NEW k \in Kinds, Start(t, k)
    PROVE  OverlapPart'
<1> SUFFICES ASSUME FailureFree' PROVE OverlapPart'
  BY DEF OverlapPart
<1>1. pc[t] = "idle" /\ pc'[t] = "mutated" /\ StepOf(t) /\ outbox' = outbox
  BY StepsOfOne DEF Start, TypePart
<1>2. FailureFree
  BY <1>1, FailureStays
<1>3. /\ counter \in Nat /\ \A u \in Tx : number[u] \in Nat /\ number[u] <= counter
      /\ \A u \in Tx : pc[u] = "idle" => number[u] = 0
      /\ \A u, v \in Tx : u # v /\ number[u] = number[v] => number[u] = 0
  BY <1>2 DEF OverlapPart, TypePart
<1>4. /\ \A u \in Tx : u # t => number'[u] = number[u]
      /\ \/ k = "spine" /\ number'[t] = 0 /\ counter' = counter
         \/ number'[t] = counter + 1 /\ counter' = counter + 1
  BY DEF Start, TypePart
<1>5. \A u \in Tx : number'[u] <= counter' /\ (pc'[u] = "idle" => number'[u] = 0)
  BY <1>1, <1>3, <1>4 DEF StepOf
<1>6. \A u, v \in Tx : u # v /\ number'[u] = number'[v] => number'[u] = 0
  BY <1>3, <1>4
<1>7. \A u \in Tx : pc'[u] = "ok" <=> pc[u] = "ok"
  BY <1>1 DEF StepOf
<1> QED BY <1>1, <1>2, <1>5, <1>6, <1>7 DEF OverlapPart

LEMMA SucceedOverlap ==
    ASSUME TypePart, OverlapPart, NEW t \in Tx, Succeed(t)
    PROVE  OverlapPart'
<1> SUFFICES ASSUME FailureFree' PROVE OverlapPart'
  BY DEF OverlapPart
<1>1. /\ pc[t] = "committed" /\ pc'[t] = "ok" /\ StepOf(t) /\ outbox' = Append(outbox, t)
      /\ counter' = counter /\ number' = number
  BY StepsOfOne DEF Succeed, TypePart
<1>2. FailureFree
  BY <1>1, FailureStays
<1>3. /\ \A u \in Tx : pc[u] = "ok" <=> \E i \in DOMAIN outbox : outbox[i] = u
      /\ \A i, j \in DOMAIN outbox : outbox[i] = outbox[j] => i = j
  BY <1>2 DEF OverlapPart
<1>4. /\ Len(outbox) \in Nat /\ DOMAIN outbox = 1 .. Len(outbox)
      /\ DOMAIN outbox' = 1 .. (Len(outbox) + 1) /\ outbox'[Len(outbox) + 1] = t
      /\ \A i \in 1 .. Len(outbox) : outbox'[i] = outbox[i]
  <2>1. t \in Entry /\ outbox \in Seq(Entry)
    BY DEF Entry, TypePart
  <2> QED BY <1>1, <2>1
<1>5. \A i \in DOMAIN outbox : outbox[i] # t
  BY <1>1, <1>3
<1>6. ASSUME NEW u \in Tx PROVE pc'[u] = "ok" <=> \E i \in DOMAIN outbox' : outbox'[i] = u
  <2>1. CASE u = t
    BY <1>1, <1>4, <2>1
  <2>2. CASE u # t
    <3>1. pc'[u] = pc[u]
      BY <1>1, <2>2 DEF StepOf
    <3>2. (\E i \in DOMAIN outbox' : outbox'[i] = u) <=> \E i \in DOMAIN outbox : outbox[i] = u
      BY <1>4, <2>2
    <3> QED BY <1>3, <3>1, <3>2
  <2> QED BY <2>1, <2>2
<1>7. ASSUME NEW i \in DOMAIN outbox', NEW j \in DOMAIN outbox', outbox'[i] = outbox'[j] PROVE i = j
  <2>1. CASE i \in DOMAIN outbox /\ j \in DOMAIN outbox
    BY <1>3, <1>4, <1>7, <2>1
  <2>2. CASE i = Len(outbox) + 1 \/ j = Len(outbox) + 1
    BY <1>4, <1>5, <1>7, <2>2
  <2> QED BY <1>4, <2>1, <2>2
<1>8. \A u \in Tx : pc'[u] = "idle" => pc[u] = "idle"
  BY <1>1 DEF StepOf
<1> QED BY <1>1, <1>2, <1>6, <1>7, <1>8 DEF OverlapPart

-----------------------------------------------------------------------------
(* Requests that run one at a time.                                        *)

\* A step of the one request under way: the others have not begun or are over, and
\* stay so as far as memory still lists them or not.
LEMMA OthersRest ==
    ASSUME TypePart, Serial, NEW t \in Tx, Active(t), StepOf(t), domain' \subseteq domain,
           \A u \in Tx : u # t => /\ Listed(audit', u) <=> Listed(audit, u)
                                  /\ Listed(outbox', u) <=> Listed(outbox, u),
           \A r \in rows' : r \in rows \/ r.about = t
    PROVE  \A u \in Tx : u # t => ~Active(u) /\ ~Active(u)' /\ Rest(u)'
<1> SUFFICES ASSUME NEW u \in Tx, u # t PROVE ~Active(u) /\ ~Active(u)' /\ Rest(u)'
  OBVIOUS
<1>1. ~Active(u) /\ Rest(u) /\ pc'[u] = pc[u]
  BY DEF Serial, StepOf
<1>2. ~Active(u)'
  BY <1>1 DEF Active
<1>3. Rest(u)'
  BY <1>1 DEF Rest
<1> QED BY <1>1, <1>2, <1>3

\* A step that memory and the tables do not show.
LEMMA SerialInside ==
    ASSUME TypePart, Serial, NEW t \in Tx, Active(t), Active(t)', StepOf(t), Busy(t)',
           domain' = domain, audit' = audit, outbox' = outbox, rows' = rows
    PROVE  Serial'
<1>1. \A u \in Tx : u # t => ~Active(u) /\ ~Active(u)' /\ Rest(u)'
  BY OthersRest
<1>2. Rest(t)'
  BY DEF Rest, Active
<1>3. ChainPart'
  BY DEF Serial, ChainPart
<1> QED BY <1>1, <1>2, <1>3 DEF Serial

LEMMA BeginSerial ==
    ASSUME TypePart, ProgressPart, Serial, NEW t \in Tx, Begin(t)
    PROVE  Serial'
<1>1. /\ pc[t] = "mutated" /\ pc'[t] = "begun" /\ own'[t] = own[t] /\ own[t] = {} /\ kind' = kind
      /\ snap' = snap /\ domain' = domain /\ audit' = audit /\ outbox' = outbox /\ rows' = rows
  BY DEF Begin, TypePart, ProgressPart, Progress, memory, database
<1>2. Active(t) /\ Active(t)' /\ Busy(t) /\ StepOf(t)
  BY <1>1, StepsOfOne DEF Active, Serial
<1>3. todo'[t] = <<t>>
  <2>1. CASE kind[t] \in {"crm", "crmEdit"}
    <3>1. todo'[t] = SubSeq(audit, snap[t].audit + 1, Len(audit))
      BY <2>1 DEF Begin, TypePart
    <3>2. PICK n : n = Len(audit)
      OBVIOUS
    <3>3. n = snap[t].audit + 1 /\ snap[t].audit \in Nat /\ n \in Nat /\ n \in DOMAIN audit
      BY <1>2, <2>1, <3>2, LenProperties DEF Busy, TypePart, SnapType
    <3>4. audit[n] = t
      BY <1>2, <3>3 DEF Busy
    <3>5. SubSeq(audit, n, n) = <<audit[n]>>
      <4>1. \A i \in n .. n : audit[i] \in Entry
        BY <3>3, ElementOfSeq DEF TypePart
      <4>2. PICK x : x = SubSeq(audit, n, n)
        OBVIOUS
      <4>3. n - n + 1 = 1 /\ n + 1 - 1 = n
        BY <3>3
      <4>4. x \in Seq(Entry) /\ Len(x) = 1 /\ x[1] = audit[n]
        <5>1. /\ x \in Seq(Entry) /\ Len(x) = IF n <= n THEN n - n + 1 ELSE 0
              /\ \A i \in 1 .. n - n + 1 : x[i] = audit[n + i - 1]
          <6>1. n \in Int
            BY <3>3
          <6> QED BY <4>1, <4>2, <6>1, SubSeqProperties
        <5>2. 1 \in 1 .. n - n + 1 /\ n <= n
          BY <3>3
        <5> QED BY <4>3, <5>1, <5>2
      <4>5. x = <<x[1]>>
        BY <4>4
      <4> QED BY <4>2, <4>4, <4>5
    <3> QED BY <3>1, <3>2, <3>3, <3>4, <3>5
  <2>2. CASE kind[t] \notin {"crm", "crmEdit"}
    BY <2>2 DEF Begin, TypePart
  <2> QED BY <2>1, <2>2
<1>4. Busy(t)'
  BY <1>1, <1>2, <1>3 DEF Busy
<1> QED BY <1>1, <1>2, <1>4, SerialInside

LEMMA ReadTipSerial ==
    ASSUME TypePart, RowsPart, Serial, NEW t \in Tx, ReadTip(t)
    PROVE  Serial'
<1>1. /\ pc[t] = "begun" /\ pc'[t] = "tip" /\ own' = own /\ kind' = kind /\ todo' = todo /\ todo[t] # <<>>
      /\ snap' = snap /\ domain' = domain /\ audit' = audit /\ outbox' = outbox /\ rows' = rows
      /\ tip'[t] = LastSeq(t)
  BY DEF ReadTip, TypePart, memory, database
<1>2. Active(t) /\ Active(t)' /\ Busy(t) /\ StepOf(t)
  BY <1>1, StepsOfOne DEF Active, Serial
<1>3. own[t] = {} /\ todo[t] = <<t>>
  BY <1>1, <1>2 DEF Busy
<1>4. LastOf(tip'[t], rows)
  <2>1. Visible(t) = rows
    BY <1>3 DEF Visible
  <2> QED BY <1>1, <2>1, LastSeqIs
<1>5. Busy(t)'
  BY <1>1, <1>2, <1>3, <1>4 DEF Busy
<1> QED BY <1>1, <1>2, <1>5, SerialInside

LEMMA InsertSerial ==
    ASSUME TypePart, RowsPart, ProgressPart, Serial, NEW t \in Tx, InsertAudit(t)
    PROVE  Serial'
<1>1. /\ pc[t] = "tip" /\ pc'[t] = "begun" /\ kind' = kind /\ todo[t] # <<>>
      /\ snap' = snap /\ domain' = domain /\ audit' = audit /\ outbox' = outbox /\ rows' = rows
      /\ own'[t] = own[t] \cup {NewRow(t)} /\ todo'[t] = Tail(todo[t])
  BY Inserted DEF InsertAudit, ProgressPart, Progress, memory
<1>2. Active(t) /\ Active(t)' /\ Busy(t) /\ StepOf(t)
  BY <1>1, StepsOfOne DEF Active, Serial
<1>3. own[t] = {} /\ todo[t] = <<t>> /\ LastOf(tip[t], rows)
  BY <1>1, <1>2 DEF Busy
<1>4. PICK n : n = NewRow(t)
  OBVIOUS
<1>5. n.about = t /\ n.prev = tip[t] /\ n.seq = identity + 1
  BY <1>1, <1>3, <1>4, RowFields
<1>6. own'[t] = {n} /\ todo'[t] = <<>>
  BY <1>1, <1>3, <1>4
<1>7. \A s \in rows : s.seq < n.seq
  BY <1>5 DEF RowsPart, RowOK, TypePart, RowType
<1>8. Busy(t)'
  BY <1>1, <1>2, <1>3, <1>5, <1>6, <1>7 DEF Busy
<1> QED BY <1>1, <1>2, <1>8, SerialInside

LEMMA BrokenOffSerial ==
    ASSUME TypePart, Serial, NEW t \in Tx, Abort(t) \/ LoseCommitAnswer(t)
    PROVE  Serial'
<1>1. /\ pc[t] \in {"begun", "tip", "committed"} /\ pc'[t] = "aborted" /\ kind' = kind
      /\ snap' = snap /\ domain' = domain /\ audit' = audit /\ outbox' = outbox /\ rows' = rows
  BY DEF Abort, LoseCommitAnswer, TypePart, memory, database
<1>2. Active(t) /\ Active(t)' /\ Busy(t) /\ StepOf(t)
  BY <1>1, StepsOfOne DEF Active, Serial
<1>3. Busy(t)'
  BY <1>1, <1>2 DEF Busy
<1> QED BY <1>1, <1>2, <1>3, SerialInside

\* A request begins: nothing in memory or in the tables is about it yet.
LEMMA StartSerial ==
    ASSUME TypePart, DomainPart, Serial, NEW t \in Tx, NEW k \in Kinds, Start(t, k), ~overlapped'
    PROVE  Serial'
<1>1. /\ pc[t] = "idle" /\ pc'[t] = "mutated" /\ kind'[t] = k /\ StepOf(t)
      /\ outbox' = outbox /\ rows' = rows /\ own' = own
      /\ snap'[t].domain = domain /\ snap'[t].audit = Len(audit) /\ snap'[t].outbox = Len(outbox)
      /\ domain \subseteq domain' /\ domain' \subseteq domain \cup {t}
      /\ audit' = IF k \in {"crm", "crmEdit"} THEN Append(audit, t) ELSE audit
  BY StepsOfOne DEF Start, TypePart
<1>2. \A u \in Tx : ~Active(u)
  BY DEF Start
<1>3. \A u \in Tx : u # t => ~Active(u)'
  BY <1>1, <1>2 DEF Active, StepOf
<1>4. ~Listed(audit, t) /\ ~Listed(outbox, t) /\ \A r \in rows : r.about # t
  BY <1>1 DEF Serial, Rest
<1>5. Len(audit) \in Nat /\ DOMAIN audit = 1 .. Len(audit)
  BY LenProperties DEF TypePart
<1>6. /\ Len(audit') = IF k \in {"crm", "crmEdit"} THEN Len(audit) + 1 ELSE Len(audit)
      /\ DOMAIN audit' = 1 .. Len(audit')
      /\ \A i \in 1 .. Len(audit) : audit'[i] = audit[i]
      /\ k \in {"crm", "crmEdit"} => audit'[Len(audit) + 1] = t
  <2>1. t \in Entry /\ audit \in Seq(Entry)
    BY DEF Entry, TypePart
  <2> QED BY <1>1, <1>5, <2>1
<1>7. \A i \in DOMAIN audit' : (audit'[i] = t) <=> (i > Len(audit))
  BY <1>4, <1>5, <1>6 DEF Listed
<1>8. \A u \in Tx : u # t => (Listed(audit', u) <=> Listed(audit, u))
  BY <1>5, <1>6, <1>7 DEF Listed
<1>9. Busy(t)'
  BY <1>1, <1>4, <1>6, <1>7 DEF Busy
<1>10. ASSUME NEW u \in Tx, u # t PROVE Rest(u)'
  <2>1. Rest(u) /\ pc'[u] = pc[u] /\ (u \in domain' <=> u \in domain)
    BY <1>1, <1>10 DEF Serial, StepOf
  <2>2. Listed(outbox', u) <=> Listed(outbox, u)
    BY <1>1
  <2> QED BY <1>1, <1>8, <1>10, <2>1, <2>2 DEF Rest
<1>11. Rest(t)'
  BY <1>1 DEF Rest
<1>12. ChainPart'
  BY <1>1 DEF Serial, ChainPart
<1> QED BY <1>3, <1>9, <1>10, <1>11, <1>12 DEF Serial

\* The committed row comes after all others and hangs on the last of them.
LEMMA CommitSerial ==
    ASSUME TypePart, Serial, NEW t \in Tx, Commit(t)
    PROVE  Serial'
<1>1. /\ pc[t] = "begun" /\ todo[t] = <<>> /\ pc'[t] = "committed" /\ kind' = kind /\ own' = own
      /\ snap' = snap /\ domain' = domain /\ audit' = audit /\ outbox' = outbox
      /\ rows' = rows \cup own[t]
  BY DEF Commit, TypePart, memory
<1>2. Active(t) /\ Active(t)' /\ Busy(t) /\ StepOf(t)
  BY <1>1, StepsOfOne DEF Active, Serial
<1>3. PICK r \in own[t] : own[t] = {r} /\ r.about = t
  BY <1>1, <1>2 DEF Busy
<1>4. LastOf(r.prev, rows) /\ \A s \in rows : s.seq < r.seq /\ s.about # t
  BY <1>1, <1>2, <1>3 DEF Busy
<1>5. Busy(t)'
  BY <1>1, <1>2, <1>3 DEF Busy
<1>6. \A s \in rows' : s.seq \in Nat
  BY <1>1 DEF TypePart, RowType
<1>7. ASSUME NEW s \in rows' PROVE LastOf(s.prev, {x \in rows' : x.seq < s.seq})
  <2>1. CASE s = r
    <3>1. {x \in rows' : x.seq < s.seq} = rows
      BY <1>1, <1>3, <1>4, <1>6, <2>1
    <3> QED BY <1>4, <2>1, <3>1
  <2>2. CASE s \in rows
    <3>1. {x \in rows' : x.seq < s.seq} = {x \in rows : x.seq < s.seq}
      BY <1>1, <1>3, <1>4, <1>6, <2>2
    <3>2. LastOf(s.prev, {x \in rows : x.seq < s.seq})
      BY <2>2 DEF Serial, ChainPart
    <3> QED BY <3>1, <3>2
  <2> QED BY <1>1, <1>3, <2>1, <2>2
<1>8. \A x, y \in rows' : x.about = y.about => x = y
  BY <1>1, <1>3, <1>4 DEF Serial, ChainPart
<1>9. ChainPart'
  BY <1>7, <1>8 DEF ChainPart
<1>10. Rest(t)'
  BY <1>1 DEF Rest
<1>11. \A s \in rows' : s \in rows \/ s.about = t
  BY <1>1, <1>3
<1>12. \A u \in Tx : u # t => ~Active(u) /\ ~Active(u)' /\ Rest(u)'
  BY <1>1, <1>2, <1>11, OthersRest
<1> QED BY <1>2, <1>5, <1>9, <1>10, <1>12 DEF Serial

\* A request that ends leaves nobody at work.
LEMMA SerialEnd ==
    ASSUME TypePart, Serial, NEW t \in Tx, Active(t), ~Active(t)', StepOf(t), Rest(t)', rows' = rows,
           domain' \subseteq domain,
           \A u \in Tx : u # t => /\ Listed(audit', u) <=> Listed(audit, u)
                                  /\ Listed(outbox', u) <=> Listed(outbox, u)
    PROVE  Serial'
<1>1. \A u \in Tx : u # t => ~Active(u) /\ ~Active(u)' /\ Rest(u)'
  BY OthersRest
<1>2. ChainPart'
  BY DEF Serial, ChainPart
<1> QED BY <1>1, <1>2 DEF Serial

\* The audit entry of the answered request is on top of what its snapshot counted.
LEMMA SucceedSerial ==
    ASSUME TypePart, Serial, NEW t \in Tx, Succeed(t)
    PROVE  Serial'
<1>1. /\ pc[t] = "committed" /\ pc'[t] = "ok" /\ domain' = domain /\ rows' = rows
      /\ outbox' = Append(outbox, t)
      /\ audit' = IF kind[t] \in {"crm", "crmEdit"}
                  THEN SetLength(audit, snap[t].audit) \o Persisted(t) ELSE Append(audit, t)
  BY DEF Succeed, TypePart, database
<1>2. Active(t) /\ ~Active(t)' /\ Busy(t) /\ StepOf(t)
  BY <1>1, StepsOfOne DEF Active, Serial
<1>3. PICK n : n = snap[t].audit
  OBVIOUS
<1>4. /\ n \in Nat /\ audit \in Seq(Entry) /\ t \in Entry /\ DOMAIN audit = 1 .. Len(audit) /\ Len(audit) \in Nat
      /\ Len(audit) = IF kind[t] \in {"crm", "crmEdit"} THEN n + 1 ELSE n
      /\ \A i \in DOMAIN audit : (audit[i] = t) <=> (i > n)
  BY <1>2, <1>3, LenProperties DEF Busy, TypePart, SnapType, Entry
<1>5. /\ DOMAIN audit' = 1 .. (n + 1) /\ audit'[n + 1] = t
      /\ \A i \in 1 .. n : audit'[i] = audit[i]
  <2>1. CASE kind[t] \in {"crm", "crmEdit"}
    <3>1. PICK r \in own[t] : own[t] = {r} /\ r.about = t
      BY <1>1, <1>2 DEF Busy
    <3>2. Persisted(t) = <<t>>
      <4>1. r.seq \in Nat
        BY DEF TypePart, RowType
      <4> QED BY <3>1, <4>1, PersistedOne
    <3>3. PICK s : s = SetLength(audit, n)
      OBVIOUS
    <3>4. s \in Seq(Entry) /\ Len(s) = n /\ \A i \in 1 .. n : s[i] = audit[i]
      BY <1>4, <2>1, <3>3, CutAt
    <3>5. audit' = s \o <<t>>
      BY <1>1, <1>3, <2>1, <3>2, <3>3
    <3> QED BY <1>4, <3>4, <3>5
  <2>2. CASE kind[t] \notin {"crm", "crmEdit"}
    BY <1>1, <1>4, <2>2
  <2> QED BY <2>1, <2>2
<1>6. Listed(audit', t) /\ \A u \in Tx : u # t => (Listed(audit', u) <=> Listed(audit, u))
  BY <1>4, <1>5 DEF Listed
<1>7. Listed(outbox', t) /\ \A u \in Tx : u # t => (Listed(outbox', u) <=> Listed(outbox, u))
  <2>1. outbox \in Seq(Entry)
    BY DEF TypePart
  <2>2. /\ DOMAIN outbox = 1 .. Len(outbox) /\ Len(outbox) \in Nat
        /\ DOMAIN outbox' = 1 .. (Len(outbox) + 1) /\ outbox'[Len(outbox) + 1] = t
        /\ \A i \in 1 .. Len(outbox) : outbox'[i] = outbox[i]
    BY <1>1, <1>4, <2>1
  <2> QED BY <2>2 DEF Listed
<1>8. Rest(t)'
  BY <1>1, <1>6, <1>7 DEF Rest
<1> QED BY <1>1, <1>2, <1>6, <1>7, <1>8, SerialEnd

\* What a failed request added is cut off, and nothing else.
LEMMA FailSerial ==
    ASSUME TypePart, DomainPart, Serial, NEW t \in Tx, Fail(t)
    PROVE  Serial'
<1>1. /\ pc[t] = "aborted" /\ pc'[t] = "failed" /\ rows' = rows
      /\ kind[t] = "spine" => domain' = domain /\ audit' = audit /\ outbox' = outbox
      /\ kind[t] # "spine" => /\ domain' = snap[t].domain
                              /\ audit' = SetLength(audit, snap[t].audit)
                              /\ outbox' = SetLength(outbox, snap[t].outbox)
  BY DEF Fail, TypePart, database
<1>2. Active(t) /\ ~Active(t)' /\ Busy(t) /\ StepOf(t)
  BY <1>1, StepsOfOne DEF Active, Serial
<1>3. PICK n : n = snap[t].audit
  OBVIOUS
<1>4. /\ n \in Nat /\ audit \in Seq(Entry) /\ DOMAIN audit = 1 .. Len(audit) /\ Len(audit) \in Nat
      /\ Len(audit) = IF kind[t] \in {"crm", "crmEdit"} THEN n + 1 ELSE n
      /\ \A i \in DOMAIN audit : (audit[i] = t) <=> (i > n)
      /\ outbox \in Seq(Entry) /\ DOMAIN outbox = 1 .. Len(outbox) /\ Len(outbox) \in Nat
      /\ Len(outbox) = snap[t].outbox /\ ~Listed(outbox, t)
  BY <1>2, <1>3, LenProperties DEF Busy, TypePart, SnapType
<1>5. DOMAIN audit' = 1 .. n /\ \A i \in 1 .. n : audit'[i] = audit[i]
  <2>1. CASE kind[t] = "spine"
    BY <1>1, <1>4, <2>1
  <2>2. CASE kind[t] # "spine"
    <3>1. audit' = SetLength(audit, n) /\ n <= Len(audit)
      BY <1>1, <1>3, <1>4, <2>2
    <3> QED BY <1>4, <3>1, CutAt
  <2> QED BY <2>1, <2>2
<1>6. ~Listed(audit', t) /\ \A u \in Tx : u # t => (Listed(audit', u) <=> Listed(audit, u))
  BY <1>4, <1>5 DEF Listed
<1>7. DOMAIN outbox' = DOMAIN outbox /\ \A i \in DOMAIN outbox : outbox'[i] = outbox[i]
  <2>1. CASE kind[t] = "spine"
    BY <1>1, <2>1
  <2>2. CASE kind[t] # "spine"
    <3>1. PICK m : m = Len(outbox)
      OBVIOUS
    <3>2. outbox' = SetLength(outbox, m) /\ m \in Nat /\ m <= Len(outbox)
      BY <1>1, <1>4, <2>2, <3>1
    <3> QED BY <1>4, <3>1, <3>2, CutAt
  <2> QED BY <2>1, <2>2
<1>8. ~Listed(outbox', t) /\ \A u \in Tx : u # t => (Listed(outbox', u) <=> Listed(outbox, u))
  BY <1>4, <1>7 DEF Listed
<1>9. t \notin domain' /\ domain' \subseteq domain
  BY <1>1, <1>2 DEF DomainPart, Busy
<1>10. Rest(t)'
  BY <1>1, <1>6, <1>8, <1>9 DEF Rest
<1> QED BY <1>1, <1>2, <1>6, <1>8, <1>9, <1>10, SerialEnd

-----------------------------------------------------------------------------
(* The invariant holds at first and is kept by every step.                 *)

LEMMA InitInv == Init => Inv
<1> SUFFICES ASSUME Init PROVE Inv
  OBVIOUS
<1>1. /\ \A t \in Tx : /\ pc[t] = "idle" /\ kind[t] = "none" /\ snap[t] = NoSnap /\ own[t] = {}
                       /\ number[t] = 0
      /\ audit = <<>> /\ outbox = <<>> /\ rows = {} /\ domain = {} /\ edited = {}
  BY DEF Init
<1>2. NoSnap \in SnapType /\ NoSnap.domain = {}
  BY DEF NoSnap, SnapType
<1>3. <<>> \in Seq(Entry) /\ DOMAIN <<>> = {}
  OBVIOUS
<1>4. TypePart
  BY <1>2, <1>3 DEF Init, TypePart
<1>5. RowsPart
  BY <1>1, RankedEmpty DEF RowsPart
<1>6. ProgressPart /\ DomainPart
  BY <1>1, <1>2, Writers DEF ProgressPart, Progress, DomainPart
<1>7. OverlapPart
  BY <1>1, <1>3, <1>4 DEF OverlapPart, TypePart
<1>8. \A t \in Tx : ~Active(t) /\ Rest(t)
  BY <1>1, <1>3 DEF Active, Rest, Listed
<1>9. SerialPart
  BY <1>1, <1>8 DEF SerialPart, Serial, ChainPart
<1> QED BY <1>4, <1>5, <1>6, <1>7, <1>9 DEF Inv

\* The parts that only look at where the requests are.
LEMMA StepRest ==
    ASSUME Inv, NEW t \in Tx, StepOf(t), Progress(t)', overlapped' = overlapped,
           ~overlapped => Serial'
    PROVE  ProgressPart' /\ SerialPart'
BY ProgressOfOne DEF Inv, SerialPart

LEMMA StartStep ==
    ASSUME Inv, NEW t \in Tx, NEW k \in Kinds, Start(t, k)
    PROVE  Inv'
<1>1. TypePart /\ RowsPart /\ ProgressPart /\ DomainPart /\ OverlapPart /\ SerialPart
  BY DEF Inv
<1>2. StepOf(t) /\ Progress(t)'
  BY <1>1, StepsOfOne, StartProgress
<1>3. RowsPart'
  <2>1. /\ rows' = rows /\ own' = own /\ identity' = identity /\ tip' = tip
        /\ \A u \in Tx : pc'[u] = "tip" => pc[u] = "tip"
    BY <1>1 DEF Start, TypePart
  <2> QED BY <1>1, <2>1, RowsStay
<1>4. SerialPart'
  <2>1. ~overlapped' => ~overlapped
    BY DEF Start
  <2> QED BY <1>1, <2>1, StartSerial DEF SerialPart
<1>5. TypePart' /\ DomainPart' /\ OverlapPart' /\ ProgressPart'
  BY <1>1, <1>2, StartTypes, StartDomain, StartOverlap, ProgressOfOne
<1> QED BY <1>3, <1>4, <1>5 DEF Inv

\* BEGIN, the reads and the inserts, and what breaks a transaction off.
LEMMA InnerStep ==
    ASSUME Inv, NEW t \in Tx,
           Begin(t) \/ ReadTip(t) \/ InsertAudit(t) \/ Commit(t) \/ Abort(t) \/ LoseCommitAnswer(t)
    PROVE  Inv'
<1>1. TypePart /\ RowsPart /\ ProgressPart /\ DomainPart /\ OverlapPart /\ (~overlapped => Serial)
  BY DEF Inv, SerialPart
<1>2. StepOf(t)
  BY <1>1, StepsOfOne
<1>3. /\ kind' = kind /\ snap' = snap /\ number' = number /\ domain' = domain /\ edited' = edited
      /\ outbox' = outbox /\ counter' = counter /\ overlapped' = overlapped
  BY DEF Begin, ReadTip, InsertAudit, Commit, Abort, LoseCommitAnswer, memory
<1>4. pc[t] \in {"mutated", "begun", "tip", "committed"} /\ pc'[t] \in {"begun", "tip", "committed", "aborted"}
  BY <1>1 DEF Begin, ReadTip, InsertAudit, Commit, Abort, LoseCommitAnswer, TypePart
<1>5. /\ \A u \in Tx : /\ pc'[u] = "ok" <=> pc[u] = "ok"
                       /\ pc'[u] = "idle" => pc[u] = "idle"
      /\ FailureFree' => FailureFree
  BY <1>1, <1>2, <1>4, FailureStays DEF StepOf
<1>6. DomainPart' /\ OverlapPart'
  BY <1>1, <1>3, <1>5, DomainStays, OverlapStays
<1>7. TypePart'
  BY <1>1, BeginTypes, ReadTipTypes, InsertAuditTypes, EndTypes
<1>8. RowsPart'
  <2>1. CASE Begin(t) \/ Abort(t) \/ LoseCommitAnswer(t)
    <3>1. /\ rows' = rows /\ own' = own /\ identity' = identity /\ tip' = tip
          /\ \A u \in Tx : pc'[u] = "tip" => pc[u] = "tip"
      BY <1>1, <2>1 DEF Begin, Abort, LoseCommitAnswer, TypePart, database
    <3> QED BY <1>1, <3>1, RowsStay
  <2>2. CASE Commit(t)
    <3>1. pc' = [pc EXCEPT ![t] = "committed"]
      BY <2>2 DEF Commit
    <3> QED BY <1>1, <2>2, <3>1, CommittedRows
  <2> QED BY <1>1, <2>1, <2>2, TipRows, InsertedRows
<1>9. Progress(t)'
  BY <1>1, BeginProgress, ReadTipProgress, InsertProgress, CommitProgress, EndProgress
<1>10. ~overlapped => Serial'
  BY <1>1, BeginSerial, ReadTipSerial, InsertSerial, CommitSerial, BrokenOffSerial
<1>11. ProgressPart' /\ SerialPart'
  BY <1>2, <1>3, <1>9, <1>10, StepRest
<1> QED BY <1>6, <1>7, <1>8, <1>11 DEF Inv

\* The answer, and the restoring of memory.
LEMMA LastStep ==
    ASSUME Inv, NEW t \in Tx, Succeed(t) \/ Fail(t)
    PROVE  Inv'
<1>1. TypePart /\ RowsPart /\ ProgressPart /\ DomainPart /\ OverlapPart /\ (~overlapped => Serial)
  BY DEF Inv, SerialPart
<1>2. StepOf(t) /\ Progress(t)'
  BY <1>1, StepsOfOne, EndProgress
<1>3. /\ rows' = rows /\ own' = own /\ identity' = identity /\ tip' = tip /\ overlapped' = overlapped
      /\ pc'[t] \in {"ok", "failed"} /\ pc[t] \in {"committed", "aborted"}
  BY <1>1 DEF Succeed, Fail, TypePart, database
<1>4. \A u \in Tx : (pc'[u] = "tip" => pc[u] = "tip") /\ (pc'[u] = "idle" => pc[u] = "idle")
  BY <1>2, <1>3 DEF StepOf
<1>5. TypePart' /\ RowsPart'
  BY <1>1, <1>3, <1>4, SucceedTypes, FailTypes, RowsStay
<1>6. DomainPart'
  <2>1. CASE Succeed(t)
    BY <1>1, <1>4, <2>1, DomainStays DEF Succeed
  <2> QED BY <1>1, <2>1, FailDomain
<1>7. OverlapPart'
  <2>1. CASE Fail(t)
    <3>1. ~FailureFree'
      BY <1>1, <2>1 DEF Fail, FailureFree, TypePart
    <3> QED BY <3>1 DEF OverlapPart
  <2> QED BY <1>1, <2>1, SucceedOverlap
<1>8. ~overlapped => Serial'
  BY <1>1, SucceedSerial, FailSerial
<1>9. ProgressPart' /\ SerialPart'
  BY <1>2, <1>3, <1>8, StepRest
<1> QED BY <1>5, <1>6, <1>7, <1>9 DEF Inv

LEMMA StepInv == Inv /\ [Next]_vars => Inv'
<1> SUFFICES ASSUME Inv, [Next]_vars PROVE Inv'
  OBVIOUS
<1>1. CASE UNCHANGED vars
  <2>1. TypePart'
    BY <1>1 DEF Inv, TypePart, vars
  <2>2. RowsPart'
    BY <1>1 DEF Inv, RowsPart, RowOK, Visible, vars
  <2>3. ProgressPart'
    BY <1>1 DEF Inv, ProgressPart, Progress, vars
  <2>4. DomainPart' /\ OverlapPart'
    BY <1>1 DEF Inv, DomainPart, OverlapPart, FailureFree, vars
  <2>5. ASSUME NEW t \in Tx, Rest(t), Active(t) => Busy(t)
        PROVE  Rest(t)' /\ (Active(t)' => Busy(t)') /\ Active(t)' = Active(t)
    <3>1. Active(t)' = Active(t)
      BY <1>1 DEF Active, vars
    <3>2. Rest(t)'
      BY <1>1, <2>5 DEF Rest, vars
    <3>3. Busy(t) => Busy(t)'
      BY <1>1 DEF Busy, vars
    <3> QED BY <2>5, <3>1, <3>2, <3>3
  <2>6. ChainPart => ChainPart'
    BY <1>1 DEF ChainPart, vars
  <2>7. Serial => Serial'
    BY <2>5, <2>6 DEF Serial
  <2>8. SerialPart'
    BY <1>1, <2>7 DEF Inv, SerialPart, vars
  <2> QED BY <2>1, <2>2, <2>3, <2>4, <2>8 DEF Inv
<1> QED BY <1>1, StartStep, InnerStep, LastStep DEF Next

\* Whatever the requests, their writers and their interleaving, Inv holds.
THEOREM Invariance == Spec => []Inv
BY InitInv, StepInv, PTL DEF Spec

-----------------------------------------------------------------------------
(* What follows from it.                                                   *)

LEMMA RangeOfEntries ==
    ASSUME NEW s \in Seq(Entry)
    PROVE  Range(s) \subseteq Tx \cup {Hole}
BY LenProperties, ElementOfSeq DEF Range, Entry

\* The tables hold rows, and so does memory: the array lengthened with holes and the
\* entries restored from the transaction are entries.
THEOREM TypeCorrect == Spec => []TypeOK
<1>1. Inv => TypeOK
  <2> SUFFICES ASSUME Inv PROVE TypeOK
    OBVIOUS
  <2>1. TypePart
    BY DEF Inv
  <2>2. \A t \in Tx : Range(todo[t]) \subseteq Tx \cup {Hole}
    BY <2>1, RangeOfEntries DEF TypePart
  <2>3. Range(audit) \subseteq Tx \cup {Hole} /\ Range(outbox) \subseteq Tx \cup {Hole}
    BY <2>1, RangeOfEntries DEF TypePart
  <2>4. \A t \in Tx : own[t] \subseteq [about : Tx \cup {Hole}, seq : Nat, prev : Nat]
    BY <2>1 DEF TypePart, RowType, Entry
  <2>5. rows \subseteq [about : Tx \cup {Hole}, seq : Nat, prev : Nat]
    BY <2>1 DEF TypePart, RowType, Entry
  <2> QED BY <2>1, <2>2, <2>3, <2>4, <2>5 DEF TypePart, TypeOK, SnapType
<1> QED BY <1>1, Invariance, PTL

\* runDurableTx answers ok after COMMIT only, and loadLastAuditHash reads rows of its
\* own transaction or committed ones: the rows form a tree, whatever is rolled back.
THEOREM TablesHold == Spec => []TablesAreRight
<1>1. Inv => TablesAreRight
  <2> SUFFICES ASSUME Inv PROVE TablesAreRight
    OBVIOUS
  <2>1. OkIsDurable
    BY DEF Inv, ProgressPart, Progress, OkIsDurable
  <2>2. ParentsCommitted
    BY DEF Inv, RowsPart, RowOK, Hangs, ParentsCommitted
  <2> QED BY <2>1, <2>2 DEF TablesAreRight
<1> QED BY <1>1, Invariance, PTL

\* The greatest number is the one CHOOSE finds.
LEMMA LastOfIs ==
    ASSUME NEW rs \in SUBSET RowType, NEW p, LastOf(p, rs)
    PROVE  p = IF rs = {} THEN 0 ELSE (CHOOSE s \in rs : \A u \in rs : u.seq <= s.seq).seq
<1>1. CASE rs = {}
  BY <1>1 DEF LastOf
<1>2. CASE rs # {}
  <2>1. PICK r \in rs : r.seq = p /\ \A s \in rs : s.seq <= r.seq
    BY <1>2 DEF LastOf
  <2>2. PICK c : c = CHOOSE s \in rs : \A u \in rs : u.seq <= s.seq
    OBVIOUS
  <2>3. c \in rs /\ \A u \in rs : u.seq <= c.seq
    BY <2>1, <2>2
  <2>4. r.seq \in Nat /\ c.seq \in Nat
    BY <2>1, <2>3 DEF RowType
  <2>5. c.seq = p
    BY <2>1, <2>3, <2>4
  <2> QED BY <1>2, <2>2, <2>5
<1> QED BY <1>1, <1>2

\* restoreDomain and restoreCrmDomain keep their word when requests run one at a time,
\* and are not needed when none fails: memory follows the tables in both cases.
THEOREM MemoryHolds == Spec => []MemoryIsRight
<1>1. Inv => MemoryIsRight
  <2> SUFFICES ASSUME Inv PROVE MemoryIsRight
    OBVIOUS
  <2>1. FailureFreeOverlap
    <3> SUFFICES ASSUME \A t \in Tx : pc[t] \notin {"aborted", "failed"}
                 PROVE  /\ \A t \in Tx : pc[t] = "ok" => Cardinality({i \in DOMAIN outbox : outbox[i] = t}) = 1
                        /\ \A t, u \in Tx : t # u /\ number[t] = number[u] => number[t] = 0
      BY DEF FailureFreeOverlap
    <3>1. /\ \A t \in Tx : pc[t] = "ok" <=> \E i \in DOMAIN outbox : outbox[i] = t
          /\ \A i, j \in DOMAIN outbox : outbox[i] = outbox[j] => i = j
          /\ \A t, u \in Tx : t # u /\ number[t] = number[u] => number[t] = 0
      BY DEF Inv, OverlapPart, FailureFree
    <3>2. ASSUME NEW t \in Tx, pc[t] = "ok" PROVE Cardinality({i \in DOMAIN outbox : outbox[i] = t}) = 1
      <4>1. PICK k \in DOMAIN outbox : outbox[k] = t
        BY <3>1, <3>2
      <4>2. {i \in DOMAIN outbox : outbox[i] = t} = {k}
        BY <3>1, <4>1
      <4> QED BY <4>2, FS_Singleton
    <3> QED BY <3>1, <3>2
  <2>2. ExactWhenSerial
    <3> SUFFICES ASSUME ~overlapped
                 PROVE  /\ ChainLinear
                        /\ \A r, s \in rows : r.about = s.about => r = s
                        /\ \A t \in Tx : FailedLeavesNothing(t)
                        /\ \A t \in Tx : pc[t] = "ok" => t \in Range(outbox) /\ t \in Range(audit)
      BY DEF ExactWhenSerial
    <3>1. ChainPart /\ \A t \in Tx : Rest(t)
      BY DEF Inv, SerialPart, Serial
    <3>2. ChainLinear
      <4> SUFFICES ASSUME NEW r \in rows
                   PROVE  r.prev = LET below == {s \in rows : s.seq < r.seq}
                                   IN  IF below = {} THEN 0
                                       ELSE (CHOOSE s \in below : \A u \in below : u.seq <= s.seq).seq
        BY DEF ChainLinear
      <4>1. PICK below : below = {s \in rows : s.seq < r.seq}
        OBVIOUS
      <4>2. below \in SUBSET RowType /\ LastOf(r.prev, below)
        BY <3>1, <4>1 DEF Inv, TypePart, ChainPart
      <4> QED BY <4>1, <4>2, LastOfIs
    <3>3. \A s, t : Listed(s, t) <=> t \in Range(s)
      BY DEF Listed, Range
    <3>4. ASSUME NEW t \in Tx PROVE FailedLeavesNothing(t)
      BY <3>1, <3>3 DEF Rest, FailedLeavesNothing, Inv, DomainPart
    <3> QED BY <3>1, <3>2, <3>3, <3>4 DEF ChainPart, Rest
  <2> QED BY <2>1, <2>2 DEF MemoryIsRight
<1> QED BY <1>1, Invariance, PTL

================================================================================
