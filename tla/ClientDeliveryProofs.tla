------------------------ MODULE ClientDeliveryProofs ------------------------
(***************************************************************************)
(* Theorems about ClientDelivery, for any number of requests, recipients,  *)
(* issues, documents, deliveries and attempts.                             *)
(***************************************************************************)
EXTENDS ClientDelivery, FiniteSetTheorems, TLAPS

-----------------------------------------------------------------------------
(* Types.                                                                  *)

DocType == [issue : DOMAIN issues, seq : Nat \ {0}, row : BOOLEAN, bytes : BOOLEAN]

DlvType == [doc : DOMAIN docs, to : Recipient, named : BOOLEAN]

AttType == [dlv : DOMAIN deliveries, n : Nat \ {0}, result : Result]

ExcuseType == [lostAnswer : SUBSET DOMAIN docs, orphan : SUBSET DOMAIN docs,
               overlap : SUBSET DOMAIN deliveries, lostResult : SUBSET DOMAIN deliveries]

LEMMA SeqGrows ==
    ASSUME NEW S, NEW T, S \subseteq T, NEW s \in Seq(S)
    PROVE  s \in Seq(T)
  OBVIOUS

LEMMA AppendFacts ==
    ASSUME NEW S, NEW s \in Seq(S), NEW e \in S
    PROVE  /\ Append(s, e) \in Seq(S) /\ Len(Append(s, e)) = Len(s) + 1
           /\ Append(s, e)[Len(s) + 1] = e
           /\ \A k \in DOMAIN s : Append(s, e)[k] = s[k]
           /\ DOMAIN Append(s, e) = DOMAIN s \cup {Len(s) + 1}
           /\ Len(s) + 1 \notin DOMAIN s /\ DOMAIN s = 1 .. Len(s) /\ Len(s) \in Nat
  OBVIOUS

\* What a step does to the request that takes it, and to the others.
LEMMA StepFacts ==
    ASSUME TypeOK, NEW c \in Call, NEW next, Step(c, next)
    PROVE  /\ call'[c] = next
           /\ \A e \in Call \ {c} : call'[e] = call[e]
           /\ call' = [e \in Call |-> IF e = c THEN next ELSE call[e]]
  BY DEF TypeOK, Step

PutCall == [op : {"put"}, issue : DOMAIN issues, seq : Nat \ {0}]

DocumentCall == [op : {"insert document", "compensate"}, doc : DOMAIN docs]

AuthorizeCall ==
    [op : {"find", "insert delivery"}, doc : DOMAIN docs, to : Recipient, named : BOOLEAN, execute : BOOLEAN]

LoadCall == [op : {"load", "check"}, dlv : DOMAIN deliveries]

SendCall == [op : {"send"}, dlv : DOMAIN deliveries, current : BOOLEAN]

NumberCall == [op : {"number"}, dlv : DOMAIN deliveries, result : Result]

RecordCall == [op : {"record"}, dlv : DOMAIN deliveries, result : Result, n : Nat \ {0}]

LEMMA CallParts ==
    CallType = {Idle} \cup PutCall \cup DocumentCall \cup AuthorizeCall \cup LoadCall
               \cup SendCall \cup NumberCall \cup RecordCall
  BY DEF CallType, PutCall, DocumentCall, AuthorizeCall, LoadCall, SendCall, NumberCall, RecordCall

LEMMA CallFields ==
    ASSUME NEW r \in CallType
    PROVE  /\ r.op \in {"idle", "put", "insert document", "compensate", "find", "insert delivery",
                              "load", "check", "send", "number", "record"}
           /\ r.op = "idle" <=> r = Idle
           /\ r.op = "put" =>
                 r.issue \in DOMAIN issues /\ r.seq \in Nat \ {0}
           /\ r.op \in {"insert document", "compensate"} => r.doc \in DOMAIN docs
           /\ r.op \in {"find", "insert delivery"} =>
                 /\ r.doc \in DOMAIN docs /\ r.to \in Recipient
                 /\ r.named \in BOOLEAN /\ r.execute \in BOOLEAN
           /\ r.op \in {"load", "check", "send", "number", "record"} =>
                 r.dlv \in DOMAIN deliveries
           /\ r.op \in {"number", "record"} => r.result \in Result
           /\ r.op = "record" => r.n \in Nat \ {0}
<1>2. CASE r = Idle
  <2>1. r.op = "idle"
    BY <1>2 DEF Idle
  <2> QED
    BY <1>2, <2>1
<1>3. CASE r \in PutCall
  <2>1. r.op = "put" /\ r.issue \in DOMAIN issues /\ r.seq \in Nat \ {0}
    BY <1>3 DEF PutCall
  <2>2. r.op # "idle"
    BY <2>1
  <2>3. r # Idle
    BY <2>2 DEF Idle
  <2> QED
    BY <2>1, <2>2, <2>3
<1>4. CASE r \in DocumentCall
  <2>1. r.op \in {"insert document", "compensate"} /\ r.doc \in DOMAIN docs
    BY <1>4 DEF DocumentCall
  <2>2. r.op # "idle"
    BY <2>1
  <2>3. r # Idle
    BY <2>2 DEF Idle
  <2> QED
    BY <2>1, <2>2, <2>3
<1>5. CASE r \in AuthorizeCall
  <2>1. /\ r.op \in {"find", "insert delivery"}
        /\ r.doc \in DOMAIN docs /\ r.to \in Recipient
        /\ r.named \in BOOLEAN /\ r.execute \in BOOLEAN
    BY <1>5 DEF AuthorizeCall
  <2>2. r.op # "idle"
    BY <2>1
  <2>3. r # Idle
    BY <2>2 DEF Idle
  <2> QED
    BY <2>1, <2>2, <2>3
<1>6. CASE r \in LoadCall
  <2>1. r.op \in {"load", "check"} /\ r.dlv \in DOMAIN deliveries
    BY <1>6 DEF LoadCall
  <2>2. r.op # "idle"
    BY <2>1
  <2>3. r # Idle
    BY <2>2 DEF Idle
  <2> QED
    BY <2>1, <2>2, <2>3
<1>7. CASE r \in SendCall
  <2>1. r.op = "send" /\ r.dlv \in DOMAIN deliveries
    BY <1>7 DEF SendCall
  <2>2. r.op # "idle"
    BY <2>1
  <2>3. r # Idle
    BY <2>2 DEF Idle
  <2> QED
    BY <2>1, <2>2, <2>3
<1>8. CASE r \in NumberCall
  <2>1. r.op = "number" /\ r.dlv \in DOMAIN deliveries /\ r.result \in Result
    BY <1>8 DEF NumberCall
  <2>2. r.op # "idle"
    BY <2>1
  <2>3. r # Idle
    BY <2>2 DEF Idle
  <2> QED
    BY <2>1, <2>2, <2>3
<1>9. CASE r \in RecordCall
  <2>1. /\ r.op = "record" /\ r.dlv \in DOMAIN deliveries
        /\ r.result \in Result /\ r.n \in Nat \ {0}
    BY <1>9 DEF RecordCall
  <2>2. r.op # "idle"
    BY <2>1
  <2>3. r # Idle
    BY <2>2 DEF Idle
  <2> QED
    BY <2>1, <2>2, <2>3
<1> QED
  BY <1>2, <1>3, <1>4, <1>5, <1>6, <1>7, <1>8, <1>9, CallParts

LEMMA AuthorizeIsTyped ==
    ASSUME NEW r \in CallType, r.op \in {"find", "insert delivery"}
    PROVE  r \in AuthorizeCall
<1>0. r.op # "idle"
  OBVIOUS
<1>1. r # Idle
  <2>1. Idle.op = "idle"
    BY DEF Idle
  <2> QED
    BY <1>0, <2>1
<1>2. r \notin PutCall
  BY DEF PutCall
<1>3. r \notin DocumentCall
  BY DEF DocumentCall
<1>4. r \notin LoadCall
  BY DEF LoadCall
<1>5. r \notin SendCall
  BY DEF SendCall
<1>6. r \notin NumberCall
  BY DEF NumberCall
<1>7. r \notin RecordCall
  BY DEF RecordCall
<1> QED
  BY <1>1, <1>2, <1>3, <1>4, <1>5, <1>6, <1>7, CallParts

LEMMA CallIsTyped == ASSUME TypeOK, NEW c \in Call PROVE call[c] \in CallType
  BY DEF TypeOK

\* Requests stay well-formed as the tables grow.
LEMMA CallTypeGrows ==
    ASSUME DOMAIN issues \subseteq DOMAIN issues', DOMAIN docs \subseteq DOMAIN docs',
           DOMAIN deliveries \subseteq DOMAIN deliveries', NEW r \in CallType
    PROVE  r \in CallType'
<1>1. CASE r = Idle
  BY <1>1 DEF CallType
<1>2. CASE r \in PutCall
  BY <1>2 DEF PutCall, CallType
<1>3. CASE r \in DocumentCall
  BY <1>3 DEF DocumentCall, CallType
<1>4. CASE r \in AuthorizeCall
  BY <1>4 DEF AuthorizeCall, CallType
<1>5. CASE r \in LoadCall
  BY <1>5 DEF LoadCall, CallType
<1>6. CASE r \in SendCall
  BY <1>6 DEF SendCall, CallType
<1>7. CASE r \in NumberCall
  BY <1>7 DEF NumberCall, CallType
<1>8. CASE r \in RecordCall
  BY <1>8 DEF RecordCall, CallType
<1> QED
  BY <1>1, <1>2, <1>3, <1>4, <1>5, <1>6, <1>7, <1>8, CallParts

\* A step of one request is well typed if its next stage is.
LEMMA CallStep ==
    ASSUME TypeOK, NEW c \in Call, NEW next, Step(c, next), next \in CallType',
           DOMAIN issues \subseteq DOMAIN issues', DOMAIN docs \subseteq DOMAIN docs',
           DOMAIN deliveries \subseteq DOMAIN deliveries'
    PROVE  call' \in [Call -> CallType']
<1>1. \A e \in Call : call[e] \in CallType'
  BY CallTypeGrows DEF TypeOK
<1> QED
  BY <1>1, StepFacts

\* The types of everything but the requests, when the tables stay as they are.
RowsType ==
    /\ issues \in Seq(Nat)
    /\ docs \in Seq(DocType)
    /\ deliveries \in Seq(DlvType)
    /\ attempts \subseteq AttType
    /\ accepted \in Seq(Nat) /\ Len(accepted) = Len(deliveries)

LEMMA TypeParts == TypeOK <=> RowsType /\ call \in [Call -> CallType] /\ excused \in ExcuseType
  BY DEF TypeOK, RowsType, DocType, DlvType, AttType, ExcuseType

LEMMA RowsKept ==
    ASSUME TypeOK, UNCHANGED <<rows, accepted>>
    PROVE  /\ RowsType'
           /\ DOMAIN issues' = DOMAIN issues /\ DOMAIN docs' = DOMAIN docs
           /\ DOMAIN deliveries' = DOMAIN deliveries
           /\ ExcuseType' = ExcuseType /\ CallType' = CallType
  BY TypeParts DEF rows, RowsType, DocType, DlvType, AttType, ExcuseType, CallType

\* The steps that write no row.
LEMMA QuietType ==
    ASSUME TypeOK, UNCHANGED <<rows, accepted>>, excused' \in ExcuseType,
           NEW c \in Call, NEW next \in CallType, Step(c, next)
    PROVE  TypeOK'
<1>1. call' \in [Call -> CallType']
  BY RowsKept, CallStep
<1> QED
  BY <1>1, RowsKept DEF TypeOK, RowsType, DocType, DlvType, AttType, ExcuseType

\* The steps that write rows.
LEMMA RowType ==
    ASSUME TypeOK, RowsType', call' \in [Call -> CallType'], excused' \in ExcuseType'
    PROVE  TypeOK'
  BY DEF TypeOK, RowsType, DocType, DlvType, AttType, ExcuseType

-----------------------------------------------------------------------------
(* The invariant.                                                          *)

Numbers(x) == {a.n : a \in AttemptsOf(x)}

RunsOn(S) == \E m \in Nat : S = 1 .. m

\* Numbers and sequences run on from 1, each is given once, and a request holds a
\* number that is next or was.
NumbersGiven ==
    /\ \A x \in DOMAIN deliveries : RunsOn(Numbers(x))
    /\ \A a, b \in attempts : a.dlv = b.dlv /\ a.n = b.n => a = b
    /\ \A c \in Call : call[c].op = "record" => call[c].n \in Numbers(call[c].dlv) \cup {NextNumber(call[c].dlv)}

SequencesGiven ==
    /\ \A i \in DOMAIN issues : RunsOn(Sequences(i))
    /\ \A d, e \in DOMAIN docs :
          docs[d].row /\ docs[e].row /\ docs[d].issue = docs[e].issue /\ docs[d].seq = docs[e].seq => d = e
    /\ \A d \in DOMAIN docs : docs[d].seq \in Sequences(docs[d].issue) \cup {NextSequence(docs[d].issue)}
    /\ \A c \in Call : call[c].op = "put" =>
          call[c].seq \in Sequences(call[c].issue) \cup {NextSequence(call[c].issue)}

Busy == {"check", "send", "number", "record"}

\* Two requests attempt a delivery at once only if that was noted.
OneAttempt ==
    \A c, e \in Call :
        c # e /\ call[c].op \in Busy /\ call[e].op \in Busy /\ call[c].dlv = call[e].dlv
            => call[c].dlv \in excused.overlap

Owes(c, x) == call[c].op \in {"number", "record"} /\ call[c].result = "accepted" /\ call[c].dlv = x

Taken(x) == \E a \in attempts : a.dlv = x /\ a.result = "accepted"

\* What the provider took is recorded, about to be, or lost; and nothing else is.
TakenIsKnown ==
    \A x \in DOMAIN deliveries :
        /\ Taken(x) \/ (\E c \in Call : Owes(c, x)) => accepted[x] > 0
        /\ accepted[x] > 0 => Taken(x) \/ x \in excused.lostResult \/ \E c \in Call : Owes(c, x)

\* Without a mishap, a request that is to send finds nothing sent.
SentOnce ==
    \A x \in DOMAIN deliveries \ (excused.overlap \cup excused.lostResult) :
        /\ accepted[x] <= 1
        /\ \A c \in Call : call[c].op \in {"check", "send"} /\ call[c].dlv = x => accepted[x] = 0

Storing == {"insert document", "compensate"}

\* A stored document is in the hands of one request, until it is a row or gone.
OneStoring ==
    /\ \A c, e \in Call :
          c # e /\ call[c].op \in Storing /\ call[e].op \in Storing => call[c].doc # call[e].doc
    /\ \A c \in Call :
          /\ call[c].op = "insert document" => docs[call[c].doc].bytes /\ ~docs[call[c].doc].row
          /\ call[c].op = "compensate" /\ docs[call[c].doc].row => call[c].doc \in excused.lostAnswer

MaySend(x) == Eligible(deliveries[x].doc, deliveries[x].named)

\* What was cancelled may not be sent, now or later.
CancelledStays ==
    /\ \A a \in attempts : a.result = "cancelled" => ~MaySend(a.dlv)
    /\ \A c \in Call, x \in DOMAIN deliveries :
          call[c].op \in {"number", "record"} /\ call[c].dlv = x /\ call[c].result = "cancelled" => ~MaySend(x)
    /\ \A c \in Call : call[c].op = "send" =>
          /\ deliveries[call[c].dlv].named \/ call[c].current
          /\ (\E a \in attempts : a.dlv = call[c].dlv /\ a.result = "cancelled") => call[c].dlv \in excused.overlap

Inv ==
    /\ TypeOK
    /\ NumbersGiven
    /\ SequencesGiven
    /\ OneAttempt
    /\ TakenIsKnown
    /\ SentOnce
    /\ OneStoring
    /\ BytesFollowRows
    /\ CancelledStays

LEMMA GreatestOfRun ==
    ASSUME NEW m \in Nat
    PROVE  Greatest(1 .. m) = m
<1>1. CASE m = 0
  BY <1>1 DEF Greatest
<1>2. CASE m # 0
  <2>1. m \in 1 .. m /\ \A k \in 1 .. m : k <= m
    BY <1>2
  <2>2. \A n \in 1 .. m : (\A k \in 1 .. m : k <= n) => n = m
    BY <2>1
  <2> QED
    BY <2>1, <2>2 DEF Greatest
<1> QED  BY <1>1, <1>2

\* A set that runs on, with a number that is next or was.
LEMMA RunGrows ==
    ASSUME NEW S, RunsOn(S), NEW n \in S \cup {Greatest(S) + 1}
    PROVE  /\ n \in Nat \ {0} /\ S \subseteq Nat \ {0}
           /\ Greatest(S) + 1 \in Nat \ {0} /\ Greatest(S) + 1 \notin S
           /\ RunsOn(S \cup {n})
           /\ S \cup {Greatest(S) + 1} \subseteq (S \cup {n}) \cup {Greatest(S \cup {n}) + 1}
<1>1. PICK m \in Nat : S = 1 .. m
  BY DEF RunsOn
<1>2. Greatest(S) = m
  BY <1>1, GreatestOfRun
<1>3. CASE n \in S
  <2>1. S \cup {n} = S
    BY <1>3
  <2>2. n \in Nat \ {0} /\ S \subseteq Nat \ {0} /\ m + 1 \in Nat \ {0} /\ m + 1 \notin S
    BY <1>1, <1>3
  <2> QED
    BY <1>2, <2>1, <2>2
<1>4. CASE n = m + 1
  <2>1. S \cup {n} = 1 .. m + 1
    BY <1>1, <1>4
  <2>2. m + 1 \in Nat /\ Greatest(1 .. m + 1) = m + 1
    BY GreatestOfRun
  <2>3. n \in Nat \ {0} /\ S \subseteq Nat \ {0} /\ m + 1 \in Nat \ {0} /\ m + 1 \notin S
    BY <1>1, <1>4
  <2>4. RunsOn(S \cup {n})
    BY <2>1, <2>2 DEF RunsOn
  <2> QED
    BY <1>2, <1>4, <2>1, <2>2, <2>3, <2>4
<1> QED
  BY <1>2, <1>3, <1>4

LEMMA NumberFacts ==
    ASSUME Inv, NEW x \in DOMAIN deliveries
    PROVE  NextNumber(x) = Greatest(Numbers(x)) + 1 /\ NextNumber(x) \in Nat \ {0} /\ RunsOn(Numbers(x))
<1>1. NextNumber(x) = Greatest(Numbers(x)) + 1 /\ RunsOn(Numbers(x))
  BY DEF Inv, NumbersGiven, NextNumber, Numbers
<1> QED
  BY <1>1, RunGrows

LEMMA SequenceFacts ==
    ASSUME Inv, NEW i \in DOMAIN issues
    PROVE  NextSequence(i) = Greatest(Sequences(i)) + 1 /\ NextSequence(i) \in Nat \ {0} /\ RunsOn(Sequences(i))
<1>1. NextSequence(i) = Greatest(Sequences(i)) + 1 /\ RunsOn(Sequences(i))
  BY DEF Inv, SequencesGiven, NextSequence
<1> QED
  BY <1>1, RunGrows

LEMMA AcceptedNat ==
    ASSUME Inv, NEW x \in DOMAIN deliveries
    PROVE  accepted[x] \in Nat /\ x \in DOMAIN accepted
<1>1. deliveries \in Seq(DlvType) /\ accepted \in Seq(Nat) /\ Len(accepted) = Len(deliveries)
  BY DEF Inv, TypeOK, DlvType
<1>2. x \in 1 .. Len(accepted)
  BY <1>1
<1> QED
  BY <1>1, <1>2

-----------------------------------------------------------------------------
(* Steps that write no row.                                                *)

ExcusesGrow ==
    /\ excused' \in ExcuseType
    /\ excused.lostAnswer \subseteq excused'.lostAnswer /\ excused.orphan \subseteq excused'.orphan
    /\ excused.overlap \subseteq excused'.overlap /\ excused.lostResult \subseteq excused'.lostResult

\* How a request may go on without writing: what it attempts it attempted before,
\* or has found not to be accepted; what it owes it still owes, or it is noted as
\* lost; what it was storing it compensates, or it is noted as an orphan.
QuietStep(c, next) ==
    /\ UNCHANGED rows /\ UNCHANGED accepted /\ ExcusesGrow
    /\ next \in CallType /\ Step(c, next)
    /\ next.op = "put" => next.seq = NextSequence(next.issue)
    /\ next.op = "record" => next.n = NextNumber(next.dlv)
    /\ next.op \in Busy =>
          \/ call[c].op \in Busy /\ call[c].dlv = next.dlv /\ (next.op \in {"check", "send"} => call[c].op = "check")
          \/ /\ next.op = "check" /\ ~Taken(next.dlv)
             /\ (\E e \in Call \ {c} : call[e].op \in Busy /\ call[e].dlv = next.dlv) => next.dlv \in excused'.overlap
    /\ next.op \in {"number", "record"} /\ next.result = "accepted" => Owes(c, next.dlv)
    /\ call[c].op \in {"number", "record"} /\ call[c].result = "accepted" =>
          \/ next.op = "record" /\ next.result = "accepted" /\ next.dlv = call[c].dlv
          \/ call[c].dlv \in excused'.lostResult
    /\ next.op = "send" => MaySend(next.dlv) /\ next.current = ~Superseded(deliveries[next.dlv].doc)
    /\ next.op \in {"number", "record"} /\ next.result = "cancelled" => ~MaySend(next.dlv)
    /\ next.op \in Storing => call[c].op \in Storing /\ call[c].doc = next.doc /\ next.op = "compensate"
    /\ next.op = "compensate" /\ docs[next.doc].row => call[c].op = "compensate"
    /\ call[c].op \in Storing => next.op \in Storing \/ call[c].doc \in excused'.orphan \/ ~docs[call[c].doc].bytes

LEMMA QuietInv == ASSUME Inv, NEW c \in Call, NEW next, QuietStep(c, next) PROVE Inv'
<1>1. /\ call'[c] = next
      /\ \A e \in Call \ {c} : call'[e] = call[e]
  BY StepFacts DEF Inv, QuietStep
<1>2. UNCHANGED <<issues, docs, deliveries, attempts, accepted>> /\ ExcusesGrow
  BY DEF QuietStep, rows
<1>3. TypeOK'
  BY QuietType DEF Inv, QuietStep, ExcusesGrow
<1>4. /\ \A x : Numbers(x)' = Numbers(x) /\ NextNumber(x)' = NextNumber(x) /\ Taken(x)' = Taken(x)
      /\ \A i : Sequences(i)' = Sequences(i) /\ NextSequence(i)' = NextSequence(i)
      /\ \A x : MaySend(x)' = MaySend(x)
  BY <1>2 DEF Numbers, NextNumber, AttemptsOf, Sequences, NextSequence, Taken, MaySend, Eligible,
     Superseded, IssueSuperseded
<1>5. NumbersGiven'
  BY <1>1, <1>2, <1>4 DEF Inv, NumbersGiven, QuietStep
<1>6. SequencesGiven'
  BY <1>1, <1>2, <1>4 DEF Inv, SequencesGiven, QuietStep
<1>7. OneAttempt'
  BY <1>1, <1>2 DEF Inv, OneAttempt, QuietStep, ExcusesGrow
<1>8. \A x \in DOMAIN deliveries : (\E e \in Call : Owes(e, x)) =>
          x \in excused'.lostResult \/ \E e \in Call : Owes(e, x)'
  BY <1>1 DEF QuietStep, Owes
<1>9. \A x \in DOMAIN deliveries, e \in Call : Owes(e, x)' => Owes(e, x)
  BY <1>1 DEF QuietStep, Owes
<1>10. TakenIsKnown'
  BY <1>2, <1>4, <1>8, <1>9 DEF Inv, TakenIsKnown, ExcusesGrow
<1>11. SentOnce'
  <2> SUFFICES ASSUME NEW x \in DOMAIN deliveries \ (excused'.overlap \cup excused'.lostResult)
               PROVE  /\ accepted[x] <= 1
                      /\ \A e \in Call : call'[e].op \in {"check", "send"} /\ call'[e].dlv = x => accepted[x] = 0
    BY <1>2 DEF SentOnce
  <2>1. x \in DOMAIN deliveries \ (excused.overlap \cup excused.lostResult)
    BY <1>2 DEF ExcusesGrow
  <2>2. ASSUME NEW e \in Call \ {c}, call'[e].op \in {"check", "send"} /\ call'[e].dlv = x
        PROVE  accepted[x] = 0
    BY <1>1, <2>1, <2>2 DEF Inv, SentOnce
  <2>3. ASSUME next.op \in {"check", "send"}, next.dlv = x
        PROVE  accepted[x] = 0
    <3>1. CASE call[c].op = "check" /\ call[c].dlv = x
      BY <2>1, <3>1 DEF Inv, SentOnce
    <3>2. CASE /\ next.op = "check" /\ ~Taken(x)
               /\ \A e \in Call \ {c} : ~(call[e].op \in Busy /\ call[e].dlv = x)
               /\ ~Owes(c, x)
      <4>1. \A e \in Call : ~Owes(e, x)
        BY <3>2 DEF Owes, Busy
      <4>2. accepted[x] \in Nat /\ ~(accepted[x] > 0)
        BY <2>1, <3>2, <4>1, AcceptedNat DEF Inv, TakenIsKnown
      <4> QED
        BY <4>2
    <3>3. Owes(c, x) => next.op = "record"
      BY DEF QuietStep, Owes
    <3> QED
      BY <2>1, <2>3, <3>1, <3>2, <3>3 DEF QuietStep, Busy
  <2> QED
    BY <1>1, <2>1, <2>2, <2>3 DEF Inv, SentOnce
<1>12. OneStoring'
  <2>1. ASSUME NEW e \in Call, call'[e].op \in Storing
        PROVE  call[e].op \in Storing /\ call'[e].doc = call[e].doc
    BY <1>1, <2>1 DEF QuietStep
  <2>2. ASSUME NEW e \in Call, call'[e].op = "insert document"
        PROVE  call[e] = call'[e]
    BY <1>1, <2>2 DEF QuietStep, Storing
  <2>3. ASSUME NEW e \in Call, call'[e].op = "compensate", docs[call'[e].doc].row
        PROVE  call[e].op = "compensate"
    BY <1>1, <2>3 DEF QuietStep
  <2>4. \A e, f \in Call :
            e # f /\ call'[e].op \in Storing /\ call'[f].op \in Storing => call'[e].doc # call'[f].doc
    BY <2>1 DEF Inv, OneStoring
  <2>5. \A e \in Call :
            /\ call'[e].op = "insert document" => docs[call'[e].doc].bytes /\ ~docs[call'[e].doc].row
            /\ call'[e].op = "compensate" /\ docs[call'[e].doc].row => call'[e].doc \in excused'.lostAnswer
    BY <1>2, <2>1, <2>2, <2>3 DEF Inv, OneStoring, ExcusesGrow, Storing
  <2> QED
    BY <1>2, <2>4, <2>5 DEF OneStoring
<1>13. BytesFollowRows'
  <2>1. ASSUME NEW e \in Call, call[e].op \in Storing, docs[call[e].doc].bytes
        PROVE  \/ call[e].doc \in excused'.orphan
               \/ call'[e].op \in Storing /\ call'[e].doc = call[e].doc
    BY <1>1, <2>1 DEF QuietStep
  <2>2. ASSUME NEW d \in DOMAIN docs, docs[d].bytes, ~docs[d].row
        PROVE  \/ d \in excused'.orphan
               \/ \E e \in Call : call'[e].op \in Storing /\ call'[e].doc = d
    <3>1. CASE d \in excused.orphan
      BY <1>2, <3>1 DEF ExcusesGrow
    <3>2. CASE \E e \in Call : call[e].op \in Storing /\ call[e].doc = d
      <4>1. PICK e \in Call : call[e].op \in Storing /\ call[e].doc = d
        BY <3>2
      <4> QED
        BY <2>1, <2>2, <4>1
    <3> QED
      BY <2>2, <3>1, <3>2 DEF Inv, BytesFollowRows, Storing
  <2>3. ASSUME NEW d \in DOMAIN docs, docs[d].row, ~docs[d].bytes
        PROVE  d \in excused'.lostAnswer
    BY <1>2, <2>3 DEF Inv, BytesFollowRows, ExcusesGrow
  <2> QED
    BY <1>2, <2>2, <2>3 DEF BytesFollowRows, Storing
<1>14. CancelledStays'
  <2>1. \A a \in attempts : a.result = "cancelled" => ~MaySend(a.dlv)'
    BY <1>4 DEF Inv, CancelledStays
  <2>2. ASSUME NEW e \in Call, NEW x \in DOMAIN deliveries,
               call'[e].op \in {"number", "record"}, call'[e].dlv = x, call'[e].result = "cancelled"
        PROVE  ~MaySend(x)'
    BY <1>1, <1>4, <2>2 DEF Inv, CancelledStays, QuietStep
  <2>3. ASSUME NEW e \in Call, call'[e].op = "send"
        PROVE  /\ deliveries[call'[e].dlv].named \/ call'[e].current
               /\ (\E a \in attempts : a.dlv = call'[e].dlv /\ a.result = "cancelled")
                     => call'[e].dlv \in excused'.overlap
    <3>1. CASE e = c
      <4>1. next.op = "send" /\ next.dlv \in DOMAIN deliveries
        BY <1>1, <2>3, <3>1, CallFields DEF QuietStep
      <4>2. MaySend(next.dlv) /\ next.current = ~Superseded(deliveries[next.dlv].doc)
        BY <4>1 DEF QuietStep
      <4>3. deliveries[next.dlv].named \/ next.current
        BY <4>2 DEF MaySend, Eligible
      <4>4. \A a \in attempts : a.dlv = next.dlv => a.result # "cancelled"
        BY <4>2 DEF Inv, CancelledStays
      <4> QED
        BY <1>1, <3>1, <4>3, <4>4
    <3>2. CASE e # c
      BY <1>1, <1>2, <2>3, <3>2 DEF Inv, CancelledStays, ExcusesGrow
    <3> QED  BY <3>1, <3>2
  <2> QED
    BY <1>2, <2>1, <2>2, <2>3 DEF CancelledStays
<1> QED
  BY <1>3, <1>5, <1>6, <1>7, <1>10, <1>11, <1>12, <1>13, <1>14 DEF Inv

-----------------------------------------------------------------------------
(* The actions that write no row are quiet steps.                          *)

NoExcuses == excused' = excused

LEMMA SameExcuses == ASSUME Inv, NoExcuses PROVE ExcusesGrow
  BY DEF Inv, TypeOK, ExcusesGrow, NoExcuses, ExcuseType

LEMMA ExcuseFields ==
    ASSUME Inv
    PROVE  /\ excused.lostAnswer \subseteq DOMAIN docs /\ excused.orphan \subseteq DOMAIN docs
           /\ excused.overlap \subseteq DOMAIN deliveries /\ excused.lostResult \subseteq DOMAIN deliveries
           /\ excused = [lostAnswer |-> excused.lostAnswer, orphan |-> excused.orphan,
                         overlap |-> excused.overlap, lostResult |-> excused.lostResult]
  BY DEF Inv, TypeOK

LEMMA CallIsWellFormed ==
    ASSUME Inv, NEW c \in Call
    PROVE  /\ call[c] \in CallType
           /\ call[c].op \in Storing => call[c].doc \in DOMAIN docs
           /\ call[c].op \in {"find", "insert delivery"} =>
                 call[c].doc \in DOMAIN docs /\ call[c].to \in Recipient
           /\ call[c].op \in Busy \cup {"load"} => call[c].dlv \in DOMAIN deliveries
           /\ call[c].op \in {"number", "record"} => call[c].result \in Result
  BY CallIsTyped, CallFields DEF Inv, Storing, Busy

\* A request that ends.
LEMMA EndsQuietly ==
    ASSUME Inv, NEW c \in Call, UNCHANGED <<rows, accepted>>, ExcusesGrow, Step(c, Idle),
           Owes(c, call[c].dlv) => call[c].dlv \in excused'.lostResult,
           call[c].op \in Storing => call[c].doc \in excused'.orphan
    PROVE  Inv'
<1>1. Idle.op = "idle" /\ Idle \in CallType
  BY DEF Idle, CallType
<1>2. QuietStep(c, Idle)
  BY <1>1 DEF QuietStep, Owes, Storing, Busy
<1> QED
  BY <1>2, QuietInv

LEMMA BeginGenerateInv == ASSUME Inv, NEW c \in Call, NEW i \in DOMAIN issues, BeginGenerate(c, i) PROVE Inv'
<1> DEFINE next == [op |-> "put", issue |-> i, seq |-> NextSequence(i)]
<1>1. next \in PutCall
  BY SequenceFacts DEF PutCall
<1>2. next \in CallType /\ next.op = "put" /\ next.issue = i /\ next.seq = NextSequence(i)
  BY <1>1, CallParts
<1>3. call[c].op = "idle" /\ UNCHANGED <<rows, accepted>> /\ NoExcuses /\ Step(c, next)
  BY DEF BeginGenerate, Idle, rows, NoExcuses
<1> HIDE DEF next
<1>4. QuietStep(c, next)
  BY <1>2, <1>3, SameExcuses DEF QuietStep, Storing, Busy
<1> QED
  BY <1>4, QuietInv

LEMMA RefuseDocumentInv == ASSUME Inv, NEW c \in Call, RefuseDocument(c) PROVE Inv'
<1> DEFINE next == [op |-> "compensate", doc |-> call[c].doc]
<1>1. call[c].op = "insert document" /\ UNCHANGED <<rows, accepted>> /\ NoExcuses /\ Step(c, next)
  BY DEF RefuseDocument, NoExcuses
<1>2. next \in DocumentCall
  BY <1>1, CallIsWellFormed DEF DocumentCall, Storing
<1>3. next \in CallType /\ next.op = "compensate" /\ next.doc = call[c].doc
  BY <1>2, CallParts
<1> HIDE DEF next
<1>4. ~docs[next.doc].row
  BY <1>1, <1>3 DEF Inv, OneStoring
<1>5. QuietStep(c, next)
  BY <1>1, <1>3, <1>4, SameExcuses DEF QuietStep, Storing, Busy
<1> QED
  BY <1>5, QuietInv

LEMMA BeginAuthorizeInv ==
    ASSUME Inv, NEW c \in Call, NEW d \in DOMAIN docs, NEW to \in Recipient, NEW named \in BOOLEAN,
           NEW execute \in BOOLEAN, BeginAuthorize(c, d, to, named, execute)
    PROVE  Inv'
<1> DEFINE next == [op |-> "find", doc |-> d, to |-> to, named |-> named, execute |-> execute]
<1>1. next \in AuthorizeCall
  BY DEF AuthorizeCall
<1>2. next \in CallType /\ next.op = "find"
  BY <1>1, CallParts
<1>3. call[c].op = "idle" /\ UNCHANGED <<rows, accepted>> /\ NoExcuses /\ Step(c, next)
  BY DEF BeginAuthorize, Idle, NoExcuses
<1> HIDE DEF next
<1>4. QuietStep(c, next)
  BY <1>2, <1>3, SameExcuses DEF QuietStep, Storing, Busy
<1> QED
  BY <1>4, QuietInv

LEMMA LoadQuietly ==
    ASSUME Inv, NEW c \in Call, NEW x \in DOMAIN deliveries, call[c].op \notin Busy \cup Storing,
           UNCHANGED <<rows, accepted>>, NoExcuses, Step(c, [op |-> "load", dlv |-> x])
    PROVE  Inv'
<1> DEFINE next == [op |-> "load", dlv |-> x]
<1>1. next \in LoadCall
  BY DEF LoadCall
<1>2. next \in CallType /\ next.op = "load"
  BY <1>1, CallParts
<1>3. Step(c, next)
  OBVIOUS
<1> HIDE DEF next
<1>4. QuietStep(c, next)
  BY <1>2, <1>3, SameExcuses DEF QuietStep, Storing, Busy
<1> QED
  BY <1>4, QuietInv

LEMMA FindDeliveryInv == ASSUME Inv, NEW c \in Call, FindDelivery(c) PROVE Inv'
<1> DEFINE old == Existing(call[c].doc, call[c].to)
<1>1. call[c].op = "find" /\ UNCHANGED <<rows, accepted>> /\ NoExcuses
  BY DEF FindDelivery, NoExcuses
<1>2. CASE old = {}
  <2> DEFINE next == [call[c] EXCEPT !.op = "insert delivery"]
  <2>1. Step(c, next)
    BY <1>2 DEF FindDelivery
  <2>2. call[c] \in AuthorizeCall
    BY <1>1, CallIsWellFormed, AuthorizeIsTyped
  <2>3. next \in AuthorizeCall /\ next.op = "insert delivery"
    BY <2>2 DEF AuthorizeCall
  <2>4. next \in CallType
    BY <2>3, CallParts
  <2> HIDE DEF next
  <2>5. QuietStep(c, next)
    BY <1>1, <2>1, <2>3, <2>4, SameExcuses DEF QuietStep, Storing, Busy
  <2> QED
    BY <2>5, QuietInv
<1>3. CASE old # {}
  <2>1. PICK x \in old : Step(c, IF call[c].execute /\ DerivedState(x) # "accepted"
                                 THEN [op |-> "load", dlv |-> x] ELSE Idle)
    BY <1>3 DEF FindDelivery
  <2>2. x \in DOMAIN deliveries
    BY <2>1 DEF Existing
  <2>3. CASE Step(c, [op |-> "load", dlv |-> x])
    BY <1>1, <2>2, <2>3, LoadQuietly DEF Busy, Storing
  <2>4. CASE Step(c, Idle)
    BY <1>1, <2>4, EndsQuietly, SameExcuses DEF Owes, Storing
  <2> QED
    BY <2>1, <2>3, <2>4
<1> QED
  BY <1>2, <1>3

LEMMA BeginExecuteInv ==
    ASSUME Inv, NEW c \in Call, NEW x \in DOMAIN deliveries, BeginExecute(c, x)
    PROVE  Inv'
<1>1. call[c].op = "idle"
  BY DEF BeginExecute, Idle
<1>2. UNCHANGED <<rows, accepted>> /\ NoExcuses /\ Step(c, [op |-> "load", dlv |-> x])
  BY DEF BeginExecute, NoExcuses
<1> QED
  BY <1>1, <1>2, LoadQuietly DEF Busy, Storing

LEMMA LoadAttemptsInv == ASSUME Inv, NEW c \in Call, LoadAttempts(c) PROVE Inv'
<1> DEFINE x == call[c].dlv
<1>1. call[c].op = "load" /\ UNCHANGED <<rows, accepted>> /\ x \in DOMAIN deliveries
  BY CallIsWellFormed DEF LoadAttempts
<1>2. CASE DerivedState(x) = "accepted"
  <2>1. Step(c, Idle) /\ NoExcuses
    BY <1>2 DEF LoadAttempts, NoExcuses
  <2> QED
    BY <1>1, <2>1, EndsQuietly, SameExcuses DEF Owes, Storing
<1>3. CASE DerivedState(x) # "accepted"
  <2> DEFINE next == [op |-> "check", dlv |-> x]
  <2>1. /\ Step(c, next)
        /\ excused' = IF Attempting(x) # {} THEN [excused EXCEPT !.overlap = @ \cup {x}] ELSE excused
    BY <1>3 DEF LoadAttempts
  <2>2. next \in LoadCall
    BY <1>1 DEF LoadCall
  <2>3. next \in CallType /\ next.op = "check" /\ next.dlv = x
    BY <2>2, CallParts
  <2>4. ExcusesGrow /\ (Attempting(x) # {} => x \in excused'.overlap)
    <3>1. CASE Attempting(x) = {}
      BY <2>1, <3>1, SameExcuses DEF NoExcuses
    <3>2. CASE Attempting(x) # {}
      <4>1. excused' = [excused EXCEPT !.overlap = @ \cup {x}]
        BY <2>1, <3>2
      <4>2. excused \in ExcuseType
        BY DEF Inv, TypeOK, ExcuseType
      <4> QED
        BY <1>1, <4>1, <4>2 DEF ExcusesGrow, ExcuseType
    <3> QED
      BY <3>1, <3>2
  <2>5. ~Taken(x)
    BY <1>3 DEF DerivedState, Taken, AttemptsOf
  <2>6. (\E e \in Call \ {c} : call[e].op \in Busy /\ call[e].dlv = x) => Attempting(x) # {}
    BY DEF Attempting, Busy
  <2> HIDE DEF next
  <2>7. QuietStep(c, next)
    BY <1>1, <2>1, <2>3, <2>4, <2>5, <2>6 DEF QuietStep, Storing, Busy
  <2> QED
    BY <2>7, QuietInv
<1> QED
  BY <1>2, <1>3

LEMMA CheckEligibilityInv == ASSUME Inv, NEW c \in Call, CheckEligibility(c) PROVE Inv'
<1> DEFINE x == call[c].dlv
<1> DEFINE d == deliveries[x].doc
<1>1. /\ call[c].op = "check" /\ UNCHANGED <<rows, accepted>> /\ x \in DOMAIN deliveries
      /\ NoExcuses
  BY CallIsWellFormed DEF CheckEligibility, Busy, NoExcuses
<1>2. CASE MaySend(x)
  <2> DEFINE next == [op |-> "send", dlv |-> x, current |-> ~Superseded(d)]
  <2>1. Step(c, next)
    BY <1>2 DEF CheckEligibility, MaySend
  <2>2. next \in SendCall
    BY <1>1 DEF SendCall
  <2>3. next \in CallType /\ next.op = "send" /\ next.dlv = x /\ next.current = ~Superseded(deliveries[x].doc)
    BY <2>2, CallParts
  <2> HIDE DEF next
  <2>4. QuietStep(c, next)
    BY <1>1, <1>2, <2>1, <2>3, SameExcuses DEF QuietStep, Storing, Busy
  <2> QED
    BY <2>4, QuietInv
<1>3. CASE ~MaySend(x)
  <2> DEFINE next == [op |-> "number", dlv |-> x, result |-> "cancelled"]
  <2>1. Step(c, next)
    BY <1>3 DEF CheckEligibility, MaySend
  <2>2. next \in NumberCall
    BY <1>1 DEF NumberCall, Result
  <2>3. next \in CallType /\ next.op = "number" /\ next.dlv = x /\ next.result = "cancelled"
    BY <2>2, CallParts
  <2> HIDE DEF next
  <2>4. QuietStep(c, next)
    BY <1>1, <1>3, <2>1, <2>3, SameExcuses DEF QuietStep, Storing, Busy
  <2> QED
    BY <2>4, QuietInv
<1> QED
  BY <1>2, <1>3

\* The provider refused, or the bytes are gone.
LEMMA SendInvNotAccepted == ASSUME Inv, NEW c \in Call, Send(c), UNCHANGED accepted PROVE Inv'
<1> DEFINE x == call[c].dlv
<1>1. /\ call[c].op = "send" /\ UNCHANGED <<rows, accepted>> /\ x \in DOMAIN deliveries
      /\ NoExcuses
  BY CallIsWellFormed DEF Send, Busy, NoExcuses
<1>2. accepted # [accepted EXCEPT ![x] = @ + 1]
  <2>1. accepted[x] \in Nat /\ x \in DOMAIN accepted
    BY <1>1, AcceptedNat
  <2> QED
    BY <2>1
<1>3. CASE Step(c, Idle)
  BY <1>1, <1>3, EndsQuietly, SameExcuses DEF Owes, Storing
<1>4. CASE Step(c, [op |-> "number", dlv |-> x, result |-> "failed"])
  <2> DEFINE next == [op |-> "number", dlv |-> x, result |-> "failed"]
  <2>1. Step(c, next)
    BY <1>4
  <2>2. next \in NumberCall
    BY <1>1 DEF NumberCall, Result
  <2>3. next \in CallType /\ next.op = "number" /\ next.dlv = x /\ next.result = "failed"
    BY <2>2, CallParts
  <2> HIDE DEF next
  <2>4. QuietStep(c, next)
    BY <1>1, <2>1, <2>3, SameExcuses DEF QuietStep, Storing, Busy
  <2> QED
    BY <2>4, QuietInv
<1> QED
  BY <1>2, <1>3, <1>4 DEF Send

LEMMA ReadNumberInv == ASSUME Inv, NEW c \in Call, ReadNumber(c) PROVE Inv'
<1> DEFINE x == call[c].dlv
<1> DEFINE next == [op |-> "record", dlv |-> x, result |-> call[c].result, n |-> NextNumber(x)]
<1>1. /\ call[c].op = "number" /\ UNCHANGED <<rows, accepted>> /\ x \in DOMAIN deliveries
      /\ call[c].result \in Result /\ NoExcuses /\ Step(c, next)
  BY CallIsWellFormed DEF ReadNumber, Busy, NoExcuses
<1>2. next \in RecordCall
  BY <1>1, NumberFacts DEF RecordCall
<1>3. next \in CallType /\ next.op = "record" /\ next.dlv = x /\ next.result = call[c].result /\ next.n = NextNumber(x)
  BY <1>2, CallParts
<1>4. call[c].result = "cancelled" => ~MaySend(x)
  BY <1>1 DEF Inv, CancelledStays
<1> HIDE DEF next
<1>5. QuietStep(c, next)
  BY <1>1, <1>3, <1>4, SameExcuses DEF QuietStep, Storing, Busy, Owes
<1> QED
  BY <1>5, QuietInv

LEMMA FailInv == ASSUME Inv, NEW c \in Call, Fail(c) PROVE Inv'
<1> DEFINE lost == {call[d].dlv : d \in Owing({c})}
<1>1. /\ call[c].op \notin Storing /\ UNCHANGED <<rows, accepted>> /\ Step(c, Idle)
      /\ excused' = [excused EXCEPT !.lostResult = @ \cup lost]
  BY DEF Fail, Storing
<1>2. lost \subseteq DOMAIN deliveries /\ (Owes(c, call[c].dlv) => call[c].dlv \in lost)
  BY CallIsWellFormed DEF Owing, Owes, Busy
<1>3. excused \in ExcuseType
  BY DEF Inv, TypeOK, ExcuseType
<1> HIDE DEF lost
<1>4. ExcusesGrow /\ excused'.lostResult = excused.lostResult \cup lost
  BY <1>1, <1>2, <1>3 DEF ExcusesGrow, ExcuseType
<1> QED
  BY <1>1, <1>2, <1>4, EndsQuietly

-----------------------------------------------------------------------------
(* The actions that write rows.  Those of a document leave the deliveries'  *)
(* part of the invariant alone, and those of a delivery the documents'.     *)

DeliverySide == NumbersGiven /\ OneAttempt /\ TakenIsKnown /\ SentOnce /\ CancelledStays

DocumentSide == SequencesGiven /\ OneStoring /\ BytesFollowRows

LEMMA RowFields ==
    ASSUME Inv
    PROVE  /\ \A x \in DOMAIN deliveries : deliveries[x].doc \in DOMAIN docs
           /\ \A d \in DOMAIN docs :
                 /\ docs[d].issue \in DOMAIN issues /\ docs[d].seq \in Nat \ {0}
                 /\ docs[d].row \in BOOLEAN /\ docs[d].bytes \in BOOLEAN
<1>1. /\ deliveries \in Seq(DlvType) /\ docs \in Seq(DocType)
  BY TypeParts DEF Inv, RowsType
<1>2. \A x \in DOMAIN deliveries : deliveries[x] \in DlvType
  BY <1>1
<1>3. \A d \in DOMAIN docs : docs[d] \in DocType
  BY <1>1
<1> QED
  BY <1>2, <1>3 DEF DlvType, DocType

LEMMA DeliverySideKept ==
    ASSUME Inv, UNCHANGED <<deliveries, attempts, accepted>>,
           excused'.overlap = excused.overlap, excused'.lostResult = excused.lostResult,
           \A e \in Call : call[e].op \in Busy \/ call'[e].op \in Busy => call'[e] = call[e],
           \A x \in DOMAIN deliveries : MaySend(x)' => MaySend(x)
    PROVE  DeliverySide'
<1>1. /\ \A x : Numbers(x)' = Numbers(x) /\ NextNumber(x)' = NextNumber(x) /\ Taken(x)' = Taken(x)
  BY DEF Numbers, NextNumber, AttemptsOf, Taken
<1>2. \A e \in Call : \A x : Owes(e, x)' <=> Owes(e, x)
  BY DEF Owes, Busy
<1>3. NumbersGiven'
  BY <1>1 DEF Inv, NumbersGiven, Busy
<1>4. OneAttempt'
  BY DEF Inv, OneAttempt
<1>5. TakenIsKnown'
  BY <1>1, <1>2 DEF Inv, TakenIsKnown
<1>6. SentOnce'
  BY DEF Inv, SentOnce, Busy
<1>7. CancelledStays'
  <2>1. \A a \in attempts : a.result = "cancelled" => ~MaySend(a.dlv)'
    <3>1. \A a \in attempts : a.dlv \in DOMAIN deliveries
      BY DEF Inv, TypeOK
    <3> QED
      BY <3>1 DEF Inv, CancelledStays
  <2>2. ASSUME NEW e \in Call, NEW x \in DOMAIN deliveries,
               call'[e].op \in {"number", "record"}, call'[e].dlv = x, call'[e].result = "cancelled"
        PROVE  ~MaySend(x)'
    <3>1. call'[e] = call[e]
      BY <2>2 DEF Busy
    <3> QED
      BY <2>2, <3>1 DEF Inv, CancelledStays
  <2>3. ASSUME NEW e \in Call, call'[e].op = "send"
        PROVE  call'[e] = call[e]
    BY <2>3 DEF Busy
  <2> QED
    BY <2>1, <2>2, <2>3 DEF Inv, CancelledStays
<1> QED
  BY <1>3, <1>4, <1>5, <1>6, <1>7 DEF DeliverySide

LEMMA DocumentSideKept ==
    ASSUME Inv, UNCHANGED <<issues, docs>>,
           excused'.orphan = excused.orphan, excused'.lostAnswer = excused.lostAnswer,
           \A e \in Call : call[e].op \in Storing \cup {"put"} \/ call'[e].op \in Storing \cup {"put"}
                              => call'[e] = call[e]
    PROVE  DocumentSide'
<1>1. \A i : Sequences(i)' = Sequences(i) /\ NextSequence(i)' = NextSequence(i)
  BY DEF Sequences, NextSequence
<1>2. SequencesGiven'
  BY <1>1 DEF Inv, SequencesGiven
<1>3. OneStoring'
  <2>1. ASSUME NEW e \in Call, call'[e].op \in Storing
        PROVE  call'[e] = call[e]
    BY <2>1
  <2> QED
    BY <2>1 DEF Inv, OneStoring, Storing
<1>4. BytesFollowRows'
  <2>1. ASSUME NEW e \in Call, call[e].op \in Storing
        PROVE  call'[e] = call[e]
    BY <2>1
  <2> QED
    BY <2>1 DEF Inv, BytesFollowRows, Storing
<1> QED
  BY <1>2, <1>3, <1>4 DEF DocumentSide

\* More issues, documents and rows, and fewer bytes, allow nothing that was forbidden.
LEMMA MaySendShrinks ==
    ASSUME Inv, UNCHANGED deliveries,
           \A i \in DOMAIN issues : i \in DOMAIN issues' /\ issues'[i] = issues[i],
           \A d \in DOMAIN docs :
              /\ d \in DOMAIN docs'
              /\ docs'[d].issue = docs[d].issue /\ docs'[d].seq = docs[d].seq
              /\ docs[d].row => docs'[d].row
              /\ docs'[d].bytes => docs[d].bytes
    PROVE  \A x \in DOMAIN deliveries : MaySend(x)' => MaySend(x)
<1> SUFFICES ASSUME NEW x \in DOMAIN deliveries, MaySend(x)'
             PROVE  MaySend(x)
  OBVIOUS
<1> DEFINE d == deliveries[x].doc
<1>1. d \in DOMAIN docs /\ docs[d].issue \in DOMAIN issues
  BY RowFields
<1>2. docs'[d].bytes /\ (deliveries[x].named \/ ~Superseded(d)')
  BY DEF MaySend, Eligible
<1>3. Superseded(d) => Superseded(d)'
  <2>1. \A i \in DOMAIN issues : IssueSuperseded(i) => IssueSuperseded(i)'
    BY DEF IssueSuperseded
  <2>2. \A i : Sequences(i) \subseteq Sequences(i)'
    BY DEF Sequences
  <2> QED
    BY <1>1, <2>1, <2>2 DEF Superseded
<1> QED
  BY <1>1, <1>2, <1>3 DEF MaySend, Eligible

LEMMA IssueProposalInv == ASSUME Inv, NEW at \in 1 .. MaxIssue, IssueProposal(at) PROVE Inv'
<1>1. /\ issues' = Append(issues, at)
      /\ UNCHANGED <<docs, deliveries, attempts, call, accepted, excused>>
  BY DEF IssueProposal
<1>2. /\ RowsType /\ call \in [Call -> CallType] /\ excused \in ExcuseType
      /\ issues \in Seq(Nat) /\ at \in Nat
  BY TypeParts, DeliveryAssumption DEF Inv, RowsType
<1>3. /\ issues' \in Seq(Nat) /\ DOMAIN issues' = DOMAIN issues \cup {Len(issues) + 1}
      /\ Len(issues) + 1 \notin DOMAIN issues
      /\ \A k \in DOMAIN issues : issues'[k] = issues[k]
  BY <1>1, <1>2, AppendFacts
<1>4. TypeOK'
  <2>1. DocType \subseteq DocType'
    BY <1>1, <1>3 DEF DocType
  <2>2. docs' \in Seq(DocType')
    BY <1>1, <1>2, <2>1, SeqGrows DEF RowsType
  <2>3. RowsType'
    BY <1>1, <1>2, <1>3, <2>2 DEF RowsType, DlvType, AttType
  <2>4. call' \in [Call -> CallType']
    <3>1. \A e \in Call : call[e] \in CallType'
      BY <1>1, <1>2, <1>3, CallTypeGrows
    <3> QED
      BY <1>1, <1>2, <3>1
  <2>5. excused' \in ExcuseType'
    BY <1>1, <1>2 DEF ExcuseType
  <2> QED
    BY <2>3, <2>4, <2>5, RowType DEF Inv
<1>5. DeliverySide'
  <2>1. \A x \in DOMAIN deliveries : MaySend(x)' => MaySend(x)
    BY <1>1, <1>3, MaySendShrinks
  <2> QED
    BY <1>1, <2>1, DeliverySideKept
<1>6. SequencesGiven'
  <2>1. \A i : Sequences(i)' = Sequences(i) /\ NextSequence(i)' = NextSequence(i)
    BY <1>1 DEF Sequences, NextSequence
  <2>2. Sequences(Len(issues) + 1) = {}
    BY <1>3, RowFields DEF Sequences
  <2>3. RunsOn({})
    <3>1. {} = 1 .. 0 /\ 0 \in Nat
      OBVIOUS
    <3> QED
      BY <3>1 DEF RunsOn
  <2> QED
    BY <1>1, <1>3, <2>1, <2>2, <2>3 DEF Inv, SequencesGiven
<1>7. OneStoring' /\ BytesFollowRows'
  BY <1>1 DEF Inv, OneStoring, BytesFollowRows
<1> QED
  BY <1>4, <1>5, <1>6, <1>7 DEF Inv, DeliverySide, DocumentSide

\* The tables' types when only documents are written.
LEMMA DocsType ==
    ASSUME Inv, UNCHANGED <<issues, deliveries, attempts, accepted>>, docs' \in Seq(DocType),
           DOMAIN docs \subseteq DOMAIN docs'
    PROVE  RowsType' /\ CallType \subseteq CallType' /\ ExcuseType \subseteq ExcuseType'
<1>1. RowsType
  BY TypeParts DEF Inv
<1>2. DlvType \subseteq DlvType' /\ DocType' = DocType /\ AttType' = AttType
  BY DEF DlvType, DocType, AttType
<1>3. deliveries' \in Seq(DlvType')
  BY <1>1, <1>2, SeqGrows DEF RowsType
<1>4. RowsType'
  BY <1>1, <1>2, <1>3 DEF RowsType
<1>5. \A r \in CallType : r \in CallType'
  BY CallTypeGrows
<1>6. ExcuseType \subseteq ExcuseType'
  BY DEF ExcuseType
<1> QED
  BY <1>4, <1>5, <1>6

LEMMA PutBytesInv == ASSUME Inv, NEW c \in Call, PutBytes(c) PROVE Inv'
<1> DEFINE doc == [issue |-> call[c].issue, seq |-> call[c].seq, row |-> FALSE, bytes |-> TRUE]
<1> DEFINE new == Len(docs) + 1
<1> DEFINE next == [op |-> "insert document", doc |-> new]
<1>1. /\ call[c].op = "put" /\ docs' = Append(docs, doc) /\ Step(c, next)
      /\ UNCHANGED <<issues, deliveries, attempts, accepted, excused>>
  BY DEF PutBytes
<1>2. call[c].issue \in DOMAIN issues /\ call[c].seq \in Nat \ {0}
  BY <1>1, CallIsTyped, CallFields DEF Inv
<1>3. docs \in Seq(DocType) /\ doc \in DocType /\ excused \in ExcuseType
  BY <1>2, TypeParts DEF Inv, RowsType, DocType
<1>4. doc.issue = call[c].issue /\ doc.seq = call[c].seq /\ doc.row = FALSE /\ doc.bytes = TRUE
  OBVIOUS
<1> HIDE DEF doc
<1>5. /\ docs' \in Seq(DocType) /\ docs'[new] = doc /\ new \notin DOMAIN docs
      /\ \A d \in DOMAIN docs : docs'[d] = docs[d]
      /\ DOMAIN docs' = DOMAIN docs \cup {new}
  <2>1. /\ Append(docs, doc) \in Seq(DocType) /\ Append(docs, doc)[Len(docs) + 1] = doc
        /\ \A d \in DOMAIN docs : Append(docs, doc)[d] = docs[d]
        /\ DOMAIN Append(docs, doc) = DOMAIN docs \cup {Len(docs) + 1}
        /\ Len(docs) + 1 \notin DOMAIN docs
    BY <1>3, AppendFacts
  <2> QED
    BY <1>1, <2>1
<1>6. next.op = "insert document" /\ next.doc = new
  OBVIOUS
<1> HIDE DEF new
<1>7. next \in CallType'
  BY <1>5 DEF CallType
<1> HIDE DEF next
<1>8. call'[c] = next /\ \A e \in Call \ {c} : call'[e] = call[e]
  BY <1>1, StepFacts DEF Inv
<1>9. TypeOK'
  <2>1. RowsType' /\ excused' \in ExcuseType'
    BY <1>1, <1>3, <1>5, DocsType
  <2>2. call' \in [Call -> CallType']
    BY <1>1, <1>5, <1>7, CallStep DEF Inv
  <2> QED
    BY <2>1, <2>2, RowType DEF Inv
<1>10. DeliverySide'
  <2>1. \A x \in DOMAIN deliveries : MaySend(x)' => MaySend(x)
    BY <1>1, <1>5, MaySendShrinks
  <2>2. \A e \in Call : call[e].op \in Busy \/ call'[e].op \in Busy => call'[e] = call[e]
    BY <1>1, <1>6, <1>8 DEF Busy
  <2> QED
    BY <1>1, <2>1, <2>2, DeliverySideKept
<1>11. SequencesGiven'
  <2>1. \A i : Sequences(i)' = Sequences(i)
    BY <1>4, <1>5 DEF Sequences
  <2>2. \A i : NextSequence(i)' = NextSequence(i)
    BY <2>1 DEF NextSequence
  <2>3. call[c].seq \in Sequences(call[c].issue) \cup {NextSequence(call[c].issue)}
    BY <1>1 DEF Inv, SequencesGiven
  <2>4. \A d \in DOMAIN docs' : docs'[d].seq \in Sequences(docs'[d].issue) \cup {NextSequence(docs'[d].issue)}
    BY <1>5, <1>4, <2>3 DEF Inv, SequencesGiven
  <2>5. \A d, e \in DOMAIN docs' :
           docs'[d].row /\ docs'[e].row /\ docs'[d].issue = docs'[e].issue /\ docs'[d].seq = docs'[e].seq => d = e
    BY <1>4, <1>5 DEF Inv, SequencesGiven
  <2>6. \A e \in Call : call'[e].op = "put" => call'[e] = call[e]
    BY <1>6, <1>8
  <2> QED
    BY <1>1, <2>1, <2>2, <2>4, <2>5, <2>6 DEF Inv, SequencesGiven
<1>12. OneStoring'
  <2>1. ASSUME NEW e \in Call \ {c}, call'[e].op \in Storing
        PROVE  call'[e] = call[e] /\ call[e].doc \in DOMAIN docs
    BY <1>8, <2>1, CallIsWellFormed
  <2>2. next.op \in Storing /\ next.op # "compensate"
    BY <1>6 DEF Storing
  <2>3. ASSUME NEW e \in Call, NEW f \in Call, e # f, call'[e].op \in Storing, call'[f].op \in Storing
        PROVE  call'[e].doc # call'[f].doc
    <3>1. CASE e # c /\ f # c
      BY <2>1, <2>3, <3>1 DEF Inv, OneStoring
    <3>2. CASE e = c \/ f = c
      BY <1>5, <1>6, <1>8, <2>1, <2>3, <3>2
    <3> QED
      BY <3>1, <3>2
  <2>4. ASSUME NEW e \in Call \ {c}
        PROVE  /\ call'[e].op = "insert document" => docs'[call'[e].doc].bytes /\ ~docs'[call'[e].doc].row
               /\ call'[e].op = "compensate" /\ docs'[call'[e].doc].row => call'[e].doc \in excused'.lostAnswer
    <3>1. CASE call'[e].op \in Storing
      <4>1. call'[e] = call[e] /\ call[e].doc \in DOMAIN docs
        BY <2>1, <3>1
      <4>2. docs'[call[e].doc] = docs[call[e].doc] /\ excused' = excused
        BY <1>1, <1>5, <4>1
      <4> QED
        BY <4>1, <4>2 DEF Inv, OneStoring
    <3>2. CASE call'[e].op \notin Storing
      BY <3>2 DEF Storing
    <3> QED
      BY <3>1, <3>2
  <2>5. /\ docs'[next.doc].bytes /\ ~docs'[next.doc].row
    BY <1>4, <1>5, <1>6
  <2> QED
    BY <1>8, <2>2, <2>3, <2>4, <2>5 DEF OneStoring
<1>13. BytesFollowRows'
  <2>1. \A e \in Call : call[e].op \in Storing => call'[e] = call[e]
    BY <1>1, <1>8 DEF Storing
  <2>2. ASSUME NEW d \in DOMAIN docs, docs[d].bytes, ~docs[d].row
        PROVE  \/ d \in excused.orphan
               \/ \E e \in Call : call'[e].op \in Storing /\ call'[e].doc = d
    BY <2>1, <2>2 DEF Inv, BytesFollowRows, Storing
  <2>3. \A d \in DOMAIN docs : docs[d].row /\ ~docs[d].bytes => d \in excused.lostAnswer
    BY DEF Inv, BytesFollowRows
  <2>4. call'[c].op \in Storing /\ call'[c].doc = new
    BY <1>6, <1>8 DEF Storing
  <2> QED
    BY <1>1, <1>5, <1>4, <2>2, <2>3, <2>4 DEF BytesFollowRows, Storing
<1> QED
  BY <1>9, <1>10, <1>11, <1>12, <1>13 DEF Inv, DeliverySide, DocumentSide

LEMMA CommitDocumentInv == ASSUME Inv, NEW c \in Call, CommitDocument(c) PROVE Inv'
<1>0. PICK d : d = call[c].doc
  OBVIOUS
<1>1. PICK next \in {Idle, [op |-> "compensate", doc |-> d]} :
         /\ Step(c, next)
         /\ next = Idle => excused' = excused
         /\ next # Idle => excused' = [excused EXCEPT !.lostAnswer = @ \cup {d}]
  <2>1. CASE Step(c, Idle) /\ UNCHANGED excused
    BY <2>1
  <2>2. CASE /\ Step(c, [op |-> "compensate", doc |-> d])
             /\ excused' = [excused EXCEPT !.lostAnswer = @ \cup {d}]
    <3>1. [op |-> "compensate", doc |-> d] # Idle
      <4>1. [op |-> "compensate", doc |-> d].op # Idle.op
        BY DEF Idle
      <4> QED
        BY <4>1
    <3> QED
      BY <2>2, <3>1
  <2> QED
    BY <1>0, <2>1, <2>2 DEF CommitDocument
<1>2. /\ call[c].op = "insert document" /\ Unnumbered(d) /\ docs' = [docs EXCEPT ![d].row = TRUE]
      /\ UNCHANGED <<issues, deliveries, attempts, accepted>>
  BY <1>0 DEF CommitDocument
<1>3. d \in DOMAIN docs
  BY <1>0, <1>2, CallIsWellFormed DEF Storing
<1>4. docs \in Seq(DocType) /\ docs[d] \in DocType /\ excused \in ExcuseType
  BY <1>3, TypeParts DEF Inv, RowsType
<1>5. /\ DOMAIN docs' = DOMAIN docs /\ docs'[d] = [docs[d] EXCEPT !.row = TRUE]
      /\ \A e \in DOMAIN docs \ {d} : docs'[e] = docs[e]
  BY <1>2, <1>3, <1>4
<1>6. /\ docs'[d].row /\ docs'[d].issue = docs[d].issue /\ docs'[d].seq = docs[d].seq
      /\ docs'[d].bytes = docs[d].bytes /\ docs'[d] \in DocType
  BY <1>4, <1>5 DEF DocType
<1>7. docs' \in Seq(DocType)
  <2>1. DOMAIN docs' = 1 .. Len(docs) /\ Len(docs) \in Nat
    BY <1>4, <1>5
  <2>2. \A e \in DOMAIN docs : docs'[e] \in DocType
    BY <1>4, <1>5, <1>6
  <2>3. docs' = [e \in 1 .. Len(docs) |-> docs'[e]]
    BY <1>2, <1>4, <2>1
  <2> QED
    BY <1>4, <2>1, <2>2, <2>3
<1>8. docs[d].bytes /\ ~docs[d].row
  BY <1>0, <1>2 DEF Inv, OneStoring
<1>9. next \in CallType /\ (next = Idle \/ (next.op = "compensate" /\ next.doc = d))
  <2>1. Idle \in CallType
    BY DEF CallType
  <2>2. [op |-> "compensate", doc |-> d] \in CallType
    <3>1. [op |-> "compensate", doc |-> d] \in DocumentCall
      BY <1>3 DEF DocumentCall
    <3> QED
      BY <3>1, CallParts
  <2>3. [op |-> "compensate", doc |-> d].op = "compensate" /\ [op |-> "compensate", doc |-> d].doc = d
    OBVIOUS
  <2>4. CASE next = Idle
    BY <2>1, <2>4
  <2>5. CASE next = [op |-> "compensate", doc |-> d]
    BY <2>2, <2>3, <2>5
  <2> QED
    BY <1>1, <2>4, <2>5
<1>10. Idle.op = "idle"
  BY DEF Idle
<1>11. call'[c] = next /\ \A e \in Call \ {c} : call'[e] = call[e]
  BY <1>1, StepFacts DEF Inv
<1>12. /\ excused' \in ExcuseType
       /\ excused'.orphan = excused.orphan /\ excused'.overlap = excused.overlap
       /\ excused'.lostResult = excused.lostResult
       /\ excused.lostAnswer \subseteq excused'.lostAnswer
       /\ next # Idle => d \in excused'.lostAnswer
  BY <1>1, <1>3, <1>4 DEF ExcuseType
<1>13. TypeOK'
  <2>1. RowsType' /\ excused' \in ExcuseType' /\ next \in CallType'
    BY <1>2, <1>5, <1>7, <1>9, <1>12, DocsType
  <2>2. call' \in [Call -> CallType']
    BY <1>1, <1>2, <1>5, <2>1, CallStep DEF Inv
  <2> QED
    BY <2>1, <2>2, RowType DEF Inv
<1>14. DeliverySide'
  <2>1. \A x \in DOMAIN deliveries : MaySend(x)' => MaySend(x)
    BY <1>2, <1>5, <1>6, MaySendShrinks
  <2>2. \A e \in Call : call[e].op \in Busy \/ call'[e].op \in Busy => call'[e] = call[e]
    BY <1>2, <1>9, <1>10, <1>11 DEF Busy
  <2> QED
    BY <1>2, <1>12, <2>1, <2>2, DeliverySideKept
<1>15. SequencesGiven'
  <2>0. PICK i, n : i = docs[d].issue /\ n = docs[d].seq
    OBVIOUS
  <2> DEFINE Row(e, j, m) == docs[e].row /\ docs[e].issue = j /\ docs[e].seq = m
  <2>a. \A j, m : m \in Sequences(j) <=> \E e \in DOMAIN docs : Row(e, j, m)
    BY DEF Sequences
  <2>b. \A j, m : m \in Sequences(j)' <=> \E e \in DOMAIN docs' : Row(e, j, m)'
    BY DEF Sequences
  <2>c. /\ \A e \in DOMAIN docs \ {d} : \A j, m : Row(e, j, m)' <=> Row(e, j, m)
        /\ \A j, m : Row(d, j, m)' <=> j = i /\ m = n
        /\ \A j, m : ~Row(d, j, m)
    BY <1>5, <1>6, <1>8, <2>0
  <2> HIDE DEF Row
  <2>d. \A j, m : m \in Sequences(j)' <=> m \in Sequences(j) \/ (j = i /\ m = n)
    <3>1. ASSUME NEW j, NEW m, m \in Sequences(j)'
          PROVE  m \in Sequences(j) \/ (j = i /\ m = n)
      BY <1>5, <2>a, <2>b, <2>c, <3>1
    <3>2. ASSUME NEW j, NEW m, m \in Sequences(j)
          PROVE  m \in Sequences(j)'
      BY <1>5, <2>a, <2>b, <2>c, <3>2
    <3>3. n \in Sequences(i)'
      BY <1>3, <1>5, <2>b, <2>c
    <3> QED
      BY <3>1, <3>2, <3>3
  <2>1. Sequences(i)' = Sequences(i) \cup {n}
    BY <2>d
  <2>2. ASSUME NEW j \in DOMAIN issues \ {i}
        PROVE  Sequences(j)' = Sequences(j)
    <3>1. \A m : m \in Sequences(j)' <=> m \in Sequences(j)
      BY <2>d
    <3> QED
      BY <3>1
  <2>3. /\ i \in DOMAIN issues /\ n \in Sequences(i) \cup {NextSequence(i)} /\ n \notin Sequences(i)
    BY <1>2, <1>3, <2>0, RowFields DEF Inv, SequencesGiven, Unnumbered
  <2>4. /\ RunsOn(Sequences(i)')
        /\ Sequences(i) \cup {NextSequence(i)} \subseteq Sequences(i)' \cup {NextSequence(i)'}
    <3>1. PICK S : S = Sequences(i)
      OBVIOUS
    <3>2. RunsOn(S) /\ NextSequence(i) = Greatest(S) + 1 /\ n \in S \cup {Greatest(S) + 1}
      BY <2>3, <3>1, SequenceFacts
    <3>3. NextSequence(i)' = Greatest(S \cup {n}) + 1 /\ Sequences(i)' = S \cup {n}
      BY <2>1, <3>1 DEF NextSequence
    <3>4. /\ RunsOn(S \cup {n})
          /\ S \cup {Greatest(S) + 1} \subseteq (S \cup {n}) \cup {Greatest(S \cup {n}) + 1}
      BY <3>2, RunGrows
    <3> QED
      BY <3>1, <3>2, <3>3, <3>4
  <2>5. \A j \in DOMAIN issues \ {i} : NextSequence(j)' = NextSequence(j)
    BY <2>2 DEF NextSequence
  <2>6. \A j \in DOMAIN issues :
           /\ RunsOn(Sequences(j)')
           /\ Sequences(j) \cup {NextSequence(j)} \subseteq Sequences(j)' \cup {NextSequence(j)'}
    BY <2>2, <2>4, <2>5 DEF Inv, SequencesGiven
  <2>7. \A e \in DOMAIN docs : docs'[e].issue = docs[e].issue /\ docs'[e].seq = docs[e].seq
    BY <1>5, <1>6
  <2>8. ASSUME NEW e \in DOMAIN docs, NEW f \in DOMAIN docs, docs'[e].row, docs'[f].row,
               docs'[e].issue = docs'[f].issue, docs'[e].seq = docs'[f].seq
        PROVE  e = f
    <3>1. \A g \in DOMAIN docs : docs[g].row /\ docs[g].issue = i => docs[g].seq # n
      BY <2>3 DEF Sequences
    <3>2. CASE e # d /\ f # d
      BY <1>5, <2>8, <3>2 DEF Inv, SequencesGiven
    <3>3. CASE e = d /\ f # d
      BY <1>5, <2>7, <2>8, <3>1, <3>3, <2>0
    <3>4. CASE e # d /\ f = d
      BY <1>5, <2>7, <2>8, <3>1, <3>4, <2>0
    <3> QED
      BY <3>2, <3>3, <3>4
  <2>9. ASSUME NEW e \in DOMAIN docs, NEW j, docs'[e].issue = j
        PROVE  docs'[e].seq \in Sequences(j)' \cup {NextSequence(j)'}
    <3>1. docs[e].issue = j /\ j \in DOMAIN issues /\ docs'[e].seq = docs[e].seq
      BY <2>7, <2>9, RowFields
    <3>2. docs[e].seq \in Sequences(j) \cup {NextSequence(j)}
      BY <3>1 DEF Inv, SequencesGiven
    <3> QED
      BY <2>6, <3>1, <3>2
  <2>10. ASSUME NEW e \in Call, NEW j, call'[e].op = "put", call'[e].issue = j
         PROVE  call'[e].seq \in Sequences(j)' \cup {NextSequence(j)'}
    <3>1. call'[e] = call[e]
      BY <1>9, <1>10, <1>11, <2>10
    <3>2. j \in DOMAIN issues
      BY <2>10, <3>1, CallIsTyped, CallFields DEF Inv
    <3>3. call[e].seq \in Sequences(j) \cup {NextSequence(j)}
      BY <2>10, <3>1 DEF Inv, SequencesGiven
    <3> QED
      BY <2>6, <3>1, <3>2, <3>3
  <2> QED
    BY <1>2, <1>5, <2>6, <2>8, <2>9, <2>10 DEF SequencesGiven
<1>16. OneStoring'
  <2>1. \A e \in Call : call'[e].op \in Storing => call[e].op \in Storing /\ call'[e].doc = call[e].doc
    BY <1>0, <1>2, <1>9, <1>10, <1>11 DEF Storing
  <2>2. \A e \in Call \ {c} : call[e].op \in Storing => call[e].doc # d /\ call[e].doc \in DOMAIN docs
    BY <1>0, <1>2, CallIsWellFormed DEF Inv, OneStoring, Storing
  <2>3. ASSUME NEW e \in Call \ {c}
        PROVE  /\ call'[e].op = "insert document" => docs'[call'[e].doc].bytes /\ ~docs'[call'[e].doc].row
               /\ call'[e].op = "compensate" /\ docs'[call'[e].doc].row => call'[e].doc \in excused'.lostAnswer
    <3>1. CASE call[e].op \in Storing
      <4>1. docs'[call[e].doc] = docs[call[e].doc]
        BY <1>5, <2>2, <3>1
      <4> QED
        BY <1>11, <1>12, <4>1 DEF Inv, OneStoring
    <3>2. CASE call[e].op \notin Storing
      BY <1>11, <3>2 DEF Storing
    <3> QED
      BY <3>1, <3>2
  <2>4. call'[c].op # "insert document" /\ (call'[c].op = "compensate" => call'[c].doc \in excused'.lostAnswer)
    BY <1>9, <1>10, <1>11, <1>12
  <2>5. \A e, f \in Call :
           e # f /\ call'[e].op \in Storing /\ call'[f].op \in Storing => call'[e].doc # call'[f].doc
    BY <2>1 DEF Inv, OneStoring
  <2> QED
    BY <2>3, <2>4, <2>5 DEF OneStoring
<1>17. BytesFollowRows'
  <2>1. ASSUME NEW e \in DOMAIN docs \ {d}, docs[e].bytes, ~docs[e].row
        PROVE  \/ e \in excused'.orphan
               \/ \E f \in Call : call'[f].op \in Storing /\ call'[f].doc = e
    <3>1. CASE e \in excused.orphan
      BY <1>12, <3>1
    <3>2. CASE \E f \in Call : call[f].op \in Storing /\ call[f].doc = e
      <4>1. PICK f \in Call : call[f].op \in Storing /\ call[f].doc = e
        BY <3>2
      <4>2. f # c
        BY <1>0, <4>1
      <4> QED
        BY <1>11, <4>1, <4>2
    <3> QED
      BY <2>1, <3>1, <3>2 DEF Inv, BytesFollowRows, Storing
  <2>2. \A e \in DOMAIN docs \ {d} : docs[e].row /\ ~docs[e].bytes => e \in excused'.lostAnswer
    BY <1>12 DEF Inv, BytesFollowRows
  <2>3. docs'[d].row /\ docs'[d].bytes
    BY <1>6, <1>8
  <2> QED
    BY <1>5, <2>1, <2>2, <2>3 DEF BytesFollowRows, Storing
<1> QED
  BY <1>13, <1>14, <1>15, <1>16, <1>17 DEF Inv, DeliverySide, DocumentSide

LEMMA CompensateInv == ASSUME Inv, NEW c \in Call, Compensate(c) PROVE Inv'
<1>0. PICK d : d = call[c].doc
  OBVIOUS
<1>1. /\ call[c].op = "compensate" /\ Step(c, Idle)
      /\ UNCHANGED <<issues, deliveries, attempts, accepted>>
  BY DEF Compensate
<1>2. d \in DOMAIN docs
  BY <1>0, <1>1, CallIsWellFormed DEF Storing
<1>3. docs \in Seq(DocType) /\ docs[d] \in DocType /\ excused \in ExcuseType
  BY <1>2, TypeParts DEF Inv, RowsType
<1>4. CASE excused' = [excused EXCEPT !.orphan = @ \cup {d}] /\ UNCHANGED docs
  <2>1. ExcusesGrow /\ d \in excused'.orphan
    BY <1>2, <1>3, <1>4 DEF ExcusesGrow, ExcuseType
  <2>2. UNCHANGED rows
    BY <1>1, <1>4 DEF rows
  <2> QED
    BY <1>0, <1>1, <2>1, <2>2, EndsQuietly DEF Owes
<1>5. CASE docs' = [docs EXCEPT ![d].bytes = FALSE] /\ UNCHANGED excused
  <2>1. /\ DOMAIN docs' = DOMAIN docs /\ docs'[d] = [docs[d] EXCEPT !.bytes = FALSE]
        /\ \A e \in DOMAIN docs \ {d} : docs'[e] = docs[e]
    BY <1>2, <1>3, <1>5
  <2>2. /\ docs'[d].row = docs[d].row /\ docs'[d].issue = docs[d].issue /\ docs'[d].seq = docs[d].seq
        /\ ~docs'[d].bytes /\ docs'[d] \in DocType
    BY <1>3, <2>1 DEF DocType
  <2>3. docs' \in Seq(DocType)
    <3>1. DOMAIN docs' = 1 .. Len(docs) /\ Len(docs) \in Nat
      BY <1>3, <2>1
    <3>2. \A e \in DOMAIN docs : docs'[e] \in DocType
      BY <1>3, <2>1, <2>2
    <3>3. docs' = [e \in 1 .. Len(docs) |-> docs'[e]]
      BY <1>3, <1>5, <3>1
    <3> QED
      BY <1>3, <3>1, <3>2, <3>3
  <2>4. Idle.op = "idle" /\ Idle \in CallType'
    BY DEF Idle, CallType
  <2>5. call'[c] = Idle /\ \A e \in Call \ {c} : call'[e] = call[e]
    BY <1>1, StepFacts DEF Inv
  <2>6. TypeOK'
    <3>1. RowsType' /\ excused' \in ExcuseType'
      BY <1>1, <1>3, <1>5, <2>1, <2>3, DocsType
    <3>2. call' \in [Call -> CallType']
      BY <1>1, <2>1, <2>4, CallStep DEF Inv
    <3> QED
      BY <3>1, <3>2, RowType DEF Inv
  <2>7. DeliverySide'
    <3>1. \A x \in DOMAIN deliveries : MaySend(x)' => MaySend(x)
      BY <1>1, <2>1, <2>2, MaySendShrinks
    <3>2. \A e \in Call : call[e].op \in Busy \/ call'[e].op \in Busy => call'[e] = call[e]
      BY <1>1, <2>4, <2>5 DEF Busy
    <3> QED
      BY <1>1, <1>5, <3>1, <3>2, DeliverySideKept
  <2>8. SequencesGiven'
    <3>1. \A e \in DOMAIN docs :
             /\ docs'[e].row = docs[e].row /\ docs'[e].issue = docs[e].issue /\ docs'[e].seq = docs[e].seq
      BY <2>1, <2>2
    <3>2. \A i : Sequences(i)' = Sequences(i)
      BY <2>1, <3>1 DEF Sequences
    <3>3. \A i : NextSequence(i)' = NextSequence(i)
      BY <3>2 DEF NextSequence
    <3>4. \A e \in Call : call'[e].op = "put" => call'[e] = call[e]
      BY <2>4, <2>5
    <3> QED
      BY <1>1, <2>1, <3>1, <3>2, <3>3, <3>4 DEF Inv, SequencesGiven
  <2>9. OneStoring'
    <3>1. ASSUME NEW e \in Call, call'[e].op \in Storing
          PROVE  e # c /\ call'[e] = call[e] /\ call[e].doc # d /\ docs'[call[e].doc] = docs[call[e].doc]
      <4>1. e # c /\ call'[e] = call[e]
        BY <2>4, <2>5, <3>1 DEF Storing
      <4>2. call[e].doc # d
        BY <1>0, <1>1, <3>1, <4>1 DEF Inv, OneStoring, Storing
      <4>3. call[e].doc \in DOMAIN docs
        BY <3>1, <4>1, CallIsWellFormed
      <4> QED
        BY <2>1, <4>1, <4>2, <4>3
    <3>2. ASSUME NEW e \in Call
          PROVE  /\ call'[e].op = "insert document" => docs'[call'[e].doc].bytes /\ ~docs'[call'[e].doc].row
                 /\ call'[e].op = "compensate" /\ docs'[call'[e].doc].row => call'[e].doc \in excused'.lostAnswer
      <4>1. CASE call'[e].op \in Storing
        BY <1>5, <3>1, <4>1 DEF Inv, OneStoring
      <4>2. CASE call'[e].op \notin Storing
        BY <4>2 DEF Storing
      <4> QED
        BY <4>1, <4>2
    <3>3. ASSUME NEW e \in Call, NEW f \in Call, e # f, call'[e].op \in Storing, call'[f].op \in Storing
          PROVE  call'[e].doc # call'[f].doc
      <4>1. call'[e] = call[e] /\ call'[f] = call[f]
        BY <3>1, <3>3
      <4>2. call[e].op \in Storing /\ call[f].op \in Storing
        BY <3>3, <4>1
      <4>3. call[e].doc # call[f].doc
        BY <3>3, <4>2 DEF Inv, OneStoring
      <4> QED
        BY <4>1, <4>3
    <3> QED
      BY <3>2, <3>3 DEF OneStoring
  <2>10. BytesFollowRows'
    <3>1. ASSUME NEW e \in DOMAIN docs \ {d}, docs[e].bytes, ~docs[e].row
          PROVE  \/ e \in excused.orphan
                 \/ \E f \in Call : call'[f].op \in Storing /\ call'[f].doc = e
      <4>1. CASE \E f \in Call : call[f].op \in Storing /\ call[f].doc = e
        <5>1. PICK f \in Call : call[f].op \in Storing /\ call[f].doc = e
          BY <4>1
        <5>2. f # c
          BY <1>0, <5>1
        <5> QED
          BY <2>5, <5>1, <5>2
      <4> QED
        BY <3>1, <4>1 DEF Inv, BytesFollowRows, Storing
    <3>2. \A e \in DOMAIN docs : docs[e].row /\ ~docs[e].bytes => e \in excused.lostAnswer
      BY DEF Inv, BytesFollowRows
    <3>3. docs[d].row => d \in excused.lostAnswer
      BY <1>0, <1>1 DEF Inv, OneStoring
    <3> QED
      BY <1>5, <2>1, <2>2, <3>1, <3>2, <3>3 DEF BytesFollowRows, Storing
  <2> QED
    BY <2>6, <2>7, <2>8, <2>9, <2>10 DEF Inv, DeliverySide, DocumentSide
<1> QED
  BY <1>0, <1>4, <1>5 DEF Compensate

LEMMA InsertDeliveryInv == ASSUME Inv, NEW c \in Call, InsertDelivery(c) PROVE Inv'
<1>1. call[c].op = "insert delivery" /\ UNCHANGED <<issues, docs, attempts, excused>>
  BY DEF InsertDelivery
<1>2. CASE Existing(call[c].doc, call[c].to) # {}
  <2>1. Step(c, Idle) /\ UNCHANGED <<rows, accepted>> /\ NoExcuses
    BY <1>1, <1>2 DEF InsertDelivery, NoExcuses, rows
  <2> QED
    BY <1>1, <2>1, EndsQuietly, SameExcuses DEF Owes, Storing
<1>3. CASE Existing(call[c].doc, call[c].to) = {}
  <2>0. PICK new, dlv : /\ new = Len(deliveries) + 1
                        /\ dlv = [doc |-> call[c].doc, to |-> call[c].to, named |-> call[c].named]
    OBVIOUS
  <2>1. /\ deliveries' = Append(deliveries, dlv) /\ accepted' = Append(accepted, 0)
        /\ Step(c, Idle) \/ Step(c, [op |-> "load", dlv |-> new])
    BY <1>3, <2>0 DEF InsertDelivery
  <2>2. /\ deliveries \in Seq(DlvType) /\ accepted \in Seq(Nat) /\ Len(accepted) = Len(deliveries)
        /\ excused \in ExcuseType /\ dlv \in DlvType
    <3>1. call[c] \in AuthorizeCall
      BY <1>1, CallIsWellFormed, AuthorizeIsTyped
    <3>2. dlv \in DlvType
      BY <2>0, <3>1 DEF AuthorizeCall, DlvType
    <3> QED
      BY <3>2, TypeParts DEF Inv, RowsType
  <2>3. /\ deliveries' \in Seq(DlvType) /\ new \notin DOMAIN deliveries
        /\ Len(deliveries') = Len(deliveries) + 1
        /\ \A x \in DOMAIN deliveries : deliveries'[x] = deliveries[x]
        /\ DOMAIN deliveries' = DOMAIN deliveries \cup {new}
    BY <2>0, <2>1, <2>2, AppendFacts
  <2>4. /\ accepted' \in Seq(Nat) /\ Len(accepted') = Len(accepted) + 1 /\ accepted'[new] = 0
        /\ \A x \in DOMAIN deliveries : accepted'[x] = accepted[x]
    <3>1. 0 \in Nat /\ DOMAIN accepted = DOMAIN deliveries
      BY <2>2
    <3> QED
      BY <2>0, <2>1, <2>2, <3>1, AppendFacts
  <2>5. PICK next \in {Idle, [op |-> "load", dlv |-> new]} : Step(c, next)
    BY <2>1
  <2>6. next.op \in {"idle", "load"} /\ next \in CallType'
    <3>1. CASE next = Idle
      BY <3>1 DEF Idle, CallType
    <3>2. CASE next = [op |-> "load", dlv |-> new]
      BY <2>3, <3>2 DEF CallType
    <3> QED
      BY <3>1, <3>2
  <2>7. call'[c] = next /\ \A e \in Call \ {c} : call'[e] = call[e]
    BY <2>5, StepFacts DEF Inv
  <2>8. TypeOK'
    <3>1. DlvType' = DlvType /\ DocType' = DocType /\ AttType \subseteq AttType' /\ ExcuseType \subseteq ExcuseType'
      BY <1>1, <2>3 DEF DlvType, DocType, AttType, ExcuseType
    <3>2. RowsType
      BY TypeParts DEF Inv
    <3>3. RowsType'
      BY <1>1, <2>2, <2>3, <2>4, <3>1, <3>2 DEF RowsType
    <3>4. call' \in [Call -> CallType']
      BY <1>1, <2>3, <2>5, <2>6, CallStep DEF Inv
    <3> QED
      BY <1>1, <2>2, <3>1, <3>3, <3>4, RowType DEF Inv
  <2>9. /\ \A e \in Call : call'[e].op \in Busy => call'[e] = call[e] /\ call[e].dlv \in DOMAIN deliveries
        /\ \A e \in Call : call[e].op \in Busy => call'[e] = call[e]
    BY <1>1, <2>6, <2>7, CallIsWellFormed DEF Busy
  <2>10. \A a \in attempts : a.dlv \in DOMAIN deliveries
    BY DEF Inv, TypeOK
  <2>11. /\ \A x : Numbers(x)' = Numbers(x) /\ NextNumber(x)' = NextNumber(x) /\ Taken(x)' = Taken(x)
    BY <1>1 DEF Numbers, NextNumber, AttemptsOf, Taken
  <2>12. ASSUME NEW x \in DOMAIN deliveries
         PROVE  MaySend(x)' <=> MaySend(x)
    <3>1. deliveries'[x] = deliveries[x]
      BY <2>3
    <3>2. \A d : Superseded(d)' <=> Superseded(d)
      BY <1>1 DEF Superseded, IssueSuperseded, Sequences
    <3> QED
      BY <1>1, <3>1, <3>2 DEF MaySend, Eligible
  <2>13. NumbersGiven'
    <3>1. RunsOn(Numbers(new))
      <4>1. Numbers(new) = {} /\ {} = 1 .. 0 /\ 0 \in Nat
        BY <2>3, <2>10 DEF Numbers, AttemptsOf
      <4> QED
        BY <4>1 DEF RunsOn
    <3>2. \A e \in Call : call'[e].op = "record" => call'[e] = call[e]
      BY <2>9 DEF Busy
    <3> QED
      BY <1>1, <2>3, <2>11, <3>1, <3>2 DEF Inv, NumbersGiven
  <2>14. OneAttempt'
    BY <1>1, <2>9 DEF Inv, OneAttempt
  <2>15. \A x : (\E e \in Call : Owes(e, x)') <=> (\E e \in Call : Owes(e, x))
    BY <2>9 DEF Owes, Busy
  <2>16. TakenIsKnown'
    <3>1. ~Taken(new)
      BY <2>3, <2>10 DEF Taken
    <3>2. ASSUME NEW e \in Call, Owes(e, new)
          PROVE  FALSE
      <4>1. call[e].op \in Busy /\ call[e].dlv = new
        BY <3>2 DEF Owes, Busy
      <4> QED
        BY <2>3, <4>1, CallIsWellFormed
    <3>3. ASSUME NEW x \in DOMAIN deliveries'
          PROVE  /\ Taken(x)' \/ (\E e \in Call : Owes(e, x)') => accepted'[x] > 0
                 /\ accepted'[x] > 0 => Taken(x)' \/ x \in excused'.lostResult \/ \E e \in Call : Owes(e, x)'
      <4>1. CASE x = new
        BY <2>4, <2>11, <2>15, <3>1, <3>2, <4>1
      <4>2. CASE x \in DOMAIN deliveries
        BY <1>1, <2>4, <2>11, <2>15, <4>2 DEF Inv, TakenIsKnown
      <4> QED
        BY <2>3, <4>1, <4>2
    <3> QED
      BY <3>3 DEF TakenIsKnown
  <2>17. SentOnce'
    <3>1. ASSUME NEW x \in DOMAIN deliveries, x \notin excused.overlap \cup excused.lostResult
          PROVE  /\ accepted'[x] <= 1
                 /\ \A e \in Call : call'[e].op \in {"check", "send"} /\ call'[e].dlv = x => accepted'[x] = 0
      BY <2>4, <2>9, <3>1 DEF Inv, SentOnce, Busy
    <3>2. accepted'[new] <= 1 /\ accepted'[new] = 0
      BY <2>4
    <3>3. ASSUME NEW x \in DOMAIN deliveries', x \notin excused.overlap \cup excused.lostResult
          PROVE  /\ accepted'[x] <= 1
                 /\ \A e \in Call : call'[e].op \in {"check", "send"} /\ call'[e].dlv = x => accepted'[x] = 0
      BY <2>3, <3>1, <3>2, <3>3
    <3> QED
      BY <1>1, <3>3 DEF SentOnce
  <2>18. CancelledStays'
    <3>1. \A a \in attempts : a.result = "cancelled" => ~MaySend(a.dlv)
      BY DEF Inv, CancelledStays
    <3>2. ASSUME NEW a \in attempts, a.result = "cancelled"
          PROVE  ~MaySend(a.dlv)'
      BY <2>10, <2>12, <3>1, <3>2
    <3>3. ASSUME NEW e \in Call, NEW x \in DOMAIN deliveries',
                 call'[e].op \in {"number", "record"}, call'[e].dlv = x, call'[e].result = "cancelled"
          PROVE  ~MaySend(x)'
      <4>1. call'[e] = call[e] /\ x \in DOMAIN deliveries
        BY <2>9, <3>3 DEF Busy
      <4> QED
        BY <2>12, <3>3, <4>1 DEF Inv, CancelledStays
    <3>4. ASSUME NEW e \in Call, call'[e].op = "send"
          PROVE  /\ deliveries'[call'[e].dlv].named \/ call'[e].current
                 /\ (\E a \in attempts : a.dlv = call'[e].dlv /\ a.result = "cancelled")
                       => call'[e].dlv \in excused.overlap
      <4>1. call'[e] = call[e] /\ call[e].dlv \in DOMAIN deliveries
        BY <2>9, <3>4 DEF Busy
      <4>2. deliveries'[call[e].dlv] = deliveries[call[e].dlv]
        BY <2>3, <4>1
      <4> QED
        BY <3>4, <4>1, <4>2 DEF Inv, CancelledStays
    <3> QED
      BY <1>1, <3>2, <3>3, <3>4 DEF CancelledStays
  <2>19. DocumentSide'
    <3>1. \A e \in Call : call[e].op \in Storing \cup {"put"} \/ call'[e].op \in Storing \cup {"put"}
                             => call'[e] = call[e]
      BY <1>1, <2>6, <2>7 DEF Storing
    <3> QED
      BY <1>1, <3>1, DocumentSideKept
  <2> QED
    BY <2>8, <2>13, <2>14, <2>16, <2>17, <2>18, <2>19 DEF Inv, DocumentSide
<1> QED
  BY <1>2, <1>3

LEMMA SendInvAccepted == ASSUME Inv, NEW c \in Call, Send(c), ~UNCHANGED accepted PROVE Inv'
<1>0. PICK x : x = call[c].dlv
  OBVIOUS
<1> DEFINE next == [op |-> "number", dlv |-> x, result |-> "accepted"]
<1>1. /\ call[c].op = "send" /\ UNCHANGED <<issues, docs, deliveries, attempts, excused>>
      /\ Step(c, next) /\ accepted' = [accepted EXCEPT ![x] = @ + 1]
  BY <1>0 DEF Send, rows
<1>2. x \in DOMAIN deliveries
  BY <1>0, <1>1, CallIsWellFormed DEF Busy
<1>3. accepted[x] \in Nat /\ x \in DOMAIN accepted /\ RowsType /\ excused \in ExcuseType
  BY <1>2, AcceptedNat, TypeParts DEF Inv
<1>4. /\ accepted'[x] = accepted[x] + 1 /\ \A y \in DOMAIN deliveries \ {x} : accepted'[y] = accepted[y]
      /\ accepted' \in Seq(Nat) /\ Len(accepted') = Len(deliveries')
  BY <1>1, <1>2, <1>3 DEF RowsType
<1>5. next \in NumberCall /\ next.op = "number" /\ next.dlv = x /\ next.result = "accepted"
  BY <1>2 DEF NumberCall, Result
<1> HIDE DEF next
<1>6. next \in CallType
  BY <1>5, CallParts
<1>7. call'[c] = next /\ \A e \in Call \ {c} : call'[e] = call[e]
  BY <1>1, StepFacts DEF Inv
<1>8. TypeOK'
  <2>1. RowsType' /\ excused' \in ExcuseType' /\ CallType' = CallType
    BY <1>1, <1>3, <1>4 DEF RowsType, DocType, DlvType, AttType, ExcuseType, CallType
  <2>2. call' \in [Call -> CallType']
    BY <1>1, <1>6, <2>1, CallStep DEF Inv
  <2> QED
    BY <2>1, <2>2, RowType DEF Inv
<1>9. /\ \A y : Numbers(y)' = Numbers(y) /\ NextNumber(y)' = NextNumber(y) /\ Taken(y)' = Taken(y)
      /\ \A y : MaySend(y)' = MaySend(y)
  BY <1>1 DEF Numbers, NextNumber, AttemptsOf, Taken, MaySend, Eligible, Superseded, IssueSuperseded, Sequences
<1>10. NumbersGiven'
  <2>1. \A e \in Call : call'[e].op = "record" => call'[e] = call[e]
    BY <1>5, <1>7
  <2> QED
    BY <1>1, <1>9, <2>1 DEF Inv, NumbersGiven
<1>11. OneAttempt'
  <2>1. \A e \in Call : call'[e].op \in Busy => call[e].op \in Busy /\ call'[e].dlv = call[e].dlv
    BY <1>0, <1>1, <1>5, <1>7 DEF Busy
  <2> QED
    BY <1>1, <2>1 DEF Inv, OneAttempt
<1>12. TakenIsKnown'
  <2>1. \A e \in Call \ {c}, y \in DOMAIN deliveries : Owes(e, y)' <=> Owes(e, y)
    BY <1>7 DEF Owes
  <2>2. Owes(c, x)' /\ \A y \in DOMAIN deliveries : ~Owes(c, y) /\ (Owes(c, y)' => y = x)
    BY <1>1, <1>5, <1>7 DEF Owes
  <2>3. ASSUME NEW y \in DOMAIN deliveries
        PROVE  /\ Taken(y)' \/ (\E e \in Call : Owes(e, y)') => accepted'[y] > 0
               /\ accepted'[y] > 0 => Taken(y)' \/ y \in excused.lostResult \/ \E e \in Call : Owes(e, y)'
    <3>1. CASE y = x
      BY <1>3, <1>4, <2>2, <3>1
    <3>2. CASE y # x
      BY <1>4, <1>9, <2>1, <2>2, <3>2 DEF Inv, TakenIsKnown
    <3> QED
      BY <3>1, <3>2
  <2> QED
    BY <1>1, <2>3 DEF TakenIsKnown
<1>13. SentOnce'
  <2> SUFFICES ASSUME NEW y \in DOMAIN deliveries \ (excused.overlap \cup excused.lostResult)
               PROVE  /\ accepted'[y] <= 1
                      /\ \A e \in Call : call'[e].op \in {"check", "send"} /\ call'[e].dlv = y => accepted'[y] = 0
    BY <1>1 DEF SentOnce
  <2>1. CASE y = x
    <3>1. accepted[x] = 0
      BY <1>0, <1>1, <2>1 DEF Inv, SentOnce
    <3>2. ASSUME NEW e \in Call, call'[e].op \in {"check", "send"}, call'[e].dlv = x
          PROVE  FALSE
      <4>1. e # c /\ call[e].op \in Busy /\ call[e].dlv = x
        BY <1>5, <1>7, <3>2 DEF Busy
      <4>2. x \in excused.overlap
        BY <1>0, <1>1, <4>1 DEF Inv, OneAttempt, Busy
      <4> QED
        BY <2>1, <4>2
    <3> QED
      BY <1>4, <2>1, <3>1, <3>2
  <2>2. CASE y # x
    <3>1. \A e \in Call : call'[e].op \in {"check", "send"} => call'[e] = call[e]
      BY <1>5, <1>7
    <3> QED
      BY <1>4, <2>2, <3>1 DEF Inv, SentOnce
  <2> QED
    BY <2>1, <2>2
<1>14. CancelledStays'
  <2>1. \A a \in attempts : a.result = "cancelled" => ~MaySend(a.dlv)'
    BY <1>9 DEF Inv, CancelledStays
  <2>2. ASSUME NEW e \in Call, NEW y \in DOMAIN deliveries,
               call'[e].op \in {"number", "record"}, call'[e].dlv = y, call'[e].result = "cancelled"
        PROVE  ~MaySend(y)'
    <3>1. call'[e] = call[e]
      BY <1>5, <1>7, <2>2
    <3> QED
      BY <1>9, <2>2, <3>1 DEF Inv, CancelledStays
  <2>3. \A e \in Call : call'[e].op = "send" => call'[e] = call[e]
    BY <1>5, <1>7
  <2> QED
    BY <1>1, <2>1, <2>2, <2>3 DEF Inv, CancelledStays
<1>15. DocumentSide'
  <2>1. \A e \in Call : call[e].op \in Storing \cup {"put"} \/ call'[e].op \in Storing \cup {"put"}
                           => call'[e] = call[e]
    BY <1>1, <1>5, <1>7 DEF Storing
  <2> QED
    BY <1>1, <2>1, DocumentSideKept
<1> QED
  BY <1>8, <1>10, <1>11, <1>12, <1>13, <1>14, <1>15 DEF Inv, DocumentSide

LEMMA RecordAttemptInv == ASSUME Inv, NEW c \in Call, RecordAttempt(c) PROVE Inv'
<1>0. PICK x, n, r : x = call[c].dlv /\ n = call[c].n /\ r = Recorded(c)
  OBVIOUS
<1>1. /\ call[c].op = "record" /\ UNCHANGED <<issues, docs, deliveries, accepted, excused>>
      /\ Step(c, Idle) /\ attempts' = attempts \cup {r} /\ NumberFree(c)
  BY <1>0 DEF RecordAttempt
<1>2. /\ x \in DOMAIN deliveries /\ n \in Nat \ {0} /\ call[c].result \in Result
  BY <1>0, <1>1, CallIsTyped, CallFields DEF Inv
<1>3. r \in AttType /\ r.dlv = x /\ r.n = n /\ r.result = call[c].result
  BY <1>0, <1>2 DEF Recorded, AttType
<1>4. RowsType /\ excused \in ExcuseType /\ \A a \in attempts : a.dlv \in DOMAIN deliveries
  BY TypeParts DEF Inv, TypeOK
<1>5. Idle.op = "idle" /\ Idle \in CallType
  BY DEF Idle, CallType
<1>6. call'[c] = Idle /\ \A e \in Call \ {c} : call'[e] = call[e]
  BY <1>1, StepFacts DEF Inv
<1>7. \A e \in Call : call'[e].op # "idle" => e # c /\ call'[e] = call[e]
  BY <1>5, <1>6
<1>8. TypeOK'
  <2>1. RowsType' /\ excused' \in ExcuseType' /\ CallType' = CallType
    BY <1>1, <1>3, <1>4 DEF RowsType, DocType, DlvType, AttType, ExcuseType, CallType
  <2>2. call' \in [Call -> CallType']
    BY <1>1, <1>5, <2>1, CallStep DEF Inv
  <2> QED
    BY <2>1, <2>2, RowType DEF Inv
<1>9. \A y : MaySend(y)' = MaySend(y)
  BY <1>1 DEF MaySend, Eligible, Superseded, IssueSuperseded, Sequences
<1>10. NumbersGiven'
  <2>1. PICK S : S = Numbers(x)
    OBVIOUS
  <2>2. n \in S \cup {Greatest(S) + 1} /\ n \notin S /\ RunsOn(S)
    <3>1. n \in Numbers(x) \cup {NextNumber(x)}
      BY <1>0, <1>1 DEF Inv, NumbersGiven
    <3>2. n \notin Numbers(x)
      BY <1>0, <1>1 DEF NumberFree, Numbers
    <3> QED
      BY <1>2, <2>1, <3>1, <3>2, NumberFacts
  <2>3. /\ RunsOn(S \cup {n})
        /\ S \cup {Greatest(S) + 1} \subseteq (S \cup {n}) \cup {Greatest(S \cup {n}) + 1}
    BY <2>2, RunGrows
  <2>4. Numbers(x)' = S \cup {n}
    BY <1>1, <1>3, <2>1 DEF Numbers, AttemptsOf
  <2>5. NextNumber(x)' = Greatest(S \cup {n}) + 1
    BY <2>4 DEF NextNumber, Numbers
  <2>6. ASSUME NEW y \in DOMAIN deliveries \ {x}
        PROVE  Numbers(y)' = Numbers(y) /\ NextNumber(y)' = NextNumber(y)
    <3>1. AttemptsOf(y)' = AttemptsOf(y)
      BY <1>1, <1>3 DEF AttemptsOf
    <3> QED
      BY <3>1 DEF Numbers, NextNumber
  <2>7. ASSUME NEW y \in DOMAIN deliveries
        PROVE  /\ RunsOn(Numbers(y)')
               /\ Numbers(y) \cup {NextNumber(y)} \subseteq Numbers(y)' \cup {NextNumber(y)'}
    <3>1. CASE y = x
      BY <1>2, <2>1, <2>3, <2>4, <2>5, <3>1, NumberFacts
    <3>2. CASE y # x
      BY <2>6, <3>2 DEF Inv, NumbersGiven
    <3> QED
      BY <3>1, <3>2
  <2>8. ASSUME NEW a \in attempts', NEW b \in attempts', a.dlv = b.dlv, a.n = b.n
        PROVE  a = b
    <3>1. \A t \in attempts : ~(t.dlv = x /\ t.n = n)
      BY <2>1, <2>2 DEF Numbers, AttemptsOf
    <3> QED
      BY <1>1, <1>3, <2>8, <3>1 DEF Inv, NumbersGiven
  <2>9. ASSUME NEW e \in Call, NEW y, call'[e].op = "record", call'[e].dlv = y
        PROVE  call'[e].n \in Numbers(y)' \cup {NextNumber(y)'}
    <3>1. call'[e] = call[e] /\ y \in DOMAIN deliveries
      BY <1>7, <2>9, CallIsWellFormed DEF Busy
    <3>2. call[e].n \in Numbers(y) \cup {NextNumber(y)}
      BY <2>9, <3>1 DEF Inv, NumbersGiven
    <3> QED
      BY <2>7, <3>1, <3>2
  <2> QED
    BY <1>1, <2>7, <2>8, <2>9 DEF NumbersGiven
<1>11. OneAttempt'
  BY <1>1, <1>7 DEF Inv, OneAttempt, Busy
<1>12. TakenIsKnown'
  <2>1. \A e \in Call, y \in DOMAIN deliveries : Owes(e, y)' <=> e # c /\ Owes(e, y)
    BY <1>5, <1>6 DEF Owes
  <2>2. \A y \in DOMAIN deliveries : Taken(y)' <=> Taken(y) \/ Owes(c, y)
    BY <1>0, <1>1, <1>3 DEF Taken, Owes
  <2> QED
    BY <1>1, <2>1, <2>2 DEF Inv, TakenIsKnown
<1>13. SentOnce'
  BY <1>1, <1>7 DEF Inv, SentOnce
<1>14. CancelledStays'
  <2>1. ASSUME NEW a \in attempts', a.result = "cancelled"
        PROVE  ~MaySend(a.dlv)'
    <3>1. CASE a \in attempts
      BY <1>9, <2>1, <3>1 DEF Inv, CancelledStays
    <3>2. CASE a = r
      BY <1>0, <1>1, <1>2, <1>3, <1>9, <2>1, <3>2 DEF Inv, CancelledStays
    <3> QED
      BY <1>1, <3>1, <3>2
  <2>2. ASSUME NEW e \in Call, NEW y \in DOMAIN deliveries,
               call'[e].op \in {"number", "record"}, call'[e].dlv = y, call'[e].result = "cancelled"
        PROVE  ~MaySend(y)'
    <3>1. call'[e] = call[e]
      BY <1>7, <2>2
    <3> QED
      BY <1>9, <2>2, <3>1 DEF Inv, CancelledStays
  <2>3. ASSUME NEW e \in Call, call'[e].op = "send"
        PROVE  /\ deliveries[call'[e].dlv].named \/ call'[e].current
               /\ (\E a \in attempts' : a.dlv = call'[e].dlv /\ a.result = "cancelled")
                     => call'[e].dlv \in excused.overlap
    <3>1. call'[e] = call[e] /\ e # c
      BY <1>7, <2>3
    <3>2. r.dlv = call[e].dlv => call[e].dlv \in excused.overlap
      BY <1>0, <1>1, <1>3, <2>3, <3>1 DEF Inv, OneAttempt, Busy
    <3> QED
      BY <1>1, <2>3, <3>1, <3>2 DEF Inv, CancelledStays
  <2> QED
    BY <1>1, <2>1, <2>2, <2>3 DEF CancelledStays
<1>15. DocumentSide'
  <2>1. \A e \in Call : call[e].op \in Storing \cup {"put"} \/ call'[e].op \in Storing \cup {"put"}
                           => call'[e] = call[e]
    BY <1>1, <1>5, <1>6 DEF Storing
  <2> QED
    BY <1>1, <2>1, DocumentSideKept
<1> QED
  BY <1>8, <1>10, <1>11, <1>12, <1>13, <1>14, <1>15 DEF Inv, DocumentSide

LEMMA CrashInv == ASSUME Inv, Crash PROVE Inv'
<1> DEFINE left == {call[c].doc : c \in {d \in Call : call[d].op \in {"insert document", "compensate"}}}
<1> DEFINE lost == {call[c].dlv : c \in Owing(Call)}
<1>1. /\ UNCHANGED <<issues, docs, deliveries, attempts, accepted>>
      /\ call' = [c \in Call |-> Idle]
      /\ excused' = [excused EXCEPT !.orphan = @ \cup left, !.lostResult = @ \cup lost]
  BY DEF Crash, rows
<1>2. left \subseteq DOMAIN docs /\ lost \subseteq DOMAIN deliveries
  BY CallIsWellFormed DEF Storing, Owing, Busy
<1>3. /\ \A e \in Call : call[e].op \in Storing => call[e].doc \in left
      /\ \A e \in Call, y \in DOMAIN deliveries : Owes(e, y) => y \in lost
  BY DEF Storing, Owing, Owes
<1>4. RowsType /\ excused \in ExcuseType
  BY TypeParts DEF Inv
<1> HIDE DEF left, lost
<1>5. /\ excused' \in ExcuseType /\ excused'.lostAnswer = excused.lostAnswer
      /\ excused'.orphan = excused.orphan \cup left
      /\ excused'.overlap = excused.overlap /\ excused'.lostResult = excused.lostResult \cup lost
  BY <1>1, <1>2, <1>4 DEF ExcuseType
<1>6. \A e \in Call : call'[e] = Idle /\ call'[e].op = "idle"
  BY <1>1 DEF Idle
<1>7. TypeOK'
  <2>1. RowsType' /\ ExcuseType' = ExcuseType /\ Idle \in CallType'
    BY <1>1, <1>4 DEF RowsType, DocType, DlvType, AttType, ExcuseType, CallType
  <2> QED
    BY <1>1, <1>5, <2>1, RowType DEF Inv
<1>8. /\ \A x : Numbers(x)' = Numbers(x) /\ NextNumber(x)' = NextNumber(x) /\ Taken(x)' = Taken(x)
      /\ \A i : Sequences(i)' = Sequences(i) /\ NextSequence(i)' = NextSequence(i)
      /\ \A x : MaySend(x)' = MaySend(x)
  BY <1>1 DEF Numbers, NextNumber, AttemptsOf, Sequences, NextSequence, Taken, MaySend, Eligible,
     Superseded, IssueSuperseded
<1>9. NumbersGiven' /\ SequencesGiven' /\ OneAttempt'
  BY <1>1, <1>6, <1>8 DEF Inv, NumbersGiven, SequencesGiven, OneAttempt, Busy
<1>10. TakenIsKnown'
  <2>1. \A e \in Call, y \in DOMAIN deliveries : ~Owes(e, y)'
    BY <1>6 DEF Owes
  <2> QED
    BY <1>1, <1>3, <1>5, <1>8, <2>1 DEF Inv, TakenIsKnown
<1>11. SentOnce'
  BY <1>1, <1>5, <1>6 DEF Inv, SentOnce
<1>12. OneStoring'
  BY <1>6 DEF OneStoring, Storing
<1>13. BytesFollowRows'
  <2>1. ASSUME NEW d \in DOMAIN docs, docs[d].bytes, ~docs[d].row
        PROVE  d \in excused'.orphan
    <3>1. CASE \E e \in Call : call[e].op \in Storing /\ call[e].doc = d
      BY <1>3, <1>5, <3>1
    <3>2. CASE d \in excused.orphan
      BY <1>5, <3>2
    <3> QED
      BY <2>1, <3>1, <3>2 DEF Inv, BytesFollowRows, Storing
  <2> QED
    BY <1>1, <1>5, <2>1 DEF Inv, BytesFollowRows
<1>14. CancelledStays'
  BY <1>1, <1>6, <1>8 DEF Inv, CancelledStays
<1> QED
  BY <1>7, <1>9, <1>10, <1>11, <1>12, <1>13, <1>14 DEF Inv

LEMMA StutterInv == ASSUME Inv, UNCHANGED vars PROVE Inv'
<1> USE DEF vars
<1>1. TypeOK'
  BY DEF Inv, TypeOK, CallType
<1>2. /\ \A x : Numbers(x)' = Numbers(x) /\ NextNumber(x)' = NextNumber(x) /\ Taken(x)' = Taken(x)
      /\ \A i : Sequences(i)' = Sequences(i) /\ NextSequence(i)' = NextSequence(i)
  BY DEF Numbers, NextNumber, AttemptsOf, Sequences, NextSequence, Taken
<1>3. DeliverySide'
  BY <1>2, MaySendShrinks, DeliverySideKept
<1>4. DocumentSide'
  BY DocumentSideKept
<1> QED
  BY <1>1, <1>3, <1>4 DEF Inv, DeliverySide, DocumentSide

LEMMA InitInv == Init => Inv
<1> SUFFICES ASSUME Init PROVE Inv
  OBVIOUS
<1>1. /\ issues = <<>> /\ docs = <<>> /\ deliveries = <<>> /\ attempts = {} /\ accepted = <<>>
      /\ call = [c \in Call |-> Idle] /\ excused = NoExcuse
  BY DEF Init
<1>2. /\ DOMAIN issues = {} /\ DOMAIN docs = {} /\ DOMAIN deliveries = {}
  BY <1>1
<1>3. \A c \in Call : call[c] = Idle /\ call[c].op = "idle"
  BY <1>1 DEF Idle
<1>4. TypeOK
  <2>1. RowsType
    BY <1>1 DEF RowsType
  <2>2. call \in [Call -> CallType]
    BY <1>1 DEF CallType
  <2>3. excused \in ExcuseType
    BY <1>1 DEF ExcuseType, NoExcuse
  <2> QED
    BY <2>1, <2>2, <2>3, TypeParts
<1>5. NumbersGiven /\ SequencesGiven
  BY <1>1, <1>2, <1>3 DEF NumbersGiven, SequencesGiven
<1>6. OneAttempt /\ TakenIsKnown /\ SentOnce
  BY <1>2, <1>3 DEF OneAttempt, TakenIsKnown, SentOnce, Busy
<1>7. OneStoring /\ BytesFollowRows /\ CancelledStays
  BY <1>1, <1>2, <1>3 DEF OneStoring, BytesFollowRows, CancelledStays, Storing
<1> QED
  BY <1>4, <1>5, <1>6, <1>7 DEF Inv

LEMMA StepInv == Inv /\ [Next]_vars => Inv'
<1> SUFFICES ASSUME Inv, [Next]_vars PROVE Inv'
  OBVIOUS
<1>1. CASE \E at \in 1 .. MaxIssue : IssueProposal(at)
  BY <1>1, IssueProposalInv
<1>2. CASE \E c \in Call, i \in DOMAIN issues : BeginGenerate(c, i)
  BY <1>2, BeginGenerateInv
<1>3. CASE \E c \in Call : PutBytes(c) \/ CommitDocument(c) \/ RefuseDocument(c) \/ Compensate(c)
  BY <1>3, PutBytesInv, CommitDocumentInv, RefuseDocumentInv, CompensateInv
<1>4. CASE \E c \in Call, d \in DOMAIN docs, to \in Recipient, named, execute \in BOOLEAN :
              BeginAuthorize(c, d, to, named, execute)
  BY <1>4, BeginAuthorizeInv
<1>5. CASE \E c \in Call : FindDelivery(c) \/ InsertDelivery(c)
  BY <1>5, FindDeliveryInv, InsertDeliveryInv
<1>6. CASE \E c \in Call, x \in DOMAIN deliveries : BeginExecute(c, x)
  BY <1>6, BeginExecuteInv
<1>7. CASE \E c \in Call : LoadAttempts(c) \/ CheckEligibility(c) \/ Send(c)
  BY <1>7, LoadAttemptsInv, CheckEligibilityInv, SendInvAccepted, SendInvNotAccepted
<1>8. CASE \E c \in Call : ReadNumber(c) \/ RecordAttempt(c)
  BY <1>8, ReadNumberInv, RecordAttemptInv
<1>9. CASE \E c \in Call : Fail(c)
  BY <1>9, FailInv
<1>10. CASE Crash
  BY <1>10, CrashInv
<1>11. CASE UNCHANGED vars
  BY <1>11, StutterInv
<1> QED
  BY <1>1, <1>2, <1>3, <1>4, <1>5, <1>6, <1>7, <1>8, <1>9, <1>10, <1>11 DEF Next

LEMMA Invariance == Spec => []Inv
  BY InitInv, StepInv, PTL DEF Spec

-----------------------------------------------------------------------------
(* What follows from the invariant.                                        *)

\* A set whose members are numbered 1, 2, ... each once has as many members.
LEMMA CountOfRun ==
    ASSUME NEW S, NEW m \in Nat, NEW f \in [S -> 1 .. m],
           \A a, b \in S : f[a] = f[b] => a = b, \A k \in 1 .. m : \E a \in S : f[a] = k
    PROVE  Cardinality(S) = m
<1>1. f \in Injection(S, 1 .. m) /\ f \in Surjection(S, 1 .. m)
  BY DEF Injection, IsInjective, Surjection
<1>2. IsFiniteSet(1 .. m) /\ Cardinality(1 .. m) = m
  <2>1. IsFiniteSet(1 .. m) /\ Cardinality(1 .. m) = IF 1 > m THEN 0 ELSE m - 1 + 1
    BY FS_Interval
  <2> QED
    BY <2>1
<1> QED
  BY <1>1, <1>2, FS_Injection

LEMMA NumbersCount == Inv => NumbersRunOn
<1> SUFFICES ASSUME Inv PROVE NumbersRunOn
  OBVIOUS
<1>1. ASSUME NEW x \in DOMAIN deliveries
      PROVE  {a.n : a \in AttemptsOf(x)} = 1 .. Cardinality(AttemptsOf(x))
  <2>1. PICK m \in Nat : Numbers(x) = 1 .. m
    BY DEF Inv, NumbersGiven, RunsOn
  <2> DEFINE f == [a \in AttemptsOf(x) |-> a.n]
  <2>2. f \in [AttemptsOf(x) -> 1 .. m] /\ \A k \in 1 .. m : \E a \in AttemptsOf(x) : f[a] = k
    BY <2>1 DEF Numbers
  <2>3. \A a, b \in AttemptsOf(x) : f[a] = f[b] => a = b
    BY DEF Inv, NumbersGiven, AttemptsOf
  <2> HIDE DEF f
  <2>4. Cardinality(AttemptsOf(x)) = m
    BY <2>2, <2>3, CountOfRun
  <2> QED
    BY <2>1, <2>4 DEF Numbers
<1>2. ASSUME NEW i \in DOMAIN issues
      PROVE  Sequences(i) = 1 .. Cardinality({d \in DOMAIN docs : docs[d].row /\ docs[d].issue = i})
  <2> DEFINE D == {d \in DOMAIN docs : docs[d].row /\ docs[d].issue = i}
  <2> DEFINE f == [d \in D |-> docs[d].seq]
  <2>1. PICK m \in Nat : Sequences(i) = 1 .. m
    BY DEF Inv, SequencesGiven, RunsOn
  <2>2. f \in [D -> 1 .. m] /\ \A k \in 1 .. m : \E d \in D : f[d] = k
    BY <2>1 DEF Sequences
  <2>3. \A d, e \in D : f[d] = f[e] => d = e
    BY DEF Inv, SequencesGiven
  <2> HIDE DEF f, D
  <2>4. Cardinality(D) = m
    BY <2>2, <2>3, CountOfRun
  <2> QED
    BY <2>1, <2>4 DEF D
<1> QED
  BY <1>1, <1>2 DEF NumbersRunOn

LEMMA StateOfTaken ==
    ASSUME Inv, NEW x \in DOMAIN deliveries
    PROVE  DerivedState(x) = "accepted" <=> Taken(x)
<1> DEFINE A == AttemptsOf(x)
<1>1. Taken(x) <=> \E a \in A : a.result = "accepted"
  BY DEF Taken, AttemptsOf
<1>2. CASE Taken(x)
  BY <1>1, <1>2 DEF DerivedState
<1>3. CASE ~Taken(x) /\ A = {}
  BY <1>1, <1>3 DEF DerivedState
<1>4. CASE ~Taken(x) /\ A # {}
  <2>1. PICK m \in Nat : Numbers(x) = 1 .. m
    BY DEF Inv, NumbersGiven, RunsOn
  <2>2. \A a \in A : a.n \in 1 .. m
    BY <2>1 DEF Numbers
  <2>3. m \in 1 .. m
    BY <1>4, <2>2
  <2>4. PICK a \in A : a.n = m
    BY <2>1, <2>3 DEF Numbers
  <2>5. \A b \in A : b.n <= a.n
    BY <2>2, <2>4
  <2>6. (CHOOSE t \in A : \A b \in A : b.n <= t.n) \in A
    BY <2>5
  <2> QED
    BY <1>1, <1>4, <2>6 DEF DerivedState
<1> QED
  BY <1>2, <1>3, <1>4

-----------------------------------------------------------------------------
(* The theorems.                                                           *)

\* Rows and requests refer to rows that exist, whatever overlaps, fails or crashes.
THEOREM TypeCorrect == Spec => []TypeOK
<1>1. Inv => TypeOK
  BY DEF Inv
<1> QED
  BY <1>1, Invariance, PTL

\* executeIssuedClientDocumentDeliveryAttempt: the provider takes a delivery twice
\* only if two requests attempted it at once or the record of its acceptance was lost.
THEOREM NotSentTwice == Spec => []SentTwiceForAReason
<1>1. Inv => SentTwiceForAReason
  <2> SUFFICES ASSUME Inv, NEW x \in DOMAIN deliveries, accepted[x] > 1,
                      x \notin excused.overlap \cup excused.lostResult
               PROVE  FALSE
    BY DEF SentTwiceForAReason
  <2>1. accepted[x] \in Nat /\ accepted[x] <= 1
    BY AcceptedNat DEF Inv, SentOnce
  <2> QED
    BY <2>1
<1> QED
  BY <1>1, Invariance, PTL

\* deriveIssuedClientDocumentDeliveryState and the numbers of attempts and documents:
\* numbers run on, and the state derived from the attempts says what happened.
THEOREM StateSaysWhatHappened == Spec => []StateIsWhatHappened
<1>1. Inv => StateIsWhatHappened
  <2> SUFFICES ASSUME Inv PROVE StateIsWhatHappened
    OBVIOUS
  <2>1. NumbersRunOn
    BY NumbersCount
  <2>2. ASSUME NEW x \in DOMAIN deliveries
        PROVE  /\ DerivedState(x) = "accepted" => accepted[x] > 0
               /\ accepted[x] > 0 =>
                     \/ DerivedState(x) = "accepted"
                     \/ x \in excused.lostResult
                     \/ \E c \in Owing(Call) : call[c].dlv = x
    <3>1. (\E c \in Call : Owes(c, x)) => \E c \in Owing(Call) : call[c].dlv = x
      BY DEF Owes, Owing
    <3> QED
      BY <3>1, StateOfTaken DEF Inv, TakenIsKnown
  <2> QED
    BY <2>1, <2>2 DEF StateIsWhatHappened
<1> QED
  BY <1>1, Invariance, PTL

\* generateIssuedClientDocument and compensateBytes: bytes and rows go together but
\* for the documents of requests in progress and the mishaps noted.
THEOREM BytesGoWithRows == Spec => []BytesFollowRows
<1>1. Inv => BytesFollowRows
  BY DEF Inv
<1> QED
  BY <1>1, Invariance, PTL

\* evaluateIssuedClientDocumentDeliveryEligibility at send time: what is sent was
\* named or was current when this attempt looked, and what was cancelled stays unsent.
THEOREM SupersededStaysUnsent == Spec => SupersededIsNotSent
<1> DEFINE Sends ==
        \A c \in Call : call[c].op = "send" /\ accepted' # accepted /\ call'[c] # call[c] =>
          LET x == call[c].dlv
          IN  /\ deliveries[x].named \/ call[c].current
              /\ (\E a \in AttemptsOf(x) : a.result = "cancelled") => x \in excused.overlap
<1>1. Inv => Sends
  BY DEF Inv, CancelledStays, AttemptsOf
<1> QED
  BY <1>1, Invariance, PTL DEF SupersededIsNotSent

=============================================================================
