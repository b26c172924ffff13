--------------------------- MODULE ClientDelivery ---------------------------
(***************************************************************************)
(* What a client is sent, for one programme, with PostgreSQL: a proposal   *)
(* is issued, a PDF of it is rendered and stored as bytes and as a row, a  *)
(* delivery of the document to a recipient is authorised, and attempts     *)
(* hand it to the provider.  The rows are never updated (triggers refuse   *)
(* it): a delivery's state is derived from its attempts.  A handler is a   *)
(* chain of awaits, so requests overlap, and the process may die.          *)
(*                                                                         *)
(* Who may issue and authorise, the recipient's address, the hashes and    *)
(* the wording are decided by one request alone and are left out.  Without *)
(* PostgreSQL (rows in arrays, no unique constraint) it is not modelled.   *)
(***************************************************************************)
EXTENDS Integers, Sequences, FiniteSets

CONSTANTS
    Call,      \* requests the process may have in progress at once
    Recipient, \* confirmed recipients of the client's organisation
    MaxIssue,  \* bound on the issues created
    MaxDoc,    \* bound on the documents whose bytes were stored
    MaxDelivery, \* bound on the deliveries
    MaxAttempt \* bound on the attempts recorded, and on the acceptances of a delivery

ASSUME DeliveryAssumption ==
    MaxIssue \in Nat /\ MaxDoc \in Nat /\ MaxDelivery \in Nat /\ MaxAttempt \in Nat

VARIABLES
    issues,     \* when the proposals were issued, in the order of their rows
    docs,       \* documents in order of creation: issue, sequence, row, stored bytes
    deliveries, \* rows of issued_client_document_deliveries
    attempts,   \* rows of issued_client_document_delivery_attempts
    call,       \* requests in progress
    accepted,   \* per delivery, how often the provider accepted it (history)
    excused     \* documents and deliveries something went wrong with (history)

vars == <<issues, docs, deliveries, attempts, call, accepted, excused>>

rows == <<issues, docs, deliveries, attempts>>

Idle == [op |-> "idle"]

NoExcuse ==
    [lostAnswer |-> {}, \* documents whose COMMIT was answered by an error
     orphan     |-> {}, \* documents whose bytes a crash or a failed unlink left behind
     overlap    |-> {}, \* deliveries two requests attempted at once
     lostResult |-> {}] \* deliveries whose acceptance was not recorded

Init ==
    /\ issues = <<>>
    /\ docs = <<>>
    /\ deliveries = <<>>
    /\ attempts = {}
    /\ call = [c \in Call |-> Idle]
    /\ accepted = <<>>
    /\ excused = NoExcuse

-----------------------------------------------------------------------------
(* What the queries answer.                                                *)

Greatest(S) == IF S = {} THEN 0 ELSE CHOOSE n \in S : \A k \in S : k <= n

Sequences(i) == {docs[d].seq : d \in {e \in DOMAIN docs : docs[e].row /\ docs[e].issue = i}}

\* Mutation of NextSequence: the greatest number itself.
LastSequence(i) == Greatest(Sequences(i))

\* nextIssuedClientDocumentSequence
NextSequence(i) == Greatest(Sequences(i)) + 1

AttemptsOf(dlv) == {a \in attempts : a.dlv = dlv}

\* nextIssuedClientDocumentDeliveryAttemptNumber
NextNumber(dlv) == Greatest({a.n : a \in AttemptsOf(dlv)}) + 1

\* Mutation of DerivedState: the latest attempt decides.
LatestState(dlv) ==
    LET A == AttemptsOf(dlv)
        latest == CHOOSE a \in A : \A b \in A : b.n <= a.n
    IN  IF A = {} THEN "queued" ELSE latest.result

\* deriveIssuedClientDocumentDeliveryState
DerivedState(dlv) ==
    LET A == AttemptsOf(dlv)
        latest == CHOOSE a \in A : \A b \in A : b.n <= a.n
    IN  IF \E a \in A : a.result = "accepted" THEN "accepted"
        ELSE IF A = {} THEN "queued" ELSE latest.result

\* isIssuedProposalSupersededForSend: issued in the same millisecond, neither is.
IssueSuperseded(i) == \E j \in DOMAIN issues : issues[j] > issues[i]

\* Superseded by a newer issue of the programme or a newer document of the issue.
Superseded(d) ==
    \/ IssueSuperseded(docs[d].issue)
    \/ \E s \in Sequences(docs[d].issue) : s > docs[d].seq

\* Mutation of Eligible: a delivery once authorised stays so.
EligibleOnce(d, named) == docs[d].bytes

\* evaluateIssuedClientDocumentDeliveryEligibility.  Bytes only ever go and newer
\* rows only ever come, so its reads, one after the other, answer as at one time.
Eligible(d, named) == docs[d].bytes /\ (named \/ ~Superseded(d))

\* findExistingDelivery.  The idempotency key is a hash of the document, the
\* recipient and what the client sends, so it finds nothing the other index misses.
Existing(d, to) == {x \in DOMAIN deliveries : deliveries[x].doc = d /\ deliveries[x].to = to}

-----------------------------------------------------------------------------
Step(c, next) == call' = [call EXCEPT ![c] = next]

(* issueProposal                                                           *)

\* The record carries the time it was created at.  Requests overlap, so it may be
\* stored after one that was created later.
IssueProposal(at) ==
    /\ Len(issues) < MaxIssue
    /\ issues' = Append(issues, at)
    /\ UNCHANGED <<docs, deliveries, attempts, call, accepted, excused>>

-----------------------------------------------------------------------------
(* generateIssuedClientDocument                                            *)

BeginGenerate(c, i) ==
    /\ call[c] = Idle /\ Len(docs) < MaxDoc
    /\ Step(c, [op |-> "put", issue |-> i, seq |-> NextSequence(i)])
    /\ UNCHANGED <<issues, docs, deliveries, attempts, accepted, excused>>

\* The bytes are written first, under the id of the document to be.
PutBytes(c) ==
    /\ call[c].op = "put" /\ Len(docs) < MaxDoc
    /\ docs' = Append(docs, [issue |-> call[c].issue, seq |-> call[c].seq, row |-> FALSE, bytes |-> TRUE])
    /\ Step(c, [op |-> "insert document", doc |-> Len(docs) + 1])
    /\ UNCHANGED <<issues, deliveries, attempts, accepted, excused>>

Unnumbered(d) == docs[d].seq \notin Sequences(docs[d].issue)

\* The transaction commits; its answer may be lost with the connection.
CommitDocument(c) ==
    /\ call[c].op = "insert document" /\ Unnumbered(call[c].doc)
    /\ LET d == call[c].doc
       IN  /\ docs' = [docs EXCEPT ![d].row = TRUE]
           /\ \/ Step(c, Idle) /\ UNCHANGED excused
              \/ /\ Step(c, [op |-> "compensate", doc |-> d])
                 /\ excused' = [excused EXCEPT !.lostAnswer = @ \cup {d}]
    /\ UNCHANGED <<issues, deliveries, attempts, accepted>>

\* Mutation of RefuseDocument: the error is answered and the bytes are left.
RefuseAndForget(c) ==
    /\ call[c].op = "insert document"
    /\ Step(c, Idle)
    /\ UNCHANGED <<rows, accepted, excused>>

\* The transaction fails, for a sequence taken meanwhile or any other reason.
RefuseDocument(c) ==
    /\ call[c].op = "insert document"
    /\ Step(c, [op |-> "compensate", doc |-> call[c].doc])
    /\ UNCHANGED <<rows, accepted, excused>>

\* compensateBytes: an unlink that fails is ignored.
Compensate(c) ==
    /\ call[c].op = "compensate"
    /\ \/ /\ docs' = [docs EXCEPT ![call[c].doc].bytes = FALSE]
          /\ UNCHANGED excused
       \/ /\ excused' = [excused EXCEPT !.orphan = @ \cup {call[c].doc}]
          /\ UNCHANGED docs
    /\ Step(c, Idle)
    /\ UNCHANGED <<issues, deliveries, attempts, accepted>>

-----------------------------------------------------------------------------
(* authorizeIssuedClientDocumentDelivery                                   *)

BeginAuthorize(c, d, to, named, execute) ==
    /\ call[c] = Idle
    /\ Existing(d, to) = {} => Len(deliveries) < MaxDelivery
    /\ docs[d].row /\ Eligible(d, named)
    /\ Step(c, [op |-> "find", doc |-> d, to |-> to, named |-> named, execute |-> execute])
    /\ UNCHANGED <<rows, accepted, excused>>

\* A delivery there already is attempted again if asked and not accepted yet.
FindDelivery(c) ==
    /\ call[c].op = "find"
    /\ LET old == Existing(call[c].doc, call[c].to)
       IN  IF old = {}
           THEN Len(deliveries) < MaxDelivery /\ Step(c, [call[c] EXCEPT !.op = "insert delivery"])
           ELSE \E x \in old :
                   Step(c, IF call[c].execute /\ DerivedState(x) # "accepted"
                           THEN [op |-> "load", dlv |-> x] ELSE Idle)
    /\ UNCHANGED <<rows, accepted, excused>>

\* A request that lost the answer of its COMMIT attempts nothing; nor does one
\* that finds the delivery inserted meanwhile, which answers with that one.
InsertDelivery(c) ==
    /\ call[c].op = "insert delivery"
    /\ IF Existing(call[c].doc, call[c].to) = {}
       THEN /\ Len(deliveries) < MaxDelivery
            /\ deliveries' = Append(deliveries,
                   [doc |-> call[c].doc, to |-> call[c].to, named |-> call[c].named])
            /\ accepted' = Append(accepted, 0)
            /\ \/ Step(c, Idle)
               \/ call[c].execute /\ Step(c, [op |-> "load", dlv |-> Len(deliveries) + 1])
       ELSE Step(c, Idle) /\ UNCHANGED <<deliveries, accepted>>
    /\ UNCHANGED <<issues, docs, attempts, excused>>

-----------------------------------------------------------------------------
(* executeIssuedClientDocumentDeliveryAttempt, from the authorisation or by *)
(* a request of its own.                                                   *)

BeginExecute(c, x) ==
    /\ call[c] = Idle /\ Cardinality(attempts) < MaxAttempt
    /\ Step(c, [op |-> "load", dlv |-> x])
    /\ UNCHANGED <<rows, accepted, excused>>

\* Requests between reading the attempts of x and recording one.
Attempting(x) == {c \in Call : call[c].op \in {"check", "send", "number", "record"} /\ call[c].dlv = x}

\* Mutation of LoadAttempts: whoever asks again gets another attempt.
LoadBlindly(c) ==
    /\ call[c].op = "load"
    /\ LET x == call[c].dlv
       IN  /\ Step(c, [op |-> "check", dlv |-> x])
           /\ excused' = IF Attempting(x) # {}
                         THEN [excused EXCEPT !.overlap = @ \cup {x}] ELSE excused
    /\ UNCHANGED <<rows, accepted>>

LoadAttempts(c) ==
    /\ call[c].op = "load"
    /\ LET x == call[c].dlv
       IN  IF DerivedState(x) = "accepted"
           THEN Step(c, Idle) /\ UNCHANGED excused
           ELSE /\ Step(c, [op |-> "check", dlv |-> x])
                /\ excused' = IF Attempting(x) # {}
                              THEN [excused EXCEPT !.overlap = @ \cup {x}] ELSE excused
    /\ UNCHANGED <<rows, accepted>>

\* The delivery's own naming counts, whatever the request that brought it here
\* said.  (current is kept for the properties.)
CheckEligibility(c) ==
    /\ call[c].op = "check"
    /\ LET x == call[c].dlv
           d == deliveries[x].doc
       IN  Step(c, IF Eligible(d, deliveries[x].named)
                   THEN [op |-> "send", dlv |-> x, current |-> ~Superseded(d)]
                   ELSE [op |-> "number", dlv |-> x, result |-> "cancelled"])
    /\ UNCHANGED <<rows, accepted, excused>>

\* The bytes are read again: those of a lost COMMIT may be gone by now.
Send(c) ==
    /\ call[c].op = "send"
    /\ LET x == call[c].dlv
       IN  IF ~docs[deliveries[x].doc].bytes
           THEN Step(c, Idle) /\ UNCHANGED accepted
           ELSE \/ /\ accepted[x] < MaxAttempt
                   /\ accepted' = [accepted EXCEPT ![x] = @ + 1]
                   /\ Step(c, [op |-> "number", dlv |-> x, result |-> "accepted"])
                \/ /\ Step(c, [op |-> "number", dlv |-> x, result |-> "failed"])
                   /\ UNCHANGED accepted
    /\ UNCHANGED <<rows, excused>>

ReadNumber(c) ==
    /\ call[c].op = "number"
    /\ Step(c, [op |-> "record", dlv |-> call[c].dlv, result |-> call[c].result,
                n |-> NextNumber(call[c].dlv)])
    /\ UNCHANGED <<rows, accepted, excused>>

Recorded(c) == [dlv |-> call[c].dlv, n |-> call[c].n, result |-> call[c].result]

NumberFree(c) == \A a \in AttemptsOf(call[c].dlv) : a.n # call[c].n

RecordAttempt(c) ==
    /\ call[c].op = "record" /\ NumberFree(c) /\ Cardinality(attempts) < MaxAttempt
    /\ attempts' = attempts \cup {Recorded(c)}
    /\ Step(c, Idle)
    /\ UNCHANGED <<issues, docs, deliveries, accepted, excused>>

\* Requests that have an acceptance to record.
Owing(C) == {c \in C : call[c].op \in {"number", "record"} /\ call[c].result = "accepted"}

\* The request ends in an error: a query or a transaction failed, or (record) the
\* number was taken.
Fail(c) ==
    /\ call[c].op \notin {"idle", "insert document", "compensate"}
    /\ Step(c, Idle)
    /\ excused' = [excused EXCEPT !.lostResult = @ \cup {call[d].dlv : d \in Owing({c})}]
    /\ UNCHANGED <<rows, accepted>>

\* The process dies and is started again: the handlers read the tables.
Crash ==
    /\ call' = [c \in Call |-> Idle]
    /\ excused' = [excused EXCEPT
          !.orphan = @ \cup {call[c].doc : c \in {d \in Call : call[d].op \in {"insert document", "compensate"}}},
          !.lostResult = @ \cup {call[c].dlv : c \in Owing(Call)}]
    /\ UNCHANGED <<rows, accepted>>

Next ==
    \/ \E at \in 1 .. MaxIssue : IssueProposal(at)
    \/ \E c \in Call, i \in DOMAIN issues : BeginGenerate(c, i)
    \/ \E c \in Call : PutBytes(c) \/ CommitDocument(c) \/ RefuseDocument(c) \/ Compensate(c)
    \/ \E c \in Call, d \in DOMAIN docs, to \in Recipient, named, execute \in BOOLEAN :
          BeginAuthorize(c, d, to, named, execute)
    \/ \E c \in Call : FindDelivery(c) \/ InsertDelivery(c)
    \/ \E c \in Call, x \in DOMAIN deliveries : BeginExecute(c, x)
    \/ \E c \in Call : LoadAttempts(c) \/ CheckEligibility(c) \/ Send(c)
    \/ \E c \in Call : ReadNumber(c) \/ RecordAttempt(c)
    \/ \E c \in Call : Fail(c)
    \/ Crash

Spec == Init /\ [][Next]_vars

-----------------------------------------------------------------------------
(* Properties.                                                             *)

Result == {"accepted", "failed", "cancelled"}

CallType ==
    {Idle} \cup [op : {"put"}, issue : DOMAIN issues, seq : Nat \ {0}]
    \cup [op : {"insert document", "compensate"}, doc : DOMAIN docs]
    \cup [op : {"find", "insert delivery"}, doc : DOMAIN docs, to : Recipient,
          named : BOOLEAN, execute : BOOLEAN]
    \cup [op : {"load", "check"}, dlv : DOMAIN deliveries]
    \cup [op : {"send"}, dlv : DOMAIN deliveries, current : BOOLEAN]
    \cup [op : {"number"}, dlv : DOMAIN deliveries, result : Result]
    \cup [op : {"record"}, dlv : DOMAIN deliveries, result : Result, n : Nat \ {0}]

\* Every row refers to a row that exists, and so does every request in progress.
TypeOK ==
    /\ issues \in Seq(Nat)
    /\ docs \in Seq([issue : DOMAIN issues, seq : Nat \ {0}, row : BOOLEAN, bytes : BOOLEAN])
    /\ deliveries \in Seq([doc : DOMAIN docs, to : Recipient, named : BOOLEAN])
    /\ attempts \subseteq [dlv : DOMAIN deliveries, n : Nat \ {0}, result : Result]
    /\ call \in [Call -> CallType]
    /\ accepted \in Seq(Nat) /\ Len(accepted) = Len(deliveries)
    /\ excused \in [lostAnswer : SUBSET DOMAIN docs, orphan : SUBSET DOMAIN docs,
                    overlap : SUBSET DOMAIN deliveries, lostResult : SUBSET DOMAIN deliveries]

\* h-203: "Duplicate-send prevention is required across process restarts".  The
\* provider takes a delivery twice only if two requests attempted it at once or
\* the record of its acceptance was lost after the provider had answered.
SentTwiceForAReason ==
    \A x \in DOMAIN deliveries :
        accepted[x] > 1 => x \in excused.overlap \cup excused.lostResult

\* Attempts of a delivery and documents of an issue are numbered 1, 2, ... with no
\* number given twice or skipped, though requests read the greatest one and
\* insert the next in two steps.
NumbersRunOn ==
    /\ \A x \in DOMAIN deliveries :
          {a.n : a \in AttemptsOf(x)} = 1 .. Cardinality(AttemptsOf(x))
    /\ \A i \in DOMAIN issues :
          Sequences(i) = 1 .. Cardinality({d \in DOMAIN docs : docs[d].row /\ docs[d].issue = i})

\* What the delivery's state says is what happened: accepted once the provider
\* took it, unless its record is under way or was lost, and never otherwise; and
\* a delivery that was accepted stays so, though an overlapping attempt that
\* failed or was cancelled may be numbered after it.  This rests on the numbers.
StateIsWhatHappened ==
    /\ NumbersRunOn
    /\ \A x \in DOMAIN deliveries :
          /\ DerivedState(x) = "accepted" => accepted[x] > 0
          /\ accepted[x] > 0 =>
                \/ DerivedState(x) = "accepted"
                \/ x \in excused.lostResult
                \/ \E c \in Owing(Call) : call[c].dlv = x

\* A document's row and its bytes go together: bytes without a row belong to a
\* request in progress, or a crash or a failed unlink left them; a row without
\* bytes is one whose COMMIT was answered by an error.
BytesFollowRows ==
    \A d \in DOMAIN docs :
        /\ docs[d].bytes /\ ~docs[d].row =>
              \/ d \in excused.orphan
              \/ \E c \in Call : call[c].op \in {"insert document", "compensate"} /\ call[c].doc = d
        /\ docs[d].row /\ ~docs[d].bytes => d \in excused.lostAnswer

\* h-203: a queued delivery "must be re-checked at send time".  What the provider
\* takes without having been named by an authorisation was current when this very
\* attempt looked; and a delivery with a cancelled attempt is never taken again,
\* but by a request that was attempting it at the same time.
SupersededIsNotSent ==
    [][\A c \in Call : call[c].op = "send" /\ accepted' # accepted /\ call'[c] # call[c] =>
          LET x == call[c].dlv
          IN  /\ deliveries[x].named \/ call[c].current
              /\ (\E a \in AttemptsOf(x) : a.result = "cancelled") => x \in excused.overlap]_vars

=============================================================================
