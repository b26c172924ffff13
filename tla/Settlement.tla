------------------------------ MODULE Settlement ------------------------------
(***************************************************************************)
(* The money and the handover of one booking.  Deposit, progress and final *)
(* invoices are drafted, issued and paid; a payment is requested by one    *)
(* person, released by another and applied to its invoice in a third call; *)
(* issuing an invoice or a brief, and asking the suppliers, ticks tasks of *)
(* the booking's handover checklist.                                       *)
(*                                                                         *)
(* Everything is in memory and no handler awaits: an operation is one      *)
(* action.  What is hard is the order of calls, and handlers that look at  *)
(* the first of several records (find) and write several in turn.          *)
(*                                                                         *)
(* Amounts are whole units.  The list of payment references in a           *)
(* reconciliation, quotes, vouchers (removed from the code) and payments   *)
(* without an invoice are left out; an invoice is never void, as no handler*)
(* makes it so.                                                            *)
(***************************************************************************)
EXTENDS Integers, FiniteSetsExt, SequencesExt

CONSTANTS
    Principal,  \* who may ask for something
    Agent,      \* those of them that are AI agents
    Requester,  \* holders of finance:create:payment
    Approver,   \* holders of finance:approve:payment
    Reconciler, \* holders of finance:reconcile:booking
    Item,       \* programme items with a supplier
    Price,      \* the booking's selling price
    Share,      \* what a deposit or progress invoice may be made out for
    Amount,     \* what a payment may be of
    MaxPayment, \* bound on payment requests
    MaxDirect,  \* bound on what is recorded directly, per invoice
    MaxByHand   \* bound on the tasks ticked by a person

ASSUME SettlementAssumption ==
    /\ Agent \cup Requester \cup Approver \cup Reconciler \subseteq Principal
    /\ Price \in Nat \ {0} /\ Share \subseteq Nat \ {0} /\ Amount \subseteq Nat \ {0}
    /\ MaxPayment \in Nat /\ MaxDirect \in Nat /\ MaxByHand \in Nat

VARIABLES
    invoice,      \* per type: status, amount, amountPaid
    recs,         \* per type, the reconciliations opened for it
    payment,      \* payments and their approvals, in the order of the requests
    link,         \* finPaymentLinks: per invoice, the payments asked for
    brief,        \* the operations brief
    confirmation, \* supplier confirmations
    ticked,       \* handover tasks that are complete
    booking,      \* the booking's status
    direct,       \* per invoice, the sum recorded directly (history)
    applied,      \* per payment, how often it was applied (history)
    excused,      \* payments that may not be applicable, for a reason known (history)
    auto,         \* the final invoice was made by autoCreateFinalInvoice (history)
    late,         \* a deposit or progress invoice was made after the final one (history)
    byHand        \* tasks ticked by a person (history)

vars == <<invoice, recs, payment, link, brief, confirmation, ticked, booking,
          direct, applied, excused, auto, late, byHand>>

ledger   == <<direct, applied, excused>>
payments == <<payment, link>>
invoices == <<invoice, recs>>
handover == <<brief, confirmation, ticked, booking, byHand>>

Type == {"deposit", "progress", "final"}

HandoverTask == {"ops_brief", "supplier_confirm", "guest_manifest", "deposit_invoice", "guest_vouchers"}

NoInvoice == [status |-> "none", amount |-> 0, paid |-> 0]

Nobody == "nobody"

Init ==
    /\ invoice = [t \in Type |-> NoInvoice]
    /\ recs = [t \in Type |-> <<>>]
    /\ payment = <<>> /\ link = [t \in Type |-> <<>>]
    /\ brief = "none" /\ confirmation = [i \in Item |-> "none"]
    /\ ticked = {} /\ booking = "confirmed"
    /\ direct = [t \in Type |-> 0] /\ applied = <<>> /\ excused = {}
    /\ auto = FALSE /\ late = FALSE /\ byHand = {}

\* Mutation of Holds: every person may.
HoldsAny(who, permission) == who \notin Agent

\* authorize, for a permission given by those who hold it.
Holds(who, permission) == who \in permission

-----------------------------------------------------------------------------
(* The handover checklist.                                                 *)

\* refreshBookingHandoverStatus
HandoverStatus(done) ==
    CASE done = HandoverTask -> "handed_over"
      [] done = {} -> "confirmed"
      [] OTHER -> "handover_pending"

\* Mutation of AutoComplete: the booking is not refreshed.
AutoCompleteOnly(key) == ticked' = ticked \cup {key} /\ UNCHANGED booking

\* autoCompleteHandoverTaskByKey
AutoComplete(key) ==
    IF key \in ticked THEN UNCHANGED <<ticked, booking>>
    ELSE ticked' = ticked \cup {key} /\ booking' = HandoverStatus(ticked')

\* completeHandoverTask, of any task at any time.
CompleteHandoverTask(key) ==
    /\ Cardinality(byHand \cup {key}) <= MaxByHand
    /\ ticked' = ticked \cup {key}
    /\ booking' = HandoverStatus(ticked')
    /\ byHand' = byHand \cup {key}
    /\ UNCHANGED <<invoices, payments, ledger, auto, late, brief, confirmation>>

CreateOrUpdateBrief ==
    /\ brief = "none"
    /\ brief' = "draft"
    /\ UNCHANGED <<invoices, payments, ledger, auto, late, confirmation, ticked, booking, byHand>>

IssueOpsBrief ==
    /\ brief = "draft"
    /\ brief' = "issued"
    /\ AutoComplete("ops_brief")
    /\ UNCHANGED <<invoices, payments, ledger, auto, late, confirmation, byHand>>

Asked == \E i \in Item : confirmation[i] # "none"

\* generateSupplierConfirmations: once, and at least one is needed to tick the task.
GenerateSupplierConfirmations ==
    /\ ~Asked
    /\ \E items \in SUBSET Item :
          /\ confirmation' = [i \in Item |-> IF i \in items THEN "requested" ELSE "none"]
          /\ IF items # {} THEN AutoComplete("supplier_confirm") ELSE UNCHANGED <<ticked, booking>>
    /\ UNCHANGED <<invoices, payments, ledger, auto, late, brief, byHand>>

TransitionSupplierConfirmation(i, to) ==
    /\ confirmation[i] = "requested"
    /\ confirmation' = [confirmation EXCEPT ![i] = to]
    /\ UNCHANGED <<invoices, payments, ledger, auto, late, brief, ticked, booking, byHand>>

-----------------------------------------------------------------------------
(* Invoices.                                                               *)

\* invoicedTotal
InvoicedTotal == invoice["deposit"].amount + invoice["progress"].amount + invoice["final"].amount

Drafted(t, amount) ==
    /\ invoice[t] = NoInvoice
    /\ invoice' = [invoice EXCEPT ![t] = [status |-> "draft", amount |-> amount, paid |-> 0]]
    /\ UNCHANGED <<recs, payments, ledger, handover>>

\* createDepositInvoice and createProgressInvoice: a share of the price, whatever
\* has been invoiced before.
CreatePartInvoice(t) ==
    /\ \E amount \in Share : Drafted(t, amount)
    /\ late' = (late \/ invoice["final"] # NoInvoice)
    /\ UNCHANGED auto

Remaining == Price - InvoicedTotal

CreateFinalInvoice ==
    /\ Remaining > 0
    /\ Drafted("final", Remaining)
    /\ UNCHANGED <<auto, late>>

\* Mutation of Eligible: the progress invoice is not asked for.
EligibleAfterDeposit == invoice["final"] = NoInvoice /\ invoice["deposit"].status = "paid" /\ Remaining > 0

\* assessFinalInvoiceEligibility
Eligible ==
    /\ invoice["final"] = NoInvoice
    /\ invoice["deposit"].status = "paid" /\ invoice["progress"].status = "paid"
    /\ Remaining > 0

AutoCreateFinalInvoice ==
    /\ Eligible
    /\ Drafted("final", Remaining)
    /\ auto' = TRUE
    /\ UNCHANGED late

\* Mutation of CanIssue: an invoice with something left to pay is issued again.
CanIssueUnpaid(status) == status \in {"draft", "partially_paid"}

\* canIssueInvoice
CanIssue(status) == status = "draft"

\* issueInvoice opens a reconciliation.
IssueInvoice(t) ==
    /\ CanIssue(invoice[t].status)
    /\ invoice' = [invoice EXCEPT ![t].status = "issued"]
    /\ recs' = [recs EXCEPT ![t] = Append(@, [status |-> "open", expected |-> invoice[t].amount,
                                              received |-> 0, resolved |-> FALSE])]
    /\ IF t = "deposit" THEN AutoComplete("deposit_invoice") ELSE UNCHANGED <<ticked, booking>>
    /\ UNCHANGED <<payments, ledger, auto, late, brief, confirmation, byHand>>

\* deriveReconciliationStatus
DerivedStatus(expected, received) ==
    CASE expected = received -> "matched"
      [] expected # received /\ received > 0 -> "exception"
      [] OTHER -> "open"

\* recordInvoicePayment: of a draft, too.  The first reconciliation of the invoice follows.
Recorded(t, amount) ==
    LET paid == invoice[t].paid + amount
    IN  /\ invoice' = [invoice EXCEPT
              ![t].paid = paid,
              ![t].status = IF paid >= invoice[t].amount THEN "paid" ELSE "partially_paid"]
        /\ recs' = IF recs[t] = <<>> THEN recs
                   ELSE [recs EXCEPT ![t][1].received = paid,
                                     ![t][1].status = DerivedStatus(recs[t][1].expected, paid)]

\* The route that records a payment directly.
RecordInvoicePayment(t, amount) ==
    /\ invoice[t] # NoInvoice /\ (\E who \in Principal : Holds(who, Reconciler))
    /\ direct[t] + amount <= MaxDirect
    /\ Recorded(t, amount)
    /\ direct' = [direct EXCEPT ![t] = @ + amount]
    /\ UNCHANGED <<payments, applied, excused, auto, late, handover>>

\* resolveReconciliation declares a reconciliation matched, whatever it says.
ResolveReconciliation(t, k) ==
    /\ \E who \in Principal : Holds(who, Reconciler)
    /\ recs' = [recs EXCEPT ![t][k].status = "matched", ![t][k].resolved = TRUE]
    /\ UNCHANGED <<invoice, payments, ledger, auto, late, handover>>

-----------------------------------------------------------------------------
(* Payments.                                                               *)

\* Mutation of Linked: a new request replaces the link of an earlier one.
LinkedAlone(t, p) == <<p>>

Linked(t, p) == Append(link[t], p)

\* requestInvoicePayment and createPayment.  Only the first link of the invoice is
\* looked at, so a second payment may be asked for once the first is decided.
RequestInvoicePayment(t, who, amount) ==
    /\ Holds(who, Requester) /\ Len(payment) < MaxPayment
    /\ invoice[t].status \notin {"none", "draft"}
    /\ link[t] # <<>> => payment[Head(link[t])].status # "pending"
    /\ LET p == Len(payment) + 1
       IN  /\ payment' = Append(payment, [on |-> t, by |-> who, amount |-> amount,
                                          status |-> "pending", decider |-> Nobody])
           /\ link' = [link EXCEPT ![t] = Linked(t, p)]
           /\ applied' = Append(applied, 0)
           /\ excused' = IF link[t] # <<>> THEN excused \cup {p} ELSE excused
    /\ UNCHANGED <<invoices, direct, auto, late, handover>>

\* canDecide; sodViolation refuses the same person once more.
MayDecide(p, who) == payment[p].status = "pending" /\ who \notin Agent /\ who # payment[p].by

DecideApproval(p, who, outcome) ==
    /\ Holds(who, Approver) /\ MayDecide(p, who)
    /\ payment' = [payment EXCEPT ![p].status = outcome, ![p].decider = who]
    /\ UNCHANGED <<invoices, link, ledger, auto, late, handover>>

\* applyApprovedInvoicePayment looks at the first link, removes all links of the
\* invoice and only then asks whether the caller may record the payment.
ApplyApprovedInvoicePayment(t, who) ==
    /\ link[t] # <<>> /\ payment[Head(link[t])].status = "approved"
    /\ link' = [link EXCEPT ![t] = <<>>]
    /\ IF Holds(who, Reconciler)
       THEN /\ Recorded(t, payment[Head(link[t])].amount)
            /\ applied' = [applied EXCEPT ![Head(link[t])] = @ + 1]
            /\ UNCHANGED excused
       ELSE /\ excused' = excused \cup ToSet(link[t])
            /\ UNCHANGED <<invoices, applied>>
    /\ UNCHANGED <<payment, direct, auto, late, handover>>

Next ==
    \/ \E key \in HandoverTask : CompleteHandoverTask(key)
    \/ CreateOrUpdateBrief \/ IssueOpsBrief \/ GenerateSupplierConfirmations
    \/ \E i \in Item, to \in {"confirmed", "declined"} : TransitionSupplierConfirmation(i, to)
    \/ \E t \in {"deposit", "progress"} : CreatePartInvoice(t)
    \/ CreateFinalInvoice \/ AutoCreateFinalInvoice
    \/ \E t \in Type : IssueInvoice(t)
    \/ \E t \in Type, amount \in Amount : RecordInvoicePayment(t, amount)
    \/ \E t \in Type : \E k \in DOMAIN recs[t] : ResolveReconciliation(t, k)
    \/ \E t \in Type, who \in Principal, amount \in Amount : RequestInvoicePayment(t, who, amount)
    \/ \E p \in DOMAIN payment, who \in Principal, outcome \in {"approved", "rejected"} : DecideApproval(p, who, outcome)
    \/ \E t \in Type, who \in Principal : ApplyApprovedInvoicePayment(t, who)

Spec == Init /\ [][Next]_vars

-----------------------------------------------------------------------------
(* Properties.                                                             *)

TypeOK ==
    /\ invoice \in [Type -> [status : {"none", "draft", "issued", "partially_paid", "paid"},
                             amount : Nat, paid : Nat]]
    /\ \A t \in Type : recs[t] \in Seq([status : {"open", "matched", "exception"}, expected : Nat,
                                        received : Nat, resolved : BOOLEAN])
    /\ payment \in Seq([on : Type, by : Requester, amount : Amount,
                        status : {"pending", "approved", "rejected"}, decider : Approver \cup {Nobody}])
    /\ \A t \in Type : link[t] \in Seq({p \in DOMAIN payment : payment[p].on = t})
    /\ brief \in {"none", "draft", "issued"}
    /\ confirmation \in [Item -> {"none", "requested", "confirmed", "declined"}]
    /\ byHand \subseteq ticked /\ ticked \subseteq HandoverTask
    /\ booking \in {"confirmed", "handover_pending", "handed_over"}
    /\ direct \in [Type -> 0 .. MaxDirect]
    /\ applied \in Seq(Nat) /\ Len(applied) = Len(payment)
    /\ excused \subseteq DOMAIN payment
    /\ auto \in BOOLEAN /\ late \in BOOLEAN

\* What an invoice says was paid is what was recorded directly and what the
\* payments applied to it were asked for.
PaidIsAccountedFor ==
    \A t \in Type :
        invoice[t].paid = direct[t] + MapThenSumSet(LAMBDA p : applied[p] * payment[p].amount,
                                                   {p \in DOMAIN payment : payment[p].on = t})

\* An invoice has one reconciliation, opened before anything is paid, and the two
\* agree ever after; it is matched only if the sums are equal or a person said so.
ReconciliationFollows ==
    \A t \in Type : \A k \in DOMAIN recs[t] :
        /\ k = 1
        /\ recs[t][k].expected = invoice[t].amount /\ recs[t][k].received = invoice[t].paid
        /\ recs[t][k].status = "matched" => invoice[t].paid = invoice[t].amount \/ recs[t][k].resolved
        /\ recs[t][k].status = "exception" => invoice[t].paid \notin {0, invoice[t].amount}
        /\ (invoice[t].status = "paid") = (invoice[t].paid >= invoice[t].amount)

\* i8-finance: "Issue invoice + open reconciliation", "Apply approved payment to
\* invoice -> updates reconciliation".  Whatever the order of the calls, invoice,
\* reconciliation and payments tell the same sums.
BooksBalance == PaidIsAccountedFor /\ ReconciliationFollows

\* i8-finance: "Different finance approver approves".  A payment is applied once
\* at most, after a person who did not ask for it has approved it; and an approved
\* payment stays applicable until it is applied, unless an earlier request was
\* still linked to the invoice or a refused call removed the link.
ReleasedOnceByAnother ==
    \A p \in DOMAIN payment :
        LET me == payment[p]
        IN  /\ applied[p] > 0 => applied[p] = 1 /\ me.status = "approved"
            /\ me.status # "pending" => me.decider \in Approver \ (Agent \cup {me.by})
            /\ me.status = "approved" /\ applied[p] = 0 /\ p \notin excused =>
                  link[me.on] # <<>> /\ Head(link[me.on]) = p

\* i8.3: "Remaining contract balance", due once deposit and progress are "fully
\* paid".  The invoices of a booking add up to its price once there is a final
\* one, and stay so unless a deposit or a progress invoice is raised after it,
\* which cannot be after an automatic one.
FinalClosesBill ==
    invoice["final"] # NoInvoice =>
        /\ InvoicedTotal = Price \/ late
        /\ auto => ~late /\ \A t \in {"deposit", "progress"} : invoice[t].status = "paid"

\* c9, i8: the booking is handed over exactly when the checklist is done, and a
\* task nobody ticked by hand is complete exactly when what it stands for exists:
\* the issued brief, confirmations asked for, the issued deposit invoice.
HandoverFollows ==
    /\ booking = HandoverStatus(ticked)
    /\ ticked \ byHand \subseteq {"ops_brief", "supplier_confirm", "deposit_invoice"}
    /\ ("ops_brief" \in ticked) = (brief = "issued" \/ "ops_brief" \in byHand)
    /\ ("supplier_confirm" \in ticked) = (Asked \/ "supplier_confirm" \in byHand)
    /\ ("deposit_invoice" \in ticked) = (recs["deposit"] # <<>> \/ "deposit_invoice" \in byHand)

=============================================================================
