--------------------------- MODULE SettlementProofs ---------------------------
(***************************************************************************)
(* Proofs about Settlement, for any price, shares and amounts, any people  *)
(* and any number of payments.                                             *)
(*                                                                         *)
(* The handlers look at the first of several records and trust that there  *)
(* is one at most (the reconciliation of an invoice), or that the first is *)
(* the one that matters (the link of an invoice to its payments).  Inv     *)
(* says when that is so: an invoice has no reconciliation before it is     *)
(* issued and one afterwards, and a payment that is neither applied nor    *)
(* excused is the first its invoice is linked to.                          *)
(* The books then balance: one sum over the payments, taken element by     *)
(* element, follows every call.                                            *)
(***************************************************************************)
EXTENDS Settlement, FiniteSetTheorems, WellFoundedInduction, TLAPS

-----------------------------------------------------------------------------
(* The inductive invariant, in four parts: the invoices with their          *)
(* reconciliations, the payments, the final bill and the handover.          *)

Invoices == [status : {"none", "draft", "issued", "partially_paid", "paid"}, amount : Nat, paid : Nat]

Recs == [status : {"open", "matched", "exception"}, expected : Nat, received : Nat, resolved : BOOLEAN]

Payments == [on : Type, by : Requester, amount : Amount,
             status : {"pending", "approved", "rejected"}, decider : Approver \cup {Nobody}]

\* A reconciliation r agrees with its invoice i.
Follows(r, i) ==
    /\ r.expected = i.amount /\ r.received = i.paid
    /\ r.status = "matched" => i.paid = i.amount \/ r.resolved
    /\ r.status = "exception" => i.paid \notin {0, i.amount}

InvoiceOK(i, rs) ==
    /\ i \in Invoices
    /\ i.status = "none" => i = NoInvoice
    /\ i.status # "none" => 0 < i.amount /\ (i.status = "paid") = (i.paid >= i.amount)
    /\ i.status \in {"draft", "issued"} => i.paid = 0
    /\ i.status \in {"none", "draft"} => rs = <<>>
    /\ rs = <<>> \/ (rs = <<rs[1]>> /\ rs[1] \in Recs /\ Follows(rs[1], i))

InvoicePart ==
    /\ invoice = [t \in Type |-> invoice[t]] /\ recs = [t \in Type |-> recs[t]]
    /\ \A t \in Type : InvoiceOK(invoice[t], recs[t])
    /\ direct \in [Type -> 0 .. MaxDirect]

\* A payment that was neither applied nor excused is the first link of its invoice.
Waiting(p) ==
    p \notin excused /\ applied[p] = 0 =>
        link[payment[p].on] # <<>> /\ Head(link[payment[p].on]) = p

Released(p) ==
    /\ applied[p] \in {0, 1}
    /\ applied[p] = 1 => payment[p].status = "approved"
    /\ payment[p].status # "pending" => payment[p].decider \in Approver \ (Agent \cup {payment[p].by})

\* An invoice is linked to payments asked for it that have not been applied.
Links(t, p) == p \in DOMAIN payment /\ payment[p].on = t /\ applied[p] = 0

PaymentPart ==
    /\ payment \in Seq(Payments)
    /\ applied \in Seq(Nat) /\ Len(applied) = Len(payment)
    /\ excused \subseteq DOMAIN payment
    /\ \A p \in DOMAIN payment : Waiting(p) /\ Released(p)
    /\ link = [t \in Type |-> link[t]]
    /\ \A t \in Type : link[t] \in Seq(Nat) /\ \A k \in DOMAIN link[t] : Links(t, link[t][k])

BillPart ==
    /\ auto \in BOOLEAN /\ late \in BOOLEAN
    /\ auto \/ late => invoice["final"] # NoInvoice
    /\ FinalClosesBill

HandoverPart ==
    /\ brief \in {"none", "draft", "issued"}
    /\ confirmation \in [Item -> {"none", "requested", "confirmed", "declined"}]
    /\ byHand \subseteq ticked /\ ticked \subseteq HandoverTask
    /\ HandoverFollows

\* Payments are asked for invoices there are.
LinkPart == \A t \in Type : link[t] # <<>> => invoice[t] # NoInvoice

Inv == InvoicePart /\ PaymentPart /\ LinkPart /\ BillPart /\ HandoverPart

-----------------------------------------------------------------------------
(* Helpers.                                                                *)

LEMMA Types ==
    "deposit" \in Type /\ "progress" \in Type /\ "final" \in Type
BY DEF Type

LEMMA NoInvoiceType ==
    /\ NoInvoice \in Invoices /\ NoInvoice.status = "none"
    /\ NoInvoice.amount = 0 /\ NoInvoice.paid = 0
BY DEF NoInvoice, Invoices

\* What Inv says of the price and of what is paid is what the parts of the
\* handlers that read them need.
LEMMA InvoiceType ==
    ASSUME InvoicePart
    PROVE  /\ \A t \in Type : invoice[t] \in Invoices /\ invoice[t].amount \in Nat /\ invoice[t].paid \in Nat
           /\ \A t \in Type : direct[t] \in Nat
           /\ InvoicedTotal \in Nat
<1>1. \A t \in Type : invoice[t] \in Invoices /\ invoice[t].amount \in Nat /\ invoice[t].paid \in Nat
  BY DEF InvoicePart, InvoiceOK, Invoices
<1>2. \A t \in Type : direct[t] \in Nat
  BY SettlementAssumption DEF InvoicePart
<1> QED BY <1>1, <1>2, Types DEF InvoicedTotal

\* An invoice is there when it is not NoInvoice.
LEMMA IsThere ==
    ASSUME InvoicePart, NEW t \in Type
    PROVE  (invoice[t] = NoInvoice) = (invoice[t].status = "none")
BY NoInvoiceType DEF InvoicePart, InvoiceOK

-----------------------------------------------------------------------------
(* The invoices.                                                           *)

LEMMA InvoiceChanged ==
    ASSUME InvoicePart, NEW t \in Type, NEW i, NEW rs, InvoiceOK(i, rs),
           invoice' = [invoice EXCEPT ![t] = i], recs' = [recs EXCEPT ![t] = rs],
           direct' \in [Type -> 0 .. MaxDirect]
    PROVE  InvoicePart'
<1>1. /\ invoice' = [u \in Type |-> invoice'[u]] /\ recs' = [u \in Type |-> recs'[u]]
      /\ invoice'[t] = i /\ recs'[t] = rs
      /\ \A u \in Type : u # t => invoice'[u] = invoice[u] /\ recs'[u] = recs[u]
  BY DEF InvoicePart
<1>2. ASSUME NEW u \in Type PROVE InvoiceOK(invoice'[u], recs'[u])
  BY <1>1 DEF InvoicePart
<1> QED BY <1>1, <1>2 DEF InvoicePart

LEMMA InvoicesStay ==
    ASSUME InvoicePart, invoice' = invoice, recs' = recs, direct' = direct
    PROVE  InvoicePart'
BY DEF InvoicePart

LEMMA DraftedInvoice ==
    ASSUME InvoicePart, NEW t \in Type, NEW amount \in Nat \ {0}, Drafted(t, amount)
    PROVE  /\ InvoicePart' /\ invoice'[t] # NoInvoice /\ invoice'[t].amount = amount
           /\ invoice'[t].status = "draft"
           /\ invoice[t].amount = 0
           /\ \A u \in Type : u # t => invoice'[u] = invoice[u]
<1>1. PICK i : i = [status |-> "draft", amount |-> amount, paid |-> 0]
  OBVIOUS
<1>2. i.status = "draft" /\ i.amount = amount /\ i.paid = 0 /\ i \in Invoices
  BY <1>1 DEF Invoices
<1>3. invoice[t] = NoInvoice /\ recs[t] = <<>>
  BY NoInvoiceType DEF Drafted, InvoicePart, InvoiceOK
<1>4. InvoiceOK(i, recs[t])
  BY <1>2, <1>3 DEF InvoiceOK
<1>5. /\ invoice' = [invoice EXCEPT ![t] = i] /\ recs' = recs /\ direct' = direct
      /\ recs' = [recs EXCEPT ![t] = recs[t]]
  BY <1>1 DEF Drafted, ledger, InvoicePart
<1>6. InvoicePart'
  BY <1>4, <1>5, InvoiceChanged DEF InvoicePart
<1>7. invoice'[t] = i /\ \A u \in Type : u # t => invoice'[u] = invoice[u]
  BY <1>5 DEF InvoicePart
<1> QED BY <1>2, <1>3, <1>6, <1>7, NoInvoiceType

\* issueInvoice: a draft has no reconciliation yet, so the one it opens is the
\* only one.
LEMMA IssuedInvoice ==
    ASSUME InvoicePart, NEW t \in Type, IssueInvoice(t)
    PROVE  /\ InvoicePart' /\ recs'[t] # <<>>
           /\ \A u \in Type : /\ invoice'[u].amount = invoice[u].amount
                              /\ (invoice'[u] # NoInvoice) = (invoice[u] # NoInvoice)
                              /\ invoice[u].status = "paid" => invoice'[u].status = "paid"
                              /\ u # t => recs'[u] = recs[u]
<1>1. /\ invoice[t].status = "draft" /\ recs[t] = <<>> /\ invoice[t] \in Invoices
      /\ invoice[t].paid = 0 /\ 0 < invoice[t].amount
  BY DEF IssueInvoice, CanIssue, InvoicePart, InvoiceOK
<1>2. PICK i : i = [invoice[t] EXCEPT !.status = "issued"]
  OBVIOUS
<1>3. /\ i.status = "issued" /\ i.amount = invoice[t].amount /\ i.paid = 0 /\ i \in Invoices
      /\ i.amount \in Nat
  BY <1>1, <1>2 DEF Invoices
<1>4. PICK r : r = [status |-> "open", expected |-> invoice[t].amount, received |-> 0, resolved |-> FALSE]
  OBVIOUS
<1>5. /\ r.status = "open" /\ r.expected = i.amount /\ r.received = 0 /\ r \in Recs
  BY <1>1, <1>3, <1>4 DEF Recs, Invoices
<1>6. PICK rs : rs = <<r>>
  OBVIOUS
<1>7. rs = <<rs[1]>> /\ rs[1] = r /\ rs # <<>>
  BY <1>6
<1>8. InvoiceOK(i, rs)
  BY <1>1, <1>3, <1>5, <1>7 DEF InvoiceOK, Follows
<1>9. invoice' = [invoice EXCEPT ![t] = i] /\ direct' = direct
  BY <1>2 DEF IssueInvoice, ledger, InvoicePart
<1>10. recs' = [recs EXCEPT ![t] = rs]
  <2>1. Append(recs[t], r) = rs
    BY <1>1, <1>6
  <2> QED BY <1>4, <2>1 DEF IssueInvoice, InvoicePart
<1>11. InvoicePart'
  BY <1>8, <1>9, <1>10, InvoiceChanged DEF InvoicePart
<1>12. /\ invoice'[t] = i /\ recs'[t] = rs
       /\ \A u \in Type : u # t => invoice'[u] = invoice[u] /\ recs'[u] = recs[u]
  BY <1>9, <1>10 DEF InvoicePart
<1> QED BY <1>1, <1>3, <1>7, <1>11, <1>12, NoInvoiceType

\* A sequence of one element, changed in place, has one element.
LEMMA OneElement ==
    ASSUME NEW r, NEW s, NEW rs, rs = <<r>>
    PROVE  [rs EXCEPT ![1] = s] = <<s>>
OBVIOUS

LEMMA RecsRecorded ==
    ASSUME InvoicePart, NEW t \in Type, NEW amount, Recorded(t, amount), recs[t] # <<>>
    PROVE  LET paid == invoice[t].paid + amount
               r == [recs[t][1] EXCEPT !.received = paid, !.status = DerivedStatus(recs[t][1].expected, paid)]
           IN  recs' = [recs EXCEPT ![t] = <<r>>]
<1> DEFINE paid == invoice[t].paid + amount
<1> DEFINE st == DerivedStatus(recs[t][1].expected, paid)
<1> DEFINE r == [recs[t][1] EXCEPT !.received = paid, !.status = st]
<1>1. recs[t] = <<recs[t][1]>> /\ recs[t][1] \in Recs /\ recs = [u \in Type |-> recs[u]]
  BY DEF InvoicePart, InvoiceOK
<1>2. recs' = [recs EXCEPT ![t][1].received = paid, ![t][1].status = st]
  BY DEF Recorded
<1>3. PICK x : x = recs[t][1]
  OBVIOUS
<1>4. [recs EXCEPT ![t][1].received = paid, ![t][1].status = st] = [recs EXCEPT ![t] = [@ EXCEPT ![1] = r]]
  BY <1>1
<1>5. [recs[t] EXCEPT ![1] = r] = <<r>>
  BY <1>1, OneElement
<1> QED BY <1>1, <1>2, <1>4, <1>5

\* recordInvoicePayment: the reconciliation follows the invoice to its new sum.
LEMMA RecordedInvoice ==
    ASSUME InvoicePart, NEW t \in Type, NEW amount \in Nat \ {0}, Recorded(t, amount),
           invoice[t] # NoInvoice, direct' \in [Type -> 0 .. MaxDirect]
    PROVE  /\ InvoicePart' /\ (recs'[t] # <<>>) = (recs[t] # <<>>)
           /\ \A u \in Type : /\ invoice'[u].amount = invoice[u].amount
                              /\ (invoice'[u] # NoInvoice) = (invoice[u] # NoInvoice)
                              /\ invoice[u].status = "paid" => invoice'[u].status = "paid"
                              /\ u # t => recs'[u] = recs[u]
<1> DEFINE paid == invoice[t].paid + amount
<1> DEFINE st == IF paid >= invoice[t].amount THEN "paid" ELSE "partially_paid"
<1>1. /\ invoice[t].status # "none" /\ invoice[t] \in Invoices /\ 0 < invoice[t].amount
      /\ invoice[t].amount \in Nat /\ invoice[t].paid \in Nat /\ InvoiceOK(invoice[t], recs[t])
      /\ (invoice[t].status = "paid") = (invoice[t].paid >= invoice[t].amount)
  BY IsThere, InvoiceType DEF InvoicePart, InvoiceOK
<1>2. PICK i : i = [invoice[t] EXCEPT !.paid = paid, !.status = st]
  OBVIOUS
<1>3. paid \in Nat /\ 0 < paid /\ st \in {"paid", "partially_paid"}
  BY <1>1
<1> HIDE DEF st
<1>4. i.status = st /\ i.amount = invoice[t].amount /\ i.paid = paid /\ i \in Invoices
  BY <1>1, <1>2, <1>3 DEF Invoices
<1>5. (st = "paid") = (paid >= invoice[t].amount)
  BY <1>1, <1>3 DEF st
<1>6. invoice' = [invoice EXCEPT ![t] = i]
  BY <1>2 DEF Recorded, InvoicePart, st
<1>7. ASSUME NEW rs, rs = <<>> \/ (rs = <<rs[1]>> /\ rs[1] \in Recs /\ Follows(rs[1], i)),
             recs' = [recs EXCEPT ![t] = rs], (rs # <<>>) = (recs[t] # <<>>)
      PROVE  /\ InvoicePart' /\ (recs'[t] # <<>>) = (recs[t] # <<>>)
             /\ \A u \in Type : /\ invoice'[u].amount = invoice[u].amount
                                /\ (invoice'[u] # NoInvoice) = (invoice[u] # NoInvoice)
                                /\ invoice[u].status = "paid" => invoice'[u].status = "paid"
                                /\ u # t => recs'[u] = recs[u]
  <2>1. InvoiceOK(i, rs)
    BY <1>1, <1>3, <1>4, <1>5, <1>7 DEF InvoiceOK
  <2>2. InvoicePart'
    BY <1>6, <1>7, <2>1, InvoiceChanged
  <2>3. /\ invoice'[t] = i /\ recs'[t] = rs
        /\ \A u \in Type : u # t => invoice'[u] = invoice[u] /\ recs'[u] = recs[u]
    BY <1>6, <1>7 DEF InvoicePart
  <2>4. invoice[t].status = "paid" => st = "paid"
    BY <1>1, <1>3, <1>5
  <2>5. i # NoInvoice
    BY <1>3, <1>4, NoInvoiceType
  <2> QED BY <1>4, <1>7, <2>2, <2>3, <2>4, <2>5
<1>8. CASE recs[t] = <<>>
  <2>1. recs' = [recs EXCEPT ![t] = recs[t]]
    BY <1>8 DEF Recorded, InvoicePart
  <2> QED BY <1>7, <1>8, <2>1
<1>9. CASE recs[t] # <<>>
  <2>1. PICK r : r = [recs[t][1] EXCEPT !.received = paid, !.status = DerivedStatus(recs[t][1].expected, paid)]
    OBVIOUS
  <2>2. recs' = [recs EXCEPT ![t] = <<r>>]
    BY <1>9, <2>1, RecsRecorded
  <2>3. recs[t][1] \in Recs /\ recs[t][1].expected = invoice[t].amount
    BY <1>1, <1>9 DEF InvoiceOK, Follows
  <2>4. PICK d : d = DerivedStatus(invoice[t].amount, paid)
    OBVIOUS
  <2>5. /\ d \in {"open", "matched", "exception"}
        /\ d = "matched" => paid = invoice[t].amount
        /\ d = "exception" => paid \notin {0, invoice[t].amount}
    BY <1>1, <1>3, <2>4 DEF DerivedStatus
  <2>6. /\ r.expected = invoice[t].amount /\ r.received = paid /\ r.status = d /\ r \in Recs
    BY <1>3, <2>1, <2>3, <2>4, <2>5 DEF Recs
  <2>7. Follows(r, i)
    BY <1>4, <2>5, <2>6 DEF Follows
  <2>8. PICK rs : rs = <<r>>
    OBVIOUS
  <2>9. rs = <<rs[1]>> /\ rs[1] = r /\ rs # <<>> /\ recs' = [recs EXCEPT ![t] = rs]
    BY <2>2, <2>8
  <2> QED BY <1>7, <1>9, <2>6, <2>7, <2>9
<1> QED BY <1>8, <1>9

LEMMA ResolvedInvoice ==
    ASSUME InvoicePart, NEW t \in Type, NEW k \in DOMAIN recs[t], ResolveReconciliation(t, k)
    PROVE  InvoicePart' /\ \A u \in Type : (recs'[u] # <<>>) = (recs[u] # <<>>)
<1>1. /\ recs[t] = <<recs[t][1]>> /\ recs[t][1] \in Recs /\ Follows(recs[t][1], invoice[t])
      /\ recs = [u \in Type |-> recs[u]] /\ recs[t] # <<>>
  BY DEF InvoicePart, InvoiceOK
<1>2. k = 1
  BY <1>1
<1>3. PICK r : r = [recs[t][1] EXCEPT !.status = "matched", !.resolved = TRUE]
  OBVIOUS
<1>4. r \in Recs /\ r.status = "matched" /\ r.resolved = TRUE /\ r.expected = recs[t][1].expected
      /\ r.received = recs[t][1].received
  BY <1>1, <1>3 DEF Recs
<1>5. recs' = [recs EXCEPT ![t] = [@ EXCEPT ![1] = r]]
  BY <1>1, <1>2, <1>3 DEF ResolveReconciliation
<1>6. [recs[t] EXCEPT ![1] = r] = <<r>>
  BY <1>1, OneElement
<1>7. PICK rs : rs = <<r>>
  OBVIOUS
<1>8. rs = <<rs[1]>> /\ rs[1] = r /\ rs # <<>>
  BY <1>7
<1>9. recs' = [recs EXCEPT ![t] = rs]
  BY <1>1, <1>5, <1>6, <1>7
<1>10. Follows(r, invoice[t])
  BY <1>1, <1>4 DEF Follows
<1>11. InvoiceOK(invoice[t], rs)
  BY <1>1, <1>4, <1>8, <1>10 DEF InvoicePart, InvoiceOK
<1>12. invoice' = [invoice EXCEPT ![t] = invoice[t]] /\ direct' = direct
  BY DEF ResolveReconciliation, ledger, InvoicePart
<1>13. InvoicePart'
  BY <1>9, <1>11, <1>12, InvoiceChanged DEF InvoicePart
<1>14. \A u \in Type : (recs'[u] # <<>>) = (recs[u] # <<>>)
  BY <1>1, <1>8, <1>9
<1> QED BY <1>13, <1>14

-----------------------------------------------------------------------------
(* The payments.                                                           *)

LEMMA PaymentsStay ==
    ASSUME PaymentPart, payment' = payment, link' = link, applied' = applied, excused' = excused
    PROVE  PaymentPart'
<1>1. \A p \in DOMAIN payment : Waiting(p)' /\ Released(p)'
  BY DEF PaymentPart, Waiting, Released
<1>2. ASSUME NEW t \in Type, NEW k \in DOMAIN link[t] PROVE Links(t, link[t][k])'
  BY <1>2 DEF PaymentPart, Links
<1> QED BY <1>1, <1>2 DEF PaymentPart

LEMMA Appended ==
    ASSUME NEW S, NEW s \in Seq(S), NEW x \in S
    PROVE  /\ Append(s, x) \in Seq(S) /\ Append(s, x) # <<>>
           /\ Len(Append(s, x)) = Len(s) + 1
           /\ DOMAIN s = 1 .. Len(s) /\ DOMAIN Append(s, x) = 1 .. (Len(s) + 1)
           /\ Append(s, x)[Len(s) + 1] = x
           /\ \A k \in 1 .. Len(s) : Append(s, x)[k] = s[k]
           /\ s # <<>> => Head(Append(s, x)) = Head(s)
           /\ s = <<>> => Head(Append(s, x)) = x
OBVIOUS

\* A payment is asked for: it is the first of its invoice, or excused for being
\* asked for after an earlier one.
LEMMA RequestedPayment ==
    ASSUME PaymentPart, NEW t \in Type, NEW who \in Principal, NEW amount \in Amount,
           RequestInvoicePayment(t, who, amount)
    PROVE  PaymentPart'
<1>0. PICK p : p = Len(payment) + 1
  OBVIOUS
<1>1. PICK new : new = [on |-> t, by |-> who, amount |-> amount, status |-> "pending", decider |-> Nobody]
  OBVIOUS
<1>2. new \in Payments /\ new.on = t /\ new.status = "pending"
  BY <1>1 DEF RequestInvoicePayment, Holds, Payments
<1>3. /\ payment \in Seq(Payments) /\ applied \in Seq(Nat) /\ Len(applied) = Len(payment)
      /\ link[t] \in Seq(Nat) /\ p \in Nat /\ DOMAIN payment = 1 .. Len(payment)
  BY <1>0 DEF PaymentPart
<1>4. /\ payment' = Append(payment, new) /\ applied' = Append(applied, 0)
      /\ link' = [link EXCEPT ![t] = Append(link[t], p)]
      /\ excused' = IF link[t] # <<>> THEN excused \cup {p} ELSE excused
  BY <1>0, <1>1 DEF RequestInvoicePayment, Linked
<1>5. /\ payment' \in Seq(Payments) /\ applied' \in Seq(Nat) /\ Len(applied') = Len(payment')
      /\ DOMAIN payment' = 1 .. p /\ payment'[p] = new /\ applied'[p] = 0
      /\ \A q \in DOMAIN payment : payment'[q] = payment[q] /\ applied'[q] = applied[q]
  BY <1>0, <1>2, <1>3, <1>4, Appended
<1>6. PICK ls : ls = Append(link[t], p)
  OBVIOUS
<1>7. /\ ls \in Seq(Nat) /\ ls # <<>> /\ DOMAIN ls = 1 .. (Len(link[t]) + 1) /\ ls[Len(link[t]) + 1] = p
      /\ DOMAIN link[t] = 1 .. Len(link[t]) /\ \A k \in 1 .. Len(link[t]) : ls[k] = link[t][k]
      /\ link[t] # <<>> => Head(ls) = Head(link[t])
      /\ link[t] = <<>> => Head(ls) = p
  <2>1. PICK old : old = link[t]
    OBVIOUS
  <2>2. old \in Seq(Nat) /\ p \in Nat
    BY <1>3, <2>1
  <2>3. ls = Append(old, p)
    BY <1>6, <2>1
  <2> QED BY <2>1, <2>2, <2>3, Appended
<1>8. /\ link' = [u \in Type |-> link'[u]] /\ link'[t] = ls
      /\ \A u \in Type : u # t => link'[u] = link[u]
  BY <1>4, <1>6 DEF PaymentPart
<1>9. p \notin DOMAIN payment /\ DOMAIN payment' = DOMAIN payment \cup {p}
  BY <1>0, <1>3, <1>5
<1>10. excused' \subseteq DOMAIN payment' /\ excused \subseteq excused'
       /\ (link[t] # <<>> => p \in excused')
  BY <1>4, <1>9 DEF PaymentPart
<1>11. ASSUME NEW q \in DOMAIN payment PROVE Waiting(q)' /\ Released(q)'
  <2>0. payment[q] \in Payments
    BY <1>3, <1>11
  <2>1. payment'[q] = payment[q] /\ applied'[q] = applied[q] /\ Waiting(q) /\ Released(q)
        /\ payment[q].on \in Type
    BY <1>5, <2>0 DEF PaymentPart, Payments
  <2>2. Released(q)'
    BY <2>1 DEF Released
  <2>3. ASSUME q \notin excused', applied'[q] = 0
        PROVE  link'[payment'[q].on] # <<>> /\ Head(link'[payment'[q].on]) = q
    <3>1. link[payment[q].on] # <<>> /\ Head(link[payment[q].on]) = q
      BY <1>10, <2>1, <2>3 DEF Waiting
    <3>2. CASE payment[q].on = t
      BY <1>7, <1>8, <2>1, <3>1, <3>2
    <3>3. CASE payment[q].on # t
      BY <1>8, <2>1, <3>1, <3>3
    <3> QED BY <3>2, <3>3
  <2> QED BY <2>2, <2>3 DEF Waiting
<1>12. Waiting(p)' /\ Released(p)'
  <2>1. Released(p)'
    BY <1>2, <1>5 DEF Released
  <2>2. p \notin excused' => link'[t] # <<>> /\ Head(link'[t]) = p
    BY <1>7, <1>8, <1>10
  <2> QED BY <1>2, <1>5, <2>1, <2>2 DEF Waiting
<1>13. ASSUME NEW u \in Type PROVE link'[u] \in Seq(Nat) /\ \A k \in DOMAIN link'[u] : Links(u, link[u][k])'
  <2>1. \A k \in DOMAIN link[u] : Links(u, link[u][k]) /\ link[u] \in Seq(Nat)
    BY DEF PaymentPart
  <2>2. ASSUME NEW q, Links(u, q)
        PROVE  q \in DOMAIN payment' /\ payment'[q].on = u /\ applied'[q] = 0
    BY <1>5, <1>9, <2>2 DEF Links
  <2>3. ASSUME NEW k \in DOMAIN link'[u]
        PROVE  link'[u][k] \in DOMAIN payment' /\ payment'[link'[u][k]].on = u /\ applied'[link'[u][k]] = 0
    <3>1. CASE u # t
      BY <1>8, <2>1, <2>2, <2>3, <3>1
    <3>2. CASE u = t /\ k \in 1 .. Len(link[t])
      BY <1>7, <1>8, <2>1, <2>2, <3>2
    <3>3. CASE u = t /\ k = Len(link[t]) + 1
      BY <1>2, <1>5, <1>7, <1>8, <1>9, <3>3
    <3>4. u = t => k \in 1 .. Len(link[t]) \/ k = Len(link[t]) + 1
      BY <1>3, <1>7, <1>8, <2>3
    <3> QED BY <3>1, <3>2, <3>3, <3>4
  <2>4. link'[u] \in Seq(Nat)
    BY <1>7, <1>8 DEF PaymentPart
  <2> QED BY <2>3, <2>4 DEF Links
<1> QED BY <1>5, <1>8, <1>9, <1>10, <1>11, <1>12, <1>13 DEF PaymentPart

\* A payment is decided, while it is pending, by a person who did not ask for it.
LEMMA DecidedPayment ==
    ASSUME PaymentPart, NEW p \in DOMAIN payment, NEW who \in Principal,
           NEW outcome \in {"approved", "rejected"}, DecideApproval(p, who, outcome)
    PROVE  PaymentPart'
<1>1. /\ payment \in Seq(Payments) /\ payment[p] \in Payments /\ payment[p].status = "pending"
      /\ who \in Approver \ (Agent \cup {payment[p].by})
  BY DEF PaymentPart, DecideApproval, MayDecide, Holds
<1>2. PICK new : new = [payment[p] EXCEPT !.status = outcome, !.decider = who]
  OBVIOUS
<1>3. /\ new \in Payments /\ new.status = outcome /\ new.decider = who /\ new.by = payment[p].by
      /\ new.on = payment[p].on
  BY <1>1, <1>2 DEF Payments
<1>4. payment' = [payment EXCEPT ![p] = new] /\ link' = link /\ applied' = applied /\ excused' = excused
  BY <1>1, <1>2 DEF DecideApproval, ledger
<1>5. /\ payment' \in Seq(Payments) /\ DOMAIN payment' = DOMAIN payment /\ Len(payment') = Len(payment)
      /\ payment'[p] = new /\ \A q \in DOMAIN payment : q # p => payment'[q] = payment[q]
  BY <1>1, <1>3, <1>4
<1>6. ASSUME NEW q \in DOMAIN payment PROVE Waiting(q)' /\ Released(q)'
  <2>1. Waiting(q) /\ Released(q) /\ payment'[q].on = payment[q].on
    BY <1>3, <1>5 DEF PaymentPart
  <2>2. Waiting(q)'
    BY <1>4, <2>1 DEF Waiting
  <2>3. q = p => Released(q)'
    BY <1>1, <1>3, <1>4, <1>5, <2>1 DEF Released
  <2>4. q # p => Released(q)'
    BY <1>4, <1>5, <2>1 DEF Released
  <2> QED BY <2>2, <2>3, <2>4
<1>7. ASSUME NEW t \in Type, NEW k \in DOMAIN link[t] PROVE Links(t, link[t][k])'
  <2>1. Links(t, link[t][k])
    BY <1>7 DEF PaymentPart
  <2> QED BY <1>3, <1>4, <1>5, <2>1 DEF Links
<1> QED BY <1>4, <1>5, <1>6, <1>7 DEF PaymentPart

\* A payment is applied, or its application refused; the links of the invoice are
\* gone either way.
LEMMA AppliedPayment ==
    ASSUME PaymentPart, NEW t \in Type, NEW who \in Principal, ApplyApprovedInvoicePayment(t, who)
    PROVE  /\ PaymentPart'
           /\ payment[Head(link[t])] \in Payments
<1>1. PICK h : h = Head(link[t])
  OBVIOUS
<1>2. /\ payment \in Seq(Payments) /\ link[t] \in Seq(Nat) /\ link[t] # <<>>
      /\ DOMAIN payment = 1 .. Len(payment) /\ payment[h].status = "approved"
      /\ applied \in Seq(Nat) /\ Len(applied) = Len(payment)
  BY <1>1 DEF PaymentPart, ApplyApprovedInvoicePayment
<1>3. h = link[t][1] /\ 1 \in DOMAIN link[t]
  BY <1>1, <1>2
<1>4. Links(t, h)
  BY <1>3 DEF PaymentPart
<1>5. h \in DOMAIN payment /\ payment[h].on = t /\ applied[h] = 0 /\ payment[h] \in Payments
  BY <1>2, <1>4 DEF Links
<1>6. /\ payment' = payment /\ link' = [link EXCEPT ![t] = <<>>]
      /\ link' = [u \in Type |-> link'[u]] /\ link'[t] = <<>>
      /\ \A u \in Type : u # t => link'[u] = link[u]
  BY DEF ApplyApprovedInvoicePayment, PaymentPart
<1>7. \/ applied' = [applied EXCEPT ![h] = @ + 1] /\ excused' = excused
      \/ applied' = applied /\ excused' = excused \cup ToSet(link[t])
  BY <1>1 DEF ApplyApprovedInvoicePayment
<1>8. ToSet(link[t]) \subseteq DOMAIN payment /\ h \in ToSet(link[t])
  BY <1>3 DEF ToSet, PaymentPart, Links
<1>9. /\ applied' \in Seq(Nat) /\ Len(applied') = Len(payment)
      /\ \A q \in DOMAIN payment : q # h => applied'[q] = applied[q]
      /\ applied'[h] \in {0, 1}
      /\ applied'[h] = 0 => h \in excused'
  <2>1. CASE applied' = [applied EXCEPT ![h] = @ + 1]
    BY <1>2, <1>5, <2>1
  <2>2. CASE applied' = applied /\ excused' = excused \cup ToSet(link[t])
    BY <1>2, <1>5, <1>8, <2>2
  <2> QED BY <1>7, <2>1, <2>2
<1>10. excused \subseteq excused' /\ excused' \subseteq DOMAIN payment
  BY <1>7, <1>8 DEF PaymentPart
<1>11. ASSUME NEW q \in DOMAIN payment PROVE Waiting(q)' /\ Released(q)'
  <2>1. Waiting(q) /\ Released(q) /\ payment[q] \in Payments
    BY <1>2, <1>11 DEF PaymentPart
  <2>2. CASE q = h
    BY <1>2, <1>6, <1>9, <2>1, <2>2 DEF Waiting, Released
  <2>3. CASE q # h
    <3>1. Released(q)'
      BY <1>6, <1>9, <2>1, <2>3 DEF Released
    <3>2. ASSUME q \notin excused', applied'[q] = 0
          PROVE  link'[payment[q].on] # <<>> /\ Head(link'[payment[q].on]) = q
      <4>1. link[payment[q].on] # <<>> /\ Head(link[payment[q].on]) = q
        BY <1>9, <1>10, <2>1, <2>3, <3>2 DEF Waiting
      <4>2. payment[q].on # t /\ payment[q].on \in Type
        BY <1>1, <2>1, <2>3, <4>1 DEF Payments
      <4> QED BY <1>6, <4>1, <4>2
    <3> QED BY <1>6, <3>1, <3>2 DEF Waiting
  <2> QED BY <2>2, <2>3
<1>12. ASSUME NEW u \in Type
       PROVE  link'[u] \in Seq(Nat) /\ \A k \in DOMAIN link'[u] : Links(u, link[u][k])'
  <2>1. CASE u = t
    <3>1. link'[u] = <<>> /\ DOMAIN <<>> = {}
      BY <1>6, <2>1
    <3> QED BY <3>1
  <2>2. CASE u # t
    <3>1. link'[u] = link[u] /\ link[u] \in Seq(Nat)
      BY <1>6, <2>2 DEF PaymentPart
    <3>2. ASSUME NEW k \in DOMAIN link[u]
          PROVE  /\ link'[u][k] \in DOMAIN payment' /\ payment'[link'[u][k]].on = u
                 /\ applied'[link'[u][k]] = 0
      <4>1. Links(u, link[u][k])
        BY <3>2 DEF PaymentPart
      <4>2. link[u][k] # h
        BY <1>5, <2>2, <4>1 DEF Links
      <4> QED BY <1>6, <1>9, <3>1, <4>1, <4>2 DEF Links
    <3> QED BY <3>1, <3>2 DEF Links
  <2> QED BY <2>1, <2>2
<1>13. PaymentPart'
  BY <1>2, <1>6, <1>9, <1>10, <1>11, <1>12 DEF PaymentPart
<1> QED BY <1>1, <1>5, <1>13

-----------------------------------------------------------------------------
(* The links and the final bill.                                           *)

LEMMA LinksFollow ==
    ASSUME LinkPart, \A t \in Type : invoice[t] # NoInvoice => invoice'[t] # NoInvoice,
           \A t \in Type : link'[t] # <<>> => link[t] # <<>> \/ invoice[t] # NoInvoice
    PROVE  LinkPart'
BY DEF LinkPart

\* What is neither drafted nor made late leaves the bill as it is.
LEMMA BillStays ==
    ASSUME BillPart, auto' = auto, late' = late,
           \A u \in Type : /\ invoice'[u].amount = invoice[u].amount
                           /\ (invoice'[u] # NoInvoice) = (invoice[u] # NoInvoice)
                           /\ invoice[u].status = "paid" => invoice'[u].status = "paid"
    PROVE  BillPart'
<1>1. InvoicedTotal' = InvoicedTotal
  BY Types DEF InvoicedTotal
<1>2. invoice'["final"] # NoInvoice <=> invoice["final"] # NoInvoice
  BY Types
<1>3. \A t \in {"deposit", "progress"} : invoice[t].status = "paid" => invoice'[t].status = "paid"
  BY Types
<1> QED BY <1>1, <1>2, <1>3 DEF BillPart, FinalClosesBill

LEMMA BillSame ==
    ASSUME BillPart, auto' = auto, late' = late, invoice' = invoice
    PROVE  BillPart'
BY BillStays

\* createDepositInvoice, createProgressInvoice: after an automatic final invoice
\* there is none left to create.
LEMMA PartInvoiceCreated ==
    ASSUME Inv, NEW t \in {"deposit", "progress"}, CreatePartInvoice(t)
    PROVE  /\ InvoicePart' /\ BillPart'
           /\ \A u \in Type : invoice[u] # NoInvoice => invoice'[u] # NoInvoice
           /\ UNCHANGED <<recs, payments, ledger, handover>>
<1>1. PICK amount \in Share : Drafted(t, amount)
  BY DEF CreatePartInvoice
<1>2. amount \in Nat \ {0} /\ t \in Type /\ t # "final"
  BY SettlementAssumption, Types
<1>3. /\ InvoicePart' /\ invoice'[t] # NoInvoice
      /\ \A u \in Type : u # t => invoice'[u] = invoice[u]
  BY <1>1, <1>2, DraftedInvoice DEF Inv
<1>4. invoice[t] = NoInvoice /\ UNCHANGED <<recs, payments, ledger, handover>>
  BY <1>1 DEF Drafted
<1>5. invoice'["final"] = invoice["final"] /\ invoice[t].status # "paid"
  BY <1>2, <1>3, <1>4, Types, NoInvoiceType
<1>6. auto' = auto /\ late' = (late \/ invoice["final"] # NoInvoice)
  BY DEF CreatePartInvoice
<1>7. BillPart'
  BY <1>5, <1>6 DEF Inv, BillPart, FinalClosesBill
<1> QED BY <1>3, <1>4, <1>7

\* A final invoice is made out for what is left of the price.
LEMMA FinalInvoiceDrafted ==
    ASSUME Inv, Remaining > 0, Drafted("final", Remaining), late' = late,
           \/ auto' = auto
           \/ invoice["deposit"].status = "paid" /\ invoice["progress"].status = "paid" /\ auto' = TRUE
    PROVE  /\ InvoicePart' /\ BillPart'
           /\ \A u \in Type : invoice[u] # NoInvoice => invoice'[u] # NoInvoice
           /\ UNCHANGED <<recs, payments, ledger, handover>>
<1>1. PICK amount : amount = Remaining
  OBVIOUS
<1>2. amount \in Nat \ {0}
  BY <1>1, InvoiceType, SettlementAssumption DEF Remaining, Inv
<1>3. /\ InvoicePart' /\ invoice'["final"] # NoInvoice /\ invoice'["final"].amount = amount
      /\ invoice["final"].amount = 0
      /\ \A u \in Type : u # "final" => invoice'[u] = invoice[u]
  <2>1. Drafted("final", amount)
    BY <1>1
  <2> QED BY <1>2, <2>1, Types, DraftedInvoice DEF Inv
<1>4. invoice["final"] = NoInvoice /\ UNCHANGED <<recs, payments, ledger, handover>>
  BY DEF Drafted
<1>5. ~auto /\ ~late
  BY <1>4 DEF Inv, BillPart
<1>6. invoice'["deposit"] = invoice["deposit"] /\ invoice'["progress"] = invoice["progress"]
  BY <1>3, Types
<1>7. /\ invoice["deposit"].amount \in Nat /\ invoice["progress"].amount \in Nat /\ Price \in Nat
  BY InvoiceType, Types, SettlementAssumption DEF Inv
<1>8. InvoicedTotal' = Price
  BY <1>1, <1>3, <1>6, <1>7 DEF InvoicedTotal, Remaining
<1>9. auto' => invoice'["deposit"].status = "paid" /\ invoice'["progress"].status = "paid"
  BY <1>5, <1>6
<1>10. FinalClosesBill'
  BY <1>5, <1>8, <1>9 DEF FinalClosesBill
<1>11. auto' \in BOOLEAN /\ late' = FALSE
  BY <1>5 DEF Inv, BillPart
<1>12. BillPart'
  BY <1>3, <1>10, <1>11 DEF BillPart
<1> QED BY <1>3, <1>4, <1>12

-----------------------------------------------------------------------------
(* The handover.                                                           *)

LEMMA StatusType ==
    ASSUME NEW done
    PROVE  HandoverStatus(done) \in {"confirmed", "handover_pending", "handed_over"}
BY DEF HandoverStatus

LEMMA HandoverStays ==
    ASSUME HandoverPart, UNCHANGED handover, (recs'["deposit"] # <<>>) = (recs["deposit"] # <<>>)
    PROVE  HandoverPart'
BY DEF HandoverPart, HandoverFollows, handover, Asked

\* A task that is ticked already is ticked once more to no effect.
LEMMA TaskTicked ==
    ASSUME HandoverPart, NEW key, AutoComplete(key)
    PROVE  ticked' = ticked \cup {key} /\ booking' = HandoverStatus(ticked')
BY DEF HandoverPart, HandoverFollows, AutoComplete

LEMMA TaskByHand ==
    ASSUME HandoverPart, NEW key \in HandoverTask, CompleteHandoverTask(key)
    PROVE  HandoverPart'
<1>1. /\ ticked' = ticked \cup {key} /\ byHand' = byHand \cup {key} /\ booking' = HandoverStatus(ticked')
      /\ recs' = recs /\ brief' = brief /\ confirmation' = confirmation
  BY DEF CompleteHandoverTask, invoices
<1>2. Asked' = Asked
  BY <1>1 DEF Asked
<1> QED BY <1>1, <1>2 DEF HandoverPart, HandoverFollows

LEMMA BriefMoves ==
    ASSUME HandoverPart, CreateOrUpdateBrief \/ IssueOpsBrief
    PROVE  HandoverPart'
<1>1. recs' = recs /\ confirmation' = confirmation /\ byHand' = byHand /\ Asked' = Asked
  BY DEF CreateOrUpdateBrief, IssueOpsBrief, invoices, Asked
<1>2. CASE CreateOrUpdateBrief
  BY <1>1, <1>2 DEF CreateOrUpdateBrief, HandoverPart, HandoverFollows
<1>3. CASE IssueOpsBrief
  <2>1. ticked' = ticked \cup {"ops_brief"} /\ booking' = HandoverStatus(ticked') /\ brief' = "issued"
    BY <1>3, TaskTicked DEF IssueOpsBrief
  <2> QED BY <1>1, <2>1 DEF HandoverPart, HandoverFollows, HandoverTask
<1> QED BY <1>2, <1>3

LEMMA SuppliersAsked ==
    ASSUME HandoverPart, GenerateSupplierConfirmations
    PROVE  HandoverPart'
<1>1. /\ recs' = recs /\ brief' = brief /\ byHand' = byHand /\ ~Asked
  BY DEF GenerateSupplierConfirmations, invoices
<1>2. PICK items \in SUBSET Item :
          /\ confirmation' = [i \in Item |-> IF i \in items THEN "requested" ELSE "none"]
          /\ IF items # {} THEN AutoComplete("supplier_confirm") ELSE UNCHANGED <<ticked, booking>>
  BY DEF GenerateSupplierConfirmations
<1>3. confirmation' \in [Item -> {"none", "requested", "confirmed", "declined"}] /\ Asked' = (items # {})
  BY <1>2 DEF Asked
<1>4. CASE items # {}
  <2>1. ticked' = ticked \cup {"supplier_confirm"} /\ booking' = HandoverStatus(ticked')
    BY <1>2, <1>4, TaskTicked
  <2>2. Asked'
    BY <1>3, <1>4
  <2>3. HandoverFollows'
    BY <1>1, <2>1, <2>2 DEF HandoverPart, HandoverFollows
  <2> QED BY <1>1, <1>3, <2>1, <2>3 DEF HandoverPart, HandoverTask
<1>5. CASE items = {}
  BY <1>1, <1>2, <1>3, <1>5 DEF HandoverPart, HandoverFollows
<1> QED BY <1>4, <1>5

LEMMA SupplierAnswers ==
    ASSUME HandoverPart, NEW i \in Item, NEW to \in {"confirmed", "declined"},
           TransitionSupplierConfirmation(i, to)
    PROVE  HandoverPart'
<1>1. /\ confirmation' = [confirmation EXCEPT ![i] = to] /\ confirmation[i] = "requested"
      /\ recs' = recs /\ brief' = brief /\ byHand' = byHand /\ ticked' = ticked /\ booking' = booking
  BY DEF TransitionSupplierConfirmation, invoices
<1>2. confirmation' \in [Item -> {"none", "requested", "confirmed", "declined"}] /\ Asked' /\ Asked
  BY <1>1 DEF HandoverPart, Asked
<1> QED BY <1>1, <1>2 DEF HandoverPart, HandoverFollows

\* Issuing the deposit invoice ticks its task; issuing another ticks none.
LEMMA InvoiceIssuedTicks ==
    ASSUME HandoverPart, NEW t \in Type, IssueInvoice(t), recs'[t] # <<>>,
           \A u \in Type : u # t => recs'[u] = recs[u]
    PROVE  HandoverPart'
<1>1. brief' = brief /\ confirmation' = confirmation /\ byHand' = byHand /\ Asked' = Asked
  BY DEF IssueInvoice, Asked
<1>2. CASE t = "deposit"
  <2>1. ticked' = ticked \cup {"deposit_invoice"} /\ booking' = HandoverStatus(ticked')
    BY <1>2, TaskTicked DEF IssueInvoice
  <2> QED BY <1>1, <1>2, <2>1 DEF HandoverPart, HandoverFollows, HandoverTask
<1>3. CASE t # "deposit"
  <2>1. ticked' = ticked /\ booking' = booking /\ recs'["deposit"] = recs["deposit"]
    BY <1>3, Types DEF IssueInvoice
  <2> QED BY <1>1, <2>1 DEF HandoverPart, HandoverFollows
<1> QED BY <1>2, <1>3

-----------------------------------------------------------------------------
(* The invariant holds at first and is kept by every step.                 *)

LEMMA InitInv == Init => Inv
<1> SUFFICES ASSUME Init PROVE Inv
  OBVIOUS
<1>1. /\ \A t \in Type : invoice[t] = NoInvoice /\ recs[t] = <<>> /\ link[t] = <<>>
      /\ payment = <<>> /\ applied = <<>> /\ excused = {} /\ ticked = {} /\ byHand = {}
      /\ auto = FALSE /\ late = FALSE /\ brief = "none" /\ booking = "confirmed"
      /\ confirmation = [i \in Item |-> "none"]
  BY DEF Init
<1>2. InvoicePart
  BY <1>1, NoInvoiceType, SettlementAssumption DEF Init, InvoicePart, InvoiceOK
<1>3. PaymentPart
  <2>0. <<>> \in Seq(Nat) /\ DOMAIN <<>> = {}
    OBVIOUS
  <2>1. DOMAIN payment = {} /\ \A t \in Type : link[t] \in Seq(Nat) /\ DOMAIN link[t] = {}
    BY <1>1, <2>0
  <2>2. payment \in Seq(Payments) /\ applied \in Seq(Nat) /\ Len(applied) = Len(payment)
    BY <1>1
  <2> QED BY <1>1, <2>1, <2>2 DEF Init, PaymentPart
<1>4. LinkPart /\ BillPart
  BY <1>1, Types DEF LinkPart, BillPart, FinalClosesBill
<1>5. ~Asked /\ HandoverStatus({}) = "confirmed"
  BY <1>1 DEF Asked, HandoverStatus, HandoverTask
<1>6. HandoverPart
  BY <1>1, <1>5, Types DEF HandoverPart, HandoverFollows
<1> QED BY <1>2, <1>3, <1>4, <1>6 DEF Inv

\* The handover moves and the money stays.
LEMMA MoneyStays ==
    ASSUME Inv, UNCHANGED <<invoices, payments, ledger, auto, late>>, HandoverPart'
    PROVE  Inv'
<1>1. /\ invoice' = invoice /\ recs' = recs /\ payment' = payment /\ link' = link /\ direct' = direct
      /\ applied' = applied /\ excused' = excused /\ auto' = auto /\ late' = late
  BY DEF invoices, payments, ledger
<1>2. InvoicePart' /\ PaymentPart' /\ LinkPart' /\ BillPart'
  BY <1>1, InvoicesStay, PaymentsStay, LinksFollow, BillSame DEF Inv
<1> QED BY <1>2 DEF Inv

\* A new invoice leaves the rest alone.
LEMMA OnlyDrafted ==
    ASSUME Inv, InvoicePart', BillPart', \A u \in Type : invoice[u] # NoInvoice => invoice'[u] # NoInvoice,
           UNCHANGED <<recs, payments, ledger, handover>>
    PROVE  Inv'
<1>1. /\ payment' = payment /\ link' = link /\ applied' = applied /\ excused' = excused /\ recs' = recs
  BY DEF payments, ledger
<1>2. PaymentPart' /\ LinkPart'
  BY <1>1, PaymentsStay, LinksFollow DEF Inv
<1>3. HandoverPart'
  BY <1>1, HandoverStays DEF Inv
<1> QED BY <1>2, <1>3 DEF Inv

LEMMA IssueStep ==
    ASSUME Inv, NEW t \in Type, IssueInvoice(t)
    PROVE  Inv'
<1>1. /\ payment' = payment /\ link' = link /\ applied' = applied /\ excused' = excused
      /\ auto' = auto /\ late' = late
  BY DEF IssueInvoice, payments, ledger
<1>2. /\ InvoicePart' /\ recs'[t] # <<>>
      /\ \A u \in Type : /\ invoice'[u].amount = invoice[u].amount
                         /\ (invoice'[u] # NoInvoice) = (invoice[u] # NoInvoice)
                         /\ invoice[u].status = "paid" => invoice'[u].status = "paid"
                         /\ u # t => recs'[u] = recs[u]
  BY IssuedInvoice DEF Inv
<1>3. PaymentPart' /\ LinkPart' /\ BillPart'
  BY <1>1, <1>2, PaymentsStay, LinksFollow, BillStays DEF Inv
<1>4. HandoverPart'
  BY <1>2, InvoiceIssuedTicks DEF Inv
<1> QED BY <1>2, <1>3, <1>4 DEF Inv

LEMMA RecordStep ==
    ASSUME Inv, NEW t \in Type, NEW amount \in Amount, RecordInvoicePayment(t, amount)
    PROVE  Inv'
<1>1. /\ payment' = payment /\ link' = link /\ applied' = applied /\ excused' = excused
      /\ auto' = auto /\ late' = late /\ UNCHANGED handover
      /\ invoice[t] # NoInvoice /\ Recorded(t, amount)
  BY DEF RecordInvoicePayment, payments
<1>2. amount \in Nat \ {0}
  BY SettlementAssumption
<1>3. direct' \in [Type -> 0 .. MaxDirect]
  <2>1. direct \in [Type -> 0 .. MaxDirect] /\ direct[t] + amount \in 0 .. MaxDirect
    BY <1>2, SettlementAssumption DEF Inv, InvoicePart, RecordInvoicePayment
  <2> QED BY <2>1 DEF RecordInvoicePayment
<1>4. /\ InvoicePart' /\ (recs'[t] # <<>>) = (recs[t] # <<>>)
      /\ \A u \in Type : /\ invoice'[u].amount = invoice[u].amount
                         /\ (invoice'[u] # NoInvoice) = (invoice[u] # NoInvoice)
                         /\ invoice[u].status = "paid" => invoice'[u].status = "paid"
                         /\ u # t => recs'[u] = recs[u]
  BY <1>1, <1>2, <1>3, RecordedInvoice DEF Inv
<1>5. PaymentPart' /\ LinkPart' /\ BillPart'
  BY <1>1, <1>4, PaymentsStay, LinksFollow, BillStays DEF Inv
<1>6. HandoverPart'
  <2>1. (recs'["deposit"] # <<>>) = (recs["deposit"] # <<>>)
    BY <1>4, Types
  <2> QED BY <1>1, <2>1, HandoverStays DEF Inv
<1> QED BY <1>4, <1>5, <1>6 DEF Inv

LEMMA ResolveStep ==
    ASSUME Inv, NEW t \in Type, NEW k \in DOMAIN recs[t], ResolveReconciliation(t, k)
    PROVE  Inv'
<1>1. /\ payment' = payment /\ link' = link /\ applied' = applied /\ excused' = excused
      /\ auto' = auto /\ late' = late /\ UNCHANGED handover /\ invoice' = invoice
  BY DEF ResolveReconciliation, payments, ledger
<1>2. InvoicePart' /\ \A u \in Type : (recs'[u] # <<>>) = (recs[u] # <<>>)
  BY ResolvedInvoice DEF Inv
<1>3. PaymentPart' /\ LinkPart' /\ BillPart'
  BY <1>1, PaymentsStay, LinksFollow, BillSame DEF Inv
<1>4. HandoverPart'
  BY <1>1, <1>2, Types, HandoverStays DEF Inv
<1> QED BY <1>2, <1>3, <1>4 DEF Inv

\* A payment is asked for an invoice that was issued, so there is one.
LEMMA RequestStep ==
    ASSUME Inv, NEW t \in Type, NEW who \in Principal, NEW amount \in Amount,
           RequestInvoicePayment(t, who, amount)
    PROVE  Inv'
<1>1. /\ UNCHANGED <<invoices, direct, auto, late, handover>>
      /\ invoice[t].status \notin {"none", "draft"}
      /\ link' = [link EXCEPT ![t] = Linked(t, Len(payment) + 1)]
  BY DEF RequestInvoicePayment
<1>2. invoice' = invoice /\ recs' = recs /\ direct' = direct /\ auto' = auto /\ late' = late
  BY <1>1 DEF invoices
<1>3. InvoicePart' /\ BillPart' /\ HandoverPart' /\ PaymentPart'
  BY <1>1, <1>2, InvoicesStay, BillSame, HandoverStays, RequestedPayment DEF Inv
<1>4. invoice[t] # NoInvoice
  BY <1>1, NoInvoiceType
<1>5. \A u \in Type : u # t => link'[u] = link[u]
  BY <1>1 DEF Inv, PaymentPart
<1>6. LinkPart'
  BY <1>2, <1>4, <1>5, LinksFollow DEF Inv
<1> QED BY <1>3, <1>6 DEF Inv

LEMMA DecideStep ==
    ASSUME Inv, NEW p \in DOMAIN payment, NEW who \in Principal,
           NEW outcome \in {"approved", "rejected"}, DecideApproval(p, who, outcome)
    PROVE  Inv'
<1>1. /\ invoice' = invoice /\ recs' = recs /\ direct' = direct /\ auto' = auto /\ late' = late
      /\ link' = link /\ UNCHANGED handover
  BY DEF DecideApproval, invoices, ledger
<1>2. InvoicePart' /\ BillPart' /\ HandoverPart' /\ PaymentPart' /\ LinkPart'
  BY <1>1, InvoicesStay, BillSame, HandoverStays, DecidedPayment, LinksFollow DEF Inv
<1> QED BY <1>2 DEF Inv

\* An approved payment is recorded on its invoice, or the refused call only takes
\* the links away.
LEMMA ApplyStep ==
    ASSUME Inv, NEW t \in Type, NEW who \in Principal, ApplyApprovedInvoicePayment(t, who)
    PROVE  Inv'
<1>1. /\ direct' = direct /\ auto' = auto /\ late' = late /\ UNCHANGED handover
      /\ link' = [link EXCEPT ![t] = <<>>] /\ link[t] # <<>>
  BY DEF ApplyApprovedInvoicePayment
<1>2. PaymentPart' /\ payment[Head(link[t])] \in Payments
  BY AppliedPayment DEF Inv
<1>3. \A u \in Type : link'[u] # <<>> => link[u] # <<>>
  BY <1>1 DEF Inv, PaymentPart
<1>4. CASE Holds(who, Reconciler)
  <2>1. PICK amount : amount = payment[Head(link[t])].amount
    OBVIOUS
  <2>2. amount \in Nat \ {0} /\ Recorded(t, amount)
    BY <1>2, <1>4, <2>1, SettlementAssumption DEF Payments, ApplyApprovedInvoicePayment
  <2>3. invoice[t] # NoInvoice /\ direct' \in [Type -> 0 .. MaxDirect]
    BY <1>1 DEF Inv, LinkPart, InvoicePart
  <2>4. /\ InvoicePart' /\ (recs'[t] # <<>>) = (recs[t] # <<>>)
        /\ \A u \in Type : /\ invoice'[u].amount = invoice[u].amount
                           /\ (invoice'[u] # NoInvoice) = (invoice[u] # NoInvoice)
                           /\ invoice[u].status = "paid" => invoice'[u].status = "paid"
                           /\ u # t => recs'[u] = recs[u]
    BY <2>2, <2>3, RecordedInvoice DEF Inv
  <2>5. LinkPart' /\ BillPart'
    BY <1>1, <1>3, <2>4, LinksFollow, BillStays DEF Inv
  <2>6. (recs'["deposit"] # <<>>) = (recs["deposit"] # <<>>)
    BY <2>4, Types
  <2>7. HandoverPart'
    BY <1>1, <2>6, HandoverStays DEF Inv
  <2> QED BY <1>2, <2>4, <2>5, <2>7 DEF Inv
<1>5. CASE ~Holds(who, Reconciler)
  <2>1. invoice' = invoice /\ recs' = recs
    BY <1>5 DEF ApplyApprovedInvoicePayment, invoices
  <2>2. InvoicePart' /\ BillPart' /\ HandoverPart' /\ LinkPart'
    BY <1>1, <1>3, <2>1, InvoicesStay, BillSame, HandoverStays, LinksFollow DEF Inv
  <2> QED BY <1>2, <2>2 DEF Inv
<1> QED BY <1>4, <1>5

LEMMA StepInv == Inv /\ [Next]_vars => Inv'
<1> SUFFICES ASSUME Inv, [Next]_vars PROVE Inv'
  OBVIOUS
<1>1. ASSUME NEW key \in HandoverTask, CompleteHandoverTask(key) PROVE Inv'
  <2>1. UNCHANGED <<invoices, payments, ledger, auto, late>>
    BY <1>1 DEF CompleteHandoverTask
  <2> QED BY <1>1, <2>1, TaskByHand, MoneyStays DEF Inv
<1>2. ASSUME CreateOrUpdateBrief \/ IssueOpsBrief PROVE Inv'
  <2>1. UNCHANGED <<invoices, payments, ledger, auto, late>>
    BY <1>2 DEF CreateOrUpdateBrief, IssueOpsBrief
  <2> QED BY <1>2, <2>1, BriefMoves, MoneyStays DEF Inv
<1>3. ASSUME GenerateSupplierConfirmations PROVE Inv'
  <2>1. UNCHANGED <<invoices, payments, ledger, auto, late>>
    BY <1>3 DEF GenerateSupplierConfirmations
  <2> QED BY <1>3, <2>1, SuppliersAsked, MoneyStays DEF Inv
<1>4. ASSUME NEW i \in Item, NEW to \in {"confirmed", "declined"}, TransitionSupplierConfirmation(i, to)
      PROVE  Inv'
  <2>1. UNCHANGED <<invoices, payments, ledger, auto, late>>
    BY <1>4 DEF TransitionSupplierConfirmation
  <2> QED BY <1>4, <2>1, SupplierAnswers, MoneyStays DEF Inv
<1>5. ASSUME NEW t \in {"deposit", "progress"}, CreatePartInvoice(t) PROVE Inv'
  BY <1>5, PartInvoiceCreated, OnlyDrafted
<1>6. ASSUME CreateFinalInvoice PROVE Inv'
  <2>1. Remaining > 0 /\ Drafted("final", Remaining) /\ auto' = auto /\ late' = late
    BY <1>6 DEF CreateFinalInvoice
  <2> QED BY <2>1, FinalInvoiceDrafted, OnlyDrafted
<1>7. ASSUME AutoCreateFinalInvoice PROVE Inv'
  <2>1. /\ Remaining > 0 /\ Drafted("final", Remaining) /\ auto' = TRUE /\ late' = late
        /\ invoice["deposit"].status = "paid" /\ invoice["progress"].status = "paid"
    BY <1>7 DEF AutoCreateFinalInvoice, Eligible
  <2> QED BY <2>1, FinalInvoiceDrafted, OnlyDrafted
<1>8. CASE UNCHANGED vars
  <2>1. UNCHANGED <<invoices, payments, ledger, auto, late, handover>>
    BY <1>8 DEF vars, invoices, payments, ledger, handover
  <2>2. recs' = recs
    BY <1>8 DEF vars
  <2> QED BY <2>1, <2>2, HandoverStays, MoneyStays DEF Inv
<1> QED
  BY <1>1, <1>2, <1>3, <1>4, <1>5, <1>6, <1>7, <1>8, IssueStep, RecordStep, ResolveStep, RequestStep,
     DecideStep, ApplyStep DEF Next

\* Whatever the calls and their order, Inv holds.
THEOREM Invariance == Spec => []Inv
BY InitInv, StepInv, PTL DEF Spec

-----------------------------------------------------------------------------
(* What follows from it.                                                   *)

\* Every record of the finance store has its shape, the history of applied payments
\* is as long as the list of requests, and links are to payments of their invoice.
THEOREM TypeCorrect == Spec => []TypeOK
<1>1. Inv => TypeOK
  <2> SUFFICES ASSUME Inv PROVE TypeOK
    OBVIOUS
  <2>1. invoice \in [Type -> [status : {"none", "draft", "issued", "partially_paid", "paid"},
                              amount : Nat, paid : Nat]]
    BY DEF Inv, InvoicePart, InvoiceOK, Invoices
  <2>2. ASSUME NEW t \in Type PROVE recs[t] \in Seq(Recs)
    <3>1. recs[t] = <<>> \/ (recs[t] = <<recs[t][1]>> /\ recs[t][1] \in Recs)
      BY DEF Inv, InvoicePart, InvoiceOK
    <3>2. <<>> \in Seq(Recs)
      OBVIOUS
    <3>3. ASSUME NEW r \in Recs PROVE <<r>> \in Seq(Recs)
      OBVIOUS
    <3> QED BY <3>1, <3>2, <3>3
  <2>3. ASSUME NEW t \in Type PROVE link[t] \in Seq({p \in DOMAIN payment : payment[p].on = t})
    <3>1. link[t] \in Seq(Nat) /\ \A k \in DOMAIN link[t] : Links(t, link[t][k])
      BY DEF Inv, PaymentPart
    <3>2. PICK S : S = {p \in DOMAIN payment : payment[p].on = t}
      OBVIOUS
    <3>3. \A k \in DOMAIN link[t] : link[t][k] \in S
      BY <3>1, <3>2 DEF Links
    <3>4. link[t] \in Seq(S)
      BY <3>1, <3>3
    <3> QED BY <3>2, <3>4
  <2>4. booking \in {"confirmed", "handover_pending", "handed_over"}
    BY StatusType DEF Inv, HandoverPart, HandoverFollows
  <2> QED BY <2>1, <2>2, <2>3, <2>4 DEF Inv, InvoicePart, PaymentPart, BillPart, HandoverPart, TypeOK, Recs, Payments
<1> QED BY <1>1, Invariance, PTL

\* issueInvoice opens the one reconciliation of an invoice, and whatever is recorded
\* on the invoice afterwards, directly or by a payment, is in the reconciliation.
THEOREM ReconciliationsFollow == Spec => []ReconciliationFollows
<1>1. Inv => ReconciliationFollows
  <2> SUFFICES ASSUME Inv, NEW t \in Type, NEW k \in DOMAIN recs[t]
               PROVE  /\ k = 1
                      /\ recs[t][k].expected = invoice[t].amount /\ recs[t][k].received = invoice[t].paid
                      /\ recs[t][k].status = "matched" => invoice[t].paid = invoice[t].amount \/ recs[t][k].resolved
                      /\ recs[t][k].status = "exception" => invoice[t].paid \notin {0, invoice[t].amount}
                      /\ (invoice[t].status = "paid") = (invoice[t].paid >= invoice[t].amount)
    BY DEF ReconciliationFollows
  <2>1. InvoiceOK(invoice[t], recs[t])
    BY DEF Inv, InvoicePart
  <2>2. recs[t] # <<>>
    OBVIOUS
  <2>3. recs[t] = <<recs[t][1]>> /\ Follows(recs[t][1], invoice[t]) /\ invoice[t].status # "none"
    BY <2>1, <2>2 DEF InvoiceOK
  <2>4. k = 1
    BY <2>3
  <2> QED BY <2>1, <2>3, <2>4 DEF InvoiceOK, Follows
<1> QED BY <1>1, Invariance, PTL

\* applyApprovedInvoicePayment applies a payment once at most, decideApproval lets
\* only another approver decide it, and an approved payment is the first link of its
\* invoice until it is applied, or excused.
THEOREM PaymentsReleasedOnce == Spec => []ReleasedOnceByAnother
<1>1. Inv => ReleasedOnceByAnother
  <2> SUFFICES ASSUME Inv, NEW p \in DOMAIN payment
               PROVE  /\ applied[p] > 0 => applied[p] = 1 /\ payment[p].status = "approved"
                      /\ payment[p].status # "pending" => payment[p].decider \in Approver \ (Agent \cup {payment[p].by})
                      /\ payment[p].status = "approved" /\ applied[p] = 0 /\ p \notin excused =>
                            link[payment[p].on] # <<>> /\ Head(link[payment[p].on]) = p
    BY DEF ReleasedOnceByAnother
  <2>1. Waiting(p) /\ Released(p)
    BY DEF Inv, PaymentPart
  <2> QED BY <2>1 DEF Waiting, Released
<1> QED BY <1>1, Invariance, PTL

\* createFinalInvoice and autoCreateFinalInvoice close the bill, and only an invoice
\* created after the former can open it again.
THEOREM FinalInvoiceClosesBill == Spec => []FinalClosesBill
<1>1. Inv => FinalClosesBill
  BY DEF Inv, BillPart
<1> QED BY <1>1, Invariance, PTL

\* autoCompleteHandoverTaskByKey ticks what the operations stand for, and every tick
\* refreshes the booking's status.
THEOREM HandoverIsFollowed == Spec => []HandoverFollows
<1>1. Inv => HandoverFollows
  BY DEF Inv, HandoverPart
<1> QED BY <1>1, Invariance, PTL

-----------------------------------------------------------------------------
(* The sum over the payments.  MapThenSumSet is recursive; what it says is    *)
(* drawn from its equation by taking a least set that is a counterexample.    *)

\* What payment p adds to what was paid, by the counts ap and the requests pay.
Worth(ap, pay, p) == ap[p] * pay[p].amount

First(s) == CHOOSE x \in s : TRUE

\* g sums the worth of the subsets of S, taking one element after another: the
\* recursion of MapThenSumSet, as an equation.
SumsOver(g, ap, pay, S) ==
    g = [s \in SUBSET S |-> IF s = {} THEN 0 ELSE Worth(ap, pay, First(s)) + g[s \ {First(s)}]]

\* A least counterexample is what stands for induction below.
LEMMA LeastNumber ==
    ASSUME NEW S \in SUBSET Nat, S # {}
    PROVE  \E m \in S : \A k \in S : m <= k
<1>1. \E m \in S : \A k \in S : ~(<<k, m>> \in OpToRel(<, Nat))
  BY NatLessThanWellFounded, WFMin
<1>2. PICK m \in S : \A k \in S : ~(k < m)
  BY <1>1 DEF OpToRel
<1> QED  BY <1>2

LEMMA SmallestSet ==
    ASSUME NEW S, IsFiniteSet(S), NEW Bad \in SUBSET (SUBSET S), Bad # {}
    PROVE  \E s \in Bad : \A x \in s : s \ {x} \notin Bad
<1> DEFINE Sizes == {Cardinality(s) : s \in Bad}
<1>1. \A s \in SUBSET S : IsFiniteSet(s) /\ Cardinality(s) \in Nat
  BY FS_Subset, FS_CardinalityType
<1>2. Sizes \in SUBSET Nat /\ Sizes # {}
  BY <1>1
<1>3. PICK m \in Sizes : \A k \in Sizes : m <= k
  <2> HIDE DEF Sizes
  <2> QED  BY <1>2, LeastNumber
<1>4. PICK s \in Bad : Cardinality(s) = m
  OBVIOUS
<1>5. ASSUME NEW x \in s, s \ {x} \in Bad PROVE FALSE
  <2>1. Cardinality(s \ {x}) = Cardinality(s) - 1
    BY <1>1, FS_RemoveElement
  <2>2. m <= Cardinality(s \ {x})
    BY <1>3, <1>5
  <2> QED  BY <1>1, <1>4, <2>1, <2>2
<1> QED  BY <1>5

\* What PaidIsAccountedFor says was paid, of the payments in S.
SumOf(ap, pay, S) == MapThenSumSet(LAMBDA p : ap[p] * pay[p].amount, S)

LEMMA SumIsDefined ==
    ASSUME NEW S, NEW ap, NEW pay, \E g : SumsOver(g, ap, pay, S)
    PROVE  \E g : /\ SumsOver(g, ap, pay, S)
                  /\ SumOf(ap, pay, S) = g[S]
<1> DEFINE g == CHOOSE g : SumsOver(g, ap, pay, S)
<1>1. SumsOver(g, ap, pay, S)
  OBVIOUS
<1>2. SumOf(ap, pay, S) = g[S]
  BY DEF SumOf, MapThenSumSet, MapThenFoldSet, SumsOver, Worth, First
<1> QED  BY <1>1, <1>2
LEMMA FirstIsOne ==
    ASSUME NEW s, s # {}
    PROVE  First(s) \in s
BY DEF First

\* One step of the sum, of any function g.
SumStep(g, ap, pay, s) ==
    IF s = {} THEN 0 ELSE Worth(ap, pay, First(s)) + g[s \ {First(s)}]

\* There is such a function: a least number of elements for which there is none has a
\* predecessor, from which it can be made.
LEMMA SumExists ==
    ASSUME NEW S, IsFiniteSet(S), NEW ap, NEW pay
    PROVE  \E g : SumsOver(g, ap, pay, S)
<1> DEFINE Upto(g, n) == /\ g = [s \in SUBSET S |-> g[s]]
                         /\ \A s \in SUBSET S : Cardinality(s) <= n => g[s] = SumStep(g, ap, pay, s)
<1> DEFINE Bad == {n \in Nat : ~ \E g : Upto(g, n)}
<1>0. \A s \in SUBSET S : IsFiniteSet(s) /\ Cardinality(s) \in Nat /\ Cardinality(s) <= Cardinality(S)
  BY FS_Subset, FS_CardinalityType
<1>1. Bad = {}
  <2> SUFFICES ASSUME Bad # {} PROVE FALSE
    OBVIOUS
  <2>1. PICK m \in Bad : \A k \in Bad : m <= k
    <3> HIDE DEF Bad
    <3>1. Bad \in SUBSET Nat
      BY DEF Bad
    <3> QED  BY <3>1, LeastNumber
  <2>2. PICK f : /\ f = [s \in SUBSET S |-> f[s]]
                 /\ \A s \in SUBSET S : Cardinality(s) < m => f[s] = SumStep(f, ap, pay, s)
    <3>1. CASE m = 0
      <4> DEFINE h == [s \in SUBSET S |-> 0]
      <4>1. h = [s \in SUBSET S |-> h[s]] /\ \A s \in SUBSET S : ~(Cardinality(s) < m)
        BY <3>1, <1>0
      <4> QED  BY <4>1
    <3>2. CASE m # 0
      <4>1. m - 1 \in Nat /\ m - 1 \notin Bad
        <5>1. m \in Nat /\ m - 1 \in Nat /\ ~(m <= m - 1)
          BY <3>2
        <5> HIDE DEF Bad
        <5> QED  BY <2>1, <5>1
      <4>2. PICK f : Upto(f, m - 1)
        BY <4>1
      <4>3. \A s \in SUBSET S : Cardinality(s) < m => Cardinality(s) <= m - 1
        BY <1>0, <2>1
      <4> QED  BY <4>2, <4>3
    <3> QED  BY <3>1, <3>2
  <2> DEFINE g == [s \in SUBSET S |-> IF Cardinality(s) < m THEN f[s] ELSE SumStep(f, ap, pay, s)]
  <2>3. ASSUME NEW s \in SUBSET S, Cardinality(s) <= m PROVE g[s] = SumStep(g, ap, pay, s)
    <3>1. g[s] = SumStep(f, ap, pay, s)
      BY <2>2
    <3>2. CASE s = {}
      BY <3>1, <3>2 DEF SumStep
    <3>3. CASE s # {}
      <4>1. PICK r \in SUBSET S : r = s \ {First(s)} /\ Cardinality(r) = Cardinality(s) - 1
        <5>1. First(s) \in s /\ IsFiniteSet(s)
          BY <1>0, <3>3, FirstIsOne
        <5>2. Cardinality(s \ {First(s)}) = Cardinality(s) - 1
          BY <5>1, FS_RemoveElement
        <5>3. s \ {First(s)} \in SUBSET S
          OBVIOUS
        <5> QED  BY <5>2, <5>3
      <4>2. Cardinality(r) < m
        BY <1>0, <2>1, <2>3, <4>1
      <4>3. g[r] = f[r]
        BY <4>2
      <4> HIDE DEF g
      <4> QED  BY <3>1, <3>3, <4>1, <4>3 DEF SumStep
    <3> QED  BY <3>2, <3>3
  <2>4. g = [s \in SUBSET S |-> g[s]]
    OBVIOUS
  <2> HIDE DEF g
  <2>5. Upto(g, m)
    BY <2>3, <2>4
  <2> QED  BY <2>1, <2>5
<1>2. Cardinality(S) \in Nat /\ Cardinality(S) \notin Bad
  <2> HIDE DEF Bad
  <2> QED  BY <1>1, FS_CardinalityType
<1>3. PICK g : Upto(g, Cardinality(S))
  BY <1>2
<1>4. SumsOver(g, ap, pay, S)
  BY <1>0, <1>3 DEF SumsOver, SumStep
<1> QED  BY <1>4

\* What g says of the subsets.
LEMMA SumUnfolds ==
    ASSUME NEW S, NEW ap, NEW pay, NEW g, SumsOver(g, ap, pay, S), NEW s \in SUBSET S
    PROVE  /\ s = {} => g[s] = 0
           /\ s # {} => /\ First(s) \in s /\ s \ {First(s)} \in SUBSET S
                        /\ g[s] = Worth(ap, pay, First(s)) + g[s \ {First(s)}]
BY FirstIsOne DEF SumsOver

LEMMA SumType ==
    ASSUME NEW S, IsFiniteSet(S), NEW ap, NEW pay, NEW g, SumsOver(g, ap, pay, S),
           \A p \in S : Worth(ap, pay, p) \in Nat
    PROVE  \A s \in SUBSET S : g[s] \in Nat
<1> DEFINE Bad == {s \in SUBSET S : g[s] \notin Nat}
<1> SUFFICES ASSUME Bad # {} PROVE FALSE
  OBVIOUS
<1>1. PICK s \in Bad : \A x \in s : s \ {x} \notin Bad
  <2> HIDE DEF Bad
  <2>1. Bad \in SUBSET (SUBSET S)
    BY DEF Bad
  <2> QED  BY <2>1, SmallestSet
<1>2. s \in SUBSET S /\ g[s] \notin Nat
  OBVIOUS
<1>9. s # {}
  <2>1. {} \in SUBSET S
    OBVIOUS
  <2>2. g[{}] = 0
    BY <2>1 DEF SumsOver
  <2> QED  BY <1>2, <2>2
<1>3. /\ First(s) \in s /\ s \ {First(s)} \in SUBSET S
      /\ g[s] = Worth(ap, pay, First(s)) + g[s \ {First(s)}]
  BY <1>2, <1>9, SumUnfolds
<1>4. g[s \ {First(s)}] \in Nat /\ Worth(ap, pay, First(s)) \in Nat
  BY <1>1, <1>2, <1>3
<1> QED  BY <1>2, <1>3, <1>4

\* Whichever element is taken first, the sum is the same.
LEMMA SumTakes ==
    ASSUME NEW S, IsFiniteSet(S), NEW ap, NEW pay, NEW g, SumsOver(g, ap, pay, S),
           \A p \in S : Worth(ap, pay, p) \in Nat, NEW set \in SUBSET S, NEW e \in set
    PROVE  g[set] = Worth(ap, pay, e) + g[set \ {e}]
<1> DEFINE Bad == {s \in SUBSET S : \E y \in s : g[s] # Worth(ap, pay, y) + g[s \ {y}]}
<1> SUFFICES ASSUME Bad # {} PROVE FALSE
  OBVIOUS
<1>1. PICK s \in Bad : \A x \in s : s \ {x} \notin Bad
  <2> HIDE DEF Bad
  <2>1. Bad \in SUBSET (SUBSET S)
    BY DEF Bad
  <2> QED  BY <2>1, SmallestSet
<1>2. PICK y \in s : g[s] # Worth(ap, pay, y) + g[s \ {y}]
  OBVIOUS
<1>3. PICK x \in s : x = First(s) /\ g[s] = Worth(ap, pay, x) + g[s \ {x}]
  <2>1. s \in SUBSET S /\ s # {}
    BY <1>2
  <2>2. First(s) \in s /\ g[s] = Worth(ap, pay, First(s)) + g[s \ {First(s)}]
    BY <2>1, SumUnfolds
  <2> QED  BY <2>2
<1>4. y # x
  BY <1>2, <1>3
<1>5. g[s \ {x}] = Worth(ap, pay, y) + g[(s \ {x}) \ {y}]
  BY <1>1, <1>4
<1>6. g[s \ {y}] = Worth(ap, pay, x) + g[(s \ {y}) \ {x}]
  BY <1>1, <1>4
<1>7. (s \ {x}) \ {y} = (s \ {y}) \ {x}
  OBVIOUS
<1>8. Worth(ap, pay, x) \in Nat /\ Worth(ap, pay, y) \in Nat /\ g[(s \ {y}) \ {x}] \in Nat
  BY SumType
<1>9. PICK r : r = g[(s \ {y}) \ {x}]
  OBVIOUS
<1> HIDE DEF Bad
<1>10. /\ g[s] = Worth(ap, pay, x) + (Worth(ap, pay, y) + r)
       /\ g[s \ {y}] = Worth(ap, pay, x) + r
       /\ Worth(ap, pay, x) \in Nat /\ Worth(ap, pay, y) \in Nat /\ r \in Nat
  BY <1>3, <1>5, <1>6, <1>7, <1>8, <1>9
<1>11. g[s] = Worth(ap, pay, y) + g[s \ {y}]
  BY <1>10
<1> QED  BY <1>2, <1>11

\* The sum is of what the elements are worth.
LEMMA SumAgrees ==
    ASSUME NEW S1, NEW ap1, NEW pay1, NEW g1, SumsOver(g1, ap1, pay1, S1),
           NEW S2, NEW ap2, NEW pay2, NEW g2, SumsOver(g2, ap2, pay2, S2),
           NEW T, T \subseteq S1, T \subseteq S2, IsFiniteSet(T),
           \A p \in T : Worth(ap1, pay1, p) = Worth(ap2, pay2, p)
    PROVE  g1[T] = g2[T]
<1> DEFINE Bad == {s \in SUBSET T : g1[s] # g2[s]}
<1> SUFFICES ASSUME Bad # {} PROVE FALSE
  OBVIOUS
<1>1. PICK s \in Bad : \A x \in s : s \ {x} \notin Bad
  <2> HIDE DEF Bad
  <2>1. Bad \in SUBSET (SUBSET T)
    BY DEF Bad
  <2> QED  BY <2>1, SmallestSet
<1>2. s \in SUBSET S1 /\ s \in SUBSET S2 /\ s \in SUBSET T /\ s # {}
  BY SumUnfolds
<1>3. /\ First(s) \in s
      /\ g1[s] = Worth(ap1, pay1, First(s)) + g1[s \ {First(s)}]
      /\ g2[s] = Worth(ap2, pay2, First(s)) + g2[s \ {First(s)}]
  BY <1>2, SumUnfolds
<1>4. g1[s \ {First(s)}] = g2[s \ {First(s)}]
  BY <1>1, <1>2, <1>3
<1> QED  BY <1>2, <1>3, <1>4

-----------------------------------------------------------------------------
(* The books: what was paid is what was recorded and what was applied.        *)

\* The payments asked for on the invoice t.
On(pay, t) == {p \in DOMAIN pay : pay[p].on = t}

PaidOn(ap, pay, t) == SumOf(ap, pay, On(pay, t))

\* What the payments and the history of their application are.
Requests(ap, pay) ==
    /\ pay \in Seq(Payments) /\ ap \in Seq(Nat) /\ Len(ap) = Len(pay)
    /\ \A p \in DOMAIN pay : ap[p] \in {0, 1}

LEMMA WorthOf ==
    ASSUME NEW ap, NEW pay, Requests(ap, pay), NEW p \in DOMAIN pay
    PROVE  /\ pay[p].amount \in Nat
           /\ ap[p] = 0 => Worth(ap, pay, p) = 0
           /\ ap[p] = 1 => Worth(ap, pay, p) = pay[p].amount
           /\ Worth(ap, pay, p) \in Nat
<1>1. pay[p] \in Payments
  BY DEF Requests
<1>2. pay[p].amount \in Nat
  BY <1>1, SettlementAssumption DEF Payments
<1>3. PICK x : x = pay[p].amount
  OBVIOUS
<1>4. 0 * x = 0 /\ 1 * x = x
  BY <1>2, <1>3
<1> QED  BY <1>2, <1>3, <1>4 DEF Worth, Requests

LEMMA OnAreFew ==
    ASSUME NEW ap, NEW pay, Requests(ap, pay), NEW t
    PROVE  /\ IsFiniteSet(On(pay, t))
           /\ \A p \in On(pay, t) : Worth(ap, pay, p) \in Nat
<1>1. IsFiniteSet(On(pay, t))
  <2>1. Len(pay) \in Nat /\ DOMAIN pay = 1 .. Len(pay)
    BY DEF Requests
  <2>2. IsFiniteSet(1 .. Len(pay))
    BY <2>1, FS_Interval
  <2>3. On(pay, t) \in SUBSET (1 .. Len(pay))
    BY <2>1 DEF On
  <2> QED  BY <2>2, <2>3, FS_Subset
<1>2. \A p \in On(pay, t) : Worth(ap, pay, p) \in Nat
  BY WorthOf DEF On
<1> QED  BY <1>1, <1>2

\* The sum of what the payments for t are worth, as a function g of the payments
\* that are counted.
IsSum(g, ap, pay, t) ==
    /\ PaidOn(ap, pay, t) = g[On(pay, t)]
    /\ SumsOver(g, ap, pay, On(pay, t))
    /\ \A s \in SUBSET On(pay, t) : g[s] \in Nat /\ \A y \in s : g[s] = Worth(ap, pay, y) + g[s \ {y}]

LEMMA PaidUnfolds ==
    ASSUME NEW ap, NEW pay, Requests(ap, pay), NEW t
    PROVE  \E g : IsSum(g, ap, pay, t)
<1>1. PICK S : S = On(pay, t)
  OBVIOUS
<1>2. IsFiniteSet(S) /\ \A p \in S : Worth(ap, pay, p) \in Nat
  BY <1>1, OnAreFew
<1>3. \E g : SumsOver(g, ap, pay, S)
  BY <1>2, SumExists
<1>4. PICK g : SumsOver(g, ap, pay, S) /\ SumOf(ap, pay, S) = g[S]
  BY <1>3, SumIsDefined
<1>5. \A s \in SUBSET S : g[s] \in Nat
  BY <1>2, <1>4, SumType
<1>6. ASSUME NEW s \in SUBSET S, NEW y \in s PROVE g[s] = Worth(ap, pay, y) + g[s \ {y}]
  BY <1>2, <1>4, SumTakes
<1> QED  BY <1>1, <1>4, <1>5, <1>6 DEF IsSum, PaidOn

LEMMA PaidType ==
    ASSUME NEW ap, NEW pay, Requests(ap, pay), NEW t
    PROVE  PaidOn(ap, pay, t) \in Nat
<1>1. PICK g : IsSum(g, ap, pay, t)
  BY PaidUnfolds
<1> QED  BY <1>1 DEF IsSum

\* Nothing of what counts is changed.
LEMMA PaidSame ==
    ASSUME NEW ap, NEW pay, Requests(ap, pay), NEW ap2, NEW pay2, Requests(ap2, pay2), NEW t,
           On(pay2, t) = On(pay, t),
           \A p \in On(pay, t) : ap2[p] = ap[p] /\ pay2[p].amount = pay[p].amount
    PROVE  PaidOn(ap2, pay2, t) = PaidOn(ap, pay, t)
<1>1. PICK g : IsSum(g, ap, pay, t)
  BY PaidUnfolds
<1>2. PICK g2 : IsSum(g2, ap2, pay2, t)
  BY PaidUnfolds
<1>3. \A p \in On(pay, t) : Worth(ap, pay, p) = Worth(ap2, pay2, p)
  BY DEF Worth
<1>4. PICK T : T = On(pay, t) /\ T \subseteq On(pay, t) /\ T \subseteq On(pay2, t) /\ IsFiniteSet(T)
  BY OnAreFew
<1>5. g[T] = g2[T]
  BY <1>1, <1>2, <1>3, <1>4, SumAgrees DEF IsSum
<1> QED  BY <1>1, <1>2, <1>4, <1>5 DEF IsSum

\* The payment q is asked for, or applied.
LEMMA PaidMore ==
    ASSUME NEW ap, NEW pay, Requests(ap, pay), NEW ap2, NEW pay2, Requests(ap2, pay2), NEW t,
           NEW q \in On(pay2, t), On(pay2, t) = On(pay, t) \cup {q},
           q \in On(pay, t) => ap[q] = 0,
           \A p \in On(pay, t) \ {q} : ap2[p] = ap[p] /\ pay2[p].amount = pay[p].amount
    PROVE  PaidOn(ap2, pay2, t) = PaidOn(ap, pay, t) + Worth(ap2, pay2, q)
<1>1. PICK g : IsSum(g, ap, pay, t)
  BY PaidUnfolds
<1>2. PICK g2 : IsSum(g2, ap2, pay2, t)
  BY PaidUnfolds
<1>3. PICK T : T = On(pay, t) \ {q}
  OBVIOUS
<1>4. T = On(pay2, t) \ {q} /\ T \subseteq On(pay, t) /\ T \subseteq On(pay2, t) /\ IsFiniteSet(T)
  BY <1>3, OnAreFew, FS_RemoveElement
<1>5. \A p \in T : Worth(ap, pay, p) = Worth(ap2, pay2, p)
  BY <1>3 DEF Worth
<1>6. g[T] = g2[T]
  BY <1>1, <1>2, <1>4, <1>5, SumAgrees DEF IsSum
<1>7. g2[On(pay2, t)] = Worth(ap2, pay2, q) + g2[T]
  BY <1>2, <1>4 DEF IsSum
<1>8. g[T] \in Nat /\ Worth(ap2, pay2, q) \in Nat
  BY <1>1, <1>4, OnAreFew DEF IsSum
<1>9. g[On(pay, t)] = g[T]
  <2>1. CASE q \notin On(pay, t)
    BY <1>3, <2>1
  <2>2. CASE q \in On(pay, t)
    <3>1. g[On(pay, t)] = Worth(ap, pay, q) + g[T]
      BY <1>1, <1>3, <2>2 DEF IsSum
    <3>2. Worth(ap, pay, q) = 0
      BY <2>2, WorthOf DEF On
    <3> QED  BY <1>8, <3>1, <3>2
  <2> QED  BY <2>1, <2>2
<1> QED  BY <1>1, <1>2, <1>6, <1>7, <1>8, <1>9 DEF IsSum
\* PaidIsAccountedFor, by the names used here.
PaidFollows == \A t \in Type : invoice[t].paid = direct[t] + PaidOn(applied, payment, t)

LEMMA Accounted == PaidFollows => PaidIsAccountedFor
BY DEF PaidFollows, PaidIsAccountedFor, PaidOn, On, SumOf

\* What Inv says of payments and their applications.
LEMMA RequestsOfInv ==
    ASSUME Inv
    PROVE  Requests(applied, payment)
BY DEF Inv, PaymentPart, Released, Requests

\* Handlers that are not about what was paid.
LEMMA BooksStay ==
    ASSUME PaidFollows, payment' = payment, applied' = applied, direct' = direct,
           \A t \in Type : invoice'[t].paid = invoice[t].paid
    PROVE  PaidFollows'
<1>1. ASSUME NEW t \in Type PROVE invoice'[t].paid = direct'[t] + PaidOn(applied', payment', t)
  BY DEF PaidFollows
<1> QED  BY <1>1 DEF PaidFollows

\* An invoice that is drafted was not there, and nothing is paid on either.
LEMMA DraftedBooks ==
    ASSUME Inv, PaidFollows, NEW t \in Type, NEW amount, Drafted(t, amount)
    PROVE  PaidFollows'
<1>1. payment' = payment /\ applied' = applied /\ direct' = direct
  BY DEF Drafted, payments, ledger
<1>2. ASSUME NEW u \in Type PROVE invoice'[u].paid = invoice[u].paid
  BY NoInvoiceType DEF Drafted, Inv, InvoicePart
<1> QED  BY <1>1, <1>2, BooksStay

\* recordInvoicePayment, called for a sum recorded directly.
LEMMA RecordedBooks ==
    ASSUME Inv, Inv', PaidFollows, NEW t \in Type, NEW amount \in Amount,
           RecordInvoicePayment(t, amount)
    PROVE  PaidFollows'
<1>1. payment' = payment /\ applied' = applied
  BY DEF RecordInvoicePayment, payments
<1>2. amount \in Nat /\ \A u \in Type : direct[u] \in Nat
  BY SettlementAssumption, InvoiceType DEF Inv
<1>3. ASSUME NEW u \in Type
      PROVE  /\ invoice'[u].paid = IF u = t THEN invoice[u].paid + amount ELSE invoice[u].paid
             /\ direct'[u] = IF u = t THEN direct[u] + amount ELSE direct[u]
  <2>1. invoice = [v \in Type |-> invoice[v]] /\ direct \in [Type -> 0 .. MaxDirect] /\ invoice[t] \in Invoices
    BY DEF Inv, InvoicePart, InvoiceOK
  <2>2. invoice'[u].paid = IF u = t THEN invoice[u].paid + amount ELSE invoice[u].paid
    BY <2>1 DEF RecordInvoicePayment, Recorded, Invoices
  <2>3. direct'[u] = IF u = t THEN direct[u] + amount ELSE direct[u]
    BY <2>1 DEF RecordInvoicePayment
  <2> QED  BY <2>2, <2>3
<1>4. ASSUME NEW u \in Type PROVE invoice'[u].paid = direct'[u] + PaidOn(applied', payment', u)
  <2>1. invoice[u].paid = direct[u] + PaidOn(applied, payment, u) /\ PaidOn(applied, payment, u) \in Nat
    BY PaidType, RequestsOfInv DEF PaidFollows
  <2> QED  BY <1>1, <1>2, <1>3, <2>1
<1> QED  BY <1>4 DEF PaidFollows

\* A payment asked for was not applied yet.
LEMMA RequestedBooks ==
    ASSUME Inv, Inv', PaidFollows, NEW t \in Type, NEW who \in Principal, NEW amount \in Amount,
           RequestInvoicePayment(t, who, amount)
    PROVE  PaidFollows'
<1>1. PICK new : /\ new = [on |-> t, by |-> who, amount |-> amount, status |-> "pending", decider |-> Nobody]
                 /\ payment' = Append(payment, new) /\ applied' = Append(applied, 0)
                 /\ new.on = t
  BY DEF RequestInvoicePayment
<1>2. new \in Payments
  BY <1>1 DEF RequestInvoicePayment, Holds, Payments
<1>3. PICK p : p = Len(payment) + 1
  OBVIOUS
<1>4. /\ DOMAIN payment' = 1 .. p /\ payment'[p] = new /\ applied'[p] = 0 /\ p \notin DOMAIN payment
      /\ DOMAIN payment' = DOMAIN payment \cup {p}
      /\ \A q \in DOMAIN payment : payment'[q] = payment[q] /\ applied'[q] = applied[q]
  <2>1. /\ payment \in Seq(Payments) /\ applied \in Seq(Nat) /\ Len(applied) = Len(payment)
        /\ DOMAIN payment = 1 .. Len(payment) /\ Len(payment) \in Nat
    BY DEF Inv, PaymentPart
  <2>2. p \notin DOMAIN payment /\ 1 .. p = DOMAIN payment \cup {p}
    BY <1>3, <2>1
  <2>3. /\ DOMAIN payment' = 1 .. p /\ payment'[p] = new /\ applied'[p] = 0
        /\ \A q \in DOMAIN payment : payment'[q] = payment[q] /\ applied'[q] = applied[q]
    BY <1>1, <1>2, <1>3, <2>1, Appended
  <2> QED  BY <2>2, <2>3
<1>5. PICK ap2, pay2 : ap2 = applied' /\ pay2 = payment'
  OBVIOUS
<1>6. Requests(applied, payment) /\ Requests(ap2, pay2)
  <2>1. Requests(applied', payment')
    BY DEF Inv, PaymentPart, Released, Requests
  <2> QED  BY <1>5, <2>1, RequestsOfInv
<1>7. ASSUME NEW u \in Type PROVE PaidOn(ap2, pay2, u) = PaidOn(applied, payment, u)
  <2>1. CASE u = t
    <3>1. p \in On(pay2, u) /\ On(pay2, u) = On(payment, u) \cup {p} /\ p \notin On(payment, u)
      BY <1>1, <1>4, <1>5, <2>1 DEF On
    <3>2. \A q \in On(payment, u) \ {p} : ap2[q] = applied[q] /\ pay2[q].amount = payment[q].amount
      BY <1>4, <1>5 DEF On
    <3>3. PaidOn(ap2, pay2, u) = PaidOn(applied, payment, u) + Worth(ap2, pay2, p)
      BY <1>6, <3>1, <3>2, PaidMore
    <3>4. Worth(ap2, pay2, p) = 0
      BY <1>4, <1>5, <1>6, <3>1, WorthOf DEF On
    <3> QED  BY <1>6, <3>3, <3>4, PaidType
  <2>2. CASE u # t
    <3>1. On(pay2, u) = On(payment, u)
      BY <1>1, <1>4, <1>5, <2>2 DEF On
    <3>2. \A q \in On(payment, u) : ap2[q] = applied[q] /\ pay2[q].amount = payment[q].amount
      BY <1>4, <1>5 DEF On
    <3> QED  BY <1>6, <3>1, <3>2, PaidSame
  <2> QED  BY <2>1, <2>2
<1>8. invoice' = invoice /\ direct' = direct
  BY DEF RequestInvoicePayment, invoices
<1>9. ASSUME NEW u \in Type PROVE invoice'[u].paid = direct'[u] + PaidOn(applied', payment', u)
  BY <1>5, <1>7, <1>8 DEF PaidFollows
<1> QED  BY <1>9 DEF PaidFollows

\* A decided payment is worth what it was.
LEMMA DecidedBooks ==
    ASSUME Inv, Inv', PaidFollows, NEW p \in DOMAIN payment, NEW who \in Principal,
           NEW outcome \in {"approved", "rejected"}, DecideApproval(p, who, outcome)
    PROVE  PaidFollows'
<1>1. /\ invoice' = invoice /\ direct' = direct /\ applied' = applied
      /\ payment' = [payment EXCEPT ![p].status = outcome, ![p].decider = who]
  BY DEF DecideApproval, invoices, ledger
<1>2. payment \in Seq(Payments) /\ payment[p] \in Payments
  BY DEF Inv, PaymentPart
<1>3. /\ DOMAIN payment' = DOMAIN payment
      /\ \A q \in DOMAIN payment : payment'[q].on = payment[q].on /\ payment'[q].amount = payment[q].amount
  BY <1>1, <1>2 DEF Payments
<1>4. PICK ap2, pay2 : ap2 = applied' /\ pay2 = payment'
  OBVIOUS
<1>5. Requests(applied, payment) /\ Requests(ap2, pay2)
  <2>1. Requests(applied', payment')
    BY DEF Inv, PaymentPart, Released, Requests
  <2> QED  BY <1>4, <2>1, RequestsOfInv
<1>6. ASSUME NEW u \in Type PROVE PaidOn(ap2, pay2, u) = PaidOn(applied, payment, u)
  <2>1. On(pay2, u) = On(payment, u)
    BY <1>3, <1>4 DEF On
  <2>2. \A q \in On(payment, u) : ap2[q] = applied[q] /\ pay2[q].amount = payment[q].amount
    BY <1>1, <1>3, <1>4 DEF On
  <2> QED  BY <1>5, <2>1, <2>2, PaidSame
<1> QED  BY <1>1, <1>4, <1>6 DEF PaidFollows

\* applyApprovedInvoicePayment records what the payment was asked for, once.
LEMMA AppliedBooks ==
    ASSUME Inv, Inv', PaidFollows, NEW t \in Type, NEW who \in Principal,
           ApplyApprovedInvoicePayment(t, who)
    PROVE  PaidFollows'
<1>1. payment' = payment /\ direct' = direct
  BY DEF ApplyApprovedInvoicePayment
<1>2. CASE ~Holds(who, Reconciler)
  <2>1. invoice' = invoice /\ applied' = applied
    BY <1>2 DEF ApplyApprovedInvoicePayment, invoices
  <2> QED  BY <1>1, <2>1, BooksStay
<1>3. CASE Holds(who, Reconciler)
  <2>1. PICK h : h = Head(link[t])
    OBVIOUS
  <2>2. h \in DOMAIN payment /\ payment[h].on = t /\ applied[h] = 0
    <3>1. link[t] \in Seq(Nat) /\ link[t] # <<>> /\ \A k \in DOMAIN link[t] : Links(t, link[t][k])
      BY DEF Inv, PaymentPart, ApplyApprovedInvoicePayment
    <3>2. h = link[t][1] /\ 1 \in DOMAIN link[t]
      BY <2>1, <3>1
    <3> QED  BY <3>1, <3>2 DEF Links
  <2>3. Recorded(t, payment[h].amount) /\ applied' = [applied EXCEPT ![h] = @ + 1]
    BY <1>3, <2>1 DEF ApplyApprovedInvoicePayment
  <2>4. PICK ap2 : ap2 = applied'
    OBVIOUS
  <2>5. Requests(applied, payment) /\ Requests(ap2, payment)
    <3>1. Requests(applied', payment')
      BY DEF Inv, PaymentPart, Released, Requests
    <3> QED  BY <1>1, <2>4, <3>1, RequestsOfInv
  <2>6. ap2[h] = 1 /\ \A q \in DOMAIN payment : q # h => ap2[q] = applied[q]
    <3>1. applied \in Seq(Nat) /\ h \in DOMAIN applied
      BY <2>2, <2>5 DEF Requests
    <3> QED  BY <2>2, <2>3, <2>4, <3>1
  <2>7. PICK amount \in Nat : amount = payment[h].amount /\ Worth(ap2, payment, h) = amount
    BY <2>2, <2>5, <2>6, WorthOf
  <2>8. ASSUME NEW u \in Type
        PROVE  PaidOn(ap2, payment, u) = IF u = t THEN PaidOn(applied, payment, u) + amount
                                         ELSE PaidOn(applied, payment, u)
    <3>1. CASE u = t
      <4>1. h \in On(payment, u) /\ On(payment, u) = On(payment, u) \cup {h}
        BY <2>2, <3>1 DEF On
      <4>2. \A q \in On(payment, u) \ {h} : ap2[q] = applied[q] /\ payment[q].amount = payment[q].amount
        BY <2>6 DEF On
      <4>3. PaidOn(ap2, payment, u) = PaidOn(applied, payment, u) + Worth(ap2, payment, h)
        BY <2>2, <2>5, <4>1, <4>2, PaidMore
      <4> QED  BY <2>7, <3>1, <4>3
    <3>2. CASE u # t
      <4>1. \A q \in On(payment, u) : ap2[q] = applied[q] /\ payment[q].amount = payment[q].amount
        BY <2>2, <2>6, <3>2 DEF On
      <4>2. PaidOn(ap2, payment, u) = PaidOn(applied, payment, u)
        BY <2>5, <4>1, PaidSame
      <4> QED  BY <3>2, <4>2
    <3> QED  BY <3>1, <3>2
  <2>9. ASSUME NEW u \in Type
        PROVE  invoice'[u].paid = IF u = t THEN invoice[u].paid + amount ELSE invoice[u].paid
    <3>1. invoice = [v \in Type |-> invoice[v]] /\ invoice[t] \in Invoices
      BY DEF Inv, InvoicePart, InvoiceOK
    <3> QED  BY <2>3, <2>7, <3>1 DEF Recorded, Invoices
  <2>10. ASSUME NEW u \in Type PROVE invoice'[u].paid = direct'[u] + PaidOn(applied', payment', u)
    <3>1. /\ invoice[u].paid = direct[u] + PaidOn(applied, payment, u) /\ PaidOn(applied, payment, u) \in Nat
          /\ direct[u] \in Nat
      BY PaidType, RequestsOfInv, InvoiceType DEF PaidFollows, Inv
    <3>2. PaidOn(applied', payment', u) = PaidOn(ap2, payment, u)
      BY <1>1, <2>4
    <3> QED  BY <1>1, <2>7, <2>8, <2>9, <3>1, <3>2
  <2> QED  BY <2>10 DEF PaidFollows
<1> QED  BY <1>2, <1>3

\* At first there are no payments, and nothing was paid.
LEMMA BooksInit == Init => PaidFollows
<1> SUFFICES ASSUME Init, NEW t \in Type PROVE invoice[t].paid = direct[t] + PaidOn(applied, payment, t)
  BY DEF PaidFollows
<1>1. On(payment, t) = {}
  BY DEF Init, On
<1>2. Requests(applied, payment)
  BY InitInv, RequestsOfInv
<1>3. PICK g : IsSum(g, applied, payment, t)
  BY <1>2, PaidUnfolds
<1>4. {} \in SUBSET On(payment, t)
  OBVIOUS
<1>5. g[{}] = 0
  BY <1>3, <1>4 DEF IsSum, SumsOver
<1>6. PaidOn(applied, payment, t) = 0
  BY <1>1, <1>3, <1>5 DEF IsSum
<1> QED  BY <1>6, NoInvoiceType DEF Init

LEMMA BooksStep == Inv /\ Inv' /\ PaidFollows /\ [Next]_vars => PaidFollows'
<1> SUFFICES ASSUME Inv, Inv', PaidFollows, [Next]_vars PROVE PaidFollows'
  OBVIOUS
<1>1. CASE UNCHANGED <<invoices, payments, ledger>>
  <2>1. invoice' = invoice /\ payment' = payment /\ applied' = applied /\ direct' = direct
    BY <1>1 DEF invoices, payments, ledger
  <2> QED  BY <2>1, BooksStay
<1>2. CASE UNCHANGED vars
  BY <1>1, <1>2 DEF vars, invoices, payments, ledger
<1>3. ASSUME NEW key \in HandoverTask, CompleteHandoverTask(key) PROVE PaidFollows'
  BY <1>1, <1>3 DEF CompleteHandoverTask
<1>4. ASSUME CreateOrUpdateBrief \/ IssueOpsBrief \/ GenerateSupplierConfirmations PROVE PaidFollows'
  BY <1>1, <1>4 DEF CreateOrUpdateBrief, IssueOpsBrief, GenerateSupplierConfirmations
<1>5. ASSUME NEW i \in Item, NEW to \in {"confirmed", "declined"}, TransitionSupplierConfirmation(i, to)
      PROVE  PaidFollows'
  BY <1>1, <1>5 DEF TransitionSupplierConfirmation
<1>6. ASSUME NEW t \in {"deposit", "progress"}, CreatePartInvoice(t) PROVE PaidFollows'
  BY <1>6, DraftedBooks DEF CreatePartInvoice, Type
<1>7. ASSUME CreateFinalInvoice \/ AutoCreateFinalInvoice PROVE PaidFollows'
  BY <1>7, DraftedBooks, Types DEF CreateFinalInvoice, AutoCreateFinalInvoice
<1>8. ASSUME NEW t \in Type, IssueInvoice(t) PROVE PaidFollows'
  <2>1. payment' = payment /\ applied' = applied /\ direct' = direct
    BY <1>8 DEF IssueInvoice, payments, ledger
  <2>2. invoice = [v \in Type |-> invoice[v]] /\ invoice[t] \in Invoices
    BY DEF Inv, InvoicePart, InvoiceOK
  <2>3. ASSUME NEW u \in Type PROVE invoice'[u].paid = invoice[u].paid
    BY <1>8, <2>2 DEF IssueInvoice, Invoices
  <2> QED  BY <2>1, <2>3, BooksStay
<1>9. ASSUME NEW t \in Type, NEW k \in DOMAIN recs[t], ResolveReconciliation(t, k) PROVE PaidFollows'
  <2>1. invoice' = invoice /\ payment' = payment /\ applied' = applied /\ direct' = direct
    BY <1>9 DEF ResolveReconciliation, payments, ledger
  <2> QED  BY <2>1, BooksStay
<1> QED
  BY <1>2, <1>3, <1>4, <1>5, <1>6, <1>7, <1>8, <1>9, RecordedBooks, RequestedBooks, DecidedBooks,
     AppliedBooks DEF Next

\* recordInvoicePayment and applyApprovedInvoicePayment, in whatever order they are
\* called: what an invoice says was paid is the sums recorded on it directly and the
\* payments applied to it, each once, and its reconciliation says the same.
THEOREM BooksAreBalanced == Spec => []BooksBalance
<1>1. Init => PaidFollows
  BY BooksInit
<1>2. Inv /\ Inv' /\ PaidFollows /\ [Next]_vars => PaidFollows'
  BY BooksStep
<1>3. PaidFollows => PaidIsAccountedFor
  BY Accounted
<1>4. PaidIsAccountedFor /\ ReconciliationFollows => BooksBalance
  BY DEF BooksBalance
<1> QED  BY <1>1, <1>2, <1>3, <1>4, Invariance, ReconciliationsFollow, PTL DEF Spec

=============================================================================
