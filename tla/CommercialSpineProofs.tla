------------------------ MODULE CommercialSpineProofs ------------------------
(***************************************************************************)
(* Proofs about CommercialSpine, for any number of requests in progress,   *)
(* any principals, prices, costs and bounds.                               *)
(*                                                                         *)
(* The handlers rely on one another in a way no single one of them shows:  *)
(* a transaction checks the version of the record it writes, and that is   *)
(* enough only because what was read under a version is still the record   *)
(* as long as the version is (SawSheet, SawRfp, SawApproval), because the  *)
(* lines never change without the version of their sheet (SawLines), and   *)
(* because what a first read made sure of stays true of what was read.     *)
(* Inv says so of every request in progress.                               *)
(***************************************************************************)
EXTENDS CommercialSpine, TLAPS

-----------------------------------------------------------------------------
(* The inductive invariant.                                                *)

Rfps == [stage : Stages, ver : Nat]

Sheets == [ver : Nat, sell : Price \cup {0}, cost : Nat, exception : Principal \cup {Nobody}]

Approvals == [status : {"none", "pending", "approved", "rejected"}, ver : Nat,
              by : Principal \cup {Nobody}, decider : Principal \cup {Nobody},
              margin : Int, sheetVer : Nat]

Bookings == [status : {"none", "confirmed", "handover_pending", "handed_over"},
             price : Nat, done : SUBSET Task]

\* What a handler has read.
Seen == [rfp : Rfps, sheet : Sheets, lines : Nat, approval : Approvals]

Todos == {<<>>, <<"rfp">>, <<"lines">>, <<"approval", "lines">>}

Request == [op : Operation \cup {Remember}, seen : Seen, todo : Todos, overtaken : Nat]

CallOK ==
    /\ call = [c \in Call |-> call[c]]
    /\ \A c \in Call : call[c] # <<>> => call[c] = <<call[c][1]>> /\ call[c][1] \in Request

LineWriters == {"addLine", "recalculate", "versionSheet"}

RfpFirst == {"createProgramme", "createSheet", "move"}

\* What an operation still has to read is an end of what it reads.
TodoFits(q) ==
    /\ q.op.name \in RfpFirst \cup {"remember"} => q.todo = <<>>
    /\ q.op.name \in LineWriters => q.todo \in {<<"lines">>, <<>>}
    /\ q.op.name \in {"request", "decide"} => q.todo \in {<<"rfp">>, <<>>}
    /\ q.op.name = "generate" => q.todo \in {<<"approval", "lines">>, <<"lines">>, <<>>}

\* What was read is no newer than the record, and is the record as long as the
\* record has that version.
SawSheet(q, s) ==
    q.op.name \in LineWriters \cup {"request", "generate"} =>
        /\ 0 < q.seen.sheet.ver /\ q.seen.sheet.ver <= s.ver
        /\ q.seen.sheet.ver = s.ver => q.seen.sheet = s

SawLines(q, s, l) ==
    (/\ q.op.name \in LineWriters \cup {"generate"} /\ q.todo = <<>>
     /\ q.seen.sheet.ver = s.ver) => q.seen.lines = l

SawRfp(q, r) ==
    (q.op.name \in RfpFirst \/ (q.op.name \in {"request", "decide"} /\ q.todo = <<>>)) =>
        /\ q.seen.rfp.ver <= r.ver
        /\ q.seen.rfp.ver = r.ver => q.seen.rfp = r

SawApproval(q, a) ==
    /\ q.op.name = "decide" =>
          /\ q.seen.approval.status = "pending" /\ q.seen.approval.by # q.op.by
          /\ q.seen.approval.ver <= a.ver
          /\ q.seen.approval.ver = a.ver => q.seen.approval = a
    /\ q.seen.approval.status = "approved" => a.status = "approved"

\* What the first reads made sure of.
Allowed(q) ==
    /\ q.op.name = "move" => <<q.seen.rfp.stage, q.op.to>> \in StageMoves
    /\ q.op.name \in {"createSheet", "recalculate"} => q.op.exception \in Director \cup {Nobody}

\* A request that has yet to push its proposal into memory has stored it.
Remembers(q, t, p) == q.op.name = "remember" => t # NoProposal /\ p = NoProposal

Saw(q, r, s, l, a) ==
    SawSheet(q, s) /\ SawLines(q, s, l) /\ SawRfp(q, r) /\ SawApproval(q, a)

RequestInv(q, r, s, l, a, t, p) ==
    TodoFits(q) /\ Allowed(q) /\ Saw(q, r, s, l, a) /\ Remembers(q, t, p)

\* In memory no request is ever seen in progress and no table has a row.
ModeInv == ~durable => table = NoProposal /\ \A c \in Call : call[c] = <<>>

\* The exception of a sheet is a director's.
SheetInv == sheet.exception \in Director \cup {Nobody} /\ FloorKept

\* A request for approval was made on a version the sheet has had, and as long
\* as the sheet has it the request's margin is the sheet's.
ApprovalInv ==
    durable /\ approval # NoApproval =>
        /\ 0 < approval.sheetVer /\ approval.sheetVer <= sheet.ver
        /\ approval.sheetVer = sheet.ver =>
              approval.margin = MarginPercent(ClientPrice(sheet.sell, sheet.cost), sheet.cost)

ProposalInv ==
    /\ ProposalIsApproved
    /\ durable /\ table = NoProposal => proposal = NoProposal

BookingInv == BookingIsSettled /\ (booking # NoBooking => booking.status # "none")

OneRemembers ==
    \A c, d \in Call :
        /\ call[c] # <<>> /\ call[c][1].op.name = "remember"
        /\ call[d] # <<>> /\ call[d][1].op.name = "remember"
        => c = d

RequestsInv ==
    \A c \in Call : call[c] # <<>> =>
        RequestInv(call[c][1], rfp, sheet, lines, approval, table, proposal)

Inv ==
    /\ TypeOK /\ CallOK
    /\ ModeInv /\ SheetInv /\ ApprovalInv /\ ProposalInv /\ BookingInv
    /\ OneRemembers /\ RequestsInv

-----------------------------------------------------------------------------
(* Types.                                                                  *)

LEMMA TypeParts ==
    TypeOK <=> /\ durable \in BOOLEAN /\ rfp \in Rfps /\ programme \in BOOLEAN
               /\ sheet \in Sheets /\ lines \in Nat /\ approval \in Approvals
               /\ table \in ProposalType /\ proposal \in ProposalType /\ booking \in Bookings
BY DEF TypeOK, Rfps, Sheets, Approvals, Bookings

\* What each operation carries.
LEMMA OperationParts ==
    ASSUME NEW o \in Operation
    PROVE  /\ o.name \in {"createProgramme", "createSheet", "addLine", "recalculate", "versionSheet",
                          "request", "decide", "generate", "move"}
           /\ o.name = "createSheet" =>
                 o.sell \in Price \cup {0} /\ o.cost \in Nat /\ o.exception \in Principal \cup {Nobody}
           /\ o.name = "addLine" => o.cost \in Nat
           /\ o.name = "recalculate" => o.sell \in Price /\ o.exception \in Principal \cup {Nobody}
           /\ o.name = "request" => o.by \in Principal
           /\ o.name = "decide" => o.by \in Principal /\ o.outcome \in {"approved", "rejected"}
           /\ o.name = "move" => o.to \in Stages
<1>0. \A x \in LineCost \cup {0} : x \in Nat
  BY SpineAssumption
<1>1. CASE o \in [name : {"createProgramme", "versionSheet", "generate"}]
  BY <1>1
<1>2. CASE o \in [name : {"createSheet"}, sell : Price \cup {0}, cost : LineCost \cup {0},
                  exception : Exceptions]
  <2>1. /\ o.name = "createSheet" /\ o.sell \in Price \cup {0} /\ o.cost \in LineCost \cup {0}
        /\ o.exception \in Exceptions
    BY <1>2
  <2>2. o.cost \in Nat
    BY <2>1, <1>0
  <2>3. o.exception \in Principal \cup {Nobody}
    BY <2>1 DEF Exceptions
  <2> QED BY <2>1, <2>2, <2>3
<1>3. CASE o \in [name : {"addLine"}, cost : LineCost]
  <2>1. o.name = "addLine" /\ o.cost \in LineCost
    BY <1>3
  <2> QED BY <2>1, <1>0
<1>4. CASE o \in [name : {"recalculate"}, sell : Price, exception : Exceptions]
  <2>1. o.name = "recalculate" /\ o.sell \in Price /\ o.exception \in Exceptions
    BY <1>4
  <2>2. o.exception \in Principal \cup {Nobody}
    BY <2>1 DEF Exceptions
  <2> QED BY <2>1, <2>2
<1>5. CASE o \in [name : {"request"}, by : Principal]
  BY <1>5
<1>6. CASE o \in [name : {"decide"}, by : Principal, outcome : {"approved", "rejected"}]
  BY <1>6
<1>7. CASE o \in [name : {"move"}, to : Stages]
  BY <1>7
<1> QED BY <1>1, <1>2, <1>3, <1>4, <1>5, <1>6, <1>7 DEF Operation

LEMMA RequestParts ==
    ASSUME NEW q \in Request
    PROVE  /\ q.op \in Operation \cup {Remember} /\ q.seen \in Seen /\ q.todo \in Todos
           /\ q.seen.rfp \in Rfps /\ q.seen.sheet \in Sheets /\ q.seen.lines \in Nat
           /\ q.seen.approval \in Approvals
BY DEF Request, Seen

LEMMA PriceType ==
    ASSUME NEW sell \in Price \cup {0}, NEW cost \in Nat
    PROVE  /\ ClientPrice(sell, cost) \in Nat
           /\ MarginPercent(ClientPrice(sell, cost), cost) \in Int
<1>1. ClientPrice(sell, cost) \in Nat
  BY SpineAssumption DEF ClientPrice
<1>2. ASSUME NEW p \in Nat PROVE MarginPercent(p, cost) \in Int
  <2>1. CASE p > 0
    <3>1. (p - cost) * 100 \in Int /\ p \in Int /\ p # 0
      BY <2>1
    <3> QED BY <2>1, <3>1 DEF MarginPercent
  <2> QED BY <2>1 DEF MarginPercent
<1> QED BY <1>1, <1>2

LEMMA EmptyTypes ==
    NoSheet \in Sheets /\ NoApproval \in Approvals /\ NoProposal \in ProposalType
BY DEF NoSheet, NoApproval, NoProposal, Sheets, Approvals, ProposalType

-----------------------------------------------------------------------------
(* What a handler may do to each record, once it has read what it needs.   *)

RfpOutcome ==
    /\ rfp' \in Rfps
    /\ \/ rfp' = rfp
       \/ rfp'.ver = rfp.ver + 1 /\ <<rfp.stage, rfp'.stage>> \in StageMoves

SheetOutcome ==
    /\ sheet' \in Sheets /\ lines' \in Nat
    /\ sheet'.exception \in Director \cup {Nobody}
    /\ durable => /\ \/ sheet' = sheet /\ lines' = lines
                     \/ sheet'.ver = sheet.ver + 1
                  /\ sheet'.cost = lines'
                  /\ sheet'.cost = 0 \/ MeetsFloor(sheet'.sell, sheet'.cost) \/ sheet'.exception \in Director

RequestOutcome ==
    /\ approval = NoApproval /\ sheet' = sheet
    /\ approval' # NoApproval /\ approval'.ver = 1 /\ approval'.status = "pending"
    /\ 0 < approval'.sheetVer /\ approval'.sheetVer <= sheet.ver
    /\ approval'.sheetVer = sheet.ver =>
          approval'.margin = MarginPercent(ClientPrice(sheet.sell, sheet.cost), sheet.cost)

DecideOutcome ==
    /\ approval # NoApproval /\ approval.status = "pending" /\ sheet' = sheet
    /\ approval'.ver = approval.ver + 1 /\ approval' # NoApproval
    /\ approval'.decider \in Principal \ {approval.by}
    /\ approval'.by = approval.by /\ approval'.margin = approval.margin
    /\ approval'.sheetVer = approval.sheetVer

ApprovalOutcome ==
    /\ approval' \in Approvals
    /\ approval' = approval \/ RequestOutcome \/ DecideOutcome

StoreOutcome ==
    /\ table = NoProposal /\ table' # NoProposal
    /\ approval.status = "approved" /\ approval' = approval /\ sheet' = sheet /\ proposal' = proposal
    /\ table'.sheetVer = approval.sheetVer /\ sheet.ver = approval.sheetVer =>
          MarginPercent(table'.price, table'.cost) = MarginPercent(ClientPrice(sheet.sell, sheet.cost), sheet.cost)

ProposalOutcome ==
    /\ table' \in ProposalType /\ proposal' \in ProposalType
    /\ durable => (table' = table /\ proposal' = proposal) \/ StoreOutcome
    /\ ~durable => table' = table

Outcome ==
    /\ programme' \in BOOLEAN
    /\ RfpOutcome /\ SheetOutcome /\ ApprovalOutcome /\ ProposalOutcome

LEMMA RfpStays ==
    ASSUME TypeOK, rfp' = rfp
    PROVE  RfpOutcome
BY TypeParts DEF RfpOutcome

\* updateRfpOptimistic: the version check makes the stage that was read the
\* stage the RFP is in.
LEMMA RfpWritten ==
    ASSUME TypeOK, NEW q \in Request, SawRfp(q, rfp),
           q.op.name \in RfpFirst \/ (q.op.name \in {"request", "decide"} /\ q.todo = <<>>),
           NEW to \in Stages, <<q.seen.rfp.stage, to>> \in StageMoves,
           WriteRfp(q.seen.rfp, to)
    PROVE  RfpOutcome
<1>1. q.seen.rfp = rfp /\ rfp' = [stage |-> to, ver |-> rfp.ver + 1]
  BY DEF SawRfp, WriteRfp
<1>2. rfp \in Rfps
  BY TypeParts
<1>3. rfp' \in Rfps /\ rfp'.ver = rfp.ver + 1 /\ rfp'.stage = to
  BY <1>1, <1>2 DEF Rfps
<1>4. <<rfp.stage, rfp'.stage>> \in StageMoves
  BY <1>1, <1>3
<1> QED BY <1>3, <1>4 DEF RfpOutcome

LEMMA RfpAdvanced ==
    ASSUME TypeOK, NEW q \in Request, SawRfp(q, rfp),
           q.op.name \in RfpFirst \/ (q.op.name \in {"request", "decide"} /\ q.todo = <<>>),
           NEW from, NEW to \in Stages, <<from, to>> \in StageMoves,
           AdvanceRfp(q.seen.rfp, from, to)
    PROVE  RfpOutcome
<1>1. CASE q.seen.rfp.stage = from
  BY <1>1, RfpWritten DEF AdvanceRfp
<1>2. CASE q.seen.rfp.stage # from
  BY <1>2, RfpStays DEF AdvanceRfp
<1> QED BY <1>1, <1>2

LEMMA SheetStays ==
    ASSUME TypeOK, SheetInv, sheet' = sheet, lines' = lines
    PROVE  SheetOutcome
BY TypeParts DEF SheetOutcome, SheetInv, FloorKept

LEMMA ApprovalStays ==
    ASSUME TypeOK, approval' = approval
    PROVE  ApprovalOutcome
BY TypeParts DEF ApprovalOutcome

LEMMA ProposalStays ==
    ASSUME TypeOK, table' = table, proposal' = proposal
    PROVE  ProposalOutcome
BY TypeParts DEF ProposalOutcome

-----------------------------------------------------------------------------
(* The operations, one after the other.                                    *)

\* What the handler of a request knows when it has read everything; in memory
\* it has read the records themselves.
Ready(q) ==
    /\ q \in Request /\ q.op \in Operation /\ q.todo = <<>>
    /\ TodoFits(q) /\ Allowed(q) /\ Saw(q, rfp, sheet, lines, approval)
    /\ ~durable => q.seen.sheet = sheet /\ q.seen.lines = lines

LEMMA CreateProgrammeOutcome ==
    ASSUME TypeOK, SheetInv, NEW q, Ready(q), q.op.name = "createProgramme", CreateProgramme(q.seen)
    PROVE  Outcome
<1>1. RfpOutcome
  <2>1. "programme" \in Stages /\ <<"intake", "programme">> \in StageMoves
    BY DEF Stages, StageMoves
  <2>2. q.op.name \in RfpFirst
    BY DEF RfpFirst
  <2> QED BY <2>1, <2>2, RfpAdvanced DEF CreateProgramme, Ready, Saw
<1>2. SheetOutcome /\ ApprovalOutcome /\ ProposalOutcome
  BY SheetStays, ApprovalStays, ProposalStays DEF CreateProgramme
<1> QED BY <1>1, <1>2 DEF Outcome, CreateProgramme

LEMMA CreateCostSheetOutcome ==
    ASSUME TypeOK, SheetInv, NEW q, Ready(q), q.op.name = "createSheet",
           CreateCostSheet(q.op, q.seen)
    PROVE  Outcome
<1>1. RfpOutcome
  <2>1. "costing" \in Stages /\ <<"programme", "costing">> \in StageMoves
    BY DEF Stages, StageMoves
  <2>2. q.op.name \in RfpFirst
    BY DEF RfpFirst
  <2> QED BY <2>1, <2>2, RfpAdvanced DEF CreateCostSheet, Ready, Saw
<1>2. SheetOutcome
  <2>1. /\ q.op.sell \in Price \cup {0} /\ q.op.cost \in Nat
        /\ q.op.exception \in Principal \cup {Nobody}
        /\ q.op.exception \in Director \cup {Nobody}
    BY OperationParts DEF Ready, Allowed
  <2>2. /\ sheet' = [ver |-> 1, sell |-> q.op.sell, cost |-> q.op.cost, exception |-> q.op.exception]
        /\ lines' = q.op.cost /\ sheet.ver = 0 /\ Sellable(sheet')
    BY DEF CreateCostSheet
  <2>3. sheet' \in Sheets /\ sheet'.ver = 1 /\ sheet'.cost = lines'
        /\ sheet'.exception \in Director \cup {Nobody}
    BY <2>1, <2>2 DEF Sheets
  <2>4. sheet'.cost = 0 \/ MeetsFloor(sheet'.sell, sheet'.cost) \/ sheet'.exception \in Director
    BY <2>2, <2>3 DEF Sellable
  <2> QED BY <2>1, <2>2, <2>3, <2>4 DEF SheetOutcome
<1>3. ApprovalOutcome /\ ProposalOutcome
  BY ApprovalStays, ProposalStays DEF CreateCostSheet
<1>4. programme' \in BOOLEAN
  BY TypeParts DEF CreateCostSheet
<1> QED BY <1>1, <1>2, <1>3, <1>4 DEF Outcome

LEMMA MoveOutcome ==
    ASSUME TypeOK, SheetInv, NEW q, Ready(q), q.op.name = "move", MoveRfp(q.op.to, q.seen)
    PROVE  Outcome
<1>1. RfpOutcome
  <2>1. q.op.to \in Stages /\ <<q.seen.rfp.stage, q.op.to>> \in StageMoves
    BY OperationParts DEF Ready, Allowed
  <2>2. q.op.name \in RfpFirst
    BY DEF RfpFirst
  <2> QED BY <2>1, <2>2, RfpWritten DEF MoveRfp, Ready, Saw
<1>2. SheetOutcome /\ ApprovalOutcome /\ ProposalOutcome
  BY SheetStays, ApprovalStays, ProposalStays DEF MoveRfp
<1>3. programme' \in BOOLEAN
  BY TypeParts DEF MoveRfp
<1> QED BY <1>1, <1>2, <1>3 DEF Outcome

\* updateCostSheetOptimistic: the version check makes what was read of the
\* sheet and its lines the sheet and the lines there are.
LEMMA SheetRead ==
    ASSUME NEW q, Ready(q), q.op.name \in LineWriters,
           ~durable \/ q.seen.sheet.ver = sheet.ver
    PROVE  q.seen.sheet = sheet /\ q.seen.lines = lines
BY DEF Ready, Saw, SawSheet, SawLines

LEMMA SheetWritten ==
    ASSUME TypeOK, SheetInv, NEW q, Ready(q), q.op.name \in LineWriters,
           NEW new \in Sheets, WriteSheet(q.seen.sheet, new),
           new.exception \in Director \cup {Nobody},
           lines' \in Nat, durable => new.cost = lines',
           durable => new.cost = 0 \/ MeetsFloor(new.sell, new.cost) \/ new.exception \in Director
    PROVE  SheetOutcome
<1>1. sheet' = [new EXCEPT !.ver = sheet.ver + 1] /\ sheet \in Sheets
  BY TypeParts DEF WriteSheet
<1>2. /\ sheet' \in Sheets /\ sheet'.ver = sheet.ver + 1 /\ sheet'.cost = new.cost
      /\ sheet'.sell = new.sell /\ sheet'.exception = new.exception
  BY <1>1 DEF Sheets
<1> QED BY <1>2 DEF SheetOutcome

LEMMA SheetRejected ==
    ASSUME NEW new \in Sheets, RejectSheet(new), new.exception \in Director \cup {Nobody},
           lines' \in Nat
    PROVE  SheetOutcome
BY DEF RejectSheet, SheetOutcome

LEMMA AddCostLineItemOutcome ==
    ASSUME TypeOK, SheetInv, NEW q, Ready(q), q.op.name = "addLine", AddCostLineItem(q.op, q.seen)
    PROVE  Outcome
<1>1. q.op.cost \in Nat /\ q.op.name \in LineWriters /\ q.seen.sheet \in Sheets /\ q.seen.lines \in Nat
  BY OperationParts, RequestParts DEF Ready, LineWriters
<1> DEFINE new == [q.seen.sheet EXCEPT !.cost = q.seen.lines + q.op.cost]
<1>2. /\ new \in Sheets /\ new.cost = q.seen.lines + q.op.cost
      /\ new.exception = q.seen.sheet.exception
  BY <1>1 DEF Sheets
<1>3. SheetOutcome
  <2>1. lines \in Nat
    BY TypeParts
  <2>2. CASE Sellable(new)
    <3>1. WriteSheet(q.seen.sheet, new) /\ lines' = lines + q.op.cost
      BY <2>2 DEF AddCostLineItem
    <3>2. q.seen.sheet = sheet /\ q.seen.lines = lines
      BY <1>1, <3>1, SheetRead DEF WriteSheet
    <3>3. new.exception \in Director \cup {Nobody} /\ lines' \in Nat /\ new.cost = lines'
      BY <1>1, <1>2, <2>1, <3>1, <3>2 DEF SheetInv
    <3>4. new.cost = 0 \/ MeetsFloor(new.sell, new.cost) \/ new.exception \in Director
      BY <2>2, <3>3 DEF Sellable
    <3> HIDE DEF new
    <3> QED BY <1>1, <1>2, <3>1, <3>3, <3>4, SheetWritten
  <2>3. CASE ~Sellable(new)
    <3>1. RejectSheet(new) /\ lines' = lines
      BY <2>3 DEF AddCostLineItem
    <3>2. q.seen.sheet = sheet
      BY <1>1, <3>1, SheetRead DEF RejectSheet
    <3>3. new.exception \in Director \cup {Nobody}
      BY <1>2, <3>2 DEF SheetInv
    <3> HIDE DEF new
    <3> QED BY <1>2, <2>1, <3>1, <3>3, SheetRejected
  <2> QED BY <2>2, <2>3
<1>4. RfpOutcome /\ ApprovalOutcome /\ ProposalOutcome /\ programme' \in BOOLEAN
  BY RfpStays, ApprovalStays, ProposalStays, TypeParts DEF AddCostLineItem
<1> QED BY <1>3, <1>4 DEF Outcome

LEMMA RecalculateCostSheetOutcome ==
    ASSUME TypeOK, SheetInv, NEW q, Ready(q), q.op.name = "recalculate",
           RecalculateCostSheet(q.op, q.seen)
    PROVE  Outcome
<1>1. /\ q.op.sell \in Price /\ q.op.exception \in Principal \cup {Nobody}
      /\ q.op.exception \in Director \cup {Nobody}
      /\ q.op.name \in LineWriters /\ q.seen.sheet \in Sheets /\ q.seen.lines \in Nat
  BY OperationParts, RequestParts DEF Ready, LineWriters, Allowed
<1> DEFINE new == [q.seen.sheet EXCEPT !.sell = q.op.sell, !.cost = q.seen.lines,
                     !.exception = IF q.op.exception = Nobody THEN @ ELSE q.op.exception]
<1>2. /\ new \in Sheets /\ new.cost = q.seen.lines
      /\ new.exception = IF q.op.exception = Nobody THEN q.seen.sheet.exception ELSE q.op.exception
  BY <1>1 DEF Sheets
<1>3. SheetOutcome
  <2>1. lines \in Nat /\ lines' = lines
    BY TypeParts DEF RecalculateCostSheet
  <2>2. CASE Sellable(new)
    <3>1. WriteSheet(q.seen.sheet, new)
      BY <2>2 DEF RecalculateCostSheet
    <3>2. q.seen.sheet = sheet /\ q.seen.lines = lines
      BY <1>1, <3>1, SheetRead DEF WriteSheet
    <3>3. new.exception \in Director \cup {Nobody} /\ new.cost = lines'
      BY <1>1, <1>2, <2>1, <3>2 DEF SheetInv
    <3>4. new.cost = 0 \/ MeetsFloor(new.sell, new.cost) \/ new.exception \in Director
      BY <2>2, <3>3 DEF Sellable
    <3> HIDE DEF new
    <3> QED BY <1>1, <1>2, <2>1, <3>1, <3>3, <3>4, SheetWritten
  <2>3. CASE ~Sellable(new)
    <3>1. RejectSheet(new)
      BY <2>3 DEF RecalculateCostSheet
    <3>2. q.seen.sheet = sheet
      BY <1>1, <3>1, SheetRead DEF RejectSheet
    <3>3. new.exception \in Director \cup {Nobody}
      BY <1>1, <1>2, <3>2 DEF SheetInv
    <3> HIDE DEF new
    <3> QED BY <1>2, <2>1, <3>1, <3>3, SheetRejected
  <2> QED BY <2>2, <2>3
<1>4. RfpOutcome /\ ApprovalOutcome /\ ProposalOutcome /\ programme' \in BOOLEAN
  BY RfpStays, ApprovalStays, ProposalStays, TypeParts DEF RecalculateCostSheet
<1> QED BY <1>3, <1>4 DEF Outcome

\* A new version of a sheet is not checked against the floor: its totals are
\* those the sheet had.
LEMMA CreateCostSheetVersionOutcome ==
    ASSUME TypeOK, SheetInv, NEW q, Ready(q), q.op.name = "versionSheet",
           CreateCostSheetVersion(q.seen)
    PROVE  Outcome
<1>1. q.op.name \in LineWriters /\ sheet \in Sheets /\ lines \in Nat /\ lines' = lines
  BY TypeParts DEF LineWriters, CreateCostSheetVersion
<1> DEFINE new == [q.seen.sheet EXCEPT !.cost = q.seen.lines]
<1>2. WriteSheet(q.seen.sheet, new)
  BY DEF CreateCostSheetVersion
<1>3. q.seen.sheet = sheet /\ q.seen.lines = lines
  BY <1>1, <1>2, SheetRead DEF WriteSheet
<1>4. new \in Sheets /\ new.cost = lines /\ new.exception = sheet.exception /\ new.sell = sheet.sell
  BY <1>1, <1>3 DEF Sheets
<1>5. durable => /\ new.cost = lines'
                 /\ new.cost = 0 \/ MeetsFloor(new.sell, new.cost) \/ new.exception \in Director
  BY <1>1, <1>4 DEF SheetInv, FloorKept
<1>6. SheetOutcome
  <2>1. new.exception \in Director \cup {Nobody}
    BY <1>4 DEF SheetInv
  <2> HIDE DEF new
  <2> QED BY <1>1, <1>2, <1>4, <1>5, <2>1, SheetWritten
<1>7. RfpOutcome /\ ApprovalOutcome /\ ProposalOutcome /\ programme' \in BOOLEAN
  BY RfpStays, ApprovalStays, ProposalStays, TypeParts DEF CreateCostSheetVersion
<1> QED BY <1>6, <1>7 DEF Outcome

LEMMA RequestCommercialApprovalOutcome ==
    ASSUME TypeOK, SheetInv, NEW q, Ready(q), q.op.name = "request",
           RequestCommercialApproval(q.op, q.seen)
    PROVE  Outcome
<1>1. RfpOutcome
  <2>1. "approval" \in Stages /\ <<"costing", "approval">> \in StageMoves
    BY DEF Stages, StageMoves
  <2> QED BY <2>1, RfpAdvanced DEF RequestCommercialApproval, Ready, Saw
<1>2. SheetOutcome /\ ProposalOutcome
  BY SheetStays, ProposalStays DEF RequestCommercialApproval
<1>3. programme' \in BOOLEAN
  BY TypeParts DEF RequestCommercialApproval
<1>4. ApprovalOutcome
  <2>1. q.seen.sheet \in Sheets /\ q.op.by \in Principal /\ q.seen.sheet.sell \in Price \cup {0}
        /\ q.seen.sheet.cost \in Nat /\ q.seen.sheet.ver \in Nat
    BY OperationParts, RequestParts DEF Ready, Sheets
  <2> DEFINE margin == MarginPercent(ClientPrice(q.seen.sheet.sell, q.seen.sheet.cost), q.seen.sheet.cost)
  <2>2. margin \in Int
    BY <2>1, PriceType
  <2> HIDE DEF margin
  <2>3. approval' = [status |-> "pending", ver |-> 1, by |-> q.op.by, decider |-> Nobody,
                     margin |-> margin, sheetVer |-> q.seen.sheet.ver]
    BY DEF RequestCommercialApproval, margin
  <2>4. /\ approval' \in Approvals /\ approval'.ver = 1 /\ approval'.status = "pending"
        /\ approval'.margin = margin /\ approval'.sheetVer = q.seen.sheet.ver
    BY <2>1, <2>2, <2>3 DEF Approvals
  <2>5. /\ 0 < q.seen.sheet.ver /\ q.seen.sheet.ver <= sheet.ver
        /\ q.seen.sheet.ver = sheet.ver => q.seen.sheet = sheet
    BY DEF Ready, Saw, SawSheet
  <2>6. approval' # NoApproval
    BY <2>4 DEF NoApproval
  <2>7. q.seen.sheet.ver = sheet.ver =>
          margin = MarginPercent(ClientPrice(sheet.sell, sheet.cost), sheet.cost)
    BY <2>5 DEF margin
  <2>8. RequestOutcome
    BY <2>4, <2>5, <2>6, <2>7 DEF RequestOutcome, RequestCommercialApproval
  <2> QED BY <2>4, <2>8 DEF ApprovalOutcome
<1> QED BY <1>1, <1>2, <1>3, <1>4 DEF Outcome

\* The version check makes the request that was read, pending and by somebody
\* else, the request there is.
LEMMA DecideCommercialApprovalOutcome ==
    ASSUME TypeOK, SheetInv, NEW q, Ready(q), q.op.name = "decide",
           DecideCommercialApproval(q.op, q.seen)
    PROVE  Outcome
<1>1. RfpOutcome
  <2>1. "proposal" \in Stages /\ <<"approval", "proposal">> \in StageMoves
    BY DEF Stages, StageMoves
  <2>2. CASE q.op.outcome = "approved"
    BY <2>1, <2>2, RfpAdvanced DEF DecideCommercialApproval, Ready, Saw
  <2>3. CASE q.op.outcome # "approved"
    BY <2>3, RfpStays DEF DecideCommercialApproval
  <2> QED BY <2>2, <2>3
<1>2. SheetOutcome /\ ProposalOutcome
  BY SheetStays, ProposalStays DEF DecideCommercialApproval
<1>3. programme' \in BOOLEAN
  BY TypeParts DEF DecideCommercialApproval
<1>4. ApprovalOutcome
  <2>1. q.op.by \in Principal /\ q.op.outcome \in {"approved", "rejected"} /\ approval \in Approvals
    BY OperationParts, TypeParts DEF Ready
  <2>2. approval = q.seen.approval /\ approval.status = "pending" /\ approval.by # q.op.by
    BY DEF DecideCommercialApproval, Ready, Saw, SawApproval
  <2>3. approval' = [approval EXCEPT !.status = q.op.outcome, !.decider = q.op.by, !.ver = @ + 1]
    BY <2>2 DEF DecideCommercialApproval, Decision
  <2>4. /\ approval'.ver = approval.ver + 1 /\ approval'.decider = q.op.by
        /\ approval'.by = approval.by /\ approval'.margin = approval.margin
        /\ approval'.sheetVer = approval.sheetVer /\ approval'.status = q.op.outcome
    BY <2>1, <2>3 DEF Approvals
  <2>7. approval' \in Approvals
    <3>1. q.op.outcome \in {"none", "pending", "approved", "rejected"}
          /\ q.op.by \in Principal \cup {Nobody} /\ approval.ver + 1 \in Nat
      BY <2>1 DEF Approvals
    <3> QED BY <2>1, <2>3, <3>1 DEF Approvals
  <2>5. approval # NoApproval /\ approval' # NoApproval
    BY <2>1, <2>2, <2>4 DEF NoApproval
  <2>6. DecideOutcome
    BY <2>1, <2>2, <2>4, <2>5 DEF DecideOutcome, DecideCommercialApproval
  <2> QED BY <2>6, <2>7 DEF ApprovalOutcome
<1> QED BY <1>1, <1>2, <1>3, <1>4 DEF Outcome

LEMMA ComposedType ==
    ASSUME NEW s \in Seen
    PROVE  /\ Composed(s) \in ProposalType /\ Composed(s) # NoProposal
           /\ Composed(s).price = ClientPrice(s.sheet.sell, s.lines)
           /\ Composed(s).cost = s.lines /\ Composed(s).sheetVer = s.sheet.ver
<1>1. s.lines \in Nat /\ s.sheet.sell \in Price \cup {0} /\ s.sheet.ver \in Nat
  BY DEF Seen, Sheets
<1> DEFINE price == ClientPrice(s.sheet.sell, s.lines)
<1>2. price \in Nat
  BY <1>1, PriceType
<1> HIDE DEF price
<1>3. Composed(s) = [status |-> "approved", price |-> price, cost |-> s.lines, sheetVer |-> s.sheet.ver]
  BY DEF Composed, price
<1>4. Composed(s) \in ProposalType /\ Composed(s).status = "approved"
  BY <1>1, <1>2, <1>3 DEF ProposalType
<1>5. Composed(s) # NoProposal
  BY <1>4 DEF NoProposal
<1> QED BY <1>3, <1>4, <1>5 DEF price

\* If the sheet a proposal was composed from is still the sheet there is, then
\* so were the lines.
LEMMA GenerateProposalOutcome ==
    ASSUME TypeOK, SheetInv, NEW q, Ready(q), q.op.name = "generate", GenerateProposal(q.seen)
    PROVE  Outcome
<1>1. RfpOutcome /\ SheetOutcome /\ ApprovalOutcome /\ programme' \in BOOLEAN
  BY RfpStays, SheetStays, ApprovalStays, TypeParts DEF GenerateProposal
<1>2. q.seen \in Seen /\ table \in ProposalType /\ proposal \in ProposalType /\ table = NoProposal
  BY RequestParts, TypeParts DEF Ready, GenerateProposal
<1>3. /\ Composed(q.seen) \in ProposalType /\ Composed(q.seen) # NoProposal
      /\ Composed(q.seen).price = ClientPrice(q.seen.sheet.sell, q.seen.lines)
      /\ Composed(q.seen).cost = q.seen.lines /\ Composed(q.seen).sheetVer = q.seen.sheet.ver
  BY <1>2, ComposedType
<1>4. CASE durable
  <2>1. table' = Composed(q.seen) /\ proposal' = proposal /\ approval' = approval /\ sheet' = sheet
        /\ q.seen.approval.status = "approved"
    BY <1>4 DEF GenerateProposal
  <2>2. approval.status = "approved"
    BY <2>1 DEF Ready, Saw, SawApproval
  <2>3. ASSUME q.seen.sheet.ver = sheet.ver
        PROVE  q.seen.sheet = sheet /\ q.seen.lines = sheet.cost
    BY <1>4, <2>3 DEF Ready, Saw, SawSheet, SawLines, SheetInv, FloorKept
  <2>4. table'.sheetVer = approval.sheetVer /\ sheet.ver = approval.sheetVer =>
          MarginPercent(table'.price, table'.cost) = MarginPercent(ClientPrice(sheet.sell, sheet.cost), sheet.cost)
    BY <1>3, <2>1, <2>3
  <2>5. StoreOutcome
    BY <1>2, <1>3, <2>1, <2>2, <2>4 DEF StoreOutcome
  <2> QED BY <1>1, <1>2, <1>3, <1>4, <2>1, <2>5 DEF Outcome, ProposalOutcome
<1>5. CASE ~durable
  <2>1. table' = table /\ proposal' = Composed(q.seen)
    BY <1>5 DEF GenerateProposal
  <2> QED BY <1>1, <1>2, <1>3, <1>5, <2>1 DEF Outcome, ProposalOutcome
<1> QED BY <1>4, <1>5

\* Whatever the operation, it leaves the records in one of these outcomes.
LEMMA HandleOutcome ==
    ASSUME TypeOK, SheetInv, NEW q, Ready(q), Handle(q.op, q.seen)
    PROVE  /\ Outcome
           /\ q.op.name # "generate" => table' = table /\ proposal' = proposal
           /\ q.op.name = "generate" /\ durable => StoreOutcome
<1>1. Outcome
  BY CreateProgrammeOutcome, CreateCostSheetOutcome, AddCostLineItemOutcome,
     RecalculateCostSheetOutcome, CreateCostSheetVersionOutcome, RequestCommercialApprovalOutcome,
     DecideCommercialApprovalOutcome, GenerateProposalOutcome, MoveOutcome DEF Handle
<1>2. q.op.name # "generate" => table' = table /\ proposal' = proposal
  BY DEF Handle, CreateProgramme, CreateCostSheet, AddCostLineItem, RecalculateCostSheet,
         CreateCostSheetVersion, RequestCommercialApproval, DecideCommercialApproval, MoveRfp
<1>3. q.op.name = "generate" /\ durable => StoreOutcome
  <2>1. SUFFICES ASSUME q.op.name = "generate", durable
                 PROVE  StoreOutcome
    OBVIOUS
  <2>2. GenerateProposal(q.seen)
    BY <2>1 DEF Handle
  <2>3. table = NoProposal /\ table' = Composed(q.seen)
    BY <2>1, <2>2 DEF GenerateProposal
  <2>4. Composed(q.seen) # NoProposal
    BY RequestParts, ComposedType DEF Ready
  <2> QED BY <1>1, <2>1, <2>3, <2>4 DEF Outcome, ProposalOutcome
<1> QED BY <1>1, <1>2, <1>3

-----------------------------------------------------------------------------
(* What a handler's outcome leaves true of the records and of the requests  *)
(* it overtakes.                                                            *)

LEMMA RecordsKept ==
    ASSUME TypeOK, ModeInv, SheetInv, ApprovalInv, ProposalInv, Outcome,
           durable' = durable, booking' = booking
    PROVE  /\ TypeOK' /\ SheetInv' /\ ApprovalInv' /\ ProposalInv'
           /\ ~durable => table' = NoProposal
<1>0. /\ durable \in BOOLEAN /\ sheet \in Sheets /\ approval \in Approvals /\ booking \in Bookings
      /\ table \in ProposalType
  BY TypeParts
<1>1. TypeOK'
  <2>1. /\ durable' \in BOOLEAN /\ rfp' \in Rfps /\ programme' \in BOOLEAN /\ sheet' \in Sheets
        /\ lines' \in Nat /\ approval' \in Approvals /\ table' \in ProposalType
        /\ proposal' \in ProposalType /\ booking' \in Bookings
    BY <1>0 DEF Outcome, RfpOutcome, SheetOutcome, ApprovalOutcome, ProposalOutcome
  <2> QED BY <2>1 DEF TypeOK, Rfps, Sheets, Approvals, Bookings
<1>2. SheetInv'
  BY <1>0 DEF SheetInv, FloorKept, Outcome, SheetOutcome
<1>3. ApprovalInv'
  <2>1. SUFFICES ASSUME durable, approval' # NoApproval
                 PROVE  /\ 0 < approval'.sheetVer /\ approval'.sheetVer <= sheet'.ver
                        /\ approval'.sheetVer = sheet'.ver =>
                              approval'.margin =
                                  MarginPercent(ClientPrice(sheet'.sell, sheet'.cost), sheet'.cost)
    BY DEF ApprovalInv
  <2>2. CASE RequestOutcome
    BY <2>2 DEF RequestOutcome
  <2>3. CASE DecideOutcome
    BY <2>1, <2>3 DEF DecideOutcome, ApprovalInv
  <2>4. CASE approval' = approval
    <3>1. sheet' = sheet \/ sheet'.ver = sheet.ver + 1
      BY <2>1 DEF Outcome, SheetOutcome
    <3>2. approval.sheetVer \in Nat /\ sheet.ver \in Nat
      BY <1>0 DEF Approvals, Sheets
    <3>3. /\ 0 < approval.sheetVer /\ approval.sheetVer <= sheet.ver
          /\ approval.sheetVer = sheet.ver =>
                approval.margin = MarginPercent(ClientPrice(sheet.sell, sheet.cost), sheet.cost)
      BY <2>1, <2>4 DEF ApprovalInv
    <3>4. CASE sheet' = sheet
      BY <2>4, <3>3, <3>4
    <3>5. CASE sheet'.ver = sheet.ver + 1
      BY <2>4, <3>2, <3>3, <3>5
    <3> QED BY <3>1, <3>4, <3>5
  <2> QED BY <2>2, <2>3, <2>4 DEF Outcome, ApprovalOutcome
<1>4. ProposalInv'
  <2>1. CASE ~durable
    BY <2>1 DEF ProposalInv, ProposalIsApproved
  <2>2. CASE durable /\ StoreOutcome
    <3>1. proposal' = NoProposal /\ table' # NoProposal /\ approval' = approval /\ sheet' = sheet
          /\ approval.status = "approved"
      BY <2>2 DEF StoreOutcome, ProposalInv
    <3>2. approval # NoApproval
      BY <3>1 DEF NoApproval
    <3>3. table'.sheetVer = approval.sheetVer /\ sheet.ver = approval.sheetVer =>
              MarginPercent(table'.price, table'.cost) = approval.margin
      BY <2>2, <3>2 DEF StoreOutcome, ApprovalInv
    <3> QED BY <2>2, <3>1, <3>3 DEF ProposalInv, ProposalIsApproved
  <2>3. CASE durable /\ table' = table /\ proposal' = proposal
    <3>1. CASE table = NoProposal
      BY <2>3, <3>1 DEF ProposalInv, ProposalIsApproved
    <3>2. CASE table # NoProposal
      <4>1. approval.status = "approved"
        BY <2>3, <3>2 DEF ProposalInv, ProposalIsApproved
      <4>2. approval # NoApproval /\ approval' = approval
        <5>1. NoApproval.status = "none"
          BY DEF NoApproval
        <5> QED BY <4>1, <5>1 DEF Outcome, ApprovalOutcome, RequestOutcome, DecideOutcome
      <4>3. approval.sheetVer <= sheet.ver /\ approval.sheetVer \in Nat /\ sheet.ver \in Nat
        BY <1>0, <2>3, <4>2 DEF ApprovalInv, Approvals, Sheets
      <4>4. sheet' = sheet \/ sheet'.ver = sheet.ver + 1
        BY <2>3 DEF Outcome, SheetOutcome
      <4>5. sheet'.ver = approval.sheetVer => sheet' = sheet
        BY <4>3, <4>4
      <4> QED BY <2>3, <4>1, <4>2, <4>5 DEF ProposalInv, ProposalIsApproved
    <3> QED BY <3>1, <3>2
  <2> QED BY <1>0, <2>1, <2>2, <2>3 DEF Outcome, ProposalOutcome
<1>5. ~durable => table' = NoProposal
  BY DEF ModeInv, Outcome, ProposalOutcome
<1> QED BY <1>1, <1>2, <1>3, <1>4, <1>5

\* A record that moves on leaves behind what was read of it.
LEMMA SawKept ==
    ASSUME NEW q \in Request, NEW r \in Rfps, NEW r2 \in Rfps, NEW s \in Sheets, NEW s2 \in Sheets,
           NEW l \in Nat, NEW l2 \in Nat, NEW a \in Approvals, NEW a2 \in Approvals,
           Saw(q, r, s, l, a),
           r2 = r \/ r2.ver = r.ver + 1,
           (s2 = s /\ l2 = l) \/ s2.ver = s.ver + 1,
           a2 = a \/ (a.status # "approved" /\ a2.ver = a.ver + 1)
    PROVE  Saw(q, r2, s2, l2, a2)
<1>0. /\ q.seen.rfp.ver \in Nat /\ q.seen.sheet.ver \in Nat /\ q.seen.approval.ver \in Nat
      /\ r.ver \in Nat /\ s.ver \in Nat /\ a.ver \in Nat
  BY RequestParts DEF Rfps, Sheets, Approvals
<1>1. SawRfp(q, r2)
  BY <1>0 DEF Saw, SawRfp
<1>2. SawSheet(q, s2)
  BY <1>0 DEF Saw, SawSheet
<1>3. SawLines(q, s2, l2)
  <2>1. CASE s2 = s /\ l2 = l
    BY <2>1 DEF Saw
  <2>2. CASE s2.ver = s.ver + 1
    <3>1. q.op.name \in LineWriters \cup {"generate"} => q.seen.sheet.ver <= s.ver
      BY DEF Saw, SawSheet
    <3> QED BY <1>0, <2>2, <3>1 DEF SawLines
  <2> QED BY <2>1, <2>2
<1>4. SawApproval(q, a2)
  <2>1. CASE a2 = a
    BY <2>1 DEF Saw
  <2>2. CASE a.status # "approved" /\ a2.ver = a.ver + 1
    BY <1>0, <2>2 DEF Saw, SawApproval
  <2> QED BY <2>1, <2>2
<1> QED BY <1>1, <1>2, <1>3, <1>4 DEF Saw

LEMMA SawOutcome ==
    ASSUME TypeOK, Outcome, durable, NEW q \in Request, Saw(q, rfp, sheet, lines, approval)
    PROVE  Saw(q, rfp', sheet', lines', approval')
<1>1. /\ rfp \in Rfps /\ rfp' \in Rfps /\ sheet \in Sheets /\ sheet' \in Sheets
      /\ lines \in Nat /\ lines' \in Nat /\ approval \in Approvals /\ approval' \in Approvals
  BY TypeParts DEF Outcome, RfpOutcome, SheetOutcome, ApprovalOutcome
<1>2. rfp' = rfp \/ rfp'.ver = rfp.ver + 1
  BY DEF Outcome, RfpOutcome
<1>3. (sheet' = sheet /\ lines' = lines) \/ sheet'.ver = sheet.ver + 1
  BY DEF Outcome, SheetOutcome
<1>4. approval' = approval \/ (approval.status # "approved" /\ approval'.ver = approval.ver + 1)
  <2>1. NoApproval.status = "none" /\ NoApproval.ver = 0
    BY DEF NoApproval
  <2>2. CASE RequestOutcome
    BY <2>1, <2>2 DEF RequestOutcome
  <2>3. CASE DecideOutcome
    BY <2>3 DEF DecideOutcome
  <2> QED BY <2>2, <2>3 DEF Outcome, ApprovalOutcome
<1> QED BY <1>1, <1>2, <1>3, <1>4, SawKept

-----------------------------------------------------------------------------
(* The steps.  Each keeps Inv, moves the RFP along its table and decides a  *)
(* request at most once.                                                    *)

RfpStep ==
    rfp' # rfp =>
        /\ rfp'.ver = rfp.ver + 1
        /\ \/ rfp'.stage = rfp.stage \/ <<rfp.stage, rfp'.stage>> \in StageMoves
           \/ booking = NoBooking /\ booking' # NoBooking /\ rfp'.stage = "closed"

DecisionStep ==
    approval # NoApproval /\ approval' # approval =>
        /\ approval.status = "pending"
        /\ approval'.decider \in Principal \ {approval.by}
        /\ approval'.by = approval.by /\ approval'.margin = approval.margin

GoodStep == Inv' /\ RfpStep /\ DecisionStep

LEMMA OutcomeSteps ==
    ASSUME Outcome
    PROVE  RfpStep /\ DecisionStep
BY DEF Outcome, RfpOutcome, ApprovalOutcome, RequestOutcome, DecideOutcome, RfpStep, DecisionStep

\* Steps that only change which requests are in progress.
Quiet ==
    UNCHANGED <<durable, rfp, programme, sheet, lines, approval, table, proposal, booking>>

LEMMA QuietKeeps ==
    ASSUME Inv, Quiet
    PROVE  /\ TypeOK' /\ SheetInv' /\ ApprovalInv' /\ ProposalInv' /\ BookingInv'
           /\ RfpStep /\ DecisionStep
<1>1. TypeOK' /\ SheetInv'
  BY DEF Inv, Quiet, TypeOK, SheetInv, FloorKept
<1>2. ApprovalInv' /\ ProposalInv' /\ BookingInv'
  BY DEF Inv, Quiet, ApprovalInv, ProposalInv, ProposalIsApproved, BookingInv, BookingIsSettled
<1>3. RfpStep /\ DecisionStep
  BY DEF Quiet, RfpStep, DecisionStep
<1> QED BY <1>1, <1>2, <1>3

\* A request appears, goes on or leaves.
LEMMA OneCallChanges ==
    ASSUME Inv, Quiet, durable, NEW c \in Call, NEW k, call' = [call EXCEPT ![c] = k],
           k # <<>> =>
              /\ k = <<k[1]>> /\ k[1] \in Request /\ k[1].op.name # "remember"
              /\ RequestInv(k[1], rfp, sheet, lines, approval, table, proposal)
    PROVE  GoodStep
<1>1. /\ TypeOK' /\ SheetInv' /\ ApprovalInv' /\ ProposalInv' /\ BookingInv'
      /\ RfpStep /\ DecisionStep
  BY QuietKeeps
<1>2. call = [d \in Call |-> call[d]]
  BY DEF Inv, CallOK
<1>3. call'[c] = k /\ \A d \in Call : d # c => call'[d] = call[d]
  BY <1>2
<1>4. CallOK'
  <2>1. call' = [d \in Call |-> call'[d]]
    BY <1>2
  <2>2. ASSUME NEW d \in Call, call'[d] # <<>>
        PROVE  call'[d] = <<call'[d][1]>> /\ call'[d][1] \in Request
    BY <1>3, <2>2 DEF Inv, CallOK
  <2> QED BY <2>1, <2>2 DEF CallOK
<1>5. RequestsInv'
  <2>1. ASSUME NEW d \in Call, call'[d] # <<>>
        PROVE  RequestInv(call'[d][1], rfp, sheet, lines, approval, table, proposal)
    BY <1>3, <2>1 DEF Inv, RequestsInv
  <2> QED BY <2>1 DEF RequestsInv, Quiet
<1>6. OneRemembers'
  BY <1>3 DEF Inv, OneRemembers
<1>7. ModeInv'
  BY DEF ModeInv, Quiet
<1> QED BY <1>1, <1>4, <1>5, <1>6, <1>7 DEF GoodStep, Inv

LEMMA FirstRead ==
    ASSUME NEW o \in Operation
    PROVE  /\ o.name \in RfpFirst => Head(Reads(o)) = "rfp" /\ Tail(Reads(o)) = <<>>
           /\ o.name \in LineWriters => Head(Reads(o)) = "sheet" /\ Tail(Reads(o)) = <<"lines">>
           /\ o.name = "request" => Head(Reads(o)) = "sheet" /\ Tail(Reads(o)) = <<"rfp">>
           /\ o.name = "decide" => Head(Reads(o)) = "approval" /\ Tail(Reads(o)) = <<"rfp">>
           /\ o.name = "generate" =>
                 Head(Reads(o)) = "sheet" /\ Tail(Reads(o)) = <<"approval", "lines">>
<1>1. CASE o.name \in RfpFirst
  <2>1. Reads(o) = <<"rfp">>
    BY <1>1 DEF RfpFirst, Reads
  <2> QED BY <1>1, <2>1 DEF RfpFirst, LineWriters
<1>2. CASE o.name \in LineWriters
  <2>1. Reads(o) = <<"sheet", "lines">>
    BY <1>2 DEF LineWriters, Reads
  <2> QED BY <1>2, <2>1 DEF RfpFirst, LineWriters
<1>3. CASE o.name = "request"
  <2>1. Reads(o) = <<"sheet", "rfp">>
    BY <1>3 DEF Reads
  <2> QED BY <1>3, <2>1 DEF RfpFirst, LineWriters
<1>4. CASE o.name = "decide"
  <2>1. Reads(o) = <<"approval", "rfp">>
    BY <1>4 DEF Reads
  <2> QED BY <1>4, <2>1 DEF RfpFirst, LineWriters
<1>5. CASE o.name = "generate"
  <2>1. Reads(o) = <<"sheet", "approval", "lines">>
    BY <1>5 DEF Reads
  <2> QED BY <1>5, <2>1 DEF RfpFirst, LineWriters
<1> QED BY <1>1, <1>2, <1>3, <1>4, <1>5

LEMMA ReadOf ==
    ASSUME TypeOK, NEW s \in Seen
    PROVE  /\ [s EXCEPT !["rfp"] = Now["rfp"]] = [s EXCEPT !.rfp = rfp]
           /\ [s EXCEPT !["sheet"] = Now["sheet"]] = [s EXCEPT !.sheet = sheet]
           /\ [s EXCEPT !["lines"] = Now["lines"]] = [s EXCEPT !.lines = lines]
           /\ [s EXCEPT !["approval"] = Now["approval"]] = [s EXCEPT !.approval = approval]
           /\ [s EXCEPT !.rfp = rfp] \in Seen /\ [s EXCEPT !.sheet = sheet] \in Seen
           /\ [s EXCEPT !.lines = lines] \in Seen /\ [s EXCEPT !.approval = approval] \in Seen
<1>1. rfp \in Rfps /\ sheet \in Sheets /\ lines \in Nat /\ approval \in Approvals
  BY TypeParts
<1> QED BY <1>1 DEF Seen, Now

LEMMA UnreadSeen == Unread \in Seen /\ Unread.approval.status = "none"
<1>1. [stage |-> "intake", ver |-> 0] \in Rfps
  BY DEF Rfps, Stages
<1> QED BY <1>1, EmptyTypes DEF Unread, Seen, NoApproval

\* The first read finds the record as it is.
LEMMA BeginStep ==
    ASSUME Inv, NEW c \in Call, NEW o \in Operation, Begin(c, o)
    PROVE  GoodStep
<1> DEFINE r == Head(Reads(o))
<1> DEFINE q == [op |-> o, seen |-> [Unread EXCEPT ![r] = Now[r]], todo |-> Tail(Reads(o)),
                 overtaken |-> 0]
<1>1. durable /\ MayBegin(o) /\ Quiet /\ call' = [call EXCEPT ![c] = <<q>>]
  BY DEF Begin, Quiet
<1>2. PICK x : x = q
  OBVIOUS
<1>3. /\ x.op = o /\ x.todo = Tail(Reads(o)) /\ x.seen = [Unread EXCEPT ![r] = Now[r]]
      /\ x = [op |-> x.op, seen |-> x.seen, todo |-> x.todo, overtaken |-> 0]
  BY <1>2
<1> HIDE DEF q
<1>4. TypeOK /\ rfp \in Rfps /\ sheet \in Sheets /\ lines \in Nat /\ approval \in Approvals
  BY TypeParts DEF Inv
<1>5. o.name \in {"createProgramme", "createSheet", "addLine", "recalculate", "versionSheet",
                  "request", "decide", "generate", "move"}
  BY OperationParts
<1>6. /\ o.name \in RfpFirst => x.seen = [Unread EXCEPT !.rfp = rfp] /\ x.todo = <<>>
      /\ o.name \in LineWriters => x.seen = [Unread EXCEPT !.sheet = sheet] /\ x.todo = <<"lines">>
      /\ o.name = "request" => x.seen = [Unread EXCEPT !.sheet = sheet] /\ x.todo = <<"rfp">>
      /\ o.name = "decide" => x.seen = [Unread EXCEPT !.approval = approval] /\ x.todo = <<"rfp">>
      /\ o.name = "generate" =>
            x.seen = [Unread EXCEPT !.sheet = sheet] /\ x.todo = <<"approval", "lines">>
  <2>1. Unread \in Seen
    BY UnreadSeen
  <2> HIDE DEF r
  <2>2. CASE o.name \in RfpFirst
    <3>1. r = "rfp" /\ Tail(Reads(o)) = <<>>
      BY <2>2, FirstRead DEF r
    <3> QED BY <1>3, <1>4, <2>1, <2>2, <3>1, ReadOf DEF RfpFirst, LineWriters
  <2>3. CASE o.name \in LineWriters
    <3>1. r = "sheet" /\ Tail(Reads(o)) = <<"lines">>
      BY <2>3, FirstRead DEF r
    <3> QED BY <1>3, <1>4, <2>1, <2>3, <3>1, ReadOf DEF RfpFirst, LineWriters
  <2>4. CASE o.name = "request"
    <3>1. r = "sheet" /\ Tail(Reads(o)) = <<"rfp">>
      BY <2>4, FirstRead DEF r
    <3> QED BY <1>3, <1>4, <2>1, <2>4, <3>1, ReadOf DEF RfpFirst, LineWriters
  <2>5. CASE o.name = "decide"
    <3>1. r = "approval" /\ Tail(Reads(o)) = <<"rfp">>
      BY <2>5, FirstRead DEF r
    <3> QED BY <1>3, <1>4, <2>1, <2>5, <3>1, ReadOf DEF RfpFirst, LineWriters
  <2>6. CASE o.name = "generate"
    <3>1. r = "sheet" /\ Tail(Reads(o)) = <<"approval", "lines">>
      BY <2>6, FirstRead DEF r
    <3> QED BY <1>3, <1>4, <2>1, <2>6, <3>1, ReadOf DEF RfpFirst, LineWriters
  <2> QED BY <1>5, <2>2, <2>3, <2>4, <2>5, <2>6 DEF RfpFirst, LineWriters
<1>7. x \in Request
  <2>1. Unread \in Seen
    BY UnreadSeen
  <2>2. x.seen \in Seen /\ x.todo \in Todos
    BY <1>4, <1>5, <1>6, <2>1, ReadOf DEF RfpFirst, LineWriters, Todos
  <2>3. o \in Operation \cup {Remember} /\ 0 \in Nat
    OBVIOUS
  <2>4. x = [op |-> o, seen |-> x.seen, todo |-> x.todo, overtaken |-> 0]
    BY <1>3
  <2> QED BY <2>2, <2>3, <2>4 DEF Request
<1>8. TodoFits(x)
  BY <1>3, <1>5, <1>6 DEF TodoFits, RfpFirst, LineWriters
<1>9. Allowed(x)
  <2>1. CASE o.name = "move"
    <3>1. x.seen.rfp = rfp /\ <<rfp.stage, o.to>> \in StageMoves
      BY <1>1, <1>6, <2>1, UnreadSeen DEF RfpFirst, MayBegin, Seen
    <3> QED BY <1>3, <2>1, <3>1 DEF Allowed
  <2>2. CASE o.name \in {"createSheet", "recalculate"}
    BY <1>1, <1>3, <2>2 DEF Allowed, MayBegin
  <2>3. CASE o.name \notin {"move", "createSheet", "recalculate"}
    BY <1>3, <2>3 DEF Allowed
  <2> QED BY <2>1, <2>2, <2>3
<1>10. SawSheet(x, sheet)
  <2>1. CASE o.name \in LineWriters \cup {"request", "generate"}
    <3>1. x.seen.sheet = sheet
      BY <1>6, <2>1, UnreadSeen DEF Seen
    <3>2. 0 < sheet.ver /\ sheet.ver \in Nat
      BY <1>1, <1>4, <2>1 DEF LineWriters, MayBegin, Sheets
    <3> QED BY <3>1, <3>2 DEF SawSheet
  <2>2. CASE o.name \notin LineWriters \cup {"request", "generate"}
    BY <1>3, <2>2 DEF SawSheet
  <2> QED BY <2>1, <2>2
<1>11. SawLines(x, sheet, lines)
  <2>0. <<"lines">> # <<>> /\ <<"approval", "lines">> # <<>>
    OBVIOUS
  <2>1. o.name \in LineWriters \cup {"generate"} => x.todo # <<>>
    <3>1. CASE o.name \in LineWriters
      BY <1>6, <2>0, <3>1
    <3>2. CASE o.name = "generate"
      BY <1>6, <2>0, <3>2
    <3> QED BY <3>1, <3>2
  <2> QED BY <1>3, <2>1 DEF SawLines
<1>12. SawRfp(x, rfp)
  <2>1. CASE o.name \in RfpFirst
    <3>1. x.seen.rfp = rfp
      BY <1>6, <2>1, UnreadSeen DEF Seen
    <3>2. rfp.ver \in Nat
      BY <1>4 DEF Rfps
    <3> QED BY <3>1, <3>2 DEF SawRfp
  <2>2. CASE o.name \notin RfpFirst
    <3>1. o.name \in {"request", "decide"} => x.todo # <<>>
      BY <1>6
    <3> QED BY <1>3, <2>2, <3>1 DEF SawRfp
  <2> QED BY <2>1, <2>2
<1>13. SawApproval(x, approval)
  <2>1. CASE o.name = "decide"
    <3>1. x.seen.approval = approval
      BY <1>6, <2>1, UnreadSeen DEF Seen
    <3>2. approval.status = "pending" /\ approval.by # o.by /\ approval.ver \in Nat
      BY <1>1, <1>4, <2>1 DEF MayBegin, Approvals
    <3> QED BY <1>3, <2>1, <3>1, <3>2 DEF SawApproval
  <2>2. CASE o.name # "decide"
    <3>1. x.seen.approval.status = "none"
      BY <1>5, <1>6, <2>2, UnreadSeen DEF RfpFirst, LineWriters, Seen
    <3> QED BY <1>3, <2>2, <3>1 DEF SawApproval
  <2> QED BY <2>1, <2>2
<1>14. x.op.name # "remember"
  BY <1>3, <1>5
<1>15. RequestInv(x, rfp, sheet, lines, approval, table, proposal)
  BY <1>8, <1>9, <1>10, <1>11, <1>12, <1>13, <1>14 DEF RequestInv, Saw, Remembers
<1>16. <<x>>[1] = x /\ call' = [call EXCEPT ![c] = <<x>>]
  BY <1>1, <1>2
<1> QED BY <1>1, <1>7, <1>14, <1>15, <1>16, OneCallChanges

\* A later read finds its record as it is by then; what was read before may
\* have moved on.
LEMMA ReadStep ==
    ASSUME Inv, NEW c \in Call, Read(c)
    PROVE  GoodStep
<1>0. durable
  BY DEF Read, Busy, Inv, ModeInv
<1>1. /\ Quiet /\ call[c][1].todo # <<>> /\ call[c] # <<>>
      /\ call' = [call EXCEPT ![c] = <<AfterRead(call[c][1])>>]
  BY DEF Read, Quiet, Busy
<1>2. PICK y : y = call[c][1]
  OBVIOUS
<1>3. PICK x : x = AfterRead(y)
  OBVIOUS
<1>4. PICK r : r = Head(y.todo)
  OBVIOUS
<1>6. call' = [call EXCEPT ![c] = <<x>>]
  BY <1>1, <1>2, <1>3
<1>7. y \in Request /\ RequestInv(y, rfp, sheet, lines, approval, table, proposal) /\ y.todo # <<>>
  BY <1>1, <1>2 DEF Inv, CallOK, RequestsInv
<1>8. x.op = y.op /\ x.todo = Tail(y.todo)
  BY <1>3, <1>7 DEF Request, AfterRead
<1>19. x = [op |-> y.op, seen |-> x.seen, todo |-> x.todo, overtaken |-> y.overtaken]
  BY <1>3, <1>7 DEF Request, AfterRead
<1>18. x.seen = [y.seen EXCEPT ![r] = Now[r]]
  BY <1>3, <1>4, <1>7 DEF Request, AfterRead
<1>9. TypeOK /\ rfp \in Rfps /\ sheet \in Sheets /\ lines \in Nat /\ approval \in Approvals
  BY TypeParts DEF Inv
<1>10. /\ y.seen \in Seen /\ y.op \in Operation \cup {Remember} /\ y.todo \in Todos
       /\ y.overtaken \in Nat
  BY <1>7 DEF Request
<1>11. /\ y.op.name \in {"createProgramme", "createSheet", "addLine", "recalculate", "versionSheet",
                         "request", "decide", "generate", "move", "remember"}
  BY <1>10, OperationParts DEF Remember
<1>12. TodoFits(y) /\ Allowed(y) /\ SawSheet(y, sheet) /\ SawLines(y, sheet, lines) /\ SawRfp(y, rfp)
       /\ SawApproval(y, approval)
  BY <1>7 DEF RequestInv, Saw
<1>13. y.op.name \in LineWriters \cup {"request", "decide", "generate"}
  BY <1>7, <1>11, <1>12 DEF TodoFits, RfpFirst, LineWriters
<1>14. SUFFICES x \in Request /\ TodoFits(x) /\ Allowed(x) /\ Saw(x, rfp, sheet, lines, approval)
  <2>1. x.op.name # "remember"
    BY <1>8, <1>13 DEF LineWriters
  <2>2. RequestInv(x, rfp, sheet, lines, approval, table, proposal)
    BY <1>14, <2>1 DEF RequestInv, Remembers
  <2>3. <<x>>[1] = x
    OBVIOUS
  <2> QED BY <1>0, <1>1, <1>6, <1>14, <2>1, <2>2, <2>3, OneCallChanges
<1>15. CASE y.todo = <<"rfp">>
  <2>1. r = "rfp" /\ x.todo = <<>>
    BY <1>4, <1>8, <1>15
  <2>2. y.op.name \in {"request", "decide"}
    BY <1>12, <1>13, <1>15 DEF TodoFits, LineWriters
  <2>3. x.seen = [y.seen EXCEPT !.rfp = rfp] /\ x.seen \in Seen
    <3>1. x.seen = [y.seen EXCEPT !["rfp"] = Now["rfp"]]
      BY <1>18, <2>1
    <3>2. x.seen = [y.seen EXCEPT !.rfp = rfp]
      BY <1>9, <1>10, <3>1, ReadOf
    <3> QED BY <1>9, <1>10, <3>2, ReadOf
  <2>4. x.seen.rfp = rfp /\ x.seen.sheet = y.seen.sheet /\ x.seen.approval = y.seen.approval
    BY <1>10, <2>3 DEF Seen
  <2>5. x \in Request
    <3>1. x.todo \in Todos
      BY <2>1 DEF Todos
    <3> QED BY <1>10, <1>19, <2>3, <3>1 DEF Request
  <2>6. TodoFits(x) /\ Allowed(x)
    BY <1>8, <2>1, <2>2 DEF TodoFits, Allowed, LineWriters, RfpFirst
  <2>7. SawSheet(x, sheet) /\ SawLines(x, sheet, lines) /\ SawApproval(x, approval)
    BY <1>8, <1>12, <2>2, <2>4 DEF SawSheet, SawLines, SawApproval, LineWriters
  <2>8. SawRfp(x, rfp)
    BY <1>9, <2>4 DEF SawRfp, Rfps
  <2> QED BY <2>5, <2>6, <2>7, <2>8 DEF Saw
<1>16. CASE y.todo = <<"lines">>
  <2>1. r = "lines" /\ x.todo = <<>>
    BY <1>4, <1>8, <1>16
  <2>2. y.op.name \in LineWriters \cup {"generate"}
    BY <1>12, <1>13, <1>16 DEF TodoFits, LineWriters
  <2>3. x.seen = [y.seen EXCEPT !.lines = lines] /\ x.seen \in Seen
    <3>1. x.seen = [y.seen EXCEPT !["lines"] = Now["lines"]]
      BY <1>18, <2>1
    <3>2. x.seen = [y.seen EXCEPT !.lines = lines]
      BY <1>9, <1>10, <3>1, ReadOf
    <3> QED BY <1>9, <1>10, <3>2, ReadOf
  <2>4. /\ x.seen.lines = lines /\ x.seen.sheet = y.seen.sheet /\ x.seen.approval = y.seen.approval
        /\ x.seen.rfp = y.seen.rfp
    BY <1>10, <2>3 DEF Seen
  <2>5. x \in Request
    <3>1. x.todo \in Todos
      BY <2>1 DEF Todos
    <3> QED BY <1>10, <1>19, <2>3, <3>1 DEF Request
  <2>6. TodoFits(x) /\ Allowed(x)
    BY <1>8, <1>12, <2>1, <2>2, <2>4 DEF TodoFits, Allowed, LineWriters, RfpFirst
  <2>7. SawSheet(x, sheet) /\ SawLines(x, sheet, lines) /\ SawApproval(x, approval)
    BY <1>8, <1>12, <2>2, <2>4 DEF SawSheet, SawLines, SawApproval, LineWriters
  <2>8. SawRfp(x, rfp)
    BY <1>8, <2>2 DEF SawRfp, LineWriters, RfpFirst
  <2> QED BY <2>5, <2>6, <2>7, <2>8 DEF Saw
<1>17. CASE y.todo = <<"approval", "lines">>
  <2>1. r = "approval" /\ x.todo = <<"lines">>
    BY <1>4, <1>8, <1>17
  <2>2. y.op.name = "generate"
    BY <1>12, <1>13, <1>17 DEF TodoFits, LineWriters
  <2>3. x.seen = [y.seen EXCEPT !.approval = approval] /\ x.seen \in Seen
    <3>1. x.seen = [y.seen EXCEPT !["approval"] = Now["approval"]]
      BY <1>18, <2>1
    <3>2. x.seen = [y.seen EXCEPT !.approval = approval]
      BY <1>9, <1>10, <3>1, ReadOf
    <3> QED BY <1>9, <1>10, <3>2, ReadOf
  <2>4. x.seen.sheet = y.seen.sheet /\ x.seen.approval = approval
    BY <1>10, <2>3 DEF Seen
  <2>5. x \in Request
    <3>1. x.todo \in Todos
      BY <2>1 DEF Todos
    <3> QED BY <1>10, <1>19, <2>3, <3>1 DEF Request
  <2>6. TodoFits(x) /\ Allowed(x)
    BY <1>8, <2>1, <2>2 DEF TodoFits, Allowed, LineWriters, RfpFirst
  <2>7. SawSheet(x, sheet) /\ SawLines(x, sheet, lines)
    <3>1. x.todo # <<>>
      BY <2>1
    <3>2. x.op = y.op
      BY <1>8
    <3> QED BY <1>12, <2>4, <3>1, <3>2 DEF SawSheet, SawLines
  <2>9. SawApproval(x, approval)
    BY <1>8, <2>2, <2>4 DEF SawApproval
  <2>8. SawRfp(x, rfp)
    BY <1>8, <2>2 DEF SawRfp, RfpFirst
  <2> QED BY <2>5, <2>6, <2>7, <2>8, <2>9 DEF Saw
<1> QED BY <1>7, <1>10, <1>15, <1>16, <1>17 DEF Todos

LEMMA Overtaken ==
    ASSUME NEW q \in Request, NEW z, z = [q EXCEPT !.overtaken = @ + 1],
           NEW r, NEW s, NEW l, NEW a, NEW t, NEW p, RequestInv(q, r, s, l, a, t, p)
    PROVE  z \in Request /\ z.op = q.op /\ RequestInv(z, r, s, l, a, t, p)
<1>1. z.op = q.op /\ z.seen = q.seen /\ z.todo = q.todo
  BY DEF Request
<1>2. z \in Request
  BY DEF Request
<1>3. TodoFits(z) /\ Allowed(z) /\ Remembers(z, t, p)
  BY <1>1 DEF RequestInv, TodoFits, Allowed, Remembers
<1>4. Saw(z, r, s, l, a)
  BY <1>1 DEF RequestInv, Saw, SawSheet, SawLines, SawRfp, SawApproval
<1> QED BY <1>1, <1>2, <1>3, <1>4 DEF RequestInv

LEMMA RememberInv ==
    ASSUME NEW z, z = [op |-> Remember, seen |-> Unread, todo |-> <<>>, overtaken |-> 0],
           NEW r, NEW s, NEW l, NEW a, NEW t, NEW p, t # NoProposal, p = NoProposal
    PROVE  z \in Request /\ z.op.name = "remember" /\ RequestInv(z, r, s, l, a, t, p)
<1>1. z.op.name = "remember" /\ z.op = Remember /\ z.todo = <<>> /\ z.seen = Unread
  BY DEF Remember
<1>2. z \in Request
  <2>1. Unread \in Seen /\ Remember \in Operation \cup {Remember} /\ <<>> \in Todos
    BY UnreadSeen DEF Todos
  <2> QED BY <2>1 DEF Request
<1>3. TodoFits(z) /\ Allowed(z) /\ Remembers(z, t, p)
  BY <1>1 DEF TodoFits, Allowed, Remembers, RfpFirst, LineWriters
<1>4. z.seen.approval.status = "none"
  BY <1>1, UnreadSeen
<1>5. Saw(z, r, s, l, a)
  BY <1>1, <1>4 DEF Saw, SawSheet, SawLines, SawRfp, SawApproval, RfpFirst, LineWriters
<1> QED BY <1>1, <1>2, <1>3, <1>5 DEF RequestInv

\* A transaction commits: its checks make what was read the records themselves,
\* and what it writes outdates what others have read of them.
LEMMA FinishStep ==
    ASSUME Inv, NEW c \in Call, Finish(c)
    PROVE  GoodStep
<1>0. /\ durable /\ call[c] # <<>> /\ call[c][1].todo = <<>> /\ call[c][1].op # Remember
      /\ durable' = durable /\ booking' = booking
  BY DEF Finish, Busy, Inv, ModeInv
<1>1. PICK q : q = call[c][1]
  OBVIOUS
<1>2. q \in Request /\ RequestInv(q, rfp, sheet, lines, approval, table, proposal)
      /\ call = [d \in Call |-> call[d]]
  BY <1>0, <1>1 DEF Inv, CallOK, RequestsInv
<1>3. Ready(q)
  BY <1>0, <1>1, <1>2, RequestParts DEF Ready, RequestInv
<1>4. Handle(q.op, q.seen)
  BY <1>1 DEF Finish
<1>5. /\ Outcome
      /\ q.op.name # "generate" => table' = table /\ proposal' = proposal
      /\ q.op.name = "generate" => StoreOutcome
  BY <1>0, <1>3, <1>4, HandleOutcome DEF Inv
<1>6. /\ TypeOK' /\ SheetInv' /\ ApprovalInv' /\ ProposalInv'
      /\ RfpStep /\ DecisionStep
  BY <1>0, <1>5, RecordsKept, OutcomeSteps DEF Inv
<1>7. ModeInv' /\ proposal' = proposal
  BY <1>0, <1>5 DEF ModeInv, StoreOutcome
<1>8. BookingInv'
  BY <1>0, <1>7 DEF Inv, BookingInv, BookingIsSettled
<1>9. ASSUME NEW d \in Call, d # c, call[d] # <<>>
      PROVE  /\ call'[d] = <<call'[d][1]>> /\ call'[d][1] \in Request
             /\ call'[d][1].op = call[d][1].op
             /\ RequestInv(call'[d][1], rfp', sheet', lines', approval', table', proposal')
  <2>1. PICK y : y = call[d][1]
    OBVIOUS
  <2>2. PICK z : z = [y EXCEPT !.overtaken = @ + 1]
    OBVIOUS
  <2>3. call'[d] = <<z>>
    BY <1>9, <2>1, <2>2 DEF Finish, Busy
  <2>4. y \in Request /\ RequestInv(y, rfp, sheet, lines, approval, table, proposal)
    BY <1>9, <2>1 DEF Inv, CallOK, RequestsInv
  <2>5. Saw(y, rfp', sheet', lines', approval')
    BY <1>0, <1>5, <2>4, SawOutcome DEF Inv, RequestInv
  <2>6. Remembers(y, table', proposal')
    BY <1>5, <1>7, <2>4 DEF RequestInv, Remembers, StoreOutcome
  <2>7. RequestInv(y, rfp', sheet', lines', approval', table', proposal')
    BY <2>4, <2>5, <2>6 DEF RequestInv
  <2>8. z \in Request /\ z.op = y.op /\ RequestInv(z, rfp', sheet', lines', approval', table', proposal')
    BY <2>2, <2>4, <2>7, Overtaken
  <2> QED BY <2>1, <2>3, <2>8
<1>10. ASSUME NEW d \in Call, d # c, call[d] = <<>>
       PROVE  call'[d] = <<>>
  BY <1>10 DEF Finish, Busy
<1>11. q.op.name # "generate" => call'[c] = <<>>
  BY <1>1 DEF Finish
<1>12. ASSUME q.op.name = "generate"
       PROVE  /\ call'[c] = <<call'[c][1]>> /\ call'[c][1] \in Request
              /\ RequestInv(call'[c][1], rfp', sheet', lines', approval', table', proposal')
              /\ \A d \in Call : call[d] # <<>> => call[d][1].op.name # "remember"
  <2>1. PICK z : z = [op |-> Remember, seen |-> Unread, todo |-> <<>>, overtaken |-> 0]
    OBVIOUS
  <2>2. call'[c] = <<z>>
    BY <1>1, <1>12, <2>1 DEF Finish
  <2>3. table = NoProposal /\ table' # NoProposal /\ proposal' = NoProposal
    BY <1>0, <1>5, <1>7, <1>12 DEF StoreOutcome, Inv, ProposalInv
  <2>4. z \in Request /\ RequestInv(z, rfp', sheet', lines', approval', table', proposal')
    BY <2>1, <2>3, RememberInv
  <2>5. ASSUME NEW d \in Call, call[d] # <<>>
        PROVE  call[d][1].op.name # "remember"
    BY <2>3, <2>5 DEF Inv, RequestsInv, RequestInv, Remembers
  <2> QED BY <2>2, <2>4, <2>5
<1>13. CallOK'
  <2>1. call' = [d \in Call |-> call'[d]]
    BY DEF Finish
  <2>2. ASSUME NEW d \in Call, call'[d] # <<>>
        PROVE  call'[d] = <<call'[d][1]>> /\ call'[d][1] \in Request
    BY <1>9, <1>10, <1>11, <1>12, <2>2
  <2> QED BY <2>1, <2>2 DEF CallOK
<1>14. RequestsInv'
  <2>1. ASSUME NEW d \in Call, call'[d] # <<>>
        PROVE  RequestInv(call'[d][1], rfp', sheet', lines', approval', table', proposal')
    BY <1>9, <1>10, <1>11, <1>12, <2>1
  <2> QED BY <2>1 DEF RequestsInv
<1>15. OneRemembers'
  <2>1. ASSUME NEW d \in Call, NEW e \in Call,
               call'[d] # <<>>, call'[d][1].op.name = "remember",
               call'[e] # <<>>, call'[e][1].op.name = "remember"
        PROVE  d = e
    <3>1. CASE q.op.name = "generate"
      <4>1. \A f \in Call : f # c => ~(call'[f] # <<>> /\ call'[f][1].op.name = "remember")
        BY <1>9, <1>10, <1>12, <3>1
      <4> QED BY <2>1, <4>1
    <3>2. CASE q.op.name # "generate"
      <4>1. d # c /\ e # c
        BY <1>11, <2>1, <3>2
      <4>2. /\ call[d] # <<>> /\ call[d][1].op.name = "remember"
            /\ call[e] # <<>> /\ call[e][1].op.name = "remember"
        BY <1>9, <1>10, <2>1, <4>1
      <4> QED BY <4>2 DEF Inv, OneRemembers
    <3> QED BY <3>1, <3>2
  <2> QED BY <2>1 DEF OneRemembers
<1> QED BY <1>6, <1>7, <1>8, <1>13, <1>14, <1>15 DEF GoodStep, Inv

LEMMA GiveUpStep ==
    ASSUME Inv, NEW c \in Call, GiveUp(c)
    PROVE  GoodStep
<1>1. durable /\ Quiet /\ call' = [call EXCEPT ![c] = <<>>]
  BY DEF GiveUp, Quiet, Busy, Inv, ModeInv
<1> QED BY <1>1, OneCallChanges

\* generateProposal resumes: nobody has touched memory's copy meanwhile.
LEMMA RememberProposalStep ==
    ASSUME Inv, NEW c \in Call, RememberProposal(c)
    PROVE  GoodStep
<1>0. /\ durable /\ call[c] # <<>> /\ call[c][1].op.name = "remember"
      /\ proposal' = table /\ call' = [call EXCEPT ![c] = <<>>]
      /\ UNCHANGED <<durable, rfp, programme, sheet, lines, approval, table, booking>>
  BY DEF RememberProposal, Busy, Remember, Inv, ModeInv
<1>1. table # NoProposal /\ proposal = NoProposal
  BY <1>0 DEF Inv, RequestsInv, RequestInv, Remembers
<1>2. call = [d \in Call |-> call[d]]
  BY DEF Inv, CallOK
<1>3. call'[c] = <<>> /\ \A d \in Call : d # c => call'[d] = call[d]
  BY <1>0, <1>2
<1>4. TypeOK' /\ SheetInv' /\ ApprovalInv' /\ RfpStep /\ DecisionStep
  BY <1>0 DEF Inv, TypeOK, SheetInv, FloorKept, ApprovalInv, RfpStep, DecisionStep
<1>5. ProposalInv'
  BY <1>0, <1>1 DEF Inv, ProposalInv, ProposalIsApproved
<1>6. BookingInv'
  <2>1. booking = NoBooking
    BY <1>1 DEF Inv, BookingInv, BookingIsSettled, NoProposal
  <2> QED BY <1>0, <2>1 DEF BookingInv, BookingIsSettled
<1>7. CallOK'
  <2>1. call' = [d \in Call |-> call'[d]]
    BY <1>0, <1>2
  <2>2. ASSUME NEW d \in Call, call'[d] # <<>>
        PROVE  call'[d] = <<call'[d][1]>> /\ call'[d][1] \in Request
    BY <1>3, <2>2 DEF Inv, CallOK
  <2> QED BY <2>1, <2>2 DEF CallOK
<1>8. RequestsInv'
  <2>1. ASSUME NEW d \in Call, call'[d] # <<>>
        PROVE  RequestInv(call'[d][1], rfp, sheet, lines, approval, table, proposal')
    <3>1. d # c /\ call'[d] = call[d] /\ call[d] # <<>>
      BY <1>3, <2>1
    <3>2. RequestInv(call[d][1], rfp, sheet, lines, approval, table, proposal)
      BY <3>1 DEF Inv, RequestsInv
    <3>3. call[d][1].op.name # "remember"
      BY <1>0, <3>1 DEF Inv, OneRemembers
    <3> QED BY <3>1, <3>2, <3>3 DEF RequestInv, Remembers
  <2> QED BY <1>0, <2>1 DEF RequestsInv
<1>9. OneRemembers'
  BY <1>3 DEF Inv, OneRemembers
<1>10. ModeInv'
  BY <1>0 DEF ModeInv
<1> QED BY <1>4, <1>5, <1>6, <1>7, <1>8, <1>9, <1>10 DEF GoodStep, Inv

\* In memory a handler reads the records themselves.
LEMMA ReadNow ==
    ASSUME Inv, NEW o \in Operation, MayBegin(o), ~durable, NEW q,
           q = [op |-> o, seen |-> Now, todo |-> <<>>, overtaken |-> 0]
    PROVE  Ready(q)
<1>0. q.op = o /\ q.seen = Now /\ q.todo = <<>>
  OBVIOUS
<1>1. /\ TypeOK /\ rfp \in Rfps /\ sheet \in Sheets /\ lines \in Nat /\ approval \in Approvals
  BY TypeParts DEF Inv
<1>2. Now \in Seen /\ Now.rfp = rfp /\ Now.sheet = sheet /\ Now.lines = lines /\ Now.approval = approval
  BY <1>1 DEF Now, Seen
<1>3. q \in Request
  BY <1>2 DEF Request, Todos
<1>4. /\ o.name \in {"createProgramme", "createSheet", "addLine", "recalculate", "versionSheet",
                     "request", "decide", "generate", "move"}
  BY OperationParts
<1>5. TodoFits(q)
  BY <1>0, <1>4 DEF TodoFits, RfpFirst, LineWriters
<1>6. Allowed(q)
  BY <1>0, <1>2 DEF Allowed, MayBegin
<1>7. SawSheet(q, sheet)
  <2>1. o.name \in LineWriters \cup {"request", "generate"} => 0 < sheet.ver
    BY <1>1 DEF LineWriters, MayBegin, Sheets
  <2> QED BY <1>0, <1>1, <1>2, <2>1 DEF SawSheet, Sheets
<1>8. SawLines(q, sheet, lines) /\ SawRfp(q, rfp)
  BY <1>0, <1>1, <1>2 DEF SawLines, SawRfp, Rfps
<1>9. SawApproval(q, approval)
  <2>1. o.name = "decide" => approval.status = "pending" /\ approval.by # o.by
    BY DEF MayBegin
  <2> QED BY <1>0, <1>1, <1>2, <2>1 DEF SawApproval, Approvals
<1> QED BY <1>0, <1>2, <1>3, <1>5, <1>6, <1>7, <1>8, <1>9 DEF Ready, Saw

\* In memory mode nobody is in progress.
LEMMA NobodyAtWork ==
    ASSUME Inv, ~durable, durable' = durable, call' = call, table' = NoProposal
    PROVE  CallOK' /\ ModeInv' /\ RequestsInv' /\ OneRemembers'
<1>1. call' = [d \in Call |-> call'[d]] /\ \A d \in Call : call'[d] = <<>>
  BY DEF Inv, ModeInv, CallOK
<1> QED BY <1>1 DEF CallOK, ModeInv, RequestsInv, OneRemembers

LEMMA ClosedForGood ==
    ASSUME TypeOK, RfpOutcome, rfp.stage = "closed"
    PROVE  rfp'.stage = "closed"
BY DEF RfpOutcome, StageMoves

LEMMA HandleInMemoryStep ==
    ASSUME Inv, NEW o \in Operation, HandleInMemory(o)
    PROVE  GoodStep
<1>0. /\ ~durable /\ MayBegin(o) /\ Handle(o, Now)
      /\ durable' = durable /\ booking' = booking /\ call' = call
  BY DEF HandleInMemory
<1>1. PICK q : q = [op |-> o, seen |-> Now, todo |-> <<>>, overtaken |-> 0]
  OBVIOUS
<1>2. q.op = o /\ q.seen = Now /\ Ready(q)
  BY <1>0, <1>1, ReadNow
<1>3. Outcome /\ (o.name # "generate" => proposal' = proposal)
  BY <1>0, <1>2, HandleOutcome DEF Inv
<1>4. /\ TypeOK' /\ SheetInv' /\ ApprovalInv' /\ ProposalInv' /\ RfpStep /\ DecisionStep
      /\ table' = NoProposal
  BY <1>0, <1>3, RecordsKept, OutcomeSteps DEF Inv
<1>5. BookingInv'
  <2>1. SUFFICES ASSUME booking # NoBooking
                 PROVE  rfp'.stage = "closed" /\ proposal' = proposal
    BY <1>0 DEF Inv, BookingInv, BookingIsSettled
  <2>2. rfp.stage = "closed" /\ proposal.status = "accepted"
    BY <1>0, <2>1 DEF Inv, BookingInv, BookingIsSettled
  <2>3. o.name # "generate"
    <3>1. o.name = "generate" => proposal = NoProposal
      BY <1>0 DEF MayBegin
    <3> QED BY <2>2, <3>1 DEF NoProposal
  <2> QED BY <1>3, <2>2, <2>3, ClosedForGood DEF Inv, Outcome
<1>6. CallOK' /\ ModeInv' /\ RequestsInv' /\ OneRemembers'
  BY <1>0, <1>4, NobodyAtWork
<1> QED BY <1>4, <1>5, <1>6 DEF GoodStep, Inv

\* Sending, accepting and rejecting keep the price and leave booked proposals
\* alone, for those are accepted.
LEMMA TransitionProposalStep ==
    ASSUME Inv, NEW to \in {"sent", "accepted", "rejected"}, TransitionProposal(to)
    PROVE  GoodStep
<1>0. /\ <<proposal.status, to>> \in ProposalMoves
      /\ proposal' = [proposal EXCEPT !.status = to]
      /\ UNCHANGED <<durable, programme, sheet, lines, approval, table, booking, call>>
      /\ durable => rfp' = rfp
  BY DEF TransitionProposal, Inv, TypeOK
<1>1. /\ rfp \in Rfps /\ proposal \in ProposalType /\ TypeOK
  BY TypeParts DEF Inv
<1>2. proposal.status # "accepted" /\ proposal # NoProposal
  BY <1>0 DEF ProposalMoves, NoProposal
<1>3. /\ proposal' \in ProposalType /\ proposal'.price = proposal.price
      /\ proposal'.cost = proposal.cost
  BY <1>0, <1>1 DEF ProposalType
<1>4. booking = NoBooking
  BY <1>2 DEF Inv, BookingInv, BookingIsSettled
<1>5. rfp' \in Rfps /\ RfpStep
  <2>1. CASE rfp' = rfp
    BY <1>1, <2>1 DEF RfpStep
  <2>2. CASE rfp' # rfp
    <3>1. AdvanceRfp(rfp, "proposal", "sent") /\ rfp.stage = "proposal"
      BY <2>2 DEF TransitionProposal, AdvanceRfp
    <3>2. rfp' = [stage |-> "sent", ver |-> rfp.ver + 1]
      BY <3>1 DEF AdvanceRfp, WriteRfp
    <3>3. rfp' \in Rfps /\ rfp'.ver = rfp.ver + 1 /\ rfp'.stage = "sent"
      BY <1>1, <3>2 DEF Rfps, Stages
    <3>4. <<rfp.stage, rfp'.stage>> \in StageMoves
      BY <3>1, <3>3 DEF StageMoves
    <3> QED BY <3>3, <3>4 DEF RfpStep
  <2> QED BY <2>1, <2>2
<1>6. TypeOK'
  BY <1>0, <1>1, <1>3, <1>5 DEF TypeOK, Rfps
<1>7. SheetInv' /\ ApprovalInv' /\ DecisionStep
  BY <1>0 DEF Inv, SheetInv, FloorKept, ApprovalInv, DecisionStep
<1>8. ProposalInv'
  BY <1>0, <1>2, <1>3 DEF Inv, ProposalInv, ProposalIsApproved
<1>9. BookingInv'
  BY <1>0, <1>4 DEF BookingInv, BookingIsSettled
<1>10. CallOK' /\ OneRemembers' /\ ModeInv'
  BY <1>0 DEF Inv, CallOK, OneRemembers, ModeInv
<1>11. RequestsInv'
  <2>1. ASSUME NEW d \in Call, call[d] # <<>>
        PROVE  RequestInv(call[d][1], rfp', sheet, lines, approval, table, proposal')
    <3>1. durable
      BY <2>1 DEF Inv, ModeInv
    <3>2. RequestInv(call[d][1], rfp, sheet, lines, approval, table, proposal)
      BY <2>1 DEF Inv, RequestsInv
    <3> QED BY <1>0, <1>2, <3>1, <3>2 DEF RequestInv, Remembers
  <2> QED BY <1>0, <2>1 DEF RequestsInv
<1> QED BY <1>5, <1>6, <1>7, <1>8, <1>9, <1>10, <1>11 DEF GoodStep, Inv

LEMMA CreateBookingStep ==
    ASSUME Inv, CreateBooking
    PROVE  GoodStep
<1>0. /\ proposal.status = "accepted" /\ booking = NoBooking
      /\ booking' = [status |-> "confirmed", price |-> proposal.price, done |-> {}]
      /\ UNCHANGED <<durable, programme, sheet, lines, approval, table, proposal, call>>
      /\ durable => rfp' = rfp
      /\ ~durable => rfp'.stage = "closed"
      /\ rfp' = rfp \/ rfp' = [stage |-> "closed", ver |-> rfp.ver + 1]
  BY DEF CreateBooking
<1>1. rfp \in Rfps /\ proposal \in ProposalType /\ TypeOK
  BY TypeParts DEF Inv
<1>2. /\ booking' \in Bookings /\ booking' # NoBooking /\ booking'.status = "confirmed"
      /\ booking'.done # Task /\ booking'.price = proposal.price
  <2>1. booking'.status = "confirmed" /\ booking'.done = {} /\ booking'.price = proposal.price
    BY <1>0
  <2>2. booking' \in Bookings
    BY <1>0, <1>1 DEF Bookings, ProposalType
  <2> QED BY <2>1, <2>2, SpineAssumption DEF NoBooking
<1>3. rfp' \in Rfps /\ RfpStep
  BY <1>0, <1>1, <1>2 DEF RfpStep, Rfps, Stages
<1>4. TypeOK'
  BY <1>0, <1>1, <1>2, <1>3 DEF TypeOK, Rfps, Bookings
<1>5. SheetInv' /\ ApprovalInv' /\ ProposalInv' /\ DecisionStep
  BY <1>0 DEF Inv, SheetInv, FloorKept, ApprovalInv, ProposalInv, ProposalIsApproved, DecisionStep
<1>6. BookingInv'
  BY <1>0, <1>2 DEF BookingInv, BookingIsSettled
<1>7. CallOK' /\ OneRemembers' /\ ModeInv'
  BY <1>0 DEF Inv, CallOK, OneRemembers, ModeInv
<1>8. RequestsInv'
  <2>1. ASSUME NEW d \in Call, call[d] # <<>>
        PROVE  RequestInv(call[d][1], rfp', sheet, lines, approval, table, proposal)
    <3>1. durable
      BY <2>1 DEF Inv, ModeInv
    <3> QED BY <1>0, <2>1, <3>1 DEF Inv, RequestsInv
  <2> QED BY <1>0, <2>1 DEF RequestsInv
<1> QED BY <1>3, <1>4, <1>5, <1>6, <1>7, <1>8 DEF GoodStep, Inv

LEMMA CompleteHandoverTaskStep ==
    ASSUME Inv, NEW t \in Task, CompleteHandoverTask(t)
    PROVE  GoodStep
<1>0. /\ booking # NoBooking
      /\ booking' = [booking EXCEPT !.done = @ \cup {t}, !.status = HandoverStatus(booking.done \cup {t})]
      /\ UNCHANGED <<durable, rfp, programme, sheet, lines, approval, table, proposal, call>>
  BY DEF CompleteHandoverTask
<1>1. booking \in Bookings
  BY TypeParts DEF Inv
<1> DEFINE done == booking.done \cup {t}
<1>2. done \in SUBSET Task /\ done # {}
  BY <1>1 DEF Bookings
<1>3. HandoverStatus(done) = IF done = Task THEN "handed_over" ELSE "handover_pending"
  BY <1>2 DEF HandoverStatus
<1>4. booking'.done = done /\ booking'.status = HandoverStatus(done) /\ booking'.price = booking.price
  BY <1>0, <1>1 DEF Bookings
<1>5. booking' \in Bookings
  <2>1. HandoverStatus(done) \in {"none", "confirmed", "handover_pending", "handed_over"}
    BY <1>3
  <2> HIDE DEF done
  <2>2. booking' = [booking EXCEPT !.done = done, !.status = HandoverStatus(done)]
    BY <1>0, <1>1 DEF Bookings, done
  <2> QED BY <1>1, <1>2, <2>1, <2>2 DEF Bookings
<1> HIDE DEF done
<1>6. BookingInv'
  BY <1>0, <1>3, <1>4 DEF Inv, BookingInv, BookingIsSettled
<1>7. TypeOK'
  BY <1>0, <1>5 DEF Inv, TypeOK, Bookings
<1>8. SheetInv' /\ ApprovalInv' /\ ProposalInv' /\ RfpStep /\ DecisionStep
  BY <1>0 DEF Inv, SheetInv, FloorKept, ApprovalInv, ProposalInv, ProposalIsApproved, RfpStep, DecisionStep
<1>9. CallOK' /\ OneRemembers' /\ ModeInv' /\ RequestsInv'
  BY <1>0 DEF Inv, CallOK, OneRemembers, ModeInv, RequestsInv
<1> QED BY <1>6, <1>7, <1>8, <1>9 DEF GoodStep, Inv

LEMMA CrashStep ==
    ASSUME Inv, Crash
    PROVE  GoodStep
<1>0. /\ durable /\ proposal' = NoProposal /\ booking' = NoBooking
      /\ call' = [c \in Call |-> <<>>]
      /\ UNCHANGED <<durable, rfp, programme, sheet, lines, approval, table>>
  BY DEF Crash
<1>1. NoBooking \in Bookings /\ NoProposal \in ProposalType
  BY EmptyTypes DEF NoBooking, Bookings
<1>2. TypeOK'
  BY <1>0, <1>1 DEF Inv, TypeOK, Bookings
<1>3. SheetInv' /\ ApprovalInv' /\ ProposalInv' /\ RfpStep /\ DecisionStep
  BY <1>0 DEF Inv, SheetInv, FloorKept, ApprovalInv, ProposalInv, ProposalIsApproved, RfpStep, DecisionStep
<1>4. BookingInv'
  BY <1>0 DEF BookingInv, BookingIsSettled
<1>5. CallOK' /\ OneRemembers' /\ ModeInv' /\ RequestsInv'
  BY <1>0 DEF CallOK, OneRemembers, ModeInv, RequestsInv
<1> QED BY <1>2, <1>3, <1>4, <1>5 DEF GoodStep, Inv

-----------------------------------------------------------------------------
(* Invariance.                                                             *)

LEMMA InitInv ==
    ASSUME Init
    PROVE  Inv
<1>1. TypeOK
  <2>1. /\ rfp \in Rfps /\ sheet \in Sheets /\ approval \in Approvals /\ table \in ProposalType
        /\ proposal \in ProposalType
    BY EmptyTypes DEF Init, Rfps, Stages
  <2>2. booking \in Bookings
    BY DEF Init, NoBooking, Bookings
  <2> QED BY <2>1, <2>2, TypeParts DEF Init
<1>2. SheetInv
  BY DEF Init, SheetInv, FloorKept, NoSheet
<1>3. ApprovalInv /\ ProposalInv /\ BookingInv
  BY DEF Init, ApprovalInv, ProposalInv, ProposalIsApproved, BookingInv, BookingIsSettled
<1>4. CallOK /\ ModeInv /\ OneRemembers /\ RequestsInv
  BY DEF Init, CallOK, ModeInv, OneRemembers, RequestsInv
<1> QED BY <1>1, <1>2, <1>3, <1>4 DEF Inv

LEMMA NextGood ==
    ASSUME Inv, [Next]_vars
    PROVE  GoodStep
<1>1. ASSUME UNCHANGED vars PROVE GoodStep
  <2>1. Quiet /\ call' = call
    BY <1>1 DEF vars, Quiet
  <2>2. CallOK' /\ ModeInv' /\ OneRemembers' /\ RequestsInv'
    BY <2>1 DEF Inv, Quiet, CallOK, ModeInv, OneRemembers, RequestsInv
  <2> QED BY <2>1, <2>2, QuietKeeps DEF GoodStep, Inv
<1>2. CASE \E o \in Operation : HandleInMemory(o)
  BY <1>2, HandleInMemoryStep
<1>3. CASE \E c \in Call, o \in Operation : Begin(c, o)
  BY <1>3, BeginStep
<1>4. CASE \E c \in Call : Read(c)
  BY <1>4, ReadStep
<1>5. CASE \E c \in Call : Finish(c)
  BY <1>5, FinishStep
<1>6. CASE \E c \in Call : RememberProposal(c)
  BY <1>6, RememberProposalStep
<1>7. CASE \E c \in Call : GiveUp(c)
  BY <1>7, GiveUpStep
<1>8. CASE \E to \in {"sent", "accepted", "rejected"} : TransitionProposal(to)
  BY <1>8, TransitionProposalStep
<1>9. CASE CreateBooking
  BY <1>9, CreateBookingStep
<1>10. CASE \E t \in Task : CompleteHandoverTask(t)
  BY <1>10, CompleteHandoverTaskStep
<1>11. CASE Crash
  BY <1>11, CrashStep
<1> QED BY <1>1, <1>2, <1>3, <1>4, <1>5, <1>6, <1>7, <1>8, <1>9, <1>10, <1>11 DEF Next

\* However requests overlap, what they have read is the record or older than it,
\* and the records agree with one another as Inv says.
THEOREM Invariance == Spec => []Inv
<1>1. Init => Inv
  BY InitInv
<1>2. Inv /\ [Next]_vars => Inv'
  BY NextGood DEF GoodStep
<1> QED BY <1>1, <1>2, PTL DEF Spec

\* Every record of the chain keeps its type through all ten kinds of request.
THEOREM TypeCorrect == Spec => []TypeOK
<1>1. Inv => TypeOK
  BY DEF Inv
<1> QED BY <1>1, Invariance, PTL

\* addCostLineItem, recalculateCostSheet and createCostSheetVersion write totals
\* computed from what they read; the stored sheet still has the totals of its
\* stored lines and sells below the margin floor only by leave of a director.
THEOREM FloorIsKept == Spec => []FloorKept
<1>1. Inv => FloorKept
  BY DEF Inv, SheetInv
<1> QED BY <1>1, Invariance, PTL

\* generateProposal stores a proposal only on an approved request, at the
\* approved margin if it was composed from the sheet that was approved and that
\* sheet is still the sheet, and memory's copy shows the stored price.
THEOREM ProposalsAreApproved == Spec => []ProposalIsApproved
<1>1. Inv => ProposalIsApproved
  BY DEF Inv, ProposalInv
<1> QED BY <1>1, Invariance, PTL

\* createBooking books an accepted proposal at its price, and nothing that
\* follows takes either back; the booking is handed over exactly when its
\* checklist is done.
THEOREM BookingsAreSettled == Spec => []BookingIsSettled
<1>1. Inv => BookingIsSettled
  BY DEF Inv, BookingInv
<1> QED BY <1>1, Invariance, PTL

\* updateRfpOptimistic writes the RFP only at the version that was read, so no
\* overlap takes it along an edge the workflow table does not have.
THEOREM RfpMovesAlongTable == Spec => MovesAlongTable
<1>1. Inv /\ [Next]_vars =>
        [rfp' # rfp =>
          /\ rfp'.ver = rfp.ver + 1
          /\ \/ rfp'.stage = rfp.stage \/ <<rfp.stage, rfp'.stage>> \in StageMoves
             \/ booking = NoBooking /\ booking' # NoBooking /\ rfp'.stage = "closed"]_vars
  BY NextGood DEF GoodStep, RfpStep
<1> QED BY <1>1, Invariance, PTL DEF MovesAlongTable, Spec

\* decideCommercialApproval decides a pending request once, in the name of
\* somebody who did not ask for it, and nothing changes it afterwards.
THEOREM RequestsDecidedOnce == Spec => DecidedOnceByAnother
<1>1. Inv /\ [Next]_vars =>
        [approval # NoApproval /\ approval' # approval =>
          /\ approval.status = "pending"
          /\ approval'.decider \in Principal \ {approval.by}
          /\ approval'.by = approval.by /\ approval'.margin = approval.margin]_vars
  BY NextGood DEF GoodStep, DecisionStep
<1> QED BY <1>1, Invariance, PTL DEF DecidedOnceByAnother, Spec

=============================================================================
