-------------------------- MODULE CommercialSpine --------------------------
(***************************************************************************)
(* From the request for proposal of one client to its booking: programme,  *)
(* cost sheet, commercial approval, proposal, handover.  The handlers read *)
(* the records they need one await after the other, change their copies    *)
(* and write them back.  With PostgreSQL (isMixedSqlDurable) the write is  *)
(* one transaction that refuses a stale version or a second row of the     *)
(* same code; proposals' statuses and bookings live in memory all the      *)
(* same.  Without it every record is the live one, all awaits are already  *)
(* resolved, and a handler runs undisturbed.  (The bounded persistence of  *)
(* preview Path B, a third mode, is not modelled.)                         *)
(*                                                                         *)
(* Each RFP has at most one programme, one sheet, one approval request and *)
(* one proposal: their codes derive from one another and are unique.       *)
(***************************************************************************)
EXTENDS Integers, Sequences

CONSTANTS
    Call,        \* requests the process may have in progress at once
    Principal,   \* principals of the tenant
    Director,    \* those who may authorise an exception to the margin floor
    Price,       \* selling prices a sheet may be given
    LineCost,    \* what a cost line may amount to
    Task,        \* the handover checklist
    Fee,         \* the file fee of a price that follows its cost
    Floor,       \* the approved margin floor, in percent
    MaxCost,     \* bound on the sum of the lines
    MaxSheet,    \* bound on the version of the sheet
    MaxRfp,      \* bound on the version of the RFP
    MaxOvertaken \* bound on the requests that commit while another is under way

ASSUME SpineAssumption ==
    /\ Director \subseteq Principal
    /\ Price \subseteq Nat \ {0} /\ LineCost \subseteq Nat \ {0}
    /\ Fee \in Nat /\ Floor \in Nat
    /\ Task # {}
    /\ MaxCost \in Nat /\ MaxSheet \in Nat /\ MaxRfp \in Nat /\ MaxOvertaken \in Nat

VARIABLES
    durable,   \* isMixedSqlDurable(store)
    rfp,       \* stage and version of the RFP
    programme, \* whether it has a programme
    sheet,     \* its cost sheet; version 0: none
    lines,     \* the sum of the sheet's lines
    approval,  \* its approval request
    table,     \* its row of prop_proposals
    proposal,  \* its proposal in store.propProposals
    booking,   \* its booking in store.bkgBookings and the tasks done
    call       \* requests in progress: the operation, what it has read, what it has yet to read

vars == <<durable, rfp, programme, sheet, lines, approval, table, proposal, booking, call>>

Nobody == "nobody"

\* RFP_WORKFLOW_TRANSITIONS
Stages == {"intake", "programme", "costing", "approval", "proposal", "sent", "closed"}

StageMoves ==
    {<<"intake", "programme">>, <<"intake", "closed">>,
     <<"programme", "costing">>, <<"programme", "intake">>,
     <<"costing", "approval">>, <<"costing", "programme">>,
     <<"approval", "proposal">>, <<"approval", "costing">>,
     <<"proposal", "sent">>, <<"proposal", "approval">>,
     <<"sent", "closed">>, <<"sent", "proposal">>}

\* canTransitionProposalStatus for the statuses a proposal ever has
ProposalMoves ==
    {<<"approved", "sent">>, <<"approved", "accepted">>, <<"approved", "rejected">>,
     <<"sent", "accepted">>, <<"sent", "rejected">>}

-----------------------------------------------------------------------------
(* Prices.  Without a price of its own (0) a sheet sells at cost plus a     *)
(* markup of 25 percent plus the fee; with one, exactly at it.  Taxes and   *)
(* other markups would move the price in the same way and are left out.     *)

ClientPrice(sell, cost) == IF sell = 0 THEN cost + cost \div 4 + Fee ELSE sell

MarginPercent(price, cost) == IF price > 0 THEN ((price - cost) * 100) \div price ELSE 0

MeetsFloor(sell, cost) == MarginPercent(ClientPrice(sell, cost), cost) >= Floor

NoSheet == [ver |-> 0, sell |-> 0, cost |-> 0, exception |-> Nobody]

NoApproval == [status |-> "none", ver |-> 0, by |-> Nobody, decider |-> Nobody,
               margin |-> 0, sheetVer |-> 0]

NoProposal == [status |-> "none", price |-> 0, cost |-> 0, sheetVer |-> 0]

NoBooking == [status |-> "none", price |-> 0, done |-> {}]

\* belowFloorError: an empty sheet, a margin that meets the floor or an
\* exception on record.
Sellable(s) == s.cost = 0 \/ MeetsFloor(s.sell, s.cost) \/ s.exception # Nobody

Init ==
    /\ durable \in BOOLEAN
    /\ rfp = [stage |-> "intake", ver |-> 1]
    /\ programme = FALSE
    /\ sheet = NoSheet
    /\ lines = 0
    /\ approval = NoApproval
    /\ table = NoProposal
    /\ proposal = NoProposal
    /\ booking = NoBooking
    /\ call = [c \in Call |-> <<>>]

-----------------------------------------------------------------------------
(* Operations and what they read, in the order of their awaits.            *)

Now == [rfp |-> rfp, sheet |-> sheet, lines |-> lines, approval |-> approval]

Unread == [rfp |-> [stage |-> "intake", ver |-> 0], sheet |-> NoSheet, lines |-> 0,
           approval |-> NoApproval]

\* A margin-floor exception is given by a principal, or not at all.
Exceptions == {Nobody} \cup Principal

Operation ==
    [name : {"createProgramme", "versionSheet", "generate"}]
    \cup [name : {"createSheet"}, sell : Price \cup {0}, cost : LineCost \cup {0},
          exception : Exceptions]
    \cup [name : {"addLine"}, cost : LineCost]
    \cup [name : {"recalculate"}, sell : Price, exception : Exceptions]
    \cup [name : {"request"}, by : Principal]
    \cup [name : {"decide"}, by : Principal, outcome : {"approved", "rejected"}]
    \cup [name : {"move"}, to : Stages]

Reads(o) ==
    CASE o.name \in {"createProgramme", "createSheet", "move"} -> <<"rfp">>
      [] o.name \in {"addLine", "recalculate", "versionSheet"} -> <<"sheet", "lines">>
      [] o.name = "request" -> <<"sheet", "rfp">>
      [] o.name = "decide" -> <<"approval", "rfp">>
      [] o.name = "generate" -> <<"sheet", "approval", "lines">>

\* What the operation's first reads must show, or it is refused there and then.
MayBegin(o) ==
    CASE o.name = "createProgramme" -> ~programme
      [] o.name = "createSheet" -> programme /\ sheet.ver = 0 /\ o.exception \in Director \cup {Nobody}
      [] o.name = "addLine" -> sheet.ver > 0
      [] o.name = "recalculate" -> sheet.ver > 0 /\ o.exception \in Director \cup {Nobody}
      [] o.name = "versionSheet" -> sheet.ver > 0
      [] o.name = "request" -> approval = NoApproval /\ sheet.ver > 0 /\ MeetsFloor(sheet.sell, sheet.cost)
      [] o.name = "decide" -> approval.status = "pending" /\ approval.by # o.by
      [] o.name = "generate" -> programme /\ sheet.ver > 0 /\ table = NoProposal /\ proposal = NoProposal
      [] o.name = "move" -> <<rfp.stage, o.to>> \in StageMoves

\* The bounds: no request starts that could only run against one of them.
WithinBounds(o) ==
    /\ o.name \in {"addLine", "recalculate", "versionSheet"} => sheet.ver < MaxSheet
    /\ o.name = "addLine" => lines + o.cost <= MaxCost
    /\ o.name = "move" => rfp.ver < MaxRfp

-----------------------------------------------------------------------------
(* What a handler does once it has read s: with PostgreSQL its transaction, *)
(* whose version and uniqueness checks are the conjuncts on the records as  *)
(* they are now; in memory, where s is what the records are, its changes.   *)

\* Mutations of WriteRfp and WriteSheet: the version is not checked.
WriteRfpBlindly(old, stage) == rfp' = [stage |-> stage, ver |-> old.ver + 1]

WriteSheetBlindly(old, new) == sheet' = [new EXCEPT !.ver = old.ver + 1]

\* updateRfpOptimistic
WriteRfp(old, stage) ==
    /\ rfp.ver = old.ver /\ old.ver < MaxRfp
    /\ rfp' = [stage |-> stage, ver |-> old.ver + 1]

\* persistRfpStageAdvanceInTx, called when the RFP was seen in the stage `from`.
AdvanceRfp(old, from, to) == IF old.stage = from THEN WriteRfp(old, to) ELSE UNCHANGED rfp

\* updateCostSheetOptimistic
WriteSheet(old, new) ==
    /\ sheet.ver = old.ver /\ old.ver < MaxSheet
    /\ sheet' = [new EXCEPT !.ver = old.ver + 1]

\* In memory the copy is the live record: a change that is then rejected stays.
\* With PostgreSQL the rejected copy is dropped.
RejectSheet(new) == ~durable /\ sheet' = new

CreateProgramme(s) ==
    /\ ~programme
    /\ programme' = TRUE
    /\ AdvanceRfp(s.rfp, "intake", "programme")
    /\ UNCHANGED <<sheet, lines, approval, table, proposal>>

CreateCostSheet(o, s) ==
    LET new == [ver |-> 1, sell |-> o.sell, cost |-> o.cost, exception |-> o.exception]
    IN  /\ sheet.ver = 0 /\ Sellable(new)
        /\ sheet' = new
        /\ lines' = o.cost
        /\ AdvanceRfp(s.rfp, "programme", "costing")
        /\ UNCHANGED <<programme, approval, table, proposal>>

\* addCostLineItem: the totals are those of the lines read plus the new one.
AddCostLineItem(o, s) ==
    LET new == [s.sheet EXCEPT !.cost = s.lines + o.cost]
    IN  /\ IF Sellable(new)
           THEN WriteSheet(s.sheet, new) /\ lines' = lines + o.cost
           ELSE RejectSheet(new) /\ UNCHANGED lines
        /\ UNCHANGED <<rfp, programme, approval, table, proposal>>

RecalculateCostSheet(o, s) ==
    LET new == [s.sheet EXCEPT !.sell = o.sell, !.cost = s.lines,
                  !.exception = IF o.exception = Nobody THEN @ ELSE o.exception]
    IN  /\ IF Sellable(new) THEN WriteSheet(s.sheet, new) ELSE RejectSheet(new)
        /\ UNCHANGED <<rfp, programme, lines, approval, table, proposal>>

\* createCostSheetVersion applies the totals too.
CreateCostSheetVersion(s) ==
    /\ WriteSheet(s.sheet, [s.sheet EXCEPT !.cost = s.lines])
    /\ UNCHANGED <<rfp, programme, lines, approval, table, proposal>>

\* Mutation of RequestCommercialApproval: the request is open instead of pending.
RequestOpen(o, s) ==
    /\ approval = NoApproval
    /\ approval' = [status |-> "open", ver |-> 1, by |-> o.by, decider |-> Nobody,
                    margin |-> 0, sheetVer |-> s.sheet.ver]
    /\ AdvanceRfp(s.rfp, "costing", "approval")
    /\ UNCHANGED <<programme, sheet, lines, table, proposal>>

\* The request keeps the margin of the sheet it was made on, which may have
\* changed since it was read.  (sheetVer is kept for the properties.)
RequestCommercialApproval(o, s) ==
    /\ approval = NoApproval
    /\ approval' = [status |-> "pending", ver |-> 1, by |-> o.by, decider |-> Nobody,
                    margin |-> MarginPercent(ClientPrice(s.sheet.sell, s.sheet.cost), s.sheet.cost),
                    sheetVer |-> s.sheet.ver]
    /\ AdvanceRfp(s.rfp, "costing", "approval")
    /\ UNCHANGED <<programme, sheet, lines, table, proposal>>

Decision(o, s) == [s.approval EXCEPT !.status = o.outcome, !.decider = o.by, !.ver = @ + 1]

\* Mutation of DecideCommercialApproval: updateApproval without a version.
DecideBlindly(o, s) ==
    /\ approval' = Decision(o, s)
    /\ IF o.outcome = "approved" THEN AdvanceRfp(s.rfp, "approval", "proposal") ELSE UNCHANGED rfp
    /\ UNCHANGED <<programme, sheet, lines, table, proposal>>

DecideCommercialApproval(o, s) ==
    /\ approval.ver = s.approval.ver
    /\ approval' = Decision(o, s)
    /\ IF o.outcome = "approved" THEN AdvanceRfp(s.rfp, "approval", "proposal") ELSE UNCHANGED rfp
    /\ UNCHANGED <<programme, sheet, lines, table, proposal>>

\* The proposal composed from the sheet and the lines as they were read, one
\* after the other.  (sheetVer is kept for the properties.)
Composed(s) ==
    [status |-> "approved", price |-> ClientPrice(s.sheet.sell, s.lines), cost |-> s.lines,
     sheetVer |-> s.sheet.ver]

\* Mutation of GenerateProposal: a pending approval will do.
GenerateEarly(s) ==
    /\ durable => s.approval.status \in {"pending", "approved"}
    /\ table = NoProposal
    /\ IF durable THEN table' = Composed(s) /\ UNCHANGED proposal
                  ELSE proposal' = Composed(s) /\ UNCHANGED table
    /\ UNCHANGED <<rfp, programme, sheet, lines, approval>>

\* In memory the gate is Path B's, a record of its own, which may allow it or not.
GenerateProposal(s) ==
    /\ durable => s.approval.status = "approved"
    /\ table = NoProposal
    /\ IF durable THEN table' = Composed(s) /\ UNCHANGED proposal
                  ELSE proposal' = Composed(s) /\ UNCHANGED table
    /\ UNCHANGED <<rfp, programme, sheet, lines, approval>>

\* transitionRfpStage
MoveRfp(stage, s) ==
    /\ WriteRfp(s.rfp, stage)
    /\ UNCHANGED <<programme, sheet, lines, approval, table, proposal>>

Handle(o, s) ==
    \/ o.name = "createProgramme" /\ CreateProgramme(s)
    \/ o.name = "createSheet" /\ CreateCostSheet(o, s)
    \/ o.name = "addLine" /\ AddCostLineItem(o, s)
    \/ o.name = "recalculate" /\ RecalculateCostSheet(o, s)
    \/ o.name = "versionSheet" /\ CreateCostSheetVersion(s)
    \/ o.name = "request" /\ RequestCommercialApproval(o, s)
    \/ o.name = "decide" /\ DecideCommercialApproval(o, s)
    \/ o.name = "generate" /\ GenerateProposal(s)
    \/ o.name = "move" /\ MoveRfp(o.to, s)

-----------------------------------------------------------------------------
\* Without PostgreSQL: one step.
HandleInMemory(o) ==
    /\ ~durable /\ MayBegin(o) /\ WithinBounds(o)
    /\ Handle(o, Now)
    /\ UNCHANGED <<durable, booking, call>>

\* With PostgreSQL: the first read, the others, the transaction.
Begin(c, o) ==
    /\ durable /\ call[c] = <<>> /\ MayBegin(o) /\ WithinBounds(o)
    /\ LET r == Head(Reads(o))
       IN  call' = [call EXCEPT ![c] = <<[op |-> o, seen |-> [Unread EXCEPT ![r] = Now[r]],
                                          todo |-> Tail(Reads(o)), overtaken |-> 0]>>]
    /\ UNCHANGED <<durable, rfp, programme, sheet, lines, approval, table, proposal, booking>>

Busy(c) == call[c] # <<>>

\* A request that has read what is next.
AfterRead(q) ==
    LET r == Head(q.todo) IN [q EXCEPT !.seen[r] = Now[r], !.todo = Tail(@)]

Read(c) ==
    /\ Busy(c) /\ call[c][1].todo # <<>>
    /\ call' = [call EXCEPT ![c] = <<AfterRead(@[1])>>]
    /\ UNCHANGED <<durable, rfp, programme, sheet, lines, approval, table, proposal, booking>>

Remember == [name |-> "remember"]

\* The transaction commits and the request is answered; generateProposal has yet
\* to resume and push the proposal into memory.
Finish(c) ==
    /\ Busy(c) /\ call[c][1].todo = <<>> /\ call[c][1].op # Remember
    /\ \A d \in Call \ {c} : Busy(d) => call[d][1].overtaken < MaxOvertaken
    /\ Handle(call[c][1].op, call[c][1].seen)
    /\ call' = [d \in Call |->
          IF d # c
          THEN IF Busy(d) THEN <<[call[d][1] EXCEPT !.overtaken = @ + 1]>> ELSE <<>>
          ELSE IF call[c][1].op.name = "generate"
          THEN <<[op |-> Remember, seen |-> Unread, todo |-> <<>>, overtaken |-> 0]>> ELSE <<>>]
    /\ UNCHANGED <<durable, booking>>

RememberProposal(c) ==
    /\ Busy(c) /\ call[c][1].op = Remember
    /\ proposal' = table
    /\ call' = [call EXCEPT ![c] = <<>>]
    /\ UNCHANGED <<durable, rfp, programme, sheet, lines, approval, table, booking>>

\* The request is refused on what it has read, or its transaction rolls back.
GiveUp(c) ==
    /\ Busy(c) /\ call[c][1].op # Remember
    /\ call' = [call EXCEPT ![c] = <<>>]
    /\ UNCHANGED <<durable, rfp, programme, sheet, lines, approval, table, proposal, booking>>

-----------------------------------------------------------------------------
(* Handlers that work on memory in either mode and never await.            *)

\* transitionProposalStatus.  store.rfpRfps holds the RFP only without PostgreSQL.
TransitionProposal(to) ==
    /\ <<proposal.status, to>> \in ProposalMoves
    /\ proposal' = [proposal EXCEPT !.status = to]
    /\ IF ~durable /\ to = "sent" THEN AdvanceRfp(rfp, "proposal", "sent") ELSE UNCHANGED rfp
    /\ UNCHANGED <<durable, programme, sheet, lines, approval, table, booking, call>>

\* Mutation of CreateBooking: a proposal that was sent can be booked.
CreateBookingUnaccepted ==
    /\ proposal.status \in {"sent", "accepted"} /\ booking = NoBooking
    /\ booking' = [status |-> "confirmed", price |-> proposal.price, done |-> {}]
    /\ rfp' = IF ~durable /\ rfp.stage # "closed" THEN [stage |-> "closed", ver |-> rfp.ver + 1] ELSE rfp
    /\ UNCHANGED <<durable, programme, sheet, lines, approval, table, proposal, call>>

\* createBooking closes the RFP it finds, whatever its stage.
CreateBooking ==
    /\ proposal.status = "accepted" /\ booking = NoBooking
    /\ booking' = [status |-> "confirmed", price |-> proposal.price, done |-> {}]
    /\ rfp' = IF ~durable /\ rfp.stage # "closed" THEN [stage |-> "closed", ver |-> rfp.ver + 1] ELSE rfp
    /\ UNCHANGED <<durable, programme, sheet, lines, approval, table, proposal, call>>

\* refreshBookingHandoverStatus
HandoverStatus(done) ==
    IF done = Task /\ done # {} THEN "handed_over"
    ELSE IF done # {} THEN "handover_pending" ELSE "confirmed"

\* completeHandoverTask, of a task completed before too.
CompleteHandoverTask(t) ==
    /\ booking # NoBooking
    /\ booking' = [booking EXCEPT !.done = @ \cup {t}, !.status = HandoverStatus(booking.done \cup {t})]
    /\ UNCHANGED <<durable, rfp, programme, sheet, lines, approval, table, proposal, call>>

\* The process dies and is started again: nothing reads proposals or bookings
\* back.  (Without PostgreSQL everything starts anew: that is Init.)
Crash ==
    /\ durable
    /\ proposal' = NoProposal
    /\ booking' = NoBooking
    /\ call' = [c \in Call |-> <<>>]
    /\ UNCHANGED <<durable, rfp, programme, sheet, lines, approval, table>>

Next ==
    \/ \E o \in Operation : HandleInMemory(o)
    \/ \E c \in Call, o \in Operation : Begin(c, o)
    \/ \E c \in Call : Read(c)
    \/ \E c \in Call : Finish(c)
    \/ \E c \in Call : RememberProposal(c)
    \/ \E c \in Call : GiveUp(c)
    \/ \E to \in {"sent", "accepted", "rejected"} : TransitionProposal(to)
    \/ CreateBooking
    \/ \E t \in Task : CompleteHandoverTask(t)
    \/ Crash

Spec == Init /\ [][Next]_vars

-----------------------------------------------------------------------------
(* Properties.                                                             *)

ProposalType == [status : {"none", "approved", "sent", "accepted", "rejected"},
                 price : Nat, cost : Nat, sheetVer : Nat]

TypeOK ==
    /\ durable \in BOOLEAN
    /\ rfp \in [stage : Stages, ver : Nat]
    /\ programme \in BOOLEAN
    /\ sheet \in [ver : Nat, sell : Price \cup {0}, cost : Nat, exception : Principal \cup {Nobody}]
    /\ lines \in Nat
    /\ approval \in [status : {"none", "pending", "approved", "rejected"}, ver : Nat,
                     by : Principal \cup {Nobody}, decider : Principal \cup {Nobody},
                     margin : Int, sheetVer : Nat]
    /\ table \in ProposalType
    /\ proposal \in ProposalType
    /\ booking \in [status : {"none", "confirmed", "handover_pending", "handed_over"},
                    price : Nat, done : SUBSET Task]

\* However requests overlap, the stored sheet's totals are those of its stored
\* lines, and it sells below the floor only by leave of a director (h-203: "The
\* system must not silently permit a normal client selling price below this floor").
FloorKept ==
    durable =>
        /\ sheet.cost = lines
        /\ sheet.cost = 0 \/ MeetsFloor(sheet.sell, sheet.cost) \/ sheet.exception \in Director

\* However requests overlap, the stored RFP moves along the workflow table, one
\* version at a time, so no move is made from a stage it had left; only a booking
\* closes it from anywhere (c9: "a C9 booking lifecycle effect").
MovesAlongTable ==
    [][rfp' # rfp =>
          /\ rfp'.ver = rfp.ver + 1
          /\ \/ rfp'.stage = rfp.stage \/ <<rfp.stage, rfp'.stage>> \in StageMoves
             \/ booking = NoBooking /\ booking' # NoBooking /\ rfp'.stage = "closed"]_vars

\* c7: "SoD (requester # decider)".  A request is decided once, by somebody else,
\* and never changes afterwards, though two deciders may have read it pending.
DecidedOnceByAnother ==
    [][approval # NoApproval /\ approval' # approval =>
          /\ approval.status = "pending"
          /\ approval'.decider \in Principal \ {approval.by}
          /\ approval'.by = approval.by /\ approval'.margin = approval.margin]_vars

\* c8: "Generation requires an approved C7 commercial approval".  A stored
\* proposal has one, carries the approved margin if it was composed from the
\* sheet the approval was requested on and that sheet has not changed since, and
\* memory's copy never shows another price.
ProposalIsApproved ==
    durable =>
        /\ table # NoProposal =>
              /\ approval.status = "approved"
              /\ table.sheetVer = approval.sheetVer /\ sheet.ver = approval.sheetVer =>
                    MarginPercent(table.price, table.cost) = approval.margin
        /\ proposal # NoProposal => proposal.price = table.price /\ proposal.cost = table.cost

\* c9: a booking rests on an accepted proposal and keeps its price, its RFP is
\* closed for good where the code can see it, and it is handed over exactly when
\* the checklist is done.
BookingIsSettled ==
    booking # NoBooking =>
        /\ proposal.status = "accepted" /\ booking.price = proposal.price
        /\ ~durable => rfp.stage = "closed"
        /\ booking.status = "handed_over" <=> booking.done = Task

\* h-203: "The system must not silently permit a normal client selling price below
\* this floor."  The price of a stored proposal meets it, unless a director has
\* authorised an exception.
NoSilentBelowFloor ==
    table # NoProposal =>
        \/ table.cost = 0
        \/ MarginPercent(table.price, table.cost) >= Floor
        \/ sheet.exception # Nobody

=============================================================================
