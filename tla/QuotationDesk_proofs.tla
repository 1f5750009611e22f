------------------------ MODULE QuotationDesk_proofs ------------------------
(***************************************************************************)
(* Theorems about QuotationDesk, for every set of requests, bookings and    *)
(* prices and for every set of endpoints in use.  The steps of EnquiryOrder *)
(* are those of the enquiry beside the screen; what keeps rows and requests *)
(* well typed there is taken from EnquiryOrder_proofs.                      *)
(***************************************************************************)
EXTENDS QuotationDesk, EnquiryOrder_proofs

Amounts == Prices \cup {NoPrice}

QuotationRow == [status : QuotationStatuses, lines : Amounts, total : Amounts]

\* What a request at the screen holds between two statements.
ScreenState ==
  [at : ScreenLabels, amount : Amounts, seen : QuotationRow,
   st : Statuses \cup {NoStatus}, bk : BookingIds \cup {NoBooking}]

\* A save never carries CONVERTED over, and the status the enquiry is brought to the
\* offer from is one that the customer has not decided.
Reading(x) ==
  /\ x.at = "save" => x.seen.status # "CONVERTED"
  /\ x.at = "bring" => x.st \notin Decided

ScreenOK == {x \in ScreenState : Reading(x)}

DeskRows ==
  /\ quotation \in QuotationRow
  /\ snapshot \in [BookingIds -> Amounts]
  /\ desk \in [Requests -> ScreenOK]

DeskTypes == TypeInv /\ DeskRows

-----------------------------------------------------------------------------
(***************************************************************************)
(* What the requests in flight know of the order.                           *)
(***************************************************************************)

\* A conversion that has created its booking names it, and one that has returned
\* has linked it; so has the enquiry whose quotation says so.
Ordering ==
  /\ \A r \in Requests : req[r].at \in {"confirm", "converted"} => req[r].bk \in BookingIds
  /\ \A r \in Requests : req[r].at = "converted" => bookingId # NoBooking
  /\ \A r \in Requests : desk[r].at = "snapshot" => desk[r].bk \in BookingIds
                                                    /\ bookingId # NoBooking
  /\ ConvertedHasOrder

\* The booking a request goes on with is the enquiry's, and no other has a snapshot.
SameOrder ==
  /\ \A r \in Requests : req[r].at = "converted" => req[r].bk = bookingId
  /\ \A r \in Requests : desk[r].at = "snapshot" => desk[r].bk = bookingId
  /\ \A b \in BookingIds : snapshot[b] # NoPrice => b = bookingId

\* Until a stale write takes the enquiry back from its decision.
Frozen == ~reopened => ClaimInv /\ SameOrder

DeskInv == DeskTypes /\ Ordering /\ Frozen

-----------------------------------------------------------------------------
(***************************************************************************)
(* The enquiry beside the screen.                                           *)
(***************************************************************************)

\* No path of the state machine leads from a decision back to the offer.
LEMMA DecidedHasNoPath ==
  ASSUME NEW s, HasPath(s, "AWAITING_CUSTOMER_ACCEPTANCE")
  PROVE  s \notin Decided
<1>1. \A x, y : CanTransition(x, y) /\ x \in Decided => y \in Decided
  BY DEF CanTransition, AllowedTransitions, Decided, CommittedStatuses, TerminalStatuses
<1>2. "AWAITING_CUSTOMER_ACCEPTANCE" \notin Decided
  BY StatusFacts
<1> QED BY <1>1, <1>2 DEF HasPath

\* What the claim stands for is kept by all of them.
LEMMA ClaimKept ==
  ASSUME TypeInv, ~reopened => ClaimInv, NEW r \in Requests,
         Quiet(r) \/ Claim(r) \/ ReleaseClaim(r) \/ ConfirmOrder(r)
  PROVE  ~reopened' => ClaimInv'
<1> USE DEF ClaimInv, Converting
<1>1. CASE Quiet(r)
  BY <1>1, StatusFacts DEF Quiet, Keeps
<1>2. CASE Claim(r)
  BY <1>2, Moves, StatusFacts DEF Claim, Labels
<1>3. CASE ReleaseClaim(r)
  BY <1>3, Moves, StatusFacts DEF ReleaseClaim
<1>4. CASE ConfirmOrder(r)
  <2>1. req'[r].at \in {"idle", "converted"} /\ \A q \in Requests \ {r} : req'[q] = req[q]
    BY <1>4, Moves DEF ConfirmOrder, Labels
  <2>2. status' = "CONFIRMED" /\ (reopened => reopened')
    BY <1>4 DEF ConfirmOrder, WriteStatus
  <2> QED BY <1>4, <2>1, <2>2, StatusFacts DEF ConfirmOrder
<1> QED BY <1>1, <1>2, <1>3, <1>4

-----------------------------------------------------------------------------
(***************************************************************************)
(* The screen.                                                              *)
(***************************************************************************)

LEMMA AtRestOK == AtRest \in ScreenOK
BY DEF AtRest, NoQuotation, ScreenOK, ScreenState, Reading, ScreenLabels, QuotationRow,
       QuotationStatuses, Amounts

\* Where the three moves leave the request at the screen, and that they move no other.
LEMMA ScreenGoes ==
  ASSUME desk \in [Requests -> ScreenOK], NEW r \in Requests
  PROVE  /\ \A seen \in ScreenOK : Open(r, seen) =>
              /\ desk' \in [Requests -> ScreenOK] /\ desk'[r] = seen
              /\ \A q \in Requests \ {r} : desk'[q] = desk[q]
         /\ \A l \in ScreenLabels \ {"save", "bring"} : DeskGoto(r, l) =>
              /\ desk' \in [Requests -> ScreenOK] /\ desk'[r].at = l
              /\ \A q \in Requests \ {r} : desk'[q] = desk[q]
         /\ \A x \in ScreenOK : desk' = [desk EXCEPT ![r] = x] =>
              /\ desk' \in [Requests -> ScreenOK] /\ desk'[r] = x
              /\ \A q \in Requests \ {r} : desk'[q] = desk[q]
         /\ Close(r) =>
              /\ desk' \in [Requests -> ScreenOK] /\ desk'[r].at = "rest"
              /\ \A q \in Requests \ {r} : desk'[q] = desk[q]
<1>1. ASSUME NEW x \in ScreenOK, desk' = [desk EXCEPT ![r] = x]
      PROVE  /\ desk' \in [Requests -> ScreenOK] /\ desk'[r] = x
             /\ \A q \in Requests \ {r} : desk'[q] = desk[q]
  BY <1>1
<1>2. ASSUME NEW l \in ScreenLabels \ {"save", "bring"}, DeskGoto(r, l)
      PROVE  /\ desk' \in [Requests -> ScreenOK] /\ desk'[r].at = l
             /\ \A q \in Requests \ {r} : desk'[q] = desk[q]
  <2>1. desk[r] \in ScreenState
    BY DEF ScreenOK
  <2>2. [desk[r] EXCEPT !.at = l] \in ScreenOK /\ [desk[r] EXCEPT !.at = l].at = l
    BY <2>1 DEF ScreenOK, ScreenState, Reading
  <2>3. desk' = [desk EXCEPT ![r] = [desk[r] EXCEPT !.at = l]]
    BY <1>2 DEF DeskGoto
  <2> QED BY <1>1, <2>2, <2>3
<1>3. ASSUME Close(r)
      PROVE  /\ desk' \in [Requests -> ScreenOK] /\ desk'[r].at = "rest"
             /\ \A q \in Requests \ {r} : desk'[q] = desk[q]
  BY <1>1, <1>3, AtRestOK DEF Close, AtRest
<1> QED BY <1>1, <1>2, <1>3 DEF Open

\* What a step of the screen does to the order: it goes on with the enquiry's booking or
\* with the one its conversion returned, and with that it marks the quotation converted.
Shows(r) ==
  /\ \A q \in Requests \ {r} : desk'[q] = desk[q]
  /\ desk'[r].at = "snapshot" =>
       \/ bookingId # NoBooking /\ desk'[r].bk = bookingId
       \/ req[r].at = "converted" /\ desk'[r].bk = req[r].bk
  /\ quotation'.status = "CONVERTED" =>
       quotation.status = "CONVERTED" \/ desk[r].at = "snapshot"
  /\ \/ snapshot' = snapshot
     \/ desk[r].at = "snapshot" /\ \E p \in Amounts : snapshot' = [snapshot EXCEPT ![desk[r].bk] = p]

\* A request that opens the screen has read the row and written nothing.
LEMMA ScreenArrives ==
  ASSUME DeskTypes, NEW r \in Requests, QuotationArrive(r)
  PROVE  DeskRows' /\ Shows(r) /\ UNCHANGED vars
<1> USE DEF DeskTypes, DeskRows
<1>1. CASE SaveQuotation(r)
  <2>1. PICK p \in Prices : Open(r, [AtRest EXCEPT !.at = "saveLoad", !.amount = p])
    BY <1>1 DEF SaveQuotation
  <2>2. [AtRest EXCEPT !.at = "saveLoad", !.amount = p] \in ScreenOK
    BY AtRestOK DEF AtRest, ScreenOK, ScreenState, Reading, ScreenLabels, Amounts
  <2>3. [AtRest EXCEPT !.at = "saveLoad", !.amount = p].at = "saveLoad"
    BY DEF AtRest
  <2> QED BY <1>1, <2>1, <2>2, <2>3, ScreenGoes DEF SaveQuotation, Shows
<1>2. CASE SendQuotation(r)
  <2>1. [AtRest EXCEPT !.at = "send", !.seen = quotation] \in ScreenOK
    BY AtRestOK DEF AtRest, ScreenOK, ScreenState, Reading, ScreenLabels
  <2>2. [AtRest EXCEPT !.at = "send", !.seen = quotation].at = "send"
    BY DEF AtRest
  <2> QED BY <1>2, <2>1, <2>2, ScreenGoes DEF SendQuotation, Shows
<1>3. CASE ConfirmQuotation(r)
  <2>1. [AtRest EXCEPT !.at = "confirmLoad", !.bk = bookingId] \in ScreenOK
    BY AtRestOK DEF AtRest, ScreenOK, ScreenState, Reading, ScreenLabels, TypeInv, RowsOK
  <2>2. [AtRest EXCEPT !.at = "confirmLoad", !.bk = bookingId].at = "confirmLoad"
    BY DEF AtRest
  <2> QED BY <1>3, <2>1, <2>2, ScreenGoes DEF ConfirmQuotation, Shows
<1> QED BY <1>1, <1>2, <1>3 DEF QuotationArrive

\* Saving and sending.
LEMMA ScreenSaves ==
  ASSUME DeskTypes, NEW r \in Requests,
         LoadForSave(r) \/ WriteQuotation(r) \/ WriteSavedPriceStatus(r)
           \/ PublishQuotation(r) \/ SendRaceLost(r)
  PROVE  DeskRows' /\ Shows(r) /\ Quiet(r) /\ TypeInv'
<1> USE DEF DeskTypes, DeskRows
<1>0. /\ desk[r] \in ScreenState /\ Reading(desk[r])
      /\ desk[r].seen \in QuotationRow /\ desk[r].amount \in Amounts
  BY DEF ScreenOK, ScreenState
<1>1. ASSUME UNCHANGED vars  PROVE Quiet(r) /\ TypeInv'
  BY <1>1 DEF vars, Quiet, Keeps, TypeInv, RowsOK, Converting
<1>2. CASE LoadForSave(r)
  <2>1. ASSUME quotation.status # "CONVERTED"
        PROVE  /\ [desk[r] EXCEPT !.at = "save", !.seen = quotation] \in ScreenOK
               /\ [desk[r] EXCEPT !.at = "save", !.seen = quotation].at = "save"
    BY <1>0, <2>1 DEF ScreenOK, ScreenState, Reading, ScreenLabels
  <2>2. ASSUME ~Close(r)
        PROVE  /\ quotation.status # "CONVERTED"
               /\ desk' = [desk EXCEPT ![r] = [desk[r] EXCEPT !.at = "save", !.seen = quotation]]
    BY <1>2, <2>2 DEF LoadForSave
  <2> QED BY <1>1, <1>2, <2>1, <2>2, ScreenGoes DEF LoadForSave, Shows
<1>3. CASE WriteQuotation(r)
  <2>1. desk[r].seen.status # "CONVERTED" /\ desk[r].seen.status \in QuotationStatuses
    BY <1>0, <1>3 DEF WriteQuotation, Reading, QuotationRow
  <2>2. PICK s : s = NextQuotationStatus(desk[r].seen.status)
    OBVIOUS
  <2>3. s \in QuotationStatuses \ {"CONVERTED"}
    BY <2>1, <2>2 DEF NextQuotationStatus, QuotationStatuses
  <2>4. \/ Close(r) /\ UNCHANGED quotation
        \/ /\ quotation' = [status |-> s, lines |-> desk[r].amount, total |-> desk[r].amount]
           /\ DeskGoto(r, "savePrice") \/ Close(r)
    BY <1>3, <2>2 DEF WriteQuotation
  <2>5. [status |-> s, lines |-> desk[r].amount, total |-> desk[r].amount] \in QuotationRow
    BY <1>0, <2>3 DEF QuotationRow
  <2>6. /\ desk' \in [Requests -> ScreenOK] /\ desk'[r].at # "snapshot"
        /\ \A q \in Requests \ {r} : desk'[q] = desk[q]
    BY <2>4, ScreenGoes DEF ScreenLabels
  <2>7. quotation' \in QuotationRow /\ (quotation'.status = "CONVERTED" => quotation.status = "CONVERTED")
    BY <2>3, <2>4, <2>5
  <2> QED BY <1>1, <1>3, <2>6, <2>7 DEF WriteQuotation, Shows
<1>4. CASE WriteSavedPriceStatus(r)
  BY <1>4, ScreenGoes
  DEF WriteSavedPriceStatus, Shows, Quiet, Keeps, TypeInv, RowsOK, PriceStatuses, Converting
<1>5. CASE PublishQuotation(r)
  <2>1. desk[r].seen.lines \in Amounts /\ quotation'.status # "CONVERTED" /\ quotation' \in QuotationRow
    BY <1>0, <1>5 DEF PublishQuotation, QuotationRow, QuotationStatuses
  <2>2. (status' = status \/ {status, status'} \cap Decided = {}) /\ status' \in Statuses
    BY <1>5, DecidedHasNoPath, StatusFacts DEF PublishQuotation, TypeInv, RowsOK
  <2>3. Quiet(r) /\ TypeInv'
    BY <1>5, <2>2 DEF PublishQuotation, Quiet, Keeps, TypeInv, RowsOK, PriceStatuses, Converting
  <2> QED BY <1>5, <2>1, <2>3, ScreenGoes DEF PublishQuotation, Shows
<1>6. CASE SendRaceLost(r)
  BY <1>1, <1>6, ScreenGoes DEF SendRaceLost, Shows
<1> QED BY <1>2, <1>3, <1>4, <1>5, <1>6

\* confirmOrder, up to the conversion.
LEMMA ScreenOffers ==
  ASSUME DeskTypes, NEW r \in Requests,
         LoadForConfirm(r) \/ TakePrice(r) \/ ReadFreshStatus(r) \/ RefuseByStatus(r)
           \/ BringToAcceptance(r) \/ BringLost(r)
  PROVE  DeskRows' /\ Shows(r) /\ Quiet(r) /\ TypeInv'
<1> USE DEF DeskTypes, DeskRows
<1>0. /\ desk[r] \in ScreenState /\ Reading(desk[r])
      /\ desk[r].seen \in QuotationRow /\ desk[r].seen.total \in Amounts
  BY DEF ScreenOK, ScreenState, QuotationRow
<1>1. ASSUME UNCHANGED vars  PROVE Quiet(r) /\ TypeInv'
  BY <1>1 DEF vars, Quiet, Keeps, TypeInv, RowsOK, Converting
<1>2. CASE LoadForConfirm(r)
  <2>1. /\ [desk[r] EXCEPT !.at = "price", !.seen = quotation] \in ScreenOK
        /\ [desk[r] EXCEPT !.at = "price", !.seen = quotation].at = "price"
    BY <1>0 DEF ScreenOK, ScreenState, Reading, ScreenLabels
  <2>2. ASSUME ~Close(r)
        PROVE  desk' = [desk EXCEPT ![r] = [desk[r] EXCEPT !.at = "price", !.seen = quotation]]
    BY <1>2, <2>2 DEF LoadForConfirm
  <2> QED BY <1>1, <1>2, <2>1, <2>2, ScreenGoes DEF LoadForConfirm, Shows
<1>3. CASE TakePrice(r)
  <2>1. DeskGoto(r, "fresh") /\ "fresh" \in ScreenLabels
    BY <1>3 DEF TakePrice, ScreenLabels
  <2>2. Quiet(r) /\ TypeInv'
    BY <1>0, <1>3 DEF TakePrice, Quiet, Keeps, TypeInv, RowsOK, PriceStatuses, Converting, Amounts
  <2> QED BY <1>3, <2>1, <2>2, ScreenGoes DEF TakePrice, Shows
<1>4. CASE ReadFreshStatus(r)
  <2>1. PICK l : l = IF status = "AWAITING_CUSTOMER_ACCEPTANCE" THEN "convert" ELSE "bring"
    OBVIOUS
  <2>2. [desk[r] EXCEPT !.at = l, !.st = status].at = l
    BY <1>0 DEF ScreenState
  <2>3. [desk[r] EXCEPT !.at = l, !.st = status] \in ScreenOK
    BY <1>0, <1>4, <2>1, DecidedHasNoPath
    DEF ReadFreshStatus, ScreenOK, ScreenState, Reading, ScreenLabels, TypeInv, RowsOK
  <2>4. desk' = [desk EXCEPT ![r] = [desk[r] EXCEPT !.at = l, !.st = status]]
    BY <1>4, <2>1 DEF ReadFreshStatus
  <2>5. /\ desk' \in [Requests -> ScreenOK] /\ desk'[r].at # "snapshot"
        /\ \A q \in Requests \ {r} : desk'[q] = desk[q]
    BY <2>1, <2>2, <2>3, <2>4, ScreenGoes
  <2> QED BY <1>1, <1>4, <2>5 DEF ReadFreshStatus, Shows
<1>5. CASE RefuseByStatus(r) \/ BringLost(r)
  BY <1>1, <1>5, ScreenGoes DEF RefuseByStatus, BringLost, Shows
<1>6. CASE BringToAcceptance(r)
  <2>1. status \notin Decided
    BY <1>0, <1>6 DEF BringToAcceptance, Reading
  <2>2. DeskGoto(r, "convert") /\ "convert" \in ScreenLabels
    BY <1>6 DEF BringToAcceptance, ScreenLabels
  <2>3. Quiet(r) /\ TypeInv'
    BY <1>6, <2>1, StatusFacts DEF BringToAcceptance, Quiet, Keeps, TypeInv, RowsOK, Converting
  <2> QED BY <1>6, <2>2, <2>3, ScreenGoes DEF BringToAcceptance, Shows
<1> QED BY <1>2, <1>3, <1>4, <1>5, <1>6

\* The conversion, and the transaction that follows it; the crash of a request at the screen.
LEMMA ScreenConverts ==
  ASSUME DeskTypes, NEW r \in Requests,
         StartConversion(r) \/ FindOrder(r) \/ ConversionRefused(r) \/ ConversionDone(r)
           \/ ConversionFailed(r) \/ TakeSnapshot(r) \/ DeskCrash(r)
  PROVE  DeskRows' /\ Shows(r) /\ Quiet(r) /\ TypeInv'
<1> USE DEF DeskTypes, DeskRows
<1>0. /\ desk[r] \in ScreenState /\ desk[r].seen.total \in Amounts
      /\ req[r].bk \in BookingIds \cup {NoBooking}
  BY DEF ScreenOK, ScreenState, QuotationRow, TypeInv, RequestOK, RequestState
<1>1. ASSUME UNCHANGED vars  PROVE Quiet(r) /\ TypeInv'
  BY <1>1 DEF vars, Quiet, Keeps, TypeInv, RowsOK, Converting
<1>2. ASSUME Finish(r), UNCHANGED <<enquiryVars, bookings, trip, reopened>>
      PROVE  Quiet(r) /\ TypeInv'
  BY <1>2, QuietEnds, FinishOK DEF TypeInv, RowsOK, enquiryVars
<1>3. ASSUME NEW b \in BookingIds \cup {NoBooking}
      PROVE  /\ [desk[r] EXCEPT !.at = "snapshot", !.bk = b] \in ScreenOK
             /\ [desk[r] EXCEPT !.at = "snapshot", !.bk = b].bk = b
  BY <1>0 DEF ScreenOK, ScreenState, Reading, ScreenLabels
<1>4. CASE StartConversion(r)
  <2>1. [Idle EXCEPT !.at = "claim", !.op = "adminConfirmOrder", !.pr = price, !.asg = assigned]
          \in RequestOK
    BY DEF TypeInv, RowsOK, Idle, RequestOK, RequestState, PendingStatus, Labels
  <2>2. Begin(r, [Idle EXCEPT !.at = "claim", !.op = "adminConfirmOrder", !.pr = price,
                              !.asg = assigned])
    BY <1>4 DEF StartConversion, Convert
  <2>3. req' \in [Requests -> RequestOK]
    BY <2>1, <2>2, BeginOK DEF TypeInv
  <2>4. req'[r].at = "claim" /\ \A q \in Requests \ {r} : req'[q] = req[q]
    <3>1. req' = [req EXCEPT ![r] = [Idle EXCEPT !.at = "claim", !.op = "adminConfirmOrder",
                                                 !.pr = price, !.asg = assigned]]
      BY <2>2 DEF Begin
    <3> QED BY <3>1 DEF Idle, TypeInv
  <2>5. Quiet(r) /\ TypeInv'
    BY <1>4, <2>3, <2>4
    DEF StartConversion, Convert, Quiet, Keeps, TypeInv, RowsOK, Converting, enquiryVars
  <2>6. DeskGoto(r, "wait") /\ "wait" \in ScreenLabels
    BY <1>4 DEF StartConversion, ScreenLabels
  <2> QED BY <1>4, <2>5, <2>6, ScreenGoes DEF StartConversion, Shows
<1>5. CASE FindOrder(r)
  <2>1. \/ Close(r)
        \/ /\ bookingId # NoBooking
           /\ desk' = [desk EXCEPT ![r] = [desk[r] EXCEPT !.at = "snapshot", !.bk = bookingId]]
    BY <1>5 DEF FindOrder
  <2>2. bookingId \in BookingIds \cup {NoBooking}
    BY DEF TypeInv, RowsOK
  <2> QED BY <1>1, <1>3, <1>5, <2>1, <2>2, ScreenGoes DEF FindOrder, Shows
<1>6. CASE ConversionRefused(r) \/ ConversionFailed(r)
  BY <1>1, <1>6, ScreenGoes DEF ConversionRefused, ConversionFailed, Shows
<1>7. CASE ConversionDone(r)
  <2>1. desk' = [desk EXCEPT ![r] = [desk[r] EXCEPT !.at = "snapshot", !.bk = req[r].bk]]
    BY <1>7 DEF ConversionDone
  <2>2. Quiet(r) /\ TypeInv'
    BY <1>2, <1>7 DEF ConversionDone
  <2>3. /\ desk' \in [Requests -> ScreenOK] /\ desk'[r].bk = req[r].bk
        /\ \A q \in Requests \ {r} : desk'[q] = desk[q]
    BY <1>0, <1>3, <2>1, ScreenGoes
  <2> QED BY <1>7, <2>2, <2>3 DEF ConversionDone, Shows
<1>8. CASE TakeSnapshot(r)
  <2>1. Quiet(r) /\ TypeInv'
    BY <1>8 DEF TakeSnapshot, Quiet, Keeps, TypeInv, RowsOK, PriceStatuses, Converting
  <2>2. quotation' \in QuotationRow
    BY <1>8 DEF TakeSnapshot, QuotationRow, QuotationStatuses
  <2>3. snapshot' = snapshot \/ \E p \in Amounts : snapshot' = [snapshot EXCEPT ![desk[r].bk] = p]
    BY <1>0, <1>8 DEF TakeSnapshot
  <2>4. snapshot' \in [BookingIds -> Amounts]
    BY <2>3
  <2> QED BY <1>8, <2>1, <2>2, <2>3, <2>4, ScreenGoes DEF TakeSnapshot, Shows
<1>9. CASE DeskCrash(r)
  BY <1>2, <1>9, ScreenGoes DEF DeskCrash, Shows
<1> QED BY <1>4, <1>5, <1>6, <1>7, <1>8, <1>9

-----------------------------------------------------------------------------
(***************************************************************************)
(* The invariant, step by step.                                             *)
(***************************************************************************)

\* Every step of the screen, and every one of the enquiry beside it.
LEMMA DeskSteps ==
  ASSUME DeskTypes, DeskNext
  PROVE  /\ DeskTypes'
         /\ \E r \in Requests :
              \/ Quiet(r) /\ Shows(r)
              \/ (Quiet(r) \/ Claim(r) \/ ReleaseClaim(r) \/ ConfirmOrder(r)) /\ UNCHANGED deskVars
<1>1. ASSUME NEW r \in Requests, QuotationArrive(r)
      PROVE  DeskTypes' /\ Quiet(r) /\ Shows(r)
  <2>1. DeskRows' /\ Shows(r) /\ UNCHANGED vars
    BY <1>1, ScreenArrives
  <2>2. TypeInv'
    BY <2>1 DEF DeskTypes, vars, TypeInv, RowsOK
  <2> QED BY <2>1, <2>2 DEF DeskTypes, Quiet, Keeps, Converting, vars
<1>2. ASSUME NEW r \in Requests, ScreenStep(r) \/ DeskCrash(r)
      PROVE  DeskTypes' /\ Quiet(r) /\ Shows(r)
  BY <1>2, ScreenSaves, ScreenOffers, ScreenConverts DEF ScreenStep, DeskTypes
<1>3. ASSUME UNCHANGED deskVars  PROVE DeskRows'
  BY <1>3 DEF DeskTypes, DeskRows, deskVars
<1>4. ASSUME NEW r \in Requests, EnquiryStep(r)
      PROVE  /\ DeskTypes' /\ UNCHANGED deskVars
             /\ Quiet(r) \/ Claim(r) \/ ReleaseClaim(r) \/ ConfirmOrder(r)
  <2>1. TypeInv /\ Step(r) /\ UNCHANGED deskVars
    BY <1>4 DEF EnquiryStep, DeskTypes
  <2>2. TypeInv'
    BY <2>1, TypeConversion, TypeClosingDesk, TypeAssign DEF Step
  <2>3. Quiet(r) \/ Claim(r) \/ ReleaseClaim(r) \/ ConfirmOrder(r)
    BY <2>1, QuietConversion, QuietClosingDesk, QuietAssign DEF Step
  <2> QED BY <1>3, <2>1, <2>2, <2>3 DEF DeskTypes
<1>5. ASSUME NEW r \in Requests, EnquiryArrive(r) \/ EnquiryCrash(r)
      PROVE  DeskTypes' /\ UNCHANGED deskVars /\ Quiet(r)
  <2>1. CASE EnquiryArrive(r)
    BY <1>3, <2>1, TypeArrive, QuietEnds DEF EnquiryArrive, DeskTypes
  <2>2. CASE EnquiryCrash(r)
    <3>1. Finish(r) /\ UNCHANGED <<enquiryVars, bookings, trip, reopened>> /\ UNCHANGED deskVars
      BY <2>2 DEF EnquiryCrash, Crash
    <3>2. TypeInv'
      BY <3>1, FinishOK DEF DeskTypes, TypeInv, RowsOK, enquiryVars
    <3> QED BY <1>3, <3>1, <3>2, QuietEnds DEF DeskTypes
  <2> QED BY <1>5, <2>1, <2>2
<1> QED BY <1>1, <1>2, <1>4, <1>5 DEF DeskNext, Uninterrupted

\* The booking a conversion created or found is the enquiry's from then on.
LEMMA OrderingKept ==
  ASSUME DeskTypes, Ordering, NEW r \in Requests,
         \/ Quiet(r) /\ Shows(r)
         \/ (Quiet(r) \/ Claim(r) \/ ReleaseClaim(r) \/ ConfirmOrder(r)) /\ UNCHANGED deskVars
  PROVE  Ordering'
<1>0. NoBooking \notin BookingIds /\ bookingId \in BookingIds \cup {NoBooking} /\ TypeInv
  BY ConstantsAssumption DEF DeskTypes, TypeInv, RowsOK
<1>1. CASE Quiet(r) /\ Shows(r)
  BY <1>0, <1>1 DEF Ordering, Quiet, Shows, ConvertedHasOrder
<1>2. CASE Quiet(r) /\ UNCHANGED deskVars
  BY <1>0, <1>2 DEF Ordering, Quiet, deskVars, ConvertedHasOrder
<1>3. CASE (Claim(r) \/ ReleaseClaim(r)) /\ UNCHANGED deskVars
  <2>1. /\ req'[r].at \in {"create", "idle"} /\ bookingId' = bookingId
        /\ \A q \in Requests \ {r} : req'[q] = req[q]
    BY <1>0, <1>3, Moves DEF Claim, ReleaseClaim, Labels
  <2> QED BY <1>3, <2>1 DEF Ordering, deskVars, ConvertedHasOrder
<1>4. CASE ConfirmOrder(r) /\ UNCHANGED deskVars
  <2>1. /\ req'[r].at = "idle" \/ (req'[r].at = "converted" /\ req'[r].bk = req[r].bk)
        /\ \A q \in Requests \ {r} : req'[q] = req[q]
    BY <1>0, <1>4, Moves DEF ConfirmOrder, Labels
  <2>2. bookingId' = req[r].bk /\ req[r].bk \in BookingIds
    BY <1>4 DEF ConfirmOrder, Ordering
  <2> QED BY <1>0, <1>4, <2>1, <2>2 DEF Ordering, deskVars, ConvertedHasOrder
<1> QED BY <1>1, <1>2, <1>3, <1>4

\* The order is the same one until a stale write takes the enquiry back.
LEMMA SameOrderKept ==
  ASSUME DeskTypes, Ordering, Frozen, NEW r \in Requests, ~reopened',
         \/ Quiet(r) /\ Shows(r)
         \/ (Quiet(r) \/ Claim(r) \/ ReleaseClaim(r) \/ ConfirmOrder(r)) /\ UNCHANGED deskVars
  PROVE  SameOrder'
<1>0. /\ NoBooking \notin BookingIds /\ bookingId \in BookingIds \cup {NoBooking} /\ TypeInv
      /\ snapshot \in [BookingIds -> Amounts]
  BY ConstantsAssumption DEF DeskTypes, DeskRows, TypeInv, RowsOK
<1>1. ~reopened
  BY DEF Quiet, Keeps, Claim, ReleaseClaim, ConfirmOrder, WriteStatus
<1>2. ClaimInv /\ SameOrder
  BY <1>1 DEF Frozen
<1>3. CASE Quiet(r) /\ Shows(r)
  <2>1. bookingId' = bookingId
    BY <1>3 DEF Quiet
  <2>2. ASSUME NEW b \in BookingIds, snapshot'[b] # NoPrice  PROVE b = bookingId
    <3>1. CASE snapshot' = snapshot
      BY <1>2, <2>2, <3>1 DEF SameOrder
    <3>2. CASE desk[r].at = "snapshot" /\ \E p \in Amounts : snapshot' = [snapshot EXCEPT ![desk[r].bk] = p]
      <4>1. desk[r].bk = bookingId
        BY <1>2, <3>2 DEF SameOrder
      <4>2. b # bookingId => snapshot'[b] = snapshot[b]
        BY <1>0, <3>2, <4>1
      <4> QED BY <1>2, <2>2, <4>2 DEF SameOrder
    <3> QED BY <1>3, <3>1, <3>2 DEF Shows
  <2>3. ASSUME NEW q \in Requests, req'[q].at = "converted"  PROVE req'[q].bk = bookingId
    BY <1>2, <1>3, <2>3 DEF SameOrder, Quiet
  <2>4. ASSUME NEW q \in Requests, desk'[q].at = "snapshot"  PROVE desk'[q].bk = bookingId
    BY <1>2, <1>3, <2>4 DEF SameOrder, Shows
  <2> QED BY <2>1, <2>2, <2>3, <2>4 DEF SameOrder
<1>4. CASE Quiet(r) /\ UNCHANGED deskVars
  BY <1>2, <1>4 DEF SameOrder, Quiet, deskVars
<1>5. CASE (Claim(r) \/ ReleaseClaim(r)) /\ UNCHANGED deskVars
  <2>1. /\ req'[r].at \in {"create", "idle"} /\ bookingId' = bookingId
        /\ \A q \in Requests \ {r} : req'[q] = req[q]
    BY <1>0, <1>5, Moves DEF Claim, ReleaseClaim, Labels
  <2> QED BY <1>2, <1>5, <2>1 DEF SameOrder, deskVars
<1>6. CASE ConfirmOrder(r) /\ UNCHANGED deskVars
  <2>1. /\ req'[r].at = "idle" \/ (req'[r].at = "converted" /\ req'[r].bk = req[r].bk)
        /\ \A q \in Requests \ {r} : req'[q] = req[q]
    BY <1>0, <1>6, Moves DEF ConfirmOrder, Labels
  <2>2. bookingId' = req[r].bk /\ bookingId = NoBooking
    BY <1>2, <1>6 DEF ConfirmOrder, ClaimInv, Converting
  <2>3. /\ \A q \in Requests : req[q].at # "converted" /\ desk[q].at # "snapshot"
        /\ \A b \in BookingIds : snapshot[b] = NoPrice
    BY <1>0, <1>2, <2>2 DEF Ordering, SameOrder
  <2> QED BY <1>6, <2>1, <2>2, <2>3 DEF SameOrder, deskVars
<1> QED BY <1>3, <1>4, <1>5, <1>6

LEMMA DeskStarts == DeskInit => DeskInv
<1> SUFFICES ASSUME DeskInit  PROVE DeskInv
  OBVIOUS
<1>1. TypeInv
  BY TypeInit DEF DeskInit
<1>2. DeskRows
  BY AtRestOK DEF DeskInit, DeskRows, NoQuotation, QuotationRow, QuotationStatuses, Amounts
<1>3. Ordering
  BY DEF DeskInit, Init, Ordering, Idle, AtRest, NoQuotation, ConvertedHasOrder
<1>4. Frozen
  BY DEF DeskInit, Init, Frozen, ClaimInv, Converting, SameOrder, Idle, AtRest
<1> QED BY <1>1, <1>2, <1>3, <1>4 DEF DeskInv, DeskTypes

LEMMA DeskInvKept == ASSUME DeskInv, [DeskNext]_allVars PROVE DeskInv'
<1>1. CASE UNCHANGED allVars
  BY <1>1 DEF allVars, vars, deskVars, DeskInv, DeskTypes, TypeInv, RowsOK, DeskRows, Ordering,
              ConvertedHasOrder, Frozen, ClaimInv, Converting, SameOrder
<1>2. CASE DeskNext
  <2>1. DeskTypes'
    BY <1>2, DeskSteps DEF DeskInv
  <2>2. PICK r \in Requests :
          \/ Quiet(r) /\ Shows(r)
          \/ (Quiet(r) \/ Claim(r) \/ ReleaseClaim(r) \/ ConfirmOrder(r)) /\ UNCHANGED deskVars
    BY <1>2, DeskSteps DEF DeskInv
  <2>3. Ordering'
    BY <2>2, OrderingKept DEF DeskInv
  <2>4. ~reopened' => ClaimInv'
    BY <2>2, ClaimKept DEF DeskInv, DeskTypes, Frozen
  <2>5. ~reopened' => SameOrder'
    BY <2>2, SameOrderKept DEF DeskInv
  <2> QED BY <2>1, <2>3, <2>4, <2>5 DEF DeskInv, Frozen
<1> QED BY <1>1, <1>2

\* What the screen and the handlers beside it know of the order is true in every run.
THEOREM DeskInvariance == DeskSpec => []DeskInv
BY DeskStarts, DeskInvKept, PTL DEF DeskSpec

\* The quotation, its snapshots and every local of a request at the screen hold values of
\* their types, whatever the handlers of EnquiryService do beside it.
THEOREM DeskTypesHold == DeskSpec => []DeskTypeOK
<1>1. DeskInv => DeskTypeOK
  BY DEF DeskInv, DeskTypes, DeskRows, DeskTypeOK, ScreenOK, ScreenState, QuotationRow, Amounts
<1> QED BY <1>1, DeskInvariance, PTL

\* A quotation says it was converted only when the enquiry has its order.
THEOREM ConvertedIsOrdered == DeskSpec => []ConvertedHasOrder
<1>1. DeskInv => ConvertedHasOrder
  BY DEF DeskInv, Ordering
<1> QED BY <1>1, DeskInvariance, PTL

\* The frozen money sits on the booking the enquiry is linked to, as long as no stale write
\* has reopened the enquiry.
THEOREM SnapshotFollowsOrder == DeskSpec => []SnapshotOfTheOrder
<1>1. DeskInv => SnapshotOfTheOrder
  BY DEF DeskInv, Frozen, SameOrder, SnapshotOfTheOrder
<1> QED BY <1>1, DeskInvariance, PTL

\* The conversion stays exclusive when the screen asks for it too, and writes the status
\* of the enquiry beside the handlers.
THEOREM ConversionExclusiveAtDesk == DeskSpec => []OneConversion
<1>1. DeskInv => OneConversion
  BY DEF DeskInv, Frozen, ClaimInv, OneConversion
<1> QED BY <1>1, DeskInvariance, PTL

\* With the screen beside the handlers, the enquiry still keeps its charter: the screen walks it to
\* the offer, and its conversion is one more taker.
THEOREM DeskKeepsCharter == DeskSpec => KeepsOrderCharter
<1>1. DeskInit => Charter!Init
  BY StatusFacts DEF DeskInit, Init, Charter!Init, Phase, TerminalStatuses, Converting, Idle
<1>2. DeskInv /\ [DeskNext]_allVars => [Charter!Next]_(Charter!charter)
  <2> SUFFICES ASSUME DeskInv, [DeskNext]_allVars  PROVE [Charter!Next]_(Charter!charter)
    OBVIOUS
  <2>1. TypeInv /\ (~reopened => ClaimInv) /\ NamedOrder
    BY DEF DeskInv, DeskTypes, Frozen, Ordering, NamedOrder
  <2>2. CASE UNCHANGED allVars
    BY <2>2 DEF allVars, vars, Charter!charter, Phase, Converting
  <2>3. CASE DeskNext
    <3>1. PICK r \in Requests : Quiet(r) \/ Claim(r) \/ ReleaseClaim(r) \/ ConfirmOrder(r)
      BY <2>3, DeskSteps DEF DeskInv
    <3> QED BY <2>1, <3>1, QuietKeepsCharter, ConversionKeepsCharter
  <2> QED BY <2>2, <2>3
<1> QED BY <1>1, <1>2, DeskInvariance, PTL DEF DeskSpec, KeepsOrderCharter, Charter!Spec
=============================================================================
