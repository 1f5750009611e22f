----------------------------- MODULE ManualOrder -----------------------------
(***************************************************************************)
(* Orders an operator takes by phone: ManualOrderService.createManualOrder   *)
(* writes booking and trip in one transaction, EnquiryService.createEnquiry  *)
(* (source MANUAL) one after the other next to an enquiry the desk can see.   *)
(* The form sends an idempotency key and sends it again when no answer came. *)
(***************************************************************************)
EXTENDS Naturals, FiniteSets, Sequences

CONSTANTS
  Callers,    \* requests of these two endpoints the server may be handling at once
  Keys,       \* idempotency keys, one for each form that is filled in
  NoKey,      \* a booking of the desk carries none
  MaxOrders   \* bound: rows of bookings

ASSUME ManualAssumption == NoKey \notin Keys /\ MaxOrders \in Nat

VARIABLES
  form,       \* which of the two forms a key was made for
  enquiries,  \* the enquiries of the second form, by id
  orders,     \* the bookings, by id, each with the number of its trips
  call,       \* what each running request has found and does next
  answers,    \* history: the bookings that were named in answer to a key; 0 for none
  overtaken   \* history: the keys whose enquiry the desk converted while one of its requests ran

manualVars == <<form, enquiries, orders, call, answers, overtaken>>

Forms == {"createManualOrder", "createEnquiry"}

Waiting == [at |-> "waiting", key |-> NoKey, enquiry |-> 0, order |-> 0]

ManualInit ==
  /\ form \in [Keys -> Forms]
  /\ enquiries = <<>> /\ orders = <<>>
  /\ call = [c \in Callers |-> Waiting]
  /\ answers = {} /\ overtaken = {}

At(c, place) == call[c].at = place
GoTo(c, place) == call' = [call EXCEPT ![c].at = place]
Stop(c) == call' = [call EXCEPT ![c] = Waiting]
Answer(c, order) == Stop(c) /\ answers' = answers \cup {[key |-> call[c].key, order |-> order]}

OrdersOf(key)    == {o \in DOMAIN orders : orders[o].key = key}
EnquiriesOf(key) == {e \in DOMAIN enquiries : enquiries[e].key = key}

Submit(c) ==
  /\ At(c, "waiting")
  /\ \E key \in Keys : call' = [call EXCEPT ![c] = [Waiting EXCEPT !.at = form[key], !.key = key]]
  /\ UNCHANGED <<form, enquiries, orders, answers, overtaken>>

\* Both forms: a booking with the key is the order; the caller gets it and nothing is written.
FindByKey(c) ==
  /\ call[c].at \in Forms
  /\ LET found == OrdersOf(call[c].key)
     IN  IF found # {} THEN \E o \in found : Answer(c, o)
         ELSE /\ GoTo(c, IF At(c, "createManualOrder") THEN "insertOrder" ELSE "findEnquiry")
              /\ UNCHANGED answers
  /\ UNCHANGED <<form, enquiries, orders, overtaken>>

\* Mutant: bookings without the unique index on idempotency_key.
AlwaysFree(key) == TRUE
KeyIsFree(key) == OrdersOf(key) = {}

\* The insert and whatever commits with it; a second booking with the key waits for the first and
\* is then refused.
Insert(c, trips) ==
  orders' = Append(orders, [key |-> call[c].key, trips |-> trips])

\* createManualOrder: booking, trip, financial and delivery row commit together.
InsertOrder(c) ==
  /\ At(c, "insertOrder")
  /\ \/ /\ KeyIsFree(call[c].key) /\ Len(orders) < MaxOrders
        /\ Insert(c, 1) /\ Answer(c, Len(orders) + 1)
     \/ /\ ~KeyIsFree(call[c].key)
        /\ GoTo(c, "fetch") /\ UNCHANGED <<orders, answers>>
  /\ UNCHANGED <<form, enquiries, overtaken>>

\* The order that was there first.
Fetch(c) ==
  /\ At(c, "fetch")
  /\ \E o \in OrdersOf(call[c].key) : Answer(c, o)
  /\ UNCHANGED <<form, enquiries, orders, overtaken>>

\* An attempt that got as far as the enquiry is answered with what the enquiry has, which may be
\* no booking; it is not taken further.
FindEnquiry(c) ==
  /\ At(c, "findEnquiry")
  /\ LET found == EnquiriesOf(call[c].key)
     IN  IF found # {} THEN \E e \in found : Answer(c, enquiries[e].order)
         ELSE GoTo(c, "insertEnquiry") /\ UNCHANGED answers
  /\ UNCHANGED <<form, enquiries, orders, overtaken>>

\* enquiries.idempotency_key is unique; the violation is thrown at the caller.
InsertEnquiry(c) ==
  /\ At(c, "insertEnquiry")
  /\ IF EnquiriesOf(call[c].key) # {} THEN Stop(c) /\ UNCHANGED enquiries
     ELSE /\ enquiries' = Append(enquiries, [key |-> call[c].key, status |-> "OPEN", order |-> 0])
          /\ call' = [call EXCEPT ![c].at = "createBooking", ![c].enquiry = Len(enquiries) + 1]
  /\ UNCHANGED <<form, orders, answers, overtaken>>

\* Mutant: the enquiry is linked before the booking has its trip.
LinksFirst == "link"
AfterBooking == "ensureTrip"

\* createEnquiry: the booking alone.
CreateManualBooking(c) ==
  /\ At(c, "createBooking") /\ Len(orders) < MaxOrders
  /\ IF KeyIsFree(call[c].key)
     THEN /\ Insert(c, 0)
          /\ call' = [call EXCEPT ![c].at = AfterBooking, ![c].order = Len(orders) + 1]
     ELSE GoTo(c, "fetch") /\ UNCHANGED orders
  /\ UNCHANGED <<form, enquiries, answers, overtaken>>

\* ensureTripForBooking
EnsureTrip(c) ==
  /\ At(c, "ensureTrip")
  /\ orders' = [orders EXCEPT ![call[c].order].trips = IF @ = 0 THEN 1 ELSE @]
  /\ GoTo(c, "link")
  /\ UNCHANGED <<form, enquiries, answers, overtaken>>

\* By primary key, whatever the desk has made of the enquiry since.
Link(c) ==
  /\ At(c, "link")
  /\ enquiries' = [enquiries EXCEPT ![call[c].enquiry].status = "CONFIRMED",
                                    ![call[c].enquiry].order = call[c].order]
  /\ Answer(c, call[c].order)
  /\ UNCHANGED <<form, orders, overtaken>>

\* createEnquiry swallows an error after the enquiry is there: the answer is a success that names
\* the booking, if there is one by then.
Fail(c) ==
  /\ call[c].at \in {"createBooking", "ensureTrip", "link"}
  /\ Answer(c, call[c].order)
  /\ UNCHANGED <<form, enquiries, orders, overtaken>>

\* The answer is lost, a transaction rolls back, or the process dies; the operator sends again.
Lose(c) == ~At(c, "waiting") /\ Stop(c) /\ UNCHANGED <<form, enquiries, orders, answers, overtaken>>

\* What the desk makes of an enquiry that is open (EnquiryOrder has the details): an order of its
\* own.
DeskConverts(e) ==
  /\ enquiries[e].status = "OPEN" /\ Len(orders) < MaxOrders
  /\ orders' = Append(orders, [key |-> NoKey, trips |-> 1])
  /\ enquiries' = [enquiries EXCEPT ![e].status = "CONFIRMED", ![e].order = Len(orders) + 1]
  /\ overtaken' = IF \E c \in Callers : call[c].key = enquiries[e].key
                  THEN overtaken \cup {enquiries[e].key} ELSE overtaken
  /\ UNCHANGED <<form, call, answers>>

\* adminCancel asks for no status, and a customer's rejection or cancellation, which does, is
\* written by key after the read: either may fall on an enquiry that is confirmed.
DeskCloses(e) ==
  /\ enquiries[e].status # "CLOSED"
  /\ enquiries' = [enquiries EXCEPT ![e].status = "CLOSED"]
  /\ UNCHANGED <<form, orders, call, answers, overtaken>>

ManualNext ==
  \/ \E c \in Callers :
       \/ Submit(c) \/ FindByKey(c) \/ InsertOrder(c) \/ Fetch(c) \/ FindEnquiry(c)
       \/ InsertEnquiry(c) \/ CreateManualBooking(c) \/ EnsureTrip(c) \/ Link(c)
       \/ Fail(c) \/ Lose(c)
  \/ \E e \in DOMAIN enquiries : DeskConverts(e) \/ DeskCloses(e)

ManualSpec == ManualInit /\ [][ManualNext]_manualVars

-----------------------------------------------------------------------------

\* However often a form is sent, side by side or after a failure, the answers that name a booking
\* name the same one, unless the desk converted the enquiry while one of the requests was running.
AnswersAgree ==
  \A a, b \in answers :
    a.key = b.key /\ a.key \notin overtaken /\ a.order # 0 /\ b.order # 0 => a.order = b.order

\* Whatever failed and wherever: a manual order that is seen as one, because createManualOrder
\* made it or its enquiry names it, has its one trip; a confirmed enquiry has a booking, and one
\* that has a booking is not open any more.
OrdersAreWhole ==
  /\ \A o \in DOMAIN orders :
       /\ orders[o].trips <= 1
       /\ orders[o].key \in Keys /\ form[orders[o].key] = "createManualOrder" => orders[o].trips = 1
  /\ \A e \in DOMAIN enquiries :
       /\ enquiries[e].status = "CONFIRMED" => enquiries[e].order # 0
       /\ enquiries[e].status = "OPEN" => enquiries[e].order = 0
       /\ enquiries[e].order # 0 => orders[enquiries[e].order].trips = 1
=============================================================================
