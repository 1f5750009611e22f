-------------------------- MODULE ManualOrder_proofs --------------------------
(***************************************************************************)
(* An order taken by phone is one order and a whole one, for any number of   *)
(* forms, requests and bookings.                                            *)
(***************************************************************************)
EXTENDS ManualOrder, TLAPS

-----------------------------------------------------------------------------
(***************************************************************************)
(* The inductive invariant.                                                 *)
(***************************************************************************)

\* The one request that made the enquiry of its key and takes it further.
Creating == {"createBooking", "ensureTrip", "link"}
Searching == {"findEnquiry", "insertEnquiry"}
Places == Forms \cup Creating \cup Searching \cup {"waiting", "insertOrder", "fetch"}

OrderRow   == [key : Keys \cup {NoKey}, trips : {0, 1}]
EnquiryRow == [key : Keys, status : {"OPEN", "CONFIRMED", "CLOSED"}, order : Nat]

Call       == [at : Places, key : Keys \cup {NoKey}, enquiry : Nat, order : Nat]
Answers    == [key : Keys, order : Nat]

RowsTyped ==
  /\ form \in [Keys -> Forms]
  /\ orders \in Seq(OrderRow) /\ enquiries \in Seq(EnquiryRow)
  /\ call \in [Callers -> Call]
  /\ answers \subseteq Answers

\* The unique indexes, and what is in the tables is what the form writes.
TablesStand ==
  /\ \A i, j \in DOMAIN orders : orders[i].key \in Keys /\ orders[i].key = orders[j].key => i = j
  /\ \A i, j \in DOMAIN enquiries : enquiries[i].key = enquiries[j].key => i = j
  /\ \A o \in DOMAIN orders :
       orders[o].key \in Keys /\ form[orders[o].key] = "createManualOrder" => orders[o].trips = 1
  /\ \A e \in DOMAIN enquiries :
       /\ form[enquiries[e].key] = "createEnquiry"
       /\ enquiries[e].status = "CONFIRMED" => enquiries[e].order # 0
       /\ enquiries[e].status = "OPEN" => enquiries[e].order = 0
       /\ enquiries[e].order # 0 => enquiries[e].order \in DOMAIN orders
                                    /\ orders[enquiries[e].order].trips = 1

\* What a request at its place x may rely on.
Knows(x) ==
  /\ x.at # "waiting" => x.key \in Keys
  /\ x.at \in Forms => form[x.key] = x.at
  /\ x.at = "insertOrder" => form[x.key] = "createManualOrder"
  /\ x.at \in Creating \cup Searching => form[x.key] = "createEnquiry"
  /\ x.at \in Creating => x.enquiry \in EnquiriesOf(x.key)
  /\ x.at \notin {"ensureTrip", "link"} => x.order = 0
  /\ x.at \in {"ensureTrip", "link"} => x.order \in OrdersOf(x.key)
  /\ x.at = "link" => orders[x.order].trips = 1

\* One request at most takes an enquiry further, and it finds it without a booking unless the desk
\* was faster.
OneCreator ==
  \A c, d \in Callers :
    call[c].at \in Creating =>
      /\ call[d].at \in Creating /\ call[d].key = call[c].key => c = d
      /\ call[c].key \notin overtaken => enquiries[call[c].enquiry].order = 0

\* A request on its way to the enquiry has missed no booking of its key that the enquiry does not name.
NoneMissed ==
  \A c \in Callers : \A e \in EnquiriesOf(call[c].key) :
    call[c].at = "findEnquiry" /\ call[c].key \notin overtaken /\ enquiries[e].order # 0
      => OrdersOf(call[c].key) \subseteq {enquiries[e].order}

\* What may be answered: the booking with the key, or the desk's where there is none.
Right(a) ==
  a.order # 0 /\ a.key \notin overtaken =>
    \/ OrdersOf(a.key) = {a.order}
    \/ OrdersOf(a.key) = {} /\ \E e \in EnquiriesOf(a.key) : enquiries[e].order = a.order

IInv ==
  /\ RowsTyped /\ TablesStand
  /\ \A c \in Callers : Knows(call[c])
  /\ OneCreator /\ NoneMissed
  /\ \A a \in answers : Right(a)

-----------------------------------------------------------------------------
(***************************************************************************)
(* Steps that leave the tables alone: a request goes on or stops.            *)
(***************************************************************************)

LEMMA MoveKeeps ==
  ASSUME IInv, NEW c \in Callers, NEW y \in Call,
         UNCHANGED <<form, orders, enquiries, overtaken>>,
         call' = [call EXCEPT ![c] = y],
         Knows(y),
         y.at \in Creating =>
           call[c].at \in Creating /\ y.key = call[c].key /\ y.enquiry = call[c].enquiry,
         y.at = "findEnquiry" => OrdersOf(y.key) = {},
         answers' \subseteq answers \cup {a \in Answers : Right(a)}
  PROVE  IInv'
<1> USE DEF IInv
<1>1. call' \in [Callers -> Call] /\ (\A d \in Callers : call'[d] = IF d = c THEN y ELSE call[d])
  BY DEF RowsTyped
<1>2. RowsTyped'
  BY <1>1 DEF RowsTyped
<1>3. TablesStand'
  BY DEF TablesStand
<1>4. (\A d \in Callers : Knows(call[d]))'
  BY <1>1 DEF Knows, OrdersOf, EnquiriesOf
<1>5. OneCreator'
  BY <1>1 DEF OneCreator
<1>6. NoneMissed'
  BY <1>1 DEF NoneMissed, OrdersOf, EnquiriesOf
<1>7. (\A x \in answers : Right(x))'
  BY DEF Right, OrdersOf, EnquiriesOf
<1> QED BY <1>2, <1>3, <1>4, <1>5, <1>6, <1>7

LEMMA StopKeeps ==
  ASSUME IInv, NEW c \in Callers, Stop(c), UNCHANGED <<form, enquiries, orders, answers, overtaken>>
  PROVE  IInv'
<1>1. Waiting \in Call /\ Knows(Waiting)
  BY DEF Waiting, Call, Places, Knows, Creating, Searching, Forms
<1> QED BY <1>1, MoveKeeps DEF Stop, Waiting, Creating, IInv

LEMMA AnswerKeeps ==
  ASSUME IInv, NEW c \in Callers, call[c].key \in Keys, NEW o \in Nat, Answer(c, o),
         Right([key |-> call[c].key, order |-> o]), UNCHANGED <<form, enquiries, orders, overtaken>>
  PROVE  IInv'
<1> DEFINE a == [key |-> call[c].key, order |-> o]
<1>1. Waiting \in Call /\ Knows(Waiting)
  BY DEF Waiting, Call, Places, Knows, Creating, Searching, Forms
<1>2. a \in Answers /\ answers' = answers \cup {a} /\ Right(a)
  BY DEF Answers, Answer
<1>3. answers' \subseteq answers \cup {x \in Answers : Right(x)}
  BY <1>2
<1> HIDE DEF a
<1> QED BY <1>1, <1>3, MoveKeeps DEF Answer, Stop, Waiting, Creating

LEMMA GoToKeeps ==
  ASSUME IInv, NEW c \in Callers, NEW place \in Places, GoTo(c, place),
         Knows([call[c] EXCEPT !.at = place]), place \in Creating => call[c].at \in Creating,
         place = "findEnquiry" => OrdersOf(call[c].key) = {},
         UNCHANGED <<form, enquiries, orders, answers, overtaken>>
  PROVE  IInv'
<1> DEFINE y == [call[c] EXCEPT !.at = place]
<1>1. y \in Call /\ y.at = place /\ y.key = call[c].key /\ y.enquiry = call[c].enquiry
  BY DEF IInv, RowsTyped, Call
<1>2. call' = [call EXCEPT ![c] = y] /\ Knows(y)
  BY DEF GoTo
<1> HIDE DEF y
<1> QED BY <1>1, <1>2, MoveKeeps

\* A booking with the key is the one that may be answered.
LEMMA FoundIsRight ==
  ASSUME IInv, NEW k \in Keys, NEW o \in OrdersOf(k)
  PROVE  o \in Nat /\ Right([key |-> k, order |-> o])
<1>1. o \in Nat
  BY DEF OrdersOf, IInv, RowsTyped
<1>2. OrdersOf(k) = {o}
  BY DEF OrdersOf, IInv, TablesStand
<1> QED BY <1>1, <1>2 DEF Right

LEMMA MovesKeep ==
  ASSUME IInv, NEW c \in Callers,
         \/ Submit(c) \/ FindByKey(c) \/ Fetch(c) \/ FindEnquiry(c) \/ Fail(c) \/ Lose(c)
  PROVE  IInv'
<1> DEFINE k == call[c].key
<1>0. /\ call[c] \in Call /\ Knows(call[c])
      /\ call[c].at # "waiting" => k \in Keys
  BY DEF IInv, RowsTyped, Knows
<1>1. CASE Submit(c)
  <2>1. PICK key \in Keys : call' = [call EXCEPT ![c] = [Waiting EXCEPT !.at = form[key], !.key = key]]
    BY <1>1 DEF Submit
  <2> DEFINE y == [Waiting EXCEPT !.at = form[key], !.key = key]
  <2>2. form[key] \in Forms
    BY DEF IInv, RowsTyped
  <2>3. y \in Call /\ Knows(y) /\ y.at \notin Creating /\ y.at # "findEnquiry"
    BY <2>2 DEF Waiting, Call, Places, Knows, Creating, Searching, Forms
  <2> HIDE DEF y
  <2> QED BY <1>1, <2>1, <2>3, MoveKeeps DEF Submit, y
<1>2. CASE FindByKey(c)
  <2>0. k \in Keys
    BY <1>0, <1>2 DEF FindByKey, Forms
  <2>1. CASE OrdersOf(k) # {}
    <3>1. PICK o \in OrdersOf(k) : Answer(c, o)
      BY <1>2, <2>1 DEF FindByKey
    <3> QED BY <1>2, <2>0, <3>1, FoundIsRight, AnswerKeeps DEF FindByKey
  <2>2. CASE OrdersOf(k) = {}
    <3> DEFINE place == IF At(c, "createManualOrder") THEN "insertOrder" ELSE "findEnquiry"
    <3>1. GoTo(c, place)
      BY <1>2, <2>2 DEF FindByKey
    <3>2. place \in Places /\ place \notin Creating
      BY DEF Places, Creating, Searching
    <3>3. Knows([call[c] EXCEPT !.at = place])
      BY <1>0, <1>2 DEF Knows, FindByKey, Forms, At, Creating, Searching, Call
    <3> HIDE DEF place
    <3> QED BY <1>2, <2>2, <3>1, <3>2, <3>3, GoToKeeps DEF FindByKey
  <2> QED BY <2>1, <2>2
<1>3. CASE Fetch(c)
  <2>0. k \in Keys
    BY <1>0, <1>3 DEF Fetch, At
  <2>1. PICK o \in OrdersOf(k) : Answer(c, o)
    BY <1>3 DEF Fetch
  <2> QED BY <1>3, <2>0, <2>1, FoundIsRight, AnswerKeeps DEF Fetch
<1>4. CASE FindEnquiry(c)
  <2>0. k \in Keys
    BY <1>0, <1>4 DEF FindEnquiry, At
  <2>1. CASE EnquiriesOf(k) # {}
    <3>1. PICK e \in EnquiriesOf(k) : Answer(c, enquiries[e].order)
      BY <1>4, <2>1 DEF FindEnquiry
    <3> DEFINE o == enquiries[e].order
    <3>2. o \in Nat
      <4>1. enquiries[e] \in EnquiryRow
        BY DEF IInv, RowsTyped, EnquiriesOf
      <4> QED BY <4>1 DEF EnquiryRow
    <3>3. k \notin overtaken /\ o # 0 => OrdersOf(k) \subseteq {o}
      BY <1>4 DEF IInv, NoneMissed, FindEnquiry, At
    <3>4. Right([key |-> k, order |-> o])
      BY <3>3 DEF Right
    <3> QED BY <1>4, <2>0, <3>1, <3>2, <3>4, AnswerKeeps DEF FindEnquiry
  <2>2. CASE EnquiriesOf(k) = {}
    <3>1. GoTo(c, "insertEnquiry") /\ UNCHANGED answers
      BY <1>4, <2>2 DEF FindEnquiry
    <3>2. Knows([call[c] EXCEPT !.at = "insertEnquiry"])
      BY <1>0, <1>4 DEF Knows, FindEnquiry, Forms, At, Creating, Searching, Call
    <3> QED BY <1>4, <3>1, <3>2, GoToKeeps DEF FindEnquiry, Places, Creating, Searching
  <2> QED BY <2>1, <2>2
<1>5. CASE Fail(c)
  <2>1. k \in Keys /\ call[c].order \in Nat /\ (call[c].order = 0 \/ call[c].order \in OrdersOf(k))
    BY <1>0, <1>5 DEF Fail, Knows, Creating, Call
  <2>2. Right([key |-> k, order |-> call[c].order])
    BY <2>1, FoundIsRight DEF Right
  <2> QED BY <1>5, <2>1, <2>2, AnswerKeeps DEF Fail
<1>6. CASE Lose(c)
  BY <1>6, StopKeeps DEF Lose
<1> QED BY <1>1, <1>2, <1>3, <1>4, <1>5, <1>6

-----------------------------------------------------------------------------
(***************************************************************************)
(* Steps that write.                                                        *)
(***************************************************************************)

\* What a row more in the table of the bookings changes.
LEMMA OrderAdded ==
  ASSUME orders \in Seq(OrderRow), NEW row \in OrderRow, orders' = Append(orders, row)
  PROVE  /\ orders' \in Seq(OrderRow)
         /\ Len(orders) + 1 \in Nat \ {0} /\ Len(orders) + 1 \notin DOMAIN orders
         /\ DOMAIN orders' = DOMAIN orders \cup {Len(orders) + 1}
         /\ \A o \in DOMAIN orders : orders'[o] = orders[o]
         /\ orders'[Len(orders) + 1] = row
         /\ \A key : OrdersOf(key)' =
                OrdersOf(key) \cup (IF row.key = key THEN {Len(orders) + 1} ELSE {})
<1>1. /\ orders' \in Seq(OrderRow)
      /\ Len(orders) + 1 \in Nat \ {0} /\ Len(orders) + 1 \notin DOMAIN orders
      /\ DOMAIN orders' = DOMAIN orders \cup {Len(orders) + 1}
      /\ \A o \in DOMAIN orders : orders'[o] = orders[o]
      /\ orders'[Len(orders) + 1] = row
  OBVIOUS
<1> QED BY <1>1 DEF OrdersOf

\* A booking is written for a key that had none and that no enquiry gave to another booking, and
\* the request that wrote it answers with it or goes on to its trip.
LEMMA BookedKeeps ==
  ASSUME IInv, NEW c \in Callers, NEW y \in Call, NEW t \in {0, 1},
         call[c].key \in Keys, KeyIsFree(call[c].key), Insert(c, t),
         call' = [call EXCEPT ![c] = y], UNCHANGED <<form, enquiries, overtaken>>,
         form[call[c].key] = "createManualOrder" => t = 1,
         \A e \in EnquiriesOf(call[c].key) :
           call[c].key \notin overtaken => enquiries[e].order = 0,
         \/ /\ y = Waiting
            /\ answers' = answers \cup {[key |-> call[c].key, order |-> Len(orders) + 1]}
         \/ /\ UNCHANGED answers
            /\ call[c].at \in Creating /\ y.at = "ensureTrip" /\ y.key = call[c].key
            /\ y.enquiry = call[c].enquiry /\ y.order = Len(orders) + 1
  PROVE  IInv'
<1> USE DEF IInv
<1>k. PICK k \in Keys : k = call[c].key
  OBVIOUS
<1>o. PICK o \in Nat \ {0} : o = Len(orders) + 1
  BY DEF RowsTyped
<1> DEFINE row == [key |-> k, trips |-> t]
           a == [key |-> k, order |-> o]
<1>0. row \in OrderRow /\ orders \in Seq(OrderRow) /\ orders' = Append(orders, row)
  BY <1>k DEF OrderRow, RowsTyped, Insert
<1>1. /\ orders' \in Seq(OrderRow)
      /\ o \in Nat \ {0} /\ o \notin DOMAIN orders
      /\ DOMAIN orders' = DOMAIN orders \cup {o}
      /\ \A i \in DOMAIN orders : orders'[i] = orders[i]
      /\ orders'[o].key = k /\ orders'[o].trips = t
  <2> HIDE DEF row
  <2>1. orders'[o] = row
    BY <1>0, <1>o, OrderAdded
  <2> QED BY <1>0, <1>o, <2>1, OrderAdded DEF row
<1>2. OrdersOf(k) = {} /\ OrdersOf(k)' = {o}
  BY <1>k, <1>1 DEF OrdersOf, KeyIsFree
<1>3. \A key : key # k => OrdersOf(key)' = OrdersOf(key)
  BY <1>1 DEF OrdersOf
<1>4. \A key : EnquiriesOf(key)' = EnquiriesOf(key)
  BY DEF EnquiriesOf
<1>5. call' \in [Callers -> Call] /\ \A d \in Callers : call'[d] = IF d = c THEN y ELSE call[d]
  BY DEF RowsTyped
<1>6. a \in Answers /\ a.key = k /\ a.order = o /\ (answers' = answers \/ answers' = answers \cup {a})
  BY <1>k, <1>o DEF Answers
<1> HIDE DEF row, a
<1>7. RowsTyped'
  BY <1>1, <1>5, <1>6 DEF RowsTyped
<1>8. TablesStand'
  BY <1>k, <1>1, <1>2 DEF TablesStand, OrdersOf
<1>9. (\A d \in Callers : Knows(call[d]))'
  <2>1. Knows(y)'
    BY <1>k, <1>o, <1>2, <1>4 DEF Knows, Waiting, Creating, Searching, Forms
  <2>2. ASSUME NEW d \in Callers  PROVE Knows(call[d])'
    BY <2>1, <2>2, <1>1, <1>2, <1>3, <1>4, <1>5 DEF Knows, OrdersOf
  <2> QED BY <2>2
<1>10. OneCreator'
  BY <1>5 DEF OneCreator, Creating, Waiting
<1>11. NoneMissed'
  <2>1. y.at # "findEnquiry"
    BY DEF Waiting
  <2>2. SUFFICES ASSUME NEW d \in Callers, d # c, NEW i \in EnquiriesOf(call[d].key),
                        call[d].at = "findEnquiry", call[d].key \notin overtaken,
                        enquiries[i].order # 0
                 PROVE  OrdersOf(call[d].key)' \subseteq {enquiries[i].order}
    BY <2>1, <1>4, <1>5, ZenonT(40) DEF NoneMissed
  <2>3. call[d].key # k /\ call'[d] = call[d]
    BY <1>k, <1>5, <2>2
  <2>4. OrdersOf(call[d].key) \subseteq {enquiries[i].order}
    BY <2>2 DEF NoneMissed
  <2>5. PICK key : key = call[d].key
    OBVIOUS
  <2> QED BY <1>3, <2>3, <2>4, <2>5
<1>12. (\A x \in answers : Right(x))'
  <2>1. ASSUME NEW x \in answers  PROVE Right(x)'
    BY <2>1, <1>k, <1>2, <1>3, <1>4 DEF Right
  <2>2. ASSUME NEW x \in Answers, x = a  PROVE Right(x)'
    BY <2>2, <1>2, <1>6 DEF Right
  <2> QED BY <2>1, <2>2, <1>6
<1> QED BY <1>7, <1>8, <1>9, <1>10, <1>11, <1>12

LEMMA InsertOrderKeeps ==
  ASSUME IInv, NEW c \in Callers, InsertOrder(c)
  PROVE  IInv'
<1> DEFINE k == call[c].key
<1>1. call[c] \in Call /\ Knows(call[c]) /\ k \in Keys /\ form[k] = "createManualOrder"
  BY DEF IInv, RowsTyped, Knows, InsertOrder, At
<1>2. CASE KeyIsFree(k)
  <2>1. Insert(c, 1) /\ Answer(c, Len(orders) + 1)
    BY <1>2 DEF InsertOrder
  <2>2. EnquiriesOf(k) = {}
    BY <1>1 DEF IInv, TablesStand, EnquiriesOf
  <2>3. Waiting \in Call
    BY DEF Waiting, Call, Places
  <2> QED BY <1>1, <1>2, <2>1, <2>2, <2>3, BookedKeeps DEF Answer, Stop, InsertOrder
<1>3. CASE ~KeyIsFree(k)
  <2>1. GoTo(c, "fetch") /\ UNCHANGED <<orders, answers>>
    BY <1>3 DEF InsertOrder
  <2>2. Knows([call[c] EXCEPT !.at = "fetch"])
    BY <1>1 DEF Knows, InsertOrder, At, Forms, Creating, Searching, Call
  <2> QED BY <2>1, <2>2, GoToKeeps DEF InsertOrder, Places, Creating
<1> QED BY <1>2, <1>3

LEMMA CreateManualBookingKeeps ==
  ASSUME IInv, NEW c \in Callers, CreateManualBooking(c)
  PROVE  IInv'
<1> DEFINE k == call[c].key
<1>1. /\ call[c] \in Call /\ Knows(call[c]) /\ k \in Keys /\ form[k] = "createEnquiry"
      /\ call[c].at = "createBooking" /\ call[c].enquiry \in EnquiriesOf(k)
  BY DEF IInv, RowsTyped, Knows, CreateManualBooking, At, Creating
<1>2. CASE KeyIsFree(k)
  <2> DEFINE y == [call[c] EXCEPT !.at = "ensureTrip", !.order = Len(orders) + 1]
  <2>1. Insert(c, 0) /\ call' = [call EXCEPT ![c] = y]
    BY <1>2 DEF CreateManualBooking, AfterBooking
  <2>2. Len(orders) + 1 \in Nat
    BY DEF IInv, RowsTyped
  <2>3. /\ y \in Call /\ y.at = "ensureTrip" /\ y.key = k
        /\ y.enquiry = call[c].enquiry /\ y.order = Len(orders) + 1
    BY <1>1, <2>2 DEF Call, Places, Creating
  <2>4. \A e \in EnquiriesOf(k) : k \notin overtaken => enquiries[e].order = 0
    BY <1>1 DEF IInv, OneCreator, TablesStand, EnquiriesOf, Creating
  <2> HIDE DEF y
  <2> QED BY <1>1, <1>2, <2>1, <2>3, <2>4, BookedKeeps DEF CreateManualBooking, Creating
<1>3. CASE ~KeyIsFree(k)
  <2>1. GoTo(c, "fetch") /\ UNCHANGED orders
    BY <1>3 DEF CreateManualBooking
  <2>2. Knows([call[c] EXCEPT !.at = "fetch"])
    BY <1>1 DEF Knows, Forms, Creating, Searching, Call
  <2> QED BY <2>1, <2>2, GoToKeeps DEF CreateManualBooking, Places, Creating
<1> QED BY <1>2, <1>3

LEMMA InsertEnquiryKeeps ==
  ASSUME IInv, NEW c \in Callers, InsertEnquiry(c)
  PROVE  IInv'
<1>k. PICK k \in Keys : k = call[c].key
  BY DEF IInv, InsertEnquiry, At, Knows
<1>e. PICK e \in Nat \ {0} : e = Len(enquiries) + 1
  BY DEF IInv, RowsTyped
<1>1. /\ call[c] \in Call /\ Knows(call[c]) /\ form[k] = "createEnquiry"
      /\ call[c].at = "insertEnquiry"
  BY <1>k DEF IInv, RowsTyped, Knows, InsertEnquiry, At, Searching
<1>2. CASE EnquiriesOf(k) # {}
  BY <1>k, <1>2, StopKeeps DEF InsertEnquiry
<1>3. CASE EnquiriesOf(k) = {}
  <2> DEFINE row == [key |-> k, status |-> "OPEN", order |-> 0]
  <2>y. PICK y \in Call : y = [call[c] EXCEPT !.at = "createBooking", !.enquiry = e]
    BY <1>1 DEF Call, Places, Creating
  <2>1. /\ enquiries' = Append(enquiries, row)
        /\ call' = [call EXCEPT ![c] = y]
        /\ UNCHANGED <<form, orders, answers, overtaken>>
    BY <1>k, <1>e, <1>3, <2>y DEF InsertEnquiry
  <2>2. row \in EnquiryRow /\ enquiries \in Seq(EnquiryRow)
    BY DEF IInv, RowsTyped, EnquiryRow
  <2>3. /\ enquiries' \in Seq(EnquiryRow) /\ e \notin DOMAIN enquiries
        /\ DOMAIN enquiries' = DOMAIN enquiries \cup {e}
        /\ \A i \in DOMAIN enquiries : enquiries'[i] = enquiries[i]
        /\ enquiries'[e] = row
    <3> HIDE DEF row
    <3> QED BY <1>e, <2>1, <2>2
  <2>4. row.key = k /\ row.status = "OPEN" /\ row.order = 0
    OBVIOUS
  <2>5. y.at = "createBooking" /\ y.key = k /\ y.enquiry = e /\ y.order = 0
    BY <1>k, <1>1, <2>y DEF Call, Knows
  <2> HIDE DEF row
  <2>6. \A d \in Callers : call'[d] = IF d = c THEN y ELSE call[d]
    BY <2>1 DEF IInv, RowsTyped
  <2>7. EnquiriesOf(k)' = {e} /\ \A key : key # k => EnquiriesOf(key)' = EnquiriesOf(key)
    BY <1>3, <2>3, <2>4 DEF EnquiriesOf
  <2>8. \A key : OrdersOf(key)' = OrdersOf(key)
    BY <2>1 DEF OrdersOf
  <2> USE DEF IInv
  <2>9. RowsTyped'
    BY <2>1, <2>3, <2>5 DEF RowsTyped
  <2>10. TablesStand'
    <3>1. form[k] = "createEnquiry"
      BY <1>1
    <3> QED BY <1>3, <2>1, <2>3, <2>4, <3>1 DEF TablesStand, EnquiriesOf
  <2>11. (\A d \in Callers : Knows(call[d]))'
    <3>1. Knows(y)'
      BY <1>1, <2>1, <2>5, <2>7 DEF Knows, Forms, Creating, Searching
    <3>2. ASSUME NEW d \in Callers, d # c  PROVE Knows(call[d])'
      <4>1. Knows(call[d]) /\ call'[d] = call[d]
        BY <2>6, <3>2
      <4> QED BY <4>1, <1>3, <2>1, <2>7, <2>8 DEF Knows
    <3> QED BY <2>6, <3>1, <3>2
  <2>12. OneCreator'
    <3>1. \A d \in Callers : call[d].at \in Creating =>
            call[d].key # k /\ call[d].enquiry \in DOMAIN enquiries
      BY <1>3 DEF Knows, EnquiriesOf
    <3> QED BY <2>1, <2>3, <2>4, <2>5, <2>6, <3>1 DEF OneCreator, Creating
  <2>13. NoneMissed'
    <3>1. \A key : \A i \in EnquiriesOf(key) : i \in DOMAIN enquiries
      BY DEF EnquiriesOf
    <3>2. ASSUME NEW d \in Callers, d # c, NEW i \in EnquiriesOf(call[d].key)',
                 call'[d].at = "findEnquiry", call'[d].key \notin overtaken', enquiries'[i].order # 0
          PROVE  OrdersOf(call[d].key)' \subseteq {enquiries'[i].order}
      <4>1. PICK key : key = call[d].key
        OBVIOUS
      <4>2. call'[d] = call[d] /\ EnquiriesOf(call[d].key)' = EnquiriesOf(key)'
        BY <2>6, <3>2, <4>1
      <4>3. key # k
        BY <2>3, <2>4, <2>7, <3>2, <4>2
      <4>4. i \in EnquiriesOf(key) /\ enquiries'[i] = enquiries[i]
        BY <2>3, <2>7, <3>1, <3>2, <4>2, <4>3
      <4>5. OrdersOf(key) \subseteq {enquiries[i].order}
        <5>1. i \in EnquiriesOf(call[d].key) /\ call[d].at = "findEnquiry"
              /\ call[d].key \notin overtaken /\ enquiries[i].order # 0
          BY <2>1, <3>2, <4>1, <4>2, <4>4
        <5>2. OrdersOf(call[d].key) \subseteq {enquiries[i].order}
          BY <5>1 DEF NoneMissed
        <5> QED BY <4>1, <5>2
      <4> QED BY <2>8, <4>1, <4>2, <4>4, <4>5
    <3> QED BY <2>5, <2>6, <3>2 DEF NoneMissed
  <2>14. (\A x \in answers : Right(x))'
    <3>1. SUFFICES ASSUME NEW x \in answers, x.order # 0, x.key \notin overtaken,
                          OrdersOf(x.key) = {},
                          NEW i \in EnquiriesOf(x.key), enquiries[i].order = x.order
                   PROVE  i \in EnquiriesOf(x.key)' /\ enquiries'[i].order = x.order
      BY <2>1, <2>8 DEF Right
    <3>2. i \in DOMAIN enquiries /\ x.key # k
      BY <1>3, <3>1 DEF EnquiriesOf
    <3>3. EnquiriesOf(x.key)' = EnquiriesOf(x.key)
      BY <2>1, <2>7, <3>2
    <3> QED BY <2>3, <3>1, <3>2, <3>3
  <2> QED BY <2>9, <2>10, <2>11, <2>12, <2>13, <2>14
<1> QED BY <1>2, <1>3

LEMMA EnsureTripKeeps ==
  ASSUME IInv, NEW c \in Callers, EnsureTrip(c)
  PROVE  IInv'
<1>k. PICK k \in Keys : k = call[c].key
  BY DEF IInv, EnsureTrip, At, Knows
<1>o. PICK o \in OrdersOf(k) : o = call[c].order
  BY <1>k DEF IInv, EnsureTrip, At, Knows
<1>y. PICK y \in Call : y = [call[c] EXCEPT !.at = "link"]
  BY DEF IInv, RowsTyped, Call, Places, Creating
<1>1. /\ call[c] \in Call /\ Knows(call[c]) /\ form[k] = "createEnquiry"
      /\ call[c].at = "ensureTrip" /\ call[c].enquiry \in EnquiriesOf(k)
  BY <1>k DEF IInv, RowsTyped, Knows, EnsureTrip, At, Creating
<1>2. /\ orders \in Seq(OrderRow) /\ o \in DOMAIN orders
      /\ orders' = [orders EXCEPT ![o].trips = IF @ = 0 THEN 1 ELSE @]
      /\ call' = [call EXCEPT ![c] = y]
      /\ UNCHANGED <<form, enquiries, answers, overtaken>>
  BY <1>o, <1>y DEF IInv, RowsTyped, EnsureTrip, GoTo, OrdersOf
<1>3. /\ orders' \in Seq(OrderRow) /\ DOMAIN orders' = DOMAIN orders
      /\ \A i \in DOMAIN orders : /\ orders'[i].key = orders[i].key
                                  /\ i # o => orders'[i] = orders[i]
      /\ orders'[o].trips = 1
  <2>1. \A i \in DOMAIN orders : orders[i] \in OrderRow
    BY <1>2
  <2>2. [orders[o] EXCEPT !.trips = IF @ = 0 THEN 1 ELSE @] \in OrderRow
    BY <1>2, <2>1 DEF OrderRow
  <2>3. orders[o].trips \in {0, 1}
    BY <1>2, <2>1 DEF OrderRow
  <2>4. orders' \in Seq(OrderRow)
    BY <1>2, <2>2
  <2>5. DOMAIN orders' = DOMAIN orders
    BY <1>2
  <2>6. orders[o] \in OrderRow
    BY <1>2, <2>1
  <2> QED BY <1>2, <2>3, <2>4, <2>5, <2>6 DEF OrderRow
<1>4. \A key : OrdersOf(key)' = OrdersOf(key)
  BY <1>3 DEF OrdersOf
<1>5. \A key : EnquiriesOf(key)' = EnquiriesOf(key)
  BY <1>2 DEF EnquiriesOf
<1>6. y.at = "link" /\ y.key = k /\ y.order = o /\ y.enquiry = call[c].enquiry
  BY <1>k, <1>o, <1>y, <1>1 DEF Call
<1>7. \A d \in Callers : call'[d] = IF d = c THEN y ELSE call[d]
  BY <1>2 DEF IInv, RowsTyped
<1> USE DEF IInv
<1>8. RowsTyped'
  BY <1>2, <1>3, <1>6 DEF RowsTyped
<1>9. TablesStand'
  BY <1>2, <1>3 DEF TablesStand
<1>10. (\A d \in Callers : Knows(call[d]))'
  <2>1. Knows(y)'
    BY <1>o, <1>1, <1>2, <1>3, <1>4, <1>5, <1>6 DEF Knows, Forms, Creating, Searching
  <2>2. ASSUME NEW d \in Callers, d # c  PROVE Knows(call[d])'
    <3>1. Knows(call[d]) /\ call'[d] = call[d]
      BY <1>7, <2>2
    <3> QED BY <3>1, <1>2, <1>3, <1>4, <1>5 DEF Knows, OrdersOf
  <2> QED BY <1>7, <2>1, <2>2
<1>11. OneCreator'
  BY <1>k, <1>1, <1>2, <1>6, <1>7 DEF OneCreator, Creating
<1>12. NoneMissed'
  BY <1>2, <1>4, <1>5, <1>6, <1>7, SMTT(30) DEF NoneMissed
<1>13. (\A x \in answers : Right(x))'
  BY <1>2, <1>4, <1>5 DEF Right
<1> QED BY <1>8, <1>9, <1>10, <1>11, <1>12, <1>13

LEMMA LinkKeeps ==
  ASSUME IInv, NEW c \in Callers, Link(c)
  PROVE  IInv'
<1>k. PICK k \in Keys : k = call[c].key
  BY DEF IInv, Link, At, Knows
<1>o. PICK o \in OrdersOf(k) : o = call[c].order
  BY <1>k DEF IInv, Link, At, Knows
<1>e. PICK e \in EnquiriesOf(k) : e = call[c].enquiry
  BY <1>k DEF IInv, Link, At, Knows, Creating
<1>1. /\ call[c] \in Call /\ Knows(call[c]) /\ form[k] = "createEnquiry"
      /\ call[c].at = "link" /\ orders[o].trips = 1
  BY <1>k, <1>o DEF IInv, RowsTyped, Knows, Link, At, Creating
<1>2. o \in DOMAIN orders /\ o \in Nat \ {0} /\ OrdersOf(k) = {o}
  BY DEF IInv, RowsTyped, TablesStand, OrdersOf
<1>3. /\ enquiries' = [enquiries EXCEPT ![e].status = "CONFIRMED", ![e].order = o]
      /\ answers' = answers \cup {[key |-> k, order |-> o]}
      /\ call' = [call EXCEPT ![c] = Waiting]
      /\ UNCHANGED <<form, orders, overtaken>>
  BY <1>k, <1>o, <1>e DEF Link, Answer, Stop
<1>4. /\ enquiries' \in Seq(EnquiryRow) /\ DOMAIN enquiries' = DOMAIN enquiries
      /\ \A i \in DOMAIN enquiries : /\ enquiries'[i].key = enquiries[i].key
                                     /\ i # e => enquiries'[i] = enquiries[i]
      /\ enquiries'[e].order = o /\ enquiries'[e].status = "CONFIRMED"
  <2>1. enquiries \in Seq(EnquiryRow) /\ e \in DOMAIN enquiries
    BY DEF IInv, RowsTyped, EnquiriesOf
  <2>2. enquiries[e] \in EnquiryRow
    BY <2>1
  <2>3. PICK row \in EnquiryRow : row = [enquiries[e] EXCEPT !.status = "CONFIRMED", !.order = o]
    BY <1>2, <2>2 DEF EnquiryRow
  <2>4. enquiries' = [enquiries EXCEPT ![e] = row]
    BY <1>3, <2>1, <2>3
  <2>5. row.key = enquiries[e].key /\ row.order = o /\ row.status = "CONFIRMED"
    BY <2>2, <2>3 DEF EnquiryRow
  <2> QED BY <2>1, <2>4, <2>5
<1>5. \A key : OrdersOf(key)' = OrdersOf(key)
  BY <1>3 DEF OrdersOf
<1>6. \A key : EnquiriesOf(key)' = EnquiriesOf(key)
  BY <1>4 DEF EnquiriesOf
<1>7. \A d \in Callers : call'[d] = IF d = c THEN Waiting ELSE call[d]
  BY <1>3 DEF IInv, RowsTyped
<1> USE DEF IInv
<1>8. RowsTyped'
  <2>1. Waiting \in Call
    BY DEF Waiting, Call, Places
  <2>2. [key |-> k, order |-> o] \in Answers
    BY <1>2 DEF Answers
  <2> QED BY <1>3, <1>4, <2>1, <2>2 DEF RowsTyped
<1>9. TablesStand'
  BY <1>1, <1>2, <1>3, <1>4 DEF TablesStand
<1>10. (\A d \in Callers : Knows(call[d]))'
  <2>1. ASSUME NEW d \in Callers, d # c  PROVE Knows(call[d])'
    <3>1. Knows(call[d]) /\ call'[d] = call[d]
      BY <1>7, <2>1
    <3> QED BY <3>1, <1>3, <1>5, <1>6 DEF Knows
  <2>2. ASSUME NEW d \in Callers, d = c  PROVE Knows(call[d])'
    <3>1. call'[d] = Waiting
      BY <1>7, <2>2
    <3> QED BY <3>1 DEF Knows, Waiting, Forms, Creating, Searching
  <2> QED BY <2>1, <2>2
<1>11. OneCreator'
  <2>1. ASSUME NEW d \in Callers, d # c, call[d].at \in Creating
        PROVE  call[d].enquiry \in DOMAIN enquiries /\ call[d].enquiry # e
    <3>1. call[d].enquiry \in EnquiriesOf(call[d].key) /\ call[d].key # k
      BY <1>k, <1>1, <2>1 DEF OneCreator, Knows, Creating
    <3> QED BY <3>1 DEF EnquiriesOf
  <2> QED BY <1>3, <1>4, <1>7, <2>1 DEF OneCreator, Creating, Waiting
<1>12. NoneMissed'
  <2>1. ASSUME NEW d \in Callers, d # c, NEW i \in EnquiriesOf(call[d].key)',
               call'[d].at = "findEnquiry", call'[d].key \notin overtaken', enquiries'[i].order # 0
        PROVE  OrdersOf(call[d].key)' \subseteq {enquiries'[i].order}
    <3>1. PICK key : key = call[d].key
      OBVIOUS
    <3>2. call'[d] = call[d] /\ i \in EnquiriesOf(key) /\ i \in DOMAIN enquiries
      BY <1>6, <1>7, <2>1, <3>1 DEF EnquiriesOf
    <3>3. CASE i = e
      <4>1. key = k
        BY <3>2, <3>3 DEF EnquiriesOf
      <4> QED BY <1>2, <1>4, <1>5, <3>1, <3>2, <3>3, <4>1
    <3>4. CASE i # e
      <4>1. enquiries'[i] = enquiries[i]
        BY <1>4, <3>2, <3>4
      <4>2. OrdersOf(key) \subseteq {enquiries[i].order}
        <5>1. i \in EnquiriesOf(call[d].key) /\ call[d].at = "findEnquiry"
              /\ call[d].key \notin overtaken /\ enquiries[i].order # 0
          <6>1. i \in EnquiriesOf(call[d].key)
            BY <3>1, <3>2
          <6>2. call[d].at = "findEnquiry" /\ call[d].key \notin overtaken
            BY <1>3, <2>1, <3>2
          <6>3. enquiries[i].order # 0
            BY <2>1, <4>1
          <6> QED BY <6>1, <6>2, <6>3
        <5>2. OrdersOf(call[d].key) \subseteq {enquiries[i].order}
          BY <5>1 DEF NoneMissed
        <5> QED BY <3>1, <5>2
      <4> QED BY <1>5, <3>1, <3>2, <4>1, <4>2
    <3> QED BY <3>3, <3>4
  <2> QED BY <1>7, <2>1 DEF NoneMissed, Waiting
<1>13. (\A x \in answers : Right(x))'
  <2>1. ASSUME NEW x \in answers  PROVE Right(x)'
    <3>1. SUFFICES ASSUME x.order # 0, x.key \notin overtaken, OrdersOf(x.key) = {},
                          NEW i \in EnquiriesOf(x.key), enquiries[i].order = x.order
                   PROVE  i \in EnquiriesOf(x.key)' /\ enquiries'[i].order = x.order
      BY <1>3, <1>5 DEF Right
    <3>2. x.key # k /\ i \in DOMAIN enquiries /\ i # e
      <4>1. x.key # k
        <5>1. OrdersOf(k) # {}
          BY <1>2
        <5> QED BY <3>1, <5>1
      <4> QED BY <4>1, <3>1 DEF EnquiriesOf
    <3>3. EnquiriesOf(x.key)' = EnquiriesOf(x.key)
      BY <1>6
    <3> QED BY <1>4, <3>1, <3>2, <3>3
  <2>2. ASSUME NEW x \in Answers, x = [key |-> k, order |-> o]  PROVE Right(x)'
    BY <1>2, <1>5, <2>2 DEF Right
  <2>3. [key |-> k, order |-> o] \in Answers
    BY <1>2 DEF Answers
  <2> QED BY <1>3, <2>1, <2>2, <2>3
<1> QED BY <1>8, <1>9, <1>10, <1>11, <1>12, <1>13

-----------------------------------------------------------------------------
(***************************************************************************)
(* The desk's steps.                                                        *)
(***************************************************************************)

LEMMA DeskClosesKeeps ==
  ASSUME IInv, NEW e \in DOMAIN enquiries, DeskCloses(e)
  PROVE  IInv'
<1>1. /\ enquiries' = [enquiries EXCEPT ![e].status = "CLOSED"]
      /\ UNCHANGED <<form, orders, call, answers, overtaken>>
  BY DEF DeskCloses
<1>2. /\ enquiries' \in Seq(EnquiryRow) /\ DOMAIN enquiries' = DOMAIN enquiries
      /\ \A i \in DOMAIN enquiries : /\ enquiries'[i].key = enquiries[i].key
                                     /\ enquiries'[i].order = enquiries[i].order
                                     /\ i # e => enquiries'[i] = enquiries[i]
      /\ enquiries'[e].status = "CLOSED"
  <2>1. enquiries \in Seq(EnquiryRow)
    BY DEF IInv, RowsTyped
  <2>2. enquiries[e] \in EnquiryRow
    BY <2>1
  <2>3. PICK row \in EnquiryRow : row = [enquiries[e] EXCEPT !.status = "CLOSED"]
    BY <2>2 DEF EnquiryRow
  <2>4. enquiries' = [enquiries EXCEPT ![e] = row]
    BY <1>1, <2>1, <2>3
  <2>5. row.key = enquiries[e].key /\ row.order = enquiries[e].order /\ row.status = "CLOSED"
    BY <2>2, <2>3 DEF EnquiryRow
  <2> QED BY <2>1, <2>4, <2>5
<1>3. \A key : OrdersOf(key)' = OrdersOf(key)
  BY <1>1 DEF OrdersOf
<1>4. \A key : EnquiriesOf(key)' = EnquiriesOf(key)
  BY <1>2 DEF EnquiriesOf
<1>5. \A key : \A i \in EnquiriesOf(key) : i \in DOMAIN enquiries
  BY DEF EnquiriesOf
<1> USE DEF IInv
<1>6. RowsTyped'
  BY <1>1, <1>2 DEF RowsTyped
<1>7. TablesStand'
  BY <1>1, <1>2 DEF TablesStand
<1>8. (\A d \in Callers : Knows(call[d]))'
  BY <1>1, <1>3, <1>4 DEF Knows
<1>9. OneCreator'
  BY <1>1, <1>2, <1>5 DEF OneCreator, Knows
<1>10. NoneMissed'
  BY <1>1, <1>2, <1>3, <1>4, <1>5 DEF NoneMissed
<1>11. (\A x \in answers : Right(x))'
  <2>1. SUFFICES ASSUME NEW x \in answers  PROVE Right(x)'
    BY <1>1
  <2>2. OrdersOf(x.key)' = OrdersOf(x.key) /\ EnquiriesOf(x.key)' = EnquiriesOf(x.key)
    BY <1>3, <1>4
  <2>3. \A i \in EnquiriesOf(x.key) : enquiries'[i].order = enquiries[i].order
    BY <1>2, <1>5
  <2>4. Right(x)
    OBVIOUS
  <2> QED BY <1>1, <2>2, <2>3, <2>4 DEF Right
<1> QED BY <1>6, <1>7, <1>8, <1>9, <1>10, <1>11

LEMMA DeskConvertsKeeps ==
  ASSUME IInv, NEW e \in DOMAIN enquiries, DeskConverts(e)
  PROVE  IInv'
<1> DEFINE row == [key |-> NoKey, trips |-> 1]
<1>o. PICK o \in Nat \ {0} : o = Len(orders) + 1
  BY DEF IInv, RowsTyped
<1>k. PICK k \in Keys : k = enquiries[e].key
  <2>1. enquiries[e] \in EnquiryRow
    BY DEF IInv, RowsTyped
  <2> QED BY <2>1 DEF EnquiryRow
<1>0. row \in OrderRow /\ orders \in Seq(OrderRow) /\ orders' = Append(orders, row)
  BY DEF OrderRow, IInv, RowsTyped, DeskConverts
<1>1. /\ orders' \in Seq(OrderRow) /\ o \notin DOMAIN orders
      /\ DOMAIN orders' = DOMAIN orders \cup {o}
      /\ \A i \in DOMAIN orders : orders'[i] = orders[i]
      /\ orders'[o].key = NoKey /\ orders'[o].trips = 1
  <2> HIDE DEF row
  <2>1. orders'[o] = row
    BY <1>0, <1>o, OrderAdded
  <2> QED BY <1>0, <1>o, <2>1, OrderAdded DEF row
<1>2. \A key \in Keys : OrdersOf(key)' = OrdersOf(key)
  BY <1>1, ManualAssumption DEF OrdersOf
<1>3. /\ enquiries' = [enquiries EXCEPT ![e].status = "CONFIRMED", ![e].order = o]
      /\ UNCHANGED <<form, call, answers>>
      /\ overtaken' = IF \E c \in Callers : call[c].key = k THEN overtaken \cup {k} ELSE overtaken
  BY <1>k, <1>o DEF DeskConverts
<1>4. /\ enquiries' \in Seq(EnquiryRow) /\ DOMAIN enquiries' = DOMAIN enquiries
      /\ \A i \in DOMAIN enquiries : /\ enquiries'[i].key = enquiries[i].key
                                     /\ i # e => enquiries'[i] = enquiries[i]
      /\ enquiries'[e].order = o /\ enquiries'[e].status = "CONFIRMED"
  <2>1. enquiries \in Seq(EnquiryRow)
    BY DEF IInv, RowsTyped
  <2>2. enquiries[e] \in EnquiryRow
    BY <2>1
  <2>3. PICK r \in EnquiryRow : r = [enquiries[e] EXCEPT !.status = "CONFIRMED", !.order = o]
    BY <2>2 DEF EnquiryRow
  <2>4. enquiries' = [enquiries EXCEPT ![e] = r]
    BY <1>3, <2>1, <2>3
  <2>5. r.key = enquiries[e].key /\ r.order = o /\ r.status = "CONFIRMED"
    BY <2>2, <2>3 DEF EnquiryRow
  <2> QED BY <2>1, <2>4, <2>5
<1>5. enquiries[e].order = 0
  BY DEF DeskConverts, IInv, TablesStand
<1>6. \A key : EnquiriesOf(key)' = EnquiriesOf(key)
  BY <1>4 DEF EnquiriesOf
<1>7. \A key : \A i \in EnquiriesOf(key) : i \in DOMAIN enquiries /\ enquiries[i].key = key
  BY DEF EnquiriesOf
<1> HIDE DEF row
<1> USE DEF IInv
<1>8. RowsTyped'
  BY <1>1, <1>3, <1>4 DEF RowsTyped
<1>9. TablesStand'
  BY <1>1, <1>3, <1>4, ManualAssumption DEF TablesStand
<1>10. (\A d \in Callers : Knows(call[d]))'
  <2>1. ASSUME NEW d \in Callers  PROVE Knows(call[d])'
    <3>1. call[d].key \in Keys => OrdersOf(call[d].key)' = OrdersOf(call[d].key)
      BY <1>2, <1>3
    <3>2. Knows(call[d])
      OBVIOUS
    <3> QED BY <3>1, <3>2, <1>1, <1>3, <1>6 DEF Knows, OrdersOf
  <2> QED BY <2>1
<1>11. OneCreator'
  <2>1. ASSUME NEW d \in Callers, call[d].at \in Creating, call[d].key \notin overtaken'
        PROVE  enquiries'[call[d].enquiry].order = 0
    <3>1. call[d].enquiry \in EnquiriesOf(call[d].key) /\ call[d].key # k /\ call[d].key \notin overtaken
      BY <1>3, <2>1 DEF Knows
    <3>2. call[d].enquiry \in DOMAIN enquiries /\ call[d].enquiry # e
      BY <1>k, <1>7, <3>1
    <3> QED BY <1>4, <2>1, <3>1, <3>2 DEF OneCreator
  <2> QED BY <1>3, <2>1 DEF OneCreator
<1>12. NoneMissed'
  <2>1. ASSUME NEW d \in Callers, NEW i \in EnquiriesOf(call[d].key),
               call[d].at = "findEnquiry", call[d].key \notin overtaken', enquiries'[i].order # 0
        PROVE  OrdersOf(call[d].key)' \subseteq {enquiries'[i].order}
    <3>1. call[d].key # k /\ call[d].key \notin overtaken /\ call[d].key \in Keys
      BY <1>3, <2>1 DEF Knows
    <3>2. enquiries'[i] = enquiries[i]
      BY <1>k, <1>4, <1>7, <3>1
    <3>3. OrdersOf(call[d].key)' = OrdersOf(call[d].key)
      BY <1>2, <1>3, <3>1
    <3> QED BY <2>1, <3>1, <3>2, <3>3 DEF NoneMissed
  <2>2. \A d \in Callers : EnquiriesOf(call[d].key)' = EnquiriesOf(call[d].key)
    BY <1>3, <1>6
  <2>3. call' = call
    BY <1>3
  <2>4. ASSUME NEW d \in Callers, NEW i \in EnquiriesOf(call[d].key)',
               call'[d].at = "findEnquiry", call'[d].key \notin overtaken', enquiries'[i].order # 0
        PROVE  OrdersOf(call[d].key)' \subseteq {enquiries'[i].order}
    <3>1. i \in EnquiriesOf(call[d].key)
      BY <2>2, <2>4
    <3> QED BY <2>1, <2>3, <2>4, <3>1
  <2> QED BY <2>4 DEF NoneMissed
<1>13. (\A x \in answers : Right(x))'
  <2>1. SUFFICES ASSUME NEW x \in answers  PROVE Right(x)'
    BY <1>3
  <2>2. x.key \in Keys /\ Right(x)
    BY DEF RowsTyped, Answers
  <2>3. OrdersOf(x.key)' = OrdersOf(x.key) /\ EnquiriesOf(x.key)' = EnquiriesOf(x.key)
    BY <1>2, <1>6, <2>2
  <2>4. overtaken \subseteq overtaken'
    BY <1>3
  <2>5. ASSUME NEW i \in EnquiriesOf(x.key), enquiries[i].order = x.order, x.order # 0
        PROVE  enquiries'[i].order = x.order
    BY <1>4, <1>5, <1>7, <2>5
  <2> QED BY <2>2, <2>3, <2>4, <2>5 DEF Right
<1> QED BY <1>8, <1>9, <1>10, <1>11, <1>12, <1>13

-----------------------------------------------------------------------------
(***************************************************************************)
(* The theorems.                                                            *)
(***************************************************************************)

LEMMA ManualInvariant == ManualSpec => []IInv
<1>1. ManualInit => IInv
  <2> SUFFICES ASSUME ManualInit  PROVE IInv
    OBVIOUS
  <2>1. Waiting \in Call /\ Knows(Waiting) /\ Waiting.at = "waiting"
    BY DEF Waiting, Call, Places, Knows, Creating, Searching, Forms
  <2>2. RowsTyped
    BY <2>1 DEF ManualInit, RowsTyped
  <2>3. TablesStand
    BY DEF ManualInit, TablesStand
  <2>4. \A c \in Callers : call[c] = Waiting
    BY DEF ManualInit
  <2> QED BY <2>1, <2>2, <2>3, <2>4 DEF ManualInit, IInv, OneCreator, NoneMissed, Creating
<1>2. IInv /\ [ManualNext]_manualVars => IInv'
  <2> SUFFICES ASSUME IInv, [ManualNext]_manualVars  PROVE IInv'
    OBVIOUS
  <2>1. ASSUME NEW c \in Callers, Submit(c) \/ FindByKey(c) \/ Fetch(c) \/ FindEnquiry(c) \/ Fail(c) \/ Lose(c)
        PROVE  IInv'
    BY <2>1, MovesKeep
  <2>2. ASSUME NEW c \in Callers, InsertOrder(c) \/ InsertEnquiry(c) \/ CreateManualBooking(c)
                                \/ EnsureTrip(c) \/ Link(c)
        PROVE  IInv'
    BY <2>2, InsertOrderKeeps, InsertEnquiryKeeps, CreateManualBookingKeeps, EnsureTripKeeps, LinkKeeps
  <2>3. ASSUME NEW e \in DOMAIN enquiries, DeskConverts(e) \/ DeskCloses(e)  PROVE IInv'
    BY <2>3, DeskConvertsKeeps, DeskClosesKeeps
  <2>4. CASE UNCHANGED manualVars
    BY <2>4 DEF manualVars, IInv, RowsTyped, TablesStand, Knows, OneCreator, NoneMissed, Right,
                OrdersOf, EnquiriesOf
  <2> QED BY <2>1, <2>2, <2>3, <2>4 DEF ManualNext
<1> QED BY <1>1, <1>2, PTL DEF ManualSpec

\* However often a form is sent, side by side or again after a failure, the answers that name a
\* booking name the same one, unless the desk converted the enquiry while a request for its key was
\* running (createManualOrder, createEnquiry and the retries of both).
THEOREM PhoneAnswersAgree == ManualSpec => []AnswersAgree
<1>1. IInv => AnswersAgree
  <2> SUFFICES ASSUME IInv, NEW a \in answers, NEW b \in answers, a.key = b.key,
                      a.key \notin overtaken, a.order # 0, b.order # 0
               PROVE  a.order = b.order
    BY DEF AnswersAgree
  <2>1. Right(a) /\ Right(b)
    BY DEF IInv
  <2>2. CASE OrdersOf(a.key) # {}
    BY <2>1, <2>2 DEF Right
  <2>3. CASE OrdersOf(a.key) = {}
    <3>1. \A d, e \in EnquiriesOf(a.key) : d = e
      BY DEF IInv, TablesStand, EnquiriesOf
    <3> QED BY <2>1, <2>3, <3>1 DEF Right
  <2> QED BY <2>2, <2>3
<1> QED BY <1>1, ManualInvariant, PTL

\* A booking made by phone has one trip at most, has it from the moment it is written when it came
\* from createManualOrder; a confirmed enquiry names a booking that has its trip, and an open one
\* names none, whatever step of createEnquiry failed and whenever the enquiry is closed.
THEOREM PhoneOrdersWhole == ManualSpec => []OrdersAreWhole
<1>1. IInv => OrdersAreWhole
  <2> SUFFICES ASSUME IInv  PROVE OrdersAreWhole
    OBVIOUS
  <2>1. ASSUME NEW o \in DOMAIN orders  PROVE orders[o].trips <= 1
    <3>1. orders[o] \in OrderRow
      BY DEF IInv, RowsTyped
    <3> QED BY <3>1 DEF OrderRow
  <2> QED BY <2>1 DEF IInv, TablesStand, OrdersAreWhole
<1> QED BY <1>1, ManualInvariant, PTL
=============================================================================
