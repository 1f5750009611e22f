-------------------------- MODULE BookingLife_proofs --------------------------
(***************************************************************************)
(* What a booking's quote, reservation, invoice and trips promise each other, *)
(* for any number of requests, drivers, prices and quotes sent.              *)
(***************************************************************************)
EXTENDS BookingLife, FiniteSetTheorems, TLAPS

-----------------------------------------------------------------------------
(***************************************************************************)
(* The inductive invariant.                                                 *)
(***************************************************************************)

Places == {"idle", "review", "prepare", "send", "scan", "release", "expire", "readReservation",
           "accept", "reject", "confirm", "findTrip", "findAgain", "insertTrip", "assign",
           "status", "delete"}

Row     == [status : BookingStatuses \cup {"GONE"}, quote : QuoteStatuses,
            price : Prices \cup {None}, driver : Drivers \cup {None},
            source : {None, "CUSTOMER", "ADMIN"}, lapsed : BOOLEAN]
Held    == [driver : Drivers, status : {"ACTIVE", "CONVERTED", "RELEASED"}]
Request == [at : Places, price : Prices \cup {None}, driver : Drivers \cup {None},
            status : BookingStatuses \cup {"none"}, edge : BOOLEAN,
            ids : SUBSET (1 .. MaxSends), old : BOOLEAN, passed : BOOLEAN]

\* No step puts two reservations of the booking side by side.
HeldOnce == \A i, j \in Active : i = j

\* A quote that is out has a price, and so has one that is accepted, until an operator edits it.
Priced == booking.quote = "SENT" /\ ~repriced => booking.price # None

\* Invoice and trips come with the acceptance, and the acceptance stays.
DealKept ==
  Exists /\ ~outdated =>
    IF booking.quote = "ACCEPTED"
    THEN ~repriced => /\ booking.price # None /\ invoice = booking.price
                    /\ \A i \in DOMAIN trips : trips[i] = booking.price
    ELSE invoice = None /\ trips = <<>>

\* What a request has brought with it, whatever has happened since.
Brings(x) ==
  /\ x.edge => x.status \in GoneAhead
  /\ x.edge /\ x.at \in {"readReservation", "accept"} => x.price # None
  /\ x.at = "status" => x.status \in BookingStatuses
  /\ x.at \in {"prepare", "send"} => x.driver \in Drivers /\ x.price \in Prices

\* What a request still knows of the row when the quote has not changed since it read it.
Fresh(x) ==
  Exists /\ ~x.old =>
    /\ x.at = "review" => booking.quote = "PENDING"
    /\ x.at = "prepare" => booking.quote \notin {"SENT", "ACCEPTED", "REJECTED"}
    /\ x.at = "send" => booking.quote \notin {"SENT", "ACCEPTED"}
    /\ x.at \in {"scan", "release", "expire"} => booking.quote = "SENT"
    /\ x.at \in {"release", "expire"} => Active \subseteq x.ids
    /\ x.at \in {"readReservation", "accept"} /\ ~repriced => x.price = booking.price
    /\ x.at = "confirm" => booking.quote = "ACCEPTED"
    /\ x.at = "status" /\ x.status = "confirmed" => booking.quote = "ACCEPTED"

\* What holds of a request as long as nobody has written on a quote that was replaced: an operator
\* who went ahead without a quote did not confirm the booking, and a trip is made for an accepted one.
Clean(x) ==
  ~outdated =>
    /\ x.edge => x.status # "confirmed"
    /\ Exists /\ x.at \in {"findAgain", "insertTrip"} =>
         booking.quote = "ACCEPTED" /\ (~repriced => x.price = booking.price)

\* A request that inserts a trip has found none, or has been overtaken by one that did too.
Looked(x) == x.at = "insertTrip" /\ ~x.passed => trips = <<>>

Reads(x) == Brings(x) /\ Fresh(x) /\ Clean(x) /\ Looked(x)

Promises == HeldOnce /\ HeldForOpenQuote /\ ConfirmedIsAccepted /\ Priced /\ DealKept

IInv ==
  /\ BookingTypeOK /\ Promises /\ OneTripUnlessOverlap
  /\ \A r \in Requests : Reads(req[r])

-----------------------------------------------------------------------------
(***************************************************************************)
(* What the operators of the model do.                                      *)
(***************************************************************************)

LEMMA Typed ==
  BookingTypeOK <=>
    /\ booking \in Row /\ reservation \in Seq(Held) /\ Len(reservation) <= MaxSends
    /\ invoice \in Prices \cup {None, 0} /\ trips \in Seq(Prices \cup {0})
    /\ req \in [Requests -> Request]
    /\ outdated \in BOOLEAN /\ doubled \in BOOLEAN
    /\ reassigned \in BOOLEAN /\ repriced \in BOOLEAN
BY DEF BookingTypeOK, Row, Held, Request, Places

LEMMA IdleReads ==
  /\ Idle \in Request /\ Idle.at = "idle" /\ ~Idle.edge /\ ~Idle.old
  /\ \A place \in Places : [Idle EXCEPT !.at = place] \in Request
BY DEF Idle, Request, Places

\* The reservations a step turns are no longer active, the others are as they were.
LEMMA TurnEnds ==
  ASSUME reservation \in Seq(Held), NEW S, NEW s \in {"CONVERTED", "RELEASED"},
         reservation' = Turn(S, s)
  PROVE  /\ reservation' \in Seq(Held) /\ Len(reservation') = Len(reservation)
         /\ Active' = Active \ S
         /\ \A i \in Active' : reservation'[i].driver = reservation[i].driver
<1>1. \A i \in DOMAIN reservation : reservation[i] \in Held
  OBVIOUS
<1>2. /\ DOMAIN reservation' = DOMAIN reservation
      /\ \A i \in DOMAIN reservation :
           /\ i \in S => reservation'[i] = [reservation[i] EXCEPT !.status = s]
           /\ i \notin S => reservation'[i] = reservation[i]
  BY DEF Turn
<1>3. \A i \in DOMAIN reservation :
        /\ reservation'[i] \in Held /\ reservation'[i].driver = reservation[i].driver
        /\ i \in S => reservation'[i].status = s
  BY <1>1, <1>2 DEF Held
<1>4. reservation' \in Seq(Held) /\ Len(reservation') = Len(reservation)
  BY <1>3 DEF Turn
<1> QED BY <1>2, <1>3, <1>4 DEF Active

\* A reservation more: it is the one that is active after the others have been released.
LEMMA SentEnds ==
  ASSUME reservation \in Seq(Held), NEW d \in Drivers,
         reservation' = Append(Turn(Active, "RELEASED"), [driver |-> d, status |-> "ACTIVE"])
  PROVE  /\ reservation' \in Seq(Held) /\ Len(reservation') = Len(reservation) + 1
         /\ Active' = {Len(reservation) + 1}
         /\ reservation'[Len(reservation) + 1].driver = d
<1> DEFINE turned == Turn(Active, "RELEASED")
<1>1. \A i \in DOMAIN reservation : reservation[i] \in Held
  OBVIOUS
<1>2. /\ DOMAIN turned = DOMAIN reservation
      /\ \A i \in DOMAIN reservation :
           turned[i] = IF i \in Active THEN [reservation[i] EXCEPT !.status = "RELEASED"] ELSE reservation[i]
  BY DEF Turn
<1>3. \A i \in DOMAIN reservation : turned[i] \in Held /\ turned[i].status # "ACTIVE"
  BY <1>1, <1>2 DEF Held, Active
<1>4. turned \in Seq(Held) /\ Len(turned) = Len(reservation)
  BY <1>3 DEF Turn
<1>5. PICK n \in Held : n = [driver |-> d, status |-> "ACTIVE"]
  BY DEF Held
<1>6. n.driver = d /\ n.status = "ACTIVE"
  BY <1>5
<1>7. reservation' = Append(turned, n)
  BY <1>5
<1> HIDE DEF turned
<1>8. /\ reservation' \in Seq(Held) /\ Len(reservation') = Len(reservation) + 1
      /\ DOMAIN reservation' = DOMAIN reservation \cup {Len(reservation) + 1}
      /\ \A i \in DOMAIN reservation : reservation'[i] = turned[i]
      /\ reservation'[Len(reservation) + 1] = n
  <2>1. PICK u \in Seq(Held) : u = turned
    BY <1>4
  <2>2. /\ Append(u, n) \in Seq(Held) /\ Len(Append(u, n)) = Len(u) + 1
        /\ DOMAIN Append(u, n) = DOMAIN u \cup {Len(u) + 1}
        /\ \A i \in DOMAIN u : Append(u, n)[i] = u[i]
        /\ Append(u, n)[Len(u) + 1] = n
    OBVIOUS
  <2> QED BY <1>2, <1>4, <1>7, <2>1, <2>2
<1> QED BY <1>3, <1>6, <1>8 DEF Active

-----------------------------------------------------------------------------
(***************************************************************************)
(* Steps that read, go on or end.                                           *)
(***************************************************************************)

LEMMA StayKeeps ==
  ASSUME IInv, NEW r \in Requests, NEW y \in Request, Reads(y), req' = [req EXCEPT ![r] = y],
         UNCHANGED <<booking, reservation, deal, outdated, reassigned, repriced, doubled>>
  PROVE  IInv'
<1> USE DEF IInv, deal
<1>1. BookingTypeOK'
  BY Typed DEF BookingTypeOK, Request, Places
<1>2. Promises' /\ OneTripUnlessOverlap'
  BY DEF Promises, HeldOnce, HeldForOpenQuote, ConfirmedIsAccepted, Priced, DealKept, Active, Exists,
         OneTripUnlessOverlap
<1>3. \A x : Reads(x)' <=> Reads(x)
  BY DEF Reads, Brings, Fresh, Clean, Looked, Exists, Active
<1>4. \A q \in Requests : req'[q] = IF q = r THEN y ELSE req[q]
  BY DEF BookingTypeOK
<1> QED BY <1>1, <1>2, <1>3, <1>4

LEMMA DoneKeeps ==
  ASSUME IInv, NEW r \in Requests, Done(r),
         UNCHANGED <<booking, reservation, deal, outdated, reassigned, repriced, doubled>>
  PROVE  IInv'
<1>1. Reads(Idle)
  BY IdleReads DEF Reads, Brings, Fresh, Clean, Looked
<1> QED BY <1>1, IdleReads, StayKeeps DEF Done

-----------------------------------------------------------------------------
(***************************************************************************)
(* Steps by which a request writes the row.                                 *)
(***************************************************************************)

\* r's write leaves the others what they rely on, or makes them old.
LEMMA LandKeeps ==
  ASSUME IInv, NEW r \in Requests, NEW next \in Request, Land(r, next),
         next.at \in {"idle", "findTrip"}, ~next.edge, Exists,
         booking' \in Row, Exists', reservation' \in Seq(Held), Len(reservation') <= MaxSends,
         invoice' \in Prices \cup {None, 0}, UNCHANGED <<trips, reassigned, repriced, doubled>>,
         Promises',
         ~outdated /\ ~req[r].old /\ booking.quote = "ACCEPTED" =>
           booking'.quote = "ACCEPTED" /\ booking'.price = booking.price
  PROVE  IInv'
<1> DEFINE same == <<booking.quote, booking.price, reservation>>
                     = <<booking'.quote, booking'.price, reservation'>>
<1>3. req \in [Requests -> Request] /\ outdated \in BOOLEAN /\ req[r].old \in BOOLEAN
  BY Typed DEF IInv, Request
<1>4. /\ req'[r] = next
      /\ \A q \in Requests \ {r} :
           req'[q] = IF req[q] # Idle /\ ~same THEN [req[q] EXCEPT !.old = TRUE] ELSE req[q]
      /\ DOMAIN req' = Requests
      /\ outdated' = (outdated \/ req[r].old)
  BY DEF Land
<1>5. ASSUME NEW q \in Requests, q # r
      PROVE  req'[q] \in Request /\ Reads(req[q])'
  <2>1. PICK x \in Request : x = req[q]
    BY <1>3
  <2>2. PICK y \in Request : y = req'[q]
    <3>1. req'[q] = [x EXCEPT !.old = TRUE] \/ req'[q] = x
      <4> HIDE DEF same
      <4> QED BY <1>4, <1>5, <2>1
    <3>2. [x EXCEPT !.old = TRUE] \in Request
      BY DEF Request
    <3> QED BY <3>1, <3>2
  <2>3. /\ y.at = x.at /\ y.price = x.price /\ y.driver = x.driver /\ y.status = x.status
        /\ y.edge = x.edge /\ y.ids = x.ids /\ y.passed = x.passed
        /\ ~y.old => ~x.old /\ (x = Idle \/ same)
    <3>1. y = [x EXCEPT !.old = TRUE] \/ (y = x /\ (x = Idle \/ same))
      <4> HIDE DEF same
      <4> QED BY <1>4, <1>5, <2>1, <2>2
    <3>2. CASE y = [x EXCEPT !.old = TRUE]
      <4>1. y.old
        BY <3>2 DEF Request
      <4> QED BY <3>2, <4>1 DEF Request
    <3> HIDE DEF same
    <3> QED BY <3>1, <3>2
  <2>4. Reads(x)
    BY <2>1 DEF IInv
  <2>5. Brings(y) /\ Looked(y)'
    BY <2>3, <2>4 DEF Reads, Brings, Looked
  <2>6. Fresh(y)'
    <3>1. CASE y.old
      BY <3>1 DEF Fresh
    <3>2. CASE ~y.old /\ x = Idle
      BY <3>2, <2>3, IdleReads DEF Fresh
    <3>3. CASE ~y.old /\ same
      <4>1. booking'.quote = booking.quote /\ booking'.price = booking.price /\ Active' = Active
        BY <3>3 DEF Active
      <4> HIDE DEF same
      <4> QED BY <3>3, <4>1, <2>3, <2>4 DEF Reads, Fresh, Exists
    <3> QED BY <2>3, <3>1, <3>2, <3>3
  <2>7. Clean(y)'
    BY <1>4, <2>3, <2>4 DEF Reads, Clean
  <2>8. Reads(y)'
    BY <2>5, <2>6, <2>7 DEF Reads, Brings
  <2> QED BY <2>2, <2>8
<1>6. Reads(next)'
  BY DEF Reads, Brings, Fresh, Clean, Looked
<1>7. (\A q \in Requests : Reads(req[q]))' /\ req' \in [Requests -> Request]
  <2>1. ASSUME NEW q \in Requests  PROVE Reads(req[q])' /\ req'[q] \in Request
    <3>1. CASE q = r
      BY <1>4, <1>6, <3>1
    <3> QED BY <1>5, <3>1
  <2> QED BY <1>4, <2>1 DEF Land
<1>8. BookingTypeOK'
  BY <1>3, <1>4, <1>7, Typed DEF IInv, BookingTypeOK, Row, Held, Request, Places
<1>9. OneTripUnlessOverlap'
  BY DEF IInv, OneTripUnlessOverlap
<1> QED BY <1>7, <1>8, <1>9 DEF IInv

\* The row is gone: nothing is written.
LEMMA GoneKeeps ==
  ASSUME IInv, NEW r \in Requests, NEW next, ~Exists, WriteByKey(r, next),
         booking' = booking, reservation' = reservation, UNCHANGED <<deal, reassigned, repriced, doubled>>
  PROVE  IInv'
BY DoneKeeps DEF WriteByKey

LEMMA ReviewKeeps ==
  ASSUME IInv, NEW r \in Requests, WriteReview(r)
  PROVE  IInv'
<1>1. CASE ~Exists
  <2>1. booking' = booking /\ UNCHANGED <<reservation, deal, reassigned, repriced, doubled>> /\ WriteByKey(r, Idle)
    BY <1>1 DEF WriteReview
  <2> QED BY <1>1, <2>1, GoneKeeps
<1>2. CASE Exists
  <2>1. /\ booking' = [booking EXCEPT !.quote = "PREPARING"] /\ Land(r, Idle)
        /\ UNCHANGED <<reservation, deal, reassigned, repriced, doubled>>
        /\ req[r].at = "review"
    BY <1>2 DEF WriteReview, WriteByKey
  <2>2. /\ booking \in Row /\ reservation \in Seq(Held) /\ Len(reservation) <= MaxSends
        /\ invoice \in Prices \cup {None, 0}
    BY Typed DEF IInv
  <2>3. /\ booking' \in Row /\ booking'.quote = "PREPARING" /\ booking'.status = booking.status
        /\ booking'.price = booking.price /\ booking'.driver = booking.driver
    BY <2>1, <2>2 DEF Row, QuoteStatuses
  <2>4. Active' = Active /\ Exists'
    BY <1>2, <2>1, <2>3 DEF Active, Exists
  <2>5. ~outdated' => ~outdated /\ booking.quote = "PENDING"
    BY <1>2, <2>1 DEF Land, IInv, Reads, Fresh
  <2>6. Promises'
    <3>1. Promises
      BY DEF IInv
    <3> QED BY <1>2, <2>1, <2>3, <2>4, <2>5, <3>1 DEF Promises, HeldOnce, HeldForOpenQuote,
               ConfirmedIsAccepted, Priced, DealKept, deal
  <2>7. ~outdated /\ ~req[r].old /\ booking.quote = "ACCEPTED" =>
          booking'.quote = "ACCEPTED" /\ booking'.price = booking.price
    BY <1>2, <2>1 DEF IInv, Reads, Fresh
  <2> QED BY <1>2, <2>1, <2>2, <2>3, <2>4, <2>6, <2>7, IdleReads, LandKeeps DEF deal
<1> QED BY <1>1, <1>2

LEMMA PreparedKeeps ==
  ASSUME IInv, NEW r \in Requests, WritePrepared(r)
  PROVE  IInv'
<1>1. CASE ~Exists
  <2>1. booking' = booking /\ UNCHANGED <<reservation, deal, reassigned, repriced, doubled>> /\ WriteByKey(r, Idle)
    BY <1>1 DEF WritePrepared
  <2> QED BY <1>1, <2>1, GoneKeeps
<1>2. CASE Exists
  <2>1. /\ booking' = [booking EXCEPT !.quote = "DRIVER_RESERVED", !.price = req[r].price,
                                      !.driver = req[r].driver, !.lapsed = FALSE]
        /\ Land(r, Idle)
        /\ UNCHANGED <<reservation, deal, reassigned, repriced, doubled>>
        /\ req[r].at = "prepare"
    BY <1>2 DEF WritePrepared, WriteByKey
  <2>2. /\ booking \in Row /\ reservation \in Seq(Held) /\ Len(reservation) <= MaxSends
        /\ invoice \in Prices \cup {None, 0} /\ req[r] \in Request
    BY Typed DEF IInv
  <2>3. /\ booking' \in Row /\ booking'.quote = "DRIVER_RESERVED"
        /\ booking'.status = booking.status
    BY <2>1, <2>2 DEF Row, QuoteStatuses, Request
  <2>4. Active' = Active /\ Exists'
    BY <1>2, <2>1, <2>3 DEF Active, Exists
  <2>5. ~outdated' => ~outdated /\ booking.quote \notin {"SENT", "ACCEPTED", "REJECTED"}
    BY <1>2, <2>1 DEF Land, IInv, Reads, Fresh
  <2>6. Promises'
    <3>1. Promises
      BY DEF IInv
    <3> QED BY <1>2, <2>1, <2>3, <2>4, <2>5, <3>1 DEF Promises, HeldOnce, HeldForOpenQuote,
               ConfirmedIsAccepted, Priced, DealKept, deal
  <2>7. ~outdated /\ ~req[r].old /\ booking.quote = "ACCEPTED" =>
          booking'.quote = "ACCEPTED" /\ booking'.price = booking.price
    BY <1>2, <2>1 DEF IInv, Reads, Fresh
  <2> QED BY <1>2, <2>1, <2>2, <2>3, <2>4, <2>6, <2>7, IdleReads, LandKeeps DEF deal
<1> QED BY <1>1, <1>2

LEMMA SentKeeps ==
  ASSUME IInv, NEW r \in Requests, WriteSent(r)
  PROVE  IInv'
<1>1. CASE ~Exists
  <2>1. booking' = booking /\ UNCHANGED <<reservation, deal, reassigned, repriced, doubled>> /\ WriteByKey(r, Idle)
    BY <1>1 DEF WriteSent, Send
  <2> QED BY <1>1, <2>1, GoneKeeps
<1>2. CASE Exists
  <2>0. PICK d \in Drivers : d = req[r].driver
    BY DEF WriteSent, Send, IInv, Reads, Brings
  <2>1. /\ booking' = [booking EXCEPT !.quote = "SENT", !.status = "quote_sent", !.lapsed = FALSE,
                                      !.price = req[r].price, !.driver = d]
        /\ reservation' = Append(Turn(Active, "RELEASED"), [driver |-> d, status |-> "ACTIVE"])
        /\ Land(r, Idle) /\ UNCHANGED <<deal, reassigned, repriced, doubled>>
        /\ req[r].at = "send" /\ Len(reservation) < MaxSends
    BY <1>2, <2>0 DEF WriteSent, Send, WriteByKey
  <2>2. /\ booking \in Row /\ reservation \in Seq(Held) /\ MaxSends \in Nat
        /\ invoice \in Prices \cup {None, 0} /\ req[r].price \in Prices
    BY <2>1, Typed, BookingAssumption DEF IInv, Reads, Brings
  <2>3. /\ booking' \in Row /\ booking'.quote = "SENT" /\ booking'.status = "quote_sent"
        /\ booking'.price \in Prices /\ booking'.driver = d
    BY <2>1, <2>2 DEF Row, QuoteStatuses, BookingStatuses
  <2>4. PICK n : /\ n = Len(reservation) + 1 /\ reservation' \in Seq(Held) /\ Len(reservation') = n
                 /\ Active' = {n} /\ reservation'[n].driver = d
    BY <2>1, <2>2, SentEnds
  <2>5. Len(reservation') <= MaxSends /\ Exists'
    BY <2>1, <2>2, <2>3, <2>4 DEF Exists
  <2>6. ~outdated' => ~outdated /\ booking.quote \notin {"SENT", "ACCEPTED"}
    BY <1>2, <2>1 DEF Land, IInv, Reads, Fresh
  <2>7. Promises'
    <3>1. Promises
      BY DEF IInv
    <3>2. booking'.price # None
      BY <2>3, BookingAssumption
    <3> QED BY <1>2, <2>1, <2>3, <2>4, <2>6, <3>1, <3>2 DEF Promises, HeldOnce, HeldForOpenQuote,
               ConfirmedIsAccepted, Priced, DealKept, deal
  <2>8. ~outdated /\ ~req[r].old /\ booking.quote = "ACCEPTED" =>
          booking'.quote = "ACCEPTED" /\ booking'.price = booking.price
    BY <1>2, <2>1 DEF IInv, Reads, Fresh
  <2> QED BY <1>2, <2>1, <2>2, <2>3, <2>4, <2>5, <2>7, <2>8, IdleReads, LandKeeps DEF deal
<1> QED BY <1>1, <1>2

LEMMA ExpireKeeps ==
  ASSUME IInv, NEW r \in Requests, Expire(r)
  PROVE  IInv'
<1>1. CASE ~Exists
  <2>1. booking' = booking /\ UNCHANGED <<reservation, deal, reassigned, repriced, doubled>> /\ WriteByKey(r, Idle)
    BY <1>1 DEF Expire
  <2> QED BY <1>1, <2>1, GoneKeeps
<1>2. CASE Exists
  <2>1. /\ booking' = [booking EXCEPT !.quote = "EXPIRED"]
        /\ reservation' = Turn(req[r].ids, "RELEASED")
        /\ Land(r, Idle) /\ UNCHANGED <<deal, reassigned, repriced, doubled>>
        /\ req[r].at = "expire"
    BY <1>2 DEF Expire, WriteByKey
  <2>2. /\ booking \in Row /\ reservation \in Seq(Held) /\ Len(reservation) <= MaxSends
        /\ invoice \in Prices \cup {None, 0}
    BY Typed DEF IInv
  <2>3. /\ booking' \in Row /\ booking'.quote = "EXPIRED" /\ booking'.status = booking.status
        /\ booking'.price = booking.price /\ Exists'
    BY <1>2, <2>1, <2>2 DEF Row, QuoteStatuses, Exists
  <2>4. /\ reservation' \in Seq(Held) /\ Len(reservation') = Len(reservation)
        /\ Active' = Active \ req[r].ids
    BY <2>1, <2>2, TurnEnds
  <2>5. ~outdated' => ~outdated /\ booking.quote = "SENT" /\ Active' = {}
    BY <1>2, <2>1, <2>4 DEF Land, IInv, Reads, Fresh
  <2>6. Promises'
    <3>1. Promises
      BY DEF IInv
    <3> QED BY <1>2, <2>1, <2>3, <2>4, <2>5, <3>1 DEF Promises, HeldOnce, HeldForOpenQuote,
               ConfirmedIsAccepted, Priced, DealKept, deal
  <2>7. ~outdated /\ ~req[r].old /\ booking.quote = "ACCEPTED" =>
          booking'.quote = "ACCEPTED" /\ booking'.price = booking.price
    BY <1>2, <2>1 DEF IInv, Reads, Fresh
  <2> QED BY <1>2, <2>1, <2>2, <2>3, <2>4, <2>6, <2>7, IdleReads, LandKeeps DEF deal
<1> QED BY <1>1, <1>2

LEMMA RejectKeeps ==
  ASSUME IInv, NEW r \in Requests, RejectQuote(r)
  PROVE  IInv'
<1>1. CASE ~(Exists /\ booking.quote = (IF req[r].edge THEN "PENDING" ELSE "SENT"))
  BY <1>1, DoneKeeps DEF RejectQuote, deal
<1>2. CASE Exists /\ booking.quote = (IF req[r].edge THEN "PENDING" ELSE "SENT")
  <2>1. /\ booking' = [booking EXCEPT !.quote = "REJECTED",
                                      !.status = IF req[r].edge THEN req[r].status ELSE "rejected"]
        /\ reservation' = Turn(Active, "RELEASED")
        /\ Land(r, Idle) /\ UNCHANGED <<deal, reassigned, repriced, doubled>>
        /\ req[r].at = "reject"
    BY <1>2 DEF RejectQuote
  <2>2. /\ booking \in Row /\ reservation \in Seq(Held) /\ Len(reservation) <= MaxSends
        /\ invoice \in Prices \cup {None, 0}
    BY Typed DEF IInv
  <2>3. (IF req[r].edge THEN req[r].status ELSE "rejected") \in BookingStatuses
    BY DEF IInv, Reads, Brings, GoneAhead, BookingStatuses
  <2>4. /\ booking' \in Row /\ booking'.quote = "REJECTED" /\ booking'.price = booking.price
        /\ booking'.status = (IF req[r].edge THEN req[r].status ELSE "rejected")
    BY <2>1, <2>2, <2>3 DEF Row, QuoteStatuses
  <2>5. /\ reservation' \in Seq(Held) /\ Len(reservation') = Len(reservation)
        /\ Active' = {}
    BY <2>1, <2>2, TurnEnds
  <2>6. booking'.status # "GONE" /\ Exists'
    <3>1. booking'.status \in BookingStatuses
      BY <2>3, <2>4
    <3> QED BY <3>1 DEF BookingStatuses, Exists
  <2>7. ~outdated' => ~outdated /\ booking'.status # "confirmed"
    <3>1. ~outdated' => ~outdated
      BY <2>1 DEF Land
    <3>2. Clean(req[r])
      BY DEF IInv, Reads
    <3> QED BY <2>4, <3>1, <3>2 DEF Clean
  <2>8. Promises'
    <3>1. Promises
      BY DEF IInv
    <3> QED BY <1>2, <2>1, <2>4, <2>5, <2>7, <3>1 DEF Promises, HeldOnce, HeldForOpenQuote,
               ConfirmedIsAccepted, Priced, DealKept, deal
  <2> QED BY <1>2, <2>1, <2>2, <2>4, <2>5, <2>6, <2>8, IdleReads, LandKeeps DEF deal
<1> QED BY <1>1, <1>2

LEMMA AcceptKeeps ==
  ASSUME IInv, NEW r \in Requests, AcceptQuote(r)
  PROVE  IInv'
<1>0. PICK q \in Request : q = req[r]
  BY Typed DEF IInv
<1>i. PICK y \in Request : y = [Idle EXCEPT !.at = "findTrip"] /\ y.at = "findTrip" /\ ~y.edge
  BY IdleReads DEF Places, Idle
<1>1. CASE ~(Exists /\ Answerable(q))
  <2>1. CASE booking.quote = "ACCEPTED" /\ Exists
    <3>1. Reads(y)
      BY <1>i DEF Reads, Brings, Fresh, Clean, Looked
    <3> QED BY <1>0, <1>1, <1>i, <2>1, <3>1, StayKeeps DEF AcceptQuote, deal
  <2>2. CASE ~(booking.quote = "ACCEPTED" /\ Exists)
    BY <1>0, <1>1, <2>2, DoneKeeps DEF AcceptQuote, deal
  <2> QED BY <2>1, <2>2
<1>2. CASE Exists /\ Answerable(q)
  <2>1. /\ booking' = [booking EXCEPT !.quote = "ACCEPTED", !.source = "CUSTOMER", !.driver = q.driver,
                                      !.status = IF q.edge THEN q.status ELSE "confirmed"]
        /\ reservation' = IF q.edge THEN reservation ELSE Turn(Active, "CONVERTED")
        /\ invoice' = IF invoice = None THEN Charge(q.price) ELSE invoice
        /\ Land(r, y) /\ UNCHANGED <<trips, reassigned, repriced, doubled>>
        /\ q.at = "accept"
    BY <1>0, <1>2, <1>i DEF AcceptQuote
  <2>2. /\ booking \in Row /\ reservation \in Seq(Held) /\ Len(reservation) <= MaxSends
        /\ invoice \in Prices \cup {None, 0} /\ q.price \in Prices \cup {None}
        /\ q.driver \in Drivers \cup {None}
    BY Typed DEF IInv, Request
  <2>3. (IF q.edge THEN q.status ELSE "confirmed") \in BookingStatuses
    BY <1>0 DEF IInv, Reads, Brings, GoneAhead, BookingStatuses
  <2>4. /\ booking' \in Row /\ booking'.quote = "ACCEPTED" /\ booking'.price = booking.price
        /\ booking'.status = (IF q.edge THEN q.status ELSE "confirmed")
    BY <2>1, <2>2, <2>3 DEF Row, QuoteStatuses
  <2>5. Exists'
    <3>1. booking'.status \in BookingStatuses
      BY <2>3, <2>4
    <3> QED BY <3>1 DEF BookingStatuses, Exists
  <2>6. /\ reservation' \in Seq(Held) /\ Len(reservation') = Len(reservation)
        /\ Active' = IF q.edge THEN Active ELSE {}
        /\ q.edge => reservation' = reservation
    <3>1. CASE q.edge
      BY <2>1, <2>2, <3>1 DEF Active
    <3>2. CASE ~q.edge
      BY <2>1, <2>2, <3>2, TurnEnds
    <3> QED BY <3>1, <3>2
  <2>7. ~outdated' => ~outdated /\ ~q.old
    BY <1>0, <2>1 DEF Land
  <2>8. booking.quote = IF q.edge THEN "PENDING" ELSE "SENT"
    BY <1>2 DEF Answerable, StillOpen
  <2>9. invoice' \in Prices \cup {None, 0}
    BY <2>1, <2>2 DEF Charge
  <2>10. ~outdated' /\ ~repriced => invoice' = booking.price /\ booking.price # None /\ trips = <<>>
    <3>1. SUFFICES ASSUME ~outdated, ~q.old, ~repriced
                   PROVE  invoice' = booking.price /\ booking.price # None /\ trips = <<>>
      BY <2>7
    <3>2. q.price = booking.price
      BY <1>0, <1>2, <2>1, <3>1 DEF IInv, Reads, Fresh
    <3>3. booking.price # None
      <4>1. CASE q.edge
        BY <1>0, <2>1, <3>2, <4>1 DEF IInv, Reads, Brings
      <4>2. CASE ~q.edge
        BY <2>8, <3>1, <4>2 DEF IInv, Promises, Priced
      <4> QED BY <4>1, <4>2
    <3>4. invoice = None /\ trips = <<>>
      <4>1. booking.quote # "ACCEPTED"
        BY <2>8
      <4> QED BY <1>2, <3>1, <4>1 DEF IInv, Promises, DealKept
    <3> QED BY <2>1, <3>2, <3>3, <3>4 DEF Charge
  <2>11. Promises'
    <3>1. Promises
      BY DEF IInv
    <3>2. HeldOnce'
      BY <2>6, <3>1 DEF Promises, HeldOnce
    <3>3. HeldForOpenQuote'
      <4>1. ~outdated' => Active' = {}
        BY <1>2, <2>6, <2>7, <2>8, <3>1 DEF Promises, HeldForOpenQuote
      <4> QED BY <2>4, <4>1 DEF HeldForOpenQuote
    <3>4. ConfirmedIsAccepted' /\ Priced'
      BY <2>4 DEF ConfirmedIsAccepted, Priced
    <3>5. DealKept'
      BY <2>1, <2>4, <2>10 DEF DealKept
    <3> QED BY <3>2, <3>3, <3>4, <3>5 DEF Promises
  <2>12. booking.quote # "ACCEPTED"
    BY <2>8
  <2> QED BY <1>2, <1>i, <2>1, <2>2, <2>4, <2>5, <2>6, <2>9, <2>11, <2>12, LandKeeps
<1> QED BY <1>1, <1>2

LEMMA ConfirmedKeeps ==
  ASSUME IInv, NEW r \in Requests, WriteConfirmed(r)
  PROVE  IInv'
<1>i. PICK y \in Request : y = [Idle EXCEPT !.at = "findTrip"] /\ y.at = "findTrip" /\ ~y.edge
  BY IdleReads DEF Places, Idle
<1>1. CASE ~Exists
  <2>1. booking' = booking /\ UNCHANGED <<reservation, deal, reassigned, repriced, doubled>> /\ WriteByKey(r, y)
    BY <1>1, <1>i DEF WriteConfirmed
  <2> QED BY <1>1, <2>1, GoneKeeps
<1>2. CASE Exists
  <2>1. /\ booking' = [booking EXCEPT !.status = "confirmed", !.source = "ADMIN"] /\ Land(r, y)
        /\ UNCHANGED <<reservation, deal, reassigned, repriced, doubled>>
        /\ req[r].at = "confirm"
    BY <1>2, <1>i DEF WriteConfirmed, WriteByKey
  <2>2. /\ booking \in Row /\ reservation \in Seq(Held) /\ Len(reservation) <= MaxSends
        /\ invoice \in Prices \cup {None, 0}
    BY Typed DEF IInv
  <2>3. /\ booking' \in Row /\ booking'.quote = booking.quote /\ booking'.status = "confirmed"
        /\ booking'.price = booking.price /\ booking'.driver = booking.driver
    BY <2>1, <2>2 DEF Row, BookingStatuses
  <2>4. Active' = Active /\ Exists'
    BY <2>1, <2>3 DEF Active, Exists
  <2>5. ~outdated' => ~outdated /\ booking.quote = "ACCEPTED"
    BY <1>2, <2>1 DEF Land, IInv, Reads, Fresh
  <2>6. Promises'
    <3>1. Promises
      BY DEF IInv
    <3> QED BY <1>2, <2>1, <2>3, <2>4, <2>5, <3>1 DEF Promises, HeldOnce, HeldForOpenQuote,
               ConfirmedIsAccepted, Priced, DealKept, deal
  <2> QED BY <1>2, <1>i, <2>1, <2>2, <2>3, <2>4, <2>6, LandKeeps DEF deal
<1> QED BY <1>1, <1>2

LEMMA StatusKeeps ==
  ASSUME IInv, NEW r \in Requests, WriteStatus(r)
  PROVE  IInv'
<1>1. CASE ~Exists
  <2>1. booking' = booking /\ UNCHANGED <<reservation, deal, reassigned, repriced, doubled>> /\ WriteByKey(r, Idle)
    BY <1>1 DEF WriteStatus
  <2> QED BY <1>1, <2>1, GoneKeeps
<1>2. CASE Exists
  <2>0. PICK s \in BookingStatuses : s = req[r].status
    BY DEF WriteStatus, IInv, Reads, Brings
  <2>1. /\ booking' = [booking EXCEPT !.status = s] /\ Land(r, Idle)
        /\ UNCHANGED <<reservation, deal, reassigned, repriced, doubled>>
        /\ req[r].at = "status"
    BY <1>2, <2>0 DEF WriteStatus, WriteByKey
  <2>2. /\ booking \in Row /\ reservation \in Seq(Held) /\ Len(reservation) <= MaxSends
        /\ invoice \in Prices \cup {None, 0}
    BY Typed DEF IInv
  <2>3. /\ booking' \in Row /\ booking'.quote = booking.quote /\ booking'.status = s
        /\ booking'.price = booking.price /\ booking'.driver = booking.driver
    BY <2>1, <2>2 DEF Row
  <2>4. Active' = Active /\ Exists'
    BY <2>1, <2>3 DEF Active, Exists, BookingStatuses
  <2>5. ~outdated' => ~outdated /\ (s = "confirmed" => booking.quote = "ACCEPTED")
    BY <1>2, <2>0, <2>1 DEF Land, IInv, Reads, Fresh
  <2>6. Promises'
    <3>1. Promises
      BY DEF IInv
    <3> QED BY <1>2, <2>1, <2>3, <2>4, <2>5, <3>1 DEF Promises, HeldOnce, HeldForOpenQuote,
               ConfirmedIsAccepted, Priced, DealKept, deal
  <2> QED BY <1>2, <2>1, <2>2, <2>3, <2>4, <2>6, IdleReads, LandKeeps DEF deal
<1> QED BY <1>1, <1>2

\* The deletion takes reservations and invoice with the row, and every request finds it gone.
LEMMA DeletedKeeps ==
  ASSUME IInv, NEW r \in Requests, WriteDeleted(r)
  PROVE  IInv'
<1>1. /\ booking' = [booking EXCEPT !.status = "GONE"] /\ reservation' = <<>> /\ invoice' = None
      /\ req' = [req EXCEPT ![r] = Idle]
      /\ UNCHANGED <<trips, outdated, reassigned, repriced, doubled>>
  BY DEF WriteDeleted, Done
<1>2. /\ booking \in Row /\ req \in [Requests -> Request] /\ trips \in Seq(Prices \cup {0})
      /\ outdated \in BOOLEAN /\ doubled \in BOOLEAN
      /\ reassigned \in BOOLEAN /\ repriced \in BOOLEAN
  BY Typed DEF IInv
<1>3. booking' \in Row /\ booking'.status = "GONE" /\ booking'.quote = booking.quote
      /\ booking'.price = booking.price /\ ~Exists'
  BY <1>1, <1>2 DEF Row, Exists
<1>4. \A q \in Requests : req'[q] = IF q = r THEN Idle ELSE req[q]
  BY <1>1, <1>2
<1>5. BookingTypeOK'
  BY <1>1, <1>2, <1>3, IdleReads, BookingAssumption DEF BookingTypeOK, Row, Held, Request, Places
<1>6. Promises' /\ OneTripUnlessOverlap'
  <2>1. Active' = {}
    BY <1>1 DEF Active
  <2> QED BY <1>1, <1>3, <2>1 DEF IInv, Promises, HeldOnce, HeldForOpenQuote, ConfirmedIsAccepted,
               Priced, DealKept, OneTripUnlessOverlap
<1>7. (\A q \in Requests : Reads(req[q]))'
  <2>1. ASSUME NEW q \in Requests  PROVE Reads(req[q])'
    <3>1. PICK x : x = IF q = r THEN Idle ELSE req[q]
      OBVIOUS
    <3>2. Brings(x) /\ Clean(x) /\ Looked(x)
      BY <2>1, <3>1, IdleReads DEF IInv, Reads, Brings, Clean, Looked
    <3>3. Reads(x)'
      BY <1>1, <1>3, <3>2 DEF Reads, Brings, Fresh, Clean, Looked
    <3> QED BY <1>4, <2>1, <3>1, <3>3
  <2> QED BY <2>1
<1> QED BY <1>5, <1>6, <1>7 DEF IInv

LEMMA InsertTripKeeps ==
  ASSUME IInv, NEW r \in Requests, InsertTrip(r)
  PROVE  IInv'
<1>0. PICK x \in Request : x = req[r] /\ x.at = "insertTrip" /\ Reads(x)
  BY Typed DEF IInv, InsertTrip
<1>1. CASE ~Exists
  BY <1>1, DoneKeeps DEF InsertTrip, deal
<1>2. CASE Exists
  <2>1. /\ trips' = Append(trips, Charge(x.price)) /\ doubled' = (doubled \/ x.passed)
        /\ req' = [q \in Requests |->
               IF q = r THEN Idle
               ELSE IF req[q].at = "insertTrip" THEN [req[q] EXCEPT !.passed = TRUE] ELSE req[q]]
        /\ UNCHANGED <<booking, reservation, invoice, outdated, reassigned, repriced>>
    BY <1>0, <1>2 DEF InsertTrip
  <2>2. /\ req \in [Requests -> Request] /\ trips \in Seq(Prices \cup {0}) /\ doubled \in BOOLEAN
        /\ x.passed \in BOOLEAN
    BY Typed DEF IInv, Request
  <2>3. PICK freight \in Prices \cup {0} : freight = Charge(x.price)
    BY DEF Charge, Request
  <2>4. trips' \in Seq(Prices \cup {0}) /\ Len(trips') = Len(trips) + 1
        /\ \A i \in DOMAIN trips' : trips'[i] = IF i \in DOMAIN trips THEN trips[i] ELSE freight
    BY <2>1, <2>2, <2>3
  <2>5. ASSUME NEW q \in Requests  PROVE req'[q] \in Request /\ Reads(req[q])'
    <3>0. PICK z \in Request : z = req[q] /\ Reads(z)
      BY <2>2 DEF IInv
    <3>1. CASE q = r
      <4>1. req'[q] = Idle
        BY <2>1, <3>1
      <4> QED BY <4>1, IdleReads DEF Reads, Brings, Fresh, Clean, Looked
    <3>2. CASE q # r /\ z.at = "insertTrip"
      <4>1. PICK y \in Request : y = [z EXCEPT !.passed = TRUE]
        BY DEF Request
      <4>2. /\ y.at = z.at /\ y.price = z.price /\ y.driver = z.driver /\ y.status = z.status
            /\ y.edge = z.edge /\ y.ids = z.ids /\ y.old = z.old /\ y.passed
        BY <4>1 DEF Request
      <4>3. req'[q] = y
        BY <2>1, <3>0, <3>2, <4>1
      <4>4. Reads(y)'
        BY <2>1, <3>0, <3>2, <4>2 DEF Reads, Brings, Fresh, Clean, Looked, Exists
      <4> QED BY <4>3, <4>4
    <3>3. CASE q # r /\ z.at # "insertTrip"
      <4>1. req'[q] = z
        BY <2>1, <3>0, <3>3
      <4>2. Active' = Active
        BY <2>1 DEF Active
      <4>3. Reads(z)'
        BY <2>1, <3>0, <3>3, <4>2 DEF Reads, Brings, Fresh, Clean, Looked, Exists
      <4> QED BY <4>1, <4>3
    <3> QED BY <3>1, <3>2, <3>3
  <2>6. BookingTypeOK'
    <3>1. req' \in [Requests -> Request]
      BY <2>1, <2>5
    <3>2. doubled' \in BOOLEAN
      BY <2>1, <2>2
    <3>3. BookingTypeOK
      BY DEF IInv
    <3> QED BY <2>1, <2>4, <3>1, <3>2, <3>3, ZenonT(40) DEF BookingTypeOK, Request, Places
  <2>7. Promises'
    <3>1. Promises
      BY DEF IInv
    <3>2. ~outdated => booking.quote = "ACCEPTED" /\ (~repriced => x.price = booking.price)
      BY <1>0, <1>2 DEF Reads, Clean
    <3>3. DealKept'
      <4>1. ~outdated /\ ~repriced => freight = booking.price
        BY <1>2, <2>3, <3>1, <3>2 DEF Charge, Promises, DealKept
      <4> QED BY <1>2, <2>1, <2>4, <3>1, <3>2, <4>1 DEF Promises, DealKept, Exists
    <3>4. Active' = Active
      BY <2>1 DEF Active
    <3> QED BY <2>1, <3>1, <3>3, <3>4 DEF Promises, HeldOnce, HeldForOpenQuote, ConfirmedIsAccepted,
               Priced, Exists
  <2>8. OneTripUnlessOverlap'
    <3>1. CASE x.passed
      BY <2>1, <2>2, <3>1 DEF OneTripUnlessOverlap
    <3>2. CASE ~x.passed
      <4>1. trips = <<>>
        BY <1>0, <3>2 DEF Reads, Looked
      <4> QED BY <2>4, <4>1 DEF OneTripUnlessOverlap
    <3> QED BY <2>2, <3>1, <3>2
  <2> QED BY <2>5, <2>6, <2>7, <2>8 DEF IInv
<1> QED BY <1>1, <1>2

-----------------------------------------------------------------------------
(***************************************************************************)
(* Steps that change the row without a quote: by hand, or by assignment.     *)
(***************************************************************************)

\* The quote stays, the row does not become confirmed, and the requests go on as they were or end.
LEMMA HandKeeps ==
  ASSUME IInv, booking' \in Row, Exists <=> Exists', booking'.quote = booking.quote,
         booking'.status = "confirmed" => booking.status = "confirmed",
         reassigned' \in BOOLEAN, reassigned => reassigned',
         ~reassigned' => booking'.driver = booking.driver,
         repriced' \in BOOLEAN, repriced => repriced',
         ~repriced' => booking'.price = booking.price,
         UNCHANGED <<reservation, invoice, trips, outdated, doubled>>,
         req' \in [Requests -> Request],
         \A q \in Requests : req'[q] \in {Idle, req[q]}
  PROVE  IInv'
<1>1. BookingTypeOK'
  BY Typed DEF IInv, BookingTypeOK, Row, Held, Request, Places
<1>2. Active' = Active
  BY DEF Active
<1>3. Promises' /\ OneTripUnlessOverlap'
  BY <1>2 DEF IInv, Promises, HeldOnce, HeldForOpenQuote, ConfirmedIsAccepted, Priced, DealKept,
              OneTripUnlessOverlap
<1>4. (\A q \in Requests : Reads(req[q]))'
  <2>1. ASSUME NEW q \in Requests  PROVE Reads(req[q])'
    <3>1. PICK x : x = req'[q]
      OBVIOUS
    <3>2. CASE x = Idle
      <4>1. Reads(x)'
        BY <3>2, IdleReads DEF Reads, Brings, Fresh, Clean, Looked
      <4> QED BY <3>1, <4>1
    <3>3. CASE x = req[q]
      <4>1. Reads(x)
        BY <3>3 DEF IInv
      <4>2. Reads(x)'
        BY <1>2, <4>1 DEF Reads, Brings, Fresh, Clean, Looked
      <4> QED BY <3>1, <4>2
    <3> QED BY <2>1, <3>1, <3>2, <3>3
  <2> QED BY <2>1
<1> QED BY <1>1, <1>3, <1>4 DEF IInv

LEMMA AssignedKeeps ==
  ASSUME IInv, NEW r \in Requests, WriteAssigned(r)
  PROVE  IInv'
<1>1. /\ booking \in Row /\ req \in [Requests -> Request]
      /\ reassigned \in BOOLEAN /\ repriced \in BOOLEAN
      /\ req[r].driver \in Drivers \cup {None}
  BY Typed DEF IInv, Request
<1>2. /\ booking' = IF Exists THEN [booking EXCEPT !.status = "driver_assigned",
                                      !.driver = IF req[r].driver = None THEN @ ELSE req[r].driver]
                   ELSE booking
      /\ reassigned' = (reassigned \/ booking'.driver # booking.driver)
      /\ req' = [req EXCEPT ![r] = Idle] /\ UNCHANGED <<reservation, deal, outdated, repriced, doubled>>
  BY DEF WriteAssigned, Done
<1>3. /\ booking' \in Row /\ booking'.quote = booking.quote /\ booking'.price = booking.price
      /\ booking'.status = IF Exists THEN "driver_assigned" ELSE booking.status
  <2>1. CASE Exists
    <3>1. PICK d \in Drivers \cup {None} : d = IF req[r].driver = None THEN booking.driver ELSE req[r].driver
      BY <1>1 DEF Row
    <3>2. booking' = [booking EXCEPT !.status = "driver_assigned", !.driver = d]
      BY <1>2, <2>1, <3>1
    <3> QED BY <1>1, <2>1, <3>2 DEF Row, BookingStatuses
  <2>2. CASE ~Exists
    BY <1>1, <1>2, <2>2
  <2> QED BY <2>1, <2>2
<1>4. Exists <=> Exists'
  BY <1>3 DEF Exists
<1>5. reassigned' \in BOOLEAN /\ repriced' \in BOOLEAN
  BY <1>1, <1>2
<1>6. req' \in [Requests -> Request] /\ \A q \in Requests : req'[q] \in {Idle, req[q]}
  BY <1>1, <1>2, IdleReads
<1>7. /\ reassigned => reassigned'
      /\ ~reassigned' => booking'.driver = booking.driver
      /\ repriced' = repriced /\ booking'.price = booking.price
  BY <1>1, <1>2, <1>3
<1>8. booking'.status = "confirmed" => booking.status = "confirmed"
  BY <1>3
<1> QED BY <1>2, <1>3, <1>4, <1>5, <1>6, <1>7, <1>8, HandKeeps DEF deal

LEMMA ByHandKeeps ==
  ASSUME IInv, ByHand
  PROVE  IInv'
<1>1. /\ booking \in Row /\ req \in [Requests -> Request]
      /\ reassigned \in BOOLEAN /\ repriced \in BOOLEAN
  BY Typed DEF IInv
<1>2. CASE Lapse
  <2>1. /\ booking' \in Row /\ booking'.quote = booking.quote /\ booking'.status = booking.status
        /\ booking'.price = booking.price /\ booking'.driver = booking.driver
    BY <1>1, <1>2 DEF Lapse, Row
  <2> QED BY <1>1, <1>2, <2>1, HandKeeps DEF Lapse, Exists, deal
<1>3. CASE ClearDriver
  <2>1. /\ booking' \in Row /\ booking'.quote = booking.quote /\ booking'.status = "pending"
        /\ booking'.price = booking.price /\ booking'.driver = None
    BY <1>1, <1>3 DEF ClearDriver, Row, BookingStatuses
  <2>2. /\ reassigned' \in BOOLEAN /\ (reassigned => reassigned')
        /\ ~reassigned' => booking'.driver = booking.driver
    BY <1>1, <1>3, <2>1 DEF ClearDriver
  <2> QED BY <1>1, <1>3, <2>1, <2>2, HandKeeps DEF ClearDriver, Exists, deal
<1>4. ASSUME NEW s \in Patched, SetStatus(s)  PROVE IInv'
  <2>1. s \in BookingStatuses \ {"confirmed"} /\ s # "GONE"
    BY BookingAssumption DEF BookingStatuses
  <2>2. /\ booking' \in Row /\ booking'.quote = booking.quote /\ booking'.status = s
        /\ booking'.price = booking.price /\ booking'.driver = booking.driver
    BY <1>1, <1>4, <2>1 DEF SetStatus, Row
  <2> QED BY <1>1, <1>4, <2>1, <2>2, HandKeeps DEF SetStatus, Exists, deal
<1>5. CASE EditBooking
  <2>1. PICK p \in FormPrices \cup {booking.price}, d \in FormDrivers \cup {booking.driver} :
          booking' = [booking EXCEPT !.price = p, !.driver = d]
    BY <1>5 DEF EditBooking
  <2>2. booking' \in Row /\ booking'.quote = booking.quote /\ booking'.status = booking.status
    <3>1. p \in Prices \cup {None} /\ d \in Drivers \cup {None}
      BY <1>1, <2>1, BookingAssumption DEF Row
    <3> QED BY <1>1, <2>1, <3>1 DEF Row
  <2> QED BY <1>1, <1>5, <2>2, HandKeeps DEF EditBooking, Exists, deal
<1> QED BY <1>2, <1>3, <1>4, <1>5 DEF ByHand

-----------------------------------------------------------------------------
(***************************************************************************)
(* A request arrives, and what it reads afterwards.                          *)
(***************************************************************************)

\* What a request that has just read the row takes with it is true of the row.
LEMMA ArriveKeeps ==
  ASSUME IInv, NEW r \in Requests, Arrive(r)
  PROVE  IInv'
<1> DEFINE same == UNCHANGED <<booking, reservation, deal, outdated, reassigned, repriced, doubled>>
<1>0. /\ booking \in Row /\ req \in [Requests -> Request] /\ reservation \in Seq(Held)
      /\ Len(reservation) <= MaxSends /\ MaxSends \in Nat
  BY Typed, BookingAssumption DEF IInv
<1>a. Active \in SUBSET (1 .. MaxSends)
  BY <1>0 DEF Active
<1>b. ASSUME NEW y \in Request, Reads(y), req' = [req EXCEPT ![r] = y], same  PROVE IInv'
  BY <1>b, StayKeeps
<1>1. CASE StartReview(r)
  <2>1. PICK y \in Request : y = [Idle EXCEPT !.at = "review"]
    BY IdleReads DEF Places
  <2>2. Reads(y)
    BY <1>1, <2>1 DEF StartReview, Idle, Reads, Brings, Fresh, Clean, Looked
  <2> QED BY <1>1, <1>b, <2>1, <2>2 DEF StartReview, Begin
<1>2. CASE ConfirmBooking(r)
  <2>1. PICK y \in Request : y = [Idle EXCEPT !.at = "confirm"]
    BY IdleReads DEF Places
  <2>2. Reads(y)
    BY <1>2, <2>1 DEF ConfirmBooking, Idle, Reads, Brings, Fresh, Clean, Looked
  <2> QED BY <1>2, <1>b, <2>1, <2>2 DEF ConfirmBooking, Begin
<1>3. CASE DeleteBooking(r)
  <2>1. PICK y \in Request : y = [Idle EXCEPT !.at = "delete"]
    BY IdleReads DEF Places
  <2>2. Reads(y)
    BY <2>1 DEF Idle, Reads, Brings, Fresh, Clean, Looked
  <2> QED BY <1>3, <1>b, <2>1, <2>2 DEF DeleteBooking, Begin
<1>4. ASSUME NEW d \in Drivers, NEW p \in Prices, PrepareQuote(r, d, p)  PROVE IInv'
  <2>1. PICK y \in Request : y = [Idle EXCEPT !.at = "prepare", !.driver = d, !.price = p]
    BY DEF Idle, Request, Places
  <2>2. Reads(y)
    BY <1>4, <2>1 DEF PrepareQuote, Preparable, Idle, Reads, Brings, Fresh, Clean, Looked
  <2> QED BY <1>4, <1>b, <2>1, <2>2 DEF PrepareQuote, Begin
<1>5. ASSUME NEW d \in Drivers, NEW p \in Prices, SendQuote(r, d, p)  PROVE IInv'
  <2>1. PICK y \in Request : y = [Idle EXCEPT !.at = "send", !.driver = d, !.price = p, !.ids = Active]
    BY <1>a DEF Idle, Request, Places
  <2>2. Reads(y)
    BY <1>5, <2>1 DEF SendQuote, Idle, Reads, Brings, Fresh, Clean, Looked
  <2> QED BY <1>5, <1>b, <2>1, <2>2 DEF SendQuote, Begin
<1>6. ASSUME NEW d \in Drivers \cup {None}, AssignDriver(r, d)  PROVE IInv'
  <2>1. PICK y \in Request : y = [Idle EXCEPT !.at = "assign", !.driver = d]
    BY DEF Idle, Request, Places
  <2>2. Reads(y)
    BY <2>1 DEF Idle, Reads, Brings, Fresh, Clean, Looked
  <2> QED BY <1>6, <1>b, <2>1, <2>2 DEF AssignDriver, Begin
<1>7. ASSUME NEW s \in Stages \cup Bulk \cup {"cancelled"}, ChangeStatus(r, s)  PROVE IInv'
  <2>1. s \in BookingStatuses /\ (s \in Stages \cup {"cancelled"} => s # "confirmed")
    BY BookingAssumption DEF BookingStatuses
  <2>2. PICK y \in Request : y = [Idle EXCEPT !.at = "status", !.status = s]
    BY <2>1 DEF Idle, Request, Places
  <2>3. s = "confirmed" => booking.quote = "ACCEPTED"
    BY <1>7, <2>1 DEF ChangeStatus, BulkMay
  <2>4. Reads(y)
    BY <2>1, <2>2, <2>3 DEF Idle, Reads, Brings, Fresh, Clean, Looked
  <2> QED BY <1>7, <1>b, <2>2, <2>4 DEF ChangeStatus, Begin
<1>8. ASSUME NEW answer \in {"ACCEPT", "REJECT"}, Respond(r, answer)  PROVE IInv'
  <2> DEFINE edge == booking.quote = "PENDING" /\ booking.status \in GoneAhead /\ booking.price # None
             kept == [Idle EXCEPT !.price = booking.price, !.edge = edge,
                                  !.status = IF edge THEN booking.status ELSE "none"]
  <2>1. PICK k \in Request : k = kept
    BY <1>0, ZenonT(40) DEF Idle, Request, Places, Row, GoneAhead, BookingStatuses
  <2>2. /\ k.at = "idle" /\ k.price = booking.price /\ k.edge = edge /\ ~k.old
        /\ k.edge => k.status = booking.status
    BY <2>1 DEF Idle
  <2>3. /\ booking.quote = "SENT" \/ k.edge
        /\ Begin(r, IF booking.quote = "SENT" /\ booking.lapsed THEN [Idle EXCEPT !.at = "scan"]
                    ELSE IF answer = "REJECT" THEN [k EXCEPT !.at = "reject", !.price = None]
                    ELSE IF k.edge THEN [k EXCEPT !.at = "accept", !.driver = booking.driver]
                    ELSE [k EXCEPT !.at = "readReservation"])
        /\ same
    BY <1>8, <2>1, <2>2 DEF Respond
  <2>4. k.edge => /\ booking.quote = "PENDING" /\ k.status \in GoneAhead /\ k.price # None
                  /\ ~outdated => k.status # "confirmed"
    BY <2>2, <2>3 DEF IInv, Promises, ConfirmedIsAccepted
  <2> HIDE DEF kept, edge, same
  <2>5. CASE booking.quote = "SENT" /\ booking.lapsed
    <3>1. PICK y \in Request : y = [Idle EXCEPT !.at = "scan"]
      BY IdleReads DEF Places
    <3>2. Reads(y)
      BY <2>5, <3>1 DEF Idle, Reads, Brings, Fresh, Clean, Looked
    <3> QED BY <1>b, <2>3, <2>5, <3>1, <3>2 DEF Begin
  <2>6. CASE ~(booking.quote = "SENT" /\ booking.lapsed) /\ answer = "REJECT"
    <3>1. PICK y \in Request : y = [k EXCEPT !.at = "reject", !.price = None]
      BY DEF Request, Places
    <3>2. Reads(y)
      BY <2>2, <2>4, <3>1 DEF Request, Reads, Brings, Fresh, Clean, Looked
    <3> QED BY <1>b, <2>3, <2>6, <3>1, <3>2 DEF Begin
  <2>7. CASE ~(booking.quote = "SENT" /\ booking.lapsed) /\ answer # "REJECT" /\ k.edge
    <3>1. PICK y \in Request : y = [k EXCEPT !.at = "accept", !.driver = booking.driver]
      BY <1>0 DEF Request, Places, Row
    <3>2. Reads(y)
      BY <2>2, <2>4, <3>1 DEF Request, Reads, Brings, Fresh, Clean, Looked
    <3> QED BY <1>b, <2>3, <2>7, <3>1, <3>2 DEF Begin
  <2>8. CASE ~(booking.quote = "SENT" /\ booking.lapsed) /\ answer # "REJECT" /\ ~k.edge
    <3>1. PICK y \in Request : y = [k EXCEPT !.at = "readReservation"]
      BY DEF Request, Places
    <3>2. Reads(y)
      BY <2>2, <2>4, <2>8, <3>1 DEF Request, Reads, Brings, Fresh, Clean, Looked
    <3> QED BY <1>b, <2>3, <2>8, <3>1, <3>2 DEF Begin
  <2> QED BY <2>5, <2>6, <2>7, <2>8
<1> QED BY <1>1, <1>2, <1>3, <1>4, <1>5, <1>6, <1>7, <1>8 DEF Arrive

\* The expiry takes what is active, the acceptance the newest; the trip is looked for twice.
LEMMA ReadsKeep ==
  ASSUME IInv, NEW r \in Requests,
         ScanReservations(r) \/ ReleaseReservations(r) \/ ReadReservation(r) \/ FindTrip(r) \/ FindAgain(r)
  PROVE  IInv'
<1> DEFINE same == UNCHANGED <<booking, reservation, deal, outdated, reassigned, repriced, doubled>>
<1>0. /\ booking \in Row /\ req \in [Requests -> Request] /\ reservation \in Seq(Held)
      /\ Len(reservation) <= MaxSends /\ MaxSends \in Nat
  BY Typed, BookingAssumption DEF IInv
<1>a. Active \in SUBSET (1 .. MaxSends)
  BY <1>0 DEF Active
<1>b. ASSUME NEW y \in Request, Reads(y), req' = [req EXCEPT ![r] = y], same  PROVE IInv'
  BY <1>b, StayKeeps
<1>c. PICK x \in Request : x = req[r] /\ Reads(x)
  BY <1>0 DEF IInv
<1>1. CASE ScanReservations(r)
  <2>1. PICK y \in Request : y = [x EXCEPT !.at = "release", !.ids = Active]
    BY <1>a DEF Request, Places
  <2>2. x.at = "scan" /\ req' = [req EXCEPT ![r] = y]
    BY <1>0, <1>1, <1>c, <2>1 DEF ScanReservations
  <2>3. Reads(y)
    BY <1>c, <2>1, <2>2 DEF Request, Reads, Brings, Fresh, Clean, Looked
  <2> QED BY <1>1, <1>b, <2>2, <2>3 DEF ScanReservations
<1>2. CASE ReleaseReservations(r)
  <2>1. PICK y \in Request : y = [x EXCEPT !.at = "expire", !.ids = @ \cap Active]
    BY DEF Request, Places
  <2>2. x.at = "release" /\ req' = [req EXCEPT ![r] = y]
    BY <1>0, <1>2, <1>c, <2>1 DEF ReleaseReservations
  <2>3. Reads(y)
    BY <1>c, <2>1, <2>2 DEF Request, Reads, Brings, Fresh, Clean, Looked
  <2> QED BY <1>2, <1>b, <2>2, <2>3 DEF ReleaseReservations
<1>3. CASE ReadReservation(r)
  <2> DEFINE newest == {i \in Active : \A j \in Active : j <= i}
  <2>1. PICK d \in Drivers \cup {None} :
          d = IF newest = {} THEN None ELSE reservation[CHOOSE i \in newest : TRUE].driver
    <3>1. CASE newest = {}
      BY <3>1
    <3>2. CASE newest # {}
      <4>1. PICK i : i = CHOOSE j \in newest : TRUE
        OBVIOUS
      <4>2. i \in newest
        <5> HIDE DEF newest
        <5> QED BY <3>2, <4>1
      <4>3. reservation[i] \in Held
        BY <1>0, <4>2 DEF Active
      <4> HIDE DEF newest
      <4> QED BY <3>2, <4>1, <4>3 DEF Held
    <3> QED BY <3>1, <3>2
  <2>2. PICK y \in Request : y = [x EXCEPT !.at = "accept", !.driver = d]
    BY DEF Request, Places
  <2>3. x.at = "readReservation" /\ req' = [req EXCEPT ![r] = y]
    BY <1>0, <1>3, <1>c, <2>1, <2>2 DEF ReadReservation
  <2> HIDE DEF newest
  <2>4. x.edge => x.price # None
    BY <1>c, <2>3 DEF Reads, Brings
  <2>5. Reads(y)
    BY <1>c, <2>2, <2>3, <2>4 DEF Request, Reads, Brings, Fresh, Clean, Looked
  <2> QED BY <1>3, <1>b, <2>3, <2>5 DEF ReadReservation
<1>4. CASE FindTrip(r)
  <2>1. CASE Exists /\ trips = <<>> /\ booking.quote = "ACCEPTED"
    <3>1. PICK y \in Request : y = [Idle EXCEPT !.at = "findAgain", !.price = booking.price]
      BY <1>0 DEF Idle, Request, Places, Row
    <3>2. Reads(y)
      BY <2>1, <3>1 DEF Idle, Reads, Brings, Fresh, Clean, Looked
    <3> QED BY <1>4, <1>b, <2>1, <3>1, <3>2 DEF FindTrip
  <2>2. CASE ~(Exists /\ trips = <<>> /\ booking.quote = "ACCEPTED")
    BY <1>4, <2>2, DoneKeeps DEF FindTrip
  <2> QED BY <2>1, <2>2
<1>5. CASE FindAgain(r)
  <2>1. CASE trips = <<>>
    <3>1. PICK y \in Request : y = [x EXCEPT !.at = "insertTrip"]
      BY DEF Request, Places
    <3>2. x.at = "findAgain" /\ req' = [req EXCEPT ![r] = y]
      BY <1>0, <1>5, <1>c, <2>1, <3>1 DEF FindAgain
    <3>3. Reads(y)
      BY <1>c, <2>1, <3>1, <3>2 DEF Request, Reads, Brings, Fresh, Clean, Looked
    <3> QED BY <1>5, <1>b, <3>2, <3>3 DEF FindAgain
  <2>2. CASE trips # <<>>
    BY <1>5, <2>2, DoneKeeps DEF FindAgain
  <2> QED BY <2>1, <2>2
<1> QED BY <1>1, <1>2, <1>3, <1>4, <1>5

-----------------------------------------------------------------------------
(***************************************************************************)
(* The theorems.                                                            *)
(***************************************************************************)

LEMMA BookingInvariant == Spec => []IInv
<1>1. Init => IInv
  <2> SUFFICES ASSUME Init  PROVE IInv
    OBVIOUS
  <2>0. PICK p \in Prices :
          booking = [status |-> "pending", quote |-> "PENDING", price |-> p, driver |-> None,
                     source |-> None, lapsed |-> FALSE]
    BY DEF Init
  <2>1. /\ booking = [status |-> "pending", quote |-> "PENDING", price |-> p, driver |-> None,
                      source |-> None, lapsed |-> FALSE]
        /\ reservation = <<>> /\ invoice = None /\ trips = <<>>
        /\ req = [r \in Requests |-> Idle] /\ ~outdated /\ ~reassigned /\ ~repriced /\ ~doubled
    BY <2>0 DEF Init
  <2>2. BookingTypeOK
    <3>1. booking \in Row
      BY <2>1 DEF Row, BookingStatuses, QuoteStatuses
    <3>2. req \in [Requests -> Request]
      BY <2>1, IdleReads
    <3>3. reservation \in Seq(Held) /\ trips \in Seq(Prices \cup {0}) /\ Len(reservation) <= MaxSends
      BY <2>1, BookingAssumption
    <3>4. /\ outdated \in BOOLEAN /\ doubled \in BOOLEAN
          /\ reassigned \in BOOLEAN /\ repriced \in BOOLEAN
      BY DEF Init
    <3> QED BY <2>1, <3>1, <3>2, <3>3, <3>4, Typed
  <2>3. Active = {}
    BY <2>1 DEF Active
  <2>4. Promises /\ OneTripUnlessOverlap
    BY <2>1, <2>3 DEF Promises, HeldOnce, HeldForOpenQuote, ConfirmedIsAccepted, Priced, DealKept,
                      OneTripUnlessOverlap
  <2>5. ASSUME NEW r \in Requests  PROVE Reads(req[r])
    <3>1. req[r] = Idle
      BY <2>1
    <3> QED BY <3>1, IdleReads DEF Reads, Brings, Fresh, Clean, Looked
  <2> QED BY <2>2, <2>4, <2>5 DEF IInv
<1>2. IInv /\ [Next]_vars => IInv'
  <2> SUFFICES ASSUME IInv, [Next]_vars  PROVE IInv'
    OBVIOUS
  <2>1. ASSUME NEW r \in Requests, Arrive(r)  PROVE IInv'
    BY <2>1, ArriveKeeps
  <2>2. ASSUME NEW r \in Requests, Step(r)  PROVE IInv'
    <3>1. CASE Crash(r)
      BY <3>1, DoneKeeps DEF Crash
    <3> QED BY <2>2, <3>1, ReviewKeeps, PreparedKeeps, SentKeeps, ExpireKeeps, AcceptKeeps, RejectKeeps,
               ConfirmedKeeps, StatusKeeps, DeletedKeeps, InsertTripKeeps, AssignedKeeps, ReadsKeep
            DEF Step
  <2>3. CASE ByHand
    BY <2>3, ByHandKeeps
  <2>4. CASE UNCHANGED vars
    <3>1. \A x : Reads(x)' <=> Reads(x)
      BY <2>4 DEF vars, deal, Reads, Brings, Fresh, Clean, Looked, Exists, Active
    <3>2. BookingTypeOK' /\ Promises' /\ OneTripUnlessOverlap'
      BY <2>4 DEF vars, deal, IInv, BookingTypeOK, Promises, HeldOnce, HeldForOpenQuote, OneTripUnlessOverlap,
                  ConfirmedIsAccepted, Priced, DealKept, Active, Exists
    <3> QED BY <2>4, <3>1, <3>2 DEF vars, IInv
  <2> QED BY <2>1, <2>2, <2>3, <2>4 DEF Next
<1> QED BY <1>1, <1>2, PTL DEF Spec

\* The row, its reservations, invoice and trips and every running request keep their types through
\* every handler of the booking, whatever the others wrote in between.
THEOREM BookingTypes == Spec => []BookingTypeOK
<1>1. IInv => BookingTypeOK
  BY DEF IInv
<1> QED BY <1>1, BookingInvariant, PTL

\* Quotes sent at once, expiries and answers leave at most one active reservation of the booking
\* (sendQuoteWithReservation, releaseAllActive, acceptQuote, rejectQuote).
THEOREM OneReservation == Spec => []OneActiveReservation
<1>1. IInv => OneActiveReservation
  <2> SUFFICES ASSUME IInv  PROVE OneActiveReservation
    OBVIOUS
  <2>1. CASE Active = {}
    BY <2>1, FS_EmptySet DEF OneActiveReservation
  <2>2. CASE Active # {}
    <3>1. PICK i : Active = {i}
      BY <2>2 DEF IInv, Promises, HeldOnce
    <3> QED BY <3>1, FS_Singleton DEF OneActiveReservation
  <2> QED BY <2>1, <2>2
<1> QED BY <1>1, BookingInvariant, PTL

\* Unless a request wrote on a quote that had been replaced: a driver is held exactly while the
\* quote is open to the customer, and it is the driver the booking shows.
THEOREM DriverHeldForOpenQuote == Spec => []HeldForOpenQuote
<1>1. IInv => HeldForOpenQuote
  BY DEF IInv, Promises
<1> QED BY <1>1, BookingInvariant, PTL

\* Unless a request wrote on a quote that had been replaced: a booking is confirmed, by the customer,
\* an operator or a bulk operation, only with a quote the customer has accepted.
THEOREM ConfirmedOnlyAccepted == Spec => []ConfirmedIsAccepted
<1>1. IInv => ConfirmedIsAccepted
  BY DEF IInv, Promises
<1> QED BY <1>1, BookingInvariant, PTL

\* Unless the price was changed by hand or the quote replaced under a request: the invoice acceptQuote
\* makes and the trip ensureTripForBooking makes carry the price the customer accepted, that of a
\* quote or the estimate the booking was created with.
THEOREM InvoiceAndTripsAgree == Spec => []DealAgrees
<1>1. IInv => DealAgrees
  BY DEF IInv, Promises, DealKept, DealAgrees
<1> QED BY <1>1, BookingInvariant, PTL

\* A second trip comes only from two requests that both had found none inside their transactions.
THEOREM SecondTripOnlyOverlap == Spec => []OneTripUnlessOverlap
<1>1. IInv => OneTripUnlessOverlap
  BY DEF IInv
<1> QED BY <1>1, BookingInvariant, PTL

\* No step turns an accepted quote into a rejected one or the other way round: respondToQuote writes
\* its answer only where the quote is still open.
THEOREM TheAnswerStands == Spec => AnswerStands
<1>1. IInv /\ [Next]_vars => [Exists => {booking.quote, booking'.quote} # {"ACCEPTED", "REJECTED"}]_vars
  <2> SUFFICES ASSUME IInv, Next, Exists
               PROVE  {booking.quote, booking'.quote} # {"ACCEPTED", "REJECTED"}
    BY DEF Next
  <2>0. booking \in Row
    BY Typed DEF IInv
  <2>1. SUFFICES \/ booking'.quote = booking.quote
                 \/ booking'.quote \notin {"ACCEPTED", "REJECTED"}
                 \/ booking.quote \notin {"ACCEPTED", "REJECTED"}
    OBVIOUS
  <2>2. ASSUME NEW r \in Requests, Arrive(r)  PROVE booking' = booking
    BY <2>2 DEF Arrive, StartReview, ConfirmBooking, DeleteBooking, PrepareQuote, SendQuote, Respond,
                AssignDriver, ChangeStatus
  <2>3. ASSUME NEW r \in Requests, WriteReview(r) \/ WritePrepared(r) \/ WriteSent(r) \/ Expire(r)
        PROVE  booking'.quote \in {"PREPARING", "DRIVER_RESERVED", "SENT", "EXPIRED"}
    BY <2>0, <2>3 DEF WriteReview, WritePrepared, WriteSent, Send, Expire, Row
  <2>4. ASSUME NEW r \in Requests, AcceptQuote(r) \/ RejectQuote(r)
        PROVE  booking' = booking \/ booking.quote \in {"PENDING", "SENT"}
    BY <2>4 DEF AcceptQuote, Answerable, StillOpen, RejectQuote
  <2>5. ASSUME NEW r \in Requests,
               \/ ScanReservations(r) \/ ReleaseReservations(r) \/ ReadReservation(r)
               \/ FindTrip(r) \/ FindAgain(r) \/ InsertTrip(r) \/ Crash(r)
        PROVE  booking' = booking
    BY <2>5 DEF ScanReservations, ReleaseReservations, ReadReservation, FindTrip, FindAgain, InsertTrip, Crash
  <2>6. ASSUME NEW r \in Requests,
               WriteConfirmed(r) \/ WriteAssigned(r) \/ WriteStatus(r) \/ WriteDeleted(r)
        PROVE  booking'.quote = booking.quote
    BY <2>0, <2>6 DEF WriteConfirmed, WriteAssigned, WriteStatus, WriteDeleted, Row
  <2>7. ASSUME ByHand  PROVE booking'.quote = booking.quote
    BY <2>0, <2>7 DEF ByHand, Lapse, ClearDriver, SetStatus, EditBooking, Row
  <2> QED BY <2>2, <2>3, <2>4, <2>5, <2>6, <2>7 DEF Next, Step
<1> QED BY <1>1, BookingInvariant, PTL DEF Spec, AnswerStands
=============================================================================
