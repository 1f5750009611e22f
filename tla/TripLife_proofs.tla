--------------------------- MODULE TripLife_proofs ---------------------------
(***************************************************************************)
(* Theorems about TripLife, for every set of vehicles and requests and for  *)
(* every set of endpoints in use.  The facts of a journey only accumulate,  *)
(* so what a request has read of them still holds when it writes: IInv says  *)
(* which facts stand behind each place a request can be in, and the steps    *)
(* are then few and alike.                                                   *)
(***************************************************************************)
EXTENDS TripLife, TLAPS

OnRoad  == trip.loaded /\ dispatch = "DISPATCHED"
Settled == once \cap {"podVerified", "podWaived"} # {}

\* What the place of a request says of what it has read, whatever the rows say now.
WellFormed(x) ==
  /\ x.at \in {"engage", "mark", "promote", "engaged", "change"} => x.to \in Vehicles
  /\ x.at = "move" => x.op \in DOMAIN Target
  /\ x.at \in {"draft", "dispatch"} => x.op \in {"keepPod", "podYes", "podNo"}
  /\ x.at = "podDecision" => x.op \in {"podYes", "podNo"}
  /\ x.at \in {"podRead", "podWrite"} => x.op = "submit" \/ (x.op = "document" /\ x.to \in DocInputs)
  /\ x.at \in {"ready", "close"} => x.op \in {"DELIVERED", "COMPLETED"}
  /\ x.at = "resolve" => x.to \in {"RESOLVED", "VEHICLE_CHANGED"}

RequestOK == {x \in RequestState : WellFormed(x)}

\* The facts behind the place of a request.
Backed(x) ==
  /\ x.at = "dispatch" => trip.loaded
  /\ \/ x.at = "move" /\ x.op = "transit"
     \/ x.at = "arrive"
     \/ x.at \in {"podRead", "podWrite"} /\ x.op = "submit"
     \/ x.at \in {"ready", "close"}
     => OnRoad
  /\ x.at \in {"ready", "close"} /\ x.op = "COMPLETED" => "delivered" \in once
  /\ x.at = "close" /\ x.op = "DELIVERED" => trip.arrived /\ Settled
  /\ x.at = "podWrite" /\ x.seen = "VERIFIED" => "podVerified" \in once
  /\ x.at = "resolve" /\ x.to = "VEHICLE_CHANGED" => Linked

\* The facts behind the rows.
FactsStand ==
  /\ dispatch = "DISPATCHED" => trip.loaded
  /\ trip.arrived => OnRoad
  /\ "delivered" \in once => trip.arrived /\ Settled
  /\ trip.status = "LOADED" => trip.loaded
  /\ trip.status \in HasLeft => OnRoad
  /\ trip.status \in {"DELIVERED", "COMPLETED"} => "delivered" \in once
  /\ trip.podReq \/ "podWaived" \in once
  /\ pod = "VERIFIED" => "podVerified" \in once
  /\ incident = "VEHICLE_CHANGED" => Linked

IInv ==
  /\ RowsOK /\ FactsStand
  /\ req \in [Requests -> RequestOK]
  /\ \A r \in Requests : Backed(req[r])

\* No step takes a fact back, or a dispatch row.
Accumulates ==
  /\ trip.loaded => trip'.loaded
  /\ trip.arrived => trip'.arrived
  /\ dispatch = "DISPATCHED" => dispatch' = "DISPATCHED"
  /\ dispatch = "PENDING" => dispatch' # "NONE"
  /\ once \subseteq once'
  /\ Linked => Linked'

rows == <<trip, dispatch, pod, incident, changes, free, elsewhere, once>>

-----------------------------------------------------------------------------

LEMMA TargetFacts ==
  /\ DOMAIN Target = {"send", "arrive", "load", "transit", "cancel"}
  /\ Target["send"] = "TO_LOADING_POINT" /\ Target["arrive"] = "AT_LOADING_POINT"
  /\ Target["load"] = "LOADED" /\ Target["transit"] = "IN_TRANSIT"
  /\ Target["cancel"] = "CANCELLED"
  BY DEF Target

LEMMA IdleOK == Idle \in RequestOK /\ Backed(Idle) /\ Backed(Idle)'
  BY DEF Idle, RequestOK, RequestState, WellFormed, Backed, DocStatuses

\* What a request has read stands as long as facts accumulate.
LEMMA BackingStands ==
  ASSUME Accumulates, NEW x, Backed(x)
  PROVE  Backed(x)'
  BY DEF Accumulates, Backed, OnRoad, Settled

\* A step that accumulates facts and takes one request to a place it may be in.
LEMMA Moves ==
  ASSUME IInv, Accumulates, RowsOK', FactsStand', NEW r \in Requests, NEW y \in RequestOK,
         req' = [req EXCEPT ![r] = y], Backed(y)'
  PROVE  IInv'
  <1>1. req' \in [Requests -> RequestOK]
    BY DEF IInv
  <1>2. ASSUME NEW q \in Requests PROVE Backed(req[q])'
    <2>1. CASE q = r
      <3>1. req'[q] = y
        BY <2>1 DEF IInv
      <3> QED
        BY <3>1 DEF Backed
    <2>2. CASE q # r
      <3>1. req'[q] = req[q]
        BY <2>2 DEF IInv
      <3>2. Backed(req[q])
        BY DEF IInv
      <3> QED
        BY <3>1, <3>2 DEF Accumulates, Backed, OnRoad, Settled
    <2> QED
      BY <2>1, <2>2
  <1> QED
    BY <1>1, <1>2 DEF IInv

\* A request that begins has read the rows and written nothing.
LEMMA Reads ==
  ASSUME IInv, NEW r \in Requests, UNCHANGED <<rows, mix>>,
         \E y \in RequestOK : Begin(r, y) /\ Backed(y)
  PROVE  IInv' /\ Accumulates
  <1>1. PICK y \in RequestOK : Begin(r, y) /\ Backed(y)
    OBVIOUS
  <1>2. RowsOK' /\ FactsStand' /\ Accumulates
    BY DEF IInv, rows, RowsOK, FactsStand, Accumulates, OnRoad, Settled, Linked
  <1>3. Backed(y)' /\ req' = [req EXCEPT ![r] = y]
    BY <1>1, <1>2, BackingStands DEF Begin
  <1> QED
    BY <1>2, <1>3, Moves

\* A request that ends has written rows behind which the facts stand.
LEMMA Ends ==
  ASSUME IInv, NEW r \in Requests, Finish(r), Accumulates, RowsOK', FactsStand'
  PROVE  IInv'
  BY IdleOK, Moves DEF Finish

-----------------------------------------------------------------------------

LEMMA InitIInv == TripLifeAssumption /\ Init => IInv
  <1> SUFFICES ASSUME TripLifeAssumption, Init PROVE IInv
    OBVIOUS
  <1>1. RowsOK
    BY DEF TripLifeAssumption, Init, RowsOK, TripStatuses, ActiveStatuses, DocStatuses
  <1>2. FactsStand
    BY DEF Init, FactsStand, HasLeft
  <1>3. req \in [Requests -> RequestOK] /\ \A r \in Requests : Backed(req[r])
    BY IdleOK DEF Init
  <1> QED
    BY <1>1, <1>2, <1>3 DEF IInv

\* Every endpoint that is called has read what its place says.
LEMMA StartKeeps ==
  ASSUME TripLifeAssumption, IInv, NEW r \in Requests, Start(r), mix' = mix
  PROVE  IInv' /\ Accumulates
  <1>1. CASE \E v \in Vehicles : Assign(r, v)
    <2>1. PICK v \in Vehicles : Assign(r, v)
      BY <1>1
    <2>2. [At("engage", "assign") EXCEPT !.veh = trip.veh, !.to = v] \in RequestOK
      BY DEF IInv, RowsOK,
             Idle, At, RequestOK, RequestState, WellFormed, Backed, DocStatuses
    <2>3. Backed([At("engage", "assign") EXCEPT !.veh = trip.veh, !.to = v])
      BY DEF Idle, At, RequestOK, RequestState, WellFormed, Backed, DocStatuses
    <2> QED
      BY <2>1, <2>2, <2>3, Reads DEF Assign, rows
  <1>2. CASE \E op \in DOMAIN Target : Perform(r, op)
    <2>1. PICK op \in DOMAIN Target : Perform(r, op)
      BY <1>2
    <2>2. PICK w \in Vehicles \cup {None} : Begin(r, [At("move", op) EXCEPT !.veh = w])
      BY <2>1 DEF Perform, IInv, RowsOK
    <2>3. op = "transit" => trip.status = "DISPATCHED"
      BY <2>1, TargetFacts DEF Perform, MayMoveOperationally, TripEdges, LegacySkips, ActiveStatuses
    <2>4. [At("move", op) EXCEPT !.veh = w] \in RequestOK
      BY DEF Idle, At, RequestOK, RequestState, WellFormed, Backed, DocStatuses
    <2>5. Backed([At("move", op) EXCEPT !.veh = w])
      BY <2>3 DEF IInv, FactsStand, HasLeft, At, Idle, Backed
    <2> QED
      BY <2>1, <2>2, <2>4, <2>5, Reads DEF Perform, rows
  <1>3. CASE RecordLoadingFacts(r)
    <2>1. RowsOK' /\ FactsStand' /\ Accumulates
      BY <1>3 DEF RecordLoadingFacts, IInv, RowsOK, FactsStand, Accumulates, OnRoad, Settled, Linked
    <2>2. req' = [req EXCEPT ![r] = Idle]
      BY <1>3 DEF RecordLoadingFacts, IInv
    <2> QED
      BY <2>1, <2>2, IdleOK, Moves
  <1>4. CASE \E p \in {"keepPod", "podYes", "podNo"} : SaveDraft(r, p) \/ Dispatch(r, p)
    <2>1. PICK p \in {"keepPod", "podYes", "podNo"} : SaveDraft(r, p) \/ Dispatch(r, p)
      BY <1>4
    <2>2. CASE SaveDraft(r, p)
      <3>1. /\ [At("draft", p) EXCEPT !.seen = dispatch] \in RequestOK
            /\ Backed([At("draft", p) EXCEPT !.seen = dispatch])
        BY DEF IInv, RowsOK,
               Idle, At, RequestOK, RequestState, WellFormed, Backed, DocStatuses
      <3> QED
        BY <2>2, <3>1, Reads DEF SaveDraft, rows
    <2>3. CASE Dispatch(r, p)
      <3>1. At("dispatch", p) \in RequestOK /\ Backed(At("dispatch", p))
        BY <2>3 DEF Dispatch, DispatchReady,
               Idle, At, RequestOK, RequestState, WellFormed, Backed, DocStatuses
      <3> QED
        BY <2>3, <3>1, Reads DEF Dispatch, rows
    <2> QED
      BY <2>1, <2>2, <2>3
  <1>5. CASE SubmitPod(r) \/ VerifyPod(r)
    <2>1. SubmitPod(r) => At("podRead", "submit") \in RequestOK /\ Backed(At("podRead", "submit"))
      BY DEF SubmitPod, IInv, FactsStand, HasLeft,
             Idle, At, RequestOK, RequestState, WellFormed, Backed, DocStatuses
    <2>2. VerifyPod(r) => /\ [At("verify", "verify") EXCEPT !.seen = pod] \in RequestOK
                          /\ Backed([At("verify", "verify") EXCEPT !.seen = pod])
      BY DEF VerifyPod, IInv, RowsOK,
             Idle, At, RequestOK, RequestState, WellFormed, Backed, DocStatuses
    <2> QED
      BY <1>5, <2>1, <2>2, Reads DEF SubmitPod, VerifyPod, rows
  <1>6. CASE \E s \in DocInputs : RecordDocument(r, s)
    <2>1. PICK s \in DocInputs : RecordDocument(r, s)
      BY <1>6
    <2>2. /\ [At("podRead", "document") EXCEPT !.to = s] \in RequestOK
          /\ Backed([At("podRead", "document") EXCEPT !.to = s])
      BY DEF Idle, At, RequestOK, RequestState, WellFormed, Backed, DocStatuses
    <2> QED
      BY <2>1, <2>2, Reads DEF RecordDocument, rows
  <1>7. CASE ArriveAtDestination(r) \/ MarkDelivered(r) \/ CompleteTrip(r)
    <2>1. ArriveAtDestination(r) =>
            At("arrive", "arrival") \in RequestOK /\ Backed(At("arrive", "arrival"))
      BY DEF ArriveAtDestination, IInv, FactsStand, HasLeft,
             Idle, At, RequestOK, RequestState, WellFormed, Backed, DocStatuses
    <2>2. MarkDelivered(r) => trip.status = "IN_TRANSIT"
      BY DEF MarkDelivered, MayMoveOperationally, TripEdges, LegacySkips, ActiveStatuses
    <2>3. MarkDelivered(r) =>
            At("ready", "DELIVERED") \in RequestOK /\ Backed(At("ready", "DELIVERED"))
      BY <2>2 DEF IInv, FactsStand, HasLeft,
             Idle, At, RequestOK, RequestState, WellFormed, Backed, DocStatuses
    <2>4. CompleteTrip(r) => trip.status = "DELIVERED"
      BY DEF CompleteTrip, MayMoveOperationally, TripEdges, LegacySkips, ActiveStatuses
    <2>5. CompleteTrip(r) => /\ [At("ready", "COMPLETED") EXCEPT !.veh = trip.veh] \in RequestOK
                             /\ Backed([At("ready", "COMPLETED") EXCEPT !.veh = trip.veh])
      BY <2>4 DEF IInv, RowsOK, FactsStand, HasLeft,
             Idle, At, RequestOK, RequestState, WellFormed, Backed, DocStatuses
    <2> QED
      BY <1>7, <2>1, <2>3, <2>5, Reads DEF ArriveAtDestination, MarkDelivered, CompleteTrip, rows
  <1>8. CASE ReportIncident(r)
    <2>1. RowsOK' /\ FactsStand' /\ Accumulates
      BY <1>8 DEF ReportIncident, IInv, RowsOK, FactsStand, Accumulates, OnRoad, Settled, Linked
    <2>2. req' = [req EXCEPT ![r] = Idle]
      BY <1>8 DEF ReportIncident, IInv
    <2> QED
      BY <2>1, <2>2, IdleOK, Moves
  <1>9. CASE \E res \in {"RESOLVED", "VEHICLE_CHANGED"} : ResolveIncident(r, res)
    <2>1. PICK res \in {"RESOLVED", "VEHICLE_CHANGED"} : ResolveIncident(r, res)
      BY <1>9
    <2>2. /\ [At("resolve", "resolve") EXCEPT !.to = res] \in RequestOK
          /\ Backed([At("resolve", "resolve") EXCEPT !.to = res])
      BY <2>1 DEF ResolveIncident,
             Idle, At, RequestOK, RequestState, WellFormed, Backed, DocStatuses
    <2> QED
      BY <2>1, <2>2, Reads DEF ResolveIncident, rows
  <1>10. CASE \E v \in Vehicles, linked \in BOOLEAN : ChangeVehicle(r, v, linked)
    <2>1. PICK v \in Vehicles, linked \in BOOLEAN : ChangeVehicle(r, v, linked)
      BY <1>10
    <2>2. PICK op \in {"linked", "unlinked"}, n \in Nat :
            Begin(r, [At("change", op) EXCEPT !.veh = trip.veh, !.to = v, !.seen = incident, !.n = n])
      <3>1. Len(changes) \in Nat
        BY DEF IInv, RowsOK
      <3>2. CASE linked
        BY <2>1, <3>1, <3>2, Zenon DEF ChangeVehicle
      <3>3. CASE ~linked
        BY <2>1, <3>1, <3>3, Zenon DEF ChangeVehicle
      <3> QED
        BY <3>2, <3>3
    <2> DEFINE y == [At("change", op) EXCEPT !.veh = trip.veh, !.to = v, !.seen = incident, !.n = n]
    <2>3. y \in RequestOK
      BY DEF IInv, RowsOK,
             Idle, At, RequestOK, RequestState, WellFormed, Backed, DocStatuses
    <2>4. Backed(y)
      BY DEF Idle, At, RequestOK, RequestState, WellFormed, Backed, DocStatuses
    <2> QED
      BY <2>1, <2>2, <2>3, <2>4, Reads DEF ChangeVehicle, rows
  <1> QED
    BY <1>1, <1>2, <1>3, <1>4, <1>5, <1>6, <1>7, <1>8, <1>9, <1>10, TargetFacts DEF Start

-----------------------------------------------------------------------------

LEMMA RequestAt ==
  ASSUME IInv, NEW r \in Requests
  PROVE  req[r] \in RequestState /\ WellFormed(req[r]) /\ Backed(req[r])
  BY DEF IInv, RequestOK

\* A request that goes on to a place that asks no more of it than the one it leaves.
LEMMA GotoOK ==
  ASSUME IInv, NEW r \in Requests, Accumulates, RowsOK', FactsStand',
         NEW l \in {"engaged", "promote", "mark", "podDecision", "arrive", "close"},
         Goto(r, l),
         [req[r] EXCEPT !.at = l] \in RequestOK,
         l = "arrive" => OnRoad,
         l = "close" => req[r].at = "ready" /\ (req[r].op = "DELIVERED" => trip.arrived /\ Settled)
  PROVE  IInv'
  <1>1. PICK y \in RequestOK : y = [req[r] EXCEPT !.at = l]
    OBVIOUS
  <1>2. Backed(y)
    BY <1>1, RequestAt DEF RequestState, Backed
  <1>3. Backed(y)'
    BY <1>2, BackingStands
  <1> QED
    BY <1>1, <1>3, Moves DEF Goto

\* The vehicle: engaged, promoted, marked.
LEMMA AssignKeeps ==
  ASSUME IInv, NEW r \in Requests, mix' = mix,
         Engage(r) \/ ReadForPromotion(r) \/ Promote(r) \/ MarkVehicles(r)
  PROVE  IInv' /\ Accumulates
  <1>0. req[r] \in RequestState /\ WellFormed(req[r])
    BY RequestAt
  <1>1. Accumulates
    BY DEF IInv, RowsOK, Engage, ReadForPromotion, Promote, MarkVehicles, Accumulates, Linked
  <1>2. FactsStand'
    BY DEF IInv, RowsOK, FactsStand, OnRoad, Settled, HasLeft, Engage, ReadForPromotion,
           Promote, MarkVehicles, Linked
  <1>3. CASE Engage(r)
    <2>1. RowsOK'
      BY <1>0, <1>3 DEF IInv, RowsOK, Engage, WellFormed
    <2>2. [req[r] EXCEPT !.at = "engaged"] \in RequestOK
      BY <1>0, <1>3 DEF Engage, RequestOK, RequestState, WellFormed
    <2> QED
      BY <1>1, <1>2, <1>3, <2>1, <2>2, GotoOK DEF Engage
  <1>4. CASE ReadForPromotion(r)
    <2>1. RowsOK'
      BY <1>4 DEF IInv, RowsOK, ReadForPromotion
    <2>2. PICK l \in {"promote", "mark"} : Goto(r, l)
      BY <1>4 DEF ReadForPromotion
    <2>3. [req[r] EXCEPT !.at = l] \in RequestOK
      BY <1>0, <1>4 DEF ReadForPromotion, RequestOK, RequestState, WellFormed
    <2> QED
      BY <1>1, <1>2, <2>1, <2>2, <2>3, GotoOK
  <1>5. CASE Promote(r)
    <2>1. RowsOK'
      BY <1>5 DEF IInv, RowsOK, Promote, TripStatuses, ActiveStatuses
    <2>2. [req[r] EXCEPT !.at = "mark"] \in RequestOK
      BY <1>0, <1>5 DEF Promote, RequestOK, RequestState, WellFormed
    <2> QED
      BY <1>1, <1>2, <1>5, <2>1, <2>2, GotoOK DEF Promote
  <1>6. CASE MarkVehicles(r)
    <2>1. free' \in [Vehicles -> BOOLEAN]
      BY <1>6 DEF IInv, RowsOK, MarkVehicles, Released
    <2>2. RowsOK'
      BY <1>6, <2>1 DEF IInv, RowsOK, MarkVehicles
    <2> QED
      BY <1>1, <1>2, <1>6, <2>2, Ends DEF MarkVehicles
  <1> QED
    BY <1>3, <1>4, <1>5, <1>6

\* Loading and transit, the drafts and the departure.
LEMMA DepartureKeeps ==
  ASSUME IInv, NEW r \in Requests, mix' = mix,
         CommitMove(r) \/ WriteDraft(r) \/ WritePodDecision(r) \/ CommitDispatch(r)
  PROVE  IInv' /\ Accumulates
  <1>0. req[r] \in RequestState /\ WellFormed(req[r]) /\ Backed(req[r])
    BY RequestAt
  <1>1. Accumulates
    BY <1>0 DEF IInv, RowsOK, CommitMove, WriteDraft, WritePodDecision, CommitDispatch,
           Accumulates, Linked
  <1>2. CASE CommitMove(r)
    <2>1. PICK op \in DOMAIN Target : op = req[r].op
      BY <1>0, <1>2 DEF CommitMove, WellFormed
    <2>2. Target[op] \in TripStatuses
      BY TargetFacts DEF TripStatuses, ActiveStatuses, FinalStatuses
    <2>3. free' \in [Vehicles -> BOOLEAN]
      BY <1>2 DEF IInv, RowsOK, CommitMove, Released
    <2>4. RowsOK'
      BY <1>2, <2>1, <2>2, <2>3 DEF IInv, RowsOK, CommitMove
    <2>5. /\ trip'.status = Target[op] /\ trip'.arrived = trip.arrived
          /\ trip'.podReq = trip.podReq /\ trip'.loaded = (trip.loaded \/ op = "load")
      BY <1>2, <2>1 DEF IInv, RowsOK, CommitMove
    <2>6. op = "transit" => OnRoad
      BY <1>0, <1>2, <2>1 DEF CommitMove, Backed
    <2>7. FactsStand'
      BY <1>2, <2>1, <2>5, <2>6, TargetFacts
         DEF IInv, FactsStand, OnRoad, Settled, HasLeft, CommitMove, Linked
    <2> QED
      BY <1>1, <1>2, <2>4, <2>7, Ends DEF CommitMove
  <1>3. CASE WriteDraft(r)
    <2>1. RowsOK' /\ FactsStand'
      BY <1>3 DEF IInv, RowsOK, FactsStand, OnRoad, Settled, WriteDraft, Linked
    <2>2. CASE Finish(r)
      BY <1>1, <2>1, <2>2, Ends
    <2>3. CASE req[r].op # "keepPod" /\ Goto(r, "podDecision")
      <3>1. [req[r] EXCEPT !.at = "podDecision"] \in RequestOK
        BY <1>0, <1>3, <2>3 DEF WriteDraft, RequestOK, RequestState, WellFormed
      <3> QED
        BY <1>1, <2>1, <2>3, <3>1, GotoOK
    <2> QED
      BY <1>3, <2>2, <2>3 DEF WriteDraft
  <1>4. CASE WritePodDecision(r) \/ CommitDispatch(r)
    <2>1. req[r].op \in {"keepPod", "podYes", "podNo"}
      BY <1>0, <1>4 DEF WritePodDecision, CommitDispatch, WellFormed
    <2>2. RowsOK'
      BY <1>4 DEF IInv, RowsOK, WritePodDecision, CommitDispatch, TripStatuses, ActiveStatuses
    <2>3. FactsStand'
      BY <1>0, <1>4, <2>1 DEF IInv, RowsOK, FactsStand, OnRoad, Settled, HasLeft,
           WritePodDecision, CommitDispatch, WellFormed, Backed, Linked
    <2> QED
      BY <1>1, <1>4, <2>2, <2>3, Ends DEF WritePodDecision, CommitDispatch
  <1> QED
    BY <1>2, <1>3, <1>4

\* Arrival and the POD document.
LEMMA PodKeeps ==
  ASSUME TripLifeAssumption, IInv, NEW r \in Requests, mix' = mix,
         CommitArrival(r) \/ ReadPod(r) \/ WritePod(r) \/ CommitVerify(r)
  PROVE  IInv' /\ Accumulates
  <1>0. req[r] \in RequestState /\ WellFormed(req[r]) /\ Backed(req[r])
    BY RequestAt
  <1>1. Accumulates
    BY <1>0 DEF IInv, RowsOK, CommitArrival, ReadPod, WritePod, CommitVerify, Accumulates, Linked
  <1>2. CASE CommitArrival(r)
    <2>1. RowsOK' /\ FactsStand'
      BY <1>0, <1>2 DEF IInv, RowsOK, FactsStand, OnRoad, Settled, HasLeft, CommitArrival,
           Backed, Linked
    <2> QED
      BY <1>1, <1>2, <2>1, Ends DEF CommitArrival
  <1>3. CASE ReadPod(r)
    <2>1. RowsOK' /\ FactsStand'
      BY <1>3 DEF IInv, RowsOK, FactsStand, OnRoad, Settled, ReadPod, Linked
    <2>2. PICK y \in RequestOK : y = [req[r] EXCEPT !.at = "podWrite", !.seen = pod]
      <3>1. [req[r] EXCEPT !.at = "podWrite", !.seen = pod] \in RequestState
        BY <1>0 DEF IInv, RowsOK, RequestState
      <3>2. WellFormed([req[r] EXCEPT !.at = "podWrite", !.seen = pod])
        BY <1>0, <1>3 DEF ReadPod, RequestState, WellFormed
      <3> QED
        BY <3>1, <3>2 DEF RequestOK
    <2>3. Backed(y)
      BY <1>0, <1>3, <2>2 DEF ReadPod, IInv, FactsStand, RequestState, Backed
    <2>4. Backed(y)'
      BY <1>1, <2>3, BackingStands
    <2> QED
      BY <1>1, <1>3, <2>1, <2>2, <2>4, Moves DEF ReadPod
  <1>4. CASE WritePod(r)
    <2>1. req[r].op = "document" => req[r].to \in DocStatuses
      BY <1>0, <1>4 DEF TripLifeAssumption, WritePod, WellFormed, DocStatuses
    <2>2. RowsOK'
      <3>1. pod \in DocStatuses
        BY DEF IInv, RowsOK
      <3>2. pod' \in DocStatuses
        BY <1>0, <1>4, <2>1, <3>1 DEF WritePod, WellFormed, DocStatuses
      <3> QED
        BY <1>4, <3>2 DEF IInv, RowsOK, WritePod
    <2>3. FactsStand'
      BY <1>0, <1>4 DEF IInv, RowsOK, FactsStand, OnRoad, Settled, HasLeft, WritePod,
           WellFormed, Backed, Linked
    <2>4. CASE Finish(r)
      BY <1>1, <2>2, <2>3, <2>4, Ends
    <2>5. CASE req[r].op # "document" /\ Goto(r, "arrive")
      <3>1. req[r].op = "submit" /\ OnRoad
        BY <1>0, <1>4, <2>5 DEF WritePod, WellFormed, Backed
      <3>2. [req[r] EXCEPT !.at = "arrive"] \in RequestOK
        BY <1>0 DEF RequestOK, RequestState, WellFormed
      <3> QED
        BY <1>1, <2>2, <2>3, <2>5, <3>1, <3>2, GotoOK
    <2> QED
      BY <1>4, <2>4, <2>5 DEF WritePod
  <1>5. CASE CommitVerify(r)
    <2>1. RowsOK'
      BY <1>5, ZenonT(40) DEF IInv, RowsOK, CommitVerify, DocStatuses
    <2>2. FactsStand'
      BY <1>5, SMTT(30) DEF IInv, RowsOK, FactsStand, OnRoad, Settled, HasLeft, CommitVerify, Linked
    <2> QED
      BY <1>1, <1>5, <2>1, <2>2, Ends DEF CommitVerify
  <1> QED
    BY <1>2, <1>3, <1>4, <1>5

\* A POD that settles the trip has been verified or waived.
LEMMA SettledWhenPodIs ==
  ASSUME IInv, PodSettled
  PROVE  Settled
  BY DEF IInv, RowsOK, FactsStand, PodSettled, Settled

\* Delivered and completed.
LEMMA ClosingKeeps ==
  ASSUME IInv, NEW r \in Requests, mix' = mix, CheckReadiness(r) \/ CommitDelivery(r)
  PROVE  IInv' /\ Accumulates
  <1>0. req[r] \in RequestState /\ WellFormed(req[r]) /\ Backed(req[r])
    BY RequestAt
  <1>1. Accumulates
    BY DEF IInv, RowsOK, CheckReadiness, CommitDelivery, Accumulates, Linked
  <1>2. CASE CheckReadiness(r)
    <2>1. RowsOK' /\ FactsStand'
      BY <1>2 DEF IInv, RowsOK, FactsStand, OnRoad, Settled, CheckReadiness, Linked
    <2>2. CASE Finish(r)
      BY <1>1, <2>1, <2>2, Ends
    <2>3. CASE Goto(r, "close") /\ PodSettled /\ (req[r].op = "DELIVERED" => trip.arrived)
      <3>1. [req[r] EXCEPT !.at = "close"] \in RequestOK
        BY <1>0, <1>2 DEF CheckReadiness, RequestOK, RequestState, WellFormed
      <3>2. req[r].at = "ready"
        BY <1>2 DEF CheckReadiness
      <3> QED
        BY <1>1, <2>1, <2>3, <3>1, <3>2, SettledWhenPodIs, GotoOK
    <2> QED
      BY <1>2, <2>2, <2>3 DEF CheckReadiness
  <1>3. CASE CommitDelivery(r)
    <2>1. req[r].op \in {"DELIVERED", "COMPLETED"}
      BY <1>0, <1>3 DEF CommitDelivery, WellFormed
    <2>2. free' \in [Vehicles -> BOOLEAN]
      BY <1>3 DEF IInv, RowsOK, CommitDelivery, Released
    <2>3. RowsOK'
      BY <1>3, <2>1, <2>2 DEF IInv, RowsOK, CommitDelivery, TripStatuses, ActiveStatuses, FinalStatuses
    <2>4. FactsStand'
      BY <1>0, <1>3, <2>1 DEF IInv, RowsOK, FactsStand, OnRoad, Settled, HasLeft, CommitDelivery,
           Backed, Linked
    <2> QED
      BY <1>1, <1>3, <2>3, <2>4, Ends DEF CommitDelivery
  <1> QED
    BY <1>2, <1>3

\* On the road: the incident resolved, the vehicle changed.
LEMMA RoadKeeps ==
  ASSUME TripLifeAssumption, IInv, NEW r \in Requests, mix' = mix,
         CommitResolve(r) \/ CommitChange(r)
  PROVE  IInv' /\ Accumulates
  <1>0. req[r] \in RequestState /\ WellFormed(req[r]) /\ Backed(req[r])
    BY RequestAt
  <1>1. CASE CommitResolve(r)
    <2>1. RowsOK' /\ FactsStand' /\ Accumulates
      BY <1>0, <1>1 DEF IInv, RowsOK, FactsStand, OnRoad, Settled, CommitResolve, WellFormed,
           Backed, Linked, Accumulates
    <2> QED
      BY <1>1, <2>1, Ends DEF CommitResolve
  <1>2. CASE CommitChange(r)
    <2> DEFINE change == [seq |-> req[r].n + 1, old |-> req[r].veh, new |-> req[r].to,
                          linked |-> req[r].op = "linked"]
               Change == [seq : Nat, old : Vehicles \cup {None}, new : Vehicles, linked : BOOLEAN]
    <2>1. change \in Change
      BY <1>0, <1>2 DEF CommitChange, RequestState, WellFormed
    <2>2. changes \in Seq(Change) /\ changes' = Append(changes, change)
      BY <1>2 DEF IInv, RowsOK, CommitChange
    <2>3. /\ changes' \in Seq(Change) /\ Len(changes') = Len(changes) + 1
          /\ \A i \in 1 .. Len(changes) : changes'[i] = changes[i]
          /\ changes'[Len(changes) + 1] = change
          /\ DOMAIN changes = 1 .. Len(changes) /\ DOMAIN changes' = 1 .. Len(changes')
          /\ Len(changes) \in Nat
      <3> HIDE DEF change, Change
      <3> QED
        BY <2>1, <2>2
    <2>4. (Linked => Linked') /\ (req[r].op = "linked" => Linked')
      <3>1. Linked => Linked'
        <4>1. ASSUME NEW i \in DOMAIN changes
              PROVE  i \in DOMAIN changes' /\ changes'[i] = changes[i]
          <5> HIDE DEF change, Change
          <5> QED
            BY <2>3
        <4> QED
          BY <4>1, Zenon DEF Linked
      <3>2. change.linked = (req[r].op = "linked")
        OBVIOUS
      <3>3. changes'[Len(changes')].linked = (req[r].op = "linked")
        BY <2>3, <3>2
      <3>4. Len(changes') \in DOMAIN changes'
        BY <2>3
      <3> QED
        BY <3>1, <3>3, <3>4 DEF Linked
    <2>5. Len(changes') <= MaxChanges
      <3> HIDE DEF change, Change
      <3> QED
        BY <1>2, <2>3 DEF CommitChange, TripLifeAssumption
    <2>6. RowsOK'
      BY <1>0, <1>2, <2>3, <2>5 DEF IInv, RowsOK, CommitChange, WellFormed
    <2>7. FactsStand' /\ Accumulates
      BY <1>2, <2>4 DEF IInv, RowsOK, FactsStand, OnRoad, Settled, HasLeft, CommitChange, Accumulates
    <2> QED
      BY <1>2, <2>6, <2>7, Ends DEF CommitChange
  <1> QED
    BY <1>1, <1>2

\* A request that fails.
LEMMA AbortKeeps ==
  ASSUME IInv, NEW r \in Requests, mix' = mix, Abort(r)
  PROVE  IInv' /\ Accumulates
  <1>1. RowsOK' /\ FactsStand' /\ Accumulates
    BY DEF IInv, RowsOK, FactsStand, OnRoad, Settled, Abort, Linked, Accumulates
  <1> QED
    BY <1>1, Ends DEF Abort

\* Other trips, and a document that is deleted.
LEMMA OthersKeep ==
  ASSUME IInv, mix' = mix, Elsewhere \/ DeleteDocument
  PROVE  IInv' /\ Accumulates
  <1>2. CASE Elsewhere
    <2>1. PICK v \in Vehicles : TakenElsewhere(v) \/ FreedElsewhere(v)
      BY <1>2 DEF Elsewhere
    <2>2. free' \in [Vehicles -> BOOLEAN] /\ elsewhere' \subseteq Vehicles
      BY <2>1 DEF IInv, RowsOK, TakenElsewhere, FreedElsewhere, Busy
    <2>3. UNCHANGED <<trip, dispatch, pod, incident, changes, req, once>>
      BY <2>1 DEF TakenElsewhere, FreedElsewhere
    <2>4. RowsOK' /\ FactsStand' /\ Accumulates
      BY <2>2, <2>3 DEF IInv, RowsOK, FactsStand, OnRoad, Settled, Linked, Accumulates
    <2>5. ASSUME NEW q \in Requests PROVE Backed(req[q])'
      <3>1. Backed(req[q])
        BY RequestAt
      <3> QED
        BY <2>3, <2>4, <3>1 DEF Accumulates, Backed, OnRoad, Settled
    <2> QED
      BY <2>3, <2>4, <2>5 DEF IInv
  <1>3. CASE DeleteDocument
    <2>1. RowsOK' /\ FactsStand' /\ Accumulates
      BY <1>3 DEF IInv, RowsOK, FactsStand, OnRoad, Settled, DeleteDocument, Linked, Accumulates,
           DocStatuses
    <2>2. ASSUME NEW q \in Requests
          PROVE  req'[q] \in RequestOK /\ Backed(req[q])'
      <3>1. req[q] \in RequestState /\ WellFormed(req[q]) /\ Backed(req[q])
        BY RequestAt
      <3>2. PICK y : y = req'[q]
        OBVIOUS
      <3>3. y = req[q] \/ y = [req[q] EXCEPT !.seen = "GONE"]
        BY <1>3, <3>2 DEF DeleteDocument
      <3>4. y \in RequestOK /\ Backed(y)
        BY <3>1, <3>3 DEF RequestOK, RequestState, WellFormed, Backed
      <3>5. Backed(y)'
        BY <2>1, <3>4, BackingStands
      <3> QED
        BY <3>2, <3>4, <3>5 DEF Backed
    <2>3. req' \in [Requests -> RequestOK]
      BY <1>3, <2>2 DEF DeleteDocument
    <2> QED
      BY <2>1, <2>2, <2>3 DEF IInv
  <1> QED
    BY <1>2, <1>3

\* Every step keeps the invariant and takes nothing back.
LEMMA StepKeeps ==
  ASSUME TripLifeAssumption, IInv, [Next]_vars
  PROVE  IInv' /\ Accumulates
  <1>1. CASE UNCHANGED vars
    <2>1. RowsOK' /\ FactsStand' /\ Accumulates
      BY <1>1 DEF vars, IInv, RowsOK, FactsStand, OnRoad, Settled, Linked, Accumulates
    <2>2. req' \in [Requests -> RequestOK] /\ \A r \in Requests : Backed(req[r])'
      BY <1>1 DEF vars, IInv, Backed, OnRoad, Settled, Linked
    <2> QED
      BY <2>1, <2>2 DEF IInv
  <1>2. CASE \E r \in Requests : Start(r) /\ mix' = mix
    BY <1>2, StartKeeps
  <1>3. CASE \E r \in Requests : Continue(r) /\ mix' = mix
    BY <1>3, AssignKeeps, DepartureKeeps, PodKeeps, ClosingKeeps, RoadKeeps DEF Continue
  <1>4. CASE \E r \in Requests : Abort(r) /\ mix' = mix
    BY <1>4, AbortKeeps
  <1>5. CASE (Elsewhere \/ DeleteDocument) /\ mix' = mix
    BY <1>5, OthersKeep
  <1> QED
    BY <1>1, <1>2, <1>3, <1>4, <1>5 DEF Next

\* IInv holds of every state of every behaviour.
LEMMA Inductive == Spec => []IInv
  <1>1. Init => IInv
    BY TripLifeAssumption, InitIInv
  <1>2. IInv /\ [Next]_vars => IInv'
    BY TripLifeAssumption, StepKeeps
  <1> QED
    BY <1>1, <1>2, PTL DEF Spec

-----------------------------------------------------------------------------

\* The rows of a trip and the requests that work on it are well typed.
THEOREM TypesHold == Spec => []TripLifeTypeOK
  <1>1. IInv => TripLifeTypeOK
    BY DEF IInv, TripLifeTypeOK, RequestOK
  <1> QED
    BY <1>1, Inductive, PTL

\* The status of a trip is never ahead of loading, departure, arrival, POD and delivery,
\* whichever reads are stale when TripOperationalService, TripDispatchService and
\* TripDeliveryService write.
THEOREM StatusFollowsFacts == Spec => []NeverAheadOfFacts
  <1>1. IInv => NeverAheadOfFacts
    BY DEF IInv, RowsOK, FactsStand, OnRoad, Settled, NeverAheadOfFacts, HasLeft
  <1> QED
    BY <1>1, Inductive, PTL

\* An incident that says VEHICLE_CHANGED has a change recorded for it.
THEOREM ChangeIsRecorded == Spec => []ChangeBacksIncident
  <1>1. IInv => ChangeBacksIncident
    BY DEF IInv, FactsStand, ChangeBacksIncident
  <1> QED
    BY <1>1, Inductive, PTL

\* A dispatch row goes from draft to DISPATCHED and never back.
THEOREM DispatchStands == Spec => DispatchRowAdvances
  <1>1. IInv /\ [Next]_vars =>
          [ /\ dispatch = "DISPATCHED" => dispatch' = "DISPATCHED"
            /\ dispatch = "PENDING" => dispatch' # "NONE" ]_vars
    BY TripLifeAssumption, StepKeeps DEF Accumulates
  <1> QED
    BY <1>1, Inductive, PTL DEF Spec, DispatchRowAdvances

-----------------------------------------------------------------------------

\* The refinement: a step of the trip is a step of the charter, or leaves it as it is.
LEMMA StepOfCharter ==
  ASSUME IInv, IInv', Accumulates
  PROVE  Charter!Next
  <1>1. Established \subseteq Established'
    BY DEF Accumulates, Established
  <1>2. Established' \subseteq Charter!Facts
    BY DEF Established, Charter!Facts
  <1>3. ASSUME NEW f \in Established' PROVE Charter!Grounds(f) \subseteq Established'
    BY <1>3 DEF IInv, FactsStand, OnRoad, Settled, Established, Charter!Grounds
  <1>4. trip'.status \in Charter!TripStatuses
    BY DEF IInv, RowsOK, TripStatuses, ActiveStatuses, FinalStatuses,
           Charter!TripStatuses, Charter!ActiveStatuses, Charter!FinalStatuses
  <1>5. Charter!Says(trip'.status) \subseteq Established'
    BY DEF IInv, FactsStand, OnRoad, Settled, HasLeft, Established, Charter!Says, Charter!Facts
  <1> QED
    BY <1>1, <1>2, <1>3, <1>4, <1>5 DEF Charter!Next

\* The services of one trip together implement the charter of a trip.
THEOREM TripKeepsCharter == Spec => KeepsCharter
  <1>1. Init => Charter!Init
    BY DEF Init, Established, Charter!Init
  <1>2. IInv /\ [Next]_vars => [Charter!Next]_(Charter!charter)
    BY TripLifeAssumption, StepKeeps, StepOfCharter
  <1> QED
    BY <1>1, <1>2, Inductive, PTL DEF Spec, KeepsCharter, Charter!Spec
=============================================================================
