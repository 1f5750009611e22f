------------------------------- MODULE TripLife -------------------------------
(***************************************************************************)
(* One trip from its engagement to its end, on the canonical path:          *)
(*   TripVehicleAssignmentService   the vehicle and the busy flag,           *)
(*   TripOperationalService         loading, start of transit, cancel,      *)
(*   TripDispatchService            paperwork drafts and the dispatch,      *)
(*   TripDeliveryService            arrival, POD, delivered, completed,      *)
(*   TripDocumentService            the POD document,                       *)
(*   TripTransitOpsService          incidents and vehicle changes,          *)
(*   ResourceAvailabilityService    the flag of a vehicle.                  *)
(* Every handler reads, decides, and then writes by key in a transaction    *)
(* that does not look again: a request is a record of what it has read, and *)
(* any other request may act between its read and its write.  (The generic  *)
(* status endpoint, which may skip stages, is in Fleet.)                    *)
(***************************************************************************)
EXTENDS TripStates, Naturals, Sequences

CONSTANTS
  Vehicles,
  Requests,     \* HTTP requests handled at once
  None,         \* no vehicle
  DocInputs,    \* document_status a client may send with a document
  MaxChanges,   \* bound: vehicle changes recorded for the trip
  Mixes         \* bound: sets of endpoints, one of which a behaviour calls

Endpoints == {"assign", "otherTrips", "loading", "cancel", "drafts", "dispatch", "pod",
              "documents", "delivery", "incidents", "vehicleChange"}

ASSUME TripLifeAssumption ==
  /\ None \notin Vehicles
  /\ DocInputs \subseteq {"PENDING", "PRESENT", "VERIFIED", "REJECTED", "EXPIRED"}
  /\ MaxChanges \in Nat
  /\ Mixes \subseteq SUBSET Endpoints

VARIABLES
  trip,       \* status; loading_completed_at and arrived_at_destination_at set;
              \* vehicle_id; pod_required
  dispatch,   \* the trip_dispatches row: NONE, PENDING (a draft) or DISPATCHED
  pod,        \* status of the POD document, NONE when there is none
  incident,   \* resolution of the trip's incident, NONE when none was reported
  changes,    \* trip_vehicle_changes rows, in commit order
  free,       \* is_available of a vehicle
  elsewhere,  \* vehicles another active trip uses
  req,        \* what each running request has read and does next
  once,       \* history: the POD was verified, was waived; the trip was delivered
  mix         \* the endpoints this behaviour calls

vars == <<trip, dispatch, pod, incident, changes, free, elsewhere, req, once, mix>>

-----------------------------------------------------------------------------

DocStatuses == {"NONE", "PENDING", "PRESENT", "VERIFIED", "REJECTED", "EXPIRED"}

\* ASSIGNABLE_TRIP_STATUSES and ALREADY_DISPATCHED_STATUSES
Assignable == {"PENDING", "ASSIGNED", "TO_LOADING_POINT", "AT_LOADING_POINT"}
HasLeft    == {"DISPATCHED", "IN_TRANSIT", "DELIVERED", "COMPLETED"}

\* OPERATION_TARGET of TripOperationalService
Target == [send |-> "TO_LOADING_POINT", arrive |-> "AT_LOADING_POINT",
           load |-> "LOADED", transit |-> "IN_TRANSIT", cancel |-> "CANCELLED"]

\* What a request keeps of its input and of what it has read: veh the vehicle of
\* the trip, to the vehicle or status asked for, seen the row it will write, n the
\* number of changes.
Idle == [at |-> "idle", op |-> "none", veh |-> None, to |-> None, seen |-> "NONE", n |-> 0]

Begin(r, kept) == req[r] = Idle /\ req' = [req EXCEPT ![r] = kept]
At(l, op)      == [Idle EXCEPT !.at = l, !.op = op]
Goto(r, l) == req' = [req EXCEPT ![r].at = l]
Finish(r)  == req' = [req EXCEPT ![r] = Idle]

\* releaseResourcesIfNoActiveTrip, this trip excluded; markVehicleBusy.
Released(v) == IF v = None \/ v \in elsewhere THEN free ELSE [free EXCEPT ![v] = TRUE]
Busy(v)     == [free EXCEPT ![v] = FALSE]

\* Mutant: a POD that was supplied counts.
PodSupplied == trip.podReq => pod # "NONE"
PodSettled == trip.podReq => pod = "VERIFIED"

\* A trip as createTrip (PENDING, with or without a vehicle) or the conversion of a
\* booking (ASSIGNED when it has one) inserts it; neither touches the flag.
Init ==
  /\ \E s \in {"PENDING", "ASSIGNED"}, v \in Vehicles \cup {None}, p \in BOOLEAN :
       /\ s = "ASSIGNED" => v # None
       /\ trip = [status |-> s, loaded |-> FALSE, arrived |-> FALSE, veh |-> v, podReq |-> p]
       /\ once = IF p THEN {} ELSE {"podWaived"}
  /\ dispatch = "NONE" /\ pod = "NONE" /\ incident = "NONE" /\ changes = <<>>
  /\ free = [v \in Vehicles |-> TRUE]
  /\ elsewhere = {}
  /\ req = [r \in Requests |-> Idle]
  /\ mix \in Mixes

-----------------------------------------------------------------------------
(***************************************************************************)
(* The vehicle: assign.  (Its locks and checks are in Fleet.)               *)
(***************************************************************************)

Assign(r, v) ==
  /\ trip.status \in Assignable /\ trip.veh # v
  /\ Begin(r, [At("engage", "assign") EXCEPT !.veh = trip.veh, !.to = v])
  /\ UNCHANGED <<trip, dispatch, pod, incident, changes, free, elsewhere, once>>

Engage(r) ==
  /\ req[r].at = "engage"
  /\ trip' = [trip EXCEPT !.veh = req[r].to]
  /\ Goto(r, "engaged")
  /\ UNCHANGED <<dispatch, pod, incident, changes, free, elsewhere, once>>

\* After the commit: read the status again, promote a PENDING trip by key.
ReadForPromotion(r) ==
  /\ req[r].at = "engaged"
  /\ Goto(r, IF trip.status = "PENDING" THEN "promote" ELSE "mark")
  /\ UNCHANGED <<trip, dispatch, pod, incident, changes, free, elsewhere, once>>

\* Mutant: the promotion writes the enquiry's word for it.
PromoteAsEnquiry(r) ==
  /\ req[r].at = "promote"
  /\ trip' = [trip EXCEPT !.status = "VEHICLE_ASSIGNED"]
  /\ Goto(r, "mark")
  /\ UNCHANGED <<dispatch, pod, incident, changes, free, elsewhere, once>>

Promote(r) ==
  /\ req[r].at = "promote"
  /\ trip' = [trip EXCEPT !.status = "ASSIGNED"]
  /\ Goto(r, "mark")
  /\ UNCHANGED <<dispatch, pod, incident, changes, free, elsewhere, once>>

\* Free the vehicle it replaced; while the trip is active, mark the new one busy.
MarkVehicles(r) ==
  /\ req[r].at = "mark"
  /\ LET freed == Released(req[r].veh)
     IN  free' = IF trip.status \in ActiveStatuses THEN [freed EXCEPT ![req[r].to] = FALSE] ELSE freed
  /\ Finish(r)
  /\ UNCHANGED <<trip, dispatch, pod, incident, changes, elsewhere, once>>

\* Other trips: they take a vehicle (createTrip leaves the flag, assign clears it)
\* and give it back.
TakenElsewhere(v) ==
  /\ v \notin elsewhere
  /\ elsewhere' = elsewhere \cup {v}
  /\ free' \in {free, Busy(v)}
  /\ UNCHANGED <<trip, dispatch, pod, incident, changes, req, once>>

FreedElsewhere(v) ==
  /\ v \in elsewhere
  /\ elsewhere' = elsewhere \ {v}
  /\ free' = IF trip.status \in ActiveStatuses /\ trip.veh = v THEN free ELSE [free EXCEPT ![v] = TRUE]
  /\ UNCHANGED <<trip, dispatch, pod, incident, changes, req, once>>

-----------------------------------------------------------------------------
(***************************************************************************)
(* Loading, transit, cancel: TripOperationalService._perform.  A repeat of  *)
(* what is done already returns early; no edge of the table leads there.    *)
(***************************************************************************)

Perform(r, op) ==
  /\ MayMoveOperationally(trip.status, Target[op])
  /\ Begin(r, [At("move", op) EXCEPT !.veh = IF op = "cancel" THEN trip.veh ELSE None])
  /\ UNCHANGED <<trip, dispatch, pod, incident, changes, free, elsewhere, once>>

\* The status and the fact of the operation, by key; cancel frees the vehicle read.
CommitMove(r) ==
  /\ req[r].at = "move"
  /\ LET op == req[r].op
     IN  /\ trip' = [trip EXCEPT !.status = Target[op], !.loaded = @ \/ op = "load"]
         /\ free' = IF op = "cancel" THEN Released(req[r].veh) ELSE free
  /\ Finish(r)
  /\ UNCHANGED <<dispatch, pod, incident, changes, elsewhere, once>>

\* recordLoadingFacts, at any time; nothing in the code clears a fact.
RecordLoadingFacts(r) ==
  /\ req[r] = Idle
  /\ trip' = [trip EXCEPT !.loaded = TRUE]
  /\ UNCHANGED <<dispatch, pod, incident, changes, free, elsewhere, req, once>>

-----------------------------------------------------------------------------
(***************************************************************************)
(* Paperwork and dispatch.  The paperwork is the draft row: LR/GR number,   *)
(* consignee and POD decision live there.                                   *)
(***************************************************************************)

\* saveLrGr, saveDeliveryInfo: find the row or create a draft.
SaveDraft(r, p) ==
  /\ Begin(r, [At("draft", p) EXCEPT !.seen = dispatch])
  /\ UNCHANGED <<trip, dispatch, pod, incident, changes, free, elsewhere, once>>

\* Mutant: the draft is written over whatever row is there.
DraftOverwrites(r) ==
  /\ req[r].at = "draft"
  /\ dispatch' = "PENDING"
  /\ IF req[r].op = "keepPod" THEN Finish(r) ELSE Goto(r, "podDecision")
  /\ UNCHANGED <<trip, pod, incident, changes, free, elsewhere, once>>

\* An update leaves the row's status alone; a create that comes second breaks on
\* the unique trip_id.
WriteDraft(r) ==
  /\ req[r].at = "draft"
  /\ IF req[r].seen = "NONE" /\ dispatch # "NONE"
     THEN Finish(r) /\ UNCHANGED dispatch
     ELSE /\ dispatch' = IF dispatch = "NONE" THEN "PENDING" ELSE dispatch
          /\ IF req[r].op = "keepPod" THEN Finish(r) ELSE Goto(r, "podDecision")
  /\ UNCHANGED <<trip, pod, incident, changes, free, elsewhere, once>>

\* The POD decision goes to the trip in a statement of its own.
WritePodDecision(r) ==
  /\ req[r].at = "podDecision"
  /\ trip' = [trip EXCEPT !.podReq = req[r].op = "podYes"]
  /\ once' = IF req[r].op = "podNo" THEN once \cup {"podWaived"} ELSE once
  /\ Finish(r)
  /\ UNCHANGED <<dispatch, pod, incident, changes, free, elsewhere>>

\* buildReadiness: the blocking checks.
DispatchReady ==
  /\ trip.status = "LOADED" /\ trip.loaded
  /\ trip.veh # None /\ free[trip.veh]
  /\ dispatch # "NONE"

Dispatch(r, p) ==
  /\ trip.status \notin HasLeft /\ dispatch # "DISPATCHED"
  /\ DispatchReady
  /\ Begin(r, At("dispatch", p))
  /\ UNCHANGED <<trip, dispatch, pod, incident, changes, free, elsewhere, once>>

\* One transaction: the row becomes DISPATCHED, the trip by key, the POD decision
\* when the operator gave one.
CommitDispatch(r) ==
  /\ req[r].at = "dispatch"
  /\ dispatch' = "DISPATCHED"
  /\ trip' = [trip EXCEPT !.status = "DISPATCHED",
                          !.podReq = IF req[r].op = "keepPod" THEN @ ELSE req[r].op = "podYes"]
  /\ once' = IF req[r].op = "podNo" THEN once \cup {"podWaived"} ELSE once
  /\ Finish(r)
  /\ UNCHANGED <<pod, incident, changes, free, elsewhere>>

-----------------------------------------------------------------------------
(***************************************************************************)
(* Arrival, proof of delivery, delivered, completed.                        *)
(***************************************************************************)

\* Mutant: the arrival does not ask whether the trip is on the road.
ArriveAnywhere(r) ==
  /\ Begin(r, At("arrive", "arrival"))
  /\ UNCHANGED <<trip, dispatch, pod, incident, changes, free, elsewhere, once>>

ArriveAtDestination(r) ==
  /\ trip.status = "IN_TRANSIT"
  /\ Begin(r, At("arrive", "arrival"))
  /\ UNCHANGED <<trip, dispatch, pod, incident, changes, free, elsewhere, once>>

CommitArrival(r) ==
  /\ req[r].at = "arrive"
  /\ trip' = [trip EXCEPT !.arrived = TRUE]
  /\ Finish(r)
  /\ UNCHANGED <<dispatch, pod, incident, changes, free, elsewhere, once>>

\* submitPod records the document PRESENT; the documents endpoint any status.
SubmitPod(r) ==
  /\ trip.status \in {"IN_TRANSIT", "DELIVERED"}
  /\ Begin(r, At("podRead", "submit"))
  /\ UNCHANGED <<trip, dispatch, pod, incident, changes, free, elsewhere, once>>

RecordDocument(r, s) ==
  /\ Begin(r, [At("podRead", "document") EXCEPT !.to = s])
  /\ UNCHANGED <<trip, dispatch, pod, incident, changes, free, elsewhere, once>>

ReadPod(r) ==
  /\ req[r].at = "podRead"
  /\ req' = [req EXCEPT ![r].at = "podWrite", ![r].seen = pod]
  /\ UNCHANGED <<trip, dispatch, pod, incident, changes, free, elsewhere, once>>

\* A decision read (VERIFIED, REJECTED) is kept.  A create that comes second breaks
\* on the unique (trip, type), an update of a deleted row on the missing key.
WritePod(r) ==
  /\ req[r].at = "podWrite"
  /\ LET seen  == req[r].seen
         input == IF req[r].op = "document" THEN req[r].to ELSE "PRESENT"
     IN  IF seen = "GONE" \/ (seen = "NONE" /\ pod # "NONE")
         THEN Finish(r) /\ UNCHANGED <<pod, once>>
         ELSE /\ pod' = IF seen \in {"VERIFIED", "REJECTED"} THEN seen ELSE input
              /\ once' = IF pod' = "VERIFIED" THEN once \cup {"podVerified"} ELSE once
              /\ IF req[r].op = "document" THEN Finish(r) ELSE Goto(r, "arrive")
  /\ UNCHANGED <<trip, dispatch, incident, changes, free, elsewhere>>

VerifyPod(r) ==
  /\ pod \notin {"NONE", "VERIFIED"}
  /\ Begin(r, [At("verify", "verify") EXCEPT !.seen = pod])
  /\ UNCHANGED <<trip, dispatch, pod, incident, changes, free, elsewhere, once>>

CommitVerify(r) ==
  /\ req[r].at = "verify"
  /\ IF req[r].seen = "GONE"
     THEN UNCHANGED <<pod, once>>
     ELSE pod' = "VERIFIED" /\ once' = once \cup {"podVerified"}
  /\ Finish(r)
  /\ UNCHANGED <<trip, dispatch, incident, changes, free, elsewhere>>

\* deleteDocument: the row that running requests have read is gone.
DeleteDocument ==
  /\ pod # "NONE"
  /\ pod' = "NONE"
  /\ req' = [r \in Requests |->
       IF req[r].at \in {"podWrite", "verify"} /\ req[r].seen # "NONE"
       THEN [req[r] EXCEPT !.seen = "GONE"] ELSE req[r]]
  /\ UNCHANGED <<trip, dispatch, incident, changes, free, elsewhere, once>>

MarkDelivered(r) ==
  /\ MayMoveOperationally(trip.status, "DELIVERED")
  /\ Begin(r, At("ready", "DELIVERED"))
  /\ UNCHANGED <<trip, dispatch, pod, incident, changes, free, elsewhere, once>>

CompleteTrip(r) ==
  /\ MayMoveOperationally(trip.status, "COMPLETED")
  /\ Begin(r, [At("ready", "COMPLETED") EXCEPT !.veh = trip.veh])
  /\ UNCHANGED <<trip, dispatch, pod, incident, changes, free, elsewhere, once>>

\* getDeliveryReadiness and getCompletionReadiness load the trip and the POD anew.
CheckReadiness(r) ==
  /\ req[r].at = "ready"
  /\ IF /\ PodSettled
        /\ IF req[r].op = "DELIVERED" THEN trip.arrived ELSE trip.status \in {"DELIVERED", "COMPLETED"}
     THEN Goto(r, "close") ELSE Finish(r)
  /\ UNCHANGED <<trip, dispatch, pod, incident, changes, free, elsewhere, once>>

\* By key; completing frees the vehicle read at the start.
CommitDelivery(r) ==
  /\ req[r].at = "close"
  /\ trip' = [trip EXCEPT !.status = req[r].op]
  /\ free' = IF req[r].op = "COMPLETED" THEN Released(req[r].veh) ELSE free
  /\ once' = IF req[r].op = "DELIVERED" THEN once \cup {"delivered"} ELSE once
  /\ Finish(r)
  /\ UNCHANGED <<dispatch, pod, incident, changes, elsewhere>>

-----------------------------------------------------------------------------
(***************************************************************************)
(* On the road: incidents and vehicle changes, at any status of the trip.   *)
(***************************************************************************)

ReportIncident(r) ==
  /\ req[r] = Idle /\ incident = "NONE"
  /\ incident' = "ONGOING"
  /\ UNCHANGED <<trip, dispatch, pod, changes, free, elsewhere, req, once>>

Linked == \E i \in DOMAIN changes : changes[i].linked

\* Mutant: VEHICLE_CHANGED is believed without a recorded change.
ResolveUnchecked(r, res) ==
  /\ incident # "NONE"
  /\ Begin(r, [At("resolve", "resolve") EXCEPT !.to = res])
  /\ UNCHANGED <<trip, dispatch, pod, incident, changes, free, elsewhere, once>>

\* VEHICLE_CHANGED needs a change recorded for the incident; that the incident is
\* still open is not asked.
ResolveIncident(r, res) ==
  /\ incident # "NONE"
  /\ res = "VEHICLE_CHANGED" => Linked
  /\ Begin(r, [At("resolve", "resolve") EXCEPT !.to = res])
  /\ UNCHANGED <<trip, dispatch, pod, incident, changes, free, elsewhere, once>>

CommitResolve(r) ==
  /\ req[r].at = "resolve"
  /\ incident' = req[r].to
  /\ Finish(r)
  /\ UNCHANGED <<trip, dispatch, pod, changes, free, elsewhere, once>>

\* Reads the trip, the replacement's flag, the incident it is raised from and the
\* number of changes so far.
ChangeVehicle(r, v, linked) ==
  /\ Len(changes) < MaxChanges
  /\ v # trip.veh /\ free[v]
  /\ linked => incident # "NONE"
  /\ Begin(r, [At("change", IF linked THEN "linked" ELSE "unlinked") EXCEPT
                 !.veh = trip.veh, !.to = v, !.seen = incident, !.n = Len(changes)])
  /\ UNCHANGED <<trip, dispatch, pod, incident, changes, free, elsewhere, once>>

\* One transaction: the change row, the trip's vehicle by key, and the incident when
\* it was read as open.  The flags of both vehicles stay as they are.
CommitChange(r) ==
  /\ req[r].at = "change"
  /\ Len(changes) < MaxChanges
  /\ changes' = Append(changes, [seq |-> req[r].n + 1, old |-> req[r].veh, new |-> req[r].to,
                                 linked |-> req[r].op = "linked"])
  /\ trip' = [trip EXCEPT !.veh = req[r].to]
  /\ incident' = IF req[r].op = "linked" /\ req[r].seen = "ONGOING" THEN "VEHICLE_CHANGED" ELSE incident
  /\ Finish(r)
  /\ UNCHANGED <<dispatch, pod, free, elsewhere, once>>

\* The request fails or the process dies; a transaction not committed leaves nothing.
Abort(r) ==
  /\ req[r] # Idle
  /\ Finish(r)
  /\ UNCHANGED <<trip, dispatch, pod, incident, changes, free, elsewhere, once>>

-----------------------------------------------------------------------------

Start(r) ==
  \/ "assign" \in mix /\ \E v \in Vehicles : Assign(r, v)
  \/ "loading" \in mix /\ ((\E op \in DOMAIN Target \ {"cancel"} : Perform(r, op)) \/ RecordLoadingFacts(r))
  \/ "cancel" \in mix /\ Perform(r, "cancel")
  \/ "drafts" \in mix /\ \E p \in {"keepPod", "podYes", "podNo"} : SaveDraft(r, p)
  \/ "dispatch" \in mix /\ \E p \in {"keepPod", "podYes", "podNo"} : Dispatch(r, p)
  \/ "pod" \in mix /\ (SubmitPod(r) \/ VerifyPod(r))
  \/ "documents" \in mix /\ \E s \in DocInputs : RecordDocument(r, s)
  \/ "delivery" \in mix /\ (ArriveAtDestination(r) \/ MarkDelivered(r) \/ CompleteTrip(r))
  \/ "incidents" \in mix
     /\ (ReportIncident(r) \/ \E res \in {"RESOLVED", "VEHICLE_CHANGED"} : ResolveIncident(r, res))
  \/ "vehicleChange" \in mix /\ \E v \in Vehicles, linked \in BOOLEAN : ChangeVehicle(r, v, linked)

Continue(r) ==
  \/ Engage(r) \/ ReadForPromotion(r) \/ Promote(r) \/ MarkVehicles(r)
  \/ CommitMove(r) \/ WriteDraft(r) \/ WritePodDecision(r) \/ CommitDispatch(r)
  \/ CommitArrival(r) \/ ReadPod(r) \/ WritePod(r) \/ CommitVerify(r)
  \/ CheckReadiness(r) \/ CommitDelivery(r) \/ CommitResolve(r) \/ CommitChange(r)

Elsewhere ==
  "otherTrips" \in mix /\ \E v \in Vehicles : TakenElsewhere(v) \/ FreedElsewhere(v)

Next ==
  /\ \/ \E r \in Requests : Start(r) \/ Continue(r) \/ Abort(r)
     \/ Elsewhere
     \/ "documents" \in mix /\ DeleteDocument
  /\ UNCHANGED mix

Spec == Init /\ [][Next]_vars

-----------------------------------------------------------------------------
(***************************************************************************)
(* Properties.                                                              *)
(***************************************************************************)

RequestState ==
  [at : {"idle", "engage", "engaged", "promote", "mark", "move", "draft", "podDecision",
         "dispatch", "arrive", "podRead", "podWrite", "verify", "ready", "close",
         "resolve", "change"},
   op : {"none", "assign", "keepPod", "podYes", "podNo", "arrival", "submit", "document",
         "verify", "DELIVERED", "COMPLETED", "resolve", "linked", "unlinked"} \cup DOMAIN Target,
   veh : Vehicles \cup {None},
   to : Vehicles \cup {None, "RESOLVED", "VEHICLE_CHANGED"} \cup DocInputs,
   seen : DocStatuses \cup {"GONE", "ONGOING", "RESOLVED", "VEHICLE_CHANGED", "DISPATCHED"},
   n : Nat]

RowsOK ==
  /\ trip \in [status : TripStatuses, loaded : BOOLEAN, arrived : BOOLEAN,
               veh : Vehicles \cup {None}, podReq : BOOLEAN]
  /\ dispatch \in {"NONE", "PENDING", "DISPATCHED"}
  /\ pod \in DocStatuses
  /\ incident \in {"NONE", "ONGOING", "RESOLVED", "VEHICLE_CHANGED"}
  /\ changes \in Seq([seq : Nat, old : Vehicles \cup {None}, new : Vehicles, linked : BOOLEAN])
  /\ Len(changes) <= MaxChanges
  /\ free \in [Vehicles -> BOOLEAN]
  /\ elsewhere \subseteq Vehicles
  /\ once \subseteq {"podVerified", "podWaived", "delivered"}
  /\ mix \in Mixes

\* Every row and every request has its type.
TripLifeTypeOK == RowsOK /\ req \in [Requests -> RequestState]

\* However late a write lands on what other requests did meanwhile, the status is never
\* ahead of the facts: on the road only with loading recorded and a DISPATCHED row,
\* delivered only after an arrival and a POD that was verified or not asked for,
\* completed only after a delivery.  A stale write can set a trip back or revive it,
\* it cannot skip a check.
NeverAheadOfFacts ==
  /\ trip.status \in {"LOADED"} \cup HasLeft => trip.loaded
  /\ trip.status \in HasLeft => dispatch = "DISPATCHED"
  /\ trip.status \in {"DELIVERED", "COMPLETED"} =>
       trip.arrived /\ once \cap {"podVerified", "podWaived"} # {}
  /\ trip.status = "COMPLETED" => "delivered" \in once

\* A dispatch record never falls back to a draft and never disappears: a save of
\* paperwork that read it before the dispatch leaves the departure standing.
DispatchRowAdvances ==
  [][ /\ dispatch = "DISPATCHED" => dispatch' = "DISPATCHED"
      /\ dispatch = "PENDING" => dispatch' # "NONE" ]_vars

\* An incident closed as VEHICLE_CHANGED has a recorded change of vehicle raised from it,
\* in whichever order the two desks resolve it and change the vehicle.
ChangeBacksIncident == incident = "VEHICLE_CHANGED" => Linked

-----------------------------------------------------------------------------
\* The facts of the journey, as the rows and their history show them.
Established ==
  {f \in {"loaded"}     : trip.loaded} \cup
  {f \in {"departed"}   : dispatch = "DISPATCHED"} \cup
  {f \in {"podSettled"} : once \cap {"podVerified", "podWaived"} # {}} \cup
  {f \in {"arrived"}    : trip.arrived} \cup
  {f \in {"delivered"}  : "delivered" \in once}

Charter == INSTANCE TripCharter WITH status <- trip.status, facts <- Established

\* All of it together implements the charter of the trip: whatever the eight services
\* do, in whatever order their reads and writes fall, no fact is established before
\* those it rests on or taken back, and the status never says more than they do.
KeepsCharter == Charter!Spec
=============================================================================
