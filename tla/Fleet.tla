-------------------------------- MODULE Fleet --------------------------------
(***************************************************************************)
(* Several trips and the vehicles they compete for.  Four writers put a     *)
(* vehicle on a trip, each with a guard of its own:                         *)
(*   assign (TripVehicleAssignmentService): row locks, then rules by day;    *)
(*   createTrip (TripService): an advisory lock, no other active trip;       *)
(*   updateTrip (TripService): the same check, the write after its commit;   *)
(*   ensureTripForBooking (TripProvisioningService): no check at all;        *)
(* and an exclusion constraint of the database covers the rows that carry a *)
(* time window.  One action per statement, on READ COMMITTED, with the row   *)
(* and advisory locks PostgreSQL holds until the transaction ends.  The      *)
(* driver column goes through the same statements as the vehicle column and  *)
(* is left out.                                                             *)
(***************************************************************************)
EXTENDS TripStates, Naturals, FiniteSets

CONSTANTS
  Trips,      \* trip ids; a trip that does not exist yet is ABSENT
  Vehicles,
  Requests,   \* HTTP requests the server may be handling at once
  None,       \* no vehicle, no lock holder
  Ops,        \* the endpoints that are called
  Targets,    \* the statuses the generic status endpoint is asked for
  Booked,     \* the vehicle the booking of a trip carries, or None
  Day,        \* pickup day of a trip
  Until,      \* day its occupancy window ends (expected delivery)
  Stamps,     \* trips whose pickup date and time parse, so assign stores a window
  MayCrash    \* the process may die between two statements

FleetOps == {"assign", "adminAssign", "createTrip", "updateTrip",
             "ensureTripForBooking", "ensureTripForEnquiry", "updateTripStatus",
             "releaseReservation"}

ASSUME FleetAssumption ==
  /\ Ops \subseteq FleetOps
  /\ None \notin Vehicles /\ None \notin Requests
  /\ Trips \cap Vehicles = {}
  /\ Targets \subseteq TripStatuses
  /\ Stamps \subseteq Trips
  /\ Booked \in [Trips -> Vehicles \cup {None}]
  /\ Day \in [Trips -> Nat] /\ Until \in [Trips -> Nat]
  /\ \A t \in Trips : Day[t] <= Until[t]   \* a window that ends before it begins is not stored
  /\ MayCrash \in BOOLEAN

VARIABLES
  trip,      \* status, vehicle_id, whether an occupancy window is stored, and
             \* whether it was opened as the reservation of an enquiry
  mirror,    \* assigned_vehicle_id of the enquiry behind a trip
  rowLock,   \* who holds the row lock of a trip or a vehicle
  advisory,  \* who holds the advisory lock of a vehicle
  req,       \* what each running request has read and does next, and (history)
             \* whether a commit overtook it
  how,       \* history: which writer engaged the trip's vehicle
  revived,   \* history: trips taken out of a final status by a stale write
  raced      \* history: trips whose vehicle another request engaged between check and write

vars == <<trip, mirror, rowLock, advisory, req, how, revived, raced>>
history == <<revived, raced>>
locks == <<rowLock, advisory>>

-----------------------------------------------------------------------------

\* ASSIGNABLE_TRIP_STATUSES
Assignable == {"PENDING", "ASSIGNED", "TO_LOADING_POINT", "AT_LOADING_POINT"}

Idle == [at |-> "idle", op |-> "none", t |-> None, v |-> None, st |-> "ABSENT",
         todo |-> {}, late |-> FALSE]

NoTrip == [status |-> "ABSENT", veh |-> None, stamped |-> FALSE, enquiry |-> FALSE]
\* Mutant: an insert that names only the columns it was given.
NewTripNoDefaults(s, v) == [status |-> s, veh |-> v]
NewTrip(s, v) == [NoTrip EXCEPT !.status = s, !.veh = v]

Active(t)        == trip[t].status \in ActiveStatuses
UsersOf(v)       == {t \in Trips : Active(t) /\ trip[t].veh = v}
Begin(r, seen)   == req[r] = Idle /\ req' = [req EXCEPT ![r] = seen]
Goto(r, l)       == req' = [req EXCEPT ![r].at = l]
Finish(r)        == req' = [req EXCEPT ![r] = Idle]
MayLock(r, x)    == rowLock[x] \in {None, r}
Lock(r, x)       == MayLock(r, x) /\ rowLock' = [rowLock EXCEPT ![x] = r]
\* The transaction of r ends: commit or rollback drops every lock it holds.
Unlock(r) ==
  /\ rowLock'  = [x \in DOMAIN rowLock |-> IF rowLock[x] = r THEN None ELSE rowLock[x]]
  /\ advisory' = [v \in Vehicles |-> IF advisory[v] = r THEN None ELSE advisory[v]]

\* A request that has checked the vehicle of r and not written yet is overtaken by
\* the commit of r; a trip engaged by an overtaken request is raced.
Overtake(r, next) ==
  req' = [s \in Requests |->
    IF s = r THEN next
    ELSE [req[s] EXCEPT !.late = @ \/ (req[s].at \in {"write", "insert"} /\ req[s].v = req[r].v)]]
Engage(r, writer) ==
  /\ how' = [how EXCEPT ![req[r].t] = writer]
  /\ raced' = IF req[r].late THEN raced \cup {req[r].t} ELSE raced \ {req[r].t}

\* trips_vehicle_time_exclude: would row (v, stamped) of trip t, being active,
\* overlap the window of another active row of the same vehicle?
Excluded(t, v, stamped) ==
  /\ v # None /\ stamped
  /\ \E u \in UsersOf(v) \ {t} :
        /\ trip[u].stamped
        /\ Day[t] < Until[u] /\ Day[u] < Until[t]

\* assertVehicleFree: the pickup day of t against the stored window of u, both
\* ends included, or against the day of u when it has none.
\* Mutant: a trip without a stored window clashes with nothing.
OnlyWindowsClash(t, u) == trip[u].stamped /\ Day[u] <= Day[t] /\ Day[t] <= Until[u]
DaysClash(t, u) ==
  IF trip[u].stamped THEN Day[u] <= Day[t] /\ Day[t] <= Until[u] ELSE Day[t] = Day[u]

VehicleFree(t, v) == \A u \in UsersOf(v) \ {t} : ~DaysClash(t, u)

\* Another enquiry of the day mirrors the vehicle.  That refuses as long as the enquiry's
\* status is one of ENQUIRY_HOLD_STATUSES, which is not followed here: it may refuse.
HeldByEnquiry(t, v) == \E u \in Trips \ {t} : mirror[u] = v /\ Day[u] = Day[t]

Init ==
  /\ trip = [t \in Trips |-> NoTrip]
  /\ mirror = [t \in Trips |-> None]
  /\ rowLock = [x \in Trips \cup Vehicles |-> None]
  /\ advisory = [v \in Vehicles |-> None]
  /\ req = [r \in Requests |-> Idle]
  /\ how = [t \in Trips |-> "none"]
  /\ revived = {}
  /\ raced = {}

-----------------------------------------------------------------------------
(***************************************************************************)
(* assign, alone (hire desk) or behind adminAssign (enquiry desk).          *)
(***************************************************************************)

\* Read the trip.  Nothing is done when vehicle, driver and vendor are what they were; a driver
\* or vendor may change beside a vehicle that stays.
Assign(r, t, v) ==
  /\ "assign" \in Ops
  /\ trip[t].status \in Assignable
  /\ Begin(r, [Idle EXCEPT !.at = "lockOwn", !.op = "assign", !.t = t, !.v = v])
  /\ UNCHANGED <<trip, mirror, locks, how, history>>

\* adminAssign checks the vehicle and writes the enquiry's mirror without a lock.
AdminAssign(r, t, v) ==
  /\ "adminAssign" \in Ops
  /\ trip[t].enquiry /\ VehicleFree(t, v)
  /\ Begin(r, [Idle EXCEPT !.at = "mirror", !.op = "assign", !.t = t, !.v = v])
  /\ UNCHANGED <<trip, mirror, locks, how, history>>

WriteMirror(r) ==
  /\ req[r].at = "mirror"
  /\ mirror' = [mirror EXCEPT ![req[r].t] = req[r].v]
  /\ Goto(r, "resolve")
  /\ UNCHANGED <<trip, locks, how, history>>

ResolveTrip(r) ==
  /\ req[r].at = "resolve"
  /\ LET t == req[r].t
     IN  \/ trip[t].status \in Assignable /\ Goto(r, "lockOwn")
         \/ (trip[t].status \notin Assignable \/ trip[t].veh = req[r].v) /\ Finish(r)
  /\ UNCHANGED <<trip, mirror, locks, how, history>>

\* SELECT ... FOR UPDATE of the own trip, then of the vehicle.
LockOwnTrip(r) ==
  /\ req[r].at = "lockOwn"
  /\ Lock(r, req[r].t)
  /\ Goto(r, "lockVehicle")
  /\ UNCHANGED <<trip, mirror, advisory, how, history>>

LockVehicle(r) ==
  /\ req[r].at = "lockVehicle"
  /\ Lock(r, req[r].v)
  /\ Goto(r, "scan")
  /\ UNCHANGED <<trip, mirror, advisory, how, history>>

\* The other active trips of the vehicle as this statement finds them, locked one
\* by one.
ScanOthers(r) ==
  /\ req[r].at = "scan"
  /\ req' = [req EXCEPT ![r].at = "lockOthers", ![r].todo = UsersOf(req[r].v) \ {req[r].t}]
  /\ UNCHANGED <<trip, mirror, locks, how, history>>

LockOther(r, t) ==
  /\ req[r].at = "lockOthers"
  /\ t \in req[r].todo
  /\ Lock(r, t)
  /\ req' = [req EXCEPT ![r].todo = @ \ {t}]
  /\ UNCHANGED <<trip, mirror, advisory, how, history>>

\* Mutant: the checks run on what was free before the locks.
SkipsValidation(r) ==
  /\ req[r].at = "lockOthers"
  /\ req[r].todo = {}
  /\ Goto(r, "write")
  /\ UNCHANGED <<trip, mirror, locks, how, history>>

\* validateAssignment, after the locks are held; refusing rolls back.
Validate(r) ==
  /\ req[r].at = "lockOthers"
  /\ req[r].todo = {}
  /\ LET t == req[r].t
         v == req[r].v
     IN  \/ VehicleFree(t, v) /\ Goto(r, "write") /\ UNCHANGED locks
         \/ (~VehicleFree(t, v) \/ HeldByEnquiry(t, v)) /\ Finish(r) /\ Unlock(r)
  /\ UNCHANGED <<trip, mirror, how, history>>

\* The trip, by key, and the enquiry's mirror; commit.  A window once stored stays.
WriteAssignment(r) ==
  /\ req[r].at = "write"
  /\ LET t == req[r].t
         stamped == trip[t].stamped \/ t \in Stamps
     IN  IF Active(t) /\ Excluded(t, req[r].v, stamped)
         THEN Finish(r) /\ UNCHANGED <<trip, mirror, how, raced>>
         ELSE /\ trip' = [trip EXCEPT ![t].veh = req[r].v, ![t].stamped = stamped]
              /\ mirror' = [mirror EXCEPT ![t] = IF trip[t].enquiry THEN req[r].v ELSE @]
              /\ Engage(r, "assign")
              /\ Overtake(r, [Idle EXCEPT !.at = "readStatus", !.op = "assign", !.t = t])
  /\ Unlock(r)
  /\ UNCHANGED revived

\* Outside the transaction: a trip read as PENDING is promoted, by key.
ReadForPromotion(r) ==
  /\ req[r].at = "readStatus"
  /\ IF trip[req[r].t].status = "PENDING"
     THEN req' = [req EXCEPT ![r].at = "setStatus", ![r].st = "ASSIGNED"]
     ELSE Finish(r)
  /\ UNCHANGED <<trip, mirror, locks, how, history>>

-----------------------------------------------------------------------------
(***************************************************************************)
(* updateTripStatus, and the last write of assign.                          *)
(***************************************************************************)

\* The move is validated against the status read here.
UpdateTripStatus(r, t, s) ==
  /\ "updateTripStatus" \in Ops
  /\ MayMove(trip[t].status, s)
  /\ Begin(r, [Idle EXCEPT !.at = "setStatus", !.op = "status", !.t = t, !.st = s])
  /\ UNCHANGED <<trip, mirror, locks, how, history>>

\* Written by key over whatever the status is by then; the constraint watches a
\* row that becomes active.
SetStatus(r) ==
  /\ req[r].at = "setStatus" /\ req[r].st \notin FinalStatuses
  /\ LET t == req[r].t
     IN  /\ MayLock(r, t)
         /\ IF Excluded(t, trip[t].veh, trip[t].stamped)
            THEN UNCHANGED <<trip, revived>>
            ELSE /\ trip' = [trip EXCEPT ![t].status = req[r].st]
                 /\ revived' = IF trip[t].status \in FinalStatuses THEN revived \cup {t} ELSE revived
  /\ Finish(r)
  /\ UNCHANGED <<mirror, locks, how, raced>>

\* COMPLETED and CANCELLED: the transaction holds the trip's row and, when no other
\* active trip has the vehicle, updates the vehicle's row.
StartClosing(r) ==
  /\ req[r].at = "setStatus" /\ req[r].st \in FinalStatuses
  /\ Lock(r, req[r].t)
  /\ Goto(r, "close")
  /\ UNCHANGED <<trip, mirror, advisory, how, history>>

CommitClosing(r) ==
  /\ req[r].at = "close"
  /\ LET t == req[r].t
         v == trip[t].veh
     IN  /\ v # None /\ UsersOf(v) \ {t} = {} => MayLock(r, v)
         /\ trip' = [trip EXCEPT ![t].status = req[r].st]
  /\ Unlock(r)
  /\ Finish(r)
  /\ UNCHANGED <<mirror, how, history>>

-----------------------------------------------------------------------------
(***************************************************************************)
(* createTrip and updateTrip.                                               *)
(***************************************************************************)

\* A new row of its own: no other request inserts the same id.
Unused(t) == trip[t].status = "ABSENT" /\ \A r \in Requests : req[r].t # t

CreateTrip(r, t, v) ==
  /\ "createTrip" \in Ops
  /\ Unused(t)
  /\ Begin(r, [Idle EXCEPT !.at = "lockAdvisory", !.op = "create", !.t = t, !.v = v])
  /\ UNCHANGED <<trip, mirror, locks, how, history>>

UpdateTrip(r, t, v) ==
  /\ "updateTrip" \in Ops
  /\ trip[t].status # "ABSENT" /\ trip[t].veh # v
  /\ Begin(r, [Idle EXCEPT !.at = "lockAdvisory", !.op = "update", !.t = t, !.v = v])
  /\ UNCHANGED <<trip, mirror, locks, how, history>>

\* Mutant: the lock is taken on the pool and not in the transaction, so nobody holds it.
LockVanishes(r) ==
  /\ req[r].at = "lockAdvisory"
  /\ Goto(r, "check")
  /\ UNCHANGED <<trip, mirror, locks, how, history>>

\* _acquireAdvisoryLocks: pg_advisory_xact_lock
AcquireAdvisoryLock(r) ==
  /\ req[r].at = "lockAdvisory"
  /\ advisory[req[r].v] = None
  /\ advisory' = [advisory EXCEPT ![req[r].v] = r]
  /\ Goto(r, "check")
  /\ UNCHANGED <<trip, mirror, rowLock, how, history>>

\* Any other active trip with the vehicle, whatever its day, refuses.  createTrip
\* inserts next; updateTrip's transaction is over and its lock gone.
CheckConflict(r) ==
  /\ req[r].at = "check"
  /\ IF UsersOf(req[r].v) \ {req[r].t} # {}
     THEN Finish(r) /\ Unlock(r)
     ELSE IF req[r].op = "create"
          THEN Goto(r, "insert") /\ UNCHANGED locks
          ELSE Goto(r, "setVehicle") /\ Unlock(r)
  /\ UNCHANGED <<trip, mirror, how, history>>

InsertTrip(r) ==
  /\ req[r].at = "insert"
  /\ LET t == req[r].t
     IN  trip' = [trip EXCEPT ![t] = NewTrip("PENDING", req[r].v)]
  /\ Engage(r, "create")
  /\ Overtake(r, Idle)
  /\ Unlock(r)
  /\ UNCHANGED <<mirror, revived>>

\* tripRepo.update, by key and outside the transaction that checked.
SetVehicle(r) ==
  /\ req[r].at = "setVehicle"
  /\ LET t == req[r].t
     IN  /\ MayLock(r, t)
         /\ IF Active(t) /\ Excluded(t, req[r].v, trip[t].stamped)
            THEN UNCHANGED <<trip, how, raced>>
            ELSE trip' = [trip EXCEPT ![t].veh = req[r].v] /\ Engage(r, "update")
  /\ Finish(r)
  /\ UNCHANGED <<mirror, locks, revived>>

-----------------------------------------------------------------------------
(***************************************************************************)
(* ensureTripFor... and _releaseReservation.                                *)
(***************************************************************************)

\* The booking has no trip yet; its vehicle, if any, is taken as it stands.
EnsureTripForBooking(r, t) ==
  /\ "ensureTripForBooking" \in Ops
  /\ Unused(t)
  /\ Begin(r, [Idle EXCEPT !.at = "provision", !.op = "provision", !.t = t, !.v = Booked[t]])
  /\ UNCHANGED <<trip, mirror, locks, how, history>>

Provision(r) ==
  /\ req[r].at = "provision"
  /\ LET t == req[r].t
         v == req[r].v
     IN  /\ trip' = [trip EXCEPT ![t] = NewTrip(IF v = None THEN "PENDING" ELSE "ASSIGNED", v)]
  /\ Engage(r, "provision")
  /\ Finish(r)
  /\ UNCHANGED <<mirror, locks, revived>>

\* The reservation of an enquiry (EnquiryOrder follows it statement by statement).
EnsureTripForEnquiry(r, t) ==
  /\ "ensureTripForEnquiry" \in Ops
  /\ req[r] = Idle /\ Unused(t)
  /\ trip' = [trip EXCEPT ![t] = [NewTrip("PENDING", None) EXCEPT !.enquiry = TRUE]]
  /\ UNCHANGED <<mirror, locks, req, how, history>>

\* The enquiry was rejected or cancelled; its trip is found live with a vehicle.
ReleaseReservation(r, t) ==
  /\ "releaseReservation" \in Ops
  /\ trip[t].enquiry /\ Active(t) /\ trip[t].veh # None
  /\ Begin(r, [Idle EXCEPT !.at = "release", !.op = "release", !.t = t])
  /\ UNCHANGED <<trip, mirror, locks, how, history>>

Release(r) ==
  /\ req[r].at = "release"
  /\ LET t == req[r].t
     IN  /\ MayLock(r, t)
         /\ trip' = [trip EXCEPT ![t].veh = None]
         /\ mirror' = [mirror EXCEPT ![t] = None]
  /\ Engage(r, "none")
  /\ Finish(r)
  /\ UNCHANGED <<locks, revived>>

-----------------------------------------------------------------------------
(***************************************************************************)
(* What PostgreSQL and the platform do.                                     *)
(***************************************************************************)

\* The row locks a request waits for; it waits when all of them are taken.
Wanted(r) ==
  CASE req[r].at = "lockOwn"     -> {req[r].t}
    [] req[r].at = "lockVehicle" -> {req[r].v}
    [] req[r].at = "lockOthers"  -> req[r].todo
    [] req[r].at = "close"       -> {trip[req[r].t].veh} \ {None}
    [] OTHER                     -> {}

WaitsFor(r, s) ==
  /\ r # s
  /\ \A x \in Wanted(r) : ~MayLock(r, x)
  /\ \E x \in Wanted(r) : rowLock[x] = s

InDeadlock(r) ==
  \E cycle \in SUBSET Requests :
    /\ r \in cycle
    /\ \A x \in cycle : (\E y \in cycle : WaitsFor(x, y)) /\ (\E y \in cycle : WaitsFor(y, x))

\* deadlock_timeout: the database aborts one transaction of the cycle.
BreakDeadlock(r) ==
  /\ InDeadlock(r)
  /\ Finish(r) /\ Unlock(r)
  /\ UNCHANGED <<trip, mirror, how, history>>

\* The process dies or the transaction times out; what it had not committed is gone.
Crash(r) ==
  /\ MayCrash /\ req[r] # Idle
  /\ Finish(r) /\ Unlock(r)
  /\ UNCHANGED <<trip, mirror, how, history>>

-----------------------------------------------------------------------------

Arrive(r) ==
  \/ \E t \in Trips, v \in Vehicles :
        Assign(r, t, v) \/ AdminAssign(r, t, v) \/ CreateTrip(r, t, v) \/ UpdateTrip(r, t, v)
  \/ \E t \in Trips, s \in Targets : UpdateTripStatus(r, t, s)
  \/ \E t \in Trips : EnsureTripForBooking(r, t) \/ EnsureTripForEnquiry(r, t) \/ ReleaseReservation(r, t)

Step(r) ==
  \/ WriteMirror(r) \/ ResolveTrip(r) \/ LockOwnTrip(r) \/ LockVehicle(r) \/ ScanOthers(r)
  \/ (\E t \in Trips : LockOther(r, t)) \/ Validate(r) \/ WriteAssignment(r)
  \/ ReadForPromotion(r) \/ SetStatus(r) \/ StartClosing(r) \/ CommitClosing(r)
  \/ AcquireAdvisoryLock(r) \/ CheckConflict(r) \/ InsertTrip(r) \/ SetVehicle(r)
  \/ Provision(r) \/ Release(r) \/ BreakDeadlock(r) \/ Crash(r)

Next == \E r \in Requests : Arrive(r) \/ Step(r)

Spec == Init /\ [][Next]_vars

-----------------------------------------------------------------------------
(***************************************************************************)
(* Properties.                                                              *)
(***************************************************************************)

RequestState ==
  [at : {"idle", "mirror", "resolve", "lockOwn", "lockVehicle", "scan", "lockOthers",
         "write", "readStatus", "setStatus", "close", "lockAdvisory", "check",
         "insert", "setVehicle", "provision", "release"},
   op : {"none", "assign", "status", "create", "update", "provision", "release"},
   t : Trips \cup {None}, v : Vehicles \cup {None},
   st : TripStatuses \cup {"ABSENT"}, todo : SUBSET Trips, late : BOOLEAN]

TripState == [status : TripStatuses \cup {"ABSENT"}, veh : Vehicles \cup {None},
              stamped : BOOLEAN, enquiry : BOOLEAN]

\* Every row and every request has its type.
FleetTypeOK ==
  /\ trip \in [Trips -> TripState]
  /\ mirror \in [Trips -> Vehicles \cup {None}]
  /\ rowLock \in [Trips \cup Vehicles -> Requests \cup {None}]
  /\ advisory \in [Vehicles -> Requests \cup {None}]
  /\ req \in [Requests -> RequestState]
  /\ how \in [Trips -> {"none", "assign", "create", "update", "provision"}]
  /\ revived \subseteq Trips /\ raced \subseteq Trips

\* A trip that is active by the state machine and engaged by the given writer.
Engaged(t, writer) == Active(t) /\ t \notin revived /\ how[t] = writer /\ trip[t].veh # None

\* Two active trips that assign() engaged never have one vehicle on the same pickup
\* day, whatever the other writers do meanwhile: its row locks order the checks.
\* (A trip a stale status write took out of a final status is not covered.)
AssignedApart ==
  \A t, u \in Trips :
    t # u /\ Engaged(t, "assign") /\ Engaged(u, "assign") /\ Day[t] = Day[u]
      => trip[t].veh # trip[u].veh

\* Two active trips that createTrip inserted never have one vehicle, on any day: the
\* advisory lock makes check and insert one step for each other.
CreatedApart ==
  \A t, u \in Trips :
    t # u /\ Engaged(t, "create") /\ Engaged(u, "create") => trip[t].veh # trip[u].veh

\* Across the two families: unless another engagement of the vehicle committed between
\* the check and the write of one of them (advisory locks and row locks do not see
\* each other), two active trips of one day have different vehicles however assign()
\* and createTrip share them out.
ApartUnlessRaced ==
  \A t, u \in Trips \ raced :
    t # u /\ Day[t] = Day[u] /\ Engaged(t, "assign") /\ Engaged(u, "create")
      => trip[t].veh # trip[u].veh
=============================================================================
