---------------------------- MODULE Fleet_proofs ----------------------------
(***************************************************************************)
(* Theorems about Fleet, for every set of trips, vehicles and requests,     *)
(* every calendar and every set of endpoints in use.  A request about to     *)
(* write holds the lock of its vehicle, so what it has found out about the   *)
(* vehicle's other trips of its own kind stands; what it has found out about *)
(* those of the other kind stands until a commit overtakes it.               *)
(***************************************************************************)
EXTENDS Fleet, TLAPS

\* The places where a request works for assign() under its row locks.
Assigning == {"lockVehicle", "scan", "lockOthers", "write"}

\* What the place of a request says of what it carries, whatever the rows say now.
WellFormed(x) ==
  /\ x.at # "idle" => x.t \in Trips
  /\ x.at \in {"mirror", "resolve", "lockOwn", "lockAdvisory", "check", "insert", "setVehicle"}
              \cup Assigning => x.v \in Vehicles
  /\ x.at \in {"setStatus", "close"} => x.st \in TripStatuses
  /\ x.at \in {"close"} => x.st \in FinalStatuses
  /\ x.late => x.at \in {"write", "insert"}
  /\ x.at \in {"setVehicle"} => x.op = "update"
  /\ x.at \in {"insert"} => x.op = "create"
  /\ x.at \in {"lockAdvisory", "check"} => x.op \in {"create", "update"}

RequestOK == {x \in RequestState : WellFormed(x)}

\* Where the trip of a request exists.
OnTrip(x) ==
  \/ x.at \in {"mirror", "resolve", "lockOwn", "readStatus", "setStatus", "close",
               "setVehicle", "release"} \cup Assigning
  \/ x.at \in {"lockAdvisory", "check"} /\ x.op = "update"

Present == \A r \in Requests : OnTrip(req[r]) => trip[req[r].t].status # "ABSENT"

\* A trip that does not exist yet is engaged by nobody.
Blank == \A t \in Trips : trip[t].status = "ABSENT" => how[t] = "none" /\ ~trip[t].enquiry

\* The lock of its vehicle a request r holds at the place of x.
Holds(r, x) ==
  /\ x.at \in {"scan", "lockOthers", "write"} => rowLock[x.v] = r
  /\ x.at \in {"check", "insert"} => advisory[x.v] = r

\* No other trip of that day, engaged by the writer, has the vehicle.
Clear(t, v, writer) ==
  \A u \in Trips \ {t} : Engaged(u, writer) /\ trip[u].veh = v => Day[u] # Day[t]

NoneCreated(t, v) == \A u \in Trips \ {t} : Engaged(u, "create") => trip[u].veh # v

\* What a request about to write may rely on.
Guarded(x) ==
  /\ x.at = "write"  => Clear(x.t, x.v, "assign") /\ (x.late \/ Clear(x.t, x.v, "create"))
  /\ x.at = "insert" => NoneCreated(x.t, x.v) /\ (x.late \/ Clear(x.t, x.v, "assign"))

RowsTyped ==
  /\ trip \in [Trips -> TripState]
  /\ mirror \in [Trips -> Vehicles \cup {None}]
  /\ rowLock \in [Trips \cup Vehicles -> Requests \cup {None}]
  /\ advisory \in [Vehicles -> Requests \cup {None}]
  /\ how \in [Trips -> {"none", "assign", "create", "update", "provision"}]
  /\ revived \subseteq Trips /\ raced \subseteq Trips

Apart == AssignedApart /\ CreatedApart /\ ApartUnlessRaced

IInv ==
  /\ RowsTyped /\ Blank
  /\ req \in [Requests -> RequestOK]
  /\ Present
  /\ \A r \in Requests : Holds(r, req[r]) /\ Guarded(req[r])
  /\ Apart

-----------------------------------------------------------------------------

\* A step that engages no trip: what is engaged after it was engaged before, with the
\* same vehicle, and raced then if it is not now.
NothingEngaged ==
  \A u \in Trips : \A w \in {"assign", "create"} :
    Engaged(u, w)' =>
      Engaged(u, w) /\ trip'[u].veh = trip[u].veh /\ (u \in raced => u \in raced')

\* A step that takes no lock from another request than r.
KeepsLocks(r) ==
  \A s \in Requests \ {r} :
    /\ \A x \in Trips \cup Vehicles : rowLock[x] = s => rowLock'[x] = s
    /\ \A v \in Vehicles : advisory[v] = s => advisory'[v] = s

\* A trip that exists goes on existing.
Stays == \A t \in Trips : trip[t].status # "ABSENT" => trip'[t].status # "ABSENT"

LEMMA GuardStands ==
  ASSUME NothingEngaged, NEW x, Guarded(x)
  PROVE  Guarded(x)'
  BY DEF NothingEngaged, Guarded, Clear, NoneCreated

LEMMA ApartStands ==
  ASSUME NothingEngaged, Apart
  PROVE  Apart'
  <1>1. AssignedApart'
    BY DEF NothingEngaged, Apart, AssignedApart
  <1>2. CreatedApart'
    BY DEF NothingEngaged, Apart, CreatedApart
  <1>3. ApartUnlessRaced'
    BY DEF NothingEngaged, Apart, ApartUnlessRaced
  <1> QED
    BY <1>1, <1>2, <1>3 DEF Apart

LEMMA IdleOK == Idle \in RequestOK /\ ~OnTrip(Idle)
  BY DEF Idle, RequestOK, RequestState, WellFormed, OnTrip, Assigning

LEMMA RequestAt ==
  ASSUME IInv, NEW r \in Requests
  PROVE  req[r] \in RequestState /\ WellFormed(req[r]) /\ Guarded(req[r])
  BY DEF IInv, RequestOK

\* A request moves on to y by a step that engages nothing.
LEMMA Moves ==
  ASSUME IInv, NEW r \in Requests, NEW y \in RequestOK, req' = [req EXCEPT ![r] = y],
         NothingEngaged, Stays, KeepsLocks(r), RowsTyped', Blank',
         OnTrip(y) => trip'[y.t].status # "ABSENT", Holds(r, y)', Guarded(y)'
  PROVE  IInv'
  <1>1. req' \in [Requests -> RequestOK]
    BY DEF IInv
  <1>2. Apart'
    BY ApartStands DEF IInv
  <1>3. ASSUME NEW q \in Requests
        PROVE  /\ OnTrip(req'[q]) => trip'[req'[q].t].status # "ABSENT"
               /\ Holds(q, req[q])' /\ Guarded(req[q])'
    <2>1. PICK z \in RequestOK : z = req'[q]
      BY <1>1
    <2>2. CASE q = r
      <3>1. z = y
        BY <2>1, <2>2 DEF IInv
      <3> QED
        BY <2>1, <2>2, <3>1 DEF Holds, Guarded
    <2>3. CASE q # r
      <3>1. z = req[q]
        BY <2>1, <2>3 DEF IInv
      <3>2. Guarded(z)'
        BY <3>1, RequestAt, GuardStands
      <3>3. OnTrip(z) => z.t \in Trips /\ trip[z.t].status # "ABSENT"
        BY <3>1 DEF IInv, Present, RequestOK, WellFormed, OnTrip, Assigning
      <3>4. Holds(q, z)
        BY <3>1 DEF IInv
      <3>5. z.at \in {"scan", "lockOthers", "write", "check", "insert"} => z.v \in Vehicles
        BY DEF RequestOK, WellFormed, Assigning
      <3>6. Holds(q, z)'
        BY <2>3, <3>4, <3>5 DEF KeepsLocks, Holds
      <3> QED
        BY <2>1, <3>2, <3>3, <3>6 DEF Stays, Holds, Guarded
    <2> QED
      BY <2>2, <2>3
  <1> QED
    BY <1>1, <1>2, <1>3 DEF IInv, Present

LocksTyped ==
  /\ rowLock \in [Trips \cup Vehicles -> Requests \cup {None}]
  /\ advisory \in [Vehicles -> Requests \cup {None}]

\* It moves on without a write to a trip, to a place where it relies on nothing.
LEMMA Rests ==
  ASSUME IInv, NEW r \in Requests, NEW y \in RequestOK, req' = [req EXCEPT ![r] = y],
         UNCHANGED <<trip, how, history>>, mirror' \in [Trips -> Vehicles \cup {None}],
         LocksTyped', KeepsLocks(r), OnTrip(y) => trip[y.t].status # "ABSENT",
         y.at \notin {"scan", "lockOthers", "write", "check", "insert"}
  PROVE  IInv'
  <1>1. RowsTyped' /\ Blank'
    BY DEF IInv, RowsTyped, LocksTyped, Blank, history
  <1>2. NothingEngaged /\ Stays
    BY DEF NothingEngaged, Engaged, Active, Stays, history
  <1>3. Holds(r, y)' /\ Guarded(y)'
    BY DEF Holds, Guarded
  <1> QED
    BY <1>1, <1>2, <1>3, Moves

LEMMA LocksStay ==
  ASSUME IInv, NEW r \in Requests, UNCHANGED locks
  PROVE  LocksTyped' /\ KeepsLocks(r)
  BY DEF IInv, RowsTyped, LocksTyped, locks, KeepsLocks

\* A transaction that ends drops its own locks.
LEMMA UnlockOK ==
  ASSUME IInv, NEW r \in Requests, Unlock(r)
  PROVE  LocksTyped' /\ KeepsLocks(r)
  BY DEF IInv, RowsTyped, LocksTyped, Unlock, KeepsLocks

LEMMA LockOK ==
  ASSUME IInv, NEW r \in Requests, NEW x \in Trips \cup Vehicles, Lock(r, x), UNCHANGED advisory
  PROVE  /\ LocksTyped' /\ KeepsLocks(r) /\ rowLock'[x] = r
         /\ \A z \in Trips \cup Vehicles : rowLock[z] = r => rowLock'[z] = r
  BY FleetAssumption DEF IInv, RowsTyped, LocksTyped, Lock, MayLock, KeepsLocks, FleetAssumption

\* A request that begins.
LEMMA Begins ==
  ASSUME IInv, NEW r \in Requests, UNCHANGED <<trip, mirror, locks, how, history>>,
         \E y \in RequestOK :
           /\ Begin(r, y)
           /\ OnTrip(y) => trip[y.t].status # "ABSENT"
           /\ y.at \notin {"scan", "lockOthers", "write", "check", "insert"}
  PROVE  IInv'
  BY Rests, LocksStay DEF Begin, IInv, RowsTyped

\* A request that ends, with or without the locks it held.
LEMMA Ends ==
  ASSUME IInv, NEW r \in Requests, Finish(r), UNCHANGED <<trip, mirror, how, history>>,
         UNCHANGED locks \/ Unlock(r)
  PROVE  IInv'
  <1>1. LocksTyped' /\ KeepsLocks(r)
    BY LocksStay, UnlockOK
  <1>2. PICK y \in RequestOK : y = Idle
    BY IdleOK
  <1>3. ~OnTrip(y) /\ y.at = "idle"
    BY <1>2, IdleOK DEF Idle
  <1>4. mirror' \in [Trips -> Vehicles \cup {None}]
    BY DEF IInv, RowsTyped
  <1> QED
    BY <1>1, <1>2, <1>3, <1>4, Rests DEF Finish

-----------------------------------------------------------------------------

LEMMA InitIInv == Init => IInv
  <1> SUFFICES ASSUME Init PROVE IInv
    OBVIOUS
  <1>1. RowsTyped /\ Blank
    BY DEF Init, RowsTyped, Blank, NoTrip, TripState
  <1>2. req \in [Requests -> RequestOK] /\ \A r \in Requests : req[r] = Idle
    BY IdleOK DEF Init
  <1>3. Present /\ \A r \in Requests : Holds(r, req[r]) /\ Guarded(req[r])
    <2>1. Idle.at = "idle"
      BY DEF Idle
    <2>2. \A r \in Requests : req[r].at = "idle" /\ ~OnTrip(req[r])
      BY <1>2, <2>1, IdleOK
    <2> QED
      BY <2>2 DEF Present, Holds, Guarded
  <1>4. \A t \in Trips, w \in {"assign", "create"} : ~Engaged(t, w)
    BY DEF Init, Engaged
  <1>5. Apart
    BY <1>4 DEF Apart, AssignedApart, CreatedApart, ApartUnlessRaced
  <1> QED
    BY <1>1, <1>2, <1>3, <1>5 DEF IInv

\* The row an insert makes.
LEMMA NewTripIs ==
  ASSUME NEW s \in TripStatuses, NEW v \in Vehicles \cup {None}
  PROVE  /\ NewTrip(s, v) \in TripState /\ NewTrip(s, v).status = s /\ NewTrip(s, v).veh = v
         /\ \E z \in TripState : /\ z = [NewTrip(s, v) EXCEPT !.enquiry = TRUE]
                                 /\ z.status = s /\ z.veh = v
  <1>1. NewTrip(s, v) \in TripState /\ NewTrip(s, v).status = s /\ NewTrip(s, v).veh = v
    BY DEF NewTrip, NoTrip, TripState
  <1>2. PICK n \in TripState : n = NewTrip(s, v)
    BY <1>1
  <1>3. PICK z : z = [n EXCEPT !.enquiry = TRUE]
    OBVIOUS
  <1>4. z \in TripState /\ z.status = n.status /\ z.veh = n.veh
    BY <1>3 DEF TripState
  <1> QED
    BY <1>1, <1>2, <1>3, <1>4

\* Every endpoint that is called.
LEMMA ArriveKeeps ==
  ASSUME IInv, NEW r \in Requests, Arrive(r)
  PROVE  IInv'
  <1>1. ASSUME NEW t \in Trips, NEW v \in Vehicles, Assign(r, t, v) \/ AdminAssign(r, t, v)
        PROVE  IInv'
    <2>1. trip[t].status # "ABSENT"
      BY <1>1 DEF Assign, AdminAssign, Assignable, IInv, Blank
    <2>2. PICK l \in {"lockOwn", "mirror"} :
            /\ Begin(r, [Idle EXCEPT !.at = l, !.op = "assign", !.t = t, !.v = v])
            /\ UNCHANGED <<trip, mirror, locks, how, history>>
      BY <1>1 DEF Assign, AdminAssign
    <2> DEFINE y == [Idle EXCEPT !.at = l, !.op = "assign", !.t = t, !.v = v]
    <2>3. y \in RequestOK /\ y.at = l /\ y.t = t
      BY DEF Idle, RequestOK, RequestState, WellFormed, Assigning
    <2> QED
      BY <2>1, <2>2, <2>3, Begins
  <1>2. ASSUME NEW t \in Trips, NEW v \in Vehicles, CreateTrip(r, t, v) \/ UpdateTrip(r, t, v)
        PROVE  IInv'
    <2>1. PICK op \in {"create", "update"} :
            /\ Begin(r, [Idle EXCEPT !.at = "lockAdvisory", !.op = op, !.t = t, !.v = v])
            /\ op = "update" => trip[t].status # "ABSENT"
            /\ UNCHANGED <<trip, mirror, locks, how, history>>
      BY <1>2 DEF CreateTrip, UpdateTrip
    <2> DEFINE y == [Idle EXCEPT !.at = "lockAdvisory", !.op = op, !.t = t, !.v = v]
    <2>2. y \in RequestOK /\ y.at = "lockAdvisory" /\ y.t = t /\ (OnTrip(y) => op = "update")
      BY DEF Idle, RequestOK, RequestState, WellFormed, OnTrip, Assigning
    <2> QED
      BY <2>1, <2>2, Begins
  <1>3. ASSUME NEW t \in Trips, NEW s \in Targets, UpdateTripStatus(r, t, s)
        PROVE  IInv'
    <2>1. trip[t].status # "ABSENT"
      BY <1>3 DEF UpdateTripStatus, MayMove, TripEdges, ActiveStatuses
    <2> DEFINE y == [Idle EXCEPT !.at = "setStatus", !.op = "status", !.t = t, !.st = s]
    <2>2. y \in RequestOK /\ y.at = "setStatus" /\ y.t = t
      BY FleetAssumption DEF FleetAssumption, Idle, RequestOK, RequestState, WellFormed, Assigning
    <2> QED
      BY <1>3, <2>1, <2>2, Begins DEF UpdateTripStatus
  <1>4. ASSUME NEW t \in Trips, EnsureTripForBooking(r, t)
        PROVE  IInv'
    <2> DEFINE y == [Idle EXCEPT !.at = "provision", !.op = "provision", !.t = t, !.v = Booked[t]]
    <2>1. y \in RequestOK /\ y.at = "provision" /\ ~OnTrip(y)
      BY FleetAssumption
         DEF FleetAssumption, Idle, RequestOK, RequestState, WellFormed, OnTrip, Assigning
    <2> QED
      BY <1>4, <2>1, Begins DEF EnsureTripForBooking
  <1>5. ASSUME NEW t \in Trips, ReleaseReservation(r, t)
        PROVE  IInv'
    <2>1. trip[t].status # "ABSENT"
      BY <1>5 DEF ReleaseReservation, IInv, Blank
    <2> DEFINE y == [Idle EXCEPT !.at = "release", !.op = "release", !.t = t]
    <2>2. y \in RequestOK /\ y.at = "release" /\ y.t = t
      BY DEF Idle, RequestOK, RequestState, WellFormed, Assigning
    <2> QED
      BY <1>5, <2>1, <2>2, Begins DEF ReleaseReservation
  <1>6. ASSUME NEW t \in Trips, EnsureTripForEnquiry(r, t)
        PROVE  IInv'
    <2>1. req' = [req EXCEPT ![r] = Idle]
      BY <1>6 DEF EnsureTripForEnquiry, IInv
    <2>2. PICK z \in TripState :
            /\ trip' = [trip EXCEPT ![t] = z] /\ z.status = "PENDING" /\ z.veh = None
            /\ UNCHANGED <<mirror, locks, how, history>>
      <3>1. "PENDING" \in TripStatuses
        BY DEF TripStatuses, ActiveStatuses
      <3>2. PICK z \in TripState : /\ z = [NewTrip("PENDING", None) EXCEPT !.enquiry = TRUE]
                                  /\ z.status = "PENDING" /\ z.veh = None
        BY <3>1, NewTripIs
      <3> QED
        BY <1>6, <3>2 DEF EnsureTripForEnquiry
    <2>3. RowsTyped' /\ Blank'
      BY <2>2 DEF IInv, RowsTyped, TripState, TripStatuses, ActiveStatuses, Blank, locks, history
    <2>4. NothingEngaged /\ Stays
      BY <2>2 DEF IInv, RowsTyped, NothingEngaged, Engaged, Active, Stays, history
    <2>5. KeepsLocks(r)
      BY <2>2, LocksStay
    <2>6. PICK y \in RequestOK : y = Idle
      BY IdleOK
    <2>7. ~OnTrip(y) /\ Holds(r, y)' /\ Guarded(y)'
      BY <2>6, IdleOK DEF Idle, Holds, Guarded
    <2> QED
      BY <2>1, <2>3, <2>4, <2>5, <2>6, <2>7, Moves
  <1> QED
    BY <1>1, <1>2, <1>3, <1>4, <1>5, <1>6 DEF Arrive

-----------------------------------------------------------------------------

\* The way of assign() to its locks and its checks.
LEMMA AssignKeeps ==
  ASSUME IInv, NEW r \in Requests,
         \/ WriteMirror(r) \/ ResolveTrip(r) \/ LockOwnTrip(r) \/ LockVehicle(r)
         \/ ScanOthers(r) \/ (\E t \in Trips : LockOther(r, t)) \/ Validate(r)
  PROVE  IInv'
  <1>0. /\ req[r] \in RequestState /\ WellFormed(req[r])
        /\ OnTrip(req[r]) => trip[req[r].t].status # "ABSENT"
        /\ Holds(r, req[r])
    BY RequestAt DEF IInv, Present
  <1>1. CASE WriteMirror(r) \/ (ResolveTrip(r) /\ ~Finish(r))
    <2>1. PICK l \in {"resolve", "lockOwn"} : Goto(r, l)
      BY <1>1 DEF WriteMirror, ResolveTrip
    <2>2. PICK y \in RequestOK : y = [req[r] EXCEPT !.at = l]
      BY <1>0, <1>1 DEF WriteMirror, ResolveTrip, RequestOK, RequestState, WellFormed, Assigning
    <2>3. y.at = l /\ y.t = req[r].t /\ OnTrip(req[r])
      BY <1>0, <1>1, <2>2 DEF WriteMirror, ResolveTrip, RequestState, OnTrip
    <2>4. UNCHANGED <<trip, locks, how, history>> /\ mirror' \in [Trips -> Vehicles \cup {None}]
      BY <1>0, <1>1 DEF WriteMirror, ResolveTrip, IInv, RowsTyped, WellFormed
    <2> QED
      BY <1>0, <2>1, <2>2, <2>3, <2>4, LocksStay, Rests DEF Goto
  <1>2. CASE ResolveTrip(r) /\ Finish(r)
    BY <1>2, Ends DEF ResolveTrip
  <1>3. CASE LockOwnTrip(r)
    <2>1. PICK y \in RequestOK : y = [req[r] EXCEPT !.at = "lockVehicle"]
      BY <1>0, <1>3 DEF LockOwnTrip, RequestOK, RequestState, WellFormed, Assigning
    <2>2. y.at = "lockVehicle" /\ y.t = req[r].t /\ OnTrip(req[r]) /\ req[r].t \in Trips
      BY <1>0, <1>3, <2>1 DEF LockOwnTrip, RequestState, WellFormed, OnTrip
    <2>3. LocksTyped' /\ KeepsLocks(r)
      BY <1>3, <2>2, LockOK DEF LockOwnTrip
    <2>4. mirror' \in [Trips -> Vehicles \cup {None}] /\ UNCHANGED <<trip, how, history>>
      BY <1>3 DEF LockOwnTrip, IInv, RowsTyped
    <2> QED
      BY <1>0, <1>3, <2>1, <2>2, <2>3, <2>4, Rests DEF LockOwnTrip, Goto
  <1>4. ASSUME LockVehicle(r) \/ ScanOthers(r) \/ (\E t \in Trips : LockOther(r, t)) \/ Validate(r)
        PROVE  NothingEngaged /\ Stays /\ Blank' /\ UNCHANGED <<trip, mirror, how, history>>
    <2>1. UNCHANGED <<trip, mirror, how, history>>
      BY <1>4 DEF LockVehicle, ScanOthers, LockOther, Validate
    <2> QED
      BY <2>1 DEF NothingEngaged, Engaged, Active, Stays, history, IInv, Blank
  <1>5. CASE LockVehicle(r)
    <2>1. PICK y \in RequestOK : y = [req[r] EXCEPT !.at = "scan"]
      BY <1>0, <1>5 DEF LockVehicle, RequestOK, RequestState, WellFormed, Assigning
    <2>2. /\ y.at = "scan" /\ y.t = req[r].t /\ y.v = req[r].v
          /\ OnTrip(req[r]) /\ req[r].v \in Vehicles
      BY <1>0, <1>5, <2>1 DEF LockVehicle, RequestState, WellFormed, OnTrip, Assigning
    <2>3. LocksTyped' /\ KeepsLocks(r) /\ rowLock'[y.v] = r
      BY <1>5, <2>2, LockOK DEF LockVehicle
    <2>4. RowsTyped'
      BY <1>4, <1>5, <2>3 DEF IInv, RowsTyped, LocksTyped, history
    <2>5. Holds(r, y)' /\ Guarded(y)'
      BY <2>2, <2>3 DEF Holds, Guarded
    <2> QED
      BY <1>0, <1>4, <1>5, <2>1, <2>2, <2>3, <2>4, <2>5, Moves DEF LockVehicle, Goto
  <1>6. CASE ScanOthers(r)
    <2>1. PICK y \in RequestOK :
            y = [req[r] EXCEPT !.at = "lockOthers", !.todo = UsersOf(req[r].v) \ {req[r].t}]
      BY <1>0, <1>6 DEF ScanOthers, RequestOK, RequestState, WellFormed, Assigning, UsersOf
    <2>2. /\ y.at = "lockOthers" /\ y.t = req[r].t /\ y.v = req[r].v
          /\ OnTrip(req[r]) /\ req[r].at = "scan"
      BY <1>0, <1>6, <2>1 DEF ScanOthers, RequestState, OnTrip, Assigning
    <2>3. RowsTyped' /\ KeepsLocks(r) /\ UNCHANGED locks
      BY <1>6, LocksStay DEF ScanOthers, IInv, RowsTyped, LocksTyped, history
    <2>4. Holds(r, y)' /\ Guarded(y)'
      BY <1>0, <2>2, <2>3 DEF Holds, Guarded, locks
    <2> QED
      BY <1>0, <1>4, <1>6, <2>1, <2>2, <2>3, <2>4, Moves DEF ScanOthers
  <1>7. CASE \E t \in Trips : LockOther(r, t)
    <2>0. PICK t \in Trips : LockOther(r, t)
      BY <1>7
    <2>1. PICK y \in RequestOK : y = [req[r] EXCEPT !.todo = @ \ {t}]
      BY <1>0, <2>0 DEF LockOther, RequestOK, RequestState, WellFormed, Assigning
    <2>2. /\ y.at = "lockOthers" /\ y.t = req[r].t /\ y.v = req[r].v
          /\ OnTrip(req[r]) /\ req[r].at = "lockOthers" /\ y.v \in Vehicles
      BY <1>0, <2>0, <2>1 DEF LockOther, RequestState, OnTrip, WellFormed, Assigning
    <2>3. LocksTyped' /\ KeepsLocks(r) /\ rowLock'[y.v] = r
      BY <1>0, <2>0, <2>2, LockOK DEF LockOther, Holds
    <2>4. RowsTyped' /\ Holds(r, y)' /\ Guarded(y)'
      BY <1>4, <1>7, <2>2, <2>3 DEF IInv, RowsTyped, LocksTyped, history, Holds, Guarded
    <2> QED
      BY <1>0, <1>4, <1>7, <2>0, <2>1, <2>2, <2>3, <2>4, Moves DEF LockOther
  <1>8. CASE Validate(r)
    <2>1. CASE Finish(r) /\ Unlock(r)
      BY <1>8, <2>1, Ends DEF Validate
    <2>2. CASE VehicleFree(req[r].t, req[r].v) /\ Goto(r, "write") /\ UNCHANGED locks
      <3>1. PICK y \in RequestOK : y = [req[r] EXCEPT !.at = "write"]
        BY <1>0, <1>8 DEF Validate, RequestOK, RequestState, WellFormed, Assigning
      <3>2. /\ y.at = "write" /\ y.t = req[r].t /\ y.v = req[r].v /\ y.t \in Trips
            /\ OnTrip(req[r]) /\ req[r].at = "lockOthers"
        BY <1>0, <1>8, <3>1 DEF Validate, RequestState, OnTrip, WellFormed, Assigning
      <3>3. RowsTyped' /\ KeepsLocks(r) /\ Holds(r, y)'
        BY <1>0, <1>4, <1>8, <2>2, <3>2, LocksStay DEF IInv, RowsTyped, LocksTyped, history, locks, Holds
      <3>4. ASSUME NEW u \in Trips \ {y.t}, Active(u), trip[u].veh = y.v
            PROVE  Day[u] # Day[y.t]
        BY <2>2, <3>2, <3>4, FleetAssumption
           DEF VehicleFree, UsersOf, DaysClash, FleetAssumption
      <3>5. Guarded(y)
        BY <3>2, <3>4 DEF Guarded, Clear, Engaged
      <3>6. Guarded(y)'
        BY <1>4, <1>8, <3>5, GuardStands
      <3> QED
        BY <1>0, <1>4, <1>8, <2>2, <3>1, <3>2, <3>3, <3>6, Moves DEF Goto
    <2> QED
      BY <1>8, <2>1, <2>2 DEF Validate
  <1> QED
    BY <1>1, <1>2, <1>3, <1>5, <1>6, <1>7, <1>8

-----------------------------------------------------------------------------

\* The write of assign() and the insert of createTrip: trip t gets vehicle v from the
\* writer w, and whoever had checked v for a write of its own is overtaken.
LEMMA Engages ==
  ASSUME IInv, NEW r \in Requests, NEW t \in Trips, NEW v \in Vehicles,
         NEW w \in {"assign", "create"}, NEW z \in TripState, NEW next \in RequestOK,
         req[r].t = t, req[r].v = v,
         req[r].at = IF w = "assign" THEN "write" ELSE "insert",
         trip' = [trip EXCEPT ![t] = z], z.veh = v, z.status # "ABSENT",
         Engage(r, w), Overtake(r, next), Unlock(r), UNCHANGED revived,
         mirror' \in [Trips -> Vehicles \cup {None}],
         next.at \in {"idle", "readStatus"}, OnTrip(next) => next.t = t
  PROVE  IInv'
  <1>0. Guarded(req[r]) /\ Holds(r, req[r])
    BY DEF IInv
  <1>1. /\ how' = [how EXCEPT ![t] = w]
        /\ raced' = IF req[r].late THEN raced \cup {t} ELSE raced \ {t}
    BY DEF Engage
  <1>2. LocksTyped' /\ KeepsLocks(r)
    BY UnlockOK
  <1>3. RowsTyped' /\ Blank'
    BY <1>1, <1>2 DEF IInv, RowsTyped, LocksTyped, Blank
  <1>4. /\ \A u \in Trips \ {t} : \A x \in {"assign", "create"} :
             /\ Engaged(u, x)' <=> Engaged(u, x)
             /\ trip'[u] = trip[u] /\ (u \in raced' <=> u \in raced)
        /\ trip'[t].veh = v
        /\ \A x \in {"assign", "create"} : Engaged(t, x)' => x = w
    BY <1>1 DEF IInv, RowsTyped, Engaged, Active
  <1>5. Apart'
    <2>1. CASE w = "assign"
      <3>1. Clear(t, v, "assign") /\ (t \notin raced' => Clear(t, v, "create"))
        BY <1>0, <1>1, <2>1 DEF Guarded
      <3>2. AssignedApart'
        BY <1>4, <3>1 DEF IInv, Apart, AssignedApart, Clear
      <3>3. CreatedApart'
        BY <1>4, <2>1 DEF IInv, Apart, CreatedApart
      <3>4. ApartUnlessRaced'
        BY <1>4, <2>1, <3>1 DEF IInv, Apart, ApartUnlessRaced, Clear
      <3> QED
        BY <3>2, <3>3, <3>4 DEF Apart
    <2>2. CASE w = "create"
      <3>1. NoneCreated(t, v) /\ (t \notin raced' => Clear(t, v, "assign"))
        BY <1>0, <1>1, <2>2 DEF Guarded
      <3>2. AssignedApart'
        BY <1>4, <2>2 DEF IInv, Apart, AssignedApart
      <3>3. CreatedApart'
        BY <1>4, <3>1 DEF IInv, Apart, CreatedApart, NoneCreated
      <3>4. ApartUnlessRaced'
        BY <1>4, <2>2, <3>1 DEF IInv, Apart, ApartUnlessRaced, Clear
      <3> QED
        BY <3>2, <3>3, <3>4 DEF Apart
    <2> QED
      BY <2>1, <2>2
  <1>6. ASSUME NEW q \in Requests
        PROVE  /\ req'[q] \in RequestOK
               /\ OnTrip(req'[q]) => trip'[req'[q].t].status # "ABSENT"
               /\ Holds(q, req[q])' /\ Guarded(req[q])'
    <2>1. CASE q = r
      <3>1. req'[q] = next
        BY <2>1 DEF Overtake
      <3> QED
        BY <3>1 DEF Holds, Guarded, IInv, RowsTyped
    <2>2. CASE q # r
      <3> DEFINE x == req[q]
                 hit == x.at \in {"write", "insert"} /\ x.v = v
      <3>1. /\ x \in RequestState /\ WellFormed(x) /\ Guarded(x) /\ Holds(q, x)
            /\ OnTrip(x) => trip[x.t].status # "ABSENT"
        BY RequestAt DEF IInv, Present
      <3>2. PICK y : y = [x EXCEPT !.late = @ \/ hit]
        OBVIOUS
      <3>3. req'[q] = y
        BY <2>2, <3>2 DEF Overtake
      <3>4. /\ y \in RequestState /\ y.at = x.at /\ y.op = x.op /\ y.t = x.t /\ y.v = x.v
            /\ y.st = x.st /\ (y.late <=> x.late \/ hit)
        BY <3>1, <3>2 DEF RequestState
      <3>5. y \in RequestOK
        BY <3>1, <3>4 DEF RequestOK, WellFormed
      <3>6. OnTrip(y) => y.t \in Trips /\ trip[y.t].status # "ABSENT"
        BY <3>1, <3>4 DEF OnTrip, WellFormed, Assigning
      <3>7. OnTrip(y) => trip'[y.t].status # "ABSENT"
        BY <3>6 DEF IInv, RowsTyped
      <3>8. y.at \in {"scan", "lockOthers", "write", "check", "insert"} => y.v \in Vehicles
        BY <3>5 DEF RequestOK, WellFormed, Assigning
      <3>9. Holds(q, y)'
        BY <1>2, <2>2, <3>1, <3>4, <3>8 DEF KeepsLocks, Holds
      <3>10. /\ y.at = "write"  => Clear(y.t, y.v, "assign") /\ (y.late \/ Clear(y.t, y.v, "create"))
             /\ y.at = "insert" => NoneCreated(y.t, y.v) /\ (y.late \/ Clear(y.t, y.v, "assign"))
        BY <3>1, <3>4 DEF Guarded
      <3>11. \A k \in {"assign", "create"} : k # w \/ y.v # v =>
               (Clear(y.t, y.v, k) => Clear(y.t, y.v, k)')
        BY <1>4 DEF Clear
      <3>12. w # "create" \/ y.v # v => (NoneCreated(y.t, y.v) => NoneCreated(y.t, y.v)')
        BY <1>4 DEF NoneCreated
      <3>14. ASSUME y.at = "write"
             PROVE  Guarded(y)'
        <4>1. w = "create" \/ y.v # v
          BY <1>0, <2>2, <3>1, <3>4, <3>14 DEF Holds
        <4>2. y.v = v => y.late
          BY <3>4, <3>14
        <4> QED
          BY <3>10, <3>11, <3>14, <4>1, <4>2 DEF Guarded
      <3>15. ASSUME y.at = "insert"
             PROVE  Guarded(y)'
        <4>1. w = "assign" \/ y.v # v
          BY <1>0, <2>2, <3>1, <3>4, <3>15 DEF Holds
        <4>2. y.v = v => y.late
          BY <3>4, <3>15
        <4> QED
          BY <3>10, <3>11, <3>12, <3>15, <4>1, <4>2 DEF Guarded
      <3>13. Guarded(y)'
        BY <3>14, <3>15 DEF Guarded
      <3> QED
        BY <3>3, <3>5, <3>7, <3>9, <3>13 DEF Holds, Guarded
    <2> QED
      BY <2>1, <2>2
  <1>7. req' \in [Requests -> RequestOK]
    BY <1>6 DEF Overtake
  <1> QED
    BY <1>3, <1>5, <1>6, <1>7 DEF IInv, Present

\* The two writers, at their statements.
LEMMA WritersKeep ==
  ASSUME IInv, NEW r \in Requests, WriteAssignment(r) \/ InsertTrip(r)
  PROVE  IInv'
  <1>0. req[r] \in RequestState /\ WellFormed(req[r])
    BY RequestAt
  <1>1. PICK t \in Trips : t = req[r].t
    BY <1>0 DEF WriteAssignment, InsertTrip, WellFormed
  <1>2. PICK v \in Vehicles : v = req[r].v
    BY <1>0 DEF WriteAssignment, InsertTrip, WellFormed, Assigning
  <1>3. CASE WriteAssignment(r)
    <2>1. CASE Finish(r) /\ UNCHANGED <<trip, mirror, how, raced>>
      BY <1>3, <2>1, Ends DEF WriteAssignment, history
    <2>2. CASE ~(Finish(r) /\ UNCHANGED <<trip, mirror, how, raced>>)
      <3>1. PICK stamped \in BOOLEAN : stamped = (trip[t].stamped \/ t \in Stamps)
        OBVIOUS
      <3>2. /\ trip' = [trip EXCEPT ![t].veh = v, ![t].stamped = stamped]
            /\ mirror' = [mirror EXCEPT ![t] = IF trip[t].enquiry THEN v ELSE @]
            /\ Engage(r, "assign")
            /\ Overtake(r, [Idle EXCEPT !.at = "readStatus", !.op = "assign", !.t = t])
            /\ Unlock(r) /\ UNCHANGED revived /\ req[r].at = "write"
        BY <1>1, <1>2, <1>3, <2>2, <3>1 DEF WriteAssignment
      <3>3. PICK z : z = [[trip[t] EXCEPT !.veh = v] EXCEPT !.stamped = stamped]
        OBVIOUS
      <3>4. trip' = [trip EXCEPT ![t] = z]
        BY <3>2, <3>3 DEF IInv, RowsTyped
      <3>5. trip[t] \in TripState /\ trip[t].status # "ABSENT"
        BY <1>1, <3>2 DEF IInv, RowsTyped, Present, OnTrip, Assigning
      <3>6. z \in TripState /\ z.veh = v /\ z.status # "ABSENT"
        BY <3>3, <3>5 DEF TripState
      <3>7. [Idle EXCEPT !.at = "readStatus", !.op = "assign", !.t = t] \in RequestOK
        BY DEF Idle, RequestOK, RequestState, WellFormed, Assigning
      <3>8. mirror' \in [Trips -> Vehicles \cup {None}]
        BY <3>2 DEF IInv, RowsTyped
      <3>9. PICK next \in RequestOK :
              next = [Idle EXCEPT !.at = "readStatus", !.op = "assign", !.t = t]
        BY <3>7
      <3>10. next.at = "readStatus" /\ next.t = t
        BY <3>9 DEF Idle
      <3>11. Overtake(r, next)
        BY <3>2, <3>9 DEF Overtake
      <3>12. /\ Engage(r, "assign") /\ Unlock(r) /\ UNCHANGED revived
             /\ t = req[r].t /\ v = req[r].v /\ req[r].at = "write"
        BY <1>1, <1>2, <3>2
      <3> QED
        BY <3>4, <3>6, <3>8, <3>10, <3>11, <3>12, Engages
    <2> QED
      BY <2>1, <2>2
  <1>4. CASE InsertTrip(r)
    <2>1. PICK z \in TripState : z = NewTrip("PENDING", v) /\ z.veh = v /\ z.status = "PENDING"
      BY NewTripIs DEF TripStatuses, ActiveStatuses
    <2>2. PICK next \in RequestOK : next = Idle /\ next.at = "idle" /\ ~OnTrip(next)
      BY IdleOK DEF Idle
    <2>3. mirror' \in [Trips -> Vehicles \cup {None}]
      BY <1>4 DEF InsertTrip, IInv, RowsTyped
    <2> QED
      BY <1>1, <1>2, <1>4, <2>1, <2>2, <2>3, Engages DEF InsertTrip
  <1> QED
    BY <1>3, <1>4

-----------------------------------------------------------------------------

\* A write to trip t that engages it for neither family, after which r is done.
LEMMA Disengages ==
  ASSUME IInv, NEW r \in Requests, NEW t \in Trips, NEW z \in TripState,
         NEW w \in {"none", "update", "provision"},
         trip' = [trip EXCEPT ![t] = z], z.status # "ABSENT",
         how' = [how EXCEPT ![t] = w], raced' \in {raced \cup {t}, raced \ {t}},
         UNCHANGED revived, UNCHANGED locks, Finish(r),
         mirror' \in [Trips -> Vehicles \cup {None}]
  PROVE  IInv'
  <1>1. PICK y \in RequestOK : y = Idle /\ y.at = "idle" /\ ~OnTrip(y)
    BY IdleOK DEF Idle
  <1>2. RowsTyped' /\ Blank' /\ KeepsLocks(r)
    BY LocksStay DEF IInv, RowsTyped, LocksTyped, Blank
  <1>3. Stays
    BY DEF IInv, RowsTyped, Stays
  <1>4. NothingEngaged
    BY DEF IInv, RowsTyped, NothingEngaged, Engaged, Active
  <1>5. Holds(r, y)' /\ Guarded(y)'
    BY <1>1 DEF Holds, Guarded
  <1> QED
    BY <1>1, <1>2, <1>3, <1>4, <1>5, Moves DEF Finish

\* The writes by key: status, closing, and the vehicle of a trip that is updated,
\* provisioned or released.
LEMMA KeyedWritesKeep ==
  ASSUME IInv, NEW r \in Requests,
         \/ SetStatus(r) \/ CommitClosing(r) \/ SetVehicle(r) \/ Provision(r) \/ Release(r)
  PROVE  IInv'
  <1>0. req[r] \in RequestState /\ WellFormed(req[r])
    BY RequestAt
  <1>1. PICK t \in Trips : t = req[r].t
    BY <1>0 DEF SetStatus, CommitClosing, SetVehicle, Provision, Release, WellFormed
  <1>2. trip[t] \in TripState /\ (OnTrip(req[r]) => trip[t].status # "ABSENT")
    BY <1>1 DEF IInv, RowsTyped, Present
  <1>3. CASE SetStatus(r) \/ CommitClosing(r)
    <2>1. CASE SetStatus(r) /\ UNCHANGED <<trip, revived>>
      BY <1>3, <2>1, Ends DEF SetStatus, history
    <2>2. CASE ~(SetStatus(r) /\ UNCHANGED <<trip, revived>>)
      <3>1. PICK z : z = [trip[t] EXCEPT !.status = req[r].st]
        OBVIOUS
      <3>2. req[r].st \in TripStatuses /\ trip[t].status \in TripStatuses
        BY <1>0, <1>2, <1>3 DEF SetStatus, CommitClosing, WellFormed, OnTrip, TripState
      <3>3. z \in TripState /\ z.veh = trip[t].veh /\ z.status = req[r].st /\ z.enquiry = trip[t].enquiry
        BY <1>2, <3>1, <3>2 DEF TripState
      <3>4. /\ trip' = [trip EXCEPT ![t] = z] /\ UNCHANGED <<mirror, how, raced>> /\ Finish(r)
            /\ UNCHANGED locks \/ Unlock(r)
            /\ revived' \in {revived, revived \cup {t}}
            /\ req[r].st \in FinalStatuses \/ t \in revived' \/ trip[t].status \notin FinalStatuses
        BY <1>0, <1>1, <1>3, <2>2, <3>1 DEF SetStatus, CommitClosing, IInv, RowsTyped, history, WellFormed
      <3>5. z.status # "ABSENT" /\ trip[t].status # "ABSENT"
        BY <3>2, <3>3 DEF TripStatuses, ActiveStatuses, FinalStatuses
      <3>6. z.status \in ActiveStatuses => t \in revived' \/ trip[t].status \in ActiveStatuses
        BY <3>2, <3>3, <3>4 DEF TripStatuses, ActiveStatuses, FinalStatuses
      <3>7. LocksTyped' /\ KeepsLocks(r)
        BY <3>4, LocksStay, UnlockOK
      <3>8. RowsTyped' /\ Blank'
        BY <3>3, <3>4, <3>5, <3>7 DEF IInv, RowsTyped, LocksTyped, Blank
      <3>9. Stays
        BY <3>4, <3>5 DEF IInv, RowsTyped, Stays
      <3>10. NothingEngaged
        BY <3>3, <3>4, <3>6 DEF IInv, RowsTyped, NothingEngaged, Engaged, Active
      <3>11. PICK y \in RequestOK : y = Idle /\ y.at = "idle" /\ ~OnTrip(y)
        BY IdleOK DEF Idle
      <3>12. Holds(r, y)' /\ Guarded(y)'
        BY <3>11 DEF Holds, Guarded
      <3> QED
        BY <3>4, <3>7, <3>8, <3>9, <3>10, <3>11, <3>12, Moves DEF Finish
    <2> QED
      BY <2>1, <2>2
  <1>4. CASE SetVehicle(r)
    <2>1. CASE UNCHANGED <<trip, how, raced>>
      BY <1>4, <2>1, Ends DEF SetVehicle, history
    <2>2. CASE ~UNCHANGED <<trip, how, raced>>
      <3>1. PICK z : z = [trip[t] EXCEPT !.veh = req[r].v]
        OBVIOUS
      <3>2. trip' = [trip EXCEPT ![t] = z] /\ Engage(r, "update")
        BY <1>1, <1>4, <2>2, <3>1 DEF SetVehicle, IInv, RowsTyped
      <3>3. z \in TripState /\ z.status # "ABSENT"
        BY <1>0, <1>2, <1>4, <3>1 DEF SetVehicle, WellFormed, OnTrip, TripState
      <3>4. how' = [how EXCEPT ![t] = "update"] /\ raced' \in {raced \cup {t}, raced \ {t}}
        BY <1>1, <3>2 DEF Engage
      <3> QED
        BY <1>4, <3>2, <3>3, <3>4, Disengages DEF SetVehicle, IInv, RowsTyped
    <2> QED
      BY <2>1, <2>2
  <1>5. CASE Provision(r)
    <2>0. PICK s \in TripStatuses :
            s = (IF req[r].v = None THEN "PENDING" ELSE "ASSIGNED") /\ s # "ABSENT"
      BY DEF TripStatuses, ActiveStatuses
    <2>1. PICK z \in TripState : z.status # "ABSENT" /\ z = NewTrip(s, req[r].v)
      BY <1>0, <2>0, NewTripIs DEF RequestState
    <2>2. trip' = [trip EXCEPT ![t] = z] /\ Engage(r, "provision")
      BY <1>1, <1>5, <2>0, <2>1 DEF Provision
    <2>3. how' = [how EXCEPT ![t] = "provision"] /\ raced' \in {raced \cup {t}, raced \ {t}}
      BY <1>1, <2>2 DEF Engage
    <2> QED
      BY <1>5, <2>1, <2>2, <2>3, Disengages DEF Provision, IInv, RowsTyped
  <1>6. CASE Release(r)
    <2>1. PICK z : z = [trip[t] EXCEPT !.veh = None]
      OBVIOUS
    <2>2. trip' = [trip EXCEPT ![t] = z] /\ mirror' = [mirror EXCEPT ![t] = None]
      BY <1>1, <1>6, <2>1 DEF Release, IInv, RowsTyped
    <2>3. z \in TripState /\ z.status # "ABSENT"
      BY <1>2, <1>6, <2>1 DEF Release, OnTrip, TripState
    <2>4. how' = [how EXCEPT ![t] = "none"] /\ raced' \in {raced \cup {t}, raced \ {t}}
      BY <1>1, <1>6 DEF Release, Engage
    <2>5. mirror' \in [Trips -> Vehicles \cup {None}]
      BY <2>2 DEF IInv, RowsTyped
    <2> QED
      BY <1>6, <2>2, <2>3, <2>4, <2>5, Disengages DEF Release
  <1> QED
    BY <1>3, <1>4, <1>5, <1>6

\* The way of a status write to its row, and of createTrip and updateTrip to theirs.
LEMMA QuietStepsKeep ==
  ASSUME IInv, NEW r \in Requests,
         \/ ReadForPromotion(r) \/ StartClosing(r) \/ AcquireAdvisoryLock(r) \/ CheckConflict(r)
         \/ BreakDeadlock(r) \/ Crash(r)
  PROVE  IInv'
  <1>0. /\ req[r] \in RequestState /\ WellFormed(req[r])
        /\ OnTrip(req[r]) => trip[req[r].t].status # "ABSENT"
        /\ Holds(r, req[r])
    BY RequestAt DEF IInv, Present
  <1>1. CASE BreakDeadlock(r) \/ Crash(r)
    BY <1>1, Ends DEF BreakDeadlock, Crash
  <1>2. CASE ReadForPromotion(r)
    <2>1. CASE Finish(r)
      BY <1>2, <2>1, Ends DEF ReadForPromotion
    <2>2. CASE ~Finish(r)
      <3>1. PICK y : y = [[req[r] EXCEPT !.at = "setStatus"] EXCEPT !.st = "ASSIGNED"]
        OBVIOUS
      <3>2. req' = [req EXCEPT ![r] = y]
        BY <1>2, <2>2, <3>1 DEF ReadForPromotion, IInv
      <3>3. "ASSIGNED" \in TripStatuses
        BY DEF TripStatuses, ActiveStatuses
      <3>4. y \in RequestOK /\ y.at = "setStatus" /\ y.t = req[r].t /\ OnTrip(req[r])
        BY <1>0, <1>2, <3>1, <3>3 DEF ReadForPromotion, RequestOK, RequestState, WellFormed, OnTrip, Assigning
      <3> QED
        BY <1>0, <1>2, <3>2, <3>4, LocksStay, Rests DEF ReadForPromotion, IInv, RowsTyped
    <2> QED
      BY <2>1, <2>2
  <1>3. CASE StartClosing(r)
    <2>1. PICK y : y = [req[r] EXCEPT !.at = "close"]
      OBVIOUS
    <2>2. /\ y \in RequestOK /\ y.at = "close" /\ y.t = req[r].t /\ OnTrip(req[r])
          /\ req[r].t \in Trips
      BY <1>0, <1>3, <2>1 DEF StartClosing, RequestOK, RequestState, WellFormed, OnTrip, Assigning
    <2>3. LocksTyped' /\ KeepsLocks(r)
      BY <1>3, <2>2, LockOK DEF StartClosing
    <2> QED
      BY <1>0, <1>3, <2>1, <2>2, <2>3, Rests DEF StartClosing, Goto, IInv, RowsTyped
  <1>4. CASE AcquireAdvisoryLock(r)
    <2>1. PICK y : y = [req[r] EXCEPT !.at = "check"]
      OBVIOUS
    <2>2. /\ y \in RequestOK /\ y.at = "check" /\ y.t = req[r].t /\ y.v = req[r].v
          /\ req[r].v \in Vehicles /\ (OnTrip(y) => OnTrip(req[r])) /\ req' = [req EXCEPT ![r] = y]
      BY <1>0, <1>4, <2>1
         DEF AcquireAdvisoryLock, Goto, RequestOK, RequestState, WellFormed, OnTrip, Assigning
    <2>3. /\ advisory' = [advisory EXCEPT ![y.v] = r] /\ advisory[y.v] = None
          /\ UNCHANGED <<trip, mirror, rowLock, how, history>>
      BY <1>4, <2>2 DEF AcquireAdvisoryLock
    <2>4. RowsTyped' /\ KeepsLocks(r) /\ advisory'[y.v] = r
      BY <2>2, <2>3, FleetAssumption DEF IInv, RowsTyped, KeepsLocks, history, FleetAssumption
    <2>5. NothingEngaged /\ Stays /\ Blank'
      BY <2>3 DEF NothingEngaged, Engaged, Active, Stays, history, IInv, Blank
    <2>6. Holds(r, y)' /\ Guarded(y)'
      BY <2>2, <2>4 DEF Holds, Guarded
    <2>7. OnTrip(y) => trip'[y.t].status # "ABSENT"
      BY <1>0, <2>2, <2>3
    <2> QED
      BY <2>2, <2>4, <2>5, <2>6, <2>7, Moves
  <1>5. CASE CheckConflict(r)
    <2>1. CASE Finish(r) /\ Unlock(r)
      BY <1>5, <2>1, Ends DEF CheckConflict
    <2>2. CASE Goto(r, "setVehicle") /\ Unlock(r) /\ req[r].op = "update"
      <3>1. PICK y : y = [req[r] EXCEPT !.at = "setVehicle"]
        OBVIOUS
      <3>2. y \in RequestOK /\ y.at = "setVehicle" /\ y.t = req[r].t /\ OnTrip(req[r])
        BY <1>0, <1>5, <2>2, <3>1 DEF CheckConflict, RequestOK, RequestState, WellFormed, OnTrip, Assigning
      <3> QED
        BY <1>0, <1>5, <2>2, <3>1, <3>2, UnlockOK, Rests DEF CheckConflict, Goto, IInv, RowsTyped
    <2>3. CASE /\ UsersOf(req[r].v) \ {req[r].t} = {} /\ req[r].op = "create"
               /\ Goto(r, "insert") /\ UNCHANGED locks
      <3>1. PICK y : y = [req[r] EXCEPT !.at = "insert"]
        OBVIOUS
      <3>2. /\ y \in RequestOK /\ y.at = "insert" /\ y.t = req[r].t /\ y.v = req[r].v
            /\ req[r].at = "check" /\ req' = [req EXCEPT ![r] = y]
        BY <1>0, <1>5, <2>3, <3>1
           DEF CheckConflict, Goto, RequestOK, RequestState, WellFormed, OnTrip, Assigning
      <3>3. ~OnTrip(y)
        BY <3>2 DEF OnTrip, Assigning
      <3>4. UNCHANGED <<trip, mirror, locks, how, history>>
        BY <1>5, <2>3 DEF CheckConflict
      <3>5. RowsTyped' /\ KeepsLocks(r) /\ Holds(r, y)'
        BY <1>0, <3>2, <3>4, LocksStay DEF IInv, RowsTyped, LocksTyped, history, locks, Holds
      <3>6. Guarded(y)
        BY <2>3, <3>2 DEF Guarded, NoneCreated, Clear, Engaged, UsersOf
      <3>7. NothingEngaged /\ Stays /\ Blank'
        BY <3>4 DEF NothingEngaged, Engaged, Active, Stays, history, IInv, Blank
      <3>8. Guarded(y)'
        BY <3>6, <3>7, GuardStands
      <3> QED
        BY <3>2, <3>3, <3>5, <3>7, <3>8, Moves
    <2>4. req[r].op \in {"create", "update"}
      BY <1>0, <1>5 DEF CheckConflict, WellFormed
    <2> QED
      BY <1>5, <2>1, <2>2, <2>3, <2>4 DEF CheckConflict
  <1> QED
    BY <1>1, <1>2, <1>3, <1>4, <1>5

LEMMA Inductive == IInv /\ [Next]_vars => IInv'
  <1>1. ASSUME IInv, NEW r \in Requests, Arrive(r) \/ Step(r)
        PROVE  IInv'
    BY <1>1, ArriveKeeps, AssignKeeps, WritersKeep, KeyedWritesKeep, QuietStepsKeep DEF Step
  <1>2. ASSUME IInv, UNCHANGED vars
        PROVE  IInv'
    BY <1>2 DEF vars, IInv, RowsTyped, Blank, Present, Holds, Guarded, Clear, NoneCreated,
                Apart, AssignedApart, CreatedApart, ApartUnlessRaced, Engaged, Active
  <1> QED
    BY <1>1, <1>2 DEF Next

LEMMA Invariant == Spec => []IInv
  BY InitIInv, Inductive, PTL DEF Spec

-----------------------------------------------------------------------------

\* Every row and every request has its type, in every fleet.
THEOREM FleetTyped == Spec => []FleetTypeOK
  <1>1. IInv => FleetTypeOK
    BY DEF IInv, RowsTyped, RequestOK, FleetTypeOK
  <1> QED
    BY <1>1, Invariant, PTL

\* The row locks of assign() keep its trips apart: two active trips it engaged never have
\* one vehicle on one pickup day, however many requests of all four writers run.
THEOREM AssignKeepsApart == Spec => []AssignedApart
  <1>1. IInv => AssignedApart
    BY DEF IInv, Apart
  <1> QED
    BY <1>1, Invariant, PTL

\* The advisory lock of createTrip keeps its trips apart, on any day.
THEOREM CreateKeepsApart == Spec => []CreatedApart
  <1>1. IInv => CreatedApart
    BY DEF IInv, Apart
  <1> QED
    BY <1>1, Invariant, PTL

\* The two families stay apart as long as no commit of the one falls between the check
\* and the write of the other.
THEOREM FamiliesApartUnlessRaced == Spec => []ApartUnlessRaced
  <1>1. IInv => ApartUnlessRaced
    BY DEF IInv, Apart
  <1> QED
    BY <1>1, Invariant, PTL
=============================================================================
