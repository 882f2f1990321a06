-------------------------- MODULE BookingTxnProofs --------------------------
(***************************************************************************)
(* What holds of BookingTxn for any numbers of workers, bookings,          *)
(* facilities and slots, wherever requests are killed or rolled back.      *)
(***************************************************************************)
EXTENDS BookingTxn, TLAPS

(* What a creation that inserted its row, and a destruction that deleted the*)
(* facility or the user, hold until they commit.                            *)
Keyed(x) == x # NoRequest /\ x.op = "create" /\ x.step \in {"schedule", "commit"}

Deleting(x) == x # NoRequest /\ x.op \in {"raze", "leave"} /\ x.step = "commit"

(* The destruction of a user keeps the rows it loaded, of the bookings it   *)
(* has still to destroy, of those it has destroyed and of the one it is at; *)
(* it is at the facility of that one, and wrote the schedules of the        *)
(* facilities of those it destroyed, with their slots.                      *)
AtBooking(x) == x.step \in {"row", "schedule"}

InHand(x) == x.rest \cup x.gone \cup {b \in Booking : AtBooking(x) /\ b = x.booking}

Kept(x) ==
  /\ \A b \in x.gone : /\ x.rows[b].facility \in x.wrote
                       /\ x.rows[b].slots \subseteq x.draft[x.rows[b].facility]
  /\ \A f \in x.wrote : \E b \in Booking : x.rows[b] # NoRow /\ x.rows[b].facility = f

Packed(x) ==
  /\ \A b \in Booking : x.rows[b] # NoRow <=> b \in InHand(x)
  /\ AtBooking(x) => x.booking \in Booking /\ x.facility = x.rows[x.booking].facility
  /\ AtBooking(x) /\ x.loaded /\ x.facility \in x.wrote => x.draft[x.facility] \subseteq x.snap
  /\ Kept(x)

(* A request at a row that is not there to lock: a creation inserts one, and*)
(* a destruction is at one of the rows it loaded.                           *)
Astray(x) ==
  /\ x # NoRequest
  /\ \/ x.op = "create" /\ x.step = "row"
     \/ x.op = "raze" /\ AtBooking(x) /\ x.booking \notin Booking
     \/ x.op = "leave" /\ ~Packed(x)

RowsAreAtHand == \A w \in Worker : ~Astray(req[w])

(* The foreign keys of an inserted row x: its facility and its owner exist  *)
(* and nobody has deleted them.                                             *)
Spares(y, x) ==
  /\ y.op = "raze" => y.facility # x.facility
  /\ y.op = "leave" => y.owner # x.owner

KeysAreKept ==
  \A v \in Worker : Keyed(req[v]) =>
    /\ FacilityExists(req[v].facility) /\ req[v].owner \in accounts
    /\ \A w \in Worker : Deleting(req[w]) => Spares(req[w], req[v])

Sound == TypeOK /\ NoBookingIsLeftBehind /\ RowsAreAtHand /\ KeysAreKept
-----------------------------------------------------------------------------
LEMMA NoRequestIsNone ==
  NoRequest \notin Request /\ NoRequest \notin Destruction /\ NoRequest \notin Departure
  BY TxnAssumption

LEMMA NoRowIsNone == NoRow \notin FacilityRow /\ NoRow \notin BookingRow
  BY NoRowAssumption

(* Which record a request is, by its operation and by its step. *)
LEMMA RequestKinds ==
  ASSUME TypeOK, NEW w \in Worker, Busy(w)
  PROVE  /\ req[w] \in Request \cup Destruction \cup Departure
         /\ req[w].op \notin {"raze", "leave"} => req[w] \in Request
         /\ req[w].op = "raze" => req[w] \in Destruction
         /\ req[w].op = "leave" => req[w] \in Departure
         /\ req[w].step = "delete" => req[w] \in Destruction \cup Departure
         /\ req[w].step \in {"check", "enqueue", "notify"} => req[w] \in Request
         /\ req[w].op # "leave" => req[w].facility \in Facility
<1>1. req[w] \in Request \cup Destruction \cup Departure
  BY DEF TypeOK, Busy
<1>2. CASE req[w] \in Request
  BY <1>2 DEF Request
<1>3. CASE req[w] \in Destruction
  BY <1>3 DEF Destruction
<1>4. CASE req[w] \in Departure
  BY <1>4 DEF Departure
<1> QED
  BY <1>1, <1>2, <1>3, <1>4

LEMMA RequestFields ==
  ASSUME NEW r \in Request
  PROVE  /\ r.op \in {"create", "update", "expire", "destroy"}
         /\ r.booking \in Booking /\ r.facility \in Facility /\ r.owner \in User
         /\ r.slots \in SUBSET Slot /\ r.snap \in SUBSET Slot
         /\ r.was \in BookingStatus /\ r.to \in BookingStatus
         /\ r.rest \in SUBSET Booking
  BY DEF Request

LEMMA DepartureFields ==
  ASSUME NEW r \in Departure
  PROVE  /\ r.op = "leave" /\ r.step \in {"row", "schedule", "delete", "commit"}
         /\ r.owner \in User /\ r.rest \in SUBSET Booking /\ r.gone \in SUBSET Booking
         /\ r.rows \in [Booking -> BookingRow \cup {NoRow}]
         /\ r.snap \in SUBSET Slot /\ r.wrote \in SUBSET Facility
         /\ r.draft \in [Facility -> SUBSET Slot]
  BY DEF Departure

(* A destruction of a user that is at a booking is at a facility, too.      *)
LEMMA AtBookingFields ==
  ASSUME NEW r \in Departure, ~Astray(r), AtBooking(r)
  PROVE  /\ r.booking \in Booking /\ r.rows[r.booking] \in BookingRow
         /\ r.facility \in Facility /\ r.facility = r.rows[r.booking].facility
<1>1. Packed(r)
  BY DepartureFields, NoRequestIsNone DEF Astray
<1>2. r.booking \in Booking /\ r.rows[r.booking] # NoRow
  BY <1>1 DEF Packed, InHand
<1>3. r.rows[r.booking] \in BookingRow
  BY <1>2, DepartureFields
<1> QED
  BY <1>1, <1>2, <1>3 DEF Packed, BookingRow

LEMMA BookingFields ==
  ASSUME Sound, NEW b \in Booking, BookingExists(b)
  PROVE  /\ bookings[b] \in BookingRow
         /\ bookings[b].owner \in User /\ bookings[b].facility \in Facility
         /\ bookings[b].slots \in SUBSET Slot
         /\ bookings[b].status \in BookingStatus
         /\ FacilityExists(bookings[b].facility) /\ bookings[b].owner \in accounts
         /\ Offered(bookings[b].facility) \in SUBSET Slot
<1>1. bookings[b] \in BookingRow
  BY DEF Sound, TypeOK, StoreTypeOK, BookingExists
<1>2. /\ bookings[b].facility \in Facility /\ FacilityExists(bookings[b].facility)
      /\ bookings[b].owner \in accounts
  BY <1>1 DEF Sound, NoBookingIsLeftBehind, BookingRow
<1>3. facilities[bookings[b].facility] \in FacilityRow
  BY <1>2 DEF Sound, TypeOK, StoreTypeOK, FacilityExists
<1> QED
  BY <1>1, <1>2, <1>3 DEF BookingRow, FacilityRow, Offered

LEMMA OfferedIsSlots ==
  ASSUME TypeOK, NEW f \in Facility, FacilityExists(f)
  PROVE  Offered(f) \in SUBSET Slot
<1>1. facilities[f] \in FacilityRow
  BY DEF TypeOK, StoreTypeOK, FacilityExists
<1> QED
  BY <1>1 DEF FacilityRow, Offered
-----------------------------------------------------------------------------
(* What the tables may do in a step: each booking that there is afterwards  *)
(* was there, with the facility and owner it has, or has a facility and an  *)
(* owner that exist.                                                        *)
TablesKeep ==
  /\ StoreTypeOK'
  /\ \A f \in Facility : FacilityExists(f) => FacilityExists(f)'
  /\ accounts \subseteq accounts'
  /\ \A b \in Booking : BookingExists(b)' =>
       \/ /\ BookingExists(b) /\ bookings'[b].facility = bookings[b].facility
          /\ bookings'[b].owner = bookings[b].owner
       \/ /\ bookings'[b].facility \in Facility /\ FacilityExists(bookings'[b].facility)
          /\ bookings'[b].owner \in accounts

LEMMA UnchangedTables ==
  ASSUME Sound, UNCHANGED <<facilities, bookings, accounts>>
  PROVE  TablesKeep
  BY DEF Sound, TypeOK, StoreTypeOK, TablesKeep, FacilityExists, BookingExists

LEMMA TablesKeepBookings ==
  ASSUME Sound, TablesKeep
  PROVE  NoBookingIsLeftBehind'
<1> SUFFICES ASSUME NEW b \in Booking, BookingExists(b)'
             PROVE  FacilityExists(bookings[b].facility)' /\ bookings'[b].owner \in accounts'
  BY DEF NoBookingIsLeftBehind
<1>1. CASE /\ BookingExists(b) /\ bookings'[b].facility = bookings[b].facility
           /\ bookings'[b].owner = bookings[b].owner
  BY <1>1, BookingFields DEF TablesKeep, FacilityExists
<1>2. CASE /\ bookings'[b].facility \in Facility /\ FacilityExists(bookings'[b].facility)
           /\ bookings'[b].owner \in accounts
  BY <1>2 DEF TablesKeep, FacilityExists
<1> QED
  BY <1>1, <1>2 DEF TablesKeep

(* No request moves. *)
LEMMA TablesKeepSound ==
  ASSUME Sound, TablesKeep, UNCHANGED req,
         jobs' \subseteq Booking, raced' \subseteq SUBSET Booking, disturbed' \subseteq Facility
  PROVE  Sound'
<1>1. TypeOK' /\ RowsAreAtHand'
  BY DEF Sound, TypeOK, TablesKeep, RowsAreAtHand
<1>2. \A v \in Worker : Keyed(req[v]) => req[v].facility \in Facility
  BY RequestKinds DEF Sound, Keyed, Busy
<1>3. KeysAreKept'
  BY <1>2 DEF Sound, KeysAreKept, TablesKeep, FacilityExists
<1> QED
  BY <1>1, <1>3, TablesKeepBookings DEF Sound

(* A request that goes on without inserting a row or deleting a facility. *)
LEMMA StepKeepsSound ==
  ASSUME Sound, TablesKeep,
         NEW w \in Worker, NEW x \in Request \cup Destruction \cup Departure \cup {NoRequest},
         req' = [req EXCEPT ![w] = x],
         Keyed(x) => /\ Keyed(req[w]) /\ x.facility = req[w].facility
                     /\ x.owner = req[w].owner,
         ~Deleting(x), ~Astray(x),
         jobs' \subseteq Booking, raced' \subseteq SUBSET Booking, disturbed' \subseteq Facility
  PROVE  Sound'
<1>1. TypeOK'
  BY DEF Sound, TypeOK, TablesKeep
<1>2. NoBookingIsLeftBehind'
  BY TablesKeepBookings
<1>3. KeysAreKept'
  <2> SUFFICES ASSUME NEW v \in Worker, Keyed(req'[v])
               PROVE  /\ FacilityExists(req[v].facility)' /\ req'[v].owner \in accounts'
                      /\ \A y \in Worker : Deleting(req'[y]) => Spares(req'[y], req'[v])
    BY DEF KeysAreKept, Keyed, Deleting, Spares
  <2>1. Keyed(req[v]) /\ req'[v].facility = req[v].facility /\ req'[v].owner = req[v].owner
    BY DEF Sound, TypeOK
  <2>2. \A y \in Worker : Deleting(req'[y]) => req'[y] = req[y]
    BY DEF Sound, TypeOK
  <2>3. req[v].facility \in Facility
    BY <2>1, RequestKinds DEF Sound, Keyed, Busy
  <2>4. FacilityExists(req[v].facility)' /\ req'[v].owner \in accounts'
    BY <2>1, <2>3 DEF Sound, KeysAreKept, TablesKeep, FacilityExists
  <2> QED
    BY <2>1, <2>2, <2>4 DEF Sound, KeysAreKept, Spares
<1>4. RowsAreAtHand'
  BY DEF Sound, TypeOK, RowsAreAtHand, Astray
<1> QED
  BY <1>1, <1>2, <1>3, <1>4 DEF Sound

LEMMA FinishKeepsSound ==
  ASSUME Sound, TablesKeep, NEW w \in Worker, Finish(w),
         jobs' \subseteq Booking, raced' \subseteq SUBSET Booking, disturbed' \subseteq Facility
  PROVE  Sound'
  BY StepKeepsSound DEF Finish, Keyed, Deleting, Astray
-----------------------------------------------------------------------------
(* Requests start. *)

LEMMA LoadedIsRequest ==
  ASSUME Sound, NEW b \in Booking, BookingExists(b), NEW u \in User,
         NEW st \in BookingStatus, NEW op \in {"update", "expire", "destroy"}
  PROVE  /\ Loaded(op, b, u, st) \in Request
         /\ Loaded(op, b, u, st).op = op
  BY BookingFields
  DEF Loaded, Request, Snapshot, SuperAdmin, BookingRow

LEMMA OnwardIsDestruction ==
  ASSUME NEW r \in Destruction, NEW x \in Onward(r)
  PROVE  x \in Destruction /\ x.step \in {"row", "delete"} /\ ~Astray(x)
<1>1. CASE r.rest = {}
  <2>1. x = [r EXCEPT !.step = "delete"]
    BY <1>1 DEF Onward
  <2> QED
    BY <2>1 DEF Destruction, Astray, AtBooking
<1>2. CASE r.rest # {}
  <2>1. PICK c \in r.rest : x = [r EXCEPT !.step = "row", !.booking = c, !.rest = @ \ {c}]
    BY <1>2 DEF Onward, Goto
  <2>2. c \in Booking /\ r.rest \ {c} \subseteq Booking
    BY DEF Destruction
  <2> QED
    BY <2>1, <2>2 DEF Destruction, Astray
<1> QED
  BY <1>1, <1>2

LEMMA OnwardIsDeparture ==
  ASSUME NEW r \in Departure, Kept(r),
         \A b \in Booking : r.rows[b] # NoRow <=> b \in r.rest \cup r.gone,
         NEW x \in OnwardLoaded(r)
  PROVE  /\ x \in Departure /\ x.op = "leave" /\ x.step \in {"row", "delete"} /\ ~Astray(x)
         /\ x.owner = r.owner /\ x.rows = r.rows /\ x.gone = r.gone
         /\ x.wrote = r.wrote /\ x.draft = r.draft
         /\ AtBooking(x) => x.loaded = FALSE
<1>1. CASE r.rest = {}
  <2>1. x = [r EXCEPT !.step = "delete"]
    BY <1>1 DEF OnwardLoaded
  <2>2. /\ x \in Departure /\ x.op = "leave" /\ x.step = "delete"
        /\ x.owner = r.owner /\ x.rows = r.rows /\ x.gone = r.gone /\ x.rest = r.rest
        /\ x.wrote = r.wrote /\ x.draft = r.draft
    BY <2>1 DEF Departure
  <2>3. Kept(x) /\ ~AtBooking(x)
    BY <2>2 DEF Kept, AtBooking
  <2>4. Packed(x)
    BY <2>2, <2>3 DEF Packed, InHand
  <2> QED
    BY <2>2, <2>3, <2>4 DEF Astray
<1>2. CASE r.rest # {}
  <2>1. PICK c \in r.rest :
          x = [[r EXCEPT !.step = "row", !.booking = c, !.rest = @ \ {c}]
                 EXCEPT !.facility = r.rows[c].facility, !.loaded = FALSE]
    BY <1>2 DEF OnwardLoaded, GotoLoaded, Goto
  <2>2. /\ c \in Booking /\ r.rest \ {c} \subseteq Booking
        /\ r.rows[c] \in BookingRow /\ r.rows[c].facility \in Facility
    <3>1. c \in Booking /\ r.rows[c] # NoRow
      BY DepartureFields
    <3> QED
      BY <3>1, DepartureFields DEF BookingRow
  <2>3. /\ x.op = "leave" /\ x.step = "row" /\ x.booking = c /\ x.loaded = FALSE
        /\ x.owner = r.owner /\ x.rows = r.rows /\ x.gone = r.gone /\ x.rest = r.rest \ {c}
        /\ x.wrote = r.wrote /\ x.draft = r.draft /\ x.facility = r.rows[c].facility
    BY <2>1 DEF Departure
  <2>4. x \in Departure
    BY <2>1, <2>2 DEF Departure
  <2>5. Kept(x) /\ AtBooking(x)
    BY <2>3 DEF Kept, AtBooking
  <2>6. Packed(x)
    BY <2>2, <2>3, <2>5 DEF Packed, InHand
  <2> QED
    BY <2>3, <2>4, <2>6 DEF Astray
<1> QED
  BY <1>1, <1>2

LEMMA BookingsOfFields ==
  ASSUME Sound, NEW u, NEW b \in BookingsOf(u)
  PROVE  /\ b \in Booking /\ BookingExists(b) /\ bookings[b].owner = u
         /\ bookings[b] \in BookingRow /\ bookings[b].facility \in Facility
  BY BookingFields DEF BookingsOf

(* What the destruction of user u starts with. *)
Departing(u) ==
  [op |-> "leave", step |-> "row", owner |-> u, booking |-> NoRow,
   rest |-> BookingsOf(u), gone |-> {},
   rows |-> [b \in Booking |-> IF b \in BookingsOf(u) THEN bookings[b] ELSE NoRow],
   facility |-> NoRow, loaded |-> FALSE, snap |-> {},
   wrote |-> {}, draft |-> [f \in Facility |-> {}]]

LEMMA DepartingIsDeparture ==
  ASSUME Sound, NEW u \in User, NEW x \in OnwardLoaded(Departing(u))
  PROVE  /\ x \in Departure /\ x.op = "leave" /\ x.step \in {"row", "delete"} /\ ~Astray(x)
         /\ x.owner = u /\ x.gone = {} /\ x.wrote = {} /\ (AtBooking(x) => x.loaded = FALSE)
         /\ x.rows = [b \in Booking |-> IF b \in BookingsOf(u) THEN bookings[b] ELSE NoRow]
<1> DEFINE r == Departing(u)
           M == [b \in Booking |-> IF b \in BookingsOf(u) THEN bookings[b] ELSE NoRow]
<1>1. /\ M \in [Booking -> BookingRow \cup {NoRow}] /\ BookingsOf(u) \subseteq Booking
      /\ \A b \in Booking : M[b] # NoRow <=> b \in BookingsOf(u)
  BY BookingsOfFields, NoRowIsNone
<1>2. /\ r.owner = u /\ r.gone = {} /\ r.wrote = {} /\ r.rows = M /\ r.rest = BookingsOf(u)
      /\ [f \in Facility |-> {}] \in [Facility -> SUBSET Slot]
  BY DEF Departing
<1> HIDE DEF M
<1>3. r \in Departure
  BY <1>1, <1>2 DEF Departing, Departure, M
<1>4. Kept(r) /\ \A b \in Booking : r.rows[b] # NoRow <=> b \in r.rest \cup r.gone
  BY <1>1, <1>2 DEF Kept
<1> HIDE DEF r
<1> QED
  BY <1>2, <1>3, <1>4, OnwardIsDeparture DEF M, r

LEMMA StartingKeepsSound ==
  ASSUME Sound, NEW w \in Worker, Start(w)
  PROVE  Sound'
<1> USE DEF Sound
<1>1. /\ jobs \subseteq Booking /\ raced \subseteq SUBSET Booking /\ disturbed \subseteq Facility
      /\ accounts \subseteq User
  BY DEF TypeOK, StoreTypeOK
<1>2. CASE \E u \in Customer \cap accounts, b \in Booking, f \in Facility, ss \in Asked :
             StartCreate(w, u, b, f, ss)
  <2> PICK u \in Customer \cap accounts, b \in Booking, f \in Facility, ss \in Asked :
             StartCreate(w, u, b, f, ss)
    BY <1>2
  <2> DEFINE x == [op |-> "create", step |-> "check", owner |-> u, booking |-> b,
                   facility |-> f, slots |-> ss, was |-> "pending", to |-> "pending",
                   todo |-> ss, loaded |-> TRUE, snap |-> Offered(f), rest |-> {}]
  <2>1. x \in Request
    BY OfferedIsSlots, TxnAssumption DEF StartCreate, Request, BookingStatus
  <2>2. raced' \subseteq SUBSET Booking
    <3>1. \A v \in Worker : Creating(v) => req[v].booking \in Booking
      BY RequestKinds, RequestFields DEF Creating, Uncommitted
    <3> QED
      BY <1>1, <3>1 DEF StartCreate
  <2>3. disturbed' \subseteq Facility /\ jobs' = jobs /\ req' = [req EXCEPT ![w] = x]
    BY <1>1 DEF StartCreate, Disturb
  <2>4. TablesKeep
    BY UnchangedTables DEF StartCreate
  <2>5. ~Keyed(x) /\ ~Deleting(x) /\ ~Astray(x)
    BY DEF Keyed, Deleting, Astray
  <2> HIDE DEF x
  <2> QED
    BY <1>1, <2>1, <2>2, <2>3, <2>4, <2>5, StepKeepsSound
<1>3. CASE \E u \in accounts, b \in Booking, st \in Sent : StartUpdate(w, u, b, st)
  <2> PICK u \in accounts, b \in Booking, st \in Sent : StartUpdate(w, u, b, st)
    BY <1>3
  <2> DEFINE x == Loaded("update", b, u, st)
  <2>1. x \in Request /\ x.op = "update"
    BY <1>1, LoadedIsRequest, TxnAssumption DEF StartUpdate
  <2>2. /\ disturbed' \subseteq Facility /\ jobs' \subseteq Booking /\ raced' \subseteq SUBSET Booking
        /\ req' = [req EXCEPT ![w] = x] /\ TablesKeep
    BY <1>1, BookingFields, UnchangedTables DEF StartUpdate, Disturb
  <2> HIDE DEF x
  <2>3. ~Keyed(x) /\ ~Deleting(x) /\ ~Astray(x)
    BY <2>1 DEF Keyed, Deleting, Astray
  <2> QED
    BY <1>1, <2>1, <2>2, <2>3, StepKeepsSound
<1>4. CASE \E u \in accounts, b \in Booking : StartDestroy(w, u, b)
  <2> PICK u \in accounts, b \in Booking : StartDestroy(w, u, b)
    BY <1>4
  <2> DEFINE x == Loaded("destroy", b, u, bookings[b].status)
  <2>1. x \in Request /\ x.op = "destroy"
    BY <1>1, LoadedIsRequest, BookingFields DEF StartDestroy
  <2>2. /\ disturbed' \subseteq Facility /\ jobs' \subseteq Booking /\ raced' \subseteq SUBSET Booking
        /\ req' = [req EXCEPT ![w] = x] /\ TablesKeep
    BY <1>1, BookingFields, UnchangedTables DEF StartDestroy, Disturb
  <2> HIDE DEF x
  <2>3. ~Keyed(x) /\ ~Deleting(x) /\ ~Astray(x)
    BY <2>1 DEF Keyed, Deleting, Astray
  <2> QED
    BY <1>1, <2>1, <2>2, <2>3, StepKeepsSound
<1>5. CASE \E E \in SUBSET Booking : \E b \in E : StartExpire(w, E, b)
  <2> PICK E \in SUBSET Booking : \E b \in E : StartExpire(w, E, b)
    BY <1>5
  <2> PICK b \in E : StartExpire(w, E, b)
    OBVIOUS
  <2> DEFINE y == Loaded("expire", b, bookings[b].owner, "approved")
             x == [y EXCEPT !.loaded = FALSE, !.snap = {}, !.rest = E \ {b}]
  <2>1. y \in Request /\ y.op = "expire"
    BY LoadedIsRequest, BookingFields DEF StartExpire, Pending, BookingStatus
  <2>2. /\ disturbed' \subseteq Facility /\ jobs' \subseteq Booking /\ raced' \subseteq SUBSET Booking
        /\ req' = [req EXCEPT ![w] = x] /\ TablesKeep
    BY ZenonT(30), <1>1, BookingFields, UnchangedTables DEF StartExpire, Disturb, Pending
  <2> HIDE DEF y
  <2>3. x \in Request /\ x.op = "expire"
    BY <2>1 DEF Request
  <2> HIDE DEF x
  <2>4. ~Keyed(x) /\ ~Deleting(x) /\ ~Astray(x)
    BY <2>3 DEF Keyed, Deleting, Astray
  <2> QED
    BY <1>1, <2>2, <2>3, <2>4, StepKeepsSound
<1>6. CASE \E u \in accounts, f \in Facility : StartRaze(w, u, f)
  <2> PICK u \in accounts, f \in Facility : StartRaze(w, u, f)
    BY <1>6
  <2> DEFINE r == [op |-> "raze", step |-> "row", facility |-> f, booking |-> NoRow,
                   rest |-> {b \in Booking : BookingExists(b) /\ bookings[b].facility = f},
                   gone |-> {}]
  <2>1. PICK x \in Onward(r) : req' = [req EXCEPT ![w] = x]
    BY DEF StartRaze
  <2>2. r \in Destruction
    BY DEF Destruction
  <2>3. x \in Destruction /\ x.step \in {"row", "delete"} /\ ~Astray(x)
    BY <2>2, OnwardIsDestruction
  <2>4. /\ disturbed' \subseteq Facility /\ jobs' \subseteq Booking /\ raced' \subseteq SUBSET Booking /\ TablesKeep
    BY <1>1, UnchangedTables DEF StartRaze, Disturb
  <2>5. ~Keyed(x) /\ ~Deleting(x)
    BY <2>3 DEF Keyed, Deleting, Destruction
  <2> HIDE DEF r
  <2> QED
    BY <1>1, <2>1, <2>3, <2>4, <2>5, StepKeepsSound
<1>7. CASE \E a \in accounts, u \in User : StartLeave(w, a, u)
  <2> PICK a \in accounts, u \in User : StartLeave(w, a, u)
    BY <1>7
  <2>1. PICK x \in OnwardLoaded(Departing(u)) : req' = [req EXCEPT ![w] = x]
    BY DEF StartLeave, Departing
  <2>2. x \in Departure /\ x.op = "leave" /\ x.step \in {"row", "delete"} /\ ~Astray(x)
    BY DepartingIsDeparture
  <2>3. /\ disturbed' \subseteq Facility /\ jobs' \subseteq Booking
        /\ raced' \subseteq SUBSET Booking /\ TablesKeep
    BY <1>1, UnchangedTables, BookingsOfFields DEF StartLeave, Disturb
  <2>4. ~Keyed(x) /\ ~Deleting(x)
    BY <2>2 DEF Keyed, Deleting
  <2> QED
    BY <1>1, <2>1, <2>2, <2>3, <2>4, StepKeepsSound
<1> QED
  BY <1>2, <1>3, <1>4, <1>5, <1>6, <1>7 DEF Start
-----------------------------------------------------------------------------
(* Requests go on. *)

LEMMA AdvanceKeepsSound ==
  ASSUME Sound, TablesKeep, NEW w \in Worker, Busy(w), NEW st, Advance(w, st),
         \/ req[w] \in Request /\ st \in {"schedule", "commit", "notify"}
         \/ /\ req[w] \in Destruction \cup Departure
            /\ req[w].step = "row" /\ st = "schedule",
         req[w].op = "create" /\ st \in {"schedule", "commit"}
           => req[w].step \in {"schedule", "commit"},
         jobs' \subseteq Booking, UNCHANGED history
  PROVE  Sound'
<1> DEFINE x == [req[w] EXCEPT !.step = st]
<1>1. /\ x \in Request \cup Destruction \cup Departure
      /\ x.op = req[w].op /\ x.step = st /\ x.facility = req[w].facility
      /\ x.booking = req[w].booking
      /\ req[w] \notin Destruction => x.owner = req[w].owner
  <2>1. CASE req[w] \in Request
    BY <2>1 DEF Request
  <2>2. CASE req[w] \in Destruction
    <3>1. st = "schedule"
      BY <2>2 DEF Request, Destruction
    <3> QED
      BY <2>2, <3>1 DEF Destruction
  <2>3. CASE req[w] \in Departure
    <3>1. st = "schedule"
      BY <2>3 DEF Request, Departure
    <3> QED
      BY <2>3, <3>1 DEF Departure
  <2> QED
    BY <2>1, <2>2, <2>3
<1>2. /\ Keyed(x) => /\ Keyed(req[w]) /\ x.facility = req[w].facility
                      /\ x.owner = req[w].owner
      /\ ~Deleting(x)
  BY <1>1 DEF Keyed, Deleting, Busy, Request, Destruction, Departure
<1>5. ~Astray(x)
  <2>1. CASE req[w] \in Request
    BY <1>1, <2>1 DEF Astray, Request
  <2>2. CASE req[w] \in Destruction /\ req[w].step = "row"
    BY <1>1, <2>2 DEF Astray, AtBooking, Destruction, Sound, RowsAreAtHand, Busy
  <2>3. CASE req[w] \in Departure /\ req[w].step = "row" /\ st = "schedule"
    <3>1. /\ x.rest = req[w].rest /\ x.gone = req[w].gone /\ x.rows = req[w].rows
          /\ x.wrote = req[w].wrote /\ x.draft = req[w].draft
          /\ x.loaded = req[w].loaded /\ x.snap = req[w].snap
      BY <2>3 DEF Departure
    <3>2. Packed(req[w])
      BY <2>3, DepartureFields DEF Astray, Sound, RowsAreAtHand, Busy
    <3>3. AtBooking(x) = AtBooking(req[w]) /\ InHand(x) = InHand(req[w])
      BY <1>1, <2>3, <3>1 DEF AtBooking, InHand
    <3>4. Packed(x)
      BY <1>1, <3>1, <3>2, <3>3 DEF Packed, Kept
    <3> QED
      BY <1>1, <2>3, <3>4, DepartureFields DEF Astray
  <2> QED
    BY <2>1, <2>2, <2>3
<1>3. req' = [req EXCEPT ![w] = x]
  BY DEF Advance
<1>4. raced' \subseteq SUBSET Booking /\ disturbed' \subseteq Facility
  BY DEF Sound, TypeOK, history
<1> HIDE DEF x
<1> QED
  BY <1>1, <1>2, <1>3, <1>4, <1>5, StepKeepsSound

LEMMA CheckingKeepsSound ==
  ASSUME Sound, NEW w \in Worker, NEW s \in Slot, CheckSlot(w, s)
  PROVE  Sound'
<1>1. /\ TablesKeep /\ jobs' \subseteq Booking
      /\ raced' \subseteq SUBSET Booking /\ disturbed' \subseteq Facility
  BY UnchangedTables DEF CheckSlot, Sound, TypeOK, history
<1>2. Busy(w) /\ req[w] \in Request /\ req[w].step = "check"
  BY RequestKinds DEF CheckSlot, At, Sound
<1>3. CASE Finish(w)
  BY <1>1, <1>3, FinishKeepsSound
<1>4. CASE req' = [req EXCEPT ![w].todo = @ \ {s}]
  <2> DEFINE x == [req[w] EXCEPT !.todo = @ \ {s}]
  <2>1. x \in Request /\ x.step = "check" /\ req' = [req EXCEPT ![w] = x]
    BY <1>2, <1>4 DEF Request
  <2> HIDE DEF x
  <2>2. ~Keyed(x) /\ ~Deleting(x) /\ ~Astray(x)
    BY <2>1, RequestFields DEF Keyed, Deleting, Astray
  <2> QED
    BY <1>1, <2>1, <2>2, StepKeepsSound
<1> QED
  BY <1>3, <1>4 DEF CheckSlot

(* The new row takes the keys of its facility and its owner, which exist and*)
(* which nobody has deleted, or the statement would wait.                   *)
LEMMA InsertingKeepsSound ==
  ASSUME Sound, NEW w \in Worker, InsertRow(w)
  PROVE  Sound'
<1>1. /\ TablesKeep /\ jobs' \subseteq Booking
      /\ raced' \subseteq SUBSET Booking /\ disturbed' \subseteq Facility
  BY UnchangedTables DEF InsertRow, Sound, TypeOK, history
<1>2. /\ Busy(w) /\ req[w] \in Request /\ req[w].step = "check"
      /\ req[w].facility \in Facility
  BY RequestKinds, RequestFields DEF InsertRow, At, Sound
<1>3. CASE Finish(w)
  BY <1>1, <1>3, FinishKeepsSound
<1>4. CASE /\ HoursOK(req[w]) /\ FacilityExists(req[w].facility)
           /\ req[w].owner \in accounts /\ Advance(w, "schedule")
  <2> DEFINE x == [req[w] EXCEPT !.step = "schedule"]
  <2>1. /\ x \in Request /\ x.facility = req[w].facility /\ ~Deleting(x)
        /\ x.owner = req[w].owner /\ req' = [req EXCEPT ![w] = x]
    BY <1>2, <1>4 DEF Request, Deleting, Advance
  <2>2. \A v \in Worker : Deleting(req[v]) => Spares(req[v], req[w])
    <3> SUFFICES ASSUME NEW v \in Worker, Deleting(req[v]), ~Spares(req[v], req[w])
                 PROVE  FALSE
      OBVIOUS
    <3>1. v # w
      BY <1>2 DEF Deleting, Request
    <3>2. /\ Inserts(req[w])
          /\ HasDeleted(v, req[w].facility) \/ HasClosed(v, req[w].owner)
      BY <1>2, <1>4
      DEF Inserts, InsertRow, HasDeleted, HasClosed, Deleting, Spares, Razing, Leaving, At, Busy
    <3>3. Waits(w, v)
      BY <1>2, <1>4, <3>1, <3>2 DEF Waits
    <3> QED
      BY <3>3 DEF InsertRow, Free
  <2> HIDE DEF x
  <2>3. TypeOK'
    BY <1>1, <2>1 DEF Sound, TypeOK, TablesKeep
  <2>4. NoBookingIsLeftBehind'
    BY DEF Sound, NoBookingIsLeftBehind, InsertRow, BookingExists, FacilityExists
  <2>5. KeysAreKept'
    <3> SUFFICES ASSUME NEW v \in Worker, Keyed(req'[v])
                 PROVE  /\ FacilityExists(req'[v].facility) /\ req'[v].owner \in accounts
                        /\ \A y \in Worker : Deleting(req'[y]) => Spares(req'[y], req'[v])
      BY DEF KeysAreKept, Keyed, Deleting, Spares, InsertRow, FacilityExists
    <3>1. \A y \in Worker : Deleting(req'[y]) => Deleting(req[y]) /\ req'[y] = req[y]
      BY <2>1 DEF Sound, TypeOK
    <3>2. CASE v = w
      BY <1>4, <2>1, <2>2, <3>1, <3>2 DEF Sound, TypeOK, Spares
    <3>3. CASE v # w
      BY <2>1, <3>1, <3>3 DEF Sound, TypeOK, KeysAreKept, Spares
    <3> QED
      BY <3>2, <3>3
  <2>6. RowsAreAtHand'
    BY <1>4, <2>1 DEF Sound, TypeOK, RowsAreAtHand, Astray, Request, x
  <2> QED
    BY <2>3, <2>4, <2>5, <2>6 DEF Sound
<1> QED
  BY <1>3, <1>4 DEF InsertRow

LEMMA RefusingKeepsSound ==
  ASSUME Sound, NEW w \in Worker, RefuseDay(w)
  PROVE  Sound'
<1>1. /\ TablesKeep /\ jobs' \subseteq Booking /\ Finish(w)
      /\ raced' \subseteq SUBSET Booking /\ disturbed' \subseteq Facility
  BY UnchangedTables DEF RefuseDay, Sound, TypeOK, history
<1> QED
  BY <1>1, FinishKeepsSound

LEMMA WritingKeepsSound ==
  ASSUME Sound, NEW w \in Worker, WriteRow(w) \/ WriteSchedule(w)
  PROVE  Sound'
<1>1. TablesKeep /\ jobs' \subseteq Booking /\ UNCHANGED history
  BY UnchangedTables DEF WriteRow, WriteSchedule, Sound, TypeOK
<1>2. /\ Busy(w) /\ req[w] \in Request \cup Destruction \cup Departure
      /\ req[w].op \notin {"raze", "leave"} => req[w] \in Request
  BY RequestKinds DEF WriteRow, WriteSchedule, At, Sound
<1>3. CASE WriteSchedule(w)
  <2>1. req[w] \in Request /\ req[w].step = "schedule" /\ Advance(w, "commit")
    BY <1>2, <1>3 DEF WriteSchedule, Destroys, Razing, Leaving, At
  <2> QED
    BY <1>1, <1>2, <2>1, AdvanceKeepsSound
<1>4. CASE WriteRow(w)
  <2> DEFINE st == IF WritesSchedule(req[w]) THEN "schedule" ELSE "commit"
  <2>1. Advance(w, st) /\ req[w].step = "row"
    BY <1>4 DEF WriteRow, At
  <2>2. req[w] \in Destruction \cup Departure => st = "schedule"
    BY DEF WritesSchedule, Destruction, Departure
  <2>3. st \in {"schedule", "commit"}
    OBVIOUS
  <2> HIDE DEF st
  <2>4. CASE req[w].op # "create"
    BY <1>1, <1>2, <2>1, <2>2, <2>3, <2>4, AdvanceKeepsSound
  <2>5. req[w].op # "create"
    BY <1>2, <2>1 DEF Sound, RowsAreAtHand, Astray, Busy
  <2> QED
    BY <2>4, <2>5
<1> QED
  BY <1>3, <1>4

LEMMA LoadingKeepsSound ==
  ASSUME Sound, NEW w \in Worker, LoadFacility(w)
  PROVE  Sound'
<1>1. /\ TablesKeep /\ jobs' \subseteq Booking
      /\ raced' \subseteq SUBSET Booking /\ disturbed' \subseteq Facility
  BY UnchangedTables DEF LoadFacility, Sound, TypeOK, history
<1>2. /\ Busy(w) /\ req[w] \in Request \cup Departure /\ req[w].step = "schedule"
      /\ req[w].facility \in Facility
  <2>1. Busy(w) /\ req[w] \in Request \cup Departure /\ req[w].step = "schedule"
    BY RequestKinds DEF LoadFacility, At, FacilityAtHand, Sound
  <2> QED
    BY <2>1, RequestFields, AtBookingFields DEF AtBooking, Sound, RowsAreAtHand
<1>3. CASE Finish(w)
  BY <1>1, <1>3, FinishKeepsSound
<1>4. CASE /\ FacilityExists(req[w].facility)
           /\ req' = [req EXCEPT ![w].loaded = TRUE, ![w].snap = Seen(req[w])]
  <2> DEFINE x == [req[w] EXCEPT !.loaded = TRUE, !.snap = Seen(req[w])]
  <2>1. Seen(req[w]) \in SUBSET Slot
    <3>1. Offered(req[w].facility) \in SUBSET Slot
      BY <1>2, <1>4, OfferedIsSlots DEF Sound
    <3> QED
      BY <1>2, <3>1, RequestFields, DepartureFields DEF Seen
  <2>2. /\ x \in Request \cup Departure /\ x.op = req[w].op /\ x.step = "schedule"
        /\ x.facility = req[w].facility /\ x.owner = req[w].owner
    <3>1. CASE req[w] \in Request
      BY <1>2, <2>1, <3>1 DEF Request
    <3>2. CASE req[w] \in Departure
      BY <1>2, <2>1, <3>2 DEF Departure
    <3> QED
      BY <1>2, <3>1, <3>2
  <2>3. req' = [req EXCEPT ![w] = x]
    BY <1>4 DEF Sound, TypeOK
  <2>4. (Keyed(x) => Keyed(req[w])) /\ ~Deleting(x)
    BY <1>2, <2>2 DEF Keyed, Deleting, Busy
  <2>5. ~Astray(x)
    <3>1. CASE req[w] \in Request
      BY <2>2, <3>1 DEF Astray, Request
    <3>2. CASE req[w] \in Departure
      <4>1. /\ x.rest = req[w].rest /\ x.gone = req[w].gone /\ x.rows = req[w].rows
            /\ x.wrote = req[w].wrote /\ x.draft = req[w].draft
            /\ x.booking = req[w].booking /\ x.snap = Seen(req[w])
        BY <3>2 DEF Departure
      <4>2. Packed(req[w])
        BY <1>2, <3>2, DepartureFields DEF Astray, Sound, RowsAreAtHand, Busy
      <4>3. AtBooking(x) = AtBooking(req[w]) /\ InHand(x) = InHand(req[w])
        BY <1>2, <2>2, <4>1 DEF AtBooking, InHand
      <4>4. x.facility \in x.wrote => x.draft[x.facility] \subseteq x.snap
        BY <2>2, <3>2, <4>1, DepartureFields DEF Seen
      <4>5. Packed(x)
        BY <2>2, <4>1, <4>2, <4>3, <4>4 DEF Packed, Kept
      <4> QED
        BY <2>2, <3>2, <4>5, DepartureFields DEF Astray
    <3> QED
      BY <1>2, <3>1, <3>2
  <2> HIDE DEF x
  <2> QED
    BY <1>1, <2>2, <2>3, <2>4, <2>5, StepKeepsSound
<1> QED
  BY <1>3, <1>4 DEF LoadFacility
-----------------------------------------------------------------------------
(* Requests commit. *)

LEMMA RewrittenIsSlots ==
  ASSUME NEW r \in Request
  PROVE  Rewritten(r) \in SUBSET Slot
  BY RequestFields DEF Rewritten

LEMMA StoringKeepsFacilities ==
  ASSUME Sound, NEW r \in Request, StoreSchedule(r) \/ UNCHANGED facilities
  PROVE  /\ facilities' \in [Facility -> FacilityRow \cup {NoRow}]
         /\ \A f \in Facility : FacilityExists(f) => FacilityExists(f)'
<1>1. facilities \in [Facility -> FacilityRow \cup {NoRow}]
  BY DEF Sound, TypeOK, StoreTypeOK
<1>2. CASE UNCHANGED facilities
  BY <1>1, <1>2 DEF FacilityExists
<1>3. CASE facilities' = [facilities EXCEPT ![r.facility].schedule = Rewritten(r)]
           /\ FacilityExists(r.facility)
  <2> DEFINE row == [facilities[r.facility] EXCEPT !.schedule = Rewritten(r)]
  <2>1. r.facility \in Facility /\ facilities[r.facility] \in FacilityRow
    BY <1>1, <1>3, RequestFields DEF FacilityExists
  <2>2. row \in FacilityRow
    BY <2>1, RewrittenIsSlots DEF FacilityRow
  <2>3. facilities' = [facilities EXCEPT ![r.facility] = row]
    BY <1>3
  <2> HIDE DEF row
  <2> QED
    BY <1>1, <2>1, <2>2, <2>3, NoRowIsNone DEF FacilityExists
<1> QED
  BY <1>2, <1>3 DEF StoreSchedule

LEMMA CreatingKeepsSound ==
  ASSUME Sound, NEW w \in Worker, CommitCreate(w)
  PROVE  Sound'
<1> DEFINE r == req[w]
           row == [owner |-> r.owner, facility |-> r.facility, slots |-> r.slots,
                   status |-> "pending", told |-> "none", reopened |-> FALSE]
<1>1. Busy(w) /\ r.op = "create" /\ r.step = "commit" /\ r \in Request
  BY RequestKinds DEF CommitCreate, At, Sound
<1>2. FacilityExists(r.facility) /\ r.facility \in Facility /\ r.owner \in accounts
  BY <1>1, RequestFields DEF Sound, KeysAreKept, Keyed, Busy
<1>3. row \in BookingRow /\ r.booking \in Booking
  BY <1>1, RequestFields DEF BookingRow, BookingStatus
<1>4. bookings' = [bookings EXCEPT ![r.booking] = row] /\ StoreSchedule(r) /\ UNCHANGED accounts
  BY DEF CommitCreate
<1>5. row.facility = r.facility /\ row.owner = r.owner
  OBVIOUS
<1> HIDE DEF row, r
<1>6. /\ facilities' \in [Facility -> FacilityRow \cup {NoRow}]
      /\ \A f \in Facility : FacilityExists(f) => FacilityExists(f)'
  BY <1>1, <1>4, StoringKeepsFacilities
<1>7. TablesKeep
  BY <1>2, <1>3, <1>4, <1>5, <1>6
  DEF TablesKeep, StoreTypeOK, Sound, TypeOK, BookingExists, FacilityExists
<1>8. /\ Advance(w, "enqueue") /\ jobs' \subseteq Booking
      /\ raced' \subseteq SUBSET Booking /\ disturbed' \subseteq Facility
  BY DEF CommitCreate, Sound, TypeOK, history
<1> DEFINE x == [r EXCEPT !.step = "enqueue"]
<1>9. x \in Request /\ x.step = "enqueue"
  BY <1>1 DEF Request
<1>10. req' = [req EXCEPT ![w] = x]
  BY <1>8 DEF Advance, r
<1> HIDE DEF x
<1>11. ~Keyed(x) /\ ~Deleting(x) /\ ~Astray(x)
  BY <1>9, RequestFields DEF Keyed, Deleting, Astray
<1> QED
  BY <1>7, <1>8, <1>9, <1>10, <1>11, StepKeepsSound

(* The status and the message are written to a row that is there. *)
LEMMA WrittenBookings ==
  ASSUME Sound, NEW r \in Request,
         \/ bookings' = StatusWritten(r)
         \/ bookings' = IF BookingExists(r.booking)
                        THEN [bookings EXCEPT ![r.booking].told = r.to] ELSE bookings
  PROVE  /\ bookings' \in [Booking -> BookingRow \cup {NoRow}]
         /\ \A b \in Booking : BookingExists(b)' =>
              /\ BookingExists(b) /\ bookings'[b].facility = bookings[b].facility
              /\ bookings'[b].owner = bookings[b].owner
              /\ bookings'[b].slots = bookings[b].slots
<1>1. bookings \in [Booking -> BookingRow \cup {NoRow}]
  BY DEF Sound, TypeOK, StoreTypeOK
<1>2. r.booking \in Booking /\ r.to \in BookingStatus
  BY RequestFields
<1>3. CASE ~BookingExists(r.booking)
  BY <1>1, <1>3 DEF StatusWritten, BookingExists
<1>4. CASE BookingExists(r.booking)
  <2>1. bookings[r.booking] \in BookingRow
    BY <1>1, <1>2, <1>4 DEF BookingExists
  <2>2. PICK row \in BookingRow :
          /\ bookings' = [bookings EXCEPT ![r.booking] = row]
          /\ row.facility = bookings[r.booking].facility
          /\ row.owner = bookings[r.booking].owner /\ row.slots = bookings[r.booking].slots
    <3>1. CASE bookings' = StatusWritten(r)
      <4> DEFINE row == [bookings[r.booking] EXCEPT
                           !.status = r.to,
                           !.reopened = @ \/ (bookings[r.booking].status \in Refused
                                                /\ r.to \in Active)]
      <4>1. bookings' = [bookings EXCEPT ![r.booking] = row]
        BY <1>1, <1>2, <1>4, <3>1 DEF StatusWritten
      <4>2. /\ row \in BookingRow /\ row.facility = bookings[r.booking].facility
            /\ row.owner = bookings[r.booking].owner /\ row.slots = bookings[r.booking].slots
        BY <1>2, <2>1 DEF BookingRow
      <4> QED
        BY <4>1, <4>2
    <3>2. CASE bookings' = [bookings EXCEPT ![r.booking].told = r.to]
      <4> DEFINE row == [bookings[r.booking] EXCEPT !.told = r.to]
      <4>1. /\ row \in BookingRow /\ row.facility = bookings[r.booking].facility
            /\ row.owner = bookings[r.booking].owner /\ row.slots = bookings[r.booking].slots
        BY <1>2, <2>1 DEF BookingRow
      <4> QED
        BY <3>2, <4>1
    <3> QED
      BY <1>4, <3>1, <3>2
  <2> QED
    BY <1>1, <1>2, <1>4, <2>2 DEF BookingExists
<1> QED
  BY <1>3, <1>4

LEMMA CommittingKeepsSound ==
  ASSUME Sound, NEW w \in Worker, CommitUpdate(w) \/ CommitExpire(w) \/ CommitDestroy(w)
  PROVE  Sound'
<1> DEFINE r == req[w]
<1>1. /\ Busy(w) /\ r \in Request /\ r.op \in {"update", "expire", "destroy"}
      /\ r.step = "commit"
  BY RequestKinds DEF CommitUpdate, CommitExpire, CommitDestroy, At, Sound
<1>2. /\ jobs' \subseteq Booking /\ raced' \subseteq SUBSET Booking
      /\ disturbed' \subseteq Facility /\ UNCHANGED history
  BY DEF CommitUpdate, CommitExpire, CommitDestroy, Sound, TypeOK, history
<1> HIDE DEF r
<1>3. TablesKeep
  <2>1. /\ facilities' \in [Facility -> FacilityRow \cup {NoRow}]
        /\ \A f \in Facility : FacilityExists(f) => FacilityExists(f)'
    BY <1>1, StoringKeepsFacilities DEF CommitUpdate, CommitExpire, CommitDestroy, r
  <2>2. /\ bookings' \in [Booking -> BookingRow \cup {NoRow}]
        /\ \A b \in Booking : BookingExists(b)' =>
             /\ BookingExists(b) /\ bookings'[b].facility = bookings[b].facility
             /\ bookings'[b].owner = bookings[b].owner
    <3>1. CASE CommitUpdate(w) \/ CommitExpire(w)
      BY <1>1, <3>1, WrittenBookings DEF CommitUpdate, CommitExpire, r
    <3>2. CASE CommitDestroy(w)
      BY <1>1, <3>2, RequestFields
      DEF CommitDestroy, r, Sound, TypeOK, StoreTypeOK, BookingExists
    <3> QED
      BY <3>1, <3>2
  <2>3. UNCHANGED accounts
    BY DEF CommitUpdate, CommitExpire, CommitDestroy
  <2> QED
    BY <2>1, <2>2, <2>3 DEF TablesKeep, StoreTypeOK, Sound, TypeOK
<1>4. CASE Finish(w)
  BY <1>2, <1>3, <1>4, FinishKeepsSound
<1>5. CASE Advance(w, "notify")
  BY <1>1, <1>2, <1>3, <1>5, AdvanceKeepsSound DEF r
<1>6. ASSUME NEW c \in r.rest, req' = [req EXCEPT ![w] = NextExpired(r, c)], r.op = "expire"
      PROVE  Sound'
  <2> DEFINE g == IF BookingExists(c) THEN bookings[c].facility ELSE r.facility
             x == [r EXCEPT !.step = "row", !.booking = c, !.rest = @ \ {c}, !.facility = g]
  <2>1. c \in Booking /\ g \in Facility /\ r.rest \in SUBSET Booking
    BY <1>1, <1>6, RequestFields, BookingFields
  <2>2. NextExpired(r, c) = x
    BY <1>1 DEF NextExpired, Request
  <2> HIDE DEF g
  <2>3. x \in Request /\ x.op = "expire"
    BY <1>1, <1>6, <2>1 DEF Request
  <2> HIDE DEF x
  <2>4. ~Keyed(x) /\ ~Deleting(x) /\ ~Astray(x)
    BY <2>3 DEF Keyed, Deleting, Astray
  <2> QED
    BY <1>2, <1>3, <1>6, <2>2, <2>3, <2>4, StepKeepsSound
<1> QED
  BY <1>4, <1>5, <1>6 DEF CommitUpdate, CommitExpire, CommitDestroy, r
-----------------------------------------------------------------------------
(* A facility is destroyed. *)

LEMMA CascadingKeepsSound ==
  ASSUME Sound, NEW w \in Worker, WriteCascaded(w)
  PROVE  Sound'
<1> DEFINE r == [req[w] EXCEPT !.gone = @ \cup {req[w].booking}]
<1>1. /\ req[w] \in Destruction /\ req[w].step = "schedule" /\ TablesKeep
      /\ jobs' \subseteq Booking /\ raced' \subseteq SUBSET Booking
      /\ disturbed' \subseteq Facility
  BY RequestKinds, UnchangedTables DEF WriteCascaded, Razing, At, Sound, TypeOK, history
<1>2. PICK x \in Onward(r) : req' = [req EXCEPT ![w] = x]
  BY DEF WriteCascaded
<1>3. r \in Destruction
  <2>1. req[w].booking \in Booking
    BY <1>1, NoRequestIsNone DEF Sound, RowsAreAtHand, Astray, AtBooking, Destruction
  <2> QED
    BY <1>1, <2>1 DEF Destruction
<1> HIDE DEF r
<1>4. x \in Destruction /\ x.step \in {"row", "delete"} /\ ~Astray(x)
  BY <1>2, <1>3, OnwardIsDestruction
<1>5. ~Keyed(x) /\ ~Deleting(x)
  BY <1>4 DEF Keyed, Deleting, Destruction
<1> QED
  BY <1>1, <1>2, <1>4, <1>5, StepKeepsSound

(* Whoever holds the key of the facility or the user makes the DELETE wait. *)
LEMMA DeletingKeepsSound ==
  ASSUME Sound, NEW w \in Worker, DeleteParent(w)
  PROVE  Sound'
<1> DEFINE x == [req[w] EXCEPT !.step = "commit"]
<1>1. /\ Busy(w) /\ req[w] \in Destruction \cup Departure /\ req[w].step = "delete"
      /\ req' = [req EXCEPT ![w] = x]
      /\ UNCHANGED <<facilities, bookings, accounts, jobs, history>>
  BY RequestKinds DEF DeleteParent, At, Sound, Advance
<1>2. /\ x \in Destruction \cup Departure /\ x.op = req[w].op /\ x.op \in {"raze", "leave"}
      /\ x.step = "commit" /\ x.facility = req[w].facility
      /\ x.op = "leave" => x.owner = req[w].owner
      /\ ~Astray(x)
  <2>1. CASE req[w] \in Destruction
    BY <2>1 DEF Destruction, Astray, AtBooking
  <2>2. CASE req[w] \in Departure
    <3>1. /\ x.rest = req[w].rest /\ x.gone = req[w].gone /\ x.rows = req[w].rows
          /\ x.wrote = req[w].wrote /\ x.draft = req[w].draft
          /\ x.op = "leave" /\ x.step = "commit" /\ x.owner = req[w].owner
          /\ x.facility = req[w].facility /\ x \in Departure
      BY <2>2 DEF Departure
    <3>2. Packed(req[w])
      BY <1>1, <2>2, DepartureFields DEF Astray, Sound, RowsAreAtHand, Busy
    <3>3. ~AtBooking(x) /\ InHand(x) = InHand(req[w])
      BY <1>1, <3>1 DEF AtBooking, InHand
    <3>4. Packed(x)
      BY <3>1, <3>2, <3>3 DEF Packed, Kept
    <3> QED
      BY <2>2, <3>1, <3>4, DepartureFields DEF Astray
  <2> QED
    BY <1>1, <2>1, <2>2
<1> HIDE DEF x
<1>3. TypeOK'
  BY <1>1, <1>2 DEF Sound, TypeOK, StoreTypeOK, history
<1>4. NoBookingIsLeftBehind'
  BY <1>1 DEF Sound, NoBookingIsLeftBehind, BookingExists, FacilityExists
<1>5. RowsAreAtHand'
  BY <1>1, <1>2 DEF Sound, TypeOK, RowsAreAtHand
<1>6. \A v \in Worker : Keyed(req[v]) => Spares(x, req[v])
  <2> SUFFICES ASSUME NEW v \in Worker, Keyed(req[v]), ~Spares(x, req[v])
               PROVE  FALSE
    OBVIOUS
  <2>1. v # w /\ FacilityExists(req[v].facility) /\ req[v].owner \in accounts
    BY <1>1 DEF Sound, KeysAreKept, Keyed
  <2>2. HasKeyLock(v, req[v].facility) /\ HasUserKey(v, req[v].owner)
    BY DEF HasKeyLock, HasUserKey, Keyed, Creating, Uncommitted, Busy
  <2>3. Waits(w, v)
    BY <1>1, <1>2, <2>1, <2>2 DEF Waits, Spares
  <2> QED
    BY <2>3 DEF DeleteParent, Free
<1>7. KeysAreKept'
  <2> SUFFICES ASSUME NEW v \in Worker, Keyed(req'[v])
               PROVE  /\ FacilityExists(req[v].facility)' /\ req'[v].owner \in accounts'
                      /\ \A y \in Worker : Deleting(req'[y]) => Spares(req'[y], req'[v])
    BY DEF KeysAreKept, Keyed, Deleting, Spares
  <2>1. v # w /\ req'[v] = req[v] /\ Keyed(req[v])
    BY <1>1, <1>2 DEF Sound, TypeOK, Keyed
  <2>2. \A y \in Worker : y # w => req'[y] = req[y]
    BY <1>1 DEF Sound, TypeOK
  <2>3. Spares(req'[w], req'[v])
    BY <1>1, <1>6, <2>1 DEF Sound, TypeOK
  <2> QED
    BY <1>1, <2>1, <2>2, <2>3 DEF Sound, KeysAreKept, FacilityExists
<1> QED
  BY <1>3, <1>4, <1>5, <1>7 DEF Sound

(* The facility goes only when none of its bookings is left and nobody has  *)
(* its key.                                                                 *)
LEMMA RazingKeepsSound ==
  ASSUME Sound, NEW w \in Worker, CommitRaze(w)
  PROVE  Sound'
<1> DEFINE r == req[w]
<1>1. /\ Busy(w) /\ r \in Destruction /\ Deleting(r) /\ r.op = "raze"
      /\ r.facility \in Facility
      /\ Finish(w) /\ jobs' \subseteq Booking /\ UNCHANGED accounts
      /\ raced' \subseteq SUBSET Booking /\ disturbed' \subseteq Facility
  BY RequestKinds DEF CommitRaze, At, Sound, TypeOK, history, Deleting, Busy
<1> HIDE DEF r
<1>2. CASE Strays(r) # {}
  <2>1. TablesKeep
    BY <1>2, UnchangedTables DEF CommitRaze, r
  <2> QED
    BY <1>1, <2>1, FinishKeepsSound
<1>3. CASE Strays(r) = {}
  <2>1. /\ facilities' = [facilities EXCEPT ![r.facility] = NoRow]
        /\ bookings' = [b \in Booking |-> IF b \in r.gone THEN NoRow ELSE bookings[b]]
    BY <1>3 DEF CommitRaze, r
  <2>2. TypeOK' /\ RowsAreAtHand'
    BY <1>1, <2>1 DEF Sound, TypeOK, StoreTypeOK, Finish, RowsAreAtHand, Astray
  <2>3. \A b \in Booking : BookingExists(b)' =>
          /\ BookingExists(b) /\ bookings'[b] = bookings[b]
          /\ bookings[b].facility # r.facility
    BY <1>1, <1>3, <2>1 DEF BookingExists, Strays
  <2>4. \A f \in Facility : f # r.facility /\ FacilityExists(f) => FacilityExists(f)'
    BY <2>1 DEF FacilityExists, Sound, TypeOK, StoreTypeOK
  <2>5. NoBookingIsLeftBehind'
    <3> SUFFICES ASSUME NEW b \in Booking, BookingExists(b)'
                 PROVE  FacilityExists(bookings[b].facility)' /\ bookings'[b].owner \in accounts'
      BY DEF NoBookingIsLeftBehind
    <3>1. /\ bookings[b].facility \in Facility /\ FacilityExists(bookings[b].facility)
          /\ bookings[b].facility # r.facility /\ bookings'[b] = bookings[b]
          /\ bookings[b].owner \in accounts
      BY <2>3, BookingFields
    <3> QED
      BY <1>1, <2>4, <3>1 DEF FacilityExists
  <2>6. \A v \in Worker : Keyed(req'[v]) \/ Deleting(req'[v]) => req'[v] = req[v]
    BY <1>1 DEF Sound, TypeOK, Finish, Keyed, Deleting
  <2>7. KeysAreKept'
    <3> SUFFICES ASSUME NEW v \in Worker, Keyed(req'[v])
                 PROVE  /\ FacilityExists(req[v].facility)' /\ req'[v].owner \in accounts'
                        /\ \A y \in Worker : Deleting(req'[y]) => Spares(req'[y], req'[v])
      BY DEF KeysAreKept, Keyed, Deleting, Spares
    <3>1. /\ req'[v] = req[v] /\ Keyed(req[v])
          /\ FacilityExists(req[v].facility) /\ req[v].owner \in accounts
      BY <2>6 DEF Sound, KeysAreKept
    <3>2. req[v].facility # r.facility
      BY <1>1, <3>1 DEF Sound, KeysAreKept, Spares, r
    <3>3. req[v].facility \in Facility
      BY <3>1, RequestKinds DEF Sound, Keyed, Busy
    <3>4. FacilityExists(req[v].facility)'
      BY <2>4, <3>1, <3>2, <3>3 DEF FacilityExists
    <3> QED
      BY <1>1, <2>6, <3>1, <3>4 DEF Sound, KeysAreKept
  <2> QED
    BY <2>2, <2>5, <2>7 DEF Sound
<1> QED
  BY <1>2, <1>3
-----------------------------------------------------------------------------
(* A user is destroyed. *)

(* What the destruction holds once the callback of its booking has run.     *)
LEMMA RestoredIsDeparture ==
  ASSUME NEW r \in Departure, ~Astray(r), r.step = "schedule", r.loaded
  PROVE  /\ Restored(r) \in Departure /\ Kept(Restored(r))
         /\ \A b \in Booking : r.rows[b] # NoRow <=> b \in r.rest \cup r.gone \cup {r.booking}
         /\ Restored(r).owner = r.owner /\ Restored(r).rows = r.rows
         /\ Restored(r).rest = r.rest /\ Restored(r).gone = r.gone \cup {r.booking}
         /\ Restored(r).wrote = r.wrote \cup {r.facility}
         /\ Restored(r).draft = [r.draft EXCEPT ![r.facility] = r.snap \cup r.rows[r.booking].slots]
<1> DEFINE x == Restored(r)
           d == r.snap \cup r.rows[r.booking].slots
<1>1. /\ r.booking \in Booking /\ r.rows[r.booking] \in BookingRow
      /\ r.facility \in Facility /\ r.facility = r.rows[r.booking].facility
      /\ Packed(r) /\ AtBooking(r)
  <2>1. AtBooking(r)
    BY DEF AtBooking
  <2> QED
    BY <2>1, AtBookingFields, DepartureFields, NoRequestIsNone DEF Astray
<1>2. d \in SUBSET Slot
  BY <1>1, DepartureFields DEF BookingRow
<1>3. /\ x.rows = r.rows /\ x.gone = r.gone \cup {r.booking} /\ x.rest = r.rest
      /\ x.wrote = r.wrote \cup {r.facility} /\ x.owner = r.owner
      /\ x.draft = [r.draft EXCEPT ![r.facility] = d]
  BY DEF Restored, Departure
<1>4. x \in Departure
  BY <1>1, <1>2 DEF Restored, Departure
<1> HIDE DEF x
<1>5. /\ \A b \in Booking : r.rows[b] # NoRow <=> b \in r.rest \cup r.gone \cup {r.booking}
      /\ Kept(r)
      /\ r.facility \in r.wrote => r.draft[r.facility] \subseteq r.snap
  BY <1>1 DEF Packed, InHand
<1>6. /\ r.draft \in [Facility -> SUBSET Slot] /\ r.wrote \subseteq Facility
      /\ r.gone \subseteq Booking
  BY DepartureFields
<1>7. Kept(x)
  <2>1. ASSUME NEW b \in x.gone
        PROVE  /\ x.rows[b].facility \in x.wrote
               /\ x.rows[b].slots \subseteq x.draft[x.rows[b].facility]
    <3>1. CASE b = r.booking
      BY <1>1, <1>3, <1>6, <3>1
    <3>2. CASE b # r.booking
      <4>1. /\ b \in r.gone /\ r.rows[b].facility \in r.wrote
            /\ r.rows[b].slots \subseteq r.draft[r.rows[b].facility]
        BY <1>3, <1>5, <2>1, <3>2 DEF Kept
      <4> QED
        BY <1>1, <1>3, <1>5, <1>6, <4>1
    <3> QED
      BY <3>1, <3>2
  <2>2. ASSUME NEW f \in x.wrote
        PROVE  \E b \in Booking : x.rows[b] # NoRow /\ x.rows[b].facility = f
    BY <1>1, <1>3, <1>5, <2>2 DEF Kept
  <2> QED
    BY <2>1, <2>2 DEF Kept
<1> QED
  BY <1>3, <1>4, <1>5, <1>7 DEF x

(* How the destruction goes on after it.                                    *)
LEMMA RestoringGoesOn ==
  ASSUME Sound, NEW w \in Worker, RestoreLoaded(w)
  PROVE  /\ req[w] \in Departure /\ ~Astray(req[w]) /\ Busy(w) /\ req[w].op = "leave"
         /\ req[w].step = "schedule" /\ req[w].loaded
         /\ \E x \in OnwardLoaded(Restored(req[w])) :
               /\ req' = [req EXCEPT ![w] = x]
               /\ x \in Departure /\ x.op = "leave" /\ x.step \in {"row", "delete"}
               /\ ~Astray(x) /\ x.owner = req[w].owner /\ x.rows = req[w].rows
               /\ x.gone = Restored(req[w]).gone /\ x.wrote = Restored(req[w]).wrote
               /\ x.draft = Restored(req[w]).draft /\ (AtBooking(x) => x.loaded = FALSE)
<1>1. /\ req[w] \in Departure /\ ~Astray(req[w]) /\ Busy(w) /\ req[w].op = "leave"
      /\ req[w].step = "schedule" /\ req[w].loaded
  BY RequestKinds DEF RestoreLoaded, Leaving, At, FacilityAtHand, Sound, RowsAreAtHand
<1>2. PICK x \in OnwardLoaded(Restored(req[w])) : req' = [req EXCEPT ![w] = x]
  BY DEF RestoreLoaded
<1> DEFINE r == Restored(req[w])
<1>3. /\ r \in Departure /\ Kept(r) /\ r.owner = req[w].owner /\ r.rows = req[w].rows
      /\ \A b \in Booking : r.rows[b] # NoRow <=> b \in r.rest \cup r.gone
  <2> PICK q \in Departure : q = req[w]
    BY <1>1
  <2>1. /\ Restored(q) \in Departure /\ Kept(Restored(q)) /\ Restored(q).rows = q.rows
        /\ \A b \in Booking : q.rows[b] # NoRow <=> b \in q.rest \cup q.gone \cup {q.booking}
        /\ Restored(q).owner = q.owner /\ Restored(q).rest = q.rest
        /\ Restored(q).gone = q.gone \cup {q.booking}
    BY <1>1, RestoredIsDeparture
  <2> QED
    BY <2>1
<1> HIDE DEF r
<1>4. /\ x \in Departure /\ x.op = "leave" /\ x.step \in {"row", "delete"}
      /\ ~Astray(x) /\ x.owner = r.owner /\ x.rows = r.rows
      /\ x.gone = r.gone /\ x.wrote = r.wrote /\ x.draft = r.draft
      /\ AtBooking(x) => x.loaded = FALSE
  BY <1>2, <1>3, OnwardIsDeparture DEF r
<1> QED
  BY <1>1, <1>2, <1>3, <1>4 DEF r

LEMMA RestoringKeepsSound ==
  ASSUME Sound, NEW w \in Worker, RestoreLoaded(w)
  PROVE  Sound'
<1>1. PICK x : /\ req' = [req EXCEPT ![w] = x] /\ x \in Departure /\ x.op = "leave"
               /\ x.step \in {"row", "delete"} /\ ~Astray(x)
  BY RestoringGoesOn
<1>2. /\ TablesKeep /\ jobs' \subseteq Booking
      /\ raced' \subseteq SUBSET Booking /\ disturbed' \subseteq Facility
  BY UnchangedTables DEF RestoreLoaded, Sound, TypeOK, history
<1>3. ~Keyed(x) /\ ~Deleting(x)
  BY <1>1 DEF Keyed, Deleting
<1> QED
  BY <1>1, <1>2, <1>3, StepKeepsSound

(* What the commit of the destruction does to the tables. *)
LEMMA ClosingRows ==
  ASSUME Sound, NEW w \in Worker, NEW r, r = req[w], CommitLeave(w),
         ~UNCHANGED <<facilities, bookings, accounts>>
  PROVE  /\ r \in Departure /\ Strays(r) = {} /\ accounts' = accounts \ {r.owner}
         /\ facilities' \in [Facility -> FacilityRow \cup {NoRow}]
         /\ \A f \in Facility :
              /\ FacilityExists(f)' = FacilityExists(f)
              /\ FacilityExists(f) /\ f \in r.wrote => Offered(f)' = r.draft[f]
              /\ f \notin r.wrote => facilities'[f] = facilities[f]
         /\ bookings' \in [Booking -> BookingRow \cup {NoRow}]
         /\ \A b \in Booking :
              /\ BookingExists(b)' <=> BookingExists(b) /\ b \notin r.gone
              /\ BookingExists(b)' => bookings'[b] = bookings[b]
<1>1. r \in Departure
  BY RequestKinds DEF CommitLeave, At, Sound
<1>2. /\ Strays(r) = {} /\ accounts' = accounts \ {r.owner}
      /\ facilities' = [f \in Facility |->
           IF f \in r.wrote /\ FacilityExists(f)
           THEN [facilities[f] EXCEPT !.schedule = r.draft[f]] ELSE facilities[f]]
      /\ bookings' = [b \in Booking |-> IF b \in r.gone THEN NoRow ELSE bookings[b]]
  BY DEF CommitLeave
<1>3. /\ facilities \in [Facility -> FacilityRow \cup {NoRow}]
      /\ bookings \in [Booking -> BookingRow \cup {NoRow}]
  BY DEF Sound, TypeOK, StoreTypeOK
<1>4. ASSUME NEW f \in Facility, f \in r.wrote, FacilityExists(f)
      PROVE  /\ facilities'[f] \in FacilityRow /\ Offered(f)' = r.draft[f]
             /\ facilities'[f].condo = facilities[f].condo
  <2>1. facilities[f] \in FacilityRow /\ r.draft[f] \in SUBSET Slot
    BY <1>1, <1>3, <1>4, DepartureFields DEF FacilityExists
  <2>2. facilities'[f] = [facilities[f] EXCEPT !.schedule = r.draft[f]]
    BY <1>2, <1>4
  <2> QED
    BY <2>1, <2>2 DEF FacilityRow, Offered
<1>5. ASSUME NEW f \in Facility, ~(f \in r.wrote /\ FacilityExists(f))
      PROVE  facilities'[f] = facilities[f]
  BY <1>2, <1>5
<1>6. facilities' \in [Facility -> FacilityRow \cup {NoRow}]
  <2>1. \A f \in Facility : facilities'[f] \in FacilityRow \cup {NoRow}
    BY <1>3, <1>4, <1>5
  <2> DEFINE New(f) == IF f \in r.wrote /\ FacilityExists(f)
                       THEN [facilities[f] EXCEPT !.schedule = r.draft[f]] ELSE facilities[f]
  <2>2. facilities' = [f \in Facility |-> New(f)]
    BY <1>2
  <2> HIDE DEF New
  <2> QED
    BY <2>1, <2>2
<1>7. \A f \in Facility : FacilityExists(f)' = FacilityExists(f)
  BY <1>4, <1>5, NoRowIsNone DEF FacilityExists
<1> QED
  BY <1>1, <1>2, <1>3, <1>4, <1>5, <1>6, <1>7 DEF BookingExists

(* The user goes only when none of the bookings is left and nobody has the  *)
(* key.                                                                     *)
LEMMA ClosingKeepsSound ==
  ASSUME Sound, NEW w \in Worker, CommitLeave(w)
  PROVE  Sound'
<1> DEFINE r == req[w]
<1>1. /\ Busy(w) /\ r \in Departure /\ Deleting(r) /\ r.op = "leave"
      /\ Finish(w) /\ jobs' \subseteq Booking
      /\ raced' \subseteq SUBSET Booking /\ disturbed' \subseteq Facility
  BY RequestKinds DEF CommitLeave, At, Sound, TypeOK, history, Deleting, Busy
<1> HIDE DEF r
<1>2. CASE UNCHANGED <<facilities, bookings, accounts>>
  BY <1>1, <1>2, UnchangedTables, FinishKeepsSound
<1>3. CASE ~UNCHANGED <<facilities, bookings, accounts>>
  <2>1. /\ Strays(r) = {} /\ accounts' = accounts \ {r.owner}
        /\ facilities' \in [Facility -> FacilityRow \cup {NoRow}]
        /\ bookings' \in [Booking -> BookingRow \cup {NoRow}]
        /\ \A f \in Facility : FacilityExists(f) => FacilityExists(f)'
        /\ \A b \in Booking : BookingExists(b)' =>
             BookingExists(b) /\ b \notin r.gone /\ bookings'[b] = bookings[b]
    <3>1. r = req[w]
      BY DEF r
    <3> QED
      BY <1>3, <3>1, ClosingRows
  <2>2. TypeOK' /\ RowsAreAtHand'
    BY <1>1, <2>1 DEF Sound, TypeOK, StoreTypeOK, Finish, RowsAreAtHand, Astray
  <2>3. NoBookingIsLeftBehind'
    <3> SUFFICES ASSUME NEW b \in Booking, BookingExists(b)'
                 PROVE  FacilityExists(bookings[b].facility)' /\ bookings'[b].owner \in accounts'
      BY DEF NoBookingIsLeftBehind
    <3>1. /\ bookings[b].facility \in Facility /\ FacilityExists(bookings[b].facility)
          /\ BookingExists(b) /\ b \notin r.gone /\ bookings'[b] = bookings[b]
          /\ bookings[b].owner \in accounts
      BY <2>1, BookingFields
    <3>2. bookings[b].owner # r.owner
      BY <1>1, <2>1, <3>1 DEF Strays
    <3> QED
      BY <2>1, <3>1, <3>2 DEF FacilityExists
  <2>4. \A v \in Worker : Keyed(req'[v]) \/ Deleting(req'[v]) => req'[v] = req[v]
    BY <1>1 DEF Sound, TypeOK, Finish, Keyed, Deleting
  <2>5. KeysAreKept'
    <3> SUFFICES ASSUME NEW v \in Worker, Keyed(req'[v])
                 PROVE  /\ FacilityExists(req[v].facility)' /\ req'[v].owner \in accounts'
                        /\ \A y \in Worker : Deleting(req'[y]) => Spares(req'[y], req'[v])
      BY DEF KeysAreKept, Keyed, Deleting, Spares
    <3>1. /\ req'[v] = req[v] /\ Keyed(req[v])
          /\ FacilityExists(req[v].facility) /\ req[v].owner \in accounts
      BY <2>4 DEF Sound, KeysAreKept
    <3>2. req[v].owner # r.owner
      BY <1>1, <3>1 DEF Sound, KeysAreKept, Spares, r
    <3>3. req[v].facility \in Facility
      BY <3>1, RequestKinds DEF Sound, Keyed, Busy
    <3>4. FacilityExists(req[v].facility)'
      BY <2>1, <3>1, <3>3 DEF FacilityExists
    <3> QED
      BY <2>1, <2>4, <3>1, <3>2, <3>4 DEF Sound, KeysAreKept
  <2> QED
    BY <2>2, <2>3, <2>5 DEF Sound
<1> QED
  BY <1>2, <1>3
-----------------------------------------------------------------------------
(* After the commit, and what happens beside the requests *)

LEMMA FollowingUpKeepsSound ==
  ASSUME Sound, NEW w \in Worker, EnqueueJob(w) \/ CreateNotification(w)
  PROVE  Sound'
<1>1. Busy(w) /\ req[w] \in Request
  BY RequestKinds DEF EnqueueJob, CreateNotification, At, Sound
<1>2. /\ jobs' \subseteq Booking /\ raced' \subseteq SUBSET Booking
      /\ disturbed' \subseteq Facility /\ UNCHANGED history
  BY <1>1, RequestFields DEF EnqueueJob, CreateNotification, Sound, TypeOK, history
<1>3. CASE EnqueueJob(w)
  <2>1. TablesKeep /\ Advance(w, "notify")
    BY <1>3, UnchangedTables DEF EnqueueJob
  <2> QED
    BY <1>1, <1>2, <2>1, AdvanceKeepsSound
<1>4. CASE CreateNotification(w)
  <2>1. /\ bookings' \in [Booking -> BookingRow \cup {NoRow}]
        /\ \A b \in Booking : BookingExists(b)' =>
             /\ BookingExists(b) /\ bookings'[b].facility = bookings[b].facility
             /\ bookings'[b].owner = bookings[b].owner
    BY <1>1, <1>4, WrittenBookings DEF CreateNotification
  <2>2. TablesKeep /\ Finish(w)
    BY <1>4, <2>1
    DEF TablesKeep, CreateNotification, Sound, TypeOK, StoreTypeOK, FacilityExists
  <2> QED
    BY <1>2, <2>2, FinishKeepsSound
<1> QED
  BY <1>3, <1>4

LEMMA StoppingKeepsSound ==
  ASSUME Sound, NEW w \in Worker, Abort(w) \/ Crash(w)
  PROVE  Sound'
<1>1. TablesKeep /\ Finish(w) /\ jobs' \subseteq Booking /\ raced' \subseteq SUBSET Booking
  BY UnchangedTables DEF Abort, Crash, Sound, TypeOK, history
<1>2. disturbed' \subseteq Facility
  <2>1. Busy(w) /\ ~Uncommitted(w) => req[w].facility \in Facility
    BY RequestKinds, RequestFields DEF Uncommitted, Sound
  <2> QED
    BY <2>1 DEF Abort, Crash, Sound, TypeOK, history
<1> QED
  BY <1>1, <1>2, FinishKeepsSound

LEMMA ConflictJobKeepsSound ==
  ASSUME Sound, NEW b \in Booking, RunConflictJob(b)
  PROVE  Sound'
<1>1. /\ TablesKeep /\ jobs' \subseteq Booking /\ UNCHANGED req
      /\ raced' \subseteq SUBSET Booking /\ disturbed' \subseteq Facility
  BY UnchangedTables DEF RunConflictJob, Sound, TypeOK, history
<1> QED
  BY <1>1, TablesKeepSound

LEMMA OpeningKeepsSound ==
  ASSUME Sound, NEW w \in Worker, NEW u \in User, OpenAccount(w, u)
  PROVE  Sound'
<1>1. /\ TablesKeep /\ jobs' \subseteq Booking /\ UNCHANGED req
      /\ raced' \subseteq SUBSET Booking /\ disturbed' \subseteq Facility
  BY DEF OpenAccount, Sound, TypeOK, StoreTypeOK, TablesKeep, FacilityExists, BookingExists,
         history
<1> QED
  BY <1>1, TablesKeepSound

LEMMA FacilityFormsKeepSound ==
  ASSUME Sound, NEW w \in Worker, FacilityForm(w)
  PROVE  Sound'
<1> PICK u \in accounts, f \in Facility, ss \in SUBSET Slot :
      (\E c \in Condo : CreateFacility(w, u, f, c, ss)) \/ SaveSchedule(w, u, f, ss)
  BY DEF FacilityForm
<1>1. PICK row \in FacilityRow : facilities' = [facilities EXCEPT ![f] = row]
  <2>1. CASE \E c \in Condo : CreateFacility(w, u, f, c, ss)
    <3> PICK c \in Condo : CreateFacility(w, u, f, c, ss)
      BY <2>1
    <3>1. [condo |-> c, schedule |-> ss] \in FacilityRow
      BY DEF FacilityRow
    <3> QED
      BY <3>1 DEF CreateFacility
  <2>2. CASE SaveSchedule(w, u, f, ss)
    <3>1. facilities[f] \in FacilityRow
      BY <2>2 DEF SaveSchedule, FacilityExists, Sound, TypeOK, StoreTypeOK
    <3>2. [facilities[f] EXCEPT !.schedule = ss] \in FacilityRow
      BY <3>1 DEF FacilityRow
    <3> QED
      BY <2>2, <3>2 DEF SaveSchedule
  <2> QED
    BY <2>1, <2>2
<1>2. /\ UNCHANGED <<bookings, accounts, req>> /\ jobs' \subseteq Booking
      /\ raced' \subseteq SUBSET Booking /\ disturbed' \subseteq Facility
  BY DEF CreateFacility, SaveSchedule, Disturb, Sound, TypeOK
<1>3. TablesKeep
  BY <1>1, <1>2, NoRowIsNone
  DEF TablesKeep, Sound, TypeOK, StoreTypeOK, FacilityExists, BookingExists
<1> QED
  BY <1>2, <1>3, TablesKeepSound
-----------------------------------------------------------------------------
LEMMA InitIsSound ==
  ASSUME Init
  PROVE  Sound
<1>1. TypeOK
  BY DEF Init, TypeOK, StoreTypeOK
<1>2. NoBookingIsLeftBehind
  BY DEF Init, NoBookingIsLeftBehind, BookingExists
<1>3. RowsAreAtHand /\ KeysAreKept
  BY DEF Init, RowsAreAtHand, KeysAreKept, Keyed, Astray
<1> QED
  BY <1>1, <1>2, <1>3 DEF Sound

LEMMA NextKeepsSound ==
  ASSUME Sound, [Next]_vars
  PROVE  Sound'
<1>1. CASE UNCHANGED vars
  BY <1>1, UnchangedTables, TablesKeepSound DEF vars, history, Sound, TypeOK
<1>2. ASSUME NEW w \in Worker, Step(w)
      PROVE  Sound'
  BY <1>2, CheckingKeepsSound, InsertingKeepsSound, WritingKeepsSound, LoadingKeepsSound,
     CreatingKeepsSound, CommittingKeepsSound, CascadingKeepsSound, DeletingKeepsSound,
     RazingKeepsSound, RestoringKeepsSound, ClosingKeepsSound, RefusingKeepsSound,
     FollowingUpKeepsSound
  DEF Step
<1>3. ASSUME NEW w \in Worker, Start(w) \/ Abort(w) \/ Crash(w) \/ FacilityForm(w)
      PROVE  Sound'
  BY <1>3, StartingKeepsSound, StoppingKeepsSound, FacilityFormsKeepSound
<1>4. ASSUME NEW b \in Booking, RunConflictJob(b)
      PROVE  Sound'
  BY <1>4, ConflictJobKeepsSound
<1>5. ASSUME NEW w \in Worker, NEW u \in User, OpenAccount(w, u)
      PROVE  Sound'
  BY <1>5, OpeningKeepsSound
<1> QED
  BY <1>1, <1>2, <1>3, <1>4, <1>5 DEF Next

LEMMA Soundness == Spec => []Sound
<1>1. Init => Sound
  BY InitIsSound
<1>2. Sound /\ [Next]_vars => Sound'
  BY NextKeepsSound
<1> QED
  BY <1>1, <1>2, PTL DEF Spec

(* Every row, every request and every job is what the tables and the code   *)
(* allow, whatever is killed or rolled back on the way.                     *)
THEOREM TypeCorrect == Spec => []TypeOK
<1>1. Sound => TypeOK
  BY DEF Sound
<1> QED
  BY <1>1, Soundness, PTL

(* A facility or user destroyed with the bookings (facility.rb:3 and        *)
(* user.rb:16, dependent: :destroy) leaves none behind, however many        *)
(* creations and destructions of bookings overlap with it: the keys that an *)
(* insertion takes are what saves it.                                       *)
THEOREM NothingIsLeftBehind == Spec => []NoBookingIsLeftBehind
<1>1. Sound => NoBookingIsLeftBehind
  BY DEF Sound
<1> QED
  BY <1>1, Soundness, PTL
-----------------------------------------------------------------------------
(* Who waits for whom, where no facility and no user is destroyed: a request*)
(* that waits for a facility waits for one that has all its locks.          *)
LEMMA WaitsGoUp ==
  ASSUME TypeOK, NEW v \in Worker, NEW x \in Worker, Waits(v, x), ~Destroys(v), ~Destroys(x)
  PROVE  /\ req[v].step \in {"row", "schedule"}
         /\ req[x].step \in {"schedule", "commit"}
         /\ req[v].step = "schedule" => req[x].step = "commit"
<1>1. Busy(v) /\ req[v] \in Request
  BY RequestKinds DEF Waits, Destroys, Razing, Leaving
<1>2. req[v].step # "delete" /\ req[v].op \notin {"raze", "leave"}
  BY <1>1 DEF Request
<1>3. CASE req[v].step = "row" /\ HasRowLock(x, req[v].booking)
  BY <1>3 DEF HasRowLock
<1>4. CASE req[v].step = "schedule" /\ HasScheduleLock(x, req[v].facility)
  BY <1>4 DEF HasScheduleLock, Destroys
<1> QED
  BY <1>1, <1>2, <1>3, <1>4 DEF Waits, HasDeleted, HasClosed, Destroys

LEMMA CirclesNeedADestruction == TypeOK => DeadlocksNeedADestruction
<1> SUFFICES ASSUME TypeOK, NEW W \in SUBSET Worker, Cycle(W), \A w \in W : ~Destroys(w)
             PROVE  FALSE
  BY DEF DeadlocksNeedADestruction
<1>1. \A v \in W : \E x \in W : Waits(v, x)
  BY DEF Cycle, Standstill
<1>2. PICK v \in W : TRUE
  BY DEF Cycle, Standstill
<1>3. PICK x \in W : Waits(v, x)
  BY <1>1
<1>4. PICK y \in W : Waits(x, y)
  BY <1>1
<1>5. PICK z \in W : Waits(y, z)
  BY <1>1
<1>6. req[x].step = "schedule" /\ req[y].step = "commit"
  BY <1>3, <1>4, WaitsGoUp
<1> QED
  BY <1>5, <1>6, WaitsGoUp

(* However many requests wait for each other, one of them is the destruction*)
(* of a facility or of a user: the others lock a booking row before its     *)
(* facility, and nothing after it.                                          *)
THEOREM DeadlocksAreDestructions == Spec => []DeadlocksNeedADestruction
<1> QED
  BY TypeCorrect, CirclesNeedADestruction, PTL
-----------------------------------------------------------------------------
(* Reads: what a request holds in memory is what the database has, on every *)
(* facility where requests do not overlap.                                  *)

(* The bookings that v still deals with, and those whose rows it may write, *)
(* which are at the facility it works on or, when a user is destroyed, where*)
(* it found them.                                                           *)
Knows(v, b) ==
  /\ Busy(v)
  /\ \/ req[v].op # "leave" /\ b \in req[v].rest
     \/ req[v].op \notin {"raze", "leave"} /\ req[v].booking = b
     \/ req[v].op = "raze" /\ b \in req[v].gone
     \/ req[v].op = "raze" /\ AtBooking(req[v]) /\ req[v].booking = b
     \/ req[v].op = "leave" /\ b \in Booking /\ req[v].rows[b] # NoRow

About(v, b) ==
  /\ Uncommitted(v) /\ req[v].op # "create" /\ Knows(v, b)
  /\ req[v].op \notin {"raze", "leave"} => req[v].booking = b

(* Is the row of b, as request x knows it, that of the database?            *)
AsKnown(x, b) ==
  IF x.op = "leave"
  THEN /\ bookings[b].facility = x.rows[b].facility
       /\ bookings[b].slots = x.rows[b].slots /\ bookings[b].owner = x.owner
  ELSE bookings[b].facility = x.facility

(* A creation has an id of its own, which nobody else can come across. *)
NewIdsAreOwn ==
  \A w \in Worker : Creating(w) =>
    /\ ~BookingExists(req[w].booking) /\ req[w].rest = {}
    /\ \A v \in Worker : v # w => ~Knows(v, req[w].booking)

OneAtWork ==
  \A f \in Facility, v, w \in Worker :
    v # w /\ WorksOn(v, f) /\ WorksOn(w, f) => f \in disturbed

RowsAreWhereTheyWere ==
  \A w \in Worker, b \in Booking :
    About(w, b) /\ BookingExists(b) => AsKnown(req[w], b)

Order == NewIdsAreOwn /\ OneAtWork /\ RowsAreWhereTheyWere
-----------------------------------------------------------------------------
(* What most steps do: no row appears or moves, and a request comes to know *)
(* nothing new.                                                             *)
RowKeeps(b) ==
  BookingExists(b)' =>
    /\ BookingExists(b) /\ bookings'[b].facility = bookings[b].facility
    /\ bookings'[b].slots = bookings[b].slots /\ bookings'[b].owner = bookings[b].owner

RequestKeeps(w) ==
  Busy(w)' =>
    /\ IF req'[w].op = "leave"
       THEN req[w].op = "leave" /\ Busy(w) /\ req'[w].rows = req[w].rows
       ELSE WorksOn(w, req'[w].facility) /\ ~Leaving(w) /\ req'[w].rest \subseteq req[w].rest
    /\ Creating(w)' => /\ Creating(w) /\ req'[w].booking = req[w].booking
                       /\ req'[w].rest \subseteq req[w].rest
    /\ \A b \in Booking : Knows(w, b)' => Knows(w, b)
    /\ \A b \in Booking : About(w, b)' /\ BookingExists(b) => AsKnown(req'[w], b)

LEMMA RestIsBookings ==
  ASSUME TypeOK, NEW w \in Worker, Busy(w)
  PROVE  req[w].rest \subseteq Booking
<1>1. req[w] \in Request \cup Destruction \cup Departure
  BY RequestKinds
<1> QED
  BY <1>1, RequestFields, DepartureFields DEF Destruction

LEMMA KeepingKeepsWork ==
  ASSUME Sound, \A b \in Booking : RowKeeps(b), NEW w \in Worker, RequestKeeps(w),
         NEW f \in Facility, WorksOn(w, f)'
  PROVE  WorksOn(w, f)
<1>1. Busy(w)'
  BY DEF WorksOn
<1>4. CASE req'[w].op = "leave"
  BY <1>1, <1>4 DEF RequestKeeps, WorksOn, Leaving, Busy
<1>2. CASE req'[w].op # "leave" /\ req'[w].facility = f
  BY <1>1, <1>2 DEF RequestKeeps
<1>3. CASE /\ req'[w].op # "leave"
           /\ \E b \in req'[w].rest : BookingExists(b)' /\ bookings'[b].facility = f
  <2> PICK b \in req'[w].rest : BookingExists(b)' /\ bookings'[b].facility = f
    BY <1>3
  <2>1. b \in req[w].rest /\ Busy(w) /\ ~Leaving(w)
    BY <1>1, <1>3 DEF RequestKeeps, WorksOn
  <2>2. b \in Booking
    BY <2>1, RestIsBookings DEF Sound
  <2> QED
    BY <2>1, <2>2 DEF RowKeeps, WorksOn
<1> QED
  BY <1>2, <1>3, <1>4 DEF WorksOn, Leaving

LEMMA KeepingKeepsOrder ==
  ASSUME Sound, Order, \A b \in Booking : RowKeeps(b), \A w \in Worker : RequestKeeps(w),
         disturbed \subseteq disturbed'
  PROVE  Order'
<1> USE DEF Order
<1>1. NewIdsAreOwn'
  <2> SUFFICES ASSUME NEW w \in Worker, Creating(w)'
               PROVE  /\ ~BookingExists(req[w].booking)' /\ req'[w].rest = {}
                      /\ \A v \in Worker : v # w => ~Knows(v, req[w].booking)'
    BY DEF NewIdsAreOwn
  <2>1. Creating(w) /\ req'[w].booking = req[w].booking /\ req'[w].rest \subseteq req[w].rest
    BY DEF RequestKeeps, Creating, Uncommitted
  <2>2. req[w].booking \in Booking
    BY <2>1, RequestKinds, RequestFields DEF Creating, Uncommitted, Sound
  <2>3. ~BookingExists(req[w].booking)'
    BY <2>1, <2>2 DEF NewIdsAreOwn, RowKeeps, BookingExists
  <2>4. \A v \in Worker : v # w => ~Knows(v, req[w].booking)'
    <3> SUFFICES ASSUME NEW v \in Worker, v # w, Knows(v, req[w].booking)'
                 PROVE  FALSE
      OBVIOUS
    <3> PICK n \in Booking : n = req[w].booking /\ n = req'[w].booking
      BY <2>1, <2>2
    <3>1. Knows(v, n)' /\ Busy(v)'
      BY DEF Knows
    <3>2. Knows(v, n)
      BY <3>1 DEF RequestKeeps
    <3> QED
      BY <2>1, <3>2 DEF NewIdsAreOwn
  <2> QED
    BY <2>1, <2>3, <2>4 DEF NewIdsAreOwn
<1>2. OneAtWork'
  <2>1. \A f \in Facility, w \in Worker : WorksOn(w, f)' => WorksOn(w, f)
    BY KeepingKeepsWork
  <2> QED
    BY <2>1 DEF OneAtWork
<1>3. RowsAreWhereTheyWere'
  <2> SUFFICES ASSUME NEW w \in Worker, NEW b \in Booking, About(w, b)', BookingExists(b)'
               PROVE  AsKnown(req[w], b)'
    BY DEF RowsAreWhereTheyWere
  <2>1. Busy(w)'
    BY DEF About, Knows
  <2>2. BookingExists(b) /\ AsKnown(req'[w], b)
    BY <2>1 DEF RequestKeeps, RowKeeps
  <2> QED
    BY <2>2 DEF RowKeeps, AsKnown
<1> QED
  BY <1>1, <1>2, <1>3

LEMMA UnchangedRequestsKeep ==
  ASSUME Sound, Order, NEW w \in Worker, req'[w] = req[w]
  PROVE  RequestKeeps(w)
<1>1. Busy(w)' = Busy(w) /\ Creating(w)' = Creating(w)
  BY DEF Busy, Creating, Uncommitted
<1>2. \A b \in Booking : Knows(w, b)' = Knows(w, b) /\ About(w, b)' = About(w, b)
  BY <1>1 DEF Knows, About, Uncommitted, Busy, AtBooking
<1>3. \A b \in Booking : About(w, b)' /\ BookingExists(b) => AsKnown(req'[w], b)
  BY <1>2 DEF Order, RowsAreWhereTheyWere
<1> QED
  BY <1>1, <1>2, <1>3 DEF RequestKeeps, WorksOn, Leaving

LEMMA FinishKeeps ==
  ASSUME Sound, Order, NEW w \in Worker, Finish(w)
  PROVE  \A v \in Worker : RequestKeeps(v)
<1>1. ~Busy(w)' /\ \A v \in Worker : v # w => req'[v] = req[v]
  BY DEF Finish, Busy, Sound, TypeOK
<1> QED
  BY <1>1, UnchangedRequestsKeep DEF RequestKeeps

LEMMA UnchangedRowsKeep ==
  ASSUME UNCHANGED bookings
  PROVE  \A b \in Booking : RowKeeps(b)
  BY DEF RowKeeps, BookingExists
-----------------------------------------------------------------------------
(* A request goes on with the same record, but for what it has read and     *)
(* checked and for its step.                                                *)
LEMMA GoingOnKeeps ==
  ASSUME Sound, Order, NEW w \in Worker, Busy(w), NEW x, req' = [req EXCEPT ![w] = x],
         x.op = req[w].op, x.booking = req[w].booking, x.facility = req[w].facility,
         x.rest = req[w].rest, x.op = "raze" => x.gone = req[w].gone,
         x.op = "leave" => x.rows = req[w].rows /\ x.owner = req[w].owner,
         x.step \in {"enqueue", "notify"} \/ req[w].step \notin {"enqueue", "notify"},
         x.op = "raze" /\ AtBooking(x) => AtBooking(req[w])
  PROVE  \A v \in Worker : RequestKeeps(v)
<1>1. req'[w] = x /\ \A v \in Worker : v # w => req'[v] = req[v]
  BY DEF Sound, TypeOK
<1>2. Creating(w)' => Creating(w)
  BY <1>1 DEF Creating, Uncommitted, Busy
<1>3. \A b \in Booking : Knows(w, b)' => Knows(w, b)
  BY <1>1 DEF Knows, AtBooking
<1>4. \A b \in Booking : About(w, b)' => About(w, b)
  BY <1>1, <1>3 DEF About, Uncommitted, Busy
<1>6. \A b \in Booking : About(w, b)' /\ BookingExists(b) => AsKnown(req'[w], b)
  BY <1>1, <1>4 DEF Order, RowsAreWhereTheyWere, AsKnown
<1>5. RequestKeeps(w)
  BY <1>1, <1>2, <1>3, <1>6 DEF RequestKeeps, WorksOn, Leaving
<1> QED
  BY <1>1, <1>5, UnchangedRequestsKeep

LEMMA AdvanceKeeps ==
  ASSUME Sound, Order, NEW w \in Worker, Busy(w), NEW st, Advance(w, st),
         st \in {"enqueue", "notify"} \/ req[w].step \notin {"enqueue", "notify"},
         st \in {"row", "schedule"} => req[w].step \in {"row", "schedule"} \/ req[w].op # "raze"
  PROVE  \A v \in Worker : RequestKeeps(v)
<1> DEFINE x == [req[w] EXCEPT !.step = st]
<1>1. req[w] \in Request \cup Destruction \cup Departure
  BY RequestKinds DEF Sound
<1>2. /\ x.op = req[w].op /\ x.booking = req[w].booking /\ x.facility = req[w].facility
      /\ x.rest = req[w].rest /\ x.step = st
      /\ x.op = "raze" => x.gone = req[w].gone
      /\ x.op = "leave" => x.rows = req[w].rows /\ x.owner = req[w].owner
  <2>1. CASE req[w] \in Request
    BY <2>1 DEF Request
  <2>2. CASE req[w] \in Destruction
    BY <2>2 DEF Destruction
  <2>3. CASE req[w] \in Departure
    BY <2>3 DEF Departure
  <2> QED
    BY <1>1, <2>1, <2>2, <2>3
<1>3. req' = [req EXCEPT ![w] = x]
  BY DEF Advance
<1> HIDE DEF x
<1> QED
  BY <1>2, <1>3, GoingOnKeeps DEF AtBooking

(* The first statements of a request, and those that end in one. *)
LEMMA StatementsKeep ==
  ASSUME Sound, Order, NEW w \in Worker,
         \/ \E s \in Slot : CheckSlot(w, s)
         \/ InsertRow(w) \/ RefuseDay(w) \/ WriteRow(w) \/ LoadFacility(w) \/ WriteSchedule(w)
         \/ DeleteParent(w) \/ EnqueueJob(w)
  PROVE  \A v \in Worker : RequestKeeps(v)
<1>1. Busy(w) /\ req[w] \in Request \cup Destruction \cup Departure
  BY RequestKinds
  DEF CheckSlot, InsertRow, RefuseDay, WriteRow, LoadFacility, WriteSchedule, DeleteParent,
      EnqueueJob, At, Sound
<1>2. CASE Finish(w)
  BY <1>2, FinishKeeps
<1>3. CASE InsertRow(w) /\ Advance(w, "schedule")
  <2>1. req[w].step = "check" /\ req[w].op # "raze"
    BY <1>1, <1>3, RequestKinds, RequestFields DEF InsertRow, At, Sound
  <2> QED
    BY <1>1, <1>3, <2>1, AdvanceKeeps
<1>4. CASE WriteRow(w)
  <2>1. req[w].step = "row" /\ Advance(w, IF WritesSchedule(req[w]) THEN "schedule" ELSE "commit")
    BY <1>4 DEF WriteRow, At
  <2> QED
    BY <1>1, <2>1, AdvanceKeeps
<1>5. CASE WriteSchedule(w) \/ DeleteParent(w) \/ EnqueueJob(w)
  BY <1>1, <1>5, AdvanceKeeps DEF WriteSchedule, DeleteParent, EnqueueJob, At
<1>6. ASSUME NEW s \in Slot, At(w, "check"), req' = [req EXCEPT ![w].todo = @ \ {s}]
      PROVE  \A v \in Worker : RequestKeeps(v)
  <2> DEFINE x == [req[w] EXCEPT !.todo = @ \ {s}]
  <2>1. req[w] \in Request
    BY <1>1, <1>6 DEF At, Destruction, Departure
  <2>2. /\ x.op = req[w].op /\ x.booking = req[w].booking /\ x.facility = req[w].facility
        /\ x.rest = req[w].rest /\ x.step = "check" /\ req[w].step = "check"
        /\ x.op \notin {"raze", "leave"}
    BY <1>6, <2>1 DEF At, Request
  <2>3. req' = [req EXCEPT ![w] = x]
    BY <1>6
  <2> HIDE DEF x
  <2> QED
    BY <1>1, <2>2, <2>3, GoingOnKeeps
<1>7. CASE /\ LoadFacility(w)
           /\ req' = [req EXCEPT ![w].loaded = TRUE, ![w].snap = Seen(req[w])]
  <2> DEFINE x == [req[w] EXCEPT !.loaded = TRUE, !.snap = Seen(req[w])]
  <2>1. req[w] \in Request \cup Departure /\ req[w].step = "schedule"
    BY <1>1, <1>7 DEF LoadFacility, FacilityAtHand, At, Destruction
  <2>2. /\ x.op = req[w].op /\ x.booking = req[w].booking /\ x.facility = req[w].facility
        /\ x.rest = req[w].rest /\ x.step = "schedule" /\ x.op # "raze"
        /\ x.op = "leave" => x.rows = req[w].rows /\ x.owner = req[w].owner
    <3>1. CASE req[w] \in Request
      BY <2>1, <3>1 DEF Request
    <3>2. CASE req[w] \in Departure
      BY <2>1, <3>2 DEF Departure
    <3> QED
      BY <2>1, <3>1, <3>2
  <2>3. req' = [req EXCEPT ![w] = x]
    BY <1>7 DEF Sound, TypeOK
  <2> HIDE DEF x
  <2> QED
    BY <1>1, <2>1, <2>2, <2>3, GoingOnKeeps
<1> QED
  BY <1>2, <1>3, <1>4, <1>5, <1>6, <1>7 DEF CheckSlot, InsertRow, RefuseDay, LoadFacility

(* The expiration job goes on with a row that it loaded, where it is now,   *)
(* and a destruction with one of the bookings it loaded.                    *)
LEMMA ExpiringKeeps ==
  ASSUME Sound, Order, NEW w \in Worker, Busy(w), req[w] \in Request,
         req[w].op = "expire", req[w].step = "commit",
         NEW c \in req[w].rest, req' = [req EXCEPT ![w] = NextExpired(req[w], c)]
  PROVE  \A v \in Worker : RequestKeeps(v)
<1> DEFINE g == IF BookingExists(c) THEN bookings[c].facility ELSE req[w].facility
           x == [req[w] EXCEPT !.step = "row", !.booking = c, !.rest = @ \ {c}, !.facility = g]
<1>1. NextExpired(req[w], c) = x
  BY DEF NextExpired, Request
<1> HIDE DEF g
<1>2. /\ x.op = "expire" /\ x.booking = c /\ x.rest = req[w].rest \ {c} /\ x.facility = g
  BY DEF Request
<1> HIDE DEF x
<1>3. req'[w] = x /\ \A v \in Worker : v # w => req'[v] = req[v]
  BY <1>1 DEF Sound, TypeOK
<1>4. ~Creating(w)'
  BY <1>2, <1>3 DEF Creating
<1>5. \A b \in Booking : Knows(w, b)' => Knows(w, b)
  BY <1>2, <1>3 DEF Knows
<1>6. \A b \in Booking : About(w, b)' => b = c
  BY <1>2, <1>3 DEF About
<1>7. WorksOn(w, g) /\ ~Leaving(w)
  BY DEF WorksOn, Leaving, g
<1>8. RequestKeeps(w)
  BY <1>2, <1>3, <1>4, <1>5, <1>6, <1>7 DEF RequestKeeps, AsKnown, g
<1> QED
  BY <1>3, <1>8, UnchangedRequestsKeep

LEMMA CascadingKeeps ==
  ASSUME Sound, Order, NEW w \in Worker, WriteCascaded(w)
  PROVE  \A v \in Worker : RequestKeeps(v)
<1> DEFINE r == [req[w] EXCEPT !.gone = @ \cup {req[w].booking}]
<1>1. Busy(w) /\ req[w] \in Destruction /\ req[w].step = "schedule"
  BY RequestKinds DEF WriteCascaded, Razing, At, Sound
<1>2. PICK x \in Onward(r) : req' = [req EXCEPT ![w] = x]
  BY DEF WriteCascaded
<1>3. /\ r.op = "raze" /\ r.facility = req[w].facility /\ r.rest = req[w].rest
      /\ r.gone = req[w].gone \cup {req[w].booking}
  BY <1>1 DEF Destruction
<1>4. r \in Destruction
  <2>1. req[w].booking \in Booking
    BY <1>1, NoRequestIsNone DEF Sound, RowsAreAtHand, Astray, AtBooking, Destruction
  <2> QED
    BY <1>1, <2>1 DEF Destruction
<1> HIDE DEF r
<1>5. /\ x.op = "raze" /\ x.facility = r.facility /\ x.rest \subseteq r.rest /\ x.gone = r.gone
      /\ AtBooking(x) => x.booking \in r.rest
  <2>1. CASE r.rest = {}
    BY <1>2, <1>4, <2>1 DEF Onward, Destruction, AtBooking
  <2>2. CASE r.rest # {}
    <3> PICK c \in r.rest : x = [r EXCEPT !.step = "row", !.booking = c, !.rest = @ \ {c}]
      BY <1>2, <2>2 DEF Onward, Goto
    <3> QED
      BY <1>4 DEF Destruction
  <2> QED
    BY <2>1, <2>2
<1>6. req'[w] = x /\ \A v \in Worker : v # w => req'[v] = req[v]
  BY <1>2 DEF Sound, TypeOK
<1>7. \A b \in Booking : Knows(w, b)' => Knows(w, b)
  BY <1>1, <1>3, <1>5, <1>6 DEF Knows, AtBooking, Destruction
<1>8. \A b \in Booking : About(w, b)' => About(w, b)
  BY <1>1, <1>5, <1>6, <1>7 DEF About, Uncommitted, Destruction
<1>10. req[w].op = "raze"
  BY <1>1 DEF Destruction
<1>9. RequestKeeps(w)
  BY <1>1, <1>3, <1>5, <1>6, <1>7, <1>8, <1>10
  DEF RequestKeeps, WorksOn, Leaving, Creating, Order, RowsAreWhereTheyWere, AsKnown
<1> QED
  BY <1>6, <1>9, UnchangedRequestsKeep

LEMMA RestoringKeeps ==
  ASSUME Sound, Order, NEW w \in Worker, RestoreLoaded(w)
  PROVE  \A v \in Worker : RequestKeeps(v)
<1>1. PICK x : /\ req' = [req EXCEPT ![w] = x] /\ x.op = "leave"
               /\ x.step \in {"row", "delete"}
               /\ x.owner = req[w].owner /\ x.rows = req[w].rows
  BY RestoringGoesOn
<1>2. Busy(w) /\ req[w].op = "leave" /\ req[w].step = "schedule"
  BY RestoringGoesOn
<1>3. req'[w] = x /\ \A v \in Worker : v # w => req'[v] = req[v]
  BY <1>1 DEF Sound, TypeOK
<1>4. /\ \A b \in Booking : Knows(w, b)' => Knows(w, b)
      /\ \A b \in Booking : About(w, b)' => About(w, b)
  BY <1>1, <1>2, <1>3 DEF Knows, About, Uncommitted, Busy
<1>5. \A b \in Booking : About(w, b)' /\ BookingExists(b) => AsKnown(req'[w], b)
  BY <1>1, <1>2, <1>3, <1>4 DEF Order, RowsAreWhereTheyWere, AsKnown
<1>6. RequestKeeps(w)
  BY <1>1, <1>2, <1>3, <1>4, <1>5 DEF RequestKeeps, Creating
<1> QED
  BY <1>3, <1>6, UnchangedRequestsKeep
-----------------------------------------------------------------------------
(* A request starts: it knows what exists, or an id that is new to all, and *)
(* disturbs those at work on its facilities.                                *)
LEMMA StartingKeepsOrder ==
  ASSUME Sound, Order, NEW w \in Worker, ~Busy(w), NEW x, req' = [req EXCEPT ![w] = x],
         UNCHANGED bookings, NEW F, Disturb(F),
         \A f \in Facility : WorksOn(w, f)' => f \in F,
         \A v \in Worker : v # w /\ Creating(v) => ~Knows(w, req[v].booking)',
         \A b \in Booking : About(w, b)' => AsKnown(x, b),
         x.op = "create" =>
           /\ ~BookingExists(x.booking) /\ x.rest = {}
           /\ \A v \in Worker : v # w => ~Knows(v, x.booking)
  PROVE  Order'
<1> USE DEF Order
<1>1. req'[w] = x /\ \A v \in Worker : v # w => req'[v] = req[v]
  BY DEF Sound, TypeOK
<1>2. \A v \in Worker : v # w => Creating(v)' = Creating(v) /\ Busy(v)' = Busy(v)
  BY <1>1 DEF Creating, Uncommitted, Busy
<1>3. \A b : BookingExists(b)' = BookingExists(b)
  BY DEF BookingExists
<1>4. \A v \in Worker : \A b : v # w => Knows(v, b)' = Knows(v, b) /\ About(v, b)' = About(v, b)
  BY <1>1, <1>2 DEF Knows, About, Uncommitted, Busy, AtBooking
<1>5. NewIdsAreOwn'
  <2> SUFFICES ASSUME NEW v \in Worker, Creating(v)'
               PROVE  /\ ~BookingExists(req[v].booking)' /\ req'[v].rest = {}
                      /\ \A y \in Worker : y # v => ~Knows(y, req[v].booking)'
    BY DEF NewIdsAreOwn
  <2>1. CASE v = w
    <3>1. x.op = "create"
      BY <1>1, <2>1 DEF Creating
    <3>2. \A y \in Worker : y # w => ~Knows(y, req[w].booking)'
      <4> SUFFICES ASSUME NEW y \in Worker, y # w, Knows(y, req[w].booking)'
                   PROVE  FALSE
        OBVIOUS
      <4>1. Knows(y, x.booking)
        BY <1>1, <1>2, <2>1 DEF Knows, AtBooking
      <4> QED
        BY <3>1, <4>1
    <3> QED
      BY <1>1, <2>1, <3>1, <3>2 DEF BookingExists
  <2>2. CASE v # w
    <3>1. Creating(v) /\ req'[v] = req[v]
      BY <1>1, <1>2, <2>2
    <3>2. \A y \in Worker : y # v => ~Knows(y, req[v].booking)'
      <4> SUFFICES ASSUME NEW y \in Worker, y # v, Knows(y, req[v].booking)'
                   PROVE  FALSE
        OBVIOUS
      <4>1. y # w
        BY <2>2, <3>1
      <4>2. Knows(y, req[v].booking)
        BY <1>1, <1>2, <3>1, <4>1 DEF Knows, AtBooking
      <4> QED
        BY <3>1, <4>2 DEF NewIdsAreOwn
    <3> QED
      BY <3>1, <3>2 DEF NewIdsAreOwn, BookingExists
  <2> QED
    BY <2>1, <2>2
<1>6. OneAtWork'
  <2>1. \A v \in Worker, f \in Facility : v # w /\ WorksOn(v, f)' => WorksOn(v, f)
    BY <1>1, <1>2, <1>3 DEF WorksOn, Leaving
  <2> QED
    BY <2>1 DEF OneAtWork, Disturb
<1>7. RowsAreWhereTheyWere'
  <2> SUFFICES ASSUME NEW v \in Worker, NEW b \in Booking, About(v, b)', BookingExists(b)'
               PROVE  AsKnown(req[v], b)'
    BY DEF RowsAreWhereTheyWere
  <2>1. CASE v = w
    BY <1>1, <2>1 DEF AsKnown
  <2>2. CASE v # w
    BY <1>1, <1>3, <1>4, <2>2 DEF RowsAreWhereTheyWere, AsKnown
  <2> QED
    BY <2>1, <2>2
<1> QED
  BY <1>5, <1>6, <1>7

LEMMA StartsKeepOrder ==
  ASSUME Sound, Order, NEW w \in Worker, Start(w)
  PROVE  Order'
<1> USE DEF Order
<1>0. \A v \in Worker : Creating(v) => ~BookingExists(req[v].booking)
  BY DEF NewIdsAreOwn
<1>1. CASE \E u \in Customer \cap accounts, b \in Booking, f \in Facility, ss \in Asked :
             StartCreate(w, u, b, f, ss)
  <2> PICK u \in Customer \cap accounts, b \in Booking, f \in Facility, ss \in Asked :
             StartCreate(w, u, b, f, ss)
    BY <1>1
  <2> DEFINE x == [op |-> "create", step |-> "check", owner |-> u, booking |-> b,
                   facility |-> f, slots |-> ss, was |-> "pending", to |-> "pending",
                   todo |-> ss, loaded |-> TRUE, snap |-> Offered(f), rest |-> {}]
  <2>1. /\ ~Busy(w) /\ req' = [req EXCEPT ![w] = x] /\ UNCHANGED bookings /\ Disturb({f})
        /\ \A v \in Worker : ~Concerns(v, b)
        /\ ~BookingExists(b)
    BY DEF StartCreate
  <2>2. x.op = "create" /\ x.booking = b /\ x.rest = {} /\ x.facility = f
    OBVIOUS
  <2> HIDE DEF x
  <2>3. req'[w] = x
    BY <2>1 DEF Sound, TypeOK
  <2>4. \A v \in Worker : ~Knows(v, b) /\ (Creating(v) => req[v].booking # b)
    <3> SUFFICES ASSUME NEW v \in Worker
                 PROVE  ~Knows(v, b) /\ (Creating(v) => req[v].booking # b)
      OBVIOUS
    <3>1. CASE Busy(v) /\ req[v].op = "leave"
      <4>1. req[v] \in Departure /\ ~Astray(req[v])
        BY <3>1, RequestKinds DEF Sound, RowsAreAtHand
      <4>2. Packed(req[v]) /\ b \notin InHand(req[v])
        BY <2>1, <3>1, <4>1, NoRequestIsNone
        DEF Astray, InHand, Concerns, Destroys, Leaving
      <4> QED
        BY <3>1, <4>2 DEF Packed, Knows, Creating
    <3>2. CASE ~(Busy(v) /\ req[v].op = "leave")
      BY <2>1, <3>2 DEF Knows, Concerns, Creating, Uncommitted, Destroys, Razing
    <3> QED
      BY <3>1, <3>2
  <2>5. \A v \in Worker : Creating(v) => ~Knows(w, req[v].booking)'
    <3> SUFFICES ASSUME NEW v \in Worker, Creating(v), Knows(w, req[v].booking)'
                 PROVE  FALSE
      OBVIOUS
    <3>1. v # w /\ req'[v] = req[v]
      BY <2>1 DEF Creating, Uncommitted, Sound, TypeOK
    <3> QED
      BY <2>2, <2>3, <2>4, <3>1 DEF Knows
  <2>6. /\ \A g \in Facility : WorksOn(w, g)' => g \in {f}
        /\ \A c \in Booking : ~About(w, c)'
    BY <2>2, <2>3 DEF WorksOn, Leaving, About
  <2> QED
    BY <2>1, <2>2, <2>4, <2>5, <2>6, StartingKeepsOrder
<1>2. ASSUME NEW b \in Booking, BookingExists(b), NEW u \in User, NEW st \in BookingStatus,
             NEW op \in {"update", "destroy"}, req' = [req EXCEPT ![w] = Loaded(op, b, u, st)],
             ~Busy(w), UNCHANGED bookings, Disturb({bookings[b].facility})
      PROVE  Order'
  <2> DEFINE x == Loaded(op, b, u, st)
  <2>1. x.op = op /\ x.booking = b /\ x.rest = {} /\ x.facility = bookings[b].facility
    BY DEF Loaded
  <2> HIDE DEF x
  <2>2. req' = [req EXCEPT ![w] = x] /\ req'[w] = x
    BY <1>2 DEF x, Sound, TypeOK
  <2>3. /\ \A f \in Facility : WorksOn(w, f)' => f \in {bookings[b].facility}
        /\ \A c \in Booking : About(w, c)' => c = b
    BY <2>1, <2>2 DEF WorksOn, Leaving, About, Knows
  <2>4. \A v \in Worker : v # w /\ Creating(v) => ~Knows(w, req[v].booking)'
    <3> SUFFICES ASSUME NEW v \in Worker, v # w, Creating(v), Knows(w, req[v].booking)'
                 PROVE  FALSE
      OBVIOUS
    <3>1. req'[v] = req[v]
      BY <2>2
    <3> QED
      BY <1>0, <1>2, <2>1, <2>2, <3>1 DEF Knows
  <2>5. /\ \A c \in Booking : About(w, c)' => AsKnown(x, c)
        /\ x.op # "create"
    BY <1>2, <2>1, <2>3 DEF AsKnown
  <2> DEFINE F == {bookings[b].facility}
  <2>6. Disturb(F) /\ \A f \in Facility : WorksOn(w, f)' => f \in F
    BY <1>2, <2>3
  <2> HIDE DEF F
  <2> QED
    BY ZenonT(30), <1>2, <2>2, <2>4, <2>5, <2>6, StartingKeepsOrder
<1>3. CASE \E u \in accounts, b \in Booking, st \in Sent : StartUpdate(w, u, b, st)
  <2> PICK u \in accounts, b \in Booking, st \in Sent : StartUpdate(w, u, b, st)
    BY <1>3
  <2>1. st \in BookingStatus /\ u \in User
    BY TxnAssumption DEF Sound, TypeOK, StoreTypeOK
  <2> QED
    BY <1>2, <2>1 DEF StartUpdate
<1>4. CASE \E u \in accounts, b \in Booking : StartDestroy(w, u, b)
  <2> PICK u \in accounts, b \in Booking : StartDestroy(w, u, b)
    BY <1>4
  <2>1. u \in User
    BY DEF Sound, TypeOK, StoreTypeOK
  <2> QED
    BY <1>2, <2>1, BookingFields DEF StartDestroy
<1>5. CASE \E E \in SUBSET Booking : \E b \in E : StartExpire(w, E, b)
  <2> PICK E \in SUBSET Booking : \E b \in E : StartExpire(w, E, b)
    BY <1>5
  <2> PICK b \in E : StartExpire(w, E, b)
    OBVIOUS
  <2> DEFINE y == Loaded("expire", b, bookings[b].owner, "approved")
             x == [y EXCEPT !.loaded = FALSE, !.snap = {}, !.rest = E \ {b}]
             F == {bookings[c].facility : c \in E}
  <2>1. /\ ~Busy(w) /\ req' = [req EXCEPT ![w] = x] /\ UNCHANGED bookings /\ Disturb(F)
        /\ \A c \in E : BookingExists(c)
    BY DEF StartExpire, Pending
  <2>2. /\ x.op = "expire" /\ x.booking = b /\ x.rest = E \ {b}
        /\ x.facility = bookings[b].facility
    BY DEF Loaded
  <2> HIDE DEF y, x
  <2>3. req'[w] = x
    BY <2>1 DEF Sound, TypeOK
  <2>4. /\ \A f \in Facility : WorksOn(w, f)' => f \in F
        /\ \A c \in Booking : About(w, c)' => c = b
    BY <2>1, <2>2, <2>3 DEF WorksOn, Leaving, About, Knows
  <2>5. \A v \in Worker : v # w /\ Creating(v) => ~Knows(w, req[v].booking)'
    <3> SUFFICES ASSUME NEW v \in Worker, v # w, Creating(v), Knows(w, req[v].booking)'
                 PROVE  FALSE
      OBVIOUS
    <3>1. req'[v] = req[v]
      BY <2>1
    <3> QED
      BY <1>0, <2>1, <2>2, <2>3, <3>1 DEF Knows
  <2>6. \A c \in Booking : About(w, c)' => AsKnown(x, c)
    BY <2>2, <2>4 DEF AsKnown
  <2> HIDE DEF F
  <2> QED
    BY <2>1, <2>2, <2>4, <2>5, <2>6, StartingKeepsOrder
<1>6. CASE \E u \in accounts, f \in Facility : StartRaze(w, u, f)
  <2> PICK u \in accounts, f \in Facility : StartRaze(w, u, f)
    BY <1>6
  <2> DEFINE R == {b \in Booking : BookingExists(b) /\ bookings[b].facility = f}
             r == [op |-> "raze", step |-> "row", facility |-> f, booking |-> NoRow,
                   rest |-> R, gone |-> {}]
  <2>1. PICK x \in Onward(r) : req' = [req EXCEPT ![w] = x]
    BY DEF StartRaze
  <2>2. ~Busy(w) /\ UNCHANGED bookings /\ Disturb({f})
    BY DEF StartRaze
  <2>3. /\ x.op = "raze" /\ x.facility = f /\ x.rest \subseteq R /\ x.gone = {}
        /\ AtBooking(x) => x.booking \in R
    <3>1. CASE R = {}
      BY <2>1, <3>1 DEF Onward, AtBooking
    <3>2. CASE R # {}
      <4> PICK c \in R : x = [r EXCEPT !.step = "row", !.booking = c, !.rest = @ \ {c}]
        BY <2>1, <3>2 DEF Onward, Goto
      <4> QED
        OBVIOUS
    <3> QED
      BY <3>1, <3>2
  <2>4. req'[w] = x
    BY <2>1 DEF Sound, TypeOK
  <2>5. \A c : Knows(w, c)' => c \in R
    BY <2>3, <2>4 DEF Knows, AtBooking
  <2>6. /\ \A g \in Facility : WorksOn(w, g)' => g \in {f}
        /\ \A c \in Booking : About(w, c)' => AsKnown(x, c)
    <3>1. \A c \in Booking : BookingExists(c)' = BookingExists(c)
      BY <2>2 DEF BookingExists
    <3> QED
      BY <2>2, <2>3, <2>4, <2>5, <3>1 DEF WorksOn, Leaving, About, AsKnown
  <2>7. \A v \in Worker : v # w /\ Creating(v) => ~Knows(w, req[v].booking)'
    <3> SUFFICES ASSUME NEW v \in Worker, v # w, Creating(v), Knows(w, req[v].booking)'
                 PROVE  FALSE
      OBVIOUS
    <3>1. req'[v] = req[v]
      BY <2>1
    <3>2. PICK n : n = req[v].booking /\ n = req'[v].booking
      BY <3>1
    <3> QED
      BY <1>0, <2>5, <3>1, <3>2 DEF Knows
  <2> QED
    BY <2>1, <2>2, <2>3, <2>6, <2>7, StartingKeepsOrder
<1>7. CASE \E a \in accounts, u \in User : StartLeave(w, a, u)
  <2> PICK a \in accounts, u \in User : StartLeave(w, a, u)
    BY <1>7
  <2> DEFINE F == {bookings[b].facility : b \in BookingsOf(u)}
  <2>1. PICK x \in OnwardLoaded(Departing(u)) : req' = [req EXCEPT ![w] = x]
    BY DEF StartLeave, Departing
  <2>2. ~Busy(w) /\ UNCHANGED bookings /\ Disturb(F)
    BY DEF StartLeave
  <2>3. /\ x.op = "leave" /\ x.owner = u
        /\ \A c \in Booking : x.rows[c] # NoRow => c \in BookingsOf(u)
        /\ \A c \in Booking : c \in BookingsOf(u) => x.rows[c] = bookings[c]
    <3>1. /\ x.op = "leave" /\ x.owner = u
          /\ x.rows = [b \in Booking |-> IF b \in BookingsOf(u) THEN bookings[b] ELSE NoRow]
      BY DepartingIsDeparture
    <3> QED
      BY <3>1
  <2>4. req'[w] = x
    BY <2>1 DEF Sound, TypeOK
  <2>5. \A c : Knows(w, c)' => c \in Booking /\ c \in BookingsOf(u)
    BY <2>3, <2>4 DEF Knows
  <2>6. \A c \in BookingsOf(u) : BookingExists(c) /\ bookings[c].owner = u
    BY DEF BookingsOf
  <2>7. \A c \in Booking : About(w, c)' => AsKnown(x, c)
    BY <2>3, <2>4, <2>5, <2>6 DEF About, AsKnown
  <2>8. \A g \in Facility : WorksOn(w, g)' => g \in F
    BY <2>3, <2>4 DEF WorksOn, Leaving, Busy
  <2>9. \A v \in Worker : v # w /\ Creating(v) => ~Knows(w, req[v].booking)'
    <3> SUFFICES ASSUME NEW v \in Worker, v # w, Creating(v), Knows(w, req[v].booking)'
                 PROVE  FALSE
      OBVIOUS
    <3>1. req'[v] = req[v]
      BY <2>1
    <3>2. PICK n : n = req[v].booking /\ n = req'[v].booking
      BY <3>1
    <3> QED
      BY <1>0, <2>5, <2>6, <3>2 DEF Knows
  <2> HIDE DEF F
  <2> QED
    BY <2>1, <2>2, <2>3, <2>7, <2>8, <2>9, StartingKeepsOrder
<1> QED
  BY <1>1, <1>3, <1>4, <1>5, <1>6, <1>7 DEF Start

(* A row appears, which only its creation knew of. *)
LEMMA CreatingKeepsOrder ==
  ASSUME Sound, Order, NEW w \in Worker, CommitCreate(w)
  PROVE  Order'
<1> USE DEF Order
<1> PICK n : n = req[w].booking
  OBVIOUS
<1>1. Creating(w) /\ Busy(w) /\ req[w] \in Request /\ n \in Booking
  BY RequestKinds, RequestFields DEF CommitCreate, At, Creating, Uncommitted, Sound
<1>2. \A b \in Booking : b # n => bookings'[b] = bookings[b]
  BY <1>1 DEF CommitCreate, Sound, TypeOK, StoreTypeOK
<1>3. /\ req'[w] = [req[w] EXCEPT !.step = "enqueue"]
      /\ \A v \in Worker : v # w => req'[v] = req[v]
  BY DEF CommitCreate, Advance, Sound, TypeOK
<1>4. /\ req'[w].booking = n /\ req'[w].rest = {} /\ req'[w].op = "create"
      /\ req'[w].facility = req[w].facility /\ req'[w].step = "enqueue"
  BY <1>1, <1>3 DEF Request, NewIdsAreOwn, CommitCreate
<1>5. \A v \in Worker : v # w => Creating(v)' = Creating(v) /\ Busy(v)' = Busy(v)
  BY <1>3 DEF Creating, Uncommitted, Busy
<1>6. ~Creating(w)' /\ ~Uncommitted(w)'
  BY <1>4 DEF Creating, Uncommitted
<1>7. \A v \in Worker : v # w => ~Knows(v, n)
  BY <1>1 DEF NewIdsAreOwn
<1>8. \A v \in Worker : \A b : Knows(v, b)' => Knows(v, b)
  <2> SUFFICES ASSUME NEW v \in Worker, NEW b, Knows(v, b)'
               PROVE  Knows(v, b)
    OBVIOUS
  <2>1. CASE v = w
    <3>1. b = n
      BY <1>4, <2>1 DEF Knows
    <3> QED
      BY <1>1, <2>1, <3>1 DEF Knows, Creating
  <2>2. CASE v # w
    BY <1>3, <1>5, <2>2 DEF Knows, AtBooking
  <2> QED
    BY <2>1, <2>2
<1>9. NewIdsAreOwn'
  <2> SUFFICES ASSUME NEW v \in Worker, Creating(v)'
               PROVE  /\ ~BookingExists(req[v].booking)' /\ req'[v].rest = {}
                      /\ \A y \in Worker : y # v => ~Knows(y, req[v].booking)'
    BY DEF NewIdsAreOwn
  <2>1. v # w /\ Creating(v) /\ req'[v] = req[v]
    BY <1>3, <1>5, <1>6
  <2>2. PICK m \in Booking : m = req[v].booking
    BY <2>1, RequestKinds, RequestFields DEF Creating, Uncommitted, Sound
  <2>3. m # n
    BY <1>7, <2>1, <2>2 DEF Knows, Creating, Uncommitted
  <2>4. ~BookingExists(m) /\ ~BookingExists(m)'
    BY <1>2, <2>1, <2>2, <2>3 DEF NewIdsAreOwn, BookingExists
  <2>5. \A y \in Worker : y # v => ~Knows(y, m)'
    BY <1>8, <2>1, <2>2 DEF NewIdsAreOwn
  <2>6. m = req'[v].booking
    BY <2>1, <2>2
  <2>7. \A y \in Worker : y # v => ~Knows(y, req[v].booking)'
    BY <2>5, <2>6 DEF Knows, AtBooking
  <2> QED
    BY <2>1, <2>4, <2>6, <2>7 DEF NewIdsAreOwn, BookingExists
<1>10. OneAtWork'
  <2>1. ASSUME NEW v \in Worker, NEW f \in Facility, WorksOn(v, f)'
        PROVE  WorksOn(v, f)
    <3>1. CASE v = w
      BY <1>1, <1>4, <2>1, <3>1 DEF WorksOn, Leaving, Creating
    <3>2. CASE v # w /\ req[v].op = "leave"
      BY <1>3, <1>5, <2>1, <3>2 DEF WorksOn, Leaving
    <3>3. CASE v # w /\ req[v].op # "leave"
      <4>1. req'[v] = req[v] /\ Busy(v) /\ n \notin req[v].rest
        BY <1>3, <1>5, <1>7, <2>1, <3>3 DEF Knows, WorksOn
      <4>2. \A b \in req[v].rest : b \in Booking
        BY <4>1, RestIsBookings DEF Sound
      <4>3. \A b \in req[v].rest : bookings'[b] = bookings[b]
        BY <1>2, <4>1, <4>2
      <4> QED
        BY <2>1, <3>3, <4>1, <4>3 DEF WorksOn, Leaving, BookingExists
    <3> QED
      BY <3>1, <3>2, <3>3
  <2>2. UNCHANGED disturbed
    BY DEF CommitCreate, history
  <2> QED
    BY <2>1, <2>2 DEF OneAtWork
<1>11. RowsAreWhereTheyWere'
  <2> SUFFICES ASSUME NEW v \in Worker, NEW b \in Booking, About(v, b)', BookingExists(b)'
               PROVE  AsKnown(req[v], b)'
    BY DEF RowsAreWhereTheyWere
  <2>1. v # w
    BY <1>6 DEF About
  <2>2. req'[v] = req[v] /\ About(v, b) /\ b # n
    BY <1>3, <1>5, <1>7, <1>8, <2>1 DEF About, Uncommitted, Busy
  <2> QED
    BY <1>2, <2>2 DEF RowsAreWhereTheyWere, BookingExists, AsKnown
<1> QED
  BY <1>9, <1>10, <1>11

LEMMA CommittingKeepsOrder ==
  ASSUME Sound, Order, NEW w \in Worker,
         \/ CommitUpdate(w) \/ CommitExpire(w) \/ CommitDestroy(w)
         \/ CommitRaze(w) \/ CommitLeave(w) \/ CreateNotification(w)
  PROVE  Order'
<1>1. /\ Busy(w) /\ (req[w] \in Request \/ CommitRaze(w) \/ CommitLeave(w))
      /\ UNCHANGED disturbed
  BY RequestKinds
  DEF CommitUpdate, CommitExpire, CommitDestroy, CommitRaze, CommitLeave, CreateNotification,
      At, Sound, history
<1>2. \A b \in Booking : RowKeeps(b)
  <2>1. CASE CommitUpdate(w) \/ CommitExpire(w) \/ CreateNotification(w)
    BY <1>1, <2>1, WrittenBookings
    DEF CommitUpdate, CommitExpire, CreateNotification, CommitRaze, CommitLeave, RowKeeps, At
  <2>2. CASE CommitDestroy(w)
    <3>1. bookings' = [bookings EXCEPT ![req[w].booking] = NoRow]
      BY <2>2 DEF CommitDestroy
    <3> QED
      BY <3>1 DEF RowKeeps, BookingExists, Sound, TypeOK, StoreTypeOK
  <2>3. CASE CommitRaze(w) \/ CommitLeave(w)
    BY <2>3 DEF CommitRaze, CommitLeave, RowKeeps, BookingExists
  <2> QED
    BY <2>1, <2>2, <2>3
<1>3. \A v \in Worker : RequestKeeps(v)
  <2>1. CASE Finish(w)
    BY <2>1, FinishKeeps
  <2>2. CASE CommitUpdate(w) /\ Advance(w, "notify")
    BY <1>1, <2>2, AdvanceKeeps DEF CommitUpdate, At
  <2>3. CASE CommitExpire(w) /\ req[w].rest # {}
    <3>1. req[w].step = "commit" /\ req[w].op = "expire" /\ req[w] \in Request
      BY <2>3, RequestKinds DEF CommitExpire, At, Sound
    <3>2. PICK c \in req[w].rest : req' = [req EXCEPT ![w] = NextExpired(req[w], c)]
      BY <2>3 DEF CommitExpire
    <3> QED
      BY <1>1, <3>1, <3>2, ExpiringKeeps
  <2> QED
    BY <2>1, <2>2, <2>3
    DEF CommitUpdate, CommitExpire, CommitDestroy, CommitRaze, CommitLeave, CreateNotification
<1> QED
  BY <1>1, <1>2, <1>3, KeepingKeepsOrder

LEMMA OthersKeepOrder ==
  ASSUME Sound, Order,
         \/ \E w \in Worker : Abort(w) \/ Crash(w)
         \/ \E b \in Booking : RunConflictJob(b)
         \/ \E w \in Worker, u \in User : OpenAccount(w, u)
         \/ \E w \in Worker, u \in accounts, f \in Facility, ss \in SUBSET Slot :
               SaveSchedule(w, u, f, ss)
         \/ UNCHANGED vars
  PROVE  Order'
<1>1. UNCHANGED bookings /\ disturbed \subseteq disturbed'
  BY DEF Abort, Crash, RunConflictJob, OpenAccount, SaveSchedule, Disturb, history, vars
<1>2. CASE \E w \in Worker : Finish(w)
  BY <1>1, <1>2, FinishKeeps, UnchangedRowsKeep, KeepingKeepsOrder
<1>3. CASE UNCHANGED req
  BY <1>1, <1>3, UnchangedRequestsKeep, UnchangedRowsKeep, KeepingKeepsOrder
<1> QED
  BY <1>2, <1>3 DEF Abort, Crash, RunConflictJob, OpenAccount, SaveSchedule, vars

(* Nobody is at work on a facility that is new. *)
LEMMA FoundingKeepsOrder ==
  ASSUME Sound, Order,
         NEW w \in Worker, NEW u \in accounts, NEW f \in Facility, NEW c \in Condo,
         NEW ss \in SUBSET Slot, CreateFacility(w, u, f, c, ss)
  PROVE  Order'
<1> USE DEF Order
<1>1. UNCHANGED <<bookings, req>> /\ disturbed' = disturbed \ {f}
      /\ \A v \in Worker : ~WorksOn(v, f)
  BY DEF CreateFacility
<1>2. /\ \A v \in Worker : /\ Creating(v)' = Creating(v) /\ Busy(v)' = Busy(v)
                           /\ Uncommitted(v)' = Uncommitted(v)
      /\ \A b : BookingExists(b)' = BookingExists(b)
  BY <1>1 DEF Creating, Uncommitted, Busy, BookingExists
<1>3. /\ \A v \in Worker : \A b : Knows(v, b)' = Knows(v, b) /\ About(v, b)' = About(v, b)
      /\ \A v \in Worker, g \in Facility : WorksOn(v, g)' = WorksOn(v, g)
  BY <1>1, <1>2 DEF Knows, About, WorksOn, AtBooking, Leaving
<1>4. NewIdsAreOwn'
  BY <1>1 DEF NewIdsAreOwn, Creating, Uncommitted, Busy, BookingExists, Knows, AtBooking
<1>5. OneAtWork'
  BY <1>1, <1>3 DEF OneAtWork
<1>6. RowsAreWhereTheyWere'
  BY <1>1, <1>2, <1>3 DEF RowsAreWhereTheyWere, AsKnown
<1> QED
  BY <1>4, <1>5, <1>6

LEMMA InitIsOrdered ==
  ASSUME Init
  PROVE  Order
<1>1. \A w \in Worker : ~Busy(w)
  BY DEF Init, Busy
<1> QED
  BY <1>1
  DEF Order, NewIdsAreOwn, OneAtWork, RowsAreWhereTheyWere, Creating, Uncommitted, WorksOn, About

LEMMA NextKeepsOrder ==
  ASSUME Sound, Order, [Next]_vars
  PROVE  Order'
<1>1. ASSUME NEW w \in Worker, Step(w)
      PROVE  Order'
  <2>1. CASE \/ \E s \in Slot : CheckSlot(w, s)
             \/ InsertRow(w) \/ RefuseDay(w) \/ WriteRow(w) \/ LoadFacility(w)
             \/ WriteSchedule(w) \/ DeleteParent(w) \/ EnqueueJob(w)
    <3>1. UNCHANGED <<bookings, disturbed>>
      BY <2>1
      DEF CheckSlot, InsertRow, RefuseDay, WriteRow, LoadFacility, WriteSchedule, DeleteParent,
          EnqueueJob, history
    <3> QED
      BY <2>1, <3>1, StatementsKeep, UnchangedRowsKeep, KeepingKeepsOrder
  <2>2. CASE WriteCascaded(w)
    <3>1. UNCHANGED <<bookings, disturbed>>
      BY <2>2 DEF WriteCascaded, history
    <3> QED
      BY <2>2, <3>1, CascadingKeeps, UnchangedRowsKeep, KeepingKeepsOrder
  <2>3. CASE RestoreLoaded(w)
    <3>1. UNCHANGED <<bookings, disturbed>>
      BY <2>3 DEF RestoreLoaded, history
    <3> QED
      BY <2>3, <3>1, RestoringKeeps, UnchangedRowsKeep, KeepingKeepsOrder
  <2> QED
    BY <1>1, <2>1, <2>2, <2>3, CreatingKeepsOrder, CommittingKeepsOrder DEF Step
<1>2. ASSUME NEW w \in Worker, FacilityForm(w)
      PROVE  Order'
  BY <1>2, OthersKeepOrder, FoundingKeepsOrder DEF FacilityForm
<1> QED
  BY <1>1, <1>2, StartsKeepOrder, OthersKeepOrder DEF Next
-----------------------------------------------------------------------------
(* The reads of one worker. *)
FreshFor(w) ==
  Uncommitted(w) /\ req[w].op \notin {"expire", "raze", "leave"}
    /\ req[w].facility \notin disturbed =>
    /\ req[w].loaded => req[w].snap = Offered(req[w].facility)
    /\ req[w].op # "create" =>
         /\ BookingExists(req[w].booking)
         /\ bookings[req[w].booking].slots = req[w].slots
         /\ bookings[req[w].booking].status = req[w].was

LEMMA FreshForAll == UndisturbedReadsAreFresh <=> \A w \in Worker : FreshFor(w)
  BY DEF UndisturbedReadsAreFresh, FreshFor

(* What w writes: the facilities it is at work on, and the rows it is about.*)
WritesItsOwn(w) ==
  /\ \A f \in Facility : ~WorksOn(w, f) => facilities'[f] = facilities[f]
  /\ \A b \in Booking : BookingExists(b) /\ ~About(w, b) =>
       /\ BookingExists(b)'
       /\ bookings'[b].slots = bookings[b].slots /\ bookings'[b].status = bookings[b].status

LEMMA UncommittedFields ==
  ASSUME Sound, NEW w \in Worker, Uncommitted(w)
  PROVE  /\ Busy(w) /\ (req[w].op # "leave" => req[w].facility \in Facility)
         /\ req[w].op \notin {"raze", "leave"} => req[w].booking \in Booking
  BY RequestKinds, RequestFields DEF Uncommitted, Sound

(* What is at work on other facilities disturbs nobody. *)
LEMMA OthersStayFresh ==
  ASSUME Sound, Order, NEW w \in Worker, FreshFor(w), NEW v \in Worker, v # w, Busy(v),
         WritesItsOwn(v), req'[w] = req[w], disturbed \subseteq disturbed'
  PROVE  FreshFor(w)'
<1> SUFFICES ASSUME Uncommitted(w)', req'[w].op \notin {"expire", "raze", "leave"},
                    req'[w].facility \notin disturbed'
             PROVE  /\ req[w].loaded => req[w].snap = Offered(req[w].facility)'
                    /\ req[w].op # "create" =>
                         /\ BookingExists(req[w].booking)'
                         /\ bookings'[req[w].booking].slots = req[w].slots
                         /\ bookings'[req[w].booking].status = req[w].was
  BY DEF FreshFor
<1>1. /\ Uncommitted(w) /\ req[w].op \notin {"expire", "raze", "leave"}
      /\ req[w].facility \notin disturbed
  BY DEF Uncommitted, Busy
<1> PICK f \in Facility, b \in Booking : f = req[w].facility /\ b = req[w].booking
  BY <1>1, UncommittedFields
<1>2. ~WorksOn(v, f)
  BY <1>1, UncommittedFields DEF Order, OneAtWork, WorksOn, Leaving
<1>3. facilities'[f] = facilities[f]
  BY <1>2 DEF WritesItsOwn
<1>4. CASE req[w].op = "create"
  BY <1>1, <1>3, <1>4 DEF FreshFor, Offered
<1>5. CASE req[w].op # "create"
  <2>1. BookingExists(b) /\ About(w, b)
    BY <1>1, <1>5 DEF FreshFor, About, Knows, Uncommitted
  <2>2. ~About(v, b)
    <3>1. bookings[b].facility = f
      BY <1>1, <2>1 DEF Order, RowsAreWhereTheyWere, AsKnown
    <3>2. About(v, b) => AsKnown(req[v], b)
      BY <2>1 DEF Order, RowsAreWhereTheyWere
    <3> QED
      BY <1>2, <3>1, <3>2 DEF AsKnown, About, Knows, WorksOn, Leaving
  <2> QED
    BY <1>1, <1>3, <2>1, <2>2 DEF WritesItsOwn, FreshFor, Offered, BookingExists
<1> QED
  BY <1>4, <1>5

LEMMA StayFresh ==
  ASSUME Sound, NEW w \in Worker, FreshFor(w), req'[w] = req[w],
         UNCHANGED <<facilities, bookings>>, disturbed \subseteq disturbed'
  PROVE  FreshFor(w)'
  BY DEF FreshFor, Uncommitted, Busy, Offered, BookingExists

(* A request that goes on, or has nothing left to write. *)
LEMMA GoingOnStaysFresh ==
  ASSUME Sound, NEW w \in Worker, Busy(w), FreshFor(w), NEW x, req'[w] = x,
         UNCHANGED <<facilities, bookings>>, disturbed \subseteq disturbed',
         x.op = req[w].op, x.booking = req[w].booking, x.facility = req[w].facility,
         x.slots = req[w].slots, x.was = req[w].was,
         \/ x.loaded = req[w].loaded /\ x.snap = req[w].snap
         \/ x.snap = Offered(x.facility),
         x.step \in {"enqueue", "notify"} \/ req[w].step \notin {"enqueue", "notify"}
  PROVE  FreshFor(w)'
  BY DEF FreshFor, Uncommitted, Busy, Offered, BookingExists

LEMMA DoneIsFresh ==
  ASSUME NEW w \in Worker,
         \/ ~Busy(w)' \/ req'[w].op \in {"expire", "raze", "leave"}
         \/ req'[w].step \in {"enqueue", "notify"}
  PROVE  FreshFor(w)'
  BY DEF FreshFor, Uncommitted

LEMMA FinishedIsFresh ==
  ASSUME Sound, NEW w \in Worker, Finish(w)
  PROVE  FreshFor(w)' /\ \A v \in Worker : v # w => req'[v] = req[v]
<1>1. ~Busy(w)' /\ \A v \in Worker : v # w => req'[v] = req[v]
  BY DEF Finish, Busy, Sound, TypeOK
<1> QED
  BY <1>1, DoneIsFresh

LEMMA AdvanceStaysFresh ==
  ASSUME Sound, NEW w \in Worker, Busy(w), FreshFor(w), NEW st, Advance(w, st),
         \/ st \in {"enqueue", "notify"}
         \/ /\ UNCHANGED <<facilities, bookings>> /\ disturbed \subseteq disturbed'
            /\ req[w].step \notin {"enqueue", "notify"}
  PROVE  FreshFor(w)' /\ \A v \in Worker : v # w => req'[v] = req[v]
<1>1. req[w] \in Request \cup Destruction \cup Departure
  BY RequestKinds DEF Sound
<1>2. req'[w] = [req[w] EXCEPT !.step = st] /\ \A v \in Worker : v # w => req'[v] = req[v]
  BY DEF Advance, Sound, TypeOK
<1>3. req'[w].step = st /\ req'[w].op = req[w].op
  BY <1>1, <1>2 DEF Request, Destruction, Departure
<1>4. CASE st \in {"enqueue", "notify"} \/ req[w].op \in {"raze", "leave"}
  BY <1>2, <1>3, <1>4, DoneIsFresh
<1>5. CASE st \notin {"enqueue", "notify"} /\ req[w].op \notin {"raze", "leave"}
  <2>1. req[w] \in Request
    BY <1>1, <1>5 DEF Destruction, Departure
  <2>2. /\ req'[w].booking = req[w].booking /\ req'[w].facility = req[w].facility
        /\ req'[w].slots = req[w].slots /\ req'[w].was = req[w].was
        /\ req'[w].loaded = req[w].loaded /\ req'[w].snap = req[w].snap
    BY <1>2, <2>1 DEF Request
  <2> QED
    BY <1>2, <1>3, <1>5, <2>2, GoingOnStaysFresh
<1> QED
  BY <1>2, <1>4, <1>5

LEMMA StatementsStayFresh ==
  ASSUME Sound, \A v \in Worker : FreshFor(v), NEW w \in Worker,
         \/ \E s \in Slot : CheckSlot(w, s)
         \/ InsertRow(w) \/ RefuseDay(w) \/ WriteRow(w) \/ LoadFacility(w) \/ WriteSchedule(w)
         \/ WriteCascaded(w) \/ RestoreLoaded(w) \/ DeleteParent(w) \/ EnqueueJob(w)
  PROVE  \A v \in Worker : FreshFor(v)'
<1>1. /\ Busy(w) /\ req[w] \in Request \cup Destruction \cup Departure
      /\ UNCHANGED <<facilities, bookings>> /\ disturbed \subseteq disturbed'
  BY RequestKinds
  DEF CheckSlot, InsertRow, RefuseDay, WriteRow, LoadFacility, WriteSchedule, WriteCascaded,
      RestoreLoaded, DeleteParent, EnqueueJob, At, Sound, history
<1>2. CASE FreshFor(w)' /\ \A v \in Worker : v # w => req'[v] = req[v]
  BY <1>1, <1>2, StayFresh
<1>3. CASE Finish(w)
  BY <1>2, <1>3, FinishedIsFresh
<1>4. CASE \/ InsertRow(w) /\ Advance(w, "schedule")
           \/ WriteRow(w) \/ WriteSchedule(w) \/ DeleteParent(w) \/ EnqueueJob(w)
  <2>1. PICK st : /\ Advance(w, st)
                  /\ st = "notify" \/ req[w].step \notin {"enqueue", "notify"}
    BY <1>4 DEF InsertRow, WriteRow, WriteSchedule, DeleteParent, EnqueueJob, At
  <2> QED
    BY <1>1, <1>2, <2>1, AdvanceStaysFresh
<1>5. ASSUME NEW s \in Slot, At(w, "check"), req' = [req EXCEPT ![w].todo = @ \ {s}]
      PROVE  \A v \in Worker : FreshFor(v)'
  <2> DEFINE x == [req[w] EXCEPT !.todo = @ \ {s}]
  <2>1. req[w] \in Request /\ req[w].step = "check"
    BY <1>1, <1>5 DEF At, Destruction, Departure
  <2>2. /\ x.op = req[w].op /\ x.booking = req[w].booking /\ x.facility = req[w].facility
        /\ x.slots = req[w].slots /\ x.was = req[w].was
        /\ x.loaded = req[w].loaded /\ x.snap = req[w].snap
    BY <2>1 DEF Request
  <2>3. req'[w] = x /\ \A v \in Worker : v # w => req'[v] = req[v]
    BY <1>5 DEF Sound, TypeOK
  <2> HIDE DEF x
  <2>4. FreshFor(w)'
    BY <1>1, <2>1, <2>2, <2>3, GoingOnStaysFresh
  <2> QED
    BY <1>2, <2>3, <2>4
<1>6. CASE /\ LoadFacility(w) /\ req[w] \in Request
           /\ req' = [req EXCEPT ![w].loaded = TRUE, ![w].snap = Seen(req[w])]
  <2> DEFINE x == [req[w] EXCEPT !.loaded = TRUE, !.snap = Seen(req[w])]
  <2>1. /\ req[w] \in Request /\ req[w].step = "schedule"
        /\ Seen(req[w]) = Offered(req[w].facility)
    BY <1>1, <1>6 DEF LoadFacility, FacilityAtHand, At, Request, Seen
  <2>2. /\ x.op = req[w].op /\ x.booking = req[w].booking /\ x.facility = req[w].facility
        /\ x.slots = req[w].slots /\ x.was = req[w].was /\ x.snap = Offered(x.facility)
    BY <2>1 DEF Request
  <2>3. req'[w] = x /\ \A v \in Worker : v # w => req'[v] = req[v]
    BY <1>6 DEF Sound, TypeOK
  <2> HIDE DEF x
  <2>4. FreshFor(w)'
    BY <1>1, <2>1, <2>2, <2>3, GoingOnStaysFresh
  <2> QED
    BY <1>2, <2>3, <2>4
<1>8. CASE /\ LoadFacility(w) /\ req[w] \in Departure
           /\ req' = [req EXCEPT ![w].loaded = TRUE, ![w].snap = Seen(req[w])]
  <2> DEFINE x == [req[w] EXCEPT !.loaded = TRUE, !.snap = Seen(req[w])]
  <2>1. req'[w] = x /\ \A v \in Worker : v # w => req'[v] = req[v]
    BY <1>8 DEF Sound, TypeOK
  <2>2. x.op = "leave"
    BY <1>8 DEF Departure
  <2> HIDE DEF x
  <2> QED
    BY <1>2, <2>1, <2>2, DoneIsFresh
<1>9. CASE RestoreLoaded(w)
  <2>1. PICK x : req' = [req EXCEPT ![w] = x] /\ x.op = "leave"
    BY <1>9, RestoringGoesOn
  <2>2. req'[w] = x /\ \A v \in Worker : v # w => req'[v] = req[v]
    BY <2>1 DEF Sound, TypeOK
  <2> QED
    BY <1>2, <2>1, <2>2, DoneIsFresh
<1>7. CASE WriteCascaded(w)
  <2> DEFINE r == [req[w] EXCEPT !.gone = @ \cup {req[w].booking}]
  <2>1. req[w] \in Destruction /\ req[w].step = "schedule"
    BY <1>1, <1>7, RequestKinds DEF WriteCascaded, Razing, At, Sound
  <2>2. PICK x \in Onward(r) : req' = [req EXCEPT ![w] = x]
    BY <1>7 DEF WriteCascaded
  <2>3. r \in Destruction
    <3>1. req[w].booking \in Booking
      BY <2>1, NoRequestIsNone DEF Sound, RowsAreAtHand, Astray, AtBooking, Destruction
    <3> QED
      BY <2>1, <3>1 DEF Destruction
  <2> HIDE DEF r
  <2>4. x.op = "raze"
    BY <2>3, OnwardIsDestruction DEF Destruction
  <2>5. req'[w] = x /\ \A v \in Worker : v # w => req'[v] = req[v]
    BY <2>2 DEF Sound, TypeOK
  <2> QED
    BY <1>2, <2>4, <2>5, DoneIsFresh
<1> QED
  <2>1. LoadFacility(w) => req[w] \in Request \cup Departure
    BY <1>1 DEF LoadFacility, FacilityAtHand, Destruction
  <2> QED
    BY <1>3, <1>4, <1>5, <1>6, <1>7, <1>8, <1>9, <2>1
    DEF CheckSlot, InsertRow, RefuseDay, LoadFacility

(* Whom a commit disturbs it has disturbed before. *)
LEMMA CommitsWriteTheirOwn ==
  ASSUME Sound, Order, NEW w \in Worker,
         \/ CommitCreate(w) \/ CommitUpdate(w) \/ CommitExpire(w) \/ CommitDestroy(w)
         \/ CommitRaze(w) \/ CommitLeave(w) \/ CreateNotification(w)
  PROVE  WritesItsOwn(w)
<1>1. /\ Busy(w)
      /\ CreateNotification(w) \/ Uncommitted(w)
      /\ CommitRaze(w) \/ CommitLeave(w) \/ req[w] \in Request
      /\ CommitLeave(w) \/ (req[w].facility \in Facility /\ ~Leaving(w))
      /\ bookings \in [Booking -> BookingRow \cup {NoRow}]
      /\ facilities \in [Facility -> FacilityRow \cup {NoRow}]
  BY RequestKinds
  DEF CommitCreate, CommitUpdate, CommitExpire, CommitDestroy, CommitRaze, CommitLeave,
      CreateNotification, At, Sound, TypeOK, StoreTypeOK, Uncommitted, Leaving, Request
<1>6. ASSUME CommitLeave(w), ~UNCHANGED <<facilities, bookings, accounts>>
      PROVE  /\ \A f \in Facility : f \notin req[w].wrote => facilities'[f] = facilities[f]
             /\ \A b \in Booking : BookingExists(b) /\ b \notin req[w].gone =>
                  bookings'[b] = bookings[b]
             /\ Leaving(w) /\ Packed(req[w])
  <2>1. PICK r : r = req[w]
    OBVIOUS
  <2>2. /\ \A f \in Facility : f \notin r.wrote => facilities'[f] = facilities[f]
        /\ \A b \in Booking : BookingExists(b) /\ b \notin r.gone => bookings'[b] = bookings[b]
    BY <1>6, <2>1, ClosingRows
  <2>3. Leaving(w) /\ Packed(req[w])
    BY <1>1, <1>6, RequestKinds DEF CommitLeave, Leaving, Sound, RowsAreAtHand, Astray, Busy
  <2> QED
    BY <2>1, <2>2, <2>3
<1>2. \A f \in Facility : ~WorksOn(w, f) => facilities'[f] = facilities[f]
  <2>1. CASE CommitLeave(w) /\ ~UNCHANGED <<facilities, bookings, accounts>>
    BY <1>1, <1>6, <2>1 DEF Packed, Kept, WorksOn
  <2>2. CASE CommitLeave(w) /\ UNCHANGED <<facilities, bookings, accounts>>
    BY <2>2
  <2>3. CASE ~CommitLeave(w)
    <3>1. \A f \in Facility : f # req[w].facility => facilities'[f] = facilities[f]
      BY <1>1, <2>3
      DEF CommitCreate, CommitUpdate, CommitExpire, CommitDestroy, CommitRaze,
          CreateNotification, StoreSchedule
    <3> QED
      BY <1>1, <2>3, <3>1 DEF WorksOn
  <2> QED
    BY <2>1, <2>2, <2>3
<1>3. ASSUME NEW b \in Booking, BookingExists(b), ~About(w, b)
      PROVE  /\ BookingExists(b)'
             /\ bookings'[b].slots = bookings[b].slots /\ bookings'[b].status = bookings[b].status
  <2>1. CASE bookings'[b] = bookings[b]
    BY <1>3, <2>1 DEF BookingExists
  <2>2. CASE CommitCreate(w)
    <3>1. b # req[w].booking
      BY <1>1, <1>3, <2>2
      DEF CommitCreate, Order, NewIdsAreOwn, Creating, Uncommitted, At
    <3> QED
      BY <1>1, <2>1, <2>2, <3>1 DEF CommitCreate
  <2>3. CASE CommitUpdate(w) \/ CommitExpire(w) \/ CommitDestroy(w)
    <3>1. b # req[w].booking
      BY <1>1, <1>3, <2>3
      DEF CommitUpdate, CommitExpire, CommitDestroy, About, Knows, Uncommitted, At
    <3> QED
      BY <1>1, <2>1, <2>3, <3>1 DEF CommitUpdate, CommitExpire, CommitDestroy, StatusWritten
  <2>4. CASE CommitRaze(w)
    <3>1. b \notin req[w].gone
      BY <1>1, <1>3, <2>4 DEF CommitRaze, About, Knows, Uncommitted, At
    <3> QED
      BY <1>1, <2>1, <2>4, <3>1 DEF CommitRaze
  <2>6. CASE CommitLeave(w) /\ ~UNCHANGED <<facilities, bookings, accounts>>
    <3>1. b \notin req[w].gone
      BY <1>1, <1>3, <1>6, <2>6
      DEF CommitLeave, About, Knows, Uncommitted, At, Leaving, Packed, InHand
    <3> QED
      BY <1>3, <1>6, <2>1, <2>6, <3>1
  <2>7. CASE CommitLeave(w) /\ UNCHANGED <<facilities, bookings, accounts>>
    BY <2>1, <2>7
  <2>5. CASE CreateNotification(w)
    <3>1. CASE b = req[w].booking
      <4>1. bookings'[b] = [bookings[b] EXCEPT !.told = req[w].to] /\ bookings[b] \in BookingRow
        BY <1>1, <1>3, <2>5, <3>1 DEF CreateNotification, BookingExists
      <4>2. bookings'[b] \in BookingRow
        BY <1>1, <2>5, <4>1, RequestFields
        DEF CreateNotification, CommitRaze, CommitLeave, At, BookingRow
      <4>3. BookingExists(b)'
        BY <4>2, NoRowIsNone DEF BookingExists
      <4> QED
        BY <4>1, <4>3 DEF BookingRow
    <3>2. CASE b # req[w].booking
      BY <1>1, <2>1, <2>5, <3>2 DEF CreateNotification
    <3> QED
      BY <3>1, <3>2
  <2> QED
    BY <2>2, <2>3, <2>4, <2>5, <2>6, <2>7
<1> QED
  BY <1>2, <1>3 DEF WritesItsOwn

LEMMA CommitsStayFresh ==
  ASSUME Sound, Order, \A v \in Worker : FreshFor(v), NEW w \in Worker,
         \/ CommitCreate(w) \/ CommitUpdate(w) \/ CommitExpire(w) \/ CommitDestroy(w)
         \/ CommitRaze(w) \/ CommitLeave(w) \/ CreateNotification(w)
  PROVE  \A v \in Worker : FreshFor(v)'
<1>1. Busy(w) /\ disturbed \subseteq disturbed' /\ WritesItsOwn(w)
  BY CommitsWriteTheirOwn
  DEF CommitCreate, CommitUpdate, CommitExpire, CommitDestroy, CommitRaze, CommitLeave,
      CreateNotification, At, history
<1>2. FreshFor(w)' /\ \A v \in Worker : v # w => req'[v] = req[v]
  <2>1. CASE Finish(w)
    BY <2>1, FinishedIsFresh
  <2>2. CASE Advance(w, "enqueue") \/ Advance(w, "notify")
    BY <1>1, <2>2, AdvanceStaysFresh
  <2>3. CASE CommitExpire(w) /\ req[w].rest # {}
    <3>1. PICK c \in req[w].rest : req' = [req EXCEPT ![w] = NextExpired(req[w], c)]
      BY <2>3 DEF CommitExpire
    <3>2. req[w].op = "expire" /\ req[w] \in Request
      BY <2>3, RequestKinds DEF CommitExpire, At, Sound
    <3>3. NextExpired(req[w], c).op = "expire"
      BY <3>2 DEF NextExpired, Request
    <3>4. req'[w] = NextExpired(req[w], c) /\ \A v \in Worker : v # w => req'[v] = req[v]
      BY <3>1 DEF Sound, TypeOK
    <3> QED
      BY <3>3, <3>4, DoneIsFresh
  <2> QED
    BY <2>1, <2>2, <2>3
    DEF CommitCreate, CommitUpdate, CommitExpire, CommitDestroy, CommitRaze, CommitLeave,
        CreateNotification
<1> QED
  BY <1>1, <1>2, OthersStayFresh

LEMMA StartsStayFresh ==
  ASSUME Sound, \A v \in Worker : FreshFor(v), NEW w \in Worker, Start(w)
  PROVE  \A v \in Worker : FreshFor(v)'
<1>1. UNCHANGED <<facilities, bookings>> /\ disturbed \subseteq disturbed'
  BY DEF Start, StartCreate, StartUpdate, StartDestroy, StartExpire, StartRaze, StartLeave,
         Disturb
<1>2. ASSUME NEW x, req' = [req EXCEPT ![w] = x],
             \/ x.op \in {"expire", "raze", "leave"}
             \/ /\ x.loaded => x.snap = Offered(x.facility)
                /\ x.op # "create" =>
                      /\ BookingExists(x.booking) /\ bookings[x.booking].slots = x.slots
                      /\ bookings[x.booking].status = x.was
      PROVE  \A v \in Worker : FreshFor(v)'
  <2>1. req'[w] = x /\ \A v \in Worker : v # w => req'[v] = req[v]
    BY <1>2 DEF Sound, TypeOK
  <2>2. FreshFor(w)'
    BY <1>1, <1>2, <2>1 DEF FreshFor, Offered, BookingExists
  <2> QED
    BY <1>1, <2>1, <2>2, StayFresh
<1>3. CASE \E u \in Customer \cap accounts, b \in Booking, f \in Facility, ss \in Asked :
             StartCreate(w, u, b, f, ss)
  <2> PICK u \in Customer \cap accounts, b \in Booking, f \in Facility, ss \in Asked :
             StartCreate(w, u, b, f, ss)
    BY <1>3
  <2> DEFINE x == [op |-> "create", step |-> "check", owner |-> u, booking |-> b,
                   facility |-> f, slots |-> ss, was |-> "pending", to |-> "pending",
                   todo |-> ss, loaded |-> TRUE, snap |-> Offered(f), rest |-> {}]
  <2>1. req' = [req EXCEPT ![w] = x]
    BY DEF StartCreate
  <2>2. x.op = "create" /\ x.snap = Offered(x.facility)
    OBVIOUS
  <2> HIDE DEF x
  <2> QED
    BY <1>2, <2>1, <2>2
<1>4. ASSUME NEW b \in Booking, BookingExists(b), NEW u, NEW st, NEW op,
             req' = [req EXCEPT ![w] = Loaded(op, b, u, st)]
      PROVE  \A v \in Worker : FreshFor(v)'
  <2> DEFINE x == Loaded(op, b, u, st)
  <2>1. /\ x.booking = b /\ x.slots = bookings[b].slots /\ x.was = bookings[b].status
        /\ x.loaded => x.snap = Offered(x.facility)
    BY DEF Loaded, Snapshot
  <2>2. req' = [req EXCEPT ![w] = x]
    BY <1>4
  <2> HIDE DEF x
  <2> QED
    BY <1>2, <1>4, <2>1, <2>2
<1>5. CASE \E u \in accounts, b \in Booking, st \in Sent : StartUpdate(w, u, b, st)
  <2> PICK u \in accounts, b \in Booking, st \in Sent : StartUpdate(w, u, b, st)
    BY <1>5
  <2> QED
    BY <1>4 DEF StartUpdate
<1>6. CASE \E u \in accounts, b \in Booking : StartDestroy(w, u, b)
  <2> PICK u \in accounts, b \in Booking : StartDestroy(w, u, b)
    BY <1>6
  <2> QED
    BY <1>4 DEF StartDestroy
<1>7. CASE \E E \in SUBSET Booking : \E b \in E : StartExpire(w, E, b)
  <2> PICK E \in SUBSET Booking : \E b \in E : StartExpire(w, E, b)
    BY <1>7
  <2> PICK b \in E : StartExpire(w, E, b)
    OBVIOUS
  <2> DEFINE x == [Loaded("expire", b, bookings[b].owner, "approved")
                     EXCEPT !.loaded = FALSE, !.snap = {}, !.rest = E \ {b}]
  <2>1. req' = [req EXCEPT ![w] = x] /\ x.op = "expire"
    BY DEF StartExpire, Loaded
  <2> HIDE DEF x
  <2> QED
    BY <1>2, <2>1
<1>8. CASE \E u \in accounts, f \in Facility : StartRaze(w, u, f)
  <2> PICK u \in accounts, f \in Facility : StartRaze(w, u, f)
    BY <1>8
  <2> DEFINE r == [op |-> "raze", step |-> "row", facility |-> f, booking |-> NoRow,
                   rest |-> {b \in Booking : BookingExists(b) /\ bookings[b].facility = f},
                   gone |-> {}]
  <2>1. PICK x \in Onward(r) : req' = [req EXCEPT ![w] = x]
    BY DEF StartRaze
  <2>2. r \in Destruction
    BY DEF Destruction
  <2> HIDE DEF r
  <2>3. x.op = "raze"
    BY <2>2, OnwardIsDestruction DEF Destruction
  <2> QED
    BY <1>2, <2>1, <2>3
<1>9. CASE \E a \in accounts, u \in User : StartLeave(w, a, u)
  <2> PICK a \in accounts, u \in User : StartLeave(w, a, u)
    BY <1>9
  <2>1. PICK x \in OnwardLoaded(Departing(u)) : req' = [req EXCEPT ![w] = x]
    BY DEF StartLeave, Departing
  <2>2. x.op = "leave"
    BY DepartingIsDeparture
  <2> QED
    BY <1>2, <2>1, <2>2
<1> QED
  BY <1>3, <1>5, <1>6, <1>7, <1>8, <1>9 DEF Start

LEMMA OthersStepFresh ==
  ASSUME Sound, \A v \in Worker : FreshFor(v),
         \/ \E w \in Worker : Abort(w) \/ Crash(w)
         \/ \E b \in Booking : RunConflictJob(b)
         \/ \E w \in Worker, u \in User : OpenAccount(w, u)
         \/ UNCHANGED vars
  PROVE  \A v \in Worker : FreshFor(v)'
<1>1. UNCHANGED <<facilities, bookings>> /\ disturbed \subseteq disturbed'
  BY DEF Abort, Crash, RunConflictJob, OpenAccount, history, vars
<1>2. CASE \E w \in Worker : Finish(w)
  BY <1>1, <1>2, FinishedIsFresh, StayFresh
<1>3. CASE UNCHANGED req
  BY <1>1, <1>3, StayFresh
<1> QED
  BY <1>2, <1>3 DEF Abort, Crash, RunConflictJob, OpenAccount, vars

(* A form that is saved disturbs those at work on its facility. *)
LEMMA FormsStayFresh ==
  ASSUME Sound, \A v \in Worker : FreshFor(v), NEW w \in Worker, FacilityForm(w)
  PROVE  \A v \in Worker : FreshFor(v)'
<1> PICK u \in accounts, f \in Facility, ss \in SUBSET Slot :
      (\E c \in Condo : CreateFacility(w, u, f, c, ss)) \/ SaveSchedule(w, u, f, ss)
  BY DEF FacilityForm
<1>1. /\ UNCHANGED <<bookings, req>>
      /\ \A g \in Facility : g # f => facilities'[g] = facilities[g]
      /\ \A g \in disturbed : g # f => g \in disturbed'
  BY DEF CreateFacility, SaveSchedule, Disturb, Sound, TypeOK, StoreTypeOK
<1>2. \A v \in Worker : WorksOn(v, f) => f \in disturbed'
  BY DEF CreateFacility, SaveSchedule, Disturb
<1> SUFFICES ASSUME NEW v \in Worker, Uncommitted(v)',
                    req'[v].op \notin {"expire", "raze", "leave"},
                    req'[v].facility \notin disturbed'
             PROVE  /\ req[v].loaded => req[v].snap = Offered(req[v].facility)'
                    /\ req[v].op # "create" =>
                         /\ BookingExists(req[v].booking)'
                         /\ bookings'[req[v].booking].slots = req[v].slots
                         /\ bookings'[req[v].booking].status = req[v].was
  BY <1>1 DEF FreshFor
<1>3. Uncommitted(v) /\ req'[v] = req[v] /\ req[v].facility \in Facility /\ req[v].facility # f
  <2>1. Uncommitted(v) /\ req'[v] = req[v]
    BY <1>1 DEF Uncommitted, Busy
  <2> QED
    BY <1>2, <2>1, UncommittedFields DEF WorksOn, Leaving
<1>4. req[v].facility \notin disturbed /\ facilities'[req[v].facility] = facilities[req[v].facility]
  BY <1>1, <1>3
<1> QED
  BY <1>1, <1>3, <1>4 DEF FreshFor, Offered, BookingExists

LEMMA NextKeepsFresh ==
  ASSUME Sound, Order, UndisturbedReadsAreFresh, [Next]_vars
  PROVE  UndisturbedReadsAreFresh'
<1>1. \A v \in Worker : FreshFor(v)
  BY FreshForAll
<1>2. ASSUME NEW w \in Worker, Step(w)
      PROVE  \A v \in Worker : FreshFor(v)'
  BY <1>1, <1>2, StatementsStayFresh, CommitsStayFresh DEF Step
<1>3. \A v \in Worker : FreshFor(v)'
  BY <1>1, <1>2, StartsStayFresh, OthersStepFresh, FormsStayFresh DEF Next
<1> QED
  BY <1>3 DEF UndisturbedReadsAreFresh, FreshFor

LEMMA InitIsFresh == Init => UndisturbedReadsAreFresh
  BY DEF Init, UndisturbedReadsAreFresh, Uncommitted, Busy

(* The schedule that a request found in its association (booking.rb:88) and *)
(* the row it found with Booking.find are still the database's when it      *)
(* writes, as long as no other request worked on the facility meanwhile.    *)
THEOREM ReadsAreFresh == Spec => []UndisturbedReadsAreFresh
<1>1. Init => Order /\ UndisturbedReadsAreFresh
  BY InitIsOrdered, InitIsFresh
<1>2. /\ Sound /\ Order /\ UndisturbedReadsAreFresh /\ [Next]_vars
      => Order' /\ UndisturbedReadsAreFresh'
  BY NextKeepsOrder, NextKeepsFresh
<1> QED
  BY <1>1, <1>2, Soundness, PTL DEF Spec
=============================================================================
