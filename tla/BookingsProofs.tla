--------------------------- MODULE BookingsProofs ---------------------------
(***************************************************************************)
(* What holds of Bookings for any numbers of bookings, facilities, slots,  *)
(* condos and users.                                                       *)
(***************************************************************************)
EXTENDS Bookings, TLAPS

LEMMA NoRowIsNoFacility == NoRow \notin FacilityRow
  BY NoRowAssumption

LEMMA NoRowIsNoBooking == NoRow \notin BookingRow
  BY NoRowAssumption

(* A row that is not NoRow is a record with its columns. *)
LEMMA BookingRowColumns ==
  ASSUME TypeOK, NEW b \in Booking, BookingExists(b)
  PROVE  /\ bookings[b] \in BookingRow
         /\ bookings[b].facility \in Facility
         /\ bookings[b].slots \in SUBSET Slot
         /\ bookings[b].owner \in User
         /\ bookings[b].status \in BookingStatus
  BY DEF TypeOK, StoreTypeOK, BookingExists, BookingRow

LEMMA FacilityRowColumns ==
  ASSUME TypeOK, NEW f \in Facility, FacilityExists(f)
  PROVE  facilities[f] \in FacilityRow /\ Offered(f) \in SUBSET Slot
  BY DEF TypeOK, StoreTypeOK, FacilityExists, FacilityRow, Offered

(* The schedule operations keep the rows of facilities rows. *)
LEMMA ScheduleRewritten ==
  ASSUME TypeOK, NEW f \in Facility, FacilityExists(f), NEW ss \in SUBSET Slot
  PROVE  /\ Remove(f, ss) \in [Facility -> FacilityRow \cup {NoRow}]
         /\ Restore(f, ss) \in [Facility -> FacilityRow \cup {NoRow}]
         /\ \A g \in Facility : Remove(f, ss)[g] = NoRow <=> facilities[g] = NoRow
         /\ \A g \in Facility : Restore(f, ss)[g] = NoRow <=> facilities[g] = NoRow
<1>1. facilities[f] \in FacilityRow
  BY FacilityRowColumns
<1>2. /\ [facilities[f] EXCEPT !.schedule = @ \ ss] \in FacilityRow
      /\ [facilities[f] EXCEPT !.schedule = @ \cup ss] \in FacilityRow
  BY <1>1 DEF FacilityRow
<1>3. facilities \in [Facility -> FacilityRow \cup {NoRow}]
  BY DEF TypeOK, StoreTypeOK
<1> QED
  BY <1>1, <1>2, <1>3, NoRowIsNoFacility DEF Remove, Restore
(* What the end of an account does to each booking and each schedule.       *)
LEMMA AccountClosed ==
  ASSUME TypeOK, NEW a \in User, NEW u \in User, DestroyUser(a, u)
  PROVE  /\ bookings' \in [Booking -> BookingRow \cup {NoRow}]
         /\ facilities' \in [Facility -> FacilityRow \cup {NoRow}]
         /\ \A b \in Booking :
              bookings'[b] = IF b \in BookingsOf(u) THEN NoRow ELSE bookings[b]
         /\ \A f \in Facility :
              /\ FacilityExists(f)' <=> FacilityExists(f)
              /\ FacilityExists(f) => Offered(f)' = Offered(f) \cup SlotsAt(u, f)
<1>0. /\ bookings \in [Booking -> BookingRow \cup {NoRow}]
      /\ facilities \in [Facility -> FacilityRow \cup {NoRow}]
  BY DEF TypeOK, StoreTypeOK
<1>1. ASSUME NEW f \in Facility, FacilityExists(f)
      PROVE  /\ [facilities[f] EXCEPT !.schedule = @ \cup SlotsAt(u, f)] \in FacilityRow
             /\ [facilities[f] EXCEPT !.schedule = @ \cup SlotsAt(u, f)].schedule
                  = Offered(f) \cup SlotsAt(u, f)
  <2>1. SlotsAt(u, f) \in SUBSET Slot
    BY BookingRowColumns DEF SlotsAt, BookingsOf
  <2> QED
    BY <1>0, <1>1, <2>1 DEF FacilityExists, FacilityRow, Offered
<1>2. /\ bookings' = CascadeOfUser(u) /\ facilities' = RestoreOfUser(u)
  BY DEF DestroyUser
<1>3. \A f \in Facility : facilities'[f] =
        IF FacilityExists(f)
        THEN [facilities[f] EXCEPT !.schedule = @ \cup SlotsAt(u, f)] ELSE facilities[f]
  BY <1>2 DEF RestoreOfUser
<1> QED
  BY <1>0, <1>1, <1>2, <1>3, NoRowIsNoFacility
     DEF CascadeOfUser, RestoreOfUser, FacilityExists, Offered

LEMMA SlotsOfUser ==
  ASSUME NEW u, NEW f, NEW s
  PROVE  s \in SlotsAt(u, f) <=>
           \E b \in Booking : /\ b \in BookingsOf(u) /\ bookings[b].facility = f
                              /\ s \in bookings[b].slots
  BY DEF SlotsAt, BookingsOf

(* Who is signed in is a user. *)
LEMMA StepKinds ==
  ASSUME TypeOK, [Next]_vars
  PROVE  \/ \E u \in User, b \in Booking, f \in Facility, ss \in SUBSET Slot :
              u \in accounts /\ CreateBooking(u, b, f, ss)
         \/ \E u \in User, b \in Booking, st \in BookingStatus, g \in Facility :
              UpdateBooking(u, b, st, g)
         \/ \E u \in User, b \in Booking : DestroyBooking(u, b)
         \/ \E E \in SUBSET Booking : ExpirePending(E)
         \/ \E u \in User, f \in Facility, c \in Condo, ss \in SUBSET Slot :
              CreateFacility(u, f, c, ss) \/ UpdateFacility(u, f, c, ss)
         \/ \E u \in User, f \in Facility : DestroyFacility(u, f)
         \/ \E u \in User : OpenAccount(u)
         \/ \E a \in User, u \in User : DestroyUser(a, u)
         \/ UNCHANGED vars
<1>1. accounts \subseteq User
  BY DEF TypeOK, StoreTypeOK
<1> QED
  BY <1>1 DEF Next, BookingRequest, FacilityRequest, AccountRequest
-----------------------------------------------------------------------------
(* Type correctness needs the references: a callback rewrites the schedule  *)
(* of the booking's facility, which must be there to be rewritten.          *)
Sound == TypeOK /\ FacilityAndOwnerExist

LEMMA InitSound == Init => Sound
  BY DEF Init, Sound, TypeOK, StoreTypeOK, FacilityAndOwnerExist, BookingExists

(* What the changes of a schedule and of a row keep typed. *)
LEMMA NewBookingIsRow ==
  ASSUME NEW u \in User, NEW f \in Facility, NEW ss \in SUBSET Slot
  PROVE  [owner |-> u, facility |-> f, slots |-> ss, status |-> "pending",
          told |-> "pending", reopened |-> FALSE] \in BookingRow
  BY DEF BookingRow, BookingStatus

(* The row that UpdateBooking leaves. *)
LEMMA UpdatedRow ==
  ASSUME Sound, NEW u \in User, NEW b \in Booking, NEW st \in BookingStatus,
         NEW g \in Facility, UpdateBooking(u, b, st, g)
  PROVE  /\ bookings'[b] \in BookingRow
         /\ bookings'[b].status = st
         /\ bookings'[b].facility = g
         /\ bookings'[b].slots = bookings[b].slots
         /\ bookings'[b].owner = bookings[b].owner
         /\ \A c \in Booking \ {b} : bookings'[c] = bookings[c]
         /\ bookings' \in [Booking -> BookingRow \cup {NoRow}]
<1>1. bookings[b] \in BookingRow
  BY DEF UpdateBooking, Sound, TypeOK, StoreTypeOK, BookingExists
<1>2. bookings \in [Booking -> BookingRow \cup {NoRow}]
  BY DEF Sound, TypeOK, StoreTypeOK
<1>3. Message(bookings[b].status, st, bookings[b].told) \in BookingStatus \cup {"none"}
  BY <1>1 DEF Message, BookingRow
<1> QED
  BY <1>1, <1>2, <1>3 DEF UpdateBooking, BookingRow

(* Its columns that record what was done: the message and the history. *)
LEMMA UpdatedHistory ==
  ASSUME Sound, NEW u \in User, NEW b \in Booking, NEW st \in BookingStatus,
         NEW g \in Facility, UpdateBooking(u, b, st, g)
  PROVE  /\ bookings'[b].told = Message(bookings[b].status, st, bookings[b].told)
         /\ bookings'[b].reopened <=>
              \/ bookings[b].reopened
              \/ bookings[b].status \in Refused /\ st \in Active
              \/ g # bookings[b].facility
<1>1. bookings[b] \in BookingRow
  BY DEF UpdateBooking, Sound, TypeOK, StoreTypeOK, BookingExists
<1>2. bookings \in [Booking -> BookingRow \cup {NoRow}]
  BY DEF Sound, TypeOK, StoreTypeOK
<1> QED
  BY <1>1, <1>2 DEF UpdateBooking, BookingRow

LEMMA NextSound == Sound /\ [Next]_vars => Sound'
<1> SUFFICES ASSUME Sound, [Next]_vars
             PROVE  Sound'
  OBVIOUS
<1> USE DEF Sound
<1>0. /\ bookings \in [Booking -> BookingRow \cup {NoRow}]
      /\ facilities \in [Facility -> FacilityRow \cup {NoRow}]
      /\ accounts \subseteq User
  BY DEF TypeOK, StoreTypeOK
<1>a. ASSUME NEW c \in Booking, BookingExists(c)
      PROVE  /\ bookings[c].facility \in Facility /\ FacilityExists(bookings[c].facility)
             /\ bookings[c].owner \in accounts
  BY <1>a, BookingRowColumns DEF FacilityAndOwnerExist
<1>1. ASSUME NEW u \in User, NEW b \in Booking, NEW f \in Facility,
             NEW ss \in SUBSET Slot, u \in accounts, CreateBooking(u, b, f, ss)
      PROVE  Sound'
  <2>1. TypeOK'
    BY <1>0, <1>1, NewBookingIsRow, ScheduleRewritten
       DEF CreateBooking, TypeOK, StoreTypeOK
  <2>2. FacilityAndOwnerExist'
    BY <1>0, <1>1, <1>a, ScheduleRewritten
       DEF CreateBooking, FacilityAndOwnerExist, BookingExists, FacilityExists
  <2> QED
    BY <2>1, <2>2
<1>2. ASSUME NEW u \in User, NEW b \in Booking, NEW st \in BookingStatus,
             NEW g \in Facility, UpdateBooking(u, b, st, g)
      PROVE  Sound'
  <2>1. /\ facilities' \in [Facility -> FacilityRow \cup {NoRow}]
        /\ \A f \in Facility : FacilityExists(f) => FacilityExists(f)'
        /\ accounts' = accounts
    BY <1>0, <1>2, BookingRowColumns, ScheduleRewritten
       DEF UpdateBooking, FacilityExists
  <2>2. /\ bookings' \in [Booking -> BookingRow \cup {NoRow}]
        /\ bookings'[b].facility = g
        /\ bookings'[b].owner = bookings[b].owner
        /\ \A c \in Booking \ {b} : bookings'[c] = bookings[c]
    BY <1>2, UpdatedRow
  <2>3. FacilityExists(g)' /\ BookingExists(b)
    BY <1>2, <2>1 DEF UpdateBooking
  <2>4. ASSUME NEW c \in Booking, bookings'[c] # NoRow
        PROVE  /\ facilities'[bookings'[c].facility] # NoRow
               /\ bookings'[c].owner \in accounts'
    <3>1. CASE c = b
      BY <1>a, <2>1, <2>2, <2>3, <3>1 DEF FacilityExists
    <3>2. CASE c # b
      <4>1. bookings'[c] = bookings[c] /\ BookingExists(c)
        BY <2>2, <2>4, <3>2 DEF BookingExists
      <4> QED
        BY <1>a, <2>1, <4>1 DEF FacilityExists
    <3> QED
      BY <3>1, <3>2
  <2> QED
    BY <1>0, <2>1, <2>2, <2>4
       DEF TypeOK, StoreTypeOK, FacilityAndOwnerExist, FacilityExists, BookingExists
<1>3. ASSUME NEW u \in User, NEW b \in Booking, DestroyBooking(u, b)
      PROVE  Sound'
  <2>1. /\ facilities' \in [Facility -> FacilityRow \cup {NoRow}]
        /\ \A f \in Facility : FacilityExists(f) => FacilityExists(f)'
    BY <1>3, <1>a, BookingRowColumns, ScheduleRewritten
       DEF DestroyBooking, FacilityExists
  <2>2. FacilityAndOwnerExist'
    BY <1>0, <1>3, <1>a, <2>1
       DEF DestroyBooking, FacilityAndOwnerExist, BookingExists
  <2> QED
    BY <1>0, <1>3, <2>1, <2>2 DEF DestroyBooking, TypeOK, StoreTypeOK
<1>4. ASSUME NEW E \in SUBSET Booking, ExpirePending(E)
      PROVE  Sound'
  <2>1. \A b \in E : [bookings[b] EXCEPT !.status = "approved"] \in BookingRow
    BY <1>0, <1>4 DEF ExpirePending, BookingExists, BookingRow, BookingStatus
  <2>2. TypeOK'
    BY <1>0, <1>4, <2>1 DEF ExpirePending, TypeOK, StoreTypeOK
  <2>3. \A b \in Booking :
          BookingExists(b)' => /\ BookingExists(b)
                               /\ bookings'[b].facility = bookings[b].facility
                               /\ bookings'[b].owner = bookings[b].owner
    BY <1>0, <1>4, BookingRowColumns DEF ExpirePending, BookingExists, BookingRow
  <2>4. FacilityAndOwnerExist'
    BY <1>4, <1>a, <2>3 DEF ExpirePending, FacilityAndOwnerExist, FacilityExists
  <2> QED
    BY <2>2, <2>4
<1>5. ASSUME NEW u \in User, NEW f \in Facility, NEW c \in Condo, NEW ss \in SUBSET Slot,
             CreateFacility(u, f, c, ss) \/ UpdateFacility(u, f, c, ss)
      PROVE  Sound'
  <2>1. [condo |-> c, schedule |-> ss] \in FacilityRow
    BY DEF FacilityRow
  <2>2. TypeOK'
    BY <1>0, <1>5, <2>1 DEF CreateFacility, UpdateFacility, TypeOK, StoreTypeOK
  <2>3. FacilityAndOwnerExist'
    BY <1>0, <1>5, <1>a, <2>1, NoRowIsNoFacility
       DEF CreateFacility, UpdateFacility, FacilityAndOwnerExist, FacilityExists, BookingExists
  <2> QED
    BY <2>2, <2>3
<1>6. ASSUME NEW u \in User, NEW f \in Facility, DestroyFacility(u, f)
      PROVE  Sound'
  <2>1. TypeOK'
    BY <1>0, <1>6 DEF DestroyFacility, Cascade, TypeOK, StoreTypeOK
  <2>2. FacilityAndOwnerExist'
    BY <1>0, <1>6, <1>a
       DEF DestroyFacility, Cascade, FacilityAndOwnerExist, FacilityExists, BookingExists
  <2> QED
    BY <2>1, <2>2
<1>7. ASSUME NEW u \in User, OpenAccount(u)
      PROVE  Sound'
  BY <1>0, <1>7, <1>a
     DEF OpenAccount, TypeOK, StoreTypeOK, FacilityAndOwnerExist, FacilityExists, BookingExists
<1>8. ASSUME NEW a \in User, NEW u \in User, DestroyUser(a, u)
      PROVE  Sound'
  <2>1. /\ bookings' \in [Booking -> BookingRow \cup {NoRow}]
        /\ facilities' \in [Facility -> FacilityRow \cup {NoRow}]
        /\ \A b \in Booking :
             bookings'[b] = IF b \in BookingsOf(u) THEN NoRow ELSE bookings[b]
        /\ \A f \in Facility : FacilityExists(f)' <=> FacilityExists(f)
        /\ accounts' = accounts \ {u}
    BY <1>8, AccountClosed DEF DestroyUser
  <2>2. ASSUME NEW b \in Booking, BookingExists(b)'
        PROVE  FacilityExists(bookings[b].facility)' /\ bookings[b].owner \in accounts'
    BY <1>a, <2>1, <2>2 DEF BookingsOf, BookingExists
  <2>3. FacilityAndOwnerExist'
    BY <2>1, <2>2 DEF FacilityAndOwnerExist, BookingExists, FacilityExists
  <2> QED
    BY <1>0, <2>1, <2>3 DEF TypeOK, StoreTypeOK
<1>9. CASE UNCHANGED vars
  BY <1>9 DEF vars, TypeOK, StoreTypeOK, FacilityAndOwnerExist, FacilityExists, BookingExists
<1> QED
  BY <1>1, <1>2, <1>3, <1>4, <1>5, <1>6, <1>7, <1>8, <1>9, StepKinds

(* Whatever requests and jobs run, the rows stay well typed. *)
THEOREM TypeCorrect == Spec => []TypeOK
<1> QED
  BY InitSound, NextSound, PTL DEF Spec, Sound

(* No booking ever points to a facility or an owner that was destroyed. *)
THEOREM ReferencesHold == Spec => []FacilityAndOwnerExist
<1> QED
  BY InitSound, NextSound, PTL DEF Spec, Sound
-----------------------------------------------------------------------------
(* Messages *)

(* A change of status to a refusal always carries its message along. *)
LEMMA NextTold == Sound /\ RefusalsAreTold /\ [Next]_vars => RefusalsAreTold'
<1> SUFFICES ASSUME Sound, RefusalsAreTold, [Next]_vars,
                    NEW a \in Booking, bookings'[a] # NoRow,
                    bookings'[a].status \in Refused
             PROVE  bookings'[a].told = bookings'[a].status
  BY DEF RefusalsAreTold, BookingExists
<1>0. /\ bookings \in [Booking -> BookingRow \cup {NoRow}]
      /\ BookingExists(a) /\ bookings[a].status \in Refused
           => bookings[a].told = bookings[a].status
  BY DEF Sound, TypeOK, StoreTypeOK, RefusalsAreTold
<1>a. ASSUME bookings'[a] = bookings[a]
      PROVE  bookings'[a].told = bookings'[a].status
  BY <1>0, <1>a DEF BookingExists
<1>1. ASSUME NEW u \in User, NEW b \in Booking, NEW f \in Facility,
             NEW ss \in SUBSET Slot, CreateBooking(u, b, f, ss)
      PROVE  bookings'[a].told = bookings'[a].status
  BY <1>0, <1>1, <1>a DEF CreateBooking
<1>2. ASSUME NEW u \in User, NEW b \in Booking, NEW st \in BookingStatus,
             NEW g \in Facility, UpdateBooking(u, b, st, g)
      PROVE  bookings'[a].told = bookings'[a].status
  <2>1. CASE a = b
    <3>1. /\ bookings'[b].status = st
          /\ bookings'[b].told = Message(bookings[b].status, st, bookings[b].told)
      BY <1>2, UpdatedRow, UpdatedHistory
    <3>2. BookingExists(b)
      BY <1>2 DEF UpdateBooking
    <3> QED
      BY <1>0, <2>1, <3>1, <3>2 DEF Message, Refused
  <2>2. CASE a # b
    <3>1. bookings'[a] = bookings[a]
      BY <1>2, <2>2, UpdatedRow
    <3> QED
      BY <1>a, <3>1
  <2> QED
    BY <2>1, <2>2
<1>3. ASSUME NEW u \in User, NEW b \in Booking, DestroyBooking(u, b)
      PROVE  bookings'[a].told = bookings'[a].status
  BY <1>0, <1>3, <1>a DEF DestroyBooking
<1>4. ASSUME NEW E \in SUBSET Booking, ExpirePending(E)
      PROVE  bookings'[a].told = bookings'[a].status
  <2>1. a \notin E
    <3>1. SUFFICES ASSUME a \in E PROVE FALSE
      OBVIOUS
    <3>2. bookings[a] \in BookingRow
      BY <1>0, <1>4, <3>1 DEF ExpirePending, BookingExists
    <3>3. bookings'[a].status = "approved"
      BY <1>4, <3>1, <3>2 DEF ExpirePending, BookingRow
    <3> QED
      BY <3>3 DEF Refused
  <2> QED
    BY <1>4, <1>a, <2>1 DEF ExpirePending
<1>5. ASSUME NEW u \in User, NEW f \in Facility, DestroyFacility(u, f)
      PROVE  bookings'[a].told = bookings'[a].status
  BY <1>0, <1>5, <1>a DEF DestroyFacility, Cascade
<1>6. ASSUME NEW v \in User, NEW u \in User, DestroyUser(v, u)
      PROVE  bookings'[a].told = bookings'[a].status
  BY <1>0, <1>6, <1>a DEF DestroyUser, CascadeOfUser
<1>7. CASE bookings' = bookings
  BY <1>7, <1>a
<1> QED
  BY <1>1, <1>2, <1>3, <1>4, <1>5, <1>6, <1>7, StepKinds
     DEF Sound, CreateFacility, UpdateFacility, OpenAccount, vars

(* Every refusal is the last thing its owner was told, for any sequence of  *)
(* changes of status by any admins and runs of the expiration job.          *)
THEOREM RefusalsReachTheOwner == Spec => []RefusalsAreTold
<1>1. Init => RefusalsAreTold
  BY DEF Init, RefusalsAreTold, BookingExists
<1> QED
  BY <1>1, InitSound, NextSound, NextTold, PTL DEF Spec
-----------------------------------------------------------------------------
(* Double bookings *)

(* What the overlap validation establishes for the slots of a new booking.  *)
LEMMA NoOverlapMeansApart ==
  ASSUME NEW f \in Facility, NEW ss \in SUBSET Slot, NoOverlap(f, ss),
         NEW c \in Booking, Holds(c, f)
  PROVE  ss \cap bookings[c].slots = {}
  BY DEF NoOverlap, Held

(* A row that holds its slots after a step without having been reopened     *)
(* either held the same slots before, or is new and passed the validation.  *)
LEMMA HoldsBeforeOrNew ==
  ASSUME Sound, [Next]_vars, NEW a \in Booking, NEW f \in Facility,
         Holds(a, f)', ~bookings'[a].reopened
  PROVE  \/ /\ Holds(a, f)
            /\ bookings'[a].slots = bookings[a].slots
            /\ ~bookings[a].reopened
         \/ /\ ~BookingExists(a)
            /\ NoOverlap(f, bookings'[a].slots)
            /\ bookings'[a].slots \in SUBSET Slot
            /\ \A c \in Booking \ {a} : bookings'[c] = bookings[c]
<1> DEFINE Goal == \/ /\ Holds(a, f)
                      /\ bookings'[a].slots = bookings[a].slots
                      /\ ~bookings[a].reopened
                   \/ /\ ~BookingExists(a)
                      /\ NoOverlap(f, bookings'[a].slots)
                      /\ bookings'[a].slots \in SUBSET Slot
                      /\ \A c \in Booking \ {a} : bookings'[c] = bookings[c]
<1>0. /\ bookings \in [Booking -> BookingRow \cup {NoRow}]
      /\ bookings'[a] # NoRow
      /\ bookings'[a].status \in Active
      /\ bookings'[a].facility = f
  BY DEF Sound, TypeOK, StoreTypeOK, Holds, BookingExists
<1>a. ASSUME bookings'[a] = bookings[a]
      PROVE  Goal
  BY <1>0, <1>a DEF Holds, BookingExists
<1>1. ASSUME NEW u \in User, NEW b \in Booking, NEW g \in Facility,
             NEW ss \in SUBSET Slot, CreateBooking(u, b, g, ss)
      PROVE  Goal
  <2>1. CASE a = b
    BY <1>0, <1>1, <2>1 DEF CreateBooking
  <2>2. CASE a # b
    BY <1>0, <1>1, <1>a, <2>2 DEF CreateBooking
  <2> QED
    BY <2>1, <2>2
<1>2. ASSUME NEW u \in User, NEW b \in Booking, NEW st \in BookingStatus,
             NEW g \in Facility, UpdateBooking(u, b, st, g)
      PROVE  Goal
  <2>1. CASE a = b
    <3>1. /\ bookings'[b].status = st
          /\ bookings'[b].facility = g
          /\ bookings'[b].slots = bookings[b].slots
          /\ ~bookings[b].reopened
          /\ ~(bookings[b].status \in Refused /\ st \in Active)
          /\ g = bookings[b].facility
      BY <1>2, <2>1, UpdatedRow, UpdatedHistory
    <3>2. BookingExists(b) /\ bookings[b].status \in BookingStatus
      BY <1>2, BookingRowColumns DEF UpdateBooking, Sound
    <3> QED
      BY <1>0, <2>1, <3>1, <3>2 DEF Holds, Refused, Active, BookingStatus
  <2>2. CASE a # b
    <3>1. bookings'[a] = bookings[a]
      BY <1>2, <2>2, UpdatedRow
    <3> QED
      BY <1>a, <3>1
  <2> QED
    BY <2>1, <2>2
<1>3. ASSUME NEW u \in User, NEW b \in Booking, DestroyBooking(u, b)
      PROVE  Goal
  BY <1>0, <1>3, <1>a DEF DestroyBooking
<1>4. ASSUME NEW E \in SUBSET Booking, ExpirePending(E)
      PROVE  Goal
  <2>1. CASE a \in E
    <3>1. bookings[a] \in BookingRow /\ BookingExists(a) /\ bookings[a].status = "pending"
      BY <1>0, <1>4, <2>1 DEF ExpirePending, BookingExists
    <3>2. /\ bookings'[a].facility = bookings[a].facility
          /\ bookings'[a].slots = bookings[a].slots
          /\ bookings'[a].reopened = bookings[a].reopened
      BY <1>4, <2>1, <3>1 DEF ExpirePending, BookingRow
    <3> QED
      BY <1>0, <3>1, <3>2 DEF Holds, Active
  <2>2. CASE a \notin E
    BY <1>4, <1>a, <2>2 DEF ExpirePending
  <2> QED
    BY <2>1, <2>2
<1>5. ASSUME NEW u \in User, NEW g \in Facility, DestroyFacility(u, g)
      PROVE  Goal
  BY <1>0, <1>5, <1>a DEF DestroyFacility, Cascade
<1>6. ASSUME NEW v \in User, NEW u \in User, DestroyUser(v, u)
      PROVE  Goal
  BY <1>0, <1>6, <1>a DEF DestroyUser, CascadeOfUser
<1>7. CASE bookings' = bookings
  BY <1>7, <1>a
<1> QED
  BY <1>1, <1>2, <1>3, <1>4, <1>5, <1>6, <1>7, StepKinds
     DEF Sound, CreateFacility, UpdateFacility, OpenAccount, vars

(* Of two rows that clash after a step and were never reopened, at most one *)
(* is new; the validation saw the other.                                    *)
LEMMA NextApart == Sound /\ ClashesAreReopened /\ [Next]_vars => ClashesAreReopened'
<1> SUFFICES ASSUME Sound, ClashesAreReopened, [Next]_vars,
                    NEW a \in Booking, NEW b \in Booking, NEW f \in Facility,
                    a # b, Holds(a, f)', Holds(b, f)',
                    bookings'[a].slots \cap bookings'[b].slots # {},
                    ~bookings'[a].reopened, ~bookings'[b].reopened
             PROVE  FALSE
  BY DEF ClashesAreReopened, Clash
<1>1. CASE Holds(a, f) /\ Holds(b, f) /\ ~bookings[a].reopened /\ ~bookings[b].reopened
           /\ bookings'[a].slots = bookings[a].slots
           /\ bookings'[b].slots = bookings[b].slots
  BY <1>1 DEF ClashesAreReopened, Clash
<1>2. CASE /\ ~BookingExists(a)
           /\ NoOverlap(f, bookings'[a].slots)
           /\ bookings'[a].slots \in SUBSET Slot
           /\ \A c \in Booking \ {a} : bookings'[c] = bookings[c]
  BY <1>2, NoOverlapMeansApart DEF Holds, BookingExists
<1>3. CASE /\ ~BookingExists(b)
           /\ NoOverlap(f, bookings'[b].slots)
           /\ bookings'[b].slots \in SUBSET Slot
           /\ \A c \in Booking \ {b} : bookings'[c] = bookings[c]
  BY <1>3, NoOverlapMeansApart DEF Holds, BookingExists
<1> QED
  BY <1>1, <1>2, <1>3, HoldsBeforeOrNew

(* Without concurrency, only a reopened booking is ever double booked.      *)
THEOREM DoubleBookingsAreReopened == Spec => []ClashesAreReopened
<1>1. Init => ClashesAreReopened
  BY DEF Init, ClashesAreReopened, Clash, Holds, BookingExists
<1> QED
  BY <1>1, InitSound, NextSound, NextApart, PTL DEF Spec
-----------------------------------------------------------------------------
(* Conservation of slots *)

LEMMA HeldByABooking ==
  ASSUME NEW f, NEW s
  PROVE  /\ s \in Held(f) <=> \E b \in Booking : Holds(b, f) /\ s \in bookings[b].slots
         /\ (s \in Held(f))' <=>
              \E b \in Booking : Holds(b, f)' /\ s \in bookings'[b].slots
  BY DEF Held, Holds, BookingExists

(* What the two schedule operations do to the schedule of each facility.    *)
LEMMA ScheduleAfter ==
  ASSUME TypeOK, NEW g \in Facility, FacilityExists(g), NEW ss \in SUBSET Slot,
         NEW f \in Facility
  PROVE  /\ Remove(g, ss)[g].schedule = Offered(g) \ ss
         /\ Restore(g, ss)[g].schedule = Offered(g) \cup ss
         /\ f # g => /\ Remove(g, ss)[f] = facilities[f]
                    /\ Restore(g, ss)[f] = facilities[f]
<1>1. facilities \in [Facility -> FacilityRow \cup {NoRow}] /\ facilities[g] \in FacilityRow
  BY FacilityRowColumns DEF TypeOK, StoreTypeOK
<1> QED
  BY <1>1 DEF Remove, Restore, Offered, FacilityRow

(* A slot on offer at f before a booking step is on offer or booked after.  *)
LEMMA OfferedStaysKnown ==
  ASSUME Sound, [Next]_vars, bookings' # bookings,
         NEW f \in Facility, Stays(f), NEW s \in Offered(f)
  PROVE  s \in Offered(f)' \/ s \in Held(f)'
<1>0. /\ TypeOK
      /\ bookings \in [Booking -> BookingRow \cup {NoRow}]
      /\ facilities \in [Facility -> FacilityRow \cup {NoRow}]
      /\ FacilityExists(f)
  BY DEF Sound, TypeOK, StoreTypeOK, Stays
<1>1. ASSUME NEW u \in User, NEW b \in Booking, NEW g \in Facility,
             NEW ss \in SUBSET Slot, CreateBooking(u, b, g, ss)
      PROVE  s \in Offered(f)' \/ s \in Held(f)'
  <2>1. CASE f = g /\ s \in ss
    <3>1. /\ bookings'[b] # NoRow
          /\ bookings'[b].status = "pending"
          /\ bookings'[b].facility = g
          /\ bookings'[b].slots = ss
      BY <1>0, <1>1, NewBookingIsRow, NoRowIsNoBooking DEF CreateBooking
    <3>2. Holds(b, f)' /\ s \in bookings'[b].slots
      BY <2>1, <3>1 DEF Holds, BookingExists, Active
    <3> QED
      BY <3>2, HeldByABooking
  <2>2. CASE ~(f = g /\ s \in ss)
    <3>1. /\ Remove(g, ss)[g].schedule = Offered(g) \ ss
          /\ f # g => Remove(g, ss)[f] = facilities[f]
      BY <1>0, <1>1, ScheduleAfter DEF CreateBooking
    <3> QED
      BY <1>1, <2>2, <3>1 DEF CreateBooking, Offered
  <2> QED
    BY <2>1, <2>2
<1>2. ASSUME NEW u \in User, NEW b \in Booking, NEW st \in BookingStatus,
             NEW g \in Facility, UpdateBooking(u, b, st, g)
      PROVE  s \in Offered(f)'
  <2>1. /\ BookingExists(b) /\ FacilityExists(g)
        /\ facilities' = facilities \/ facilities' = Restore(g, bookings[b].slots)
    BY <1>2 DEF UpdateBooking
  <2>2. /\ Restore(g, bookings[b].slots)[g].schedule = Offered(g) \cup bookings[b].slots
        /\ f # g => Restore(g, bookings[b].slots)[f] = facilities[f]
    BY <1>0, <2>1, ScheduleAfter, BookingRowColumns
  <2> QED
    BY <2>1, <2>2 DEF Offered
<1>3. ASSUME NEW u \in User, NEW b \in Booking, DestroyBooking(u, b)
      PROVE  s \in Offered(f)'
  <2> DEFINE g == bookings[b].facility
  <2>1. BookingExists(b) /\ facilities' = Restore(g, bookings[b].slots)
    BY <1>3 DEF DestroyBooking
  <2>2. g \in Facility /\ FacilityExists(g) /\ bookings[b].slots \in SUBSET Slot
    BY <1>0, <2>1, BookingRowColumns DEF Sound, FacilityAndOwnerExist
  <2>3. /\ Restore(g, bookings[b].slots)[g].schedule = Offered(g) \cup bookings[b].slots
        /\ f # g => Restore(g, bookings[b].slots)[f] = facilities[f]
    BY <1>0, <2>2, ScheduleAfter
  <2> QED
    BY <2>1, <2>3 DEF Offered
<1>4. ASSUME NEW E \in SUBSET Booking, ExpirePending(E)
      PROVE  s \in Offered(f)'
  BY <1>4 DEF ExpirePending, Offered
<1>5. ASSUME NEW u \in User, NEW g \in Facility, DestroyFacility(u, g)
      PROVE  s \in Offered(f)'
  BY <1>0, <1>5 DEF DestroyFacility, Offered, Stays, FacilityExists
<1>6. ASSUME NEW v \in User, NEW u \in User, DestroyUser(v, u)
      PROVE  s \in Offered(f)'
  BY <1>0, <1>6, AccountClosed
<1> QED
  BY <1>0, <1>1, <1>2, <1>3, <1>4, <1>5, <1>6, StepKinds
     DEF CreateFacility, UpdateFacility, OpenAccount, vars

(* So is a slot that a booking held there, unless the booking moves away.   *)
LEMMA HeldStaysKnown ==
  ASSUME Sound, [Next]_vars, bookings' # bookings,
         NEW f \in Facility, Stays(f),
         NEW a \in Booking, Holds(a, f), ~Moved(a), NEW s \in bookings[a].slots
  PROVE  s \in Offered(f)' \/ s \in Held(f)'
<1>0. /\ TypeOK
      /\ bookings \in [Booking -> BookingRow \cup {NoRow}]
      /\ facilities \in [Facility -> FacilityRow \cup {NoRow}]
      /\ FacilityExists(f)
      /\ BookingExists(a) /\ bookings[a].status \in Active /\ bookings[a].facility = f
      /\ bookings[a].slots \in SUBSET Slot
  BY BookingRowColumns DEF Sound, TypeOK, StoreTypeOK, Stays, Holds
<1>a. ASSUME bookings'[a] = bookings[a]
      PROVE  s \in Held(f)'
  BY <1>0, <1>a, HeldByABooking DEF Holds, BookingExists
<1>1. ASSUME NEW u \in User, NEW b \in Booking, NEW g \in Facility,
             NEW ss \in SUBSET Slot, CreateBooking(u, b, g, ss)
      PROVE  s \in Held(f)'
  BY <1>0, <1>1, <1>a DEF CreateBooking, BookingExists
<1>2. ASSUME NEW u \in User, NEW b \in Booking, NEW st \in BookingStatus,
             NEW g \in Facility, UpdateBooking(u, b, st, g)
      PROVE  s \in Offered(f)' \/ s \in Held(f)'
  <2>1. CASE a # b
    <3>1. bookings'[a] = bookings[a]
      BY <1>2, <2>1, UpdatedRow
    <3> QED
      BY <1>a, <3>1
  <2>2. CASE a = b
    <3>1. /\ bookings'[a] \in BookingRow
          /\ bookings'[a].status = st
          /\ bookings'[a].facility = g
          /\ bookings'[a].slots = bookings[a].slots
      BY <1>2, <2>2, UpdatedRow
    <3>2. g = f /\ bookings'[a] # NoRow
      BY <1>0, <3>1, NoRowIsNoBooking DEF Moved, RowStays, BookingExists
    <3>3. CASE st \in Active
      <4>1. Holds(a, f)' /\ s \in bookings'[a].slots
        BY <3>1, <3>2, <3>3 DEF Holds, BookingExists
      <4> QED
        BY <4>1, HeldByABooking
    <3>4. CASE st \notin Active
      <4>1. facilities' = Restore(f, bookings[a].slots)
        BY <1>0, <1>2, <2>2, <3>2, <3>4
           DEF UpdateBooking, GivesBack, Active, Refused, BookingStatus
      <4>2. Restore(f, bookings[a].slots)[f].schedule = Offered(f) \cup bookings[a].slots
        BY <1>0, ScheduleAfter
      <4> QED
        BY <4>1, <4>2 DEF Offered
    <3> QED
      BY <3>3, <3>4
  <2> QED
    BY <2>1, <2>2
<1>3. ASSUME NEW u \in User, NEW b \in Booking, DestroyBooking(u, b)
      PROVE  s \in Offered(f)' \/ s \in Held(f)'
  <2>1. CASE a # b
    BY <1>0, <1>3, <1>a, <2>1 DEF DestroyBooking
  <2>2. CASE a = b
    <3>1. facilities' = Restore(f, bookings[a].slots)
      BY <1>0, <1>3, <2>2 DEF DestroyBooking
    <3>2. Restore(f, bookings[a].slots)[f].schedule = Offered(f) \cup bookings[a].slots
      BY <1>0, ScheduleAfter
    <3> QED
      BY <3>1, <3>2 DEF Offered
  <2> QED
    BY <2>1, <2>2
<1>4. ASSUME NEW E \in SUBSET Booking, ExpirePending(E)
      PROVE  s \in Held(f)'
  <2>1. bookings[a] \in BookingRow
    BY <1>0 DEF BookingExists
  <2>2. /\ bookings'[a] # NoRow
        /\ bookings'[a].status \in Active
        /\ bookings'[a].facility = f
        /\ bookings'[a].slots = bookings[a].slots
    <3>1. CASE a \in E
      <4>1. bookings'[a] = [bookings[a] EXCEPT !.status = "approved"]
        BY <1>4, <3>1 DEF ExpirePending
      <4>2. bookings'[a] \in BookingRow
        BY <2>1, <4>1 DEF BookingRow, BookingStatus
      <4> QED
        BY <1>0, <2>1, <4>1, <4>2, NoRowIsNoBooking DEF BookingRow, Active
    <3>2. CASE a \notin E
      BY <1>0, <1>4, <3>2 DEF ExpirePending, BookingExists
    <3> QED
      BY <3>1, <3>2
  <2>3. Holds(a, f)' /\ s \in bookings'[a].slots
    BY <2>2 DEF Holds, BookingExists
  <2> QED
    BY <2>3, HeldByABooking
<1>5. ASSUME NEW u \in User, NEW g \in Facility, DestroyFacility(u, g)
      PROVE  s \in Held(f)'
  <2>1. f # g
    BY <1>0, <1>5 DEF DestroyFacility, Stays, FacilityExists
  <2> QED
    BY <1>0, <1>5, <1>a, <2>1 DEF DestroyFacility, Cascade
<1>6. ASSUME NEW v \in User, NEW u \in User, DestroyUser(v, u)
      PROVE  s \in Offered(f)' \/ s \in Held(f)'
  <2>1. CASE a \notin BookingsOf(u)
    BY <1>0, <1>6, <1>a, <2>1, AccountClosed
  <2>2. CASE a \in BookingsOf(u)
    <3>1. s \in SlotsAt(u, f)
      BY <1>0, <2>2, SlotsOfUser
    <3> QED
      BY <1>0, <1>6, <3>1, AccountClosed
  <2> QED
    BY <2>1, <2>2
<1> QED
  BY <1>0, <1>1, <1>2, <1>3, <1>4, <1>5, <1>6, StepKinds
     DEF CreateFacility, UpdateFacility, OpenAccount, vars

(* No booking operation loses a slot, whatever happened before it.          *)
THEOREM NoSlotIsLost == Spec => SlotsNeverLost
<1>1. ASSUME Sound, [Next]_vars, bookings' # bookings,
             NEW f \in Facility, Stays(f), NEW s \in Known(f) \ Known(f)'
      PROVE  \E b \in Booking : Moved(b) /\ s \in bookings[b].slots
  <2>1. s \in Offered(f) \/ s \in Held(f)
    BY <1>1 DEF Known
  <2>2. s \notin Offered(f)' /\ s \notin Held(f)'
    BY <1>1 DEF Known
  <2>3. s \in Held(f)
    BY <1>1, <2>1, <2>2, OfferedStaysKnown
  <2>4. PICK a \in Booking : Holds(a, f) /\ s \in bookings[a].slots
    BY <2>3, HeldByABooking
  <2>5. Moved(a)
    BY <1>1, <2>2, <2>4, HeldStaysKnown
  <2> QED
    BY <2>4, <2>5
<1>2. Sound /\ [Next]_vars =>
        [bookings' # bookings =>
           \A f \in Facility : Stays(f) =>
             \A s \in Known(f) \ Known(f)' :
               \E b \in Booking : Moved(b) /\ s \in bookings[b].slots]_vars
  BY <1>1
<1> QED
  BY <1>2, InitSound, NextSound, PTL DEF Spec, SlotsNeverLost
-----------------------------------------------------------------------------
(* Where slots come from *)

(* What the row of a may have been when it holds s at f after a booking     *)
(* step: it held s there already, it was moved or revived, or it is new and *)
(* took from the schedule a slot that nobody held.                          *)
Origin(a, f, s) ==
  \/ Holds(a, f) /\ s \in bookings[a].slots
  \/ (Moved(a) \/ Revived(a)) /\ s \in bookings[a].slots
  \/ Offered(f) # {} => s \in Known(f)

LEMMA HeldHasAnOrigin ==
  ASSUME Sound, [Next]_vars, bookings' # bookings,
         NEW f \in Facility, Stays(f),
         NEW a \in Booking, Holds(a, f)', NEW s \in bookings'[a].slots
  PROVE  /\ Origin(a, f, s)
         /\ \/ Holds(a, f) /\ s \in bookings[a].slots
            \/ (Moved(a) \/ Revived(a)) /\ s \in bookings[a].slots
            \/ s \notin Offered(f)'
<1> DEFINE Before == Holds(a, f) /\ s \in bookings[a].slots
           Back == (Moved(a) \/ Revived(a)) /\ s \in bookings[a].slots
           Taken == (Offered(f) # {} => s \in Known(f)) /\ s \notin Offered(f)'
<1>0. /\ TypeOK
      /\ bookings \in [Booking -> BookingRow \cup {NoRow}]
      /\ bookings'[a] # NoRow /\ bookings'[a].status \in Active /\ bookings'[a].facility = f
  BY DEF Sound, TypeOK, StoreTypeOK, Holds, BookingExists
<1>a. ASSUME bookings'[a] = bookings[a]
      PROVE  Before
  BY <1>0, <1>a DEF Holds, BookingExists
<1>1. ASSUME NEW u \in User, NEW b \in Booking, NEW g \in Facility,
             NEW ss \in SUBSET Slot, CreateBooking(u, b, g, ss)
      PROVE  Before \/ Taken
  <2>1. CASE a # b
    BY <1>0, <1>1, <1>a, <2>1 DEF CreateBooking
  <2>2. CASE a = b
    <3>1. g = f /\ s \in ss /\ FacilityExists(f) /\ facilities' = Remove(f, ss)
      BY <1>0, <1>1, <2>2 DEF CreateBooking
    <3>2. Offered(f) # {} => s \in Known(f)
      BY <1>1, <3>1 DEF CreateBooking, WithinHours, Known
    <3>3. Remove(f, ss)[f].schedule = Offered(f) \ ss
      BY <1>0, <3>1, ScheduleAfter
    <3> QED
      BY <3>1, <3>2, <3>3 DEF Offered
  <2> QED
    BY <2>1, <2>2
<1>2. ASSUME NEW u \in User, NEW b \in Booking, NEW st \in BookingStatus,
             NEW g \in Facility, UpdateBooking(u, b, st, g)
      PROVE  Before \/ Back
  <2>1. CASE a # b
    <3>1. bookings'[a] = bookings[a]
      BY <1>2, <2>1, UpdatedRow
    <3> QED
      BY <1>a, <3>1
  <2>2. CASE a = b
    <3>1. bookings'[a].slots = bookings[a].slots /\ RowStays(a)
      BY <1>0, <1>2, <2>2, UpdatedRow DEF UpdateBooking, RowStays, BookingExists
    <3>2. bookings[a].status \in Active \/ bookings[a].status \in Refused
      BY <1>0, <3>1, BookingRowColumns DEF RowStays, BookingStatus, Active, Refused
    <3> QED
      BY <1>0, <3>1, <3>2 DEF Moved, Revived, RowStays, Holds
  <2> QED
    BY <2>1, <2>2
<1>3. ASSUME NEW u \in User, NEW b \in Booking, DestroyBooking(u, b)
      PROVE  Before
  BY <1>0, <1>3, <1>a DEF DestroyBooking
<1>4. ASSUME NEW E \in SUBSET Booking, ExpirePending(E)
      PROVE  Before
  <2>1. CASE a \in E
    <3>1. bookings[a] \in BookingRow /\ BookingExists(a) /\ bookings[a].status = "pending"
      BY <1>0, <1>4, <2>1 DEF ExpirePending, BookingExists
    <3>2. /\ bookings'[a].facility = bookings[a].facility
          /\ bookings'[a].slots = bookings[a].slots
      BY <1>4, <2>1, <3>1 DEF ExpirePending, BookingRow
    <3> QED
      BY <1>0, <3>1, <3>2 DEF Holds, Active
  <2>2. CASE a \notin E
    BY <1>4, <1>a, <2>2 DEF ExpirePending
  <2> QED
    BY <2>1, <2>2
<1>5. ASSUME NEW u \in User, NEW g \in Facility, DestroyFacility(u, g)
      PROVE  Before
  BY <1>0, <1>5, <1>a DEF DestroyFacility, Cascade
<1>6. ASSUME NEW v \in User, NEW u \in User, DestroyUser(v, u)
      PROVE  Before
  BY <1>0, <1>6, <1>a DEF DestroyUser, CascadeOfUser
<1>7. Before \/ Back \/ Taken
  BY <1>0, <1>1, <1>2, <1>3, <1>4, <1>5, <1>6, StepKinds
     DEF CreateFacility, UpdateFacility, OpenAccount, vars
<1> QED
  BY <1>7 DEF Origin

(* A slot that comes on offer was given back: by a booking that held it and *)
(* holds it no more, or by one that moves or was refused before.            *)
LEMMA OfferHasAnOrigin ==
  ASSUME Sound, [Next]_vars, bookings' # bookings,
         NEW f \in Facility, Stays(f), NEW s \in Offered(f)'
  PROVE  \/ s \in Offered(f)
         \/ \E b \in Booking :
              /\ s \in bookings[b].slots
              /\ \/ Moved(b) \/ DestroyedRefused(b)
                 \/ Holds(b, f) /\ ~Holds(b, f)'
<1> DEFINE GivenBack(b) == /\ s \in bookings[b].slots
                           /\ \/ Moved(b) \/ DestroyedRefused(b)
                              \/ Holds(b, f) /\ ~Holds(b, f)'
<1>0. /\ TypeOK
      /\ bookings \in [Booking -> BookingRow \cup {NoRow}]
      /\ facilities \in [Facility -> FacilityRow \cup {NoRow}]
      /\ FacilityExists(f)
  BY DEF Sound, TypeOK, StoreTypeOK, Stays
<1>1. ASSUME NEW u \in User, NEW b \in Booking, NEW g \in Facility,
             NEW ss \in SUBSET Slot, CreateBooking(u, b, g, ss)
      PROVE  s \in Offered(f)
  <2>1. /\ Remove(g, ss)[g].schedule = Offered(g) \ ss
        /\ f # g => Remove(g, ss)[f] = facilities[f]
    BY <1>0, <1>1, ScheduleAfter DEF CreateBooking
  <2> QED
    BY <1>1, <2>1 DEF CreateBooking, Offered
<1>2. ASSUME NEW u \in User, NEW b \in Booking, NEW st \in BookingStatus,
             NEW g \in Facility, UpdateBooking(u, b, st, g)
      PROVE  s \in Offered(f) \/ GivenBack(b)
  <2>1. CASE ~(f = g /\ s \in bookings[b].slots /\ GivesBack(bookings[b].status, st))
    <3>1. BookingExists(b) /\ FacilityExists(g)
      BY <1>2 DEF UpdateBooking
    <3>2. /\ Restore(g, bookings[b].slots)[g].schedule = Offered(g) \cup bookings[b].slots
          /\ f # g => Restore(g, bookings[b].slots)[f] = facilities[f]
      BY <1>0, <3>1, ScheduleAfter, BookingRowColumns
    <3> QED
      BY <1>2, <2>1, <3>2 DEF UpdateBooking, Offered
  <2>2. CASE f = g /\ s \in bookings[b].slots /\ GivesBack(bookings[b].status, st)
    <3>1. /\ BookingExists(b) /\ bookings'[b] # NoRow
          /\ bookings'[b].status = st /\ bookings'[b].facility = f
      <4>1. BookingExists(b)
        BY <1>2 DEF UpdateBooking
      <4>2. /\ bookings'[b] \in BookingRow
            /\ bookings'[b].status = st /\ bookings'[b].facility = g
        BY <1>2, UpdatedRow
      <4> QED
        BY <2>2, <4>1, <4>2, NoRowIsNoBooking
    <3>2. bookings[b].status \in Active /\ st \notin Active
      BY <2>2 DEF GivesBack, Active, Refused
    <3> QED
      BY <2>2, <3>1, <3>2 DEF Moved, RowStays, BookingExists, Holds
  <2> QED
    BY <2>1, <2>2
<1>3. ASSUME NEW u \in User, NEW b \in Booking, DestroyBooking(u, b)
      PROVE  s \in Offered(f) \/ GivenBack(b)
  <2> DEFINE g == bookings[b].facility
  <2>1. BookingExists(b) /\ ~BookingExists(b)' /\ facilities' = Restore(g, bookings[b].slots)
    BY <1>0, <1>3 DEF DestroyBooking, BookingExists
  <2>2. /\ g \in Facility /\ FacilityExists(g) /\ bookings[b].slots \in SUBSET Slot
        /\ bookings[b].status \in Active \/ bookings[b].status \in Refused
    BY <1>0, <2>1, BookingRowColumns
    DEF Sound, FacilityAndOwnerExist, BookingStatus, Active, Refused
  <2>3. /\ Restore(g, bookings[b].slots)[g].schedule = Offered(g) \cup bookings[b].slots
        /\ f # g => Restore(g, bookings[b].slots)[f] = facilities[f]
    BY <1>0, <2>2, ScheduleAfter
  <2>4. s \in Offered(f) \/ (f = g /\ s \in bookings[b].slots)
    BY <2>1, <2>3 DEF Offered
  <2> QED
    BY <2>1, <2>2, <2>4 DEF DestroyedRefused, Holds
<1>4. ASSUME \/ \E E \in SUBSET Booking : ExpirePending(E)
             \/ \E u \in User, g \in Facility : DestroyFacility(u, g)
      PROVE  s \in Offered(f)
  BY <1>0, <1>4 DEF ExpirePending, DestroyFacility, Offered, Stays, FacilityExists
<1>5. ASSUME NEW v \in User, NEW u \in User, DestroyUser(v, u)
      PROVE  s \in Offered(f) \/ \E b \in Booking : GivenBack(b)
  <2>1. CASE s \in SlotsAt(u, f)
    <3>1. PICK b \in Booking : /\ b \in BookingsOf(u) /\ bookings[b].facility = f
                              /\ s \in bookings[b].slots
      BY <2>1, SlotsOfUser
    <3>2. BookingExists(b) /\ ~BookingExists(b)'
      BY <1>0, <1>5, <3>1, AccountClosed DEF BookingsOf, BookingExists
    <3>3. bookings[b].status \in Active \/ bookings[b].status \in Refused
      BY <1>0, <3>2, BookingRowColumns DEF BookingStatus, Active, Refused
    <3> QED
      BY <3>1, <3>2, <3>3 DEF DestroyedRefused, Holds
  <2>2. CASE s \notin SlotsAt(u, f)
    BY <1>0, <1>5, <2>2, AccountClosed
  <2> QED
    BY <2>1, <2>2
<1> HIDE DEF GivenBack
<1>6. s \in Offered(f) \/ \E b \in Booking : GivenBack(b)
  BY <1>0, <1>1, <1>2, <1>3, <1>4, <1>5, StepKinds
     DEF CreateFacility, UpdateFacility, OpenAccount, vars
<1> QED
  BY <1>6 DEF GivenBack

(* No booking operation makes a slot up: one that appears at a facility     *)
(* belongs to a booking that was moved, revived, or destroyed after its     *)
(* refusal (or to one that an empty schedule lets through, booking.rb:64).  *)
THEOREM SlotsComeFromBookings == Spec => SlotsHaveAnOrigin
<1>1. ASSUME Sound, [Next]_vars, bookings' # bookings,
             NEW f \in Facility, Stays(f), Offered(f) # {}, NEW s \in Known(f)' \ Known(f)
      PROVE  \E b \in Booking : /\ Moved(b) \/ Revived(b) \/ DestroyedRefused(b)
                                /\ s \in bookings[b].slots
  <2>1. s \notin Offered(f) /\ s \notin Held(f) /\ s \notin Known(f)
    BY <1>1 DEF Known
  <2>2. CASE s \in Held(f)'
    <3>1. PICK a \in Booking : Holds(a, f)' /\ s \in bookings'[a].slots
      BY <2>2, HeldByABooking
    <3>2. Origin(a, f, s)
      BY <1>1, <3>1, HeldHasAnOrigin
    <3> QED
      BY <1>1, <2>1, <3>2, HeldByABooking DEF Origin
  <2>3. CASE s \in Offered(f)'
    BY <1>1, <2>1, <2>3, OfferHasAnOrigin, HeldByABooking
  <2> QED
    BY <1>1, <2>2, <2>3 DEF Known
<1>2. Sound /\ [Next]_vars =>
        [bookings' # bookings =>
           \A f \in Facility : Stays(f) /\ Offered(f) # {} =>
             \A s \in Known(f)' \ Known(f) :
               \E b \in Booking : /\ Moved(b) \/ Revived(b) \/ DestroyedRefused(b)
                                  /\ s \in bookings[b].slots]_vars
  BY <1>1
<1> QED
  BY <1>2, InitSound, NextSound, PTL DEF Spec, SlotsHaveAnOrigin

(* A booked slot comes on offer again only through one of the causes that   *)
(* the model lists; the callbacks themselves keep the two apart.            *)
THEOREM DoubtsHaveCauses == Spec => DoubtHasACause
<1>1. ASSUME Sound, [Next]_vars, bookings' # bookings,
             NEW f \in Facility, Stays(f), NEW s \in Doubtful(f)' \ Doubtful(f)
      PROVE  \E b \in Booking :
               /\ \/ Moved(b) \/ Revived(b) \/ DestroyedRefused(b)
                  \/ \E c \in Booking : Clash(b, c) /\ s \in bookings[c].slots
               /\ s \in bookings[b].slots
  <2>1. s \in Offered(f)' /\ s \in Held(f)' /\ ~(s \in Offered(f) /\ s \in Held(f))
    BY <1>1 DEF Doubtful
  <2>2. PICK a \in Booking : Holds(a, f)' /\ s \in bookings'[a].slots
    BY <2>1, HeldByABooking
  <2>3. CASE (Moved(a) \/ Revived(a)) /\ s \in bookings[a].slots
    BY <2>3
  <2>4. CASE Holds(a, f) /\ s \in bookings[a].slots
    <3>1. s \notin Offered(f)
      BY <2>1, <2>4, HeldByABooking
    <3>2. PICK b \in Booking :
            /\ s \in bookings[b].slots
            /\ Moved(b) \/ DestroyedRefused(b) \/ (Holds(b, f) /\ ~Holds(b, f)')
      BY <1>1, <2>1, <3>1, OfferHasAnOrigin
    <3>3. CASE Holds(b, f) /\ ~Holds(b, f)'
      <4>1. Clash(b, a)
        BY <2>2, <2>4, <3>2, <3>3 DEF Clash
      <4> QED
        BY <2>4, <3>2, <4>1
    <3> QED
      BY <3>2, <3>3
  <2> QED
    BY <1>1, <2>1, <2>2, <2>3, <2>4, HeldHasAnOrigin
<1>2. Sound /\ [Next]_vars =>
        [bookings' # bookings =>
           \A f \in Facility : Stays(f) =>
             \A s \in Doubtful(f)' \ Doubtful(f) :
               \E b \in Booking :
                 /\ \/ Moved(b) \/ Revived(b) \/ DestroyedRefused(b)
                    \/ \E c \in Booking : Clash(b, c) /\ s \in bookings[c].slots
                 /\ s \in bookings[b].slots]_vars
  BY <1>1
<1> QED
  BY <1>2, InitSound, NextSound, PTL DEF Spec, DoubtHasACause
=============================================================================
