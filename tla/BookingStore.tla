---------------------------- MODULE BookingStore ----------------------------
(***************************************************************************)
(* The rows of the facilities and bookings tables, the users that have an  *)
(* account, and what the Booking, Facility and User models compute from    *)
(* them: the validations and callbacks as operators, for the modules that  *)
(* say when they run (Bookings: a request at a time; BookingTxn: statement *)
(* by statement).                                                          *)
(*                                                                         *)
(* A facility's availability_schedule (a hash: day -> list of times) is    *)
(* the set of slots (pairs of a day and a time) that it still offers, and  *)
(* a booking's booking_time_slots a set of slots in the same way.          *)
(***************************************************************************)
EXTENDS Policies

CONSTANTS
  Booking,      \* ids of rows of the bookings table
  Facility,     \* ids of rows of the facilities table
  Slot,         \* the slots a facility may offer
  Condo,        \* ids of condos
  User,         \* ids of users
  UserRole,     \* the role of each user
  UserCondo,    \* the condo of each user (NoCondo: none)
  NoCondo,
  NoRow         \* stands for a row that does not exist

ASSUME UserAssumption ==
  /\ UserRole \in [User -> Role]
  /\ UserCondo \in [User -> Condo \cup {NoCondo}]
  /\ NoCondo \notin Condo

VARIABLES
  facilities,   \* the row of each facility, or NoRow
  bookings,     \* the row of each booking, or NoRow
  accounts      \* the users that have a row; nobody else can sign in

Active == {"pending", "approved"}
Refused == {"rejected", "cancelled"}

FacilityRow == [condo : Condo, schedule : SUBSET Slot]

(* A booking may have no slots: booking_time_slots has to be present, and a *)
(* hash of days without times is.  told is the last message the owner was   *)
(* sent about the booking.  reopened is a history variable: has the row     *)
(* ever gone from a refused to an active status, or to another facility?    *)
BookingRow == [owner : User, facility : Facility, slots : SUBSET Slot,
               status : BookingStatus,
               told : BookingStatus \cup {"none"},
               reopened : BOOLEAN]

ASSUME NoRowAssumption == NoRow \notin FacilityRow \cup BookingRow

StoreTypeOK ==
  /\ facilities \in [Facility -> FacilityRow \cup {NoRow}]
  /\ bookings \in [Booking -> BookingRow \cup {NoRow}]
  /\ accounts \subseteq User

Account(u) == [id |-> u, role |-> UserRole[u], condo |-> UserCondo[u]]

FacilityExists(f) == facilities[f] # NoRow
BookingExists(b) == bookings[b] # NoRow

(* A booking that claims its slots at facility f. *)
Holds(b, f) ==
  BookingExists(b) /\ bookings[b].status \in Active /\ bookings[b].facility = f

Held(f) == UNION {bookings[b].slots : b \in {c \in Booking : Holds(c, f)}}

Offered(f) == facilities[f].schedule

CondoOf(b) == facilities[bookings[b].facility].condo

BookingsOf(u) == {b \in Booking : BookingExists(b) /\ bookings[b].owner = u}
-----------------------------------------------------------------------------
(* Faulty variants of the definitions below, each the way a plausible bug   *)
(* would change it.  They belong to no specification: a model in which one  *)
(* takes the place of the definition must violate a property.               *)
RemoveNothing(f, ss) == facilities
NoApprovedOverlap(f, ss) ==
  \A b \in Booking : Holds(b, f) /\ bookings[b].status = "approved"
                        => bookings[b].slots \cap ss = {}
AnyHours(f, ss) == TRUE
GivesBackApproved(was, st) == was = "approved" /\ st \in Refused
CancelsUntold(was, st, told) ==
  IF st # was /\ st \notin {"pending", "cancelled"} THEN st ELSE told
NoCascade(f) == bookings
-----------------------------------------------------------------------------
(* What the callbacks of Booking do to the schedules: the slots of a new    *)
(* booking are taken from its facility, those of a refused or destroyed one *)
(* are given back.                                                          *)
Remove(f, ss) == [facilities EXCEPT ![f].schedule = @ \ ss]
Restore(f, ss) == [facilities EXCEPT ![f].schedule = @ \cup ss]

(* Booking#no_overlapping_bookings *)
NoOverlap(f, ss) == ss \cap Held(f) = {}

(* Booking#booking_within_facility_hours: a facility whose schedule is      *)
(* empty is not checked at all.  Days without times, which a set of slots   *)
(* does not show, make the code refuse some bookings more and none less     *)
(* (ScheduleHash!HoursAgree).                                               *)
WithinHours(f, ss) == Offered(f) = {} \/ ss \subseteq Offered(f)

(* Booking#update_facility_availability: does the change of status give the *)
(* slots back?                                                              *)
GivesBack(was, st) == was \in Active /\ st \in Refused

(* The message the owner has after a change of status: none goes with a     *)
(* return to pending.                                                       *)
Message(was, st, told) == IF st # was /\ st # "pending" THEN st ELSE told

(* has_many :bookings, dependent: :destroy *)
Cascade(f) ==
  [b \in Booking |->
     IF BookingExists(b) /\ bookings[b].facility = f THEN NoRow ELSE bookings[b]]

(* User: has_many :bookings, dependent: :destroy, each with its callback.   *)
CascadeOfUser(u) ==
  [b \in Booking |-> IF b \in BookingsOf(u) THEN NoRow ELSE bookings[b]]

SlotsAt(u, f) ==
  UNION {bookings[b].slots : b \in {c \in BookingsOf(u) : bookings[c].facility = f}}

RestoreOfUser(u) ==
  [f \in Facility |->
     IF FacilityExists(f)
     THEN [facilities[f] EXCEPT !.schedule = @ \cup SlotsAt(u, f)]
     ELSE facilities[f]]

(* The list of the admins, or one's own registration page. *)
MayClose(a, u) == UserDestroy(Account(a), u) \/ a = u
-----------------------------------------------------------------------------
(* Two active bookings of a facility that share a slot. *)
Clash(b, c) ==
  \E f \in Facility : /\ b # c /\ Holds(b, f) /\ Holds(c, f)
                      /\ bookings[b].slots \cap bookings[c].slots # {}

Known(f) == Offered(f) \cup Held(f)

Doubtful(f) == Offered(f) \cap Held(f)
=============================================================================
