------------------------------ MODULE Bookings ------------------------------
(***************************************************************************)
(* Bookings and facility schedules with every request and job run alone:   *)
(* each controller action (with the validations, callbacks and             *)
(* notification it sets off) and each run of the expiration job is one     *)
(* atomic step.  This is what the application does on a single thread, and *)
(* the abstract specification that BookingTxn refines when it has a single *)
(* worker.                                                                 *)
(***************************************************************************)
EXTENDS BookingStore

CONSTANT
  MayMove       \* does a PATCH of a booking carry facility_id?  The page sends
                \* status alone, the controller permits facility_id as well

ASSUME MayMoveAssumption == MayMove \in BOOLEAN

vars == <<facilities, bookings, accounts>>

TypeOK == StoreTypeOK
-----------------------------------------------------------------------------
(* Faulty variant (see BookingStore): the condo of the signed-in user,      *)
(* which a super admin may not have, and not the one of the form.           *)
CreatesInOwnCondo(u, f, c, ss) ==
  /\ FacilityCreate(Account(u))
  /\ ~FacilityExists(f)
  /\ facilities' = [facilities EXCEPT ![f] = [condo |-> UserCondo[u], schedule |-> ss]]
  /\ UNCHANGED <<bookings, accounts>>
-----------------------------------------------------------------------------
CreateBooking(u, b, f, ss) ==
  /\ BookingCreate(Account(u))
  /\ ~BookingExists(b) /\ FacilityExists(f)
  /\ NoOverlap(f, ss)
  /\ WithinHours(f, ss)
  /\ bookings' = [bookings EXCEPT ![b] =
       [owner |-> u, facility |-> f, slots |-> ss,
        status |-> "pending", told |-> "pending", reopened |-> FALSE]]
  /\ facilities' = Remove(f, ss)
  /\ UNCHANGED accounts

(* A PATCH of booking b: its status becomes st and its facility g (the      *)
(* facility it has, when the request carries no facility_id).  Nothing      *)
(* validates the transition, the slots or the new facility's schedule.      *)
UpdateBooking(u, b, st, g) ==
  LET old == bookings[b] IN
  /\ BookingExists(b) /\ FacilityExists(g)
  /\ BookingUpdate(Account(u), CondoOf(b))
  /\ g # old.facility => MayMove
  /\ bookings' = [bookings EXCEPT
       ![b].status = st,
       ![b].facility = g,
       ![b].told = Message(old.status, st, @),
       ![b].reopened = \/ @
                       \/ old.status \in Refused /\ st \in Active
                       \/ g # old.facility]
  /\ facilities' = IF GivesBack(old.status, st) THEN Restore(g, old.slots)
                                                ELSE facilities
  /\ UNCHANGED accounts

(* The slots come back whatever the status of the destroyed booking. *)
DestroyBooking(u, b) ==
  LET old == bookings[b] IN
  /\ BookingExists(b)
  /\ BookingDestroy(Account(u), old.owner, old.status, CondoOf(b))
  /\ bookings' = [bookings EXCEPT ![b] = NoRow]
  /\ facilities' = Restore(old.facility, old.slots)
  /\ UNCHANGED accounts

(* BookingExpirationJob: the bookings of E have been pending for a day. *)
ExpirePending(E) ==
  /\ \A b \in E : BookingExists(b) /\ bookings[b].status = "pending"
  /\ bookings' = [b \in Booking |->
       IF b \in E THEN [bookings[b] EXCEPT !.status = "approved"] ELSE bookings[b]]
  /\ UNCHANGED <<facilities, accounts>>
-----------------------------------------------------------------------------
CreateFacility(u, f, c, ss) ==
  /\ FacilityCreate(Account(u))
  /\ ~FacilityExists(f)
  /\ facilities' = [facilities EXCEPT ![f] = [condo |-> c, schedule |-> ss]]
  /\ UNCHANGED <<bookings, accounts>>

(* The form sends the whole schedule; the controller stores it whatever is  *)
(* booked.                                                                  *)
UpdateFacility(u, f, c, ss) ==
  /\ FacilityExists(f)
  /\ FacilityUpdate(Account(u), facilities[f].condo)
  /\ facilities' = [facilities EXCEPT ![f] = [condo |-> c, schedule |-> ss]]
  /\ UNCHANGED <<bookings, accounts>>

DestroyFacility(u, f) ==
  /\ FacilityExists(f)
  /\ FacilityDestroy(Account(u))
  /\ facilities' = [facilities EXCEPT ![f] = NoRow]
  /\ bookings' = Cascade(f)
  /\ UNCHANGED accounts
-----------------------------------------------------------------------------
(* A new user, who signs up or is created by an admin. *)
OpenAccount(u) ==
  /\ u \notin accounts
  /\ accounts' = accounts \cup {u}
  /\ UNCHANGED <<facilities, bookings>>

(* The bookings of a user are destroyed with the account.  (An invitation   *)
(* that names the user keeps it from being destroyed: then nothing is.)     *)
DestroyUser(a, u) ==
  /\ u \in accounts /\ MayClose(a, u)
  /\ accounts' = accounts \ {u}
  /\ bookings' = CascadeOfUser(u)
  /\ facilities' = RestoreOfUser(u)
-----------------------------------------------------------------------------
Init ==
  /\ facilities = [f \in Facility |-> NoRow]
  /\ bookings = [b \in Booking |-> NoRow]
  /\ accounts = User

BookingRequest(u) ==
  \E b \in Booking :
    \/ \E f \in Facility, ss \in SUBSET Slot : CreateBooking(u, b, f, ss)
    \/ \E st \in BookingStatus, g \in Facility : UpdateBooking(u, b, st, g)
    \/ DestroyBooking(u, b)

FacilityRequest(u) ==
  \E f \in Facility :
    \/ \E c \in Condo, ss \in SUBSET Slot :
         CreateFacility(u, f, c, ss) \/ UpdateFacility(u, f, c, ss)
    \/ DestroyFacility(u, f)

AccountRequest(u) == \E v \in User : DestroyUser(u, v)

(* Requests are made by users who are signed in. *)
Next ==
  \/ \E u \in accounts : BookingRequest(u) \/ FacilityRequest(u) \/ AccountRequest(u)
  \/ \E u \in User : OpenAccount(u)
  \/ \E E \in SUBSET Booking : ExpirePending(E)

Spec == Init /\ [][Next]_vars
-----------------------------------------------------------------------------
(* Safety invariants *)

(* Every booking belongs to a facility and an owner that exist: destroying  *)
(* one of them takes the bookings along (dependent: :destroy in Facility    *)
(* and User), and neither a creation nor a move accepts a missing facility  *)
(* (belongs_to :facility).                                                  *)
FacilityAndOwnerExist ==
  \A b \in Booking : BookingExists(b) =>
    FacilityExists(bookings[b].facility) /\ bookings[b].owner \in accounts

(* A refusal reaches the owner: whatever the sequence of changes of status, *)
(* the last message about a rejected or cancelled booking says so.          *)
RefusalsAreTold ==
  \A b \in Booking : BookingExists(b) /\ bookings[b].status \in Refused
                        => bookings[b].told = bookings[b].status

(* The overlap validation, which looks only at new bookings, keeps active   *)
(* bookings of a facility apart as long as no row has been reopened: of two *)
(* that share a slot, one came back from a refusal or from elsewhere.       *)
ClashesAreReopened ==
  \A b, c \in Booking :
    Clash(b, c) => bookings[b].reopened \/ bookings[c].reopened
-----------------------------------------------------------------------------
(* Action properties.  A step that changes bookings is a request about a    *)
(* booking, the expiration job or the end of a facility or of an account;   *)
(* the facility forms leave every booking alone.                            *)

Stays(f) == FacilityExists(f) /\ FacilityExists(f)'

RowStays(b) == BookingExists(b) /\ BookingExists(b)'

Moved(b) == RowStays(b) /\ bookings'[b].facility # bookings[b].facility

Revived(b) ==
  /\ RowStays(b)
  /\ bookings[b].status \in Refused /\ bookings'[b].status \in Active

DestroyedRefused(b) ==
  /\ BookingExists(b) /\ ~BookingExists(b)'
  /\ bookings[b].status \in Refused

(* No step of the booking workflow loses a slot: each slot a facility       *)
(* offered or had booked is still one or the other, unless a booking that   *)
(* holds it moves away.                                                     *)
SlotsNeverLost ==
  [][bookings' # bookings =>
       \A f \in Facility : Stays(f) =>
         \A s \in Known(f) \ Known(f)' :
           \E b \in Booking : Moved(b) /\ s \in bookings[b].slots]_vars

(* Nor does it invent one: a slot that a facility neither offered nor had   *)
(* booked comes from a booking that is revived or moved, from the           *)
(* destruction of one that had given its slots back already, or from a      *)
(* creation that an empty schedule lets through.                            *)
SlotsHaveAnOrigin ==
  [][bookings' # bookings =>
       \A f \in Facility : Stays(f) /\ Offered(f) # {} =>
         \A s \in Known(f)' \ Known(f) :
           \E b \in Booking : /\ Moved(b) \/ Revived(b) \/ DestroyedRefused(b)
                              /\ s \in bookings[b].slots]_vars

(* A booked slot is offered again by a booking step only when a booking on  *)
(* it is revived or moved, when a refused one is destroyed, or when one of  *)
(* two bookings that clash on it lets go.                                   *)
DoubtHasACause ==
  [][bookings' # bookings =>
       \A f \in Facility : Stays(f) =>
         \A s \in Doubtful(f)' \ Doubtful(f) :
           \E b \in Booking :
             /\ \/ Moved(b) \/ Revived(b) \/ DestroyedRefused(b)
                \/ \E c \in Booking : Clash(b, c) /\ s \in bookings[c].slots
             /\ s \in bookings[b].slots]_vars
-----------------------------------------------------------------------------
(* What README.md says of the application, word for word; the code does not *)
(* keep it (each is refuted by a run).                                      *)

(* README.md:68 "no bookings may claim the same timeslot when another       *)
(* booking is pending or approved".                                         *)
NoDoubleBooking == \A b, c \in Booking : ~Clash(b, c)

(* README.md:67 "Verify bookings fall within the facility's                 *)
(* availability_schedule".                                                  *)
BookedWithinSchedule ==
  [][\A b \in Booking :
       ~BookingExists(b) /\ BookingExists(b)' =>
         bookings'[b].slots \subseteq Offered(bookings'[b].facility)]_vars
=============================================================================
