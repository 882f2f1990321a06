----------------------------- MODULE BookingTxn -----------------------------
(***************************************************************************)
(* The booking workflow as the database sees it: Puma threads and job      *)
(* threads (workers) whose requests interleave statement by statement over *)
(* PostgreSQL at READ COMMITTED.                                           *)
(*                                                                         *)
(* bookings and facilities are the committed rows.  What a request read    *)
(* (the row it will change, the schedule cached in its association) and    *)
(* what it has written but not committed stay in its record req[w].  A     *)
(* statement waits for the requests that hold a lock against it; locks are *)
(* held until commit, so they are read off req instead of being stored.    *)
(* When requests wait for each other in a circle, PostgreSQL rolls one of  *)
(* them back.                                                              *)
(*                                                                         *)
(* The move of a booking to another facility is left to Bookings.  What    *)
(* hangs on a user besides the bookings is left out, the approvals (which  *)
(* the destruction of the approver sets to NULL) included: the locks they  *)
(* take add waits of, and for, destructions of users alone.                *)
(***************************************************************************)
EXTENDS BookingStore

CONSTANTS
  Worker,       \* threads that run requests and jobs
  NoRequest,    \* what an idle worker runs
  Customer,     \* the users who book (any user may)
  Asked,        \* the sets of slots that are booked (any may be)
  Sent,         \* the statuses a PATCH asks for (any may be)
  MayCrash,     \* may a worker be killed in the middle of a request?
  MayEdit,      \* are schedules edited with the facility form?
  MayRaze,      \* are facilities destroyed?
  MayLeave      \* are users destroyed?

VARIABLES
  req,          \* the request each worker runs, or NoRequest
  jobs,         \* bookings with a queued BookingConflictResolutionJob
  raced,        \* history: pairs of bookings whose creations overlapped in time
  disturbed     \* history: facilities on which requests overlapped in time, or
                \* a worker was killed before it created a notification

history == <<raced, disturbed>>

vars == <<facilities, bookings, accounts, req, jobs, history>>

(*   booking, facility, slots: the booking the request is about             *)
(*   was, to       the status it read, and the one it writes                *)
(*   todo          slots the overlap validation has still to query          *)
(*   loaded, snap  is the facility loaded, and the schedule it then had     *)
(*   rest          bookings the expiration job loaded and has still to save *)
Request ==
  [op : {"create", "update", "expire", "destroy"},
   step : {"check", "row", "schedule", "commit", "enqueue", "notify"},
   owner : User, booking : Booking, facility : Facility,
   slots : SUBSET Slot,
   was : BookingStatus, to : BookingStatus,
   todo : SUBSET Slot, loaded : BOOLEAN, snap : SUBSET Slot,
   rest : SUBSET Booking]

(* The destruction of a facility: the booking it is at, those it has still  *)
(* to destroy, and those whose rows it has deleted.                         *)
Destruction ==
  [op : {"raze"}, step : {"row", "schedule", "delete", "commit"},
   facility : Facility, booking : Booking \cup {NoRow},
   rest : SUBSET Booking, gone : SUBSET Booking]

(* The destruction of a user, the same way.  rows are the bookings as it    *)
(* loaded them, with the facility it is at; it loads the facility of each,  *)
(* and keeps the schedules it wrote in draft (of the facilities wrote).     *)
Departure ==
  [op : {"leave"}, step : {"row", "schedule", "delete", "commit"},
   owner : User, booking : Booking \cup {NoRow},
   rest : SUBSET Booking, gone : SUBSET Booking,
   rows : [Booking -> BookingRow \cup {NoRow}], facility : Facility \cup {NoRow},
   loaded : BOOLEAN, snap : SUBSET Slot,
   wrote : SUBSET Facility, draft : [Facility -> SUBSET Slot]]

ASSUME TxnAssumption ==
  /\ NoRequest \notin Request \cup Destruction \cup Departure
  /\ Customer \subseteq User /\ Asked \subseteq SUBSET Slot
  /\ Sent \subseteq BookingStatus
  /\ MayCrash \in BOOLEAN /\ MayEdit \in BOOLEAN
  /\ MayRaze \in BOOLEAN /\ MayLeave \in BOOLEAN

TypeOK ==
  /\ StoreTypeOK
  /\ req \in [Worker -> Request \cup Destruction \cup Departure \cup {NoRequest}]
  /\ jobs \subseteq Booking
  /\ raced \subseteq SUBSET Booking
  /\ disturbed \subseteq Facility

Busy(w) == req[w] # NoRequest

At(w, step) == Busy(w) /\ req[w].step = step

(* Has the request of w still to commit what it does? *)
Uncommitted(w) == Busy(w) /\ req[w].step \notin {"enqueue", "notify"}

Creating(w) == Uncommitted(w) /\ req[w].op = "create"

Razing(w) == Busy(w) /\ req[w].op = "raze"

Leaving(w) == Busy(w) /\ req[w].op = "leave"

Destroys(w) == Razing(w) \/ Leaving(w)

Concerns(w, b) ==
  \/ Busy(w) /\ (req[w].booking = b \/ b \in req[w].rest)
  \/ Destroys(w) /\ b \in req[w].gone
-----------------------------------------------------------------------------
(* Faulty variants (see BookingStore) *)
TellsApprovalsOnly(st) == st = "approved"
ReadsNoSchedule(row) == {}
SeesCommitted(r) == Offered(r.facility)
NoForeignKey(r) == {}
-----------------------------------------------------------------------------
(* Locks and writes *)

WritesSchedule(r) == r.op \in {"update", "expire"} => GivesBack(r.was, r.to)

(* The locks that w holds: of booking rows, of the row of facility f, of    *)
(* the row of user u, and of the keys of both, which the foreign keys of an *)
(* inserted booking take.                                                   *)
HasRowLock(w, b) ==
  \/ /\ Busy(w) /\ req[w].op # "create" /\ req[w].booking = b
     /\ req[w].step \in {"schedule", "commit"}
  \/ Destroys(w) /\ b \in req[w].gone

(* Faulty variant: the callback before the row is written, not after. *)
LocksFacilityFirst(w, f) ==
  /\ Busy(w) /\ req[w].facility = f
  /\ req[w].step \in {"row", "commit"} /\ WritesSchedule(req[w])

HasScheduleLock(w, f) ==
  \/ /\ Busy(w) /\ ~Leaving(w) /\ req[w].facility = f
     /\ \/ req[w].step = "commit" /\ WritesSchedule(req[w])
        \/ Razing(w) /\ req[w].gone # {}
  \/ Leaving(w) /\ f \in req[w].wrote

HasKeyLock(w, f) ==
  /\ Creating(w) /\ req[w].facility = f
  /\ req[w].step \in {"schedule", "commit"}

HasDeleted(w, f) == Razing(w) /\ At(w, "commit") /\ req[w].facility = f

HasUserKey(w, u) ==
  /\ Creating(w) /\ req[w].owner = u
  /\ req[w].step \in {"schedule", "commit"}

HasClosed(w, u) == Leaving(w) /\ At(w, "commit") /\ req[w].owner = u

(* The hours validation reads the cached schedule. *)
HoursOK(r) == r.snap = {} \/ r.slots \subseteq r.snap

Inserts(r) == r.step = "check" /\ r.todo = {} /\ HoursOK(r)

(* Has the association been loaded?  Bookings that are destroyed with their *)
(* facility share its object.                                               *)
FacilityAtHand(r) == r.op # "raze" => r.loaded

(* Committed bookings that a destruction did not delete: its DELETE of the  *)
(* facility or user fails on their foreign key, unless they are being       *)
(* destroyed.                                                               *)
Strays(r) ==
  {b \in Booking :
     /\ BookingExists(b)
     /\ IF r.op = "leave" THEN bookings[b].owner = r.owner
                          ELSE bookings[b].facility = r.facility} \ r.gone

(* Does the next statement of w wait for v?  A statement that meets no row  *)
(* waits for nobody.                                                        *)
Waits(w, v) ==
  LET r == req[w] IN
  /\ Busy(w) /\ v # w
  /\ \/ /\ r.step = "row" /\ BookingExists(r.booking)
        /\ HasRowLock(v, r.booking)
     \/ /\ Inserts(r)
        /\ \/ FacilityExists(r.facility) /\ HasDeleted(v, r.facility)
           \/ r.owner \in accounts /\ HasClosed(v, r.owner)
     \/ /\ r.step = "schedule" /\ FacilityAtHand(r) /\ FacilityExists(r.facility)
        /\ HasScheduleLock(v, r.facility)
     \/ /\ r.step = "delete" /\ r.op = "raze" /\ FacilityExists(r.facility)
        /\ HasScheduleLock(v, r.facility) \/ HasKeyLock(v, r.facility)
     \/ /\ r.step = "delete" /\ r.op = "leave" /\ r.owner \in accounts
        /\ HasClosed(v, r.owner) \/ HasUserKey(v, r.owner)
     \/ /\ r.step = "commit" /\ r.op \in {"raze", "leave"}
        /\ \E b \in Strays(r) : HasRowLock(v, b) /\ req[v].op \in {"destroy", "raze", "leave"}

Free(w) == \A v \in Worker : ~Waits(w, v)

ScheduleFree(f) == \A v \in Worker : ~HasScheduleLock(v, f)

(* The requests of W wait for each other in a circle. *)
Standstill(W) == W # {} /\ \A v \in W : \E x \in W : Waits(v, x)

Cycle(W) == Standstill(W) /\ \A V \in SUBSET W : V # W => ~Standstill(V)

(* The whole schedule that the request stores, computed from its snapshot.  *)
Rewritten(r) == IF r.op = "create" THEN r.snap \ r.slots ELSE r.snap \cup r.slots

Advance(w, step) == req' = [req EXCEPT ![w].step = step]

Finish(w) == req' = [req EXCEPT ![w] = NoRequest]

(* Is the request of w about facility f?  For the expiration job this goes  *)
(* for the facility of every booking it still has to save, for the          *)
(* destruction of a user for the facility of every booking it loaded.       *)
WorksOn(w, f) ==
  /\ Busy(w)
  /\ IF Leaving(w)
     THEN \E b \in Booking : req[w].rows[b] # NoRow /\ req[w].rows[b].facility = f
     ELSE \/ req[w].facility = f
          \/ \E b \in req[w].rest : BookingExists(b) /\ bookings[b].facility = f

(* Requests about the facilities of F start: the ones among them that other *)
(* requests are at work on are disturbed from now on.                       *)
Disturb(F) ==
  disturbed' = disturbed \cup {f \in F : \E v \in Worker : WorksOn(v, f)}
-----------------------------------------------------------------------------
(* POST /bookings.  belongs_to validates that the facility exists, which    *)
(* caches it, with its schedule, for the rest of the request.  The new id   *)
(* is one that no request or job knows.                                     *)
StartCreate(w, u, b, f, ss) ==
  /\ ~Busy(w)
  /\ BookingCreate(Account(u))
  /\ ~BookingExists(b) /\ b \notin jobs /\ \A v \in Worker : ~Concerns(v, b)
  /\ FacilityExists(f)
  /\ req' = [req EXCEPT ![w] =
       [op |-> "create", step |-> "check", owner |-> u, booking |-> b,
        facility |-> f, slots |-> ss, was |-> "pending", to |-> "pending",
        todo |-> ss, loaded |-> TRUE, snap |-> Offered(f), rest |-> {}]]
  /\ raced' = {p \in raced : b \notin p} \cup
              {{b, req[v].booking} : v \in {x \in Worker : Creating(x)}}
  /\ Disturb({f})
  /\ UNCHANGED <<facilities, bookings, accounts, jobs>>

(* One query of the overlap validation, which sees committed rows only.  A  *)
(* conflict fails the validation: the request ends without a write.         *)
CheckSlot(w, s) ==
  LET r == req[w] IN
  /\ At(w, "check") /\ s \in r.todo
  /\ IF NoOverlap(r.facility, {s})
     THEN req' = [req EXCEPT ![w].todo = @ \ {s}]
     ELSE Finish(w)
  /\ UNCHANGED <<facilities, bookings, accounts, jobs, history>>

(* Faulty variant: the schedule is written outside the transaction. *)
CommitsScheduleEarly(w) ==
  LET r == req[w] IN
  /\ At(w, "check") /\ r.todo = {} /\ ScheduleFree(r.facility)
  /\ FacilityExists(r.facility)
  /\ facilities' = [facilities EXCEPT ![r.facility].schedule = Rewritten(r)]
  /\ Advance(w, "commit")
  /\ UNCHANGED <<bookings, accounts, jobs, history>>

(* The INSERT, which nobody sees before the commit.  It waits for a         *)
(* facility or user that is being deleted, and fails when one is gone.      *)
InsertRow(w) ==
  LET r == req[w] IN
  /\ At(w, "check") /\ r.todo = {}
  /\ Free(w)
  /\ IF HoursOK(r) /\ FacilityExists(r.facility) /\ r.owner \in accounts
     THEN Advance(w, "schedule") ELSE Finish(w)
  /\ UNCHANGED <<facilities, bookings, accounts, jobs, history>>

(* The hours validation refuses more than HoursOK does: a booking that also *)
(* names a day without times which the facility does not have.              *)
RefuseDay(w) ==
  /\ At(w, "check") /\ req[w].todo = {}
  /\ Finish(w)
  /\ UNCHANGED <<facilities, bookings, accounts, jobs, history>>
-----------------------------------------------------------------------------
(* A request about an existing row starts with Booking.find and authorize,  *)
(* outside the transaction.  The policy loads the facility of the booking   *)
(* (and caches its schedule) unless the user is a super admin.              *)
Snapshot(row) == Offered(row.facility)

Loaded(op, b, u, st) ==
  LET row == bookings[b]
      cached == ~SuperAdmin(Account(u))
  IN [op |-> op, step |-> "row", owner |-> row.owner, booking |-> b,
      facility |-> row.facility, slots |-> row.slots,
      was |-> row.status, to |-> st, todo |-> {}, loaded |-> cached,
      snap |-> IF cached THEN Snapshot(row) ELSE {}, rest |-> {}]

(* PATCH /bookings/:id with a status; one that changes nothing writes       *)
(* nothing.                                                                 *)
StartUpdate(w, u, b, st) ==
  /\ ~Busy(w) /\ BookingExists(b)
  /\ BookingUpdate(Account(u), CondoOf(b))
  /\ st # bookings[b].status
  /\ req' = [req EXCEPT ![w] = Loaded("update", b, u, st)]
  /\ Disturb({bookings[b].facility})
  /\ UNCHANGED <<facilities, bookings, accounts, jobs, raced>>

(* DELETE /bookings/:id *)
StartDestroy(w, u, b) ==
  LET row == bookings[b] IN
  /\ ~Busy(w) /\ BookingExists(b)
  /\ BookingDestroy(Account(u), row.owner, row.status, CondoOf(b))
  /\ req' = [req EXCEPT ![w] = Loaded("destroy", b, u, row.status)]
  /\ Disturb({row.facility})
  /\ UNCHANGED <<facilities, bookings, accounts, jobs, raced>>

Pending(b) == BookingExists(b) /\ bookings[b].status = "pending"

(* BookingExpirationJob loads every row it will save (E have been pending   *)
(* for a day) before it saves the first one, b.  It loads no facility: its  *)
(* saves write no schedule.                                                 *)
StartExpire(w, E, b) ==
  /\ ~Busy(w) /\ b \in E /\ \A c \in E : Pending(c)
  /\ req' = [req EXCEPT ![w] =
       [Loaded("expire", b, bookings[b].owner, "approved")
          EXCEPT !.loaded = FALSE, !.snap = {}, !.rest = E \ {b}]]
  /\ Disturb({bookings[c].facility : c \in E})
  /\ UNCHANGED <<facilities, bookings, accounts, jobs, raced>>
-----------------------------------------------------------------------------
(* UPDATE or DELETE of the booking row, by id and with no condition on its  *)
(* status.  When the row is gone meanwhile it changes no row, and the       *)
(* callbacks run all the same.                                              *)
WriteRow(w) ==
  LET r == req[w] IN
  /\ At(w, "row")
  /\ Free(w)
  /\ Advance(w, IF WritesSchedule(r) THEN "schedule" ELSE "commit")
  /\ UNCHANGED <<facilities, bookings, accounts, jobs, history>>

(* The schedule that a SELECT of the request returns: what it wrote itself, *)
(* or what is committed.                                                    *)
Seen(r) ==
  IF r.op = "leave" /\ r.facility \in r.wrote THEN r.draft[r.facility]
                                             ELSE Offered(r.facility)

(* facility.availability_schedule in the callback, when nothing loaded the  *)
(* facility before.  There is none to ask when it was destroyed meanwhile:  *)
(* the request fails and is rolled back.                                    *)
LoadFacility(w) ==
  LET r == req[w] IN
  /\ At(w, "schedule") /\ ~FacilityAtHand(r)
  /\ IF FacilityExists(r.facility)
     THEN req' = [req EXCEPT ![w].loaded = TRUE, ![w].snap = Seen(r)]
     ELSE Finish(w)
  /\ UNCHANGED <<facilities, bookings, accounts, jobs, history>>

(* facility.update_column(:availability_schedule, ...) *)
WriteSchedule(w) ==
  /\ At(w, "schedule") /\ FacilityAtHand(req[w]) /\ ~Destroys(w)
  /\ Free(w)
  /\ Advance(w, "commit")
  /\ UNCHANGED <<facilities, bookings, accounts, jobs, history>>

StoreSchedule(r) ==
  facilities' = IF WritesSchedule(r) /\ FacilityExists(r.facility)
                THEN [facilities EXCEPT ![r.facility].schedule = Rewritten(r)]
                ELSE facilities
-----------------------------------------------------------------------------
CommitCreate(w) ==
  LET r == req[w] IN
  /\ At(w, "commit") /\ r.op = "create"
  /\ bookings' = [bookings EXCEPT ![r.booking] =
       [owner |-> r.owner, facility |-> r.facility, slots |-> r.slots,
        status |-> "pending", told |-> "none", reopened |-> FALSE]]
  /\ StoreSchedule(r)
  /\ Advance(w, "enqueue")
  /\ UNCHANGED <<accounts, jobs, history>>

StatusWritten(r) ==
  IF BookingExists(r.booking)
  THEN [bookings EXCEPT
          ![r.booking].status = r.to,
          ![r.booking].reopened =
             @ \/ (bookings[r.booking].status \in Refused /\ r.to \in Active)]
  ELSE bookings

(* A return to pending has no message, and the controller is done. *)
HasMessage(st) == st # "pending"

CommitUpdate(w) ==
  LET r == req[w] IN
  /\ At(w, "commit") /\ r.op = "update"
  /\ bookings' = StatusWritten(r)
  /\ StoreSchedule(r)
  /\ IF HasMessage(r.to) THEN Advance(w, "notify") ELSE Finish(w)
  /\ UNCHANGED <<accounts, jobs, history>>

(* The job goes on with the rows it loaded, in the state it loaded them. *)
NextExpired(r, c) ==
  [r EXCEPT !.step = "row", !.booking = c, !.rest = @ \ {c},
            !.facility = IF BookingExists(c) THEN bookings[c].facility ELSE @]

CommitExpire(w) ==
  LET r == req[w] IN
  /\ At(w, "commit") /\ r.op = "expire"
  /\ bookings' = StatusWritten(r)
  /\ IF r.rest = {} THEN Finish(w)
     ELSE \E c \in r.rest : req' = [req EXCEPT ![w] = NextExpired(r, c)]
  /\ UNCHANGED <<facilities, accounts, jobs, history>>

CommitDestroy(w) ==
  LET r == req[w] IN
  /\ At(w, "commit") /\ r.op = "destroy"
  /\ bookings' = [bookings EXCEPT ![r.booking] = NoRow]
  /\ StoreSchedule(r)
  /\ Finish(w)
  /\ UNCHANGED <<accounts, jobs, history>>
-----------------------------------------------------------------------------
(* DELETE /facilities/:id, a single transaction.  It loads the bookings of  *)
(* the facility, in any order, destroys one after the other with its        *)
(* callback, and deletes the facility in the end.  The schedules it writes  *)
(* on the way lock the row, and go with it.                                 *)
Goto(r, c) == [r EXCEPT !.step = "row", !.booking = c, !.rest = @ \ {c}]

Onward(r) ==
  IF r.rest = {} THEN {[r EXCEPT !.step = "delete"]} ELSE {Goto(r, c) : c \in r.rest}

StartRaze(w, u, f) ==
  /\ MayRaze /\ ~Busy(w)
  /\ FacilityExists(f) /\ FacilityDestroy(Account(u))
  /\ \E r \in Onward([op |-> "raze", step |-> "row", facility |-> f, booking |-> NoRow,
                      rest |-> {b \in Booking : BookingExists(b) /\ bookings[b].facility = f},
                      gone |-> {}]) :
       req' = [req EXCEPT ![w] = r]
  /\ Disturb({f})
  /\ UNCHANGED <<facilities, bookings, accounts, jobs, raced>>

WriteCascaded(w) ==
  /\ At(w, "schedule") /\ Razing(w)
  /\ Free(w)
  /\ \E r \in Onward([req[w] EXCEPT !.gone = @ \cup {req[w].booking}]) :
       req' = [req EXCEPT ![w] = r]
  /\ UNCHANGED <<facilities, bookings, accounts, jobs, history>>

(* DELETE of the facility, or of the user. *)
DeleteParent(w) ==
  /\ At(w, "delete")
  /\ Free(w)
  /\ Advance(w, "commit")
  /\ UNCHANGED <<facilities, bookings, accounts, jobs, history>>

(* The foreign keys are checked when the row is deleted: with a stray       *)
(* booking left, all of it is rolled back.                                  *)
CommitRaze(w) ==
  LET r == req[w] IN
  /\ At(w, "commit") /\ r.op = "raze"
  /\ Free(w)
  /\ IF Strays(r) = {}
     THEN /\ facilities' = [facilities EXCEPT ![r.facility] = NoRow]
          /\ bookings' = [b \in Booking |-> IF b \in r.gone THEN NoRow ELSE bookings[b]]
     ELSE UNCHANGED <<facilities, bookings>>
  /\ Finish(w)
  /\ UNCHANGED <<accounts, jobs, history>>
-----------------------------------------------------------------------------
(* DELETE /users/:id, and the cancellation of one's own account, a single   *)
(* transaction as well: it loads the bookings of the user, destroys one     *)
(* after the other, and deletes the user in the end.  The schedules it      *)
(* writes on the way may be those of several facilities, and stay.          *)
GotoLoaded(r, c) == [Goto(r, c) EXCEPT !.facility = r.rows[c].facility, !.loaded = FALSE]

OnwardLoaded(r) ==
  IF r.rest = {} THEN {[r EXCEPT !.step = "delete"]}
                 ELSE {GotoLoaded(r, c) : c \in r.rest}

StartLeave(w, a, u) ==
  /\ MayLeave /\ ~Busy(w)
  /\ u \in accounts /\ MayClose(a, u)
  /\ \E r \in OnwardLoaded(
         [op |-> "leave", step |-> "row", owner |-> u, booking |-> NoRow,
          rest |-> BookingsOf(u), gone |-> {},
          rows |-> [b \in Booking |-> IF b \in BookingsOf(u) THEN bookings[b] ELSE NoRow],
          facility |-> NoRow, loaded |-> FALSE, snap |-> {},
          wrote |-> {}, draft |-> [f \in Facility |-> {}]]) :
       req' = [req EXCEPT ![w] = r]
  /\ Disturb({bookings[b].facility : b \in BookingsOf(u)})
  /\ UNCHANGED <<facilities, bookings, accounts, jobs, raced>>

(* The callback of a booking that is destroyed with its user. *)
Restored(r) ==
  [r EXCEPT !.gone = @ \cup {r.booking}, !.wrote = @ \cup {r.facility},
            !.draft[r.facility] = r.snap \cup r.rows[r.booking].slots]

RestoreLoaded(w) ==
  /\ At(w, "schedule") /\ Leaving(w) /\ FacilityAtHand(req[w])
  /\ Free(w)
  /\ \E r \in OnwardLoaded(Restored(req[w])) : req' = [req EXCEPT ![w] = r]
  /\ UNCHANGED <<facilities, bookings, accounts, jobs, history>>

(* With a stray booking left all of it is rolled back, and so it may be     *)
(* without one: rows of other tables name users, too.                       *)
CommitLeave(w) ==
  LET r == req[w] IN
  /\ At(w, "commit") /\ r.op = "leave"
  /\ Free(w)
  /\ \/ /\ Strays(r) = {}
        /\ facilities' = [f \in Facility |->
             IF f \in r.wrote /\ FacilityExists(f)
             THEN [facilities[f] EXCEPT !.schedule = r.draft[f]] ELSE facilities[f]]
        /\ bookings' = [b \in Booking |-> IF b \in r.gone THEN NoRow ELSE bookings[b]]
        /\ accounts' = accounts \ {r.owner}
     \/ UNCHANGED <<facilities, bookings, accounts>>
  /\ Finish(w)
  /\ UNCHANGED <<jobs, history>>
-----------------------------------------------------------------------------
(* PostgreSQL's deadlock detector rolls a request of the circle back. *)
Abort(w) ==
  /\ \E W \in SUBSET Worker : w \in W /\ Cycle(W)
  /\ Finish(w)
  /\ UNCHANGED <<facilities, bookings, accounts, jobs, history>>
-----------------------------------------------------------------------------
(* After the commit, outside any transaction *)

(* Faulty variant: the job is given the id of the facility. *)
EnqueuesFacility(w) ==
  /\ At(w, "enqueue")
  /\ jobs' = jobs \cup {req[w].facility}
  /\ Advance(w, "notify")
  /\ UNCHANGED <<facilities, bookings, accounts, history>>

EnqueueJob(w) ==
  /\ At(w, "enqueue")
  /\ jobs' = jobs \cup {req[w].booking}
  /\ Advance(w, "notify")
  /\ UNCHANGED <<facilities, bookings, accounts, history>>

(* Notification.create!, whether or not the booking still exists. *)
CreateNotification(w) ==
  LET r == req[w] IN
  /\ At(w, "notify")
  /\ bookings' = IF BookingExists(r.booking)
                 THEN [bookings EXCEPT ![r.booking].told = r.to] ELSE bookings
  /\ Finish(w)
  /\ UNCHANGED <<facilities, accounts, jobs, history>>

(* BookingConflictResolutionJob looks for conflicts and logs the first one. *)
RunConflictJob(b) ==
  /\ b \in jobs
  /\ jobs' = jobs \ {b}
  /\ UNCHANGED <<facilities, bookings, accounts, req, history>>

(* The worker is killed (or Redis or the notification insert fails): what   *)
(* is not committed is rolled back, what was to follow the commit is lost.  *)
Crash(w) ==
  /\ MayCrash /\ Busy(w)
  /\ Finish(w)
  /\ disturbed' = IF Uncommitted(w) THEN disturbed
                                    ELSE disturbed \cup {req[w].facility}
  /\ UNCHANGED <<facilities, bookings, accounts, jobs, raced>>
-----------------------------------------------------------------------------
(* The facility forms, each served by a worker in one step: POST is one     *)
(* INSERT; PATCH stores, after the plain columns, the whole schedule of the *)
(* form in one UPDATE, which waits for the row like any other.  A new       *)
(* facility has an id that no request knows.                                *)
CreateFacility(w, u, f, c, ss) ==
  /\ ~Busy(w)
  /\ FacilityCreate(Account(u))
  /\ ~FacilityExists(f) /\ \A v \in Worker : ~WorksOn(v, f)
  /\ facilities' = [facilities EXCEPT ![f] = [condo |-> c, schedule |-> ss]]
  /\ disturbed' = disturbed \ {f}
  /\ UNCHANGED <<bookings, accounts, req, jobs, raced>>

SaveSchedule(w, u, f, ss) ==
  /\ MayEdit /\ ~Busy(w)
  /\ FacilityExists(f)
  /\ FacilityUpdate(Account(u), facilities[f].condo)
  /\ ScheduleFree(f)
  /\ facilities' = [facilities EXCEPT ![f].schedule = ss]
  /\ Disturb({f})
  /\ UNCHANGED <<bookings, accounts, req, jobs, raced>>

(* A new user, who signs up or is created by an admin: one INSERT, with an  *)
(* id that no request knows.                                                *)
OpenAccount(w, u) ==
  /\ ~Busy(w)
  /\ u \notin accounts
  /\ \A v \in Worker : Busy(v) /\ ~Razing(v) => req[v].owner # u
  /\ accounts' = accounts \cup {u}
  /\ UNCHANGED <<facilities, bookings, req, jobs, history>>
-----------------------------------------------------------------------------
Init ==
  /\ facilities = [f \in Facility |-> NoRow]
  /\ bookings = [b \in Booking |-> NoRow]
  /\ req = [w \in Worker |-> NoRequest]
  /\ accounts = User
  /\ jobs = {} /\ raced = {} /\ disturbed = {}

(* Requests are made by users who are signed in. *)
Start(w) ==
  \/ \E u \in Customer \cap accounts, b \in Booking, f \in Facility, ss \in Asked :
       StartCreate(w, u, b, f, ss)
  \/ \E u \in accounts, b \in Booking :
       \/ \E st \in Sent : StartUpdate(w, u, b, st)
       \/ StartDestroy(w, u, b)
  \/ \E E \in SUBSET Booking : \E b \in E : StartExpire(w, E, b)
  \/ \E u \in accounts, f \in Facility : StartRaze(w, u, f)
  \/ \E a \in accounts, u \in User : StartLeave(w, a, u)

(* One statement of a request under way. *)
Step(w) ==
  \/ \E s \in Slot : CheckSlot(w, s)
  \/ InsertRow(w) \/ RefuseDay(w) \/ WriteRow(w) \/ LoadFacility(w) \/ WriteSchedule(w)
  \/ CommitCreate(w) \/ CommitUpdate(w) \/ CommitExpire(w) \/ CommitDestroy(w)
  \/ WriteCascaded(w) \/ RestoreLoaded(w) \/ DeleteParent(w)
  \/ CommitRaze(w) \/ CommitLeave(w)
  \/ EnqueueJob(w) \/ CreateNotification(w)

FacilityForm(w) ==
  \E u \in accounts, f \in Facility, ss \in SUBSET Slot :
    \/ \E c \in Condo : CreateFacility(w, u, f, c, ss)
    \/ SaveSchedule(w, u, f, ss)

Next ==
  \/ \E w \in Worker : Start(w) \/ Step(w) \/ Abort(w) \/ Crash(w) \/ FacilityForm(w)
  \/ \E w \in Worker, u \in User : OpenAccount(w, u)
  \/ \E b \in Booking : RunConflictJob(b)

Spec == Init /\ [][Next]_vars

(* A request under way is executed to its end: PostgreSQL serves the        *)
(* waiters of a row lock in turn, so a statement that is enabled again and  *)
(* again is executed, and looks for deadlocks.  Sidekiq runs what is queued.*)
(* Nobody has to start a request, and nothing runs the expiration job.      *)
FairSpec == /\ Spec
            /\ \A w \in Worker : SF_vars(Step(w)) /\ WF_vars(Abort(w))
            /\ \A b \in Booking : WF_vars(RunConflictJob(b))
-----------------------------------------------------------------------------
(* Safety invariants *)

(* Two creations can book the same slot only when they overlap in time      *)
(* (neither sees the other's uncommitted row); every other double booking   *)
(* has a reopened row.  The overlap validation, its queries spread over     *)
(* time, catches all the rest.                                              *)
ClashesNeedARace ==
  \A b, c \in Booking :
    Clash(b, c) =>
      {b, c} \in raced \/ bookings[b].reopened \/ bookings[c].reopened

(* What a request holds in memory is what the database has, as long as      *)
(* requests about the facility do not overlap: the schedule it will write   *)
(* from, and the row it will change.                                        *)
UndisturbedReadsAreFresh ==
  \A w \in Worker : LET r == req[w] IN
    Uncommitted(w) /\ r.op \notin {"expire", "raze", "leave"} /\ r.facility \notin disturbed =>
      /\ r.loaded => r.snap = Offered(r.facility)
      /\ r.op # "create" =>
           /\ BookingExists(r.booking)
           /\ bookings[r.booking].slots = r.slots
           /\ bookings[r.booking].status = r.was

(* The requests about one booking lock it first and its facility second,    *)
(* and never wait for another booking with a lock in hand: only the         *)
(* destruction of a facility or of a user, which holds a facility as it     *)
(* goes from booking to booking, can be in a deadlock with them or with     *)
(* another one.                                                             *)
DeadlocksNeedADestruction ==
  \A W \in SUBSET Worker : Cycle(W) => \E w \in W : Destroys(w)

(* A destroyed facility or user leaves no booking behind, though it deletes *)
(* the ones it loaded in the beginning and others are created and destroyed *)
(* on the way.                                                              *)
NoBookingIsLeftBehind ==
  \A b \in Booking : BookingExists(b) =>
    FacilityExists(bookings[b].facility) /\ bookings[b].owner \in accounts

(* Once no request about a refused booking is under way, its owner has been *)
(* told, unless the notifications of two requests crossed or one was lost.  *)
RefusalsAreToldInTurn ==
  \A b \in Booking :
    /\ BookingExists(b) /\ bookings[b].status \in Refused
    /\ bookings[b].facility \notin disturbed
    /\ \A w \in Worker : ~Concerns(w, b)
    => bookings[b].told = bookings[b].status
-----------------------------------------------------------------------------
(* Where no schedule is edited, no slot is ever lost on a facility on which *)
(* no requests overlapped: the read-modify-write of the whole schedule is   *)
(* harmless there, and a request that is killed leaves all of its           *)
(* transaction or nothing.                                                  *)
SlotsLostOnlyWhenDisturbed ==
  [][\A f \in Facility : FacilityExists(f) /\ FacilityExists(f)' /\ f \notin disturbed
                           => Known(f) \subseteq Known(f)']_vars
-----------------------------------------------------------------------------
(* With a single worker the statements of a request add up to the atomic    *)
(* request of Bookings.  A notification that is still to be created counts  *)
(* as sent.                                                                 *)
Owes(w, b) ==
  Busy(w) /\ req[w].booking = b /\ req[w].step \in {"enqueue", "notify"}

View ==
  [b \in Booking |->
     IF BookingExists(b) /\ \E w \in Worker : Owes(w, b)
     THEN [bookings[b] EXCEPT !.told = req[CHOOSE w \in Worker : Owes(w, b)].to]
     ELSE bookings[b]]

Atomic == INSTANCE Bookings WITH bookings <- View, MayMove <- FALSE

AtomicSpec == Atomic!Spec
-----------------------------------------------------------------------------
(* What README.md says, refuted by a run each.                              *)

(* README.md:70 "When a booking is cancelled, rejected, or destroyed, the   *)
(* timeslots are restored to the facility schedule": when nothing is under  *)
(* way, the slots of a refused booking are on offer or booked again.        *)
RefusedSlotsAreKnown ==
  (\A w \in Worker : ~Busy(w)) =>
    \A b \in Booking :
      BookingExists(b) /\ bookings[b].status \in Refused =>
        bookings[b].slots \subseteq Known(bookings[b].facility)

(* README.md:71 "BookingConflictResolutionJob handles conflict resolution   *)
(* asynchronously": a double booking does not last.                         *)
ConflictsAreResolved ==
  \A b, c \in Booking : Clash(b, c) ~> ~Clash(b, c)
=============================================================================
