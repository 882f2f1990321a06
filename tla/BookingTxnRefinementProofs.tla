--------------------- MODULE BookingTxnRefinementProofs ---------------------
(***************************************************************************)
(* BookingTxn with a single worker implements Bookings, for any numbers of *)
(* bookings, facilities and slots: the statements of a request add up to   *)
(* one atomic request, which takes place at its commit.                    *)
(***************************************************************************)
EXTENDS BookingTxnOutcomeProofs

Alone == \A v, w \in Worker : v = w

(* What the bookings that x has destroyed give back to facility f. *)
Given(x, f) == UNION {x.rows[b].slots : b \in {c \in x.gone : x.rows[c].facility = f}}

(* The destruction of a user has all the bookings of the user in hand, as   *)
(* they are, and has written or read the schedules that become of them.     *)
Accounted(x) ==
  /\ x.owner \in accounts /\ \E a \in accounts : MayClose(a, x.owner)
  /\ InHand(x) = BookingsOf(x.owner)
  /\ \A b \in BookingsOf(x.owner) : x.rows[b] = bookings[b]
  /\ x.step \in {"delete", "commit"} => x.rest = {}
  /\ \A f \in x.wrote : x.draft[f] = Offered(f) \cup Given(x, f)
  /\ AtBooking(x) /\ x.loaded => x.snap = Offered(x.facility) \cup Given(x, x.facility)

(* What a request has to know when it commits, for the atomic request to be *)
(* enabled: the slots it checked are free, its user may do it, the rows it  *)
(* expires are pending, and a destruction has met every booking.            *)
Ready(x) ==
  x # NoRequest /\ x.step \notin {"enqueue", "notify"} =>
    /\ x.op = "create" =>
         /\ NoOverlap(x.facility, x.slots \ x.todo)
         /\ x.step # "check" => x.todo = {} /\ HoursOK(x)
    /\ x.op = "update" =>
         /\ x.to # x.was
         /\ \E u \in accounts : BookingUpdate(Account(u), CondoOf(x.booking))
    /\ x.op = "destroy" =>
         \E u \in accounts : BookingDestroy(Account(u), bookings[x.booking].owner,
                           bookings[x.booking].status, CondoOf(x.booking))
    /\ x.op = "expire" =>
         /\ x.booking \notin x.rest
         /\ \A b \in x.rest \cup {x.booking} : Pending(b)
    /\ x.op = "raze" =>
         /\ FacilityExists(x.facility) /\ \E u \in accounts : FacilityDestroy(Account(u))
         /\ {b \in Booking : BookingExists(b) /\ bookings[b].facility = x.facility} =
              x.rest \cup x.gone
                \cup (IF x.step \in {"row", "schedule"} THEN {x.booking} ELSE {})
         /\ x.step \in {"delete", "commit"} => x.rest = {}
    /\ x.op = "leave" => Accounted(x)

Prompt == disturbed = {} /\ \A w \in Worker : Ready(req[w])
-----------------------------------------------------------------------------
(* A request goes on before anything is written, or has committed. *)
LEMMA QuietStep ==
  ASSUME Alone, Sound, NEW w \in Worker, NEW x, req' = [req EXCEPT ![w] = x],
         UNCHANGED <<facilities, bookings, accounts>>, disturbed' = {}, Ready(x)
  PROVE  Prompt'
<1>1. \A v \in Worker : req'[v] = x
  BY DEF Alone, Sound, TypeOK
<1>2. Accounted(x) => Accounted(x)'
  BY DEF Accounted, BookingsOf, BookingExists, Offered
<1> QED
  BY <1>1, <1>2
  DEF Prompt, Ready, NoOverlap, Held, Holds, HoursOK, CondoOf, Pending, BookingExists,
      FacilityExists

LEMMA DoneStep ==
  ASSUME Alone, Sound, NEW w \in Worker, NEW x, req' = [req EXCEPT ![w] = x],
         disturbed' = {}, x = NoRequest \/ x.step \in {"enqueue", "notify"}
  PROVE  Prompt'
<1>1. \A v \in Worker : req'[v] = x
  BY DEF Alone, Sound, TypeOK
<1> QED
  BY <1>1 DEF Prompt, Ready

LEMMA FinishStep ==
  ASSUME Alone, Sound, NEW w \in Worker, Finish(w), disturbed' = {}
  PROVE  Prompt'
  BY DoneStep DEF Finish

LEMMA AccountedGoesOn ==
  ASSUME NEW r \in Departure, Accounted(r), NEW st,
         \/ r.step = "row" /\ st = "schedule"
         \/ r.step = "delete" /\ st = "commit"
  PROVE  Accounted([r EXCEPT !.step = st])
<1> DEFINE x == [r EXCEPT !.step = st]
<1>1. /\ x.owner = r.owner /\ x.booking = r.booking /\ x.rest = r.rest /\ x.gone = r.gone
      /\ x.rows = r.rows /\ x.facility = r.facility /\ x.loaded = r.loaded
      /\ x.snap = r.snap /\ x.wrote = r.wrote /\ x.draft = r.draft /\ x.step = st
  BY DEF Departure
<1> HIDE DEF x
<1>2. AtBooking(x) <=> AtBooking(r)
  BY <1>1 DEF AtBooking
<1>3. InHand(x) = InHand(r)
  BY <1>1, <1>2 DEF InHand
<1>4. \A f : Given(x, f) = Given(r, f)
  BY <1>1 DEF Given
<1>5. st \in {"delete", "commit"} => r.rest = {}
  BY DEF Accounted
<1> QED
  BY <1>1, <1>2, <1>3, <1>4, <1>5 DEF Accounted, x

LEMMA AdvanceStep ==
  ASSUME Alone, Sound, Prompt, NEW w \in Worker, Busy(w), NEW st, Advance(w, st),
         UNCHANGED <<facilities, bookings, accounts, disturbed>>,
         \/ st \in {"enqueue", "notify"}
         \/ /\ req[w].step \notin {"enqueue", "notify"}
            /\ req[w].step = "check" => req[w].todo = {} /\ HoursOK(req[w])
            /\ req[w].op \in {"raze", "leave"} =>
                 \/ req[w].step = "row" /\ st = "schedule"
                 \/ req[w].step = "delete" /\ st = "commit"
  PROVE  Prompt'
<1> DEFINE x == [req[w] EXCEPT !.step = st]
<1>1. req[w] \in Request \cup Destruction \cup Departure
  BY RequestKinds DEF Sound
<1>2. req' = [req EXCEPT ![w] = x] /\ disturbed' = {}
  BY DEF Advance, Prompt
<1>3. /\ x.step = st /\ x.op = req[w].op /\ x.facility = req[w].facility
      /\ x.booking = req[w].booking /\ x.rest = req[w].rest
      /\ req[w] \in Request => /\ x.slots = req[w].slots /\ x.todo = req[w].todo
                               /\ x.to = req[w].to /\ x.was = req[w].was
                               /\ x.snap = req[w].snap
      /\ req[w] \in Destruction => x.gone = req[w].gone
  BY <1>1 DEF Request, Destruction, Departure
<1>4. CASE st \in {"enqueue", "notify"}
  BY <1>2, <1>3, <1>4, DoneStep
<1>5. CASE st \notin {"enqueue", "notify"}
  <2>1. /\ req[w].op = "raze" <=> req[w] \in Destruction
        /\ req[w].op = "leave" <=> req[w] \in Departure
    BY <1>1 DEF Request, Destruction, Departure
  <2>2. Ready(req[w]) /\ req[w] # NoRequest /\ req[w].step \notin {"enqueue", "notify"}
    BY <1>5 DEF Prompt, Busy
  <2>3. x.op = "leave" => Accounted(x)
    <3> SUFFICES ASSUME x.op = "leave"
                 PROVE  Accounted(x)
      OBVIOUS
    <3> PICK r \in Departure : r = req[w]
      BY <1>3, <2>1
    <3>1. Accounted(r)
      BY <1>3, <2>2 DEF Ready
    <3>2. req[w].op = "leave"
      BY <1>3
    <3>3. \/ r.step = "row" /\ st = "schedule"
          \/ r.step = "delete" /\ st = "commit"
      BY <1>5, <3>2
    <3>4. Accounted([r EXCEPT !.step = st])
      BY <3>1, <3>3, AccountedGoesOn
    <3> QED
      BY <3>4
  <2> HIDE DEF x
  <2>4. Ready(x)
    BY <1>1, <1>3, <1>5, <2>1, <2>2, <2>3 DEF Ready, HoursOK
  <2> QED
    BY <1>2, <2>4, QuietStep
<1> QED
  BY <1>4, <1>5

LEMMA CheckingIsPrompt ==
  ASSUME Alone, Sound, Prompt, NEW w \in Worker, NEW s \in Slot, CheckSlot(w, s)
  PROVE  Prompt'
<1>1. /\ Busy(w) /\ req[w] \in Request /\ req[w].step = "check" /\ s \in req[w].todo
      /\ UNCHANGED <<facilities, bookings, accounts>> /\ disturbed' = {}
  BY RequestKinds DEF CheckSlot, At, Sound, Prompt, history
<1>2. CASE NoOverlap(req[w].facility, {s}) /\ req' = [req EXCEPT ![w].todo = @ \ {s}]
  <2> DEFINE x == [req[w] EXCEPT !.todo = @ \ {s}]
  <2>1. req' = [req EXCEPT ![w] = x]
    BY <1>2
  <2>2. /\ x.step = "check" /\ x.op = req[w].op /\ x.facility = req[w].facility
        /\ x.booking = req[w].booking /\ x.rest = req[w].rest /\ x.slots = req[w].slots
        /\ x.todo = req[w].todo \ {s} /\ x.to = req[w].to /\ x.was = req[w].was
        /\ x.op \notin {"raze", "leave"}
    BY <1>1 DEF Request
  <2> HIDE DEF x
  <2>3. Ready(req[w])
    BY DEF Prompt
  <2>4. x.op = "create" => NoOverlap(x.facility, x.slots \ x.todo)
    BY <1>1, <1>2, <2>2, <2>3 DEF Ready, NoOverlap, Busy
  <2>5. Ready(x)
    BY <1>1, <2>2, <2>3, <2>4 DEF Ready, Busy
  <2> QED
    BY <1>1, <2>1, <2>5, QuietStep
<1>3. CASE Finish(w)
  BY <1>1, <1>3, FinishStep
<1> QED
  BY <1>2, <1>3 DEF CheckSlot

LEMMA SeenIsAccounted ==
  ASSUME NEW r \in Departure, ~Astray(r), Accounted(r)
  PROVE  Seen(r) = Offered(r.facility) \cup Given(r, r.facility)
<1>1. Kept(r)
  BY DepartureFields, NoRequestIsNone DEF Astray, Packed
<1>2. CASE r.facility \in r.wrote
  BY <1>2, DepartureFields DEF Seen, Accounted
<1>3. CASE r.facility \notin r.wrote
  <2>1. Given(r, r.facility) = {}
    BY <1>1, <1>3 DEF Kept, Given
  <2> QED
    BY <1>3, <2>1 DEF Seen
<1> QED
  BY <1>2, <1>3

LEMMA LoadedIsAccounted ==
  ASSUME NEW r \in Departure, ~Astray(r), Accounted(r), r.step = "schedule"
  PROVE  Accounted([r EXCEPT !.loaded = TRUE, !.snap = Seen(r)])
<1> DEFINE x == [r EXCEPT !.loaded = TRUE, !.snap = Seen(r)]
<1>1. /\ x.owner = r.owner /\ x.booking = r.booking /\ x.rest = r.rest /\ x.gone = r.gone
      /\ x.rows = r.rows /\ x.facility = r.facility /\ x.snap = Seen(r)
      /\ x.wrote = r.wrote /\ x.draft = r.draft /\ x.step = r.step
  BY DEF Departure
<1> HIDE DEF x
<1>2. InHand(x) = InHand(r)
  BY <1>1 DEF InHand, AtBooking
<1>3. \A f : Given(x, f) = Given(r, f)
  BY <1>1 DEF Given
<1>4. Seen(r) = Offered(r.facility) \cup Given(r, r.facility)
  BY SeenIsAccounted
<1> QED
  BY <1>1, <1>2, <1>3, <1>4 DEF Accounted, x

LEMMA LoadingIsPrompt ==
  ASSUME Alone, Sound, Reads, Prompt, NEW w \in Worker, LoadFacility(w)
  PROVE  Prompt'
<1>1. /\ Busy(w) /\ req[w].step = "schedule" /\ ~req[w].loaded
      /\ req[w].op # "raze" /\ Ready(req[w]) /\ ~Astray(req[w])
      /\ UNCHANGED <<facilities, bookings, accounts>> /\ disturbed' = {}
  BY DEF LoadFacility, FacilityAtHand, At, Sound, RowsAreAtHand, Prompt, history
<1>2. CASE /\ req[w] \in Departure
           /\ req' = [req EXCEPT ![w].loaded = TRUE, ![w].snap = Seen(req[w])]
  <2> PICK r \in Departure : r = req[w]
    BY <1>2
  <2> DEFINE x == [r EXCEPT !.loaded = TRUE, !.snap = Seen(r)]
  <2>1. req' = [req EXCEPT ![w] = x]
    BY <1>2 DEF Sound, TypeOK
  <2>2. x.op = "leave" /\ r.op = "leave"
    BY DEF Departure
  <2>3. Accounted(x)
    <3>1. Accounted(r)
      BY <1>1, <2>2 DEF Ready, Busy
    <3> QED
      BY <1>1, <3>1, LoadedIsAccounted
  <2> HIDE DEF x
  <2>4. Ready(x)
    BY <2>2, <2>3 DEF Ready
  <2> QED
    BY <1>1, <2>1, <2>4, QuietStep
<1>3. CASE /\ req[w] \in Request
           /\ req' = [req EXCEPT ![w].loaded = TRUE, ![w].snap = Seen(req[w])]
  <2> DEFINE x == [req[w] EXCEPT !.loaded = TRUE, !.snap = Seen(req[w])]
  <2>1. req' = [req EXCEPT ![w] = x]
    BY <1>3 DEF Sound, TypeOK
  <2>2. /\ x.step = "schedule" /\ x.op = req[w].op /\ x.booking = req[w].booking
        /\ x.rest = req[w].rest /\ x.to = req[w].to /\ x.was = req[w].was
        /\ x.op \notin {"raze", "leave"}
    BY <1>1, <1>3 DEF Request
  <2>3. req[w].op # "create"
    BY <1>1 DEF Reads, RequestsAreReady, Unready, WritesSchedule, Busy
  <2> HIDE DEF x
  <2>4. Ready(x)
    BY <1>1, <2>2, <2>3 DEF Prompt, Ready, Busy
  <2> QED
    BY <1>1, <2>1, <2>4, QuietStep
<1>4. CASE Finish(w)
  BY <1>1, <1>4, FinishStep
<1>5. req[w] \in Request \/ req[w] \in Departure
  BY <1>1, RequestKinds DEF Sound
<1> QED
  BY <1>2, <1>3, <1>4, <1>5 DEF LoadFacility

LEMMA GoingOnIsPrompt ==
  ASSUME Alone, Sound, Prompt, NEW w \in Worker,
         \/ InsertRow(w) \/ RefuseDay(w) \/ WriteRow(w) \/ WriteSchedule(w)
         \/ DeleteParent(w) \/ EnqueueJob(w)
  PROVE  Prompt'
<1>1. /\ Busy(w) /\ req[w] \in Request \cup Destruction \cup Departure
      /\ UNCHANGED <<facilities, bookings, accounts, disturbed>> /\ disturbed' = {}
  BY RequestKinds
  DEF InsertRow, RefuseDay, WriteRow, WriteSchedule, DeleteParent, EnqueueJob, At, Sound,
      Prompt, history
<1>2. CASE InsertRow(w)
  <2>1. req[w].op \notin {"raze", "leave"} /\ req[w].step = "check" /\ req[w].todo = {}
    BY <1>1, <1>2 DEF InsertRow, At, Request, Destruction, Departure
  <2>2. CASE Finish(w)
    BY <1>1, <2>2, FinishStep
  <2>3. CASE HoursOK(req[w]) /\ Advance(w, "schedule")
    BY <1>1, <2>1, <2>3, AdvanceStep
  <2> QED
    BY <1>2, <2>2, <2>3 DEF InsertRow
<1>3. CASE WriteRow(w)
  <2>1. req[w].step = "row"
    BY <1>3 DEF WriteRow, At
  <2>2. \/ Advance(w, "schedule")
        \/ req[w].op \notin {"raze", "leave"} /\ Advance(w, "commit")
    BY <1>3 DEF WriteRow, WritesSchedule
  <2>3. CASE Advance(w, "schedule")
    BY <1>1, <2>1, <2>3, AdvanceStep
  <2>4. CASE req[w].op \notin {"raze", "leave"} /\ Advance(w, "commit")
    BY <1>1, <2>1, <2>4, AdvanceStep
  <2> QED
    BY <2>2, <2>3, <2>4
<1>4. CASE WriteSchedule(w)
  <2>1. /\ req[w].step = "schedule" /\ req[w].op \notin {"raze", "leave"}
        /\ Advance(w, "commit")
    BY <1>1, <1>4 DEF WriteSchedule, Destroys, Razing, Leaving, At
  <2> QED
    BY <1>1, <2>1, AdvanceStep
<1>5. CASE DeleteParent(w)
  <2>1. req[w].step = "delete"
    BY <1>1, <1>5 DEF DeleteParent, At
  <2> QED
    BY <1>1, <1>5, <2>1, AdvanceStep DEF DeleteParent
<1>6. CASE EnqueueJob(w)
  BY <1>1, <1>6, AdvanceStep DEF EnqueueJob
<1>7. CASE RefuseDay(w)
  BY <1>1, <1>7, FinishStep DEF RefuseDay
<1> QED
  BY <1>2, <1>3, <1>4, <1>5, <1>6, <1>7

(* A destruction starts with every booking ahead of it, and takes one after *)
(* the other to those that are gone.                                        *)
LEMMA OnwardIsReady ==
  ASSUME NEW r \in Destruction, FacilityExists(r.facility),
         \E u \in accounts : FacilityDestroy(Account(u)),
         {b \in Booking : BookingExists(b) /\ bookings[b].facility = r.facility} =
           r.rest \cup r.gone,
         NEW x \in Onward(r)
  PROVE  Ready(x)
<1>1. CASE r.rest = {}
  <2>1. x = [r EXCEPT !.step = "delete"]
    BY <1>1 DEF Onward
  <2>2. /\ x.op = "raze" /\ x.step = "delete" /\ x.facility = r.facility
        /\ x.rest = r.rest /\ x.gone = r.gone
    BY <2>1 DEF Destruction
  <2> QED
    BY <1>1, <2>2 DEF Ready
<1>2. CASE r.rest # {}
  <2>1. PICK c \in r.rest : x = [r EXCEPT !.step = "row", !.booking = c, !.rest = @ \ {c}]
    BY <1>2 DEF Onward, Goto
  <2>2. /\ x.op = "raze" /\ x.step = "row" /\ x.facility = r.facility /\ x.booking = c
        /\ x.rest = r.rest \ {c} /\ x.gone = r.gone
    BY <2>1 DEF Destruction
  <2>3. r.rest \cup r.gone = x.rest \cup x.gone \cup {x.booking}
    BY <2>2
  <2> QED
    BY <2>2, <2>3 DEF Ready
<1> QED
  BY <1>1, <1>2

LEMMA CascadingIsPrompt ==
  ASSUME Alone, Sound, Prompt, NEW w \in Worker, WriteCascaded(w)
  PROVE  Prompt'
<1> DEFINE r == [req[w] EXCEPT !.gone = @ \cup {req[w].booking}]
<1>1. /\ Busy(w) /\ req[w] \in Destruction /\ req[w].step = "schedule"
      /\ UNCHANGED <<facilities, bookings, accounts>> /\ disturbed' = {}
  BY RequestKinds DEF WriteCascaded, Razing, At, Sound, Prompt, history
<1>2. PICK x \in Onward(r) : req' = [req EXCEPT ![w] = x]
  BY DEF WriteCascaded
<1>3. r \in Destruction
  <2>1. req[w].booking \in Booking
    BY <1>1, NoRequestIsNone DEF Sound, RowsAreAtHand, Astray, AtBooking, Destruction
  <2> QED
    BY <1>1, <2>1 DEF Destruction
<1>4. /\ r.facility = req[w].facility /\ r.rest = req[w].rest
      /\ r.gone = req[w].gone \cup {req[w].booking} /\ req[w].op = "raze"
  BY <1>1 DEF Destruction
<1> HIDE DEF r
<1>5. /\ FacilityExists(r.facility) /\ \E u \in accounts : FacilityDestroy(Account(u))
      /\ {b \in Booking : BookingExists(b) /\ bookings[b].facility = r.facility} =
           r.rest \cup r.gone
  <2>1. /\ FacilityExists(req[w].facility) /\ \E u \in accounts : FacilityDestroy(Account(u))
        /\ {b \in Booking : BookingExists(b) /\ bookings[b].facility = req[w].facility} =
             req[w].rest \cup req[w].gone \cup {req[w].booking}
    BY <1>1, <1>4 DEF Prompt, Ready, Busy
  <2> QED
    BY <1>4, <2>1
<1>6. Ready(x)
  BY <1>3, <1>5, OnwardIsReady
<1> QED
  BY <1>1, <1>2, <1>6, QuietStep

(* So does the destruction of a user. *)
LEMMA DeletedLast ==
  ASSUME NEW r \in Departure, NEW x \in OnwardLoaded(r)
  PROVE  x.step = "delete" => x.rest = {}
<1>1. CASE r.rest = {}
  <2>1. x = [r EXCEPT !.step = "delete"]
    BY <1>1 DEF OnwardLoaded
  <2> QED
    BY <1>1, <2>1 DEF Departure
<1>2. CASE r.rest # {}
  <2>1. PICK c \in r.rest :
          x = [[r EXCEPT !.step = "row", !.booking = c, !.rest = @ \ {c}]
                 EXCEPT !.facility = r.rows[c].facility, !.loaded = FALSE]
    BY <1>2 DEF OnwardLoaded, GotoLoaded, Goto
  <2> QED
    BY <2>1 DEF Departure
<1> QED
  BY <1>1, <1>2

LEMMA DepartureIsReady ==
  ASSUME Sound, NEW u \in accounts, \E a \in accounts : MayClose(a, u),
         NEW x \in OnwardLoaded(Departing(u))
  PROVE  Ready(x)
<1>1. u \in User
  BY DEF Sound, TypeOK, StoreTypeOK
<1>2. /\ x \in Departure /\ x.op = "leave" /\ x.step \in {"row", "delete"} /\ ~Astray(x)
      /\ x.owner = u /\ x.gone = {} /\ x.wrote = {} /\ (AtBooking(x) => x.loaded = FALSE)
      /\ x.rows = [b \in Booking |-> IF b \in BookingsOf(u) THEN bookings[b] ELSE NoRow]
  BY <1>1, DepartingIsDeparture
<1>3. x.step = "delete" => x.rest = {}
  <2>1. Departing(u) \in Departure
    <3>1. [b \in Booking |-> IF b \in BookingsOf(u) THEN bookings[b] ELSE NoRow]
            \in [Booking -> BookingRow \cup {NoRow}]
      BY DEF Sound, TypeOK, StoreTypeOK
    <3>2. BookingsOf(u) \subseteq Booking /\ [f \in Facility |-> {}] \in [Facility -> SUBSET Slot]
      BY DEF BookingsOf
    <3> QED
      BY <1>1, <3>1, <3>2 DEF Departing, Departure
  <2> QED
    BY <2>1, DeletedLast
<1>4. InHand(x) = BookingsOf(u) /\ \A b \in BookingsOf(u) : x.rows[b] = bookings[b]
  <2>1. /\ \A b \in Booking : x.rows[b] # NoRow <=> b \in InHand(x)
        /\ x.rest \subseteq Booking
    BY <1>2, NoRequestIsNone DEF Astray, Packed, Departure
  <2>2. InHand(x) \subseteq Booking
    BY <1>2, <2>1 DEF InHand
  <2>3. \A b \in Booking : x.rows[b] # NoRow <=> b \in BookingsOf(u)
    BY <1>2 DEF BookingsOf, BookingExists
  <2>4. BookingsOf(u) \subseteq Booking
    BY DEF BookingsOf
  <2> QED
    BY <1>2, <2>1, <2>2, <2>3, <2>4
<1>5. Accounted(x)
  BY <1>2, <1>3, <1>4 DEF Accounted
<1> QED
  BY <1>2, <1>5 DEF Ready

LEMMA RestoringIsPrompt ==
  ASSUME Alone, Sound, Prompt, NEW w \in Worker, RestoreLoaded(w)
  PROVE  Prompt'
<1>1. /\ Busy(w) /\ req[w] \in Departure /\ ~Astray(req[w]) /\ req[w].op = "leave"
      /\ req[w].step = "schedule" /\ req[w].loaded
      /\ UNCHANGED <<facilities, bookings, accounts>> /\ disturbed' = {}
  BY RestoringGoesOn DEF RestoreLoaded, Prompt, history
<1> PICK r \in Departure : r = req[w]
  BY <1>1
<1>2. PICK x \in OnwardLoaded(Restored(r)) :
        /\ req' = [req EXCEPT ![w] = x]
        /\ x \in Departure /\ x.op = "leave" /\ x.step \in {"row", "delete"} /\ ~Astray(x)
        /\ x.owner = r.owner /\ x.rows = r.rows
        /\ x.gone = Restored(r).gone /\ x.wrote = Restored(r).wrote
        /\ x.draft = Restored(r).draft /\ (AtBooking(x) => x.loaded = FALSE)
  BY RestoringGoesOn
<1>3. /\ Restored(r) \in Departure
      /\ x.gone = r.gone \cup {r.booking} /\ x.wrote = r.wrote \cup {r.facility}
      /\ x.draft = [r.draft EXCEPT ![r.facility] = r.snap \cup r.rows[r.booking].slots]
  BY <1>1, <1>2, RestoredIsDeparture
<1>4. Accounted(r) /\ AtBooking(r)
  BY <1>1 DEF Prompt, Ready, Busy, AtBooking
<1>5. /\ r.booking \in Booking /\ r.facility = r.rows[r.booking].facility
      /\ r.facility \in Facility /\ r.draft \in [Facility -> SUBSET Slot]
      /\ r.wrote \subseteq Facility
      /\ \A b \in r.gone : r.rows[b].facility \in r.wrote
  BY <1>1, <1>4, AtBookingFields, DepartureFields, NoRequestIsNone DEF Astray, Packed, Kept
<1>6. InHand(x) = InHand(r)
  <2>1. /\ \A b \in Booking : x.rows[b] # NoRow <=> b \in InHand(x)
        /\ \A b \in Booking : r.rows[b] # NoRow <=> b \in InHand(r)
    BY <1>1, <1>2, NoRequestIsNone DEF Astray, Packed
  <2>2. InHand(x) \subseteq Booking /\ InHand(r) \subseteq Booking
    BY <1>2, DepartureFields DEF InHand
  <2> QED
    BY <1>2, <2>1, <2>2
<1>7. \A f \in x.wrote : x.draft[f] = Offered(f) \cup Given(x, f)
  <2> SUFFICES ASSUME NEW f \in x.wrote
               PROVE  x.draft[f] = Offered(f) \cup Given(x, f)
    OBVIOUS
  <2>1. CASE f = r.facility
    <3>1. Given(x, f) = Given(r, f) \cup r.rows[r.booking].slots
      <4>1. {c \in x.gone : x.rows[c].facility = f}
              = {c \in r.gone : r.rows[c].facility = f} \cup {r.booking}
        BY <1>2, <1>3, <1>5, <2>1
      <4> QED
        BY <1>2, <4>1 DEF Given
    <3>2. x.draft[f] = r.snap \cup r.rows[r.booking].slots
      BY <1>3, <1>5, <2>1
    <3>3. r.snap = Offered(f) \cup Given(r, f)
      BY <1>1, <1>4, <2>1 DEF Accounted
    <3> QED
      BY <3>1, <3>2, <3>3
  <2>2. CASE f # r.facility
    <3>1. Given(x, f) = Given(r, f)
      BY <1>2, <1>3, <1>5, <2>2 DEF Given
    <3>2. f \in r.wrote /\ x.draft[f] = r.draft[f]
      BY <1>3, <1>5, <2>2
    <3> QED
      BY <1>4, <3>1, <3>2 DEF Accounted
  <2> QED
    BY <2>1, <2>2
<1>8. x.step \in {"delete", "commit"} => x.rest = {}
  BY <1>2, <1>3, DeletedLast
<1>9. Accounted(x)
  BY <1>2, <1>4, <1>6, <1>7, <1>8 DEF Accounted
<1>10. Ready(x)
  BY <1>2, <1>9 DEF Ready
<1> QED
  BY <1>1, <1>2, <1>10, QuietStep

LEMMA StartsArePrompt ==
  ASSUME Alone, Sound, Prompt, NEW w \in Worker, Start(w)
  PROVE  Prompt'
<1>1. /\ \A v \in Worker : ~Busy(v)
      /\ UNCHANGED <<facilities, bookings, accounts>> /\ disturbed' = {}
  <2>1. \A v \in Worker : ~Busy(v)
    BY DEF Alone, Start, StartCreate, StartUpdate, StartDestroy, StartExpire, StartRaze,
       StartLeave
  <2>2. \A F : Disturb(F) => disturbed' = {}
    BY <2>1 DEF Disturb, WorksOn, Prompt
  <2> QED
    BY <2>1, <2>2
    DEF Start, StartCreate, StartUpdate, StartDestroy, StartExpire, StartRaze, StartLeave
<1>2. ASSUME NEW x, req' = [req EXCEPT ![w] = x], Ready(x)
      PROVE  Prompt'
  BY <1>1, <1>2, QuietStep
<1>3. CASE \E u \in Customer \cap accounts, b \in Booking, f \in Facility, ss \in Asked :
             StartCreate(w, u, b, f, ss)
  <2> PICK u \in Customer \cap accounts, b \in Booking, f \in Facility, ss \in Asked :
             StartCreate(w, u, b, f, ss)
    BY <1>3
  <2> DEFINE x == [op |-> "create", step |-> "check", owner |-> u, booking |-> b,
                   facility |-> f, slots |-> ss, was |-> "pending", to |-> "pending",
                   todo |-> ss, loaded |-> TRUE, snap |-> Offered(f), rest |-> {}]
  <2>1. req' = [req EXCEPT ![w] = x] /\ x.op = "create" /\ x.step = "check"
        /\ x.slots \ x.todo = {}
    BY DEF StartCreate
  <2> HIDE DEF x
  <2>2. Ready(x)
    BY <2>1 DEF Ready, NoOverlap
  <2> QED
    BY <1>2, <2>1, <2>2
<1>4. CASE \E u \in accounts, b \in Booking, st \in Sent : StartUpdate(w, u, b, st)
  <2> PICK u \in accounts, b \in Booking, st \in Sent : StartUpdate(w, u, b, st)
    BY <1>4
  <2> DEFINE x == Loaded("update", b, u, st)
  <2>1. req' = [req EXCEPT ![w] = x] /\ x.op = "update" /\ x.booking = b
        /\ x.to = st /\ x.was = bookings[b].status
    BY DEF StartUpdate, Loaded
  <2> HIDE DEF x
  <2>2. Ready(x)
    BY <2>1 DEF Ready, StartUpdate
  <2> QED
    BY <1>2, <2>1, <2>2
<1>5. CASE \E u \in accounts, b \in Booking : StartDestroy(w, u, b)
  <2> PICK u \in accounts, b \in Booking : StartDestroy(w, u, b)
    BY <1>5
  <2> DEFINE x == Loaded("destroy", b, u, bookings[b].status)
  <2>1. req' = [req EXCEPT ![w] = x] /\ x.op = "destroy" /\ x.booking = b
    BY DEF StartDestroy, Loaded
  <2> HIDE DEF x
  <2>2. Ready(x)
    BY <2>1 DEF Ready, StartDestroy
  <2> QED
    BY <1>2, <2>1, <2>2
<1>6. CASE \E E \in SUBSET Booking : \E b \in E : StartExpire(w, E, b)
  <2> PICK E \in SUBSET Booking : \E b \in E : StartExpire(w, E, b)
    BY <1>6
  <2> PICK b \in E : StartExpire(w, E, b)
    OBVIOUS
  <2> DEFINE x == [Loaded("expire", b, bookings[b].owner, "approved")
                     EXCEPT !.loaded = FALSE, !.snap = {}, !.rest = E \ {b}]
  <2>1. req' = [req EXCEPT ![w] = x] /\ x.op = "expire" /\ x.booking = b /\ x.rest = E \ {b}
    BY DEF StartExpire, Loaded
  <2> HIDE DEF x
  <2>2. Ready(x)
    BY <2>1 DEF Ready, StartExpire
  <2> QED
    BY <1>2, <2>1, <2>2
<1>7. CASE \E u \in accounts, f \in Facility : StartRaze(w, u, f)
  <2> PICK u \in accounts, f \in Facility : StartRaze(w, u, f)
    BY <1>7
  <2> DEFINE r == [op |-> "raze", step |-> "row", facility |-> f, booking |-> NoRow,
                   rest |-> {b \in Booking : BookingExists(b) /\ bookings[b].facility = f},
                   gone |-> {}]
  <2>1. PICK x \in Onward(r) : req' = [req EXCEPT ![w] = x]
    BY DEF StartRaze
  <2>2. r \in Destruction
    BY DEF Destruction
  <2>3. r.facility = f /\ r.gone = {}
        /\ r.rest = {b \in Booking : BookingExists(b) /\ bookings[b].facility = f}
    OBVIOUS
  <2> HIDE DEF r
  <2>4. Ready(x)
    BY <2>2, <2>3, OnwardIsReady DEF StartRaze
  <2> QED
    BY <1>2, <2>1, <2>4
<1>8. CASE \E a \in accounts, u \in User : StartLeave(w, a, u)
  <2> PICK a \in accounts, u \in User : StartLeave(w, a, u)
    BY <1>8
  <2> PICK x \in OnwardLoaded(Departing(u)) : req' = [req EXCEPT ![w] = x]
    BY DEF StartLeave, Departing
  <2>1. u \in accounts /\ MayClose(a, u)
    BY DEF StartLeave
  <2>2. Ready(x)
    BY <2>1, DepartureIsReady
  <2> QED
    BY <1>2, <2>2
<1> QED
  BY <1>3, <1>4, <1>5, <1>6, <1>7, <1>8 DEF Start

(* Approving one booking leaves the others of the run pending. *)
LEMMA ExpiringIsPrompt ==
  ASSUME Alone, Sound, Prompt, NEW w \in Worker, CommitExpire(w)
  PROVE  Prompt'
<1>1. /\ Busy(w) /\ req[w] \in Request /\ req[w].op = "expire" /\ req[w].step = "commit"
      /\ disturbed' = {} /\ Ready(req[w])
  BY RequestKinds DEF CommitExpire, At, Sound, Prompt, history
<1>2. CASE Finish(w)
  BY <1>1, <1>2, FinishStep
<1>3. ASSUME NEW c \in req[w].rest, req' = [req EXCEPT ![w] = NextExpired(req[w], c)]
      PROVE  Prompt'
  <2> DEFINE x == NextExpired(req[w], c)
  <2>1. /\ x.op = "expire" /\ x.booking = c /\ x.rest = req[w].rest \ {c}
    BY <1>1 DEF NextExpired, Request
  <2>2. \A b \in req[w].rest : Pending(b)'
    <3> SUFFICES ASSUME NEW b \in req[w].rest
                 PROVE  Pending(b)'
      OBVIOUS
    <3>1. Pending(b) /\ b # req[w].booking /\ b \in Booking
      BY <1>1, RequestFields DEF Ready, Busy
    <3>2. bookings'[b] = bookings[b]
      BY <3>1 DEF CommitExpire, StatusWritten, Sound, TypeOK, StoreTypeOK
    <3> QED
      BY <3>1, <3>2 DEF Pending, BookingExists
  <2>3. \A v \in Worker : req'[v] = x
    BY <1>3 DEF Alone, Sound, TypeOK
  <2> HIDE DEF x
  <2> QED
    BY <1>1, <2>1, <2>2, <2>3 DEF Prompt, Ready
<1> QED
  BY <1>2, <1>3 DEF CommitExpire

LEMMA NextIsPrompt ==
  ASSUME Alone, MayCrash = FALSE, Sound, Reads, Prompt, [Next]_vars
  PROVE  Prompt'
<1>1. ASSUME NEW w \in Worker,
             \/ CommitCreate(w) \/ CommitUpdate(w) \/ CommitDestroy(w) \/ CommitRaze(w)
             \/ CommitLeave(w) \/ CreateNotification(w) \/ Abort(w)
      PROVE  Prompt'
  <2>1. disturbed' = {}
    BY <1>1
    DEF CommitCreate, CommitUpdate, CommitDestroy, CommitRaze, CommitLeave,
        CreateNotification, Abort, history, Prompt
  <2>2. CASE Finish(w)
    BY <2>1, <2>2, FinishStep
  <2>3. ASSUME NEW st \in {"enqueue", "notify"}, Advance(w, st), req[w] \in Request
        PROVE  Prompt'
    <3> DEFINE x == [req[w] EXCEPT !.step = st]
    <3>1. req' = [req EXCEPT ![w] = x] /\ x.step = st
      BY <2>3 DEF Advance, Request
    <3> HIDE DEF x
    <3> QED
      BY <2>1, <3>1, DoneStep
  <2>4. CommitCreate(w) \/ CommitUpdate(w) => req[w] \in Request
    BY RequestKinds DEF CommitCreate, CommitUpdate, At, Sound
  <2> QED
    BY <1>1, <2>2, <2>3, <2>4
    DEF CommitCreate, CommitUpdate, CommitDestroy, CommitRaze, CommitLeave,
        CreateNotification, Abort
<1>2. ASSUME NEW w \in Worker, Step(w)
      PROVE  Prompt'
  BY <1>1, <1>2, CheckingIsPrompt, LoadingIsPrompt, GoingOnIsPrompt, CascadingIsPrompt,
     RestoringIsPrompt, ExpiringIsPrompt
  DEF Step
<1>3. ASSUME NEW w \in Worker, FacilityForm(w) \/ \E u \in User : OpenAccount(w, u)
      PROVE  Prompt'
  <2>1. \A v \in Worker : req'[v] = req[v] /\ ~Busy(v)
    BY <1>3 DEF FacilityForm, CreateFacility, SaveSchedule, OpenAccount, Alone
  <2>2. disturbed' = {}
    BY <1>3, <2>1
    DEF FacilityForm, CreateFacility, SaveSchedule, OpenAccount, Disturb, WorksOn, Prompt,
        history
  <2> QED
    BY <2>1, <2>2 DEF Prompt, Ready, Busy
<1>4. CASE (\E b \in Booking : RunConflictJob(b)) \/ UNCHANGED vars
  <2>1. UNCHANGED <<facilities, bookings, accounts, req, disturbed>>
    BY <1>4 DEF RunConflictJob, vars, history
  <2>2. \A w \in Worker : Accounted(req[w]) => Accounted(req[w])'
    BY <2>1 DEF Accounted, BookingsOf, BookingExists, Offered, InHand, AtBooking, Given
  <2> QED
    BY <2>1, <2>2
    DEF Prompt, Ready, NoOverlap, Held, Holds, HoursOK, CondoOf, Pending, BookingExists,
        FacilityExists
<1>5. \A w \in Worker : ~Crash(w)
  BY DEF Crash
<1> QED
  BY <1>1, <1>2, <1>3, <1>4, <1>5, StartsArePrompt DEF Next

LEMMA InitIsPrompt == Init => Prompt
  BY DEF Init, Prompt, Ready
-----------------------------------------------------------------------------
(* What Bookings sees of the rows while the only worker runs x. *)
Viewed(rows, x) ==
  [b \in Booking |->
     IF rows[b] # NoRow /\ x # NoRequest /\ x.booking = b /\ x.step \in {"enqueue", "notify"}
     THEN [rows[b] EXCEPT !.told = x.to]
     ELSE rows[b]]

LEMMA ViewOfOne ==
  ASSUME Alone, NEW w \in Worker
  PROVE  View = Viewed(bookings, req[w]) /\ View' = Viewed(bookings', req'[w])
<1>1. ASSUME NEW b \in Booking, Owes(w, b)
      PROVE  (CHOOSE v \in Worker : Owes(v, b)) = w
  BY <1>1 DEF Alone
<1>2. ASSUME NEW b \in Booking, Owes(w, b)'
      PROVE  (CHOOSE v \in Worker : Owes(v, b)') = w
  BY <1>2 DEF Alone
<1>3. \A b \in Booking :
        /\ (\E v \in Worker : Owes(v, b)) <=> Owes(w, b)
        /\ (\E v \in Worker : Owes(v, b)') <=> Owes(w, b)'
  BY DEF Alone
<1>4. View = Viewed(bookings, req[w])
  <2>1. ASSUME NEW b \in Booking
        PROVE  (IF BookingExists(b) /\ \E v \in Worker : Owes(v, b)
                THEN [bookings[b] EXCEPT !.told = req[CHOOSE v \in Worker : Owes(v, b)].to]
                ELSE bookings[b])
               = (IF bookings[b] # NoRow /\ req[w] # NoRequest /\ req[w].booking = b
                       /\ req[w].step \in {"enqueue", "notify"}
                  THEN [bookings[b] EXCEPT !.told = req[w].to] ELSE bookings[b])
    <3>1. Owes(w, b) <=> /\ req[w] # NoRequest /\ req[w].booking = b
                         /\ req[w].step \in {"enqueue", "notify"}
      BY DEF Owes, Busy
    <3> QED
      BY <1>1, <1>3, <3>1 DEF BookingExists
  <2> QED
    BY <2>1 DEF View, Viewed
<1>5. View' = Viewed(bookings', req'[w])
  <2>1. ASSUME NEW b \in Booking
        PROVE  (IF BookingExists(b)' /\ \E v \in Worker : Owes(v, b)'
                THEN [bookings'[b] EXCEPT !.told = req'[CHOOSE v \in Worker : Owes(v, b)'].to]
                ELSE bookings'[b])
               = (IF bookings'[b] # NoRow /\ req'[w] # NoRequest /\ req'[w].booking = b
                       /\ req'[w].step \in {"enqueue", "notify"}
                  THEN [bookings'[b] EXCEPT !.told = req'[w].to] ELSE bookings'[b])
    <3>1. Owes(w, b)' <=> /\ req'[w] # NoRequest /\ req'[w].booking = b
                          /\ req'[w].step \in {"enqueue", "notify"}
      BY DEF Owes, Busy
    <3> QED
      BY <1>2, <1>3, <3>1 DEF BookingExists
  <2> QED
    BY <2>1 DEF View, Viewed
<1> QED
  BY <1>4, <1>5

(* Between requests, and before a commit, it sees the rows as they are. *)
LEMMA ViewedAsTheyAre ==
  ASSUME NEW rows \in [Booking -> BookingRow \cup {NoRow}], NEW x,
         x = NoRequest \/ x.step \notin {"enqueue", "notify"}
  PROVE  Viewed(rows, x) = rows
  BY DEF Viewed

LEMMA ViewedAsTold ==
  ASSUME NEW rows \in [Booking -> BookingRow \cup {NoRow}], NEW x,
         x # NoRequest, x.step \in {"enqueue", "notify"}, x.booking \in Booking
  PROVE  /\ rows[x.booking] # NoRow =>
              Viewed(rows, x) = [rows EXCEPT ![x.booking].told = x.to]
         /\ rows[x.booking] = NoRow => Viewed(rows, x) = rows
  BY DEF Viewed
-----------------------------------------------------------------------------
(* The statements and the follow-ups are stuttering steps of Bookings. *)
LEMMA StatementsStutter ==
  ASSUME Alone, Sound, NEW w \in Worker,
         UNCHANGED <<facilities, bookings, accounts>>,
         \/ req'[w] = req[w]
         \/ /\ ~Busy(w) \/ req[w].step \notin {"enqueue", "notify"}
            /\ ~Busy(w)' \/ req'[w].step \notin {"enqueue", "notify"}
         \/ EnqueueJob(w)
  PROVE  UNCHANGED <<facilities, View, accounts>>
<1>1. bookings \in [Booking -> BookingRow \cup {NoRow}]
  BY DEF Sound, TypeOK, StoreTypeOK
<1>2. CASE req'[w] = req[w]
  BY <1>2, ViewOfOne
<1>3. CASE /\ ~Busy(w) \/ req[w].step \notin {"enqueue", "notify"}
           /\ ~Busy(w)' \/ req'[w].step \notin {"enqueue", "notify"}
  <2>1. Viewed(bookings, req[w]) = bookings /\ Viewed(bookings, req'[w]) = bookings
    BY <1>1, <1>3, ViewedAsTheyAre DEF Busy
  <2> QED
    BY <2>1, ViewOfOne
<1>4. CASE EnqueueJob(w)
  <2>1. Busy(w) /\ req[w] \in Request /\ req[w].step = "enqueue"
    BY <1>4, RequestKinds DEF EnqueueJob, At, Sound
  <2>2. req'[w] = [req[w] EXCEPT !.step = "notify"]
    BY <1>4 DEF EnqueueJob, Advance, Sound, TypeOK
  <2>3. /\ req'[w].step = "notify" /\ req'[w].booking = req[w].booking
        /\ req'[w].to = req[w].to /\ req'[w] # NoRequest
    BY <2>1, <2>2, NoRequestIsNone DEF Request
  <2>4. Viewed(bookings, req[w]) = Viewed(bookings, req'[w])
    BY <2>1, <2>3 DEF Viewed, Busy
  <2> QED
    BY <2>4, ViewOfOne
<1> QED
  BY <1>2, <1>3, <1>4

LEMMA NotificationStutters ==
  ASSUME Alone, Sound, NEW w \in Worker, CreateNotification(w)
  PROVE  UNCHANGED <<facilities, View, accounts>>
<1>1. /\ Busy(w) /\ req[w] \in Request /\ req[w].step = "notify"
      /\ req[w].booking \in Booking /\ req'[w] = NoRequest
      /\ bookings \in [Booking -> BookingRow \cup {NoRow}]
      /\ bookings' \in [Booking -> BookingRow \cup {NoRow}]
  <2>1. Busy(w) /\ req[w] \in Request /\ req[w].step = "notify" /\ req[w].booking \in Booking
    BY RequestKinds, RequestFields DEF CreateNotification, At, Sound
  <2> DEFINE r == req[w]
  <2>2. r \in Request /\ bookings' = IF BookingExists(r.booking)
          THEN [bookings EXCEPT ![r.booking].told = r.to] ELSE bookings
    BY <2>1 DEF CreateNotification
  <2> HIDE DEF r
  <2>3. bookings' \in [Booking -> BookingRow \cup {NoRow}]
    BY <2>2, WrittenBookings
  <2> QED
    BY <2>1, <2>3 DEF CreateNotification, Finish, Sound, TypeOK, StoreTypeOK
<1>2. Viewed(bookings, req[w]) = bookings'
  BY <1>1, ViewedAsTold DEF CreateNotification, BookingExists, Busy
<1>3. Viewed(bookings', req'[w]) = bookings'
  BY <1>1, ViewedAsTheyAre
<1> QED
  BY <1>2, <1>3, ViewOfOne DEF CreateNotification
-----------------------------------------------------------------------------
(* The operators of Bookings, where it sees the rows as they are. *)
LEMMA SameOperators ==
  ASSUME View = bookings
  PROVE  /\ \A f : Atomic!Held(f) = Held(f)
         /\ \A b : Atomic!BookingExists(b) = BookingExists(b)
         /\ \A f : Atomic!FacilityExists(f) = FacilityExists(f)
         /\ \A b : Atomic!CondoOf(b) = CondoOf(b)
         /\ \A u : Atomic!Account(u) = Account(u)
         /\ \A f : Atomic!Cascade(f) = Cascade(f)
         /\ \A u : Atomic!CascadeOfUser(u) = CascadeOfUser(u)
         /\ \A u : Atomic!RestoreOfUser(u) = RestoreOfUser(u)
<1>1. /\ \A f : Atomic!Held(f) = Held(f)
      /\ \A b : Atomic!BookingExists(b) = BookingExists(b)
      /\ \A f : Atomic!FacilityExists(f) = FacilityExists(f)
      /\ \A b : Atomic!CondoOf(b) = CondoOf(b)
      /\ \A u : Atomic!Account(u) = Account(u)
      /\ \A f : Atomic!Cascade(f) = Cascade(f)
  BY DEF Atomic!Held, Atomic!Holds, Held, Holds, Atomic!BookingExists, BookingExists,
         Atomic!FacilityExists, FacilityExists, Atomic!CondoOf, CondoOf, Atomic!Account, Account,
         Atomic!Cascade, Cascade, Atomic!Active, Active
<1>2. \A u : Atomic!BookingsOf(u) = BookingsOf(u)
  BY <1>1 DEF Atomic!BookingsOf, BookingsOf
<1>3. \A u, f : Atomic!SlotsAt(u, f) = SlotsAt(u, f)
  BY <1>2 DEF Atomic!SlotsAt, SlotsAt
<1>4. /\ \A u : Atomic!CascadeOfUser(u) = CascadeOfUser(u)
      /\ \A u : Atomic!RestoreOfUser(u) = RestoreOfUser(u)
  BY <1>1, <1>2, <1>3
  DEF Atomic!CascadeOfUser, CascadeOfUser, Atomic!RestoreOfUser, RestoreOfUser
<1> QED
  BY <1>1, <1>4

LEMMA SamePolicies ==
  /\ \A u : Atomic!BookingCreate(u)
  /\ \A u, c : Atomic!BookingUpdate(u, c) = BookingUpdate(u, c)
  /\ \A u, o, s, c : Atomic!BookingDestroy(u, o, s, c) = BookingDestroy(u, o, s, c)
  /\ \A u : Atomic!FacilityCreate(u) = FacilityCreate(u)
  /\ \A u, c : Atomic!FacilityUpdate(u, c) = FacilityUpdate(u, c)
  /\ \A u : Atomic!FacilityDestroy(u) = FacilityDestroy(u)
  /\ \A a, u : Atomic!MayClose(a, u) = MayClose(a, u)
  BY DEF Atomic!MayClose, MayClose, Atomic!UserDestroy, UserDestroy, Atomic!Account, Account,
         Atomic!BookingCreate, Atomic!BookingUpdate, Atomic!BookingDestroy,
         Atomic!FacilityCreate, Atomic!FacilityUpdate, Atomic!FacilityDestroy,
         Atomic!SuperAdmin, Atomic!AdminOf, Atomic!OperationAdmin, Atomic!StatusIsTheArray,
         Atomic!BookingStatus, BookingUpdate, BookingDestroy, FacilityCreate, FacilityUpdate,
         FacilityDestroy, SuperAdmin, AdminOf, OperationAdmin, StatusIsTheArray, BookingStatus

(* What a request has at its commit. *)
LEMMA AtCommit ==
  ASSUME Alone, Sound, Reads, Prompt, NEW w \in Worker, At(w, "commit")
  PROVE  /\ Busy(w) /\ Uncommitted(w) /\ req[w] # NoRequest
         /\ View = bookings /\ Ready(req[w])
         /\ req[w].op # "leave" => req[w].facility \in Facility
         /\ req[w].op \notin {"raze", "leave"} =>
              /\ req[w] \in Request /\ req[w].booking \in Booking
         /\ req[w].op \in {"update", "destroy"} =>
              /\ BookingExists(req[w].booking)
              /\ bookings[req[w].booking].facility = req[w].facility
              /\ bookings[req[w].booking].slots = req[w].slots
              /\ bookings[req[w].booking].status = req[w].was
              /\ FacilityExists(req[w].facility)
         /\ req[w].op \in {"create", "update", "destroy"} /\ WritesSchedule(req[w]) =>
              req[w].snap = Offered(req[w].facility)
         /\ bookings \in [Booking -> BookingRow \cup {NoRow}]
         /\ facilities \in [Facility -> FacilityRow \cup {NoRow}]
<1>1. /\ Busy(w) /\ Uncommitted(w) /\ Ready(req[w]) /\ req[w] # NoRequest
      /\ req[w].step = "commit"
      /\ bookings \in [Booking -> BookingRow \cup {NoRow}]
      /\ facilities \in [Facility -> FacilityRow \cup {NoRow}]
  BY DEF At, Busy, Uncommitted, Prompt, Sound, TypeOK, StoreTypeOK
<1>2. View = bookings
  BY <1>1, ViewOfOne, ViewedAsTheyAre
<1>3. /\ req[w].op # "leave" => req[w].facility \in Facility
      /\ req[w].op \notin {"raze", "leave"} =>
           req[w] \in Request /\ req[w].booking \in Booking
  BY <1>1, RequestKinds, RequestFields DEF Sound
<1>4. /\ req[w].op \in {"update", "destroy"} =>
           /\ BookingExists(req[w].booking)
           /\ bookings[req[w].booking].slots = req[w].slots
           /\ bookings[req[w].booking].status = req[w].was
      /\ req[w].op \notin {"expire", "raze", "leave"} /\ req[w].loaded =>
           req[w].snap = Offered(req[w].facility)
  BY <1>1 DEF Reads, UndisturbedReadsAreFresh, Prompt
<1>5. req[w].op \in {"update", "destroy"} =>
        bookings[req[w].booking].facility = req[w].facility
  BY <1>1, <1>3, <1>4 DEF Reads, Order, RowsAreWhereTheyWere, About, Knows, AsKnown
<1>6. req[w].op \in {"update", "destroy"} => FacilityExists(req[w].facility)
  BY <1>3, <1>4, <1>5, BookingFields
<1>7. req[w].op \in {"create", "update", "destroy"} /\ WritesSchedule(req[w]) => req[w].loaded
  BY <1>1 DEF Reads, RequestsAreReady, Unready
<1> QED
  BY <1>1, <1>2, <1>3, <1>4, <1>5, <1>6, <1>7

(* Rows that agree in every column are equal. *)
LEMMA SameRows ==
  ASSUME NEW x \in BookingRow, NEW y \in BookingRow,
         x.owner = y.owner, x.facility = y.facility, x.slots = y.slots,
         x.status = y.status, x.told = y.told, x.reopened = y.reopened
  PROVE  x = y
  BY DEF BookingRow

LEMMA CreationIsAtomic ==
  ASSUME Alone, Sound, Reads, Prompt, NEW w \in Worker, CommitCreate(w)
  PROVE  Atomic!Next
<1> DEFINE r == req[w]
           row == [owner |-> r.owner, facility |-> r.facility, slots |-> r.slots,
                   status |-> "pending", told |-> "pending", reopened |-> FALSE]
           new == [owner |-> r.owner, facility |-> r.facility, slots |-> r.slots,
                   status |-> "pending", told |-> "none", reopened |-> FALSE]
<1>1. /\ r.op = "create" /\ r.step = "commit" /\ r \in Request /\ View = bookings /\ Busy(w)
      /\ r.booking \in Booking /\ r.facility \in Facility /\ r.owner \in User
      /\ r.slots \in SUBSET Slot /\ r.snap = Offered(r.facility)
      /\ NoOverlap(r.facility, r.slots) /\ HoursOK(r) /\ r.to = "pending"
      /\ bookings \in [Booking -> BookingRow \cup {NoRow}]
      /\ facilities \in [Facility -> FacilityRow \cup {NoRow}]
  <2>1. At(w, "commit") /\ r.op = "create" /\ WritesSchedule(r)
    BY DEF CommitCreate, WritesSchedule
  <2>2. /\ r \in Request /\ Ready(r) /\ Busy(w) /\ r # NoRequest /\ r.step = "commit"
    BY <2>1, AtCommit DEF At
  <2>3. r.todo = {} /\ HoursOK(r) /\ NoOverlap(r.facility, r.slots \ r.todo)
    BY <2>1, <2>2 DEF Ready
  <2>4. r.slots \ r.todo = r.slots
    BY <2>3
  <2>5. r.to = "pending"
    BY <2>1, <2>2 DEF Reads, RequestsAreReady, Unready
  <2> QED
    BY <2>1, <2>2, <2>3, <2>4, <2>5, AtCommit, RequestFields
<1>2. ~BookingExists(r.booking) /\ FacilityExists(r.facility) /\ r.owner \in accounts
  BY <1>1
  DEF Reads, Order, NewIdsAreOwn, Creating, Uncommitted, Sound, KeysAreKept, Keyed, Busy
<1>3. View' = [bookings EXCEPT ![r.booking] = row]
  <2>1. bookings' = [bookings EXCEPT ![r.booking] = new]
    BY DEF CommitCreate
  <2>2. new \in BookingRow /\ row = [new EXCEPT !.told = "pending"]
    <3> HIDE DEF r
    <3>1. new \in BookingRow /\ row \in BookingRow
      BY <1>1 DEF BookingRow, BookingStatus
    <3> DEFINE changed == [new EXCEPT !.told = "pending"]
    <3>2. changed \in BookingRow
      BY <3>1 DEF BookingRow, BookingStatus
    <3>3. /\ changed.owner = r.owner /\ changed.facility = r.facility
          /\ changed.slots = r.slots /\ changed.status = "pending"
          /\ changed.told = "pending" /\ changed.reopened = FALSE
      OBVIOUS
    <3>4. /\ row.owner = r.owner /\ row.facility = r.facility
          /\ row.slots = r.slots /\ row.status = "pending"
          /\ row.told = "pending" /\ row.reopened = FALSE
      OBVIOUS
    <3> HIDE DEF row, changed
    <3>5. row = changed
      BY <3>1, <3>2, <3>3, <3>4, SameRows
    <3> QED
      BY <3>1, <3>5 DEF changed
  <2>3. req'[w] = [r EXCEPT !.step = "enqueue"]
    BY DEF CommitCreate, Advance, Sound, TypeOK
  <2>4. /\ req'[w].step = "enqueue" /\ req'[w].booking = r.booking /\ req'[w].to = "pending"
        /\ req'[w] # NoRequest
    BY <1>1, <2>3, NoRequestIsNone DEF Request
  <2> HIDE DEF r, row, new
  <2>5. /\ bookings' \in [Booking -> BookingRow \cup {NoRow}]
        /\ bookings'[r.booking] = new /\ new # NoRow
    BY <1>1, <2>1, <2>2, NoRowIsNone
  <2>6. Viewed(bookings', req'[w]) = [bookings' EXCEPT ![r.booking].told = "pending"]
    <3>1. req'[w].booking \in Booking /\ bookings'[req'[w].booking] # NoRow
      BY <1>1, <2>4, <2>5
    <3>2. Viewed(bookings', req'[w])
            = [bookings' EXCEPT ![req'[w].booking].told = req'[w].to]
      BY <2>4, <2>5, <3>1, ViewedAsTold
    <3> QED
      BY <2>4, <3>2
  <2>7. [bookings' EXCEPT ![r.booking].told = "pending"] = [bookings EXCEPT ![r.booking] = row]
    BY <1>1, <2>1, <2>2, <2>5
  <2> QED
    BY <2>6, <2>7, ViewOfOne
<1>4. facilities' = Atomic!Remove(r.facility, r.slots)
  BY <1>1, <1>2
  DEF CommitCreate, StoreSchedule, WritesSchedule, Rewritten, Offered, Atomic!Remove
<1>5. Atomic!NoOverlap(r.facility, r.slots) /\ Atomic!WithinHours(r.facility, r.slots)
  BY <1>1, SameOperators DEF Atomic!NoOverlap, NoOverlap, Atomic!WithinHours, HoursOK,
     Atomic!Offered, Offered
<1>6. Atomic!CreateBooking(r.owner, r.booking, r.facility, r.slots)
  BY <1>1, <1>2, <1>3, <1>4, <1>5, SameOperators, SamePolicies
  DEF Atomic!CreateBooking, CommitCreate
<1> QED
  BY <1>1, <1>2, <1>6 DEF Atomic!Next, Atomic!BookingRequest

(* The notification counts as sent when the status is committed. *)
LEMMA UpdateIsViewed ==
  ASSUME Alone, Sound, Reads, Prompt, NEW w \in Worker, CommitUpdate(w),
         NEW b \in Booking, b = req[w].booking, NEW st, st = req[w].to
  PROVE  \E row \in BookingRow :
           /\ View' = [bookings EXCEPT ![b] = row]
           /\ row.owner = bookings[b].owner /\ row.facility = bookings[b].facility
           /\ row.slots = bookings[b].slots /\ row.status = st
           /\ row.told = IF st # "pending" THEN st ELSE bookings[b].told
           /\ row.reopened = (bookings[b].reopened
                                \/ (bookings[b].status \in Refused /\ st \in Active))
<1> DEFINE written == [bookings[b] EXCEPT
                         !.status = st,
                         !.reopened = @ \/ (bookings[b].status \in Refused /\ st \in Active)]
<1>1. /\ req[w] \in Request /\ BookingExists(b) /\ bookings[b] \in BookingRow
      /\ st \in BookingStatus /\ bookings \in [Booking -> BookingRow \cup {NoRow}]
  BY AtCommit, RequestFields DEF CommitUpdate, BookingExists
<1>2. /\ written \in BookingRow
      /\ written.owner = bookings[b].owner /\ written.facility = bookings[b].facility
      /\ written.slots = bookings[b].slots /\ written.status = st
      /\ written.told = bookings[b].told
      /\ written.reopened = (bookings[b].reopened
                               \/ (bookings[b].status \in Refused /\ st \in Active))
  BY <1>1 DEF BookingRow
<1>3. bookings' = [bookings EXCEPT ![b] = written]
  BY <1>1 DEF CommitUpdate, StatusWritten
<1> HIDE DEF written
<1>4. /\ bookings' \in [Booking -> BookingRow \cup {NoRow}]
      /\ bookings'[b] = written /\ written # NoRow
  BY <1>1, <1>2, <1>3, NoRowIsNone
<1>5. CASE st = "pending"
  <2>1. req'[w] = NoRequest
    BY <1>5 DEF CommitUpdate, HasMessage, Finish, Sound, TypeOK
  <2>2. View' = bookings'
    BY <1>4, <2>1, ViewOfOne, ViewedAsTheyAre
  <2> QED
    BY <1>2, <1>3, <1>5, <2>2
<1>6. CASE st # "pending"
  <2>1. req'[w] = [req[w] EXCEPT !.step = "notify"]
    BY <1>6 DEF CommitUpdate, HasMessage, Advance, Sound, TypeOK
  <2>2. /\ req'[w].step = "notify" /\ req'[w].booking = b /\ req'[w].to = st
        /\ req'[w] # NoRequest
    BY <1>1, <2>1, NoRequestIsNone DEF Request
  <2>3. View' = [bookings' EXCEPT ![b].told = st]
    <3>1. req'[w].booking \in Booking /\ bookings'[req'[w].booking] # NoRow
      BY <1>4, <2>2
    <3>2. Viewed(bookings', req'[w]) = [bookings' EXCEPT ![req'[w].booking].told = req'[w].to]
      BY <1>4, <2>2, <3>1, ViewedAsTold
    <3> QED
      BY <2>2, <3>2, ViewOfOne
  <2> DEFINE row == [written EXCEPT !.told = st]
  <2>4. /\ row \in BookingRow /\ row.owner = written.owner /\ row.facility = written.facility
        /\ row.slots = written.slots /\ row.status = written.status /\ row.told = st
        /\ row.reopened = written.reopened
    BY <1>1, <1>2 DEF BookingRow
  <2>5. View' = [bookings EXCEPT ![b] = row]
    BY <1>1, <1>3, <1>4, <2>3
  <2> HIDE DEF row
  <2> QED
    BY <1>2, <1>6, <2>4, <2>5
<1> QED
  BY <1>5, <1>6

LEMMA UpdateIsAtomic ==
  ASSUME Alone, Sound, Reads, Prompt, NEW w \in Worker, CommitUpdate(w)
  PROVE  Atomic!Next
<1>1. At(w, "commit") /\ req[w].op = "update"
  BY DEF CommitUpdate
<1> PICK b \in Booking, g \in Facility, st \in BookingStatus :
      b = req[w].booking /\ g = req[w].facility /\ st = req[w].to
  BY <1>1, AtCommit, RequestFields
<1>2. /\ View = bookings /\ BookingExists(b) /\ FacilityExists(g)
      /\ bookings[b].facility = g /\ bookings[b].slots = req[w].slots
      /\ bookings[b].status = req[w].was /\ bookings[b] \in BookingRow
      /\ WritesSchedule(req[w]) => req[w].snap = Offered(g)
      /\ st # bookings[b].status
      /\ \E u \in accounts : BookingUpdate(Account(u), CondoOf(b))
      /\ facilities \in [Facility -> FacilityRow \cup {NoRow}]
      /\ bookings \in [Booking -> BookingRow \cup {NoRow}]
  BY <1>1, AtCommit DEF At, Ready, BookingExists
<1> PICK u \in accounts : BookingUpdate(Account(u), CondoOf(b))
  BY <1>2
<1>3. PICK row \in BookingRow :
        /\ View' = [bookings EXCEPT ![b] = row]
        /\ row.owner = bookings[b].owner /\ row.facility = bookings[b].facility
        /\ row.slots = bookings[b].slots /\ row.status = st
        /\ row.told = IF st # "pending" THEN st ELSE bookings[b].told
        /\ row.reopened = (bookings[b].reopened
                             \/ (bookings[b].status \in Refused /\ st \in Active))
  BY UpdateIsViewed
<1> DEFINE asked == [bookings[b] EXCEPT
                       !.status = st, !.facility = g,
                       !.told = Atomic!Message(bookings[b].status, st, @),
                       !.reopened = \/ @
                                    \/ bookings[b].status \in Refused /\ st \in Active
                                    \/ g # bookings[b].facility]
<1>4. asked = row
  <2>1. Atomic!Message(bookings[b].status, st, bookings[b].told)
          = IF st # "pending" THEN st ELSE bookings[b].told
    BY <1>2 DEF Atomic!Message
  <2>2. /\ asked \in BookingRow
        /\ asked.owner = bookings[b].owner /\ asked.facility = g
        /\ asked.slots = bookings[b].slots /\ asked.status = st
        /\ asked.told = IF st # "pending" THEN st ELSE bookings[b].told
        /\ asked.reopened = (bookings[b].reopened
                               \/ (bookings[b].status \in Refused /\ st \in Active))
    BY ZenonT(30), <1>2, <2>1 DEF BookingRow
  <2> HIDE DEF asked
  <2> QED
    BY <1>2, <1>3, <2>2, SameRows
<1>5. facilities' = IF Atomic!GivesBack(bookings[b].status, st)
                    THEN Atomic!Restore(g, bookings[b].slots) ELSE facilities
  <2>1. WritesSchedule(req[w]) <=> Atomic!GivesBack(bookings[b].status, st)
    BY <1>1, <1>2
    DEF WritesSchedule, GivesBack, Atomic!GivesBack, Atomic!Active, Active, Atomic!Refused, Refused
  <2>2. facilities' = IF WritesSchedule(req[w])
                      THEN [facilities EXCEPT ![g].schedule = req[w].snap \cup req[w].slots]
                      ELSE facilities
    BY <1>1, <1>2 DEF CommitUpdate, StoreSchedule, Rewritten
  <2> QED
    BY <1>2, <2>1, <2>2 DEF Atomic!Restore, Offered
<1>6. Atomic!UpdateBooking(u, b, st, g)
  <2>1. View' = [bookings EXCEPT ![b] = asked]
    BY <1>3, <1>4
  <2>2. View' = [bookings EXCEPT
                   ![b].status = st, ![b].facility = g,
                   ![b].told = Atomic!Message(bookings[b].status, st, @),
                   ![b].reopened = \/ @
                                   \/ bookings[b].status \in Refused /\ st \in Active
                                   \/ g # bookings[b].facility]
    BY <1>2, <2>1
  <2> HIDE DEF asked
  <2> QED
    BY <1>2, <1>5, <2>2, SameOperators, SamePolicies
    DEF Atomic!UpdateBooking, CommitUpdate, Atomic!Refused, Refused, Atomic!Active, Active
<1> QED
  BY <1>6 DEF Atomic!Next, Atomic!BookingRequest, Atomic!BookingStatus, BookingStatus

LEMMA ExpirationIsAtomic ==
  ASSUME Alone, Sound, Reads, Prompt, NEW w \in Worker, CommitExpire(w)
  PROVE  Atomic!Next
<1>1. At(w, "commit") /\ req[w].op = "expire"
  BY DEF CommitExpire
<1> PICK b \in Booking : b = req[w].booking
  BY <1>1, AtCommit
<1>2. /\ View = bookings /\ req[w] \in Request /\ req[w].to = "approved"
      /\ BookingExists(b) /\ bookings[b].status = "pending" /\ bookings[b] \in BookingRow
      /\ bookings \in [Booking -> BookingRow \cup {NoRow}]
  <2>1. /\ View = bookings /\ req[w] \in Request /\ Ready(req[w]) /\ req[w] # NoRequest
        /\ bookings \in [Booking -> BookingRow \cup {NoRow}]
    BY <1>1, AtCommit
  <2>2. req[w].to = "approved"
    BY <1>1, <2>1 DEF Reads, RequestsAreReady, Unready
  <2>3. Pending(b)
    BY <1>1, <2>1 DEF At, Ready
  <2> QED
    BY <2>1, <2>2, <2>3 DEF Pending, BookingExists
<1> DEFINE written == [bookings[b] EXCEPT
                         !.status = "approved",
                         !.reopened = @ \/ (bookings[b].status \in Refused
                                              /\ "approved" \in Active)]
           asked == [bookings[b] EXCEPT !.status = "approved"]
<1>3. written = asked /\ written \in BookingRow
  <2>1. /\ written \in BookingRow /\ asked \in BookingRow
        /\ written.owner = asked.owner /\ written.facility = asked.facility
        /\ written.slots = asked.slots /\ written.status = asked.status
        /\ written.told = asked.told /\ written.reopened = asked.reopened
    BY <1>2 DEF BookingRow, BookingStatus, Refused
  <2> HIDE DEF written, asked
  <2> QED
    BY <2>1, SameRows
<1>4. bookings' = [bookings EXCEPT ![b] = written]
  BY <1>2 DEF CommitExpire, StatusWritten
<1>5. View' = bookings'
  <2>1. req'[w] = NoRequest \/ req'[w].step = "row"
    <3>1. \A c : NextExpired(req[w], c).step = "row"
      BY <1>2 DEF NextExpired, Request
    <3> QED
      BY <3>1 DEF CommitExpire, Finish, Sound, TypeOK
  <2>2. bookings' \in [Booking -> BookingRow \cup {NoRow}]
    <3> HIDE DEF written, asked
    <3> QED
      BY <1>2, <1>3, <1>4
  <2>3. Viewed(bookings', req'[w]) = bookings'
    BY <2>1, <2>2, ViewedAsTheyAre
  <2> QED
    BY <2>3, ViewOfOne
<1>6. Atomic!ExpirePending({b})
  <2>1. View' = [c \in Booking |-> IF c \in {b} THEN asked ELSE bookings[c]]
    <3> HIDE DEF written, asked
    <3> QED
      BY <1>2, <1>3, <1>4, <1>5
  <2>2. View' = [c \in Booking |->
                   IF c \in {b} THEN [View[c] EXCEPT !.status = "approved"] ELSE View[c]]
    BY <1>2, <2>1
  <2> HIDE DEF written, asked
  <2> QED
    BY <1>2, <2>2, SameOperators DEF Atomic!ExpirePending, CommitExpire
<1> QED
  BY <1>6 DEF Atomic!Next

LEMMA DestroyIsAtomic ==
  ASSUME Alone, Sound, Reads, Prompt, NEW w \in Worker, CommitDestroy(w)
  PROVE  Atomic!Next
<1>1. At(w, "commit") /\ req[w].op = "destroy" /\ WritesSchedule(req[w])
  BY DEF CommitDestroy, WritesSchedule
<1> PICK b \in Booking, f \in Facility : b = req[w].booking /\ f = req[w].facility
  BY <1>1, AtCommit
<1>2. /\ View = bookings /\ BookingExists(b) /\ FacilityExists(f)
      /\ bookings[b].facility = f /\ bookings[b].slots = req[w].slots
      /\ req[w].snap = Offered(f)
      /\ \E u \in accounts : BookingDestroy(Account(u), bookings[b].owner, bookings[b].status,
                           CondoOf(b))
      /\ facilities \in [Facility -> FacilityRow \cup {NoRow}]
      /\ bookings \in [Booking -> BookingRow \cup {NoRow}]
  BY <1>1, AtCommit DEF At, Ready
<1> PICK u \in accounts : BookingDestroy(Account(u), bookings[b].owner, bookings[b].status,
                            CondoOf(b))
  BY <1>2
<1>3. View' = [bookings EXCEPT ![b] = NoRow]
  <2>1. req'[w] = NoRequest /\ bookings' = [bookings EXCEPT ![b] = NoRow]
    BY DEF CommitDestroy, Finish, Sound, TypeOK
  <2>2. bookings' \in [Booking -> BookingRow \cup {NoRow}]
    BY <1>2, <2>1
  <2>3. Viewed(bookings', req'[w]) = bookings'
    BY <2>1, <2>2, ViewedAsTheyAre
  <2> QED
    BY <2>1, <2>3, ViewOfOne
<1>4. facilities' = Atomic!Restore(f, bookings[b].slots)
  <2>1. facilities' = [facilities EXCEPT ![f].schedule = req[w].snap \cup req[w].slots]
    BY <1>1, <1>2 DEF CommitDestroy, StoreSchedule, Rewritten
  <2> QED
    BY <1>2, <2>1 DEF Atomic!Restore, Offered
<1>5. Atomic!DestroyBooking(u, b)
  BY <1>2, <1>3, <1>4, SameOperators, SamePolicies DEF Atomic!DestroyBooking, CommitDestroy
<1> QED
  BY <1>5 DEF Atomic!Next, Atomic!BookingRequest

(* A destruction has met every booking of its facility, and leaves none.    *)
LEMMA RazeIsAtomic ==
  ASSUME Alone, Sound, Reads, Prompt, NEW w \in Worker, CommitRaze(w)
  PROVE  Atomic!Next
<1>1. At(w, "commit") /\ req[w].op = "raze"
  BY DEF CommitRaze
<1> PICK f \in Facility : f = req[w].facility
  BY <1>1, AtCommit
<1>2. /\ View = bookings /\ FacilityExists(f)
      /\ \E u \in accounts : FacilityDestroy(Account(u))
      /\ {b \in Booking : BookingExists(b) /\ bookings[b].facility = f} = req[w].gone
      /\ bookings \in [Booking -> BookingRow \cup {NoRow}]
  <2>1. Ready(req[w]) /\ req[w] # NoRequest /\ req[w].step = "commit"
    BY <1>1, AtCommit DEF At
  <2>2. /\ FacilityExists(f) /\ \E u \in accounts : FacilityDestroy(Account(u))
        /\ {b \in Booking : BookingExists(b) /\ bookings[b].facility = f} =
             req[w].rest \cup req[w].gone \cup {}
        /\ req[w].rest = {}
    BY <1>1, <2>1 DEF Ready
  <2> QED
    BY <1>1, <2>2, AtCommit
<1> PICK u \in accounts : FacilityDestroy(Account(u))
  BY <1>2
<1>3. Strays(req[w]) = {}
  BY <1>1, <1>2 DEF Strays
<1>4. /\ facilities' = [facilities EXCEPT ![f] = NoRow] /\ req'[w] = NoRequest
      /\ bookings' = [b \in Booking |-> IF b \in req[w].gone THEN NoRow ELSE bookings[b]]
  BY <1>3 DEF CommitRaze, Finish, Sound, TypeOK
<1>5. bookings' = Cascade(f)
  <2>1. \A b \in Booking : b \in req[w].gone <=> BookingExists(b) /\ bookings[b].facility = f
    BY <1>2
  <2> QED
    BY <1>4, <2>1 DEF Cascade
<1>6. View' = bookings'
  <2>1. bookings' \in [Booking -> BookingRow \cup {NoRow}]
    BY <1>2, <1>4
  <2>2. Viewed(bookings', req'[w]) = bookings'
    BY <1>4, <2>1, ViewedAsTheyAre
  <2> QED
    BY <2>2, ViewOfOne
<1>7. Atomic!DestroyFacility(u, f)
  BY <1>2, <1>4, <1>5, <1>6, SameOperators, SamePolicies
  DEF Atomic!DestroyFacility, CommitRaze
<1> QED
  BY <1>7 DEF Atomic!Next, Atomic!FacilityRequest

(* So has the destruction of a user; what it wrote is what they give back.  *)
LEMMA LeaveIsAtomic ==
  ASSUME Alone, Sound, Reads, Prompt, NEW w \in Worker, CommitLeave(w)
  PROVE  Atomic!Next \/ UNCHANGED <<facilities, View, accounts>>
<1>1. At(w, "commit") /\ req[w].op = "leave" /\ Finish(w)
  BY DEF CommitLeave
<1>2. /\ View = bookings /\ Ready(req[w]) /\ Busy(w) /\ req[w].step = "commit"
      /\ bookings \in [Booking -> BookingRow \cup {NoRow}]
      /\ facilities \in [Facility -> FacilityRow \cup {NoRow}]
      /\ req[w] \in Departure /\ ~Astray(req[w])
  BY <1>1, AtCommit, RequestKinds DEF At, Sound, RowsAreAtHand
<1> PICK r \in Departure : r = req[w]
  BY <1>2
<1> PICK u \in User : u = r.owner
  BY DepartureFields
<1>3. Accounted(r) /\ Packed(r) /\ ~AtBooking(r)
  BY <1>1, <1>2, NoRequestIsNone DEF Ready, Busy, Astray, AtBooking
<1>4. /\ u \in accounts /\ r.gone = BookingsOf(u)
      /\ \A b \in r.gone : r.rows[b] = bookings[b]
      /\ \A b \in r.gone : r.rows[b].facility \in r.wrote
      /\ \A f \in r.wrote : r.draft[f] = Offered(f) \cup Given(r, f)
  BY <1>2, <1>3 DEF Accounted, InHand, Packed, Kept
<1> PICK a \in accounts : MayClose(a, u)
  BY <1>3 DEF Accounted
<1>5. req'[w] = NoRequest
  BY <1>1 DEF Finish, Sound, TypeOK
<1>6. CASE UNCHANGED <<facilities, bookings, accounts>>
  <2>1. Viewed(bookings', req'[w]) = bookings'
    BY <1>2, <1>5, <1>6, ViewedAsTheyAre
  <2> QED
    BY <1>2, <1>6, <2>1, ViewOfOne
<1>7. CASE /\ facilities' = [f \in Facility |->
                IF f \in r.wrote /\ FacilityExists(f)
                THEN [facilities[f] EXCEPT !.schedule = r.draft[f]] ELSE facilities[f]]
           /\ bookings' = [b \in Booking |-> IF b \in r.gone THEN NoRow ELSE bookings[b]]
           /\ accounts' = accounts \ {u}
  <2>1. bookings' = CascadeOfUser(u)
    BY <1>4, <1>7 DEF CascadeOfUser
  <2>2. View' = bookings'
    <3>1. bookings' \in [Booking -> BookingRow \cup {NoRow}]
      BY <1>2, <1>7
    <3>2. Viewed(bookings', req'[w]) = bookings'
      BY <1>5, <3>1, ViewedAsTheyAre
    <3> QED
      BY <3>2, ViewOfOne
  <2>3. \A f : Given(r, f) = SlotsAt(u, f)
    <3> SUFFICES ASSUME NEW f
                 PROVE  Given(r, f) = SlotsAt(u, f)
      OBVIOUS
    <3>1. {c \in r.gone : r.rows[c].facility = f}
            = {c \in BookingsOf(u) : bookings[c].facility = f}
      BY <1>4
    <3> QED
      BY <1>4, <3>1 DEF Given, SlotsAt
  <2>4. \A f \in Facility : f \notin r.wrote => SlotsAt(u, f) = {}
    BY <1>4 DEF SlotsAt
  <2>5. facilities' = RestoreOfUser(u)
    <3>1. ASSUME NEW f \in Facility, FacilityExists(f)
          PROVE  (IF f \in r.wrote THEN [facilities[f] EXCEPT !.schedule = r.draft[f]]
                                   ELSE facilities[f])
                 = [facilities[f] EXCEPT !.schedule = @ \cup SlotsAt(u, f)]
      <4>1. facilities[f] \in FacilityRow
        BY <1>2, <3>1 DEF FacilityExists
      <4>2. CASE f \in r.wrote
        BY <1>4, <2>3, <4>1, <4>2 DEF Offered, FacilityRow
      <4>3. CASE f \notin r.wrote
        BY <2>4, <4>1, <4>3 DEF FacilityRow
      <4> QED
        BY <4>2, <4>3
    <3> QED
      BY <1>7, <3>1 DEF RestoreOfUser
  <2>6. Atomic!DestroyUser(a, u)
    BY <1>4, <1>7, <2>1, <2>2, <2>5, <1>2, SameOperators, SamePolicies
    DEF Atomic!DestroyUser
  <2> QED
    BY <2>6 DEF Atomic!Next, Atomic!AccountRequest
<1> QED
  BY <1>6, <1>7 DEF CommitLeave

LEMMA FormsAreAtomic ==
  ASSUME Alone, Sound, NEW w \in Worker,
         FacilityForm(w) \/ \E u \in User : OpenAccount(w, u)
  PROVE  Atomic!Next
<1>1. req[w] = NoRequest /\ UNCHANGED <<bookings, req>>
  BY DEF FacilityForm, CreateFacility, SaveSchedule, OpenAccount, Busy
<1>2. View = bookings /\ View' = View
  <2>1. bookings \in [Booking -> BookingRow \cup {NoRow}]
    BY DEF Sound, TypeOK, StoreTypeOK
  <2>2. Viewed(bookings, req[w]) = bookings
    BY <1>1, <2>1, ViewedAsTheyAre
  <2> QED
    BY <1>1, <2>2, ViewOfOne
<1>3. ASSUME NEW u \in accounts, NEW f \in Facility, NEW ss \in SUBSET Slot,
             \E c \in Condo : CreateFacility(w, u, f, c, ss)
      PROVE  Atomic!Next
  <2> PICK c \in Condo : CreateFacility(w, u, f, c, ss)
    BY <1>3
  <2>1. Atomic!CreateFacility(u, f, c, ss)
    BY <1>2, SameOperators, SamePolicies DEF CreateFacility, Atomic!CreateFacility
  <2> QED
    BY <2>1 DEF Atomic!Next, Atomic!FacilityRequest
<1>4. ASSUME NEW u \in accounts, NEW f \in Facility, NEW ss \in SUBSET Slot,
             SaveSchedule(w, u, f, ss)
      PROVE  Atomic!Next
  <2> DEFINE c == facilities[f].condo
  <2>1. facilities \in [Facility -> FacilityRow \cup {NoRow}] /\ facilities[f] \in FacilityRow
    BY <1>4 DEF SaveSchedule, Sound, TypeOK, StoreTypeOK, FacilityExists
  <2>2. c \in Condo
    BY <2>1 DEF FacilityRow
  <2>3. facilities' = [facilities EXCEPT ![f] = [condo |-> c, schedule |-> ss]]
    <3>1. facilities' = [facilities EXCEPT ![f] = [facilities[f] EXCEPT !.schedule = ss]]
      BY <1>4, <2>1 DEF SaveSchedule
    <3>2. [facilities[f] EXCEPT !.schedule = ss] = [condo |-> c, schedule |-> ss]
      BY <2>1 DEF FacilityRow
    <3> QED
      BY <3>1, <3>2
  <2>4. Atomic!UpdateFacility(u, f, c, ss)
    BY <1>2, <1>4, <2>3, SameOperators, SamePolicies DEF SaveSchedule, Atomic!UpdateFacility
  <2> QED
    BY <2>2, <2>4 DEF Atomic!Next, Atomic!FacilityRequest
<1>5. ASSUME NEW u \in User, OpenAccount(w, u)
      PROVE  Atomic!Next
  BY <1>2, <1>5 DEF OpenAccount, Atomic!OpenAccount, Atomic!Next
<1> QED
  BY <1>3, <1>4, <1>5 DEF FacilityForm

(* What is left changes no row, and has not committed before or after. *)
LEMMA RestStutters ==
  ASSUME Alone, Sound, NEW w \in Worker,
         \/ Start(w) \/ Abort(w)
         \/ \E s \in Slot : CheckSlot(w, s)
         \/ InsertRow(w) \/ RefuseDay(w) \/ WriteRow(w) \/ LoadFacility(w)
         \/ WriteSchedule(w) \/ WriteCascaded(w) \/ RestoreLoaded(w) \/ DeleteParent(w)
  PROVE  UNCHANGED <<facilities, View, accounts>>
<1>1. UNCHANGED <<facilities, bookings, accounts>>
  BY DEF Start, StartCreate, StartUpdate, StartDestroy, StartExpire, StartRaze, StartLeave,
     Abort, CheckSlot, InsertRow, RefuseDay, WriteRow, LoadFacility, WriteSchedule,
     WriteCascaded, RestoreLoaded, DeleteParent
<1>2. ~Abort(w)
  BY DEF Abort, Cycle, Standstill, Waits, Alone
<1>3. ~Following(w)
  BY <1>2
  DEF Following, Start, StartCreate, StartUpdate, StartDestroy, StartExpire, StartRaze,
      StartLeave, CheckSlot, InsertRow, RefuseDay, WriteRow, LoadFacility, WriteSchedule,
      WriteCascaded, RestoreLoaded, DeleteParent, At, Busy
<1>4. FollowingStays(w)
  BY <1>2, StartsLetFollow, StatementsLetFollow
<1>5. ~Following(w)'
  BY <1>3, <1>4 DEF FollowingStays
<1> QED
  BY <1>1, <1>3, <1>5, StatementsStutter DEF Following

LEMMA NextIsAtomic ==
  ASSUME Alone, MayCrash = FALSE, Sound, Reads, Prompt, [Next]_vars
  PROVE  Atomic!Next \/ UNCHANGED <<facilities, View, accounts>>
<1>1. ASSUME NEW w \in Worker, Step(w)
      PROVE  Atomic!Next \/ UNCHANGED <<facilities, View, accounts>>
  <2>1. CASE EnqueueJob(w)
    BY <2>1, StatementsStutter DEF EnqueueJob
  <2> QED
    BY <1>1, <2>1, CreationIsAtomic, UpdateIsAtomic, ExpirationIsAtomic, DestroyIsAtomic,
       RazeIsAtomic, LeaveIsAtomic, NotificationStutters, RestStutters
    DEF Step
<1>2. CASE UNCHANGED <<facilities, bookings, accounts, req>>
  BY <1>2 DEF View, Owes, Busy, BookingExists
<1>3. \A w \in Worker : ~Crash(w)
  BY DEF Crash
<1> QED
  BY <1>1, <1>2, <1>3, FormsAreAtomic, RestStutters DEF Next, RunConflictJob, vars

LEMMA InitIsAtomic == Init => Atomic!Init
<1> SUFFICES ASSUME Init
             PROVE  Atomic!Init
  OBVIOUS
<1>1. View = bookings
  BY DEF Init, View, BookingExists
<1> QED
  BY <1>1 DEF Init, Atomic!Init

(* On a single thread that is not killed, the statements of every request   *)
(* (validations, writes, callbacks, commit) and the notification after them *)
(* are one atomic request of Bookings: whatever holds there of all requests *)
(* holds of the transactions of one worker.                                 *)
THEOREM OneWorkerIsAtomic ==
  ASSUME \A v, w \in Worker : v = w, MayCrash = FALSE
  PROVE  Spec => AtomicSpec
<1>1. Alone
  BY DEF Alone
<1>2. Sound /\ Reads /\ [Next]_vars => Reads'
  BY NextKeepsReads
<1>3. Sound /\ Reads /\ Prompt /\ [Next]_vars => Prompt'
  BY <1>1, NextIsPrompt
<1>4. Sound /\ Reads /\ Prompt /\ [Next]_vars => [Atomic!Next]_(Atomic!vars)
  BY <1>1, NextIsAtomic DEF Atomic!vars
<1> QED
  BY <1>2, <1>3, <1>4, InitReads, InitIsPrompt, InitIsAtomic, Soundness, PTL
  DEF Spec, AtomicSpec, Atomic!Spec
=============================================================================
