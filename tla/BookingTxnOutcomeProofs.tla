----------------------- MODULE BookingTxnOutcomeProofs -----------------------
(***************************************************************************)
(* What becomes of the requests of BookingTxn, for any numbers of workers, *)
(* bookings, facilities and slots: the double bookings that the overlap    *)
(* validation lets through, the slots that are lost, and the refusals that *)
(* an owner is not told of.  Each is the work of requests that overlap.    *)
(***************************************************************************)
EXTENDS BookingTxnProofs
-----------------------------------------------------------------------------
(* Part 1, double bookings: two bookings of a slot were created at the same *)
(* time, or one of them was given up and taken back.                        *)

(* Creations that are under way together do not see each other's row, have  *)
(* ids of their own, and are on record as a race.                           *)
RacesAreNoted ==
  \A v, w \in Worker : v # w /\ Creating(v) /\ Creating(w) =>
    /\ req[v].booking # req[w].booking
    /\ {req[v].booking, req[w].booking} \in raced

NewIdsAreFree == \A w \in Worker : Creating(w) => ~BookingExists(req[w].booking)

(* What a creation has checked is free, but for races and reopened rows.    *)
ChecksCount ==
  \A w \in Worker, b \in Booking :
    /\ Creating(w) /\ Holds(b, req[w].facility)
    /\ bookings[b].slots \cap (req[w].slots \ req[w].todo) # {}
    => {b, req[w].booking} \in raced \/ bookings[b].reopened

InsertedIsChecked ==
  \A w \in Worker : Creating(w) /\ req[w].step # "check" => req[w].todo = {}

Checked ==
  /\ RacesAreNoted /\ NewIdsAreFree /\ ChecksCount /\ InsertedIsChecked
  /\ ClashesNeedARace
-----------------------------------------------------------------------------
(* What most steps do: no row appears, one that becomes active is marked as *)
(* reopened, and a creation goes on with what it is about.                  *)
RowSettles(b) ==
  BookingExists(b)' =>
    /\ BookingExists(b)
    /\ bookings'[b].facility = bookings[b].facility /\ bookings'[b].slots = bookings[b].slots
    /\ bookings[b].reopened => bookings'[b].reopened
    /\ bookings'[b].status \in Active => bookings[b].status \in Active \/ bookings'[b].reopened

CreationSettles(w) ==
  Creating(w)' =>
    /\ Creating(w)
    /\ req'[w].booking = req[w].booking /\ req'[w].facility = req[w].facility
    /\ req'[w].slots = req[w].slots /\ req'[w].todo = req[w].todo
    /\ req'[w].step # "check" => req'[w].todo = {}

Settles ==
  /\ \A b \in Booking : RowSettles(b)
  /\ \A w \in Worker : CreationSettles(w)
  /\ UNCHANGED raced

LEMMA CreatorsKnow ==
  ASSUME Sound, NEW w \in Worker, Creating(w)
  PROVE  req[w] \in Request /\ req[w].booking \in Booking /\ req[w].facility \in Facility
  BY RequestKinds, RequestFields DEF Sound, Creating, Uncommitted

LEMMA SettlingKeepsChecked ==
  ASSUME Sound, Checked, Settles
  PROVE  Checked'
<1>0. InsertedIsChecked'
  BY DEF InsertedIsChecked, CreationSettles, Settles
<1>1. RacesAreNoted'
  <2> SUFFICES ASSUME NEW v \in Worker, NEW w \in Worker, v # w, Creating(v)', Creating(w)'
               PROVE  /\ req'[v].booking # req'[w].booking
                      /\ {req'[v].booking, req'[w].booking} \in raced'
    BY DEF RacesAreNoted
  <2>1. /\ Creating(v) /\ req'[v].booking = req[v].booking
        /\ Creating(w) /\ req'[w].booking = req[w].booking /\ raced' = raced
    BY DEF Settles, CreationSettles
  <2> QED
    BY <2>1 DEF Checked, RacesAreNoted
<1> USE DEF Checked, Settles
<1>2. NewIdsAreFree'
  <2> SUFFICES ASSUME NEW w \in Worker, Creating(w)', BookingExists(req[w].booking)'
               PROVE  FALSE
    BY DEF NewIdsAreFree
  <2>1. Creating(w) /\ req'[w].booking = req[w].booking /\ req[w].booking \in Booking
    BY CreatorsKnow DEF CreationSettles
  <2> QED
    BY <2>1 DEF NewIdsAreFree, RowSettles, BookingExists
<1>3. ChecksCount'
  <2> SUFFICES ASSUME NEW w \in Worker, NEW b \in Booking,
                      Creating(w)', Holds(b, req[w].facility)',
                      bookings'[b].slots \cap (req'[w].slots \ req'[w].todo) # {}
               PROVE  {b, req'[w].booking} \in raced \/ bookings'[b].reopened
    BY DEF ChecksCount
  <2>1. /\ Creating(w) /\ req'[w].booking = req[w].booking
        /\ req'[w].facility = req[w].facility
        /\ req'[w].slots = req[w].slots /\ req'[w].todo = req[w].todo
    BY DEF CreationSettles
  <2>2. CASE bookings'[b].reopened
    BY <2>2
  <2>3. CASE ~bookings'[b].reopened
    <3>1. Holds(b, req[w].facility) /\ bookings'[b].slots = bookings[b].slots
          /\ ~bookings[b].reopened
      BY <2>1, <2>3 DEF RowSettles, Holds, BookingExists
    <3> QED
      BY <2>1, <3>1 DEF ChecksCount
  <2> QED
    BY <2>2, <2>3
<1>4. ClashesNeedARace'
  <2> SUFFICES ASSUME NEW b \in Booking, NEW c \in Booking, Clash(b, c)',
                      ~bookings'[b].reopened, ~bookings'[c].reopened
               PROVE  {b, c} \in raced
    BY DEF ClashesNeedARace
  <2>1. PICK f \in Facility : /\ b # c /\ Holds(b, f)' /\ Holds(c, f)'
                              /\ bookings'[b].slots \cap bookings'[c].slots # {}
    BY DEF Clash
  <2>2. /\ Holds(b, f) /\ Holds(c, f) /\ ~bookings[b].reopened /\ ~bookings[c].reopened
        /\ bookings'[b].slots = bookings[b].slots /\ bookings'[c].slots = bookings[c].slots
    BY <2>1 DEF RowSettles, Holds, BookingExists
  <2> QED
    BY <2>1, <2>2 DEF ClashesNeedARace, Clash
<1> QED
  BY <1>0, <1>1, <1>2, <1>3, <1>4

(* A request that is no creation, or no longer one. *)
LEMMA NoCreationSettles ==
  ASSUME Sound, Checked, NEW w \in Worker, NEW x, req' = [req EXCEPT ![w] = x],
         x = NoRequest \/ x.op # "create" \/ x.step \in {"enqueue", "notify"}
  PROVE  \A v \in Worker : CreationSettles(v)
<1>1. ~Creating(w)'
  BY DEF Sound, TypeOK, Creating, Uncommitted, Busy
<1>2. \A v \in Worker : v # w => req'[v] = req[v]
  BY DEF Sound, TypeOK
<1> QED
  BY <1>1, <1>2 DEF CreationSettles, Creating, Uncommitted, Busy, Checked, InsertedIsChecked

LEMMA FinishSettles ==
  ASSUME Sound, Checked, NEW w \in Worker, Finish(w)
  PROVE  \A v \in Worker : CreationSettles(v)
  BY NoCreationSettles DEF Finish

(* A statement that leaves the record alone but for the step. *)
LEMMA AdvanceSettles ==
  ASSUME Sound, Checked, NEW w \in Worker, Busy(w), NEW st, Advance(w, st),
         req[w].step \in {"row", "schedule", "delete", "commit", "enqueue"}
           \/ req[w].todo = {},
         st \in {"enqueue", "notify"} \/ req[w].step \notin {"enqueue", "notify"}
  PROVE  \A v \in Worker : CreationSettles(v)
<1>1. \A v \in Worker : v # w => req'[v] = req[v]
  BY DEF Sound, TypeOK, Advance
<1>2. req'[w] = [req[w] EXCEPT !.step = st]
  BY DEF Sound, TypeOK, Advance
<1>3. \A v \in Worker : v # w => CreationSettles(v)
  BY <1>1 DEF CreationSettles, Creating, Uncommitted, Busy, Checked, InsertedIsChecked
<1>4. CreationSettles(w)
  <2> SUFFICES ASSUME Creating(w)'
               PROVE  /\ Creating(w)
                      /\ req'[w].booking = req[w].booking /\ req'[w].facility = req[w].facility
                      /\ req'[w].slots = req[w].slots /\ req'[w].todo = req[w].todo
                      /\ req'[w].step # "check" => req'[w].todo = {}
    BY DEF CreationSettles
  <2>1. req[w] \in Request \cup Destruction \cup Departure
    BY RequestKinds DEF Sound
  <2>2. req'[w].op = req[w].op /\ req'[w].step = st
    BY <1>2, <2>1 DEF Request, Destruction, Departure
  <2>3. Creating(w) /\ req[w] \in Request
    BY <2>1, <2>2 DEF Creating, Uncommitted, Busy, Destruction, Departure
  <2>4. /\ req'[w].booking = req[w].booking /\ req'[w].facility = req[w].facility
        /\ req'[w].slots = req[w].slots /\ req'[w].todo = req[w].todo
    BY <1>2, <2>3 DEF Request
  <2> QED
    BY <2>3, <2>4 DEF Checked, InsertedIsChecked
<1> QED
  BY <1>3, <1>4

LEMMA UnchangedRowsSettle ==
  ASSUME UNCHANGED bookings
  PROVE  \A b \in Booking : RowSettles(b)
  BY DEF RowSettles, BookingExists
-----------------------------------------------------------------------------
(* A creation starts: it has checked nothing, and the races of an earlier   *)
(* row of its id are forgotten.                                             *)
LEMMA CreationStarts ==
  ASSUME Sound, Checked,
         NEW w \in Worker, NEW u \in Customer \cap accounts, NEW b \in Booking,
         NEW f \in Facility, NEW ss \in Asked, StartCreate(w, u, b, f, ss)
  PROVE  Checked'
<1> USE DEF Checked
<1>1. /\ req'[w].booking = b /\ req'[w].slots = ss /\ req'[w].todo = ss
      /\ req'[w].step = "check"
      /\ \A v \in Worker : v # w => req'[v] = req[v]
  BY DEF StartCreate, Sound, TypeOK
<1>2. /\ \A v \in Worker : v # w /\ Creating(v)' => Creating(v) /\ req[v].booking # b
      /\ ~BookingExists(b) /\ UNCHANGED bookings
  BY <1>1 DEF StartCreate, Creating, Uncommitted, Busy, Concerns
<1>3. /\ \A p \in raced : b \notin p => p \in raced'
      /\ \A v \in Worker : Creating(v) => {b, req[v].booking} \in raced'
  BY DEF StartCreate
<1>4. RacesAreNoted'
  <2> SUFFICES ASSUME NEW v \in Worker, NEW x \in Worker, v # x, Creating(v)', Creating(x)'
               PROVE  /\ req'[v].booking # req'[x].booking
                      /\ {req'[v].booking, req'[x].booking} \in raced'
    BY DEF RacesAreNoted
  <2>1. CASE v # w /\ x # w
    BY <1>1, <1>2, <1>3, <2>1 DEF RacesAreNoted
  <2>2. CASE v = w
    BY <1>1, <1>2, <1>3, <2>2
  <2>3. CASE x = w
    <3>1. {req[v].booking, b} = {b, req[v].booking}
      OBVIOUS
    <3> QED
      BY <1>1, <1>2, <1>3, <2>3, <3>1
  <2> QED
    BY <2>1, <2>2, <2>3
<1>5. NewIdsAreFree' /\ InsertedIsChecked'
  BY <1>1, <1>2 DEF NewIdsAreFree, InsertedIsChecked, BookingExists
<1>6. ChecksCount'
  <2> SUFFICES ASSUME NEW v \in Worker, NEW c \in Booking,
                      Creating(v)', Holds(c, req[v].facility)',
                      bookings[c].slots \cap (req'[v].slots \ req'[v].todo) # {},
                      ~bookings[c].reopened
               PROVE  {c, req'[v].booking} \in raced'
    BY <1>2 DEF ChecksCount
  <2>1. v # w
    BY <1>1
  <2>2. Creating(v) /\ req'[v] = req[v] /\ Holds(c, req[v].facility) /\ c # b
    BY <1>1, <1>2, <2>1 DEF Holds, BookingExists
  <2> QED
    BY <1>2, <1>3, <2>1, <2>2 DEF ChecksCount
<1>7. ClashesNeedARace'
  <2> SUFFICES ASSUME NEW x \in Booking, NEW y \in Booking, Clash(x, y)',
                      ~bookings'[x].reopened, ~bookings'[y].reopened
               PROVE  {x, y} \in raced'
    BY DEF ClashesNeedARace
  <2>1. Clash(x, y) /\ x # b /\ y # b
    BY <1>2 DEF Clash, Holds, BookingExists
  <2> QED
    BY <1>2, <1>3, <2>1 DEF ClashesNeedARace
<1> QED
  BY <1>4, <1>5, <1>6, <1>7

(* A query of the overlap validation that finds no conflict. *)
LEMMA SlotIsChecked ==
  ASSUME Sound, Checked, NEW w \in Worker, NEW s \in Slot, CheckSlot(w, s)
  PROVE  Checked'
<1> USE DEF Checked
<1>1. UNCHANGED <<bookings, raced>> /\ req[w].step = "check" /\ Busy(w)
  BY DEF CheckSlot, history, At
<1>2. CASE Finish(w)
  BY <1>1, <1>2, FinishSettles, UnchangedRowsSettle, SettlingKeepsChecked DEF Settles
<1>3. CASE NoOverlap(req[w].facility, {s}) /\ req' = [req EXCEPT ![w].todo = @ \ {s}]
  <2>1. req[w] \in Request
    BY <1>1, RequestKinds DEF Sound
  <2>2. /\ req'[w] = [req[w] EXCEPT !.todo = @ \ {s}]
        /\ \A v \in Worker : v # w => req'[v] = req[v]
    BY <1>3 DEF Sound, TypeOK
  <2>3. /\ req'[w].op = req[w].op /\ req'[w].step = "check"
        /\ req'[w].booking = req[w].booking /\ req'[w].facility = req[w].facility
        /\ req'[w].slots = req[w].slots /\ req'[w].todo = req[w].todo \ {s}
    BY <1>1, <2>1, <2>2 DEF Request
  <2>4. \A v \in Worker : Creating(v)' =>
          /\ Creating(v) /\ req'[v].booking = req[v].booking
          /\ req'[v].facility = req[v].facility /\ req'[v].slots = req[v].slots
    BY <1>1, <2>2, <2>3 DEF Creating, Uncommitted, Busy
  <2>5. RacesAreNoted' /\ NewIdsAreFree' /\ ClashesNeedARace'
    BY <1>1, <2>4
    DEF RacesAreNoted, NewIdsAreFree, ClashesNeedARace, Clash, Holds, BookingExists
  <2>6. InsertedIsChecked'
    BY <2>2, <2>3, <2>4 DEF InsertedIsChecked
  <2>7. ChecksCount'
    <3> SUFFICES ASSUME NEW v \in Worker, NEW c \in Booking,
                        Creating(v)', Holds(c, req'[v].facility),
                        bookings[c].slots \cap (req'[v].slots \ req'[v].todo) # {},
                        ~bookings[c].reopened
                 PROVE  {c, req'[v].booking} \in raced
      BY <1>1 DEF ChecksCount, Holds, BookingExists
    <3>1. CASE v # w
      BY <2>2, <2>4, <3>1 DEF ChecksCount
    <3>2. CASE v = w
      <4>1. s \notin bookings[c].slots
        BY <1>3, <2>3, <3>2 DEF NoOverlap, Held
      <4>2. bookings[c].slots \cap (req[w].slots \ req[w].todo) # {}
        BY <2>3, <3>2, <4>1
      <4> QED
        BY <2>3, <2>4, <3>2, <4>2 DEF ChecksCount
    <3> QED
      BY <3>1, <3>2
  <2> QED
    BY <2>5, <2>6, <2>7
<1> QED
  BY <1>2, <1>3 DEF CheckSlot

(* The new row clashes with nothing its creation has checked, and with      *)
(* nothing the others have checked but for a race.                          *)
LEMMA CreationCommits ==
  ASSUME Sound, Checked, NEW w \in Worker, CommitCreate(w)
  PROVE  Checked'
<1> USE DEF Checked
<1> PICK r : r = req[w]
  OBVIOUS
<1> DEFINE n == r.booking
<1>1. Creating(w) /\ r.step = "commit" /\ UNCHANGED raced /\ r \in Request
      /\ n \in Booking /\ r.facility \in Facility /\ Busy(w)
  BY CreatorsKnow DEF CommitCreate, At, Creating, Uncommitted, Busy, history
<1>2. r.todo = {} /\ ~BookingExists(n)
  BY <1>1 DEF InsertedIsChecked, NewIdsAreFree
<1>3. /\ bookings'[n].facility = r.facility /\ bookings'[n].slots = r.slots
      /\ \A b \in Booking : b # n => bookings'[b] = bookings[b]
  BY <1>1 DEF CommitCreate, Sound, TypeOK, StoreTypeOK
<1>4. \A v \in Worker : Creating(v)' => v # w /\ Creating(v) /\ req'[v] = req[v]
  <2>1. Advance(w, "enqueue")
    BY DEF CommitCreate
  <2>2. ~Creating(w)' /\ \A v \in Worker : v # w => req'[v] = req[v]
    BY <2>1 DEF Sound, TypeOK, Advance, Creating, Uncommitted
  <2> QED
    BY <2>2 DEF Creating, Uncommitted, Busy
<1>5. \A v \in Worker : Creating(v)' => req[v].booking # n /\ {n, req[v].booking} \in raced
  BY <1>1, <1>4 DEF RacesAreNoted
<1>0. r = req[w] /\ n = r.booking
  OBVIOUS
<1> HIDE DEF n
<1>6. RacesAreNoted' /\ InsertedIsChecked'
  BY <1>1, <1>4 DEF RacesAreNoted, InsertedIsChecked
<1>7. NewIdsAreFree'
  <2> SUFFICES ASSUME NEW v \in Worker, Creating(v)'
               PROVE  ~BookingExists(req[v].booking)'
    BY DEF NewIdsAreFree
  <2>1. Creating(v) /\ req'[v] = req[v] /\ req[v].booking # n /\ req[v].booking \in Booking
    BY <1>4, <1>5, CreatorsKnow
  <2> QED
    BY <1>3, <2>1 DEF NewIdsAreFree, BookingExists
<1>8. ChecksCount'
  <2> SUFFICES ASSUME NEW v \in Worker, NEW c \in Booking,
                      Creating(v)', Holds(c, req[v].facility)',
                      bookings'[c].slots \cap (req'[v].slots \ req'[v].todo) # {},
                      ~bookings'[c].reopened
               PROVE  {c, req'[v].booking} \in raced
    BY <1>1 DEF ChecksCount
  <2>1. Creating(v) /\ req'[v] = req[v]
    BY <1>4
  <2>2. CASE c = n
    BY <1>5, <2>1, <2>2
  <2>3. CASE c # n
    <3>1. bookings'[c] = bookings[c] /\ Holds(c, req[v].facility)
      BY <1>3, <2>1, <2>3 DEF Holds, BookingExists
    <3> QED
      BY <2>1, <3>1 DEF ChecksCount
  <2> QED
    BY <2>2, <2>3
<1>9. \A c \in Booking, f \in Facility :
        /\ c # n /\ Holds(c, f)' /\ Holds(n, f)'
        /\ bookings'[n].slots \cap bookings'[c].slots # {}
        => {c, n} \in raced \/ bookings'[c].reopened
  <2> SUFFICES ASSUME NEW c \in Booking, NEW f \in Facility,
                      c # n, Holds(c, f)', Holds(n, f)',
                      bookings'[n].slots \cap bookings'[c].slots # {}
               PROVE  {c, n} \in raced \/ bookings'[c].reopened
    OBVIOUS
  <2>1. f = r.facility /\ bookings'[c] = bookings[c] /\ Holds(c, r.facility)
    BY <1>3 DEF Holds, BookingExists
  <2>2. bookings[c].slots \cap (r.slots \ r.todo) # {}
    BY <1>2, <1>3, <2>1
  <2> QED
    BY <1>0, <1>1, <2>1, <2>2 DEF ChecksCount
<1>10. ClashesNeedARace'
  <2> SUFFICES ASSUME NEW x \in Booking, NEW y \in Booking, Clash(x, y)',
                      ~bookings'[x].reopened, ~bookings'[y].reopened
               PROVE  {x, y} \in raced
    BY <1>1 DEF ClashesNeedARace
  <2>1. PICK f \in Facility : /\ x # y /\ Holds(x, f)' /\ Holds(y, f)'
                              /\ bookings'[x].slots \cap bookings'[y].slots # {}
    BY DEF Clash
  <2>2. CASE x = n
    <3>1. {x, y} = {y, x}
      OBVIOUS
    <3> QED
      BY <1>9, <2>1, <2>2, <3>1
  <2>3. CASE y = n
    <3>1. bookings'[y].slots \cap bookings'[x].slots # {}
      BY <2>1
    <3> QED
      BY <1>9, <2>1, <2>3, <3>1
  <2>4. CASE x # n /\ y # n
    <3>1. bookings'[x] = bookings[x] /\ bookings'[y] = bookings[y] /\ Clash(x, y)
      BY <1>3, <2>1, <2>4 DEF Clash, Holds, BookingExists
    <3> QED
      BY <3>1 DEF ClashesNeedARace
  <2> QED
    BY <2>2, <2>3, <2>4
<1> QED
  BY <1>6, <1>7, <1>8, <1>10
-----------------------------------------------------------------------------
(* Every other step settles. *)

LEMMA OtherStartsSettle ==
  ASSUME Sound, Checked, NEW w \in Worker,
         \/ \E u \in accounts, b \in Booking, st \in Sent : StartUpdate(w, u, b, st)
         \/ \E u \in accounts, b \in Booking : StartDestroy(w, u, b)
         \/ \E E \in SUBSET Booking : \E b \in E : StartExpire(w, E, b)
         \/ \E u \in accounts, f \in Facility : StartRaze(w, u, f)
         \/ \E a \in accounts, u \in User : StartLeave(w, a, u)
  PROVE  Settles
<1>1. UNCHANGED <<bookings, raced>>
  BY DEF StartUpdate, StartDestroy, StartExpire, StartRaze, StartLeave
<1>2. PICK x : req' = [req EXCEPT ![w] = x] /\ x.op # "create"
  <2>1. CASE \E u \in accounts, b \in Booking, st \in Sent : StartUpdate(w, u, b, st)
    <3> PICK u \in accounts, b \in Booking, st \in Sent : StartUpdate(w, u, b, st)
      BY <2>1
    <3> DEFINE x == Loaded("update", b, u, st)
    <3>1. req' = [req EXCEPT ![w] = x]
      BY DEF StartUpdate
    <3>2. x.op # "create"
      BY DEF Loaded
    <3> QED
      BY <3>1, <3>2
  <2>2. CASE \E u \in accounts, b \in Booking : StartDestroy(w, u, b)
    <3> PICK u \in accounts, b \in Booking : StartDestroy(w, u, b)
      BY <2>2
    <3> DEFINE x == Loaded("destroy", b, u, bookings[b].status)
    <3>1. req' = [req EXCEPT ![w] = x]
      BY DEF StartDestroy
    <3>2. x.op # "create"
      BY DEF Loaded
    <3> QED
      BY <3>1, <3>2
  <2>3. CASE \E E \in SUBSET Booking : \E b \in E : StartExpire(w, E, b)
    <3> PICK E \in SUBSET Booking : \E b \in E : StartExpire(w, E, b)
      BY <2>3
    <3> PICK b \in E : StartExpire(w, E, b)
      OBVIOUS
    <3> DEFINE y == Loaded("expire", b, bookings[b].owner, "approved")
               x == [y EXCEPT !.loaded = FALSE, !.snap = {}, !.rest = E \ {b}]
    <3>1. req' = [req EXCEPT ![w] = x]
      BY DEF StartExpire
    <3>2. x.op # "create"
      BY DEF Loaded
    <3> QED
      BY <3>1, <3>2
  <2>4. CASE \E u \in accounts, f \in Facility : StartRaze(w, u, f)
    <3> PICK u \in accounts, f \in Facility : StartRaze(w, u, f)
      BY <2>4
    <3> DEFINE r == [op |-> "raze", step |-> "row", facility |-> f, booking |-> NoRow,
                     rest |-> {b \in Booking : BookingExists(b) /\ bookings[b].facility = f},
                     gone |-> {}]
    <3>1. PICK x \in Onward(r) : req' = [req EXCEPT ![w] = x]
      BY DEF StartRaze
    <3>2. r \in Destruction
      BY DEF Destruction
    <3> HIDE DEF r
    <3>3. x \in Destruction
      BY <3>2, OnwardIsDestruction
    <3> QED
      BY <3>1, <3>3 DEF Destruction
  <2>5. CASE \E a \in accounts, u \in User : StartLeave(w, a, u)
    <3> PICK a \in accounts, u \in User : StartLeave(w, a, u)
      BY <2>5
    <3>1. PICK x \in OnwardLoaded(Departing(u)) : req' = [req EXCEPT ![w] = x]
      BY DEF StartLeave, Departing
    <3>2. x.op = "leave"
      BY DepartingIsDeparture
    <3> QED
      BY <3>1, <3>2
  <2> QED
    BY <2>1, <2>2, <2>3, <2>4, <2>5
<1> QED
  BY <1>1, <1>2, NoCreationSettles, UnchangedRowsSettle DEF Settles

LEMMA StatementsSettle ==
  ASSUME Sound, Checked, NEW w \in Worker,
         \/ InsertRow(w) \/ RefuseDay(w) \/ WriteRow(w) \/ WriteSchedule(w)
         \/ DeleteParent(w) \/ EnqueueJob(w)
  PROVE  Settles
<1>1. UNCHANGED <<bookings, raced>> /\ Busy(w)
  BY DEF InsertRow, RefuseDay, WriteRow, WriteSchedule, DeleteParent, EnqueueJob, history, At
<1>2. CASE Finish(w)
  BY <1>2, FinishSettles, <1>1, UnchangedRowsSettle DEF Settles
<1>3. CASE InsertRow(w) /\ Advance(w, "schedule")
  BY <1>1, <1>3, AdvanceSettles, UnchangedRowsSettle DEF Settles, InsertRow, At
<1>4. CASE WriteRow(w)
  <2>1. /\ req[w].step = "row"
        /\ Advance(w, IF WritesSchedule(req[w]) THEN "schedule" ELSE "commit")
    BY <1>4 DEF WriteRow, At
  <2> QED
    BY <1>1, <2>1, AdvanceSettles, UnchangedRowsSettle DEF Settles
<1>5. CASE WriteSchedule(w) \/ DeleteParent(w)
  BY <1>1, <1>5, AdvanceSettles, UnchangedRowsSettle
  DEF Settles, WriteSchedule, DeleteParent, At
<1>6. CASE EnqueueJob(w)
  BY <1>1, <1>6, AdvanceSettles, UnchangedRowsSettle DEF Settles, EnqueueJob, At
<1> QED
  BY <1>2, <1>3, <1>4, <1>5, <1>6 DEF InsertRow, RefuseDay

LEMMA LoadingSettles ==
  ASSUME Sound, Checked, NEW w \in Worker, LoadFacility(w)
  PROVE  Settles
<1>1. /\ UNCHANGED <<bookings, raced>> /\ Busy(w) /\ req[w] \in Request \cup Departure
      /\ req[w].step = "schedule"
  BY RequestKinds DEF LoadFacility, At, FacilityAtHand, Sound, history
<1>2. CASE Finish(w)
  BY <1>1, <1>2, FinishSettles, UnchangedRowsSettle DEF Settles
<1>4. CASE /\ req[w] \in Departure
           /\ req' = [req EXCEPT ![w].loaded = TRUE, ![w].snap = Seen(req[w])]
  <2> DEFINE x == [req[w] EXCEPT !.loaded = TRUE, !.snap = Seen(req[w])]
  <2>1. x.op = "leave"
    BY <1>4 DEF Departure
  <2>2. req' = [req EXCEPT ![w] = x]
    BY <1>4 DEF Sound, TypeOK
  <2> HIDE DEF x
  <2> QED
    BY <1>1, <2>1, <2>2, NoCreationSettles, UnchangedRowsSettle DEF Settles
<1>3. CASE /\ req[w] \in Request
           /\ req' = [req EXCEPT ![w].loaded = TRUE, ![w].snap = Seen(req[w])]
  <2>1. /\ req'[w] = [req[w] EXCEPT !.loaded = TRUE, !.snap = Seen(req[w])]
        /\ \A v \in Worker : v # w => req'[v] = req[v]
    BY <1>3 DEF Sound, TypeOK
  <2>4. req[w] \in Request
    BY <1>3
  <2>2. /\ req'[w].op = req[w].op /\ req'[w].step = req[w].step
        /\ req'[w].booking = req[w].booking /\ req'[w].facility = req[w].facility
        /\ req'[w].slots = req[w].slots /\ req'[w].todo = req[w].todo
    BY <2>1, <2>4 DEF Request
  <2>3. \A v \in Worker : CreationSettles(v)
    BY ZenonT(30), <1>1, <2>1, <2>2
    DEF CreationSettles, Creating, Uncommitted, Busy, Checked, InsertedIsChecked
  <2> QED
    BY <1>1, <2>3, UnchangedRowsSettle DEF Settles
<1> QED
  BY <1>1, <1>2, <1>3, <1>4 DEF LoadFacility

(* A refused row that becomes active is marked. *)
LEMMA WrittenRowsSettle ==
  ASSUME Sound, NEW r \in Request,
         \/ bookings' = StatusWritten(r)
         \/ bookings' = IF BookingExists(r.booking)
                        THEN [bookings EXCEPT ![r.booking].told = r.to] ELSE bookings
  PROVE  \A b \in Booking : RowSettles(b)
<1> SUFFICES ASSUME NEW b \in Booking, BookingExists(b)'
             PROVE  RowSettles(b)
  BY DEF RowSettles
<1>1. bookings \in [Booking -> BookingRow \cup {NoRow}] /\ r.booking \in Booking
  BY RequestFields DEF Sound, TypeOK, StoreTypeOK
<1>2. CASE bookings'[b] = bookings[b]
  BY <1>2 DEF RowSettles, BookingExists
<1>3. CASE BookingExists(r.booking) /\ b = r.booking
  <2>1. bookings[b] \in BookingRow /\ BookingExists(b)
    BY <1>1, <1>3 DEF BookingExists
  <2>2. CASE bookings' = StatusWritten(r)
    <3>1. bookings'[b] = [bookings[b] EXCEPT
                            !.status = r.to,
                            !.reopened = @ \/ (bookings[b].status \in Refused /\ r.to \in Active)]
      BY <1>1, <1>3, <2>2 DEF StatusWritten
    <3>2. /\ bookings'[b].facility = bookings[b].facility
          /\ bookings'[b].slots = bookings[b].slots /\ bookings'[b].status = r.to
      BY <2>1, <3>1 DEF BookingRow
    <3>3. bookings'[b].reopened
            = (bookings[b].reopened \/ (bookings[b].status \in Refused /\ r.to \in Active))
      BY <2>1, <3>1 DEF BookingRow
    <3>4. bookings[b].status \in Active \cup Refused
      BY <2>1 DEF BookingRow, BookingStatus, Active, Refused
    <3> QED
      BY <2>1, <3>2, <3>3, <3>4 DEF RowSettles
  <2>3. CASE bookings' = [bookings EXCEPT ![r.booking].told = r.to]
    <3>1. bookings'[b] = [bookings[b] EXCEPT !.told = r.to]
      BY <1>1, <1>3, <2>3
    <3> QED
      BY <2>1, <3>1 DEF RowSettles, BookingRow
  <2> QED
    BY <1>3, <2>2, <2>3
<1>4. CASE ~(BookingExists(r.booking) /\ b = r.booking)
  <2>1. bookings'[b] = bookings[b]
    BY <1>1, <1>4 DEF StatusWritten, BookingExists
  <2> QED
    BY <1>2, <2>1
<1> QED
  BY <1>3, <1>4

LEMMA OtherCommitsSettle ==
  ASSUME Sound, Checked, NEW w \in Worker,
         CommitUpdate(w) \/ CommitExpire(w) \/ CommitDestroy(w) \/ CreateNotification(w)
  PROVE  Settles
<1>1. Busy(w) /\ req[w] \in Request /\ UNCHANGED raced
  BY RequestKinds
  DEF CommitUpdate, CommitExpire, CommitDestroy, CreateNotification, At, Sound, history
<1>2. \A b \in Booking : RowSettles(b)
  <2>1. CASE CommitUpdate(w) \/ CommitExpire(w) \/ CreateNotification(w)
    BY <1>1, <2>1, WrittenRowsSettle DEF CommitUpdate, CommitExpire, CreateNotification
  <2>2. CASE CommitDestroy(w)
    <3>1. bookings' = [bookings EXCEPT ![req[w].booking] = NoRow]
      BY <2>2 DEF CommitDestroy
    <3> QED
      BY <3>1 DEF RowSettles, BookingExists, Sound, TypeOK, StoreTypeOK
  <2> QED
    BY <2>1, <2>2
<1>3. \A v \in Worker : CreationSettles(v)
  <2>1. CASE Finish(w)
    BY <2>1, FinishSettles
  <2>2. CASE Advance(w, "notify") /\ CommitUpdate(w)
    BY <1>1, <2>2, AdvanceSettles DEF CommitUpdate, At
  <2>3. ASSUME NEW c, req' = [req EXCEPT ![w] = NextExpired(req[w], c)], req[w].op = "expire"
        PROVE  \A v \in Worker : CreationSettles(v)
    <3>1. NextExpired(req[w], c).op # "create"
      BY <1>1, <2>3 DEF NextExpired, Request
    <3> QED
      BY <2>3, <3>1, NoCreationSettles
  <2> QED
    BY <2>1, <2>2, <2>3 DEF CommitUpdate, CommitExpire, CommitDestroy, CreateNotification
<1> QED
  BY <1>1, <1>2, <1>3 DEF Settles

LEMMA DestructionsSettle ==
  ASSUME Sound, Checked, NEW w \in Worker,
         WriteCascaded(w) \/ CommitRaze(w) \/ RestoreLoaded(w) \/ CommitLeave(w)
  PROVE  Settles
<1>1. CASE CommitRaze(w) \/ CommitLeave(w)
  <2>1. Finish(w) /\ UNCHANGED raced
    BY <1>1 DEF CommitRaze, CommitLeave, history
  <2>2. \A b \in Booking : RowSettles(b)
    BY <1>1 DEF CommitRaze, CommitLeave, RowSettles, BookingExists
  <2> QED
    BY <2>1, <2>2, FinishSettles DEF Settles
<1>2. CASE WriteCascaded(w)
  <2> DEFINE r == [req[w] EXCEPT !.gone = @ \cup {req[w].booking}]
  <2>1. req[w] \in Destruction /\ req[w].step = "schedule" /\ UNCHANGED <<bookings, raced>>
    BY <1>2, RequestKinds DEF WriteCascaded, Razing, At, Sound, history
  <2>2. PICK x \in Onward(r) : req' = [req EXCEPT ![w] = x]
    BY <1>2 DEF WriteCascaded
  <2>3. r \in Destruction
    <3>1. req[w].booking \in Booking
      BY <2>1, NoRequestIsNone DEF Sound, RowsAreAtHand, Astray, AtBooking, Destruction
    <3> QED
      BY <2>1, <3>1 DEF Destruction
  <2> HIDE DEF r
  <2>4. x.op # "create"
    BY <2>2, <2>3, OnwardIsDestruction DEF Destruction
  <2> QED
    BY <2>1, <2>2, <2>4, NoCreationSettles, UnchangedRowsSettle DEF Settles
<1>3. CASE RestoreLoaded(w)
  <2>1. PICK x : req' = [req EXCEPT ![w] = x] /\ x.op = "leave"
    BY <1>3, RestoringGoesOn
  <2>2. UNCHANGED <<bookings, raced>>
    BY <1>3 DEF RestoreLoaded, history
  <2> QED
    BY <2>1, <2>2, NoCreationSettles, UnchangedRowsSettle DEF Settles
<1> QED
  BY <1>1, <1>2, <1>3

LEMMA OthersSettle ==
  ASSUME Sound, Checked,
         \/ \E w \in Worker : Abort(w) \/ Crash(w) \/ FacilityForm(w)
         \/ \E w \in Worker, u \in User : OpenAccount(w, u)
         \/ \E b \in Booking : RunConflictJob(b)
         \/ UNCHANGED vars
  PROVE  Settles
<1>1. UNCHANGED <<bookings, raced>>
  BY DEF Abort, Crash, FacilityForm, CreateFacility, SaveSchedule, OpenAccount,
         RunConflictJob, history, vars
<1>2. CASE \E w \in Worker : Finish(w)
  BY <1>1, <1>2, FinishSettles, UnchangedRowsSettle DEF Settles
<1>3. CASE UNCHANGED req
  <2>1. \A v \in Worker : CreationSettles(v)
    BY <1>3
    DEF CreationSettles, Creating, Uncommitted, Busy, Checked, InsertedIsChecked
  <2> QED
    BY <1>1, <2>1, UnchangedRowsSettle DEF Settles
<1> QED
  BY <1>2, <1>3
  DEF Abort, Crash, FacilityForm, CreateFacility, SaveSchedule, OpenAccount,
      RunConflictJob, vars
-----------------------------------------------------------------------------
LEMMA InitIsChecked ==
  ASSUME Init
  PROVE  Checked
<1>1. \A w \in Worker : ~Creating(w)
  BY DEF Init, Creating, Uncommitted, Busy
<1>2. \A b \in Booking : ~BookingExists(b)
  BY DEF Init, BookingExists
<1> QED
  BY <1>1, <1>2
  DEF Checked, RacesAreNoted, NewIdsAreFree, ChecksCount, InsertedIsChecked,
      ClashesNeedARace, Clash, Holds

LEMMA NextKeepsChecked ==
  ASSUME Sound, Checked, [Next]_vars
  PROVE  Checked'
<1>1. ASSUME NEW w \in Worker, Start(w)
      PROVE  Checked'
  BY <1>1, CreationStarts, OtherStartsSettle, SettlingKeepsChecked DEF Start
<1>2. ASSUME NEW w \in Worker, Step(w)
      PROVE  Checked'
  BY <1>2, SlotIsChecked, CreationCommits, StatementsSettle, LoadingSettles,
     OtherCommitsSettle, DestructionsSettle, SettlingKeepsChecked
  DEF Step
<1>3. CASE \/ \E w \in Worker : Abort(w) \/ Crash(w) \/ FacilityForm(w)
           \/ \E w \in Worker, u \in User : OpenAccount(w, u)
           \/ \E b \in Booking : RunConflictJob(b)
           \/ UNCHANGED vars
  BY <1>3, OthersSettle, SettlingKeepsChecked
<1> QED
  BY <1>1, <1>2, <1>3 DEF Next

(* However the queries of the overlap validation (booking.rb:40) interleave *)
(* with the commits of other requests, two active bookings of a slot were   *)
(* created at the same time, or one of them has been reopened.              *)
THEOREM ClashesAreRaces == Spec => []ClashesNeedARace
<1>1. Init => Checked
  BY InitIsChecked
<1>2. Sound /\ Checked /\ [Next]_vars => Checked'
  BY NextKeepsChecked
<1>3. Checked => ClashesNeedARace
  BY DEF Checked
<1> QED
  BY <1>1, <1>2, <1>3, Soundness, PTL DEF Spec
-----------------------------------------------------------------------------
(* Part 2, slots: where no schedule is edited, a slot is lost only on a     *)
(* facility where requests overlap.                                         *)

(* A request that is to store a schedule it never read, a creation that     *)
(* announces anything but a pending booking, or an expiration that would do *)
(* anything but approve.                                                    *)
Unready(x) ==
  /\ x # NoRequest
  /\ \/ /\ x.op \in {"create", "update", "destroy"}
        /\ x.op = "create" \/ x.step = "commit"
        /\ WritesSchedule(x) /\ ~x.loaded
     \/ x.op = "create" /\ x.to # "pending"
     \/ x.op = "expire" /\ x.to # "approved"

RequestsAreReady == \A w \in Worker : ~Unready(req[w])

(* The schedules that the destruction of a user will write have all that is *)
(* on offer, on the facilities where no other request is at work.           *)
Drafts(x) ==
  \A f \in Facility \ disturbed :
    /\ f \in x.wrote => Offered(f) \subseteq x.draft[f]
    /\ AtBooking(x) /\ x.loaded /\ x.facility = f => Offered(f) \subseteq x.snap

DraftsAreFresh == \A w \in Worker : Leaving(w) => Drafts(req[w])

Reads == Order /\ UndisturbedReadsAreFresh /\ RequestsAreReady /\ DraftsAreFresh
-----------------------------------------------------------------------------
LEMMA RecordKeepsRead ==
  ASSUME Sound, RequestsAreReady, NEW w \in Worker, NEW x, req' = [req EXCEPT ![w] = x],
         ~Unready(x)
  PROVE  RequestsAreReady'
<1>1. req'[w] = x /\ \A v \in Worker : v # w => req'[v] = req[v]
  BY DEF Sound, TypeOK
<1> QED
  BY <1>1 DEF RequestsAreReady, Unready, WritesSchedule

LEMMA FinishKeepsRead ==
  ASSUME Sound, RequestsAreReady, NEW w \in Worker, Finish(w)
  PROVE  RequestsAreReady'
<1>1. ~Unready(NoRequest)
  BY DEF Unready
<1> QED
  BY <1>1, RecordKeepsRead DEF Finish

LEMMA AdvanceKeepsRead ==
  ASSUME Sound, RequestsAreReady, NEW w \in Worker, Busy(w), NEW st, Advance(w, st),
         st = "commit" => \/ req[w].op \in {"raze", "leave"} \/ ~WritesSchedule(req[w])
                          \/ req[w].loaded
  PROVE  RequestsAreReady'
<1> DEFINE x == [req[w] EXCEPT !.step = st]
<1>1. req[w] \in Request \cup Destruction \cup Departure
  BY RequestKinds DEF Sound
<1>2. x.op = req[w].op /\ x.step = st
  BY <1>1 DEF Request, Destruction, Departure
<1>3. req' = [req EXCEPT ![w] = x]
  BY DEF Advance
<1>4. CASE req[w].op \in {"raze", "leave"}
  BY <1>2, <1>3, <1>4, RecordKeepsRead DEF Unready
<1>5. CASE req[w].op \notin {"raze", "leave"}
  <2>1. x.was = req[w].was /\ x.to = req[w].to /\ x.loaded = req[w].loaded
    BY <1>1, <1>5 DEF Request, Destruction, Departure
  <2> HIDE DEF x
  <2>2. ~Unready(x)
    BY <1>2, <1>5, <2>1 DEF RequestsAreReady, Unready, WritesSchedule, Busy
  <2> QED
    BY <1>3, <2>2, RecordKeepsRead
<1> QED
  BY <1>4, <1>5

LEMMA StatementsKeepRead ==
  ASSUME Sound, RequestsAreReady, NEW w \in Worker, Step(w)
  PROVE  RequestsAreReady'
<1>1. Busy(w) /\ req[w] \in Request \cup Destruction \cup Departure
  BY RequestKinds
  DEF Step, CheckSlot, InsertRow, RefuseDay, WriteRow, LoadFacility, WriteSchedule,
      CommitCreate, CommitUpdate, CommitExpire, CommitDestroy, WriteCascaded, RestoreLoaded,
      DeleteParent, CommitRaze, CommitLeave, EnqueueJob, CreateNotification, At, Sound
<1>2. CASE Finish(w)
  BY <1>2, FinishKeepsRead
<1>3. CASE \E st \in {"schedule", "enqueue", "notify"} : Advance(w, st)
  BY <1>1, <1>3, AdvanceKeepsRead
<1>4. CASE WriteRow(w)
  <2>1. CASE WritesSchedule(req[w])
    BY <1>3, <1>4, <2>1 DEF WriteRow
  <2>2. CASE ~WritesSchedule(req[w])
    BY <1>1, <1>4, <2>2, AdvanceKeepsRead DEF WriteRow
  <2> QED
    BY <2>1, <2>2
<1>5. CASE WriteSchedule(w) \/ DeleteParent(w)
  <2>1. Advance(w, "commit") /\ (req[w].op \in {"raze", "leave"} \/ req[w].loaded)
    BY <1>1, <1>5, RequestKinds
    DEF WriteSchedule, DeleteParent, FacilityAtHand, At, Sound, Destruction, Departure
  <2> QED
    BY <1>1, <2>1, AdvanceKeepsRead
<1>6. ASSUME NEW s \in Slot, At(w, "check"), req' = [req EXCEPT ![w].todo = @ \ {s}]
      PROVE  RequestsAreReady'
  <2> DEFINE x == [req[w] EXCEPT !.todo = @ \ {s}]
  <2>1. req[w] \in Request
    BY <1>1, <1>6 DEF At, Destruction, Departure
  <2>2. /\ x.op = req[w].op /\ x.step = req[w].step /\ x.was = req[w].was
        /\ x.to = req[w].to /\ x.loaded = req[w].loaded
    BY <2>1 DEF Request
  <2>3. req' = [req EXCEPT ![w] = x]
    BY <1>6
  <2> HIDE DEF x
  <2>4. ~Unready(x)
    BY <1>1, <2>2 DEF RequestsAreReady, Unready, WritesSchedule, Busy
  <2> QED
    BY <2>3, <2>4, RecordKeepsRead
<1>7. CASE /\ LoadFacility(w)
           /\ req' = [req EXCEPT ![w].loaded = TRUE, ![w].snap = Seen(req[w])]
  <2> DEFINE x == [req[w] EXCEPT !.loaded = TRUE, !.snap = Seen(req[w])]
  <2>1. req[w] \in Request \cup Departure
    BY <1>1, <1>7 DEF LoadFacility, FacilityAtHand, Destruction
  <2>2. x.loaded /\ x.op = req[w].op /\ (x.op # "leave" => x.to = req[w].to)
    <3>1. CASE req[w] \in Request
      BY <3>1 DEF Request
    <3>2. CASE req[w] \in Departure
      BY <3>2 DEF Departure
    <3> QED
      BY <2>1, <3>1, <3>2
  <2>3. req' = [req EXCEPT ![w] = x]
    BY <1>7 DEF Sound, TypeOK
  <2> HIDE DEF x
  <2>4. ~Unready(x)
    BY <1>1, <2>2 DEF RequestsAreReady, Unready, Busy
  <2> QED
    BY <2>3, <2>4, RecordKeepsRead
<1>8. CASE CommitExpire(w) /\ req[w].rest # {}
  <2>1. PICK c \in req[w].rest : req' = [req EXCEPT ![w] = NextExpired(req[w], c)]
    BY <1>8 DEF CommitExpire
  <2>2. req[w].op = "expire" /\ req[w] \in Request
    BY <1>8, RequestKinds DEF CommitExpire, At, Sound
  <2>3. NextExpired(req[w], c).op = "expire" /\ NextExpired(req[w], c).to = "approved"
    BY <1>1, <2>2 DEF NextExpired, Request, RequestsAreReady, Unready, Busy
  <2> QED
    BY <2>1, <2>3, RecordKeepsRead DEF Unready
<1>9. CASE WriteCascaded(w)
  <2> DEFINE r == [req[w] EXCEPT !.gone = @ \cup {req[w].booking}]
  <2>1. req[w] \in Destruction /\ req[w].step = "schedule"
    BY <1>1, <1>9, RequestKinds DEF WriteCascaded, Razing, At, Sound
  <2>2. PICK x \in Onward(r) : req' = [req EXCEPT ![w] = x]
    BY <1>9 DEF WriteCascaded
  <2>3. r \in Destruction
    <3>1. req[w].booking \in Booking
      BY <2>1, NoRequestIsNone DEF Sound, RowsAreAtHand, Astray, AtBooking, Destruction
    <3> QED
      BY <2>1, <3>1 DEF Destruction
  <2> HIDE DEF r
  <2>4. x.op = "raze"
    BY <2>3, OnwardIsDestruction DEF Destruction
  <2> QED
    BY <2>2, <2>4, RecordKeepsRead DEF Unready
<1>10. CASE RestoreLoaded(w)
  <2>1. PICK x : req' = [req EXCEPT ![w] = x] /\ x.op = "leave"
    BY <1>10, RestoringGoesOn
  <2> QED
    BY <2>1, RecordKeepsRead DEF Unready
<1> QED
  BY <1>2, <1>3, <1>4, <1>5, <1>6, <1>7, <1>8, <1>9, <1>10
  DEF Step, CheckSlot, InsertRow, RefuseDay, LoadFacility, CommitCreate, CommitUpdate,
      CommitExpire, CommitDestroy, CommitRaze, CommitLeave, EnqueueJob, CreateNotification

LEMMA StartsKeepRead ==
  ASSUME Sound, RequestsAreReady, NEW w \in Worker, Start(w)
  PROVE  RequestsAreReady'
<1>1. CASE \E u \in Customer \cap accounts, b \in Booking, f \in Facility, ss \in Asked :
             StartCreate(w, u, b, f, ss)
  <2> PICK u \in Customer \cap accounts, b \in Booking, f \in Facility, ss \in Asked :
             StartCreate(w, u, b, f, ss)
    BY <1>1
  <2> DEFINE x == [op |-> "create", step |-> "check", owner |-> u, booking |-> b,
                   facility |-> f, slots |-> ss, was |-> "pending", to |-> "pending",
                   todo |-> ss, loaded |-> TRUE, snap |-> Offered(f), rest |-> {}]
  <2>1. req' = [req EXCEPT ![w] = x] /\ x.loaded /\ x.op = "create"
          /\ x.to = "pending"
    BY DEF StartCreate
  <2> HIDE DEF x
  <2> QED
    BY <2>1, RecordKeepsRead DEF Unready
<1>2. ASSUME NEW b, NEW u, NEW st, NEW op \in {"update", "destroy"},
             req' = [req EXCEPT ![w] = Loaded(op, b, u, st)]
      PROVE  RequestsAreReady'
  <2> DEFINE x == Loaded(op, b, u, st)
  <2>1. x.op = op /\ x.step = "row"
    BY DEF Loaded
  <2>2. req' = [req EXCEPT ![w] = x]
    BY <1>2
  <2> HIDE DEF x
  <2> QED
    BY <2>1, <2>2, RecordKeepsRead DEF Unready
<1>3. CASE \E u \in accounts, b \in Booking :
             (\E st \in Sent : StartUpdate(w, u, b, st)) \/ StartDestroy(w, u, b)
  BY <1>2, <1>3 DEF StartUpdate, StartDestroy
<1>4. CASE \E E \in SUBSET Booking : \E b \in E : StartExpire(w, E, b)
  <2> PICK E \in SUBSET Booking : \E b \in E : StartExpire(w, E, b)
    BY <1>4
  <2> PICK b \in E : StartExpire(w, E, b)
    OBVIOUS
  <2> DEFINE x == [Loaded("expire", b, bookings[b].owner, "approved")
                     EXCEPT !.loaded = FALSE, !.snap = {}, !.rest = E \ {b}]
  <2>1. req' = [req EXCEPT ![w] = x] /\ x.op = "expire" /\ x.to = "approved"
    BY DEF StartExpire, Loaded
  <2> HIDE DEF x
  <2> QED
    BY <2>1, RecordKeepsRead DEF Unready
<1>5. CASE \E u \in accounts, f \in Facility : StartRaze(w, u, f)
  <2> PICK u \in accounts, f \in Facility : StartRaze(w, u, f)
    BY <1>5
  <2> DEFINE r == [op |-> "raze", step |-> "row", facility |-> f, booking |-> NoRow,
                   rest |-> {b \in Booking : BookingExists(b) /\ bookings[b].facility = f},
                   gone |-> {}]
  <2>1. PICK x \in Onward(r) : req' = [req EXCEPT ![w] = x]
    BY DEF StartRaze
  <2>2. r \in Destruction
    BY DEF Destruction
  <2> HIDE DEF r
  <2>3. x.op = "raze"
    BY <2>2, OnwardIsDestruction DEF Destruction
  <2> QED
    BY <2>1, <2>3, RecordKeepsRead DEF Unready
<1>6. CASE \E a \in accounts, u \in User : StartLeave(w, a, u)
  <2> PICK a \in accounts, u \in User : StartLeave(w, a, u)
    BY <1>6
  <2>1. PICK x \in OnwardLoaded(Departing(u)) : req' = [req EXCEPT ![w] = x]
    BY DEF StartLeave, Departing
  <2>2. x.op = "leave"
    BY DepartingIsDeparture
  <2> QED
    BY <2>1, <2>2, RecordKeepsRead DEF Unready
<1> QED
  BY <1>1, <1>3, <1>4, <1>5, <1>6 DEF Start

(* The destruction of a user is at work on what it writes. *)
LEMMA DraftsAreWork ==
  ASSUME Sound, NEW w \in Worker, Leaving(w), NEW f \in Facility,
         f \in req[w].wrote \/ (AtBooking(req[w]) /\ req[w].facility = f)
  PROVE  WorksOn(w, f)
<1>1. /\ Busy(w) /\ req[w] \in Departure /\ ~Astray(req[w]) /\ Packed(req[w])
  BY RequestKinds DEF Leaving, Sound, RowsAreAtHand, Astray, Busy
<1>2. CASE f \in req[w].wrote
  BY <1>1, <1>2 DEF Packed, Kept, WorksOn
<1>3. CASE AtBooking(req[w]) /\ req[w].facility = f
  <2> PICK r \in Departure : r = req[w]
    BY <1>1
  <2>1. /\ r.booking \in Booking /\ r.rows[r.booking] \in BookingRow
        /\ f = r.rows[r.booking].facility
    BY <1>1, <1>3, AtBookingFields
  <2>2. r.rows[r.booking] # NoRow
    BY <2>1, NoRowIsNone
  <2> QED
    BY <1>1, <2>1, <2>2 DEF WorksOn
<1> QED
  BY <1>2, <1>3

LEMMA OthersKeepDrafts ==
  ASSUME Sound, DraftsAreFresh, NEW w \in Worker, req'[w] = req[w],
         \A f \in Facility : WorksOn(w, f) /\ f \notin disturbed'
                               => f \notin disturbed /\ Offered(f)' = Offered(f)
  PROVE  (Leaving(w) => Drafts(req[w]))'
<1> SUFFICES ASSUME Leaving(w)', NEW f \in Facility, f \notin disturbed'
             PROVE  /\ f \in req[w].wrote => Offered(f)' \subseteq req[w].draft[f]
                    /\ AtBooking(req[w]) /\ req[w].loaded /\ req[w].facility = f =>
                         Offered(f)' \subseteq req[w].snap
  BY DEF Drafts, AtBooking
<1>1. Leaving(w)
  BY DEF Leaving, Busy
<1>2. Drafts(req[w])
  BY <1>1 DEF DraftsAreFresh
<1>3. CASE f \in req[w].wrote \/ (AtBooking(req[w]) /\ req[w].facility = f)
  <2>1. f \notin disturbed /\ Offered(f)' = Offered(f)
    BY <1>1, <1>3, DraftsAreWork
  <2> QED
    BY <1>2, <2>1 DEF Drafts
<1> QED
  BY <1>3

(* A request that writes its own disturbs no draft of another one. *)
LEMMA BystandersKeepDrafts ==
  ASSUME Sound, Order, DraftsAreFresh, NEW v \in Worker, disturbed \subseteq disturbed',
         UNCHANGED facilities \/ (Busy(v) /\ WritesItsOwn(v)),
         \A w \in Worker : w # v => req'[w] = req[w],
         (Leaving(v) => Drafts(req[v]))'
  PROVE  DraftsAreFresh'
<1> SUFFICES ASSUME NEW w \in Worker, w # v
             PROVE  (Leaving(w) => Drafts(req[w]))'
  BY DEF DraftsAreFresh
<1>1. \A f \in Facility : WorksOn(w, f) /\ f \notin disturbed' =>
        f \notin disturbed /\ facilities'[f] = facilities[f]
  BY DEF Order, OneAtWork, WritesItsOwn
<1>2. \A f \in Facility : WorksOn(w, f) /\ f \notin disturbed' =>
        f \notin disturbed /\ Offered(f)' = Offered(f)
  BY <1>1 DEF Offered
<1> QED
  BY <1>2, OthersKeepDrafts

(* The statements that a destruction of a user goes on with. *)
LEMMA LeavingGoesOn ==
  ASSUME Sound, NEW w \in Worker, Step(w), Leaving(w)'
  PROVE  /\ Leaving(w) /\ req[w] \in Departure
         /\ WriteRow(w) \/ LoadFacility(w) \/ RestoreLoaded(w) \/ DeleteParent(w)
         /\ ~Finish(w)
<1>1. /\ Busy(w) /\ req[w] \in Request \cup Destruction \cup Departure /\ ~Finish(w)
      /\ \A v \in Worker : v # w => req'[v] = req[v]
  BY RequestKinds
  DEF Step, CheckSlot, InsertRow, RefuseDay, WriteRow, LoadFacility, WriteSchedule,
      CommitCreate, CommitUpdate, CommitExpire, CommitDestroy, WriteCascaded, RestoreLoaded,
      DeleteParent, CommitRaze, CommitLeave, EnqueueJob, CreateNotification, At, Sound,
      Leaving, Busy, TypeOK, Finish, Advance
<1>2. CASE ~Leaving(w)
  <2>0. req[w] \in Request \cup Destruction /\ req[w].op # "leave"
    BY <1>1, <1>2 DEF Leaving, Departure
  <2>1. ASSUME NEW x, req' = [req EXCEPT ![w] = x], x.op # "leave"
        PROVE  FALSE
    BY <2>1 DEF Sound, TypeOK, Leaving
  <2>2. CASE \E st : Advance(w, st)
    <3> PICK st : Advance(w, st)
      BY <2>2
    <3>1. [req[w] EXCEPT !.step = st].op = req[w].op
      BY <2>0 DEF Request, Destruction
    <3> QED
      BY <2>0, <2>1, <3>1 DEF Advance
  <2>3. CASE \E s \in Slot : CheckSlot(w, s)
    <3> PICK s \in Slot : At(w, "check") /\ req' = [req EXCEPT ![w].todo = @ \ {s}]
      BY <1>1, <2>3 DEF CheckSlot
    <3>1. [req[w] EXCEPT !.todo = @ \ {s}].op = req[w].op
      BY <2>0 DEF Request, Destruction
    <3> QED
      BY <2>0, <2>1, <3>1
  <2>4. CASE LoadFacility(w)
    <3> DEFINE x == [req[w] EXCEPT !.loaded = TRUE, !.snap = Seen(req[w])]
    <3>1. req' = [req EXCEPT ![w] = x]
      BY <1>1, <2>4 DEF LoadFacility, Sound, TypeOK
    <3>2. x.op = req[w].op
      BY <2>0 DEF Request, Destruction
    <3> HIDE DEF x
    <3> QED
      BY <2>0, <2>1, <3>1, <3>2
  <2>5. CASE CommitExpire(w)
    <3>1. PICK c \in req[w].rest : req' = [req EXCEPT ![w] = NextExpired(req[w], c)]
      BY <1>1, <2>5 DEF CommitExpire
    <3>2. NextExpired(req[w], c).op = req[w].op
      BY <2>0 DEF NextExpired, Request, Destruction
    <3> QED
      BY <2>0, <2>1, <3>1, <3>2
  <2>6. CASE WriteCascaded(w)
    <3> DEFINE r == [req[w] EXCEPT !.gone = @ \cup {req[w].booking}]
    <3>1. req[w] \in Destruction /\ req[w].step = "schedule"
      BY <1>1, <2>6, RequestKinds DEF WriteCascaded, Razing, At, Sound
    <3>2. PICK x \in Onward(r) : req' = [req EXCEPT ![w] = x]
      BY <2>6 DEF WriteCascaded
    <3>3. r \in Destruction
      <4>1. req[w].booking \in Booking
        BY <3>1, NoRequestIsNone DEF Sound, RowsAreAtHand, Astray, AtBooking, Destruction
      <4> QED
        BY <3>1, <4>1 DEF Destruction
    <3> HIDE DEF r
    <3>4. x.op = "raze"
      BY <3>3, OnwardIsDestruction DEF Destruction
    <3> QED
      BY <2>1, <3>2, <3>4
  <2>7. ~RestoreLoaded(w)
    BY <1>2 DEF RestoreLoaded
  <2> QED
    BY <1>1, <2>2, <2>3, <2>4, <2>5, <2>6, <2>7
    DEF Step, InsertRow, RefuseDay, WriteRow, WriteSchedule, CommitCreate, CommitUpdate,
        CommitDestroy, DeleteParent, CommitRaze, CommitLeave, EnqueueJob, CreateNotification
<1>3. CASE Leaving(w)
  <2>1. req[w].op = "leave" /\ req[w] \in Departure /\ req[w].step \notin {"check", "enqueue", "notify"}
    BY <1>3, RequestKinds, DepartureFields DEF Leaving, Sound
  <2> QED
    BY <1>1, <1>3, <2>1
    DEF Step, At, CheckSlot, InsertRow, RefuseDay, WriteSchedule, Destroys, CommitCreate,
        CommitUpdate, CommitExpire, CommitDestroy, WriteCascaded, Razing, CommitRaze,
        CommitLeave, EnqueueJob, CreateNotification
<1> QED
  BY <1>2, <1>3

(* What it reads is what is on offer, or what it has made of it itself, and *)
(* it only adds to that.                                                    *)
LEMMA LeavingKeepsDrafts ==
  ASSUME Sound, DraftsAreFresh, NEW w \in Worker, Step(w), Leaving(w)'
  PROVE  Drafts(req[w])'
<1>1. /\ Leaving(w) /\ req[w] \in Departure
      /\ WriteRow(w) \/ LoadFacility(w) \/ RestoreLoaded(w) \/ DeleteParent(w)
      /\ ~Finish(w)
  BY LeavingGoesOn
<1>2. /\ UNCHANGED <<facilities, disturbed>> /\ Drafts(req[w])
      /\ \A f \in Facility : Offered(f)' = Offered(f)
  BY <1>1
  DEF WriteRow, LoadFacility, RestoreLoaded, DeleteParent, history, DraftsAreFresh, Offered
<1> SUFFICES ASSUME NEW f \in Facility, f \notin disturbed
             PROVE  /\ f \in req'[w].wrote => Offered(f) \subseteq req'[w].draft[f]
                    /\ AtBooking(req'[w]) /\ req'[w].loaded /\ req'[w].facility = f =>
                         Offered(f) \subseteq req'[w].snap
  BY <1>2 DEF Drafts, AtBooking
<1> PICK r \in Departure : r = req[w]
  BY <1>1
<1>3. /\ f \in r.wrote => Offered(f) \subseteq r.draft[f]
      /\ AtBooking(r) /\ r.loaded /\ r.facility = f => Offered(f) \subseteq r.snap
  BY <1>2 DEF Drafts
<1>4. CASE WriteRow(w) \/ DeleteParent(w)
  <2>1. PICK st : /\ req'[w] = [r EXCEPT !.step = st]
                  /\ st = "schedule" => r.step = "row"
                  /\ st # "row"
    BY <1>4 DEF WriteRow, DeleteParent, Advance, At, Sound, TypeOK
  <2>2. /\ req'[w].wrote = r.wrote /\ req'[w].draft = r.draft /\ req'[w].step = st
        /\ req'[w].loaded = r.loaded /\ req'[w].facility = r.facility /\ req'[w].snap = r.snap
    BY <2>1 DEF Departure
  <2> QED
    BY <1>3, <2>1, <2>2 DEF AtBooking
<1>5. CASE LoadFacility(w)
  <2>1. req'[w] = [r EXCEPT !.loaded = TRUE, !.snap = Seen(r)]
    BY <1>1, <1>5 DEF LoadFacility, Sound, TypeOK
  <2>2. /\ req'[w].wrote = r.wrote /\ req'[w].draft = r.draft
        /\ req'[w].facility = r.facility /\ req'[w].snap = Seen(r)
    BY <2>1 DEF Departure
  <2>3. r.facility = f => Offered(f) \subseteq Seen(r)
    BY <1>3, DepartureFields DEF Seen
  <2> QED
    BY <1>3, <2>2, <2>3
<1>6. CASE RestoreLoaded(w)
  <2>1. PICK x \in OnwardLoaded(Restored(req[w])) :
               /\ req' = [req EXCEPT ![w] = x]
               /\ x.wrote = Restored(req[w]).wrote /\ x.draft = Restored(req[w]).draft
               /\ AtBooking(x) => x.loaded = FALSE
    BY <1>6, RestoringGoesOn
  <2>2. req'[w] = x
    BY <2>1 DEF Sound, TypeOK
  <2>3. ~Astray(r) /\ r.step = "schedule" /\ r.loaded
    BY <1>6, RestoringGoesOn
  <2>4. /\ Restored(r).wrote = r.wrote \cup {r.facility}
        /\ Restored(r).draft = [r.draft EXCEPT ![r.facility] = r.snap \cup r.rows[r.booking].slots]
    BY <2>3, RestoredIsDeparture
  <2>5. r.draft \in [Facility -> SUBSET Slot] /\ AtBooking(r)
    BY <2>3, DepartureFields DEF AtBooking
  <2>6. f \in Restored(r).wrote => Offered(f) \subseteq Restored(r).draft[f]
    BY <1>3, <2>3, <2>4, <2>5
  <2> QED
    BY <2>1, <2>2, <2>6
<1> QED
  BY <1>1, <1>4, <1>5, <1>6

LEMMA StepsKeepDrafts ==
  ASSUME Sound, Order, DraftsAreFresh, NEW w \in Worker, Step(w)
  PROVE  DraftsAreFresh'
<1>1. (Leaving(w) => Drafts(req[w]))'
  BY LeavingKeepsDrafts
<1>2. /\ Busy(w) /\ disturbed \subseteq disturbed'
      /\ \A v \in Worker : v # w => req'[v] = req[v]
  BY DEF Step, CheckSlot, InsertRow, RefuseDay, WriteRow, LoadFacility, WriteSchedule,
         CommitCreate, CommitUpdate, CommitExpire, CommitDestroy, WriteCascaded, RestoreLoaded,
         DeleteParent, CommitRaze, CommitLeave, EnqueueJob, CreateNotification, At, Sound,
         TypeOK, Finish, Advance, history
<1>3. UNCHANGED facilities \/ WritesItsOwn(w)
  BY CommitsWriteTheirOwn
  DEF Step, CheckSlot, InsertRow, RefuseDay, WriteRow, LoadFacility, WriteSchedule,
      WriteCascaded, RestoreLoaded, DeleteParent, EnqueueJob
<1> QED
  BY <1>1, <1>2, <1>3, BystandersKeepDrafts

(* A destruction of a user starts with nothing read or written. *)
LEMMA StartsKeepDrafts ==
  ASSUME Sound, Order, DraftsAreFresh, NEW w \in Worker, Start(w)
  PROVE  DraftsAreFresh'
<1>1. UNCHANGED facilities /\ disturbed \subseteq disturbed'
  BY DEF Start, StartCreate, StartUpdate, StartDestroy, StartExpire, StartRaze, StartLeave,
         Disturb
<1>2. ASSUME NEW x, req' = [req EXCEPT ![w] = x],
             x.op = "leave" => x.wrote = {} /\ (AtBooking(x) => x.loaded = FALSE)
      PROVE  DraftsAreFresh'
  <2>1. req'[w] = x /\ \A v \in Worker : v # w => req'[v] = req[v]
    BY <1>2 DEF Sound, TypeOK
  <2>2. (Leaving(w) => Drafts(req[w]))'
    BY <1>2, <2>1 DEF Leaving, Drafts, AtBooking
  <2> QED
    BY <1>1, <2>1, <2>2, BystandersKeepDrafts
<1>3. CASE \E u \in Customer \cap accounts, b \in Booking, f \in Facility, ss \in Asked :
             StartCreate(w, u, b, f, ss)
  <2> PICK u \in Customer \cap accounts, b \in Booking, f \in Facility, ss \in Asked :
             StartCreate(w, u, b, f, ss)
    BY <1>3
  <2> DEFINE x == [op |-> "create", step |-> "check", owner |-> u, booking |-> b,
                   facility |-> f, slots |-> ss, was |-> "pending", to |-> "pending",
                   todo |-> ss, loaded |-> TRUE, snap |-> Offered(f), rest |-> {}]
  <2>1. req' = [req EXCEPT ![w] = x] /\ x.op = "create"
    BY DEF StartCreate
  <2> HIDE DEF x
  <2> QED
    BY <1>2, <2>1
<1>4. CASE \E u \in accounts, b \in Booking, st \in Sent : StartUpdate(w, u, b, st)
  <2> PICK u \in accounts, b \in Booking, st \in Sent : StartUpdate(w, u, b, st)
    BY <1>4
  <2>1. req' = [req EXCEPT ![w] = Loaded("update", b, u, st)]
    BY DEF StartUpdate
  <2>2. Loaded("update", b, u, st).op = "update"
    BY DEF Loaded
  <2> QED
    BY <1>2, <2>1, <2>2
<1>5. CASE \E u \in accounts, b \in Booking : StartDestroy(w, u, b)
  <2> PICK u \in accounts, b \in Booking : StartDestroy(w, u, b)
    BY <1>5
  <2>1. req' = [req EXCEPT ![w] = Loaded("destroy", b, u, bookings[b].status)]
    BY DEF StartDestroy
  <2>2. Loaded("destroy", b, u, bookings[b].status).op = "destroy"
    BY DEF Loaded
  <2> QED
    BY <1>2, <2>1, <2>2
<1>6. CASE \E E \in SUBSET Booking : \E b \in E : StartExpire(w, E, b)
  <2> PICK E \in SUBSET Booking : \E b \in E : StartExpire(w, E, b)
    BY <1>6
  <2> PICK b \in E : StartExpire(w, E, b)
    OBVIOUS
  <2> DEFINE x == [Loaded("expire", b, bookings[b].owner, "approved")
                     EXCEPT !.loaded = FALSE, !.snap = {}, !.rest = E \ {b}]
  <2>1. req' = [req EXCEPT ![w] = x] /\ x.op = "expire"
    BY DEF StartExpire, Loaded
  <2> HIDE DEF x
  <2> QED
    BY <1>2, <2>1
<1>7. CASE \E u \in accounts, f \in Facility : StartRaze(w, u, f)
  <2> PICK u \in accounts, f \in Facility : StartRaze(w, u, f)
    BY <1>7
  <2> DEFINE r == [op |-> "raze", step |-> "row", facility |-> f, booking |-> NoRow,
                   rest |-> {b \in Booking : BookingExists(b) /\ bookings[b].facility = f},
                   gone |-> {}]
  <2>1. PICK x \in Onward(r) : req' = [req EXCEPT ![w] = x]
    BY DEF StartRaze
  <2>2. r \in Destruction
    BY DEF Destruction
  <2> HIDE DEF r
  <2>3. x.op = "raze"
    BY <2>2, OnwardIsDestruction DEF Destruction
  <2> QED
    BY <1>2, <2>1, <2>3
<1>8. CASE \E a \in accounts, u \in User : StartLeave(w, a, u)
  <2> PICK a \in accounts, u \in User : StartLeave(w, a, u)
    BY <1>8
  <2>1. PICK x \in OnwardLoaded(Departing(u)) : req' = [req EXCEPT ![w] = x]
    BY DEF StartLeave, Departing
  <2>2. x.wrote = {} /\ (AtBooking(x) => x.loaded = FALSE)
    BY DepartingIsDeparture
  <2> QED
    BY <1>2, <2>1, <2>2
<1> QED
  BY <1>3, <1>4, <1>5, <1>6, <1>7, <1>8 DEF Start

LEMMA NextKeepsDrafts ==
  ASSUME Sound, Order, DraftsAreFresh, [Next]_vars
  PROVE  DraftsAreFresh'
<1>1. ASSUME NEW w \in Worker, Abort(w) \/ Crash(w)
      PROVE  DraftsAreFresh'
  <2>1. /\ UNCHANGED facilities /\ disturbed \subseteq disturbed' /\ ~Leaving(w)'
        /\ \A v \in Worker : v # w => req'[v] = req[v]
    BY <1>1 DEF Abort, Crash, Finish, Leaving, Busy, Sound, TypeOK, history
  <2> QED
    BY <2>1, BystandersKeepDrafts
<1>2. ASSUME UNCHANGED req,
             \A w \in Worker, f \in Facility : WorksOn(w, f) /\ f \notin disturbed' =>
               f \notin disturbed /\ Offered(f)' = Offered(f)
      PROVE  DraftsAreFresh'
  <2>1. ASSUME NEW w \in Worker
        PROVE  (Leaving(w) => Drafts(req[w]))'
    BY <1>2, OthersKeepDrafts
  <2> QED
    BY <2>1 DEF DraftsAreFresh
<1>3. CASE \/ \E w \in Worker, u \in User : OpenAccount(w, u)
           \/ \E b \in Booking : RunConflictJob(b)
           \/ UNCHANGED vars
  BY <1>2, <1>3 DEF OpenAccount, RunConflictJob, history, vars, Offered
<1>4. ASSUME NEW w \in Worker, FacilityForm(w)
      PROVE  DraftsAreFresh'
  <2> PICK u \in accounts, g \in Facility, ss \in SUBSET Slot :
        (\E c \in Condo : CreateFacility(w, u, g, c, ss)) \/ SaveSchedule(w, u, g, ss)
    BY <1>4 DEF FacilityForm
  <2>1. /\ UNCHANGED req
        /\ \A f \in Facility : f # g => facilities'[f] = facilities[f]
        /\ \A f \in disturbed : f # g => f \in disturbed'
        /\ \A v \in Worker : WorksOn(v, g) => g \in disturbed'
    BY DEF CreateFacility, SaveSchedule, Disturb, Sound, TypeOK, StoreTypeOK
  <2> QED
    BY <1>2, <2>1 DEF Offered
<1> QED
  BY <1>1, <1>3, <1>4, StepsKeepDrafts, StartsKeepDrafts DEF Next

LEMMA NextKeepsReads ==
  ASSUME Sound, Reads, [Next]_vars
  PROVE  Reads'
<1> USE DEF Reads
<1>1. ASSUME NEW w \in Worker, Abort(w) \/ Crash(w)
      PROVE  RequestsAreReady'
  BY <1>1, FinishKeepsRead DEF Abort, Crash
<1>2. ASSUME UNCHANGED req
      PROVE  RequestsAreReady'
  BY <1>2 DEF RequestsAreReady, Unready, WritesSchedule
<1>3. RequestsAreReady'
  BY <1>1, <1>2, StatementsKeepRead, StartsKeepRead
  DEF Next, vars, FacilityForm, CreateFacility, SaveSchedule, OpenAccount, RunConflictJob
<1> QED
  BY <1>3, NextKeepsOrder, NextKeepsFresh, NextKeepsDrafts

LEMMA InitReads == Init => Reads
<1> SUFFICES ASSUME Init PROVE RequestsAreReady /\ DraftsAreFresh
  BY InitIsOrdered, InitIsFresh DEF Reads
<1> QED
  BY DEF Init, RequestsAreReady, Unready, DraftsAreFresh, Leaving, Busy
-----------------------------------------------------------------------------
(* What the rows of a facility may do so that no slot is lost: the schedule *)
(* gives up only slots that are booked, and a booking only slots that are   *)
(* on offer.                                                                *)
SlotsStay(f) == Known(f) \subseteq Known(f)'

LEMMA ClaimsKeepSlots ==
  ASSUME NEW f \in Facility,
         \A s \in Offered(f) : s \in Offered(f)' \/ s \in Held(f)',
         \A b \in Booking : Holds(b, f) =>
           \/ Holds(b, f)' /\ bookings'[b].slots = bookings[b].slots
           \/ bookings[b].slots \subseteq Offered(f)'
  PROVE  SlotsStay(f)
<1> SUFFICES ASSUME NEW s \in Known(f)
             PROVE  s \in Offered(f)' \/ s \in Held(f)'
  BY DEF SlotsStay, Known
<1>1. CASE s \in Offered(f)
  BY <1>1
<1>2. CASE s \in Held(f)
  <2>1. PICK b \in Booking : Holds(b, f) /\ s \in bookings[b].slots
    BY <1>2 DEF Held
  <2> QED
    BY <2>1 DEF Held
<1> QED
  BY <1>1, <1>2 DEF Known

LEMMA CreatingLosesNothing ==
  ASSUME Sound, Reads, NEW w \in Worker, CommitCreate(w),
         NEW f \in Facility, FacilityExists(f), f \notin disturbed
  PROVE  SlotsStay(f)
<1> DEFINE r == req[w]
<1>1. /\ Busy(w) /\ r \in Request /\ r.op = "create" /\ Creating(w)
      /\ r.booking \in Booking /\ r.facility \in Facility
  BY RequestKinds, RequestFields DEF CommitCreate, At, Creating, Uncommitted, Sound
<1> DEFINE new == [owner |-> r.owner, facility |-> r.facility, slots |-> r.slots,
                   status |-> "pending", told |-> "none", reopened |-> FALSE]
<1>2. /\ bookings' = [bookings EXCEPT ![r.booking] = new]
      /\ bookings \in [Booking -> BookingRow \cup {NoRow}]
      /\ facilities \in [Facility -> FacilityRow \cup {NoRow}]
  BY DEF CommitCreate, Sound, TypeOK, StoreTypeOK
<1>3. ~BookingExists(r.booking)
  BY <1>1 DEF Reads, Order, NewIdsAreOwn
<1>4. \A b \in Booking : Holds(b, f) =>
        Holds(b, f)' /\ bookings'[b].slots = bookings[b].slots
  BY <1>2, <1>3 DEF Holds, BookingExists
<1>5. CASE r.facility = f
  <2>1. r.loaded /\ r.snap = Offered(f)
    <3>1. r.loaded
      BY <1>1 DEF Reads, RequestsAreReady, Unready, WritesSchedule, Busy
    <3> QED
      BY <1>1, <1>5, <3>1 DEF Reads, UndisturbedReadsAreFresh, Creating
  <2>2. Offered(f)' = Offered(f) \ r.slots
    <3>1. facilities' = [facilities EXCEPT ![f].schedule = r.snap \ r.slots]
      BY <1>1, <1>5 DEF CommitCreate, StoreSchedule, WritesSchedule, Rewritten
    <3>2. facilities[f] \in FacilityRow
      BY <1>2 DEF FacilityExists
    <3> QED
      BY <1>2, <2>1, <3>1, <3>2 DEF Offered, FacilityRow
  <2> PICK b \in Booking : b = r.booking
    BY <1>1
  <2>3. Holds(b, f)' /\ bookings'[b].slots = r.slots
    <3>1. bookings'[b] = new
      BY <1>2
    <3>2. new \in BookingRow
      BY <1>1, RequestFields DEF BookingRow, BookingStatus
    <3>3. new # NoRow
      BY <3>2, NoRowIsNone
    <3> QED
      BY <1>5, <3>1, <3>3 DEF Holds, BookingExists, Active
  <2>4. \A s \in Offered(f) : s \in Offered(f)' \/ s \in Held(f)'
    BY <2>2, <2>3 DEF Held
  <2> QED
    BY <1>4, <2>4, ClaimsKeepSlots
<1>6. CASE r.facility # f
  <2>1. Offered(f)' = Offered(f)
    BY <1>1, <1>2, <1>6 DEF CommitCreate, StoreSchedule, Offered
  <2> QED
    BY <1>4, <2>1, ClaimsKeepSlots
<1> QED
  BY <1>5, <1>6

(* A change of status: a booking that gives its claim up has its slots put  *)
(* back to the schedule that the request read, which is still the current   *)
(* one.                                                                     *)
LEMMA UpdatingLosesNothing ==
  ASSUME Sound, Reads, NEW w \in Worker, CommitUpdate(w),
         NEW f \in Facility, FacilityExists(f), f \notin disturbed
  PROVE  SlotsStay(f)
<1> DEFINE r == req[w]
<1>1. /\ Busy(w) /\ r \in Request /\ r.op = "update" /\ r.step = "commit" /\ Uncommitted(w)
      /\ r.booking \in Booking /\ r.facility \in Facility
  BY RequestKinds, RequestFields DEF CommitUpdate, At, Uncommitted, Sound
<1>2. /\ bookings' = StatusWritten(r)
      /\ bookings \in [Booking -> BookingRow \cup {NoRow}]
      /\ facilities \in [Facility -> FacilityRow \cup {NoRow}]
  BY DEF CommitUpdate, Sound, TypeOK, StoreTypeOK
<1>3. \A b \in Booking : b # r.booking => bookings'[b] = bookings[b]
  BY <1>1, <1>2 DEF StatusWritten
<1>4. CASE r.facility = f
  <2>1. /\ BookingExists(r.booking)
        /\ bookings[r.booking].slots = r.slots /\ bookings[r.booking].status = r.was
        /\ r.loaded => r.snap = Offered(f)
    BY <1>1, <1>4 DEF Reads, UndisturbedReadsAreFresh
  <2>2. /\ Offered(f) \subseteq Offered(f)'
        /\ WritesSchedule(r) => r.slots \subseteq Offered(f)'
    <3>1. CASE WritesSchedule(r)
      <4>1. r.loaded
        BY <1>1, <3>1 DEF Reads, RequestsAreReady, Unready, Busy
      <4>2. facilities' = [facilities EXCEPT ![f].schedule = r.snap \cup r.slots]
        BY <1>1, <1>4, <3>1 DEF CommitUpdate, StoreSchedule, Rewritten
      <4>3. facilities[f] \in FacilityRow
        BY <1>2 DEF FacilityExists
      <4>4. Offered(f)' = r.snap \cup r.slots
        BY <1>2, <4>2, <4>3 DEF Offered, FacilityRow
      <4> QED
        BY <2>1, <4>1, <4>4
    <3>2. CASE ~WritesSchedule(r)
      BY <1>1, <3>2 DEF CommitUpdate, StoreSchedule, Offered
    <3> QED
      BY <3>1, <3>2
  <2> PICK b \in Booking : b = r.booking
    BY <1>1
  <2>3. \/ ~Holds(b, f) \/ bookings[b].slots \subseteq Offered(f)'
        \/ Holds(b, f)' /\ bookings'[b].slots = bookings[b].slots
    <3>1. CASE r.was \notin Active \/ WritesSchedule(r)
      BY <2>1, <2>2, <3>1 DEF Holds
    <3>2. CASE r.was \in Active /\ ~WritesSchedule(r)
      <4>1. r.to \in Active
        BY <1>1, <3>2, RequestFields DEF WritesSchedule, GivesBack, BookingStatus, Active, Refused
      <4>2. /\ bookings[b] \in BookingRow
            /\ bookings'[b] = [bookings[b] EXCEPT !.status = r.to,
                 !.reopened = @ \/ (bookings[b].status \in Refused /\ r.to \in Active)]
        BY <1>2, <2>1 DEF StatusWritten, BookingExists
      <4>3. /\ bookings'[b].status = r.to /\ bookings'[b].slots = bookings[b].slots
            /\ bookings'[b].facility = bookings[b].facility
        BY <4>2 DEF BookingRow
      <4>4. bookings'[b] # NoRow
        <5>1. bookings'[b] \in BookingRow
          BY <1>1, <4>2, RequestFields DEF BookingRow
        <5> QED
          BY <5>1, NoRowIsNone
      <4> QED
        BY <4>1, <4>3, <4>4 DEF Holds, BookingExists
    <3> QED
      BY <3>1, <3>2
  <2>4. \A c \in Booking : Holds(c, f) /\ c # b =>
          Holds(c, f)' /\ bookings'[c].slots = bookings[c].slots
    BY <1>3 DEF Holds, BookingExists
  <2> QED
    BY <2>2, <2>3, <2>4, ClaimsKeepSlots
<1>5. CASE r.facility # f
  <2>1. Offered(f)' = Offered(f)
    BY <1>1, <1>2, <1>5 DEF CommitUpdate, StoreSchedule, Offered
  <2>2. ~Holds(r.booking, f)
    BY <1>1, <1>5 DEF Reads, Order, RowsAreWhereTheyWere, AsKnown, About, Knows, Holds
  <2>3. \A b \in Booking : Holds(b, f) =>
          Holds(b, f)' /\ bookings'[b].slots = bookings[b].slots
    BY <1>3, <2>2 DEF Holds, BookingExists
  <2> QED
    BY <2>1, <2>3, ClaimsKeepSlots
<1> QED
  BY <1>4, <1>5

LEMMA DestroyingLosesNothing ==
  ASSUME Sound, Reads, NEW w \in Worker, CommitDestroy(w),
         NEW f \in Facility, FacilityExists(f), f \notin disturbed
  PROVE  SlotsStay(f)
<1> DEFINE r == req[w]
<1>1. /\ Busy(w) /\ r \in Request /\ r.op = "destroy" /\ r.step = "commit" /\ Uncommitted(w)
      /\ r.booking \in Booking /\ r.facility \in Facility
  BY RequestKinds, RequestFields DEF CommitDestroy, At, Uncommitted, Sound
<1>2. /\ bookings' = [bookings EXCEPT ![r.booking] = NoRow]
      /\ bookings \in [Booking -> BookingRow \cup {NoRow}]
      /\ facilities \in [Facility -> FacilityRow \cup {NoRow}]
  BY DEF CommitDestroy, Sound, TypeOK, StoreTypeOK
<1>3. \A b \in Booking : b # r.booking /\ Holds(b, f) =>
        Holds(b, f)' /\ bookings'[b].slots = bookings[b].slots
  BY <1>2 DEF Holds, BookingExists
<1>4. CASE r.facility = f
  <2>1. r.loaded
    BY <1>1 DEF Reads, RequestsAreReady, Unready, WritesSchedule, Busy
  <2>2. bookings[r.booking].slots = r.slots /\ r.snap = Offered(f)
    BY <1>1, <1>4, <2>1 DEF Reads, UndisturbedReadsAreFresh
  <2>3. Offered(f)' = r.snap \cup r.slots
    <3>1. facilities' = [facilities EXCEPT ![f].schedule = r.snap \cup r.slots]
      BY <1>1, <1>4 DEF CommitDestroy, StoreSchedule, WritesSchedule, Rewritten
    <3>2. facilities[f] \in FacilityRow
      BY <1>2 DEF FacilityExists
    <3> QED
      BY <1>2, <3>1, <3>2 DEF Offered, FacilityRow
  <2> QED
    BY <1>3, <2>2, <2>3, ClaimsKeepSlots
<1>5. CASE r.facility # f
  <2>1. Offered(f)' = Offered(f)
    BY <1>1, <1>2, <1>5 DEF CommitDestroy, StoreSchedule, Offered
  <2>2. ~Holds(r.booking, f)
    BY <1>1, <1>5 DEF Reads, Order, RowsAreWhereTheyWere, AsKnown, About, Knows, Holds
  <2> QED
    BY <1>3, <2>1, <2>2, ClaimsKeepSlots
<1> QED
  BY <1>4, <1>5

(* The expiration job only approves, whatever it finds, and a destruction   *)
(* deletes the bookings of its own facility.                                *)
LEMMA ExpiringLosesNothing ==
  ASSUME Sound, Reads, NEW w \in Worker, CommitExpire(w) \/ CreateNotification(w),
         NEW f \in Facility
  PROVE  SlotsStay(f)
<1>1. /\ Busy(w) /\ req[w] \in Request /\ req[w].booking \in Booking
      /\ bookings \in [Booking -> BookingRow \cup {NoRow}] /\ facilities' = facilities
  BY RequestKinds, RequestFields
  DEF CommitExpire, CreateNotification, At, Sound, TypeOK, StoreTypeOK
<1> PICK b \in Booking : b = req[w].booking
  BY <1>1
<1>2. \A c \in Booking : c # b => bookings'[c] = bookings[c]
  BY <1>1 DEF CommitExpire, CreateNotification, StatusWritten
<1>3. Holds(b, f) => Holds(b, f)' /\ bookings'[b].slots = bookings[b].slots
  <2> SUFFICES ASSUME Holds(b, f)
               PROVE  Holds(b, f)' /\ bookings'[b].slots = bookings[b].slots
    OBVIOUS
  <2>1. bookings[b] \in BookingRow
    BY <1>1 DEF Holds, BookingExists
  <2>2. /\ bookings'[b] \in BookingRow
        /\ bookings'[b].slots = bookings[b].slots /\ bookings'[b].facility = bookings[b].facility
        /\ bookings'[b].status \in Active
    <3>1. CASE CommitExpire(w)
      <4>1. bookings'[b] = [bookings[b] EXCEPT !.status = req[w].to,
              !.reopened = @ \/ (bookings[b].status \in Refused /\ req[w].to \in Active)]
        BY <1>1, <3>1 DEF CommitExpire, StatusWritten, Holds
      <4>2. req[w].to \in Active
        BY <1>1, <3>1 DEF CommitExpire, Reads, RequestsAreReady, Unready, Busy, Active
      <4> QED
        BY <1>1, <2>1, <4>1, <4>2, RequestFields DEF BookingRow
    <3>2. CASE CreateNotification(w)
      <4>1. bookings'[b] = [bookings[b] EXCEPT !.told = req[w].to]
        BY <1>1, <3>2 DEF CreateNotification, Holds
      <4> QED
        BY <1>1, <2>1, <4>1, RequestFields DEF BookingRow, Holds
    <3> QED
      BY <3>1, <3>2
  <2>3. bookings'[b] # NoRow
    BY <2>2, NoRowIsNone
  <2> QED
    BY <2>2, <2>3 DEF Holds, BookingExists
<1>4. \A c \in Booking : Holds(c, f) =>
        Holds(c, f)' /\ bookings'[c].slots = bookings[c].slots
  BY <1>2, <1>3 DEF Holds, BookingExists
<1> QED
  BY <1>1, <1>4, ClaimsKeepSlots DEF Offered

LEMMA RazingLosesNothing ==
  ASSUME Sound, Reads, NEW w \in Worker, CommitRaze(w),
         NEW f \in Facility, FacilityExists(f), FacilityExists(f)'
  PROVE  SlotsStay(f)
<1>1. /\ Uncommitted(w) /\ req[w].op = "raze" /\ req[w].facility \in Facility
      /\ facilities \in [Facility -> FacilityRow \cup {NoRow}]
  BY RequestKinds DEF CommitRaze, At, Uncommitted, Busy, Sound, TypeOK, StoreTypeOK
<1>2. CASE UNCHANGED <<facilities, bookings>>
  BY <1>2, ClaimsKeepSlots DEF Offered, Holds, BookingExists
<1>3. CASE /\ facilities' = [facilities EXCEPT ![req[w].facility] = NoRow]
           /\ bookings' = [b \in Booking |-> IF b \in req[w].gone THEN NoRow ELSE bookings[b]]
  <2>1. req[w].facility # f /\ Offered(f)' = Offered(f)
    BY <1>1, <1>3 DEF FacilityExists, Offered
  <2>2. \A b \in Booking : Holds(b, f) => b \notin req[w].gone
    BY <1>1, <2>1
    DEF Reads, Order, RowsAreWhereTheyWere, AsKnown, About, Knows, Holds, Uncommitted
  <2>3. \A b \in Booking : Holds(b, f) =>
          Holds(b, f)' /\ bookings'[b].slots = bookings[b].slots
    BY <1>3, <2>2 DEF Holds, BookingExists
  <2> QED
    BY <2>1, <2>3, ClaimsKeepSlots
<1> QED
  BY <1>2, <1>3 DEF CommitRaze

(* The destruction of a user gives back the slots of the bookings that go,  *)
(* and loses nothing that is on offer: its schedules are the current ones,  *)
(* with those slots.                                                        *)
LEMMA LeavingLosesNothing ==
  ASSUME Sound, Reads, NEW w \in Worker, CommitLeave(w),
         NEW f \in Facility, FacilityExists(f), f \notin disturbed
  PROVE  SlotsStay(f)
<1>1. CASE UNCHANGED <<facilities, bookings, accounts>>
  BY <1>1, ClaimsKeepSlots DEF Offered, Holds, BookingExists
<1>2. CASE ~UNCHANGED <<facilities, bookings, accounts>>
  <2> PICK r : r = req[w]
    OBVIOUS
  <2>1. /\ r \in Departure /\ Leaving(w) /\ Packed(r) /\ Uncommitted(w)
    BY <1>2, RequestKinds
    DEF CommitLeave, Leaving, At, Sound, RowsAreAtHand, Astray, Busy, Uncommitted
  <2>2. /\ FacilityExists(f) /\ f \in r.wrote => Offered(f)' = r.draft[f]
        /\ f \notin r.wrote => facilities'[f] = facilities[f]
        /\ \A b \in Booking : /\ BookingExists(b)' <=> BookingExists(b) /\ b \notin r.gone
                              /\ BookingExists(b)' => bookings'[b] = bookings[b]
    BY <1>2, ClosingRows
  <2>3. \A s \in Offered(f) : s \in Offered(f)'
    BY <2>1, <2>2 DEF Reads, DraftsAreFresh, Drafts, Offered
  <2>4. ASSUME NEW b \in Booking, Holds(b, f), b \in r.gone
        PROVE  bookings[b].slots \subseteq Offered(f)'
    <3>1. r.rows[b] # NoRow /\ BookingExists(b)
      BY <2>1, <2>4 DEF Packed, InHand, Holds
    <3>2. About(w, b)
      BY <2>1, <3>1 DEF About, Knows, Leaving
    <3>3. r.rows[b].facility = f /\ r.rows[b].slots = bookings[b].slots
      BY <2>1, <2>4, <3>1, <3>2
      DEF Reads, Order, RowsAreWhereTheyWere, AsKnown, Holds, Leaving
    <3> QED
      BY <2>1, <2>2, <2>4, <3>3 DEF Packed, Kept
  <2>5. \A b \in Booking : Holds(b, f) /\ b \notin r.gone =>
          Holds(b, f)' /\ bookings'[b].slots = bookings[b].slots
    BY <2>2 DEF Holds
  <2> QED
    BY <2>3, <2>4, <2>5, ClaimsKeepSlots
<1> QED
  BY <1>1, <1>2

(* The guarantee of one step. *)
LoseNothing ==
  \A f \in Facility : FacilityExists(f) /\ FacilityExists(f)' /\ f \notin disturbed
                        => Known(f) \subseteq Known(f)'

LEMMA UnchangedLosesNothing ==
  ASSUME NEW f \in Facility, facilities'[f] = facilities[f], UNCHANGED bookings
  PROVE  SlotsStay(f)
  BY ClaimsKeepSlots DEF Offered, Holds, BookingExists

LEMMA NextLosesNothing ==
  ASSUME MayEdit = FALSE, Sound, Reads, [Next]_vars
  PROVE  LoseNothing
<1> SUFFICES ASSUME NEW f \in Facility,
                    FacilityExists(f), FacilityExists(f)', f \notin disturbed
             PROVE  SlotsStay(f)
  BY DEF LoseNothing, SlotsStay
<1>1. ASSUME NEW w \in Worker, Start(w) \/ Abort(w) \/ Crash(w)
      PROVE  SlotsStay(f)
  <2>1. UNCHANGED <<facilities, bookings>>
    BY <1>1
    DEF Start, StartCreate, StartUpdate, StartDestroy, StartExpire, StartRaze, StartLeave,
        Abort, Crash
  <2> QED
    BY <2>1, UnchangedLosesNothing
<1>2. ASSUME NEW w \in Worker, Step(w)
      PROVE  SlotsStay(f)
  <2>1. CASE UNCHANGED <<facilities, bookings>>
    BY <2>1, UnchangedLosesNothing
  <2>2. CASE \/ CommitCreate(w) \/ CommitUpdate(w) \/ CommitExpire(w) \/ CommitDestroy(w)
             \/ CommitRaze(w) \/ CommitLeave(w) \/ CreateNotification(w)
    BY <2>2, CreatingLosesNothing, UpdatingLosesNothing, DestroyingLosesNothing,
       ExpiringLosesNothing, RazingLosesNothing, LeavingLosesNothing
  <2> QED
    BY <1>2, <2>1, <2>2
    DEF Step, CheckSlot, InsertRow, RefuseDay, WriteRow, LoadFacility, WriteSchedule,
        WriteCascaded, RestoreLoaded, DeleteParent, EnqueueJob
<1>3. ASSUME NEW w \in Worker, FacilityForm(w)
      PROVE  SlotsStay(f)
  <2> PICK u \in accounts, g \in Facility, ss \in SUBSET Slot :
        \E c \in Condo : CreateFacility(w, u, g, c, ss)
    BY <1>3 DEF FacilityForm, SaveSchedule
  <2>1. g # f /\ UNCHANGED bookings /\ facilities'[f] = facilities[f]
    BY DEF CreateFacility, Sound, TypeOK, StoreTypeOK
  <2> QED
    BY <2>1, UnchangedLosesNothing
<1>4. CASE \/ \E w \in Worker, u \in User : OpenAccount(w, u)
           \/ \E b \in Booking : RunConflictJob(b)
           \/ UNCHANGED vars
  BY <1>4, UnchangedLosesNothing DEF OpenAccount, RunConflictJob, vars
<1> QED
  BY <1>1, <1>2, <1>3, <1>4 DEF Next

(* Where no schedule is edited, whatever requests are killed at whatever    *)
(* statement, the read-modify-write of the whole schedule (booking.rb:88)   *)
(* loses no slot of a facility on which requests do not overlap.            *)
THEOREM SlotsAreSafe ==
  ASSUME MayEdit = FALSE
  PROVE  Spec => SlotsLostOnlyWhenDisturbed
<1>1. Sound /\ Reads /\ [Next]_vars => [LoseNothing]_vars
  BY NextLosesNothing
<1>2. Sound /\ Reads /\ [Next]_vars => Reads'
  BY NextKeepsReads
<1> QED
  BY <1>1, <1>2, InitReads, Soundness, PTL DEF Spec, SlotsLostOnlyWhenDisturbed, LoseNothing
-----------------------------------------------------------------------------
(* Part 3, refusals: one that its owner was not told of is on a facility    *)
(* where requests overlapped, or where one was killed before it told.       *)

(* A request that has committed and has still to create its notification.   *)
Following(w) == Busy(w) /\ req[w].step \in {"enqueue", "notify"}

(* What it will say is what the row says, unless it was disturbed.          *)
NoticesAreTrue ==
  \A w \in Worker : Following(w) /\ BookingExists(req[w].booking) =>
    /\ bookings[req[w].booking].facility = req[w].facility
    /\ req[w].facility \notin disturbed => bookings[req[w].booking].status = req[w].to

(* A refusal that the owner was not told of is about to be told.            *)
TellersAreAtWork ==
  \A b \in Booking :
    /\ BookingExists(b) /\ bookings[b].status \in Refused
    /\ bookings[b].facility \notin disturbed
    => \/ bookings[b].told = bookings[b].status
       \/ \E w \in Worker : Following(w) /\ req[w].booking = b

Telling == NoticesAreTrue /\ TellersAreAtWork

LEMMA FollowersKnow ==
  ASSUME Sound, NEW w \in Worker, Following(w)
  PROVE  /\ Busy(w) /\ req[w] \in Request
         /\ req[w].booking \in Booking /\ req[w].facility \in Facility
         /\ WorksOn(w, req[w].facility) /\ Knows(w, req[w].booking)
<1>1. Busy(w) /\ req[w] \in Request
  BY RequestKinds DEF Following, Sound
<1> QED
  BY <1>1, RequestFields DEF WorksOn, Knows, Leaving

(* Steps that leave the bookings alone, and lose no notification but on a   *)
(* facility that is disturbed from then on.                                 *)
FollowingStays(w) ==
  /\ Following(w)' => /\ Following(w)
                      /\ req'[w].booking = req[w].booking
                      /\ req'[w].facility = req[w].facility /\ req'[w].to = req[w].to
  /\ Following(w) /\ req[w].facility \notin disturbed' =>
       Following(w)' /\ req'[w].booking = req[w].booking

LEMMA StayingKeepsTelling ==
  ASSUME Sound, Telling, \A w \in Worker : FollowingStays(w),
         UNCHANGED bookings, disturbed \subseteq disturbed'
  PROVE  Telling'
<1>1. NoticesAreTrue'
  BY DEF Telling, NoticesAreTrue, FollowingStays, BookingExists
<1>2. TellersAreAtWork'
  <2> SUFFICES ASSUME NEW b \in Booking, BookingExists(b), bookings[b].status \in Refused,
                      bookings[b].facility \notin disturbed',
                      bookings[b].told # bookings[b].status
               PROVE  \E w \in Worker : Following(w)' /\ req'[w].booking = b
    BY DEF TellersAreAtWork, BookingExists
  <2> PICK w \in Worker : Following(w) /\ req[w].booking = b
    BY DEF Telling, TellersAreAtWork
  <2>1. req[w].facility \notin disturbed'
    BY DEF Telling, NoticesAreTrue
  <2> QED
    BY <2>1 DEF FollowingStays
<1> QED
  BY <1>1, <1>2 DEF Telling

LEMMA SameRequestFollows ==
  ASSUME NEW w \in Worker, req'[w] = req[w]
  PROVE  FollowingStays(w)
  BY DEF FollowingStays, Following, Busy

(* One request moves, without having committed before or after. *)
LEMMA UncommittedFollows ==
  ASSUME Sound, NEW w \in Worker, ~Following(w), NEW x, req' = [req EXCEPT ![w] = x],
         x = NoRequest \/ x.step \notin {"enqueue", "notify"}
  PROVE  \A v \in Worker : FollowingStays(v)
<1>1. req'[w] = x /\ \A v \in Worker : v # w => req'[v] = req[v]
  BY DEF Sound, TypeOK
<1>2. FollowingStays(w)
  BY <1>1 DEF FollowingStays, Following, Busy
<1> QED
  BY <1>1, <1>2, SameRequestFollows

LEMMA AdvanceFollows ==
  ASSUME Sound, NEW w \in Worker, Busy(w), ~Following(w), NEW st, Advance(w, st),
         st \notin {"enqueue", "notify"}
  PROVE  \A v \in Worker : FollowingStays(v)
<1> DEFINE x == [req[w] EXCEPT !.step = st]
<1>1. req[w] \in Request \cup Destruction \cup Departure
  BY RequestKinds DEF Sound
<1>2. x.step = st
  BY <1>1 DEF Request, Destruction, Departure
<1>3. req' = [req EXCEPT ![w] = x]
  BY DEF Advance
<1> HIDE DEF x
<1> QED
  BY <1>2, <1>3, UncommittedFollows

LEMMA StatementsLetFollow ==
  ASSUME Sound, NEW w \in Worker,
         \/ \E s \in Slot : CheckSlot(w, s)
         \/ InsertRow(w) \/ RefuseDay(w) \/ WriteRow(w) \/ LoadFacility(w)
         \/ WriteSchedule(w) \/ WriteCascaded(w) \/ RestoreLoaded(w)
         \/ DeleteParent(w) \/ EnqueueJob(w)
  PROVE  \A v \in Worker : FollowingStays(v)
<1>1. /\ Busy(w) /\ req[w] \in Request \cup Destruction \cup Departure
      /\ ~EnqueueJob(w) => ~Following(w)
  BY RequestKinds
  DEF CheckSlot, InsertRow, RefuseDay, WriteRow, LoadFacility, WriteSchedule,
      WriteCascaded, RestoreLoaded, DeleteParent, EnqueueJob, At, Sound, Following
<1>2. CASE ~Following(w) /\ Finish(w)
  BY <1>2, UncommittedFollows DEF Finish
<1>3. CASE ~Following(w) /\ \E st \in {"schedule", "commit"} : Advance(w, st)
  BY <1>1, <1>3, AdvanceFollows
<1>4. ASSUME NEW s \in Slot, At(w, "check"), req' = [req EXCEPT ![w].todo = @ \ {s}],
             ~Following(w)
      PROVE  \A v \in Worker : FollowingStays(v)
  <2> DEFINE x == [req[w] EXCEPT !.todo = @ \ {s}]
  <2>1. x.step = "check"
    BY <1>1, <1>4 DEF At, Request, Destruction, Departure
  <2>2. req' = [req EXCEPT ![w] = x]
    BY <1>4
  <2> HIDE DEF x
  <2> QED
    BY <1>4, <2>1, <2>2, UncommittedFollows
<1>5. CASE /\ LoadFacility(w) /\ ~Following(w)
           /\ req' = [req EXCEPT ![w].loaded = TRUE, ![w].snap = Seen(req[w])]
  <2> DEFINE x == [req[w] EXCEPT !.loaded = TRUE, !.snap = Seen(req[w])]
  <2>1. x.step = "schedule"
    BY <1>1, <1>5 DEF LoadFacility, At, Request, Destruction, Departure
  <2>2. req' = [req EXCEPT ![w] = x]
    BY <1>5 DEF Sound, TypeOK
  <2> HIDE DEF x
  <2> QED
    BY <1>5, <2>1, <2>2, UncommittedFollows
<1>6. CASE WriteCascaded(w)
  <2> DEFINE r == [req[w] EXCEPT !.gone = @ \cup {req[w].booking}]
  <2>1. req[w] \in Destruction /\ req[w].step = "schedule"
    BY <1>1, <1>6, RequestKinds DEF WriteCascaded, Razing, At, Sound
  <2>2. PICK x \in Onward(r) : req' = [req EXCEPT ![w] = x]
    BY <1>6 DEF WriteCascaded
  <2>3. r \in Destruction
    <3>1. req[w].booking \in Booking
      BY <2>1, NoRequestIsNone DEF Sound, RowsAreAtHand, Astray, AtBooking, Destruction
    <3> QED
      BY <2>1, <3>1 DEF Destruction
  <2> HIDE DEF r
  <2>4. x.step \notin {"enqueue", "notify"}
    BY <2>3, OnwardIsDestruction DEF Destruction
  <2> QED
    BY <1>1, <1>6, <2>2, <2>4, UncommittedFollows DEF EnqueueJob, WriteCascaded, At
<1>7. CASE EnqueueJob(w)
  <2>1. req[w].step = "enqueue" /\ req[w] \in Request
    BY <1>1, <1>7, RequestKinds DEF EnqueueJob, At, Sound
  <2>2. /\ req'[w] = [req[w] EXCEPT !.step = "notify"]
        /\ \A v \in Worker : v # w => req'[v] = req[v]
    BY <1>7 DEF EnqueueJob, Advance, Sound, TypeOK
  <2>3. /\ req'[w].step = "notify" /\ req'[w].booking = req[w].booking
        /\ req'[w].facility = req[w].facility /\ req'[w].to = req[w].to
        /\ req'[w] # NoRequest
    BY <2>1, <2>2, NoRequestIsNone DEF Request
  <2>4. FollowingStays(w)
    BY <1>1, <2>1, <2>3 DEF FollowingStays, Following, Busy
  <2> QED
    BY <2>2, <2>4, SameRequestFollows
<1>8. CASE RestoreLoaded(w)
  <2> PICK x \in OnwardLoaded(Restored(req[w])) :
         req' = [req EXCEPT ![w] = x] /\ x.step \in {"row", "delete"}
    BY <1>8, RestoringGoesOn
  <2> QED
    BY <1>1, <1>8, UncommittedFollows DEF EnqueueJob, RestoreLoaded, At
<1> QED
  BY <1>1, <1>2, <1>3, <1>4, <1>5, <1>6, <1>7, <1>8
  DEF CheckSlot, InsertRow, RefuseDay, WriteRow, LoadFacility, WriteSchedule, DeleteParent

LEMMA StartsLetFollow ==
  ASSUME Sound, NEW w \in Worker, Start(w)
  PROVE  \A v \in Worker : FollowingStays(v)
<1>1. ~Following(w)
  BY DEF Start, StartCreate, StartUpdate, StartDestroy, StartExpire, StartRaze, StartLeave,
     Following
<1>2. ASSUME NEW x, req' = [req EXCEPT ![w] = x], x.step \in {"check", "row", "delete"}
      PROVE  \A v \in Worker : FollowingStays(v)
  BY <1>1, <1>2, UncommittedFollows
<1>3. CASE \E u \in Customer \cap accounts, b \in Booking, f \in Facility, ss \in Asked :
             StartCreate(w, u, b, f, ss)
  <2> PICK u \in Customer \cap accounts, b \in Booking, f \in Facility, ss \in Asked :
             StartCreate(w, u, b, f, ss)
    BY <1>3
  <2> DEFINE x == [op |-> "create", step |-> "check", owner |-> u, booking |-> b,
                   facility |-> f, slots |-> ss, was |-> "pending", to |-> "pending",
                   todo |-> ss, loaded |-> TRUE, snap |-> Offered(f), rest |-> {}]
  <2>1. req' = [req EXCEPT ![w] = x] /\ x.step = "check"
    BY DEF StartCreate
  <2> HIDE DEF x
  <2> QED
    BY <1>2, <2>1
<1>4. ASSUME NEW b, NEW u, NEW st, NEW op,
             req' = [req EXCEPT ![w] = Loaded(op, b, u, st)]
      PROVE  \A v \in Worker : FollowingStays(v)
  <2> DEFINE x == Loaded(op, b, u, st)
  <2>1. x.step = "row"
    BY DEF Loaded
  <2>2. req' = [req EXCEPT ![w] = x]
    BY <1>4
  <2> HIDE DEF x
  <2> QED
    BY <1>2, <2>1, <2>2
<1>5. CASE \E u \in accounts, b \in Booking :
             (\E st \in Sent : StartUpdate(w, u, b, st)) \/ StartDestroy(w, u, b)
  BY <1>4, <1>5 DEF StartUpdate, StartDestroy
<1>6. CASE \E E \in SUBSET Booking : \E b \in E : StartExpire(w, E, b)
  <2> PICK E \in SUBSET Booking : \E b \in E : StartExpire(w, E, b)
    BY <1>6
  <2> PICK b \in E : StartExpire(w, E, b)
    OBVIOUS
  <2> DEFINE x == [Loaded("expire", b, bookings[b].owner, "approved")
                     EXCEPT !.loaded = FALSE, !.snap = {}, !.rest = E \ {b}]
  <2>1. req' = [req EXCEPT ![w] = x] /\ x.step = "row"
    BY DEF StartExpire, Loaded
  <2> HIDE DEF x
  <2> QED
    BY <1>2, <2>1
<1>7. CASE \E u \in accounts, f \in Facility : StartRaze(w, u, f)
  <2> PICK u \in accounts, f \in Facility : StartRaze(w, u, f)
    BY <1>7
  <2> DEFINE r == [op |-> "raze", step |-> "row", facility |-> f, booking |-> NoRow,
                   rest |-> {b \in Booking : BookingExists(b) /\ bookings[b].facility = f},
                   gone |-> {}]
  <2>1. PICK x \in Onward(r) : req' = [req EXCEPT ![w] = x]
    BY DEF StartRaze
  <2>2. r \in Destruction
    BY DEF Destruction
  <2>3. x.step \in {"row", "delete"}
    <3> HIDE DEF r
    <3>1. \A y \in Onward(r) : y.step \in {"row", "delete"}
      BY <2>2 DEF Onward, Goto, Destruction
    <3> QED
      BY <2>1, <3>1
  <2> QED
    BY <1>2, <2>1, <2>3
<1>8. CASE \E a \in accounts, u \in User : StartLeave(w, a, u)
  <2> PICK a \in accounts, u \in User : StartLeave(w, a, u)
    BY <1>8
  <2> PICK x \in OnwardLoaded(Departing(u)) : req' = [req EXCEPT ![w] = x]
    BY DEF StartLeave, Departing
  <2> QED
    BY <1>2, DepartingIsDeparture
<1> QED
  BY <1>3, <1>5, <1>6, <1>7, <1>8 DEF Start

LEMMA EarlyStepsKeepTelling ==
  ASSUME Sound, Telling, NEW w \in Worker,
         \/ Start(w)
         \/ \E s \in Slot : CheckSlot(w, s)
         \/ InsertRow(w) \/ RefuseDay(w) \/ WriteRow(w) \/ LoadFacility(w)
         \/ WriteSchedule(w) \/ WriteCascaded(w) \/ RestoreLoaded(w)
         \/ DeleteParent(w) \/ EnqueueJob(w)
  PROVE  Telling'
<1>1. UNCHANGED bookings /\ disturbed \subseteq disturbed'
  BY DEF Start, StartCreate, StartUpdate, StartDestroy, StartExpire, StartRaze, StartLeave,
     Disturb, CheckSlot, InsertRow, RefuseDay, WriteRow, LoadFacility, WriteSchedule,
     WriteCascaded, RestoreLoaded, DeleteParent, EnqueueJob, history
<1> QED
  BY <1>1, StartsLetFollow, StatementsLetFollow, StayingKeepsTelling

(* PostgreSQL rolls back a request that waits, which has not committed; one *)
(* that is killed before its notification disturbs its facility.            *)
LEMMA StoppingKeepsTelling ==
  ASSUME Sound, Telling, NEW w \in Worker, Abort(w) \/ Crash(w)
  PROVE  Telling'
<1>1. Finish(w) /\ UNCHANGED bookings /\ disturbed \subseteq disturbed'
  BY DEF Abort, Crash, history
<1>2. CASE ~Following(w)
  BY <1>1, <1>2, UncommittedFollows, StayingKeepsTelling DEF Finish
<1>3. CASE Following(w)
  <2>1. ~Abort(w)
    <3>1. \A v \in Worker : ~Waits(w, v)
      BY <1>3 DEF Waits, Following, Inserts
    <3> QED
      BY <3>1 DEF Abort, Cycle, Standstill
  <2>2. disturbed' = disturbed \cup {req[w].facility}
    BY <1>3, <2>1 DEF Crash, Uncommitted, Following
  <2>3. req'[w] = NoRequest /\ \A v \in Worker : v # w => req'[v] = req[v]
    BY <1>1 DEF Finish, Sound, TypeOK
  <2>4. FollowingStays(w)
    BY <2>2, <2>3 DEF FollowingStays, Following, Busy
  <2> QED
    BY <1>1, <2>3, <2>4, SameRequestFollows, StayingKeepsTelling
<1> QED
  BY <1>2, <1>3

LEMMA OthersKeepTelling ==
  ASSUME Sound, Telling,
         \/ \E b \in Booking : RunConflictJob(b)
         \/ \E w \in Worker, u \in accounts, f \in Facility, ss \in SUBSET Slot :
               SaveSchedule(w, u, f, ss)
         \/ \E w \in Worker, u \in User : OpenAccount(w, u)
         \/ UNCHANGED vars
  PROVE  Telling'
<1>1. UNCHANGED <<bookings, req>> /\ disturbed \subseteq disturbed'
  BY DEF RunConflictJob, SaveSchedule, OpenAccount, Disturb, history, vars
<1> QED
  BY <1>1, SameRequestFollows, StayingKeepsTelling

(* A facility that is new has no bookings. *)
LEMMA FoundingKeepsTelling ==
  ASSUME Sound, Telling, NEW w \in Worker, NEW u \in accounts, NEW f \in Facility,
         NEW c \in Condo, NEW ss \in SUBSET Slot, CreateFacility(w, u, f, c, ss)
  PROVE  Telling'
<1>1. /\ UNCHANGED <<bookings, req>> /\ disturbed' = disturbed \ {f}
      /\ \A v \in Worker : ~WorksOn(v, f)
      /\ \A b \in Booking : BookingExists(b) => bookings[b].facility # f
  BY DEF CreateFacility, Sound, NoBookingIsLeftBehind
<1>2. NoticesAreTrue'
  <2>1. \A v \in Worker : Following(v) => req[v].facility # f
    BY <1>1, FollowersKnow
  <2> QED
    BY <1>1, <2>1 DEF Telling, NoticesAreTrue, Following, Busy, BookingExists
<1>3. TellersAreAtWork'
  BY <1>1 DEF Telling, TellersAreAtWork, Following, Busy, BookingExists
<1> QED
  BY <1>2, <1>3 DEF Telling

(* A commit changes the row its request is about, if any, and no message;   *)
(* when a refusal comes of it, the request goes on to tell.                 *)
LEMMA CommitsChangeOneRow ==
  ASSUME Sound, Reads, NEW w \in Worker,
         CommitCreate(w) \/ CommitUpdate(w) \/ CommitExpire(w) \/ CommitDestroy(w),
         NEW b \in Booking, b = req[w].booking
  PROVE  /\ \A c \in Booking : c # b => bookings'[c] = bookings[c]
         /\ BookingExists(b)' =>
              /\ \/ Creating(w)
                 \/ BookingExists(b) /\ bookings[b].facility = req[w].facility
              /\ bookings'[b].facility = req[w].facility
              /\ bookings'[b].status = req[w].to
              /\ req[w].to \in Refused => Following(w)'
         /\ Following(w)' =>
              /\ req'[w].booking = b /\ req'[w].facility = req[w].facility
              /\ req'[w].to = req[w].to
<1> DEFINE r == req[w]
<1>1. /\ Uncommitted(w) /\ Busy(w) /\ r \in Request /\ r.step = "commit"
      /\ bookings \in [Booking -> BookingRow \cup {NoRow}]
  BY RequestKinds
  DEF CommitCreate, CommitUpdate, CommitExpire, CommitDestroy, At, Uncommitted,
      Sound, TypeOK, StoreTypeOK
<1>2. \A c \in Booking : c # b => bookings'[c] = bookings[c]
  BY <1>1 DEF CommitCreate, CommitUpdate, CommitExpire, CommitDestroy, StatusWritten
<1>3. ASSUME NEW st \in {"enqueue", "notify"}, Advance(w, st)
      PROVE  /\ Following(w)'
             /\ req'[w].booking = b /\ req'[w].facility = r.facility /\ req'[w].to = r.to
  <2>1. req'[w] = [r EXCEPT !.step = st]
    BY <1>3 DEF Advance, Sound, TypeOK
  <2>2. req'[w] \in Request /\ req'[w].step = st
    BY <1>1, <2>1 DEF Request
  <2>3. req'[w] # NoRequest
    BY <2>2, NoRequestIsNone
  <2> QED
    BY <1>1, <2>1, <2>2, <2>3 DEF Request, Following, Busy
<1>4. ASSUME Finish(w)
      PROVE  ~Following(w)'
  BY <1>4 DEF Finish, Following, Busy, Sound, TypeOK
<1>5. CASE CommitCreate(w)
  <2>1. r.to = "pending" /\ Creating(w)
    BY <1>1, <1>5 DEF CommitCreate, Reads, RequestsAreReady, Unready, Busy, Creating
  <2>2. bookings'[b].facility = r.facility /\ bookings'[b].status = "pending"
    BY <1>1, <1>5 DEF CommitCreate
  <2>3. Advance(w, "enqueue")
    BY <1>5 DEF CommitCreate
  <2> QED
    BY <1>2, <1>3, <2>1, <2>2, <2>3
<1>6. CASE CommitUpdate(w) \/ CommitExpire(w)
  <2>1. bookings' = StatusWritten(r) /\ r.op \notin {"create", "raze", "leave"}
    BY <1>6 DEF CommitUpdate, CommitExpire
  <2>2. BookingExists(b)' =>
          /\ BookingExists(b) /\ bookings[b].facility = r.facility
          /\ bookings'[b].facility = r.facility /\ bookings'[b].status = r.to
    <3> SUFFICES ASSUME BookingExists(b)'
                 PROVE  /\ BookingExists(b) /\ bookings[b].facility = r.facility
                        /\ bookings'[b].facility = r.facility /\ bookings'[b].status = r.to
      OBVIOUS
    <3>1. BookingExists(b) /\ bookings'[b].facility = bookings[b].facility
      <4> HIDE DEF r
      <4> QED
        BY <1>1, <2>1, WrittenBookings
    <3>2. bookings[b].facility = r.facility
      BY <1>1, <2>1, <3>1 DEF Reads, Order, RowsAreWhereTheyWere, About, Knows, AsKnown
    <3>3. /\ bookings[b] \in BookingRow
          /\ bookings'[b] = [bookings[b] EXCEPT !.status = r.to,
               !.reopened = @ \/ (bookings[b].status \in Refused /\ r.to \in Active)]
      BY <1>1, <2>1, <3>1 DEF StatusWritten, BookingExists
    <3>4. bookings'[b].status = r.to
      BY <3>3 DEF BookingRow
    <3> QED
      BY <3>1, <3>2, <3>4
  <2>3. CASE CommitUpdate(w)
    BY <1>2, <1>3, <1>4, <2>2, <2>3 DEF CommitUpdate, HasMessage, Refused
  <2>4. CASE CommitExpire(w)
    <3>1. r.to = "approved"
      BY <1>1, <2>4 DEF CommitExpire, Reads, RequestsAreReady, Unready, Busy
    <3>2. ~Following(w)'
      <4>1. ASSUME NEW c \in r.rest, req' = [req EXCEPT ![w] = NextExpired(r, c)]
            PROVE  ~Following(w)'
        <5>1. NextExpired(r, c).step = "row"
          BY <1>1 DEF NextExpired, Request
        <5>2. req'[w] = NextExpired(r, c)
          BY <4>1 DEF Sound, TypeOK
        <5> QED
          BY <5>1, <5>2 DEF Following
      <4> QED
        BY <1>4, <2>4, <4>1 DEF CommitExpire
    <3> QED
      BY <1>2, <2>2, <3>1, <3>2 DEF Refused
  <2> QED
    BY <1>6, <2>3, <2>4
<1>7. CASE CommitDestroy(w)
  <2>1. ~BookingExists(b)'
    BY <1>1, <1>7 DEF CommitDestroy, BookingExists
  <2> QED
    BY <1>2, <1>4, <1>7, <2>1 DEF CommitDestroy
<1> QED
  BY <1>5, <1>6, <1>7

LEMMA CommitsKeepTelling ==
  ASSUME Sound, Reads, Telling, NEW w \in Worker,
         CommitCreate(w) \/ CommitUpdate(w) \/ CommitExpire(w) \/ CommitDestroy(w)
  PROVE  Telling'
<1>1. /\ Uncommitted(w) /\ Busy(w) /\ ~Following(w) /\ req[w] \in Request
      /\ UNCHANGED disturbed
      /\ \A v \in Worker : v # w => req'[v] = req[v]
  BY RequestKinds
  DEF CommitCreate, CommitUpdate, CommitExpire, CommitDestroy, At, Uncommitted, Following,
      Advance, Finish, Sound, TypeOK, history
<1>2. \A v \in Worker : v # w => Following(v)' = Following(v)
  BY <1>1 DEF Following, Busy
<1> PICK b \in Booking : b = req[w].booking
  BY <1>1, RequestFields
<1>3. /\ \A c \in Booking : c # b => bookings'[c] = bookings[c]
      /\ BookingExists(b)' =>
           /\ \/ Creating(w)
              \/ BookingExists(b) /\ bookings[b].facility = req[w].facility
           /\ bookings'[b].facility = req[w].facility
           /\ bookings'[b].status = req[w].to
           /\ req[w].to \in Refused => Following(w)'
      /\ Following(w)' =>
           /\ req'[w].booking = b /\ req'[w].facility = req[w].facility
           /\ req'[w].to = req[w].to
  BY CommitsChangeOneRow
<1>4. NoticesAreTrue'
  <2> SUFFICES ASSUME NEW v \in Worker, Following(v)', NEW c, c = req'[v].booking,
                      bookings'[c] # NoRow
               PROVE  /\ bookings'[c].facility = req'[v].facility
                      /\ req'[v].facility \notin disturbed =>
                           bookings'[c].status = req'[v].to
    BY <1>1 DEF NoticesAreTrue, BookingExists
  <2>1. CASE v = w
    BY <1>3, <2>1 DEF BookingExists
  <2>2. CASE v # w
    <3>1. Following(v) /\ req'[v] = req[v] /\ c \in Booking
      BY <1>1, <1>2, <2>2, FollowersKnow
    <3>2. CASE c # b
      BY <1>3, <3>1, <3>2 DEF Telling, NoticesAreTrue, BookingExists
    <3>3. CASE c = b
      <4>1. ~Creating(w)
        BY <2>2, <3>1, <3>3, FollowersKnow DEF Reads, Order, NewIdsAreOwn
      <4>2. BookingExists(b) /\ bookings[b].facility = req[w].facility
        BY <1>3, <3>3, <4>1 DEF BookingExists
      <4>3. bookings[b].facility = req[v].facility
        BY <3>1, <3>3, <4>2 DEF Telling, NoticesAreTrue
      <4>4. req[v].facility \in disturbed
        BY <1>1, <2>2, <3>1, <4>2, <4>3, FollowersKnow, RequestFields
        DEF Reads, Order, OneAtWork, WorksOn, Leaving
      <4> QED
        BY <1>3, <3>1, <3>3, <4>2, <4>3, <4>4 DEF BookingExists
    <3> QED
      BY <3>2, <3>3
  <2> QED
    BY <2>1, <2>2
<1>5. TellersAreAtWork'
  <2> SUFFICES ASSUME NEW c \in Booking, BookingExists(c)', bookings'[c].status \in Refused,
                      bookings'[c].facility \notin disturbed,
                      bookings'[c].told # bookings'[c].status
               PROVE  \E v \in Worker : Following(v)' /\ req'[v].booking = c
    BY <1>1 DEF TellersAreAtWork
  <2>1. CASE c = b
    BY <1>3, <2>1
  <2>2. CASE c # b
    <3>1. BookingExists(c) /\ bookings'[c] = bookings[c]
      BY <1>3, <2>2 DEF BookingExists
    <3>2. PICK v \in Worker : Following(v) /\ req[v].booking = c
      BY <3>1 DEF Telling, TellersAreAtWork
    <3> QED
      BY <1>1, <1>2, <3>2
  <2> QED
    BY <2>1, <2>2
<1> QED
  BY <1>4, <1>5 DEF Telling

LEMMA RazingKeepsTelling ==
  ASSUME Sound, Telling, NEW w \in Worker, CommitRaze(w) \/ CommitLeave(w)
  PROVE  Telling'
<1>1. ~Following(w) /\ ~Following(w)' /\ UNCHANGED disturbed
      /\ \A v \in Worker : v # w => req'[v] = req[v] /\ Following(v)' = Following(v)
  BY DEF CommitRaze, CommitLeave, At, Finish, Following, Busy, Sound, TypeOK, history
<1>2. \A b \in Booking : BookingExists(b)' => BookingExists(b) /\ bookings'[b] = bookings[b]
  BY DEF CommitRaze, CommitLeave, BookingExists
<1>3. NoticesAreTrue'
  <2> SUFFICES ASSUME NEW v \in Worker, Following(v)', BookingExists(req[v].booking)'
               PROVE  /\ bookings'[req'[v].booking].facility = req'[v].facility
                      /\ req'[v].facility \notin disturbed =>
                           bookings'[req'[v].booking].status = req'[v].to
    BY <1>1 DEF NoticesAreTrue
  <2>1. Following(v) /\ req'[v] = req[v] /\ req[v].booking \in Booking
    BY <1>1, FollowersKnow
  <2>2. BookingExists(req[v].booking)
        /\ bookings'[req[v].booking] = bookings[req[v].booking]
    BY <1>2, <2>1 DEF BookingExists
  <2> QED
    BY <2>1, <2>2 DEF Telling, NoticesAreTrue
<1>4. TellersAreAtWork'
  BY <1>1, <1>2 DEF Telling, TellersAreAtWork
<1> QED
  BY <1>3, <1>4 DEF Telling

(* The notification says what NoticesAreTrue has it say. *)
LEMMA NotifyingKeepsTelling ==
  ASSUME Sound, Telling, NEW w \in Worker, CreateNotification(w)
  PROVE  Telling'
<1>1. /\ Following(w) /\ ~Following(w)' /\ UNCHANGED disturbed
      /\ req[w] \in Request /\ bookings \in [Booking -> BookingRow \cup {NoRow}]
      /\ \A v \in Worker : v # w => req'[v] = req[v] /\ Following(v)' = Following(v)
  BY RequestKinds
  DEF CreateNotification, At, Finish, Following, Busy, Sound, TypeOK, StoreTypeOK, history
<1> PICK b \in Booking : b = req[w].booking
  BY <1>1, RequestFields
<1>2. \A c \in Booking : c # b => bookings'[c] = bookings[c]
  BY <1>1 DEF CreateNotification
<1>3. BookingExists(b)' =>
        /\ BookingExists(b) /\ bookings'[b].facility = bookings[b].facility
        /\ bookings'[b].status = bookings[b].status /\ bookings'[b].told = req[w].to
  <2>1. BookingExists(b) => bookings'[b] = [bookings[b] EXCEPT !.told = req[w].to]
    BY <1>1 DEF CreateNotification
  <2>2. ~BookingExists(b) => bookings'[b] = bookings[b]
    BY DEF CreateNotification
  <2> QED
    BY <1>1, <2>1, <2>2 DEF BookingExists, BookingRow
<1>4. \A c \in Booking : BookingExists(c)' =>
        /\ BookingExists(c) /\ bookings'[c].facility = bookings[c].facility
        /\ bookings'[c].status = bookings[c].status
  BY <1>2, <1>3 DEF BookingExists
<1>5. NoticesAreTrue'
  <2> SUFFICES ASSUME NEW v \in Worker, Following(v)', BookingExists(req[v].booking)'
               PROVE  /\ bookings'[req'[v].booking].facility = req'[v].facility
                      /\ req'[v].facility \notin disturbed =>
                           bookings'[req'[v].booking].status = req'[v].to
    BY <1>1 DEF NoticesAreTrue
  <2>1. Following(v) /\ req'[v] = req[v]
    BY <1>1
  <2> PICK c \in Booking : c = req[v].booking
    BY <2>1, FollowersKnow
  <2>2. BookingExists(c)'
    BY <2>1 DEF BookingExists
  <2> QED
    BY <1>4, <2>1, <2>2 DEF Telling, NoticesAreTrue
<1>6. TellersAreAtWork'
  <2> SUFFICES ASSUME NEW c \in Booking, BookingExists(c)', bookings'[c].status \in Refused,
                      bookings'[c].facility \notin disturbed,
                      bookings'[c].told # bookings'[c].status
               PROVE  \E v \in Worker : Following(v)' /\ req'[v].booking = c
    BY <1>1 DEF TellersAreAtWork
  <2>1. CASE c = b
    BY <1>1, <1>3, <2>1 DEF Telling, NoticesAreTrue
  <2>2. CASE c # b
    <3>1. BookingExists(c) /\ bookings'[c] = bookings[c]
      BY <1>2, <2>2 DEF BookingExists
    <3>2. PICK v \in Worker : Following(v) /\ req[v].booking = c
      BY <3>1 DEF Telling, TellersAreAtWork
    <3> QED
      BY <1>1, <2>2, <3>2
  <2> QED
    BY <2>1, <2>2
<1> QED
  BY <1>5, <1>6 DEF Telling

LEMMA NextKeepsTelling ==
  ASSUME Sound, Reads, Telling, [Next]_vars
  PROVE  Telling'
<1>1. ASSUME NEW w \in Worker, Step(w)
      PROVE  Telling'
  BY <1>1, EarlyStepsKeepTelling, CommitsKeepTelling, RazingKeepsTelling,
     NotifyingKeepsTelling
  DEF Step
<1>2. ASSUME NEW w \in Worker, FacilityForm(w)
      PROVE  Telling'
  BY <1>2, OthersKeepTelling, FoundingKeepsTelling DEF FacilityForm
<1> QED
  BY <1>1, <1>2, EarlyStepsKeepTelling, StoppingKeepsTelling, OthersKeepTelling DEF Next

LEMMA InitTells == Init => Telling
  BY DEF Init, Telling, NoticesAreTrue, TellersAreAtWork, Following, Busy, BookingExists

(* The owner of a refused booking is told of it (bookings_controller.rb:125)*)
(* as soon as no request about it is under way, unless requests about its   *)
(* facility overlapped or one was killed before it created a notification.  *)
THEOREM RefusalsReachTheOwner == Spec => []RefusalsAreToldInTurn
<1>1. Sound /\ Reads /\ [Next]_vars => Reads'
  BY NextKeepsReads
<1>2. Sound /\ Reads /\ Telling /\ [Next]_vars => Telling'
  BY NextKeepsTelling
<1>3. Telling => RefusalsAreToldInTurn
  BY DEF Telling, TellersAreAtWork, RefusalsAreToldInTurn, Following, Concerns
<1> QED
  BY <1>1, <1>2, <1>3, InitReads, InitTells, Soundness, PTL DEF Spec
=============================================================================
