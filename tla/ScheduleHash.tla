---------------------------- MODULE ScheduleHash ----------------------------
(***************************************************************************)
(* availability_schedule and booking_time_slots as the code has them:      *)
(* hashes from a day to a list of times (functions from a set of days to   *)
(* sequences), and the operations on them of Booking and of                *)
(* FacilitiesController#build_availability_schedule.                       *)
(*                                                                         *)
(* One facility's schedule goes through any sequence of forms, bookings    *)
(* and restitutions; next to it goes the set of slots that Bookings and    *)
(* BookingTxn use in its place.  The invariants say that the two agree.    *)
(***************************************************************************)
EXTENDS Integers, Sequences, SequencesExt

CONSTANTS
  Day,          \* days (or dates) that schedules and bookings name
  Time,         \* times of a day: numbers, in the order of their strings
  Blank,        \* an empty field of the facility form
  ClaimList,    \* the lists of times a booking may ask for on a day
  FormRows      \* most rows of the facility form

ASSUME HashAssumption ==
  /\ Time \subseteq Nat /\ Blank \notin Day \cup Time
  /\ \A l \in ClaimList : l \in Seq(Time)
  /\ FormRows \in Nat

VARIABLES
  schedule,     \* the hash of the facility
  offered       \* the set of slots that stands for it

vars == <<schedule, offered>>

(* The booking_time_slots of a request: some days, with a list for each.    *)
(* validates presence asks for a day, and an empty list is an array of      *)
(* strings like any other.                                                  *)
Claim == UNION {[D -> ClaimList] : D \in (SUBSET Day) \ {{}}}

(* The slots that a hash lists. *)
SlotsOf(h) == {s \in Day \X Time : s[1] \in DOMAIN h /\ s[2] \in ToSet(h[s[1]])}

(* list.sort (SortSeq and SelectSeq have no definition outside of TLC, so   *)
(* sorting and selecting are defined here).                                 *)
Sorted(l) ==
  LET p == CHOOSE q \in [DOMAIN l -> DOMAIN l] :
             /\ IsInjective(q)
             /\ \A i, j \in DOMAIN l : i < j => l[q[i]] <= l[q[j]]
  IN [i \in DOMAIN l |-> l[p[i]]]

Ascending(S) == Sorted(SetToSeq(S))

(* list.uniq.sort *)
SortedUniq(l) == Ascending(ToSet(l))

(* The elements of l that are in X, in the order of l. *)
Among(l, X) ==
  LET k == Ascending({i \in DOMAIN l : l[i] \in X})
  IN [n \in DOMAIN k |-> l[k[n]]]

(* What Rails calls present? of the list of a day. *)
DayPresent(h, d) == d \in DOMAIN h /\ h[d] # <<>>
-----------------------------------------------------------------------------
(* Faulty variants (see BookingStore) *)
KeepsEmptyDays(h, c) ==
  [d \in DOMAIN h |-> IF d \in DOMAIN c
                      THEN Among(h[d], Time \ ToSet(c[d]))
                      ELSE h[d]]
ReplacesDay(old, l) == SortedUniq(l)
AppendsDay(old, l) == Sorted(old \o l)
IgnoresMissingDays(h, c) ==
  \A d \in DOMAIN c \cap DOMAIN h : ToSet(c[d]) \subseteq ToSet(h[d])
KeepsBlanks(days, times) ==
  [d \in ToSet(days) |-> [i \in {1} |-> IF times = <<>> THEN Blank ELSE times[1]]]
FirstTimeOnly(held, c) ==
  \E d \in DOMAIN c \cap DOMAIN held :
    c[d] # <<>> /\ c[d][1] \in ToSet(held[d])
-----------------------------------------------------------------------------
(* Booking#remove_time_slots_from_facility: a day that loses its last time  *)
(* is deleted.                                                              *)
RemoveSlots(h, c) ==
  LET left(d) == IF d \in DOMAIN c
                 THEN Among(h[d], Time \ ToSet(c[d]))
                 ELSE h[d]
  IN [d \in {e \in DOMAIN h : DayPresent(h, e) => left(e) # <<>>} |-> left(d)]

(* A day that is still there gets the times back in order and once each. *)
MergeDay(old, l) == SortedUniq(old \o l)

(* Booking#restore_time_slots_to_facility *)
RestoreSlots(h, c) ==
  [d \in DOMAIN h \cup DOMAIN c |->
     IF d \notin DOMAIN c THEN h[d]
     ELSE IF DayPresent(h, d) THEN MergeDay(h[d], c[d])
     ELSE Sorted(c[d])]

(* FacilitiesController#build_availability_schedule: the columns of days    *)
(* and times zipped into rows, those with a blank left out.                 *)
BuildSchedule(days, times) ==
  LET rows == Among([i \in 1..Len(days) |->
                       <<days[i], IF i <= Len(times) THEN times[i] ELSE Blank>>],
                    Day \X Time)
      of(d) == Among(rows, {d} \X Time)
  IN [d \in {r[1] : r \in ToSet(rows)} |-> [i \in 1..Len(of(d)) |-> of(d)[i][2]]]

(* Booking#booking_within_facility_hours: no check when no day is left. *)
WithinHours(h, c) ==
  \/ DOMAIN h = {}
  \/ \A d \in DOMAIN c : DayPresent(h, d) /\ ToSet(c[d]) \subseteq ToSet(h[d])

(* The overlap query for each slot of c: booking_time_slots -> day @> time. *)
Overlaps(held, c) ==
  \E d \in DOMAIN c : \E i \in 1..Len(c[d]) :
    d \in DOMAIN held /\ c[d][i] \in ToSet(held[d])
-----------------------------------------------------------------------------
(* A booking is created, one is refused or destroyed, the form is sent. *)
Take(c) ==
  /\ WithinHours(schedule, c)
  /\ schedule' = RemoveSlots(schedule, c)
  /\ offered' = offered \ SlotsOf(c)

GiveBack(c) ==
  /\ schedule' = RestoreSlots(schedule, c)
  /\ offered' = offered \cup SlotsOf(c)

SendForm(days, times) ==
  /\ schedule' = BuildSchedule(days, times)
  /\ offered' = {s \in Day \X Time :
                   \E i \in 1..Len(days) : i <= Len(times) /\ s = <<days[i], times[i]>>}

Init == schedule = <<>> /\ offered = {}

Next ==
  \/ \E c \in Claim : Take(c) \/ GiveBack(c)
  \/ \E n, m \in 0..FormRows :
       \E days \in [1..n -> Day \cup {Blank}], times \in [1..m -> Time \cup {Blank}] :
         SendForm(days, times)

Spec == Init /\ [][Next]_vars
-----------------------------------------------------------------------------
TypeOK ==
  /\ DOMAIN schedule \subseteq Day
  /\ \A d \in DOMAIN schedule : schedule[d] \in Seq(Time)
  /\ offered \subseteq Day \X Time

(* The hash operations compute the set operations of BookingStore, through  *)
(* any sequence of forms, bookings and restitutions.                        *)
HashIsSet == SlotsOf(schedule) = offered

NoEmptyList(h) == \A d \in DOMAIN h : h[d] # <<>>

(* The hours validation accepts no booking that BookingStore refuses on     *)
(* sets, and all that it accepts but for days without times: a booking is   *)
(* refused for one that it names, and any booking is when nothing but such  *)
(* days is left of the schedule.                                            *)
HoursAgree ==
  \A c \in Claim :
    LET accepted == offered = {} \/ SlotsOf(c) \subseteq offered IN
    /\ WithinHours(schedule, c) => accepted
    /\ accepted /\ NoEmptyList(c) /\ NoEmptyList(schedule) => WithinHours(schedule, c)

OverlapsAgree ==
  \A c \in Claim :
    Overlaps(schedule, c) <=> SlotsOf(schedule) \cap SlotsOf(c) # {}

(* A day goes with its last time, whatever is booked, or the schedule would *)
(* not count as empty when nothing is on offer.  The one way to a day       *)
(* without times is to give back a booking that names the day without any.  *)
EmptyDaysAreGivenBack ==
  [][\A d \in DOMAIN schedule' :
       schedule'[d] = <<>> =>
         \/ d \in DOMAIN schedule /\ schedule[d] = <<>>
         \/ \E c \in Claim : GiveBack(c) /\ d \in DOMAIN c /\ c[d] = <<>>]_vars

(* "Thêm lại các time slots, sắp xếp và loại bỏ duplicate" (booking.rb:127: *)
(* the times are put back in order and without duplicates): giving slots    *)
(* back leaves the days they are on in order, and repeats none that the day *)
(* already has.                                                             *)
DaysAreTidied ==
  [][\A c \in Claim : GiveBack(c) =>
       \A d \in DOMAIN c :
         /\ \A i, j \in 1..Len(schedule'[d]) : i < j => schedule'[d][i] <= schedule'[d][j]
         /\ DayPresent(schedule, d) =>
              Len(schedule'[d]) = Cardinality(ToSet(schedule[d]) \cup ToSet(c[d]))]_vars
=============================================================================
