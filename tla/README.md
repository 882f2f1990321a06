# Condo management: TLA+ models of bookings, residency, invitations and notices

The repository is a Rails 8 application for condominiums: facilities with bookable time slots,
bookings that admins approve or reject, units with owners and members, invitations, notifications.
It runs on Puma threads (and Sidekiq threads for jobs) over one PostgreSQL database at READ
COMMITTED; all shared state is rows of that database, but for the subscriptions of open pages to
notices, which live in the browser and in Action Cable. This directory holds TLA+ models of its
core, TLC configurations that check them, and proofs for TLAPS. Paths below are relative to `src/`.

## 1. Inventory

| Component | State | Operations | Modelled in |
|---|---|---|---|
| Booking workflow (`app/models/booking.rb`, `app/controllers/bookings_controller.rb`) | `bookings` rows: owner, facility, slots, status | create, PATCH of status (and facility_id), destroy; validations, callbacks that rewrite the facility's schedule | `BookingStore`, `Bookings`, `BookingTxn`, `ScheduleHash` |
| Facilities (`app/models/facility.rb`, `app/controllers/facilities_controller.rb`) | `facilities` rows: condo, availability_schedule | create, update (columns, then the whole schedule), destroy with its bookings; a user who is destroyed takes bookings along | `BookingStore`, `Bookings`, `BookingTxn`, `ScheduleHash` |
| Jobs (`app/jobs/`) | Sidekiq queue | `BookingExpirationJob` approves what has been pending for a day; `BookingConflictResolutionJob` logs a conflict | `Bookings`, `BookingTxn` |
| Policies (`app/policies/`) | none | who may do what | `Policies` (bookings, facilities, units, members, users) |
| Invitations (`app/models/unit_member_request.rb` and its controller) | `unit_member_requests` rows: unit, sender, recipient, status | invite, accept!, decline! | `Residency`, `InvitationTxn` |
| Users, units, membership (`app/models/user.rb`, `unit.rb`, `unit_member.rb`, their controllers) | `users`, `units`, `unit_members` rows | sign up, edit or close an account, create/update/destroy a user with the unit, create/update/destroy a unit, add/remove a member | `Residency`; the bookings of a user who is destroyed, `Bookings` and `BookingTxn` |
| Condos (`app/models/condo.rb`, controller) | `condos` rows | create, update, destroy with its units and facilities | constant in the models |
| Notifications (`app/models/notification.rb`, controller) | `notifications` rows | created by the booking and invitation code, marked read | the last message about a booking or an invitation, as the field `told`; what reaches a page, in `NotificationChannels` |
| Realtime channels (`app/channels/`, `app/helpers/notification_helper.rb`, `app/javascript/channels/`, `app/javascript/notification_manager.js`, the script of the layout) | subscription objects and toasts of a page, its connection, streams of the server | subscribe, unsubscribeAll, received, broadcast; connect, lose the connection, retry | `NotificationChannels` |
| Sign-in, other pages and scripts, static pages, deployment, seeds | - | - | not modelled (section 6) |

**How they interact.** A booking request reads the facility row, validates against it and against
the other bookings, and its callbacks write the facility's whole schedule back; after the commit
the controller queues the conflict job and creates the notification. The facility forms write the
same schedule without looking at the bookings. The expiration job saves bookings through the same
model. Destroying a facility destroys its bookings, each of which writes the schedule; destroying a user
destroys the user's bookings, each of which writes the schedule of its facility. The users form saves
the user, then moves the membership and the ownership of units, in one transaction; accepting an
invitation inserts a membership and updates the invitation in one transaction, declining one
updates it and then notifies. A policy
decides from the role and condo of the user and the condo of the booking's facility; in doing so
it loads that facility, whose cached copy the callbacks then use. A page opens one connection, over
which all of its subscriptions go; the channels ask the policy-like `current_user` of that
connection, and broadcasts go to whoever streams at that moment.

**What is hard.** The overlap check is a query with no lock or unique index behind it. The schedule
is read once per request and written back whole. Persisted bookings are not validated again when
their status changes. The notification and the job follow the commit and may be lost. The
expiration job saves rows that it loaded earlier. One pending invitation per person and unit is a
validation without an index, answers write by id whatever the status is by now, and destroying a
user cascades over units, members and the foreign keys of invitations. The destruction of a facility, and
that of a user, loads the bookings first and locks row after row, while bookings come and go. Subscriptions are
asked for, confirmed and given up by messages that keep no order, over a connection that is lost
and opened again, perhaps by somebody else. Each is an entry of `hazards` in `PROJECT.json`.

**What makes each component correct.**
- Bookings: no two active bookings on a slot; a slot of a facility is offered or booked, never
  neither (lost) and never both (in doubt); the owner hears of a refusal; requests do not wait for
  each other for ever.
- Facilities: no booking without its facility and its owner, whatever overlaps with their destruction;
  the schedule hash behaves as a set of slots, as far as it does.
- Jobs: a conflict that came about is resolved; the expiration job approves only what is pending.
- Invitations: one pending invitation per person and unit; accepting and becoming a member are one
  step; the sender learns the answer that stands; every request ends.
- Users, units, membership: nothing names what is gone; a user who is saved has the condo of a unit
  of theirs; a user who is moved has left and given up all else.
- Channels: who is subscribed is served, alerts go to administrators alone, a message is shown once
  by each script, and nothing is shown to a script that unsubscribed.

## 2. Modules

| Module | What it is |
|---|---|
| `Policies` | `RoleHelpers`, `BookingPolicy`, `FacilityPolicy` as operators on `[id, role, condo]` |
| `BookingStore` | the rows of both tables, who has an account, and what the models' validations and callbacks compute from them |
| `Bookings` | one request or job at a time; each action is a whole controller action with all it sets off |
| `BookingTxn` | the same requests statement by statement, several workers, locks and deadlocks, kills, the conflict job |
| `ScheduleHash` | the algorithms on the schedule hash (day -> list of times), against sets of slots |
| `Residency` | users, units, members and invitations; each action is a whole controller action with its validations and cascades |
| `InvitationTxn` | invite, accept and decline statement by statement, several workers, kills |
| `NotificationChannels` | a page with its scripts, its connection, and the channels at the other end |
| `MCBookings`, `MCBookingTxn`, `MCScheduleHash`, `MCResidency`, `MCInvitationTxn`, `MCNotificationChannels` | instances for TLC |
| `BookingsProofs`, `BookingTxnProofs`, `BookingTxnOutcomeProofs`, `BookingTxnRefinementProofs`, `ScheduleHashProofs`, `ResidencyProofs`, `InvitationProofs`, `NotificationProofs` | theorems, proved with TLAPS |

`Bookings` and `BookingTxn` both extend `BookingStore`, which extends `Policies`. `BookingTxn`
instantiates `Bookings` with the refinement mapping `View` and refines it when it has one worker.
`ScheduleHash` stands apart: it justifies that the others treat a schedule as a set of slots, and says what
a set does not show (days without times).
`Residency` extends `Policies`. `InvitationTxn` takes the invitations of `Residency` apart and keeps
of units and users only the pair that an invitation and a membership are about, a *place*.
`NotificationChannels` shares nothing with the others: a broadcast happens to it.

Each module with a specification starts, before the definitions they would replace, with a few
*faulty variants*: what a definition would be with a plausible bug in it. They belong to no
specification; substituted for the definition they make a property fail, which shows that the
property depends on the code.

### State and actions against the code

- `facilities[f]` is a row of `facilities` or `NoRow`: `condo` and `schedule`, the set of slots of
  `availability_schedule`. `bookings[b]` is a row of `bookings`: owner (`user_id`), `facility`,
  `slots` (which may be empty: `booking_time_slots` has to be present, and `{"monday": []}` is),
  `status`. `accounts` are the users that have a row, who alone can sign in. `told` is the last message the owner was sent about the booking. `reopened`
  is a history variable: has the row gone from a refused status to an active one, or moved?
- `CreateBooking` is `BookingsController#create`: the three validations, the insert, the
  `after_create` removal of the slots, the notification. `WithinHours` keeps the early return on a
  schedule that is not `present?`: the empty hash is not.
- `UpdateBooking` is `#update`: the policy, no validation of slots (both validations return
  early when a persisted row's slots are unchanged), the `after_update` restoration when the status
  goes from active to refused, the message. The controller permits `facility_id`, though the page
  sends the status alone: `MayMove` says whether it is sent. The slots come back to the facility
  the row has after the update.
- `DestroyBooking` is `#destroy`: `after_destroy` restores the slots whatever the status.
  `BookingDestroy` keeps the comparison of the status with an array, which is never true.
- `ExpirePending` is a run of `BookingExpirationJob` over any set of pending rows (their age is
  not modelled).
- `CreateFacility`, `UpdateFacility`, `DestroyFacility` are the facility forms.
- `DestroyUser` is `UsersController#destroy` and the cancellation of one's own account, as far as bookings
  go: all bookings of the user are destroyed, each with its callback (`CascadeOfUser`, `RestoreOfUser`).
  `OpenAccount` is a new user. Roles and condos of users are constant here; `Residency` changes them.

In `BookingTxn` a request is a record `req[w]`. Its steps are `check` (one overlap query per slot,
each seeing committed rows only), `row` (the INSERT, UPDATE or DELETE, which waits for the lock on
the booking row), `schedule` (load the facility, unless the policy or a validation did, then the
UPDATE of the whole schedule, which waits for the facility row), `commit` (everything becomes
visible at once), `enqueue` and `notify`. Reads happen where the code makes them: find and
authorize before the transaction; the facility of a super admin's request in the callback, since
only `AdminOf` reads it, and fails when the facility is gone. UPDATE and DELETE go by id with no condition on the status, and a
statement that meets no row still runs its callbacks. The expiration
job loads all its rows first and saves them one after the other, each in its own transaction.
Locks are read off `req`: a written booking row (`HasRowLock`), a written or deleted facility row
(`HasScheduleLock`), and the key of the facility that the foreign key of an inserted booking takes
(`HasKeyLock`), which lets schedules be written and keeps the facility from being deleted; `HasUserKey` and
`HasClosed` are the same for the owner. `Waits`
says whom the next statement of a request waits for, `Cycle` when requests wait for each other in a
circle, and `Abort` is PostgreSQL rolling one of them back. A destruction of a facility (`StartRaze`)
is a record of its own: it loads the bookings, then goes from `row` to `schedule` for each in any
order, deletes the facility (`delete`) and commits, or is rolled back when a foreign key still names
the facility (`Strays`). The destruction of a user (`StartLeave`, a `Departure`) goes the same way, but over
bookings of several facilities, which outlive it: each booking loads its facility anew, sees in it what the
transaction itself wrote before (`Seen`), and keeps the row locked. What it wrote is `draft` until the commit. It may
be rolled back even without a stray booking, as invitations and other tables name users, too.
`RefuseDay` is what the hours validation refuses beyond the check on sets: a booking that names a day without
times which the facility does not have.
`Crash` kills a worker at any point (a Redis failure in `perform_later` or a failing
`Notification.create!` cut the request short in the same places).

History variables of `BookingTxn`: `raced` (pairs of bookings whose creations overlapped in time), `disturbed`
(facilities on which requests overlapped, or a notification was lost with its worker).

`Residency`:

- `users[u]` is a row: role and condo; `units[n]`: condo and house owner; `members` the pairs
  `<<unit, user>>` of `unit_members`; `invitations[i]` a row of `unit_member_requests`.
- `UpdateUser` is `UsersController#update`: role and condo are saved and validated
  (`CondoAgrees`) against the units the user has *before* the unit of the form is looked at; its
  three disjuncts are the same unit as before, another one (`GiveUp`, then the new membership,
  then `GiveUnit` and `SyncedCondo`), and none. `CreateUser` shares the last part.
- `RemoveUser` is the cascade of `User`: memberships, owned units with their members; the request
  fails when an invitation names the user or one of those units (`Unnamed`). It is reached from the
  admin's list (`DestroyUser`) and from the registration page (`CloseAccount`).
- `Register` and `UpdateAccount` are Devise's sign-up and account pages with the parameters that
  `application_controller.rb:24-25` permits: a role in both, a condo in the first alone. The account is validated
  (`CondoAgrees`) when it is saved.
- `CreateUnit`, `UpdateUnit`, `DestroyUnit`, `AddMember`, `RemoveMember`, `Invite`, `Accept`,
  `Decline` are the other controllers' actions, each with its policy.

Some of what the steps allow is worth knowing, as no document forbids it. Accepting an invitation
or adding a member does not touch the user's condo, though `README.md:49` speaks of synchronising it
on assignment; such a user's condo may belong to none of their units, and later saves of the user
fail. A users form that changes role only, the unit staying the same, does not change ownership.
A form that changes condo and unit together fails when the condo disagrees with the old units.
An answered invitation can be answered again.

`InvitationTxn`: a request is a record `req[w]` with the status `was` that it read. Its steps are
`join` (the uniqueness validation), `insert` (the INSERT into `unit_members`, which waits for an
uncommitted one of the same place and then fails), `check` (the validation against other pending
invitations), `write` (INSERT or UPDATE of the invitation; an UPDATE only when the status differs
from the one read, and then with the row lock), `commit`, and for a refusal `notify`, since
`decline!` has no transaction around its notification. `AddMember` and `RemoveMember` are the
single statements of the owner or an admin. `Crash` kills a worker anywhere. History: `raced` (pairs
of invitations whose creations overlapped), `contested` (invitations with overlapping answers, or
with an answer whose notification was lost).

`NotificationChannels`:

- `subs` counts `consumer.subscriptions` by the script that made the object and the kind of notice
  it asks for, `handles` is what `NotificationManager` holds, `pending` what the consumer's
  subscription guarantor asks for again. `conn` is the connection with the role it was opened by,
  `streams` what the server streams over it. `commands` and `inbox` count what is under way in each
  direction: both ends run what they receive on pools, so they keep no order.
- `RunScript` is the load of `channels/index.js` or of the layout's script; `Subscribe` and
  `UnsubscribeAll` are the manager's methods, which any code of the page may call; `Received` shows
  the message in one toast per object. `Subscribed` is `AdminNotificationChannel#subscribed` with
  its rejection; a channel whose class does not exist is passed over, and the user channel that pages ask
  for is one (`ChannelOf` against `ServerChannel`).
- `Connect`, `Refuse`, `Close`, `Retry`, and the handling of confirmations and rejections are those
  of Action Cable, external to the repository.
- Which scripts a page runs is the constant `Script`, since it depends on how the page is built. As
  deployed it is the layout's script alone: `application.js:7` imports `./channels` by a
  relative path, which `config/importmap.rb` pins under another name, and nothing imports
  `notification_manager.js`; what the run `notices` shows of these two holds of a page that loads them.
  The page `/notifications/test` (`notifications/test.html.erb:33-71`) has a second
  script, like the layout's, which is left out: Turbo runs it again at each visit, and what it receives
  it shows in a dialog. The element `#notification-bell-count` is on no page, so the count of
  the bell is not modelled.
- The layout subscribes in a listener of `DOMContentLoaded` (`application.html.erb:40`). After a sign-in
  through Turbo that event is over, so the script subscribes to nothing until the page is loaded again; `RunScript`
  is the listener, not the load of the module.

Worth knowing: the server asks a `current_user` loaded when the connection was opened, so an
administrator who is demoted or signs out goes on receiving alerts while the page is open. Two objects that
ask for the same channel get one confirmation; if the second command comes after it, the consumer
repeats the command as long as the connection lasts (the layout's script and the one of the test page can get there). A manager whose subscription was rejected takes itself for
subscribed until `unsubscribeAll`.

## 3. Runs

| Run | Question | Result |
|---|---|---|
| `bookings_serial` | Two facilities, two bookings, two slots, moves and destructions of users allowed: what can the workflow do to slots, references and messages when requests come one at a time? | holds |
| `bookings_no_double_booking` | README.md:68, no two active bookings on a slot | refuted |
| `bookings_within_schedule` | README.md:67, a booking falls within the schedule | refuted |
| `txn_two_workers` | Two workers, kills, facilities and users destroyed with their bookings: what can go wrong only when requests overlap, who can be in a deadlock, and what is left behind? | holds |
| `txn_refines_bookings` | Do the statements of a request add up to the atomic request? | holds |
| `txn_lost_restore` | README.md:70, the slots of a refused booking are restored | refuted |
| `txn_conflicts_stay` | README.md:71, the job resolves conflicts | refuted |
| `schedule_hash` | Are the hashes of lists the sets the other modules take them for? | holds |
| `residency` | Do the forms and cascades keep users, units, members and invitations consistent? | holds |
| `invitations` | What can overlapping invitations and answers, killed anywhere, do? | holds |
| `notices` | Are scripts served, and shown what they should be, through lost connections and messages out of order? | holds |
| `notices_reach_users` | README.md:9, real-time notifications reach users | refuted |

What they show:

- `bookings_serial`: every booking has its facility and its owner (`FacilityAndOwnerExist`); a refused booking's owner was
  last told so (`RefusalsAreTold`); two active bookings share a slot only if one was reopened
  (`ClashesAreReopened`); no slot is lost by the workflow (`SlotsNeverLost`), none comes from
  nowhere (`SlotsHaveAnOrigin`), and a slot becomes both booked and on offer only for the listed
  causes (`DoubtHasACause`).
- `txn_two_workers`: a double booking without a reopened row needs two creations that overlap in
  time (`ClashesNeedARace`); what a request read is still true when it commits unless another
  request worked on the facility meanwhile (`UndisturbedReadsAreFresh`); the owner's last message
  agrees with the refusal unless requests overlapped (`RefusalsAreToldInTurn`); slots are lost only
  then (`SlotsLostOnlyWhenDisturbed`), whatever statement a request is killed at. Requests wait for
  each other in a circle only when one of them destroys a facility or a user
  (`DeadlocksNeedADestruction`). The requests about one booking lock it first and its facility second; a
  destruction of several holds the facility of one (`booking.rb:135`) while it goes on to the row of the next, and
  meets a status update there. Such a destruction leaves no booking behind (`NoBookingIsLeftBehind`), though it
  deletes only those it loaded at the start, and the destruction of a user loses no slot of a
  facility on which nothing overlapped with it, though it rewrites one schedule several times.
- `txn_refines_bookings`: with one worker `BookingTxn` implements `Bookings` (`AtomicSpec`) with
  every status, with schedules edited in between and facilities and users destroyed. `View` counts a
  notification that follows the commit as sent, so this run has no kills.
- `schedule_hash`: taking, restoring and form parsing on the hash agree with the set operations
  (`HashIsSet`), and so does the overlap validation (`OverlapsAgree`). The hours validation accepts nothing that its
  set form refuses, and all it accepts where neither the booking nor the schedule has a day without times
  (`HoursAgree`). `booking.rb:34` lets a booking name such a day; giving it back is the one way by which an empty
  day comes into a schedule (`EmptyDaysAreGivenBack`): a day goes with its last time, which the `present?` test relies
  on. A restored day is sorted and free of duplicates (`DaysAreTidied`).
- `residency`: memberships, owners and invitations name only rows that exist (`NothingDangles`); a
  user who is saved agrees with the units they then have (`SavedUsersAgree`); who moves from a unit to
  another has left all others and owns nothing else (`MovesAreComplete`).
- `invitations`: twin pending invitations need overlapping creations (`TwinsNeedARace`), after
  which each blocks the other's answers; an invitation becomes accepted in the very step that makes
  its recipient a member (`AcceptingJoins`), and who joins leaves it accepted unless answers overlapped
  (`JoinsAreAccepted`); the sender knows the answer unless answers overlapped or the process died
  before the notification (`SendersKnowTheAnswer`); every request ends (`RequestsEnd`).
- `notices`: what the page takes for confirmed is streamed to it as long as the connection lasts,
  unless the page gave the channel up (`ConfirmedIsServed`); a message makes one toast per script
  (`OneToastPerScript`); nothing is shown for the manager after `unsubscribeAll`, with messages under way
  (`SilentWhenUnsubscribed`); alerts are shown only over a connection an administrator opened, through any
  reconnections (`AlertsForAdmins`); an administrator's page whose script has subscribed is served in the
  end, unless the connection is lost first or the page gives up (`AdminsAreServed`).

### Bounds

Two bookings are the least that clash, and a third adds no relation between rows that two do not
have: every property speaks of one or two bookings and a slot. Two slots let a booking claim part
of a schedule and let the hours validation fail on one of them; runs whose question is about one
slot have one. Two workers give every pairwise overlap. The users are one of each kind of
authority: the super admin (for whom the facility is loaded late) and the operation admin (early),
plus a resident where the policy of owners matters. `Sent` limits the statuses a PATCH asks for and `Asked` the sets of
slots that are booked in the larger runs: `txn_two_workers` has one slot, on which a request without
slots would do nothing, and `txn_refines_bookings` and `txn_lost_restore` have bookings without slots as well. In
`txn_two_workers` a destruction starts only while no facility is disturbed (`DestroysUndisturbed`, an action
constraint): it can overlap with whatever is under way then or starts later, but not follow an earlier overlap or
kill on the facility; the theorems about this run's properties have no such bound. With one facility and two bookings, the destruction of the
operation admin who made both is under way between them while the other worker has the second one. There are no counters: ids are reused once no request or job knows them. Symmetry
is over ids, slots and workers, none of which the specifications tell apart, and is not used in the
runs of liveness.

`residency` has two users (the seeded super admin, who can do all that needs authority, and another;
each can be made a house owner), two units and two condos, so that a user can move, own a unit and
live in the other, or have a condo that fits one unit and not the other; one invitation is enough
to name a user or unit that is to be destroyed. `invitations` has one place, since no guard or
property relates two, two invitations and two workers, with an owner's additions and removals
besides: every pairwise overlap of creations and answers.

`notices` has the two scripts that can hold subscriptions at once, two commands of a sort under way
(so that a subscribe and its retry, or the subscribes of both scripts, meet an unsubscribe), one
answer of a sort (answers to a kind are not told apart, and a message can still come before or
after a confirmation) and two toasts per script. An action that would pass a bound waits.

`schedule_hash` takes two days, the lists of times of its MC module (none, one, two, out of order, repeated) and
forms of up to three rows, which include blank rows, repeated days and repeated times.

### Fairness

`FairSpec`, of `BookingTxn` and `InvitationTxn`, asks for strong fairness of each worker's `Step`: PostgreSQL queues the waiters of a row
lock (and of a unique index entry), so a statement that is enabled again and again is executed. In
`BookingTxn` it also asks for weak fairness of `Abort`, since the deadlock detector looks after a second, and of the conflict
job, which Sidekiq runs once it is queued. No request has to start. `BookingExpirationJob` has no fairness: the
`:schedule:` of `config/sidekiq.yml` is read by a scheduler gem that the Gemfile does not name.

In `NotificationChannels` it asks for weak fairness of `Retry`, which a timer of the consumer calls, and
of the handling of confirmations and rejections by the page, and strong fairness of the execution of
commands by the server (the bound on answers may disable it for a time). Nobody has to broadcast, to
call the manager or to keep a connection open.

## 4. Proofs

`BookingsProofs`, for any sets of bookings, facilities, slots, condos and users:

- `TypeCorrect`: `Spec => []TypeOK`;
- `ReferencesHold`: `Spec => []FacilityAndOwnerExist`;
- `RefusalsReachTheOwner`: `Spec => []RefusalsAreTold`;
- `DoubleBookingsAreReopened`: `Spec => []ClashesAreReopened`;
- `NoSlotIsLost`: `Spec => SlotsNeverLost`;
- `SlotsComeFromBookings`: `Spec => SlotsHaveAnOrigin`;
- `DoubtsHaveCauses`: `Spec => DoubtHasACause`.

The assumptions are those of the modules: `UserAssumption` (roles and condos of users are what the
schema allows), `NoRowAssumption` (`NoRow` is no row), `MayMoveAssumption`. The inductive invariant
is `Sound == TypeOK /\ FacilityAndOwnerExist`: types alone are not inductive, since the callbacks write the row of
the booking's facility, which has to exist. Two actions change most of what matters, so there is one lemma
per action, and the others follow. `RefusalsAreTold` and `ClashesAreReopened` are inductive on top of
`Sound`. For the second, the overlap validation of a new booking says that its slots are disjoint
from all that active bookings of the facility hold; a row that becomes active or changes facility
is reopened by definition, and every other step keeps or drops holders.
The two about origins follow from what a step does to one slot: it comes to be held by a booking that
held it, was moved or revived, or took it from the schedule (`HeldHasAnOrigin`), and comes on offer
when a booking that held it lets go, moves, or is destroyed after its refusal (`OfferHasAnOrigin`).

`ResidencyProofs`, for any sets of users, units, condos and invitations, any roles the forms give, under
`ResidencyAssumption`: `TypeCorrect`, `ReferencesHold` (`NothingDangles`), `SavingAgrees`
(`SavedUsersAgree`) and `MovingCompletes` (`MovesAreComplete`). The inductive invariant is
`TypeOK /\ NothingDangles`: the cascades read units and users through each other's columns, so types
need the references, and a new user agrees with their only unit because no membership of an
earlier row with that id is left. `GiveUpUnits` and `GiveUnitUnits` say what the two rewritings of
the units table do, row by row; `MoveRows` composes them for the one outcome that moves a user.

`InvitationProofs`, for any numbers of places, invitations and workers, with or without kills, under
`InvitationAssumption`: `TypeCorrect`, `AcceptanceJoins`, `TwinsAreRaced`, `SendersAreInformed` and
`JoiningAccepts`. All rest on `Sound`: types, each request at a step that its kind has, new
invitations known to their creator alone, answers about rows that exist. On top of it stand three
inductive invariants, one per argument:
- `PlacesAreHeldOnce`: at most one uncommitted membership per place, and none where a row is committed
  (what the unique index does), which gives `AcceptingJoins`;
- `RacesAreKnown`: any two requests that are inviting race each other, and one past its validation
  races every invitation pending in spite of it, which gives `TwinsNeedARace`;
- `AnswersAreKnown`: an uncontested invitation has at most one request at work on it, that request's
  `was` is still the status, and the sender knows the status or is about to be told, which gives
  `SendersKnowTheAnswer` and `JoinsAreAccepted`.

`BookingTxnProofs`, for any numbers of workers, bookings, facilities and slots, with or without kills and
destructions, under `TxnAssumption`: `TypeCorrect`, `NothingIsLeftBehind` (`NoBookingIsLeftBehind`)
and `DeadlocksAreDestructions` (`DeadlocksNeedADestruction`). Types alone are not inductive: a
request reads columns of the facility of a booking, which has to exist. `Sound` adds `NoBookingIsLeftBehind`;
`RowsAreAtHand` (creations insert instead of locking, a destruction is at one of the
bookings it loaded, and that of a user at its facility: `Packed`); and `KeysAreKept`: the facility and the owner of a row that
was inserted and not committed exist, and no other request has deleted one. The last is what the lock conflicts of
`Waits` give: an insertion waits
for a deleted facility or user (`InsertingKeepsSound`), a deletion for the keys of an inserted row
(`DeletingKeepsSound`). A destruction commits when no booking outside of its own names the facility or user,
and by `KeysAreKept` none can be committed later. Most steps neither insert nor delete, and
`StepKeepsSound` covers them. The theorem about deadlocks needs types alone: where nobody destroys
a facility or a user, waiting goes from `row` to `schedule` to `commit`, where nobody waits (`WaitsGoUp`).

The second half of the module proves `ReadsAreFresh` (`UndisturbedReadsAreFresh`). What a request holds can only
be made stale by another request, so the invariant `Order` says whom it can meet: the id of a
creation is known to nobody else (`NewIdsAreOwn`), a facility that is not disturbed has at most one
request at work on it (`OneAtWork`), and the rows that a request may write are at its own facility
(`RowsAreWhereTheyWere`). A commit then writes one facility and the rows its request is about
(`CommitsWriteTheirOwn`), and leaves what is at work elsewhere as it was (`OthersStayFresh`).

`BookingTxnOutcomeProofs` has what requests leave behind, in three parts. The first proves `ClashesAreRaces`
(`ClashesNeedARace`). Its invariant `Checked` says that
creations under way together race each other (`RacesAreNoted`), under ids of their own that no row
has (`NewIdsAreFree`); that what a creation has checked is free but for races and reopened rows
(`ChecksCount`); and that what is inserted is checked (`InsertedIsChecked`). Three steps matter, the start, one query
and the commit of a creation; all others are covered by `SettlingKeepsChecked`.

The second proves `SlotsAreSafe` (`SlotsLostOnlyWhenDisturbed`) under the assumption
`MayEdit = FALSE`: a form that is saved takes slots from the schedule as it pleases. Besides fresh reads it needs
that a request which stores a schedule has read it, that a creation makes a pending booking, and that an
expiration does nothing but approve (`RequestsAreReady`); and that the destruction of a user has in its drafts, of a
facility that is not disturbed, what the facility offers and the slots of all it has destroyed there
(`DraftsAreFresh`). Each commit then has a lemma of its own, by the criterion
`ClaimsKeepSlots`: a schedule gives up only slots that are booked, a booking only slots that are on offer.

The third proves `RefusalsReachTheOwner` (`RefusalsAreToldInTurn`), with kills and destructions. The property is
not inductive: it says nothing while a request is at work. `TellersAreAtWork` says that a
refusal of which the owner was not told belongs to a request that has committed and has still to notify;
`NoticesAreTrue`, that what such a request will say is what the row says. A commit
changes one row (`CommitsChangeOneRow`) whose status was the one read, and makes its own request the teller; nobody
else can be about that row, as `OneAtWork` says; a kill between commit and notification disturbs the facility.

`BookingTxnRefinementProofs` proves the refinement, `OneWorkerIsAtomic`: `Spec => AtomicSpec` for any bookings,
facilities, slots and users, with schedules edited and facilities and users destroyed in between, under two assumptions
on constants: workers are equal to each other, and `MayCrash = FALSE`. Neither can be dropped: two workers double-book without
reopening a row, which no behaviour of `Bookings` does, and a killed one leaves an owner untold. The
atomic request happens at the commit. Its guards were evaluated statements earlier, so the invariant
`Prompt` says for a request before its commit that each guard that was met still holds (`Ready`): the checked slots are free and
within the hours, a user with the authority exists, the rows of an expiration still to be saved are pending, a destruction
has met or has still to meet each booking of its facility or user, the drafts of a departure are the schedules
with what its destroyed bookings give back (`Accounted`), and no facility is disturbed. Before and after the commit
a statement leaves `View` as it is (`StatementsStutter`; `NotificationStutters`, since `View` has counted the notification
since the commit). There is one lemma per kind of commit (`CreationIsAtomic`, `UpdateIsAtomic`, `ExpirationIsAtomic`,
`DestroyIsAtomic`, `RazeIsAtomic`, `LeaveIsAtomic`) and one for the facility forms (`FormsAreAtomic`). So what
`BookingsProofs` shows of atomic requests holds of the transactions of one thread.

`NotificationProofs`, for any scripts and bounds, under `ChannelsAssumption`: `TypeCorrect`,
`ConfirmationsHold` (`ConfirmedIsServed`), `ToastsAreSingle` (`OneToastPerScript`), `ManagerFallsSilent`
(`SilentWhenUnsubscribed`) and `AlertsStayWithAdmins` (`AlertsForAdmins`). Its `Sound` has, besides types,
that nothing is streamed or under way where no connection is open (`ClosedIsEmpty`); that a script has at most one
object of a kind, the manager's being one it holds (`ObjectsAreSingle`); that alerts are streamed or under way on a connection of
an administrator alone (`AlertsInHand`); and that a confirmation under way, or a subscription that is no longer asked for, stands
for a stream, unless the page gave it up (`ConfirmationsStand`).

`ScheduleHashProofs`, for any days, times, lists and forms under `HashAssumption`: `TypeCorrect`, `HashesAreSets` (`HashIsSet`),
`OverlapsAreFound` (`OverlapsAgree`), `DaysAreInOrder` (`DaysAreTidied`), `EmptyDaysAreGiven` (`EmptyDaysAreGivenBack`) and
`HoursAreChecked` (`HoursAgree`), the empty list being one of the lists.
The inductive invariant is `Agreement == TypeOK /\ HashIsSet`. One lemma
per operation says what it computes (`RemovingFacts`, `RestoringFacts`, `BuildingFacts`). Sorting and selecting are defined by
`CHOOSE`, not recursively, and the proofs need no induction over lists: a list can be put in order because the number
of positions that do not come after a position, ties broken by position, numbers them without repetition (`SortingExists`), and
selecting follows the ascending list of the positions it keeps (`AmongFacts`).

Only model-checked: liveness (`RequestsEnd`, `AdminsAreServed`), which needs fairness and `ENABLED` and is out of reach of the
prover. All other properties of the passing runs are theorems: the invariants and actions under the
assumptions named above, the refinement for one worker that is not killed.

## 5. What the code does not keep

The runs that end in a violation check a sentence of the application's README.

1. `NoDoubleBooking`: a rejected booking whose slot was booked again can be approved; the overlap
   check skips persisted rows.
2. `BookedWithinSchedule`: when the last slot of a facility is booked, or it is created with none, its schedule
   is `{}`, and the hours check is skipped for the next booking.
3. `RefusedSlotsAreKnown`: a request that read the schedule before a refusal committed writes it back
   without the restored slots.
4. `ConflictsAreResolved`: two creations pass the overlap check at the same time, and the job that
   re-checks only logs.
5. `UsersAreServed`: pages subscribe to `NotificationChannel`; the class is `NotificationsChannel`.

One more needs no run: README.md:64 says that the user may cancel a booking, and
`booking_policy.rb` compares `status` with the array `%w["pending", "approved"]`, which is never
equal to a string; the owner of a booking can do nothing that ends it (`BookingDestroy` in `Policies`).

## 6. Not modelled, and why

- Devise, rendering, `hello_controller.js` (generated scaffolding), `tailwind.config.js`, the service worker (all of it
  comments) and deployment files keep no state that these properties speak of.
- `approved_by`, purposes, names and formatting are data that no property tells apart. The age of
  pending bookings is left open (any pending booking may be expired), which admits all the code does.
- The moves of bookings are atomic only (`Bookings`), as are requests on users and units (`Residency`).
  Concurrent edits of a facility's condo are left out of `BookingTxn`.
- Of the destruction of a user, `BookingTxn` has the bookings, which share rows with other requests. Memberships, units and
  notifications of the user are not in it, nor are the bookings the user approved: their `approved_by_id` is set to
  NULL (`user.rb:18`), which waits for the lock of a booking row, and whoever waits for that UPDATE waits for a destruction of a
  user. So a circle with such a wait has a destruction in it, as `DeadlocksNeedADestruction` says. The same goes for the
  foreign key of `approved_by_id`, which a PATCH checks: it waits for the destruction of the approver alone.
- In `Residency` condos are constant and the bookings (see `Bookings`) and notifications destroyed with a user are left
  out. The destruction of a condo is a cascade over units and facilities that its users block.
  `InvitationTxn` has no destruction of units and users under way.
- The toasts of `NotificationChannels` are counted; their contents, and the five or seven seconds they
  stay, are not. Several pages of a browser share nothing but the cookie, so one page is modelled.
  The order of a broadcast and the commit it announces (`unit_member_request.rb:49`) is not: no page
  receives those broadcasts.

## 7. What could follow

1. Destruction of units and condos statement by statement, with the foreign keys and lock
   order, as `BookingTxn` has it for facilities and users; moves of bookings there.
2. Forms that carry a stale condo; policy scopes against `show?`.
3. Proofs: the refinement for several workers whose facilities stay undisturbed.
