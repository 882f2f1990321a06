--------------------------- MODULE InvitationTxn ---------------------------
(***************************************************************************)
(* Invitations to units (UnitMemberRequest) as the database sees them:     *)
(* requests to invite, accept and decline that interleave statement by     *)
(* statement at READ COMMITTED.                                            *)
(*                                                                         *)
(* All that the code asks of an invitation concerns its unit and its       *)
(* recipient together, so a place is such a pair: an invitation is to a    *)
(* place, and members is the set of places taken (the rows of unit_members,*)
(* with their unique index).  Who may invite and answer is in Residency.   *)
(***************************************************************************)
CONSTANTS
  Place,        \* pairs of a unit and a user
  Invitation,   \* ids of rows of unit_member_requests
  Worker,       \* threads that run requests
  NoRequest,    \* what an idle worker runs
  NoRow,        \* stands for a row that does not exist
  MayCrash      \* may a worker be killed in the middle of a request?

VARIABLES
  invitations,  \* the row of each invitation, or NoRow
  members,      \* the places with a unit_members row
  req,          \* the request each worker runs, or NoRequest
  raced,        \* history: pairs of invitations whose creations overlapped
  contested     \* history: invitations with overlapping answers, or with one
                \* whose notification was lost

history == <<raced, contested>>

vars == <<invitations, members, req, history>>

Status == {"pending", "accepted", "declined"}

(* told is the last answer that the sender was notified of. *)
InvitationRow == [place : Place, status : Status, told : Status]

(* was is the status that an answer read. *)
Request == [op : {"invite", "accept", "decline"},
            step : {"join", "insert", "check", "write", "commit", "notify"},
            invitation : Invitation, place : Place, was : Status]

ASSUME InvitationAssumption ==
  /\ NoRequest \notin Request /\ NoRow \notin InvitationRow
  /\ MayCrash \in BOOLEAN

TypeOK ==
  /\ invitations \in [Invitation -> InvitationRow \cup {NoRow}]
  /\ members \subseteq Place
  /\ req \in [Worker -> Request \cup {NoRequest}]
  /\ raced \subseteq SUBSET Invitation
  /\ contested \subseteq Invitation

Sent(i) == invitations[i] # NoRow

Pending(i, p) ==
  Sent(i) /\ invitations[i].place = p /\ invitations[i].status = "pending"

Twins(i, j) == i # j /\ \E p \in Place : Pending(i, p) /\ Pending(j, p)

Busy(w) == req[w] # NoRequest

At(w, step) == Busy(w) /\ req[w].step = step

(* Is w at work on invitation i, or still inviting with it? *)
Concerns(w, i) == Busy(w) /\ req[w].invitation = i

Inviting(w) == Busy(w) /\ req[w].op = "invite"
-----------------------------------------------------------------------------
(* Faulty variants (see BookingStore) *)
NeverOthers(r) == FALSE
NeverTaken(p) == FALSE
KeepsStatus(r, row) == row
UnknownAnswer(r) == IF r.op = "accept" THEN "accept" ELSE "decline"
-----------------------------------------------------------------------------
Answer(r) == IF r.op = "accept" THEN "accepted" ELSE "declined"

(* no_existing_pending_request: is another invitation to the place pending? *)
OthersPending(r) == \E j \in Invitation \ {r.invitation} : Pending(j, r.place)

(* An INSERT into unit_members that is not committed holds the entry of the *)
(* unique index, an UPDATE of an invitation its row.                        *)
HoldsPlace(w, p) ==
  /\ Busy(w) /\ req[w].op = "accept" /\ req[w].place = p
  /\ req[w].step \in {"check", "write", "commit"}

(* update! writes nothing when the status is the one it read. *)
Writes(r) == r.op # "invite" /\ r.was # Answer(r)

HoldsRow(w, i) == At(w, "commit") /\ Writes(req[w]) /\ req[w].invitation = i

Taken(p) == p \in members

Advance(w, step) == req' = [req EXCEPT ![w].step = step]

Finish(w) == req' = [req EXCEPT ![w] = NoRequest]
-----------------------------------------------------------------------------
(* POST /unit_member_requests *)
StartInvite(w, i, p) ==
  /\ ~Busy(w)
  /\ ~Sent(i) /\ \A v \in Worker : ~Concerns(v, i)
  /\ req' = [req EXCEPT ![w] = [op |-> "invite", step |-> "check",
                                invitation |-> i, place |-> p, was |-> "pending"]]
  /\ raced' = {q \in raced : i \notin q} \cup
              {{i, req[v].invitation} : v \in {x \in Worker : Inviting(x)}}
  /\ UNCHANGED <<invitations, members, contested>>

(* POST accept and decline read the row outside any transaction.  Neither   *)
(* looks at its status.                                                     *)
StartAnswer(w, i, op) ==
  /\ ~Busy(w) /\ Sent(i)
  /\ req' = [req EXCEPT ![w] =
       [op |-> op, step |-> IF op = "accept" THEN "join" ELSE "check",
        invitation |-> i, place |-> invitations[i].place,
        was |-> invitations[i].status]]
  /\ contested' = IF \E v \in Worker : Concerns(v, i)
                  THEN contested \cup {i} ELSE contested
  /\ UNCHANGED <<invitations, members, raced>>
-----------------------------------------------------------------------------
(* UnitMember.create!: the uniqueness validation is a query; the INSERT     *)
(* waits for an uncommitted one of the same place and fails once that one   *)
(* has been committed.                                                      *)
ValidatePlace(w) ==
  /\ At(w, "join")
  /\ IF Taken(req[w].place) THEN Finish(w) ELSE Advance(w, "insert")
  /\ UNCHANGED <<invitations, members, history>>

InsertMember(w) ==
  /\ At(w, "insert")
  /\ \A v \in Worker : ~HoldsPlace(v, req[w].place)
  /\ IF Taken(req[w].place) THEN Finish(w) ELSE Advance(w, "check")
  /\ UNCHANGED <<invitations, members, history>>

(* Faulty variant: the validation is tried again until it succeeds. *)
RetriesCheck(w) ==
  /\ At(w, "check")
  /\ IF OthersPending(req[w]) THEN UNCHANGED req ELSE Advance(w, "write")
  /\ UNCHANGED <<invitations, members, history>>

(* The validation of the invitation, which sees committed rows only; its    *)
(* failure rolls everything back.                                           *)
CheckOthers(w) ==
  /\ At(w, "check")
  /\ IF OthersPending(req[w]) THEN Finish(w) ELSE Advance(w, "write")
  /\ UNCHANGED <<invitations, members, history>>

(* INSERT or UPDATE of the invitation, by id, with no condition on status.  *)
WriteInvitation(w) ==
  LET r == req[w] IN
  /\ At(w, "write")
  /\ Writes(r) => \A v \in Worker : ~HoldsRow(v, r.invitation)
  /\ Advance(w, "commit")
  /\ UNCHANGED <<invitations, members, history>>
-----------------------------------------------------------------------------
CommitInvite(w) ==
  LET r == req[w] IN
  /\ At(w, "commit") /\ r.op = "invite"
  /\ invitations' = [invitations EXCEPT ![r.invitation] =
       [place |-> r.place, status |-> "pending", told |-> "pending"]]
  /\ Finish(w)
  /\ UNCHANGED <<members, history>>

Answered(r, row) ==
  [row EXCEPT !.status = IF Writes(r) THEN Answer(r) ELSE @]

(* accept! creates its notifications in the same transaction. *)
CommitAccept(w) ==
  LET r == req[w] IN
  /\ At(w, "commit") /\ r.op = "accept"
  /\ invitations' = [invitations EXCEPT
       ![r.invitation] = [Answered(r, @) EXCEPT !.told = "accepted"]]
  /\ members' = members \cup {r.place}
  /\ Finish(w)
  /\ UNCHANGED history

(* Faulty variant: nobody is told of a refusal. *)
DeclinesSilently(w) ==
  LET r == req[w] IN
  /\ At(w, "commit") /\ r.op = "decline"
  /\ invitations' = [invitations EXCEPT ![r.invitation] = Answered(r, @)]
  /\ Finish(w)
  /\ UNCHANGED <<members, history>>

(* decline! has no transaction around update! and its notifications. *)
CommitDecline(w) ==
  LET r == req[w] IN
  /\ At(w, "commit") /\ r.op = "decline"
  /\ invitations' = [invitations EXCEPT ![r.invitation] = Answered(r, @)]
  /\ Advance(w, "notify")
  /\ UNCHANGED <<members, history>>

NotifySender(w) ==
  /\ At(w, "notify")
  /\ invitations' = [invitations EXCEPT ![req[w].invitation].told = "declined"]
  /\ Finish(w)
  /\ UNCHANGED <<members, history>>

(* The worker is killed, or a notification cannot be created. *)
Crash(w) ==
  /\ MayCrash /\ Busy(w)
  /\ Finish(w)
  /\ contested' = IF At(w, "notify") THEN contested \cup {req[w].invitation}
                                     ELSE contested
  /\ UNCHANGED <<invitations, members, raced>>

(* A house owner or admin adds the member, with one INSERT, ... *)
AddMember(p) ==
  /\ ~Taken(p) /\ \A w \in Worker : ~HoldsPlace(w, p)
  /\ members' = members \cup {p}
  /\ UNCHANGED <<invitations, req, history>>

(* ... or removes one, with one DELETE. *)
RemoveMember(p) ==
  /\ p \in members
  /\ members' = members \ {p}
  /\ UNCHANGED <<invitations, req, history>>
-----------------------------------------------------------------------------
Init ==
  /\ invitations = [i \in Invitation |-> NoRow]
  /\ members = {}
  /\ req = [w \in Worker |-> NoRequest]
  /\ raced = {} /\ contested = {}

Start(w) ==
  \E i \in Invitation :
    \/ \E p \in Place : StartInvite(w, i, p)
    \/ \E op \in {"accept", "decline"} : StartAnswer(w, i, op)

Step(w) ==
  \/ ValidatePlace(w) \/ InsertMember(w) \/ CheckOthers(w) \/ WriteInvitation(w)
  \/ CommitInvite(w) \/ CommitAccept(w) \/ CommitDecline(w) \/ NotifySender(w)

Next ==
  \/ \E w \in Worker : Start(w) \/ Step(w) \/ Crash(w)
  \/ \E p \in Place : AddMember(p) \/ RemoveMember(p)

Spec == Init /\ [][Next]_vars

(* As in BookingTxn: waiters of a lock are served in turn. *)
FairSpec == Spec /\ \A w \in Worker : SF_vars(Step(w))
-----------------------------------------------------------------------------
(* Safety invariants *)

(* Two invitations of a user to a unit are pending together only when their *)
(* creations overlapped in time: the validation of new ones is a query with *)
(* no unique index behind it, but nothing else gets past it, and no answer  *)
(* makes an invitation pending again.                                       *)
TwinsNeedARace ==
  \A i, j \in Invitation : Twins(i, j) => {i, j} \in raced

(* When nobody is at work on an answered invitation, its sender was told    *)
(* the answer that stands, unless two answers overlapped or the             *)
(* notification of one was lost.                                            *)
SendersKnowTheAnswer ==
  \A i \in Invitation :
    /\ Sent(i) /\ i \notin contested
    /\ \A w \in Worker : ~Concerns(w, i)
    => invitations[i].told = invitations[i].status
-----------------------------------------------------------------------------
(* Action properties *)

(* An invitation becomes accepted in the very step that makes its recipient *)
(* a member, who was none: of all acceptances under way, by double clicks   *)
(* or of twin invitations, and of additions by the owner, the unique index  *)
(* lets one through.                                                        *)
AcceptingJoins ==
  [][\A i \in Invitation :
       Sent(i) /\ invitations[i].status # "accepted"
               /\ invitations'[i].status = "accepted" =>
         invitations[i].place \in members' \ members]_vars

(* A request of the recipient that makes them a member leaves an accepted   *)
(* invitation, unless another answer to it overlapped.                      *)
JoinsAreAccepted ==
  [][req' # req =>
       \A p \in members' \ members : \E i \in Invitation :
         /\ Sent(i) /\ invitations[i].place = p
         /\ invitations'[i].status = "accepted" \/ i \in contested]_vars

(* Every request ends: an acceptance locks the place before the invitation, *)
(* a refusal the invitation alone, and none waits for itself.               *)
RequestsEnd == \A w \in Worker : Busy(w) ~> ~Busy(w)
=============================================================================
