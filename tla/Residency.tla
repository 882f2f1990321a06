----------------------------- MODULE Residency -----------------------------
(***************************************************************************)
(* Who lives where: users with their role and condo, units with their      *)
(* condo and house owner, the members of each unit, and the invitations    *)
(* (unit_member_requests) by which members join.  Each controller action   *)
(* (with the validations and cascades it sets off) is one atomic step;     *)
(* InvitationTxn takes the invitations apart.                              *)
(*                                                                         *)
(* Condos neither come nor go, and the bookings and notifications that the *)
(* destruction of a user takes along are left out.                         *)
(***************************************************************************)
EXTENDS Policies

CONSTANTS
  User,         \* ids of users
  Unit,         \* ids of units
  Condo,        \* ids of condos
  Invitation,   \* ids of rows of unit_member_requests
  GivenRole,    \* the roles that users are given (any may be)
  Seeded,       \* the super admin that db/seeds.rb creates
  NoCondo,      \* a user without condo
  NoUnit,       \* a users form with no unit chosen
  NoUser,       \* a unit without house owner
  NoRow         \* stands for a row that does not exist

VARIABLES
  users,        \* the row of each user, or NoRow
  units,        \* the row of each unit, or NoRow
  members,      \* pairs <<unit, user>>: the rows of unit_members
  invitations   \* the row of each invitation, or NoRow

vars == <<users, units, members, invitations>>

InvitationStatus == {"pending", "accepted", "declined"}

UserRow == [role : Role, condo : Condo \cup {NoCondo}]
UnitRow == [condo : Condo, owner : User \cup {NoUser}]
InvitationRow == [unit : Unit, sender : User, recipient : User,
                  status : InvitationStatus]

ASSUME ResidencyAssumption ==
  /\ GivenRole \subseteq Role /\ Seeded \in User
  /\ NoCondo \notin Condo /\ NoUnit \notin Unit /\ NoUser \notin User
  /\ NoRow \notin UserRow \cup UnitRow \cup InvitationRow

TypeOK ==
  /\ users \in [User -> UserRow \cup {NoRow}]
  /\ units \in [Unit -> UnitRow \cup {NoRow}]
  /\ members \subseteq Unit \X User
  /\ invitations \in [Invitation -> InvitationRow \cup {NoRow}]

UserExists(u) == users[u] # NoRow
UnitExists(n) == units[n] # NoRow
Sent(i) == invitations[i] # NoRow

Account(u) == [id |-> u, role |-> users[u].role, condo |-> users[u].condo]

HomesOf(u) == {n \in Unit : <<n, u>> \in members}

OwnedBy(u) == {n \in Unit : UnitExists(n) /\ units[n].owner = u}

(* Is invitation i pending for user r and unit n? *)
PendingFor(i, n, r) ==
  /\ Sent(i) /\ invitations[i].status = "pending"
  /\ invitations[i].unit = n /\ invitations[i].recipient = r
-----------------------------------------------------------------------------
(* Faulty variants (see BookingStore) *)
FormCondo(c, n) == c
UnitAsCondo(c, n) == IF n = NoUnit THEN c ELSE n
KeepsUnits(u) == units
NobodyAsks(ns, us) == TRUE
-----------------------------------------------------------------------------
(* User#condo_consistency_with_units, for user u with condo c: one unit in  *)
(* the condo is enough.                                                     *)
CondoAgrees(u, c) ==
  c = NoCondo \/ HomesOf(u) = {} \/ \E n \in HomesOf(u) : units[n].condo = c

(* The condo of a user who is assigned unit n with a form that says c. *)
SyncedCondo(c, n) == IF n = NoUnit THEN c ELSE units[n].condo

(* The unit n of a users form goes to u when the form makes u a house owner *)
(* (given: the units as they are before).                                   *)
GiveUnit(n, u, role, given) ==
  [m \in Unit |-> IF m = n /\ role = "house_owner"
                  THEN [given[m] EXCEPT !.owner = u] ELSE given[m]]

(* Unit.where(house_owner: u).update_all(house_owner_id: nil) *)
GiveUp(u) ==
  [m \in Unit |-> IF m \in OwnedBy(u) THEN [units[m] EXCEPT !.owner = NoUser]
                                      ELSE units[m]]

(* UnitMemberRequest#no_existing_pending_request, among the invitations I *)
NonePending(n, r, I) == \A i \in I : ~PendingFor(i, n, r)

(* The foreign keys of unit_member_requests: no row names a unit of ns or a *)
(* user of us.                                                              *)
Unnamed(ns, us) ==
  \A i \in Invitation : Sent(i) => /\ invitations[i].unit \notin ns
                                   /\ invitations[i].sender \notin us
                                   /\ invitations[i].recipient \notin us

(* has_many :unit_members, dependent: :destroy, of the units ns and users us *)
WithoutMembers(ns, us) == {m \in members : m[1] \notin ns /\ m[2] \notin us}
-----------------------------------------------------------------------------
(* Sign-up takes a role and a condo (the form's hidden field says           *)
(* house_member, but the parameter is permitted as it comes).               *)
Register(u, role, c) ==
  /\ ~UserExists(u)
  /\ users' = [users EXCEPT ![u] = [role |-> role, condo |-> c]]
  /\ UNCHANGED <<units, members, invitations>>

(* The registration page of one's own account: the role may come along, the *)
(* condo may not, and is validated as it is.                                *)
UpdateAccount(u, role) ==
  /\ CondoAgrees(u, users[u].condo)
  /\ users' = [users EXCEPT ![u].role = role]
  /\ UNCHANGED <<units, members, invitations>>

CreateUser(a, u, role, c, n) ==
  /\ UserCreate(Account(a)) /\ ~UserExists(u)
  /\ n # NoUnit => UnitExists(n)
  /\ users' = [users EXCEPT ![u] = [role |-> role, condo |-> SyncedCondo(c, n)]]
  /\ members' = members \cup (({n} \ {NoUnit}) \X {u})
  /\ units' = GiveUnit(n, u, role, units)
  /\ UNCHANGED invitations

(* PATCH of a user: role and condo are saved, and validated against the     *)
(* units the user has, before the unit of the form is looked at.  With      *)
(* several units, any may be the one the code calls the current one (the    *)
(* first by its random id).                                                 *)
UpdateUser(a, u, role, c, n) ==
  /\ UserExists(u) /\ UserUpdate(Account(a), u, users[u].condo)
  /\ CondoAgrees(u, c)
  /\ n # NoUnit => UnitExists(n)
  /\ UNCHANGED invitations
  /\ \/ /\ n \in HomesOf(u) \/ (n = NoUnit /\ HomesOf(u) = {})
        /\ users' = [users EXCEPT ![u] = [role |-> role, condo |-> c]]
        /\ UNCHANGED <<units, members>>
     \/ /\ n # NoUnit /\ HomesOf(u) # {n}
        /\ users' = [users EXCEPT ![u] =
                       [role |-> role, condo |-> SyncedCondo(c, n)]]
        /\ members' = WithoutMembers({}, {u}) \cup {<<n, u>>}
        /\ units' = GiveUnit(n, u, role, GiveUp(u))
     \/ /\ n = NoUnit /\ HomesOf(u) # {}
        /\ users' = [users EXCEPT ![u] = [role |-> role, condo |-> c]]
        /\ members' = WithoutMembers({}, {u})
        /\ units' = GiveUp(u)

(* The units that the user owns go as well, with their members.  An         *)
(* invitation that names one of them makes the whole request fail.          *)
RemoveUser(u) ==
  /\ UserExists(u) /\ Unnamed(OwnedBy(u), {u})
  /\ users' = [users EXCEPT ![u] = NoRow]
  /\ units' = [n \in Unit |-> IF n \in OwnedBy(u) THEN NoRow ELSE units[n]]
  /\ members' = WithoutMembers(OwnedBy(u), {u})
  /\ UNCHANGED invitations

DestroyUser(a, u) == UserDestroy(Account(a), u) /\ RemoveUser(u)

(* The button "Cancel my account" of the registration page. *)
CloseAccount(u) == RemoveUser(u)
-----------------------------------------------------------------------------
CreateUnit(a, n, c, o) ==
  /\ UnitCreate(Account(a)) /\ ~UnitExists(n)
  /\ o # NoUser => UserExists(o)
  /\ units' = [units EXCEPT ![n] = [condo |-> c, owner |-> o]]
  /\ UNCHANGED <<users, members, invitations>>

UpdateUnit(a, n, c, o) ==
  /\ UnitExists(n) /\ UnitUpdate(Account(a), units[n].condo, units[n].owner)
  /\ o # NoUser => UserExists(o)
  /\ units' = [units EXCEPT ![n] = [condo |-> c, owner |-> o]]
  /\ UNCHANGED <<users, members, invitations>>

DestroyUnit(a, n) ==
  /\ UnitExists(n) /\ UnitDestroy(Account(a)) /\ Unnamed({n}, {})
  /\ units' = [units EXCEPT ![n] = NoRow]
  /\ members' = WithoutMembers({n}, {})
  /\ UNCHANGED <<users, invitations>>

AddMember(a, n, u) ==
  /\ UnitExists(n) /\ UserExists(u)
  /\ UnitMemberChange(Account(a), units[n].owner)
  /\ <<n, u>> \notin members
  /\ members' = members \cup {<<n, u>>}
  /\ UNCHANGED <<users, units, invitations>>

RemoveMember(a, n, u) ==
  /\ <<n, u>> \in members /\ UnitMemberChange(Account(a), units[n].owner)
  /\ members' = members \ {<<n, u>>}
  /\ UNCHANGED <<users, units, invitations>>
-----------------------------------------------------------------------------
(* Nobody asks whether the recipient lives in the unit already. *)
Invite(a, i, n, r) ==
  /\ ~Sent(i) /\ UnitExists(n) /\ UserExists(r)
  /\ UnitUpdate(Account(a), units[n].condo, units[n].owner)
  /\ NonePending(n, r, Invitation)
  /\ invitations' = [invitations EXCEPT ![i] =
       [unit |-> n, sender |-> a, recipient |-> r, status |-> "pending"]]
  /\ UNCHANGED <<users, units, members>>

(* The status the invitation had does not matter, that of the other         *)
(* invitations of the recipient to the unit does.                           *)
Accept(a, i) ==
  LET r == invitations[i] IN
  /\ Sent(i) /\ a = r.recipient
  /\ <<r.unit, a>> \notin members
  /\ NonePending(r.unit, a, Invitation \ {i})
  /\ members' = members \cup {<<r.unit, a>>}
  /\ invitations' = [invitations EXCEPT ![i].status = "accepted"]
  /\ UNCHANGED <<users, units>>

Decline(a, i) ==
  LET r == invitations[i] IN
  /\ Sent(i) /\ a = r.recipient
  /\ NonePending(r.unit, a, Invitation \ {i})
  /\ invitations' = [invitations EXCEPT ![i].status = "declined"]
  /\ UNCHANGED <<users, units, members>>
-----------------------------------------------------------------------------
Init ==
  /\ users = [u \in User |-> IF u = Seeded
                             THEN [role |-> "super_admin", condo |-> NoCondo]
                             ELSE NoRow]
  /\ units = [n \in Unit |-> NoRow]
  /\ members = {}
  /\ invitations = [i \in Invitation |-> NoRow]

UserRequest(a) ==
  \E u \in User :
    \/ \E role \in GivenRole, c \in Condo \cup {NoCondo}, n \in Unit \cup {NoUnit} :
         CreateUser(a, u, role, c, n) \/ UpdateUser(a, u, role, c, n)
    \/ DestroyUser(a, u)

UnitRequest(a) ==
  \E n \in Unit :
    \/ \E c \in Condo, o \in User \cup {NoUser} :
         CreateUnit(a, n, c, o) \/ UpdateUnit(a, n, c, o)
    \/ DestroyUnit(a, n)
    \/ \E u \in User : AddMember(a, n, u) \/ RemoveMember(a, n, u)

InvitationRequest(a) ==
  \E i \in Invitation :
    \/ \E n \in Unit, r \in User : Invite(a, i, n, r)
    \/ Accept(a, i) \/ Decline(a, i)

AccountRequest(a) ==
  CloseAccount(a) \/ \E role \in GivenRole : UpdateAccount(a, role)

Next ==
  \/ \E a \in User : UserExists(a) /\
       (UserRequest(a) \/ UnitRequest(a) \/ InvitationRequest(a) \/ AccountRequest(a))
  \/ \E u \in User, role \in GivenRole, c \in Condo \cup {NoCondo} : Register(u, role, c)

Spec == Init /\ [][Next]_vars
-----------------------------------------------------------------------------
(* Whatever is destroyed, memberships, ownership and invitations name only  *)
(* users and units that exist: the cascades of User and Unit take along     *)
(* what they can, and the foreign keys refuse the rest.                     *)
NothingDangles ==
  /\ \A m \in members : UnitExists(m[1]) /\ UserExists(m[2])
  /\ \A n \in Unit :
       UnitExists(n) /\ units[n].owner # NoUser => UserExists(units[n].owner)
  /\ \A i \in Invitation :
       Sent(i) => /\ UnitExists(invitations[i].unit)
                  /\ UserExists(invitations[i].sender)
                  /\ UserExists(invitations[i].recipient)
-----------------------------------------------------------------------------
(* A request that saves a user leaves the user's condo in agreement with    *)
(* the units the user then has, however condo, unit and role were combined  *)
(* in the form.                                                             *)
SavedUsersAgree ==
  [][\A u \in User : UserExists(u)' /\ users'[u] # users[u]
                        => CondoAgrees(u, users[u].condo)']_vars

(* Who leaves one unit for another in one request (the users form) has left *)
(* all others, owns nothing but the new unit, and that only as a house      *)
(* owner.                                                                   *)
MovesAreComplete ==
  [][\A u \in User :
       HomesOf(u) \ HomesOf(u)' # {} /\ HomesOf(u)' \ HomesOf(u) # {} =>
         \E n \in Unit :
           /\ HomesOf(u)' = {n}
           /\ OwnedBy(u)' \subseteq {n}
           /\ OwnedBy(u)' # {} => users'[u].role = "house_owner"]_vars
=============================================================================
