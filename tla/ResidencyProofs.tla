-------------------------- MODULE ResidencyProofs --------------------------
(***************************************************************************)
(* What holds of Residency for any sets of users, units, condos and        *)
(* invitations.                                                            *)
(***************************************************************************)
EXTENDS Residency, TLAPS

Sound == TypeOK /\ NothingDangles
-----------------------------------------------------------------------------
LEMMA InitSound == Init => Sound
  BY ResidencyAssumption
     DEF Init, Sound, TypeOK, NothingDangles, UserRow, Role, UnitExists, UserExists, Sent

(* Rows *)

LEMMA UnitFields ==
  ASSUME TypeOK, NEW n \in Unit, UnitExists(n)
  PROVE  /\ units[n] \in UnitRow
         /\ units[n].condo \in Condo /\ units[n].owner \in User \cup {NoUser}
  BY DEF TypeOK, UnitExists, UnitRow

LEMMA UserFields ==
  ASSUME TypeOK, NEW u \in User, UserExists(u)
  PROVE  /\ users[u] \in UserRow
         /\ users[u].role \in Role /\ users[u].condo \in Condo \cup {NoCondo}
  BY DEF TypeOK, UserExists, UserRow

LEMMA InvitationFields ==
  ASSUME TypeOK, NEW i \in Invitation, Sent(i)
  PROVE  /\ invitations[i] \in InvitationRow
         /\ invitations[i].unit \in Unit /\ invitations[i].sender \in User
         /\ invitations[i].recipient \in User
  BY DEF TypeOK, Sent, InvitationRow

(* A row is no NoRow. *)
LEMMA RowsExist ==
  /\ \A x \in UserRow : x # NoRow
  /\ \A x \in UnitRow : x # NoRow
  /\ \A x \in InvitationRow : x # NoRow
  BY ResidencyAssumption

(* What giving a unit to a user, and giving up units, does to the units.    *)
LEMMA GiveUpUnits ==
  ASSUME TypeOK, NEW u \in User
  PROVE  /\ GiveUp(u) \in [Unit -> UnitRow \cup {NoRow}]
         /\ \A m \in Unit :
              /\ GiveUp(u)[m] # NoRow <=> UnitExists(m)
              /\ UnitExists(m) =>
                   /\ GiveUp(u)[m].condo = units[m].condo
                   /\ GiveUp(u)[m].owner \in {units[m].owner, NoUser}
                   /\ GiveUp(u)[m].owner # u
<1>1. \A m \in OwnedBy(u) : [units[m] EXCEPT !.owner = NoUser] \in UnitRow
  BY UnitFields DEF OwnedBy, UnitRow
<1>2. GiveUp(u) \in [Unit -> UnitRow \cup {NoRow}]
  BY <1>1 DEF GiveUp, TypeOK
<1>3. ASSUME NEW m \in Unit, UnitExists(m)
      PROVE  /\ GiveUp(u)[m] # NoRow /\ GiveUp(u)[m].condo = units[m].condo
             /\ GiveUp(u)[m].owner \in {units[m].owner, NoUser} /\ GiveUp(u)[m].owner # u
  BY <1>1, <1>3, UnitFields, RowsExist, ResidencyAssumption DEF GiveUp, OwnedBy, UnitExists, UnitRow
<1>4. ASSUME NEW m \in Unit, ~UnitExists(m) PROVE GiveUp(u)[m] = NoRow
  BY <1>4 DEF GiveUp, OwnedBy, UnitExists
<1> QED
  BY <1>2, <1>3, <1>4

LEMMA GiveUnitUnits ==
  ASSUME NEW given \in [Unit -> UnitRow \cup {NoRow}], NEW u \in User, NEW role \in Role,
         NEW n \in Unit \cup {NoUnit}, n # NoUnit => given[n] # NoRow
  PROVE  /\ GiveUnit(n, u, role, given) \in [Unit -> UnitRow \cup {NoRow}]
         /\ \A m \in Unit :
              /\ GiveUnit(n, u, role, given)[m] # NoRow <=> given[m] # NoRow
              /\ given[m] # NoRow =>
                   /\ GiveUnit(n, u, role, given)[m].condo = given[m].condo
                   /\ GiveUnit(n, u, role, given)[m].owner =
                        IF m = n /\ role = "house_owner" THEN u ELSE given[m].owner
<1>1. \A m \in Unit : m = n => given[m] \in UnitRow
  BY ResidencyAssumption
<1>2. \A m \in Unit : m = n => [given[m] EXCEPT !.owner = u] \in UnitRow
  BY <1>1 DEF UnitRow
<1>3. GiveUnit(n, u, role, given) \in [Unit -> UnitRow \cup {NoRow}]
  BY <1>2 DEF GiveUnit
<1>4. ASSUME NEW m \in Unit
      PROVE  /\ GiveUnit(n, u, role, given)[m] # NoRow <=> given[m] # NoRow
             /\ given[m] # NoRow =>
                  /\ GiveUnit(n, u, role, given)[m].condo = given[m].condo
                  /\ GiveUnit(n, u, role, given)[m].owner =
                       IF m = n /\ role = "house_owner" THEN u ELSE given[m].owner
  BY <1>1, <1>2, RowsExist DEF GiveUnit, UnitRow
<1> QED
  BY <1>3, <1>4
-----------------------------------------------------------------------------
(* Nothing dangles *)

LEMMA RegisterIsSound ==
  ASSUME Sound, NEW u \in User, NEW role \in Role, NEW c \in Condo \cup {NoCondo},
         Register(u, role, c)
  PROVE  Sound'
<1>1. [role |-> role, condo |-> c] \in UserRow
  BY DEF UserRow
<1> QED
  BY <1>1, RowsExist
     DEF Register, Sound, TypeOK, NothingDangles, UserExists, UnitExists, Sent

LEMMA UpdateAccountIsSound ==
  ASSUME Sound, NEW u \in User, UserExists(u), NEW role \in Role, UpdateAccount(u, role)
  PROVE  Sound'
<1>1. users' = [users EXCEPT ![u] = [users[u] EXCEPT !.role = role]]
  BY DEF UpdateAccount
<1>2. [users[u] EXCEPT !.role = role] \in UserRow
  BY UserFields DEF UserRow, Sound
<1> QED
  BY <1>1, <1>2, RowsExist
     DEF UpdateAccount, Sound, TypeOK, NothingDangles, UserExists, UnitExists, Sent

(* Saving user u, who may take a unit over or give one up, leaves every     *)
(* reference good.                                                          *)
LEMMA SavingUserKeepsReferences ==
  ASSUME Sound, NEW u \in User, UserExists(u)',
         \A v \in User \ {u} : users'[v] = users[v],
         \A m \in Unit :
           /\ UnitExists(m)' <=> UnitExists(m)
           /\ UnitExists(m) => units'[m].owner \in {units[m].owner, u, NoUser},
         members' \subseteq members \cup {m \in Unit \X {u} : UnitExists(m[1])},
         invitations' = invitations
  PROVE  NothingDangles'
<1>1. \A v \in User : UserExists(v) => UserExists(v)'
  BY DEF UserExists
<1>2. ASSUME NEW m \in members' PROVE UnitExists(m[1])' /\ UserExists(m[2])'
  <2>1. CASE m \in members
    BY <1>1, <2>1 DEF Sound, TypeOK, NothingDangles
  <2>2. CASE m \in Unit \X {u} /\ UnitExists(m[1])
    BY <2>2
  <2> QED
    BY <1>2, <2>1, <2>2
<1>3. ASSUME NEW n \in Unit, UnitExists(n)', units'[n].owner # NoUser
      PROVE  UserExists(units[n].owner)'
  <2>1. UnitExists(n) /\ units[n].owner \in User \cup {NoUser}
    BY <1>3, UnitFields DEF Sound
  <2>2. CASE units'[n].owner = u
    BY <2>2 DEF UserExists
  <2>3. CASE units'[n].owner = units[n].owner
    <3>1. units[n].owner \in User /\ UserExists(units[n].owner)
      BY <1>3, <2>1, <2>3 DEF Sound, NothingDangles
    <3> QED
      BY <1>1, <2>3, <3>1 DEF UserExists
  <2> QED
    BY <1>3, <2>1, <2>2, <2>3
<1>4. ASSUME NEW i \in Invitation, Sent(i)
      PROVE  /\ UnitExists(invitations[i].unit)' /\ UserExists(invitations[i].sender)'
             /\ UserExists(invitations[i].recipient)'
  <2>1. /\ UnitExists(invitations[i].unit) /\ UserExists(invitations[i].sender)
        /\ UserExists(invitations[i].recipient)
        /\ invitations[i].unit \in Unit
        /\ invitations[i].sender \in User /\ invitations[i].recipient \in User
    BY <1>4, InvitationFields DEF Sound, NothingDangles
  <2> QED
    BY <1>1, <2>1 DEF UserExists, UnitExists
<1> QED
  BY <1>2, <1>3, <1>4 DEF NothingDangles, Sent

LEMMA CreateUserIsSound ==
  ASSUME Sound, NEW a \in User, NEW u \in User, NEW role \in Role,
         NEW c \in Condo \cup {NoCondo}, NEW n \in Unit \cup {NoUnit},
         CreateUser(a, u, role, c, n)
  PROVE  Sound'
<1>1. TypeOK /\ NothingDangles /\ (n # NoUnit => n \in Unit /\ UnitExists(n))
  BY DEF Sound, CreateUser
<1>2. SyncedCondo(c, n) \in Condo \cup {NoCondo}
  BY <1>1, UnitFields DEF SyncedCondo
<1>3. [role |-> role, condo |-> SyncedCondo(c, n)] \in UserRow
  BY <1>2 DEF UserRow
<1>4. /\ users' \in [User -> UserRow \cup {NoRow}] /\ UserExists(u)'
      /\ \A v \in User \ {u} : users'[v] = users[v]
  BY <1>1, <1>3, RowsExist DEF CreateUser, TypeOK, UserExists
<1>5. /\ units' \in [Unit -> UnitRow \cup {NoRow}]
      /\ \A m \in Unit : UnitExists(m)' <=> UnitExists(m)
      /\ \A m \in Unit : UnitExists(m) => units'[m].owner \in {units[m].owner, u}
  BY <1>1, GiveUnitUnits DEF CreateUser, TypeOK, UnitExists
<1>6. members' \subseteq members \cup {m \in Unit \X {u} : UnitExists(m[1])}
  BY <1>1 DEF CreateUser
<1>7. invitations' = invitations
  BY DEF CreateUser
<1>8. TypeOK'
  BY <1>1, <1>4, <1>5, <1>6, <1>7 DEF TypeOK
<1>9. NothingDangles'
  BY <1>4, <1>5, <1>6, <1>7, SavingUserKeepsReferences
<1> QED
  BY <1>8, <1>9 DEF Sound

(* The three outcomes of UpdateUser, in terms of rows. *)
LEMMA UpdateUserRows ==
  ASSUME Sound, NEW a \in User, NEW u \in User, NEW role \in Role,
         NEW c \in Condo \cup {NoCondo}, NEW n \in Unit \cup {NoUnit},
         UpdateUser(a, u, role, c, n)
  PROVE  /\ users' \in [User -> UserRow \cup {NoRow}]
         /\ UserExists(u) /\ UserExists(u)'
         /\ \A v \in User \ {u} : users'[v] = users[v]
         /\ units' \in [Unit -> UnitRow \cup {NoRow}]
         /\ \A m \in Unit :
              /\ UnitExists(m)' <=> UnitExists(m)
              /\ UnitExists(m) => /\ units'[m].condo = units[m].condo
                                  /\ units'[m].owner \in {units[m].owner, u, NoUser}
         /\ members' \subseteq members \cup {m \in Unit \X {u} : UnitExists(m[1])}
         /\ invitations' = invitations
<1>1. TypeOK /\ UserExists(u) /\ (n # NoUnit => n \in Unit /\ UnitExists(n))
      /\ invitations' = invitations
  BY DEF Sound, UpdateUser
<1>2. SyncedCondo(c, n) \in Condo \cup {NoCondo}
  BY <1>1, UnitFields DEF SyncedCondo
<1>3. /\ [role |-> role, condo |-> SyncedCondo(c, n)] \in UserRow
      /\ [role |-> role, condo |-> c] \in UserRow
  BY <1>2 DEF UserRow
<1>4. PICK r \in UserRow : users' = [users EXCEPT ![u] = r]
  BY <1>3 DEF UpdateUser
<1>5. /\ users' \in [User -> UserRow \cup {NoRow}] /\ UserExists(u)'
      /\ \A v \in User \ {u} : users'[v] = users[v]
  BY <1>1, <1>4, RowsExist DEF TypeOK, UserExists
<1>6. /\ GiveUp(u) \in [Unit -> UnitRow \cup {NoRow}]
      /\ \A m \in Unit :
           /\ GiveUp(u)[m] # NoRow <=> UnitExists(m)
           /\ UnitExists(m) => /\ GiveUp(u)[m].condo = units[m].condo
                               /\ GiveUp(u)[m].owner \in {units[m].owner, NoUser}
  BY <1>1, GiveUpUnits
<1>7. /\ units' \in [Unit -> UnitRow \cup {NoRow}]
      /\ \A m \in Unit :
           /\ UnitExists(m)' <=> UnitExists(m)
           /\ UnitExists(m) => /\ units'[m].condo = units[m].condo
                               /\ units'[m].owner \in {units[m].owner, u, NoUser}
  <2>1. CASE units' = units
    BY <1>1, <2>1 DEF TypeOK, UnitExists
  <2>2. CASE units' = GiveUp(u)
    BY <1>6, <2>2 DEF UnitExists
  <2>3. CASE units' = GiveUnit(n, u, role, GiveUp(u)) /\ n # NoUnit
    BY <1>1, <1>6, <2>3, GiveUnitUnits DEF UnitExists
  <2> QED
    BY <2>1, <2>2, <2>3 DEF UpdateUser
<1>8. members' \subseteq members \cup {m \in Unit \X {u} : UnitExists(m[1])}
  BY <1>1 DEF UpdateUser, WithoutMembers
<1> QED
  BY <1>1, <1>5, <1>7, <1>8

LEMMA UpdateUserIsSound ==
  ASSUME Sound, NEW a \in User, NEW u \in User, NEW role \in Role,
         NEW c \in Condo \cup {NoCondo}, NEW n \in Unit \cup {NoUnit},
         UpdateUser(a, u, role, c, n)
  PROVE  Sound'
<1>1. TypeOK'
  BY UpdateUserRows DEF TypeOK, Sound
<1>2. NothingDangles'
  BY UpdateUserRows, SavingUserKeepsReferences
<1> QED
  BY <1>1, <1>2 DEF Sound

LEMMA RemoveUserIsSound ==
  ASSUME Sound, NEW u \in User, RemoveUser(u)
  PROVE  Sound'
<1>1. /\ users' \in [User -> UserRow \cup {NoRow}]
      /\ \A v \in User \ {u} : users'[v] = users[v]
      /\ units' \in [Unit -> UnitRow \cup {NoRow}]
      /\ \A m \in Unit : IF m \in OwnedBy(u) THEN ~UnitExists(m)' ELSE units'[m] = units[m]
      /\ members' = WithoutMembers(OwnedBy(u), {u})
      /\ invitations' = invitations /\ Unnamed(OwnedBy(u), {u})
  BY DEF RemoveUser, Sound, TypeOK, UnitExists
<1>2. TypeOK'
  BY <1>1 DEF TypeOK, Sound, WithoutMembers
<1>3. \A m \in members' : UnitExists(m[1])' /\ UserExists(m[2])'
  BY <1>1 DEF Sound, TypeOK, NothingDangles, WithoutMembers, UserExists, UnitExists
<1>4. \A n \in Unit :
        UnitExists(n)' /\ units'[n].owner # NoUser => UserExists(units[n].owner)'
  <2> SUFFICES ASSUME NEW n \in Unit, UnitExists(n)', units'[n].owner # NoUser
               PROVE  UserExists(units[n].owner)'
    OBVIOUS
  <2>1. n \notin OwnedBy(u) /\ units'[n] = units[n] /\ UnitExists(n)
    BY <1>1 DEF UnitExists
  <2>2. units[n].owner \in User \ {u} /\ UserExists(units[n].owner)
    BY <2>1, UnitFields DEF OwnedBy, Sound, NothingDangles
  <2> QED
    BY <1>1, <2>1, <2>2 DEF UserExists
<1>5. \A i \in Invitation : Sent(i)' =>
        /\ UnitExists(invitations[i].unit)' /\ UserExists(invitations[i].sender)'
        /\ UserExists(invitations[i].recipient)'
  <2> SUFFICES ASSUME NEW i \in Invitation, Sent(i)
               PROVE  /\ UnitExists(invitations[i].unit)' /\ UserExists(invitations[i].sender)'
                      /\ UserExists(invitations[i].recipient)'
    BY <1>1 DEF Sent
  <2>1. /\ invitations[i].unit \in Unit \ OwnedBy(u)
        /\ invitations[i].sender \in User \ {u} /\ invitations[i].recipient \in User \ {u}
    BY <1>1, InvitationFields DEF Unnamed, Sound
  <2> QED
    BY <1>1, <2>1 DEF Sound, NothingDangles, UserExists, UnitExists
<1> QED
  BY <1>2, <1>3, <1>4, <1>5 DEF Sound, NothingDangles

LEMMA UnitRequestIsSound ==
  ASSUME Sound, NEW a \in User, UserExists(a), UnitRequest(a)
  PROVE  Sound'
<1>1. ASSUME NEW n \in Unit, NEW c \in Condo, NEW o \in User \cup {NoUser},
             CreateUnit(a, n, c, o) \/ UpdateUnit(a, n, c, o)
      PROVE  Sound'
  <2>1. [condo |-> c, owner |-> o] \in UnitRow
    BY DEF UnitRow
  <2>2. /\ units' \in [Unit -> UnitRow \cup {NoRow}] /\ UnitExists(n)'
        /\ units'[n].owner = o /\ (o # NoUser => UserExists(o))
        /\ \A m \in Unit \ {n} : units'[m] = units[m]
        /\ UNCHANGED <<users, members, invitations>>
    BY <1>1, <2>1, RowsExist DEF CreateUnit, UpdateUnit, Sound, TypeOK, UnitExists
  <2>3. \A m \in Unit : UnitExists(m) => UnitExists(m)'
    BY <2>2 DEF UnitExists
  <2> QED
    BY <2>2, <2>3 DEF Sound, TypeOK, NothingDangles, UnitExists, UserExists, Sent, InvitationRow
<1>2. ASSUME NEW n \in Unit, DestroyUnit(a, n) PROVE Sound'
  <2>1. /\ units' \in [Unit -> UnitRow \cup {NoRow}] /\ ~UnitExists(n)'
        /\ \A m \in Unit \ {n} : units'[m] = units[m]
        /\ members' = WithoutMembers({n}, {}) /\ Unnamed({n}, {})
        /\ UNCHANGED <<users, invitations>>
    BY <1>2 DEF DestroyUnit, Sound, TypeOK, UnitExists
  <2>2. TypeOK'
    BY <2>1 DEF Sound, TypeOK, WithoutMembers
  <2>3. NothingDangles'
    BY <2>1 DEF Sound, TypeOK, NothingDangles, WithoutMembers, Unnamed, UnitExists,
                UserExists, Sent, InvitationRow
  <2> QED
    BY <2>2, <2>3 DEF Sound
<1>3. ASSUME NEW n \in Unit, NEW u \in User, AddMember(a, n, u) PROVE Sound'
  BY <1>3 DEF AddMember, Sound, TypeOK, NothingDangles, UnitExists, UserExists, Sent
<1>4. ASSUME NEW n \in Unit, NEW u \in User, RemoveMember(a, n, u) PROVE Sound'
  BY <1>4 DEF RemoveMember, Sound, TypeOK, NothingDangles, UnitExists, UserExists, Sent
<1> QED
  BY <1>1, <1>2, <1>3, <1>4 DEF UnitRequest

LEMMA InvitationRequestIsSound ==
  ASSUME Sound, NEW a \in User, UserExists(a), InvitationRequest(a)
  PROVE  Sound'
<1>1. ASSUME NEW i \in Invitation, NEW n \in Unit, NEW r \in User, Invite(a, i, n, r)
      PROVE  Sound'
  <2>1. [unit |-> n, sender |-> a, recipient |-> r, status |-> "pending"] \in InvitationRow
    BY DEF InvitationRow, InvitationStatus
  <2> QED
    BY <1>1, <2>1 DEF Invite, Sound, TypeOK, NothingDangles, UnitExists, UserExists, Sent
<1>2. ASSUME NEW i \in Invitation, Accept(a, i) \/ Decline(a, i) PROVE Sound'
  <2>1. Sent(i) /\ invitations[i] \in InvitationRow /\ invitations[i].unit \in Unit
    BY <1>2, InvitationFields DEF Accept, Decline, Sound
  <2>2. PICK s \in InvitationStatus :
          invitations' = [invitations EXCEPT ![i] = [invitations[i] EXCEPT !.status = s]]
    BY <1>2 DEF Accept, Decline, InvitationStatus
  <2>3. [invitations[i] EXCEPT !.status = s] \in InvitationRow
    BY <2>1 DEF InvitationRow
  <2>4. /\ invitations' \in [Invitation -> InvitationRow \cup {NoRow}]
        /\ \A j \in Invitation :
             /\ Sent(j)' <=> Sent(j)
             /\ Sent(j) => /\ invitations'[j].unit = invitations[j].unit
                           /\ invitations'[j].sender = invitations[j].sender
                           /\ invitations'[j].recipient = invitations[j].recipient
    BY <2>1, <2>2, <2>3, RowsExist DEF Sound, TypeOK, Sent, InvitationRow
  <2>5. /\ UNCHANGED <<users, units>>
        /\ members' \subseteq members \cup {<<invitations[i].unit, a>>}
    BY <1>2 DEF Accept, Decline
  <2> QED
    BY <2>1, <2>4, <2>5 DEF Sound, TypeOK, NothingDangles, UnitExists, UserExists, Sent
<1> QED
  BY <1>1, <1>2 DEF InvitationRequest

LEMMA NextIsSound == Sound /\ [Next]_vars => Sound'
<1> SUFFICES ASSUME Sound, [Next]_vars PROVE Sound'
  OBVIOUS
<1>1. ASSUME NEW a \in User, UserRequest(a) PROVE Sound'
  BY <1>1, CreateUserIsSound, UpdateUserIsSound, RemoveUserIsSound, ResidencyAssumption
     DEF UserRequest, DestroyUser
<1>2. CASE UNCHANGED vars
  BY <1>2 DEF vars, Sound, TypeOK, NothingDangles, UnitExists, UserExists, Sent
<1>3. ASSUME NEW a \in User, UserExists(a), AccountRequest(a) PROVE Sound'
  BY <1>3, UpdateAccountIsSound, RemoveUserIsSound, ResidencyAssumption
     DEF AccountRequest, CloseAccount
<1>4. ASSUME NEW u \in User, NEW role \in GivenRole, NEW c \in Condo \cup {NoCondo},
             Register(u, role, c)
      PROVE  Sound'
  BY <1>4, RegisterIsSound, ResidencyAssumption
<1> QED
  BY <1>1, <1>2, <1>3, <1>4, UnitRequestIsSound, InvitationRequestIsSound DEF Next

LEMMA AlwaysSound == Spec => []Sound
  BY InitSound, NextIsSound, PTL DEF Spec

(* Users, units, memberships and invitations stay in their types. *)
THEOREM TypeCorrect == Spec => []TypeOK
<1>1. Sound => TypeOK
  BY DEF Sound
<1> QED
  BY <1>1, AlwaysSound, PTL

(* No membership, ownership or invitation ever names a user or a unit that  *)
(* was destroyed, by whatever request.                                      *)
THEOREM ReferencesHold == Spec => []NothingDangles
<1>1. Sound => NothingDangles
  BY DEF Sound
<1> QED
  BY <1>1, AlwaysSound, PTL
-----------------------------------------------------------------------------
(* Homes *)

(* The homes of u after the members' of other users, or none, have changed. *)
LEMMA HomesKept ==
  ASSUME NEW u \in User,
         \A n \in Unit : <<n, u>> \in members' <=> <<n, u>> \in members
  PROVE  HomesOf(u)' = HomesOf(u)
  BY DEF HomesOf

(* A user who is assigned unit n by a form lives there and nowhere else,    *)
(* and the condo that was saved is that of the unit.                        *)
LEMMA AssignedAgrees ==
  ASSUME TypeOK, NEW u \in User, NEW n \in Unit, UnitExists(n),
         NEW c \in Condo \cup {NoCondo}, users'[u].condo = SyncedCondo(c, n),
         HomesOf(u)' = {n}, units'[n].condo = units[n].condo
  PROVE  CondoAgrees(u, users[u].condo)'
<1>1. SyncedCondo(c, n) = units[n].condo
  BY ResidencyAssumption DEF SyncedCondo
<1> QED
  BY <1>1 DEF CondoAgrees

LEMMA CreateUserAgrees ==
  ASSUME Sound, NEW a \in User, NEW u \in User, NEW role \in Role,
         NEW c \in Condo \cup {NoCondo}, NEW n \in Unit \cup {NoUnit},
         CreateUser(a, u, role, c, n)
  PROVE  CondoAgrees(u, users[u].condo)'
<1>1. /\ TypeOK /\ ~UserExists(u) /\ (n # NoUnit => n \in Unit /\ UnitExists(n))
      /\ users'[u].condo = SyncedCondo(c, n)
      /\ members' = members \cup (({n} \ {NoUnit}) \X {u})
      /\ units' = GiveUnit(n, u, role, units)
  BY DEF CreateUser, Sound, TypeOK
<1>2. HomesOf(u)' = {n} \ {NoUnit}
  <2>1. \A m \in Unit : <<m, u>> \notin members
    BY <1>1 DEF Sound, NothingDangles
  <2> QED
    BY <1>1, <2>1 DEF HomesOf
<1>3. CASE n = NoUnit
  BY <1>2, <1>3 DEF CondoAgrees
<1>4. CASE n # NoUnit
  <2>1. units'[n].condo = units[n].condo
    BY <1>1, <1>4, GiveUnitUnits DEF TypeOK, UnitExists
  <2> QED
    BY <1>1, <1>2, <1>4, <2>1, AssignedAgrees
<1> QED
  BY <1>3, <1>4

(* The second outcome of UpdateUser: the user moves to unit n. *)
MovesTo(u, role, c, n) ==
  /\ users' = [users EXCEPT ![u] = [role |-> role, condo |-> SyncedCondo(c, n)]]
  /\ members' = WithoutMembers({}, {u}) \cup {<<n, u>>}
  /\ units' = GiveUnit(n, u, role, GiveUp(u))

LEMMA MoveRows ==
  ASSUME TypeOK, NEW u \in User, NEW role \in Role,
         NEW c \in Condo \cup {NoCondo}, NEW n \in Unit, UnitExists(n), UserExists(u),
         MovesTo(u, role, c, n)
  PROVE  /\ HomesOf(u)' = {n} /\ units'[n].condo = units[n].condo
         /\ users'[u].condo = SyncedCondo(c, n) /\ users'[u].role = role
         /\ \A m \in Unit : UnitExists(m)' =>
              (units'[m].owner = u <=> m = n /\ role = "house_owner")
<1>1. HomesOf(u)' = {n}
  BY DEF HomesOf, WithoutMembers, MovesTo
<1>2. /\ GiveUp(u) \in [Unit -> UnitRow \cup {NoRow}]
      /\ \A m \in Unit :
           /\ GiveUp(u)[m] # NoRow <=> UnitExists(m)
           /\ UnitExists(m) => /\ GiveUp(u)[m].condo = units[m].condo
                               /\ GiveUp(u)[m].owner # u
  BY GiveUpUnits
<1>3. \A m \in Unit :
        /\ units'[m] # NoRow <=> UnitExists(m)
        /\ UnitExists(m) =>
             /\ units'[m].condo = units[m].condo
             /\ units'[m].owner =
                  IF m = n /\ role = "house_owner" THEN u ELSE GiveUp(u)[m].owner
  BY <1>2, GiveUnitUnits DEF MovesTo
<1>4. users'[u].condo = SyncedCondo(c, n) /\ users'[u].role = role
  BY DEF TypeOK, MovesTo
<1> QED
  BY <1>1, <1>2, <1>3, <1>4 DEF UnitExists

LEMMA UpdateUserAgrees ==
  ASSUME Sound, NEW a \in User, NEW u \in User, NEW role \in Role,
         NEW c \in Condo \cup {NoCondo}, NEW n \in Unit \cup {NoUnit},
         UpdateUser(a, u, role, c, n)
  PROVE  CondoAgrees(u, users[u].condo)'
<1>1. /\ TypeOK /\ UserExists(u) /\ CondoAgrees(u, c)
      /\ n # NoUnit => n \in Unit /\ UnitExists(n)
  BY DEF UpdateUser, Sound
<1>2. CASE /\ users' = [users EXCEPT ![u] = [role |-> role, condo |-> c]]
           /\ UNCHANGED <<units, members>>
  <2>1. users'[u].condo = c
    BY <1>1, <1>2 DEF TypeOK
  <2> QED
    BY <1>1, <1>2, <2>1 DEF CondoAgrees, HomesOf
<1>3. CASE n # NoUnit /\ MovesTo(u, role, c, n)
  <2>1. /\ n \in Unit /\ UnitExists(n) /\ HomesOf(u)' = {n}
        /\ units'[n].condo = units[n].condo /\ users'[u].condo = SyncedCondo(c, n)
    BY <1>1, <1>3, MoveRows
  <2> QED
    BY <1>1, <2>1, AssignedAgrees
<1>4. CASE members' = WithoutMembers({}, {u})
  BY <1>4 DEF CondoAgrees, HomesOf, WithoutMembers
<1> QED
  BY <1>2, <1>3, <1>4 DEF UpdateUser, MovesTo

(* A user who is saved agrees with the units they then have, whatever the   *)
(* form combines.                                                           *)
THEOREM SavingAgrees == Spec => SavedUsersAgree
<1> DEFINE Agrees == \A u \in User :
       UserExists(u)' /\ users'[u] # users[u] => CondoAgrees(u, users[u].condo)'
<1>1. Sound /\ [Next]_vars => Agrees
  <2> SUFFICES ASSUME Sound, [Next]_vars, NEW u \in User, UserExists(u)',
                      users'[u] # users[u]
               PROVE  CondoAgrees(u, users[u].condo)'
    OBVIOUS
  <2>1. ASSUME NEW role \in GivenRole, NEW c \in Condo \cup {NoCondo}, Register(u, role, c)
        PROVE  CondoAgrees(u, users[u].condo)'
    BY <2>1 DEF Register, Sound, NothingDangles, CondoAgrees, HomesOf
  <2>2. ASSUME NEW a \in User, UserRequest(a)
        PROVE  CondoAgrees(u, users[u].condo)'
    <3>1. PICK v \in User : \/ \E role \in GivenRole, c \in Condo \cup {NoCondo},
                                  n \in Unit \cup {NoUnit} :
                                CreateUser(a, v, role, c, n) \/ UpdateUser(a, v, role, c, n)
                            \/ RemoveUser(v)
      BY <2>2 DEF UserRequest, DestroyUser
    <3>2. v = u
      BY <3>1 DEF CreateUser, UpdateUser, RemoveUser, Sound, TypeOK
    <3>3. ~RemoveUser(u)
      BY DEF RemoveUser, UserExists, Sound, TypeOK
    <3> QED
      BY <3>1, <3>2, <3>3, CreateUserAgrees, UpdateUserAgrees, ResidencyAssumption
  <2>3. CASE \E v \in User : RemoveUser(v)
    BY <2>3 DEF RemoveUser, UserExists, Sound, TypeOK
  <2>4. CASE \E v \in User, role \in GivenRole, c \in Condo \cup {NoCondo} :
               Register(v, role, c)
    BY <2>1, <2>4 DEF Register, Sound, TypeOK
  <2>5. CASE \E v \in User, role \in GivenRole : UserExists(v) /\ UpdateAccount(v, role)
    <3>1. PICK v \in User, role \in GivenRole : UserExists(v) /\ UpdateAccount(v, role)
      BY <2>5
    <3>2. /\ users' = [users EXCEPT ![v] = [users[v] EXCEPT !.role = role]]
          /\ UNCHANGED <<units, members>> /\ CondoAgrees(v, users[v].condo)
      BY <3>1 DEF UpdateAccount
    <3>3. v = u
      BY <3>2 DEF Sound, TypeOK
    <3>4. users'[u].condo = users[u].condo
      BY <3>1, <3>2, <3>3, UserFields DEF Sound, TypeOK, UserRow
    <3> QED
      BY <3>2, <3>3, <3>4 DEF CondoAgrees, HomesOf
  <2> QED
    BY ZenonT(30), <2>2, <2>3, <2>4, <2>5
       DEF Next, AccountRequest, CloseAccount, UnitRequest, CreateUnit, UpdateUnit, DestroyUnit, AddMember,
           RemoveMember, InvitationRequest, Invite, Accept, Decline, vars
<1> QED
  BY <1>1, AlwaysSound, PTL DEF Spec, SavedUsersAgree

(* Who is moved by a request lives in the new unit alone, and owns at most  *)
(* that one, as its house owner.                                            *)
THEOREM MovingCompletes == Spec => MovesAreComplete
<1> DEFINE Complete == \A u \in User :
       HomesOf(u) \ HomesOf(u)' # {} /\ HomesOf(u)' \ HomesOf(u) # {} =>
         \E n \in Unit :
           /\ HomesOf(u)' = {n}
           /\ OwnedBy(u)' \subseteq {n}
           /\ OwnedBy(u)' # {} => users'[u].role = "house_owner"
<1>1. Sound /\ [Next]_vars => Complete
  <2> SUFFICES ASSUME Sound, [Next]_vars, NEW u \in User,
                      HomesOf(u) \ HomesOf(u)' # {}, HomesOf(u)' \ HomesOf(u) # {}
               PROVE  \E n \in Unit :
                        /\ HomesOf(u)' = {n}
                        /\ OwnedBy(u)' \subseteq {n}
                        /\ OwnedBy(u)' # {} => users'[u].role = "house_owner"
    OBVIOUS
  <2>1. ~(members \subseteq members') /\ ~(members' \subseteq members)
    BY DEF HomesOf
  <2>2. PICK a \in User, v \in User, role \in GivenRole, c \in Condo \cup {NoCondo},
             n \in Unit \cup {NoUnit} : UpdateUser(a, v, role, c, n)
    <3>1. ASSUME NEW v \in User, RemoveUser(v) PROVE FALSE
      BY <2>1, <3>1 DEF RemoveUser, WithoutMembers
    <3>2. ASSUME NEW a \in User, UnitRequest(a) \/ InvitationRequest(a) PROVE FALSE
      BY <2>1, <3>2 DEF WithoutMembers, UnitRequest, CreateUnit, UpdateUnit, DestroyUnit,
           AddMember, RemoveMember, InvitationRequest, Invite, Accept, Decline
    <3>3. ASSUME NEW v \in User, NEW role \in GivenRole, NEW c \in Condo \cup {NoCondo},
                 Register(v, role, c) \/ UpdateAccount(v, role)
          PROVE  FALSE
      BY <2>1, <3>3 DEF Register, UpdateAccount
    <3>4. ASSUME NEW a \in User, NEW v \in User, NEW role \in GivenRole,
                 NEW c \in Condo \cup {NoCondo}, NEW n \in Unit \cup {NoUnit},
                 CreateUser(a, v, role, c, n)
          PROVE  FALSE
      BY <2>1, <3>4 DEF CreateUser
    <3>5. ~UNCHANGED vars
      BY <2>1 DEF vars
    <3> QED
      BY <3>1, <3>2, <3>3, <3>4, <3>5
         DEF Next, UserRequest, AccountRequest, DestroyUser, CloseAccount
  <2>3. /\ n \in Unit /\ UnitExists(n) /\ UserExists(v)
        /\ MovesTo(v, role, c, n)
    BY <2>1, <2>2 DEF UpdateUser, WithoutMembers, MovesTo
  <2>4. v = u
    <3>1. v # u => \A m \in Unit : <<m, u>> \in members' <=> <<m, u>> \in members
      BY <2>3 DEF WithoutMembers, MovesTo
    <3> QED
      BY <3>1, HomesKept
  <2>5. /\ HomesOf(u)' = {n} /\ users'[u].role = role
        /\ \A m \in Unit : UnitExists(m)' =>
             (units'[m].owner = u <=> m = n /\ role = "house_owner")
    <3>1. TypeOK /\ role \in Role
      BY ResidencyAssumption DEF Sound
    <3> QED
      BY <2>3, <2>4, <3>1, MoveRows
  <2> QED
    BY <2>3, <2>5 DEF OwnedBy
<1> QED
  BY <1>1, AlwaysSound, PTL DEF Spec, MovesAreComplete
=============================================================================
