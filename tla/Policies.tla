------------------------------ MODULE Policies ------------------------------
(***************************************************************************)
(* The authorisation rules of the application (Pundit policies) that guard *)
(* the controllers that write, as pure operators.                          *)
(*                                                                         *)
(* A user is a record [id, role, condo]; condo is NoCondo when condo_id is *)
(* NULL.  The record a policy is asked about is passed as the columns the  *)
(* policy reads: the owner and status of a booking, the condo of its       *)
(* facility, the condo and owner of a unit, the id and condo of a user.    *)
(***************************************************************************)

Role == {"super_admin", "operation_admin", "house_owner", "house_member"}

BookingStatus == {"pending", "approved", "rejected", "cancelled"}

SuperAdmin(u) == u.role = "super_admin"

OperationAdmin(u) == u.role = "operation_admin"

HouseOwner(u) == u.role = "house_owner"

Admin(u) == SuperAdmin(u) \/ OperationAdmin(u)

(* An operation admin of the condo the record belongs to. *)
AdminOf(u, condo) == OperationAdmin(u) /\ u.condo = condo

-----------------------------------------------------------------------------
(* BookingPolicy *)

BookingCreate(u) == TRUE

BookingUpdate(u, condo) == SuperAdmin(u) \/ AdminOf(u, condo)

(* What `record.status == %w["pending", "approved"]` compares: a String and *)
(* an Array, which no status satisfies.                                     *)
StatusIsTheArray(status) == status \notin BookingStatus

BookingDestroy(u, owner, status, condo) ==
  \/ SuperAdmin(u)
  \/ AdminOf(u, condo)
  \/ owner = u.id /\ StatusIsTheArray(status)

-----------------------------------------------------------------------------
(* FacilityPolicy *)

FacilityCreate(u) == SuperAdmin(u)

FacilityUpdate(u, condo) == SuperAdmin(u) \/ AdminOf(u, condo)

FacilityDestroy(u) == SuperAdmin(u)

-----------------------------------------------------------------------------
(* UnitPolicy, UnitMemberPolicy and UserPolicy *)

UnitCreate(u) == SuperAdmin(u)

UnitUpdate(u, condo, owner) ==
  SuperAdmin(u) \/ AdminOf(u, condo) \/ (HouseOwner(u) /\ owner = u.id)

UnitDestroy(u) == SuperAdmin(u)

UnitMemberChange(u, owner) == Admin(u) \/ (HouseOwner(u) /\ owner = u.id)

UserCreate(u) == SuperAdmin(u)

(* A user without condo is, to an operation admin without one, of the same. *)
UserUpdate(u, id, condo) == SuperAdmin(u) \/ u.id = id \/ AdminOf(u, condo)

UserDestroy(u, id) == SuperAdmin(u) /\ u.id # id
=============================================================================
