----------------------------- MODULE MCBookings -----------------------------
(***************************************************************************)
(* Instances of Bookings for TLC: one super admin, one operation admin of  *)
(* the first condo and one resident.                                       *)
(***************************************************************************)
EXTENDS Bookings, TLC

CONSTANTS root, manager, resident, c1, c2

MCUser == {root, manager, resident}

MCUserRole ==
  root :> "super_admin" @@ manager :> "operation_admin" @@ resident :> "house_member"

MCUserCondo == root :> NoCondo @@ manager :> c1 @@ resident :> c1

(* The admins alone, for the run with two facilities. *)
Admins == {root, manager}

AdminRole == root :> "super_admin" @@ manager :> "operation_admin"

AdminCondo == root :> NoCondo @@ manager :> c1

Symmetry == Permutations(Booking) \cup Permutations(Facility) \cup Permutations(Slot)
=============================================================================
