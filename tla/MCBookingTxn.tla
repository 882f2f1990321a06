---------------------------- MODULE MCBookingTxn ----------------------------
(***************************************************************************)
(* Instances of BookingTxn for TLC.                                        *)
(***************************************************************************)
EXTENDS BookingTxn, TLC

CONSTANTS root, manager, c1

(* A super admin, for whom a request loads the facility late, and an        *)
(* operation admin, for whom it does so early.                              *)
MCUser == {root, manager}

MCUserRole == root :> "super_admin" @@ manager :> "operation_admin"

MCUserCondo == root :> NoCondo @@ manager :> c1

AnySlots == SUBSET Slot

NotEmpty == AnySlots \ {{}}

(* Bound: the destruction of a facility or of a user starts only while no   *)
(* facility is disturbed.  It may be what disturbs one, and requests may    *)
(* start at any time while it is under way.                                 *)
DestroysUndisturbed ==
  \A w \in Worker : ~Destroys(w) /\ Destroys(w)' => disturbed = {}

Symmetry == Permutations(Booking) \cup Permutations(Slot) \cup Permutations(Worker)
=============================================================================
