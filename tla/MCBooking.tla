----------------------------- MODULE MCBooking -----------------------------
(***************************************************************************)
(* Three bookings, two of them for the same selection.                     *)
(***************************************************************************)
EXTENDS Booking

CONSTANTS c1, c2, c3

ThreeCalls == {c1, c2, c3}
Anonymous == [c \in ThreeCalls |-> "anonymous"]
Selection == [c \in ThreeCalls |-> IF c = c3 THEN "hotel" ELSE "flight"]
=============================================================================
