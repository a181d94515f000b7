--------------------------- MODULE MCSharedMemory ---------------------------
(***************************************************************************)
(* A few concurrent updates of one record.                                 *)
(***************************************************************************)
EXTENDS SharedMemory

CONSTANTS u1, u2, u3

ThreeUpdates == {u1, u2, u3}
TwoUpdates == {u1, u2}
=============================================================================
