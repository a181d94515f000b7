---------------------------- MODULE AtomicMemory ----------------------------
(***************************************************************************)
(* What SharedMemory promises: the record of a workflow is one object, an  *)
(* update of it happens at one instant or not at all, every update raises  *)
(* the version by one, and a call that is answered "ok" has happened.  A   *)
(* call that is answered "error" may have happened.  The record may vanish *)
(* as a whole.                                                             *)
(***************************************************************************)
EXTENDS Naturals

CONSTANT Updates          \* the calls of update

VARIABLES present,        \* the record exists
          applied,        \* the updates whose patch is merged in
          version,
          answered        \* answered[u]: what the caller of u was told

vars == <<present, applied, version, answered>>

Init ==
    /\ present = FALSE
    /\ applied = {}
    /\ version = 0
    /\ answered = [u \in Updates |-> "pending"]

Create ==
    /\ present' = TRUE
    /\ applied' = {}
    /\ version' = 1
    /\ UNCHANGED answered

Apply(u) ==
    /\ present
    /\ answered[u] = "pending"
    /\ u \notin applied
    /\ applied' = applied \cup {u}
    /\ version' = version + 1
    /\ UNCHANGED <<present, answered>>

Answer(u) ==
    /\ answered[u] = "pending"
    /\ \E a \in {"ok", "error"} :
          /\ a = "ok" /\ present => u \in applied
          /\ answered' = [answered EXCEPT ![u] = a]
    /\ UNCHANGED <<present, applied, version>>

Vanish ==
    /\ present' = FALSE
    /\ applied' = {}
    /\ version' = 0
    /\ UNCHANGED answered

Next ==
    \/ Create
    \/ Vanish
    \/ \E u \in Updates : Apply(u) \/ Answer(u)

Spec == Init /\ [][Next]_vars
=============================================================================
