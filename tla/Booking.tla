------------------------------ MODULE Booking ------------------------------
(***************************************************************************)
(* BookingService.create_booking (app/services/booking_service.py): a call *)
(* of the booking tool, which goes through its rate limit and its cache    *)
(* like any other, followed by the insertion of a pending Booking row.     *)
(* No user is passed on, so that all bookings share one rate limit.        *)
(***************************************************************************)
EXTENDS ToolRuntime

VARIABLES
    rows,      \* calls whose Booking row is committed
    answer     \* answer[c]: what the client was told

bookingVars == <<rows, answer>>
vars == <<toolVars, bookingVars>>

Init ==
    /\ ToolInit
    /\ rows = {}
    /\ answer = [c \in Calls |-> "none"]

Tell(c, what) ==
    /\ answer[c] = "none"
    /\ answer' = [answer EXCEPT ![c] = what]

\* The row is flushed and never committed.
FlushOnlySlip(c) ==
    /\ place[c] = "returned"
    /\ Tell(c, "accepted")
    /\ UNCHANGED rows

\* create_pending and commit.
Insert(c) ==
    /\ place[c] = "returned"
    /\ rows' = rows \cup {c}
    /\ Tell(c, "accepted")

Persist(c) == Insert(c) /\ UNCHANGED toolVars

\* The trip does not exist, or the database fails before or after the
\* commit took effect; BookingError after the provider has been asked.
PersistFails(c) ==
    /\ "db" \in Faults
    /\ place[c] = "returned"
    /\ rows' \in {rows, rows \cup {c}}
    /\ Tell(c, "error")
    /\ UNCHANGED toolVars

\* The tool raised: rolled back and raised, as it is or as a BookingError.
Refuse(c) ==
    /\ place[c] = "raised"
    /\ Tell(c, "error")
    /\ UNCHANGED <<toolVars, rows>>

ServiceStep(c) == Persist(c) \/ PersistFails(c) \/ Refuse(c)

Done ==
    /\ \A c \in Calls : place[c] \in Over
    /\ \A c \in Calls : answer[c] = "none" => place[c] = "stopped"
    /\ UNCHANGED vars

Next ==
    \/ ToolStep /\ UNCHANGED bookingVars
    \/ \E c \in Calls : ServiceStep(c)
    \/ Done

Spec ==
    /\ Init /\ [][Next]_vars
    /\ ToolFairness
    /\ \A c \in Calls : WF_vars(ServiceStep(c))
-----------------------------------------------------------------------------
\* Every variable has the type its declaration announces.
TypeOK ==
    /\ ToolTypeOK
    /\ rows \subseteq Calls
    /\ answer \in [Calls -> {"none", "accepted", "error"}]

\* A client whose booking was accepted finds it in the database, backed by
\* an answer the provider gave to that very payload, on whatever attempt of
\* whichever call (booking_service.py 28-45, base.py 63-89).
AcceptedIsBacked ==
    \A c \in Calls : answer[c] = "accepted" =>
        c \in rows /\ result[c] # NoResult /\ PayloadOf[result[c]] = PayloadOf[c]

\* Every booking row is the record of a provider request of its own:
\* create_pending (repositories/trips.py) says that it creates "a pending
\* booking record for a provider request".
RowHasOwnRequest == \A b, c \in rows : result[b] = result[c] => b = c

(***************************************************************************)
(* The inductive invariant behind these properties.                        *)
(***************************************************************************)

\* No more calls have passed than were counted while the counter lives.
WindowInv == \A i \in Users : Cardinality(passed[i]) <= count[i]

\* Who has made a counter was counting itself.
OpenerInv == \A i \in Users : opener[i] \in Calls => UserOf[opener[i]] = i

\* Results, cached or not, answer the payload they are looked up by.
ResultInv ==
    /\ \A p \in Payloads : cache[p] # NoResult => PayloadOf[cache[p]] = p
    /\ \A c \in Calls : place[c] \in {"storing", "returned"} =>
          result[c] # NoResult /\ PayloadOf[result[c]] = PayloadOf[c]
    /\ \A c \in Calls : answer[c] = "accepted" => place[c] = "returned" /\ c \in rows

IInv == TypeOK /\ WindowInv /\ LimitHolds /\ OpenerInv /\ OrphanedCounters /\ ResultInv
=============================================================================
