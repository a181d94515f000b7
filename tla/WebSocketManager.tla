-------------------------- MODULE WebSocketManager --------------------------
(***************************************************************************)
(* WebSocketManager (app/websocket/manager.py) and the route that feeds it *)
(* (workflow_ws in app/api/routes/travel.py): the sockets that follow one  *)
(* workflow, and the calls of publish by which the workflow's tasks send   *)
(* them events.  A publish iterates over the registry's own set and awaits *)
(* inside the loop, while sockets come and go and other publishes clean up.*)
(*                                                                         *)
(* A Python set under iteration raises RuntimeError at the next element,   *)
(* or at the end, once its size differs from what it was at the start.     *)
(***************************************************************************)
EXTENDS Naturals, FiniteSets

CONSTANTS
    Sockets,       \* the clients of one workflow, each connecting once
    Publishes,     \* the calls of publish for that workflow
    Nowhere        \* what at[p] is outside a send

ASSUME SocketAssumption ==
    /\ IsFiniteSet(Sockets)
    /\ Nowhere \notin Sockets

VARIABLES
    registered,   \* _connections[workflow_id], {} when the key is absent
    handler,      \* handler[s]: where the workflow_ws of socket s stands
    gone,         \* sockets whose client has left
    place,        \* place[p]: where publish p stands
    at,           \* at[p]: the socket publish p is sending to
    members,      \* members[p]: the set as it was when p began to iterate
    yielded,      \* yielded[p]: the elements p has got from the iterator
    stale,        \* stale[p]: publish's list of that name, of clients that left
    sent,         \* sent[p]: sockets that p has sent its message to
    changed,      \* changed[p]: the set has changed since p began...
    dropped       \* dropped[p]: ...and is no longer in _connections

socketVars == <<handler, gone>>
loopVars == <<place, at, members, yielded, stale, sent>>
vars == <<registered, socketVars, loopVars, changed, dropped>>

Init ==
    /\ registered = {}
    /\ handler = [s \in Sockets |-> "new"]
    /\ gone = {}
    /\ place = [p \in Publishes |-> "idle"]
    /\ at = [p \in Publishes |-> Nowhere]
    /\ members = [p \in Publishes |-> {}]
    /\ yielded = [p \in Publishes |-> {}]
    /\ stale = [p \in Publishes |-> {}]
    /\ sent = [p \in Publishes |-> {}]
    /\ changed = [p \in Publishes |-> FALSE]
    /\ dropped = [p \in Publishes |-> FALSE]

\* The registry becomes "new".  The key of an empty set is popped, which
\* leaves the iterations over that set with an object of their own.
Register(new) ==
    LET touched == {p \in Publishes : place[p] = "sending" /\ new # registered} IN
    /\ registered' = new
    /\ changed' = [p \in Publishes |-> changed[p] \/ p \in touched]
    /\ dropped' = [p \in Publishes |-> dropped[p] \/ (p \in touched /\ new = {})]
-----------------------------------------------------------------------------
\* connect: accepted and registered.
Connect(s) ==
    /\ handler[s] = "new"
    /\ handler' = [handler EXCEPT ![s] = "listening"]
    /\ Register(registered \cup {s})
    /\ UNCHANGED <<gone, loopVars>>

Leave(s) ==
    /\ handler[s] = "listening"
    /\ s \notin gone
    /\ gone' = gone \cup {s}
    /\ UNCHANGED <<registered, handler, loopVars, changed, dropped>>

(***************************************************************************)
(* Names that end in "Slip" are not part of the model: each is what the    *)
(* definition after it would become under a plausible mistake in the code, *)
(* kept to show that a property of the model tells the two apart.          *)
(***************************************************************************)
\* The except clause does not call disconnect.
StayRegisteredSlip(s) == registered

\* The key is popped whatever its set still holds.
PopAlwaysSlip(s) == {}

AfterDisconnect(s) == registered \ {s}

\* receive_text raises WebSocketDisconnect.
HandlerEnds(s) ==
    /\ handler[s] = "listening"
    /\ s \in gone
    /\ handler' = [handler EXCEPT ![s] = "ended"]
    /\ Register(AfterDisconnect(s))
    /\ UNCHANGED <<gone, loopVars>>

\* receive_text raises something else, as it does on a binary frame: the
\* route is left without disconnect.
HandlerBreaks(s) ==
    /\ handler[s] = "listening"
    /\ handler' = [handler EXCEPT ![s] = "broken"]
    /\ gone' = gone \cup {s}
    /\ UNCHANGED <<registered, loopVars, changed, dropped>>
-----------------------------------------------------------------------------
\* for websocket in ...: the first element, if there is one.
Begin(p) ==
    /\ place[p] = "idle"
    /\ IF registered = {}
         THEN /\ place' = [place EXCEPT ![p] = "returned"]
              /\ UNCHANGED <<at, members, yielded>>
         ELSE \E s \in registered :
                /\ place' = [place EXCEPT ![p] = "sending"]
                /\ at' = [at EXCEPT ![p] = s]
                /\ members' = [members EXCEPT ![p] = registered]
                /\ yielded' = [yielded EXCEPT ![p] = {s}]
    /\ UNCHANGED <<registered, socketVars, stale, sent, changed, dropped>>

\* The iterator of p finds its set with another size than at the start.
SizeDiffers(p) == dropped[p] \/ Cardinality(registered) # Cardinality(members[p])

\* The loop stops one element early.
StopEarlySlip(p) == Cardinality(members[p] \ yielded[p]) <= 1

\* A set that has changed and has its old size again may have been
\* rehashed, and its iterator may then skip elements.
MayBeExhausted(p) == changed[p] \/ members[p] \subseteq yielded[p]

\* What follows the await of send_text, to the next await or the end.
Advance(p, nowStale) ==
    \/ /\ SizeDiffers(p)
       /\ place' = [place EXCEPT ![p] = "raised"]
       /\ at' = [at EXCEPT ![p] = Nowhere]
       /\ UNCHANGED <<registered, members, yielded, stale, changed, dropped>>
    \/ /\ ~ SizeDiffers(p)
       /\ \E s \in registered \ yielded[p] :
             /\ at' = [at EXCEPT ![p] = s]
             /\ yielded' = [yielded EXCEPT ![p] = @ \cup {s}]
       /\ stale' = [stale EXCEPT ![p] = nowStale]
       /\ UNCHANGED <<registered, place, members, changed, dropped>>
    \/ /\ ~ SizeDiffers(p)
       /\ MayBeExhausted(p)
       /\ place' = [place EXCEPT ![p] = "returned"]
       /\ at' = [at EXCEPT ![p] = Nowhere]
       /\ stale' = [stale EXCEPT ![p] = nowStale]
       /\ Register(registered \ nowStale)
       /\ UNCHANGED <<members, yielded>>

\* "finally" instead of "except RuntimeError".
FinallySlip(p) ==
    /\ place[p] = "sending"
    /\ sent' = [sent EXCEPT ![p] = @ \cup {at[p]}]
    /\ Advance(p, stale[p] \cup {at[p]})
    /\ UNCHANGED socketVars

\* The send to a client that has left may still look like a success.
SendReturns(p) ==
    /\ place[p] = "sending"
    /\ sent' = [sent EXCEPT ![p] = @ \cup {at[p]}]
    /\ Advance(p, stale[p])
    /\ UNCHANGED socketVars

\* RuntimeError: the socket is noted as stale.
SendFails(p) ==
    /\ place[p] = "sending"
    /\ at[p] \in gone
    /\ Advance(p, stale[p] \cup {at[p]})
    /\ UNCHANGED <<socketVars, sent>>

\* WebSocketDisconnect, which is no RuntimeError, ends the publish.
SendBreaks(p) ==
    /\ place[p] = "sending"
    /\ at[p] \in gone
    /\ place' = [place EXCEPT ![p] = "raised"]
    /\ at' = [at EXCEPT ![p] = Nowhere]
    /\ UNCHANGED <<registered, socketVars, members, yielded, stale, sent, changed, dropped>>

Done ==
    /\ \A s \in Sockets : handler[s] \in {"ended", "broken"}
    /\ \A p \in Publishes : place[p] \in {"returned", "raised"}
    /\ UNCHANGED vars

Next ==
    \/ \E s \in Sockets : Connect(s) \/ Leave(s) \/ HandlerEnds(s) \/ HandlerBreaks(s)
    \/ \E p \in Publishes : Begin(p) \/ SendReturns(p) \/ SendFails(p) \/ SendBreaks(p)
    \/ Done

Spec == Init /\ [][Next]_vars
-----------------------------------------------------------------------------
\* Every variable has the type its declaration announces.
TypeOK ==
    /\ registered \subseteq Sockets
    /\ handler \in [Sockets -> {"new", "listening", "ended", "broken"}]
    /\ gone \subseteq Sockets
    /\ place \in [Publishes -> {"idle", "sending", "returned", "raised"}]
    /\ at \in [Publishes -> Sockets \cup {Nowhere}]
    /\ \A p \in Publishes : at[p] # Nowhere <=> place[p] = "sending"
    /\ members \in [Publishes -> SUBSET Sockets]
    /\ yielded \in [Publishes -> SUBSET Sockets]
    /\ stale \in [Publishes -> SUBSET gone]
    /\ sent \in [Publishes -> SUBSET Sockets]
    /\ changed \in [Publishes -> BOOLEAN]
    /\ dropped \in [Publishes -> BOOLEAN]

\* A socket stays registered after its handler only if the handler was left
\* by an exception that workflow_ws does not expect (travel.py 77-82), and
\* only until a publish that returns has found it stale (manager.py 39-40).
NoLeak ==
    \A s \in registered :
        /\ handler[s] \in {"listening", "broken"}
        /\ \A p \in Publishes : place[p] = "returned" => s \notin stale[p]

\* The socket of a client that is there is registered: neither the end of
\* another socket's handler nor a publish's cleanup takes it out.
ListenersAreKept ==
    \A s \in Sockets : handler[s] = "listening" => s \in registered \cup gone

\* A publish that returns while nobody came or went has sent its message to
\* every subscriber whose client was there (manager.py 33-40).
QuietPublishReaches ==
    \A p \in Publishes : place[p] = "returned" /\ ~ changed[p] =>
        members[p] \subseteq sent[p] \cup gone

\* As long as no client has left, a publish that is over has sent its
\* message to every subscriber it began with: "Broadcast a JSON-serializable
\* event payload to workflow subscribers" (manager.py).
BroadcastReaches ==
    \A p \in Publishes : gone = {} /\ place[p] \in {"returned", "raised"} =>
        members[p] \subseteq sent[p]
=============================================================================
