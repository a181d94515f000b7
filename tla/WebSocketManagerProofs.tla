----------------------- MODULE WebSocketManagerProofs -----------------------
(***************************************************************************)
(* Proofs about WebSocketManager, for any clients of a workflow and any    *)
(* number of publishes at once.                                            *)
(***************************************************************************)
EXTENDS WebSocketManager, TLAPS

\* A client leaves only after its socket was registered, so that no socket
\* comes back after a publish has found it stale.
GoneOnce == \A s \in gone : handler[s] # "new"

TypeInv == TypeOK /\ GoneOnce

\* What every change of the registry does to the publishes at work.
LEMMA RegisterType ==
    ASSUME NEW new, Register(new)
    PROVE  /\ registered' = new
           /\ changed' \in [Publishes -> BOOLEAN]
           /\ dropped' \in [Publishes -> BOOLEAN]
           /\ \A p \in Publishes : changed'[p] <=> changed[p] \/ (place[p] = "sending" /\ new # registered)
  <1> DEFINE touched == {p \in Publishes : place[p] = "sending" /\ new # registered}
  <1>1. /\ registered' = new
        /\ changed' = [p \in Publishes |-> changed[p] \/ p \in touched]
        /\ dropped' = [p \in Publishes |-> dropped[p] \/ (p \in touched /\ new = {})]
    BY DEF Register
  <1>2. \A p \in Publishes : p \in touched <=> place[p] = "sending" /\ new # registered
    OBVIOUS
  <1> HIDE DEF touched
  <1>3. \A p \in Publishes : (changed[p] \/ p \in touched) \in BOOLEAN
    OBVIOUS
  <1>4. \A p \in Publishes : (dropped[p] \/ (p \in touched /\ new = {})) \in BOOLEAN
    OBVIOUS
  <1> QED
    BY <1>1, <1>2, <1>3, <1>4, Zenon

\* What Advance may do, in one list.
LEMMA AdvanceTypes ==
    ASSUME TypeInv, NEW p \in Publishes, NEW new \in SUBSET gone, place[p] = "sending", Advance(p, new)
    PROVE  /\ registered' \in SUBSET registered
           /\ place' \in [Publishes -> {"idle", "sending", "returned", "raised"}]
           /\ at' \in [Publishes -> Sockets \cup {Nowhere}]
           /\ \A q \in Publishes : at'[q] # Nowhere <=> place'[q] = "sending"
           /\ yielded' \in [Publishes -> SUBSET Sockets]
           /\ stale' \in [Publishes -> SUBSET gone]
           /\ changed' \in [Publishes -> BOOLEAN]
           /\ dropped' \in [Publishes -> BOOLEAN]
           /\ UNCHANGED members
  <1> USE SocketAssumption DEF TypeInv, TypeOK
  <1>1. CASE /\ place' = [place EXCEPT ![p] = "raised"] /\ at' = [at EXCEPT ![p] = Nowhere]
             /\ UNCHANGED <<registered, members, yielded, stale, changed, dropped>>
    BY <1>1
  <1>2. ASSUME NEW s \in registered \ yielded[p],
               at' = [at EXCEPT ![p] = s],
               yielded' = [yielded EXCEPT ![p] = @ \cup {s}],
               stale' = [stale EXCEPT ![p] = new],
               UNCHANGED <<registered, place, members, changed, dropped>>
        PROVE  /\ s \in Sockets /\ s # Nowhere
               /\ yielded' \in [Publishes -> SUBSET Sockets]
               /\ stale' \in [Publishes -> SUBSET gone]
               /\ at' \in [Publishes -> Sockets \cup {Nowhere}]
               /\ \A q \in Publishes : at'[q] # Nowhere <=> place'[q] = "sending"
    BY <1>2
  <1>3. CASE /\ place' = [place EXCEPT ![p] = "returned"] /\ at' = [at EXCEPT ![p] = Nowhere]
             /\ stale' = [stale EXCEPT ![p] = new]
             /\ Register(registered \ new) /\ UNCHANGED <<members, yielded>>
    BY <1>3, RegisterType
  <1> QED
    BY <1>1, <1>2, <1>3 DEF Advance

LEMMA SendType ==
    ASSUME TypeInv, NEW p \in Publishes, SendReturns(p) \/ SendFails(p) \/ SendBreaks(p)
    PROVE  TypeInv'
  <1>1. at[p] \in Sockets /\ place[p] = "sending"
    BY DEF SendReturns, SendFails, SendBreaks, TypeInv, TypeOK
  <1>2. CASE SendReturns(p)
    <2>1. stale[p] \in SUBSET gone /\ Advance(p, stale[p]) /\ UNCHANGED socketVars
      BY <1>2 DEF SendReturns, TypeInv, TypeOK
    <2>2. sent' \in [Publishes -> SUBSET Sockets]
      BY <1>1, <1>2 DEF SendReturns, TypeInv, TypeOK
    <2> QED
      BY <1>1, <2>1, <2>2, AdvanceTypes DEF TypeInv, TypeOK, GoneOnce, socketVars
  <1>3. CASE SendFails(p)
    <2>1. /\ stale[p] \cup {at[p]} \in SUBSET gone
          /\ Advance(p, stale[p] \cup {at[p]}) /\ UNCHANGED <<socketVars, sent>>
      BY <1>3 DEF SendFails, TypeInv, TypeOK
    <2> QED
      BY <1>1, <2>1, AdvanceTypes DEF TypeInv, TypeOK, GoneOnce, socketVars
  <1>4. CASE SendBreaks(p)
    BY <1>4, SocketAssumption DEF SendBreaks, TypeInv, TypeOK, GoneOnce, socketVars
  <1> QED
    BY <1>2, <1>3, <1>4

LEMMA NextType ==
    ASSUME TypeInv, [Next]_vars
    PROVE  TypeInv'
  <1> USE DEF TypeInv, TypeOK, GoneOnce
  <1>1. ASSUME NEW s \in Sockets, Connect(s) \/ HandlerEnds(s)
        PROVE  TypeInv'
    <2>1. /\ handler' \in [Sockets -> {"new", "listening", "ended", "broken"}]
          /\ \A q \in gone : handler'[q] # "new"
          /\ UNCHANGED <<gone, loopVars>>
      BY <1>1 DEF Connect, HandlerEnds
    <2>2. registered' \subseteq Sockets /\ changed' \in [Publishes -> BOOLEAN]
          /\ dropped' \in [Publishes -> BOOLEAN]
      BY <1>1, RegisterType DEF Connect, HandlerEnds, AfterDisconnect
    <2> QED
      BY <2>1, <2>2 DEF loopVars
  <1>2. ASSUME NEW s \in Sockets, Leave(s) \/ HandlerBreaks(s)
        PROVE  TypeInv'
    BY <1>2 DEF Leave, HandlerBreaks, loopVars
  <1>3. ASSUME NEW p \in Publishes, Begin(p)
        PROVE  TypeInv'
    BY <1>3, SocketAssumption DEF Begin, socketVars
  <1>4. CASE UNCHANGED vars
    BY <1>4 DEF vars, socketVars, loopVars
  <1> QED
    BY <1>1, <1>2, <1>3, <1>4, SendType DEF Next, Done

LEMMA TypesHold == Spec => []TypeInv
  <1>1. Init => TypeInv
    BY DEF Init, TypeInv, TypeOK, GoneOnce
  <1> QED
    BY <1>1, NextType, PTL DEF Spec

\* The registry, the clients and the publishes have their types; only
\* sockets whose clients have left are ever counted as stale.
THEOREM TypeCorrect == Spec => []TypeOK
  BY TypesHold, PTL DEF TypeInv
-----------------------------------------------------------------------------
(***************************************************************************)
(* Who is registered.                                                      *)
(***************************************************************************)
\* What the loops of the publishes do to the registry: it loses sockets that
\* have left, and those that a publish which returns found stale.
LEMMA PublishCleans ==
    ASSUME TypeInv, NEW p \in Publishes,
           Begin(p) \/ SendReturns(p) \/ SendFails(p) \/ SendBreaks(p)
    PROVE  /\ registered' \subseteq registered /\ registered \ registered' \subseteq gone
           /\ UNCHANGED socketVars
           /\ \A q \in Publishes : place'[q] = "returned" =>
                 \/ place[q] = "returned" /\ stale'[q] = stale[q]
                 \/ registered' \cap stale'[q] = {}
                 \/ place[q] = "idle" /\ registered' = {}
  <1> USE DEF TypeInv, TypeOK
  <1>1. CASE Begin(p)
    BY <1>1 DEF Begin
  <1>2. CASE SendReturns(p)
    BY <1>2 DEF SendReturns, Advance, Register
  <1>3. CASE SendFails(p)
    BY <1>3 DEF SendFails, Advance, Register
  <1>4. CASE SendBreaks(p)
    BY <1>4 DEF SendBreaks
  <1> QED
    BY <1>1, <1>2, <1>3, <1>4

LEMMA NextRegistry ==
    ASSUME TypeInv, NoLeak, ListenersAreKept, [Next]_vars
    PROVE  NoLeak' /\ ListenersAreKept'
  <1>1. ASSUME NEW s \in Sockets, Connect(s)
        PROVE  NoLeak' /\ ListenersAreKept'
    <2>1. \A p \in Publishes : s \notin stale[p]
      BY <1>1 DEF Connect, TypeInv, TypeOK, GoneOnce
    <2> QED
      BY <1>1, <2>1 DEF Connect, Register, loopVars, TypeInv, TypeOK, NoLeak, ListenersAreKept
  <1>2. ASSUME NEW s \in Sockets, Leave(s) \/ HandlerEnds(s) \/ HandlerBreaks(s)
        PROVE  NoLeak' /\ ListenersAreKept'
    BY <1>2 DEF Leave, HandlerEnds, HandlerBreaks, AfterDisconnect, Register, loopVars, TypeInv,
                TypeOK, NoLeak, ListenersAreKept
  <1>3. ASSUME NEW p \in Publishes, Begin(p) \/ SendReturns(p) \/ SendFails(p) \/ SendBreaks(p)
        PROVE  NoLeak' /\ ListenersAreKept'
    BY <1>3, PublishCleans DEF socketVars, NoLeak, ListenersAreKept
  <1>4. CASE UNCHANGED vars
    BY <1>4 DEF vars, socketVars, loopVars, NoLeak, ListenersAreKept
  <1> QED
    BY <1>1, <1>2, <1>3, <1>4 DEF Next, Done

LEMMA RegistryHolds == Spec => [](NoLeak /\ ListenersAreKept)
  <1>1. Init => NoLeak /\ ListenersAreKept
    BY DEF Init, NoLeak, ListenersAreKept
  <1> QED
    BY <1>1, NextRegistry, TypesHold, PTL DEF Spec

\* Whatever publishes do meanwhile, a socket outlives its handler in the
\* registry only when the handler was left by an unexpected exception, and
\* only until a publish has found it stale.
THEOREM NothingLeaks == Spec => []NoLeak
  BY RegistryHolds, PTL

\* No client that is there is ever taken out.
THEOREM ListenersStay == Spec => []ListenersAreKept
  BY RegistryHolds, PTL
-----------------------------------------------------------------------------
(***************************************************************************)
(* Whom a publish reaches.                                                 *)
(***************************************************************************)
\* While nobody comes or goes, a publish iterates over the registry itself,
\* and each element it has got was sent to, is stale, or is being sent to.
QuietLoop ==
    \A p \in Publishes :
        /\ place[p] = "idle" => members[p] = {}
        /\ place[p] = "sending" =>
              /\ ~ changed[p] => registered = members[p]
              /\ yielded[p] \subseteq sent[p] \cup stale[p] \cup {at[p]}

LEMMA RegisterKeeps ==
    ASSUME TypeInv, QuietLoop, NEW new, Register(new), UNCHANGED loopVars
    PROVE  QuietLoop'
  <1>1. /\ registered' = new
        /\ \A p \in Publishes : changed'[p] <=> changed[p] \/ (place[p] = "sending" /\ new # registered)
    BY RegisterType
  <1> QED
    BY <1>1 DEF QuietLoop, loopVars

LEMMA OthersQuiet ==
    ASSUME TypeInv, NEW p \in Publishes, NEW q \in Publishes, p # q,
           Begin(p) \/ SendReturns(p) \/ SendFails(p) \/ SendBreaks(p)
    PROVE  /\ place'[q] = place[q] /\ at'[q] = at[q] /\ members'[q] = members[q]
           /\ yielded'[q] = yielded[q] /\ stale'[q] = stale[q] /\ sent'[q] = sent[q]
           /\ place[q] = "sending" /\ ~ changed'[q] => UNCHANGED registered /\ ~ changed[q]
           /\ place[q] # "sending" => (changed'[q] <=> changed[q])
  <1>1. /\ place'[q] = place[q] /\ at'[q] = at[q] /\ members'[q] = members[q]
        /\ yielded'[q] = yielded[q] /\ stale'[q] = stale[q] /\ sent'[q] = sent[q]
    BY DEF Begin, SendReturns, SendFails, SendBreaks, Advance, TypeInv, TypeOK
  <1>2. CASE UNCHANGED <<registered, changed>>
    BY <1>1, <1>2
  <1>3. ASSUME NEW new, Register(new)
        PROVE  /\ place[q] = "sending" /\ ~ changed'[q] => UNCHANGED registered /\ ~ changed[q]
               /\ place[q] # "sending" => (changed'[q] <=> changed[q])
    BY <1>3, RegisterType
  <1>4. \/ UNCHANGED <<registered, changed>>
        \/ \E new \in SUBSET registered : Register(new)
    BY DEF Begin, SendReturns, SendFails, SendBreaks, Advance
  <1> QED
    BY <1>1, <1>2, <1>3, <1>4

LEMMA NextQuiet ==
    ASSUME TypeInv, QuietLoop, QuietPublishReaches, [Next]_vars
    PROVE  QuietLoop' /\ QuietPublishReaches'
  <1>1. ASSUME NEW s \in Sockets, Connect(s) \/ HandlerEnds(s) \/ Leave(s) \/ HandlerBreaks(s)
        PROVE  QuietLoop' /\ QuietPublishReaches'
    <2>1. QuietLoop'
      BY <1>1, RegisterKeeps DEF Connect, HandlerEnds, Leave, HandlerBreaks, QuietLoop, loopVars
    <2>2. /\ gone \subseteq gone' /\ UNCHANGED <<place, members, sent>>
          /\ \A p \in Publishes : place[p] = "returned" => changed'[p] = changed[p]
      BY <1>1 DEF Connect, HandlerEnds, Leave, HandlerBreaks, Register, loopVars, TypeInv, TypeOK
    <2> QED
      BY <2>1, <2>2 DEF QuietPublishReaches
  <1>2. ASSUME NEW p \in Publishes, Begin(p)
        PROVE  QuietLoop' /\ QuietPublishReaches'
    BY <1>2 DEF Begin, QuietLoop, QuietPublishReaches, socketVars, TypeInv, TypeOK
  <1>3. ASSUME NEW p \in Publishes, SendReturns(p) \/ SendFails(p) \/ SendBreaks(p)
        PROVE  QuietLoop' /\ QuietPublishReaches'
    <2>1. place[p] = "sending" /\ UNCHANGED gone /\ stale[p] \subseteq gone
      BY <1>3 DEF SendReturns, SendFails, SendBreaks, socketVars, TypeInv, TypeOK
    <2>2. CASE place'[p] = "sending"
      <3>1. /\ yielded'[p] \subseteq sent'[p] \cup stale'[p] \cup {at'[p]}
            /\ UNCHANGED registered /\ changed'[p] = changed[p] /\ members'[p] = members[p]
        BY <1>3, <2>1, <2>2 DEF SendReturns, SendFails, SendBreaks, Advance, QuietLoop, TypeInv, TypeOK
      <3> QED
        BY <2>1, <2>2, <3>1, <1>3, OthersQuiet DEF QuietLoop, QuietPublishReaches
    <2>3. CASE place'[p] = "returned" /\ ~ changed'[p]
      <3>1. /\ ~ changed[p] /\ members[p] \subseteq yielded[p] /\ UNCHANGED members
            /\ yielded[p] \subseteq sent'[p] \cup gone
        BY <1>3, <2>1, <2>3 DEF SendReturns, SendFails, SendBreaks, Advance, Register,
                                MayBeExhausted, QuietLoop, TypeInv, TypeOK
      <3> QED
        BY <2>1, <2>3, <3>1, <1>3, OthersQuiet DEF QuietLoop, QuietPublishReaches
    <2>4. CASE place'[p] = "raised" \/ (place'[p] = "returned" /\ changed'[p])
      BY <2>1, <2>4, <1>3, OthersQuiet DEF QuietLoop, QuietPublishReaches
    <2>5. place'[p] \in {"sending", "returned", "raised"}
      BY <1>3 DEF SendReturns, SendFails, SendBreaks, Advance, TypeInv, TypeOK
    <2> QED
      BY <2>2, <2>3, <2>4, <2>5
  <1>4. CASE UNCHANGED vars
    BY <1>4 DEF vars, socketVars, loopVars, QuietLoop, QuietPublishReaches
  <1> QED
    BY <1>1, <1>2, <1>3, <1>4 DEF Next, Done

\* A publish that returns while nobody came or went has reached every
\* subscriber that was there.
THEOREM QuietReaches == Spec => []QuietPublishReaches
  <1>1. Init => QuietLoop /\ QuietPublishReaches
    BY DEF Init, QuietLoop, QuietPublishReaches
  <1> QED
    BY <1>1, NextQuiet, TypesHold, PTL DEF Spec
=============================================================================
