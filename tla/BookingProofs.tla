--------------------------- MODULE BookingProofs ---------------------------
(***************************************************************************)
(* Proofs about Booking, and with it about the tool runtime its calls run  *)
(* through: for any set of calls, users and payloads, any limit and number *)
(* of retries, and every kind of fault.                                    *)
(***************************************************************************)
EXTENDS Booking, FiniteSetTheorems, TLAPS

(***************************************************************************)
(* Types.                                                                  *)
(***************************************************************************)
LEMMA Membership ==
    /\ \A c \in Calls : UserOf[c] \in Users
    /\ \A c \in Calls : PayloadOf[c] \in Payloads
  BY DEF Users, Payloads

LEMMA InitType == Init => TypeOK
  BY ToolAssumption DEF Init, ToolInit, TypeOK, ToolTypeOK, Places

\* A call's way to the provider keeps the types.
LEMMA CallType ==
    ASSUME ToolTypeOK, NEW c \in Calls, Begin(c) \/ Continue(c) \/ Stop(c)
    PROVE  ToolTypeOK'
  <1> USE Membership DEF ToolTypeOK, Places, Move, history
  <1>1. CASE Count(c)
    BY <1>1 DEF Count
  <1>2. CASE CountFails(c)
    BY <1>2 DEF CountFails
  <1>3. CASE SetExpiry(c) \/ SetExpiryFails(c)
    <2>1. CASE SetExpiry(c)
      BY <2>1 DEF SetExpiry
    <2>2. CASE SetExpiryFails(c)
      BY <2>2 DEF SetExpiryFails
    <2> QED
      BY <1>3, <2>1, <2>2
  <1>4. CASE Hit(c) \/ Miss(c) \/ LookFails(c)
    BY <1>4 DEF Hit, Miss, LookFails
  <1>5. CASE Answer(c)
    BY <1>5, ToolAssumption DEF Answer
  <1>6. CASE RequestFails(c)
    BY <1>6, ToolAssumption DEF RequestFails, TryAgain
  <1>7. CASE RequestBreaks(c)
    BY <1>7, ToolAssumption DEF RequestBreaks
  <1>8. CASE Store(c) \/ StoreFails(c)
    BY <1>8 DEF Store, StoreFails
  <1>9. CASE Stop(c)
    BY <1>9, ToolAssumption DEF Stop
  <1> QED
    BY <1>1, <1>2, <1>3, <1>4, <1>5, <1>6, <1>7, <1>8, <1>9 DEF Begin, Continue

LEMMA NextType ==
    ASSUME TypeOK, [Next]_vars
    PROVE  TypeOK'
  <1>1. CASE ToolStep /\ UNCHANGED bookingVars
    <2>1. ToolTypeOK'
      <3>1. CASE \E i \in Users : WindowEnds(i)
        BY <3>1 DEF TypeOK, ToolTypeOK, WindowEnds, history
      <3>2. CASE \E p \in Payloads : ForgetResult(p)
        BY <3>2 DEF TypeOK, ToolTypeOK, ForgetResult, history
      <3> QED
        BY <1>1, <3>1, <3>2, CallType DEF TypeOK, ToolStep
    <2> QED
      BY <1>1, <2>1 DEF TypeOK, bookingVars
  <1>2. CASE \E c \in Calls : ServiceStep(c)
    BY <1>2 DEF TypeOK, ToolTypeOK, toolVars, history, ServiceStep, Persist, Insert, PersistFails, Refuse, Tell
  <1>3. CASE UNCHANGED vars
    BY <1>3 DEF TypeOK, ToolTypeOK, vars, toolVars, history, bookingVars
  <1> QED
    BY <1>1, <1>2, <1>3 DEF Next, Done

\* The variables of the runtime and of the service have their types.
THEOREM TypeCorrect == Spec => []TypeOK
  BY InitType, NextType, PTL DEF Spec
-----------------------------------------------------------------------------
(***************************************************************************)
(* The rate limit.                                                         *)
(***************************************************************************)
LimitInv == WindowInv /\ LimitHolds

\* Whoever is not counting itself leaves the counters alone.
LEMMA OnlyCountCounts ==
    ASSUME NEW c \in Calls, Continue(c) \/ Stop(c)
    PROVE  UNCHANGED <<count, passed>>
  BY DEF Continue, Stop, SetExpiry, SetExpiryFails, Hit, Miss, LookFails, Answer, RequestFails,
         RequestBreaks, Store, StoreFails

\* A set that gains an element gains at most one in size.
LEMMA OneMore ==
    ASSUME TypeOK, NEW i \in Users, NEW c \in Calls
    PROVE  /\ Cardinality(passed[i]) \in Nat
           /\ Cardinality(passed[i] \cup {c}) \in Nat
           /\ Cardinality(passed[i] \cup {c}) <= Cardinality(passed[i]) + 1
  <1>1. IsFiniteSet(passed[i])
    BY FS_Subset, ToolAssumption DEF TypeOK, ToolTypeOK
  <1>2. Cardinality(passed[i]) \in Nat
    BY <1>1, FS_CardinalityType
  <1>3. Cardinality(passed[i] \cup {c}) \in {Cardinality(passed[i]), Cardinality(passed[i]) + 1}
    BY <1>1, FS_AddElement
  <1> QED
    BY <1>2, <1>3

\* What LimitInv says of one user, and when a step keeps it.
Within(S, n) == Cardinality(S) \in Nat /\ Cardinality(S) <= n /\ Cardinality(S) <= MaxCalls

LEMMA LimitPerUser ==
    ASSUME TypeOK
    PROVE  LimitInv <=> \A i \in Users : Within(passed[i], count[i])
  <1>1. SUFFICES ASSUME NEW i \in Users
                 PROVE  Cardinality(passed[i]) \in Nat
    BY DEF LimitInv, WindowInv, LimitHolds, Within
  <1>2. IsFiniteSet(passed[i])
    BY FS_Subset, ToolAssumption DEF TypeOK, ToolTypeOK
  <1> QED
    BY <1>2, FS_CardinalityType

LEMMA CountLimit ==
    ASSUME TypeOK, LimitInv, NEW c \in Calls, Begin(c), NEW j \in Users
    PROVE  Within(passed'[j], count'[j])
  <1>1. Within(passed[j], count[j]) /\ count[j] \in Nat
    BY LimitPerUser DEF TypeOK, ToolTypeOK
  <1>2. Within(passed[j], count[j] + 1)
    BY <1>1 DEF Within
  <1>3. ASSUME count[j] + 1 <= MaxCalls
        PROVE  Within(passed[j] \cup {c}, count[j] + 1)
    <2> DEFINE size == Cardinality(passed[j])
               more == Cardinality(passed[j] \cup {c})
    <2>1. size \in Nat /\ more \in Nat /\ more <= size + 1
      BY OneMore
    <2>2. size <= count[j]
      BY <1>1 DEF Within
    <2>3. MaxCalls \in Nat
      BY ToolAssumption
    <2> HIDE DEF size, more
    <2>4. more <= count[j] + 1 /\ more <= MaxCalls
      BY <1>1, <1>3, <2>1, <2>2, <2>3
    <2> QED
      BY <2>1, <2>4 DEF Within, more
  <1>4. CASE Count(c)
    <2>1. \/ passed'[j] = passed[j] /\ count'[j] \in {count[j], count[j] + 1}
          \/ /\ ~ TooMany(count[j] + 1)
             /\ passed'[j] = passed[j] \cup {c} /\ count'[j] = count[j] + 1
      BY <1>4 DEF Count, TypeOK, ToolTypeOK
    <2>2. ~ TooMany(count[j] + 1) => count[j] + 1 <= MaxCalls
      BY <1>1, ToolAssumption DEF TooMany
    <2> QED
      BY <1>1, <1>2, <1>3, <2>1, <2>2
  <1>5. CASE CountFails(c)
    <2>1. passed'[j] = passed[j] /\ count'[j] \in {count[j], count[j] + 1}
      BY <1>5 DEF CountFails, TypeOK, ToolTypeOK
    <2> QED
      BY <1>1, <1>2, <2>1
  <1> QED
    BY <1>4, <1>5 DEF Begin

LEMMA NextLimit ==
    ASSUME TypeOK, TypeOK', LimitInv, [Next]_vars
    PROVE  LimitInv'
  <1>1. (\A i \in Users : Within(passed'[i], count'[i])) => LimitInv'
    BY DEF LimitInv, WindowInv, LimitHolds, Within
  <1>2. CASE \E i \in Users : WindowEnds(i)
    <2>1. PICK i \in Users : WindowEnds(i)
      BY <1>2
    <2>2. /\ passed'[i] = {} /\ count'[i] = 0
          /\ \A j \in Users \ {i} : count'[j] = count[j] /\ passed'[j] = passed[j]
      BY <2>1 DEF WindowEnds, TypeOK, ToolTypeOK
    <2>3. Within({}, 0)
      BY FS_EmptySet, ToolAssumption DEF Within
    <2>4. \A j \in Users : Within(passed'[j], count'[j])
      BY <2>2, <2>3, LimitPerUser
    <2> QED
      BY <1>1, <2>4
  <1>3. CASE UNCHANGED <<count, passed>>
    BY <1>3 DEF LimitInv, WindowInv, LimitHolds
  <1>4. CASE \E c \in Calls : Begin(c)
    BY <1>1, <1>4, CountLimit
  <1> QED
    BY <1>2, <1>3, <1>4, OnlyCountCounts
    DEF Next, ToolStep, ForgetResult, ServiceStep, Persist, PersistFails, Refuse, Done, vars, toolVars

LEMMA LimitsHold == Spec => []LimitInv
  <1>1. Init => LimitInv
    BY FS_EmptySet, ToolAssumption DEF Init, ToolInit, LimitInv, WindowInv, LimitHolds
  <1>2. TypeOK /\ TypeOK' /\ LimitInv /\ [Next]_vars => LimitInv'
    BY NextLimit
  <1> QED
    BY <1>1, <1>2, TypeCorrect, PTL DEF Spec

\* However calls interleave, no more of a user's calls pass while a counter
\* lives than the limit allows.
THEOREM LimitCorrect == Spec => []LimitHolds
  <1>1. LimitInv => LimitHolds
    BY DEF LimitInv
  <1> QED
    BY <1>1, LimitsHold, PTL
-----------------------------------------------------------------------------
(***************************************************************************)
(* Counters that never expire.                                             *)
(***************************************************************************)
\* Call c has made the counter of i and has not got to the end of its EXPIRE.
Culprit(c, i) == c = opener[i] /\ (place[c] = "expiring" \/ c \in unset)

OrphanInv == OpenerInv /\ OrphanedCounters

LEMMA BeginOrphans ==
    ASSUME TypeOK, OrphanInv, NEW c \in Calls, Begin(c), NEW i \in Users,
           count'[i] > 0, ~ timed'[i]
    PROVE  \E d \in Calls : Culprit(d, i)'
  <1> USE DEF TypeOK, ToolTypeOK, Begin, Count, CountFails, Move, history
  <1>1. /\ timed' = timed /\ unset \subseteq unset'
        /\ place[c] = "idle" /\ \A d \in Calls \ {c} : place'[d] = place[d]
    OBVIOUS
  <1>2. CASE UserOf[c] = i /\ count[i] = 0
    <2>1. CASE Count(c)
      BY <1>2, <2>1 DEF OpensWindow, Culprit
    <2>2. CASE CountFails(c)
      BY <1>2, <2>2 DEF Culprit
    <2> QED
      BY <2>1, <2>2
  <1>3. CASE ~ (UserOf[c] = i /\ count[i] = 0)
    <2>1. opener'[i] = opener[i] /\ count[i] > 0
      BY <1>3
    <2>2. PICK d \in Calls : Culprit(d, i)
      BY <1>1, <2>1 DEF OrphanInv, OrphanedCounters, Culprit
    <2>3. d = c => c \in unset
      BY <1>1, <2>2 DEF Culprit
    <2> QED
      BY <1>1, <2>1, <2>2, <2>3 DEF Culprit
  <1> QED
    BY <1>2, <1>3

\* The culprit of i stays one, unless it gives its counter a time to live.
LEMMA ContinueOrphans ==
    ASSUME TypeOK, OrphanInv, NEW c \in Calls, Continue(c) \/ Stop(c), NEW i \in Users,
           count'[i] > 0, ~ timed'[i]
    PROVE  \E d \in Calls : Culprit(d, i)'
  <1> USE DEF TypeOK, ToolTypeOK, Move, history
  <1>1. /\ UNCHANGED <<count, opener>> /\ unset \subseteq unset'
        /\ \A d \in Calls \ {c} : place'[d] = place[d]
    BY DEF Continue, SetExpiry, SetExpiryFails, Hit, Miss, LookFails, Answer, RequestFails, TryAgain,
           RequestBreaks, Store, StoreFails, Stop
  <1>2. timed[i] => timed'[i]
    BY Membership
    DEF Continue, SetExpiry, SetExpiryFails, Hit, Miss, LookFails, Answer, RequestFails,
        RequestBreaks, Store, StoreFails, Stop
  <1>3. PICK d \in Calls : Culprit(d, i)
    BY <1>1, <1>2 DEF OrphanInv, OrphanedCounters, Culprit
  <1>4. CASE d # c \/ c \in unset
    BY <1>1, <1>3, <1>4 DEF Culprit
  <1>5. CASE d = c /\ place[c] = "expiring"
    <2>1. UserOf[c] = i
      BY <1>3, <1>5 DEF OrphanInv, OpenerInv, Culprit
    <2>2. SetExpiryFails(c) \/ Stop(c)
      BY <1>5, <2>1
      DEF Continue, SetExpiry, Hit, Miss, LookFails, Answer, RequestFails, RequestBreaks, Store,
          StoreFails
    <2>3. c \in unset'
      BY <1>5, <2>2 DEF SetExpiryFails, Stop
    <2> QED
      BY <1>1, <1>3, <1>5, <2>3 DEF Culprit
  <1> QED
    BY <1>3, <1>4, <1>5 DEF Culprit

LEMMA NextOpener ==
    ASSUME TypeOK, OpenerInv, [Next]_vars
    PROVE  OpenerInv'
  <1> USE DEF TypeOK, ToolTypeOK, OpenerInv
  <1>1. CASE \E c \in Calls : Begin(c)
    BY <1>1 DEF Begin, Count, CountFails
  <1>2. CASE \E i \in Users : WindowEnds(i)
    BY <1>2, ToolAssumption DEF WindowEnds
  <1>3. CASE UNCHANGED opener
    BY <1>3
  <1>4. ASSUME NEW c \in Calls, Continue(c) \/ Stop(c)
        PROVE  UNCHANGED opener
    BY <1>4
    DEF Continue, SetExpiry, SetExpiryFails, Hit, Miss, LookFails, Answer, RequestFails,
        RequestBreaks, Store, StoreFails, Stop, history
  <1> QED
    BY <1>1, <1>2, <1>3, <1>4
    DEF Next, ToolStep, ForgetResult, ServiceStep, Persist, PersistFails, Refuse, Done, vars, toolVars,
        history

LEMMA NextOrphans ==
    ASSUME TypeOK, OrphanInv, [Next]_vars
    PROVE  OrphanInv'
  <1>1. OpenerInv'
    BY NextOpener DEF OrphanInv
  <1>2. CASE \E i \in Users : WindowEnds(i)
    BY <1>1, <1>2 DEF WindowEnds, OrphanInv, OrphanedCounters, TypeOK, ToolTypeOK
  <1>3. CASE UNCHANGED <<place, count, timed, history>>
    BY <1>3 DEF OrphanInv, OrphanedCounters, OpenerInv, history
  <1>4. CASE \E c \in Calls : Begin(c) \/ Continue(c) \/ Stop(c)
    BY <1>1, <1>4, BeginOrphans, ContinueOrphans DEF OrphanInv, OrphanedCounters, Culprit
  <1> QED
    BY <1>1, <1>2, <1>3, <1>4
    DEF Next, ToolStep, ForgetResult, ServiceStep, Persist, PersistFails, Refuse, Done, vars, toolVars,
        OrphanInv

LEMMA OrphansHold == Spec => []OrphanInv
  <1>1. Init => OrphanInv
    BY ToolAssumption DEF Init, ToolInit, OrphanInv, OrphanedCounters, OpenerInv
  <1>2. TypeOK /\ OrphanInv /\ [Next]_vars => OrphanInv'
    BY NextOrphans
  <1> QED
    BY <1>1, <1>2, TypeCorrect, PTL DEF Spec

\* A counter without a time to live is that of a call that has not got to the
\* end of the EXPIRE that goes with its INCR.
THEOREM OrphansExplained == Spec => []OrphanedCounters
  <1>1. OrphanInv => OrphanedCounters
    BY DEF OrphanInv
  <1> QED
    BY <1>1, OrphansHold, PTL
-----------------------------------------------------------------------------
(***************************************************************************)
(* What an accepted booking rests on.                                      *)
(***************************************************************************)
LEMMA CallResult ==
    ASSUME TypeOK, ResultInv, NEW c \in Calls, Begin(c) \/ Continue(c) \/ Stop(c),
           UNCHANGED bookingVars
    PROVE  ResultInv'
  <1> USE Membership, ToolAssumption DEF TypeOK, ToolTypeOK, bookingVars, Move
  <1>1. /\ place[c] \notin Over
        /\ \A d \in Calls \ {c} : place'[d] = place[d] /\ result'[d] = result[d]
    BY DEF Begin, Continue, Count, CountFails, SetExpiry, SetExpiryFails, Hit, Miss, LookFails,
           Answer, RequestFails, TryAgain, RequestBreaks, Store, StoreFails, Stop, Over
  <1>2. \A p \in Payloads : cache'[p] # NoResult => PayloadOf[cache'[p]] = p
    <2>1. CASE Store(c) \/ StoreFails(c)
      BY <2>1 DEF Store, StoreFails, ResultInv
    <2>2. CASE UNCHANGED cache
      BY <2>2 DEF ResultInv
    <2> QED
      BY <2>1, <2>2
      DEF Begin, Continue, Count, CountFails, SetExpiry, SetExpiryFails, Hit, Miss, LookFails,
          Answer, RequestFails, RequestBreaks, Stop
  <1>3. place'[c] \in {"storing", "returned"} =>
            result'[c] # NoResult /\ PayloadOf[result'[c]] = PayloadOf[c]
    <2>1. CASE Hit(c)
      BY <2>1 DEF Hit, ResultInv
    <2>2. CASE Answer(c)
      BY <2>2 DEF Answer
    <2>3. CASE Store(c)
      BY <2>3 DEF Store, ResultInv
    <2>4. CASE ~ (Hit(c) \/ Answer(c) \/ Store(c))
      BY <2>4
      DEF Begin, Continue, Count, CountFails, SetExpiry, SetExpiryFails, Miss, LookFails,
          RequestFails, TryAgain, RequestBreaks, StoreFails, Stop
    <2> QED
      BY <2>1, <2>2, <2>3, <2>4
  <1> QED
    BY <1>1, <1>2, <1>3 DEF ResultInv, Over

LEMMA NextResult ==
    ASSUME TypeOK, ResultInv, [Next]_vars
    PROVE  ResultInv'
  <1>1. CASE \E c \in Calls : ServiceStep(c)
    BY <1>1
    DEF TypeOK, ResultInv, toolVars, ServiceStep, Persist, Insert, PersistFails, Refuse, Tell
  <1>2. CASE (\E i \in Users : WindowEnds(i)) /\ UNCHANGED bookingVars
    BY <1>2 DEF ResultInv, WindowEnds, bookingVars
  <1>3. CASE (\E p \in Payloads : ForgetResult(p)) /\ UNCHANGED bookingVars
    BY <1>3 DEF TypeOK, ToolTypeOK, ResultInv, ForgetResult, bookingVars
  <1>4. CASE UNCHANGED vars
    BY <1>4 DEF ResultInv, vars, toolVars, bookingVars
  <1> QED
    BY <1>1, <1>2, <1>3, <1>4, CallResult DEF Next, ToolStep, Done

LEMMA ResultsHold == Spec => []ResultInv
  <1>1. Init => ResultInv
    BY DEF Init, ToolInit, ResultInv
  <1>2. TypeOK /\ ResultInv /\ [Next]_vars => ResultInv'
    BY NextResult
  <1> QED
    BY <1>1, <1>2, TypeCorrect, PTL DEF Spec

\* A client is told "accepted" only over a row and a provider's answer to
\* the payload it asked for.
THEOREM BackedCorrect == Spec => []AcceptedIsBacked
  <1>1. ResultInv => AcceptedIsBacked
    BY DEF ResultInv, AcceptedIsBacked
  <1> QED
    BY <1>1, ResultsHold, PTL

\* All that the proofs above rest on.
THEOREM InvariantHolds == Spec => []IInv
  <1>1. TypeOK /\ LimitInv /\ OrphanInv /\ ResultInv => IInv
    BY DEF IInv, LimitInv, OrphanInv
  <1> QED
    BY <1>1, TypeCorrect, LimitsHold, OrphansHold, ResultsHold, PTL
=============================================================================
