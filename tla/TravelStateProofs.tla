------------------------ MODULE TravelStateProofs ------------------------
(***************************************************************************)
(* The proofs about the contents of a travel workflow's state, for every   *)
(* set of requests that the schema lets through and for any nodes whose    *)
(* completion event may fail.                                              *)
(*                                                                         *)
(* The engine's part is that of WorkflowEngineProofs.  What is new is that *)
(* the state is a fixed point: every answer in it is the one its agent     *)
(* would come to again (AnswersInv).  For that, an answer must never       *)
(* change once it is merged, and everything it is made from must be there  *)
(* before it is made, the graph's edges or the engine's waves seeing to it.*)
(***************************************************************************)
EXTENDS TravelState, WorkflowEngineProofs, SequenceTheorems

USE GraphAssumption, PositionAssumption
-----------------------------------------------------------------------------
(***************************************************************************)
(* The travel graph.                                                       *)
(***************************************************************************)

\* The levels of the travel graph.
LEMMA TravelLeveling == IsLeveling(TravelLevel)
  <1>1. Nodes = TravelNodes /\ DependsOn = TravelDependsOn
    BY TravelAssumption
  <1>2. TravelLevel \in [Nodes -> Nat]
    BY <1>1 DEF TravelLevel, TravelNodes
  <1>3. ASSUME NEW n \in Nodes
        PROVE  \/ DependsOn[n] = {} /\ TravelLevel[n] = 0
               \/ /\ \A m \in DependsOn[n] : m \in Nodes /\ TravelLevel[m] < TravelLevel[n]
                  /\ \E m \in DependsOn[n] : TravelLevel[m] + 1 = TravelLevel[n]
    BY <1>1 DEF TravelLevel, TravelDependsOn, TravelNodes
  <1> QED
    BY <1>2, <1>3 DEF IsLeveling

\* The levels of each node, one by one.
LEMMA Levels ==
    /\ \A n \in Nodes : TravelLevel[n] \in Nat
    /\ {"supervise", "requirements", "destination", "flights", "hotels", "food", "weather",
         "budget", "activities", "itinerary", "validation", "final_plan"} = Nodes
    /\ TravelLevel["supervise"] = 0
    /\ TravelLevel["requirements"] = 1
    /\ \A n \in {"destination", "flights", "hotels", "food", "weather"} : TravelLevel[n] = 2
    /\ \A n \in {"budget", "activities"} : TravelLevel[n] = 3
    /\ TravelLevel["itinerary"] = 4
    /\ TravelLevel["validation"] = 5
    /\ TravelLevel["final_plan"] = 6
  BY TravelAssumption DEF TravelNodes, TravelLevel

\* Its keys and its agents' names are all different.
LEMMA TravelNames ==
    /\ \A m, n \in Nodes : Writes(m) = Writes(n) => m = n
    /\ \A m, n \in Nodes : AgentName[m] = AgentName[n] => m = n
    /\ \A n \in Nodes : Writes(n) \notin {"request", "workflow", "agent_outputs"}
    /\ \A n \in Nodes : AgentName[n] # "leaf"
    /\ \A n \in Nodes : n # "supervise" => Writes(n) = n
  <1>1. Nodes = TravelNodes
    BY TravelAssumption
  <1>2. /\ \A m, n \in Nodes : AgentName[m] = AgentName[n] => m = n
        /\ \A n \in Nodes : AgentName[n] # "leaf"
    BY <1>1 DEF TravelNodes, AgentName
  <1> QED
    BY <1>1, <1>2 DEF TravelNodes, Writes

\* The final plan is alone on the highest level.
LEMMA FinalLevel ==
    /\ "final_plan" \in Nodes
    /\ \A n \in Nodes \ {"final_plan"} : TravelLevel[n] < TravelLevel["final_plan"]
  BY TravelAssumption DEF TravelNodes, TravelLevel
-----------------------------------------------------------------------------
(***************************************************************************)
(* The engine's part.                                                      *)
(***************************************************************************)

\* What is known of the engine while it runs the travel graph.
RunInv ==
    /\ TypeOK /\ LoopInv /\ OrderInv /\ TraceInv /\ NothingYet /\ EndInv
    /\ LevelInv(TravelLevel)

\* A step of the workflow is one of the engine.
LEMMA DataSteps ==
    /\ DataLoop => EngineStep
    /\ \A n \in Nodes : DataTask(n) => NodeStep(n)
    /\ [DataNext]_<<vars, dataVars>> => [Next]_vars
  <1>1. DataLoop => EngineStep
    BY DEF DataLoop, EngineStep
  <1>2. \A n \in Nodes : DataTask(n) => NodeStep(n)
    BY DEF DataTask, NodeStep
  <1> QED
    BY <1>1, <1>2 DEF DataNext, Next

\* The engine starts as it does with any graph...
LEMMA InitRun == DataInit => RunInv
  <1> SUFFICES ASSUME DataInit
               PROVE  RunInv
    OBVIOUS
  <1>1. Init
    BY DEF DataInit
  <1>2. LevelInv(TravelLevel)
    BY <1>1 DEF Init, LevelInv
  <1> QED
    BY <1>1, <1>2, InitType, InitLoop, InitTrace, InitEnd DEF RunInv

\* ...and keeps its invariant, with the levels of the travel graph in it.
LEMMA NextRun ==
    ASSUME RunInv, [DataNext]_<<vars, dataVars>>
    PROVE  RunInv'
  <1> USE DEF RunInv
  <1>1. [Next]_vars
    BY DataSteps
  <1>2. TypeOK'
    BY <1>1, NextType
  <1>3. LoopInv' /\ OrderInv'
    BY <1>1, NextLoop
  <1>4. TraceInv' /\ NothingYet'
    BY <1>1, NextTrace, NothingYetStep
  <1>5. EndInv'
    BY <1>1, NextEnd
  <1>6. LevelInv(TravelLevel)'
    BY <1>1, TravelLeveling, NextLevel
  <1> QED
    BY <1>2, <1>3, <1>4, <1>5, <1>6

\* The levels of the travel graph are its waves.
LEMMA RunBarrier == RunInv => TravelBarrier
  <1>1. RunInv => BarrierHolds(TravelLevel)
    BY DEF RunInv, LoopInv, LevelInv, BarrierHolds
  <1> QED
    BY <1>1, TravelLeveling DEF TravelBarrier

\* The engine's invariant holds of the travel workflow.
LEMMA RunCorrect == DataSpec => []RunInv
  BY InitRun, NextRun, PTL DEF DataSpec

\* Whatever a node of the travel graph reads, of whichever lower level, is
\* complete when it starts, whether or not the graph has an edge for it.
THEOREM TravelBarrierCorrect == DataSpec => []TravelBarrier
  BY RunCorrect, RunBarrier, PTL
-----------------------------------------------------------------------------
(***************************************************************************)
(* The record's life: it is there once execute has begun, and what is in   *)
(* it is there because its node has started.                               *)
(***************************************************************************)
LEMMA PresenceStep ==
    ASSUME RunInv, PresenceInv, [DataNext]_<<vars, dataVars>>
    PROVE  PresenceInv'
  <1> USE DEF PresenceInv, RunInv
  <1>1. CASE DataLoop
    <2>1. CASE Initialize
      BY <2>1 DEF Initialize, FirstRecord, Goto
    <2>2. CASE Finish
      <3>1. memory'.present = memory.present /\ memory'.outputs = memory.outputs
        BY <2>2 DEF Finish, WithResult, TypeOK, Memory
      <3>2. control # "initialize" /\ UNCHANGED phase
        BY <2>2 DEF Finish, taskVars
      <3> QED
        BY <3>1, <3>2
    <2>3. CASE Schedule
      BY <2>3 DEF Schedule, TypeOK, Memory
    <2>4. CASE AnnounceStart \/ RaiseDeadlock \/ LeaveLoop \/ CollectSuccess \/ CollectFailure
               \/ AnnounceFailure \/ AnnounceEnd
      BY <2>4 DEF AnnounceStart, RaiseDeadlock, LeaveLoop, CollectSuccess, CollectFailure,
           AnnounceFailure, AnnounceEnd, Goto, Raise, taskVars
    <2> QED
      BY <1>1, <2>1, <2>2, <2>3, <2>4 DEF DataLoop
  <1>2. ASSUME NEW n \in Nodes, DataTask(n)
        PROVE  PresenceInv'
    <2>1. UNCHANGED control /\ \A m \in Nodes : phase[m] # "idle" => phase'[m] # "idle"
      BY <1>2, DataSteps, TaskMoves DEF loopVars
    <2>2. phase[n] # "idle"
      BY <1>2, DataSteps, TaskMoves
    <2>3. /\ memory'.present = memory.present
          /\ memory'.outputs \subseteq memory.outputs \cup {n}
      BY <1>2 DEF DataTask, StartNode, ReadMemory, AgentReturns, UpdateMemory, AnnounceNode,
           AnnounceFails, WithOutput, TypeOK, Memory
    <2>4. phase'[n] # "idle"
      BY <2>1, <2>2
    <2>5. memory'.outputs \subseteq Nodes
      BY <2>3 DEF TypeOK, Memory
    <2> QED
      BY <2>1, <2>3, <2>4, <2>5
  <1>3. CASE UNCHANGED vars
    BY <1>3 DEF vars, loopVars, taskVars
  <1> QED
    BY <1>1, <1>2, <1>3 DEF DataNext, Over

\* A node that has started can read all that comes before it.
LEMMA EarlierAreIn ==
    ASSUME RunInv, PresenceInv, NEW n \in Nodes, phase[n] # "idle"
    PROVE  \A m \in Nodes : TravelLevel[m] < TravelLevel[n] => m \in memory.outputs
  <1>1. control # "initialize"
    BY DEF RunInv, NothingYet
  <1>2. \A m \in Nodes : TravelLevel[m] < TravelLevel[n] => phase[m] = "done"
    BY RunBarrier DEF TravelBarrier, BarrierHolds
  <1> QED
    BY <1>1, <1>2 DEF PresenceInv, RunInv, TraceInv
-----------------------------------------------------------------------------
(***************************************************************************)
(* _deep_merge.                                                            *)
(***************************************************************************)

\* What an agent has written under agent_outputs, merged once more.
LEMMA MergedOutput ==
    ASSUME NEW a, NEW b
    PROVE  Merge3([data |-> a], [data |-> b]) =
             [data |-> IF IsDict(a) /\ IsDict(b) THEN Merge4(a, b) ELSE b]
  BY DEF Merge3, MergeWith

\* A dictionary without dictionaries in it, and those that nest one and two
\* levels deeper.
Flat(t) == t = [k \in DOMAIN t |-> t[k]] /\ \A k \in DOMAIN t : ~ IsDict(t[k])
Nested(t) == t = [k \in DOMAIN t |-> t[k]] /\ \A k \in DOMAIN t : IsDict(t[k]) => Flat(t[k])
Deep(t) == t = [k \in DOMAIN t |-> t[k]] /\ \A k \in DOMAIN t : IsDict(t[k]) => Nested(t[k])

\* What nests less deep may nest deeper.
LEMMA Nesting == \A t : (Flat(t) => Nested(t)) /\ (Nested(t) => Deep(t))
  BY DEF Flat, Nested, Deep

\* Merging an answer into itself, as a retry does, changes nothing.
LEMMA MergedTwice ==
    ASSUME NEW t, Deep(t)
    PROVE  Merge2(t, t) = t /\ Merge4(t, t) = t
  <1>1. ASSUME NEW u, Flat(u)
        PROVE  Merge4(u, u) = u /\ Merge6(u, u) = u
    BY <1>1 DEF Flat, Merge4, Merge6, MergeWith
  <1>2. ASSUME NEW u, Nested(u)
        PROVE  Merge3(u, u) = u /\ Merge5(u, u) = u
    BY <1>1, <1>2 DEF Nested, Merge3, Merge5, MergeWith
  <1> QED
    BY <1>2 DEF Deep, Merge2, Merge4, MergeWith
-----------------------------------------------------------------------------
(***************************************************************************)
(* The agents.                                                             *)
(***************************************************************************)
\* What each agent answers.
LEMMA SectionOf ==
    ASSUME NEW s
    PROVE  /\ \E v : Section("supervise", s) = Leaf(v)
           /\ Section("requirements", s) = Requirements(s.request.leaf)
           /\ Section("destination", s) = [highlights |-> Leaf(Highlights)]
           /\ Section("flights", s) =
                [options |-> Leaf(FlightOptions), ground_transport |-> Leaf("rail")]
           /\ Section("hotels", s) = [hotels |-> Leaf(HotelOptions)]
           /\ Section("food", s) = [restaurants |-> Leaf("two")]
           /\ Section("weather", s) = [forecast |-> Leaf("mild")]
           /\ Section("budget", s) =
                Budget(s.requirements.travelers.leaf, s.requirements.duration_days.leaf)
           /\ Section("activities", s) =
                Get(Get(s, "destination", <<>>), "highlights", Leaf(<<>>))
           /\ Section("itinerary", s) =
                Leaf(Itinerary(Get(s, "activities", Leaf(<<>>)).leaf,
                               s.requirements.duration_days.leaf))
           /\ Section("validation", s) = Validation(s)
           /\ Section("final_plan", s) = FinalPlan(s)
  BY DEF Section

\* The supervisor's answer is the same whatever it reads.
LEMMA SectionConstant ==
    ASSUME NEW s, NEW t, NEW n \in {"supervise", "destination", "flights", "hotels", "food", "weather"}
    PROVE  Section(n, s) = Section(n, t)
  BY DEF Section

\* An agent reads nothing but the request and the sections of lower levels.
LEMMA SectionReads ==
    ASSUME NEW n \in Nodes, NEW s, NEW t, t.request = s.request,
           \A m \in Nodes : TravelLevel[m] < TravelLevel[n] =>
              Writes(m) \in DOMAIN s /\ Writes(m) \in DOMAIN t /\ t[Writes(m)] = s[Writes(m)]
    PROVE  Section(n, t) = Section(n, s)
  <1> DEFINE Same(k) == k \in DOMAIN s /\ k \in DOMAIN t /\ t[k] = s[k]
  <1>1. \A m \in Nodes \ {"supervise"} : TravelLevel[m] < TravelLevel[n] => Same(m)
    BY TravelNames
  <1>2. /\ TravelLevel[n] > 1 => Same("requirements")
        /\ TravelLevel[n] > 2 => Same("destination") /\ Same("flights") /\ Same("hotels")
                                 /\ Same("food") /\ Same("weather")
        /\ TravelLevel[n] > 3 => Same("budget") /\ Same("activities")
        /\ TravelLevel[n] > 4 => Same("itinerary")
        /\ TravelLevel[n] > 5 => Same("validation")
    BY <1>1, Levels
  <1> HIDE DEF Same
  <1>3. \A k : Same(k) => \A default : Get(t, k, default) = Get(s, k, default)
    BY DEF Same, Get
  <1>4. \A k : Same(k) => t[k] = s[k]
    BY DEF Same
  <1>5. CASE n \in {"supervise", "destination", "flights", "hotels", "food", "weather"}
    BY <1>5, SectionConstant
  <1>6. CASE n = "requirements"
    <2>1. /\ Section("requirements", s) = Requirements(s.request.leaf)
          /\ Section("requirements", t) = Requirements(t.request.leaf)
      BY SectionOf
    <2> QED
      BY <1>6, <2>1
  <1>7. CASE n = "budget"
    <2>1. t.requirements = s.requirements
      BY <1>2, <1>4, <1>7, Levels
    <2>2. Section("budget", s) =
            Budget(s.requirements.travelers.leaf, s.requirements.duration_days.leaf)
      BY SectionOf
    <2>3. Section("budget", t) =
            Budget(t.requirements.travelers.leaf, t.requirements.duration_days.leaf)
      BY SectionOf
    <2> QED
      BY <1>7, <2>1, <2>2, <2>3
  <1>8. CASE n = "activities"
    <2>1. Get(t, "destination", <<>>) = Get(s, "destination", <<>>)
      BY <1>2, <1>3, <1>8, Levels
    <2> QED
      BY <1>8, <2>1, SectionOf
  <1>9. CASE n = "itinerary"
    <2>1. /\ t.requirements = s.requirements
          /\ Get(t, "activities", Leaf(<<>>)) = Get(s, "activities", Leaf(<<>>))
      BY <1>2, <1>3, <1>4, <1>9, Levels
    <2>2. Section("itinerary", s) =
            Leaf(Itinerary(Get(s, "activities", Leaf(<<>>)).leaf, s.requirements.duration_days.leaf))
      BY SectionOf
    <2>3. Section("itinerary", t) =
            Leaf(Itinerary(Get(t, "activities", Leaf(<<>>)).leaf, t.requirements.duration_days.leaf))
      BY SectionOf
    <2> QED
      BY <1>9, <2>1, <2>2, <2>3
  <1>10. CASE n = "validation"
    <2>1. /\ t.requirements = s.requirements
          /\ Get(t, "budget", <<>>) = Get(s, "budget", <<>>)
          /\ Get(t, "itinerary", Leaf(<<>>)) = Get(s, "itinerary", Leaf(<<>>))
      BY <1>2, <1>3, <1>4, <1>10, Levels
    <2>2. Validation(t) = Validation(s)
      BY <2>1 DEF Validation
    <2> QED
      BY <1>10, <2>2, SectionOf
  <1>11. CASE n = "final_plan"
    <2>1. \A section \in Sections \cup {"requirements"} : Same(section)
      BY <1>2, <1>11, Levels DEF Sections
    <2>2. FinalPlan(t) = FinalPlan(s)
      BY <1>3, <1>4, <2>1 DEF FinalPlan
    <2> QED
      BY <1>11, <2>2, SectionOf
  <1> QED
    BY <1>5, <1>6, <1>7, <1>8, <1>9, <1>10, <1>11, TravelAssumption DEF TravelNodes

\* A value in a leaf is replaced, never merged.
LEMMA LeafIsNoDict == \A v : ~ IsDict(Leaf(v))
  BY DEF IsDict, Leaf

\* No answer but the final plan nests more than two deep...
LEMMA SectionNested ==
    ASSUME NEW n \in Nodes \ {"final_plan"}, NEW s,
           n = "activities" =>
              "destination" \in DOMAIN s /\ s["destination"] = [highlights |-> Leaf(Highlights)]
    PROVE  IsDict(Section(n, s)) => Nested(Section(n, s))
  <1>1. CASE n \in {"supervise", "itinerary"}
    <2>1. \E v : Section(n, s) = Leaf(v)
      <3>1. CASE n = "supervise"
        BY <3>1, SectionOf
      <3>2. CASE n = "itinerary"
        BY <3>2 DEF Section
      <3> QED
        BY <1>1, <3>1, <3>2
    <2> QED
      BY <2>1, LeafIsNoDict
  <1>2. CASE n = "activities"
    <2>1. Get(s, "destination", <<>>) = [highlights |-> Leaf(Highlights)]
      BY <1>2 DEF Get
    <2>2. Get([highlights |-> Leaf(Highlights)], "highlights", Leaf(<<>>)) = Leaf(Highlights)
      BY DEF Get
    <2>3. Section("activities", s) = Get(Get(s, "destination", <<>>), "highlights", Leaf(<<>>))
      BY SectionOf
    <2>4. Section(n, s) = Leaf(Highlights)
      BY <1>2, <2>1, <2>2, <2>3
    <2> QED
      BY <2>4, LeafIsNoDict
  <1>3. CASE n = "requirements"
    <2>1. Flat(Requirements(s.request.leaf))
      BY LeafIsNoDict DEF Flat, Requirements
    <2> QED
      BY <1>3, <2>1, SectionOf, Nesting
  <1>4. CASE n \in {"destination", "flights", "hotels", "food", "weather"}
    <2>1. /\ Flat([highlights |-> Leaf(Highlights)])
          /\ Flat([options |-> Leaf(FlightOptions), ground_transport |-> Leaf("rail")])
          /\ Flat([hotels |-> Leaf(HotelOptions)])
          /\ Flat([restaurants |-> Leaf("two")])
          /\ Flat([forecast |-> Leaf("mild")])
      BY LeafIsNoDict DEF Flat
    <2>2. /\ Flat(Section("destination", s)) /\ Flat(Section("flights", s))
          /\ Flat(Section("hotels", s)) /\ Flat(Section("food", s))
          /\ Flat(Section("weather", s))
      BY <2>1, SectionOf, Zenon
    <2>3. Flat(Section(n, s))
      BY <1>4, <2>2, Zenon
    <2> QED
      BY <2>3, Nesting
  <1>5. CASE n = "budget"
    <2>1. ASSUME NEW travelers, NEW days
          PROVE  Nested(Budget(travelers, days))
      <3> DEFINE costs == Breakdown(travelers, days)
                 items == [item \in DOMAIN costs |-> Leaf(costs[item])]
      <3>1. Flat(items)
        BY LeafIsNoDict DEF Flat
      <3>2. Budget(travelers, days) = [breakdown |-> items, estimated_total |-> Leaf(Total(costs))]
        BY DEF Budget
      <3> HIDE DEF items
      <3> QED
        BY <3>1, <3>2, LeafIsNoDict DEF Nested
    <2> QED
      BY <1>5, <2>1, SectionOf
  <1>6. CASE n = "validation"
    <2>1. \A v, w : Flat([is_valid |-> Leaf(v), conflicts |-> Leaf(w)])
      BY LeafIsNoDict DEF Flat
    <2>2. Flat(Validation(s))
      BY <2>1 DEF Validation
    <2> QED
      BY <1>6, <2>2, SectionOf, Nesting
  <1> QED
    BY <1>1, <1>2, <1>3, <1>4, <1>5, <1>6, Levels

\* ...which nests a level more, as it is made of the others.
LEMMA PlanDeep ==
    ASSUME NEW s,
           \A section \in Sections \cup {"requirements"} :
              section \in DOMAIN s /\ (IsDict(s[section]) => Nested(s[section]))
    PROVE  Deep(FinalPlan(s))
  BY DEF FinalPlan, Get, Deep
-----------------------------------------------------------------------------
(***************************************************************************)
(* The state as a fixed point.                                             *)
(***************************************************************************)

\* What AnswersStay says of one step.
Keeps(s, t) ==
    \A k \in DOMAIN s \ {"agent_outputs", "workflow"} : k \in DOMAIN t /\ t[k] = s[k]

\* What an agent reads is in the state when its node has started...
LEMMA ReadsAreIn ==
    ASSUME RunInv, PresenceInv, KeysInv, NEW n \in Nodes, phase[n] # "idle"
    PROVE  \A m \in Nodes : TravelLevel[m] < TravelLevel[n] =>
              m \in memory.outputs /\ Writes(m) \in DOMAIN state
  BY EarlierAreIn DEF KeysInv

\* ...so that no later answer changes what it would say.
LEMMA SectionStays ==
    ASSUME RunInv, PresenceInv, KeysInv, RequestInv, NEW n \in Nodes, phase[n] # "idle",
           NEW t, Keeps(state, t)
    PROVE  Section(n, t) = Section(n, state)
  <1>1. \A m \in Nodes : TravelLevel[m] < TravelLevel[n] =>
           Writes(m) \in DOMAIN state /\ Writes(m) \in DOMAIN t /\ t[Writes(m)] = state[Writes(m)]
    BY ReadsAreIn, TravelNames DEF Keeps
  <1>2. t.request = state.request
    BY DEF Keeps, KeysInv
  <1> QED
    BY <1>1, <1>2, SectionReads

\* Every answer may be merged into itself.
LEMMA AnswerDeep ==
    ASSUME RunInv, PresenceInv, KeysInv, AnswersInv, NEW n \in Nodes, phase[n] # "idle"
    PROVE  IsDict(Section(n, state)) => Deep(Section(n, state))
  <1>1. ASSUME NEW m \in Nodes \ {"final_plan"}, TravelLevel[m] <= TravelLevel[n]
        PROVE  IsDict(Section(m, state)) => Nested(Section(m, state))
    <2>1. CASE m = "activities"
      <3>1. "destination" \in memory.outputs /\ Writes("destination") \in DOMAIN state
        BY <1>1, <2>1, Levels, ReadsAreIn
      <3>2. state["destination"] = [highlights |-> Leaf(Highlights)]
        <4>1. Section("destination", state) = [highlights |-> Leaf(Highlights)]
          BY SectionOf
        <4>2. Writes("destination") = "destination"
          BY Levels, TravelNames
        <4> QED
          BY <3>1, <4>1, <4>2 DEF AnswersInv
      <3>3. "destination" \in DOMAIN state
        BY <3>1, Levels, TravelNames
      <3> QED
        BY <2>1, <3>2, <3>3, SectionNested
    <2> QED
      BY <2>1, SectionNested
  <1>2. CASE n # "final_plan"
    BY <1>1, <1>2, Levels, Nesting
  <1>3. CASE n = "final_plan"
    <2>1. ASSUME NEW section \in Sections \cup {"requirements"}
          PROVE  section \in DOMAIN state /\ (IsDict(state[section]) => Nested(state[section]))
      <3>1. section \in Nodes \ {"supervise", "final_plan"}
        BY Levels DEF Sections
      <3>2. TravelLevel[section] < TravelLevel[n]
        BY <1>3, <3>1, FinalLevel
      <3>3. section \in memory.outputs /\ Writes(section) \in DOMAIN state
        BY <3>1, <3>2, ReadsAreIn
      <3>4. Writes(section) = section /\ state[section] = Section(section, state)
        BY <3>1, <3>3, TravelNames DEF AnswersInv
      <3>5. IsDict(Section(section, state)) => Nested(Section(section, state))
        BY <1>1, <3>1, <3>2, Levels
      <3> QED
        BY <3>3, <3>4, <3>5
    <2>2. Section("final_plan", state) = FinalPlan(state)
      BY SectionOf
    <2> QED
      BY <1>3, <2>1, <2>2, PlanDeep
  <1> QED
    BY <1>2, <1>3

\* The three parts of a patch.
LEMMA PatchOf ==
    ASSUME NEW n \in Nodes
    PROVE  /\ DOMAIN Patch(n) = {Writes(n), "agent_outputs", "workflow"}
           /\ Patch(n)[Writes(n)] = answer[n]
           /\ Patch(n)["agent_outputs"] = [agent \in {AgentName[n]} |-> [data |-> answer[n]]]
           /\ Patch(n)["workflow"] = [last_completed_node |-> Leaf(n)]
  BY TravelNames DEF Patch

\* An update of node n puts its answer in, again or for the first time, and
\* leaves all other answers alone.
LEMMA UpdateMerges ==
    ASSUME RunInv, PresenceInv, KeysInv, AnswersInv, OutputsInv, WorkflowInv,
           NEW n \in Nodes, phase[n] = "updating", state' = DeepMerge(state, Patch(n))
    PROVE  /\ DOMAIN state' = DOMAIN state \cup {Writes(n), "agent_outputs", "workflow"}
           /\ state'[Writes(n)] = Section(n, state)
           /\ Keeps(state, state')
           /\ state'["agent_outputs"] =
                 [agent \in {AgentName[m] : m \in memory.outputs \cup {n}} |->
                    state'["agent_outputs"][agent]]
           /\ state'["agent_outputs"][AgentName[n]] = [data |-> Section(n, state)]
           /\ \A m \in memory.outputs \ {n} :
                 state'["agent_outputs"][AgentName[m]] = state["agent_outputs"][AgentName[m]]
           /\ state'["workflow"] = Merge2(state["workflow"], [last_completed_node |-> Leaf(n)])
  <1> DEFINE a == Section(n, state)
             p == Patch(n)
             old == state["agent_outputs"]
             new == [agent \in {AgentName[n]} |-> [data |-> a]]
  <1>1. answer[n] = a /\ (IsDict(a) => Merge2(a, a) = a /\ Merge4(a, a) = a)
    BY AnswerDeep, MergedTwice DEF AnswersInv
  <1>2. /\ DOMAIN p = {Writes(n), "agent_outputs", "workflow"}
        /\ p[Writes(n)] = a /\ p["agent_outputs"] = new
        /\ p["workflow"] = [last_completed_node |-> Leaf(n)]
    <2>1. /\ DOMAIN Patch(n) = {Writes(n), "agent_outputs", "workflow"}
          /\ Patch(n)[Writes(n)] = answer[n]
          /\ Patch(n)["agent_outputs"] = [agent \in {AgentName[n]} |-> [data |-> answer[n]]]
          /\ Patch(n)["workflow"] = [last_completed_node |-> Leaf(n)]
      BY PatchOf, Zenon
    <2>2. answer[n] = a
      BY <1>1
    <2> HIDE DEF a
    <2> QED
      BY <2>1, <2>2, Zenon
  <1>3. n \in memory.outputs => Writes(n) \in DOMAIN state /\ state[Writes(n)] = a
    BY DEF KeysInv, AnswersInv
  <1>4. n \notin memory.outputs => Writes(n) \notin DOMAIN state
    <2>1. memory.outputs \subseteq Nodes
      BY DEF RunInv, TypeOK, Memory
    <2> QED
      BY <2>1, TravelNames DEF KeysInv
  <1> HIDE DEF a, p, old, new
  <1>5. /\ DOMAIN state' = DOMAIN state \cup DOMAIN p
        /\ \A k \in DOMAIN p \ DOMAIN state : state'[k] = p[k]
        /\ \A k \in DOMAIN state \ DOMAIN p : state'[k] = state[k]
        /\ \A k \in DOMAIN state \cap DOMAIN p : state'[k] =
              IF IsDict(state[k]) /\ IsDict(p[k]) THEN Merge2(state[k], p[k]) ELSE p[k]
    BY DEF p, DeepMerge, MergeWith
  <1>6. state'[Writes(n)] = a
    <2>1. CASE n \in memory.outputs
      BY <1>1, <1>2, <1>3, <1>5, <2>1
    <2>2. CASE n \notin memory.outputs
      BY <1>2, <1>4, <1>5, <2>2
    <2> QED
      BY <2>1, <2>2
  <1>7. Keeps(state, state')
    <2> SUFFICES ASSUME NEW k \in DOMAIN state \ {"agent_outputs", "workflow"}
                 PROVE  k \in DOMAIN state' /\ state'[k] = state[k]
      BY DEF Keeps
    <2>1. CASE k = Writes(n)
      BY <1>2, <1>3, <1>4, <1>5, <1>6, <2>1
    <2>2. CASE k # Writes(n)
      BY <1>2, <1>5, <2>2
    <2> QED
      BY <2>1, <2>2
  <1>8. /\ state'["agent_outputs"] =
              [agent \in {AgentName[m] : m \in memory.outputs \cup {n}} |->
                 state'["agent_outputs"][agent]]
        /\ state'["agent_outputs"][AgentName[n]] = [data |-> a]
        /\ \A m \in memory.outputs \ {n} : state'["agent_outputs"][AgentName[m]] = old[AgentName[m]]
    <2>1. CASE memory.outputs = {}
      <3>1. "agent_outputs" \notin DOMAIN state
        BY <2>1 DEF KeysInv
      <3>2. state'["agent_outputs"] = new
        BY <1>2, <1>5, <3>1
      <3> QED
        BY <2>1, <3>2 DEF new
    <2>2. CASE memory.outputs # {}
      <3>1. /\ "agent_outputs" \in DOMAIN state
            /\ DOMAIN old = {AgentName[m] : m \in memory.outputs}
            /\ DOMAIN new = {AgentName[n]} /\ new[AgentName[n]] = [data |-> a]
        BY <2>2 DEF KeysInv, OutputsInv, old, new
      <3>2. memory.outputs \subseteq Nodes
        BY DEF RunInv, TypeOK, Memory
      <3>3. IsDict(old) /\ IsDict(new)
        BY <2>2, <3>1, <3>2, TravelNames DEF IsDict
      <3>4. state'["agent_outputs"] = Merge2(old, new)
        BY <1>2, <1>5, <3>1, <3>3 DEF old
      <3>5. AgentName[n] \in DOMAIN old => old[AgentName[n]] = [data |-> a]
        BY <1>3, <2>2, <3>1, <3>2, TravelNames DEF OutputsInv, old
      <3>6. /\ Merge2(old, new) = [k \in DOMAIN old \cup DOMAIN new |-> Merge2(old, new)[k]]
            /\ \A k \in DOMAIN new \ DOMAIN old : Merge2(old, new)[k] = new[k]
            /\ \A k \in DOMAIN old \ DOMAIN new : Merge2(old, new)[k] = old[k]
            /\ \A k \in DOMAIN old \cap DOMAIN new : Merge2(old, new)[k] =
                  IF IsDict(old[k]) /\ IsDict(new[k]) THEN Merge3(old[k], new[k]) ELSE new[k]
        BY DEF Merge2, MergeWith
      <3>7. Merge2(old, new)[AgentName[n]] = [data |-> a]
        <4>1. CASE AgentName[n] \notin DOMAIN old
          BY <3>1, <3>6, <4>1
        <4>2. CASE AgentName[n] \in DOMAIN old
          <5>1. IsDict([data |-> a])
            BY DEF IsDict
          <5>2. Merge2(old, new)[AgentName[n]] = Merge3([data |-> a], [data |-> a])
            BY <3>1, <3>5, <3>6, <4>2, <5>1
          <5> QED
            BY <1>1, <5>2, MergedOutput
        <4> QED
          BY <4>1, <4>2
      <3>8. \A m \in memory.outputs \ {n} : Merge2(old, new)[AgentName[m]] = old[AgentName[m]]
        <4> SUFFICES ASSUME NEW m \in memory.outputs \ {n}
                     PROVE  Merge2(old, new)[AgentName[m]] = old[AgentName[m]]
          OBVIOUS
        <4>1. AgentName[m] \in DOMAIN old \ DOMAIN new
          BY <3>1, <3>2, TravelNames
        <4> QED
          BY <3>6, <4>1
      <3>9. DOMAIN old \cup DOMAIN new = {AgentName[m] : m \in memory.outputs \cup {n}}
        BY <3>1
      <3> QED
        BY <3>4, <3>7, <3>8, <3>9, <3>6
    <2> QED
      BY <2>1, <2>2
  <1>9. state'["workflow"] = Merge2(state["workflow"], [last_completed_node |-> Leaf(n)])
    <2>1. "workflow" \in DOMAIN state /\ IsDict(state["workflow"])
      BY DEF KeysInv, WorkflowInv, IsDict
    <2>2. IsDict([last_completed_node |-> Leaf(n)])
      BY DEF IsDict
    <2> QED
      BY <1>2, <1>5, <2>1, <2>2
  <1> QED
    BY <1>2, <1>5, <1>6, <1>7, <1>8, <1>9 DEF a, old
-----------------------------------------------------------------------------
(***************************************************************************)
(* The steps.                                                              *)
(***************************************************************************)
StateInv == KeysInv /\ RequestInv /\ AnswersInv /\ OutputsInv /\ WorkflowInv

\* Nothing is merged after the final plan.
LEMMA FinalIsLast ==
    ASSUME RunInv, PresenceInv, NEW n \in Nodes, phase[n] = "updating", "final_plan" \in memory.outputs
    PROVE  n = "final_plan"
  <1>1. phase["final_plan"] # "idle"
    BY DEF PresenceInv
  <1>2. n # "final_plan" => phase[n] = "done"
    BY <1>1, FinalLevel, RunBarrier DEF TravelBarrier, BarrierHolds
  <1> QED
    BY <1>2

\* The update of a node keeps the contents right.
LEMMA UpdateStep ==
    ASSUME RunInv, PresenceInv, StateInv, NEW n \in Nodes, UpdateMemory(n),
           state' = DeepMerge(state, Patch(n)), answer' = [answer EXCEPT ![n] = NoAnswer]
    PROVE  StateInv'
  <1> USE DEF StateInv
  <1>1. /\ phase[n] = "updating" /\ phase'[n] = "announcing"
        /\ \A m \in Nodes \ {n} : phase'[m] = phase[m]
        /\ memory'.outputs = memory.outputs \cup {n}
        /\ memory.outputs \subseteq Nodes
        /\ control' = control
    BY DEF UpdateMemory, Move, WithOutput, RunInv, TypeOK, Memory, loopVars
  <1>2. /\ DOMAIN state' = DOMAIN state \cup {Writes(n), "agent_outputs", "workflow"}
        /\ state'[Writes(n)] = Section(n, state)
        /\ Keeps(state, state')
        /\ state'["agent_outputs"] =
              [agent \in {AgentName[m] : m \in memory.outputs \cup {n}} |->
                 state'["agent_outputs"][agent]]
        /\ state'["agent_outputs"][AgentName[n]] = [data |-> Section(n, state)]
        /\ \A m \in memory.outputs \ {n} :
              state'["agent_outputs"][AgentName[m]] = state["agent_outputs"][AgentName[m]]
        /\ state'["workflow"] = Merge2(state["workflow"], [last_completed_node |-> Leaf(n)])
    BY <1>1, UpdateMerges
  <1>3. KeysInv'
    BY <1>1, <1>2 DEF KeysInv
  <1>4. RequestInv'
    BY <1>2 DEF KeysInv, RequestInv, Keeps
  <1>5. \A m \in Nodes : phase[m] # "idle" => Section(m, state') = Section(m, state)
    BY <1>2, SectionStays
  <1>6. \A m \in memory.outputs : state'[Writes(m)] = state[Writes(m)]
    BY <1>1, <1>2, TravelNames DEF KeysInv, Keeps
  <1>7. AnswersInv'
    <2>1. ASSUME NEW m \in memory'.outputs
          PROVE  state'[Writes(m)] = Section(m, state')
      BY <1>1, <1>2, <1>5, <1>6 DEF AnswersInv, PresenceInv
    <2>2. ASSUME NEW m \in Nodes, phase'[m] \in {"agent", "updating"}
          PROVE  answer'[m] = Section(m, state')
      BY <1>1, <1>5, <2>2 DEF AnswersInv
    <2> QED
      BY <2>1, <2>2 DEF AnswersInv
  <1>8. OutputsInv'
    <2>1. ASSUME NEW m \in memory'.outputs
          PROVE  state'["agent_outputs"][AgentName[m]] = [data |-> state'[Writes(m)]]
      BY <1>1, <1>2, <1>6 DEF OutputsInv
    <2> QED
      BY <1>1, <1>2, <2>1 DEF OutputsInv
  <1>9. WorkflowInv'
    <2> DEFINE old == state["workflow"]
               patch == [last_completed_node |-> Leaf(n)]
    <2>1. /\ Merge2(old, patch) = [k \in DOMAIN old \cup DOMAIN patch |-> Merge2(old, patch)[k]]
          /\ \A k \in DOMAIN patch : Merge2(old, patch)[k] = Leaf(n)
          /\ \A k \in DOMAIN old \ DOMAIN patch : Merge2(old, patch)[k] = old[k]
      BY LeafIsNoDict DEF Merge2, MergeWith
    <2>2. /\ DOMAIN patch = {"last_completed_node"}
          /\ DOMAIN old \cup DOMAIN patch =
                {"status", "completed_nodes", "failed_nodes", "last_completed_node"}
          /\ {"status", "completed_nodes", "failed_nodes"} \subseteq DOMAIN old
      BY DEF WorkflowInv
    <2>3. /\ old["status"] = Leaf(IF control \in {"announce_end", "returned"}
                                     THEN "completed" ELSE "running")
          /\ old["completed_nodes"] = Leaf(IF control \in {"announce_end", "returned"}
                                             THEN Nodes ELSE {})
          /\ old["failed_nodes"] = Leaf({})
      BY DEF WorkflowInv
    <2>4. "final_plan" \in memory'.outputs => n = "final_plan"
      BY <1>1, FinalIsLast
    <2> HIDE DEF old, patch
    <2>5. state'["workflow"] = Merge2(old, patch) /\ memory'.outputs # {}
      BY <1>1, <1>2 DEF old, patch
    <2> QED
      BY <1>1, <2>1, <2>2, <2>3, <2>4, <2>5 DEF WorkflowInv
  <1> QED
    BY <1>3, <1>4, <1>7, <1>8, <1>9

\* Steps that leave the contents alone, and bring no node to an attempt's
\* agent, keep them right.
LEMMA QuietStep ==
    ASSUME StateInv, UNCHANGED dataVars, memory'.outputs = memory.outputs,
           control' \in {"announce_end", "returned"} <=> control \in {"announce_end", "returned"},
           \A n \in Nodes : phase'[n] \in {"agent", "updating"} => phase[n] \in {"agent", "updating"}
    PROVE  StateInv'
  <1>1. state' = state /\ answer' = answer
    BY DEF dataVars
  <1>2. KeysInv' /\ RequestInv' /\ OutputsInv'
    BY <1>1 DEF StateInv, KeysInv, RequestInv, OutputsInv
  <1>3. AnswersInv'
    BY <1>1 DEF StateInv, AnswersInv
  <1>4. WorkflowInv'
    BY <1>1 DEF StateInv, WorkflowInv
  <1> QED
    BY <1>2, <1>3, <1>4 DEF StateInv

\* The engine's steps but its last update.
LEMMA LoopStep ==
    ASSUME RunInv, PresenceInv, StateInv, UNCHANGED dataVars,
           \/ Initialize \/ AnnounceStart \/ Schedule \/ RaiseDeadlock \/ LeaveLoop
           \/ CollectSuccess \/ CollectFailure \/ AnnounceFailure \/ AnnounceEnd
    PROVE  StateInv'
  <1>1. memory'.outputs = memory.outputs
    <2>1. CASE Initialize
      <3>1. \A n \in Nodes : phase[n] = "idle"
        BY <2>1 DEF RunInv, NothingYet, Initialize
      <3>2. memory.outputs \subseteq Nodes
        BY DEF RunInv, TypeOK, Memory
      <3> QED
        BY <2>1, <3>1, <3>2 DEF Initialize, FirstRecord, PresenceInv
    <2>2. CASE ~ Initialize
      BY <2>2 DEF AnnounceStart, Schedule, RaiseDeadlock, LeaveLoop, CollectSuccess,
           CollectFailure, AnnounceFailure, AnnounceEnd
    <2> QED
      BY <2>1, <2>2
  <1>2. control' \in {"announce_end", "returned"} <=> control \in {"announce_end", "returned"}
    BY DEF Initialize, AnnounceStart, Schedule, RaiseDeadlock, LeaveLoop, CollectSuccess,
       CollectFailure, AnnounceFailure, AnnounceEnd, Goto, Raise
  <1>3. \A n \in Nodes : phase'[n] \in {"agent", "updating"} => phase[n] \in {"agent", "updating"}
    BY DEF Initialize, AnnounceStart, Schedule, RaiseDeadlock, LeaveLoop, CollectSuccess,
       CollectFailure, AnnounceFailure, AnnounceEnd, taskVars
  <1> QED
    BY <1>1, <1>2, <1>3, QuietStep

\* The steps of a node but its update.
LEMMA TaskStep ==
    ASSUME RunInv, PresenceInv, StateInv, NEW n \in Nodes,
           \/ ReadMemory(n) /\ answer' = [answer EXCEPT ![n] = Section(n, state)] /\ UNCHANGED state
           \/ /\ StartNode(n) \/ AgentReturns(n) \/ AnnounceNode(n) \/ AnnounceFails(n)
              /\ UNCHANGED dataVars
    PROVE  StateInv'
  <1>1. /\ memory' = memory /\ control' = control
        /\ phase \in [Nodes -> Phases]
    BY DEF ReadMemory, StartNode, AgentReturns, AnnounceNode, AnnounceFails, loopVars, RunInv, TypeOK
  <1>2. CASE UNCHANGED dataVars /\ (StartNode(n) \/ AgentReturns(n) \/ AnnounceNode(n) \/ AnnounceFails(n))
    <2>1. \A m \in Nodes : phase'[m] \in {"agent", "updating"} => phase[m] \in {"agent", "updating"}
      BY <1>1, <1>2 DEF StartNode, AgentReturns, AnnounceNode, AnnounceFails, AttemptFails, Move
    <2> QED
      BY <1>1, <1>2, <2>1, QuietStep
  <1>3. CASE ReadMemory(n) /\ answer' = [answer EXCEPT ![n] = Section(n, state)] /\ UNCHANGED state
    <2>1. KeysInv' /\ RequestInv' /\ OutputsInv' /\ WorkflowInv'
      BY <1>1, <1>3 DEF StateInv, KeysInv, RequestInv, OutputsInv, WorkflowInv
    <2>2. AnswersInv'
      BY <1>1, <1>3 DEF StateInv, AnswersInv, ReadMemory, Move
    <2> QED
      BY <2>1, <2>2 DEF StateInv
  <1> QED
    BY <1>2, <1>3

\* The last update closes the workflow section and touches nothing else.
LEMMA FinishStep ==
    ASSUME RunInv, PresenceInv, StateInv, Finish, state' = DeepMerge(state, ClosingPatch),
           UNCHANGED answer
    PROVE  StateInv' /\ Keeps(state, state')
  <1> DEFINE old == state["workflow"]
             patch == [status |-> Leaf("completed"), completed_nodes |-> Leaf(completed)]
  <1>1. /\ control = "finish" /\ control' = "announce_end"
        /\ memory'.outputs = memory.outputs /\ UNCHANGED phase
        /\ completed = Nodes
    BY DEF Finish, Goto, WithResult, taskVars, RunInv, EndInv, TypeOK, Memory
  <1>2. /\ DOMAIN ClosingPatch = {"workflow"} /\ ClosingPatch["workflow"] = patch
        /\ IsDict(patch)
    BY DEF ClosingPatch, IsDict
  <1>3. "workflow" \in DOMAIN state /\ IsDict(old)
    BY DEF StateInv, KeysInv, WorkflowInv, IsDict
  <1>4. /\ DOMAIN state' = DOMAIN state
        /\ \A k \in DOMAIN state \ {"workflow"} : state'[k] = state[k]
        /\ state'["workflow"] = Merge2(old, patch)
    BY <1>2, <1>3 DEF DeepMerge, MergeWith
  <1>5. Keeps(state, state')
    BY <1>4 DEF Keeps
  <1>6. KeysInv' /\ RequestInv'
    BY <1>1, <1>4 DEF StateInv, KeysInv, RequestInv
  <1>7. AnswersInv'
    <2>1. memory.outputs \subseteq Nodes
      BY DEF RunInv, TypeOK, Memory
    <2>2. \A m \in Nodes : phase[m] # "idle" => Section(m, state') = Section(m, state)
      BY <1>5, SectionStays DEF StateInv
    <2>3. \A m \in memory.outputs : state'[Writes(m)] = state[Writes(m)]
      BY <1>4, <2>1, TravelNames DEF StateInv, KeysInv
    <2> QED
      BY <1>1, <2>1, <2>2, <2>3 DEF StateInv, AnswersInv, PresenceInv
  <1>8. OutputsInv'
    <2>1. memory.outputs \subseteq Nodes
      BY DEF RunInv, TypeOK, Memory
    <2>2. \A m \in memory.outputs : state'[Writes(m)] = state[Writes(m)]
      BY <1>4, <2>1, TravelNames DEF StateInv, KeysInv
    <2>3. memory.outputs # {} => state'["agent_outputs"] = state["agent_outputs"]
      BY <1>4 DEF StateInv, KeysInv
    <2> QED
      BY <1>1, <2>2, <2>3 DEF StateInv, OutputsInv
  <1>9. WorkflowInv'
    <2>1. /\ DOMAIN patch = {"status", "completed_nodes"}
          /\ patch["status"] = Leaf("completed") /\ patch["completed_nodes"] = Leaf(Nodes)
      BY <1>1
    <2>2. /\ Merge2(old, patch) = [k \in DOMAIN old \cup DOMAIN patch |-> Merge2(old, patch)[k]]
          /\ Merge2(old, patch)["status"] = Leaf("completed")
          /\ Merge2(old, patch)["completed_nodes"] = Leaf(Nodes)
          /\ \A k \in DOMAIN old \ DOMAIN patch : Merge2(old, patch)[k] = old[k]
      <3> HIDE DEF patch
      <3> QED
        BY <2>1, LeafIsNoDict DEF Merge2, MergeWith
    <2> QED
      BY <1>1, <1>4, <2>1, <2>2 DEF StateInv, WorkflowInv
  <1> QED
    BY <1>5, <1>6, <1>7, <1>8, <1>9 DEF StateInv

\* The contents are right from the start...
LEMMA InitState == DataInit => PresenceInv /\ StateInv
  <1> SUFFICES ASSUME DataInit
               PROVE  PresenceInv /\ StateInv
    OBVIOUS
  <1>1. control = "initialize" /\ memory.outputs = {} /\ \A n \in Nodes : phase[n] = "idle"
    BY DEF DataInit, Init, NoRecord
  <1>2. PICK request \in Requests : state = FirstState(request)
    BY DEF DataInit
  <1>3. /\ DOMAIN state = {"request", "workflow"} /\ state["request"] = Leaf(request)
        /\ state["workflow"] = [ status |-> Leaf("running"), completed_nodes |-> Leaf({}),
                                 failed_nodes |-> Leaf({}) ]
    BY <1>2 DEF FirstState
  <1>4. PresenceInv /\ KeysInv /\ RequestInv
    BY <1>1, <1>3 DEF PresenceInv, KeysInv, RequestInv
  <1>5. AnswersInv /\ OutputsInv
    BY <1>1 DEF DataInit, AnswersInv, OutputsInv
  <1>6. WorkflowInv
    BY <1>1, <1>3 DEF WorkflowInv
  <1> QED
    BY <1>4, <1>5, <1>6 DEF StateInv

\* ...and after every step, which keeps every answer as well.
LEMMA NextState ==
    ASSUME RunInv, PresenceInv, StateInv, [DataNext]_<<vars, dataVars>>
    PROVE  StateInv' /\ Keeps(state, state')
  <1>1. CASE DataLoop
    <2>1. CASE Finish /\ state' = DeepMerge(state, ClosingPatch) /\ UNCHANGED answer
      BY <2>1, FinishStep
    <2>2. CASE ~ (Finish /\ state' = DeepMerge(state, ClosingPatch) /\ UNCHANGED answer)
      <3>1. StateInv'
        BY <1>1, <2>2, LoopStep DEF DataLoop
      <3>2. state' = state
        BY <1>1, <2>2 DEF DataLoop, dataVars
      <3> QED
        BY <3>1, <3>2 DEF Keeps
    <2> QED
      BY <2>1, <2>2
  <1>2. ASSUME NEW n \in Nodes, DataTask(n)
        PROVE  StateInv' /\ Keeps(state, state')
    <2>1. CASE UpdateMemory(n) /\ state' = DeepMerge(state, Patch(n))
                 /\ answer' = [answer EXCEPT ![n] = NoAnswer]
      <3>1. phase[n] = "updating"
        BY <2>1 DEF UpdateMemory, Move
      <3> QED
        BY <2>1, <3>1, UpdateStep, UpdateMerges DEF StateInv
    <2>2. CASE ReadMemory(n) /\ answer' = [answer EXCEPT ![n] = Section(n, state)]
                 /\ UNCHANGED state
      BY <2>2, TaskStep DEF Keeps
    <2>3. CASE /\ StartNode(n) \/ AgentReturns(n) \/ AnnounceNode(n) \/ AnnounceFails(n)
               /\ UNCHANGED dataVars
      <3>1. StateInv'
        BY <2>3, TaskStep
      <3>2. state' = state
        BY <2>3 DEF dataVars
      <3> QED
        BY <3>1, <3>2 DEF Keeps
    <2> QED
      BY <1>2, <2>1, <2>2, <2>3 DEF DataTask
  <1>3. CASE UNCHANGED <<vars, dataVars>>
    <2>1. control' = control /\ phase' = phase /\ memory' = memory /\ UNCHANGED dataVars
      BY <1>3 DEF vars, loopVars, taskVars
    <2>2. StateInv'
      BY <2>1, QuietStep
    <2>3. state' = state
      BY <2>1 DEF dataVars
    <2> QED
      BY <2>2, <2>3 DEF Keeps
  <1> QED
    BY <1>1, <1>2, <1>3 DEF DataNext, Over

\* The inductive invariant of the workflow's contents.
LEMMA DataCorrect == DataSpec => [](RunInv /\ PresenceInv /\ StateInv)
  <1>1. DataInit => RunInv /\ PresenceInv /\ StateInv
    BY InitRun, InitState
  <1>2. RunInv /\ PresenceInv /\ StateInv /\ [DataNext]_<<vars, dataVars>>
          => (RunInv /\ PresenceInv /\ StateInv)'
    BY NextRun, PresenceStep, NextState
  <1> QED
    BY <1>1, <1>2, PTL DEF DataSpec

\* The state is a fixed point of its agents: every answer in it, and every
\* answer on its way there, is the one its agent would come to now, from the
\* request and from answers that are all in.
THEOREM ContentsCorrect == DataSpec => []DataInv
  <1>1. RunInv /\ PresenceInv /\ StateInv => DataInv
    BY RunBarrier DEF StateInv, DataInv
  <1> QED
    BY <1>1, DataCorrect, PTL

\* Whatever is merged, beside an answer or over it by a retry, leaves it as
\* it is.
THEOREM AnswersStayCorrect == DataSpec => AnswersStay
  <1>1. RunInv /\ PresenceInv /\ StateInv /\ [DataNext]_<<vars, dataVars>>
          => [Keeps(state, state')]_dataVars
    BY NextState
  <1> QED
    BY <1>1, DataCorrect, PTL DEF DataSpec, AnswersStay, Keeps
-----------------------------------------------------------------------------
(***************************************************************************)
(* The properties of what execute returns.                                 *)
(***************************************************************************)

\* When execute returns, every answer is in.
LEMMA AllAreIn ==
    ASSUME RunInv, PresenceInv, control = "returned"
    PROVE  /\ memory.outputs = Nodes
           /\ \A n \in Nodes : phase[n] # "idle"
  <1>1. \A n \in Nodes : phase[n] = "done"
    BY DEF RunInv, EndInv, LoopInv
  <1>2. Nodes \subseteq memory.outputs
    BY <1>1 DEF RunInv, TraceInv, PresenceInv
  <1> QED
    BY <1>1, <1>2 DEF RunInv, TypeOK, Memory

\* The returned state holds every agent's answer twice, the request and a
\* closed workflow section that has lost nothing to a concurrent update.
THEOREM StateIsWholeCorrect == DataSpec => []StateIsWhole
  <1>1. ASSUME RunInv, PresenceInv, StateInv, control = "returned"
        PROVE  /\ DOMAIN state = {Writes(n) : n \in Nodes} \cup {"request", "agent_outputs", "workflow"}
               /\ state["agent_outputs"] =
                     [agent \in {AgentName[n] : n \in Nodes} |->
                        [data |-> state[Writes(CHOOSE n \in Nodes : AgentName[n] = agent)]]]
               /\ state["workflow"] =
                     [ status |-> Leaf("completed"), completed_nodes |-> Leaf(Nodes),
                       failed_nodes |-> Leaf({}), last_completed_node |-> Leaf("final_plan") ]
    <2>1. memory.outputs = Nodes /\ "final_plan" \in Nodes
      BY <1>1, AllAreIn, FinalLevel
    <2>2. DOMAIN state = {Writes(n) : n \in Nodes} \cup {"request", "agent_outputs", "workflow"}
      BY <1>1, <2>1 DEF StateInv, KeysInv
    <2>3. \A n \in Nodes : (CHOOSE m \in Nodes : AgentName[m] = AgentName[n]) = n
      BY TravelNames
    <2>4. /\ state["agent_outputs"] =
                [agent \in {AgentName[n] : n \in Nodes} |-> state["agent_outputs"][agent]]
          /\ \A n \in Nodes : state["agent_outputs"][AgentName[n]] = [data |-> state[Writes(n)]]
      BY <1>1, <2>1 DEF StateInv, OutputsInv
    <2>5. \A agent \in {AgentName[n] : n \in Nodes} :
             state["agent_outputs"][agent] =
                [data |-> state[Writes(CHOOSE n \in Nodes : AgentName[n] = agent)]]
      BY <2>3, <2>4
    <2>6. state["agent_outputs"] =
             [agent \in {AgentName[n] : n \in Nodes} |->
                [data |-> state[Writes(CHOOSE n \in Nodes : AgentName[n] = agent)]]]
      BY <2>4, <2>5
    <2>7. state["workflow"] =
             [ status |-> Leaf("completed"), completed_nodes |-> Leaf(Nodes),
               failed_nodes |-> Leaf({}), last_completed_node |-> Leaf("final_plan") ]
      BY <1>1, <2>1 DEF StateInv, WorkflowInv
    <2> QED
      BY <2>2, <2>6, <2>7
  <1>2. RunInv /\ PresenceInv /\ StateInv => StateIsWhole
    BY <1>1 DEF StateIsWhole
  <1> QED
    BY <1>2, DataCorrect, PTL

\* The final plan and all that it is made from.
LEMMA PlanIsMade ==
    ASSUME RunInv, PresenceInv, StateInv, "final_plan" \in DOMAIN state
    PROVE  /\ "final_plan" \in memory.outputs
           /\ \A n \in Nodes \ {"supervise"} : n \in DOMAIN state /\ state[n] = Section(n, state)
  <1>1. memory.outputs \subseteq Nodes
    BY DEF RunInv, TypeOK, Memory
  <1>2. "final_plan" \in memory.outputs
    BY <1>1, FinalLevel, TravelNames DEF StateInv, KeysInv
  <1>3. phase["final_plan"] # "idle"
    BY <1>2 DEF PresenceInv
  <1>4. \A n \in Nodes : n \in memory.outputs
    BY <1>2, <1>3, FinalLevel, EarlierAreIn
  <1> QED
    BY <1>2, <1>4, TravelNames DEF StateInv, KeysInv, AnswersInv

\* The sections of the final plan are those of the state.
LEMMA PlanSections ==
    ASSUME RunInv, PresenceInv, StateInv, "final_plan" \in DOMAIN state
    PROVE  /\ DOMAIN state["final_plan"] = Sections \cup {"requirements"}
           /\ \A section \in Sections \cup {"requirements"} :
                 section \in DOMAIN state /\ state["final_plan"][section] = state[section]
  <1>1. Sections \cup {"requirements"} \subseteq Nodes \ {"supervise"}
    BY Levels DEF Sections
  <1>2. \A section \in Sections \cup {"requirements"} : section \in DOMAIN state
    BY <1>1, PlanIsMade
  <1>3. state["final_plan"] = FinalPlan(state)
    BY PlanIsMade, SectionOf, FinalLevel, Levels
  <1> QED
    BY <1>2, <1>3 DEF FinalPlan, Get

\* No section of the final plan is missing or older than the state's.
THEOREM PlanIsCurrentCorrect == DataSpec => []PlanIsCurrent
  <1>1. RunInv /\ PresenceInv /\ StateInv => PlanIsCurrent
    <2> SUFFICES ASSUME RunInv, PresenceInv, StateInv, control = "returned"
                 PROVE  \A section \in DOMAIN state["final_plan"] :
                           section \in DOMAIN state
                              /\ state["final_plan"][section] = state[section]
      BY DEF PlanIsCurrent
    <2>1. "final_plan" \in DOMAIN state
      BY AllAreIn, FinalLevel, TravelNames, Levels DEF StateInv, KeysInv
    <2> QED
      BY <2>1, PlanSections
  <1> QED
    BY <1>1, DataCorrect, PTL

\* A sequence that is written as a function is as long as its domain says.
LEMMA LenOfFunction ==
    ASSUME NEW n \in Nat, NEW s, s = [i \in 1 .. n |-> s[i]]
    PROVE  Len(s) = n /\ (n > 0 => s # <<>>)
  <1>1. s \in [1 .. n -> {s[i] : i \in 1 .. n}]
    OBVIOUS
  <1>2. s \in Seq({s[i] : i \in 1 .. n})
    <2>1. \A S : s \in [1 .. n -> S] => s \in UNION {[1 .. m -> S] : m \in Nat}
      BY Zenon
    <2> QED
      BY <1>1, <2>1, SeqDef, Zenon
  <1>3. Len(s) = n
    BY <1>2
  <1>4. n > 0 => s # <<>>
    BY <1>3
  <1> QED
    BY <1>3, <1>4

\* The days of a trip, and the request that asks for them.
LEMMA RequestOf ==
    ASSUME RunInv, PresenceInv, StateInv, "final_plan" \in DOMAIN state
    PROVE  /\ Request \in Requests
           /\ Duration(Request.dates) \in Nat \ {0}
           /\ state["requirements"] = Requirements(Request)
           /\ state["request"] = Leaf(Request)
  <1>1. PICK request \in Requests : state["request"] = Leaf(request)
    BY DEF StateInv, RequestInv
  <1>2. Request = request
    BY <1>1 DEF Request, Leaf
  <1>3. Duration(request.dates) \in Nat \ {0}
    BY RequestAssumption DEF ValidRequest, Duration, AtLeastOne
  <1>4. state["requirements"] = Requirements(Request)
    <2>1. "requirements" \in Nodes \ {"supervise"}
      BY Levels
    <2>2. Section("requirements", state) = Requirements(Request)
      BY SectionOf DEF Request
    <2> QED
      BY <2>1, <2>2, PlanIsMade
  <1> QED
    BY <1>1, <1>2, <1>3, <1>4

\* The itinerary of the final plan.
LEMMA PlannedDays ==
    ASSUME RunInv, PresenceInv, StateInv, "final_plan" \in DOMAIN state
    PROVE  /\ state["final_plan"]["itinerary"] = Leaf(Itinerary(Highlights, Duration(Request.dates)))
           /\ state["itinerary"] = Leaf(Itinerary(Highlights, Duration(Request.dates)))
           /\ Len(Itinerary(Highlights, Duration(Request.dates))) = Duration(Request.dates)
           /\ Itinerary(Highlights, Duration(Request.dates)) # <<>>
  <1> DEFINE D == Duration(Request.dates)
  <1>1. {"destination", "activities", "itinerary"} \subseteq Nodes \ {"supervise"}
    BY Levels
  <1>2. "destination" \in DOMAIN state /\ state["destination"] = [highlights |-> Leaf(Highlights)]
    <2>1. Section("destination", state) = [highlights |-> Leaf(Highlights)]
      BY SectionOf
    <2> QED
      BY <1>1, <2>1, PlanIsMade
  <1>3. "activities" \in DOMAIN state /\ state["activities"] = Leaf(Highlights)
    <2>1. Section("activities", state) =
             Get(Get(state, "destination", <<>>), "highlights", Leaf(<<>>))
      BY SectionOf
    <2>2. Section("activities", state) = Leaf(Highlights)
      BY <1>2, <2>1 DEF Get
    <2> QED
      BY <1>1, <2>2, PlanIsMade
  <1>4. state["requirements"].duration_days.leaf = D
    BY RequestOf DEF Requirements, Leaf
  <1>5. state["itinerary"] = Leaf(Itinerary(Highlights, D))
    <2>1. Section("itinerary", state) =
             Leaf(Itinerary(Get(state, "activities", Leaf(<<>>)).leaf,
                            state.requirements.duration_days.leaf))
      BY SectionOf
    <2>2. Get(state, "activities", Leaf(<<>>)).leaf = Highlights
      BY <1>3 DEF Get, Leaf
    <2>3. Section("itinerary", state) = Leaf(Itinerary(Highlights, D))
      BY <1>4, <2>1, <2>2
    <2> QED
      BY <1>1, <2>3, PlanIsMade
  <1>6. state["final_plan"]["itinerary"] = state["itinerary"]
    BY PlanSections DEF Sections
  <1>7. Len(Itinerary(Highlights, D)) = D /\ Itinerary(Highlights, D) # <<>>
    <2>1. Itinerary(Highlights, D) = [day \in 1 .. D |-> Itinerary(Highlights, D)[day]]
      BY DEF Itinerary
    <2>2. D \in Nat /\ D > 0
      BY RequestOf
    <2> HIDE DEF D
    <2> QED
      BY <2>1, <2>2, LenOfFunction
  <1> QED
    BY <1>5, <1>6, <1>7

\* What BudgetTool adds up to.
LEMMA TotalCost ==
    ASSUME NEW t \in Nat, NEW d \in Nat \ {0}
    PROVE  Total(Breakdown(t, d)) =
              t * (420 + 150 * d) + 145 * (IF d = 1 THEN 1 ELSE d - 1)
  <1>1. Total(Breakdown(t, d)) =
           420 * t + 145 * AtLeastOne(d - 1) + 55 * t * d + 70 * t * d + 25 * t * d
    BY DEF Total, Breakdown
  <1>2. AtLeastOne(d - 1) = IF d = 1 THEN 1 ELSE d - 1
    BY DEF AtLeastOne
  <1>3. 55 * t * d + 70 * t * d + 25 * t * d = t * (150 * d)
    OBVIOUS
  <1>4. t * (420 + 150 * d) = 420 * t + t * (150 * d)
    OBVIOUS
  <1> QED
    BY <1>1, <1>2, <1>3, <1>4

\* The plan is valid exactly when the client has named no budget or one that
\* covers what the trip costs.
THEOREM ValidMeansAffordableCorrect == DataSpec => []ValidMeansAffordable
  <1>1. ASSUME RunInv, PresenceInv, StateInv, "final_plan" \in DOMAIN state
        PROVE  LET days == Len(state["final_plan"]["itinerary"].leaf)
                   nights == IF days = 1 THEN 1 ELSE days - 1
                   cost == Request.travelers * (420 + 150 * days) + 145 * nights
               IN  state["final_plan"]["validation"].is_valid.leaf <=>
                       Request.budget = 0 \/ cost <= Request.budget
    <2> DEFINE d == Duration(Request.dates)
               t == Request.travelers
               total == Total(Breakdown(t, d))
    <2>1. Len(state["final_plan"]["itinerary"].leaf) = d
      BY <1>1, PlannedDays DEF Leaf
    <2>2. t \in Nat \ {0} /\ d \in Nat \ {0} /\ Request.budget \in Nat
      <3>1. Request \in Requests /\ d \in Nat \ {0}
        BY <1>1, RequestOf
      <3>2. ValidRequest(Request)
        BY <3>1, RequestAssumption
      <3> QED
        <4>1. t \in 1 .. 20 /\ Request.budget \in Nat
          BY <3>2, Zenon DEF ValidRequest
        <4> QED
          BY <3>1, <4>1
    <2>3. /\ state["requirements"].travelers.leaf = t
          /\ state["requirements"].duration_days.leaf = d
          /\ state["requirements"].budget_amount.leaf = Request.budget
      BY <1>1, RequestOf DEF Requirements, Leaf
    <2>4. {"budget", "itinerary", "validation"} \subseteq Nodes \ {"supervise"}
      BY Levels
    <2>5. "budget" \in DOMAIN state /\ state["budget"].estimated_total = Leaf(total)
          /\ "estimated_total" \in DOMAIN state["budget"]
      <3>1. Section("budget", state) = Budget(t, d)
        BY <2>3, SectionOf
      <3>2. "budget" \in DOMAIN state /\ state["budget"] = Budget(t, d)
        BY <1>1, <2>4, <3>1, PlanIsMade
      <3> QED
        BY <3>2 DEF Budget
    <2>6. Get(Get(state, "budget", <<>>), "estimated_total", Leaf(0)).leaf = total
      BY <2>5 DEF Get, Leaf
    <2>7. Get(state, "itinerary", Leaf(<<>>)).leaf # <<>>
      <3>1. "itinerary" \in DOMAIN state
        BY <1>1, <2>4, PlanIsMade
      <3>2. state["itinerary"] = Leaf(Itinerary(Highlights, d)) /\ Itinerary(Highlights, d) # <<>>
        BY <1>1, PlannedDays
      <3> QED
        BY <3>1, <3>2 DEF Get, Leaf
    <2>8. state["final_plan"]["validation"].is_valid.leaf <=> ~ ExceedsBudget(Request.budget, total)
      <3>1. state["final_plan"]["validation"] = state["validation"]
        BY <1>1, PlanSections DEF Sections
      <3>2. state["validation"] = Validation(state)
        BY <1>1, <2>4, PlanIsMade, SectionOf
      <3>3. Validation(state).is_valid.leaf <=> ~ ExceedsBudget(Request.budget, total)
        BY <2>3, <2>6, <2>7 DEF Validation, Leaf
      <3> QED
        BY <3>1, <3>2, <3>3
    <2>9. total = t * (420 + 150 * d) + 145 * (IF d = 1 THEN 1 ELSE d - 1)
      BY <2>2, TotalCost
    <2>10. total \in Nat \ {0}
      <3>1. t * (420 + 150 * d) \in Nat \ {0} /\ 145 * (IF d = 1 THEN 1 ELSE d - 1) \in Nat
        BY <2>2
      <3> HIDE DEF t, d
      <3> QED
        BY <2>9, <3>1
    <2> HIDE DEF t, d, total
    <2>11. state["final_plan"]["validation"].is_valid.leaf <=>
              Request.budget = 0 \/ total <= Request.budget
      BY <2>2, <2>8, <2>10 DEF ExceedsBudget
    <2> QED
      BY <2>1, <2>9, <2>11 DEF t
  <1>2. RunInv /\ PresenceInv /\ StateInv => ValidMeansAffordable
    BY <1>1 DEF ValidMeansAffordable
  <1> QED
    BY <1>2, DataCorrect, PTL

\* How many highlights day d of D gets.
Share(d, D) == IF D = 1 THEN 3 ELSE IF D = 2 THEN 3 - d ELSE 1

\* What is on each day: every D-th highlight from the day's own on.
LEMMA ItineraryDay ==
    ASSUME NEW D \in Nat \ {0}, NEW d \in 1 .. D
    PROVE  /\ Itinerary(Highlights, D)[d] =
                 [i \in 1 .. Share(d, D) |-> Itinerary(Highlights, D)[d][i]]
           /\ \A i \in 1 .. Share(d, D) :
                 Itinerary(Highlights, D)[d][i] =
                    IF d > 3 THEN "explore" ELSE Highlights[d + (i - 1) * D]
  <1> DEFINE items == Slice(Highlights, d, D)
  <1>1. Itinerary(Highlights, D)[d] = IF items = <<>> THEN Filler ELSE items
    BY DEF Itinerary
  <1>2. Len(Highlights) = 3
    BY DEF Highlights
  <1>3. CASE d > 3
    <2>1. items = <<>>
      BY <1>2, <1>3 DEF Slice
    <2>2. Share(d, D) = 1
      BY <1>3 DEF Share
    <2> QED
      BY <1>1, <1>3, <2>1, <2>2 DEF Filler
  <1>4. CASE d <= 3
    <2>1. ((3 - d) \div D) + 1 = Share(d, D)
      <3>1. CASE D = 1
        BY <1>4, <3>1 DEF Share
      <3>2. CASE D = 2
        BY <1>4, <3>2 DEF Share
      <3>3. CASE D > 2
        BY <1>4, <3>3 DEF Share
      <3> QED
        BY <3>1, <3>2, <3>3
    <2>2. items = [i \in 1 .. Share(d, D) |-> Highlights[d + (i - 1) * D]]
      <3>1. ~ (d > Len(Highlights))
        BY <1>2, <1>4
      <3>2. items = [i \in 1 .. ((Len(Highlights) - d) \div D) + 1 |-> Highlights[d + (i - 1) * D]]
        BY <3>1, Zenon DEF Slice
      <3> QED
        BY <1>2, <2>1, <3>2, Zenon
    <2>3. Share(d, D) \in Nat \ {0}
      BY <1>4 DEF Share
    <2>4. items # <<>>
      <3>1. items = [i \in 1 .. Share(d, D) |-> items[i]]
        BY <2>2
      <3> HIDE DEF items
      <3> QED
        BY <2>3, <3>1, LenOfFunction
    <2> HIDE DEF items
    <2>5. Itinerary(Highlights, D)[d] = items
      BY <1>1, <2>4
    <2> QED
      BY <1>4, <2>2, <2>5
  <1> QED
    BY <1>3, <1>4

\* Every highlight has one place on one day.
LEMMA PlacedOnce ==
    ASSUME NEW D \in Nat \ {0}, NEW k \in 1 .. 3
    PROVE  LET I == Itinerary(Highlights, D) IN
           \E d0 \in 1 .. D, i0 \in Nat :
              /\ i0 \in DOMAIN I[d0] /\ I[d0][i0] = Highlights[k]
              /\ \A d \in 1 .. D : \A i \in DOMAIN I[d] :
                    I[d][i] = Highlights[k] => d = d0 /\ i = i0
  <1> DEFINE I == Itinerary(Highlights, D)
             index(d, i) == d + (i - 1) * D
  <1>1. /\ \A i, j \in 1 .. 3 : Highlights[i] = Highlights[j] => i = j
        /\ \A i \in 1 .. 3 : Highlights[i] # "explore"
    BY DEF Highlights
  <1>2. ASSUME NEW d \in 1 .. D
        PROVE  /\ DOMAIN I[d] = 1 .. Share(d, D)
               /\ \A i \in 1 .. Share(d, D) :
                     I[d][i] = IF d > 3 THEN "explore" ELSE Highlights[index(d, i)]
    <2>1. /\ I[d] = [i \in 1 .. Share(d, D) |-> I[d][i]]
          /\ \A i \in 1 .. Share(d, D) :
                I[d][i] = IF d > 3 THEN "explore" ELSE Highlights[index(d, i)]
      BY ItineraryDay
    <2> HIDE DEF I, index
    <2> QED
      BY <2>1
  <1> HIDE DEF I
  <1>3. \A d \in 1 .. D : d <= 3 => \A i \in 1 .. Share(d, D) : index(d, i) \in 1 .. 3
    <2> SUFFICES ASSUME NEW d \in 1 .. D, d <= 3, NEW i \in 1 .. Share(d, D)
                 PROVE  index(d, i) \in 1 .. 3
      OBVIOUS
    <2>1. CASE D = 1
      BY <2>1 DEF Share
    <2>2. CASE D = 2
      BY <2>2 DEF Share
    <2>3. CASE D > 2
      <3>1. i = 1
        BY <2>3 DEF Share
      <3> QED
        BY <3>1
    <2> QED
      BY <2>1, <2>2, <2>3
  <1>4. \E d0 \in 1 .. D, i0 \in Nat :
           /\ d0 <= 3 /\ i0 \in 1 .. Share(d0, D) /\ index(d0, i0) = k
           /\ \A d \in 1 .. D : d <= 3 =>
                 \A i \in 1 .. Share(d, D) : index(d, i) = k => d = d0 /\ i = i0
    <2>1. CASE D = 1
      <3>1. 1 \in 1 .. D /\ k \in 1 .. Share(1, D) /\ index(1, k) = k
        BY <2>1 DEF Share
      <3>2. \A d \in 1 .. D : \A i \in 1 .. Share(d, D) : index(d, i) = k => d = 1 /\ i = k
        BY <2>1 DEF Share
      <3> QED
        BY <3>1, <3>2
    <2>2. CASE D = 2
      <3> DEFINE d0 == IF k = 2 THEN 2 ELSE 1
                 i0 == IF k = 3 THEN 2 ELSE 1
      <3>1. /\ d0 \in 1 .. D /\ d0 <= 3 /\ i0 \in Nat
            /\ i0 \in 1 .. Share(d0, D) /\ index(d0, i0) = k
        BY <2>2 DEF Share
      <3>2. \A d \in 1 .. D : \A i \in 1 .. Share(d, D) : index(d, i) = k => d = d0 /\ i = i0
        BY <2>2 DEF Share
      <3> HIDE DEF d0, i0
      <3> QED
        BY <3>1, <3>2
    <2>3. CASE D > 2
      <3>1. k \in 1 .. D /\ 1 \in 1 .. Share(k, D) /\ index(k, 1) = k
        BY <2>3 DEF Share
      <3>2. \A d \in 1 .. D : \A i \in 1 .. Share(d, D) : index(d, i) = k => d = k /\ i = 1
        BY <2>3 DEF Share
      <3> QED
        BY <3>1, <3>2
    <2> QED
      BY <2>1, <2>2, <2>3
  <1>5. PICK d0 \in 1 .. D, i0 \in Nat :
           /\ d0 <= 3 /\ i0 \in 1 .. Share(d0, D) /\ index(d0, i0) = k
           /\ \A d \in 1 .. D : d <= 3 =>
                 \A i \in 1 .. Share(d, D) : index(d, i) = k => d = d0 /\ i = i0
    BY <1>4
  <1> HIDE DEF index
  <1>6. i0 \in DOMAIN I[d0] /\ I[d0][i0] = Highlights[k]
    <2>1. DOMAIN I[d0] = 1 .. Share(d0, D) /\ i0 \in 1 .. Share(d0, D)
      BY <1>2, <1>5
    <2>2. I[d0][i0] = IF d0 > 3 THEN "explore" ELSE Highlights[index(d0, i0)]
      BY <1>2, <2>1
    <2> QED
      BY <1>5, <2>1, <2>2
  <1>7. ASSUME NEW d \in 1 .. D, NEW i \in DOMAIN I[d], I[d][i] = Highlights[k]
        PROVE  d = d0 /\ i = i0
    <2>1. i \in 1 .. Share(d, D)
      BY <1>2
    <2>2. Highlights[k] = IF d > 3 THEN "explore" ELSE Highlights[index(d, i)]
      BY <1>2, <1>7, <2>1
    <2>3. d <= 3
      BY <1>1, <2>2
    <2>4. index(d, i) = k
      BY <1>1, <1>3, <2>1, <2>2, <2>3
    <2> QED
      BY <1>5, <1>7, <2>1, <2>3, <2>4
  <1> QED
    BY <1>6, <1>7 DEF I

\* The itinerary covers the trip, has every highlight on exactly one day and
\* something on each, and spreads them evenly.
THEOREM EveryHighlightOnceCorrect == DataSpec => []EveryHighlightOnce
  <1>1. ASSUME RunInv, PresenceInv, StateInv, "final_plan" \in DOMAIN state
        PROVE  LET days == state["final_plan"]["itinerary"].leaf
                   Places(h) == {p \in UNION {{<<d, i>> : i \in DOMAIN days[d]} : d \in DOMAIN days} :
                                    days[p[1]][p[2]] = h}
               IN  /\ Request.dates # <<>> => Len(days) >= Request.dates[2] - Request.dates[1] + 1
                   /\ \A i \in DOMAIN Highlights : Cardinality(Places(Highlights[i])) = 1
                   /\ \A d \in DOMAIN days : days[d] # <<>>
                   /\ \A d, e \in DOMAIN days : Len(days[d]) <= Len(days[e]) + 1
    <2> DEFINE D == Duration(Request.dates)
               days == state["final_plan"]["itinerary"].leaf
               Places(h) == {p \in UNION {{<<d, i>> : i \in DOMAIN days[d]} : d \in DOMAIN days} :
                                days[p[1]][p[2]] = h}
    <2>1. D \in Nat \ {0} /\ Request \in Requests
      BY <1>1, RequestOf
    <2>2. days = Itinerary(Highlights, D) /\ Len(days) = D
      BY <1>1, PlannedDays DEF Leaf
    <2>3. DOMAIN days = 1 .. D
      BY <2>2 DEF Itinerary
    <2>4. Request.dates # <<>> => D >= Request.dates[2] - Request.dates[1] + 1
      <3>1. ValidRequest(Request)
        BY <2>1, RequestAssumption
      <3> QED
        BY <3>1 DEF ValidRequest, Duration, AtLeastOne
    <2> HIDE DEF D, days
    <2>5. ASSUME NEW k \in 1 .. 3
          PROVE  Cardinality(Places(Highlights[k])) = 1
      <3> DEFINE Placed(I) ==
                   \E d0 \in 1 .. D, i0 \in Nat :
                      /\ i0 \in DOMAIN I[d0] /\ I[d0][i0] = Highlights[k]
                      /\ \A d \in 1 .. D : \A i \in DOMAIN I[d] :
                            I[d][i] = Highlights[k] => d = d0 /\ i = i0
      <3>1. Placed(Itinerary(Highlights, D))
        BY <2>1, PlacedOnce
      <3>2. Placed(days)
        <4> HIDE DEF Placed
        <4> QED
          BY <2>2, <3>1
      <3>3. PICK d0 \in 1 .. D, i0 \in Nat :
               /\ i0 \in DOMAIN days[d0] /\ days[d0][i0] = Highlights[k]
               /\ \A d \in 1 .. D : \A i \in DOMAIN days[d] :
                     days[d][i] = Highlights[k] => d = d0 /\ i = i0
        BY <3>2
      <3>4. <<d0, i0>> \in Places(Highlights[k])
        BY <2>3, <3>3
      <3>5. ASSUME NEW p \in Places(Highlights[k])
            PROVE  p = <<d0, i0>>
        <4>1. PICK d \in DOMAIN days : \E i \in DOMAIN days[d] : p = <<d, i>>
          BY <3>5
        <4> QED
          BY <2>3, <3>3, <3>5, <4>1
      <3>6. Places(Highlights[k]) = {<<d0, i0>>}
        BY <3>4, <3>5
      <3> QED
        BY <3>6, FS_Singleton
    <2>6. ASSUME NEW d \in 1 .. D
          PROVE  Len(days[d]) = Share(d, D) /\ days[d] # <<>>
      <3>1. Share(d, D) \in Nat \ {0}
        BY <2>1 DEF Share
      <3>2. Itinerary(Highlights, D)[d] =
               [i \in 1 .. Share(d, D) |-> Itinerary(Highlights, D)[d][i]]
        BY <2>1, ItineraryDay
      <3>3. days[d] = [i \in 1 .. Share(d, D) |-> days[d][i]]
        BY <2>2, <3>2, Zenon
      <3> QED
        BY <3>1, <3>3, LenOfFunction
    <2>7. \A d, e \in 1 .. D : Share(d, D) <= Share(e, D) + 1
      BY <2>1 DEF Share
    <2>8. DOMAIN Highlights = 1 .. 3
      BY DEF Highlights
    <2> QED
      BY <2>2, <2>3, <2>4, <2>5, <2>6, <2>7, <2>8 DEF days
  <1>2. RunInv /\ PresenceInv /\ StateInv => EveryHighlightOnce
    BY <1>1 DEF EveryHighlightOnce
  <1> QED
    BY <1>2, DataCorrect, PTL
=============================================================================
