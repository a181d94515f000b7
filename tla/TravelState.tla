---------------------------- MODULE TravelState ----------------------------
(***************************************************************************)
(* The travel workflow with the contents of its shared state: the engine   *)
(* runs the travel graph, every agent computes its answer from the state   *)
(* its attempt has read, and every answer is merged into the state as it   *)
(* is by then.  Agents are pure and their tools answer constants, so an    *)
(* answer is computed in the step that reads.                              *)
(*                                                                         *)
(* Of the engine's faults only one is kept, and only for the Flaky nodes:  *)
(* a hook that raises on node_completed, because of which an answer is     *)
(* computed and merged a second time while other nodes go on.              *)
(***************************************************************************)
EXTENDS TravelWorkflow, PlanData

CONSTANTS
    Requests,   \* what clients may ask: [dates, travelers, budget]
    Flaky       \* the nodes whose completion event may fail

ASSUME RequestAssumption == \A request \in Requests : ValidRequest(request)

VARIABLES
    state,      \* the state key in Redis
    answer      \* answer[n]: the section the agent of node n has come to

dataVars == <<state, answer>>
NoAnswer == <<>>

\* What execute initializes the memory with.
FirstState(request) ==
    [ request |-> Leaf(request),
      workflow |-> [ status |-> Leaf("running"), completed_nodes |-> Leaf({}),
                     failed_nodes |-> Leaf({}) ] ]

\* The patch of _run_node: the answer, the same under the agent's name, and
\* the node's.
Patch(n) ==
    [k \in {Writes(n), "agent_outputs", "workflow"} |->
        CASE k = "agent_outputs" -> [agent \in {AgentName[n]} |-> [data |-> answer[n]]]
          [] k = "workflow" -> [last_completed_node |-> Leaf(n)]
          [] OTHER -> answer[n]]

\* The closing patch of execute.
ClosingPatch ==
    [workflow |-> [status |-> Leaf("completed"), completed_nodes |-> Leaf(completed)]]

DataInit ==
    /\ Init
    /\ \E request \in Requests : state = FirstState(request)
    /\ answer = [n \in Nodes |-> NoAnswer]

\* Until Initialize, the state is the one it is going to write.
DataLoop ==
    \/ Finish /\ state' = DeepMerge(state, ClosingPatch) /\ UNCHANGED answer
    \/ /\ \/ Initialize \/ AnnounceStart \/ Schedule \/ RaiseDeadlock \/ LeaveLoop
          \/ CollectSuccess \/ CollectFailure \/ AnnounceFailure \/ AnnounceEnd
       /\ UNCHANGED dataVars

DataTask(n) ==
    \/ /\ ReadMemory(n)
       /\ answer' = [answer EXCEPT ![n] = Section(n, state)]
       /\ UNCHANGED state
    \/ /\ UpdateMemory(n)
       /\ state' = DeepMerge(state, Patch(n))
       /\ answer' = [answer EXCEPT ![n] = NoAnswer]
    \/ /\ \/ StartNode(n) \/ AgentReturns(n) \/ AnnounceNode(n)
          \/ n \in Flaky /\ AnnounceFails(n)
       /\ UNCHANGED dataVars

DataNext ==
    \/ DataLoop
    \/ \E n \in Nodes : DataTask(n)
    \/ Over /\ UNCHANGED dataVars

DataSpec == DataInit /\ [][DataNext]_<<vars, dataVars>>
-----------------------------------------------------------------------------
Request == state.request.leaf

\* What execute returns holds every agent's answer twice, under its own key
\* and under its agent's name, the request as it was, and a closed workflow
\* section in which nothing of what the nodes wrote side by side is lost
\* (shared_memory.py 88-98, engine.py 117-124).
StateIsWhole ==
    control = "returned" =>
        /\ DOMAIN state = {Writes(n) : n \in Nodes} \cup {"request", "agent_outputs", "workflow"}
        /\ state.agent_outputs =
              [agent \in {AgentName[n] : n \in Nodes} |->
                  [data |-> state[Writes(CHOOSE n \in Nodes : AgentName[n] = agent)]]]
        /\ state.workflow =
              [ status |-> Leaf("completed"), completed_nodes |-> Leaf(Nodes),
                failed_nodes |-> Leaf({}), last_completed_node |-> Leaf("final_plan") ]

\* What an agent wrote is never changed or dropped: not by the answers that
\* are merged beside it, nor when its own node is retried after its answer
\* went in (engine.py 117-131).
AnswersStay ==
    [][\A k \in DOMAIN state \ {"agent_outputs", "workflow"} :
          k \in DOMAIN state' /\ state'[k] = state[k]]_dataVars

\* The final plan is the state it was made from: no section of it is empty
\* or older than what the memory holds in the end, although no edge of the
\* graph orders food, weather or hotels before it (travel_agents.py 281-313,
\* travel.py 69-74).
PlanIsCurrent ==
    control = "returned" =>
        \A section \in DOMAIN state.final_plan :
            section \in DOMAIN state /\ state.final_plan[section] = state[section]

\* The itinerary covers the days of the trip, and each highlight that was
\* found is on exactly one of them; a day without one has a filler, and no
\* two days differ by more than one item (travel_agents.py 224-249).
EveryHighlightOnce ==
    "final_plan" \in DOMAIN state =>
        LET days == state.final_plan.itinerary.leaf
            Places(h) == {p \in UNION {{<<d, i>> : i \in DOMAIN days[d]} : d \in DOMAIN days} :
                             days[p[1]][p[2]] = h}
        IN  /\ Request.dates # <<>> => Len(days) >= Request.dates[2] - Request.dates[1] + 1
            /\ \A i \in DOMAIN Highlights : Cardinality(Places(Highlights[i])) = 1
            /\ \A d \in DOMAIN days : days[d] # <<>>
            /\ \A d, e \in DOMAIN days : Len(days[d]) <= Len(days[e]) + 1

\* A plan that is called valid costs no more than the client wants to pay,
\* one at the very amount included, and one that is not valid costs more:
\* flights for each traveler, nights in a hotel, and daily expenses
\* (travel_agents.py 262-272, travel_tools.py 87-107).
ValidMeansAffordable ==
    "final_plan" \in DOMAIN state =>
        LET days == Len(state.final_plan.itinerary.leaf)
            nights == IF days = 1 THEN 1 ELSE days - 1
            cost == Request.travelers * (420 + 150 * days) + 145 * nights
        IN  state.final_plan.validation.is_valid.leaf <=>
                Request.budget = 0 \/ cost <= Request.budget

(***************************************************************************)
(* The inductive invariant behind these properties.                        *)
(***************************************************************************)

\* The record is there from the start, and holds answers of started nodes.
PresenceInv ==
    /\ control # "initialize" => memory.present
    /\ \A n \in memory.outputs : phase[n] # "idle"

\* The state has a key for every answer that is in, and none besides.
KeysInv ==
    DOMAIN state = {Writes(n) : n \in memory.outputs} \cup {"request", "workflow"}
                       \cup (IF memory.outputs = {} THEN {} ELSE {"agent_outputs"})

\* The request is one of those a client may make.
RequestInv == state.request \in {Leaf(request) : request \in Requests}

\* Every answer, in the state or on its way there, is the one that its agent
\* would come to now: what it was made from has not changed since.
AnswersInv ==
    /\ DOMAIN answer = Nodes
    /\ \A n \in memory.outputs : state[Writes(n)] = Section(n, state)
    /\ \A n \in Nodes : phase[n] \in {"agent", "updating"} => answer[n] = Section(n, state)

\* agent_outputs repeats every answer under the name of its agent.
OutputsInv ==
    memory.outputs # {} =>
        /\ state.agent_outputs =
              [agent \in {AgentName[n] : n \in memory.outputs} |-> state.agent_outputs[agent]]
        /\ \A n \in memory.outputs : state.agent_outputs[AgentName[n]] = [data |-> state[Writes(n)]]

\* The workflow section is that of a running workflow until the closing
\* update, and no node comes after the final plan.
WorkflowInv ==
    LET closed == control \in {"announce_end", "returned"}
        last == IF memory.outputs = {} THEN {} ELSE {"last_completed_node"}
    IN  /\ state.workflow =
              [k \in {"status", "completed_nodes", "failed_nodes"} \cup last |-> state.workflow[k]]
        /\ state.workflow.status = Leaf(IF closed THEN "completed" ELSE "running")
        /\ state.workflow.completed_nodes = Leaf(IF closed THEN Nodes ELSE {})
        /\ state.workflow.failed_nodes = Leaf({})
        /\ "final_plan" \in memory.outputs =>
              state.workflow.last_completed_node = Leaf("final_plan")

DataInv ==
    /\ TravelBarrier
    /\ PresenceInv /\ KeysInv /\ RequestInv /\ AnswersInv /\ OutputsInv /\ WorkflowInv
=============================================================================
