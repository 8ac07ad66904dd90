------------------------------ MODULE AgentRun ------------------------------
(***************************************************************************)
(* The explicit lifecycle of one agent run (aicoder-core state.rs): the    *)
(* states it may report and the transitions that are valid between them.   *)
(* It is the abstract specification of what hosts see in StateChanged      *)
(* events; TurnExecutor is shown to request no other transition, so that   *)
(* InvalidAgentStateTransition never replaces the outcome of a run.        *)
(***************************************************************************)
EXTENDS Naturals

VARIABLE machine   \* [state, round]; round 0 stands for "no round"

Working == {"AwaitingModel", "VerifyingCompletion", "ExecutingTools", "Compacting"}
Unsuccessful == {"Failed", "Aborted", "Stopped"}

AgentRunState ==
  [state : {"Idle", "Preparing", "Completed"} \cup Working \cup Unsuccessful,
   round : Nat]

\* The edges between working states; the rounds each may connect follow.
SameRound == {<<"AwaitingModel", "VerifyingCompletion">>,
              <<"AwaitingModel", "ExecutingTools">>,
              <<"AwaitingModel", "Compacting">>,
              <<"Compacting", "AwaitingModel">>,
              <<"VerifyingCompletion", "Completed">>}
NextRoundEdge == {<<"VerifyingCompletion", "AwaitingModel">>,
                  <<"ExecutingTools", "AwaitingModel">>}

valid_transition(previous, current) ==
  LET edge == <<previous.state, current.state>> IN
  \/ edge = <<"Idle", "Preparing">>
  \/ edge = <<"Preparing", "AwaitingModel">> /\ current.round = 1
  \/ edge \in SameRound /\ current.round = previous.round
  \/ edge \in NextRoundEdge /\ current.round = previous.round + 1
  \/ /\ current.state \in Unsuccessful
     /\ \/ previous.state = "Preparing" /\ current.round = 0
        \/ previous.state \in Working /\ current.round = previous.round

Init == machine = [state |-> "Idle", round |-> 0]
Next == machine' \in AgentRunState /\ valid_transition(machine, machine')
Spec == Init /\ [][Next]_machine
=============================================================================
