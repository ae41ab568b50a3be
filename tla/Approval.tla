------------------------------ MODULE Approval ------------------------------
(***************************************************************************)
(* Who starts a draft, and what the run records of it: the review a start  *)
(* command shows (cli/commands/climb.py, cli/commands/uplift.py) and what  *)
(* the run service asks of the approval (runs/service.py, models/run.py).  *)
(*                                                                         *)
(* A command is [yes, surface, input, answer]: whether it was told to go   *)
(* ahead, where it was told, whether somebody can be asked here, and what  *)
(* they would answer.                                                      *)
(***************************************************************************)
EXTENDS Preflight

ActorsByMethod ==
    [explicit_cli_review |-> {"human_via_cli", "operator_via_flag"},
     host_agent_confirmation |-> {"human_via_hermes"}]

\* A surface other than the command line is where an answer was given already.
Approves(command) ==
    \/ command.yes
    \/ command.surface = "cli" /\ command.input /\ command.answer

MethodOf(command) ==
    IF command.yes /\ command.surface = "host-agent"
    THEN "host_agent_confirmation" ELSE "explicit_cli_review"

ActorOf(command) ==
    CASE command.yes /\ command.surface = "host-agent" -> "human_via_hermes"
      [] command.yes /\ command.surface = "cli"        -> "operator_via_flag"
      [] OTHER                                         -> "human_via_cli"

\* What was accepted is the policy of the draft that was shown.
ApprovalOf(command, draft) ==
    [acknowledgement |-> [policy |-> draft.accepts, method |-> MethodOf(command)],
     actor |-> ActorOf(command)]

AgreeingApproval(approval) ==
    /\ approval.acknowledgement.method \in DOMAIN ActorsByMethod
    /\ approval.actor \in ActorsByMethod[approval.acknowledgement.method]

Startable(draft, campaign, comparison, approval) ==
    /\ approval.acknowledgement.policy = draft.policy
    /\ comparison.controlled
    /\ SupportedBackend(campaign)
    /\ AgreeingApproval(approval)

\* The request of a run is written once: a later start keeps it as it is.
RequestFor(draft, campaign, approval) ==
    [draft |-> draft.id, policy |-> draft.policy,
     acknowledgement |-> approval.acknowledgement, actor |-> approval.actor,
     executor |-> ExecutorKindFor(campaign)]
=============================================================================
