----------------------------- MODULE Preflight ------------------------------
(***************************************************************************)
(* What a real run asks of its request, its Campaign and its machine       *)
(* before anything is spent (runs/real.py, verifiers/credentials.py,       *)
(* verifiers/budget.py, verifiers/image.py).  Where the source raises an   *)
(* error, the operator of that step is false.                              *)
(***************************************************************************)
EXTENDS Integers, Sequences

\* A Campaign that declares no ceiling may cost anything.
NoCeiling == -1

SupportedBackends == {"declared"}

AcknowledgedPolicy(request, campaign) == request.acknowledged = campaign.shared["policy"]
SupportedBackend(campaign) == campaign.shared["backend"] \in SupportedBackends

\* A Campaign is executable when its subject is real, in all of its parts.
LiveCampaign(campaign) == campaign.subject.seated /\ campaign.subject.placeholders = {}
ExecutorKindFor(campaign) == IF LiveCampaign(campaign) THEN "verifiers" ELSE "fake"

ResolvesEngine(engine) == engine.installed /\ engine.verified /\ engine.recorded

\* A key in the environment decides; the Prime configuration is read only for
\* the variable the Prime client reads.
CredentialSource(machine) ==
    CASE machine.exported -> "environment"
      [] ~machine.exported /\ machine.primeKey /\ machine.prime = "usable" -> "prime_config"
      [] ~machine.exported /\ machine.primeKey /\ machine.prime = "malformed"
            -> "malformed_prime_config"
      [] OTHER -> "missing"

HasCredential(machine) == CredentialSource(machine) \in {"environment", "prime_config"}

ExecutableBudget(campaign) ==
    campaign.plan.timeout > 0 /\ \A limit \in campaign.plan.limits : limit > 0

\* Both variants of every task, at the prices recorded with the release.  A
\* rollout may overrun its input limit by one context window and its output
\* limit by one reply.
CostBound(campaign, prices) ==
    2 * Len(campaign.tasks)
      * (  (campaign.plan.input + prices.window) * prices.input
         + (campaign.plan.output + campaign.plan.reply) * prices.output)

WithinCostBound(campaign, prices) ==
    \/ campaign.plan.ceiling = NoCeiling
    \/ CostBound(campaign, prices) <= campaign.plan.ceiling

BoundedCampaign(campaign, machine) ==
    /\ ExecutableBudget(campaign)
    /\ campaign.subject.model \in DOMAIN machine.prices
    /\ WithinCostBound(campaign, machine.prices[campaign.subject.model])

\* The daemon holds the content the Campaign pins, for a platform it pins.
ResolvesSubjectImage(image, runtime) ==
    image.held /\ image.index = runtime.index /\ image.platform \in runtime.platforms
=============================================================================
