---------------------------- MODULE Improvement ----------------------------
(***************************************************************************)
(* What follows from a finished run: the tasks a person is shown in order  *)
(* to revise the Skill (uplift/context.py), and the Campaign that compares *)
(* the revision with the Skill the run measured (uplift/derive.py).        *)
(*                                                                         *)
(* A report's deltas are a sequence of [task, delta, reward], in the order *)
(* of the tasks.                                                           *)
(***************************************************************************)
EXTENDS Drafts

CONSTANTS ExampleLimit, ExampleContrastLimit
ASSUME LimitAssumption == ExampleLimit \in Nat \ {0} /\ ExampleContrastLimit \in Nat

Outcome(d) ==
    CASE d.delta < 0 -> "regressed"
      [] d.delta > 0 -> "improved"
      [] d.delta = 0 /\ d.reward > 0 -> "stable_success"
      [] OTHER -> "stable_failure"

OutcomeRank == [regressed |-> 0, stable_failure |-> 1, improved |-> 2, stable_success |-> 3]

\* Mutant of Precedes: the tasks in their own order.
InTaskOrder(deltas, i, j) == i < j

\* The order of examples: by outcome, then the largest loss, then the task's place.
Precedes(deltas, i, j) ==
    LET a == OutcomeRank[Outcome(deltas[i])]
        b == OutcomeRank[Outcome(deltas[j])]
    IN  \/ a < b
        \/ a = b /\ deltas[i].delta < deltas[j].delta
        \/ a = b /\ deltas[i].delta = deltas[j].delta /\ i < j

\* The task in each place of that order is the one with as many before it.
Ranked(deltas) ==
    [n \in DOMAIN deltas |-> CHOOSE i \in DOMAIN deltas :
        Cardinality({j \in DOMAIN deltas : Precedes(deltas, j, i)}) = n - 1]

\* The examples are full, or there are enough successes among them.
PassesOver(deltas, chosen, i) ==
    \/ Len(chosen) >= ExampleLimit
    \/ /\ Outcome(deltas[i]) = "stable_success"
       /\ Cardinality({k \in DOMAIN chosen : Outcome(deltas[chosen[k]]) = "stable_success"})
             >= ExampleContrastLimit

\* The examples are taken in that order.
Select(deltas) ==
    LET ranked == Ranked(deltas)
        taken[n \in 0 .. Len(deltas)] ==
            IF n = 0 THEN <<>>
            ELSE IF PassesOver(deltas, taken[n - 1], ranked[n]) THEN taken[n - 1]
            ELSE Append(taken[n - 1], ranked[n])
    IN  taken[Len(deltas)]

\* A task's example carries what its receipt recorded; one that has none says so.
ExampleOf(d, receipts) ==
    [task |-> d.task, outcome |-> Outcome(d), receipt |-> d.task \in receipts]

BuildsContext(report, campaign) == report.campaign = campaign /\ report.deltas # <<>>

ImprovementContext(report, receipts, skill) ==
    [run |-> report.run, parent |-> skill.root, entry |-> skill.listed[EntryFile],
     examples |-> LET chosen == Select(report.deltas)
                  IN  [i \in DOMAIN chosen |-> ExampleOf(report.deltas[chosen[i]], receipts)]]

----------------------------------------------------------------------------
(* The Campaign that replaces a Skill. *)

DeriveReplacementCampaign(source, baseline) ==
    [source EXCEPT !.mutation = "replacement", !.skills = <<baseline.root>>,
                   !.shared["mutation"] = "replacement", !.minimumSkills = 1,
                   !.maximumSkills = 1, !.allowed = {SkillRoot}]

DerivesReplacement(source, report, baseline, candidate) ==
    /\ report.campaign = source
    /\ source.purpose = "component_uplift"
    /\ baseline.root # candidate.root
    /\ BuildsSkillReference(SkillReference(baseline))
    /\ CampaignContract(DeriveReplacementCampaign(source, baseline))
=============================================================================
