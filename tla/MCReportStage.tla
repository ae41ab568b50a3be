---------------------------- MODULE MCReportStage ----------------------------
(***************************************************************************)
(* Instances of ReportStage for TLC: two tasks, an insertion and a         *)
(* replacement, every pair of rewards 0 and 1 under three scoring rules,   *)
(* and, one at a time, each way a run may go wrong before its report.      *)
(***************************************************************************)
EXTENDS ReportStage

MCPinnedTools == [terminal |-> "declared"] @@ (SkillIndexTool :> "declared")
MCKey == "machine"
Tasks == <<"t1", "t2">>
Swapped == <<"t2", "t1">>

Policy(rights) == [kind |-> "policy", report |-> rights]
LockOf(ref) == [kind |-> "lock", tasks |-> Tasks, membership |-> Tasks, ref |-> ref,
                engine |-> "engine"]
Counted == [o \in Outcomes |-> IF o = "valid" THEN 2 ELSE 0]
Row(n) == [position |-> n - 1, task |-> Tasks[n], gold |-> "valid", setup |-> "valid"]
ValidationOf(ref) ==
    [kind |-> "validation", status |-> "valid", engine |-> "engine", lock |-> LockOf(ref),
     summary |-> Counted @@ [recorded |-> 2, total |-> 2],
     checks |-> [c \in {"gold", "setup"} |-> Counted],
     evidence |-> [kind |-> "evidence", lock |-> LockOf(ref), tasks |-> <<Row(1), Row(2)>>,
                   summary |-> Counted @@ [total |-> 2]]]

Campaign(name, mutation, rights, scoring) ==
    [kind |-> "campaign", name |-> name, mutation |-> mutation, scoring |-> scoring,
     shared |-> [f \in Fields |->
        CASE f = "policy" -> Policy(rights)
          [] f = "taskset" -> [ref |-> "taskset", tasks |-> Tasks,
                               validation |-> ValidationOf("taskset")]
          [] OTHER -> "declared"],
     skills |-> IF mutation = "insertion" THEN <<>> ELSE <<"old">>,
     minimumSkills |-> 0, maximumSkills |-> 1, allowed |-> {SkillRoot},
     context |-> "climb", revision |-> TRUE, tasks |-> Tasks, selected |-> 2,
     runtime |-> [index |-> "declared", platforms |-> {"arm64", "amd64"}],
     subject |-> [seated |-> TRUE, placeholders |-> {}, model |-> "model",
                  network |-> "restricted", harness |-> "hermes-agent",
                  bundled |-> FALSE, runtime |-> "docker", trainable |-> FALSE],
     plan |-> [order |-> "parallel", permits |-> 3, timeout |-> 1, limits |-> {1},
               input |-> 2, output |-> 1, reply |-> 1, ceiling |-> 28]]

Skill(root) == [size |-> 1, listed |-> root, root |-> root, intact |-> TRUE]

InputsOf(run, campaign) ==
    LET base == BuildBaselineManifest(campaign)
        cand == BuildCandidateManifest(campaign, Skill("new"))
        draft == [campaign |-> campaign, policy |-> campaign.shared["policy"],
                  context |-> campaign.context, baseline |-> base, candidate |-> cand,
                  skill |-> "new"]
    IN  [request |-> [run |-> run, campaign |-> campaign, draft |-> draft,
                      policy |-> campaign.shared["policy"],
                      acknowledged |-> campaign.shared["policy"],
                      backend |-> "declared", context |-> campaign.context,
                      executor |-> ExecutorKindFor(campaign),
                      baseline |-> base, candidate |-> cand],
         draft |-> draft, campaign |-> campaign, policy |-> campaign.shared["policy"],
         validation |-> campaign.shared["taskset"].validation,
         evidence |-> campaign.shared["taskset"].validation.evidence,
         baseline |-> base, candidate |-> cand,
         comparison |-> CompareManifests(base, cand, campaign),
         skill |-> Skill("new"),
         replaced |-> IF campaign.mutation = "insertion" THEN Nothing ELSE Skill("old")]

Trace(task, reward) ==
    [role |-> "subject", task |-> task, ok |-> TRUE, reward |-> reward, tokens |-> 1,
     config |-> [f \in TraceFields |-> "declared"],
     tools |-> [t \in DOMAIN MCPinnedTools |-> [schema |-> "declared", text |-> "declared"]]]
Episode(task, reward) ==
    [ok |-> TRUE, reply |-> "plain", traces |-> <<Trace(task, reward)>>]

\* The episodes are recorded as they finish; here the second task finished first.
OutputOf(inputs, v, rewards) ==
    [config |-> TRUE, log |-> TRUE,
     episodes |-> <<Episode("t2", rewards[2]), Episode("t1", rewards[1])>>,
     resolved |-> [subject |-> TRUE, skills |-> inputs[v].configuration.skills,
                   config |-> [f \in ResolvedFields |-> "declared"]]]

StartOf(run, campaign, rewards) ==
    LET inputs == InputsOf(run, campaign)
    IN  [inputs |-> inputs, steady |-> FALSE,
         engine |-> [installed |-> TRUE, verified |-> TRUE, recorded |-> TRUE],
         machine |-> [exported |-> FALSE, primeKey |-> TRUE, prime |-> "usable",
                      prices |-> [model |-> [window |-> 1, input |-> 1, output |-> 2]]],
         taskset |-> [package |-> "embedded", shipped |-> TRUE, resolved |-> "taskset",
                      described |-> "taskset", loads |-> <<Tasks, Tasks>>, fresh |-> TRUE,
                      files |-> ValidationFiles, mode |-> "all", rows |-> <<Row(2), Row(1)>>,
                      summary |-> Counted @@ [recorded |-> 2, total |-> 2],
                      checks |-> [c \in {"gold", "setup"} |-> Counted]],
         dryrun |-> [code |-> 0, push |-> FALSE, serve |-> FALSE, seat |-> TRUE,
                     resolved |-> CompileVariantConfig(campaign, 1)],
         images |-> [v \in Variants |-> [held |-> TRUE, index |-> "declared",
                                         platform |-> "arm64"]],
         outputs |-> [v \in Variants |-> OutputOf(inputs, v, rewards[v])],
         outcomes |-> [v \in Variants |-> [started |-> 1, finished |-> 3, code |-> 0,
                                           cancelled |-> FALSE]],
         children |-> [v \in Variants |-> 1]]

Better == [baseline |-> <<0, 1>>, candidate |-> <<1, 1>>]
AboveBaseline == [above |-> TRUE, minimum |-> 0]
Usual(mutation, rights) ==
    StartOf("run", Campaign("ours", mutation, rights, AboveBaseline), Better)
Base == Usual("insertion", "public")

\* A Campaign whose model is a placeholder, on a machine with nothing to run it.
Placeholder ==
    [StartOf("run", [Campaign("ours", "insertion", "public", AboveBaseline) EXCEPT
                        !.subject.placeholders = {"model"}], Better) EXCEPT
        !.machine.primeKey = FALSE, !.taskset.shipped = FALSE]

\* One thing wrong with a run, and with which part of it.
Wrong(s, name, v) ==
    LET trace(i, field, value) ==
            [s EXCEPT !.outputs[v].episodes[i].traces[1][field] = value]
        ran(S, field) ==
            [s EXCEPT !.outputs[v].episodes =
                [i \in DOMAIN @ |-> IF i \in S
                    THEN [@[i] EXCEPT !.traces[1].config[field] = "other"] ELSE @[i]]]
        tool(S, part) ==
            [s EXCEPT !.outputs[v].episodes =
                [i \in DOMAIN @ |-> IF i \in S
                    THEN [@[i] EXCEPT !.traces[1].tools["terminal"][part] = "other"]
                    ELSE @[i]]]
    IN  CASE name = "errored"   -> [s EXCEPT !.outputs[v].episodes[1].ok = FALSE]
          [] name = "separator" -> [s EXCEPT !.outputs[v].episodes[1].reply = "separator"]
          [] name = "missing"   -> [s EXCEPT !.outputs[v].episodes = Tail(@)]
          [] name = "duplicate" -> [s EXCEPT !.outputs[v].episodes =
                                      <<Episode("t1", 0), Episode("t1", 1)>>]
          [] name = "two_traces" -> [s EXCEPT !.outputs[v].episodes[1].traces =
                                       <<Trace("t2", 0), Trace("t2", 1)>>]
          [] name = "unscored"  -> trace(1, "reward", NoReward)
          [] name = "nonfinite" -> trace(1, "reward", NonFinite)
          [] name = "untold"    -> trace(1, "tokens", NoTokens)
          [] name = "trace_failed" -> trace(1, "ok", FALSE)
          [] name = "role"      -> trace(1, "role", "judge")
          [] name = "tool_first" -> tool({2}, "schema")
          [] name = "tool_later" -> tool({1}, "schema")
          [] name = "tool_text" -> tool({1, 2}, "text")
          [] name = "tool_lost" -> [s EXCEPT !.outputs[v].episodes[1].traces[1].tools =
                                      [t \in {"terminal"} |-> @[t]]]
          [] name = "no_log"    -> [s EXCEPT !.outputs[v].log = FALSE]
          [] name = "mounted"   -> [s EXCEPT !.outputs[v].resolved.skills = <<"old">>]
          [] name = "seatless"  -> [s EXCEPT !.outputs[v].resolved.subject = FALSE]
          [] name = "cancelled" -> [s EXCEPT !.outcomes[v].cancelled = TRUE]
          [] name = "exit"      -> [s EXCEPT !.outcomes[v].code = 1]
          [] name = "clock"     -> [s EXCEPT !.outcomes[v].finished = 0]
          [] name = "platform"  -> [s EXCEPT !.images[v].platform = "amd64"]
          [] name = "image"     -> [s EXCEPT !.images[v].index = "other"]
          [] name = "reordered" -> [s EXCEPT !.taskset.loads = <<Swapped, Swapped>>]
          [] name = "unstable"  -> [s EXCEPT !.taskset.loads = <<Tasks, Swapped>>]
          [] name = "repackaged" -> [s EXCEPT !.taskset.resolved = "other"]
          [] name = "invalid"   -> [s EXCEPT !.taskset.summary.valid = 1,
                                             !.taskset.summary.invalid = 1]
          [] name = "timeout"   -> [s EXCEPT !.taskset.summary.valid = 1,
                                             !.taskset.summary.timeout = 1]
          [] name = "miscounted" -> [s EXCEPT !.taskset.summary.timeout = 1]
          [] name = "unrecorded" -> [s EXCEPT !.taskset.summary.recorded = 1]
          [] name = "rerun"     -> [s EXCEPT !.taskset.fresh = FALSE]
          [] name = "half_left" -> [s EXCEPT !.taskset.files = @ \ {"validate.log"}]
          [] name = "gold_only" -> [s EXCEPT !.taskset.mode = "gold"]
          [] name = "row_twice" -> [s EXCEPT !.taskset.rows = <<Row(1), Row(1)>>]
          [] name = "row_other" -> [s EXCEPT !.taskset.rows[1].setup = "other"]
          [] name = "no_setup"  -> [s EXCEPT !.taskset.checks = "gold" :> Counted]
          [] name = "unshipped" -> [s EXCEPT !.taskset.shipped = FALSE]
          [] name = "staged_lock" -> [s EXCEPT !.taskset.shipped = FALSE,
                                               !.inputs.validation.status = "invalid"]
          [] name = "engine"    -> [s EXCEPT !.engine.verified = FALSE]
          [] name = "signed_out" -> [s EXCEPT !.machine.prime = "signed_out"]
          [] name = "ceiling"   -> [s EXCEPT !.machine.prices.model.output = 3]
          [] name = "dryrun"    -> [s EXCEPT !.dryrun.push = TRUE]
          [] name = "mount_changed" -> [s EXCEPT !.inputs.skill.intact = FALSE]
          [] name = "staged_comparison" -> [s EXCEPT !.inputs.comparison.differences = {}]
          [] name = "staged_policy" -> [s EXCEPT !.inputs.policy = Policy("private")]
          [] name \in TraceFields -> ran({1, 2}, name)
          [] name \in {"one_" \o f : f \in TraceFields} ->
                ran({1}, CHOOSE f \in TraceFields : name = "one_" \o f)

Names == {"errored", "separator", "missing", "duplicate", "two_traces", "unscored", "untold",
          "nonfinite", "trace_failed", "role", "tool_first", "tool_later", "tool_text",
          "tool_lost", "no_log", "mounted", "seatless", "cancelled", "exit", "clock", "platform",
          "image", "reordered", "unstable", "repackaged", "invalid", "timeout", "no_setup",
          "miscounted", "unrecorded", "rerun", "half_left", "gold_only", "row_twice", "row_other",
          "unshipped", "staged_lock", "engine", "signed_out", "ceiling", "dryrun",
          "mount_changed", "staged_comparison", "staged_policy"}
         \cup TraceFields \cup {"one_" \o f : f \in TraceFields}

Both(s, name) == Wrong(Wrong(s, name, "baseline"), name, "candidate")

Rewards == [Variants -> {<<a, b>> : a, b \in 0 .. 1}]
Scorings == {AboveBaseline, [above |-> FALSE, minimum |-> 1], [above |-> FALSE, minimum |-> 0]}

Steady(s) == [s EXCEPT !.steady = TRUE]
UsualStarts == {Steady(s) : s \in {Base, Usual("replacement", "private"), Placeholder}}
ScoredStarts ==
    {StartOf("run", Campaign("ours", "insertion", "public", scoring), rewards) :
        <<scoring, rewards>> \in Scorings \X Rewards}
WrongStarts ==
    {Wrong(Base, w[1], w[2]) : w \in Names \X Variants}
    \cup {Both(Base, f) : f \in TraceFields}
    \cup {[Base EXCEPT !.inputs.request.executor = "fake"],
          [Placeholder EXCEPT !.inputs.comparison.differences = {}],
          [Placeholder EXCEPT !.taskset.shipped = TRUE, !.taskset.summary.timeout = 1]}
MCStarts == UsualStarts \cup ScoredStarts \cup WrongStarts

\* What the proof of another run holds: the same code, other evidence, this
\* machine's key or another machine's.
ProofOf(s, key) ==
    LET inputs     == s.inputs
        taskLock   == ValidatedLock(s.taskset, inputs)
        executions == [v \in Variants |->
            BuildVariantResult(v, inputs[v], s.outputs[v], s.outcomes[v], s.images[v], taskLock)]
        written    == [v \in Variants |->
            VariantReceipts(inputs.request, v, inputs[v], executions[v], Tasks)]
        sets       == [v \in Variants |->
            BuildReceiptSet(inputs.request.run, v, inputs[v], written[v], Tasks)]
        made       == CompareRealVariants(inputs, taskLock, written, executions)
    IN  [key |-> key, inputs |-> inputs, lock |-> taskLock, receipts |-> written,
         sets |-> sets, report |-> BuildUpliftReport(inputs, made, written, TRUE),
         record |-> ExecutionRecord(inputs.request, executions, s.children)]

MCOthers ==
    {ProofOf(StartOf("other", Campaign("ours", "insertion", "public", AboveBaseline),
                      [baseline |-> <<0, 0>>, candidate |-> <<1, 1>>]), MCKey),
     ProofOf(StartOf("other", Campaign("theirs", "replacement", "private", AboveBaseline),
                      Better), "elsewhere")}

\* One reply of the baseline holds a line separator.
Unlucky == {Wrong(Base, "separator", "baseline")}
None == {}
=============================================================================
