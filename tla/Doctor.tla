------------------------------- MODULE Doctor --------------------------------
(***************************************************************************)
(* What the doctor says of a machine (doctor/checks.py,                    *)
(* doctor/execution_checks.py), which of it blocks and which repairs it    *)
(* offers (doctor/service.py).                                             *)
(*                                                                         *)
(* A machine is a record of what the checks look at.  A program that is    *)
(* asked for its version is "absent", "failing" or "ok"; the Docker daemon *)
(* is "silent" or names the platform it serves.                            *)
(***************************************************************************)
EXTENDS Preflight, FiniteSets

Check(id, status) == [id |-> id, status |-> status]
PassOr(id, passed, otherwise) == Check(id, IF passed THEN "pass" ELSE otherwise)

\* In every check a failure blocks and nothing else does.
BlockingFailures(checks) == {check \in checks : check.status = "fail"}

----------------------------------------------------------------------------
(* The checks of every doctor, and of setup. *)

CheckPythonVersion(machine) == PassOr("python_version", machine.python, "fail")
CheckHostPlatform(machine) == PassOr("host_platform", machine.host, "fail")

CheckTechtreeHome(machine) ==
    Check("techtree_home",
          CASE machine.home \in {"missing", "unwritable"} -> "fail"
            [] machine.home = "shared"  -> "warn"
            [] machine.home = "private" -> "pass")

CheckUvCli(machine) == PassOr("uv", machine.uv = "ok", "warn")
CheckDockerCli(machine) == PassOr("docker_cli", machine.docker = "ok", "warn")

CheckDockerDaemon(machine) ==
    Check("docker_daemon",
          CASE machine.docker = "absent" -> "skip"
            [] machine.docker # "absent" /\ machine.daemon = "silent" -> "warn"
            [] OTHER -> "pass")

CheckHermesCli(machine) == PassOr("hermes", machine.hermes = "ok", "warn")

\* A listing nobody can read, or a word this build does not know, is no answer.
CheckHermesPlugin(machine) ==
    Check("hermes_plugin",
          CASE machine.hermes = "absent" \/ machine.plugin \in {"unreadable", "unknown"} -> "skip"
            [] machine.hermes # "absent" /\ machine.plugin \in {"absent", "off"} -> "warn"
            [] machine.hermes # "absent" /\ machine.plugin = "enabled" -> "pass")

\* Installed, here and everywhere but in installing, is what installed.json says.
CheckActiveEngine(machine) ==
    PassOr("active_engine", machine.active /\ machine.engine.record, "warn")

GeneralChecks(machine) ==
    {CheckPythonVersion(machine), CheckHostPlatform(machine), CheckTechtreeHome(machine),
     CheckUvCli(machine), CheckDockerCli(machine), CheckDockerDaemon(machine),
     CheckHermesCli(machine), CheckHermesPlugin(machine), CheckActiveEngine(machine)}

----------------------------------------------------------------------------
(* The checks of --for-evaluation. *)

SupportedSubjectPlatforms == {"linux/arm64", "linux/amd64"}

CheckDockerPlatform(machine) ==
    PassOr("execution_docker_platform",
           machine.docker # "absent" /\ machine.daemon \in SupportedSubjectPlatforms, "fail")

\* The entry point is looked for on disk, by its absolute path in the engine.
CheckEngineEval(machine) ==
    PassOr("execution_engine_eval",
           /\ machine.active
           /\ machine.engine.record
           /\ machine.engine.venv \in {"whole", "broken"}, "fail")

\* Of a terminal's variables a worker is given none that holds a key.
WorkerVisible(machine) == [machine EXCEPT !.exported = FALSE]

\* Mutant of CheckPrimeAuth: the terminal's own variables are asked.
CheckTerminalAuth(machine) ==
    PassOr("execution_model_credential", HasCredential(machine), "fail")

CheckPrimeAuth(machine) ==
    PassOr("execution_model_credential", HasCredential(WorkerVisible(machine)), "fail")

\* The daemon is asked for the image by the Docker program.
CheckSubjectImage(machine, runtime) ==
    PassOr("execution_subject_image",
           machine.docker # "absent" /\ ResolvesSubjectImage(machine.image, runtime), "fail")

CheckLiveCampaign(campaign) == PassOr("execution_live_campaign", LiveCampaign(campaign), "fail")

\* Without a Campaign there is no subject to ask about.
ExecutionChecks(machine, campaigns) ==
    {CheckDockerPlatform(machine), CheckEngineEval(machine)}
      \cup {CheckLiveCampaign(campaign) : campaign \in campaigns}
      \cup UNION {{CheckPrimeAuth(machine), CheckSubjectImage(machine, campaign.runtime)} :
                    campaign \in {c \in campaigns : c.subject.seated}}

\* The descriptor of an engine whose entry point is there is read, unguarded.
DoctorAnswers(machine) ==
    CheckEngineEval(machine).status = "pass" => machine.engine.bundle # "absent"

DoctorChecks(machine, campaigns) ==
    GeneralChecks(machine) \cup ExecutionChecks(machine, campaigns)

----------------------------------------------------------------------------
(* The repairs, in the order they are offered. *)

MaxNextActions == 3

\* A repair that only a person can choose has no action of its own.
Repairs ==
    <<[check |-> "techtree_home", action |-> "fix_techtree_home_permissions"],
      [check |-> "python_version", action |-> "install_supported_python"],
      [check |-> "uv", action |-> "recheck_after_installing_uv"],
      [check |-> "active_engine", action |-> "install_engine"],
      [check |-> "docker_cli", action |-> "recheck_after_starting_docker"],
      [check |-> "docker_daemon", action |-> "recheck_after_starting_docker"],
      [check |-> "execution_docker_platform", action |-> "recheck_after_starting_docker"],
      [check |-> "execution_engine_eval", action |-> "install_engine"],
      [check |-> "execution_model_credential", action |-> "sign_in_to_prime"],
      [check |-> "execution_subject_image", action |-> "pull_subject_image"]>>

NeedsRepair(checks, id) ==
    \E check \in checks : check.id = id /\ check.status \in {"warn", "fail"}

\* Each action once, at the first check it repairs; three of them at most.
NextActions(checks) ==
    LET wanted == {i \in DOMAIN Repairs : NeedsRepair(checks, Repairs[i].check)}
        First(i) == \A j \in wanted : j < i => Repairs[j].action # Repairs[i].action
        Before(i) == {j \in wanted : j < i /\ First(j)}
        offered == {i \in wanted : First(i) /\ Cardinality(Before(i)) < MaxNextActions}
    IN  IF wanted = {} THEN {"list_climbs"} ELSE {Repairs[i].action : i \in offered}
=============================================================================
