--------------------------- MODULE MCPreparation ---------------------------
(***************************************************************************)
(* An instance of Preparation for TLC: a Skill of two files.  In some      *)
(* behaviours it is edited again and again while one command prepares it;  *)
(* in others two commands prepare it, before and after a run and an edit,  *)
(* the build being upgraded to one that ships the Climb's next version.    *)
(***************************************************************************)
EXTENDS Preparation

MCPathFacts ==
    [p \in {"SKILL.md", "notes.md", "Notes.md", ".env"} |->
        [hidden |-> p = ".env", suffix |-> IF p = ".env" THEN "" ELSE ".md",
         folded |-> IF p = "Notes.md" THEN "notes.md" ELSE p]]
MCSkillPolicy == [suffixes |-> {".md"}, files |-> 2, fileBytes |-> 2, totalBytes |-> 3]

File == [type |-> "regular", size |-> 1, text |-> TRUE, version |-> 1]
MCFirstTree == [p \in {"SKILL.md", "notes.md"} |-> File]
Rewrites == {[path |-> "SKILL.md", left |-> File], [path |-> "notes.md", left |-> File],
            [path |-> "notes.md", left |-> Absent], [path |-> "Notes.md", left |-> File],
            [path |-> "notes.md", left |-> [File EXCEPT !.text = FALSE]],
            [path |-> "SKILL.md", left |-> [File EXCEPT !.type = "link"]]}

\* Told to go ahead by a host agent, or asked there, where nobody can answer;
\* asked here, by somebody who says yes or no.
AtHost(yes) == [yes |-> yes, surface |-> "host-agent", input |-> FALSE, answer |-> FALSE]
AskedHere(answer) == [yes |-> FALSE, surface |-> "cli", input |-> TRUE, answer |-> answer]
MCBounds ==
    {[commands |-> 1, runs |-> 0, damage |-> 0, edits |-> 3, edit |-> Rewrites,
      starts |-> {AtHost(yes) : yes \in BOOLEAN}],
     [commands |-> 2, runs |-> 1, damage |-> 1, edits |-> 1,
      edit |-> {[path |-> "SKILL.md", left |-> File]},
      starts |-> {AskedHere(answer) : answer \in BOOLEAN}]}

Lock == [kind |-> "lock", tasks |-> <<"t1", "t2">>]
Validation == [kind |-> "validation", lock |-> Lock,
               evidence |-> [kind |-> "evidence", lock |-> Lock,
                             tasks |-> [n \in 1 .. 2 |-> [task |-> Lock.tasks[n]]]]]
Policy == [kind |-> "policy", release |-> "allowed", report |-> "public"]
CampaignOf(name) ==
    [kind |-> "campaign", name |-> name, purpose |-> "component_uplift",
     mutation |-> "insertion", context |-> "program", skills |-> <<>>,
     shared |-> [f \in Fields |-> CASE f = "policy" -> Policy
                                    [] f = "taskset" -> [validation |-> Validation]
                                    [] OTHER -> "declared"],
     minimumSkills |-> 0, maximumSkills |-> 1, allowed |-> {SkillRoot},
     tasks |-> Lock.tasks,
     subject |-> [seated |-> TRUE, placeholders |-> {}, bundled |-> FALSE]]
Climb(slug, version, status) ==
    [id |-> slug, slug |-> slug, version |-> version, status |-> status,
     grade |-> IF status = "development" THEN "development_only" ELSE "P1",
     campaign |-> CampaignOf(slug), minimumSkills |-> 0, maximumSkills |-> 1,
     skill |-> "public", report |-> "public"]

Entry(climb) ==
    [reference |-> [slug |-> climb.slug, version |-> climb.version],
     digest |-> climb, held |-> climb]
CatalogOf(climbs) ==
    LET listed == {climbs[i].campaign : i \in DOMAIN climbs}
    IN  [climbs  |-> [i \in DOMAIN climbs |-> Entry(climbs[i])],
         objects |-> [o \in listed \cup {Policy, Validation, Validation.evidence} |->
                        [kind |-> o.kind, held |-> o]]]
MCCatalogs == <<CatalogOf(<<Climb("first", 1, "development"), Climb("shut", 1, "closed")>>),
                CatalogOf(<<Climb("first", 2, "open")>>)>>
MCReferences == {[slug |-> "first", version |-> 0], [slug |-> "shut", version |-> 1]}
MCMachine == [hostSupported |-> TRUE, engine |-> [installed |-> TRUE, verified |-> FALSE]]

Delta(task, delta, reward) == [task |-> task, delta |-> delta, reward |-> reward]
Real(deltas) ==
    [phase |-> "completed", grade |-> "local_attestation", backends |-> {"verifiers"},
     verified |-> TRUE, deltas |-> deltas, receipts |-> {"t1", "t2"}]
Mixed == <<Delta("t1", 0, 1), Delta("t2", 1, 1), Delta("t3", -1, 0), Delta("t4", 0, 1)>>
Lost  == <<Delta("t1", 0, 0), Delta("t2", 1, 1), Delta("t3", -1, 1), Delta("t4", -2, 0),
           Delta("t5", 0, 0)>>
MCEndings == {Real(Mixed), Real(Lost),
              [Real(Mixed) EXCEPT !.grade = "development_only", !.backends = {"fake"}]}
MCSymmetry == Permutations(Commands)
=============================================================================
