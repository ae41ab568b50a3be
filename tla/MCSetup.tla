------------------------------ MODULE MCSetup -------------------------------
(* Small instances of Setup: three commands of any kind on one host. *)
EXTENDS Setup, TLC

CONSTANTS c1, c2, c3

MCCommands == {c1, c2, c3}
CommandSymmetry == Permutations(MCCommands)

MCReady ==
    [python |-> TRUE, host |-> TRUE, home |-> "private", uv |-> "ok",
     docker |-> "ok", daemon |-> "linux/arm64", hermes |-> "ok", plugin |-> "enabled",
     exported |-> FALSE, primeKey |-> TRUE, prime |-> "usable",
     image |-> [held |-> TRUE, index |-> "pinned", platform |-> "linux/arm64"],
     engine |-> NoEngine, active |-> FALSE]

\* Hosts a setup accepts: what a run needs besides may be missing.
MCUsable ==
    {MCReady,
     [MCReady EXCEPT !.home = "shared", !.hermes = "absent", !.plugin = "unreadable",
                     !.daemon = "windows/amd64", !.image.platform = "windows/amd64"],
     [MCReady EXCEPT !.docker = "absent", !.daemon = "silent", !.image.held = FALSE],
     [MCReady EXCEPT !.exported = TRUE, !.prime = "signed_out"],
     [MCReady EXCEPT !.image.index = "retagged", !.plugin = "off"]}

\* Hosts it refuses.
MCRefused ==
    {[MCReady EXCEPT !.python = FALSE],
     [MCReady EXCEPT !.host = FALSE, !.uv = "failing"],
     [MCReady EXCEPT !.uv = "absent"],
     [MCReady EXCEPT !.home = "unwritable", !.docker = "failing", !.prime = "malformed"]}

MCMachines == MCUsable \cup MCRefused

MCCampaign(seated, placeholders) ==
    [subject |-> [seated |-> seated, placeholders |-> placeholders],
     runtime |-> [index |-> "pinned", platforms |-> SupportedSubjectPlatforms]]
MCCampaigns ==
    {MCCampaign(TRUE, {}), MCCampaign(TRUE, {"image"}), MCCampaign(FALSE, {})}
=============================================================================
