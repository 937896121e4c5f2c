---------------------------- MODULE MCServerCore ----------------------------
\* Instances of ServerCore for TLC: two models, two platforms and one that is
\* not supported.
EXTENDS ServerCore

CONSTANTS a, b, pa, pb

\* "09", "10", "9" and "tmp", with 9 and 10 as versions 1 and 2.
MCChildren == 1 .. 4
MCNumber == <<1, 2, 1, NotANumber>>
MCPlatformPort == [p \in {"tensorflow", "fake"} |-> IF p = "tensorflow" THEN 0 ELSE 1]

Model(path, choice, platform) ==
    [base_path |-> path, platform |-> platform,
     policy |-> [choice |-> choice, num_versions |-> 0, versions |-> {1}]]
List(models) == [config_case |-> "list", models |-> models]

OnlyB == List([n \in {b} |-> Model(pb, "specific", "fake")])
Both == List([n \in {a, b} |-> IF n = a THEN Model(pa, "latest", "tensorflow")
                                       ELSE Model(pb, "specific", "fake")])
OtherPlatform == List([n \in {b} |-> Model(pb, "all", "tensorflow")])
Unsupported == List([n \in {a} |-> Model(pa, "latest", "other")])
Custom == [config_case |-> "custom"]

MCConfigs == {OnlyB, Both, OtherPlatform, Unsupported, Custom}

MCFileSystemStates ==
    [p \in Paths |-> IF p = pa THEN {{}, {{1, 3}}, {{1, 2, 3}}} ELSE {{{2, 3, 4}}}]
=============================================================================
