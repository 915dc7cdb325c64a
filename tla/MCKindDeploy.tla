---------------------------- MODULE MCKindDeploy ----------------------------
(* Instances of KindDeploy for TLC. *)
EXTENDS KindDeploy

AllFeatures == {"ao", "co", "mailpit", "cache", "autoCert"}
PresetFiles == {AllFeatures}
Profiles == {{"co"}}
Durations == [a \in {"root-app", "app"} |-> IF a = "app" THEN 0 ELSE 1]
AllCommands == DOMAIN Program
=============================================================================
