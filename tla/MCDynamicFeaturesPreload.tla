----------------------- MODULE MCDynamicFeaturesPreload -----------------------
EXTENDS DynamicFeaturesPreload, TLC

\* The same module under both spellings of its name.
Exposed == {"alpha", "./alpha", "."}
Mounts == [m \in Exposed |-> IF m = "alpha" THEN "./alpha" ELSE m]

Built(exposed, entrypoints, features, name, snapshot) ==
  [exposed |-> exposed, entrypoints |-> entrypoints, features |-> features,
   name |-> name, snapshot |-> snapshot]

\* manifest.name of a manifest without one.
Unnamed == ""

\* A plugin of the new system, one without metadata, a filtered-out one, one
\* whose snapshot fails and one without a name; two plugins may be installed with
\* manifests of the same name.
Fixtures == {Built({"alpha", "."}, {"./alpha"}, TRUE, "one", TRUE),
             Built({"./alpha", "."}, {}, FALSE, "one", TRUE),
             Built({"."}, {"./alpha"}, TRUE, "two", TRUE),
             Built({"alpha"}, {"./alpha"}, TRUE, "two", FALSE),
             Built({"alpha"}, {}, FALSE, Unnamed, TRUE)}

Symmetric == Permutations(Plugins) \cup Permutations(Browsers)
===============================================================================
