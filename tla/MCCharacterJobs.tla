--------------------------- MODULE MCCharacterJobs ---------------------------
(***************************************************************************)
(* Instance of CharacterJobs for TLC: the bundles of one project.          *)
(***************************************************************************)
EXTENDS CharacterJobs

CONSTANTS a, b, x, y

Refs(forA, forB) == [s \in Slots |-> IF s = a THEN forA ELSE forB]

\* A complete bundle; one that drops an image and all images of a character it uses; one
\* without a registry and without images; one without a storyboard; one with an unsafe
\* member.
ProjectBundles ==
    {[safe |-> TRUE, use |-> {a, b}, cast |-> {a, b}, refs |-> Refs({x, y}, {x})],
     [safe |-> TRUE, use |-> {a, b}, cast |-> {a, b}, refs |-> Refs({x}, {})],
     [safe |-> TRUE, use |-> {a, b}, cast |-> None, refs |-> Refs({}, {})],
     [safe |-> TRUE, use |-> None, cast |-> {a}, refs |-> Refs({y}, {})],
     [safe |-> FALSE, use |-> {a}, cast |-> {a}, refs |-> Refs({x}, {})]}
=============================================================================
