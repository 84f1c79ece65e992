--------------------------- MODULE MCPublication ---------------------------
(***************************************************************************)
(* Instances of Publication for TLC.                                       *)
(***************************************************************************)
EXTENDS Publication

CONSTANTS v1, v2, v3

\* Path 1 is index.html and the last one manifest.json; v1 has no index page.  Three
\* artifacts for two workers make the third wait for one of them.
MCPaths     == 1..5
MCArtifacts == [v \in Versions |-> CASE v = v1 -> {2, 3, 4}
                                     [] v = v2 -> {1, 2, 3}
                                     [] OTHER  -> {1, 4}]

\* For two commands at a time: fewer artifacts.
SmallPaths     == 1..3
SmallArtifacts == [v \in Versions |-> IF v = v1 THEN {2} ELSE {1, 2}]
=============================================================================
