------------------------- MODULE MCReleaseDecision -------------------------
(***************************************************************************)
(* Instances of ReleaseDecision for TLC: counts add up over the sources,   *)
(* and content and size follow the counts.                                 *)
(***************************************************************************)
EXTENDS ReleaseDecision, TLC

CONSTANTS a, b, c, ads, geo, y1, y2

\* Two sources feed ads, one of them also geo; y2 drops source b, y1 takes
\* it in again.
Half == <<1, 2>>
BothFeeds == (a :> {ads}) @@ (b :> {ads, geo})
BothOf    == (y1 :> {a, b}) @@ (y2 :> {a})
DropB     == {[from |-> y1, to |-> y2, removed |-> {b}, keys |-> {ads, geo}, size |-> TRUE]}
ReaddB    == {[from |-> y2, to |-> y1, removed |-> {}, keys |-> {ads}, size |-> TRUE]}

Build(n, x, y) ==
  LET ofads == (IF a \in n THEN x ELSE 0) + (IF b \in n THEN y ELSE 0)
      ofgeo == IF b \in n THEN y ELSE 0
  IN  [content |-> <<ofads, ofgeo>>, counts |-> (ads :> ofads) @@ (geo :> ofgeo),
       bytes |-> ofads + ofgeo]
World(x, y) == [n \in SUBSET {a, b} |-> Build(n, x, y)]
MCContents  == (0..6) \X (0..6)
MCWorlds    == {World(2, 1), World(2, 2), World(1, 3), World(3, 1)}

\* Three sources of the same size feed ads.
ThirdFeeds == [s \in Sources |-> {ads}]
ThirdOf    == [y \in Policies |-> Sources]
ThirdContents == SUBSET Sources
ThirdWorld ==
  {[n \in SUBSET Sources |-> [content |-> n, counts |-> (ads :> Cardinality(n)),
                              bytes |-> Cardinality(n)]]}
=============================================================================
