--------------------------- MODULE MCBuildPipeline ---------------------------
(***************************************************************************)
(* An instance of BuildPipeline for TLC: a category with two binary rule   *)
(* sets, one with none and one that server alone has.                      *)
(***************************************************************************)
EXTENDS BuildPipeline

CONSTANTS ads, whitelist, google

MCKinds == ("lite" :> ((ads :> {"domain", "cidr"}) @@ (whitelist :> {"domain_regex"})))
  @@ ("server" :> ((ads :> {"domain", "cidr"}) @@ (whitelist :> {"domain_regex"})
                     @@ (google :> {"domain_suffix"})))
=============================================================================
