---------------------------- MODULE MCResolution ----------------------------
(***************************************************************************)
(* Instances of Resolution for TLC: a category of every tier, published as *)
(* in config/categories.yaml, one of them in server alone and one with two *)
(* sources; up to three rules that overlap.                                *)
(***************************************************************************)
EXTENDS Resolution

CONSTANTS ru, ya, lan, spy, blocked, inside, trackers,
          mspy, mblocked, mru, moutside, mtrackers, mnew, keyword, dotted, single

MCTier == (spy :> "deny") @@ (blocked :> "explicit_blocked") @@ (inside :> "trusted_direct")
            @@ (trackers :> "thematic")
Both   == {"lite", "server"}
Only(c, ds) == [category |-> c, datasets |-> ds]
MCMapping ==
  (mspy :> Only(spy, Both)) @@ (mblocked :> Only(blocked, {"server"}))
    @@ (mru :> Only(inside, Both)) @@ (moutside :> Only(inside, Both))
    @@ (mtrackers :> Only(trackers, Both))

MCHosts        == {<<ru>>, <<ru, ya>>, <<ru, ya, ya>>, <<lan>>}
MCPatternHosts == (keyword :> {<<ru, ya>>}) @@ (dotted :> {<<ru, ya>>, <<ru, ya, ya>>})
                    @@ (single :> {<<ru>>, <<lan>>})

Names == {<<"domain", <<ru, ya>>>>, <<"domain_suffix", <<ru>>>>, <<"domain_suffix", <<ru, ya>>>>,
          <<"domain", <<lan>>>>, <<"domain_keyword", dotted>>, <<"domain_regex", single>>,
          <<"domain_regex", keyword>>}
Nets  == {<<"cidr", <<4>>>>, <<"cidr", <<4, 0>>>>, <<"cidr", <<4, 0, 1>>>>,
          <<"cidr", <<4, 0, 1, 0>>>>, <<"cidr", <<4, 1>>>>, <<"cidr", <<6, 0>>>>}
Memberships == {{mspy}, {mblocked}, {mru}, {mtrackers}, {mru, moutside}, {mblocked, mtrackers}}

Rules(K) == {[kind |-> k[1], value |-> k[2], memberships |-> ms] : k \in K, ms \in Memberships}
Distinct(rs) == \A r, s \in rs : r # s => ~Same(r, s)
UpTo2(K) == {rs \in {{r, s} : r, s \in Rules(K)} : Distinct(rs)}
UpTo3(K) == {rs \in {{r, s, t} : r, s, t \in Rules(K)} : Distinct(rs)}
Unknown  == {{[kind |-> "cidr", value |-> <<4, 0>>, memberships |-> {mspy, mnew}]}}
MCInputs == UpTo3(Nets) \cup UpTo2(Names) \cup Unknown
MCDefaults == {<<4>>, <<6>>}
MCRequired == {<<"server", spy>>}
MCMinimum  == (<<"lite", trackers>> :> 1)
=============================================================================
