------------------------- MODULE MCFetchTransaction -------------------------
(***************************************************************************)
(* An instance of FetchTransaction for TLC: a release with URLs of its own *)
(* (aireps/geosite), a rolling one with digests (jutsu-dev), a branch with *)
(* two files (itdoginfo) and a file of the repository.                     *)
(***************************************************************************)
EXTENDS FetchTransaction, TLC

CONSTANTS aireps, jutsu, itdog, overlay, f, g, commit, t1, t2, t3

MCFiles == (aireps :> {f}) @@ (jutsu :> {f, g}) @@ (itdog :> {f, g}) @@ (overlay :> {f})
MCTags  == (t1 :> commit) @@ (t2 :> t3) @@ (t3 :> t2)
MCRegistries == {<<aireps, itdog>>, <<jutsu, overlay>>}
=============================================================================
