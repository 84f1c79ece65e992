----------------------------- MODULE Resolution -----------------------------
(***************************************************************************)
(* resolve_datasets: the rules of the sources become the categories of the *)
(* datasets lite and server, and a category gives up what a category of a  *)
(* higher tier owns; then what _validate_semantics requires of the result. *)
(*                                                                         *)
(* A host name is the sequence of its labels, top level first, so that a   *)
(* suffix is a prefix of it.  A network is the path to it in the binary    *)
(* tree of addresses, <<version, bit, ..., bit>>, and an address a path of *)
(* full length.  A keyword or a regular expression is a name for the set   *)
(* of hosts it matches.  Attributes, which only keep two rules apart, and  *)
(* the orders lists are sorted in are left out.                            *)
(***************************************************************************)
EXTENDS Integers, FiniteSets, SequencesExt

CONSTANTS
  Inputs,        \* the sets of normalized rules a build may start from
  Mapping,       \* policy.source_categories: [membership -> [category, datasets]]
  Tier,          \* policy.canonical_category(c).tier
  PatternHosts,  \* the hosts a keyword or a regular expression matches
  Dotless,       \* the one expression known to match only hosts without a dot
  Dotted,        \* the patterns with a dot in their text
  Hosts,         \* the host names the properties look at
  Width,         \* length of an address in bits
  DefaultRoutes, \* _FORBIDDEN_DEFAULTS
  Required,      \* required_categories, as pairs <<dataset, category>>
  Minimum        \* minimum_category_entries: [pairs -> Nat]

Datasets   == {"lite", "server"}
Categories == DOMAIN Tier
Priority   == [deny |-> 4, explicit_blocked |-> 3, trusted_direct |-> 2, thematic |-> 1]
Patterns   == DOMAIN PatternHosts

Networks   == UNION {{<<v>> \o bits : bits \in [1..n -> {0, 1}]} : v \in {4, 6}, n \in 0..Width}
Addresses  == {n \in Networks : Len(n) = Width + 1}

Plain      == {"domain", "domain_suffix"}
Patterned  == {"domain_keyword", "domain_regex"}
Entry(e) ==
  /\ e.memberships # {}
  /\ \/ e.kind \in Plain /\ e.value \in Seq(UNION {ToSet(h) : h \in Hosts}) \ {<<>>}
     \/ e.kind \in Patterned /\ e.value \in Patterns
     \/ e.kind = "cidr" /\ e.value \in Networks

ASSUME ResolutionAssumption ==
         /\ Width \in Nat
         /\ \A rs \in Inputs : \A r \in rs : Entry(r)
         /\ Tier \in [Categories -> DOMAIN Priority]
         /\ \A m \in DOMAIN Mapping : /\ Mapping[m].category \in Categories
                                      /\ Mapping[m].datasets \subseteq Datasets
         /\ \A m, n \in DOMAIN Mapping :   \* load_policy refuses any other policy
              Mapping[m].category = Mapping[n].category => Mapping[m].datasets = Mapping[n].datasets
         /\ Dotted \subseteq Patterns
         /\ \A h \in Hosts : h \in Seq(ToSet(h)) /\ h # <<>>
         /\ Hosts \cap Addresses = {}
         /\ \A p \in Patterns : PatternHosts[p] \subseteq Hosts
         /\ Dotless \in Patterns => \A h \in PatternHosts[Dotless] : Len(h) = 1

VARIABLES
  rules,      \* the normalized rules
  phase,      \* what comes next, or how it ended
  dataset,    \* the dataset being resolved
  published,  \* categorized: the entries of each dataset's categories
  pool,       \* the blocker pool: the entries of each category whatever its datasets
  resolved,   \* the entries each dataset's categories keep
  todo,       \* the networks of the dataset still to be subtracted from
  cut,        \* the network being subtracted from, or NoCut
  before,     \* overlaps_before
  after       \* overlaps_after

vars == <<rules, phase, dataset, published, pool, resolved, todo, cut, before, after>>

NoCut    == [remaining |-> {}]
Failures == {"unmapped", "not_superset", "unresolved", "default_route", "absent", "too_few"}
Ended    == Failures \cup {"accepted"}
Empty    == [c \in Categories |-> {}]

TypeOK ==
  /\ phase \in Ended \cup {"categorize", "resolve", "subtract", "report", "superset", "validate"}
  /\ dataset \in Datasets
  /\ \A c \in Categories :
       /\ \A e \in pool[c] : Entry(e)
       /\ \A d \in Datasets : /\ \A e \in published[d][c] : Entry(e)
                              /\ \A e \in resolved[d][c] : Entry(e)
  /\ \A t \in todo : t[1] \in Categories /\ Entry(t[2]) /\ t[2].kind = "cidr"
  /\ cut # NoCut => cut.remaining \subseteq Networks /\ cut.blockers \subseteq Networks

Init ==
  /\ rules \in Inputs /\ phase = "categorize" /\ dataset = "lite"
  /\ published = [d \in Datasets |-> Empty] /\ resolved = [d \in Datasets |-> Empty]
  /\ pool = Empty /\ todo = {} /\ cut = NoCut /\ before = {} /\ after = {}

----------------------------------------------------------------------------
\* The hosts or addresses a rule matches.
Hits(e) ==
  CASE e.kind = "domain"        -> Hosts \cap {e.value}
    [] e.kind = "domain_suffix" -> {h \in Hosts : IsPrefix(e.value, h)}
    [] e.kind \in Patterned     -> PatternHosts[e.value]
    [] e.kind = "cidr"          -> {a \in Addresses : IsPrefix(e.value, a)}

\* Of two networks, or two suffixes, one holds the other or they have nothing in common.
Nested(a, b) == IsPrefix(a, b) \/ IsPrefix(b, a)

\* One entry for each kind and value, with the memberships of all its rules among `ms`.
Collect(ms, c) ==
  LET Of(r) == {m \in ms : /\ Mapping[m].category = c
                           /\ \E s \in rules : /\ s.kind = r.kind /\ s.value = r.value
                                               /\ m \in s.memberships}
  IN  {[kind |-> r.kind, value |-> r.value, memberships |-> Of(r)] :
         r \in {r \in rules : Of(r) # {}}}

\* Mutant: it is lite that keeps what thematic categories share with others.
TakesOwnership_ExemptsLite(d, higher, lower) ==
  Priority[higher] > Priority[lower] /\ ~(d = "lite" /\ lower = "thematic")

TakesOwnership(d, higher, lower) ==
  Priority[higher] > Priority[lower] /\ ~(d = "server" /\ lower = "thematic")

\* Mutant: a category owns nothing in a dataset it is not published in.
Blockers_Published(d, c, source) ==
  UNION {{b} \X source[b] : b \in {b \in Categories :
           TakesOwnership(d, Tier[b], Tier[c]) /\ published[d][b] # {}}}

\* The blocker index of category c: the entries of the categories that own it, each with
\* its category.
Blockers(d, c, source) ==
  UNION {{b} \X source[b] : b \in {b \in Categories : TakesOwnership(d, Tier[b], Tier[c])}}

OfKind(B, kind) == {x \in B : x[2].kind = kind}
DotlessRegex(B) == {x \in OfKind(B, "domain_regex") : x[2].value = Dotless}
FailClosed(B)   == {x \in B : x[2].kind \in Patterned} \ DotlessRegex(B)
IsDotless(e)    == Len(e.value) = 1

----------------------------------------------------------------------------
\* The trie of the labels: a node is the labels on the way to it.  Every label of a domain or
\* a suffix has one; the blockers that end at a node, those below it, and the nodes the
\* descent along a value comes to before a child is missing.
InTrie(B)       == OfKind(B, "domain") \cup OfKind(B, "domain_suffix")
Nodes(B)        == UNION {Prefixes(x[2].value) : x \in InTrie(B)}
EndsAt(node, X) == {x \in X : x[2].value = node}
Under(node, B)  == {x \in InTrie(B) : IsStrictPrefix(node, x[2].value)}
Descent(e, B)   == (Prefixes(e.value) \ {<<>>}) \cap Nodes(B)

\* Mutant: a domain at the node of the suffix itself is not looked for.
TrieHasOverlap_MissesOwnNode(e, B) ==
  \/ \E node \in Descent(e, B) : EndsAt(node, OfKind(B, "domain_suffix")) # {}
  \/ e.kind = "domain_suffix" /\ e.value \in Descent(e, B) /\ Under(e.value, B) # {}

\* _suffix_trie_has_overlap: a suffix ends on the way to the value or, for a suffix whose
\* node is there, a domain ends at it or anything below it.
TrieHasOverlap(e, B) ==
  \/ \E node \in Descent(e, B) : EndsAt(node, OfKind(B, "domain_suffix")) # {}
  \/ /\ e.kind = "domain_suffix" /\ e.value \in Descent(e, B)
     /\ EndsAt(e.value, OfKind(B, "domain")) # {} \/ Under(e.value, B) # {}

\* _is_blocked: must a rule other than a network go?
IsBlocked(e, B) ==
  \/ FailClosed(B) # {}
  \/ e.kind \in Patterned /\ \E x \in B : x[2].kind # "cidr"
  \/ e.kind = "domain" /\ \E x \in OfKind(B, "domain") : x[2].value = e.value
  \/ e.kind \in Plain /\ \/ IsDotless(e) /\ DotlessRegex(B) # {}
                         \/ TrieHasOverlap(e, B)

\* _cidr_overlapping_blockers: the blockers a network has addresses in common with.
OverlappingBlockers(e, B) == {x \in OfKind(B, "cidr") : Nested(x[2].value, e.value)}

\* The first and the last address of a network, and the order of their numbers.
FirstOf(n)   == [i \in 1..Width+1 |-> IF i <= Len(n) THEN n[i] ELSE 0]
LastOf(n)    == [i \in 1..Width+1 |-> IF i <= Len(n) THEN n[i] ELSE 1]
Below(a, b)  == \E i \in 1..Width+1 : a[i] < b[i] /\ \A j \in 1..i-1 : a[j] = b[j]
AtMost(a, b) == ~Below(b, a)

Interval(x) == [first |-> FirstOf(x[2].value), last |-> LastOf(x[2].value), blocker |-> x]
Intervals(B, version) == {Interval(x) : x \in {x \in OfKind(B, "cidr") : x[2].value[1] = version}}

\* _cidr_sorted_view: a list by the first address, those that share it in any order.
SortedViews(S) ==
  {view \in [1..Cardinality(S) -> S] :
     ToSet(view) = S /\ \A p, q \in DOMAIN view : p < q => AtMost(view[p].first, view[q].first)}

\* Mutant: the scan stops at the first interval that ends before the query.
Scan_OwnEnd(view, first, last) ==
  LET Reached(p) == \A r \in DOMAIN view :
                      p <= r /\ AtMost(view[r].first, last) => AtMost(first, view[r].last)
  IN  {p \in DOMAIN view : /\ AtMost(view[p].first, last) /\ Reached(p)
                           /\ AtMost(first, view[p].last)}

\* The positions the scan finds: down from the last interval that starts before the query
\* ends, until the running maximum of the ends does not reach the query any more.
Scan(view, first, last) ==
  LET Reached(p) ==
        \A r \in DOMAIN view : p <= r /\ AtMost(view[r].first, last) =>
          \E k \in DOMAIN view : k <= r /\ AtMost(first, view[k].last)
  IN  {p \in DOMAIN view : /\ AtMost(view[p].first, last) /\ Reached(p)
                           /\ AtMost(first, view[p].last)}

\* _cidr_overlapping_blockers of the reports, over the sorted view.
IndexedBlockers(e, view) ==
  {view[p].blocker : p \in Scan(view, FirstOf(e.value), LastOf(e.value))}

\* _suffix_trie_lookup: the suffixes on the way and, for a suffix whose node is there, the
\* domains at it and all that _collect_terminals finds below it.
TrieLookup(e, B) ==
  (UNION {EndsAt(node, OfKind(B, "domain_suffix")) : node \in Descent(e, B)})
    \cup {x \in EndsAt(e.value, OfKind(B, "domain")) \cup Under(e.value, B) :
            e.kind = "domain_suffix" /\ e.value \in Descent(e, B)}

\* _matching_blockers: the blockers the reports name for a rule.
MatchingBlockers(e, B) ==
  CASE e.kind = "cidr"      -> OverlappingBlockers(e, B)
    [] e.kind \in Patterned -> {x \in B : x[2].kind # "cidr"}
    [] e.kind \in Plain     -> FailClosed(B) \cup TrieLookup(e, B)
                                 \cup {x \in DotlessRegex(B) : IsDotless(e)}
                                 \cup {x \in OfKind(B, "domain") : e.kind = "domain" /\ x[2].value = e.value}

\* _entries_overlap, the pairwise relation the index structures stand for.
EntriesOverlap(e, f) ==
  CASE e.kind = "cidr" \/ f.kind = "cidr" -> e.kind = f.kind /\ Nested(e.value, f.value)
    [] e.kind = "domain_regex" /\ f.kind = "domain_regex" -> TRUE
    [] e.kind # "cidr" /\ f.kind # "cidr" /\ {e.kind, f.kind} \cap Patterned # {}
         /\ ~(e.kind = "domain_regex" /\ f.kind = "domain_regex") ->
         \A r \in {e, f} : r.kind = "domain_regex" /\ r.value = Dotless =>
            LET other == IF r = e THEN f ELSE e
            IN  IF other.kind \in Plain THEN IsDotless(other) ELSE other.value \notin Dotted
    [] e.kind \in Plain /\ f.kind \in Plain ->
         \/ e.value = f.value
         \/ e.kind = "domain_suffix" /\ IsPrefix(e.value, f.value)
         \/ f.kind = "domain_suffix" /\ IsPrefix(f.value, e.value)

Conflicts(d, entries, source) ==
  UNION {UNION {{[dataset |-> d, higher |-> x[1], lower |-> c, blocker |-> x[2], entry |-> e] :
                   x \in MatchingBlockers(e, Blockers(d, c, source))} :
                e \in entries[c]} : c \in Categories}

----------------------------------------------------------------------------
\* address_exclude: what is left of n without b, a network inside it, are the siblings on
\* the path from n to b.
Sibling(b, i) == [SubSeq(b, 1, i) EXCEPT ![i] = 1 - b[i]]
\* Mutant: the split stops one level above the blocker.
AddressExclude_StopsShort(n, b) == {Sibling(b, i) : i \in Len(n)+1..Len(b)-1}

AddressExclude(n, b) == {Sibling(b, i) : i \in Len(n)+1..Len(b)}

\* Mutant: a piece the blocker covers is kept whole.
Pieces_KeepsCovered(n, b) ==
  IF IsPrefix(n, b) /\ n # b THEN AddressExclude(n, b) ELSE {n}

\* What one blocker leaves of one network.
Pieces(n, b) ==
  CASE ~Nested(n, b)                    -> {n}
    [] IsPrefix(b, n)                   -> {}
    [] IsPrefix(n, b) /\ ~IsPrefix(b, n) -> AddressExclude(n, b)

----------------------------------------------------------------------------
\* Mutant: a category not published in a dataset owns nothing there.
Categorize_PoolOfPublished ==
  /\ phase = "categorize" /\ phase' = "resolve"
  /\ published' = [d \in Datasets |-> [c \in Categories |->
                     Collect({m \in DOMAIN Mapping : d \in Mapping[m].datasets}, c)]]
  /\ pool' = [c \in Categories |-> published'["lite"][c]]
  /\ UNCHANGED <<rules, dataset, resolved, todo, cut, before, after>>

Categorize ==
  /\ phase = "categorize"
  /\ IF \E r \in rules : ~(r.memberships \subseteq DOMAIN Mapping)
     THEN phase' = "unmapped" /\ UNCHANGED <<published, pool>>
     ELSE /\ published' = [d \in Datasets |-> [c \in Categories |->
                             Collect({m \in DOMAIN Mapping : d \in Mapping[m].datasets}, c)]]
          /\ pool' = [c \in Categories |-> Collect(DOMAIN Mapping, c)]
          /\ phase' = "resolve"
  /\ UNCHANGED <<rules, dataset, resolved, todo, cut, before, after>>

\* Rules other than networks stay or go; the networks are gone through one by one.
ResolveDomains ==
  /\ phase = "resolve" /\ phase' = "subtract"
  /\ before' = before \cup Conflicts(dataset, published[dataset], pool)
  /\ resolved' = [resolved EXCEPT ![dataset] = [c \in Categories |->
                    {e \in published[dataset][c] :
                       e.kind # "cidr" /\ ~IsBlocked(e, Blockers(dataset, c, pool))}]]
  /\ todo' = UNION {{c} \X {e \in published[dataset][c] : e.kind = "cidr"} : c \in Categories}
  /\ UNCHANGED <<rules, dataset, published, pool, cut, after>>

\* _subtract_cidr, begun for one network.
TakeNetwork ==
  /\ phase = "subtract" /\ cut = NoCut
  /\ \E t \in todo :
       /\ todo' = todo \ {t}
       /\ cut' = [category |-> t[1], entry |-> t[2], remaining |-> {t[2].value},
                  blockers |-> {x[2].value : x \in
                    OverlappingBlockers(t[2], Blockers(dataset, t[1], pool))}]
  /\ UNCHANGED <<rules, phase, dataset, published, pool, resolved, before, after>>

\* One blocker of its loop.
SubtractBlocker ==
  /\ cut.remaining # {}
  /\ \E b \in cut.blockers :
       cut' = [cut EXCEPT !.remaining = UNION {Pieces(n, b) : n \in cut.remaining},
                          !.blockers = @ \ {b}]
  /\ UNCHANGED <<rules, phase, dataset, published, pool, resolved, todo, before, after>>

\* The loop ends with its blockers, or when nothing is left.
FinishNetwork ==
  /\ cut # NoCut /\ (cut.blockers = {} \/ cut.remaining = {})
  /\ resolved' = [resolved EXCEPT ![dataset][cut.category] =
                    @ \cup {[cut.entry EXCEPT !.value = n] : n \in cut.remaining}]
  /\ cut' = NoCut
  /\ UNCHANGED <<rules, phase, dataset, published, pool, todo, before, after>>

NextDataset ==
  /\ phase = "subtract" /\ todo = {} /\ cut = NoCut
  /\ dataset' = "server"
  /\ phase' = IF dataset = "lite" THEN "resolve" ELSE "report"
  /\ UNCHANGED <<rules, published, pool, resolved, todo, cut, before, after>>

\* The blockers left anywhere after the resolution.
ResolvedPool == [c \in Categories |-> resolved["lite"][c] \cup resolved["server"][c]]

\* The overlaps that remain, the blockers being those left in either dataset.
ReportAfter ==
  /\ phase = "report" /\ phase' = "superset"
  /\ after' = UNION {Conflicts(d, resolved[d], ResolvedPool) : d \in Datasets}
  /\ UNCHANGED <<rules, dataset, published, pool, resolved, todo, cut, before>>

Present(d) == {c \in Categories : published[d][c] # {}}

\* assert_server_superset.
AssertSuperset ==
  /\ phase = "superset"
  /\ phase' = IF \A c \in Present("lite") \cap Present("server") :
                    resolved["lite"][c] \subseteq resolved["server"][c]
              THEN "validate" ELSE "not_superset"
  /\ UNCHANGED <<rules, dataset, published, pool, resolved, todo, cut, before, after>>

Count(dc) == IF dc[2] \in Present(dc[1]) THEN Cardinality(resolved[dc[1]][dc[2]]) ELSE 0

\* _validate_semantics, in the order of its checks.
ValidateSemantics ==
  /\ phase = "validate"
  /\ phase' = CASE after # {} -> "unresolved"
                [] after = {} /\ \E d \in Datasets, c \in Categories : \E e \in resolved[d][c] :
                     e.kind = "cidr" /\ e.value \in DefaultRoutes -> "default_route"
                [] OTHER -> IF \E dc \in Required : dc[2] \notin Present(dc[1]) THEN "absent"
                            ELSE IF \E dc \in DOMAIN Minimum : Count(dc) < Minimum[dc]
                                 THEN "too_few" ELSE "accepted"
  /\ UNCHANGED <<rules, dataset, published, pool, resolved, todo, cut, before, after>>

Next ==
  \/ Categorize \/ ResolveDomains \/ TakeNetwork \/ SubtractBlocker \/ FinishNetwork
  \/ NextDataset \/ ReportAfter \/ AssertSuperset \/ ValidateSemantics

Spec == Init /\ [][Next]_vars

----------------------------------------------------------------------------
Resolved == {"superset", "validate"} \cup (Ended \ {"unmapped"})

\* No host and no address is left in a category that a category of a higher tier owns:
\* whatever the kinds of the two rules, and though the owner may not be published in that
\* dataset or may have lost entries itself.
OwnersWin ==
  \A d \in Datasets, c \in Categories : \A e \in resolved[d][c], x \in Blockers(d, c, pool) :
    Hits(e) \cap Hits(x[2]) = {}

AllHits(E) == UNION {Hits(e) : e \in E}
NetworksOf(E) == {e \in E : e.kind = "cidr"}

\* The subtraction loses nothing else: in whatever order the blockers come, the networks
\* of a category keep exactly the addresses no owner has.
NetworksExact ==
  phase \in Resolved =>
    \A d \in Datasets, c \in Categories :
      AllHits(NetworksOf(resolved[d][c])) =
        AllHits(NetworksOf(published[d][c]))
          \ AllHits({x[2] : x \in OfKind(Blockers(d, c, pool), "cidr")})

Same(e, f) == e.kind = f.kind /\ e.value = f.value

\* The boolean check that removes rules and the lookup that reports conflicts agree: an
\* entry is lost or split if and only if a conflict of its dataset names it.
RemovalsAreReported ==
  phase \in Resolved =>
    \A d \in Datasets, c \in Categories : \A e \in published[d][c] :
      e \notin resolved[d][c] <=> \E x \in before : x.dataset = d /\ x.lower = c /\ x.entry = e

\* The trie and the interval index find the very blockers that overlap pair by pair.
IndexesMatchPairwise ==
  phase = "resolve" =>
    \A c \in Categories : \A e \in {e \in published[dataset][c] : e.kind \notin Patterned} :
      LET B == Blockers(dataset, c, pool)
      IN  /\ MatchingBlockers(e, B) = {x \in B : EntriesOverlap(e, x[2])}
          /\ e.kind = "cidr" => \A view \in SortedViews(Intervals(B, e.value[1])) :
                                  IndexedBlockers(e, view) = OverlappingBlockers(e, B)

\* Nothing is left to report after the resolution, so that validation never meets an
\* unresolved conflict.
NoneUnresolved == after = {}

\* A network of a thematic category that lite had to split and server keeps whole.
Diverges(c) ==
  Tier[c] = "thematic" /\ NetworksOf(resolved["lite"][c]) \ published["lite"][c] # {}

\* That is the only way for a build to fail because server is no superset of lite: two
\* resolutions against the same pool agree on every other category.
SupersetFailsOnlyWhenDiverging ==
  phase = "not_superset" => \E c \in Present("lite") \cap Present("server") : Diverges(c)

\* A category of server matches whatever its lite version does, even where the check, which
\* compares entries, says no: what server keeps whole covers what lite has in pieces.
ServerCoversLite ==
  phase \in Resolved =>
    \A c \in Present("lite") \cap Present("server") :
      AllHits(resolved["lite"][c]) \subseteq AllHits(resolved["server"][c])
=============================================================================
