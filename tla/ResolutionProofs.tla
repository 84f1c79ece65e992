-------------------------- MODULE ResolutionProofs --------------------------
(***************************************************************************)
(* The resolution, for any rules, categories, tiers, patterns and width of *)
(* addresses: owners keep what is theirs, nothing else is lost, what is lost *)
(* is reported, and the indexes find what overlaps.                        *)
(***************************************************************************)
EXTENDS Resolution, SequenceTheorems, WellFoundedInduction, TLAPS

Labels == UNION {ToSet(h) : h \in Hosts}
Bits   == {0, 1, 4, 6}

\* A prefix, element by element; prefixes of one sequence are nested.
LEMMA PrefixIs ==
  ASSUME NEW S, NEW s \in Seq(S), NEW t \in Seq(S)
  PROVE  IsPrefix(s, t) <=> Len(s) <= Len(t) /\ \A i \in 1..Len(s) : s[i] = t[i]
<1>1. Len(s) \in Nat /\ Len(t) \in Nat
  OBVIOUS
<1>2. CASE Len(s) <= Len(t)
  <2>1. /\ SubSeq(s, 1, Len(s)) = [i \in 1..Len(s) |-> s[i]]
        /\ SubSeq(t, 1, Len(s)) = [i \in 1..Len(s) |-> t[i]]
    BY <1>1, <1>2
  <2>2. QED
    BY <1>2, <2>1 DEF IsPrefix
<1>3. CASE ~(Len(s) <= Len(t))
  BY <1>3 DEF IsPrefix
<1>4. QED
  BY <1>2, <1>3

\* Of two prefixes of one path one is a prefix of the other: two networks with an address
\* in common are nested.
LEMMA PrefixesNested ==
  ASSUME NEW S, NEW s \in Seq(S), NEW t \in Seq(S), NEW u \in Seq(S), IsPrefix(s, u), IsPrefix(t, u)
  PROVE  Nested(s, t)
<1>1. Len(s) \in Nat /\ Len(t) \in Nat /\ Len(u) \in Nat
  OBVIOUS
<1>2. /\ Len(s) <= Len(u) /\ \A i \in 1..Len(s) : s[i] = u[i]
      /\ Len(t) <= Len(u) /\ \A i \in 1..Len(t) : t[i] = u[i]
  BY PrefixIs
<1>3. (Len(s) <= Len(t) /\ \A i \in 1..Len(s) : s[i] = t[i])
      \/ (Len(t) <= Len(s) /\ \A i \in 1..Len(t) : t[i] = s[i])
  BY <1>1, <1>2
<1>4. QED
  BY <1>3, PrefixIs DEF Nested

\* A network within a network within a third is within the third.
LEMMA PrefixTransitive ==
  ASSUME NEW S, NEW s \in Seq(S), NEW t \in Seq(S), NEW u \in Seq(S), IsPrefix(s, t), IsPrefix(t, u)
  PROVE  IsPrefix(s, u)
<1>1. Len(s) \in Nat /\ Len(t) \in Nat /\ Len(u) \in Nat
  OBVIOUS
<1>2. /\ Len(s) <= Len(t) /\ \A i \in 1..Len(s) : s[i] = t[i]
      /\ Len(t) <= Len(u) /\ \A i \in 1..Len(t) : t[i] = u[i]
  BY PrefixIs
<1>3. QED
  BY <1>1, <1>2, PrefixIs

\* The values of the entries are sequences.
LEMMA HostsAre == \A h \in Hosts : h \in Seq(Labels) /\ h # <<>>
<1>1. \A h \in Hosts : h \in Seq(ToSet(h)) /\ h # <<>> /\ ToSet(h) \subseteq Labels
  BY ResolutionAssumption DEF Labels
<1>2. QED
  BY <1>1, SeqMonotonic

\* A network is an IP version followed by at most Width bits.
LEMMA NetworksAre ==
  ASSUME NEW n \in Networks
  PROVE  /\ n \in Seq(Bits) /\ Len(n) \in 1..Width+1 /\ n[1] \in {4, 6}
         /\ \A i \in 2..Len(n) : n[i] \in {0, 1}
<1> DEFINE paths(v, k) == {<<v>> \o bits : bits \in [1..k -> {0, 1}]}
<1>0. Networks = UNION {paths(v, k) : v \in {4, 6}, k \in 0..Width}
  BY DEF Networks
<1> HIDE DEF paths
<1>1. PICK v \in {4, 6}, k \in 0..Width : n \in paths(v, k)
  BY <1>0
<1>2. PICK bits \in [1..k -> {0, 1}] : n = <<v>> \o bits
  BY <1>1 DEF paths
<1>3. Width \in Nat /\ k \in Nat
  BY ResolutionAssumption
<1>4. <<v>> \in Seq(Bits) /\ Len(<<v>>) = 1 /\ <<v>>[1] = v
  BY DEF Bits
<1>5. bits \in Seq(Bits) /\ Len(bits) = k
  BY <1>3 DEF Bits
<1>6. n \in Seq(Bits) /\ Len(n) = 1 + k
      /\ \A i \in 1..1+k : n[i] = IF i <= 1 THEN <<v>>[i] ELSE bits[i - 1]
  BY <1>2, <1>4, <1>5, ConcatProperties
<1>7. n[1] = v /\ Len(n) \in 1..Width+1
  BY <1>3, <1>4, <1>6
<1>8. \A i \in 2..Len(n) : n[i] \in {0, 1}
  <2> SUFFICES ASSUME NEW i \in 2..Len(n) PROVE n[i] \in {0, 1}
    OBVIOUS
  <2>1. i \in 1..1+k /\ ~(i <= 1) /\ i - 1 \in 1..k
    BY <1>3, <1>6
  <2>2. n[i] = bits[i - 1]
    BY <1>6, <2>1
  <2>3. QED
    BY <2>1, <2>2
<1>9. QED
  BY <1>6, <1>7, <1>8

\* Any path of bits that is not too long is a network.
LEMMA NetworkFrom ==
  ASSUME NEW n \in Seq(Bits), Len(n) \in 1..Width+1, n[1] \in {4, 6},
         \A i \in 2..Len(n) : n[i] \in {0, 1}
  PROVE  n \in Networks
<1> DEFINE k == Len(n) - 1
           bits == [i \in 1..k |-> n[i + 1]]
<1>1. Width \in Nat /\ k \in 0..Width /\ k \in Nat
  BY ResolutionAssumption
<1>2. bits \in [1..k -> {0, 1}]
  BY <1>1
<1>3. bits \in Seq(Bits) /\ Len(bits) = k
  BY <1>1, <1>2 DEF Bits
<1>4. <<n[1]>> \in Seq(Bits) /\ Len(<<n[1]>>) = 1 /\ <<n[1]>>[1] = n[1]
  BY DEF Bits
<1> DEFINE m == <<n[1]>> \o bits
<1>5. m \in Seq(Bits) /\ Len(m) = 1 + k
      /\ \A i \in 1..1+k : m[i] = IF i <= 1 THEN <<n[1]>>[i] ELSE bits[i - 1]
  <2> HIDE DEF bits, k
  <2>1. QED
    BY <1>3, <1>4, ConcatProperties
<1>6. \A i \in 1..Len(n) : m[i] = n[i]
  <2> SUFFICES ASSUME NEW i \in 1..Len(n) PROVE m[i] = n[i]
    OBVIOUS
  <2>1. i \in 1..1+k /\ Len(n) \in Nat
    OBVIOUS
  <2> HIDE DEF m
  <2>2. m[i] = IF i <= 1 THEN <<n[1]>>[i] ELSE bits[i - 1]
    BY <1>5, <2>1
  <2>3. CASE i = 1
    BY <1>4, <2>2, <2>3
  <2>4. CASE i # 1
    <3>1. ~(i <= 1) /\ i - 1 \in 1..k /\ (i - 1) + 1 = i
      BY <2>1, <2>4
    <3>2. QED
      BY <2>2, <3>1
  <2>5. QED
    BY <2>3, <2>4
<1>7. Len(m) = Len(n)
  BY <1>5
<1>8. m = n
  <2> HIDE DEF m
  <2>1. QED
    BY <1>5, <1>6, <1>7, SeqEqual
<1>9. m \in Networks
  <2> HIDE DEF k, bits
  <2>1. m \in {<<n[1]>> \o b : b \in [1..k -> {0, 1}]}
    BY <1>2
  <2> HIDE DEF m
  <2> DEFINE Level(v, j) == {<<v>> \o b : b \in [1..j -> {0, 1}]}
  <2>2. m \in Level(n[1], k)
    BY <2>1
  <2>3. Networks = UNION {Level(v, j) : v \in {4, 6}, j \in 0..Width}
    BY DEF Networks
  <2> HIDE DEF Level
  <2>4. QED
    BY <1>1, <2>2, <2>3
<1>10. QED
  BY <1>8, <1>9

\* Networks that are not nested have no address in common.
LEMMA NetworksApart ==
  ASSUME NEW n \in Networks, NEW m \in Networks, ~Nested(n, m)
  PROVE  {a \in Addresses : IsPrefix(n, a)} \cap {a \in Addresses : IsPrefix(m, a)} = {}
<1>1. \A a \in Addresses : a \in Seq(Bits)
  BY NetworksAre DEF Addresses
<1>2. n \in Seq(Bits) /\ m \in Seq(Bits)
  BY NetworksAre
<1>3. QED
  BY <1>1, <1>2, PrefixesNested

----------------------------------------------------------------------------
\* What an entry that is not blocked matches.
LEMMA NamesHitHosts ==
  ASSUME NEW e, Entry(e), e.kind # "cidr"
  PROVE  Hits(e) \subseteq Hosts
BY ResolutionAssumption DEF Entry, Hits, Plain, Patterned

\* A network matches the addresses below it.
LEMMA NetworksHitAddresses ==
  ASSUME NEW e, Entry(e), e.kind = "cidr"
  PROVE  e.value \in Networks /\ Hits(e) = {a \in Addresses : IsPrefix(e.value, a)}
BY DEF Entry, Hits, Plain, Patterned

\* Of a plain entry and one host that it matches, the value is a prefix.
LEMMA PlainHits ==
  ASSUME NEW e, Entry(e), e.kind \in Plain, NEW h \in Hits(e)
  PROVE  /\ e.value \in Seq(Labels) /\ h \in Seq(Labels) /\ h \in Hosts
         /\ IsPrefix(e.value, h) /\ Len(e.value) \in Nat \ {0}
         /\ e.kind = "domain" => h = e.value
<1>1. e.value \in Seq(Labels) /\ e.value # <<>>
  BY DEF Entry, Plain, Patterned, Labels
<1>2. h \in Hosts /\ h \in Seq(Labels)
  BY HostsAre DEF Plain, Patterned, Hits
<1>3. CASE e.kind = "domain"
  <2>1. h = e.value
    BY <1>3 DEF Hits, Patterned
  <2>2. IsPrefix(e.value, h)
    BY <1>1, <2>1, PrefixIs
  <2>3. QED
    BY <1>1, <1>2, <2>1, <2>2
<1>4. CASE e.kind = "domain_suffix"
  <2>1. IsPrefix(e.value, h) /\ e.kind # "domain"
    BY <1>4 DEF Hits, Patterned
  <2>2. Len(e.value) \in Nat \ {0}
    BY <1>1
  <2>3. QED
    BY <1>1, <1>2, <2>1, <2>2
<1>5. QED
  BY <1>3, <1>4 DEF Plain

\* The values of domains and suffixes.
LEMMA PlainValues ==
  ASSUME NEW e, Entry(e), e.kind \in Plain
  PROVE  e.value \in Seq(Labels) /\ Len(e.value) \in Nat \ {0}
<1>1. e.value \in Seq(Labels) /\ e.value # <<>>
  BY DEF Entry, Plain, Patterned, Labels
<1>2. QED
  BY <1>1

\* The beginnings of a sequence that Prefixes lists are its prefixes.
LEMMA PrefixesAre ==
  ASSUME NEW S, NEW s \in Seq(S), NEW t \in Seq(S)
  PROVE  s \in Prefixes(t) <=> IsPrefix(s, t)
<1>1. Len(s) \in Nat /\ Len(t) \in Nat
  OBVIOUS
<1>2. ASSUME IsPrefix(s, t) PROVE s \in Prefixes(t)
  <2>1. Len(s) <= Len(t) /\ \A i \in 1..Len(s) : s[i] = t[i]
    BY <1>2, PrefixIs
  <2>2. s = SubSeq(t, 1, Len(s))
    BY <1>1, <2>1
  <2>3. Len(s) \in 0..Len(t)
    BY <1>1, <2>1
  <2>4. QED
    BY <2>2, <2>3, Zenon DEF Prefixes
<1>3. ASSUME s \in Prefixes(t) PROVE IsPrefix(s, t)
  <2>1. PICK l \in 0..Len(t) : s = SubSeq(t, 1, l)
    BY <1>3 DEF Prefixes
  <2>2. Len(s) = l /\ \A i \in 1..l : s[i] = t[i]
    BY <1>1, <2>1
  <2>3. Len(s) <= Len(t) /\ \A i \in 1..Len(s) : s[i] = t[i]
    BY <1>1, <2>1, <2>2
  <2>4. QED
    BY <2>3, PrefixIs
<1>4. QED
  BY <1>2, <1>3

\* What the descent of the trie comes to: it finds a domain or a suffix exactly if one of the
\* two values holds the other and a suffix is the shorter one.
LEMMA TrieFinds ==
  ASSUME NEW e, Entry(e), e.kind \in Plain, NEW B, NEW x \in B, Entry(x[2]), x[2].kind \in Plain
  PROVE  x \in TrieLookup(e, B) <=>
           \/ x[2].kind = "domain_suffix" /\ IsPrefix(x[2].value, e.value)
           \/ e.kind = "domain_suffix" /\ IsPrefix(e.value, x[2].value)
<1> DEFINE v == e.value
           w == x[2].value
<1>1. v \in Seq(Labels) /\ w \in Seq(Labels) /\ Len(v) \in Nat \ {0} /\ Len(w) \in Nat \ {0}
  BY PlainValues
<1>2. x \in InTrie(B)
  BY DEF InTrie, OfKind, Plain
<1>3. \A n \in Seq(Labels) : IsPrefix(n, w) => n \in Nodes(B)
  BY <1>1, <1>2, PrefixesAre DEF Nodes
<1>4. IsPrefix(w, w) /\ IsPrefix(v, v)
  BY <1>1, PrefixIs
<1>5. w \in Descent(e, B) <=> IsPrefix(w, v)
  <2>1. w \in Prefixes(v) <=> IsPrefix(w, v)
    BY <1>1, PrefixesAre
  <2>2. w \in Nodes(B) /\ w # <<>>
    BY <1>1, <1>3, <1>4
  <2>3. QED
    BY <2>1, <2>2 DEF Descent
<1>6. IsPrefix(v, w) => v \in Descent(e, B)
  <2>1. v \in Prefixes(v) /\ v # <<>>
    BY <1>1, <1>4, PrefixesAre
  <2>2. QED
    BY <1>1, <1>3, <2>1 DEF Descent
<1>7. x \in EndsAt(v, OfKind(B, "domain")) \cup Under(v, B) <=>
        IsPrefix(v, w) /\ (w = v => x[2].kind = "domain")
  BY <1>2, <1>4 DEF EndsAt, OfKind, Under, IsStrictPrefix
<1>8. x \in UNION {EndsAt(n, OfKind(B, "domain_suffix")) : n \in Descent(e, B)} <=>
        x[2].kind = "domain_suffix" /\ IsPrefix(w, v)
  BY <1>5 DEF EndsAt, OfKind
<1> HIDE DEF v, w
<1> DEFINE way == UNION {EndsAt(n, OfKind(B, "domain_suffix")) : n \in Descent(e, B)}
           rest == EndsAt(e.value, OfKind(B, "domain")) \cup Under(e.value, B)
<1>9. TrieLookup(e, B) =
         way \cup {y \in rest : e.kind = "domain_suffix" /\ e.value \in Descent(e, B)}
  BY DEF TrieLookup
<1>10. x \in TrieLookup(e, B) <=>
        \/ x[2].kind = "domain_suffix" /\ IsPrefix(w, v)
        \/ /\ IsPrefix(v, w) /\ (w = v => x[2].kind = "domain")
           /\ e.kind = "domain_suffix" /\ v \in Descent(e, B)
  <2>1. x \in way <=> x[2].kind = "domain_suffix" /\ IsPrefix(w, v)
    BY <1>8, Zenon
  <2>2. x \in rest <=> IsPrefix(v, w) /\ (w = v => x[2].kind = "domain")
    BY <1>7, Zenon DEF v
  <2> HIDE DEF way, rest
  <2>3. QED
    BY <1>9, <2>1, <2>2 DEF v
<1>11. w = v /\ x[2].kind # "domain" => x[2].kind = "domain_suffix" /\ IsPrefix(w, v)
  BY <1>4 DEF Plain
<1>12. QED
  BY <1>6, <1>10, <1>11 DEF v, w

\* The boolean descent finds something exactly if the lookup does.
LEMMA TriesAgree ==
  ASSUME NEW e, NEW B
  PROVE  TrieHasOverlap(e, B) <=> TrieLookup(e, B) # {}
<1> DEFINE way == UNION {EndsAt(n, OfKind(B, "domain_suffix")) : n \in Descent(e, B)}
           rest == EndsAt(e.value, OfKind(B, "domain")) \cup Under(e.value, B)
           all == e.kind = "domain_suffix" /\ e.value \in Descent(e, B)
<1>1. TrieLookup(e, B) = way \cup {x \in rest : all}
  BY DEF TrieLookup
<1>2. TrieHasOverlap(e, B) <=> way # {} \/ (all /\ rest # {})
  <2>1. way # {} <=> \E n \in Descent(e, B) : EndsAt(n, OfKind(B, "domain_suffix")) # {}
    OBVIOUS
  <2>2. rest # {} <=> EndsAt(e.value, OfKind(B, "domain")) # {} \/ Under(e.value, B) # {}
    OBVIOUS
  <2> HIDE DEF way, rest
  <2>3. QED
    BY <2>1, <2>2 DEF TrieHasOverlap
<1> HIDE DEF way, rest, all
<1>3. QED
  BY <1>1, <1>2

\* Whatever the lookup finds is in the trie.
LEMMA TrieHolds ==
  ASSUME NEW e, NEW B
  PROVE  TrieLookup(e, B) \subseteq B /\ \A x \in TrieLookup(e, B) : x[2].kind \in Plain
<1> DEFINE holds(X) == \A x \in X : x \in B /\ x[2].kind \in Plain
<1>1. /\ \A n : holds(EndsAt(n, OfKind(B, "domain_suffix")))
      /\ holds(EndsAt(e.value, OfKind(B, "domain"))) /\ holds(Under(e.value, B))
  BY DEF EndsAt, Under, InTrie, OfKind, Plain
<1>2. \A x \in TrieLookup(e, B) : \/ \E n : x \in EndsAt(n, OfKind(B, "domain_suffix"))
                                  \/ x \in EndsAt(e.value, OfKind(B, "domain"))
                                  \/ x \in Under(e.value, B)
  BY DEF TrieLookup
<1>3. QED
  BY <1>1, <1>2

\* _is_blocked is complete: an entry it does not take out has no host in common with a blocker.
LEMMA UnblockedApart ==
  ASSUME NEW e, Entry(e), e.kind # "cidr", NEW B, ~IsBlocked(e, B), NEW x \in B, Entry(x[2])
  PROVE  Hits(e) \cap Hits(x[2]) = {}
<1> DEFINE f == x[2]
<1>1. CASE f.kind = "cidr"
  <2>1. Hits(e) \subseteq Hosts /\ Hits(f) \subseteq Addresses
    BY <1>1, NamesHitHosts, NetworksHitAddresses
  <2>2. QED
    BY <2>1, ResolutionAssumption
<1>2. CASE e.kind \in Patterned /\ f.kind # "cidr"
  BY <1>2 DEF IsBlocked
<1>3. CASE e.kind \in Plain /\ f.kind \in Patterned
  <2>1. x \in DotlessRegex(B)
    BY <1>3 DEF IsBlocked, FailClosed
  <2>2. f.kind = "domain_regex" /\ f.value = Dotless /\ Len(e.value) # 1
    BY <1>3, <2>1 DEF IsBlocked, DotlessRegex, OfKind, IsDotless
  <2>3. Hits(f) = PatternHosts[Dotless] /\ Dotless \in Patterns
    BY <2>2 DEF Hits, Entry, Plain, Patterned
  <2>4. \A h \in Hits(f) : Len(h) = 1
    BY <2>3, ResolutionAssumption
  <2>5. ASSUME NEW h \in Hits(e), Len(h) = 1 PROVE FALSE
    <3>1. /\ e.value \in Seq(Labels) /\ h \in Seq(Labels)
          /\ IsPrefix(e.value, h) /\ Len(e.value) \in Nat \ {0}
      BY <1>3, PlainHits
    <3>2. Len(e.value) <= Len(h)
      BY <3>1, PrefixIs
    <3>3. QED
      BY <2>2, <2>5, <3>1, <3>2
  <2>6. QED
    BY <2>4, <2>5
<1>4. CASE e.kind \in Plain /\ f.kind \in Plain
  <2>1. SUFFICES ASSUME NEW h \in Hits(e), h \in Hits(f) PROVE FALSE
    OBVIOUS
  <2>2. /\ e.value \in Seq(Labels) /\ h \in Seq(Labels) /\ IsPrefix(e.value, h)
        /\ (e.kind = "domain" => h = e.value)
    BY <1>4, PlainHits
  <2>3. /\ f.value \in Seq(Labels) /\ IsPrefix(f.value, h) /\ (f.kind = "domain" => h = f.value)
    BY <1>4, <2>1, PlainHits
  <2>4. x \notin TrieLookup(e, B)
    BY <1>4, TriesAgree DEF IsBlocked
  <2>5. CASE f.kind = "domain" /\ e.kind = "domain"
    <3>1. x \in OfKind(B, "domain") /\ f.value = e.value
      BY <2>2, <2>3, <2>5 DEF OfKind
    <3>2. QED
      BY <2>5, <3>1 DEF IsBlocked
  <2>6. CASE f.kind = "domain" /\ e.kind = "domain_suffix"
    BY <1>4, <2>2, <2>3, <2>4, <2>6, TrieFinds
  <2>7. CASE f.kind = "domain_suffix" /\ e.kind = "domain"
    BY <1>4, <2>2, <2>3, <2>4, <2>7, TrieFinds
  <2>8. CASE f.kind = "domain_suffix" /\ e.kind = "domain_suffix"
    <3>1. IsPrefix(e.value, f.value) \/ IsPrefix(f.value, e.value)
      BY <2>2, <2>3, PrefixesNested DEF Nested
    <3>2. QED
      BY <1>4, <2>4, <2>8, <3>1, TrieFinds
  <2>9. QED
    BY <1>4, <2>5, <2>6, <2>7, <2>8 DEF Plain
<1>5. QED
  BY <1>1, <1>2, <1>3, <1>4 DEF Entry

----------------------------------------------------------------------------
\* Networks bit by bit: a prefix, and two of which one holds the other.
LEMMA NetworkPrefix ==
  ASSUME NEW n \in Networks, NEW m \in Networks
  PROVE  /\ IsPrefix(n, m) <=> Len(n) <= Len(m) /\ \A i \in 1..Len(n) : n[i] = m[i]
         /\ Nested(n, m) <=> \A i \in 1..Width+1 : i <= Len(n) /\ i <= Len(m) => n[i] = m[i]
         /\ Nested(n, m) <=> Nested(m, n)
<1>1. /\ n \in Seq(Bits) /\ Len(n) \in 1..Width+1 /\ m \in Seq(Bits) /\ Len(m) \in 1..Width+1
      /\ Width \in Nat
  BY NetworksAre, ResolutionAssumption
<1>2. /\ IsPrefix(n, m) <=> Len(n) <= Len(m) /\ \A i \in 1..Len(n) : n[i] = m[i]
      /\ IsPrefix(m, n) <=> Len(m) <= Len(n) /\ \A i \in 1..Len(m) : m[i] = n[i]
  BY <1>1, PrefixIs
<1>3. CASE Len(n) <= Len(m)
  <2>1. Nested(n, m) <=> \A i \in 1..Len(n) : n[i] = m[i]
    BY <1>1, <1>2, <1>3 DEF Nested
  <2>2. QED
    BY <1>1, <1>2, <1>3, <2>1 DEF Nested
<1>4. CASE Len(m) <= Len(n)
  <2>1. Nested(n, m) <=> \A i \in 1..Len(m) : n[i] = m[i]
    BY <1>1, <1>2, <1>4 DEF Nested
  <2>2. QED
    BY <1>1, <1>2, <1>4, <2>1 DEF Nested
<1>5. QED
  BY <1>1, <1>3, <1>4

\* The networks that hold network m.
LEMMA StartOf ==
  ASSUME NEW m \in Networks, NEW k \in 1..Len(m)
  PROVE  /\ SubSeq(m, 1, k) \in Networks /\ Len(SubSeq(m, 1, k)) = k
         /\ \A i \in 1..k : SubSeq(m, 1, k)[i] = m[i]
         /\ IsPrefix(SubSeq(m, 1, k), m)
<1>1. /\ m \in Seq(Bits) /\ Len(m) \in 1..Width+1 /\ m[1] \in {4, 6} /\ \A i \in 2..Len(m) : m[i] \in {0, 1}
      /\ Width \in Nat
  BY NetworksAre, ResolutionAssumption
<1> DEFINE s == SubSeq(m, 1, k)
<1>2. s \in Seq(Bits) /\ Len(s) = k /\ \A i \in 1..k : s[i] = m[i]
  BY <1>1, SubSeqProperties
<1> HIDE DEF s
<1>3. s \in Networks
  <2>1. Len(s) \in 1..Width+1 /\ s[1] \in {4, 6} /\ \A i \in 2..Len(s) : s[i] \in {0, 1}
    BY <1>1, <1>2
  <2>2. QED
    BY <1>2, <2>1, NetworkFrom
<1>4. IsPrefix(s, m)
  BY <1>1, <1>2, <1>3, NetworkPrefix
<1>5. QED
  BY <1>2, <1>3, <1>4 DEF s

\* The sibling of the i-th network on the path to b.
LEMMA SiblingIs ==
  ASSUME NEW b \in Networks, NEW i \in 2..Len(b)
  PROVE  /\ Sibling(b, i) \in Networks /\ Len(Sibling(b, i)) = i
         /\ Sibling(b, i)[i] = 1 - b[i] /\ Sibling(b, i)[i] # b[i]
         /\ \A j \in 1..i-1 : Sibling(b, i)[j] = b[j]
<1>1. /\ b \in Seq(Bits) /\ Len(b) \in 1..Width+1 /\ b[1] \in {4, 6} /\ \A j \in 2..Len(b) : b[j] \in {0, 1}
      /\ Width \in Nat /\ i \in 1..Len(b) /\ i \in Nat
  BY NetworksAre, ResolutionAssumption
<1> DEFINE start == SubSeq(b, 1, i)
<1>2. start \in Seq(Bits) /\ Len(start) = i /\ \A j \in 1..i : start[j] = b[j]
  BY <1>1, SubSeqProperties
<1>3. 1 - b[i] \in {0, 1} /\ 1 - b[i] # b[i] /\ 1 - b[i] \in Bits
  BY <1>1 DEF Bits
<1> DEFINE p == Sibling(b, i)
<1>4. p \in Seq(Bits) /\ Len(p) = i /\ \A j \in 1..i : p[j] = IF j = i THEN 1 - b[i] ELSE b[j]
  <2>1. p = [start EXCEPT ![i] = 1 - b[i]]
    BY DEF Sibling
  <2>2. i \in 1..Len(start)
    BY <1>1, <1>2
  <2> HIDE DEF start, p
  <2>3. QED
    BY <1>1, <1>2, <1>3, <2>1, <2>2, ExceptSeq
<1> HIDE DEF p
<1>5. Len(p) \in 1..Width+1 /\ p[1] \in {4, 6} /\ \A j \in 2..Len(p) : p[j] \in {0, 1}
  BY <1>1, <1>3, <1>4
<1>6. p \in Networks
  BY <1>4, <1>5, NetworkFrom
<1>7. p[i] = 1 - b[i] /\ p[i] # b[i] /\ \A j \in 1..i-1 : p[j] = b[j]
  BY <1>1, <1>3, <1>4
<1>8. QED
  BY <1>4, <1>6, <1>7 DEF p

\* A network that leaves the path to b with its last bit is a sibling of that path.
LEMMA SiblingFrom ==
  ASSUME NEW b \in Networks, NEW n \in Networks, Len(n) \in 2..Len(b),
         \A j \in 1..Len(n)-1 : n[j] = b[j], n[Len(n)] # b[Len(n)]
  PROVE  n = Sibling(b, Len(n))
<1> DEFINE i == Len(n)
           p == Sibling(b, i)
<1>1. /\ n \in Seq(Bits) /\ b \in Seq(Bits) /\ i \in Nat /\ i >= 2 /\ i \in 2..Len(b)
      /\ n[i] \in {0, 1} /\ b[i] \in {0, 1} /\ n[i] # b[i]
  BY NetworksAre
<1>2. p \in Networks /\ Len(p) = i /\ p[i] = 1 - b[i] /\ \A j \in 1..i-1 : p[j] = b[j]
  BY <1>1, SiblingIs
<1>3. p \in Seq(Bits)
  BY <1>2, NetworksAre
<1> HIDE DEF p
<1>4. p[i] = n[i]
  BY <1>1, <1>2
<1>5. \A j \in 1..i : p[j] = n[j]
  <2> SUFFICES ASSUME NEW j \in 1..i PROVE p[j] = n[j]
    OBVIOUS
  <2>1. j = i \/ j \in 1..i-1
    BY <1>1
  <2>2. QED
    BY <1>2, <1>4, <2>1
<1>6. p = n
  BY <1>1, <1>2, <1>3, <1>5, SeqEqual
<1>7. QED
  BY <1>6 DEF p

\* What is left of a network without a blocker is inside it and apart from the blocker.
LEMMA PiecesApart ==
  ASSUME NEW n \in Networks, NEW b \in Networks, NEW p \in Pieces(n, b)
  PROVE  p \in Networks /\ IsPrefix(n, p) /\ ~Nested(b, p)
<1>1. /\ n \in Seq(Bits) /\ Len(n) \in 1..Width+1 /\ n[1] \in {4, 6}
      /\ b \in Seq(Bits) /\ Len(b) \in 1..Width+1 /\ b[1] \in {4, 6}
      /\ (\A i \in 2..Len(b) : b[i] \in {0, 1}) /\ Width \in Nat
  BY NetworksAre, ResolutionAssumption
<1>2. CASE ~Nested(n, b)
  <2>1. p = n
    BY <1>2 DEF Pieces, Nested
  <2>2. QED
    BY <1>1, <1>2, <2>1, PrefixIs DEF Nested
<1>3. CASE IsPrefix(b, n)
  BY <1>3 DEF Pieces, Nested
<1>4. CASE IsPrefix(n, b) /\ ~IsPrefix(b, n)
  <2>1. PICK i \in Len(n)+1..Len(b) : p = Sibling(b, i)
    BY <1>4 DEF Pieces, Nested, AddressExclude
  <2>2. i \in 2..Len(b) /\ i \in 1..Len(b) /\ i \in Nat /\ Len(b) \in Nat /\ Len(n) \in Nat /\ Len(n) < i
    BY <1>1, <2>1
  <2>3. p \in Networks /\ Len(p) = i /\ p[i] # b[i] /\ \A j \in 1..i-1 : p[j] = b[j]
    BY <2>1, <2>2, SiblingIs
  <2>4. Len(n) <= Len(b) /\ \A j \in 1..Len(n) : n[j] = b[j]
    BY <1>4, NetworkPrefix
  <2>5. IsPrefix(n, p)
    <3>1. Len(n) <= Len(p) /\ \A j \in 1..Len(n) : n[j] = p[j]
      BY <2>2, <2>3, <2>4
    <3>2. QED
      BY <2>3, <3>1, NetworkPrefix
  <2>6. ~Nested(b, p)
    <3>1. i \in 1..Width+1 /\ i <= Len(p) /\ i <= Len(b)
      BY <1>1, <2>2, <2>3
    <3>2. QED
      BY <2>3, <3>1, NetworkPrefix
  <2>7. QED
    BY <2>3, <2>5, <2>6
<1>5. QED
  BY <1>2, <1>3, <1>4 DEF Nested

\* A part of a network is apart from all that the network is apart from.
LEMMA PartsApart ==
  ASSUME NEW n \in Networks, NEW p \in Networks, NEW b \in Networks, IsPrefix(n, p), ~Nested(b, n)
  PROVE  ~Nested(b, p)
<1>1. n \in Seq(Bits) /\ p \in Seq(Bits) /\ b \in Seq(Bits)
  BY NetworksAre
<1>2. IsPrefix(b, p) => Nested(b, n)
  BY <1>1, PrefixesNested
<1>3. IsPrefix(p, b) => IsPrefix(n, b)
  BY <1>1, PrefixTransitive
<1>4. QED
  BY <1>2, <1>3 DEF Nested

----------------------------------------------------------------------------
IsEntry(e) == Entry(e) /\ e = [kind |-> e.kind, value |-> e.value, memberships |-> e.memberships]

\* An entry stems from one of the pool: the same, or a network that holds it.
Stems(e, x) ==
  x.kind = e.kind /\ IF e.kind = "cidr" THEN IsPrefix(x.value, e.value) ELSE x.value = e.value
FromPool(e, c) == \E x \in pool[c] : Stems(e, x)

\* The owners of category c have nothing against it.
Kept(e, d, c) ==
  IF e.kind = "cidr"
  THEN \A x \in OfKind(Blockers(d, c, pool), "cidr") : ~Nested(x[2].value, e.value)
  ELSE ~IsBlocked(e, Blockers(d, c, pool))

PoolOK      == \A c \in Categories : \A e \in pool[c] : IsEntry(e)
PublishedOK == \A d \in Datasets, c \in Categories : \A e \in published[d][c] :
                 IsEntry(e) /\ FromPool(e, c)
ResolvedOK  ==
  /\ DOMAIN resolved = Datasets /\ \A d \in Datasets : DOMAIN resolved[d] = Categories
  /\ \A d \in Datasets, c \in Categories : \A e \in resolved[d][c] :
       IsEntry(e) /\ FromPool(e, c) /\ Kept(e, d, c)
TodoOK == \A t \in todo : t[1] \in Categories /\ IsEntry(t[2]) /\ t[2].kind = "cidr" /\ FromPool(t[2], t[1])

\* The network being subtracted from: a blocker is still to come, or it is apart from all
\* that remains.
CutOK == cut # NoCut =>
  /\ cut = [category |-> cut.category, entry |-> cut.entry, remaining |-> cut.remaining,
            blockers |-> cut.blockers]
  /\ cut.category \in Categories /\ IsEntry(cut.entry) /\ cut.entry.kind = "cidr"
  /\ FromPool(cut.entry, cut.category) /\ cut.blockers \subseteq Networks
  /\ \A n \in cut.remaining :
       /\ n \in Networks /\ IsPrefix(cut.entry.value, n)
       /\ \A x \in OfKind(Blockers(dataset, cut.category, pool), "cidr") :
            x[2].value \in cut.blockers \/ ~Nested(x[2].value, n)

ResolutionInv ==
  /\ rules \in Inputs /\ dataset \in Datasets /\ after = {}
  /\ phase = "categorize" =>
       /\ todo = {} /\ cut = NoCut /\ dataset = "lite"
       /\ \A d \in Datasets, c \in Categories : resolved[d][c] = {}
  /\ PoolOK /\ PublishedOK /\ ResolvedOK /\ TodoOK /\ CutOK

\* _build_blocker_indexes takes the entries of the categories that own, and all of them.
LEMMA BlockersAre ==
  ASSUME NEW d, NEW c, NEW source
  PROVE  /\ \A x \in Blockers(d, c, source) :
              /\ x[1] \in Categories /\ x[2] \in source[x[1]] /\ TakesOwnership(d, Tier[x[1]], Tier[c])
         /\ \A b \in Categories : TakesOwnership(d, Tier[b], Tier[c]) =>
              \A y \in source[b] : <<b, y>> \in Blockers(d, c, source)
BY DEF Blockers

\* What the value of an entry is depends on its kind.
LEMMA EntryValues ==
  ASSUME NEW e, Entry(e)
  PROVE  /\ e.kind = "cidr" => e.value \in Networks
         /\ e.kind \in Plain => e.value \in Seq(Labels)
BY DEF Entry, Plain, Patterned, Labels

\* Each blocker is an entry.
LEMMA BlockersEntries ==
  ASSUME PoolOK, NEW d, NEW c
  PROVE  \A x \in Blockers(d, c, pool) : IsEntry(x[2])
BY BlockersAre DEF PoolOK

\* An entry of the pool stems from itself.
LEMMA StemsFromItself ==
  ASSUME NEW e, NEW x, Entry(e), x.kind = e.kind, x.value = e.value
  PROVE  Stems(e, x)
<1>1. e.kind = "cidr" => e.value \in Seq(Bits)
  BY EntryValues, NetworksAre
<1>2. QED
  BY <1>1, PrefixIs DEF Stems

\* The invariant holds before the rules are categorized.
LEMMA ResolutionInit == Init => ResolutionInv
<1> SUFFICES ASSUME Init PROVE ResolutionInv
  OBVIOUS
<1>1. rules \in Inputs /\ dataset \in Datasets /\ after = {} /\ todo = {} /\ cut = NoCut /\ dataset = "lite"
  BY DEF Init, Datasets
<1>2. \A d \in Datasets, c \in Categories : resolved[d][c] = {} /\ published[d][c] = {} /\ pool[c] = {}
  BY DEF Init, Empty
<1>3. DOMAIN resolved = Datasets /\ \A d \in Datasets : DOMAIN resolved[d] = Categories
  BY DEF Init, Empty
<1>4. PoolOK /\ PublishedOK /\ ResolvedOK /\ TodoOK /\ CutOK
  BY <1>1, <1>2, <1>3 DEF PoolOK, PublishedOK, ResolvedOK, TodoOK, CutOK
<1>5. QED
  BY <1>1, <1>2, <1>4 DEF ResolutionInv

----------------------------------------------------------------------------
\* While the pool stays, so does what is said of entries by it.
LEMMA PoolStays ==
  ASSUME pool' = pool
  PROVE  /\ PoolOK => PoolOK'
         /\ PublishedOK /\ published' = published => PublishedOK'
         /\ ResolvedOK /\ resolved' = resolved => ResolvedOK'
         /\ TodoOK /\ todo' \subseteq todo => TodoOK'
         /\ CutOK /\ cut' = cut /\ (dataset' = dataset \/ cut = NoCut) => CutOK'
<1>1. \A e, c : FromPool(e, c)' <=> FromPool(e, c)
  BY DEF FromPool
<1>2. \A e, d, c : Kept(e, d, c)' <=> Kept(e, d, c)
  BY DEF Kept
<1>3. PoolOK => PoolOK'
  BY DEF PoolOK
<1>4. PublishedOK /\ published' = published => PublishedOK'
  BY <1>1 DEF PublishedOK
<1>5. ResolvedOK /\ resolved' = resolved => ResolvedOK'
  BY <1>1, <1>2 DEF ResolvedOK
<1>6. TodoOK /\ todo' \subseteq todo => TodoOK'
  BY <1>1 DEF TodoOK
<1>7. CutOK /\ cut' = cut /\ (dataset' = dataset \/ cut = NoCut) => CutOK'
  BY <1>1 DEF CutOK
<1>8. QED
  BY <1>3, <1>4, <1>5, <1>6, <1>7

\* _categorize makes entries of the rules, and puts those of a dataset in the pool as well.
LEMMA CategorizeKeeps == ResolutionInv /\ Categorize => ResolutionInv'
<1> SUFFICES ASSUME ResolutionInv, Categorize PROVE ResolutionInv'
  OBVIOUS
<1>1. /\ phase = "categorize" /\ todo = {} /\ cut = NoCut /\ rules \in Inputs
      /\ \A d \in Datasets, c \in Categories : resolved[d][c] = {}
      /\ DOMAIN resolved = Datasets /\ \A d \in Datasets : DOMAIN resolved[d] = Categories
  BY DEF ResolutionInv, Categorize, ResolvedOK
<1>2. phase' # "categorize" /\ UNCHANGED <<rules, dataset, resolved, todo, cut, after>>
  BY DEF Categorize
<1>3. CASE UNCHANGED <<published, pool>>
  <2>1. PoolOK' /\ PublishedOK' /\ ResolvedOK' /\ TodoOK' /\ CutOK'
    BY <1>2, <1>3, PoolStays DEF ResolutionInv
  <2>2. QED
    BY <1>2, <2>1 DEF ResolutionInv
<1>4. CASE ~UNCHANGED <<published, pool>>
  <2> DEFINE In(d) == {m \in DOMAIN Mapping : d \in Mapping[m].datasets}
  <2>1. /\ published' = [d \in Datasets |-> [c \in Categories |-> Collect(In(d), c)]]
        /\ pool' = [c \in Categories |-> Collect(DOMAIN Mapping, c)]
    BY <1>4 DEF Categorize
  <2>2. ASSUME NEW ms, NEW c, NEW e \in Collect(ms, c)
        PROVE  IsEntry(e)
    <3> DEFINE Of(r) == {m \in ms : /\ Mapping[m].category = c
                                    /\ \E s \in rules : /\ s.kind = r.kind /\ s.value = r.value
                                                        /\ m \in s.memberships}
    <3>1. PICK r \in rules : Of(r) # {} /\ e = [kind |-> r.kind, value |-> r.value, memberships |-> Of(r)]
      BY <2>2 DEF Collect
    <3>2. Entry(r)
      BY <1>1, ResolutionAssumption
    <3> HIDE DEF Of
    <3>3. e.kind = r.kind /\ e.value = r.value /\ e.memberships # {}
          /\ e = [kind |-> e.kind, value |-> e.value, memberships |-> e.memberships]
      BY <3>1
    <3>4. QED
      BY <3>2, <3>3 DEF IsEntry, Entry
  <2>3. ASSUME NEW d \in Datasets, NEW c \in Categories, NEW e \in Collect(In(d), c)
        PROVE  \E x \in Collect(DOMAIN Mapping, c) : x.kind = e.kind /\ x.value = e.value
    <3> DEFINE Of(ms, r) == {m \in ms : /\ Mapping[m].category = c
                                        /\ \E s \in rules : /\ s.kind = r.kind /\ s.value = r.value
                                                            /\ m \in s.memberships}
               all(r) == [kind |-> r.kind, value |-> r.value, memberships |-> Of(DOMAIN Mapping, r)]
    <3>1. PICK r \in rules : /\ Of(In(d), r) # {}
                             /\ e = [kind |-> r.kind, value |-> r.value, memberships |-> Of(In(d), r)]
      BY <2>3 DEF Collect
    <3>2. Of(DOMAIN Mapping, r) # {}
      BY <3>1
    <3>3. all(r) \in Collect(DOMAIN Mapping, c)
      BY <3>2 DEF Collect
    <3>4. all(r).kind = e.kind /\ all(r).value = e.value
      BY <3>1
    <3> HIDE DEF all, Of
    <3>5. QED
      BY <3>3, <3>4
  <2> HIDE DEF In
  <2>4. \A c \in Categories : pool'[c] = Collect(DOMAIN Mapping, c)
    BY <2>1
  <2>5. \A d \in Datasets, c \in Categories : published'[d][c] = Collect(In(d), c)
    BY <2>1
  <2>6. PoolOK'
    BY <2>2, <2>4 DEF PoolOK
  <2>7. ASSUME NEW d \in Datasets, NEW c \in Categories, NEW e \in published'[d][c]
        PROVE  IsEntry(e) /\ \E x \in pool'[c] : Stems(e, x)
    <3>1. e \in Collect(In(d), c) /\ IsEntry(e)
      BY <2>2, <2>5, <2>7
    <3>2. PICK x \in pool'[c] : x.kind = e.kind /\ x.value = e.value
      BY <2>3, <2>4, <3>1
    <3>3. Stems(e, x)
      BY <3>1, <3>2, StemsFromItself DEF IsEntry
    <3>4. QED
      BY <3>1, <3>2, <3>3
  <2>8. PublishedOK'
    BY <2>7 DEF PublishedOK, FromPool
  <2>9. ResolvedOK' /\ TodoOK' /\ CutOK'
    BY <1>1, <1>2 DEF ResolvedOK, TodoOK, CutOK
  <2>10. QED
    BY <1>2, <2>6, <2>8, <2>9 DEF ResolutionInv
<1>5. QED
  BY <1>3, <1>4

\* What _resolve_categories keeps of the names is apart from every owner's entries.
LEMMA ResolveDomainsKeeps == ResolutionInv /\ ResolveDomains => ResolutionInv'
<1> SUFFICES ASSUME ResolutionInv, ResolveDomains PROVE ResolutionInv'
  OBVIOUS
<1>1. /\ phase' = "subtract" /\ UNCHANGED <<rules, dataset, published, pool, cut, after>>
      /\ resolved' = [resolved EXCEPT ![dataset] = [c \in Categories |->
                        {e \in published[dataset][c] :
                           e.kind # "cidr" /\ ~IsBlocked(e, Blockers(dataset, c, pool))}]]
      /\ todo' = UNION {{c} \X {e \in published[dataset][c] : e.kind = "cidr"} : c \in Categories}
  BY DEF ResolveDomains
<1>2. dataset \in Datasets /\ PublishedOK /\ ResolvedOK
  BY DEF ResolutionInv
<1>3. PoolOK' /\ PublishedOK' /\ CutOK'
  BY <1>1, PoolStays DEF ResolutionInv
<1>4. \A e, c : FromPool(e, c)' <=> FromPool(e, c)
  BY <1>1 DEF FromPool
<1>5. \A e, d, c : Kept(e, d, c)' <=> Kept(e, d, c)
  BY <1>1 DEF Kept
<1>6. ResolvedOK'
  <2>1. /\ DOMAIN resolved' = Datasets
        /\ \A d \in Datasets : DOMAIN resolved'[d] = Categories
        /\ \A d \in Datasets : d # dataset => resolved'[d] = resolved[d]
        /\ \A c \in Categories : resolved'[dataset][c] =
             {e \in published[dataset][c] : e.kind # "cidr" /\ ~IsBlocked(e, Blockers(dataset, c, pool))}
    BY <1>1, <1>2 DEF ResolvedOK
  <2>2. ASSUME NEW c \in Categories, NEW e \in resolved'[dataset][c]
        PROVE  IsEntry(e) /\ FromPool(e, c) /\ Kept(e, dataset, c)
    BY <1>2, <2>1, <2>2 DEF PublishedOK, Kept
  <2>3. ASSUME NEW d \in Datasets, NEW c \in Categories, NEW e \in resolved'[d][c]
        PROVE  IsEntry(e) /\ FromPool(e, c) /\ Kept(e, d, c)
    BY <1>2, <2>1, <2>2, <2>3 DEF ResolvedOK
  <2>4. QED
    BY <1>4, <1>5, <2>1, <2>3 DEF ResolvedOK
<1>7. TodoOK'
  <2>1. ASSUME NEW t \in todo'
        PROVE  t[1] \in Categories /\ IsEntry(t[2]) /\ t[2].kind = "cidr" /\ FromPool(t[2], t[1])
    <3>1. PICK c \in Categories : t \in {c} \X {e \in published[dataset][c] : e.kind = "cidr"}
      BY <1>1, <2>1
    <3>2. t[1] = c /\ t[2] \in published[dataset][c] /\ t[2].kind = "cidr"
      BY <3>1
    <3>3. QED
      BY <1>2, <3>2 DEF PublishedOK
  <2>2. QED
    BY <1>4, <2>1 DEF TodoOK
<1>8. QED
  BY <1>1, <1>3, <1>6, <1>7 DEF ResolutionInv

\* _subtract_cidr takes one network with all its blockers still to subtract.
LEMMA TakeNetworkKeeps == ResolutionInv /\ TakeNetwork => ResolutionInv'
<1> SUFFICES ASSUME ResolutionInv, TakeNetwork PROVE ResolutionInv'
  OBVIOUS
<1>1. phase = "subtract" /\ UNCHANGED <<rules, phase, dataset, published, pool, resolved, after>>
  BY DEF TakeNetwork
<1>2. PICK t \in todo :
        /\ todo' = todo \ {t}
        /\ cut' = [category |-> t[1], entry |-> t[2], remaining |-> {t[2].value},
                   blockers |-> {x[2].value : x \in
                     OverlappingBlockers(t[2], Blockers(dataset, t[1], pool))}]
  BY DEF TakeNetwork
<1>3. PoolOK' /\ PublishedOK' /\ ResolvedOK' /\ TodoOK'
  BY <1>1, <1>2, PoolStays DEF ResolutionInv
<1>4. t[1] \in Categories /\ IsEntry(t[2]) /\ t[2].kind = "cidr" /\ FromPool(t[2], t[1]) /\ PoolOK
  BY <1>2 DEF ResolutionInv, TodoOK
<1>5. t[2].value \in Networks /\ t[2].value \in Seq(Bits)
  BY <1>4, EntryValues, NetworksAre DEF IsEntry
<1> DEFINE B == Blockers(dataset, t[1], pool)
<1>6. \A x \in OverlappingBlockers(t[2], B) : x[2].value \in Networks
  BY <1>4, BlockersEntries, EntryValues DEF OverlappingBlockers, OfKind, IsEntry
<1>7. \A x \in OfKind(B, "cidr") : x \in OverlappingBlockers(t[2], B) \/ ~Nested(x[2].value, t[2].value)
  BY DEF OverlappingBlockers
<1>8. IsPrefix(t[2].value, t[2].value)
  BY <1>5, PrefixIs
<1>9. CutOK'
  <2> HIDE DEF B
  <2>1. /\ cut'.category = t[1] /\ cut'.entry = t[2] /\ cut'.remaining = {t[2].value}
        /\ cut'.blockers = {x[2].value : x \in OverlappingBlockers(t[2], B)}
        /\ cut' = [category |-> cut'.category, entry |-> cut'.entry, remaining |-> cut'.remaining,
                   blockers |-> cut'.blockers]
    BY <1>2 DEF B
  <2>2. cut'.blockers \subseteq Networks
    BY <1>6, <2>1
  <2>3. \A x \in OfKind(B, "cidr") : x[2].value \in cut'.blockers \/ ~Nested(x[2].value, t[2].value)
    BY <1>7, <2>1
  <2>4. B = Blockers(dataset', cut'.category, pool')
    BY <1>1, <2>1 DEF B
  <2>5. \A n \in cut'.remaining :
          /\ n \in Networks /\ IsPrefix(cut'.entry.value, n)
          /\ \A x \in OfKind(B, "cidr") : x[2].value \in cut'.blockers \/ ~Nested(x[2].value, n)
    BY <1>5, <1>8, <2>1, <2>3
  <2>6. FromPool(cut.entry, cut.category)'
    BY <1>1, <1>4, <2>1 DEF FromPool
  <2>7. QED
    BY <1>4, <2>1, <2>2, <2>4, <2>5, <2>6 DEF CutOK
<1>10. QED
  BY <1>1, <1>3, <1>9 DEF ResolutionInv

\* After a blocker has been subtracted the remaining networks are apart from it, too.
LEMMA SubtractBlockerKeeps == ResolutionInv /\ SubtractBlocker => ResolutionInv'
<1> SUFFICES ASSUME ResolutionInv, SubtractBlocker PROVE ResolutionInv'
  OBVIOUS
<1>1. UNCHANGED <<rules, phase, dataset, published, pool, resolved, todo, after>>
      /\ cut # NoCut
  BY DEF SubtractBlocker, NoCut
<1>2. PICK b \in cut.blockers :
        cut' = [cut EXCEPT !.remaining = UNION {Pieces(n, b) : n \in cut.remaining},
                           !.blockers = cut.blockers \ {b}]
  BY Zenon DEF SubtractBlocker
<1>3. PoolOK' /\ PublishedOK' /\ ResolvedOK' /\ TodoOK'
  BY <1>1, PoolStays DEF ResolutionInv
<1> DEFINE B == OfKind(Blockers(dataset, cut.category, pool), "cidr")
<1>4. /\ cut = [category |-> cut.category, entry |-> cut.entry, remaining |-> cut.remaining,
                blockers |-> cut.blockers]
      /\ cut.category \in Categories /\ IsEntry(cut.entry) /\ cut.entry.kind = "cidr"
      /\ FromPool(cut.entry, cut.category) /\ cut.blockers \subseteq Networks
      /\ \A n \in cut.remaining :
           /\ n \in Networks /\ IsPrefix(cut.entry.value, n)
           /\ \A x \in B : x[2].value \in cut.blockers \/ ~Nested(x[2].value, n)
  BY <1>1 DEF ResolutionInv, CutOK
<1>5. /\ cut'.category = cut.category /\ cut'.entry = cut.entry
      /\ cut'.remaining = UNION {Pieces(n, b) : n \in cut.remaining}
      /\ cut'.blockers = cut.blockers \ {b}
      /\ cut' = [category |-> cut'.category, entry |-> cut'.entry, remaining |-> cut'.remaining,
                 blockers |-> cut'.blockers]
  <2> HIDE DEF B
  <2>1. QED
    BY <1>2, <1>4
<1>6. b \in Networks /\ cut.entry.value \in Networks /\ PoolOK
      /\ cut.entry.value \in Seq(Bits)
  BY <1>4, EntryValues, NetworksAre DEF IsEntry, ResolutionInv
<1>7. \A x \in B : x[2].value \in Networks
  BY <1>6, BlockersEntries, EntryValues DEF OfKind, IsEntry
<1>8. ASSUME NEW p \in cut'.remaining
      PROVE  /\ p \in Networks /\ IsPrefix(cut'.entry.value, p)
             /\ \A x \in B : x[2].value \in cut'.blockers \/ ~Nested(x[2].value, p)
  <2>1. PICK n \in cut.remaining : p \in Pieces(n, b)
    BY <1>5, <1>8
  <2>2. n \in Networks /\ p \in Networks /\ IsPrefix(n, p) /\ ~Nested(b, p)
    BY <1>4, <1>6, <2>1, PiecesApart
  <2>3. IsPrefix(cut.entry.value, p)
    <3>1. n \in Seq(Bits) /\ p \in Seq(Bits) /\ IsPrefix(cut.entry.value, n)
      BY <1>4, <2>2, NetworksAre
    <3>2. QED
      BY <1>6, <2>2, <3>1, PrefixTransitive
  <2>4. ASSUME NEW x \in B, x[2].value \notin cut'.blockers PROVE ~Nested(x[2].value, p)
    <3>1. CASE x[2].value = b
      BY <2>2, <3>1
    <3>2. CASE x[2].value # b
      <4>1. ~Nested(x[2].value, n)
        BY <1>4, <1>5, <2>1, <2>4, <3>2
      <4>2. QED
        BY <1>7, <2>2, <4>1, PartsApart
    <3>3. QED
      BY <3>1, <3>2
  <2>5. QED
    BY <1>5, <2>2, <2>3, <2>4
<1>9. CutOK'
  <2>1. B = OfKind(Blockers(dataset', cut'.category, pool'), "cidr")
    BY <1>1, <1>5
  <2>2. FromPool(cut.entry, cut.category)'
    BY <1>1, <1>4, <1>5 DEF FromPool
  <2> HIDE DEF B
  <2>3. cut'.blockers \subseteq Networks
    BY <1>4, <1>5
  <2>4. QED
    BY <1>4, <1>5, <1>8, <2>1, <2>2, <2>3 DEF CutOK
<1>10. QED
  BY <1>1, <1>3, <1>9 DEF ResolutionInv

\* What remains of a network, apart from all its blockers, is added to its category.
LEMMA FinishNetworkKeeps == ResolutionInv /\ FinishNetwork => ResolutionInv'
<1> SUFFICES ASSUME ResolutionInv, FinishNetwork PROVE ResolutionInv'
  OBVIOUS
<1> DEFINE part(n) == [cut.entry EXCEPT !.value = n]
<1>1. /\ UNCHANGED <<rules, phase, dataset, published, pool, todo, after>> /\ cut' = NoCut /\ cut # NoCut
      /\ (cut.blockers = {} \/ cut.remaining = {})
      /\ resolved' = [resolved EXCEPT ![dataset][cut.category] =
                        resolved[dataset][cut.category] \cup {part(n) : n \in cut.remaining}]
  BY DEF FinishNetwork
<1>2. PoolOK' /\ PublishedOK' /\ TodoOK' /\ CutOK'
  BY <1>1, PoolStays DEF ResolutionInv, CutOK
<1> DEFINE B == OfKind(Blockers(dataset, cut.category, pool), "cidr")
<1>3. /\ cut.category \in Categories /\ IsEntry(cut.entry) /\ cut.entry.kind = "cidr"
      /\ FromPool(cut.entry, cut.category)
      /\ \A n \in cut.remaining :
           /\ n \in Networks /\ IsPrefix(cut.entry.value, n)
           /\ \A x \in B : x[2].value \in cut.blockers \/ ~Nested(x[2].value, n)
      /\ dataset \in Datasets /\ ResolvedOK /\ PoolOK
  BY <1>1 DEF ResolutionInv, CutOK
<1>4. ASSUME NEW n \in cut.remaining
      PROVE  IsEntry(part(n)) /\ FromPool(part(n), cut.category) /\ Kept(part(n), dataset, cut.category)
  <2>1. cut.entry = [kind |-> cut.entry.kind, value |-> cut.entry.value, memberships |-> cut.entry.memberships]
        /\ Entry(cut.entry)
    BY <1>3 DEF IsEntry
  <2>2. part(n) = [kind |-> "cidr", value |-> n, memberships |-> cut.entry.memberships]
    <3> HIDE DEF B
    <3>1. QED
      BY <1>3, <2>1
  <2> HIDE DEF part
  <2>3. part(n).kind = "cidr" /\ part(n).value = n /\ part(n).memberships = cut.entry.memberships
    BY <2>2
  <2>4. IsEntry(part(n))
    BY <1>3, <1>4, <2>1, <2>2, <2>3 DEF IsEntry, Entry
  <2>5. FromPool(part(n), cut.category)
    <3>1. PICK x \in pool[cut.category] : x.kind = "cidr" /\ IsPrefix(x.value, cut.entry.value)
      BY <1>3 DEF FromPool, Stems
    <3>2. x.value \in Networks /\ cut.entry.value \in Networks
      BY <1>3, <2>1, <3>1, EntryValues DEF PoolOK, IsEntry
    <3>3. x.value \in Seq(Bits) /\ cut.entry.value \in Seq(Bits) /\ n \in Seq(Bits)
      BY <1>3, <1>4, <3>2, NetworksAre
    <3>4. IsPrefix(x.value, n)
      BY <1>3, <1>4, <3>1, <3>3, PrefixTransitive
    <3>5. QED
      BY <2>3, <3>1, <3>4 DEF FromPool, Stems
  <2>6. Kept(part(n), dataset, cut.category)
    <3>1. \A x \in B : ~Nested(x[2].value, n)
      BY <1>1, <1>3, <1>4
    <3>2. QED
      BY <2>3, <3>1 DEF Kept
  <2>7. QED
    BY <2>4, <2>5, <2>6
<1> HIDE DEF part, B
<1>5. \A e, c : FromPool(e, c)' <=> FromPool(e, c)
  BY <1>1 DEF FromPool
<1>6. \A e, d, c : Kept(e, d, c)' <=> Kept(e, d, c)
  BY <1>1 DEF Kept
<1>7. ResolvedOK'
  <2>1. /\ DOMAIN resolved' = Datasets /\ \A d \in Datasets : DOMAIN resolved'[d] = Categories
        /\ \A d \in Datasets, c \in Categories : resolved'[d][c] =
             IF d = dataset /\ c = cut.category
             THEN resolved[d][c] \cup {part(n) : n \in cut.remaining} ELSE resolved[d][c]
    BY <1>1, <1>3 DEF ResolvedOK
  <2>2. ASSUME NEW d \in Datasets, NEW c \in Categories, NEW e \in resolved'[d][c]
        PROVE  IsEntry(e) /\ FromPool(e, c) /\ Kept(e, d, c)
    <3>1. CASE e \in resolved[d][c]
      BY <1>3, <3>1 DEF ResolvedOK
    <3>2. CASE e \notin resolved[d][c]
      <4>1. d = dataset /\ c = cut.category /\ \E n \in cut.remaining : e = part(n)
        <5>1. CASE d = dataset /\ c = cut.category
          <6>1. resolved'[d][c] = resolved[d][c] \cup {part(n) : n \in cut.remaining}
            BY <2>1, <5>1
          <6>2. e \in {part(n) : n \in cut.remaining}
            BY <2>2, <3>2, <6>1
          <6>3. QED
            BY <5>1, <6>2
        <5>2. CASE ~(d = dataset /\ c = cut.category)
          <6>1. resolved'[d][c] = resolved[d][c]
            BY <2>1, <5>2
          <6>2. QED
            BY <2>2, <3>2, <6>1
        <5>3. QED
          BY <5>1, <5>2
      <4>2. QED
        BY <1>4, <4>1
    <3>3. QED
      BY <3>1, <3>2
  <2>3. QED
    BY <1>5, <1>6, <2>1, <2>2 DEF ResolvedOK
<1>8. phase = "categorize" => cut = NoCut
  BY DEF ResolutionInv
<1>9. QED
  BY <1>1, <1>2, <1>3, <1>7, <1>8 DEF ResolutionInv

----------------------------------------------------------------------------
\* What an entry that is kept has no overlap with: the blockers left after the resolution,
\* each of which stems from one that was there before it.
LEMMA NothingMatches ==
  ASSUME NEW e, Entry(e), NEW B, NEW R,
         \A x \in B : Entry(x[2]), \A y \in R : Entry(y[2]),
         \A y \in R : \E x \in B : Stems(y[2], x[2]),
         IF e.kind = "cidr" THEN \A x \in OfKind(B, "cidr") : ~Nested(x[2].value, e.value)
         ELSE ~IsBlocked(e, B)
  PROVE  MatchingBlockers(e, R) = {}
<1>1. CASE e.kind = "cidr"
  <2>1. SUFFICES ASSUME NEW y \in OverlappingBlockers(e, R) PROVE FALSE
    BY <1>1 DEF MatchingBlockers, Patterned, Plain
  <2>2. y \in R /\ y[2].kind = "cidr" /\ Nested(y[2].value, e.value)
    BY <2>1 DEF OverlappingBlockers, OfKind
  <2>3. PICK x \in B : x[2].kind = "cidr" /\ IsPrefix(x[2].value, y[2].value)
    BY <2>2 DEF Stems
  <2>4. x[2].value \in Networks /\ y[2].value \in Networks /\ e.value \in Networks
    BY <1>1, <2>2, <2>3, EntryValues
  <2>5. ~Nested(x[2].value, e.value)
    BY <1>1, <2>3 DEF OfKind
  <2>6. x[2].value \in Seq(Bits) /\ y[2].value \in Seq(Bits) /\ e.value \in Seq(Bits)
    BY <2>4, NetworksAre
  <2>7. IsPrefix(y[2].value, e.value) => IsPrefix(x[2].value, e.value)
    BY <2>3, <2>6, PrefixTransitive
  <2>8. IsPrefix(e.value, y[2].value) => Nested(x[2].value, e.value)
    BY <2>3, <2>6, PrefixesNested
  <2>9. QED
    BY <2>2, <2>5, <2>7, <2>8 DEF Nested
<1>2. CASE e.kind # "cidr"
  <2>1. ~IsBlocked(e, B)
    BY <1>2
  <2>2. \A y \in R : y[2].kind # "cidr" =>
          \E x \in B : x[2].kind = y[2].kind /\ x[2].value = y[2].value
    BY DEF Stems
  <2>3. CASE e.kind \in Patterned
    <3>1. \A y \in R : y[2].kind = "cidr"
      BY <2>1, <2>2, <2>3 DEF IsBlocked
    <3>2. {y \in R : y[2].kind # "cidr"} = {}
      BY <3>1
    <3>3. MatchingBlockers(e, R) = {y \in R : y[2].kind # "cidr"}
      BY <1>2, <2>3 DEF MatchingBlockers, Plain, Patterned
    <3>4. QED
      BY <3>2, <3>3
  <2>4. CASE e.kind \in Plain
    <3>1. FailClosed(R) = {}
      <4>1. SUFFICES ASSUME NEW y \in FailClosed(R) PROVE FALSE
        OBVIOUS
      <4>2. y \in R /\ y[2].kind \in Patterned /\ ~(y[2].kind = "domain_regex" /\ y[2].value = Dotless)
        BY <4>1 DEF FailClosed, DotlessRegex, OfKind
      <4>3. PICK x \in B : x[2].kind = y[2].kind /\ x[2].value = y[2].value
        BY <2>2, <4>2 DEF Patterned
      <4>4. x \in FailClosed(B)
        BY <4>2, <4>3 DEF FailClosed, DotlessRegex, OfKind
      <4>5. QED
        BY <2>1, <4>4 DEF IsBlocked
    <3>2. ~TrieHasOverlap(e, B)
      BY <2>1, <2>4 DEF IsBlocked
    <3>3. TrieLookup(e, R) = {}
      <4>1. SUFFICES ASSUME NEW y \in TrieLookup(e, R) PROVE FALSE
        OBVIOUS
      <4>2. y \in R /\ y[2].kind \in Plain
        BY <4>1, TrieHolds
      <4>3. PICK x \in B : x[2].kind = y[2].kind /\ x[2].value = y[2].value
        BY <2>2, <4>2 DEF Plain
      <4>4. x \in TrieLookup(e, B)
        BY <2>4, <4>1, <4>2, <4>3, TrieFinds
      <4>5. QED
        BY <3>2, <4>4, TriesAgree
    <3>4. IsDotless(e) => DotlessRegex(R) = {}
      <4>1. SUFFICES ASSUME IsDotless(e), NEW y \in DotlessRegex(R) PROVE FALSE
        OBVIOUS
      <4>2. y \in R /\ y[2].kind = "domain_regex" /\ y[2].value = Dotless
        BY <4>1 DEF DotlessRegex, OfKind
      <4>3. PICK x \in B : x[2].kind = "domain_regex" /\ x[2].value = Dotless
        BY <2>2, <4>2
      <4>4. x \in DotlessRegex(B)
        BY <4>3 DEF DotlessRegex, OfKind
      <4>5. QED
        BY <2>1, <2>4, <4>1, <4>4 DEF IsBlocked
    <3>5. ~\E y \in OfKind(R, "domain") : e.kind = "domain" /\ y[2].value = e.value
      <4>1. SUFFICES ASSUME NEW y \in OfKind(R, "domain"), e.kind = "domain", y[2].value = e.value PROVE FALSE
        OBVIOUS
      <4>2. PICK x \in B : x[2].kind = "domain" /\ x[2].value = e.value
        BY <2>2, <4>1 DEF OfKind
      <4>3. QED
        BY <2>1, <4>1, <4>2 DEF IsBlocked, OfKind
    <3>6. {y \in DotlessRegex(R) : IsDotless(e)} = {}
      BY <3>4
    <3>7. {y \in OfKind(R, "domain") : e.kind = "domain" /\ y[2].value = e.value} = {}
      BY <3>5
    <3>8. MatchingBlockers(e, R) =
            FailClosed(R) \cup TrieLookup(e, R) \cup {y \in DotlessRegex(R) : IsDotless(e)}
              \cup {y \in OfKind(R, "domain") : e.kind = "domain" /\ y[2].value = e.value}
      <4>1. e.kind \in Plain /\ e.kind \notin Patterned /\ e.kind # "cidr"
        BY <2>4 DEF Plain, Patterned
      <4>2. QED
        BY <4>1 DEF MatchingBlockers
    <3>9. QED
      BY <3>1, <3>3, <3>6, <3>7, <3>8
  <2>5. QED
    BY <1>2, <2>3, <2>4 DEF Entry
<1>3. QED
  BY <1>1, <1>2

\* The report of the conflicts that are left is empty: the blockers it goes by were in the pool.
LEMMA ReportAfterKeeps == ResolutionInv /\ ReportAfter => ResolutionInv'
<1> SUFFICES ASSUME ResolutionInv, ReportAfter PROVE ResolutionInv'
  OBVIOUS
<1>1. /\ phase' = "superset" /\ after' = UNION {Conflicts(d, resolved[d], ResolvedPool) : d \in Datasets}
      /\ UNCHANGED <<rules, dataset, published, pool, resolved, todo, cut>>
  BY DEF ReportAfter
<1>2. PoolOK /\ ResolvedOK
  BY DEF ResolutionInv
<1>3. PoolOK' /\ PublishedOK' /\ ResolvedOK' /\ TodoOK' /\ CutOK'
  BY <1>1, PoolStays DEF ResolutionInv
<1>4. ASSUME NEW d \in Datasets, NEW c \in Categories, NEW e \in resolved[d][c]
      PROVE  MatchingBlockers(e, Blockers(d, c, ResolvedPool)) = {}
  <2> DEFINE B == Blockers(d, c, pool)
             R == Blockers(d, c, ResolvedPool)
  <2>1. \A x \in B : Entry(x[2])
    BY <1>2, BlockersEntries DEF IsEntry
  <2>2. ASSUME NEW y \in R
        PROVE  Entry(y[2]) /\ \E x \in B : Stems(y[2], x[2])
    <3>1. y[1] \in Categories /\ y[2] \in ResolvedPool[y[1]] /\ TakesOwnership(d, Tier[y[1]], Tier[c])
      BY <2>2, BlockersAre
    <3>2. y[2] \in resolved["lite"][y[1]] \/ y[2] \in resolved["server"][y[1]]
      BY <3>1 DEF ResolvedPool
    <3>3. Entry(y[2]) /\ FromPool(y[2], y[1])
      BY <1>2, <3>1, <3>2 DEF ResolvedOK, IsEntry, Datasets
    <3>4. PICK z \in pool[y[1]] : Stems(y[2], z)
      BY <3>3 DEF FromPool
    <3>5. <<y[1], z>> \in B /\ <<y[1], z>>[2] = z
      BY <3>1, <3>4, BlockersAre
    <3>6. QED
      BY <3>3, <3>4, <3>5
  <2>3. Entry(e) /\ Kept(e, d, c)
    BY <1>2, <1>4 DEF ResolvedOK, IsEntry
  <2>4. IF e.kind = "cidr" THEN \A x \in OfKind(B, "cidr") : ~Nested(x[2].value, e.value)
        ELSE ~IsBlocked(e, B)
    BY <2>3 DEF Kept
  <2> HIDE DEF B, R
  <2>5. MatchingBlockers(e, R) = {}
    BY <2>1, <2>2, <2>3, <2>4, NothingMatches
  <2>6. QED
    BY <2>5 DEF R
<1>5. \A d \in Datasets : Conflicts(d, resolved[d], ResolvedPool) = {}
  BY <1>4 DEF Conflicts
<1>6. after' = {}
  BY <1>1, <1>5
<1>7. QED
  BY <1>1, <1>3, <1>6 DEF ResolutionInv

\* The next dataset, and the checks at the end, change no entry.
LEMMA OtherStepsKeep ==
  ResolutionInv /\ (NextDataset \/ AssertSuperset \/ ValidateSemantics \/ UNCHANGED vars) => ResolutionInv'
<1> SUFFICES ASSUME ResolutionInv, NextDataset \/ AssertSuperset \/ ValidateSemantics \/ UNCHANGED vars
             PROVE  ResolutionInv'
  OBVIOUS
<1>1. UNCHANGED <<rules, published, pool, resolved, todo, cut, after>>
  BY DEF NextDataset, AssertSuperset, ValidateSemantics, vars
<1>2. dataset' \in Datasets /\ (dataset' = dataset \/ cut = NoCut)
  BY DEF NextDataset, AssertSuperset, ValidateSemantics, vars, Datasets, ResolutionInv
<1>3. phase' # "categorize" \/ (phase' = phase /\ dataset' = dataset)
  BY DEF NextDataset, AssertSuperset, ValidateSemantics, vars
<1>4. PoolOK' /\ PublishedOK' /\ ResolvedOK' /\ TodoOK' /\ CutOK'
  BY <1>1, <1>2, PoolStays DEF ResolutionInv
<1>5. QED
  BY <1>1, <1>2, <1>3, <1>4 DEF ResolutionInv

----------------------------------------------------------------------------
\* Whatever the rules and the policy, every step keeps the inductive invariant: what an entry
\* stems from, what it no longer overlaps, and what is left to subtract.
THEOREM ResolutionInvariant == Spec => []ResolutionInv
<1>1. ResolutionInv /\ [Next]_vars => ResolutionInv'
  BY CategorizeKeeps, ResolveDomainsKeeps, TakeNetworkKeeps, SubtractBlockerKeeps, FinishNetworkKeeps,
     ReportAfterKeeps, OtherStepsKeep DEF Next
<1>2. QED
  BY ResolutionInit, <1>1, PTL DEF Spec

\* Whatever the rules: no host and no address stays in a category when a category of a
\* higher tier owns it.
THEOREM OwnersKeepTheirs == Spec => []OwnersWin
<1>1. ResolutionInv => OwnersWin
  <2> SUFFICES ASSUME ResolutionInv, NEW d \in Datasets, NEW c \in Categories,
                      NEW e \in resolved[d][c], NEW x \in Blockers(d, c, pool)
               PROVE  Hits(e) \cap Hits(x[2]) = {}
    BY DEF OwnersWin
  <2>1. Entry(e) /\ Kept(e, d, c) /\ \A y \in Blockers(d, c, pool) : Entry(y[2])
    BY BlockersEntries DEF ResolutionInv, ResolvedOK, IsEntry
  <2>2. CASE e.kind = "cidr" /\ x[2].kind = "cidr"
    <3>1. ~Nested(x[2].value, e.value)
      BY <2>1, <2>2 DEF Kept, OfKind
    <3>2. QED
      BY <2>1, <2>2, <3>1, NetworksHitAddresses, NetworksApart
  <2>3. CASE e.kind = "cidr" /\ x[2].kind # "cidr"
    <3>1. Hits(e) \subseteq Addresses /\ Hits(x[2]) \subseteq Hosts
      BY <2>1, <2>3, NetworksHitAddresses, NamesHitHosts
    <3>2. QED
      BY <3>1, ResolutionAssumption
  <2>4. CASE e.kind # "cidr"
    BY <2>1, <2>4, UnblockedApart DEF Kept
  <2>5. QED
    BY <2>2, <2>3, <2>4
<1>2. QED
  BY ResolutionInvariant, <1>1, PTL

\* Whatever the rules: validation never meets a conflict that the resolution has left.
THEOREM NoConflictIsLeft == Spec => []NoneUnresolved
<1>1. ResolutionInv => NoneUnresolved
  BY DEF ResolutionInv, NoneUnresolved
<1>2. QED
  BY ResolutionInvariant, <1>1, PTL

----------------------------------------------------------------------------
\* The smallest of a set of numbers, where an induction would be too much for the provers.
Less == {p \in Nat \X Nat : p[1] < p[2]}

\* There is no infinite descent among the numbers.
LEMMA LessWellFounded == IsWellFoundedOn(Less, Nat)
BY NatLessThanWellFounded DEF OpToRel, Less

\* A set of numbers that is not empty has a smallest one.
LEMMA Smallest ==
  ASSUME NEW T, T \subseteq Nat, T # {}
  PROVE  \E k \in T : \A j \in T : k <= j
<1>1. PICK k \in T : \A j \in T : ~(<<j, k>> \in Less)
  BY WFMin, LessWellFounded
<1>2. \A j \in T : ~(j < k)
  BY <1>1 DEF Less
<1>3. QED
  BY <1>2

----------------------------------------------------------------------------
\* The addresses of network e that are in none of the networks P, as networks: e itself, or
\* the siblings on the way to those inside it, as far as they are apart from all of P.
Leftover(e, P) ==
  {n \in {e} \cup UNION {AddressExclude(e, b) : b \in {b \in P : IsPrefix(e, b)}} :
     \A b \in P : ~Nested(b, n)}

\* What is left over of a network is within it and within none of those taken from it.
LEMMA LeftoverIs ==
  ASSUME NEW e \in Networks, NEW P \in SUBSET Networks, NEW n \in Leftover(e, P)
  PROVE  n \in Networks /\ IsPrefix(e, n) /\ \A b \in P : ~Nested(b, n)
<1>1. \A b \in P : ~Nested(b, n)
  BY DEF Leftover
<1>2. CASE n = e
  BY <1>1, <1>2, NetworkPrefix, NetworksAre
<1>3. CASE n # e
  <2>0. PICK b \in P : IsPrefix(e, b) /\ n \in AddressExclude(e, b)
    BY <1>3 DEF Leftover
  <2>1. PICK i \in Len(e)+1..Len(b) : n = Sibling(b, i)
    BY <2>0 DEF AddressExclude
  <2>2. b \in Networks /\ Len(e) \in Nat /\ Len(e) >= 1 /\ Len(b) \in Nat
    BY NetworksAre
  <2>3. i \in 2..Len(b) /\ i > Len(e)
    BY <2>1, <2>2
  <2>4. n \in Networks /\ Len(n) = i /\ \A j \in 1..i-1 : n[j] = b[j]
    BY <2>1, <2>2, <2>3, SiblingIs
  <2>5. \A j \in 1..Len(e) : e[j] = b[j]
    BY <2>0, <2>2, NetworkPrefix
  <2>6. Len(e) <= Len(n) /\ \A j \in 1..Len(e) : e[j] = n[j]
    BY <2>2, <2>3, <2>4, <2>5
  <2>7. QED
    BY <1>1, <2>4, <2>6, NetworkPrefix
<1>4. QED
  BY <1>2, <1>3

\* Whatever is inside e and apart from P is inside one of the networks left over.
LEMMA LargestApart ==
  ASSUME NEW e \in Networks, NEW P \in SUBSET Networks, NEW m \in Networks,
         IsPrefix(e, m), \A b \in P : ~Nested(b, m)
  PROVE  \E n \in Leftover(e, P) : IsPrefix(n, m)
<1> DEFINE Start(k) == SubSeq(m, 1, k)
           T == {k \in Len(e)..Len(m) : \A b \in P : ~Nested(b, Start(k))}
<1>1. /\ Len(e) \in Nat /\ 1 <= Len(e) /\ Len(m) \in Nat /\ e \in Seq(Bits) /\ m \in Seq(Bits)
      /\ Width \in Nat /\ Len(m) <= Width + 1
  BY NetworksAre, ResolutionAssumption
<1>2. Len(e) <= Len(m) /\ \A i \in 1..Len(e) : e[i] = m[i]
  BY NetworkPrefix
<1>3. \A k \in Len(e)..Len(m) : /\ Start(k) \in Networks /\ Len(Start(k)) = k /\ IsPrefix(Start(k), m)
                                /\ \A i \in 1..k : Start(k)[i] = m[i]
  BY <1>1, StartOf
<1> HIDE DEF Start
<1>4. Start(Len(m)) = m
  <2>1. Start(Len(m)) \in Seq(Bits) /\ Len(m) \in Len(e)..Len(m)
    BY <1>1, <1>2, <1>3, NetworksAre
  <2>2. QED
    BY <1>1, <1>3, <2>1, SeqEqual
<1>5. Len(m) \in T /\ T \subseteq Nat
  BY <1>1, <1>2, <1>4
<1>6. PICK k \in T : \A j \in T : k <= j
  <2> HIDE DEF T
  <2>1. QED
    BY <1>5, Smallest
<1> DEFINE n == Start(k)
<1>7. /\ k \in Nat /\ Len(e) <= k /\ k <= Len(m) /\ n \in Networks /\ Len(n) = k /\ IsPrefix(n, m)
      /\ (\A i \in 1..k : n[i] = m[i]) /\ \A b \in P : ~Nested(b, n)
  BY <1>1, <1>3, <1>6
<1>8. CASE k = Len(e)
  <2>1. n \in Seq(Bits)
    BY <1>7, NetworksAre
  <2> HIDE DEF n
  <2>2. n = e
    BY <1>1, <1>2, <1>7, <1>8, <2>1, SeqEqual
  <2>3. n \in Leftover(e, P)
    BY <1>7, <2>2 DEF Leftover
  <2>4. QED
    BY <1>7, <2>3
<1>9. CASE k # Len(e)
  <2>1. k - 1 \in Len(e)..Len(m) /\ k - 1 \notin T
    <3>1. k - 1 \in Len(e)..Len(m) /\ ~(k <= k - 1)
      BY <1>1, <1>7, <1>9
    <3> HIDE DEF T
    <3>2. QED
      BY <1>6, <3>1
  <2>2. PICK b \in P : Nested(b, Start(k - 1))
    BY <2>1
  <2> DEFINE q == Start(k - 1)
  <2>3. q \in Networks /\ Len(q) = k - 1 /\ \A i \in 1..k-1 : q[i] = m[i]
    BY <1>3, <2>1
  <2>4. b \in Networks /\ Len(b) \in 1..Width+1 /\ k \in 2..Width+1
    BY <1>1, <1>7, <1>9, NetworksAre
  <2> HIDE DEF q, n, T
  <2>5. \A i \in 1..Width+1 : i <= Len(b) /\ i <= k - 1 => b[i] = m[i]
    <3>1. \A i \in 1..Width+1 : i <= Len(b) /\ i <= Len(q) => b[i] = q[i]
      BY <2>2, <2>3, <2>4, NetworkPrefix DEF q
    <3>2. QED
      BY <2>3, <2>4, <3>1
  <2>6. PICK i \in 1..Width+1 : i <= Len(b) /\ i <= k /\ b[i] # n[i]
    <3>1. ~Nested(b, n)
      BY <1>7, <2>2
    <3>2. QED
      BY <1>7, <2>4, <3>1, NetworkPrefix
  <2>7. i = k /\ k <= Len(b)
    BY <1>1, <1>7, <2>4, <2>5, <2>6
  <2>8. n = Sibling(b, k)
    <3>1. \A j \in 1..k-1 : n[j] = b[j]
      BY <1>1, <1>7, <2>4, <2>5, <2>7
    <3>2. k \in 2..Len(b) /\ n[k] # b[k]
      BY <2>4, <2>6, <2>7
    <3>3. QED
      BY <1>7, <2>4, <3>1, <3>2, SiblingFrom
  <2>9. IsPrefix(e, b)
    <3>1. Len(e) <= Len(b) /\ \A j \in 1..Len(e) : e[j] = b[j]
      BY <1>1, <1>2, <1>7, <1>9, <2>4, <2>5, <2>7
    <3>2. QED
      BY <2>4, <3>1, NetworkPrefix
  <2>10. k \in Len(e)+1..Len(b)
    BY <1>1, <1>7, <1>9, <2>4, <2>7
  <2>11. n \in AddressExclude(e, b)
    BY <2>8, <2>10 DEF AddressExclude
  <2>12. n \in Leftover(e, P)
    BY <1>7, <2>9, <2>11 DEF Leftover
  <2>13. QED
    BY <1>7, <2>12
<1>10. QED
  BY <1>8, <1>9

\* A sibling on the way to a network that is taken away is left over, if nothing contains it.
LEMMA LeftoverFrom ==
  ASSUME NEW e, NEW P, NEW b \in P, NEW i \in Len(e)+1..Len(b), IsPrefix(e, b),
         \A x \in P : ~Nested(x, Sibling(b, i))
  PROVE  Sibling(b, i) \in Leftover(e, P)
BY DEF Leftover, AddressExclude

\* One round of the subtraction: the pieces that blocker b leaves of what P has left over.
LEMMA LeftoverStep ==
  ASSUME NEW e \in Networks, NEW P \in SUBSET Networks, NEW b \in Networks
  PROVE  UNION {Pieces(n, b) : n \in Leftover(e, P)} = Leftover(e, P \cup {b})
<1> DEFINE Q == P \cup {b}
<1>1. Q \in SUBSET Networks
  OBVIOUS
<1>2. ASSUME NEW n \in Leftover(e, P), NEW p \in Pieces(n, b)
      PROVE  p \in Leftover(e, Q)
  <2>1. n \in Networks /\ IsPrefix(e, n) /\ \A x \in P : ~Nested(x, n)
    BY LeftoverIs
  <2>2. p \in Networks /\ IsPrefix(n, p) /\ ~Nested(b, p)
    BY <1>2, <2>1, PiecesApart
  <2>3. \A x \in P : ~Nested(x, p)
    BY <2>1, <2>2, PartsApart
  <2>4. \A x \in Q : ~Nested(x, p)
    BY <2>2, <2>3
  <2>5. CASE ~Nested(n, b)
    <3>1. p = n
      BY <1>2, <2>5 DEF Pieces, Nested
    <3>2. QED
      BY <1>2, <2>4, <3>1 DEF Leftover
  <2>6. CASE IsPrefix(n, b) /\ ~IsPrefix(b, n)
    <3>1. PICK i \in Len(n)+1..Len(b) : p = Sibling(b, i)
      BY <1>2, <2>6 DEF Pieces, Nested, AddressExclude
    <3>2. Len(e) <= Len(n) /\ Len(e) \in Nat /\ Len(n) \in Nat /\ Len(b) \in Nat
      BY <2>1, NetworkPrefix, NetworksAre
    <3>3. i \in Len(e)+1..Len(b)
      BY <3>1, <3>2
    <3>4. IsPrefix(e, b)
      BY <2>1, <2>6, NetworksAre, PrefixTransitive
    <3>5. QED
      BY <2>4, <3>1, <3>3, <3>4, LeftoverFrom
  <2>7. CASE IsPrefix(b, n)
    BY <1>2, <2>7 DEF Pieces, Nested
  <2>8. QED
    BY <2>5, <2>6, <2>7 DEF Nested
<1>3. ASSUME NEW m \in Leftover(e, Q)
      PROVE  \E n \in Leftover(e, P) : m \in Pieces(n, b)
  <2>1. m \in Networks /\ IsPrefix(e, m) /\ \A x \in Q : ~Nested(x, m)
    BY <1>1, LeftoverIs
  <2>2. CASE m \in Leftover(e, P)
    <3>1. ~Nested(m, b)
      BY <2>1, NetworkPrefix
    <3>2. m \in Pieces(m, b)
      BY <3>1 DEF Pieces, Nested
    <3>3. QED
      BY <2>2, <3>2
  <2>3. CASE m \notin Leftover(e, P)
    <3>1. IsPrefix(e, b) /\ m \in AddressExclude(e, b)
      BY <2>1, <2>3 DEF Leftover
    <3>2. PICK i \in Len(e)+1..Len(b) : m = Sibling(b, i)
      BY <3>1 DEF AddressExclude
    <3>3. /\ Len(e) \in Nat /\ 1 <= Len(e) /\ Len(b) \in Nat /\ i \in 2..Len(b) /\ Len(e) < i
          /\ Len(b) <= Width + 1 /\ Width \in Nat
      BY <3>2, NetworksAre, ResolutionAssumption
    <3> DEFINE q == SubSeq(b, 1, i - 1)
    <3>4. q \in Networks /\ Len(q) = i - 1 /\ IsPrefix(q, b) /\ \A j \in 1..i-1 : q[j] = b[j]
      <4>1. i - 1 \in 1..Len(b)
        BY <3>3
      <4>2. QED
        BY <4>1, StartOf
    <3> HIDE DEF q
    <3>5. Len(m) = i /\ m[i] # b[i] /\ \A j \in 1..i-1 : m[j] = b[j]
      BY <3>2, <3>3, SiblingIs
    <3>6. IsPrefix(e, q)
      <4>1. \A j \in 1..Len(e) : e[j] = b[j]
        BY <3>1, NetworkPrefix
      <4>2. Len(e) <= Len(q) /\ \A j \in 1..Len(e) : e[j] = q[j]
        BY <3>3, <3>4, <4>1
      <4>3. QED
        BY <3>4, <4>2, NetworkPrefix
    <3>7. \A x \in P : ~Nested(x, q)
      <4> SUFFICES ASSUME NEW x \in P, Nested(x, q) PROVE FALSE
        OBVIOUS
      <4>1. x \in Networks /\ Len(x) \in 1..Width+1 /\ ~Nested(x, m)
        BY <2>1, NetworksAre
      <4>2. \A j \in 1..Width+1 : j <= Len(x) /\ j <= i - 1 => x[j] = b[j]
        <5>1. \A j \in 1..Width+1 : j <= Len(x) /\ j <= Len(q) => x[j] = q[j]
          BY <3>4, <4>1, NetworkPrefix
        <5>2. QED
          BY <3>3, <3>4, <5>1
      <4>3. PICK j \in 1..Width+1 : j <= Len(x) /\ j <= i /\ x[j] # m[j]
        BY <2>1, <3>5, <4>1, NetworkPrefix
      <4>4. j = i /\ i <= Len(x)
        <5>1. CASE j <= i - 1
          <6>1. x[j] = b[j]
            BY <4>2, <4>3, <5>1
          <6>2. j \in 1..i-1
            BY <3>3, <5>1
          <6>3. m[j] = b[j]
            BY <3>5, <6>2
          <6>4. QED
            BY <4>3, <6>1, <6>3
        <5>2. QED
          BY <3>3, <4>3, <5>1
      <4>5. m = Sibling(x, i)
        <5>1. ASSUME NEW k \in 1..i-1 PROVE m[k] = x[k]
          <6>1. k \in 1..Width+1 /\ k <= Len(x) /\ k <= i - 1
            BY <3>3, <4>1, <4>4
          <6>2. QED
            BY <3>5, <4>2, <6>1
        <5>2. i \in 2..Len(x) /\ m[i] # x[i]
          BY <3>3, <4>1, <4>3, <4>4
        <5>3. QED
          BY <2>1, <3>5, <4>1, <5>1, <5>2, SiblingFrom
      <4>6. IsPrefix(e, x)
        <5>1. \A k \in 1..Len(e) : e[k] = b[k]
          BY <3>1, NetworkPrefix
        <5>2. Len(e) <= Len(x) /\ \A k \in 1..Len(e) : e[k] = x[k]
          BY <3>3, <4>1, <4>2, <4>4, <5>1
        <5>3. QED
          BY <4>1, <5>2, NetworkPrefix
      <4>7. i \in Len(e)+1..Len(x) /\ \A y \in P : ~Nested(y, m)
        BY <2>1, <3>3, <4>1, <4>4
      <4>8. QED
        BY <2>3, <4>5, <4>6, <4>7, LeftoverFrom
    <3>8. PICK n \in Leftover(e, P) : IsPrefix(n, q)
      BY <3>4, <3>6, <3>7, LargestApart
    <3>9. n \in Networks /\ Len(n) \in Nat /\ Len(n) <= i - 1
      BY <3>4, <3>8, LeftoverIs, NetworksAre, NetworkPrefix
    <3>10. IsPrefix(n, b) /\ ~IsPrefix(b, n)
      <4>1. IsPrefix(n, b)
        BY <3>4, <3>8, <3>9, NetworksAre, PrefixTransitive
      <4>2. ~(Len(b) <= Len(n))
        BY <3>3, <3>9
      <4>3. QED
        BY <3>9, <4>1, <4>2, NetworkPrefix
    <3>11. m \in AddressExclude(n, b)
      <4>1. i \in Len(n)+1..Len(b)
        BY <3>3, <3>9
      <4>2. QED
        BY <3>2, <4>1 DEF AddressExclude
    <3>12. m \in Pieces(n, b)
      BY <3>10, <3>11 DEF Pieces, Nested
    <3>13. QED
      BY <3>8, <3>12
  <2>4. QED
    BY <2>2, <2>3
<1> HIDE DEF Q
<1>4. QED
  BY <1>2, <1>3 DEF Q

\* Blockers apart from e leave it as it is.
LEMMA LeftoverApart ==
  ASSUME NEW e \in Networks, NEW P \in SUBSET Networks, \A b \in P : ~Nested(b, e)
  PROVE  Leftover(e, P) = {e}
<1>1. \A b \in P : ~IsPrefix(e, b)
  BY DEF Nested
<1>2. QED
  BY <1>1 DEF Leftover

\* Once nothing is left, more blockers leave nothing.
LEMMA LeftoverNothing ==
  ASSUME NEW e \in Networks, NEW P \in SUBSET Networks, NEW Q \in SUBSET Networks, P \subseteq Q,
         Leftover(e, P) = {}
  PROVE  Leftover(e, Q) = {}
<1> SUFFICES ASSUME NEW n \in Leftover(e, Q) PROVE FALSE
  OBVIOUS
<1>1. n \in Networks /\ IsPrefix(e, n) /\ \A b \in P : ~Nested(b, n)
  BY LeftoverIs
<1>2. QED
  BY <1>1, LargestApart

\* The addresses left over are those of e that are in no network of P.
LEMMA LeftoverHits ==
  ASSUME NEW e \in Networks, NEW P \in SUBSET Networks, NEW a \in Addresses
  PROVE  (\E n \in Leftover(e, P) : IsPrefix(n, a)) <=> IsPrefix(e, a) /\ \A b \in P : ~IsPrefix(b, a)
<1>1. a \in Networks /\ a \in Seq(Bits) /\ Len(a) = Width + 1 /\ e \in Seq(Bits)
  BY NetworksAre DEF Addresses
<1>2. ASSUME NEW n \in Leftover(e, P), IsPrefix(n, a)
      PROVE  IsPrefix(e, a) /\ \A b \in P : ~IsPrefix(b, a)
  <2>1. n \in Networks /\ n \in Seq(Bits) /\ IsPrefix(e, n) /\ \A b \in P : ~Nested(b, n)
    BY LeftoverIs, NetworksAre
  <2>2. IsPrefix(e, a)
    BY <1>1, <1>2, <2>1, PrefixTransitive
  <2>3. ASSUME NEW b \in P, IsPrefix(b, a) PROVE FALSE
    <3>1. Nested(b, n)
      BY <1>1, <1>2, <2>1, <2>3, NetworksAre, PrefixesNested
    <3>2. QED
      BY <2>1, <3>1
  <2>4. QED
    BY <2>2, <2>3
<1>3. ASSUME IsPrefix(e, a), \A b \in P : ~IsPrefix(b, a)
      PROVE  \E n \in Leftover(e, P) : IsPrefix(n, a)
  <2>1. ASSUME NEW b \in P PROVE ~Nested(b, a)
    <3>1. b \in Networks /\ b \in Seq(Bits) /\ Len(b) \in 1..Width+1 /\ Width \in Nat
      BY NetworksAre, ResolutionAssumption
    <3>2. IsPrefix(a, b) => b = a
      <4> SUFFICES ASSUME IsPrefix(a, b) PROVE b = a
        OBVIOUS
      <4>1. Len(a) <= Len(b) /\ \A i \in 1..Len(a) : a[i] = b[i]
        BY <1>1, <3>1, NetworkPrefix
      <4>2. QED
        BY <1>1, <3>1, <4>1, SeqEqual
    <3>3. IsPrefix(a, a)
      BY <1>1, PrefixIs
    <3>4. QED
      BY <1>3, <3>2, <3>3 DEF Nested
  <2>2. QED
    BY <1>1, <1>3, <2>1, LargestApart
<1>4. QED
  BY <1>2, <1>3

----------------------------------------------------------------------------
\* What the resolution makes of a category: its names that nothing blocks and, of each of its
\* networks, what the networks of its owners have left over.
Owners(d, c)      == {x[2].value : x \in OfKind(Blockers(d, c, pool), "cidr")}
NamesKept(d, c)   == {e \in published[d][c] : e.kind # "cidr" /\ ~IsBlocked(e, Blockers(d, c, pool))}
Parts(e, d, c)    == {[e EXCEPT !.value = n] : n \in Leftover(e.value, Owners(d, c))}
PartsOf(E, d, c)  == UNION {Parts(e, d, c) : e \in E}

\* The datasets that are resolved, and those whose conflicts are reported.
Late        == {"report"} \cup Resolved
Done(d)     == phase \in Late \/ (d = "lite" /\ dataset = "server")
Reported(d) == Done(d) \/ (phase = "subtract" /\ d = dataset)

\* The networks still to come, or being subtracted from.
Waiting(c, e) == <<c, e>> \in todo \/ (cut # NoCut /\ cut.category = c /\ cut.entry = e)

MembershipsIn(d) == {m \in DOMAIN Mapping : d \in Mapping[m].datasets}
Collected == phase \notin {"categorize", "unmapped"} =>
  \A c \in Categories : /\ pool[c] = Collect(DOMAIN Mapping, c)
                        /\ \A d \in Datasets : published[d][c] = Collect(MembershipsIn(d), c)

\* A dataset that is done has exactly what the resolution makes of it; the one in progress
\* has it but for the networks that are waiting.
DoneExact == \A d \in Datasets, c \in Categories : Done(d) =>
  resolved[d][c] = NamesKept(d, c) \cup PartsOf(NetworksOf(published[d][c]), d, c)
SubtractExact == \A d \in Datasets, c \in Categories : phase = "subtract" /\ d = dataset =>
  resolved[d][c] = NamesKept(d, c)
                     \cup PartsOf({e \in NetworksOf(published[d][c]) : ~Waiting(c, e)}, d, c)

\* What remains of the network being subtracted from is what the blockers so far left over.
CutExact == \A d \in Datasets, c \in Categories : d = dataset /\ cut # NoCut /\ c = cut.category =>
  /\ cut.entry \in NetworksOf(published[d][c]) /\ <<c, cut.entry>> \notin todo
  /\ cut.blockers \subseteq Owners(d, c)
  /\ cut.remaining = Leftover(cut.entry.value, Owners(d, c) \ cut.blockers)

BeforeExact == before = UNION {Conflicts(d, published[d], pool) : d \in {d \in Datasets : Reported(d)}}

PhasesOK ==
  /\ phase \in Ended \cup {"categorize", "resolve", "subtract", "report", "superset", "validate"}
  /\ phase # "subtract" => todo = {} /\ cut = NoCut
  /\ phase \in {"categorize", "unmapped"} => dataset = "lite"
  /\ phase \in Late => dataset = "server"
  /\ phase = "not_superset" => \E c \in Present("lite") \cap Present("server") :
                                 ~(resolved["lite"][c] \subseteq resolved["server"][c])
  /\ \A t \in todo : t = <<t[1], t[2]>> /\ t[1] \in Categories /\ t[2] \in NetworksOf(published[dataset][t[1]])

ExactInv == PhasesOK /\ Collected /\ DoneExact /\ SubtractExact /\ CutExact /\ BeforeExact

\* What a category loses addresses to are networks.
LEMMA OwnersAre ==
  ASSUME PoolOK, NEW d, NEW c
  PROVE  Owners(d, c) \in SUBSET Networks
BY BlockersEntries, EntryValues DEF Owners, OfKind, IsEntry

\* While the entries of the categories and the pool stay, so does what is made of them.
LEMMA MakingStays ==
  ASSUME published' = published, pool' = pool
  PROVE  /\ \A d, c : Owners(d, c)' = Owners(d, c)
         /\ \A d, c : NamesKept(d, c)' = NamesKept(d, c)
         /\ \A e, d, c : Parts(e, d, c)' = Parts(e, d, c)
         /\ \A E, d, c : PartsOf(E, d, c)' = PartsOf(E, d, c)
         /\ \A d : Present(d)' = Present(d)
<1>1. \A d, c : Owners(d, c)' = Owners(d, c)
  BY DEF Owners
<1>2. \A d, c : NamesKept(d, c)' = NamesKept(d, c)
  BY DEF NamesKept
<1>3. \A e, d, c : Parts(e, d, c)' = Parts(e, d, c)
  BY <1>1 DEF Parts
<1>4. \A E, d, c : PartsOf(E, d, c)' = PartsOf(E, d, c)
  BY <1>3 DEF PartsOf
<1>5. \A d : Present(d)' = Present(d)
  BY DEF Present
<1>6. QED
  BY <1>1, <1>2, <1>3, <1>4, <1>5

\* The categories and the pool are collected once.
LEMMA CollectedStays ==
  ASSUME Collected, UNCHANGED <<rules, published, pool>>,
         phase \in {"categorize", "unmapped"} => phase' \in {"categorize", "unmapped"}
  PROVE  Collected'
<1>1. \A ms, c : Collect(ms, c)' = Collect(ms, c)
  BY DEF Collect
<1>2. QED
  BY <1>1 DEF Collected

\* A step that leaves the entries, their resolution and the networks to come as they are, and
\* the same datasets done, keeps what is exact.
LEMMA ExactStays ==
  ASSUME ExactInv, UNCHANGED <<rules, published, pool, resolved, todo, cut, before>>,
         phase \in {"categorize", "unmapped"} => phase' \in {"categorize", "unmapped"},
         \A d \in Datasets : /\ Done(d)' => Done(d)
                             /\ Reported(d)' <=> Reported(d),
         phase' = "subtract" => phase = "subtract", dataset' = dataset
  PROVE  Collected' /\ DoneExact' /\ SubtractExact' /\ CutExact' /\ BeforeExact'
<1>1. Collected'
  BY CollectedStays DEF ExactInv
<1>2. \A c, e : Waiting(c, e)' <=> Waiting(c, e)
  BY DEF Waiting
<1>3. DoneExact'
  BY MakingStays DEF ExactInv, DoneExact
<1>4. SubtractExact'
  BY <1>2, MakingStays DEF ExactInv, SubtractExact
<1>5. CutExact'
  BY MakingStays DEF ExactInv, CutExact
<1>6. BeforeExact'
  BY DEF ExactInv, BeforeExact
<1>7. QED
  BY <1>1, <1>3, <1>4, <1>5, <1>6

\* Nothing is claimed before the rules are categorized.
LEMMA ExactInit == Init => ExactInv
<1> SUFFICES ASSUME Init PROVE ExactInv
  OBVIOUS
<1>1. phase = "categorize" /\ dataset = "lite" /\ todo = {} /\ cut = NoCut /\ before = {}
  BY DEF Init
<1>2. \A d : ~Done(d) /\ ~Reported(d)
  BY <1>1 DEF Done, Reported, Late, Resolved, Ended, Failures
<1>3. PhasesOK
  BY <1>1 DEF PhasesOK, Late, Resolved, Ended, Failures
<1>4. BeforeExact
  BY <1>1, <1>2 DEF BeforeExact
<1>5. Collected /\ DoneExact /\ SubtractExact /\ CutExact
  BY <1>1, <1>2 DEF Collected, DoneExact, SubtractExact, CutExact
<1>6. QED
  BY <1>3, <1>4, <1>5 DEF ExactInv

\* _categorize collects what the mapping publishes, and all of it for the pool.
LEMMA CategorizeExact == ResolutionInv /\ ExactInv /\ Categorize => ExactInv'
<1> SUFFICES ASSUME ResolutionInv, ExactInv, Categorize PROVE ExactInv'
  OBVIOUS
<1>1. /\ phase = "categorize" /\ todo = {} /\ cut = NoCut /\ dataset = "lite"
      /\ UNCHANGED <<rules, dataset, resolved, todo, cut, before>>
      /\ phase' \in {"unmapped", "resolve"}
      /\ phase' = "resolve" =>
           /\ published' = [d \in Datasets |-> [c \in Categories |-> Collect(MembershipsIn(d), c)]]
           /\ pool' = [c \in Categories |-> Collect(DOMAIN Mapping, c)]
  BY DEF Categorize, ResolutionInv, MembershipsIn
<1>2. \A d : ~Done(d) /\ ~Reported(d) /\ ~Done(d)' /\ ~Reported(d)'
  BY <1>1 DEF Done, Reported, Late, Resolved, Ended, Failures
<1>3. before' = {} 
  BY <1>1, <1>2 DEF ExactInv, BeforeExact
<1>4. Collected'
  <2>1. \A ms, c : Collect(ms, c)' = Collect(ms, c)
    BY <1>1 DEF Collect
  <2>2. QED
    BY <1>1, <2>1 DEF Collected
<1>5. PhasesOK'
  BY <1>1 DEF PhasesOK, Late, Resolved, Ended, Failures
<1>6. BeforeExact'
  BY <1>2, <1>3 DEF BeforeExact
<1>7. DoneExact' /\ SubtractExact' /\ CutExact'
  BY <1>1, <1>2 DEF DoneExact, SubtractExact, CutExact
<1>8. QED
  BY <1>4, <1>5, <1>6, <1>7 DEF ExactInv

\* _resolve_categories keeps just the names that nothing blocks, and leaves all networks to do.
LEMMA ResolveDomainsExact == ResolutionInv /\ ExactInv /\ ResolveDomains => ExactInv'
<1> SUFFICES ASSUME ResolutionInv, ExactInv, ResolveDomains PROVE ExactInv'
  OBVIOUS
<1>1. /\ phase = "resolve" /\ phase' = "subtract"
      /\ UNCHANGED <<rules, dataset, published, pool, cut>>
      /\ before' = before \cup Conflicts(dataset, published[dataset], pool)
      /\ resolved' = [resolved EXCEPT ![dataset] = [c \in Categories |-> NamesKept(dataset, c)]]
      /\ todo' = UNION {{c} \X NetworksOf(published[dataset][c]) : c \in Categories}
  BY DEF ResolveDomains, NamesKept, NetworksOf
<1>2. dataset \in Datasets /\ ResolvedOK /\ cut = NoCut
  BY <1>1 DEF ResolutionInv, ExactInv, PhasesOK
<1>3. /\ \A c \in Categories : resolved'[dataset][c] = NamesKept(dataset, c)
      /\ \A d \in Datasets : d # dataset => resolved'[d] = resolved[d]
  BY <1>1, <1>2 DEF ResolvedOK
<1>4. Collected'
  BY <1>1, CollectedStays DEF ExactInv
<1>5. \A d \in Datasets : Done(d)' => Done(d) /\ d # dataset
  BY <1>1, <1>2 DEF Done, Late, Resolved, Ended, Failures, Datasets
<1>6. DoneExact'
  BY <1>1, <1>3, <1>5, MakingStays DEF ExactInv, DoneExact
<1>7. SubtractExact'
  <2>1. ASSUME NEW c \in Categories
        PROVE  {e \in NetworksOf(published[dataset][c]) : ~Waiting(c, e)'} = {}
    <3>1. ASSUME NEW e \in NetworksOf(published[dataset][c]) PROVE Waiting(c, e)'
      <4>1. <<c, e>> \in {c} \X NetworksOf(published[dataset][c])
        OBVIOUS
      <4>2. <<c, e>> \in todo'
        BY <1>1, <4>1
      <4>3. QED
        BY <4>2 DEF Waiting
    <3>2. QED
      BY <3>1
  <2>2. \A d, c : PartsOf({}, d, c) = {}
    BY DEF PartsOf
  <2>3. ASSUME NEW d \in Datasets, NEW c \in Categories, d = dataset
        PROVE  resolved'[d][c] = NamesKept(d, c)
                 \cup PartsOf({e \in NetworksOf(published[d][c]) : ~Waiting(c, e)'}, d, c)
    BY <1>3, <2>1, <2>2, <2>3
  <2>4. QED
    BY <1>1, <2>3, MakingStays DEF SubtractExact
<1>8. CutExact'
  BY <1>1, <1>2 DEF CutExact
<1>9. BeforeExact'
  <2>1. \A d \in Datasets : Reported(d)' <=> Reported(d) \/ d = dataset
    BY <1>1 DEF Reported, Done, Late, Resolved, Ended, Failures
  <2>2. before = UNION {Conflicts(d, published[d], pool) : d \in {d \in Datasets : Reported(d)}}
    BY DEF ExactInv, BeforeExact
  <2>3. {d \in Datasets : Reported(d)'} = {d \in Datasets : Reported(d)} \cup {dataset}
    BY <1>2, <2>1
  <2>4. before' = UNION {Conflicts(d, published[d], pool) : d \in {d \in Datasets : Reported(d)'}}
    BY <1>1, <2>2, <2>3
  <2>5. QED
    BY <1>1, <2>4 DEF BeforeExact
<1>10. PhasesOK'
  <2>1. ASSUME NEW t \in todo'
        PROVE  t = <<t[1], t[2]>> /\ t[1] \in Categories /\ t[2] \in NetworksOf(published[dataset][t[1]])
    <3>1. PICK c \in Categories : t \in {c} \X NetworksOf(published[dataset][c])
      BY <1>1, <2>1
    <3>2. QED
      BY <3>1
  <2>2. QED
    BY <1>1, <1>2, <2>1 DEF PhasesOK, Late, Resolved, Ended, Failures
<1>11. QED
  BY <1>4, <1>6, <1>7, <1>8, <1>9, <1>10 DEF ExactInv

\* A network that is being subtracted from is told from none.
LEMMA NotNoCut ==
  ASSUME NEW k, NEW e, NEW R, NEW Q
  PROVE  [category |-> k, entry |-> e, remaining |-> R, blockers |-> Q] # NoCut
<1>1. "category" \in DOMAIN [category |-> k, entry |-> e, remaining |-> R, blockers |-> Q]
  OBVIOUS
<1>2. "category" \notin DOMAIN NoCut
  BY DEF NoCut
<1>3. QED
  BY <1>1, <1>2

\* _subtract_cidr starts with a whole network and with all its owners' networks.
LEMMA TakeNetworkExact == ResolutionInv /\ ExactInv /\ TakeNetwork => ExactInv'
<1> SUFFICES ASSUME ResolutionInv, ExactInv, TakeNetwork PROVE ExactInv'
  OBVIOUS
<1>1. /\ phase = "subtract" /\ cut = NoCut
      /\ UNCHANGED <<rules, phase, dataset, published, pool, resolved, before>>
  BY DEF TakeNetwork
<1>2. PICK t \in todo :
        /\ todo' = todo \ {t}
        /\ cut' = [category |-> t[1], entry |-> t[2], remaining |-> {t[2].value},
                   blockers |-> {x[2].value : x \in
                     OverlappingBlockers(t[2], Blockers(dataset, t[1], pool))}]
  BY DEF TakeNetwork
<1>3. /\ t = <<t[1], t[2]>> /\ t[1] \in Categories /\ t[2] \in NetworksOf(published[dataset][t[1]])
      /\ IsEntry(t[2]) /\ t[2].kind = "cidr" /\ PoolOK /\ dataset \in Datasets
  BY DEF ExactInv, PhasesOK, ResolutionInv, TodoOK
<1>4. /\ cut' # NoCut /\ cut'.category = t[1] /\ cut'.entry = t[2] /\ cut'.remaining = {t[2].value}
      /\ cut'.blockers = {x[2].value : x \in OverlappingBlockers(t[2], Blockers(dataset, t[1], pool))}
  BY <1>2, NotNoCut
<1>5. \A c, e : Waiting(c, e)' <=> Waiting(c, e)
  <2>1. ASSUME NEW c, NEW e PROVE <<c, e>> = t <=> t[1] = c /\ t[2] = e
    BY <1>3
  <2>2. QED
    BY <1>1, <1>2, <1>4, <2>1 DEF Waiting
<1>6. Collected'
  BY <1>1, CollectedStays DEF ExactInv
<1>7. \A d : (Done(d)' <=> Done(d)) /\ (Reported(d)' <=> Reported(d))
  BY <1>1 DEF Done, Reported
<1>8. DoneExact' /\ BeforeExact'
  BY <1>1, <1>7, MakingStays DEF ExactInv, DoneExact, BeforeExact
<1>9. SubtractExact'
  BY <1>1, <1>5, MakingStays DEF ExactInv, SubtractExact
<1>10. CutExact'
  <2> DEFINE O == Owners(dataset, t[1])
             Q == cut'.blockers
  <2>1. t[2].value \in Networks /\ O \in SUBSET Networks
    BY <1>3, EntryValues, OwnersAre DEF IsEntry
  <2>2. Q \subseteq O
    BY <1>4 DEF Owners, OverlappingBlockers
  <2>3. \A b \in O \ Q : ~Nested(b, t[2].value)
    BY <1>4 DEF Owners, OverlappingBlockers
  <2>4. Leftover(t[2].value, O \ Q) = {t[2].value}
    <3> HIDE DEF O, Q
    <3>1. QED
      BY <2>1, <2>3, LeftoverApart
  <2>5. <<t[1], t[2]>> \notin todo'
    BY <1>2, <1>3
  <2>6. QED
    BY <1>1, <1>3, <1>4, <2>2, <2>4, <2>5, MakingStays DEF CutExact
<1>11. PhasesOK'
  BY <1>1, <1>2, MakingStays DEF ExactInv, PhasesOK
<1>12. QED
  BY <1>6, <1>8, <1>9, <1>10, <1>11 DEF ExactInv

\* One blocker at a time, in any order, leaves what all of them together leave over.
LEMMA SubtractBlockerExact == ResolutionInv /\ ExactInv /\ SubtractBlocker => ExactInv'
<1> SUFFICES ASSUME ResolutionInv, ExactInv, SubtractBlocker PROVE ExactInv'
  OBVIOUS
<1>1. UNCHANGED <<rules, phase, dataset, published, pool, resolved, todo, before>> /\ cut # NoCut
  BY DEF SubtractBlocker, NoCut
<1>2. PICK b \in cut.blockers :
        cut' = [cut EXCEPT !.remaining = UNION {Pieces(n, b) : n \in cut.remaining},
                           !.blockers = cut.blockers \ {b}]
  BY Zenon DEF SubtractBlocker
<1>3. /\ cut = [category |-> cut.category, entry |-> cut.entry, remaining |-> cut.remaining,
                blockers |-> cut.blockers]
      /\ cut.category \in Categories /\ IsEntry(cut.entry) /\ cut.entry.kind = "cidr"
      /\ cut.blockers \subseteq Networks /\ PoolOK /\ dataset \in Datasets
  BY <1>1 DEF ResolutionInv, CutOK
<1>4. /\ cut'.category = cut.category /\ cut'.entry = cut.entry
      /\ cut'.remaining = UNION {Pieces(n, b) : n \in cut.remaining}
      /\ cut'.blockers = cut.blockers \ {b}
      /\ cut' = [category |-> cut.category, entry |-> cut.entry, remaining |-> cut'.remaining,
                 blockers |-> cut'.blockers]
  BY <1>2, <1>3
<1>5. cut' # NoCut
  BY <1>4, NotNoCut
<1>6. phase = "subtract"
  BY <1>1 DEF ExactInv, PhasesOK
<1>7. \A c, e : Waiting(c, e)' <=> Waiting(c, e)
  BY <1>1, <1>4, <1>5 DEF Waiting
<1>8. Collected'
  BY <1>1, CollectedStays DEF ExactInv
<1>9. \A d : (Done(d)' <=> Done(d)) /\ (Reported(d)' <=> Reported(d))
  BY <1>1 DEF Done, Reported
<1>10. DoneExact' /\ BeforeExact'
  BY <1>1, <1>9, MakingStays DEF ExactInv, DoneExact, BeforeExact
<1>11. SubtractExact'
  BY <1>1, <1>7, MakingStays DEF ExactInv, SubtractExact
<1>12. CutExact'
  <2> DEFINE O == Owners(dataset, cut.category)
             e == cut.entry.value
  <2>1. /\ cut.entry \in NetworksOf(published[dataset][cut.category]) /\ <<cut.category, cut.entry>> \notin todo
        /\ cut.blockers \subseteq O /\ cut.remaining = Leftover(e, O \ cut.blockers)
    BY <1>1, <1>3 DEF ExactInv, CutExact
  <2>2. e \in Networks /\ O \in SUBSET Networks /\ b \in Networks
    BY <1>3, EntryValues, OwnersAre DEF IsEntry
  <2>3. O \ cut'.blockers = (O \ cut.blockers) \cup {b}
    BY <1>4, <2>1
  <2>4. cut'.remaining = Leftover(e, O \ cut'.blockers)
    <3> HIDE DEF O, e
    <3>1. O \ cut.blockers \in SUBSET Networks
      BY <2>2
    <3>2. QED
      BY <1>4, <2>1, <2>2, <2>3, <3>1, LeftoverStep
  <2>5. QED
    BY <1>1, <1>3, <1>4, <2>1, <2>4, MakingStays DEF CutExact
<1>13. PhasesOK'
  BY <1>1, <1>6, MakingStays DEF ExactInv, PhasesOK
<1>14. QED
  BY <1>8, <1>10, <1>11, <1>12, <1>13 DEF ExactInv

\* What a network has left over is all that is added for it.
LEMMA FinishNetworkExact == ResolutionInv /\ ExactInv /\ FinishNetwork => ExactInv'
<1> SUFFICES ASSUME ResolutionInv, ExactInv, FinishNetwork PROVE ExactInv'
  OBVIOUS
<1>0. PICK k, e : k = cut.category /\ e = cut.entry
  OBVIOUS
<1>1. /\ UNCHANGED <<rules, phase, dataset, published, pool, todo, before>> /\ cut' = NoCut /\ cut # NoCut
      /\ (cut.blockers = {} \/ cut.remaining = {})
      /\ resolved' = [resolved EXCEPT ![dataset][k] =
                        resolved[dataset][k] \cup {[e EXCEPT !.value = n] : n \in cut.remaining}]
  BY <1>0 DEF FinishNetwork
<1>2. /\ k \in Categories /\ IsEntry(e) /\ e.kind = "cidr" /\ cut.blockers \subseteq Networks
      /\ PoolOK /\ dataset \in Datasets /\ ResolvedOK
  BY <1>0, <1>1 DEF ResolutionInv, CutOK
<1>3. phase = "subtract" /\ phase \notin Late
  BY <1>1 DEF ExactInv, PhasesOK, Late, Resolved, Ended, Failures
<1>4. /\ e \in NetworksOf(published[dataset][k]) /\ <<k, e>> \notin todo
      /\ cut.blockers \subseteq Owners(dataset, k)
      /\ cut.remaining = Leftover(e.value, Owners(dataset, k) \ cut.blockers)
  BY <1>0, <1>1, <1>2 DEF ExactInv, CutExact
<1>5. cut.remaining = Leftover(e.value, Owners(dataset, k))
  <2>1. e.value \in Networks /\ Owners(dataset, k) \in SUBSET Networks
    BY <1>2, EntryValues, OwnersAre DEF IsEntry
  <2>2. CASE cut.blockers = {}
    BY <1>4, <2>2
  <2>3. CASE cut.remaining = {}
    <3> DEFINE O == Owners(dataset, k)
               P == O \ cut.blockers
    <3>1. P \in SUBSET Networks /\ P \subseteq O /\ Leftover(e.value, P) = {}
      BY <1>4, <2>1, <2>3
    <3> HIDE DEF P
    <3>2. Leftover(e.value, O) = {}
      BY <2>1, <3>1, LeftoverNothing
    <3>3. QED
      BY <2>3, <3>2
  <2>4. QED
    BY <1>1, <2>2, <2>3
<1>6. {[e EXCEPT !.value = n] : n \in cut.remaining} = Parts(e, dataset, k)
  BY <1>5 DEF Parts
<1>7. \A d \in Datasets, c \in Categories : resolved'[d][c] =
        IF d = dataset /\ c = k THEN resolved[d][c] \cup Parts(e, d, c) ELSE resolved[d][c]
  <2>1. resolved' = [resolved EXCEPT ![dataset][k] = resolved[dataset][k] \cup Parts(e, dataset, k)]
    BY <1>1, <1>6
  <2>2. DOMAIN resolved = Datasets /\ \A d \in Datasets : DOMAIN resolved[d] = Categories
    BY <1>2 DEF ResolvedOK
  <2>3. QED
    BY <1>2, <2>1, <2>2
<1>8. \A c, f : Waiting(c, f) <=> Waiting(c, f)' \/ (c = k /\ f = e)
  BY <1>0, <1>1 DEF Waiting
<1>9. ~Waiting(k, e)'
  BY <1>1, <1>4 DEF Waiting
<1>10. Collected'
  BY <1>1, CollectedStays DEF ExactInv
<1>11. \A d : (Done(d)' <=> Done(d)) /\ (Reported(d)' <=> Reported(d)) /\ (Done(d) => d # dataset)
  BY <1>1, <1>3 DEF Done, Reported
<1>12. DoneExact'
  BY <1>1, <1>7, <1>11, MakingStays DEF ExactInv, DoneExact
<1>13. BeforeExact'
  BY <1>1, <1>11 DEF ExactInv, BeforeExact
<1>14. SubtractExact'
  <2> SUFFICES ASSUME NEW c \in Categories
               PROVE  resolved'[dataset][c] = NamesKept(dataset, c)
                        \cup PartsOf({f \in NetworksOf(published[dataset][c]) : ~Waiting(c, f)'}, dataset, c)
    BY <1>1, MakingStays DEF SubtractExact
  <2> DEFINE E == {f \in NetworksOf(published[dataset][c]) : ~Waiting(c, f)}
             F == {f \in NetworksOf(published[dataset][c]) : ~Waiting(c, f)'}
  <2>1. resolved[dataset][c] = NamesKept(dataset, c) \cup PartsOf(E, dataset, c)
    BY <1>2, <1>3 DEF ExactInv, SubtractExact
  <2>2. CASE c = k
    <3>1. F = E \cup {e}
      BY <1>4, <1>8, <1>9, <2>2
    <3> HIDE DEF E, F
    <3>2. PartsOf(F, dataset, c) = PartsOf(E, dataset, c) \cup Parts(e, dataset, c)
      BY <3>1 DEF PartsOf
    <3>3. QED
      BY <1>2, <1>7, <2>1, <2>2, <3>2 DEF F
  <2>3. CASE c # k
    <3>1. F = E
      BY <1>8, <2>3
    <3> HIDE DEF E
    <3>2. QED
      BY <1>2, <1>7, <2>1, <2>3, <3>1
  <2>4. QED
    BY <2>2, <2>3
<1>15. CutExact'
  BY <1>1 DEF CutExact
<1>16. PhasesOK'
  BY <1>1, <1>3, MakingStays DEF ExactInv, PhasesOK
<1>17. QED
  BY <1>10, <1>12, <1>13, <1>14, <1>15, <1>16 DEF ExactInv

\* A dataset is done when no network waits, and the next one starts with all of its own.
LEMMA NextDatasetExact == ResolutionInv /\ ExactInv /\ NextDataset => ExactInv'
<1> SUFFICES ASSUME ResolutionInv, ExactInv, NextDataset PROVE ExactInv'
  OBVIOUS
<1>1. /\ phase = "subtract" /\ todo = {} /\ cut = NoCut /\ dataset' = "server"
      /\ phase' = IF dataset = "lite" THEN "resolve" ELSE "report"
      /\ UNCHANGED <<rules, published, pool, resolved, todo, cut, before>>
  BY DEF NextDataset
<1>2. dataset = "lite" \/ dataset = "server"
  BY DEF ResolutionInv, Datasets
<1>3. Collected'
  BY <1>1, CollectedStays DEF ExactInv
<1>4. \A d \in Datasets : (Done(d)' <=> Done(d) \/ d = dataset) /\ (Reported(d)' <=> Reported(d))
  BY <1>1, <1>2 DEF Done, Reported, Late, Resolved, Ended, Failures, Datasets
<1>5. DoneExact'
  <2> SUFFICES ASSUME NEW d \in Datasets, NEW c \in Categories, Done(d)'
               PROVE  resolved[d][c] = NamesKept(d, c) \cup PartsOf(NetworksOf(published[d][c]), d, c)
    BY <1>1, MakingStays DEF DoneExact
  <2>1. CASE Done(d)
    BY <2>1 DEF ExactInv, DoneExact
  <2>2. CASE d = dataset
    <3>1. resolved[d][c] = NamesKept(d, c)
            \cup PartsOf({e \in NetworksOf(published[d][c]) : ~Waiting(c, e)}, d, c)
      BY <1>1, <2>2 DEF ExactInv, SubtractExact
    <3>2. {e \in NetworksOf(published[d][c]) : ~Waiting(c, e)} = NetworksOf(published[d][c])
      BY <1>1 DEF Waiting
    <3>3. QED
      BY <3>1, <3>2
  <2>3. QED
    BY <1>4, <2>1, <2>2
<1>6. BeforeExact'
  BY <1>1, <1>4 DEF ExactInv, BeforeExact
<1>7. SubtractExact' /\ CutExact'
  BY <1>1 DEF SubtractExact, CutExact
<1>8. PhasesOK'
  BY <1>1, <1>2 DEF PhasesOK, Late, Resolved, Ended, Failures
<1>9. QED
  BY <1>3, <1>5, <1>6, <1>7, <1>8 DEF ExactInv

\* The reports and checks change no category.
LEMMA LateStepsExact ==
  ResolutionInv /\ ExactInv /\ (ReportAfter \/ AssertSuperset \/ ValidateSemantics) => ExactInv'
<1> SUFFICES ASSUME ResolutionInv, ExactInv, ReportAfter \/ AssertSuperset \/ ValidateSemantics
             PROVE  ExactInv'
  OBVIOUS
<1>1. UNCHANGED <<rules, dataset, published, pool, resolved, todo, cut, before>>
  BY DEF ReportAfter, AssertSuperset, ValidateSemantics
<1>2. \/ phase = "report" /\ phase' = "superset"
      \/ phase = "superset" /\ phase' = "validate"
      \/ /\ phase = "superset" /\ phase' = "not_superset"
         /\ \E c \in Present("lite") \cap Present("server") :
              ~(resolved["lite"][c] \subseteq resolved["server"][c])
      \/ phase = "validate" /\ phase' \in Ended \ {"unmapped", "not_superset"}
  <2>1. CASE ReportAfter
    BY <2>1 DEF ReportAfter
  <2>2. CASE AssertSuperset
    BY <2>2 DEF AssertSuperset
  <2>3. CASE ValidateSemantics
    BY <2>3 DEF ValidateSemantics, Ended, Failures
  <2>4. QED
    BY <2>1, <2>2, <2>3
<1>3. /\ phase \in Late /\ phase' \in Late /\ dataset = "server"
      /\ phase' \notin {"categorize", "unmapped", "subtract"} /\ phase # "subtract"
      /\ phase' \in Ended \cup {"superset", "validate"}
  BY <1>2 DEF Late, Resolved, Ended, Failures, ExactInv, PhasesOK
<1>4. \A d : (Done(d)' <=> Done(d)) /\ (Reported(d)' <=> Reported(d))
  BY <1>1, <1>3 DEF Done, Reported
<1>5. Collected' /\ DoneExact' /\ SubtractExact' /\ CutExact' /\ BeforeExact'
  BY <1>1, <1>3, <1>4, ExactStays, Zenon DEF Late, Resolved, Ended, Failures
<1>6. PhasesOK'
  <2>1. todo = {} /\ cut = NoCut
    BY <1>3 DEF ExactInv, PhasesOK
  <2>2. phase' = "not_superset" => \E c \in Present("lite") \cap Present("server") :
                                     ~(resolved["lite"][c] \subseteq resolved["server"][c])
    BY <1>2 DEF Ended, Failures
  <2>3. QED
    BY <1>1, <1>3, <2>1, <2>2, MakingStays DEF PhasesOK
<1>7. QED
  BY <1>5, <1>6 DEF ExactInv

\* The invariant is of the state alone.
LEMMA StutterExact == ExactInv /\ UNCHANGED vars => ExactInv'
<1> SUFFICES ASSUME ExactInv, UNCHANGED vars PROVE ExactInv'
  OBVIOUS
<1>1. UNCHANGED <<rules, phase, dataset, published, pool, resolved, todo, cut, before>>
  BY DEF vars
<1>2. \A d : (Done(d)' <=> Done(d)) /\ (Reported(d)' <=> Reported(d))
  BY <1>1 DEF Done, Reported
<1>3. Collected' /\ DoneExact' /\ SubtractExact' /\ CutExact' /\ BeforeExact'
  BY <1>1, <1>2, ExactStays, Zenon
<1>4. PhasesOK'
  BY <1>1, MakingStays DEF ExactInv, PhasesOK
<1>5. QED
  BY <1>3, <1>4 DEF ExactInv

\* Whatever the rules and the policy, and in whatever order networks and blockers are taken:
\* what is resolved is exactly what the definitions above make of the categories.
THEOREM ResolutionExact == Spec => [](ResolutionInv /\ ExactInv)
<1>1. ResolutionInv /\ ExactInv /\ [Next]_vars => ExactInv'
  BY CategorizeExact, ResolveDomainsExact, TakeNetworkExact, SubtractBlockerExact, FinishNetworkExact,
     NextDatasetExact, LateStepsExact, StutterExact DEF Next
<1>2. Spec => []ExactInv
  BY ExactInit, ResolutionInvariant, <1>1, PTL DEF Spec
<1>3. QED
  BY <1>2, ResolutionInvariant, PTL

----------------------------------------------------------------------------
\* A part of a network: the same entry with another value.
LEMMA PartIs ==
  ASSUME NEW e, IsEntry(e), e.kind = "cidr", NEW n
  PROVE  LET f == [e EXCEPT !.value = n]
         IN  f.kind = "cidr" /\ f.value = n /\ (n = e.value => f = e)
<1>1. e = [kind |-> "cidr", value |-> e.value, memberships |-> e.memberships]
  BY DEF IsEntry
<1>2. [e EXCEPT !.value = n] = [kind |-> "cidr", value |-> n, memberships |-> e.memberships]
  BY <1>1
<1>3. QED
  BY <1>1, <1>2

\* A part of a network is a network that its owners have left over.
LEMMA PartsAre ==
  ASSUME NEW e, IsEntry(e), e.kind = "cidr", NEW d, NEW c, NEW f \in Parts(e, d, c)
  PROVE  f.kind = "cidr" /\ f.value \in Leftover(e.value, Owners(d, c))
<1> DEFINE part(k) == [e EXCEPT !.value = k]
<1>1. \A k : part(k).kind = "cidr" /\ part(k).value = k /\ (k = e.value => part(k) = e)
  BY PartIs
<1>2. Parts(e, d, c) = {part(k) : k \in Leftover(e.value, Owners(d, c))}
  BY DEF Parts
<1> HIDE DEF part
<1>3. QED
  BY <1>1, <1>2

\* Each network left over is a part, and the network itself is if nothing is taken from it.
LEMMA PartFor ==
  ASSUME NEW e, IsEntry(e), e.kind = "cidr", NEW d, NEW c, NEW n \in Leftover(e.value, Owners(d, c))
  PROVE  \E f \in Parts(e, d, c) : f.value = n /\ (n = e.value => f = e)
<1> DEFINE part(k) == [e EXCEPT !.value = k]
<1>1. \A k : part(k).kind = "cidr" /\ part(k).value = k /\ (k = e.value => part(k) = e)
  BY PartIs
<1>2. Parts(e, d, c) = {part(k) : k \in Leftover(e.value, Owners(d, c))}
  BY DEF Parts
<1> HIDE DEF part
<1>3. QED
  BY <1>1, <1>2

\* When the resolution is over, both datasets are what it makes of them.
LEMMA LateDone == ASSUME ExactInv, phase \in Resolved, NEW d \in Datasets, NEW c \in Categories
                  PROVE  resolved[d][c] = NamesKept(d, c) \cup PartsOf(NetworksOf(published[d][c]), d, c)
BY DEF ExactInv, DoneExact, Done, Late

\* The networks of a resolved category are the parts of those published in it.
LEMMA ResolvedNetworks ==
  ASSUME ResolutionInv, ExactInv, phase \in Resolved, NEW d \in Datasets, NEW c \in Categories
  PROVE  /\ NetworksOf(resolved[d][c]) = PartsOf(NetworksOf(published[d][c]), d, c)
         /\ \A e \in resolved[d][c] : e.kind # "cidr" => e \in NamesKept(d, c)
         /\ \A e \in NetworksOf(published[d][c]) :
              IsEntry(e) /\ e.kind = "cidr" /\ e.value \in Networks
<1>1. \A e \in NetworksOf(published[d][c]) : IsEntry(e) /\ e.kind = "cidr" /\ e.value \in Networks
  BY EntryValues DEF ResolutionInv, PublishedOK, NetworksOf, IsEntry
<1>2. \A f \in PartsOf(NetworksOf(published[d][c]), d, c) : f.kind = "cidr"
  BY <1>1, PartsAre DEF PartsOf
<1>3. \A e \in NamesKept(d, c) : e.kind # "cidr"
  BY DEF NamesKept
<1>4. QED
  BY <1>1, <1>2, <1>3, LateDone DEF NetworksOf

\* The addresses the networks of a category keep, one by one.
LEMMA AddressesKept ==
  ASSUME ResolutionInv, ExactInv, phase \in Resolved, NEW d \in Datasets, NEW c \in Categories,
         NEW a \in Addresses
  PROVE  (\E f \in NetworksOf(resolved[d][c]) : IsPrefix(f.value, a)) <=>
           /\ \E e \in NetworksOf(published[d][c]) : IsPrefix(e.value, a)
           /\ \A b \in Owners(d, c) : ~IsPrefix(b, a)
<1>1. /\ NetworksOf(resolved[d][c]) = PartsOf(NetworksOf(published[d][c]), d, c)
      /\ \A e \in NetworksOf(published[d][c]) : IsEntry(e) /\ e.kind = "cidr" /\ e.value \in Networks
      /\ Owners(d, c) \in SUBSET Networks
  BY ResolvedNetworks, OwnersAre DEF ResolutionInv
<1>2. ASSUME NEW e \in NetworksOf(published[d][c])
      PROVE  (\E f \in Parts(e, d, c) : IsPrefix(f.value, a)) <=>
               IsPrefix(e.value, a) /\ \A b \in Owners(d, c) : ~IsPrefix(b, a)
  <2>1. (\E n \in Leftover(e.value, Owners(d, c)) : IsPrefix(n, a)) <=>
          IsPrefix(e.value, a) /\ \A b \in Owners(d, c) : ~IsPrefix(b, a)
    BY <1>1, LeftoverHits
  <2>2. (\E n \in Leftover(e.value, Owners(d, c)) : IsPrefix(n, a)) <=>
          \E f \in Parts(e, d, c) : IsPrefix(f.value, a)
    <3> DEFINE L == Leftover(e.value, Owners(d, c))
    <3>0. IsEntry(e) /\ e.kind = "cidr"
      BY <1>1
    <3>1. \A f \in Parts(e, d, c) : f.value \in L
      BY <3>0, PartsAre
    <3>2. \A n \in L : \E f \in Parts(e, d, c) : f.value = n
      BY <3>0, PartFor
    <3> HIDE DEF L
    <3>3. (\E n \in L : IsPrefix(n, a)) <=> \E f \in Parts(e, d, c) : IsPrefix(f.value, a)
      BY <3>1, <3>2
    <3>4. QED
      BY <3>3 DEF L
  <2>3. QED
    BY <2>1, <2>2
<1>3. QED
  BY <1>1, <1>2 DEF PartsOf

\* What the networks of a category match are the addresses below one of them.
LEMMA NetworkHits ==
  ASSUME NEW E
  PROVE  AllHits(NetworksOf(E)) = {a \in Addresses : \E e \in NetworksOf(E) : IsPrefix(e.value, a)}
<1>1. \A f \in NetworksOf(E) : Hits(f) = {a \in Addresses : IsPrefix(f.value, a)}
  BY DEF Hits, Patterned, NetworksOf
<1>2. QED
  BY <1>1 DEF AllHits

\* Whatever the rules, the width of addresses and the order blockers come in: the networks of
\* a category keep exactly the addresses that no network of an owner has.
THEOREM NetworksAreExact == Spec => []NetworksExact
<1>1. ResolutionInv /\ ExactInv => NetworksExact
  <2> SUFFICES ASSUME ResolutionInv, ExactInv, phase \in Resolved, NEW d \in Datasets, NEW c \in Categories
               PROVE  AllHits(NetworksOf(resolved[d][c])) =
                        AllHits(NetworksOf(published[d][c]))
                          \ AllHits({x[2] : x \in OfKind(Blockers(d, c, pool), "cidr")})
    BY DEF NetworksExact
  <2> DEFINE O == {x[2] : x \in OfKind(Blockers(d, c, pool), "cidr")}
  <2>1. O = NetworksOf(O) /\ Owners(d, c) = {x.value : x \in O}
    BY DEF OfKind, NetworksOf, Owners
  <2> HIDE DEF O
  <2>2. AllHits(O) = {a \in Addresses : \E b \in Owners(d, c) : IsPrefix(b, a)}
    <3>1. AllHits(O) = {a \in Addresses : \E x \in O : IsPrefix(x.value, a)}
      BY <2>1, NetworkHits
    <3>2. QED
      BY <2>1, <3>1
  <2>3. QED
    BY <2>2, NetworkHits, AddressesKept DEF O
<1>2. QED
  BY ResolutionExact, <1>1, PTL

----------------------------------------------------------------------------
\* The boolean check and the lookup agree on what is blocked.
LEMMA BlockedIffMatched ==
  ASSUME NEW e, Entry(e), e.kind # "cidr", NEW B
  PROVE  IsBlocked(e, B) <=> MatchingBlockers(e, B) # {}
<1>1. \A x \in FailClosed(B) : x \in B /\ x[2].kind # "cidr"
  BY DEF FailClosed, Patterned
<1>2. CASE e.kind \in Patterned
  <2>1. MatchingBlockers(e, B) = {x \in B : x[2].kind # "cidr"}
    BY <1>2 DEF MatchingBlockers, Plain, Patterned
  <2>2. IsBlocked(e, B) <=> \E x \in B : x[2].kind # "cidr"
    BY <1>1, <1>2 DEF IsBlocked, Plain, Patterned
  <2>3. QED
    BY <2>1, <2>2
<1>3. CASE e.kind \in Plain
  <2>1. e.kind \notin Patterned /\ e.kind # "cidr"
    BY <1>3 DEF Plain, Patterned
  <2>2. MatchingBlockers(e, B) =
          FailClosed(B) \cup TrieLookup(e, B) \cup {x \in DotlessRegex(B) : IsDotless(e)}
            \cup {x \in OfKind(B, "domain") : e.kind = "domain" /\ x[2].value = e.value}
    BY <1>3, <2>1 DEF MatchingBlockers
  <2>3. TrieHasOverlap(e, B) <=> TrieLookup(e, B) # {}
    BY TriesAgree
  <2>4. IsBlocked(e, B) <=> \/ FailClosed(B) # {}
                            \/ e.kind = "domain" /\ \E x \in OfKind(B, "domain") : x[2].value = e.value
                            \/ IsDotless(e) /\ DotlessRegex(B) # {}
                            \/ TrieHasOverlap(e, B)
    BY <1>3, <2>1 DEF IsBlocked
  <2>5. IsDotless(e) /\ DotlessRegex(B) # {} <=> {x \in DotlessRegex(B) : IsDotless(e)} # {}
    OBVIOUS
  <2>6. (e.kind = "domain" /\ \E x \in OfKind(B, "domain") : x[2].value = e.value) <=>
          {x \in OfKind(B, "domain") : e.kind = "domain" /\ x[2].value = e.value} # {}
    OBVIOUS
  <2>7. QED
    BY <2>2, <2>3, <2>4, <2>5, <2>6
<1>4. QED
  BY <1>2, <1>3 DEF Entry

\* A conflict is reported for the dataset it was found in.
LEMMA ConflictDatasets ==
  ASSUME NEW d, NEW entries, NEW source
  PROVE  \A x \in Conflicts(d, entries, source) : x.dataset = d
BY DEF Conflicts

\* A conflict is reported for an entry if, and only if, a blocker matches it.
LEMMA ConflictsAre ==
  ASSUME NEW d, NEW entries, NEW source, NEW c \in Categories, NEW e \in entries[c]
  PROVE  (\E x \in Conflicts(d, entries, source) : x.lower = c /\ x.entry = e) <=>
           MatchingBlockers(e, Blockers(d, c, source)) # {}
<1> DEFINE conflict(k, f, x) ==
             [dataset |-> d, higher |-> x[1], lower |-> k, blocker |-> x[2], entry |-> f]
           found(k, f) == MatchingBlockers(f, Blockers(d, k, source))
<1>1. Conflicts(d, entries, source) =
        UNION {UNION {{conflict(k, f, x) : x \in found(k, f)} : f \in entries[k]} : k \in Categories}
  BY DEF Conflicts
<1>2. \A k, f, x : conflict(k, f, x).lower = k /\ conflict(k, f, x).entry = f
  OBVIOUS
<1> HIDE DEF conflict, found
<1>3. \A y : y \in Conflicts(d, entries, source) <=>
               \E k \in Categories : \E f \in entries[k] : \E x \in found(k, f) : y = conflict(k, f, x)
  BY <1>1
<1>4. ASSUME NEW y \in Conflicts(d, entries, source), y.lower = c, y.entry = e
      PROVE  found(c, e) # {}
  BY <1>2, <1>3, <1>4
<1>5. ASSUME NEW x \in found(c, e)
      PROVE  \E y \in Conflicts(d, entries, source) : y.lower = c /\ y.entry = e
  BY <1>2, <1>3
<1>6. QED
  BY <1>4, <1>5 DEF found

\* Whatever the rules: an entry is lost or split if and only if a conflict of its dataset
\* names it.
THEOREM RemovalsReported == Spec => []RemovalsAreReported
<1>1. ResolutionInv /\ ExactInv => RemovalsAreReported
  <2> SUFFICES ASSUME ResolutionInv, ExactInv, phase \in Resolved,
                      NEW d \in Datasets, NEW c \in Categories, NEW e \in published[d][c]
               PROVE  e \notin resolved[d][c] <=>
                        \E x \in before : x.dataset = d /\ x.lower = c /\ x.entry = e
    BY DEF RemovalsAreReported
  <2> DEFINE B == Blockers(d, c, pool)
  <2>1. (\E x \in before : x.dataset = d /\ x.lower = c /\ x.entry = e) <=> MatchingBlockers(e, B) # {}
    <3>1. before = UNION {Conflicts(k, published[k], pool) : k \in Datasets}
      <4>1. \A k : Reported(k)
        BY DEF Reported, Done, Late
      <4>2. QED
        BY <4>1 DEF ExactInv, BeforeExact
    <3>2. \A k \in Datasets : \A x \in Conflicts(k, published[k], pool) : x.dataset = k
      BY ConflictDatasets
    <3>3. (\E x \in Conflicts(d, published[d], pool) : x.lower = c /\ x.entry = e) <=> MatchingBlockers(e, B) # {}
      BY ConflictsAre
    <3>4. QED
      BY <3>1, <3>2, <3>3
  <2>2. IsEntry(e) /\ Entry(e)
    BY DEF ResolutionInv, PublishedOK, IsEntry
  <2>3. /\ NetworksOf(resolved[d][c]) = PartsOf(NetworksOf(published[d][c]), d, c)
        /\ \A f \in resolved[d][c] : f.kind # "cidr" => f \in NamesKept(d, c)
    BY ResolvedNetworks
  <2>4. CASE e.kind # "cidr"
    <3>1. e \in resolved[d][c] <=> ~IsBlocked(e, B)
      BY <2>3, <2>4, LateDone DEF NamesKept
    <3>2. QED
      BY <2>1, <2>2, <2>4, <3>1, BlockedIffMatched
  <2>5. CASE e.kind = "cidr"
    <3>1. MatchingBlockers(e, B) = OverlappingBlockers(e, B)
      BY <2>5 DEF MatchingBlockers, Plain, Patterned
    <3>2. OverlappingBlockers(e, B) = {} <=> \A b \in Owners(d, c) : ~Nested(b, e.value)
      BY DEF OverlappingBlockers, Owners
    <3>3. ASSUME e \in resolved[d][c] PROVE \A b \in Owners(d, c) : ~Nested(b, e.value)
      BY <2>5, <3>3 DEF ResolutionInv, ResolvedOK, Kept, Owners
    <3>4. ASSUME \A b \in Owners(d, c) : ~Nested(b, e.value) PROVE e \in resolved[d][c]
      <4>1. e.value \in Networks /\ Owners(d, c) \in SUBSET Networks
        BY <2>2, <2>5, EntryValues, OwnersAre DEF ResolutionInv
      <4>2. Leftover(e.value, Owners(d, c)) = {e.value}
        BY <3>4, <4>1, LeftoverApart
      <4>3. e \in Parts(e, d, c)
        BY <2>2, <2>5, <4>2, PartFor
      <4>4. e \in NetworksOf(published[d][c])
        BY <2>5 DEF NetworksOf
      <4>5. QED
        BY <2>3, <4>3, <4>4 DEF PartsOf, NetworksOf
    <3>5. QED
      BY <2>1, <3>1, <3>2, <3>3, <3>4
  <2>6. QED
    BY <2>4, <2>5
<1>2. QED
  BY ResolutionExact, <1>1, PTL

----------------------------------------------------------------------------
\* In server a category has no owner that it lacks in lite, and none fewer unless thematic.
LEMMA ServerBlockers ==
  ASSUME NEW c, NEW source
  PROVE  /\ Blockers("server", c, source) \subseteq Blockers("lite", c, source)
         /\ Tier[c] # "thematic" => Blockers("server", c, source) = Blockers("lite", c, source)
<1>1. \A b : /\ TakesOwnership("server", Tier[b], Tier[c]) => TakesOwnership("lite", Tier[b], Tier[c])
             /\ Tier[c] # "thematic" /\ TakesOwnership("lite", Tier[b], Tier[c]) =>
                  TakesOwnership("server", Tier[b], Tier[c])
  BY DEF TakesOwnership
<1>2. QED
  BY <1>1 DEF Blockers

\* In server a category loses addresses to no network that it keeps them from in lite.
LEMMA ServerOwners ==
  ASSUME NEW c
  PROVE  /\ Owners("server", c) \subseteq Owners("lite", c)
         /\ Tier[c] # "thematic" => Owners("server", c) = Owners("lite", c)
BY ServerBlockers DEF Owners, OfKind

\* More blockers block no less; and what is blocked depends on the kind and the value alone.
LEMMA BlockedByMore ==
  ASSUME NEW e, NEW f, Same(e, f), NEW B, NEW R, R \subseteq B, IsBlocked(f, R)
  PROVE  IsBlocked(e, B)
<1>1. e.kind = f.kind /\ e.value = f.value
  BY DEF Same
<1>2. \A k : OfKind(R, k) \subseteq OfKind(B, k)
  BY DEF OfKind
<1>3. DotlessRegex(R) \subseteq DotlessRegex(B) /\ FailClosed(R) \subseteq FailClosed(B)
  BY <1>2 DEF DotlessRegex, FailClosed, OfKind
<1>4. TrieHasOverlap(f, R) => TrieHasOverlap(e, B)
  <2> HIDE DEF OfKind
  <2>1. QED
    BY <1>1, <1>2 DEF TrieHasOverlap, Descent, Nodes, InTrie, EndsAt, Under
<1>5. QED
  BY <1>1, <1>2, <1>3, <1>4 DEF IsBlocked, IsDotless

\* A category that both datasets publish has the same entries in both, because all its
\* memberships are published alike.
LEMMA SamePublished ==
  ASSUME ExactInv, phase \in Resolved, NEW c \in Present("lite") \cap Present("server")
  PROVE  published["lite"][c] = published["server"][c]
<1> DEFINE Of(ms, r) == {m \in ms : /\ Mapping[m].category = c
                                    /\ \E s \in rules : /\ s.kind = r.kind /\ s.value = r.value
                                                        /\ m \in s.memberships}
           entry(ms, r) == [kind |-> r.kind, value |-> r.value, memberships |-> Of(ms, r)]
<1>1. \A d \in Datasets : published[d][c] = Collect(MembershipsIn(d), c)
  BY DEF ExactInv, Collected, Present, Resolved, Ended, Failures, Datasets
<1>2. \A ms : Collect(ms, c) = {entry(ms, r) : r \in {r \in rules : Of(ms, r) # {}}}
  BY DEF Collect
<1>3. \A d \in Datasets : \A r : \A m \in Of(MembershipsIn(d), r) :
        m \in DOMAIN Mapping /\ Mapping[m].category = c /\ d \in Mapping[m].datasets
  BY DEF MembershipsIn
<1>4. \A d \in {"lite", "server"} : \E m \in DOMAIN Mapping :
        Mapping[m].category = c /\ d \in Mapping[m].datasets
  <2> SUFFICES ASSUME NEW d \in Datasets
               PROVE  \E m \in DOMAIN Mapping : Mapping[m].category = c /\ d \in Mapping[m].datasets
    BY DEF Datasets
  <2>1. Collect(MembershipsIn(d), c) # {}
    BY <1>1 DEF Present, Datasets
  <2> HIDE DEF Of, entry
  <2>2. PICK r \in rules : Of(MembershipsIn(d), r) # {}
    BY <1>2, <2>1
  <2>3. QED
    BY <1>3, <2>2
<1>5. \A m \in DOMAIN Mapping : Mapping[m].category = c => Mapping[m].datasets = {"lite", "server"}
  BY <1>4, ResolutionAssumption DEF Datasets
<1>6. \A r : Of(MembershipsIn("lite"), r) = Of(MembershipsIn("server"), r)
  <2>1. \A m \in DOMAIN Mapping : Mapping[m].category = c
           => (m \in MembershipsIn("lite") <=> m \in MembershipsIn("server"))
    BY <1>5 DEF MembershipsIn
  <2>2. \A d : MembershipsIn(d) \subseteq DOMAIN Mapping
    BY DEF MembershipsIn
  <2>3. QED
    BY <2>1, <2>2
<1>7. \A r : entry(MembershipsIn("lite"), r) = entry(MembershipsIn("server"), r)
  BY <1>6
<1>8. Collect(MembershipsIn("lite"), c) = Collect(MembershipsIn("server"), c)
  <2> HIDE DEF Of, entry
  <2>1. QED
    BY <1>2, <1>6, <1>7
<1>9. QED
  BY <1>1, <1>8 DEF Datasets

\* Whatever the rules and the mapping: the superset check fails only where lite had to split
\* a network of a thematic category.
THEOREM SupersetFailures == Spec => []SupersetFailsOnlyWhenDiverging
<1>1. ResolutionInv /\ ExactInv => SupersetFailsOnlyWhenDiverging
  <2> SUFFICES ASSUME ResolutionInv, ExactInv, phase = "not_superset"
               PROVE  \E c \in Present("lite") \cap Present("server") : Diverges(c)
    BY DEF SupersetFailsOnlyWhenDiverging
  <2>1. PICK c \in Present("lite") \cap Present("server") :
          ~(resolved["lite"][c] \subseteq resolved["server"][c])
    BY DEF ExactInv, PhasesOK
  <2>2. PICK e \in resolved["lite"][c] : e \notin resolved["server"][c]
    BY <2>1
  <2>3. c \in Categories /\ phase \in Resolved /\ "lite" \in Datasets /\ "server" \in Datasets
    BY <2>1 DEF Present, Resolved, Ended, Failures, Datasets
  <2> SUFFICES ASSUME ~Diverges(c) PROVE FALSE
    BY <2>1
  <2>4. /\ published["lite"][c] \subseteq published["server"][c]
        /\ Tier[c] = "thematic" => NetworksOf(resolved["lite"][c]) \subseteq published["lite"][c]
    BY <2>1, <2>3, SamePublished DEF Diverges
  <2>5. /\ NetworksOf(resolved["lite"][c]) = PartsOf(NetworksOf(published["lite"][c]), "lite", c)
        /\ NetworksOf(resolved["server"][c]) = PartsOf(NetworksOf(published["server"][c]), "server", c)
        /\ e.kind # "cidr" => e \in NamesKept("lite", c)
        /\ \A f \in NetworksOf(published["server"][c]) : IsEntry(f) /\ f.kind = "cidr" /\ f.value \in Networks
    BY <2>3, ResolvedNetworks
  <2>6. Owners("server", c) \in SUBSET Networks
    BY OwnersAre DEF ResolutionInv
  <2>7. CASE e.kind # "cidr"
    <3>1. e \in published["server"][c] /\ ~IsBlocked(e, Blockers("lite", c, pool))
      BY <2>4, <2>5, <2>7 DEF NamesKept
    <3>2. ~IsBlocked(e, Blockers("server", c, pool))
      BY <3>1, ServerBlockers, BlockedByMore DEF Same
    <3>3. e \in NamesKept("server", c)
      BY <2>7, <3>1, <3>2 DEF NamesKept
    <3>4. QED
      BY <2>2, <2>3, <3>3, LateDone
  <2>8. CASE e.kind = "cidr" /\ Tier[c] # "thematic"
    <3>1. e \in PartsOf(NetworksOf(published["lite"][c]), "lite", c)
      BY <2>5, <2>8 DEF NetworksOf
    <3>2. PICK f \in NetworksOf(published["lite"][c]) : e \in Parts(f, "lite", c)
      BY <3>1 DEF PartsOf
    <3>3. f \in NetworksOf(published["server"][c])
      BY <2>4, <3>2 DEF NetworksOf
    <3>4. Parts(f, "lite", c) = Parts(f, "server", c)
      BY <2>8, ServerOwners DEF Parts
    <3>5. e \in NetworksOf(resolved["server"][c])
      BY <2>5, <3>2, <3>3, <3>4 DEF PartsOf
    <3>6. QED
      BY <2>2, <3>5 DEF NetworksOf
  <2>9. CASE e.kind = "cidr" /\ Tier[c] = "thematic"
    <3>1. e \in NetworksOf(published["server"][c])
      BY <2>4, <2>9 DEF NetworksOf
    <3>2. IsEntry(e) /\ e.value \in Networks
      BY <2>5, <3>1
    <3>3. \A b \in Owners("lite", c) : ~Nested(b, e.value)
      BY <2>3, <2>9 DEF ResolutionInv, ResolvedOK, Kept, Owners
    <3>4. \A b \in Owners("server", c) : ~Nested(b, e.value)
      BY <3>3, ServerOwners
    <3>5. Leftover(e.value, Owners("server", c)) = {e.value}
      BY <2>6, <3>2, <3>4, LeftoverApart
    <3>6. e \in Parts(e, "server", c)
      BY <2>9, <3>2, <3>5, PartFor
    <3>7. e \in NetworksOf(resolved["server"][c])
      BY <2>5, <3>1, <3>6 DEF PartsOf
    <3>8. QED
      BY <2>2, <3>7 DEF NetworksOf
  <2>10. QED
    BY <2>7, <2>8, <2>9
<1>2. QED
  BY ResolutionExact, <1>1, PTL

\* Whatever the rules: a category of server matches all that its lite version matches.
THEOREM ServerCovers == Spec => []ServerCoversLite
<1>1. ResolutionInv /\ ExactInv => ServerCoversLite
  <2> SUFFICES ASSUME ResolutionInv, ExactInv, phase \in Resolved,
                      NEW c \in Present("lite") \cap Present("server"),
                      NEW e \in resolved["lite"][c], NEW h \in Hits(e)
               PROVE  \E f \in resolved["server"][c] : h \in Hits(f)
    BY DEF ServerCoversLite, AllHits
  <2>1. c \in Categories /\ "lite" \in Datasets /\ "server" \in Datasets
    BY DEF Present, Datasets
  <2>2. published["lite"][c] = published["server"][c]
    BY SamePublished
  <2>3. CASE e.kind # "cidr"
    <3>1. e \in published["server"][c] /\ ~IsBlocked(e, Blockers("lite", c, pool))
      BY <2>1, <2>3, <2>2, ResolvedNetworks DEF NamesKept
    <3>2. ~IsBlocked(e, Blockers("server", c, pool))
      BY <3>1, ServerBlockers, BlockedByMore DEF Same
    <3>3. e \in NamesKept("server", c)
      BY <2>3, <3>1, <3>2 DEF NamesKept
    <3>4. e \in resolved["server"][c]
      BY <2>1, <3>3, LateDone
    <3>5. QED
      BY <3>4
  <2>4. CASE e.kind = "cidr"
    <3>1. h \in Addresses /\ IsPrefix(e.value, h) /\ e \in NetworksOf(resolved["lite"][c])
      BY <2>4 DEF Hits, Patterned, NetworksOf
    <3>2. /\ \E f \in NetworksOf(published["lite"][c]) : IsPrefix(f.value, h)
          /\ \A b \in Owners("lite", c) : ~IsPrefix(b, h)
      BY <2>1, <3>1, AddressesKept
    <3>3. PICK f \in NetworksOf(published["lite"][c]) : IsPrefix(f.value, h)
      BY <3>2
    <3>4. f \in NetworksOf(published["server"][c])
      BY <2>2, <3>3
    <3>5. \A b \in Owners("server", c) : ~IsPrefix(b, h)
      BY <3>2, ServerOwners
    <3>6. PICK k \in NetworksOf(resolved["server"][c]) : IsPrefix(k.value, h)
      BY <2>1, <3>1, <3>3, <3>4, <3>5, AddressesKept
    <3>7. k \in resolved["server"][c] /\ h \in Hits(k)
      BY <3>1, <3>6 DEF NetworksOf, Hits, Patterned
    <3>8. QED
      BY <3>7
  <2>5. QED
    BY <2>3, <2>4
<1>2. QED
  BY ResolutionExact, <1>1, PTL

----------------------------------------------------------------------------
\* The address ranges of two networks meet if and only if one network holds the other.
LEMMA RangesMeet ==
  ASSUME NEW n \in Networks, NEW m \in Networks
  PROVE  AtMost(FirstOf(n), LastOf(m)) /\ AtMost(FirstOf(m), LastOf(n)) <=> Nested(n, m)
<1>1. \A k \in Networks : /\ Len(k) \in 1..Width+1 /\ k[1] \in {4, 6} /\ Width \in Nat
                          /\ \A i \in 2..Len(k) : k[i] \in {0, 1}
  BY NetworksAre, ResolutionAssumption
<1>2. \A k : \A i \in 1..Width+1 : /\ FirstOf(k)[i] = IF i <= Len(k) THEN k[i] ELSE 0
                                   /\ LastOf(k)[i]  = IF i <= Len(k) THEN k[i] ELSE 1
  BY DEF FirstOf, LastOf
<1>3. ASSUME NEW k \in Networks, NEW l \in Networks, Nested(k, l) PROVE AtMost(FirstOf(k), LastOf(l))
  <2> SUFFICES ASSUME NEW i \in 1..Width+1, LastOf(l)[i] < FirstOf(k)[i] PROVE FALSE
    BY DEF AtMost, Below
  <2>1. i <= Len(k) /\ i <= Len(l) => k[i] = l[i]
    BY <1>3, NetworkPrefix
  <2>2. /\ i <= Len(k) => k[i] \in {0, 1, 4, 6} /\ (i # 1 => k[i] \in {0, 1})
        /\ i <= Len(l) => l[i] \in {0, 1, 4, 6}
        /\ 1 <= Len(k) /\ 1 <= Len(l)
    <3>1. i = 1 \/ i \in 2..Width+1
      OBVIOUS
    <3>2. /\ Len(k) \in 1..Width+1 /\ k[1] \in {4, 6} /\ \A j \in 2..Len(k) : k[j] \in {0, 1}
          /\ Len(l) \in 1..Width+1 /\ l[1] \in {4, 6} /\ \A j \in 2..Len(l) : l[j] \in {0, 1}
      BY <1>1, <1>3
    <3>3. QED
      BY <3>1, <3>2
  <2>3. QED
    BY <1>2, <2>1, <2>2
<1>4. ASSUME ~Nested(n, m)
      PROVE  ~AtMost(FirstOf(n), LastOf(m)) \/ ~AtMost(FirstOf(m), LastOf(n))
  <2> DEFINE T == {i \in 1..Width+1 : i <= Len(n) /\ i <= Len(m) /\ n[i] # m[i]}
  <2>1. T # {} /\ T \subseteq Nat
    BY <1>4, NetworkPrefix
  <2>2. PICK i \in T : \A j \in T : i <= j
    <3> HIDE DEF T
    <3>1. QED
      BY <2>1, Smallest
  <2>3. /\ i \in 1..Width+1 /\ i <= Len(n) /\ i <= Len(m) /\ n[i] # m[i]
        /\ \A j \in 1..i-1 : n[j] = m[j]
    BY <1>1, <2>2
  <2>4. n[i] < m[i] \/ m[i] < n[i]
    <3>1. n[i] \in Int /\ m[i] \in Int
      <4>1. i = 1 \/ i \in 2..Width+1
        BY <2>3
      <4>2. QED
        BY <1>1, <2>3, <4>1
    <3>2. QED
      BY <2>3, <3>1
  <2>5. \A j \in 1..i : /\ FirstOf(n)[j] = n[j] /\ LastOf(n)[j] = n[j]
                        /\ FirstOf(m)[j] = m[j] /\ LastOf(m)[j] = m[j]
    <3> SUFFICES ASSUME NEW j \in 1..i
                 PROVE  /\ FirstOf(n)[j] = n[j] /\ LastOf(n)[j] = n[j]
                        /\ FirstOf(m)[j] = m[j] /\ LastOf(m)[j] = m[j]
      OBVIOUS
    <3>1. Len(n) \in 1..Width+1 /\ Len(m) \in 1..Width+1 /\ Width \in Nat
      BY <1>1
    <3>2. j \in 1..Width+1 /\ j <= Len(n) /\ j <= Len(m)
      BY <2>3, <3>1
    <3>3. QED
      BY <1>2, <3>2
  <2>6. i \in 1..i /\ \A j \in 1..i-1 : j \in 1..i
    BY <2>3
  <2>7. CASE n[i] < m[i]
    <3>1. Below(LastOf(n), FirstOf(m))
      BY <2>3, <2>5, <2>6, <2>7 DEF Below
    <3>2. QED
      BY <3>1 DEF AtMost
  <2>8. CASE m[i] < n[i]
    <3>1. Below(LastOf(m), FirstOf(n))
      BY <2>3, <2>5, <2>6, <2>8 DEF Below
    <3>2. QED
      BY <3>1 DEF AtMost
  <2>9. QED
    BY <2>4, <2>7, <2>8
<1>5. QED
  BY <1>3, <1>4, NetworkPrefix

\* The scan stops no sooner than it may: it finds every interval that meets the query.
LEMMA ScanFinds ==
  ASSUME NEW view, DOMAIN view \subseteq Int, NEW first, NEW last
  PROVE  Scan(view, first, last) =
           {p \in DOMAIN view : AtMost(view[p].first, last) /\ AtMost(first, view[p].last)}
<1>1. ASSUME NEW p \in DOMAIN view, AtMost(first, view[p].last), NEW r \in DOMAIN view, p <= r
      PROVE  \E j \in DOMAIN view : j <= r /\ AtMost(first, view[j].last)
  BY <1>1
<1>2. QED
  BY <1>1 DEF Scan

\* The interval index finds the networks that the tree of prefixes says overlap, and no others.
LEMMA IndexFinds ==
  ASSUME NEW e, Entry(e), e.kind = "cidr", NEW B, \A x \in B : Entry(x[2]),
         NEW view \in SortedViews(Intervals(B, e.value[1]))
  PROVE  IndexedBlockers(e, view) = OverlappingBlockers(e, B)
<1> DEFINE X == {x \in OfKind(B, "cidr") : x[2].value[1] = e.value[1]}
           S == Intervals(B, e.value[1])
           meets(i) == AtMost(i.first, LastOf(e.value)) /\ AtMost(FirstOf(e.value), i.last)
<1>1. S = {Interval(x) : x \in X}
  BY DEF Intervals
<1>2. view \in [1..Cardinality(S) -> S] /\ S = {view[p] : p \in DOMAIN view}
  BY DEF SortedViews, ToSet
<1>3. e.value \in Networks /\ \A x \in OfKind(B, "cidr") : x[2].value \in Networks
  BY EntryValues DEF OfKind
<1>4. \A x : /\ Interval(x).blocker = x /\ Interval(x).first = FirstOf(x[2].value)
             /\ Interval(x).last = LastOf(x[2].value)
  BY DEF Interval
<1>5. ASSUME NEW x \in OfKind(B, "cidr")
      PROVE  meets(Interval(x)) <=> Nested(x[2].value, e.value)
  <2>1. x[2].value \in Networks
    BY <1>3
  <2>2. meets(Interval(x)) <=> /\ AtMost(FirstOf(x[2].value), LastOf(e.value))
                               /\ AtMost(FirstOf(e.value), LastOf(x[2].value))
    BY <1>4
  <2>3. QED
    BY <1>3, <2>1, <2>2, RangesMeet
<1>6. ASSUME NEW x \in OfKind(B, "cidr"), Nested(x[2].value, e.value)
      PROVE  x \in X
  <2>1. x[2].value \in Networks
    BY <1>3
  <2>2. 1 <= Len(x[2].value) /\ 1 <= Len(e.value) /\ 1 \in 1..Width+1
    BY <1>3, <2>1, NetworksAre, ResolutionAssumption
  <2>3. QED
    BY <1>3, <1>6, <2>1, <2>2, NetworkPrefix
<1>7. IndexedBlockers(e, view) = {view[p].blocker : p \in {p \in DOMAIN view : meets(view[p])}}
  <2>1. Scan(view, FirstOf(e.value), LastOf(e.value)) = {p \in DOMAIN view : meets(view[p])}
    <3>1. DOMAIN view \subseteq Int
      BY <1>2
    <3> HIDE DEF S
    <3>2. Scan(view, FirstOf(e.value), LastOf(e.value)) =
            {p \in DOMAIN view : /\ AtMost(view[p].first, LastOf(e.value))
                                 /\ AtMost(FirstOf(e.value), view[p].last)}
      BY <3>1, ScanFinds, Zenon
    <3>3. QED
      BY <3>2
  <2>2. QED
    BY <2>1 DEF IndexedBlockers
<1> HIDE DEF meets, S
<1>8. IndexedBlockers(e, view) = {i.blocker : i \in {i \in S : meets(i)}}
  BY <1>2, <1>7
<1>9. {i.blocker : i \in {i \in S : meets(i)}} = {x \in X : meets(Interval(x))}
  <2> HIDE DEF X
  <2>1. QED
    BY <1>1, <1>4
<1>10. {x \in X : meets(Interval(x))} = OverlappingBlockers(e, B)
  BY <1>5, <1>6 DEF OverlappingBlockers
<1>11. QED
  BY <1>8, <1>9, <1>10

\* For an entry without a pattern, the trie finds the blockers that overlap it one by one.
LEMMA LookupIsPairwise ==
  ASSUME NEW e, Entry(e), e.kind \notin Patterned, NEW B, \A x \in B : Entry(x[2])
  PROVE  MatchingBlockers(e, B) = {x \in B : EntriesOverlap(e, x[2])}
<1>1. CASE e.kind = "cidr"
  <2>1. MatchingBlockers(e, B) = OverlappingBlockers(e, B)
    BY <1>1 DEF MatchingBlockers, Plain, Patterned
  <2>2. \A x \in B : EntriesOverlap(e, x[2]) <=> x[2].kind = "cidr" /\ Nested(e.value, x[2].value)
    BY <1>1 DEF EntriesOverlap, Plain, Patterned
  <2>3. QED
    BY <2>1, <2>2 DEF OverlappingBlockers, OfKind, Nested
<1>2. CASE e.kind \in Plain
  <2>1. MatchingBlockers(e, B) =
          FailClosed(B) \cup TrieLookup(e, B) \cup {x \in DotlessRegex(B) : IsDotless(e)}
            \cup {x \in OfKind(B, "domain") : e.kind = "domain" /\ x[2].value = e.value}
    BY <1>2 DEF MatchingBlockers, Plain, Patterned
  <2>2. ASSUME NEW x \in B
        PROVE  x \in MatchingBlockers(e, B) <=> EntriesOverlap(e, x[2])
    <3> DEFINE f == x[2]
    <3>1. CASE f.kind = "cidr"
      <4>1. ~EntriesOverlap(e, f)
        BY <1>2, <3>1 DEF EntriesOverlap, Plain
      <4>2. x \notin MatchingBlockers(e, B)
        BY <2>1, <3>1, TrieHolds DEF FailClosed, DotlessRegex, OfKind, Plain, Patterned
      <4>3. QED
        BY <4>1, <4>2
    <3>2. CASE f.kind \in Patterned
      <4>1. e.kind # "cidr" /\ f.kind # "cidr" /\ e.kind # "domain_regex" /\ e # f
        BY <1>2, <3>2 DEF Plain, Patterned
      <4>2. EntriesOverlap(e, f) <=> (f.kind = "domain_regex" /\ f.value = Dotless => IsDotless(e))
        <5>1. {e.kind, f.kind} \cap Patterned # {}
          BY <3>2
        <5>2. EntriesOverlap(e, f) <=>
                \A r \in {e, f} : r.kind = "domain_regex" /\ r.value = Dotless =>
                   LET other == IF r = e THEN f ELSE e
                   IN  IF other.kind \in Plain THEN IsDotless(other) ELSE other.value \notin Dotted
          BY <1>2, <3>2, <4>1, <5>1 DEF EntriesOverlap, Plain, Patterned
        <5>3. QED
          BY <1>2, <4>1, <5>2
      <4>3. x \in MatchingBlockers(e, B) <=> (f.kind = "domain_regex" /\ f.value = Dotless => IsDotless(e))
        BY <2>1, <3>2, TrieHolds DEF FailClosed, DotlessRegex, OfKind, Plain, Patterned
      <4>4. QED
        BY <4>2, <4>3
    <3>3. CASE f.kind \in Plain
      <4>1. e.value \in Seq(Labels) /\ f.value \in Seq(Labels)
        BY <1>2, <3>3, EntryValues
      <4>2. e.value = f.value => IsPrefix(e.value, f.value) /\ IsPrefix(f.value, e.value)
        BY <4>1, PrefixIs
      <4>3. EntriesOverlap(e, f) <=> \/ e.value = f.value
                                     \/ e.kind = "domain_suffix" /\ IsPrefix(e.value, f.value)
                                     \/ f.kind = "domain_suffix" /\ IsPrefix(f.value, e.value)
        BY <1>2, <3>3 DEF EntriesOverlap, Plain, Patterned
      <4>4. x \in MatchingBlockers(e, B) <=>
              \/ f.kind = "domain_suffix" /\ IsPrefix(f.value, e.value)
              \/ e.kind = "domain_suffix" /\ IsPrefix(e.value, f.value)
              \/ f.kind = "domain" /\ e.kind = "domain" /\ f.value = e.value
        <5>1. x \in TrieLookup(e, B) <=>
                \/ f.kind = "domain_suffix" /\ IsPrefix(f.value, e.value)
                \/ e.kind = "domain_suffix" /\ IsPrefix(e.value, f.value)
          BY <1>2, <3>3, TrieFinds
        <5>2. x \notin FailClosed(B) /\ x \notin DotlessRegex(B)
          BY <3>3 DEF FailClosed, DotlessRegex, OfKind, Plain, Patterned
        <5>3. QED
          BY <2>1, <3>3, <5>1, <5>2 DEF OfKind, Plain
      <4>5. QED
        BY <1>2, <3>3, <4>2, <4>3, <4>4 DEF Plain
    <3>4. QED
      BY <3>1, <3>2, <3>3 DEF Entry
  <2>3. \A x \in MatchingBlockers(e, B) : x \in B
    BY <2>1, TrieHolds DEF FailClosed, DotlessRegex, OfKind
  <2>4. QED
    BY <2>2, <2>3
<1>3. QED
  BY <1>1, <1>2 DEF Entry

\* Whatever the rules and the width of addresses: the trie, and the interval index in
\* whatever order equal first addresses are listed, find the blockers that overlap pairwise.
THEOREM IndexesMatch == Spec => []IndexesMatchPairwise
<1>1. ResolutionInv => IndexesMatchPairwise
  <2> SUFFICES ASSUME ResolutionInv, NEW c \in Categories,
                      NEW e \in published[dataset][c], e.kind \notin Patterned
               PROVE  LET B == Blockers(dataset, c, pool)
                      IN  /\ MatchingBlockers(e, B) = {x \in B : EntriesOverlap(e, x[2])}
                          /\ e.kind = "cidr" => \A view \in SortedViews(Intervals(B, e.value[1])) :
                                                  IndexedBlockers(e, view) = OverlappingBlockers(e, B)
    BY DEF IndexesMatchPairwise
  <2>1. Entry(e)
    BY DEF ResolutionInv, PublishedOK, IsEntry
  <2> DEFINE B == Blockers(dataset, c, pool)
  <2>2. \A x \in B : Entry(x[2])
    BY BlockersEntries DEF ResolutionInv, IsEntry
  <2> HIDE DEF B
  <2>3. MatchingBlockers(e, B) = {x \in B : EntriesOverlap(e, x[2])}
    BY <2>1, <2>2, LookupIsPairwise
  <2>4. ASSUME e.kind = "cidr", NEW view \in SortedViews(Intervals(B, e.value[1]))
        PROVE  IndexedBlockers(e, view) = OverlappingBlockers(e, B)
    BY <2>1, <2>2, <2>4, IndexFinds
  <2>5. QED
    BY <2>3, <2>4 DEF B
<1>2. QED
  BY ResolutionInvariant, <1>1, PTL
=============================================================================
