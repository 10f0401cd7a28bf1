----------------------------- MODULE MCSessions -----------------------------
(* Sessions for TLC: users are interchangeable, and so are slugs; the      *)
(* expressions are all those of up to two selectors with up to two         *)
(* matchers on the workspace.                                              *)
EXTENDS Sessions, TLC

SomeMatchers ==
  [op : {"=", "!="}, slugs : {{s} : s \in Slugs}]
    \cup [op : {"=~"}, slugs : {{s} : s \in Slugs} \cup {Slugs, Slugs \cup {NoSlug}}]

SomeSelectors ==
  [metric : Scoped \cup Unscoped,
   matchers : {<<>>} \cup {<<m>> : m \in SomeMatchers} \cup {<<m, n>> : m, n \in SomeMatchers}]

SomeQueries == {<<>>} \cup {<<a>> : a \in SomeSelectors} \cup {<<a, b>> : a, b \in SomeSelectors}

Symmetry == Permutations(Users) \cup Permutations(Slugs)
=============================================================================
