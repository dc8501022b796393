----------------------------- MODULE MCDiscovery ----------------------------
(* Small instances of Discovery for TLC. *)
EXTENDS Discovery

\* A seeded source that publishes twice, of the watch types that differ, and another an
\* operator adds: a page in the first case, a type without a handler otherwise.
Pair(k, l) == [s \in Sources |-> IF s = 1 THEN k ELSE l]
KindsHere ==
  {Pair("rss", "web_diff")} \cup
  {Pair(k, "unregistered") : k \in {"youtube", "repo"}}
VersionsOf == [s \in Sources |-> IF s = 1 THEN 2 ELSE 1]

\* A feed's first version comes out broken; a repository has no feed to break.
Broken == {<<1, 1>>}
=============================================================================
