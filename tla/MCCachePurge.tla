---------------------------- MODULE MCCachePurge ----------------------------
(* Instances of CachePurge for TLC: two files, which are variants of one key *)
(* or have keys of their own, and small sets of PURGE requests.              *)
EXTENDS CachePurge, TLC

CONSTANTS a, b, k, m, t, u, x

MCKeyOf == (a :> k) @@ (b :> k)
OwnKeys == (a :> k) @@ (b :> m)

(* Every response for a path carries the same tags ... *)
SameTags == (a :> {{t}}) @@ (b :> {{t}})
(* ... or the tags of a page change between responses. *)
NewTags == (a :> {{t}, {u}}) @@ (b :> {{}})

MCIndexMatch == x :> {k}
MCWalkMatch == x :> {k}

Request(kind, soft, arg) == [kind |-> kind, soft |-> soft, arg |-> arg]

TagHard == Request("tag", FALSE, {t})
TagSoft == Request("tag", TRUE, {t})
WildHard == Request("wild", FALSE, x)
WildSoft == Request("wild", TRUE, x)
AllHard == Request("all", FALSE, x)
AllSoft == Request("all", TRUE, x)
ExactHard == Request("exact", FALSE, a)
ExactSoft == Request("exact", TRUE, a)

(* The sets of requests of the runs. *)
WithoutExact == {TagHard, TagSoft, WildHard, WildSoft, AllHard, AllSoft}
Every == WithoutExact \cup {ExactHard, ExactSoft}
TagsAndOthers == {TagHard, TagSoft, WildHard, WildSoft, AllHard}
OneOfEach == {TagHard, TagSoft, WildHard, AllSoft}
OneTag == {TagHard}
OneExactSoft == {ExactSoft}

(* Two workers are alike. *)
Alike == Permutations(Workers)

=============================================================================
