----------------------------- MODULE MCBootstrap -----------------------------
(* Instances of Bootstrap for TLC. *)
EXTENDS Bootstrap, TLC

CONSTANTS z1, z2, h, g, w1, w2

OneThenTwo == <<{w1}, {w1, w2}>>
OneEach == <<{w1}, {w1}, {w1}>>

Entry(z, l) == [zone |-> z, headers |-> l]

(* Both zones are indexed; the reload may leave out the second. *)
Both == <<Entry(z1, h), Entry(z2, h)>>
Indexing == <<{Both}, {Both, <<Entry(z1, h)>>}>>

(* One indexed zone, with one or the other list of tag headers, or none. *)
Changing == <<{<<Entry(z1, h)>>}, {<<Entry(z1, h)>>, <<Entry(z1, g)>>, <<>>}, {<<Entry(z1, h)>>}>>

=============================================================================
