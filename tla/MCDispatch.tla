----------------------------- MODULE MCDispatch ------------------------------
(* Configurations and requests for TLC: an http, a server and a location      *)
(* block with a nested location or an `if', or an http and a location block   *)
(* with an `if' in an `if', one zone, and two protocols.                      *)
EXTENDS Dispatch, TLC

CONSTANTS z1, var, h, g

MCProtocols == <<"fastcgi", "proxy">>
MCDefault == <<h, g>>

Plain(kind) ==
    [kind |-> kind, purge |-> <<>>, index |-> Unset, headers |-> Unset, mode |-> FALSE,
     content |-> None, cache |-> <<>>, key |-> {}]

Skeleton(inner) == <<Plain("http"), Plain("server"), Plain("location"), Plain(inner)>>

(* At each level the directive has flags of its own. *)
Flags == <<[soft |-> TRUE, all |-> FALSE], [soft |-> FALSE, all |-> TRUE],
           [soft |-> FALSE, all |-> FALSE], [soft |-> TRUE, all |-> TRUE]>>

WithPurge(t, levels, p) == [i \in 1..4 |-> IF i \in levels THEN [t[i] EXCEPT !.purge = p :> Flags[i]] ELSE t[i]]
WithCache(t, i, p, z) == [t EXCEPT ![i].cache = p :> z]
WithKey(t, i, p) == [t EXCEPT ![i].key = {p}]
WithPass(t, levels, p) == [i \in 1..4 |-> IF i \in levels THEN [t[i] EXCEPT !.content = p] ELSE t[i]]

Full(t, i, p, z) == WithKey(WithCache(t, i, p, z), i, p)

(* The directive at any levels, the cache at the http level or in the location. *)
Inheriting ==
    {WithPass(WithPurge(Full(Skeleton("location"), i, "proxy", z1), l, "proxy"), {3, 4}, "proxy") :
        i \in {1, 3}, l \in SUBSET (1..4)}
    \cup
    {[WithPass(WithPurge(Full(Skeleton("if"), i, "proxy", z1), l, "proxy"), {3}, "proxy")
        EXCEPT ![1].mode = TRUE] : i \in {1, 3}, l \in SUBSET (1..3)}

(* A location that is only there for the purge, complete or not. *)
PurgeLocations ==
    {WithPurge(t, {3}, "proxy") :
        t \in {Skeleton("location"),
               WithCache(Skeleton("location"), 3, "proxy", z1),
               WithKey(Skeleton("if"), 1, "proxy"),
               Full(Skeleton("if"), 3, "proxy", z1),
               Full(WithPass(Skeleton("location"), {4}, "proxy"), 3, "proxy", var),
               [Full(Skeleton("location"), 3, "proxy", z1) EXCEPT ![3].index = "on"],
               WithPass(Full(Skeleton("if"), 2, "proxy", var), {3}, "proxy"),
               WithPass(WithCache(Skeleton("location"), 3, "proxy", z1), {3}, "proxy")}}

(* Two locations of one indexed zone, with lists of tag headers. *)
HeaderLists ==
    {[WithPass(WithPurge(Full(Skeleton("location"), 1, "proxy", z1), {1}, "proxy"), {3, 4}, "proxy")
        EXCEPT ![3].headers = l, ![4].headers = k, ![1].mode = TRUE] :
        l \in {Unset, <<g, h>>, <<h>>}, k \in {Unset, <<h, g>>, <<h>>, <<g>>}}

(* Other content handlers, and a second protocol. *)
Mixtures ==
    {WithPass(WithPurge(Full(Full(Skeleton("location"), 1, "fastcgi", z1), 2, "proxy", z1),
                        l, "fastcgi"), {3}, "proxy") : l \in {{2}, {4}}}
    \cup
    {[WithPass(WithPurge(Full(Skeleton(k), 3, "proxy", z1), {3}, "proxy"), {4}, c)
        EXCEPT ![3].content = "empty_gif"] : k \in {"location", "if"}, c \in {"proxy", None}}

(* An `if' in an `if', each of which may pass to the upstream or not. *)
Nested ==
    {WithPass(WithPurge(Full(<<Plain("http"), Plain("location"), Plain("if"), Plain("if")>>,
                             1, "proxy", z1), l, "proxy"), w, "proxy") :
        l \in SUBSET {1, 2}, w \in SUBSET (2..4)}

(* A cache that is switched off again, and on in the innermost block. *)
SwitchedOff ==
    {WithCache(WithPass(WithPurge(Full(Skeleton("location"), 1, "proxy", z1), l, "proxy"), w, "proxy"),
               i, "proxy", "off") : i \in {2, 3, 4}, l \in {{1}, {4}}, w \in {{3}, {3, 4}}}
    \cup
    {WithCache(WithCache(WithPass(WithPurge(WithKey(Skeleton("location"), 1, "proxy"), {1}, "proxy"),
                                  {3, 4}, "proxy"), 2, "proxy", "off"), 4, "proxy", z1)}

MCTrees == SwitchedOff \cup Nested \cup Inheriting \cup PurgeLocations \cup HeaderLists \cup Mixtures

Request == [block |-> 3, cond |-> TRUE, tags |-> None, key |-> "plain", mode |-> "absent", variable |-> z1]

MCRequests ==
    {[Request EXCEPT !.block = b, !.cond = FALSE] : b \in {3, 4}}
    \cup {[Request EXCEPT !.block = b, !.variable = v] : b \in {3, 4}, v \in {"off", "unknown"}}
    \cup {[Request EXCEPT !.block = b, !.tags = t, !.key = k, !.mode = m] :
             b \in {3, 4}, t \in {None, h, g}, k \in {"plain", "star", "only"},
             m \in {"absent", "soft", "hard"}}
=============================================================================
