------------------------------ MODULE Dispatch -------------------------------
(***************************************************************************)
(* The way of one request through a configured location: access_handler    *)
(* decides whether it is a purge, protocol_handler finds the cache and has *)
(* dispatch_special try the tag, purge-all and wildcard purges, and        *)
(* ngx_http_cache_pilot_handler, which looks at the request a second time, *)
(* does the exact purge and answers.  The counters of the metrics zone and *)
(* of the response are kept along the way.  What a purge does to each file *)
(* is in CachePurge; here it has one of its three outcomes.                *)
(***************************************************************************)
EXTENDS LocationConf

CONSTANTS Requests,   \* requests that may come in
          MaxEntries  \* bound on the entries that one purge finds

(* A request is a record of the block it is mapped to, whether a condition of *)
(* the purge directive holds (cond), the header with tags or None (tags), the *)
(* end of its cache key (key: "plain", "star" or just "*", "only"), the mode  *)
(* header's value or "absent" (mode), and what the variable of a *_cache is   *)
(* ("off", "unknown" or a zone).                                              *)

VARIABLES req,      \* the request
          pc,       \* where it is
          cache,    \* the cache found for it
          left,     \* paths still to be purged of those the index gave
          count,    \* entries purged: purged_count
          ctx,      \* the request's context: purged per bucket, path, reason
          metrics,  \* the counters in shared memory
          did,      \* entries deleted and expired
          status,   \* the answer: a status, or the handler that gives it
          oom       \* has reading the tags run out of memory?

vars == <<confVars, req, pc, cache, left, count, ctx, metrics, did, status, oom>>

Modes == {"hard", "soft"}

(* The answers of the module itself: no content handler is one of them. *)
Statuses == {"200", "404", "412", "500", "error", "gone"}

ASSUME RequestsAssumption ==
    /\ MaxEntries \in Nat
    /\ \A q \in Requests : /\ q.mode \in Modes \cup {"absent"} /\ q.cond \in BOOLEAN
                           /\ q.block \in Nat \ {0}

ASSUME HandlersAssumption ==
    /\ None \notin Statuses
    /\ \A t \in Trees : \A b \in DOMAIN t : t[b].content \notin Statuses

Types == {"exact", "wildcard", "tag", "all"}
Buckets == Types \X Modes

Zero == [k \in Buckets |-> 0]

DispatchInit ==
    /\ Init
    /\ req = None /\ pc = "config" /\ cache = None /\ left = 0 /\ count = 0
    /\ ctx = [purged |-> Zero, path |-> None, reason |-> None]
    /\ metrics = [purges |-> Zero, purged |-> Zero, fanout |-> 0, hits |-> 0]
    /\ did = [m \in Modes |-> 0]
    /\ status = None /\ oom = FALSE

Configure ==
    /\ MergeBlock
    /\ UNCHANGED <<req, pc, cache, left, count, ctx, metrics, did, status, oom>>

Arrive(q) ==
    /\ pc = "config" /\ Configured
    /\ q.block <= Len(tree) /\ Named(q.block)
    /\ req' = q /\ pc' = "access"
    /\ UNCHANGED <<confVars, cache, left, count, ctx, metrics, did, status, oom>>

-----------------------------------------------------------------------------
(* Helpers: the configuration of the request, its mode, and the counters.    *)

Cf == conf[req.block]

ConfMode == IF Cf.conf.soft THEN "soft" ELSE "hard"

(* ngx_http_cache_pilot_request_mode *)
RequestMode == IF Cf.mode /\ req.mode # "absent" THEN req.mode ELSE ConfMode

(* Tags are looked for in the headers of the location, if it is indexed. *)
LocationEnabled == Cf.index = "on"
HasTags == LocationEnabled /\ req.tags \in Range(Cf.headers)

IsPartial == req.key \in {"star", "only"}

Answer(s) == status' = s /\ pc' = "done"

(* record_purge and record_purge_request, as functions of the counters. *)
Bump(f, k, n) == [f EXCEPT ![k] = @ + n]

CountPurge(type, m, n, path) ==
    /\ ctx' = [ctx EXCEPT !.purged = Bump(@, <<type, m>>, n), !.path = path]
    /\ metrics' = [metrics EXCEPT !.purged = Bump(@, <<type, m>>, n),
                                  !.purges = Bump(@, <<type, m>>, 1)]

Dispose(m, n) == did' = Bump(did, m, n)

-----------------------------------------------------------------------------
(* ngx_http_cache_pilot_access_handler, when it is the content handler.      *)

Handlers == [b \in 1..Len(tree) |-> conf[b].content]

Ours == ContentHandler(req.block, Handlers) = Access /\ Cf.conf \notin {Unset, None} /\ req.cond

(* Not a purge: the handler that was there before, or nginx's static files. *)
PassOn ==
    LET content == ContentHandler(req.block, Handlers) IN
    /\ pc = "access" /\ ~Ours
    /\ Answer(IF content = Access THEN Cf.original ELSE content)
    /\ UNCHANGED <<confVars, req, cache, left, count, ctx, metrics, did, oom>>

NoHandler ==
    /\ pc = "access" /\ Ours /\ Cf.handler = None
    /\ Answer("404")
    /\ UNCHANGED <<confVars, req, cache, left, count, ctx, metrics, did, oom>>

(* ngx_http_cache_pilot_protocol_handler up to the dispatch, with cache_get. *)
CacheNamed(z) == IF z \in Zones THEN z ELSE req.variable

(* Mutant: a value that names no zone is not refused. *)
CacheGetUnchecked ==
    LET z == CacheNamed(CacheOf(req.block, Cf.protocol)) IN
    /\ pc = "access" /\ Ours /\ Cf.handler # None
    /\ \/ z # "off" /\ cache' = z /\ pc' = "special" /\ UNCHANGED status
       \/ z = "off" /\ Answer(None) /\ UNCHANGED cache
    /\ UNCHANGED <<confVars, req, left, count, ctx, metrics, did, oom>>

CacheGet ==
    LET z == CacheNamed(CacheOf(req.block, Cf.protocol)) IN
    /\ pc = "access" /\ Ours /\ Cf.handler # None
    /\ \/ z \in Zones /\ cache' = z /\ pc' = "special" /\ UNCHANGED status
       \/ z = "off" /\ Answer(None) /\ UNCHANGED cache
       \/ z = "unknown" /\ Answer("error") /\ UNCHANGED cache
    /\ UNCHANGED <<confVars, req, left, count, ctx, metrics, did, oom>>

-----------------------------------------------------------------------------
(* ngx_http_cache_pilot_dispatch_special                                     *)

Special(to) == pc' = to /\ UNCHANGED <<confVars, req, cache, left, count, ctx, metrics, did, status>>

(* The error is not looked at, because handled is still 0. *)
SpecialOutOfMemory ==
    /\ pc = "special" /\ LocationEnabled
    /\ oom' = TRUE
    /\ Special("handler")

SpecialTags == pc = "special" /\ HasTags /\ Special("tag") /\ UNCHANGED oom

SpecialOther ==
    /\ pc = "special" /\ ~HasTags
    /\ Special(CASE Cf.conf.all -> "all"
                 [] ~Cf.conf.all /\ IsPartial -> "partial"
                 [] OTHER -> "handler")
    /\ UNCHANGED oom

(* ngx_http_cache_index_purge: the gate, the paths of the tags, one by one, *)
(* and the counters, which dispatch_special completes.                      *)
Registered == cache \in DOMAIN zones

(* Mutant: every decline is counted, not only that nothing was found. *)
TagDeclinedCounted(reason) ==
    /\ pc = "tag"
    /\ IF Registered THEN reason = "index_not_ready" ELSE reason = "zone_not_registered"
    /\ CountPurge("tag", RequestMode, 0, ctx.path)
    /\ Answer("412")
    /\ UNCHANGED <<confVars, req, cache, left, count, did, oom>>

TagDeclined(reason) ==
    /\ pc = "tag"
    /\ IF Registered THEN reason = "index_not_ready" ELSE reason = "zone_not_registered"
    /\ ctx' = [ctx EXCEPT !.reason = reason]
    /\ Answer("412")
    /\ UNCHANGED <<confVars, req, cache, left, count, metrics, did, oom>>

TagCollect(n) ==
    /\ pc = "tag" /\ Registered
    /\ left' = n /\ pc' = "tagPaths"
    /\ UNCHANGED <<confVars, req, cache, count, ctx, metrics, did, status, oom>>

(* The store fails, in the tag purge. *)
TagFails ==
    /\ pc = "tag" /\ Registered
    /\ Answer("500")
    /\ UNCHANGED <<confVars, req, cache, left, count, ctx, metrics, did, oom>>

TagDone ==
    /\ pc = "tagPaths" /\ left = 0
    /\ IF count > 0 THEN CountPurge("tag", RequestMode, count, "reused-persisted-index")
       ELSE /\ ctx' = [ctx EXCEPT !.reason = "not_found"]
            /\ metrics' = [metrics EXCEPT !.purges = Bump(@, <<"tag", RequestMode>>, 1)]
    /\ pc' = "handler"
    /\ UNCHANGED <<confVars, req, cache, left, count, did, status, oom>>

(* ngx_http_cache_pilot_by_path and by_indexed_path, for the next path that  *)
(* the index gave to a tag purge, a wildcard purge or a fan-out; at          *)
(* "fanoutOwn" one of those that are left is the file of the purge itself.   *)
InPaths == \/ pc \in {"tagPaths", "prefixPaths", "fanout"} /\ left > 0
           \/ pc = "fanoutOwn" /\ left > 1

PathPurged ==
    /\ InPaths
    /\ left' = left - 1 /\ count' = count + 1
    /\ Dispose(RequestMode, 1)
    /\ UNCHANGED <<confVars, req, pc, cache, ctx, metrics, status, oom>>

PathGone ==
    /\ InPaths
    /\ left' = left - 1
    /\ UNCHANGED <<confVars, req, pc, cache, count, ctx, metrics, did, status, oom>>

PathFails ==
    /\ InPaths \/ pc = "fanoutOwn"
    /\ Answer("500")
    /\ UNCHANGED <<confVars, req, cache, left, count, ctx, metrics, did, oom>>

-----------------------------------------------------------------------------
(* ngx_http_cache_pilot_all: the mode is the configured one.                 *)

All(n) ==
    /\ pc = "all"
    /\ Dispose(ConfMode, n) /\ CountPurge("all", ConfMode, n, ctx.path)
    /\ pc' = "handler"
    /\ UNCHANGED <<confVars, req, cache, left, count, status, oom>>

(* A walk that fails has purged some of the files: here that of purge_all. *)
AllFails(n) ==
    /\ pc = "all"
    /\ Dispose(ConfMode, n) /\ Answer("500")
    /\ UNCHANGED <<confVars, req, cache, left, count, ctx, metrics, oom>>

(* ngx_http_cache_pilot_partial: "*" alone is refused; then the index, if    *)
(* the zone has one, and the walk if nothing came of it.                     *)
PartialOnly ==
    /\ pc = "partial" /\ req.key = "only"
    /\ Answer("500")
    /\ UNCHANGED <<confVars, req, cache, left, count, ctx, metrics, did, oom>>

(* key_index_ready: what it leaves as the reason is not the end of it. *)
KeyIndexReason == [ctx EXCEPT !.reason = IF Registered THEN @ ELSE "zone_not_registered"]

PartialCollect(n) ==
    /\ pc = "partial" /\ req.key = "star"
    /\ Registered \/ n = 0
    /\ ctx' = KeyIndexReason
    /\ left' = n /\ pc' = "prefixPaths"
    /\ UNCHANGED <<confVars, req, cache, count, metrics, did, status, oom>>

PartialIndexed ==
    /\ pc = "prefixPaths" /\ left = 0 /\ count > 0
    /\ ctx' = [ctx EXCEPT !.path = "key-prefix-index",
                          !.purged = Bump(@, <<"wildcard", RequestMode>>, count)]
    /\ metrics' = [metrics EXCEPT !.purged = Bump(@, <<"wildcard", RequestMode>>, count),
                                  !.purges = Bump(@, <<"wildcard", RequestMode>>, 1),
                                  !.hits = @ + 1]
    /\ pc' = "handler"
    /\ UNCHANGED <<confVars, req, cache, left, count, did, status, oom>>

Walking == pc = "prefixPaths" /\ left = 0 /\ count = 0

PartialWalk(n) ==
    /\ Walking
    /\ Dispose(RequestMode, n)
    /\ CountPurge("wildcard", RequestMode, n, "filesystem-fallback")
    /\ pc' = "handler"
    /\ UNCHANGED <<confVars, req, cache, left, count, status, oom>>

(* The walk, or posting it to the thread pool, fails. *)
PartialFails(n) ==
    /\ Walking
    /\ Dispose(RequestMode, n) /\ Answer("500")
    /\ UNCHANGED <<confVars, req, cache, left, count, ctx, metrics, oom>>

(* With a thread pool the handler is left with NGX_DONE, and the completion  *)
(* answers: see PartialThread.                                               *)
PartialPost ==
    /\ Walking
    /\ ctx' = [ctx EXCEPT !.path = "filesystem-fallback"]
    /\ pc' = "thread"
    /\ UNCHANGED <<confVars, req, cache, left, count, metrics, did, status, oom>>

Completion(n) ==
    /\ pc = "thread"
    /\ Dispose(RequestMode, n)
    /\ CountPurge("wildcard", RequestMode, n, ctx.path)
    /\ Answer("200")
    /\ UNCHANGED <<confVars, req, cache, left, count, oom>>

(* The walk failed in the thread, or the client has gone meanwhile. *)
CompletionFails(n, s) ==
    /\ pc = "thread"
    /\ Dispose(RequestMode, n) /\ Answer(s)
    /\ UNCHANGED <<confVars, req, cache, left, count, ctx, metrics, oom>>

-----------------------------------------------------------------------------
(* ngx_http_cache_pilot_handler: it comes here after every kind of purge, and *)
(* again when a file that had to be read has been.                            *)

(* Mutant: only the tags and purge_all are asked for again. *)
PurgedBeforeSome == HasTags \/ Cf.conf.all

PurgedBefore == HasTags \/ Cf.conf.all \/ IsPartial

HandlerAnswers ==
    /\ pc = "handler" /\ PurgedBefore
    /\ Answer("200")
    /\ UNCHANGED <<confVars, req, cache, left, count, ctx, metrics, did, oom>>

HandlerExact ==
    /\ pc = "handler" /\ ~PurgedBefore
    /\ pc' = "open"
    /\ UNCHANGED <<confVars, req, cache, left, count, ctx, metrics, did, status, oom>>

(* Tags that cannot be read are taken for no tags. *)
HandlerOutOfMemory ==
    /\ pc = "handler" /\ HasTags
    /\ oom' = TRUE
    /\ IF Cf.conf.all \/ IsPartial THEN Answer("200") ELSE pc' = "open" /\ UNCHANGED status
    /\ UNCHANGED <<confVars, req, cache, left, count, ctx, metrics, did>>

(* ngx_http_file_cache_open: the file has to be read first. *)
OpenAgain ==
    /\ pc = "open"
    /\ pc' = "aio"
    /\ UNCHANGED <<confVars, req, cache, left, count, ctx, metrics, did, status, oom>>

Resume ==
    /\ pc = "aio"
    /\ pc' = "handler"
    /\ UNCHANGED <<confVars, req, cache, left, count, ctx, metrics, did, status, oom>>

(* There is no entry, or it goes before it can be deleted or expired: the    *)
(* purge counts all the same.                                                *)
ExactNotFound ==
    /\ pc = "open"
    /\ ctx' = [ctx EXCEPT !.reason = "not_found"]
    /\ metrics' = [metrics EXCEPT !.purges = Bump(@, <<"exact", RequestMode>>, 1)]
    /\ Answer("200")
    /\ UNCHANGED <<confVars, req, cache, left, count, did, oom>>

ExactFails ==
    /\ pc = "open"
    /\ Answer("500")
    /\ UNCHANGED <<confVars, req, cache, left, count, ctx, metrics, did, oom>>

(* Mutant: the count is of the siblings only. *)
ExactUncounted(n) ==
    /\ pc = "open" /\ (Registered \/ n = 0)
    /\ \/ /\ RequestMode = "hard"
          /\ \E d \in {0, 1} : Dispose("hard", d)
          /\ metrics' = [metrics EXCEPT !.purges = Bump(@, <<"exact", "hard">>, 1)]
          /\ pc' = "fanout"
       \/ /\ RequestMode = "soft"
          /\ Dispose("soft", 1) /\ UNCHANGED metrics
          /\ pc' = "fanout" \/ (n > 0 /\ pc' = "fanoutOwn")
    /\ ctx' = KeyIndexReason
    /\ left' = n /\ count' = 0
    /\ UNCHANGED <<confVars, req, cache, status, oom>>

(* exact_purge unlinks the file, an error is only logged; it counts the       *)
(* purge, drops its index entry and looks up the siblings.  exact_purge_soft  *)
(* expires the entry, keeps it in the index, finds it there again among the   *)
(* siblings, and counts after them.  No sibling is found either when the      *)
(* key's text or its paths cannot be had, an error that is not looked at.     *)
Exact(n) ==
    /\ pc = "open" /\ (Registered \/ n = 0)
    /\ \/ /\ RequestMode = "hard"
          /\ \E d \in {0, 1} : Dispose("hard", d)
          /\ metrics' = [metrics EXCEPT !.purges = Bump(@, <<"exact", "hard">>, 1)]
          /\ pc' = "fanout"
       \/ /\ RequestMode = "soft"
          /\ Dispose("soft", 1) /\ UNCHANGED metrics
          /\ pc' = "fanout" \/ (n > 0 /\ pc' = "fanoutOwn")
    /\ ctx' = KeyIndexReason
    /\ left' = n /\ count' = 1
    /\ UNCHANGED <<confVars, req, cache, status, oom>>

(* The soft purge comes to its own file: it expires the same entry again, or  *)
(* a new one that has taken its place, or finds the file gone.                *)
OwnAgain ==
    /\ pc = "fanoutOwn"
    /\ \E c \in {0, 1} : \E d \in 0..c : count' = count + c /\ Dispose(RequestMode, d)
    /\ left' = left - 1 /\ pc' = "fanout"
    /\ UNCHANGED <<confVars, req, cache, ctx, metrics, status, oom>>

FanoutDone ==
    LET k == <<"exact", RequestMode>> IN
    /\ pc = "fanout" /\ left = 0
    /\ ctx' = [ctx EXCEPT !.purged = Bump(@, k, count),
                          !.path = IF count > 1 THEN "exact-key-fanout" ELSE @]
    /\ metrics' = [metrics EXCEPT !.purged = Bump(@, k, count),
                                  !.fanout = IF count > 1 THEN @ + 1 ELSE @,
                                  !.purges = IF RequestMode = "soft" THEN Bump(@, k, 1) ELSE @]
    /\ Answer("200")
    /\ UNCHANGED <<confVars, req, cache, left, count, did, oom>>

-----------------------------------------------------------------------------
Next ==
    \/ Configure
    \/ \E q \in Requests : Arrive(q)
    \/ PassOn \/ NoHandler \/ CacheGet
    \/ SpecialOutOfMemory \/ SpecialTags \/ SpecialOther
    \/ TagFails \/ TagDone
    \/ \E reason \in {"index_not_ready", "zone_not_registered"} : TagDeclined(reason)
    \/ PathPurged \/ PathGone \/ PathFails
    \/ PartialOnly \/ PartialIndexed \/ PartialPost
    \/ HandlerAnswers \/ HandlerExact \/ HandlerOutOfMemory
    \/ OpenAgain \/ Resume \/ ExactNotFound \/ ExactFails \/ OwnAgain \/ FanoutDone
    \/ \E n \in 0..MaxEntries :
           \/ TagCollect(n) \/ All(n) \/ AllFails(n)
           \/ PartialCollect(n) \/ PartialWalk(n) \/ PartialFails(n)
           \/ Completion(n) \/ \E s \in {"500", "gone"} : CompletionFails(n, s)
           \/ Exact(n)

Spec == DispatchInit /\ [][Next]_vars

-----------------------------------------------------------------------------
(* Properties *)

Counts == [Buckets -> 0..(MaxEntries + 1)]
PurgePaths == {"reused-persisted-index", "key-prefix-index", "filesystem-fallback",
               "exact-key-fanout"}
Reasons == {"not_found", "index_not_ready", "zone_not_registered"}

(* The counters, the context and the answer have the types of the code. *)
TypeOK ==
    /\ pc \in {"config", "access", "special", "tag", "tagPaths", "all", "partial",
               "prefixPaths", "thread", "handler", "open", "aio", "fanoutOwn", "fanout", "done"}
    /\ cache \in Zones \cup {None}
    /\ left \in 0..MaxEntries /\ count \in 0..(MaxEntries + 1)
    /\ ctx \in [purged : Counts, path : PurgePaths \cup {None}, reason : Reasons \cup {None}]
    /\ metrics \in [purges : Counts, purged : Counts, fanout : 0..1, hits : 0..1]
    /\ did \in [Modes -> 0..(2 * MaxEntries + 1)]  \* a tag and an exact purge
    /\ oom \in BOOLEAN

Answered(s) == pc = "done" /\ status = s

(* What the request asks for: tags before purge_all before a trailing "*",   *)
(* in the mode of its header, which purge_all ignores.                       *)
Asked ==
    CASE HasTags -> <<"tag", RequestMode>>
      [] ~HasTags /\ Cf.conf.all -> <<"all", ConfMode>>
      [] ~HasTags /\ ~Cf.conf.all /\ IsPartial -> <<"wildcard", RequestMode>>
      [] OTHER -> <<"exact", RequestMode>>

(* A purge that is answered with 200 is counted as one purge, of the kind and *)
(* mode the request asked for, whether or not anything matched, although      *)
(* dispatch_special and then the handler each decide what kind it is, and the *)
(* handler may run again after a read.                                        *)
CountedOnce == Answered("200") /\ ~oom => metrics.purges = Bump(Zero, Asked, 1)

(* A 200 reports the entries that were deleted or expired, in the buckets of  *)
(* the metrics, and never fewer of them.  Only an exact purge can report      *)
(* more, and only one more: its own file, when unlinking it has failed or a   *)
(* soft purge has found it among its siblings.                                *)
ReportsWhatItDid ==
    LET n == did[Asked[2]] IN
    Answered("200") /\ ~oom =>
        /\ \/ ctx.purged = Bump(Zero, Asked, n)
           \/ Asked[1] = "exact" /\ ctx.purged = Bump(Zero, Asked, n + 1)
        /\ metrics.purged = ctx.purged
        /\ \A m \in Modes : m # Asked[2] => did[m] = 0

(* A request that is not answered as a purge, or is declined (412, 404, an    *)
(* *_cache that is off), has purged nothing and is not counted.               *)
NothingWhenDeclined ==
    pc = "done" /\ status \notin {"200", "500", "gone"} =>
        /\ did = [m \in Modes |-> 0]
        /\ ctx.purged = Zero /\ metrics.purged = Zero /\ metrics.purges = Zero

(* A request for which no purge condition holds is answered by the content    *)
(* handler that its block would have without this module.                     *)
OrdinaryRequests ==
    \A p \in Range(Protocols) :
        pc = "done" /\ ~req.cond /\ OneProtocol(p) =>
            status = ContentHandler(req.block, [b \in 1..Len(tree) |-> tree[b].content])
=============================================================================
