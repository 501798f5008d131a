----------------------------- MODULE CachePurge -----------------------------
(***************************************************************************)
(* One cache zone, shared by the nginx workers: the cache files on disk,   *)
(* the zone's shared-memory nodes, the index of IndexStore (at the level   *)
(* of IndexMap: one atomic update per call), and the handlers that work on *)
(* all three.  A worker runs one synchronous handler at a time (`run`);    *)
(* its steps are the points at which another worker or the cache manager   *)
(* can get in between.  The log phase of a request comes later, whenever   *)
(* its client has been served (`logs`).                                    *)
(***************************************************************************)
EXTENDS Naturals, FiniteSets

CONSTANTS
    Workers,     \* worker processes
    Paths,       \* paths of cache files
    Keys,        \* cache keys
    KeyOf,       \* [Paths -> Keys]; Vary variants of a page share its key
    Tags,        \* tags
    TagsFor,     \* [Paths -> SUBSET SUBSET Tags], what responses may carry
    Purges,      \* the PURGE requests that may arrive
    IndexMatch,  \* prefix -> keys the index matches (ngx_strncmp)
    WalkMatch,   \* prefix -> keys the tree walk matches (ngx_strncasecmp)
    Ready,       \* is the zone bootstrapped in the initial state?
    MaxVersion,  \* bound on the files written in a behaviour
    Faults,      \* what may go wrong, see below
    HitsLogged,  \* do cache hits reach the log phase as separate requests?
    Uncached,    \* do responses that are not stored reach the log phase?
    NoPath       \* no path

Kinds == {"tag", "exact", "wild", "all"}

(* The faults: a file cannot be deleted (or its stat fails), its header      *)
(* cannot be rewritten, a directory or file of the scan cannot be read, the  *)
(* index zone is full, a wildcard or an exact purge cannot collect from the  *)
(* index, a worker dies, the cache manager drops files.                      *)
FaultKinds ==
    {"unlink", "header", "read", "alloc", "collect", "fanout", "crash", "evict"}

ASSUME ConstantsAssumption ==
    /\ TagsFor \in [Paths -> SUBSET SUBSET Tags]
    /\ MaxVersion \in Nat \ {0}
    /\ Ready \in BOOLEAN
    /\ Faults \subseteq FaultKinds

(* The argument of an exact purge is the path that its cache key and headers *)
(* select.                                                                   *)
ASSUME PurgesAssumption ==
    \A req \in Purges :
        /\ req.kind \in Kinds /\ req.soft \in BOOLEAN
        /\ req.kind = "exact" => req.arg \in Paths

VARIABLES
    disk,      \* [Paths -> content]; version 0: no file
    node,      \* [Paths -> exists, fresh], ngx_http_file_cache_node_t
    index,     \* [Paths -> present, tags], the index entry of the path
    complete,  \* bootstrap_complete of the zone
    run,       \* [Workers -> the handler the worker is in]
    logs,      \* requests that are still to reach their log phase
    version,   \* versions used so far
    lost,      \* files whose last index update failed, died with its worker,
               \* or was left out by a scan that could not read the file
    tried      \* workers that have had their bootstrap attempt

vars == <<disk, node, index, complete, run, logs, version, lost, tried>>
cache == <<disk, node, version>>   \* what nginx itself keeps
history == <<logs, lost>>

NoContent == [v |-> 0, tags |-> {}, fresh |-> FALSE]
NoNode == [exists |-> FALSE, fresh |-> FALSE]
Absent == [present |-> FALSE, tags |-> {}]
Idle == [pc |-> "idle"]

OnDisk(p) == disk[p].v > 0

(* The node of a path, looked up by the key in the file name, and that node  *)
(* once it is marked as deleted.                                             *)
Lookup(p) == node[p].exists
MarkNodeDeleted(p) == [node EXCEPT ![p] = NoNode]

(* Files of an earlier life of the server, known to the cache loader.  The   *)
(* index starts empty unless it has been bootstrapped.                       *)
Init ==
    /\ disk \in {d \in [Paths -> {NoContent} \cup
                         [v : {1}, tags : SUBSET Tags, fresh : {TRUE}]] :
                   \A p \in Paths : d[p].v > 0 => d[p].tags \in TagsFor[p]}
    /\ node = [p \in Paths |-> [exists |-> OnDisk(p), fresh |-> OnDisk(p)]]
    /\ index = [p \in Paths |-> IF Ready /\ OnDisk(p)
                               THEN [present |-> TRUE, tags |-> disk[p].tags]
                               ELSE Absent]
    /\ complete = Ready
    /\ run = [w \in Workers |-> Idle]
    /\ logs = {}
    /\ version = 1
    /\ lost = {}
    /\ tried = {}

-----------------------------------------------------------------------------
(* Serving: nginx core, and the module's header filter and log handler. *)

(* ngx_http_file_cache_update: the finished temporary file is renamed.  The  *)
(* request missed, or bypassed the cache, some time ago.                     *)
Rename(w, p, T) ==
    /\ run[w] = Idle
    /\ version < MaxVersion
    /\ version' = version + 1
    /\ disk' = [disk EXCEPT ![p] = [v |-> version + 1, tags |-> T, fresh |-> TRUE]]
    /\ run' = [run EXCEPT ![w] = [pc |-> "node", path |-> p, tags |-> T]]
    /\ UNCHANGED <<node, index, complete, history, tried>>

(* ... and the node updated under the zone's mutex.  The header filter has   *)
(* stashed the tags of the response for the log phase.                       *)
NodeUpdate(w) ==
    /\ run[w].pc = "node"
    /\ node' = [node EXCEPT ![run[w].path] = [exists |-> TRUE, fresh |-> TRUE]]
    /\ logs' = logs \cup {[w |-> w, path |-> run[w].path, tags |-> run[w].tags]}
    /\ run' = [run EXCEPT ![w] = Idle]
    /\ UNCHANGED <<disk, index, complete, version, lost, tried>>

(* A cache hit: u->cacheable is set, so the header filter stashes the tags   *)
(* of the stored response and the log phase will write them again.           *)
Hit(w, p) ==
    /\ HitsLogged
    /\ run[w] = Idle
    /\ OnDisk(p) /\ node[p].exists /\ disk[p].fresh
    /\ logs' = logs \cup {[w |-> w, path |-> p, tags |-> disk[p].tags]}
    /\ UNCHANGED <<cache, index, complete, run, lost, tried>>

(* A response that is not stored (bypass, uncacheable status): its cache     *)
(* status is not HIT, so the log handler recovers its tags and writes them.  *)
NotStored(w, p, T) ==
    /\ Uncached
    /\ run[w] = Idle
    /\ logs' = logs \cup {[w |-> w, path |-> p, tags |-> T]}
    /\ UNCHANGED <<cache, index, complete, run, lost, tried>>

(* index_log_handler: upsert; a failed allocation loses the old entry too.   *)
LogHandler(l) ==
    /\ l \in logs
    /\ run[l.w] = Idle
    /\ logs' = logs \ {l}
    /\ \/ /\ index' = [index EXCEPT ![l.path] = [present |-> TRUE, tags |-> l.tags]]
          /\ lost' = lost \ {l.path}
       \/ /\ "alloc" \in Faults
          /\ index' = [index EXCEPT ![l.path] = Absent]
          /\ lost' = lost \cup {l.path}
    /\ UNCHANGED <<cache, complete, run, tried>>

(* The cache manager drops a file; it does not know of the index. *)
Evict(p) ==
    /\ "evict" \in Faults
    /\ OnDisk(p) /\ node[p].exists
    /\ disk' = [disk EXCEPT ![p] = NoContent]
    /\ node' = [node EXCEPT ![p] = NoNode]
    /\ UNCHANGED <<index, complete, run, history, version, tried>>

-----------------------------------------------------------------------------
(* Bootstrap of the zone: scan_recursive, a process_file per file. *)

(* A worker tries once: try_bootstrap_zones finds the zone not complete. *)
ScanStart(w) ==
    /\ run[w] = Idle
    /\ ~complete /\ w \notin tried
    /\ tried' = tried \cup {w}
    /\ run' = [run EXCEPT ![w] = [pc |-> "scan", todo |-> Paths]]
    /\ UNCHANGED <<cache, index, complete, history>>

(* readdir: a path that has no file at that moment is not seen.  A           *)
(* subdirectory that cannot be opened, or read to its end, is passed over    *)
(* with its files, and the scan goes on.                                     *)
ScanEntry(w) ==
    /\ run[w].pc = "scan"
    /\ \E p \in run[w].todo :
         LET rest == run[w].todo \ {p} IN
         \/ /\ run' = [run EXCEPT ![w] =
                         IF OnDisk(p)
                         THEN [pc |-> "entry", todo |-> rest, path |-> p]
                         ELSE [pc |-> "scan", todo |-> rest]]
            /\ lost' = lost
         \/ /\ "read" \in Faults
            /\ run' = [run EXCEPT ![w] = [pc |-> "scan", todo |-> rest]]
            /\ lost' = IF OnDisk(p) /\ ~index[p].present THEN lost \cup {p} ELSE lost
    /\ UNCHANGED <<cache, index, complete, logs, tried>>

(* parse_file, without any lock: what it read is used in the next step.  It  *)
(* may fail on a file that is there (open, read, memory).                    *)
ScanParse(w) ==
    /\ run[w].pc = "entry"
    /\ \E got \in {"file", "nothing", "error"} :
         LET p == run[w].path IN
         /\ got = "nothing" <=> ~OnDisk(p)
         /\ got = "error" => "read" \in Faults
         /\ run' = [run EXCEPT ![w] =
                      [pc |-> "parsed", todo |-> run[w].todo, path |-> p,
                       got |-> got, tags |-> disk[p].tags]]
    /\ UNCHANGED <<cache, index, complete, history, tried>>

(* Upsert what was parsed; the entry of a file that could not be read is     *)
(* deleted, whatever the reason, and the scan goes on.  A failed upsert ends *)
(* the scan, and the worker will not try again.                              *)
ScanStore(w) ==
    /\ run[w].pc = "parsed"
    /\ LET h == run[w] IN
       \/ /\ h.got = "file"
          /\ index' = [index EXCEPT ![h.path] = [present |-> TRUE, tags |-> h.tags]]
          /\ lost' = lost \ {h.path}
          /\ run' = [run EXCEPT ![w] = [pc |-> "scan", todo |-> h.todo]]
       \/ /\ h.got # "file"
          /\ index' = [index EXCEPT ![h.path] = Absent]
          /\ lost' = IF h.got = "error" THEN lost \cup {h.path} ELSE lost
          /\ run' = [run EXCEPT ![w] = [pc |-> "scan", todo |-> h.todo]]
       \/ /\ "alloc" \in Faults /\ h.got = "file"
          /\ index' = [index EXCEPT ![h.path] = Absent]
          /\ lost' = lost \cup {h.path}
          /\ run' = [run EXCEPT ![w] = Idle]
    /\ UNCHANGED <<cache, complete, logs, tried>>

(* bootstrap_zone: the whole tree has been walked, publish the zone. *)
ScanDone(w) ==
    /\ run[w].pc = "scan" /\ run[w].todo = {}
    /\ complete' = TRUE
    /\ run' = [run EXCEPT ![w] = Idle]
    /\ UNCHANGED <<cache, index, history, tried>>

-----------------------------------------------------------------------------
(* Purge handlers.  A handler is a record: the request, the paths it still   *)
(* has to visit (a copy, made when it collected them), the path it is at,    *)
(* the entries counted so far, the result.  snap, want and did are history:  *)
(* the versions of the collected files, the versions of the settled files    *)
(* the request is about, and the versions it really removed or expired.      *)

(* Nothing is under way about the path, and the last attempt to index it has *)
(* not failed.                                                               *)
Settled(p) ==
    /\ \A l \in logs : l.path # p
    /\ \A w \in Workers : run[w].pc = "node" => run[w].path # p
    /\ p \notin lost

About(req, p) ==
    CASE req.kind = "tag" -> disk[p].tags \cap req.arg # {}
      [] req.kind = "exact" -> KeyOf[p] = KeyOf[req.arg]
      [] req.kind = "wild" -> KeyOf[p] \in IndexMatch[req.arg]
      [] req.kind = "all" -> TRUE

Versions(S) == {<<p, disk[p].v>> : p \in S}

Handler(req, pc, todo) ==
    [pc |-> pc, req |-> req, todo |-> todo, phase |-> "index",
     path |-> IF req.kind = "exact" THEN req.arg ELSE NoPath, rc |-> "none", purged |-> 0,
     snap |-> Versions({p \in todo : OnDisk(p)}),
     want |-> Versions({p \in Paths : OnDisk(p) /\ Settled(p) /\ About(req, p)}),
     did |-> {}]

Become(w, h) == run' = [run EXCEPT ![w] = h]

Finish(h, rc) == [h EXCEPT !.pc = "done", !.rc = rc]

(* Mutant: the state of the zone is not asked for. *)
TagPurgeAnyway(w, req) ==
    /\ run[w] = Idle /\ req.kind = "tag"
    /\ Become(w, Handler(req, "next",
                         {p \in Paths : index[p].tags \cap req.arg # {}}))
    /\ UNCHANGED <<cache, index, complete, history, tried>>

(* cache_index_purge: decline when not ready, else collect by tag. *)
TagPurge(w, req) ==
    /\ run[w] = Idle /\ req.kind = "tag"
    /\ LET todo == {p \in Paths : index[p].tags \cap req.arg # {}}
           h == Handler(req, "next", todo)
       IN  Become(w, IF complete THEN h ELSE Finish(h, "NOT_READY"))
    /\ UNCHANGED <<cache, index, complete, history, tried>>

(* cache_pilot_partial: collect by prefix, whatever the state of the zone.   *)
(* If that fails, the index counts as empty.                                 *)
WildPurge(w, req) ==
    /\ run[w] = Idle /\ req.kind = "wild"
    /\ LET todo == {p \in Paths : /\ index[p].present
                                  /\ KeyOf[p] \in IndexMatch[req.arg]}
       IN  \/ Become(w, Handler(req, "next", todo))
           \/ "collect" \in Faults /\ Become(w, Handler(req, "next", {}))
    /\ UNCHANGED <<cache, index, complete, history, tried>>

(* cache_pilot_all: walk the tree. *)
AllPurge(w, req) ==
    /\ run[w] = Idle /\ req.kind = "all"
    /\ Become(w, [Handler(req, "next", Paths) EXCEPT !.phase = "walk"])
    /\ UNCHANGED <<cache, index, complete, history, tried>>

(* ngx_http_file_cache_open resolves the key to one file, or to none. *)
ExactOpen(w, req) ==
    /\ run[w] = Idle /\ req.kind = "exact"
    /\ LET h == Handler(req, "opened", {}) IN
       Become(w, IF OnDisk(req.arg) /\ Lookup(req.arg) THEN h
                 ELSE Finish(h, "NOT_FOUND"))
    /\ UNCHANGED <<cache, index, complete, history, tried>>

-----------------------------------------------------------------------------
(* by_path on one collected or walked path, and what each kind of purge does *)
(* with the result.                                                          *)

(* Does the handler drop the index entry of a path that it purged (ok), or   *)
(* that turned out to have no file?                                          *)
DropsEntry(h, ok) ==
    /\ h.phase = "index"
    /\ ~h.req.soft \/ (h.req.kind = "tag" /\ ~ok)

Purged(h) ==
    [h EXCEPT !.purged = @ + 1,
              !.did = @ \cup {<<h.path, disk[h.path].v>>},
              !.pc = IF DropsEntry(h, TRUE) THEN "drop" ELSE "next"]

(* Mutant: a path without a file counts. *)
DeclinedCounts(h) ==
    [h EXCEPT !.pc = IF DropsEntry(h, FALSE) THEN "drop" ELSE "next",
              !.purged = @ + 1]

Declined(h) == [h EXCEPT !.pc = IF DropsEntry(h, FALSE) THEN "drop" ELSE "next"]

(* Mutant: an error on one path is passed over. *)
FailedGoesOn(h) == [h EXCEPT !.pc = "next"]

(* An error ends an indexed purge; ngx_walk_tree stops for NGX_ABORT only.   *)
Failed(h) == IF h.phase = "index" THEN Finish(h, "ERROR") ELSE [h EXCEPT !.pc = "next"]

(* Mutant: the loop does not advance past a path it has visited. *)
VisitStays(w) ==
    /\ run[w].pc = "next"
    /\ \E p \in run[w].todo :
          Become(w, [run[w] EXCEPT !.path = p,
                                   !.pc = IF run[w].req.soft THEN "header" ELSE "stat"])
    /\ UNCHANGED <<cache, index, complete, history, tried>>

(* The next collected path; or, walking, the next file of the tree whose     *)
(* stored key matches.                                                       *)
Visit(w) ==
    /\ run[w].pc = "next"
    /\ LET h == run[w] IN
       \E p \in h.todo :
          LET g == [h EXCEPT !.todo = @ \ {p}]
              seen == \/ h.phase = "index"
                      \/ OnDisk(p) /\ (\/ h.req.kind = "all"
                                       \/ KeyOf[p] \in WalkMatch[h.req.arg])
          IN  Become(w, IF seen
                        THEN [g EXCEPT !.path = p,
                                       !.pc = IF h.req.soft THEN "header" ELSE "stat"]
                        ELSE g)
    /\ UNCHANGED <<cache, index, complete, history, tried>>

(* Mutant: the first path without a file ends the loop. *)
StatEnds(w) ==
    /\ run[w].pc = "stat"
    /\ LET h == run[w] IN
       Become(w, IF OnDisk(h.path) THEN [h EXCEPT !.pc = "mark"] ELSE Finish(h, "OK"))
    /\ UNCHANGED <<cache, index, complete, history, tried>>

(* delete_cache_file, in three steps: ngx_file_info ... *)
Stat(w) ==
    /\ run[w].pc = "stat"
    /\ LET h == run[w] IN
       \/ Become(w, IF OnDisk(h.path) THEN [h EXCEPT !.pc = "mark"] ELSE Declined(h))
       \/ "unlink" \in Faults /\ Become(w, Failed(h))
    /\ UNCHANGED <<cache, index, complete, history, tried>>

(* ... mark_node_deleted under the mutex ... *)
Mark(w) ==
    /\ run[w].pc = "mark"
    /\ LET p == run[w].path IN node' = IF Lookup(p) THEN MarkNodeDeleted(p) ELSE node
    /\ Become(w, [run[w] EXCEPT !.pc = "unlink"])
    /\ UNCHANGED <<disk, version, index, complete, history, tried>>

(* ... and the unlink, of whatever file is there by now. *)
Unlink(w) ==
    /\ run[w].pc = "unlink"
    /\ LET h == run[w] IN
       \/ /\ OnDisk(h.path)
          /\ disk' = [disk EXCEPT ![h.path] = NoContent]
          /\ Become(w, Purged(h))
       \/ /\ ~OnDisk(h.path)
          /\ Become(w, Declined(h))
          /\ UNCHANGED disk
       \/ /\ "unlink" \in Faults
          /\ Become(w, Failed(h))
          /\ UNCHANGED disk
    /\ UNCHANGED <<node, version, index, complete, history, tried>>

(* soft_path: soft_header rewrites valid_sec in the file ... *)
SoftHeader(w) ==
    /\ run[w].pc = "header"
    /\ LET h == run[w] IN
       \/ /\ OnDisk(h.path)
          /\ disk' = [disk EXCEPT ![h.path].fresh = FALSE]
          /\ Become(w, [Purged(h) EXCEPT !.pc = "expire"])
       \/ /\ ~OnDisk(h.path)
          /\ Become(w, Declined(h))
          /\ UNCHANGED disk
       \/ /\ "header" \in Faults
          /\ Become(w, Failed(h))
          /\ UNCHANGED disk
    /\ UNCHANGED <<node, version, index, complete, history, tried>>

(* Mutant: a soft purge drops the entry of a path that it has expired. *)
SoftNodeDrops(w) ==
    /\ run[w].pc = "expire"
    /\ LET p == run[w].path IN
       node' = IF Lookup(p) THEN [node EXCEPT ![p].fresh = FALSE] ELSE node
    /\ Become(w, [run[w] EXCEPT !.pc = IF run[w].phase = "index" THEN "drop" ELSE "next"])
    /\ UNCHANGED <<disk, version, index, complete, history, tried>>

(* ... and then the node is expired under the mutex, if it exists. *)
SoftNode(w) ==
    /\ run[w].pc = "expire"
    /\ LET p == run[w].path IN
       node' = IF Lookup(p) THEN [node EXCEPT ![p].fresh = FALSE] ELSE node
    /\ Become(w, [run[w] EXCEPT !.pc = "next"])
    /\ UNCHANGED <<disk, version, index, complete, history, tried>>

(* index_store_delete_file *)
DropEntry(w) ==
    /\ run[w].pc = "drop"
    /\ index' = [index EXCEPT ![run[w].path] = Absent]
    /\ Become(w, [run[w] EXCEPT !.pc = "next"])
    /\ UNCHANGED <<cache, complete, history, tried>>

(* All paths visited.  A wildcard purge that purged nothing through the      *)
(* index walks the tree; a tag purge that purged nothing is not found.       *)
Exhausted(w) ==
    /\ run[w].pc = "next" /\ run[w].todo = {}
    /\ LET h == run[w] IN
       Become(w,
         CASE h.req.kind = "wild" /\ h.phase = "index" /\ h.purged = 0 ->
                [h EXCEPT !.phase = "walk", !.todo = Paths, !.snap = @ \cup
                   Versions({p \in Paths : OnDisk(p) /\
                                            KeyOf[p] \in WalkMatch[h.req.arg]})]
           [] h.req.kind = "tag" /\ h.purged = 0 -> Finish(h, "NOT_FOUND")
           [] OTHER -> Finish(h, "OK"))
    /\ UNCHANGED <<cache, index, complete, history, tried>>

-----------------------------------------------------------------------------
(* exact_purge and exact_purge_soft, from the opened file to the fan-out. *)

(* Hard: delete_opened_file marks the node ... *)
OpenedMark(w) ==
    /\ run[w].pc = "opened" /\ ~run[w].req.soft
    /\ LET h == run[w] IN
       IF Lookup(h.path)
       THEN /\ node' = MarkNodeDeleted(h.path)
            /\ Become(w, [h EXCEPT !.pc = "opened_unlink"])
       ELSE Become(w, Finish(h, "NOT_FOUND")) /\ UNCHANGED node
    /\ UNCHANGED <<disk, version, index, complete, history, tried>>

(* ... and unlinks; a failure is logged and counts as purged all the same. *)
OpenedUnlink(w) ==
    /\ run[w].pc = "opened_unlink"
    /\ LET h == run[w] IN
       \/ /\ OnDisk(h.path)
          /\ disk' = [disk EXCEPT ![h.path] = NoContent]
          /\ Become(w, [Purged(h) EXCEPT !.pc = "own_entry"])
       \/ /\ ~OnDisk(h.path) \/ "unlink" \in Faults
          /\ Become(w, [h EXCEPT !.pc = "own_entry", !.purged = 1])
          /\ UNCHANGED disk
    /\ UNCHANGED <<node, version, index, complete, history, tried>>

(* The key text, or the paths that have it, cannot be had: the purge says    *)
(* 200 for the resolved file alone.                                          *)
WithoutFanout(h) == [h EXCEPT !.pc = "done", !.rc = "OK", !.phase = "own"]

(* delete_index_path of the resolved file, once the key text is built. *)
OwnEntry(w) ==
    /\ run[w].pc = "own_entry"
    /\ \/ /\ index' = [index EXCEPT ![run[w].path] = Absent]
          /\ Become(w, [run[w] EXCEPT !.pc = "fanout"])
       \/ /\ "fanout" \in Faults
          /\ Become(w, WithoutFanout(run[w]))
          /\ UNCHANGED index
    /\ UNCHANGED <<cache, complete, history, tried>>

(* Soft: the node must exist; then the header, then the node. *)
OpenedSoft(w) ==
    /\ run[w].pc = "opened" /\ run[w].req.soft
    /\ LET h == run[w] IN
       Become(w, IF Lookup(h.path) THEN [h EXCEPT !.pc = "opened_header"]
                 ELSE Finish(h, "NOT_FOUND"))
    /\ UNCHANGED <<cache, index, complete, history, tried>>

(* Mutant: the node is expired although the header could not be written. *)
OpenedHeaderGoesOn(w) ==
    /\ run[w].pc = "opened_header"
    /\ LET h == run[w] IN
       \/ /\ OnDisk(h.path)
          /\ disk' = [disk EXCEPT ![h.path].fresh = FALSE]
          /\ Become(w, [Purged(h) EXCEPT !.pc = "opened_expire"])
       \/ /\ ~OnDisk(h.path) \/ "header" \in Faults
          /\ Become(w, [h EXCEPT !.pc = "opened_expire"])
          /\ UNCHANGED disk
    /\ UNCHANGED <<node, version, index, complete, history, tried>>

OpenedHeader(w) ==
    /\ run[w].pc = "opened_header"
    /\ LET h == run[w] IN
       \/ /\ OnDisk(h.path)
          /\ disk' = [disk EXCEPT ![h.path].fresh = FALSE]
          /\ Become(w, [Purged(h) EXCEPT !.pc = "opened_expire"])
       \/ /\ ~OnDisk(h.path)
          /\ Become(w, Finish(h, "NOT_FOUND"))
          /\ UNCHANGED disk
       \/ /\ "header" \in Faults
          /\ Become(w, Finish(h, "ERROR"))
          /\ UNCHANGED disk
    /\ UNCHANGED <<node, version, index, complete, history, tried>>

OpenedExpire(w) ==
    /\ run[w].pc = "opened_expire"
    /\ node' = [node EXCEPT ![run[w].path].fresh = FALSE]
    /\ Become(w, [run[w] EXCEPT !.pc = "fanout"])
    /\ UNCHANGED <<disk, version, index, complete, history, tried>>

(* The entries that have the key text of the request's own cache key.  The   *)
(* index is configured, so key_index_ready does not decline: it does not ask *)
(* whether the zone is complete.                                             *)
SameKey(p) == {q \in Paths : index[q].present /\ KeyOf[q] = KeyOf[p]}

(* Mutant: only the resolved path is collected. *)
FanoutOwnPath(w) ==
    /\ run[w].pc = "fanout"
    /\ LET h == run[w] IN
       Become(w, [h EXCEPT !.pc = "next", !.todo = {h.path}])
    /\ UNCHANGED <<cache, index, complete, history, tried>>

(* Collect by exact key: hard, without the entry just dropped; soft, with it. *)
Fanout(w) ==
    /\ run[w].pc = "fanout"
    /\ LET h == run[w]
           todo == SameKey(h.path)
       IN  \/ Become(w, [h EXCEPT !.pc = "next", !.todo = todo,
                                  !.snap = Versions({p \in todo : OnDisk(p)})])
           \/ "fanout" \in Faults /\ Become(w, WithoutFanout(h))
    /\ UNCHANGED <<cache, index, complete, history, tried>>

(* Mutant: every purge request reaches the log handler with a file name. *)
RespondAlwaysLogs(w) ==
    /\ run[w].pc = "done"
    /\ logs' = logs \cup {[w |-> w, path |-> run[w].path, tags |-> {}]}
    /\ Become(w, Idle)
    /\ UNCHANGED <<cache, index, complete, lost, tried>>

(* The response is sent.  Only an exact purge has a cache file name, so only *)
(* its own log phase writes the index: the resolved path, without tags.      *)
Respond(w) ==
    /\ run[w].pc = "done"
    /\ LET h == run[w] IN
       logs' = IF h.req.kind = "exact"
               THEN logs \cup {[w |-> w, path |-> h.req.arg, tags |-> {}]}
               ELSE logs
    /\ Become(w, Idle)
    /\ UNCHANGED <<cache, index, complete, lost, tried>>

(* The worker dies: its handler and its requests are gone, the shared memory *)
(* and the files stay.  A worker that replaces it may bootstrap.             *)
Crash(w) ==
    /\ "crash" \in Faults
    /\ run[w] # Idle \/ \E l \in logs : l.w = w
    /\ logs' = {l \in logs : l.w # w}
    /\ lost' = lost \cup {l.path : l \in {m \in logs : m.w = w}}
                    \cup (IF run[w].pc = "node" THEN {run[w].path} ELSE {})
    /\ Become(w, Idle)
    /\ tried' = tried \ {w}
    /\ UNCHANGED <<cache, index, complete>>

-----------------------------------------------------------------------------
HandlerStep(w) ==
    \/ NodeUpdate(w)
    \/ ScanEntry(w) \/ ScanParse(w) \/ ScanStore(w) \/ ScanDone(w)
    \/ Visit(w) \/ Stat(w) \/ Mark(w) \/ Unlink(w)
    \/ SoftHeader(w) \/ SoftNode(w) \/ DropEntry(w) \/ Exhausted(w)
    \/ OpenedMark(w) \/ OpenedUnlink(w) \/ OwnEntry(w)
    \/ OpenedSoft(w) \/ OpenedHeader(w) \/ OpenedExpire(w) \/ Fanout(w)
    \/ Respond(w)

Next ==
    \/ \E w \in Workers :
         \/ \E p \in Paths : \E T \in TagsFor[p] : Rename(w, p, T)
         \/ \E p \in Paths : Hit(w, p)
         \/ \E p \in Paths : \E T \in TagsFor[p] : NotStored(w, p, T)
         \/ \E req \in Purges : \/ TagPurge(w, req) \/ WildPurge(w, req)
                                \/ AllPurge(w, req) \/ ExactOpen(w, req)
         \/ ScanStart(w)
         \/ HandlerStep(w)
         \/ Crash(w)
    \/ \E l \in logs : LogHandler(l)
    \/ \E p \in Paths : Evict(p)

Spec == Init /\ [][Next]_vars

(* A handler is straight-line code on the worker's stack: it goes on.        *)
FairSpec == Spec /\ \A w \in Workers : WF_vars(HandlerStep(w))

-----------------------------------------------------------------------------
(* Properties. *)

Contents == [v : 0..MaxVersion, tags : SUBSET Tags, fresh : BOOLEAN]

(* A worker is in its event loop, stores a file, scans, or purges. *)
Storing == [pc : {"node"}, path : Paths, tags : SUBSET Tags]
Scanning ==
    [pc : {"scan"}, todo : SUBSET Paths]
    \cup [pc : {"entry"}, todo : SUBSET Paths, path : Paths]
    \cup [pc : {"parsed"}, todo : SUBSET Paths, path : Paths,
          got : {"file", "nothing", "error"}, tags : SUBSET Tags]

OnPath == {"stat", "mark", "unlink", "header", "expire", "drop"}
OnOpened == {"opened", "opened_unlink", "own_entry", "opened_header", "opened_expire", "fanout"}

Purging ==
    [pc : OnPath \cup OnOpened \cup {"next", "done"}, req : Purges, todo : SUBSET Paths,
     phase : {"index", "walk", "own"}, path : Paths \cup {NoPath},
     rc : {"none", "OK", "NOT_FOUND", "NOT_READY", "ERROR"}, purged : Nat,
     snap : SUBSET (Paths \X (1..MaxVersion)), want : SUBSET (Paths \X (1..MaxVersion)),
     did : SUBSET (Paths \X (1..MaxVersion))]

(* Files, nodes, entries, counters and handlers keep their shape. *)
TypeOK ==
    /\ disk \in [Paths -> Contents]
    /\ node \in [Paths -> [exists : BOOLEAN, fresh : BOOLEAN]]
    /\ index \in [Paths -> [present : BOOLEAN, tags : SUBSET Tags]]
    /\ complete \in BOOLEAN
    /\ run \in [Workers -> {Idle} \cup Storing \cup Scanning \cup Purging]
    /\ \A w \in Workers : run[w].pc \in OnPath \cup OnOpened => run[w].path \in Paths
    /\ logs \subseteq [w : Workers, path : Paths, tags : SUBSET Tags]
    /\ version \in 1..MaxVersion
    /\ lost \subseteq Paths
    /\ tried \subseteq Workers

(* The content a request was after is no longer served as fresh: its file is *)
(* gone, has been replaced by a newer one or, after a soft purge, expired.   *)
Gone(h, pv) ==
    \/ disk[pv[1]].v # pv[2]
    \/ h.req.soft /\ ~disk[pv[1]].fresh

Answered(h, kinds, rcs) == h.pc = "done" /\ h.req.kind \in kinds /\ h.rc \in rcs

(* When a purge answers 200, every version it collected from the index, or   *)
(* found on its walk, is gone, whoever re-created, purged or evicted files   *)
(* between its steps (by_path; the loops over the collected paths).          *)
CollectedGone ==
    \A w \in Workers :
        Answered(run[w], Kinds, {"OK", "NOT_FOUND"}) =>
            \A pv \in run[w].snap : Gone(run[w], pv)

(* A file is purged if it carries any of the supplied tags, when nothing     *)
(* about that file was still under way as the tag purge started and the last *)
(* attempt to index it, by its log phase or by the scan, had not failed.     *)
TagPurgeComplete ==
    \A w \in Workers :
        Answered(run[w], {"tag"}, {"OK", "NOT_FOUND"}) =>
            \A pv \in run[w].want : Gone(run[w], pv)

(* A wildcard purge reaches every file whose key has the prefix. *)
WildPurgeComplete ==
    \A w \in Workers :
        Answered(run[w], {"wild"}, {"OK", "NOT_FOUND"}) =>
            \A pv \in run[w].want : Gone(run[w], pv)

(* An exact purge that found its file disposes of it and, unless it could    *)
(* not collect them, of every variant of the key that is in the index.       *)
ExactFanoutComplete ==
    \A w \in Workers :
        Answered(run[w], {"exact"}, {"OK"}) =>
            \A pv \in run[w].want :
                \/ Gone(run[w], pv)
                \/ run[w].phase = "own" /\ pv[1] # run[w].path

(* An exact purge that answers 200 reaches every variant of the key, also    *)
(* when the variant its own headers select is not cached.                    *)
ExactPurgeComplete ==
    \A w \in Workers :
        Answered(run[w], {"exact"}, {"OK", "NOT_FOUND"}) =>
            \A pv \in run[w].want : Gone(run[w], pv)

(* The purged counter of a response is the number of entries the request     *)
(* really removed or expired.                                                *)
CountsEntries ==
    \A w \in Workers :
        Answered(run[w], Kinds, {"OK"}) =>
            run[w].purged = Cardinality(run[w].did)

(* A bootstrapped index knows every settled cache file by all of its tags:   *)
(* purges, scans and log phases may leave entries without a file, but a file *)
(* is without its entry only if the last attempt to index it failed, and     *)
(* until it is served again (the zone is ready all the same).                *)
IndexCovers ==
    complete =>
        \A p \in Paths :
            OnDisk(p) /\ Settled(p) =>
                index[p].present /\ disk[p].tags \subseteq index[p].tags

(* Between handlers the node of a stored file and the header of the file     *)
(* agree on whether it is fresh: a soft purge expires both or neither, also  *)
(* when it cannot write the header.                                          *)
FreshnessAgrees ==
    (\A w \in Workers : run[w] = Idle) =>
        \A p \in Paths : OnDisk(p) /\ node[p].exists => disk[p].fresh = node[p].fresh

(* Once a hard purge is over, the index has no entry for a path whose file   *)
(* is gone.                                                                  *)
NoEntryWithoutFile ==
    (\A w \in Workers : run[w] = Idle) =>
        \A p \in Paths : Settled(p) /\ index[p].present => OnDisk(p)

(* Every handler gets back to the event loop, whatever the others do to the  *)
(* files it is visiting.                                                     *)
HandlersFinish == \A w \in Workers : run[w].pc # "idle" ~> run[w].pc = "idle"

=============================================================================
