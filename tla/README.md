# A TLA+ model of ngx_cache_pilot

ngx_cache_pilot is an nginx module that purges cached responses by exact key,
by key prefix, by tag, or all at once; hard (delete the file) or soft (expire
it). An index in shared memory knows which cache file has which key and tags.
This directory models the parts of the module in which several processes,
several steps or several structures have to agree, checks them with TLC on small
instances, and proves their main safety properties with TLAPS for every instance.

File names below are relative to `src/src/` of the repository.

## 1. Inventory

| Component | State it keeps | Operations | Code |
|---|---|---|---|
| index store | per zone in shared memory: `path_index`, `key_index`, `tag_index` (trees) with queues of files, back pointers, zone state, `alloc_failures` | upsert, delete, collect by tags / exact key / prefix, get and set the zone state | `ngx_cache_pilot_index_store.c` |
| header filter and log handler | tags stashed in the request until its log phase | stash, upsert | `ngx_cache_pilot_index_runtime.c` |
| bootstrap scan | position in the directory tree | scan, parse, upsert or delete, publish | `..._index_runtime.c`, `..._index_store.c` |
| bootstrap scheduling | worker-local copy of the zone state, `bootstrap_ev`, `cold` of the zone | pass at start, timer, defer, retry | `..._index_runtime.c` |
| tag purge | list of paths (a copy), counter | collect, dispose of each path, delete its entry | `ngx_cache_pilot_index.c` |
| exact purge | opened cache file and node | delete or expire the file, fan out to the variants | `ngx_cache_pilot_module.c` |
| wildcard purge | list of paths, or the tree walk; a thread-pool task with a timer | index path, walk, completion | `..._module.c` |
| purge all | tree walk | walk | `..._module.c` |
| file and node helpers | cache file, node in nginx's zone | `delete_cache_file`, `delete_opened_file`, `soft_header`, `soft_path` | `..._module.c` |
| tag tokenizer | array of tags | split, add if new, limit | `..._index_store.c`, `..._index.c`, `..._index_runtime.c` |
| updating flag | `updating` and `lock_time` of a node, `r->cache->updating` | taken by an open, given back by `release_updating` or the end of the request | `..._module.c` and nginx |
| dispatch and responses | `handled`, the request's context (counts, path, decline reason) | `access_handler`, `protocol_handler`, `dispatch_special`, `handler`, re-entry after a read | `..._module.c` |
| metrics and statistics | counters in a zone of their own | increments; a snapshot per zone | `ngx_cache_pilot_metrics.c` |
| configuration | a record per block; `pmcf->zones` | parse, merge, attach, register | `..._module.c`, `..._index.c` |
| per-protocol glue | none | accessors | `..._module.c` |

How they interact. Workers are processes; each runs an event loop and one
handler at a time. They share three things: the cache files, nginx's cache zone
(nodes, one mutex) and the index zone (one mutex). No lock spans two of the
three. The cache manager and the cache loader of nginx work on the first two and
know nothing of the index. A response is stored and its node updated by nginx
core; the module indexes it only in the log phase, when the client has been
served. A purge reads the index under the index mutex, copies the paths, and then
visits file, node and index entry of each path in separate critical sections.

What is hard, in that order: steps of two workers on one path (a page that is
cached again while it is being purged); the order of log phases; an index that is
incomplete or not yet complete; an operation that fails half way (allocation,
unlink, header write); a worker that dies; a task in a thread that outlives its
client; a timer that fires first; two generations of workers after a reload; a
request that is classified twice; directives inherited over several blocks.
`PROJECT.json` lists each of them as a hazard
at its line, with the properties that watch it.

What makes each component correct: the store is a map, whatever fails inside it
(`Consistent`, `ImplementsMap`); a ready index covers every file that nothing is
under way about and whose last indexing did not fail (`IndexCovers`), so tag
purges are complete for these (`TagPurgeComplete`); purges dispose of what they collected and count what they
did (`CollectedGone`, `CountsEntries`); key purges reach every file of the key or
prefix (`ExactFanoutComplete`, `WildPurgeComplete`); soft purges expire file and
node or neither (`FreshnessAgrees`); handlers, bootstraps and walks come to an
end (`HandlersFinish`, `EveryZoneReady`, `EveryWalkEnds`), and a worker that has
stopped waiting has left no zone behind (`NoZoneLeftBehind`); memory outlives its
users (`MemoryOutlivesTask`); tags are the tokens of the headers
(`ReadsTheTokens`), the same to the scan and the log phase (`PlainTagsAreStored`); the updating flag always has an owner and is given back
(`FlagHasOwner`, `NoStall`), and soft purges do not let a herd through
(`SingleRefresh`); a zone that the statistics have called
ready does not decline a purge later (`PollThenPurge`); a purge is counted once and
reports what it did (`CountedOnce`, `ReportsWhatItDid`, `NothingWhenDeclined`); directives reach the
caches they are for and leave other requests alone (`PurgeReachesItsCache`,
`OneHeaderList`, `OrdinaryRequests`).

## 2. Modules

| Module | Models |
|---|---|
| `IndexMap` | abstract specification: what the store promises its callers |
| `IndexStore` | the store, one step per allocation of an upsert |
| `IndexStoreProofs` | theorems about `IndexStore`, and that it implements `IndexMap` |
| `CachePurge` | one cache zone: files, nodes, index, workers, purges, scan, log phases |
| `Bootstrap` | passes and timers of several workers over several zones and reloads, the statistics and the gate of tag purges |
| `UpdatingLock` | the updating flag of one node: GETs, exact purges, purges by path |
| `LocationConf` | merging and attaching the directives of nested blocks, registration of zones |
| `Dispatch` | extends `LocationConf` with one request through the configured location, and the counters |
| `PartialThread` | wildcard walks in a thread pool |
| `CachePurgeProofs` | theorems about `CachePurge` for any number of workers |
| `CachePurgeSerialProofs` | theorems about `CachePurge` where handlers do not overlap |
| `BootstrapProofs`, `DispatchProofs`, `PartialThreadProofs`, `TokensProofs`, `UpdatingLockProofs` | theorems about the modules they are named after |
| `Tokens` | reading tags from header lines |
| `MC...` | constants for TLC |

`CachePurge` uses the store at the level of `IndexMap`: an index call is one
step that commits, or fails and leaves the path unindexed. `IndexStore` is shown
to implement exactly that. `Bootstrap` and `CachePurge` share the scan:
`CachePurge` says what a scan writes, `Bootstrap` when it happens and to whom
it is known. `PartialThread` looks at the same walk as `CachePurge` from the
side of the request.

### IndexStore
`files`, `keyFiles` and `tagFiles` are the queues, `keyIndex` and `tagIndex` the
entries that exist in the trees, `file[p]` the record with its pointers. All
operations hold the slab mutex, so only the operation in `op` moves.
`UpsertBegin`, `UpsertAlloc`, `LinkExactKey`, `LinkTag`, `Rollback` and
`UpsertDone` are the parts of `shm_upsert_file_meta` between allocations; each
allocation may fail, at most `MaxFailures` times in a behaviour. `Normalize` is
`normalize_zone_state`. Strings, hashes and the balance of trees are left out, and
so is the second probe for files inserted under the older hash, which finds the
same file.

### CachePurge
`disk[p]` is the file of a path: a version (0: none), its tags, whether its
header says fresh. `node[p]` is nginx's node, `index[p]` the entry, `complete`
the zone's `bootstrap_complete`. `run[w]` is the handler a worker is in: a
record with a program counter and the handler's local variables; the places
where another process can get in are the boundaries of steps. `logs` holds the
requests that have yet to reach their log phase: in any order, each on its own
worker. `lost` remembers paths whose last index update failed, by the log phase or
the scan, or died with its worker: their files cannot be expected in the index. In a handler, `snap`, `want`
and `did` are history variables for the properties.

- Serving: `Rename` and `NodeUpdate` store a response (`Rename` is nginx core, the
  header filter's stash is part of `NodeUpdate`), `Hit` and `NotStored` are
  requests that reach the log phase without storing, `LogHandler` is the upsert.
- Scan: `ScanEntry` is readdir, `ScanParse` reads the file without a lock,
  `ScanStore` writes what was read. A subdirectory that cannot be opened is passed
  over with its files, and of a file that exists but cannot be read the entry is
  deleted; the scan goes on and the zone becomes ready (the fault `"read"`).
- `TagPurge`, `WildPurge`, `AllPurge`, `ExactOpen` start a purge. `Visit`, `Stat`,
  `Mark`, `Unlink`, `SoftHeader`, `SoftNode`, `DropEntry` dispose of one path.
  `Opened...`, `OwnEntry` and `Fanout` are the exact purge. `Exhausted` decides
  between an answer and the tree walk. `Respond` ends the request; an exact purge
  then has a log phase of its own, because `r->cache->file.name` is set.
- `Evict` and `Crash` are the cache manager and a worker's death.
- `Faults` names what may fail: `"alloc"`, `"read"`, `"unlink"` (stat and unlink),
  `"header"`, `"collect"` (a prefix purge then walks the tree), `"fanout"` (the key
  text of an exact purge or the paths that have it cannot be had: the purge answers
  for its own file), `"crash"` and `"evict"`. Two errors end a purge before it has touched anything, those of
  collecting by tags and of opening the cache; they are in `Dispatch` (`TagFails`,
  `ExactFails`) and left out here.

A request that cannot reach the index (index off, unknown zone) is not an input:
`key_index_ready` then declines and the purge has no index phase.

### Bootstrap
A process is a worker of a generation; `conf[n]` is the configuration of
generation `n`: the array `pmcf->zones`, an entry for every zone that is indexed,
with its tag headers, in the order in which `register_cache` has met them.
`cold[z]` is the loader's flag, `complete[z]` the shared state, `cached[p][z]`
the worker's copy, `pass[p]` the loop of `try_bootstrap_zones`; `built[z]` is a
history variable: the headers that the index of the zone was last built with,
`Off` if files may have been cached since without being indexed. `Reload` forks
the next generation over the same shared memory (`init_zone` with the old
context); old workers go on, with their timer, until they have none (`Exit`). A
failing pass is not repeated by its worker; a worker whose first pass fails stops
for good (nginx does not restart it), a crashed one is replaced. `Snapshot` is
the index part of `snapshot_zone`, `Gate` the checks of a tag purge. Both call
`get_zone_state` (`ZoneState`), which returns `NGX_OK` on every path
(`index_store.c:1294-1322`): the branches of its callers for a failure
(`metrics.c:130`, `index.c:243-246`) are never taken and have no counterpart.

### UpdatingLock
`node` is the node in nginx's zone with the freshness of its file, `req[r]` a
request with its `r->cache`. nginx's open is two steps (`Lookup` or `Miss`, then
`Read` after the file has been read without the mutex); whoever reads a stale file
while the flag is free takes it, a purge too. `DeleteOpened` is the hard exact
purge, `CheckExists` and `Expire` the soft one with its early returns, `FanOut` the
siblings, `Release` is `release_updating`, `Free` nginx's cleanup at the end of
the request. `PathHard` and `PathSoft` are the other purges coming by.

### LocationConf and Dispatch
`tree` is a configuration: the http block and what is nested in it down to a
location or an `if`, each a record of the directives written in it. `Chain` are
the `if`s up to their location, which share its pass and content handler. `conf` holds the
merged records; one step merges one block: `MergePlain` without a purge directive,
`Skip`, `Attach` or `Refuse` with one, the cases of `protocol_attach`. The
settings are merged as in `merge_loc_conf`, with its early return: the directives
of later protocols stay unmerged. `*_cache off` in a
nested block takes away an inherited cache. Then one request arrives in the location or
the block inside it. `PassOn`, `NoHandler` and `CacheGet` are `access_handler` and the head of
`protocol_handler`; `Special...` is `dispatch_special`; `Tag...`, `All...`,
`Partial...` and `Completion...` are the purges with the three outcomes of a path
(`PathPurged`, `PathGone`, `PathFails`); `Handler...`, `Open...` and `Exact...`
are the handler. `OwnAgain` is the visit of a soft exact purge to its own file, which
it has found among the files of the key: counted again, whether or not anything is
left to expire. What happens to files is in `CachePurge`, the thread in
`PartialThread`: here they give a number of entries or an error. `did` counts
the entries really deleted or expired (a hard exact purge whose unlink fails adds none), `oom` remembers that the tags could not be read.

### PartialThread
`count`, `blocked`, `terminated` and `aio` are the request's fields. The handler
of the task's event is called twice at most: by the timer (`TimedOut`) and for
the finished task (`Complete`). `Terminate`, `Close` and `Drop` are nginx core.

### Tokens
`reader` is one of the three callers of `extract_tokens`. Characters are
`Letters` with a folding function, and one separator for all five. A line is
reduced to: is its name wanted, is it a header, its value. Only the limit of 64
KiB on what the scan reads is left out: headers of a stored response fit.

## 3. Runs that pass

| Run | Shows | Bounds |
|---|---|---|
| `index_store` | the three indexes agree at each step, collects are exact, readers see a sane zone state, the store implements `IndexMap`, empty tag entries cost a failed allocation each | 2 paths, 2 keys, 2 tags, 2 times, 2 failures: enough for two files to share or not share entries, and for a rollback after each of the links |
| `one_worker` | from a cold start, with every fault, a ready index covers every file but those that something is under way about or whose last indexing failed, and tag purges are complete for the files it covers | 2 files with keys of their own, 3 versions: a file is stored, purged and stored again while the other is scanned |
| `two_workers` | purges dispose of what they collected and count exactly their own work, against another worker and the cache manager | 2 workers (symmetric), 2 files, 1 new version |
| `key_purges` | every handler returns to the event loop, exact purges fan out unless the files of the key cannot be collected, wildcard purges may rely on the index, soft purges keep node and header in agreement | 2 variants of one key, both matched by the prefix, 3 versions, all kinds of purge |
| `bootstrap` | no zone ready before it is warm; what was once reported ready is not declined later; every zone ready in every worker whose passes do not fail, and no zone left behind by a worker that has no timer set | 2 zones; a reload from 1 to 2 workers, which may drop a zone; 1 error, 1 crash |
| `updating_lock` | the flag is never without an owner, comes free again, and soft purges let one request at a time refresh | 3 requests, which may be a GET that refreshes, one that waits and a purge, over and over; 2 clock values, so that owners differ or coincide in `lock_time`; both of nginx's locks on |
| `dispatch` | directives take effect where they should, ordinary requests are left alone, purges are counted once and report what they did, an exact one possibly its own file once too often | 119 configurations: the directive at any of 4 levels, a cache switched off in a nested block, an `if` in an `if`, purge locations that lack something, lists of headers, other handlers; 2 protocols, 1 zone; up to 2 entries per purge |
| `partial_thread` | the request outlives the task, one answer, an end | 3 requests, 1 thread, queue of 1: one runs, one waits, one is refused |
| `tokens` | the tokenizer equals the definition of a token; fallback to the key only without tags; scan and log phase agree where tags are plain | 2 lines, values of up to 3 characters over 4, limit 2 |

The bounds are named constants: `MaxFailures`, `MaxVersion`, `MaxErrors`,
`MaxCrashes`, `MaxQueue`, `Threads`, `MaxTokens`, `MaxLength`, `MaxTime`,
`MaxEntries`, and the lengths of `Configs` and `Trees`. `MaxVersion` and the length
of `Configs` are the only ones that stop a behaviour from going on; the properties relate one purge
to the files at its start, which two or three versions of a file exercise.

What the passing runs exclude is as telling. `one_worker` has no exact purge,
because its log phase overwrites tags (`soft_exact_tags`), and a page keeps its
tags, because log phases are not ordered (section 5). `key_purges` has no failing
unlink, because an exact purge reports success for one (section 5), and no
crash, because a worker that dies between header and node leaves them apart.
`two_workers` has a zone that is ready, and neither exact purges nor completeness,
because of `purge_race`. `SingleRefresh` speaks of soft purges only: a hard one
deletes the file under the request that refreshes it, and the next one fetches it
too. `EveryZoneReady` and `PollThenPurge` hold over reloads, but what is ready need
not be current (`reload_ready`). In `dispatch`, `PurgeReachesItsCache` and
`OrdinaryRequests` are about configurations with one upstream protocol
(`OneProtocol`), and `CountedOnce` and `ReportsWhatItDid` about requests whose tags
could be read: section 5 has what happens otherwise.

Deadlock is checked in the runs of `IndexStore` and `CachePurge`. The other
specifications end: all zones ready, all requests freed, all lines read, the
request answered; `UpdatingLock` goes on for ever.

## 4. Runs that find a violation

- `purge_race` (`TagPurgeComplete`): worker 1 unlinks a file in a hard tag purge;
  worker 2 stores and indexes the page again; worker 1 deletes the index entry of
  the path, which is the fresh one. The next purge by that tag answers success
  and leaves the page. README of the repository, line 262: "a file is purged if
  it carries any of the supplied tags".
- `soft_exact_tags` (`IndexCovers`): the log phase of a soft exact purge upserts
  the resolved path without tags. Line 456: "Soft purges leave the index entry in
  place".
- `reload_ready` (`ReadyIsCurrent`): a zone is ready when the configuration is
  reloaded with another `cache_pilot_tag_headers`. `bootstrap_complete` survives,
  so the new workers scan nothing: the index holds the tags of the old headers
  and purges are by the new ones. The same with the index off in one generation and on in
  the next. Line 448: "Only after that does the zone count as ready"; line 355:
  "Headers used both to extract tags from cached responses and to match tags on
  purge requests."

## 5. Further observations

Met while modelling; each can be repeated with a small change of a
configuration, and no run is spent on it.

- A soft exact purge counts the resolved file twice, since its own entry is
  collected in the fan-out (`CountsEntries` with `Purges <- OneExactSoft`).
- A hard exact purge whose unlink fails still reports one entry (`CountsEntries`
  with `"unlink"` in `Faults` and hard exact purges only). Lines 287 and 419 of the
  repository's README speak of entries that were actually removed or expired;
  `ReportsWhatItDid` bounds what these two cases cost: one entry, of an exact purge.
- A subdirectory that the scan cannot open, or a file that it cannot read, stays
  unindexed, and the zone counts as ready (`..._index_runtime.c:496` and 513,
  `..._index_store.c:316-321`): tag purges miss those files until they are served
  again (`IndexCovers` with `lost` left out of `Settled`). Line 448: "Only after
  that does the zone count as ready".
- An exact purge whose key text or paths cannot be had skips its fan-out and answers
  200 for its own file (`..._module.c:3080-3087` and 3218-3224;
  `ExactFanoutComplete` without its second disjunct).
- The log phase of a hard exact purge puts the entry of the deleted file back
  (`NoEntryWithoutFile` with hard exact purges only).
- The log phase of an older response may be the last one and restore old tags
  (`IndexCovers` with `TagsFor <- NewTags`).
- `push_unique` collapses tags regardless of case and lookups compare bytes: of
  `Foo foo` only `Foo` can be purged by (`PurgeableByEachTag` of `Tokens`).
  `PlainTagsAreStored`, which holds, says that nothing else is lost.
- The scan takes lines of the body that look like tag headers for tags
  (`ScanReadsHeaders` of `Tokens`). On files without such lines scan and log phase
  agree (`PlainTagsAreStored`).
- Before the bootstrap is complete, a wildcard purge that finds one file in the
  index does not walk the tree (`WildPurgeComplete` with `Ready = FALSE` and
  wildcard purges): `key_index_ready` does not look at `bootstrap_complete`. Line
  448 of the repository's README: "If the index is not ready, an indexed purge
  declines."
- An exact purge whose own variant is not cached answers success and leaves the
  other variants (`ExactPurgeComplete` with exact purges). Line 11: "including every
  `Vary` variant of it".
- `cache_pilot_index` is on by default only where the server, not just the
  location, has a cache: a server without one merges the default to off, which its
  locations inherit (`..._module.c:3833`). Line 342 promises it for "the location".
- The merge of a block ends at the first enabled protocol. With
  `fastcgi_cache_purge` in a server, `proxy_cache_purge` in a location below it is
  never attached. (`PurgeReachesItsCache` without `OneProtocol`.)
- A location with a purge directive and a content handler of another module hands
  that handler on to a nested location's ordinary requests; an `if` in such a
  location, or in a pure purge location, loses the purge and the handler.
  (`OrdinaryRequests` without `OneProtocol`.)
- When the tags of a request cannot be read, `dispatch_special` returns an error
  that nobody looks at: the request is answered 200 with nothing purged. When the
  second reading fails, an exact purge follows the tag purge. (`CountedOnce`
  without `~oom`.)
- A hard exact purge is counted before its fan-out, which may end in a 500, and
  the entries it has deleted by then are counted nowhere; other purges that fail
  are not counted at all.
- `headers_equal` takes `A A` and `A B` for equal. A location that indexes into a
  zone but has no purge directive in scope is not compared.
- `send_decline_response` cannot be reached: a decline in the handler is always
  "not found".
- A worker's own copy of a zone's readiness is written and read by nobody.
- Line 266 of the repository's README speaks of index deletions handed to an
  owning worker; the code deletes in the request.

## 6. Fairness

- `CachePurge!FairSpec`: weak fairness of the steps of a running handler, per
  worker. A handler is straight-line code on a worker's stack that does not wait
  for anyone. Nothing is assumed of requests, evictions or log phases.
- `Bootstrap!Spec`: weak fairness of a worker's pass and timer, and of the loader,
  which runs once per start and always ends. None of failures or crashes.
- `UpdatingLock!Spec`: weak fairness of the steps of a request that has begun:
  fetches succeed or fail, files get read, requests end. Nothing makes a request
  come, time pass or an entry expire.
- `PartialThread!Spec`: threads take and finish tasks and the event loop runs
  completions. Neither the timer nor a client has to do anything.

## 7. Proofs

All for every value of the constants.

`IndexStoreProofs`. Assumptions: the empty key is not a key, times are positive,
tag arrays have no repeated tag (what `push_unique` is for), prefixes select keys.

- `TypeCorrect`: `Spec => []TypeOK`.
- `ConsistentAlways`: `Spec => []Consistent`. `Consistent` is not inductive: that
  a rollback unlinks everything depends on how far the upsert has got. The
  inductive invariant `IInv` adds `InFlight`, which says what is linked at each
  program counter of the upsert: nothing before the key, the key and the first
  `i - 1` tags afterwards. The proof goes action by action; removal of a file is a
  lemma (`RemoveFileConsistent`), used by upsert, delete and rollback.
- `CollectsAreExact` follows from `IInv` in idle states.
- `OrphanTagsPaidFor`: `Spec => []OrphanTagsCounted`. The inductive form is
  `OrphansBounded`, which adds that the set is finite: nothing follows from the
  cardinality of an infinite one. Only the rollback makes an entry without files,
  one at most, and its allocation failure has been counted by then.
- `ReadersSeeSaneState` follows from the type invariant and `Normalize`.
- `StoreImplementsMap`: `Spec => ImplementsMap`. The mapping counts the path of
  the upsert that holds the mutex as absent, so `UpsertBegin` is `Begin`,
  `UpsertDone` is `Commit`, the failing allocation is `Abort`, and the rollback
  stutters. `InFlight` gives that at `UpsertDone` the members are all the tags.

`CachePurgeProofs`: any number of workers, paths, keys and tags, every kind of
purge, and all faults unless a theorem excludes some. Assumptions on the
constants: the sets of tags a page may have are sets of tags, there is at least one
version, a purge has a kind and a mode, and an exact one is of a path.

- `CacheTypeCorrect`: `Spec => []TypeOK`. A handler is idle, storing, scanning or
  purging, and each has local variables of its own. One lemma per action (`...Does`)
  says what it changes; everything below cites these and never the actions again.
- `IndexedPurgesGone`: a purge that took its paths from the index and ended without
  an error has disposed of all versions it collected, under all faults.
  `CollectedAreGone`: `Spec => []CollectedGone` if file operations do not fail (a
  tree walk passes over a file it could not unlink). The invariant is `PurgeInvs`:
  `Collected` says of each version collected that it is gone, or still ahead of the
  loop, or the purge has failed; `Loop` ties the program counter to the mode and the
  phase; `Used` says that versions are not used again, so what is gone stays gone.
- `LoopsCountEntries`, `EntriesAreCounted`: the number a purge reports is that of
  the versions it has itself deleted or expired. `CountsEntries` is about all kinds and
  is proved without exact purges, which count differently (section 5);
  `LoopsCountEntries` holds of the others even while exact purges run beside them.
  The invariant `Counting` needs that what the loop is at has not been counted yet.

`CachePurgeSerialProofs`: completeness does not hold of overlapping handlers
(`purge_race`), so the theorems have the hypothesis `[]Serial`, that no two
workers are in a handler at the same time; all behaviours of a server with one
worker satisfy it. Log phases, hits, evictions, faults and crashes still come
between any two steps. The other hypotheses are those of the runs and for the
same reasons: `NoExact` (`soft_exact_tags`), `StableTags` (log phases are not
ordered), `Ready` (`key_index_ready` does not ask), no `"unlink"` fault with exact
purges (the entry is dropped although the file stays), no `"crash"` for
`FreshnessAgrees`, no `"collect"` fault for wildcard purges (they then answer from a
walk that passes over what it cannot unlink). `"alloc"` and `"read"` faults are
allowed: `Settled` leaves out the files that they leave unindexed.

- `FreshnessAlwaysAgrees`: header and node agree except while a handler is between
  the two writes (`FreshInv`).
- `IndexAlwaysCovers`: `PresentInv` and `TagsInv`. A settled file has its entry, or the
  scan has yet to come to it; entries are dropped only where there is no file; all
  tags anywhere are those of the page. `IndexCovers` is not inductive: that the scan
  is complete when it publishes is a fact about what it has already passed.
- `TagPurgesAreComplete`, `WildPurgesAreComplete`, `ExactPurgesReachVariants`: the files
  that were settled at the start of the purge have been collected (`IndexCovers`, at
  that moment) and then `Collected` carries them to the end; for the wildcard purge
  also through its change from the index to the tree, for the exact purge from the
  file it opened to the fan-out. The last is stated for one worker: log phases of
  other workers can come while the exact purge runs.

`BootstrapProofs`, for any configurations, number of reloads, errors and crashes;
assumptions: a configuration is an array that has no zone twice (`register_cache`),
and there is at least one.

- `BootstrapTypeCorrect`, `PolledStaysReady`: `TypeOK` and the action property
  `PollThenPurge`, which rests on `CompleteSteps`: nothing takes readiness back.
- `ReadyImpliesWarm`: `ReadyOnlyWhenWarm`, unless nginx runs as a single process, which
  does not wait for the loader. `WarmInv` adds that a worker scans only warm zones
  and that its copy says no more than the shared state.
- `NoneLeftBehind`: `NoZoneLeftBehind`, the safety half of `EveryZoneReady`: what remains
  to liveness is that timers fire and passes go on. `Seen` says of a pass without
  deferrals that the zones before its position are ready, in shared memory and in the
  worker's copy, and of a worker after such a pass that all are. It needs that
  nothing takes readiness back and that a reload leaves the array of a running
  worker alone.
- `SteadyReadyIsCurrent`: where all configurations have the same zones with the same
  headers (`SameHeaders`), a ready index is current: `reload_ready` is the only way to
  lose it. (`BuiltInv`: a complete zone was built with the headers all of them have.)

`DispatchProofs`, for all configurations, requests and numbers of entries;
assumptions: a configuration is a sequence of blocks that starts with `http`; an
`if` is in a location or another `if` and has no `*_purge` (the commands do not allow it);
the protocols are different; requests have a mode; `NULL`, statuses, content
handlers and this module's own handlers are not mistaken for each other.

- `DispatchTypeCorrect`: `TypeOK`, whose bounds on the counters need `Sizes`: what can
  have been counted at each place, also when the tags could be read only once and two
  purges follow each other.
- `PurgesCountedOnce`, `ReportsAreTrue`, `DeclinedDoNothing`: `CountedOnce`,
  `ReportsWhatItDid` and `NothingWhenDeclined`. The invariant `Ledger` says at each place
  what has been done and what has been counted: `Blank` up to a purge, `Pending` while
  paths are purged that are counted at the end, `Counted` afterwards, `Nearly` in an
  exact purge, whose count may be ahead by one, its own file, and never by more; and that what
  `dispatch_special` decided is what the handler will decide (`Decided`), since
  configuration and request do not change on the way (`NextConf`).
- `ZonesHaveOneHeaderList`: `OneHeaderList`, under the hypothesis `DistinctHeaders`,
  since `headers_equal` takes the lists `A A` and `A B` for equal. That equal lists
  have the same members is counting (`EqualHeaders`). `HeadersInv` is the property of
  each block merged so far; it needs `SlotsInv`, that a block has a handler only
  where a directive is in force: otherwise a plain block would inherit a handler for
  a cache that nobody has registered.
- `PurgesReachTheirCache`: `PurgeReachesItsCache`. `ProtocolInv` says of each merged
  block of one protocol that the slot of the protocol is enabled exactly below a
  directive, with the flags of the nearest one, and no other slot is; then each of
  the three ways to merge a block (`PlainKind`, `SkippedKind`, `AttachedKind`) leaves
  it right. That the merge stops at the first enabled slot does no harm because
  that slot is the protocol's own.
- `OrdinaryRequestsServed`: `OrdinaryRequests`, from the same invariant: the handler
  that a location or an `if` saves is the one that an `if` in it, which has none,
  must find (`KeepsHandler`), through any number of `if`s (`Ordinary`; `HandlerOf` and
  `PassOf` say how a block gets handler and pass from the one it is in); and from `PassedOn`, that such a request is passed on at once.

`PartialThreadProofs`, without any assumption:

- `ThreadTypeCorrect`, `MemorySafe`, `NeverAnsweredTwice`: `Spec => []` of `TypeOK`,
  `MemoryOutlivesTask` and `AnsweredOnce`. The inductive invariant ties everything
  to the phase of a request. Its heart is `Waits`: an open request is blocked,
  exactly once, by a task that has not completed; so `Terminate` cannot drop it,
  and only the completion for the task, never the one for the timer, frees it.

`UpdatingLockProofs`, assuming that the two directives are Booleans and the bound
on the clock a natural number:

- `LockTypeCorrect`, `FlagNeverLeaks`: `Spec => []` of `TypeOK` and `FlagHasOwner`.
  The strengthening is `EmptyHanded`: a request that has not read the file yet
  holds nothing, so that starting over cannot lose the flag.
- `OneRefreshAtATime`: `Spec => []SingleRefresh`. Two requests are kept from
  fetching together by `Owner`: as long as no hard purge has cleared the flag under
  its owner, a fetching request believes it holds the flag, whoever believes so is
  right, and there is at most one. `FlagKept` and `OwnersKept` say once what a step
  of a single request has to show for this; the actions cite them.

`TokensProofs`, for lines and values of any number and length and every limit;
assumptions: the separator is not a letter, folding maps letters to letters, a line
has the fields of section 2, the limit is at least one.

- `TokensTypeCorrect`, `ReadsExactlyTheTokens`, `KeyOnlyWithoutTags`, `StoresPlainTags`:
  `Spec => []` of `TypeOK`, `ReadsTheTokens`, `FallsBackOnlyWithoutTags` and
  `PlainTagsAreStored`. The tokens are defined by their bounds in the value, without
  recursion, so the loop is proved right by an invariant and not by induction over
  the text. `TokensInv` says that the position is never inside a token (`Between`), that
  what is stored are tokens (`Only`), none twice up to case (`Once`), and that each
  token that starts before the position has been stored, or the limit was reached
  and reported (`Every`). `TokenEnds` (the end of a token exists, by a least element) and
  `SameStart` (two tokens with one start are the same) tie `Take` to the definition.

These invariants were run through TLC on the instances of section 3 before they
were proved. Only model-checked is liveness (`HandlersFinish`, `EveryZoneReady`,
`NoStall`, `EveryWalkEnds`), which is out of the prover's reach; so are the three
violations of section 4.

## 8. Not modelled, and the plan

Left out: the nginx structures that the protocol accessors mirror, JSON and text
formatting of responses and statistics, the walk over the cache nodes that counts
entries for a snapshot, the response type, the zones of `cache_pilot_stats`, tests,
benchmark and packaging. A worker that dies while it holds the index mutex is out
of scope: nginx unlocks it and the module has no recovery. `soft_path` may expire
the node of a file that replaced the one whose header it wrote; that costs one
revalidation. `get_stats` only reads. `UpdatingLock` leaves out `lock_age` and
`lock_timeout`, after which nginx itself takes the flag from its owner.

Every invariant and action property that a passing run checks is proved, some of
them under the hypotheses that section 7 names. What the plan has left is liveness,
with a prover that has it, and the parts listed above.
