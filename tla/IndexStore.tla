----------------------------- MODULE IndexStore -----------------------------
(***************************************************************************)
(* The shared-memory index of one cache zone (ngx_cache_pilot_index_store).*)
(* A file is reachable three ways: from path_index, from the queue of its  *)
(* key entry in key_index, and from the queues of its tag entries in       *)
(* tag_index; the file points back to its key entry and to its tag         *)
(* members.  Every operation runs under the slab pool's mutex, so `op` is  *)
(* the continuation of the one worker that holds it and idle means it is   *)
(* free.  An upsert is a step per allocation, because each of them may     *)
(* fail and the code then has to take back what it has already linked.     *)
(***************************************************************************)
EXTENDS Naturals, Sequences, FiniteSets

CONSTANTS Paths,       \* paths of cache files
          Keys,        \* non-empty cache keys
          NoKey,       \* the empty cache key, and the NULL key entry
          Tags,        \* tags
          TagLists,    \* the tag arrays writers pass
          Prefixes,    \* wildcard prefixes
          KeysWithPrefix,  \* [Prefixes -> SUBSET Keys], what ngx_strncmp accepts
          Times,       \* values of ngx_time(), 1 or more
          MaxFailures  \* bound on the failed allocations of a behaviour

ASSUME NoKeyAssumption == NoKey \notin Keys
ASSUME TimesAssumption == Times \subseteq Nat \ {0}
ASSUME MaxFailuresAssumption == MaxFailures \in Nat
\* push_unique has removed repeated tags before an array gets here.
ASSUME TagListsAssumption ==
    \A ts \in TagLists :
        /\ ts \in Seq(Tags)
        /\ \A i, j \in 1..Len(ts) : ts[i] = ts[j] => i = j
ASSUME PrefixAssumption == KeysWithPrefix \in [Prefixes -> SUBSET Keys]

VARIABLES
    zone,           \* is the zone allocated?
    files,          \* the paths in path_index (and in the files queue)
    file,           \* [Paths -> file]: key, key_entry pointer, tag_members
    keyIndex,       \* the keys that have an entry in key_index
    keyFiles,       \* [Keys -> SUBSET Paths], the queue of each key entry
    tagIndex,       \* the tags that have an entry in tag_index
    tagFiles,       \* [Tags -> SUBSET Paths], the queue of each tag entry
    state,          \* bootstrap_complete, last_bootstrap_at, last_updated_at
    alloc_failures, \* counted by shm_alloc_locked
    op              \* the operation that holds the mutex

links == <<keyIndex, keyFiles, tagIndex, tagFiles>>
vars == <<zone, files, file, keyIndex, keyFiles, tagIndex, tagFiles, state,
          alloc_failures, op>>

KeyTexts == Keys \cup {NoKey}

NewFile(k) == [key |-> k, key_entry |-> NoKey, members |-> {}]

NoFile == NewFile(NoKey)

ZeroState == [bootstrap_complete |-> FALSE, last_bootstrap_at |-> 0,
              last_updated_at |-> 0]

Idle == [pc |-> "idle"]

Upserting(pc, p, k, ts, i) ==
    [pc |-> pc, path |-> p, key |-> k, tags |-> ts, i |-> i]

Init ==
    /\ zone = FALSE
    /\ files = {}
    /\ file = [p \in Paths |-> NoFile]
    /\ keyIndex = {}
    /\ keyFiles = [k \in Keys |-> {}]
    /\ tagIndex = {}
    /\ tagFiles = [t \in Tags |-> {}]
    /\ state = ZeroState
    /\ alloc_failures = 0
    /\ op = Idle

-----------------------------------------------------------------------------
(* Helpers of the operations. *)

(* shm_alloc_locked returned NULL. *)
AllocFails ==
    /\ alloc_failures < MaxFailures
    /\ alloc_failures' = alloc_failures + 1

(* shm_touch_zone_locked: the caller's own, possibly lagging, ngx_time(). *)
Touch(now) == state' = [state EXCEPT !.last_updated_at = now]

(* Mutant: the tag entries whose queue becomes empty are not freed. *)
RemoveFileKeepsTags(p) ==
    LET keyEmptied(k) == k = file[p].key_entry /\ keyFiles[k] \ {p} = {}
    IN  /\ keyFiles' = [k \in Keys |-> keyFiles[k] \ {p}]
        /\ keyIndex' = {k \in keyIndex : ~keyEmptied(k)}
        /\ tagFiles' = [t \in Tags |-> tagFiles[t] \ {p}]
        /\ files' = files \ {p}
        /\ file' = [file EXCEPT ![p] = NoFile]
        /\ UNCHANGED tagIndex

(* shm_remove_file_locked: follow the file's own pointers, free the key and  *)
(* tag entries whose queue becomes empty.                                    *)
RemoveFile(p) ==
    LET emptied(t) == t \in file[p].members /\ tagFiles[t] \ {p} = {}
        keyEmptied(k) == k = file[p].key_entry /\ keyFiles[k] \ {p} = {}
    IN  /\ keyFiles' = [k \in Keys |-> IF k = file[p].key_entry
                                       THEN keyFiles[k] \ {p} ELSE keyFiles[k]]
        /\ keyIndex' = {k \in keyIndex : ~keyEmptied(k)}
        /\ tagFiles' = [t \in Tags |-> IF t \in file[p].members
                                       THEN tagFiles[t] \ {p} ELSE tagFiles[t]]
        /\ tagIndex' = {t \in tagIndex : ~emptied(t)}
        /\ files' = files \ {p}
        /\ file' = [file EXCEPT ![p] = NoFile]

(* Mutant: last_updated_at is not raised to last_bootstrap_at. *)
NormalizeNoClamp(s, now) ==
    IF ~s.bootstrap_complete THEN ZeroState
    ELSE [s EXCEPT !.last_bootstrap_at = IF @ # 0 THEN @ ELSE now]

(* normalize_zone_state; now is the caller's ngx_time(). *)
Normalize(s, now) ==
    IF ~s.bootstrap_complete THEN ZeroState
    ELSE LET boot == IF s.last_bootstrap_at # 0 THEN s.last_bootstrap_at
                     ELSE IF s.last_updated_at # 0 THEN s.last_updated_at
                     ELSE now
             upd == IF s.last_updated_at < boot THEN boot ELSE s.last_updated_at
         IN  [bootstrap_complete |-> TRUE, last_bootstrap_at |-> boot,
              last_updated_at |-> upd]

-----------------------------------------------------------------------------
(* upsert_file_meta *)

(* get_zone_locked fails, for an upsert or for set_zone_state. *)
ZoneRefused ==
    /\ op = Idle
    /\ ~zone
    /\ AllocFails
    /\ UNCHANGED <<zone, files, file, links, state, op>>

(* Mutant: the old entry of the path is left for the allocation to replace. *)
UpsertBeginKeepsOld(p, k, ts) ==
    /\ op = Idle
    /\ zone' = TRUE
    /\ op' = Upserting("alloc", p, k, ts, 1)
    /\ UNCHANGED <<files, file, links, state, alloc_failures>>

(* Take the lock, find or create the zone, drop the old entry of the path. *)
UpsertBegin(p, k, ts) ==
    /\ op = Idle
    /\ zone' = TRUE
    /\ op' = Upserting("alloc", p, k, ts, 1)
    /\ IF p \in files THEN RemoveFile(p) ELSE UNCHANGED <<files, file, links>>
    /\ UNCHANGED <<state, alloc_failures>>

(* The file is allocated and inserted, with neither key nor tags linked. *)
UpsertAlloc ==
    /\ op.pc = "alloc"
    /\ \/ /\ files' = files \cup {op.path}
          /\ file' = [file EXCEPT ![op.path] = NewFile(op.key)]
          /\ op' = [op EXCEPT !.pc = "key"]
          /\ UNCHANGED alloc_failures
       \/ /\ AllocFails
          /\ op' = Idle
          /\ UNCHANGED <<files, file>>
    /\ UNCHANGED <<zone, links, state>>

(* Mutant: no early return for an empty key. *)
LinkEmptyKey ==
    /\ op.pc = "key"
    /\ keyIndex' = keyIndex \cup {op.key}
    /\ keyFiles' = [k \in keyIndex' \cup Keys |->
                       (IF k \in DOMAIN keyFiles THEN keyFiles[k] ELSE {})
                       \cup (IF k = op.key THEN {op.path} ELSE {})]
    /\ file' = [file EXCEPT ![op.path].key_entry = op.key]
    /\ op' = [op EXCEPT !.pc = "tags"]
    /\ UNCHANGED <<zone, files, tagIndex, tagFiles, state, alloc_failures>>

(* link_exact_key_locked: an empty key is not linked. *)
LinkExactKey ==
    /\ op.pc = "key"
    /\ \/ /\ op.key = NoKey
          /\ op' = [op EXCEPT !.pc = "tags"]
          /\ UNCHANGED <<file, keyIndex, keyFiles, alloc_failures>>
       \/ /\ op.key # NoKey
          /\ keyIndex' = keyIndex \cup {op.key}
          /\ keyFiles' = [keyFiles EXCEPT ![op.key] = @ \cup {op.path}]
          /\ file' = [file EXCEPT ![op.path].key_entry = op.key]
          /\ op' = [op EXCEPT !.pc = "tags"]
          /\ UNCHANGED alloc_failures
       \/ /\ op.key # NoKey /\ op.key \notin keyIndex
          /\ AllocFails
          /\ op' = [op EXCEPT !.pc = "rollback"]
          /\ UNCHANGED <<file, keyIndex, keyFiles>>
    /\ UNCHANGED <<zone, files, tagIndex, tagFiles, state>>

(* One round of link_tags_locked: the tag's entry, then the member.  When   *)
(* the member cannot be allocated, an entry created in this round stays.    *)
LinkTag ==
    /\ op.pc = "tags" /\ op.i <= Len(op.tags)
    /\ LET t == op.tags[op.i] IN
       \/ /\ tagIndex' = tagIndex \cup {t}
          /\ tagFiles' = [tagFiles EXCEPT ![t] = @ \cup {op.path}]
          /\ file' = [file EXCEPT ![op.path].members = @ \cup {t}]
          /\ op' = [op EXCEPT !.i = @ + 1]
          /\ UNCHANGED alloc_failures
       \/ /\ t \notin tagIndex
          /\ AllocFails
          /\ op' = [op EXCEPT !.pc = "rollback"]
          /\ UNCHANGED <<file, tagIndex, tagFiles>>
       \/ /\ tagIndex' = tagIndex \cup {t}
          /\ AllocFails
          /\ op' = [op EXCEPT !.pc = "rollback"]
          /\ UNCHANGED <<file, tagFiles>>
    /\ UNCHANGED <<zone, files, keyIndex, keyFiles, state>>

(* Mutant: the file is freed and its links stay. *)
RollbackKeepsLinks ==
    /\ op.pc = "rollback"
    /\ files' = files \ {op.path}
    /\ file' = [file EXCEPT ![op.path] = NoFile]
    /\ op' = Idle
    /\ UNCHANGED <<zone, links, state, alloc_failures>>

(* Linking failed: the file goes again, and NGX_ERROR is returned. *)
Rollback ==
    /\ op.pc = "rollback"
    /\ RemoveFile(op.path)
    /\ op' = Idle
    /\ UNCHANGED <<zone, state, alloc_failures>>

(* All tags are linked: touch the zone and unlock. *)
UpsertDone(now) ==
    /\ op.pc = "tags" /\ op.i > Len(op.tags)
    /\ Touch(now)
    /\ op' = Idle
    /\ UNCHANGED <<zone, files, file, links, alloc_failures>>

-----------------------------------------------------------------------------
(* delete_file: only a path that was indexed touches the zone. *)
DeleteFile(p, now) ==
    /\ op = Idle
    /\ zone
    /\ p \in files
    /\ RemoveFile(p)
    /\ Touch(now)
    /\ UNCHANGED <<zone, alloc_failures, op>>

(* set_zone_state, as bootstrap_zone calls it: complete, one timestamp. *)
SetZoneState(now) ==
    /\ op = Idle
    /\ zone' = TRUE
    /\ state' = Normalize([bootstrap_complete |-> TRUE,
                           last_bootstrap_at |-> now,
                           last_updated_at |-> now], now)
    /\ UNCHANGED <<files, file, links, alloc_failures, op>>

(* get_zone_state: what a reader is told; nothing is written back. *)
GetZoneState(now) == Normalize(IF zone THEN state ELSE ZeroState, now)

(* Mutant: a path has to carry all of the tags. *)
CollectByAllTags(ts) == {p \in files : ts # {} /\ ts \subseteq file[p].members}

(* The three collect operations, under the mutex, as sets of paths. *)
CollectByTags(ts) == UNION {tagFiles[t] : t \in ts \cap tagIndex}

CollectByExactKey(k) == IF k \in keyIndex THEN keyFiles[k] ELSE {}

CollectByKeyPrefix(x) == {p \in files : file[p].key \in KeysWithPrefix[x]}

-----------------------------------------------------------------------------
Next ==
    \/ ZoneRefused
    \/ \E p \in Paths, k \in KeyTexts, ts \in TagLists : UpsertBegin(p, k, ts)
    \/ UpsertAlloc
    \/ LinkExactKey
    \/ LinkTag
    \/ Rollback
    \/ \E now \in Times : UpsertDone(now)
    \/ \E p \in Paths, now \in Times : DeleteFile(p, now)
    \/ \E now \in Times : SetZoneState(now)

Spec == Init /\ [][Next]_vars

-----------------------------------------------------------------------------
(* Properties. *)

Files == [key : KeyTexts, key_entry : KeyTexts, members : SUBSET Tags]

ZoneStates == [bootstrap_complete : BOOLEAN, last_bootstrap_at : Nat,
               last_updated_at : Nat]

Busy == [pc : {"alloc", "key", "tags", "rollback"}, path : Paths,
         key : KeyTexts, tags : TagLists, i : Nat \ {0}]

(* Every variable keeps the shape of the C structures it stands for. *)
TypeOK ==
    /\ zone \in BOOLEAN
    /\ files \subseteq Paths
    /\ file \in [Paths -> Files]
    /\ keyIndex \subseteq Keys
    /\ keyFiles \in [Keys -> SUBSET Paths]
    /\ tagIndex \subseteq Tags
    /\ tagFiles \in [Tags -> SUBSET Paths]
    /\ state \in ZoneStates
    /\ alloc_failures \in Nat
    /\ op \in {Idle} \cup Busy

(* A path is in the queue of a key entry exactly when that path is indexed  *)
(* and its key_entry pointer leads back there.                              *)
KeyLinksAgree ==
    \A p \in Paths, k \in Keys :
        p \in keyFiles[k] <=> p \in files /\ file[p].key_entry = k

(* A path is in the queue of a tag entry exactly when that path is indexed  *)
(* and has a member for the tag.                                            *)
TagLinksAgree ==
    \A p \in Paths, t \in Tags :
        p \in tagFiles[t] <=> p \in files /\ t \in file[p].members

(* A queue with files in it belongs to an entry of the tree, and no key     *)
(* entry outlives its last file.                                            *)
EntriesReachable ==
    /\ \A k \in Keys : keyFiles[k] # {} <=> k \in keyIndex
    /\ \A t \in Tags : tagFiles[t] # {} => t \in tagIndex

(* A file that no operation is working on is linked under its own key. *)
KeyLinked ==
    \A p \in files :
        \/ file[p].key_entry = file[p].key
        \/ op # Idle /\ op.path = p

(* The three indexes of the store describe one and the same set of files at *)
(* every step of every operation, failed allocations included: remove_file  *)
(* and the rollback of an upsert leave no dangling link behind.             *)
Consistent ==
    /\ KeyLinksAgree
    /\ TagLinksAgree
    /\ EntriesReachable
    /\ KeyLinked

(* Where the upsert that holds the mutex has got to. *)
InFlight ==
    op # Idle =>
        /\ op.pc = "alloc" => op.path \notin files
        /\ op.pc # "alloc" => /\ op.path \in files
                              /\ file[op.path].key = op.key
        /\ op.pc = "key" => /\ file[op.path].key_entry = NoKey
                            /\ file[op.path].members = {}
                            /\ op.i = 1
        /\ op.pc = "alloc" => op.i = 1
        /\ op.pc = "tags" =>
              /\ file[op.path].key_entry = op.key
              /\ op.i <= Len(op.tags) + 1
              /\ file[op.path].members = {op.tags[j] : j \in 1..(op.i - 1)}

(* The inductive invariant behind the theorems of IndexStoreProofs. *)
IInv == TypeOK /\ Consistent /\ InFlight

(* The map the store stands for: a path that an operation works on counts   *)
(* as absent until the mutex is released.                                   *)
Index ==
    [p \in Paths |->
        IF p \in files /\ ~(op # Idle /\ op.path = p)
        THEN [present |-> TRUE, key |-> file[p].key, tags |-> file[p].members]
        ELSE [present |-> FALSE, key |-> NoKey, tags |-> {}]]

Request == IF op = Idle \/ op.pc = "rollback" THEN <<>>
           ELSE <<op.path, op.key, op.tags>>

Map == INSTANCE IndexMap WITH index <- Index, req <- Request,
                              failures <- alloc_failures

(* The store implements IndexMap: an upsert becomes visible with its key    *)
(* and all of its tags or not at all, and touches no other path.            *)
ImplementsMap == Map!Spec

(* What the purge paths collect under the mutex, through the key and tag    *)
(* trees, is what the map says: no path missing, none too many.             *)
CollectExact ==
    op = Idle =>
        /\ \A ts \in SUBSET Tags :
               CollectByTags(ts) = {p \in Paths : Index[p].tags \cap ts # {}}
        /\ \A k \in Keys :
               CollectByExactKey(k) =
                   {p \in Paths : Index[p].present /\ Index[p].key = k}
        /\ \A x \in Prefixes :
               CollectByKeyPrefix(x) =
                   UNION {CollectByExactKey(k) : k \in KeysWithPrefix[x]}

(* A tag entry with no file in it (link_tags_locked leaves one behind when  *)
(* the member allocation fails) costs a failed allocation each: such        *)
(* entries do not accumulate in any other way.                              *)
OrphanTagsCounted ==
    Cardinality({t \in tagIndex : tagFiles[t] = {}}) <= alloc_failures

(* Whatever the order of touches and completions and however far the        *)
(* workers' clocks are apart, a reader of the zone state is told either     *)
(* "not complete" with zero timestamps or two ordered, non-zero ones.       *)
ReaderStateSane ==
    \A now \in Times :
        LET s == GetZoneState(now) IN
        IF s.bootstrap_complete
        THEN 0 < s.last_bootstrap_at /\ s.last_bootstrap_at <= s.last_updated_at
        ELSE s = ZeroState

=============================================================================
