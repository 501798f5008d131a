------------------------------ MODULE IndexMap ------------------------------
(***************************************************************************)
(* What the shared-memory index promises to its callers: a map from the    *)
(* path of a cache file to its cache key and its tags.  A writer's upsert  *)
(* first forgets the old entry of its path and then, in one step, either   *)
(* commits the whole new entry or gives up (only when an allocation        *)
(* failed, which the store counts).  A delete forgets one entry.  Nothing  *)
(* is ever said of any other path, and no half-linked entry is visible.    *)
(***************************************************************************)
EXTENDS Naturals, Sequences

CONSTANTS Paths,     \* paths of cache files
          Keys,      \* non-empty cache keys
          NoKey,     \* the empty cache key
          Tags,      \* tags
          TagLists   \* the tag arrays writers pass: no repeated tag

VARIABLES index,     \* [Paths -> entry or Absent]
          req,       \* the upsert in progress, or NoReq
          failures   \* failed allocations counted so far

vars == <<index, req, failures>>

Absent == [present |-> FALSE, key |-> NoKey, tags |-> {}]

Entry(k, ts) == [present |-> TRUE, key |-> k,
                 tags |-> {ts[i] : i \in DOMAIN ts}]

NoReq == <<>>

Init == /\ index = [p \in Paths |-> Absent]
        /\ req = NoReq
        /\ failures = 0

(* The store takes the lock for an upsert; the old entry of p is gone. *)
Begin(p, k, ts) ==
    /\ req = NoReq
    /\ req' = <<p, k, ts>>
    /\ index' = [index EXCEPT ![p] = Absent]
    /\ UNCHANGED failures

(* The upsert is visible as a whole. *)
Commit ==
    /\ req # NoReq
    /\ index' = [index EXCEPT ![req[1]] = Entry(req[2], req[3])]
    /\ req' = NoReq
    /\ UNCHANGED failures

(* An allocation of the upsert failed: its path stays unindexed. *)
Abort ==
    /\ req # NoReq
    /\ failures' = failures + 1
    /\ req' = NoReq
    /\ UNCHANGED index

(* The zone itself could not be allocated: nothing changes. *)
Refuse ==
    /\ req = NoReq
    /\ failures' = failures + 1
    /\ UNCHANGED <<index, req>>

Drop(p) ==
    /\ req = NoReq
    /\ index[p].present
    /\ index' = [index EXCEPT ![p] = Absent]
    /\ UNCHANGED <<req, failures>>

Next ==
    \/ \E p \in Paths, k \in Keys \cup {NoKey}, ts \in TagLists : Begin(p, k, ts)
    \/ Commit
    \/ Abort
    \/ Refuse
    \/ \E p \in Paths : Drop(p)

Spec == Init /\ [][Next]_vars

=============================================================================
