---------------------------- MODULE UpdatingLock -----------------------------
(***************************************************************************)
(* The updating flag of one cache node.  nginx sets it for the request that*)
(* refreshes a stale entry or fills a missing one, so that the others serve*)
(* the stale copy or wait.  An exact purge opens the entry the same way and*)
(* so can be given the flag itself; exact_purge and exact_purge_soft have  *)
(* to give it back, release_updating, without taking it from anybody else. *)
(* nginx's side is modelled from the calls of this module; lock_age and    *)
(* lock_timeout do not run out, and no worker dies.                        *)
(***************************************************************************)
EXTENDS Naturals

CONSTANTS Requests,   \* requests for the entry, each slot used over and over
          CacheLock,  \* proxy_cache_lock
          UseStale,   \* proxy_cache_use_stale updating
          MaxTime     \* bound on the clock: lock_time is taken from it

ASSUME LockAssumption ==
    CacheLock \in BOOLEAN /\ UseStale \in BOOLEAN /\ MaxTime \in Nat

VARIABLES node,  \* the node in shared memory, with the freshness of its file
          req,   \* [request -> what it is and how far it is; r->cache]
          now,   \* ngx_current_msec
          hard   \* has a hard purge hit the node?

vars == <<node, req, now, hard>>

Kinds == {"get", "soft", "hard"}
Steps == {"idle", "read", "wait", "fetch", "opened", "header", "fanout", "release", "done"}
Idle == [kind |-> "get", pc |-> "idle", fresh |-> FALSE, updating |-> FALSE, lockTime |-> 0]

Init ==
    /\ node = [exists |-> FALSE, fresh |-> FALSE, updating |-> FALSE, lockTime |-> 0]
    /\ req = [r \in Requests |-> Idle]
    /\ now = 0 /\ hard = FALSE

Step(r, pc) == req' = [req EXCEPT ![r].pc = pc]

(* Time passes; the entry's own validity may run out. *)
Tick ==
    /\ now < MaxTime
    /\ now' = now + 1
    /\ UNCHANGED <<node, req, hard>>

GoStale ==
    /\ node.fresh
    /\ node' = [node EXCEPT !.fresh = FALSE]
    /\ UNCHANGED <<req, now, hard>>

-----------------------------------------------------------------------------
(* ngx_http_file_cache_open.  The node is looked up in one critical section, *)
(* the file is opened and read without it, possibly by another thread.       *)

(* A request comes in, or a GET that waits for the flag is woken up. *)
Opens(r, k) ==
    \/ req[r].pc = "idle"
    \/ req[r].pc = "wait" /\ k = "get" /\ ~node.updating

Lookup(r, k) ==
    /\ Opens(r, k) /\ node.exists
    /\ req' = [req EXCEPT ![r] = [Idle EXCEPT !.kind = k, !.pc = "read", !.fresh = node.fresh]]
    /\ UNCHANGED <<node, now, hard>>

(* There is no file: a purge is over, a GET fetches the page, holding the    *)
(* flag if proxy_cache_lock is on, or waits for the one that does.  The      *)
(* c->lock of a purge is never set.                                          *)
Miss(r, k) ==
    /\ Opens(r, k) /\ ~node.exists /\ k = "get"
    /\ LET takes == CacheLock /\ ~node.updating IN
       /\ node' = [node EXCEPT !.updating = @ \/ takes,
                               !.lockTime = IF takes THEN now ELSE @]
       /\ req' = [req EXCEPT ![r] =
             [Idle EXCEPT !.pc = IF CacheLock /\ node.updating THEN "wait" ELSE "fetch",
                          !.updating = takes,
                          !.lockTime = IF takes THEN now ELSE 0]]
    /\ UNCHANGED <<now, hard>>

(* The file that was opened may have been expired, deleted or replaced       *)
(* meanwhile.  Whoever finds it stale and the flag free takes the flag.      *)
Read(r) ==
    /\ req[r].pc = "read"
    /\ \E fresh \in {req[r].fresh, node.fresh} :
          LET get == req[r].kind = "get"
              takes == ~fresh /\ ~node.updating
              pc == CASE ~get -> "opened"
                      [] get /\ (fresh \/ (node.updating /\ UseStale)) -> "done"
                      [] OTHER -> "fetch" IN
          /\ node' = [node EXCEPT !.updating = @ \/ takes]
          /\ req' = [req EXCEPT ![r] =
                [@ EXCEPT !.pc = pc, !.fresh = FALSE, !.updating = takes,
                          !.lockTime = IF takes THEN node.lockTime ELSE 0]]
    /\ UNCHANGED <<now, hard>>

(* ngx_http_file_cache_update: the page is stored; the flag is cleared       *)
(* whoever holds it.                                                         *)
Update(r) ==
    /\ req[r].pc = "fetch"
    /\ node' = [node EXCEPT !.exists = TRUE, !.fresh = TRUE, !.updating = FALSE]
    /\ req' = [req EXCEPT ![r] = Idle]
    /\ UNCHANGED <<now, hard>>

(* The upstream fails or what it sends is not cacheable. *)
Fail(r) ==
    /\ req[r].pc = "fetch"
    /\ Step(r, "done")
    /\ UNCHANGED <<node, now, hard>>

Holds(r) == req[r].updating /\ req[r].lockTime = node.lockTime

(* ngx_http_file_cache_free, at the end of the request's pool. *)
Free(r) ==
    /\ req[r].pc = "done"
    /\ node' = [node EXCEPT !.updating = @ /\ ~Holds(r)]
    /\ req' = [req EXCEPT ![r] = Idle]
    /\ UNCHANGED <<now, hard>>

-----------------------------------------------------------------------------
(* The module. *)

(* mark_node_deleted takes the flag from whoever holds it. *)
Deleted == [node EXCEPT !.exists = FALSE, !.updating = FALSE]

(* exact_purge: delete_opened_file, or the early return if the node has been *)
(* deleted since it was opened.                                              *)
DeleteOpened(r) ==
    /\ req[r].pc = "opened" /\ req[r].kind = "hard"
    /\ \/ /\ ~node.exists
          /\ Step(r, "done") /\ UNCHANGED <<node, hard>>
       \/ /\ node.exists
          /\ node' = Deleted /\ hard' = TRUE
          /\ Step(r, "fanout")
    /\ UNCHANGED now

(* Mutant: the handler does not tell the modes apart. *)
CheckExistsAnyMode(r) ==
    /\ req[r].pc = "opened"
    /\ Step(r, IF node.exists THEN "header" ELSE "done")
    /\ UNCHANGED <<node, now, hard>>

(* exact_purge_soft: the early return if the node is gone ... *)
CheckExists(r) ==
    /\ req[r].pc = "opened" /\ req[r].kind = "soft"
    /\ Step(r, IF node.exists THEN "header" ELSE "done")
    /\ UNCHANGED <<node, now, hard>>

(* ... or if the header cannot be written, the file being gone by now or     *)
(* not; otherwise file and node are expired.                                 *)
Expire(r) ==
    /\ req[r].pc = "header"
    /\ \/ Step(r, "done") /\ UNCHANGED node
       \/ /\ node.exists
          /\ node' = [node EXCEPT !.fresh = FALSE]
          /\ Step(r, "fanout")
    /\ UNCHANGED <<now, hard>>

(* Mutant: the loop does not advance when a path fails. *)
FanOutRepeats(r) ==
    /\ req[r].pc = "fanout"
    /\ UNCHANGED vars

(* The other variants, among them this entry once more if it is indexed      *)
(* again; an error ends the loop.  The flag is released either way.          *)
FanOut(r) ==
    /\ req[r].pc = "fanout"
    /\ \/ UNCHANGED <<node, hard>>
       \/ /\ node.exists /\ req[r].kind = "soft"
          /\ node' = [node EXCEPT !.fresh = FALSE] /\ UNCHANGED hard
       \/ /\ node.exists /\ req[r].kind = "hard"
          /\ node' = Deleted /\ hard' = TRUE
    /\ Step(r, "release")
    /\ UNCHANGED now

(* Mutant: the request forgets the flag before it is cleared. *)
ReleaseForgets(r) ==
    /\ req[r].pc = "release"
    /\ req' = [req EXCEPT ![r] = [@ EXCEPT !.pc = "done", !.updating = FALSE]]
    /\ UNCHANGED <<node, now, hard>>

(* Mutant: the flag is cleared without asking who holds it. *)
ReleaseAny(r) ==
    /\ req[r].pc = "release"
    /\ node' = [node EXCEPT !.updating = FALSE]
    /\ req' = [req EXCEPT ![r] = [@ EXCEPT !.pc = "done", !.updating = FALSE]]
    /\ UNCHANGED <<now, hard>>

(* release_updating. *)
Release(r) ==
    /\ req[r].pc = "release"
    /\ node' = [node EXCEPT !.updating = @ /\ ~Holds(r)]
    /\ req' = [req EXCEPT ![r] = [@ EXCEPT !.pc = "done", !.updating = FALSE]]
    /\ UNCHANGED <<now, hard>>

(* by_path, from a tag, wildcard or all purge that comes to this file. *)
PathHard ==
    /\ node.exists
    /\ node' = Deleted /\ hard' = TRUE
    /\ UNCHANGED <<req, now>>

PathSoft ==
    /\ node.exists
    /\ node' = [node EXCEPT !.fresh = FALSE]
    /\ UNCHANGED <<req, now, hard>>

-----------------------------------------------------------------------------
Work(r) ==
    \/ Read(r)
    \/ Update(r) \/ Fail(r) \/ Free(r)
    \/ DeleteOpened(r) \/ CheckExists(r) \/ Expire(r) \/ FanOut(r) \/ Release(r)

Next ==
    \/ Tick \/ GoStale \/ PathHard \/ PathSoft
    \/ \E r \in Requests :
          Work(r) \/ \E k \in Kinds : Lookup(r, k) \/ Miss(r, k)

(* Requests go on until they end: fetches succeed or fail. *)
Spec ==
    /\ Init /\ [][Next]_vars
    /\ \A r \in Requests : WF_vars(Work(r))

-----------------------------------------------------------------------------
(* Properties. *)

(* The node, the requests and the clock keep their shape, and no request is  *)
(* on the path of another kind.                                              *)
TypeOK ==
    /\ node \in [exists : BOOLEAN, fresh : BOOLEAN, updating : BOOLEAN, lockTime : 0..MaxTime]
    /\ \A r \in Requests :
          /\ req[r] \in [kind : Kinds, pc : Steps, fresh : BOOLEAN, updating : BOOLEAN,
                         lockTime : 0..MaxTime]
          /\ req[r].pc \in {"wait", "fetch"} => req[r].kind = "get"
          /\ req[r].pc = "header" => req[r].kind = "soft"
          /\ req[r].pc \in {"opened", "fanout", "release"} => req[r].kind # "get"
    /\ now \in 0..MaxTime /\ hard \in BOOLEAN

(* The flag is never left behind: while it is set, a live request holds it   *)
(* and will clear it, whatever early return of a purge, fan-out error or     *)
(* racing deletion comes in between.                                         *)
FlagHasOwner == node.updating => \E r \in Requests : req[r].pc # "idle" /\ Holds(r)

(* The advice of the README, proxy_cache_lock and proxy_cache_use_stale      *)
(* updating: soft purges, by key or by path and as many as there are, never  *)
(* let two requests refresh the entry at the same time.                      *)
SingleRefresh ==
    CacheLock /\ UseStale /\ ~hard =>
        \A r, s \in Requests : req[r].pc = "fetch" /\ req[s].pc = "fetch" => r = s

(* t/proxy_soft.t, TEST 10C: purges do not stall cache updating.  The flag   *)
(* is always given back, so that the next request can refresh the entry.     *)
NoStall == node.updating ~> ~node.updating

=============================================================================
