------------------------- MODULE UpdatingLockProofs -------------------------
(***************************************************************************)
(* Theorems about UpdatingLock, for every set of requests, any bound on    *)
(* the clock and all settings of the two directives.                       *)
(***************************************************************************)
EXTENDS UpdatingLock, TLAPS

USE LockAssumption DEF LockAssumption

Nodes == [exists : BOOLEAN, fresh : BOOLEAN, updating : BOOLEAN, lockTime : 0..MaxTime]
Reqs == [kind : Kinds, pc : Steps, fresh : BOOLEAN, updating : BOOLEAN, lockTime : 0..MaxTime]

Shape ==
    /\ node \in Nodes /\ req \in [Requests -> Reqs]
    /\ now \in 0..MaxTime /\ hard \in BOOLEAN

(* No request is on the path of another kind. *)
OnPath(r) ==
    /\ req[r].pc \in {"wait", "fetch"} => req[r].kind = "get"
    /\ req[r].pc = "header" => req[r].kind = "soft"
    /\ req[r].pc \in {"opened", "fanout", "release"} => req[r].kind # "get"

(* Who has not read the file yet cannot have been given the flag. *)
EmptyHanded(r) == req[r].pc \in {"idle", "wait", "read"} => ~req[r].updating

(* Without hard purges a request that believes it holds the flag does, and   *)
(* with both directives on nobody else goes to the upstream.                 *)
Owner(r) ==
    CacheLock /\ UseStale /\ ~hard =>
        /\ req[r].pc = "fetch" => req[r].updating
        /\ req[r].updating => node.updating /\ req[r].lockTime = node.lockTime
        /\ \A s \in Requests : req[r].updating /\ req[s].updating => r = s

IInv ==
    /\ Shape
    /\ FlagHasOwner
    /\ \A r \in Requests : OnPath(r) /\ EmptyHanded(r) /\ Owner(r)

LEMMA IdleType == Idle \in Reqs
  BY DEF Idle, Reqs, Kinds, Steps

LEMMA InitIInv == Init => IInv
  <1> SUFFICES ASSUME Init PROVE IInv
    OBVIOUS
  <1>1. Shape
    <2>1. node \in Nodes
      BY DEF Init, Nodes
    <2>2. req \in [Requests -> Reqs]
      BY IdleType DEF Init
    <2>3. hard \in BOOLEAN
      BY DEF Init
    <2>4. now \in 0..MaxTime
      BY DEF Init
    <2> QED  BY <2>1, <2>2, <2>3, <2>4 DEF Shape
  <1>2. ~node.updating
    BY DEF Init
  <1>3. \A r \in Requests : req[r].pc = "idle" /\ ~req[r].updating
    BY DEF Init, Idle
  <1> QED
    BY <1>1, <1>2, <1>3 DEF IInv, FlagHasOwner, OnPath, EmptyHanded, Owner

(* A step of one request leaves the others as they are. *)
Rest(r) == \A s \in Requests \ {r} : req'[s] = req[s]

(* What is left to show of a step of r when all others stay as they are: the *)
(* flag is clear, or r has it, or it is with whoever else had it before.     *)
LEMMA FlagKept ==
    ASSUME IInv, Shape', NEW r \in Requests, Rest(r),
           \/ ~node'.updating
           \/ req'[r].pc # "idle" /\ req'[r].updating /\ req'[r].lockTime = node'.lockTime
           \/ node.updating /\ ~Holds(r) /\ node'.lockTime = node.lockTime
    PROVE  FlagHasOwner'
  BY DEF IInv, FlagHasOwner, Holds, Rest

(* r is on its path and, when a hard purge is ruled out, has given up the    *)
(* flag, or has kept it, or has taken it when it was free.                   *)
LEMMA OwnersKept ==
    ASSUME IInv, Shape', NEW r \in Requests, Rest(r), OnPath(r)', EmptyHanded(r)',
           CacheLock /\ UseStale /\ ~hard' =>
              /\ ~hard
              /\ req'[r].pc = "fetch" => req'[r].updating
              /\ \/ /\ ~req'[r].updating
                    /\ node.updating /\ ~req[r].updating =>
                          node'.updating /\ node'.lockTime = node.lockTime
                 \/ /\ req'[r].updating /\ req[r].updating
                    /\ req'[r].lockTime = req[r].lockTime
                    /\ node'.updating = node.updating /\ node'.lockTime = node.lockTime
                 \/ /\ req'[r].updating /\ ~node.updating /\ node'.updating
                    /\ req'[r].lockTime = node'.lockTime
    PROVE  \A s \in Requests : (OnPath(s) /\ EmptyHanded(s) /\ Owner(s))'
  <1>1. \A s \in Requests : (OnPath(s) /\ EmptyHanded(s))'
    BY DEF IInv, Rest, OnPath, EmptyHanded
  <1>2. ASSUME CacheLock, UseStale, ~hard', NEW s \in Requests
        PROVE  /\ req'[s].pc = "fetch" => req'[s].updating
               /\ req'[s].updating => node'.updating /\ req'[s].lockTime = node'.lockTime
    BY <1>2 DEF IInv, Rest, Owner
  <1>3. ASSUME CacheLock, UseStale, ~hard', NEW s \in Requests, NEW t \in Requests,
               req'[s].updating, req'[t].updating
        PROVE  s = t
    BY <1>3 DEF IInv, Rest, Owner
  <1> QED  BY <1>1, <1>2, <1>3 DEF Owner

(* The steps of a request, one by one. *)
LEMMA WorkIInv ==
    ASSUME IInv, NEW r \in Requests, Work(r)
    PROVE  IInv'
  <1> USE DEF IInv, Shape, Nodes, Reqs, Kinds, Steps
  <1> USE IdleType
  <1>1. CASE Read(r)
    <2> PICK fresh \in {req[r].fresh, node.fresh}, pc \in {"opened", "done", "fetch"},
             takes \in BOOLEAN :
          /\ takes <=> ~fresh /\ ~node.updating
          /\ pc = "opened" <=> req[r].kind # "get"
          /\ pc = "fetch" /\ UseStale => takes
          /\ node' = [node EXCEPT !.updating = @ \/ takes]
          /\ req' = [req EXCEPT ![r] =
                [@ EXCEPT !.pc = pc, !.fresh = FALSE, !.updating = takes,
                          !.lockTime = IF takes THEN node.lockTime ELSE 0]]
      BY <1>1 DEF Read
    <2>1. req[r].pc = "read" /\ now' = now /\ hard' = hard /\ ~req[r].updating
      BY <1>1 DEF Read, EmptyHanded
    <2>2. node' \in Nodes /\ now' \in 0..MaxTime
      BY <2>1
    <2>3. req' \in [Requests -> Reqs]
      <3> DEFINE t == IF takes THEN node.lockTime ELSE 0
      <3>1. req[r] \in Reqs /\ t \in 0..MaxTime
        OBVIOUS
      <3> DEFINE new == [req[r] EXCEPT !.pc = pc, !.fresh = FALSE, !.updating = takes,
                                       !.lockTime = t]
      <3>2. req' = [req EXCEPT ![r] = new]
        OBVIOUS
      <3> HIDE DEF t
      <3>3. new \in Reqs
        BY <3>1
      <3> HIDE DEF new
      <3> QED  BY <3>2, <3>3
    <2>4. hard' \in BOOLEAN
      BY <2>1
    <2>5. Shape' /\ Rest(r)
      BY <2>2, <2>3, <2>4 DEF Rest
    <2>6. OnPath(r)' /\ EmptyHanded(r)'
      BY DEF OnPath, EmptyHanded
    <2>7. CASE takes
      <3>1. /\ node'.updating /\ ~node.updating /\ node'.lockTime = node.lockTime
            /\ req'[r].pc # "idle" /\ req'[r].updating /\ req'[r].lockTime = node'.lockTime
        BY <2>7
      <3>2. FlagHasOwner'
        BY <2>5, <3>1, FlagKept
      <3> QED
        BY <2>1, <2>5, <2>6, <3>1, <3>2, OwnersKept
    <2>8. CASE ~takes
      <3>1. /\ node'.updating = node.updating /\ node'.lockTime = node.lockTime
            /\ ~req'[r].updating
            /\ req'[r].pc = "fetch" => ~UseStale
        BY <2>8
      <3>2. FlagHasOwner'
        BY <2>1, <2>5, <3>1, FlagKept DEF Holds
      <3> QED
        BY <2>1, <2>5, <2>6, <3>1, <3>2, OwnersKept
    <2> QED  BY <2>7, <2>8
  <1>2. CASE Update(r)
    <2>1. Shape' /\ Rest(r)
      BY <1>2 DEF Update, Idle, Rest, Step
    <2>2. OnPath(r)' /\ EmptyHanded(r)'
      BY <1>2 DEF Update, Idle, Step, OnPath, EmptyHanded
    <2>3. FlagHasOwner'
      BY <1>2, <2>1, FlagKept DEF Update, Idle, Step, Holds, FlagHasOwner
    <2> QED
      BY ZenonT(60), <1>2, <2>1, <2>2, <2>3, OwnersKept DEF Update, Idle, Step, Holds, Owner, EmptyHanded
  <1>3. CASE Fail(r)
    <2>1. Shape' /\ Rest(r)
      BY <1>3 DEF Fail, Rest, Step
    <2>2. OnPath(r)' /\ EmptyHanded(r)'
      BY <1>3 DEF Fail, Step, OnPath, EmptyHanded
    <2>3. FlagHasOwner'
      BY <1>3, <2>1, FlagKept DEF Fail, Step, Holds, FlagHasOwner
    <2> QED
      BY <1>3, <2>1, <2>2, <2>3, OwnersKept DEF Fail, Step, Holds, Owner, EmptyHanded
  <1>4. CASE Free(r)
    <2>1. Shape' /\ Rest(r)
      BY <1>4 DEF Free, Idle, Rest, Step
    <2>2. OnPath(r)' /\ EmptyHanded(r)'
      BY <1>4 DEF Free, Idle, Step, OnPath, EmptyHanded
    <2>3. FlagHasOwner'
      BY <1>4, <2>1, FlagKept DEF Free, Idle, Step, Holds, FlagHasOwner
    <2> QED
      BY <1>4, <2>1, <2>2, <2>3, OwnersKept DEF Free, Idle, Step, Holds, Owner, EmptyHanded
  <1>5. CASE DeleteOpened(r)
    <2>1. Shape' /\ Rest(r)
      <3>1. CASE node.exists
        <4>1. node' = Deleted /\ hard' = TRUE /\ now' = now /\ Step(r, "fanout")
          BY <1>5, <3>1 DEF DeleteOpened
        <4>2. node' \in Nodes /\ now' \in 0..MaxTime
          BY <4>1 DEF Deleted
        <4>3. req' \in [Requests -> Reqs] /\ Rest(r)
          BY <4>1 DEF Step, Rest
        <4>4. hard' \in BOOLEAN
          BY <4>1
        <4> QED  BY <4>2, <4>3, <4>4
      <3>2. CASE ~node.exists
        BY <1>5, <3>2 DEF DeleteOpened, Rest, Step
      <3> QED  BY <3>1, <3>2
    <2>2. OnPath(r)' /\ EmptyHanded(r)'
      BY <1>5 DEF DeleteOpened, Deleted, Step, OnPath, EmptyHanded
    <2>3. FlagHasOwner'
      <3>1. CASE node.exists
        BY <1>5, <2>1, <3>1, FlagKept DEF DeleteOpened, Deleted
      <3>2. CASE ~node.exists
        BY <1>5, <3>2 DEF DeleteOpened, Step, Holds, FlagHasOwner
      <3> QED  BY <3>1, <3>2
    <2> QED
      BY <1>5, <2>1, <2>2, <2>3, OwnersKept DEF DeleteOpened, Deleted, Step, Holds, Owner, EmptyHanded
  <1>6. CASE CheckExists(r)
    <2>1. Shape' /\ Rest(r)
      BY <1>6 DEF CheckExists, Rest, Step
    <2>2. OnPath(r)' /\ EmptyHanded(r)'
      BY <1>6 DEF CheckExists, Step, OnPath, EmptyHanded
    <2>3. FlagHasOwner'
      BY <1>6, <2>1, FlagKept DEF CheckExists, Step, Holds, FlagHasOwner
    <2> QED
      BY <1>6, <2>1, <2>2, <2>3, OwnersKept DEF CheckExists, Step, Holds, Owner, EmptyHanded
  <1>7. CASE Expire(r)
    <2>1. Shape' /\ Rest(r)
      <3>1. CASE Step(r, "done") /\ UNCHANGED node
        BY <1>7, <3>1 DEF Expire, Rest, Step
      <3>2. CASE node' = [node EXCEPT !.fresh = FALSE] /\ Step(r, "fanout")
        <4>1. node' \in Nodes
          BY <3>2
        <4>2. req' \in [Requests -> Reqs] /\ Rest(r)
          BY <3>2 DEF Step, Rest
        <4> QED  BY <1>7, <4>1, <4>2 DEF Expire
      <3> QED  BY <1>7, <3>1, <3>2 DEF Expire
    <2>2. OnPath(r)' /\ EmptyHanded(r)'
      BY <1>7 DEF Expire, Step, OnPath, EmptyHanded
    <2>3. FlagHasOwner'
      BY <1>7, <2>1, FlagKept DEF Expire, Step, Holds, FlagHasOwner
    <2> QED
      BY <1>7, <2>1, <2>2, <2>3, OwnersKept DEF Expire, Step, Holds, Owner, EmptyHanded
  <1>8. CASE FanOut(r)
    <2>1. Shape' /\ Rest(r)
      BY <1>8 DEF FanOut, Deleted, Rest, Step
    <2>2. OnPath(r)' /\ EmptyHanded(r)'
      BY <1>8 DEF FanOut, Deleted, Step, OnPath, EmptyHanded
    <2>3. FlagHasOwner'
      <3>1. CASE node' = Deleted
        BY <2>1, <3>1, FlagKept DEF Deleted
      <3>2. CASE node' # Deleted
        BY <1>8, <3>2 DEF FanOut, Step, Holds, FlagHasOwner
      <3> QED  BY <3>1, <3>2
    <2> QED
      BY <1>8, <2>1, <2>2, <2>3, OwnersKept DEF FanOut, Deleted, Step, Holds, Owner, EmptyHanded
  <1>9. CASE Release(r)
    <2>1. Shape' /\ Rest(r)
      BY <1>9 DEF Release, Rest, Step
    <2>2. OnPath(r)' /\ EmptyHanded(r)'
      BY <1>9 DEF Release, Step, OnPath, EmptyHanded
    <2>3. FlagHasOwner'
      BY <1>9, <2>1, FlagKept DEF Release, Step, Holds, FlagHasOwner
    <2> QED
      BY <1>9, <2>1, <2>2, <2>3, OwnersKept DEF Release, Step, Holds, Owner, EmptyHanded
  <1> QED
    BY <1>1, <1>2, <1>3, <1>4, <1>5, <1>6, <1>7, <1>8, <1>9 DEF Work

(* A request comes in or is woken up, empty-handed. *)
LEMMA OpenIInv ==
    ASSUME IInv, NEW r \in Requests, NEW k \in Kinds, Lookup(r, k) \/ Miss(r, k)
    PROVE  IInv'
  <1> USE DEF IInv, Shape, Nodes, Reqs, Kinds, Steps
  <1>0. ~req[r].updating
    BY DEF Lookup, Miss, Opens, EmptyHanded
  <1>1. CASE Lookup(r, k)
    <2>1. Shape' /\ Rest(r)
      BY <1>1, IdleType DEF Lookup, Rest
    <2>2. req'[r].pc = "read" /\ ~req'[r].updating
      BY <1>1 DEF Lookup, Idle
    <2>3. FlagHasOwner'
      BY <1>0, <1>1, <2>1, FlagKept DEF Lookup, Holds
    <2> QED
      BY <1>1, <2>1, <2>2, <2>3, OwnersKept DEF Lookup, OnPath, EmptyHanded
  <1>2. CASE Miss(r, k)
    <2> DEFINE takes == CacheLock /\ ~node.updating
    <2>1. node' \in Nodes /\ node'.updating = (node.updating \/ takes)
      BY <1>2 DEF Miss
    <2>2. /\ req' = [req EXCEPT ![r] = req'[r]] /\ req'[r] \in Reqs
          /\ req'[r].kind = "get" /\ req'[r].pc \in {"wait", "fetch"}
          /\ req'[r].pc = "wait" <=> CacheLock /\ node.updating
          /\ req'[r].updating = takes
      BY <1>2, IdleType DEF Miss, Idle
    <2>3. Shape' /\ Rest(r)
      BY <1>2, <2>1, <2>2 DEF Miss, Rest
    <2>4. OnPath(r)' /\ EmptyHanded(r)'
      BY <2>2 DEF OnPath, EmptyHanded
    <2>5. CASE takes
      <3>1. node'.lockTime = now /\ req'[r].lockTime = now
        BY <1>2, <2>5 DEF Miss, Idle
      <3>2. FlagHasOwner'
        BY <2>2, <2>3, <2>5, <3>1, FlagKept
      <3> QED
        BY <1>2, <2>1, <2>2, <2>3, <2>4, <2>5, <3>1, <3>2, OwnersKept DEF Miss
    <2>6. CASE ~takes
      <3>1. node'.lockTime = node.lockTime
        BY <1>2, <2>6 DEF Miss
      <3>2. FlagHasOwner'
        BY <1>0, <2>1, <2>3, <2>6, <3>1, FlagKept DEF Holds
      <3> QED
        BY <1>2, <2>1, <2>2, <2>3, <2>4, <2>6, <3>1, <3>2, OwnersKept DEF Miss
    <2> QED  BY <2>5, <2>6
  <1> QED  BY <1>1, <1>2

LEMMA NextIInv == IInv /\ [Next]_vars => IInv'
  <1> SUFFICES ASSUME IInv, [Next]_vars PROVE IInv'
    OBVIOUS
  <1>1. CASE UNCHANGED vars
    BY <1>1 DEF vars, IInv, Shape, FlagHasOwner, OnPath, EmptyHanded, Owner, Holds
  <1>2. CASE Tick \/ GoStale \/ PathHard \/ PathSoft
    <2>1. Shape'
      <3>1. CASE Tick
        BY <3>1 DEF Tick, IInv, Shape
      <3>2. CASE GoStale \/ PathSoft
        BY <3>2 DEF GoStale, PathSoft, IInv, Shape, Nodes
      <3>3. CASE PathHard
        BY <3>3 DEF PathHard, Deleted, IInv, Shape, Nodes
      <3> QED  BY <1>2, <3>1, <3>2, <3>3
    <2>2. /\ req' = req
          /\ \/ ~node'.updating /\ hard'
             \/ /\ node'.updating = node.updating /\ node'.lockTime = node.lockTime
                /\ hard' = hard
      BY <1>2 DEF Tick, GoStale, PathHard, PathSoft, Deleted, IInv, Shape, Nodes
    <2>3. FlagHasOwner'
      BY <2>2 DEF IInv, FlagHasOwner, Holds
    <2> QED
      BY <2>1, <2>2, <2>3 DEF IInv, OnPath, EmptyHanded, Owner
  <1> QED  BY <1>1, <1>2, WorkIInv, OpenIInv DEF Next

LEMMA InvariantIInv == Spec => []IInv
  BY InitIInv, NextIInv, PTL DEF Spec

(* Node and requests keep their shape, and no purge goes on as another kind. *)
THEOREM LockTypeCorrect == Spec => []TypeOK
  <1>1. IInv => TypeOK
    BY DEF IInv, Shape, Nodes, Reqs, OnPath, TypeOK
  <1> QED  BY <1>1, InvariantIInv, PTL

(* Whatever early return exact_purge or exact_purge_soft takes, and whoever  *)
(* deletes the node meanwhile, the updating flag is never left without a     *)
(* live request that holds it.                                               *)
THEOREM FlagNeverLeaks == Spec => []FlagHasOwner
  <1>1. IInv => FlagHasOwner
    BY DEF IInv
  <1> QED  BY <1>1, InvariantIInv, PTL

(* With proxy_cache_lock and proxy_cache_use_stale updating, no number of    *)
(* soft purges, by key or by path, sends two requests to the upstream.       *)
THEOREM OneRefreshAtATime == Spec => []SingleRefresh
  <1>1. IInv => SingleRefresh
    BY DEF IInv, Owner, SingleRefresh
  <1> QED  BY <1>1, InvariantIInv, PTL
=============================================================================
