----------------------- MODULE CachePurgeSerialProofs -----------------------
(***************************************************************************)
(* Theorems about CachePurge for behaviours in which the handlers of       *)
(* different workers do not overlap: every behaviour of a server with one  *)
(* worker is one.  Requests, log phases, evictions, failures and crashes   *)
(* still come in any order between the steps of a handler.                 *)
(***************************************************************************)
EXTENDS CachePurgeProofs

Serial == \A v, w \in Workers : v # w => run[v] = Idle \/ run[w] = Idle
OneWorker == \A v, w \in Workers : v = w

NoExact == \A req \in Purges : req.kind # "exact"
StableTags == \A p \in Paths : \A T, U \in TagsFor[p] : T = U

Starts(w) ==
    \/ \E p \in Paths : \E T \in TagsFor[p] : Rename(w, p, T)
    \/ \E req \in Purges : \/ TagPurge(w, req) \/ WildPurge(w, req)
                           \/ AllPurge(w, req) \/ ExactOpen(w, req)
    \/ ScanStart(w)

(* A handler that does not overlap with another one takes a step. *)
OthersIdle(w) == \A v \in Workers : v # w => run[v] = Idle /\ run'[v] = Idle

(* A step between or beside the handlers. *)
Aside ==
    \/ \E w \in Workers, p \in Paths :
          Hit(w, p) \/ \E T \in TagsFor[p] : NotStored(w, p, T)
    \/ \E l \in logs : LogHandler(l)
    \/ \E p \in Paths : Evict(p)
    \/ UNCHANGED vars

LEMMA HandlerOthers ==
    ASSUME StateOK, RunOK, NEW w \in Workers, HandlerStep(w)
    PROVE  run[w].pc # "idle" /\ \A v \in Workers : v # w => run'[v] = run[v]
  <1>1. CASE NodeUpdate(w) \/ ScanEntry(w) \/ ScanParse(w) \/ ScanStore(w) \/ ScanDone(w)
               \/ Respond(w)
    BY <1>1, OutsideDoes DEF NodeUpdate, ScanEntry, ScanParse, ScanStore, ScanDone, Respond
  <1>2. CASE Visit(w) \/ Stat(w) \/ Mark(w) \/ Unlink(w) \/ SoftHeader(w) \/ SoftNode(w)
               \/ DropEntry(w) \/ Exhausted(w)
    BY ZenonT(60), <1>2, VisitDoes, StatDoes, MarkDoes, UnlinkDoes, SoftHeaderDoes, SoftNodeDoes,
       DropEntryDoes, ExhaustedDoes DEF Stays
  <1>3. CASE OpenedMark(w) \/ OpenedUnlink(w) \/ OwnEntry(w) \/ OpenedSoft(w)
               \/ OpenedHeader(w) \/ OpenedExpire(w) \/ Fanout(w)
    BY ZenonT(60), <1>3, OpenedMarkDoes, OpenedUnlinkDoes, OwnEntryDoes, OpenedSoftDoes, OpenedHeaderDoes,
       OpenedExpireDoes, FanoutDoes DEF Stays
  <1> QED  BY <1>1, <1>2, <1>3 DEF HandlerStep

LEMMA StartOthers ==
    ASSUME StateOK, RunOK, NEW w \in Workers, Starts(w)
    PROVE  /\ run[w] = Idle /\ run'[w].pc # "idle"
           /\ \A v \in Workers : v # w => run'[v] = run[v]
  <1>1. ASSUME NEW p \in Paths, NEW T \in TagsFor[p], Rename(w, p, T)
        PROVE  run[w] = Idle /\ run'[w].pc # "idle"
    BY <1>1 DEF Rename, RunOK
  <1>2. ASSUME ScanStart(w)
        PROVE  run[w] = Idle /\ run'[w].pc # "idle"
    BY <1>2 DEF ScanStart, RunOK
  <1>3. ASSUME NEW req \in Purges,
               TagPurge(w, req) \/ WildPurge(w, req) \/ AllPurge(w, req) \/ ExactOpen(w, req)
        PROVE  /\ run[w] = Idle /\ run'[w].pc # "idle"
               /\ \A v \in Workers : v # w => run'[v] = run[v]
    BY <1>3, StartDoes DEF Collects
  <1> QED  BY <1>1, <1>2, <1>3, OutsideDoes DEF Starts

LEMMA SerialSteps ==
    ASSUME StateOK, RunOK, Serial, Serial', [Next]_vars
    PROVE  \/ Aside
           \/ \E w \in Workers : Crash(w)
           \/ \E w \in Workers : OthersIdle(w) /\ (Starts(w) \/ HandlerStep(w))
  <1>1. ASSUME NEW w \in Workers, HandlerStep(w)
        PROVE  OthersIdle(w)
    BY <1>1, HandlerOthers, Values DEF OthersIdle, Serial
  <1>2. ASSUME NEW w \in Workers, Starts(w)
        PROVE  OthersIdle(w)
    BY <1>2, StartOthers, Values DEF OthersIdle, Serial
  <1>3. CASE UNCHANGED vars
    BY <1>3 DEF Aside
  <1>4. CASE (\E l \in logs : LogHandler(l)) \/ (\E p \in Paths : Evict(p))
    BY <1>4 DEF Aside
  <1>5. ASSUME NEW w \in Workers,
               \/ \E p \in Paths : Hit(w, p)
               \/ \E p \in Paths : \E T \in TagsFor[p] : NotStored(w, p, T)
        PROVE  Aside
    BY <1>5 DEF Aside
  <1>6. CASE Next
    <2>1. CASE \E w \in Workers : Starts(w) \/ HandlerStep(w) \/ Crash(w)
      BY <1>1, <1>2, <2>1
    <2> QED  BY <1>4, <1>5, <1>6, <2>1 DEF Next, Starts
  <1> QED  BY <1>3, <1>6

-----------------------------------------------------------------------------
(* The header of a file and its node. *)

(* A handler is between the two writes. *)
Lag(p) == \E w \in Workers : /\ run[w].pc \in {"node", "expire", "opened_expire"}
                             /\ run[w].path = p

Agree(p) == OnDisk(p) /\ node[p].exists /\ ~Lag(p) => disk[p].fresh = node[p].fresh

Written(w) ==
    /\ run[w].pc = "node" /\ OnDisk(run[w].path) => disk[run[w].path].fresh
    /\ run[w].pc \in {"expire", "opened_expire"} /\ OnDisk(run[w].path) =>
          ~disk[run[w].path].fresh

FreshInv == (\A p \in Paths : Agree(p)) /\ (\A w \in Workers : Written(w))

LagSteps == {"node", "expire", "opened_expire"}

(* A handler that is not between the two writes, before or after its step. *)
LEMMA FreshSame ==
    ASSUME FreshInv, UNCHANGED <<disk, node>>, NEW w \in Workers, OthersIdle(w),
           run[w].pc \notin LagSteps, run'[w].pc \notin LagSteps
    PROVE  FreshInv'
  BY Values DEF FreshInv, Agree, Written, Lag, LagSteps, OthersIdle, OnDisk

(* A handler that works on one path. *)
LEMMA FreshAt ==
    ASSUME FreshInv, NEW w \in Workers, OthersIdle(w), NEW p \in Paths,
           \A q \in Paths : q # p => disk'[q] = disk[q] /\ node'[q] = node[q],
           run[w].pc \in LagSteps => run[w].path = p,
           run'[w].pc \in LagSteps => run'[w].path = p,
           Written(w)', Agree(p)'
    PROVE  FreshInv'
  <1>1. ASSUME NEW q \in Paths, q # p PROVE Agree(q)'
    <2>1. ~Lag(q)
      BY <1>1, Values DEF Lag, LagSteps, OthersIdle
    <2> QED  BY <1>1, <2>1 DEF FreshInv, Agree, OnDisk
  <1>2. ASSUME NEW v \in Workers, v # w PROVE Written(v)'
    BY <1>2, Values DEF Written, OthersIdle
  <1> QED  BY <1>1, <1>2 DEF FreshInv

LEMMA FreshStart ==
    ASSUME StateOK, RunOK, FreshInv, NEW w \in Workers, OthersIdle(w), Starts(w)
    PROVE  FreshInv'
  <1>0. run[w].pc \notin LagSteps
    BY StartOthers, Values DEF LagSteps
  <1>1. ASSUME NEW p \in Paths, NEW T \in TagsFor[p], Rename(w, p, T)
        PROVE  FreshInv'
    <2>1. /\ run'[w] = [pc |-> "node", path |-> p, tags |-> T]
          /\ disk'[p] = [v |-> version + 1, tags |-> T, fresh |-> TRUE]
          /\ \A q \in Paths : q # p => disk'[q] = disk[q] /\ node'[q] = node[q]
      BY <1>1 DEF Rename, RunOK, StateOK
    <2>2. disk'[p].fresh /\ run'[w].pc = "node" /\ run'[w].path = p
      BY <2>1
    <2>3. Lag(p)' /\ Written(w)'
      BY <2>2 DEF Lag, Written
    <2>4. Agree(p)'
      BY <2>3 DEF Agree
    <2> QED  BY <1>0, <2>1, <2>2, <2>3, <2>4, FreshAt
  <1>2. CASE ScanStart(w)
    <2>1. run'[w].pc = "scan" /\ UNCHANGED <<disk, node>>
      BY <1>2 DEF ScanStart, RunOK, cache
    <2> QED  BY <1>0, <2>1, FreshSame DEF LagSteps
  <1>3. ASSUME NEW req \in Purges,
               TagPurge(w, req) \/ WildPurge(w, req) \/ AllPurge(w, req) \/ ExactOpen(w, req)
        PROVE  FreshInv'
    <2>1. run'[w].pc \notin LagSteps /\ UNCHANGED <<disk, node>>
      BY <1>3, StartDoes DEF Collects, cache, LagSteps
    <2> QED  BY <1>0, <2>1, FreshSame
  <1> QED  BY <1>1, <1>2, <1>3 DEF Starts

LEMMA FreshStep ==
    ASSUME StateOK, RunOK, FreshInv, NEW w \in Workers, OthersIdle(w), HandlerStep(w)
    PROVE  FreshInv'
  <1>1. CASE NodeUpdate(w)
    <2>1. run[w].pc = "node" /\ run[w].path \in Paths
      BY <1>1, HandlerCases DEF NodeUpdate, Storing
    <2>p. PICK p \in Paths : p = run[w].path
      BY <2>1
    <2>2. run'[w] = Idle /\ disk' = disk
      BY <1>1 DEF NodeUpdate, RunOK
    <2>3. /\ node'[p].fresh
          /\ \A q \in Paths : q # p => node'[q] = node[q]
      BY <1>1, <2>1, <2>p DEF NodeUpdate, StateOK
    <2>4. OnDisk(p) => disk[p].fresh
      BY <2>1, <2>p DEF FreshInv, Written
    <2>5. disk[p].fresh \in BOOLEAN /\ node'[p].fresh \in BOOLEAN
      BY <1>1, <2>1, <2>p DEF StateOK, Contents, NodeUpdate
    <2>6. Agree(p)'
      BY <2>2, <2>3, <2>4, <2>5 DEF Agree, OnDisk
    <2>7. Written(w)'
      BY <2>2, Values DEF Written
    <2> QED  BY <2>1, <2>p, <2>2, <2>3, <2>6, <2>7, FreshAt, Values DEF LagSteps
  <1>2. CASE ScanEntry(w) \/ ScanParse(w) \/ ScanStore(w) \/ ScanDone(w) \/ Respond(w)
    <2>1. run[w].pc \notin LagSteps /\ UNCHANGED <<disk, node>>
      BY <1>2 DEF ScanEntry, ScanParse, ScanStore, ScanDone, Respond, cache, LagSteps
    <2>2. run'[w].pc \in {"idle", "node", "scan", "entry", "parsed"}
      BY <1>2, OutsideDoes
    <2>3. run'[w].pc # "node"
      BY <1>2 DEF ScanEntry, ScanParse, ScanStore, ScanDone, Respond, RunOK, Become, Idle
    <2> QED  BY <2>1, <2>2, <2>3, FreshSame DEF LagSteps
  <1>3. CASE Visit(w) \/ Stat(w) \/ DropEntry(w) \/ Exhausted(w) \/ OwnEntry(w)
               \/ OpenedSoft(w) \/ Fanout(w)
    <2>1. UNCHANGED <<disk, node>>
      BY <1>3 DEF Visit, Stat, DropEntry, Exhausted, OwnEntry, OpenedSoft, Fanout, cache
    <2>2. run[w].pc \notin LagSteps /\ run'[w].pc \notin LagSteps
      BY ZenonT(60), <1>3, VisitDoes, StatDoes, DropEntryDoes, ExhaustedDoes, OwnEntryDoes,
         OpenedSoftDoes, FanoutDoes DEF LagSteps, EndsAlone
    <2> QED  BY <2>1, <2>2, FreshSame
  <1>4. ASSUME NEW p \in Paths,
               \A q \in Paths : q # p => disk'[q] = disk[q] /\ node'[q] = node[q],
               ~OnDisk(p)' \/ ~node'[p].exists,
               run[w].pc \notin LagSteps, run'[w].pc \notin LagSteps
        PROVE  FreshInv'
    BY <1>4, FreshAt DEF Agree, Written, LagSteps
  <1>5. CASE Mark(w)
    <2>1. run[w].path \in Paths /\ run[w].pc = "mark" /\ run'[w].pc = "unlink" /\ disk' = disk
      BY <1>5, MarkDoes DEF RunOK, OnPath
    <2>2. node' = IF Lookup(run[w].path) THEN MarkNodeDeleted(run[w].path) ELSE node
      BY <1>5 DEF Mark
    <2>3. /\ ~node'[run[w].path].exists
          /\ \A q \in Paths : q # run[w].path => node'[q] = node[q]
      BY <2>1, <2>2 DEF Lookup, MarkNodeDeleted, NoNode, StateOK
    <2> QED  BY <1>4, <2>1, <2>3 DEF LagSteps
  <1>6. CASE OpenedMark(w)
    <2>1. /\ run[w].path \in Paths /\ run[w].pc = "opened" /\ disk' = disk
          /\ run'[w].pc \in {"opened_unlink", "done"}
      BY <1>6, OpenedMarkDoes
    <2>2. node' = IF Lookup(run[w].path) THEN MarkNodeDeleted(run[w].path) ELSE node
      BY <1>6 DEF OpenedMark
    <2>3. /\ ~node'[run[w].path].exists
          /\ \A q \in Paths : q # run[w].path => node'[q] = node[q]
      BY <2>1, <2>2 DEF Lookup, MarkNodeDeleted, NoNode, StateOK
    <2> QED  BY <1>4, <2>1, <2>3 DEF LagSteps
  <1>7. CASE Unlink(w) \/ OpenedUnlink(w)
    <2>1. /\ run[w].path \in Paths /\ run[w].pc \in {"unlink", "opened_unlink"}
          /\ run'[w].pc \notin LagSteps
          /\ disk' = [disk EXCEPT ![run[w].path] = NoContent] \/ disk' = disk
      BY <1>7, UnlinkDoes, OpenedUnlinkDoes DEF LagSteps, Unlink
    <2>2. node' = node
      BY <1>7 DEF Unlink, OpenedUnlink
    <2>3. CASE disk' = [disk EXCEPT ![run[w].path] = NoContent]
      <3>1. PICK p \in Paths : p = run[w].path
        BY <2>1
      <3>2. ~OnDisk(p)' /\ \A q \in Paths : q # p => disk'[q] = disk[q]
        BY <2>3, <3>1 DEF OnDisk, NoContent, StateOK
      <3> QED  BY <1>4, <2>1, <2>2, <3>2 DEF LagSteps
    <2>4. CASE disk' = disk
      BY <2>1, <2>2, <2>4, FreshSame DEF LagSteps
    <2> QED  BY <2>1, <2>3, <2>4
  <1>8. CASE SoftHeader(w) \/ OpenedHeader(w)
    <2>1. /\ run[w].path \in Paths /\ run[w].pc \in {"header", "opened_header"}
          /\ run'[w].path = run[w].path
          /\ \/ /\ disk' = [disk EXCEPT ![run[w].path].fresh = FALSE]
                /\ run'[w].pc \in {"expire", "opened_expire"}
             \/ disk' = disk /\ run'[w].pc \notin LagSteps
      BY <1>8, SoftHeaderDoes, OpenedHeaderDoes DEF LagSteps, Same
    <2>2. node' = node
      BY <1>8 DEF SoftHeader, OpenedHeader
    <2>3. CASE disk' = disk /\ run'[w].pc \notin LagSteps
      BY <2>1, <2>2, <2>3, FreshSame DEF LagSteps
    <2>4. CASE /\ disk' = [disk EXCEPT ![run[w].path].fresh = FALSE]
               /\ run'[w].pc \in {"expire", "opened_expire"}
      <3>1. /\ ~disk'[run[w].path].fresh
            /\ \A q \in Paths : q # run[w].path => disk'[q] = disk[q]
        BY <2>1, <2>4 DEF StateOK, Contents
      <3>2. Lag(run[w].path)' /\ Written(w)'
        BY <2>1, <2>4, <3>1 DEF Lag, Written
      <3>3. Agree(run[w].path)'
        BY <2>1, <2>4 DEF Agree, Lag
      <3> QED  BY <2>1, <2>2, <3>1, <3>2, <3>3, FreshAt DEF LagSteps
    <2> QED  BY <2>1, <2>3, <2>4
  <1>9. CASE SoftNode(w) \/ OpenedExpire(w)
    <2>1. /\ run[w].path \in Paths /\ run[w].pc \in {"expire", "opened_expire"}
          /\ run'[w].pc \notin LagSteps /\ disk' = disk
      BY <1>9, SoftNodeDoes, OpenedExpireDoes DEF LagSteps, RunOK, OnPath, OnOpened
    <2>p. PICK p \in Paths : p = run[w].path
      BY <2>1
    <2>2. \/ node' = node /\ ~node[p].exists
          \/ node' = [node EXCEPT ![p].fresh = FALSE]
      BY <1>9, <2>p DEF SoftNode, OpenedExpire, Lookup
    <2>3. /\ ~node'[p].exists \/ ~node'[p].fresh
          /\ \A q \in Paths : q # p => node'[q] = node[q]
      BY <2>p, <2>2 DEF StateOK
    <2>4. OnDisk(p) => ~disk[p].fresh
      BY <2>1, <2>p DEF FreshInv, Written
    <2>5. /\ disk[p].fresh \in BOOLEAN
          /\ node'[p].fresh \in BOOLEAN
      BY ZenonT(60), <1>9, <2>p, <2>2 DEF StateOK, Contents
    <2>6. Agree(p)'
      BY <2>1, <2>3, <2>4, <2>5 DEF Agree, OnDisk
    <2>7. Written(w)'
      BY <2>1 DEF Written, LagSteps
    <2> QED  BY <2>1, <2>p, <2>3, <2>6, <2>7, FreshAt DEF LagSteps
  <1> QED
    BY <1>1, <1>2, <1>3, <1>5, <1>6, <1>7, <1>8, <1>9 DEF HandlerStep

LEMMA NextFresh ==
    ASSUME "crash" \notin Faults
    PROVE  TypeOK /\ FreshInv /\ Serial /\ Serial' /\ [Next]_vars => FreshInv'
  <1> SUFFICES ASSUME StateOK, RunOK, FreshInv, Serial, Serial', [Next]_vars
               PROVE  FreshInv'
    BY TypeSplit
  <1>1. ASSUME UNCHANGED <<disk, node, run>>
        PROVE  FreshInv'
    BY <1>1 DEF FreshInv, Agree, Written, Lag, OnDisk
  <1>2. ASSUME NEW p \in Paths, Evict(p)
        PROVE  FreshInv'
    <2>1. run' = run /\ ~OnDisk(p)' /\ \A q \in Paths : q # p => disk'[q] = disk[q] /\ node'[q] = node[q]
      BY <1>2 DEF Evict, OnDisk, NoContent, StateOK
    <2>2. \A q \in Paths : Agree(q)'
      BY <2>1 DEF FreshInv, Agree, Lag, OnDisk
    <2>3. ASSUME NEW w \in Workers PROVE Written(w)'
      <3>1. run[w].pc \in LagSteps => run[w].path \in Paths
        BY HandlerCases DEF Storing, RunOK, LagSteps, OnPath, OnOpened
      <3> QED  BY <2>1, <3>1 DEF FreshInv, Written, OnDisk, LagSteps
    <2> QED  BY <2>2, <2>3 DEF FreshInv
  <1>3. CASE Aside
    <2>1. CASE UNCHANGED vars
      BY <1>1, <2>1 DEF vars
    <2>2. ASSUME \/ \E w \in Workers, p \in Paths :
                       Hit(w, p) \/ \E T \in TagsFor[p] : NotStored(w, p, T)
                 \/ \E l \in logs : LogHandler(l)
          PROVE  UNCHANGED <<disk, node, run>>
      BY <2>2 DEF Hit, NotStored, LogHandler, cache
    <2> QED  BY <1>1, <1>2, <1>3, <2>1, <2>2 DEF Aside
  <1>4. \A w \in Workers : ~Crash(w)
    BY DEF Crash
  <1> QED  BY <1>3, <1>4, SerialSteps, FreshStart, FreshStep

(* Where handlers do not overlap and no worker dies inside one, the header   *)
(* of a file and its node agree on whether the file is fresh whenever no     *)
(* handler is running: soft purges, also those that cannot write a header,   *)
(* rewritten files and evictions in any order (soft_header, soft_path,       *)
(* exact_purge_soft).                                                        *)
THEOREM FreshnessAlwaysAgrees ==
    "crash" \notin Faults => (Spec /\ []Serial => []FreshnessAgrees)
  <1> SUFFICES ASSUME "crash" \notin Faults
               PROVE  Spec /\ []Serial => []FreshnessAgrees
    OBVIOUS
  <1>1. Init => FreshInv
    <2> SUFFICES ASSUME Init PROVE FreshInv
      OBVIOUS
    <2>1. ASSUME NEW p \in Paths, OnDisk(p)
          PROVE  disk[p].fresh /\ node[p].fresh
      <3>1. disk[p] = NoContent \/ disk[p] \in [v : {1}, tags : SUBSET Tags, fresh : {TRUE}]
        BY DEF Init
      <3>2. disk[p] # NoContent
        BY <2>1 DEF OnDisk, NoContent
      <3>3. disk[p].fresh \in {TRUE}
        BY <3>1, <3>2
      <3>4. disk[p].fresh
        BY <3>3
      <3>5. node[p].fresh
        BY <2>1 DEF Init
      <3> QED  BY <3>4, <3>5
    <2>2. TypeOK
      BY InitType
    <2>3. \A p \in Paths : disk[p].fresh \in BOOLEAN /\ node[p].fresh \in BOOLEAN
      BY <2>2 DEF TypeOK, Contents
    <2> QED  BY <2>1, <2>3 DEF FreshInv, Agree, Written, Init, Idle
  <1>2. FreshInv => FreshnessAgrees
    BY Values DEF FreshInv, Agree, Lag, FreshnessAgrees
  <1>3. TypeOK /\ FreshInv /\ Serial /\ Serial' /\ [Next]_vars => FreshInv'
    BY NextFresh
  <1> QED  BY <1>1, <1>2, <1>3, CacheTypeCorrect, PTL DEF Spec

-----------------------------------------------------------------------------
(* The entries of the index. *)

Excused(w, p) ==
    /\ run[w].pc \in {"scan", "entry", "parsed"}
    /\ p \in run[w].todo \/ (run[w].pc # "scan" /\ p = run[w].path)

(* A stored file that nothing is under way for has its entry, once the scan  *)
(* is over or has passed it.                                                 *)
Present ==
    /\ complete => \A p \in Paths : OnDisk(p) /\ Settled(p) => index[p].present
    /\ \A w \in Workers : run[w].pc \in {"scan", "entry", "parsed"} =>
          \A p \in Paths : OnDisk(p) /\ Settled(p) => index[p].present \/ Excused(w, p)

(* Entries are dropped only where there is no file. *)
Absence ==
    \A w \in Workers :
        /\ run[w].pc \in {"drop", "own_entry"} => ~OnDisk(run[w].path)
        /\ run[w].pc = "parsed" /\ run[w].got = "nothing" => ~OnDisk(run[w].path)

PresentInv == Present /\ Absence

ScanSteps == {"scan", "entry", "parsed"}

(* An exact purge drops the entry of its file also when the unlink failed. *)
CleanExact == NoExact \/ "unlink" \notin Faults

(* What has to be shown of a step of a handler that is alone. *)
LEMMA PresentOwn ==
    ASSUME NEW w \in Workers, OthersIdle(w),
           complete' => \A p \in Paths : OnDisk(p)' /\ Settled(p)' => index'[p].present,
           run'[w].pc \in ScanSteps =>
              \A p \in Paths : OnDisk(p)' /\ Settled(p)' => index'[p].present \/ Excused(w, p)',
           run'[w].pc \in {"drop", "own_entry"} => ~OnDisk(run[w].path)',
           run'[w].pc = "parsed" /\ run'[w].got = "nothing" => ~OnDisk(run[w].path)'
    PROVE  PresentInv'
  <1>1. ASSUME NEW v \in Workers, v # w PROVE run'[v].pc = "idle"
    BY <1>1, Values DEF OthersIdle
  <1>2. Present'
    BY <1>1 DEF Present, ScanSteps
  <1>3. Absence'
    BY <1>1 DEF Absence
  <1> QED  BY <1>2, <1>3 DEF PresentInv

LEMMA SettledBefore ==
    ASSUME NEW w \in Workers, OthersIdle(w), NEW p \in Paths, Settled(p)',
           logs \subseteq logs', lost \subseteq lost', run[w].pc = "node" => run[w].path # p
    PROVE  Settled(p)
  BY Values DEF Settled, OthersIdle

(* The steps of a purge that leave the index alone. *)
LEMMA PresentPurge ==
    ASSUME PresentInv, NEW w \in Workers, OthersIdle(w),
           UNCHANGED <<index, complete, lost>>, logs \subseteq logs',
           \A p \in Paths : OnDisk(p)' => OnDisk(p),
           run[w].pc # "node", run'[w].pc \notin ScanSteps,
           run'[w].pc \in {"drop", "own_entry"} => ~OnDisk(run[w].path)'
    PROVE  PresentInv'
  <1>1. ASSUME NEW p \in Paths, complete', OnDisk(p)', Settled(p)'
        PROVE  index'[p].present
    <2>1. Settled(p)
      BY <1>1, SettledBefore
    <2> QED  BY <1>1, <2>1 DEF PresentInv, Present
  <1> QED  BY <1>1, PresentOwn DEF ScanSteps

LEMMA PresentDrop ==
    ASSUME StateOK, RunOK, PresentInv, NEW w \in Workers, OthersIdle(w),
           DropEntry(w) \/ OwnEntry(w)
    PROVE  PresentInv'
  <1>1. /\ run[w].pc \in {"drop", "own_entry"} /\ run[w].path \in Paths
        /\ run'[w].pc \in {"next", "fanout", "done"} /\ disk' = disk
    BY DropEntryDoes, OwnEntryDoes DEF RunOK, OnPath, OnOpened, EndsAlone
  <1>2. /\ ~OnDisk(run[w].path)
        /\ \A p \in Paths : p # run[w].path => index'[p] = index[p]
        /\ complete' = complete /\ logs' = logs /\ lost' = lost
    BY <1>1, OwnEntryDoes DEF PresentInv, Absence, DropEntry, OwnEntry, history, StateOK
  <1>3. ASSUME NEW p \in Paths, complete', OnDisk(p)', Settled(p)'
        PROVE  index'[p].present
    <2>1. Settled(p) /\ OnDisk(p)
      BY <1>1, <1>2, <1>3, SettledBefore DEF OnDisk
    <2> QED  BY <1>1, <1>2, <1>3, <2>1 DEF PresentInv, Present
  <1> QED  BY <1>1, <1>3, PresentOwn DEF ScanSteps

LEMMA PresentPurges ==
    ASSUME CleanExact, StateOK, RunOK, PurgeInvs, PresentInv, NEW w \in Workers, OthersIdle(w),
           \/ Visit(w) \/ Stat(w) \/ Mark(w) \/ Unlink(w) \/ SoftHeader(w) \/ SoftNode(w)
           \/ Exhausted(w) \/ OpenedMark(w) \/ OpenedUnlink(w) \/ OpenedSoft(w)
           \/ OpenedHeader(w) \/ OpenedExpire(w) \/ Fanout(w) \/ Respond(w)
    PROVE  PresentInv'
  <1>1. UNCHANGED <<index, complete, lost>> /\ logs \subseteq logs'
    BY DEF Visit, Stat, Mark, Unlink, SoftHeader, SoftNode, Exhausted, OpenedMark,
           OpenedUnlink, OpenedSoft, OpenedHeader, OpenedExpire, Fanout, Respond, history
  <1>2. ASSUME NEW p \in Paths, disk' = [disk EXCEPT ![p] = NoContent]
        PROVE  ~OnDisk(p)' /\ \A q \in Paths : OnDisk(q)' => OnDisk(q)
    BY <1>2 DEF OnDisk, NoContent, StateOK
  <1>3. ASSUME NEW p \in Paths, disk' = [disk EXCEPT ![p].fresh = FALSE]
        PROVE  \A q \in Paths : OnDisk(q)' => OnDisk(q)
    BY <1>3 DEF OnDisk, Contents, StateOK
  <1>4. ASSUME disk' = disk, run'[w].pc \notin {"drop", "own_entry"} \cup ScanSteps,
               run[w].pc # "node"
        PROVE  PresentInv'
    BY <1>1, <1>4, PresentPurge DEF OnDisk
  <1>5. CASE Visit(w)
    BY <1>4, <1>5, VisitDoes DEF ScanSteps
  <1>6. CASE Stat(w)
    <2>1. /\ run'[w].path = run[w].path /\ run[w].pc # "node" /\ run'[w].pc \notin ScanSteps
          /\ run'[w].pc \in {"drop", "own_entry"} => ~OnDisk(run[w].path)
          /\ disk' = disk
      BY <1>6, StatDoes DEF ScanSteps, Same
    <2> QED  BY <1>1, <2>1, PresentPurge DEF OnDisk
  <1>7. CASE Mark(w)
    BY <1>4, <1>7, MarkDoes DEF ScanSteps
  <1>8. CASE Unlink(w)
    <2>1. PICK p \in Paths : p = run[w].path
      BY <1>8, UnlinkDoes
    <2>2. /\ run'[w].path = p /\ run[w].pc # "node" /\ run'[w].pc \notin ScanSteps
          /\ \/ disk' = [disk EXCEPT ![p] = NoContent]
             \/ /\ disk' = disk
                /\ run'[w].pc \in {"drop", "own_entry"} => ~OnDisk(p)
      BY <1>8, <2>1, UnlinkDoes DEF ScanSteps, Same, Stays, Purging
    <2> QED  BY <1>1, <1>2, <2>2, PresentPurge DEF OnDisk
  <1>9. CASE SoftHeader(w)
    <2>1. PICK p \in Paths : p = run[w].path
      BY <1>9, SoftHeaderDoes
    <2>2. /\ run'[w].path = p /\ run[w].pc # "node" /\ run'[w].pc \notin ScanSteps
          /\ \/ disk' = [disk EXCEPT ![p].fresh = FALSE] /\ run'[w].pc = "expire"
             \/ /\ disk' = disk
                /\ run'[w].pc \in {"drop", "own_entry"} => ~OnDisk(p)
      BY <1>9, <2>1, SoftHeaderDoes DEF ScanSteps, Same, Stays, Purging
    <2> QED  BY <1>1, <1>3, <2>2, PresentPurge DEF OnDisk
  <1>10. CASE SoftNode(w)
    BY <1>4, <1>10, SoftNodeDoes DEF ScanSteps
  <1>11. CASE Exhausted(w)
    BY <1>4, <1>11, ExhaustedDoes DEF ScanSteps
  <1>12. CASE OpenedMark(w)
    BY <1>4, <1>12, OpenedMarkDoes DEF ScanSteps
  <1>13. CASE OpenedUnlink(w)
    <2>1. PICK p \in Paths : p = run[w].path
      BY <1>13, OpenedUnlinkDoes
    <2>2. run[w] \in Purging /\ run[w].req.kind = "exact"
      BY <1>13, OpenedUnlinkDoes DEF Stays, PurgeInvs, PurgeInv, Loop, Steps, OnOpened
    <2>3. "unlink" \notin Faults
      BY <2>2 DEF CleanExact, NoExact, Purging
    <2>4. /\ run'[w].path = p /\ run[w].pc # "node" /\ run'[w].pc \notin ScanSteps
          /\ \/ disk' = [disk EXCEPT ![p] = NoContent]
             \/ disk' = disk /\ ~OnDisk(p)
      BY <1>13, <2>1, <2>3, OpenedUnlinkDoes DEF ScanSteps, Same
    <2> QED  BY <1>1, <1>2, <2>4, PresentPurge DEF OnDisk
  <1>14. CASE OpenedSoft(w)
    BY <1>4, <1>14, OpenedSoftDoes DEF ScanSteps
  <1>15. CASE OpenedHeader(w)
    <2>1. PICK p \in Paths : p = run[w].path
      BY <1>15, OpenedHeaderDoes
    <2>2. /\ run[w].pc # "node" /\ run'[w].pc \notin {"drop", "own_entry"} \cup ScanSteps
          /\ disk' = [disk EXCEPT ![p].fresh = FALSE] \/ disk' = disk
      BY <1>15, <2>1, OpenedHeaderDoes DEF ScanSteps
    <2> QED  BY <1>1, <1>3, <1>4, <2>2, PresentPurge
  <1>16. CASE OpenedExpire(w)
    BY <1>4, <1>16, OpenedExpireDoes DEF ScanSteps
  <1>17. CASE Fanout(w)
    BY <1>4, <1>17, FanoutDoes DEF ScanSteps, EndsAlone
  <1>18. CASE Respond(w)
    <2>1. run'[w].pc = "idle" /\ disk' = disk /\ run[w].pc # "node"
      BY <1>18, RespondDoes, Values DEF Respond
    <2> QED  BY <1>4, <2>1 DEF ScanSteps
  <1> QED
    BY <1>5, <1>6, <1>7, <1>8, <1>9, <1>10, <1>11, <1>12, <1>13, <1>14, <1>15, <1>16, <1>17,
       <1>18

LEMMA PresentStart ==
    ASSUME StateOK, RunOK, PresentInv, NEW w \in Workers, OthersIdle(w), Starts(w)
    PROVE  PresentInv'
  <1>0. run[w] = Idle /\ run[w].pc # "node"
    BY StartOthers, Values
  <1>1. ASSUME NEW p \in Paths, NEW T \in TagsFor[p], Rename(w, p, T)
        PROVE  PresentInv'
    <2>1. /\ run'[w].pc = "node" /\ run'[w].path = p
          /\ \A q \in Paths : q # p => disk'[q] = disk[q]
          /\ UNCHANGED <<index, complete, logs, lost>>
      BY <1>1 DEF Rename, RunOK, StateOK, history
    <2>2. ASSUME NEW q \in Paths, complete', OnDisk(q)', Settled(q)'
          PROVE  index'[q].present
      <3>1. q # p
        BY <2>1, <2>2 DEF Settled
      <3>2. Settled(q) /\ OnDisk(q)
        BY <1>0, <2>1, <2>2, <3>1, SettledBefore DEF OnDisk
      <3> QED  BY <2>1, <2>2, <3>2 DEF PresentInv, Present
    <2> QED  BY <2>1, <2>2, PresentOwn DEF ScanSteps
  <1>2. CASE ScanStart(w)
    <2>1. /\ run'[w].pc = "scan" /\ run'[w].todo = Paths /\ complete' = complete
          /\ ~complete
      BY <1>2 DEF ScanStart, RunOK
    <2>2. \A p \in Paths : Excused(w, p)'
      BY <2>1 DEF Excused
    <2> QED  BY <2>1, <2>2, PresentOwn
  <1>3. ASSUME NEW req \in Purges,
               TagPurge(w, req) \/ WildPurge(w, req) \/ AllPurge(w, req) \/ ExactOpen(w, req)
        PROVE  PresentInv'
    <2>1. /\ run'[w].pc \notin {"drop", "own_entry"} \cup ScanSteps
          /\ UNCHANGED <<disk, index, complete, logs, lost>>
      BY <1>3, StartDoes DEF Collects, cache, history, ScanSteps
    <2> QED  BY <1>0, <2>1, PresentPurge DEF OnDisk
  <1> QED  BY <1>1, <1>2, <1>3 DEF Starts

(* The scan has passed a path once it is stored, or was seen without a file. *)
LEMMA PresentScan ==
    ASSUME StateOK, RunOK, PresentInv, NEW w \in Workers, OthersIdle(w),
           NodeUpdate(w) \/ ScanEntry(w) \/ ScanParse(w) \/ ScanStore(w) \/ ScanDone(w)
    PROVE  PresentInv'
  <1> USE DEF cache, history
  <1>1. CASE NodeUpdate(w)
    <2>1. /\ run[w].pc = "node" /\ run[w].path \in Paths /\ run'[w].pc = "idle"
          /\ UNCHANGED <<disk, index, complete, lost>>
      BY <1>1, HandlerCases, Values DEF NodeUpdate, Storing, RunOK
    <2>2. logs' = logs \cup {[w |-> w, path |-> run[w].path, tags |-> run[w].tags]}
      BY <1>1 DEF NodeUpdate
    <2>3. ASSUME NEW q \in Paths, complete', OnDisk(q)', Settled(q)'
          PROVE  index'[q].present
      <3>1. q # run[w].path
        <4> DEFINE l == [w |-> w, path |-> run[w].path, tags |-> run[w].tags]
        <4>1. l \in logs' /\ l.path = run[w].path
          BY <2>2
        <4> HIDE DEF l
        <4> QED  BY <2>3, <4>1 DEF Settled
      <3>2. Settled(q) /\ OnDisk(q)
        BY <2>1, <2>2, <2>3, <3>1, SettledBefore DEF OnDisk
      <3> QED  BY <2>1, <2>3, <3>2 DEF PresentInv, Present
    <2> QED  BY <2>1, <2>3, PresentOwn DEF ScanSteps
  <1>2. ASSUME UNCHANGED <<disk, index, complete, logs>>, lost \subseteq lost',
               run[w].pc # "node",
               run'[w].pc = "parsed" /\ run'[w].got = "nothing" => ~OnDisk(run[w].path)',
               run'[w].pc \in ScanSteps \cup {"idle"},
               run'[w].pc \in ScanSteps => run[w].pc \in ScanSteps /\
                  \A p \in Paths : Excused(w, p) /\ OnDisk(p) =>
                     Excused(w, p)' \/ p \in lost' \/ index[p].present
        PROVE  PresentInv'
    <2>1. ASSUME NEW p \in Paths, OnDisk(p)', Settled(p)'
          PROVE  OnDisk(p) /\ Settled(p)
      BY <1>2, <2>1, SettledBefore DEF OnDisk
    <2>2. complete' => \A p \in Paths : OnDisk(p)' /\ Settled(p)' => index'[p].present
      BY <1>2, <2>1 DEF PresentInv, Present
    <2>3. run'[w].pc \in ScanSteps =>
            \A p \in Paths : OnDisk(p)' /\ Settled(p)' => index'[p].present \/ Excused(w, p)'
      BY <1>2, <2>1 DEF PresentInv, Present, ScanSteps, Settled
    <2> QED  BY <1>2, <2>2, <2>3, PresentOwn DEF ScanSteps
  <1>3. CASE ScanEntry(w)
    <2>1. PICK p \in run[w].todo :
             \/ /\ run' = [run EXCEPT ![w] =
                             IF OnDisk(p)
                             THEN [pc |-> "entry", todo |-> run[w].todo \ {p}, path |-> p]
                             ELSE [pc |-> "scan", todo |-> run[w].todo \ {p}]]
                /\ lost' = lost
             \/ /\ run' = [run EXCEPT ![w] = [pc |-> "scan", todo |-> run[w].todo \ {p}]]
                /\ lost' = IF OnDisk(p) /\ ~index[p].present THEN lost \cup {p} ELSE lost
      BY <1>3 DEF ScanEntry
    <2>2. run[w].pc = "scan" /\ UNCHANGED <<disk, index, complete, logs>>
      BY <1>3 DEF ScanEntry
    <2>3. lost \subseteq lost'
      BY <2>1
    <2>4. \/ run'[w].pc = "entry" /\ run'[w].todo = run[w].todo \ {p} /\ run'[w].path = p
          \/ /\ run'[w].pc = "scan" /\ run'[w].todo = run[w].todo \ {p}
             /\ OnDisk(p) => p \in lost' \/ index[p].present
      BY <2>1 DEF RunOK
    <2> QED  BY <1>2, <2>2, <2>3, <2>4 DEF Excused, ScanSteps
  <1>4. CASE ScanParse(w)
    <2>1. /\ run[w].pc = "entry" /\ UNCHANGED <<disk, index, complete, logs, lost>>
          /\ run'[w].pc = "parsed" /\ run'[w].todo = run[w].todo
          /\ run'[w].path = run[w].path
          /\ run'[w].got = "nothing" => ~OnDisk(run[w].path)
      BY <1>4 DEF ScanParse, RunOK
    <2>2. run'[w].got = "nothing" => ~OnDisk(run[w].path)'
      BY <2>1 DEF OnDisk
    <2> QED  BY <1>2, <2>1, <2>2 DEF Excused, ScanSteps
  <1>5. CASE ScanStore(w)
    <2>1. /\ run[w].pc = "parsed" /\ UNCHANGED <<disk, complete, logs>> /\ run[w].path \in Paths
          /\ run[w] \in Scanning
      BY <1>5, HandlerCases DEF ScanStore
    <2>2. /\ \A q \in Paths : q # run[w].path => index'[q] = index[q]
          /\ lost \ {run[w].path} \subseteq lost'
          /\ \/ index'[run[w].path].present
             \/ run[w].got = "nothing"
             \/ run[w].path \in lost'
          /\ \/ run'[w].pc = "scan" /\ run'[w].todo = run[w].todo
             \/ run'[w].pc = "idle"
      <3>1. CASE /\ index' = [index EXCEPT ![run[w].path] =
                                [present |-> TRUE, tags |-> run[w].tags]]
                 /\ lost' = lost \ {run[w].path}
                 /\ run' = [run EXCEPT ![w] = [pc |-> "scan", todo |-> run[w].todo]]
        <4>1. run'[w].pc = "scan" /\ run'[w].todo = run[w].todo
          BY <3>1 DEF RunOK
        <4>2. index'[run[w].path].present
          BY <2>1, <3>1 DEF StateOK
        <4> QED  BY <3>1, <4>1, <4>2 DEF StateOK
      <3>2. CASE /\ run[w].got # "file"
                 /\ index' = [index EXCEPT ![run[w].path] = Absent]
                 /\ lost' = IF run[w].got = "error" THEN lost \cup {run[w].path} ELSE lost
                 /\ run' = [run EXCEPT ![w] = [pc |-> "scan", todo |-> run[w].todo]]
        <4>1. run'[w].pc = "scan" /\ run'[w].todo = run[w].todo
          BY <3>2 DEF RunOK
        <4>2. run[w].got \in {"nothing", "error"}
          BY <2>1, <3>2 DEF Scanning
        <4> QED  BY <3>2, <4>1, <4>2 DEF StateOK
      <3>3. CASE /\ index' = [index EXCEPT ![run[w].path] = Absent]
                 /\ lost' = lost \cup {run[w].path}
                 /\ run' = [run EXCEPT ![w] = Idle]
        <4>1. run'[w].pc = "idle"
          BY <3>3, Values DEF RunOK
        <4> QED  BY <3>3, <4>1 DEF StateOK
      <3> QED  BY <1>5, <3>1, <3>2, <3>3 DEF ScanStore
    <2>3. ASSUME NEW p \in Paths, OnDisk(p)', Settled(p)'
          PROVE  \/ index'[p].present
                 \/ p # run[w].path /\ OnDisk(p) /\ Settled(p)
      <3>1. OnDisk(p)
        BY <2>1, <2>3 DEF OnDisk
      <3>2. CASE p = run[w].path
        BY <2>1, <2>2, <2>3, <3>1, <3>2 DEF PresentInv, Absence, Settled
      <3>3. CASE p # run[w].path
        <4>1. p \notin lost
          BY <2>2, <2>3, <3>3 DEF Settled
        <4>2. Settled(p)
          BY <2>1, <2>3, <4>1, Values DEF Settled, OthersIdle
        <4> QED  BY <3>1, <3>3, <4>2
      <3> QED  BY <3>2, <3>3
    <2>4. complete' => \A p \in Paths : OnDisk(p)' /\ Settled(p)' => index'[p].present
      BY <2>1, <2>2, <2>3 DEF PresentInv, Present
    <2>5. ASSUME run'[w].pc \in ScanSteps, NEW p \in Paths, OnDisk(p)', Settled(p)'
          PROVE  index'[p].present \/ Excused(w, p)'
      <3>1. run'[w].pc = "scan" /\ run'[w].todo = run[w].todo
        BY <2>2, <2>5 DEF ScanSteps
      <3>2. CASE p # run[w].path /\ OnDisk(p) /\ Settled(p)
        <4>1. index[p].present \/ Excused(w, p)
          BY <2>1, <3>2 DEF PresentInv, Present
        <4> QED  BY <2>2, <3>1, <3>2, <4>1 DEF Excused
      <3> QED  BY <2>3, <2>5, <3>2
    <2>6. run'[w].pc \in {"scan", "idle"}
      BY <2>2
    <2> QED  BY <2>4, <2>5, <2>6, PresentOwn DEF ScanSteps
  <1>6. CASE ScanDone(w)
    <2>1. /\ run[w].pc = "scan" /\ run[w].todo = {} /\ run'[w].pc = "idle"
          /\ UNCHANGED <<disk, index, logs, lost>>
      BY <1>6, Values DEF ScanDone, RunOK
    <2>2. ASSUME NEW p \in Paths, OnDisk(p)', Settled(p)'
          PROVE  index'[p].present
      <3>1. OnDisk(p) /\ Settled(p)
        BY <2>1, <2>2, SettledBefore DEF OnDisk
      <3>2. index[p].present \/ Excused(w, p)
        BY <2>1, <3>1 DEF PresentInv, Present
      <3> QED  BY <2>1, <3>2 DEF Excused
    <2> QED  BY <2>1, <2>2, PresentOwn DEF ScanSteps
  <1> QED  BY <1>1, <1>3, <1>4, <1>5, <1>6

(* A path that becomes settled without a handler: its log phase has written  *)
(* the entry, or it is lost.                                                 *)
LEMMA PresentAside ==
    ASSUME StateOK, RunOK, PresentInv, Aside \/ \E w \in Workers : Crash(w)
    PROVE  PresentInv'
  <1>1. ASSUME complete' = complete,
               \A p \in Paths : OnDisk(p)' => OnDisk(p),
               \A v \in Workers : run'[v] = run[v] \/ run'[v].pc = "idle",
               \A p \in Paths : Settled(p)' => Settled(p) \/ index'[p].present,
               \A p \in Paths : index[p].present => index'[p].present \/ ~Settled(p)'
        PROVE  PresentInv'
    <2>1. complete' => \A p \in Paths : OnDisk(p)' /\ Settled(p)' => index'[p].present
      BY <1>1 DEF PresentInv, Present
    <2>2. ASSUME NEW v \in Workers, run'[v].pc \in {"scan", "entry", "parsed"},
                 NEW p \in Paths, OnDisk(p)', Settled(p)'
          PROVE  index'[p].present \/ Excused(v, p)'
      <3>1. run'[v] = run[v]
        BY <1>1, <2>2
      <3>2. CASE Settled(p)
        <4>1. index[p].present \/ Excused(v, p)
          BY <1>1, <2>2, <3>1, <3>2 DEF PresentInv, Present
        <4> QED  BY <1>1, <2>2, <3>1, <4>1 DEF Excused
      <3> QED  BY <1>1, <2>2, <3>2
    <2>3. ASSUME NEW v \in Workers
          PROVE  /\ run'[v].pc \in {"drop", "own_entry"} => ~OnDisk(run[v].path)'
                 /\ run'[v].pc = "parsed" /\ run'[v].got = "nothing" =>
                       ~OnDisk(run[v].path)'
      <3>1. run'[v].pc \in {"drop", "own_entry", "parsed"} =>
               run'[v] = run[v] /\ run[v].path \in Paths
        BY <1>1, HandlerCases DEF RunOK, OnPath, OnOpened
      <3> QED  BY <1>1, <3>1 DEF PresentInv, Absence, OnDisk
    <2> QED  BY <2>1, <2>2, <2>3 DEF PresentInv, Present, Absence
  <1>2. ASSUME NEW l \in logs, LogHandler(l)
        PROVE  PresentInv'
    <2>1. l.path \in Paths /\ UNCHANGED <<disk, complete, run>> /\ logs' = logs \ {l}
      BY <1>2 DEF LogHandler, cache, StateOK
    <2>2. \/ /\ index' = [index EXCEPT ![l.path] = [present |-> TRUE, tags |-> l.tags]]
             /\ lost' = lost \ {l.path}
          \/ /\ index' = [index EXCEPT ![l.path] = Absent]
             /\ lost' = lost \cup {l.path}
      BY <1>2 DEF LogHandler
    <2>3. /\ index'[l.path].present \/ l.path \in lost'
          /\ \A p \in Paths : p # l.path => index'[p] = index[p] /\ (p \in lost' <=> p \in lost)
      BY <2>1, <2>2 DEF StateOK
    <2>4. ASSUME NEW p \in Paths, Settled(p)'
          PROVE  /\ Settled(p) \/ index'[p].present
                 /\ index[p].present => index'[p].present
      <3>1. CASE p = l.path
        BY <2>3, <2>4, <3>1 DEF Settled
      <3>2. CASE p # l.path
        BY <2>1, <2>3, <2>4, <3>2 DEF Settled
      <3> QED  BY <3>1, <3>2
    <2> QED  BY <1>1, <2>1, <2>4 DEF OnDisk
  <1>3. ASSUME UNCHANGED <<index, complete, run, lost>>, logs \subseteq logs',
               \A p \in Paths : OnDisk(p)' => OnDisk(p)
        PROVE  PresentInv'
    BY <1>1, <1>3 DEF Settled
  <1>4. ASSUME NEW p \in Paths, Evict(p)
        PROVE  PresentInv'
    <2>1. \A q \in Paths : OnDisk(q)' => OnDisk(q)
      BY <1>4 DEF Evict, OnDisk, NoContent, StateOK
    <2> QED  BY <1>3, <1>4, <2>1 DEF Evict, history
  <1>5. ASSUME NEW w \in Workers, NEW p \in Paths,
               Hit(w, p) \/ \E T \in TagsFor[p] : NotStored(w, p, T)
        PROVE  PresentInv'
    BY <1>3, <1>5 DEF Hit, NotStored, cache, OnDisk
  <1>6. CASE UNCHANGED vars
    BY <1>3, <1>6 DEF vars, OnDisk
  <1>7. ASSUME NEW w \in Workers, Crash(w)
        PROVE  PresentInv'
    <2>1. /\ UNCHANGED <<disk, index, complete>> /\ run'[w].pc = "idle"
          /\ \A v \in Workers : v # w => run'[v] = run[v]
          /\ logs' = {l \in logs : l.w # w}
          /\ lost' = lost \cup {l.path : l \in {m \in logs : m.w = w}}
                          \cup (IF run[w].pc = "node" THEN {run[w].path} ELSE {})
      BY <1>7, Values DEF Crash, cache, Become, RunOK
    <2>2. ASSUME NEW p \in Paths, Settled(p)'
          PROVE  Settled(p)
      <3>1. p \notin lost' /\ p \notin lost
        BY <2>1, <2>2 DEF Settled
      <3>2. ASSUME NEW l \in logs PROVE l.path # p
        <4>1. CASE l.w = w
          BY <2>1, <3>1, <4>1
        <4>2. CASE l.w # w
          BY <2>1, <2>2, <4>2 DEF Settled
        <4> QED  BY <4>1, <4>2
      <3>3. ASSUME NEW v \in Workers, run[v].pc = "node" PROVE run[v].path # p
        <4>1. CASE v = w
          BY <2>1, <3>1, <3>3, <4>1
        <4>2. CASE v # w
          BY <2>1, <2>2, <3>3, <4>2 DEF Settled
        <4> QED  BY <4>1, <4>2
      <3> QED  BY <3>1, <3>2, <3>3 DEF Settled
    <2> QED  BY <1>1, <2>1, <2>2 DEF OnDisk
  <1> QED  BY <1>2, <1>4, <1>5, <1>6, <1>7 DEF Aside

LEMMA InitPresent == Init => PresentInv
  <1> SUFFICES ASSUME Init PROVE PresentInv
    OBVIOUS
  <1>1. \A w \in Workers : run[w].pc = "idle"
    BY DEF Init, Idle
  <1>2. ASSUME complete, NEW p \in Paths, OnDisk(p) PROVE index[p].present
    BY <1>2 DEF Init
  <1> QED  BY <1>1, <1>2 DEF PresentInv, Present, Absence

LEMMA NextPresent ==
    ASSUME CleanExact
    PROVE  TypeOK /\ PurgeInvs /\ PresentInv /\ Serial /\ Serial' /\ [Next]_vars => PresentInv'
  <1> SUFFICES ASSUME StateOK, RunOK, PurgeInvs, PresentInv, Serial, Serial', [Next]_vars
               PROVE  PresentInv'
    BY TypeSplit
  <1>1. ASSUME NEW w \in Workers, OthersIdle(w), HandlerStep(w)
        PROVE  PresentInv'
    BY <1>1, PresentScan, PresentDrop, PresentPurges DEF HandlerStep
  <1> QED  BY <1>1, PresentAside, PresentStart, SerialSteps

-----------------------------------------------------------------------------
(* The tags of files, entries and requests are those of the path's responses. *)

DiskTags == \A p \in Paths : OnDisk(p) => disk[p].tags \in TagsFor[p]
IndexTags == \A p \in Paths : index[p].present => index[p].tags \in TagsFor[p]
LogTags == \A l \in logs : l.tags \in TagsFor[l.path]
RunTags(w) ==
    /\ run[w].pc = "node" => run[w].tags \in TagsFor[run[w].path]
    /\ run[w].pc = "parsed" /\ run[w].got = "file" => run[w].tags \in TagsFor[run[w].path]

TagsInv == DiskTags /\ IndexTags /\ LogTags /\ \A w \in Workers : RunTags(w)

(* A handler only removes or expires files. *)
LEMMA HandlerFiles ==
    ASSUME StateOK, RunOK, NEW w \in Workers, HandlerStep(w)
    PROVE  \A p \in Paths : OnDisk(p)' => OnDisk(p) /\ disk'[p].tags = disk[p].tags
  <1>1. ASSUME NEW p \in Paths, disk' = [disk EXCEPT ![p] = NoContent]
        PROVE  \A q \in Paths : OnDisk(q)' => OnDisk(q) /\ disk'[q].tags = disk[q].tags
    BY <1>1 DEF OnDisk, NoContent, StateOK
  <1>2. ASSUME NEW p \in Paths, disk' = [disk EXCEPT ![p].fresh = FALSE]
        PROVE  \A q \in Paths : OnDisk(q)' => OnDisk(q) /\ disk'[q].tags = disk[q].tags
    BY <1>2 DEF OnDisk, Contents, StateOK
  <1>3. CASE Unlink(w)
    BY <1>1, <1>3, UnlinkDoes DEF OnDisk
  <1>4. CASE SoftHeader(w)
    BY <1>2, <1>4, SoftHeaderDoes DEF OnDisk
  <1>5. CASE OpenedUnlink(w)
    BY <1>1, <1>5, OpenedUnlinkDoes DEF OnDisk
  <1>6. CASE OpenedHeader(w)
    BY <1>2, <1>6, OpenedHeaderDoes DEF OnDisk
  <1>7. CASE disk' = disk
    BY <1>7 DEF OnDisk
  <1> QED
    BY <1>3, <1>4, <1>5, <1>6, <1>7
       DEF HandlerStep, NodeUpdate, ScanEntry, ScanParse, ScanStore, ScanDone, Visit, Stat,
           Mark, SoftNode, DropEntry, Exhausted, OpenedMark, OwnEntry, OpenedSoft,
           OpenedExpire, Fanout, Respond, cache

LEMMA IndexTagsAt ==
    ASSUME StateOK, IndexTags, NEW p \in Paths, NEW T, T \in TagsFor[p],
           \/ index' = [index EXCEPT ![p] = [present |-> TRUE, tags |-> T]]
           \/ index' = [index EXCEPT ![p] = Absent]
    PROVE  IndexTags'
  BY DEF IndexTags, StateOK, Absent

LEMMA HandlerIndexTags ==
    ASSUME StateOK, RunOK, TagsInv, NEW w \in Workers, HandlerStep(w)
    PROVE  IndexTags'
  <1>1. ASSUME NEW p \in Paths, index' = [index EXCEPT ![p] = Absent]
        PROVE  IndexTags'
    BY <1>1 DEF IndexTags, TagsInv, StateOK, Absent
  <1>2. CASE index' = index
    BY <1>2 DEF IndexTags, TagsInv
  <1>3. CASE ScanStore(w)
    <2>1. run[w].pc = "parsed" /\ run[w].path \in Paths
      BY <1>3, HandlerCases DEF ScanStore
    <2>2. CASE run[w].got = "file" /\ index' = [index EXCEPT ![run[w].path] =
                                            [present |-> TRUE, tags |-> run[w].tags]]
      BY <2>1, <2>2, IndexTagsAt DEF TagsInv, RunTags
    <2> QED  BY <1>1, <1>3, <2>1, <2>2 DEF ScanStore
  <1>4. CASE DropEntry(w)
    BY <1>1, <1>4, DropEntryDoes DEF DropEntry, RunOK, OnPath
  <1>5. CASE OwnEntry(w)
    <2>1. run[w].path \in Paths
      BY <1>5, OwnEntryDoes
    <2> QED  BY <1>1, <1>2, <1>5, <2>1 DEF OwnEntry
  <1> QED
    BY <1>2, <1>3, <1>4, <1>5
       DEF HandlerStep, NodeUpdate, ScanEntry, ScanParse, ScanDone, Visit, Stat, Mark, Unlink,
           SoftHeader, SoftNode, Exhausted, OpenedMark, OpenedUnlink, OpenedSoft,
           OpenedHeader, OpenedExpire, Fanout, Respond

LEMMA HandlerRunTags ==
    ASSUME StateOK, RunOK, TagsInv, NEW w \in Workers, HandlerStep(w)
    PROVE  RunTags(w)'
  <1>1. CASE ScanParse(w)
    <2>1. /\ run[w].path \in Paths /\ run'[w].pc = "parsed" /\ run'[w].path = run[w].path
          /\ run'[w].got = "file" => OnDisk(run[w].path)
          /\ run'[w].tags = disk[run[w].path].tags
      BY <1>1, HandlerCases DEF ScanParse, RunOK
    <2> QED  BY <2>1 DEF RunTags, TagsInv, DiskTags
  <1>2. CASE NodeUpdate(w) \/ ScanEntry(w) \/ ScanStore(w) \/ ScanDone(w) \/ Respond(w)
    <2>1. run'[w].pc # "node" /\ run'[w].pc # "parsed"
      BY <1>2 DEF NodeUpdate, ScanEntry, ScanStore, ScanDone, Respond, RunOK, Become, Idle
    <2> QED  BY <2>1 DEF RunTags
  <1>3. ASSUME run'[w] \in Purging
        PROVE  RunTags(w)'
    BY <1>3 DEF RunTags, Purging, OnPath, OnOpened
  <1>4. CASE Visit(w) \/ Stat(w) \/ Mark(w) \/ Unlink(w) \/ SoftHeader(w) \/ SoftNode(w)
               \/ DropEntry(w) \/ Exhausted(w)
    <2>1. run'[w] \in Purging
      BY <1>4, VisitDoes, StatDoes, MarkDoes, UnlinkDoes, SoftHeaderDoes, SoftNodeDoes,
         DropEntryDoes, ExhaustedDoes DEF Stays
    <2> QED  BY <1>3, <2>1
  <1>5. CASE OpenedMark(w) \/ OpenedUnlink(w) \/ OwnEntry(w) \/ OpenedSoft(w)
               \/ OpenedHeader(w) \/ OpenedExpire(w) \/ Fanout(w)
    <2>1. run'[w] \in Purging
      BY <1>5, OpenedMarkDoes, OpenedUnlinkDoes, OwnEntryDoes, OpenedSoftDoes,
         OpenedHeaderDoes, OpenedExpireDoes, FanoutDoes DEF Stays
    <2> QED  BY <1>3, <2>1
  <1> QED  BY <1>1, <1>2, <1>4, <1>5 DEF HandlerStep

LEMMA HandlerLogTags ==
    ASSUME NoExact, StateOK, RunOK, TagsInv, NEW w \in Workers, HandlerStep(w)
    PROVE  LogTags'
  <1>1. CASE NodeUpdate(w)
    <2>1. /\ logs' = logs \cup {[w |-> w, path |-> run[w].path, tags |-> run[w].tags]}
          /\ run[w].tags \in TagsFor[run[w].path]
      BY <1>1 DEF NodeUpdate, TagsInv, RunTags
    <2> QED  BY <2>1 DEF TagsInv, LogTags
  <1>2. CASE Respond(w)
    <2>1. run[w] \in Purging
      BY <1>2, HandlerCases DEF Respond, Steps
    <2>2. run[w].req.kind # "exact"
      BY <2>1 DEF NoExact, Purging
    <2> QED  BY <1>2, <2>2 DEF Respond, TagsInv, LogTags
  <1>3. CASE logs' = logs
    BY <1>3 DEF TagsInv, LogTags
  <1> QED
    BY <1>1, <1>2, <1>3
       DEF HandlerStep, ScanEntry, ScanParse, ScanStore, ScanDone, Visit, Stat, Mark, Unlink,
           SoftHeader, SoftNode, DropEntry, Exhausted, OpenedMark, OpenedUnlink, OwnEntry,
           OpenedSoft, OpenedHeader, OpenedExpire, Fanout, history

LEMMA NextTags ==
    ASSUME NoExact
    PROVE  TypeOK /\ TagsInv /\ [Next]_vars => TagsInv'
  <1> SUFFICES ASSUME StateOK, RunOK, TagsInv, [Next]_vars PROVE TagsInv'
    BY TypeSplit
  <1>1. ASSUME NEW w \in Workers, HandlerStep(w)
        PROVE  TagsInv'
    <2>1. DiskTags'
      BY <1>1, HandlerFiles DEF DiskTags, TagsInv
    <2>2. \A v \in Workers : RunTags(v)'
      BY <1>1, HandlerRunTags, HandlerOthers DEF TagsInv, RunTags
    <2> QED  BY <1>1, <2>1, <2>2, HandlerIndexTags, HandlerLogTags DEF TagsInv
  <1>2. ASSUME NEW w \in Workers, NEW p \in Paths, NEW T \in TagsFor[p], Rename(w, p, T)
        PROVE  TagsInv'
    <2>1. /\ run'[w] = [pc |-> "node", path |-> p, tags |-> T]
          /\ \A v \in Workers : v # w => run'[v] = run[v]
          /\ disk'[p].tags = T /\ \A q \in Paths : q # p => disk'[q] = disk[q]
          /\ UNCHANGED <<index, logs>>
      BY <1>2 DEF Rename, RunOK, StateOK, history
    <2>2. DiskTags'
      BY <2>1 DEF TagsInv, DiskTags, OnDisk
    <2>3. \A v \in Workers : RunTags(v)'
      BY <2>1 DEF TagsInv, RunTags
    <2> QED  BY <2>1, <2>2, <2>3 DEF TagsInv, IndexTags, LogTags
  <1>3. ASSUME NEW w \in Workers, UNCHANGED <<disk, index>>,
               \/ \E p \in Paths : Hit(w, p)
               \/ \E p \in Paths : \E T \in TagsFor[p] : NotStored(w, p, T)
        PROVE  TagsInv'
    <2>1. LogTags' /\ run' = run
      BY <1>3 DEF Hit, NotStored, TagsInv, LogTags, DiskTags
    <2> QED  BY <1>3, <2>1 DEF TagsInv, DiskTags, IndexTags, RunTags, OnDisk
  <1>4. ASSUME NEW w \in Workers, run'[w].pc \notin {"node", "parsed"},
               \A v \in Workers : v # w => run'[v] = run[v],
               UNCHANGED <<disk, index>>, logs' \subseteq logs
        PROVE  TagsInv'
    BY <1>4 DEF TagsInv, DiskTags, IndexTags, LogTags, RunTags, OnDisk
  <1>5. ASSUME NEW w \in Workers, NEW req \in Purges,
               TagPurge(w, req) \/ WildPurge(w, req) \/ AllPurge(w, req) \/ ExactOpen(w, req)
        PROVE  TagsInv'
    <2>1. run'[w].pc \notin {"node", "parsed"} /\ UNCHANGED <<disk, index, logs>>
      BY <1>5, StartDoes DEF Collects, cache, history
    <2> QED  BY <1>4, <1>5, <2>1, StartDoes
  <1>6. ASSUME NEW w \in Workers, ScanStart(w) \/ Crash(w)
        PROVE  TagsInv'
    <2>1. UNCHANGED <<disk, index>> /\ logs' \subseteq logs
      BY <1>6 DEF ScanStart, Crash, cache, history
    <2>2. run'[w].pc \notin {"node", "parsed"} /\ \A v \in Workers : v # w => run'[v] = run[v]
      BY <1>6, Values DEF ScanStart, Crash, Become, RunOK
    <2> QED  BY <1>4, <2>1, <2>2
  <1>7. ASSUME NEW l \in logs, LogHandler(l)
        PROVE  TagsInv'
    <2>1. l.path \in Paths /\ l.tags \in TagsFor[l.path]
      BY DEF StateOK, TagsInv, LogTags
    <2>2. \/ index' = [index EXCEPT ![l.path] = [present |-> TRUE, tags |-> l.tags]]
          \/ index' = [index EXCEPT ![l.path] = Absent]
      BY <1>7 DEF LogHandler
    <2>3. IndexTags'
      BY <2>1, <2>2, IndexTagsAt DEF TagsInv
    <2> QED  BY <1>7, <2>3 DEF LogHandler, TagsInv, DiskTags, LogTags, RunTags, OnDisk, cache
  <1>8. ASSUME NEW p \in Paths, Evict(p)
        PROVE  TagsInv'
    <2>1. DiskTags'
      BY <1>8 DEF Evict, TagsInv, DiskTags, OnDisk, NoContent, StateOK
    <2> QED  BY <1>8, <2>1 DEF Evict, TagsInv, IndexTags, LogTags, RunTags, history
  <1>9. CASE UNCHANGED vars
    BY <1>9 DEF vars, TagsInv, DiskTags, IndexTags, LogTags, RunTags, OnDisk
  <1>10. ASSUME NEW w \in Workers,
                \/ \E p \in Paths : Hit(w, p)
                \/ \E p \in Paths : \E T \in TagsFor[p] : NotStored(w, p, T)
         PROVE  UNCHANGED <<disk, index>>
    BY <1>10 DEF Hit, NotStored, cache
  <1>11. CASE Next
    <2>1. CASE \E w \in Workers, p \in Paths : \E T \in TagsFor[p] : Rename(w, p, T)
      BY <1>2, <2>1
    <2>2. CASE (\E l \in logs : LogHandler(l)) \/ (\E p \in Paths : Evict(p))
      BY <1>7, <1>8, <2>2
    <2> QED  BY <1>1, <1>3, <1>5, <1>6, <1>10, <1>11, <2>1, <2>2 DEF Next
  <1> QED  BY <1>9, <1>11

LEMMA InitTags == Init => TagsInv
  <1> SUFFICES ASSUME Init PROVE TagsInv
    OBVIOUS
  <1>1. DiskTags
    BY DEF Init, DiskTags, OnDisk
  <1>2. IndexTags
    BY <1>1 DEF Init, IndexTags, DiskTags, Absent
  <1>3. LogTags /\ \A w \in Workers : RunTags(w)
    BY DEF Init, LogTags, RunTags, Idle
  <1> QED  BY <1>1, <1>2, <1>3 DEF TagsInv

-----------------------------------------------------------------------------
(* What a request is about, and what it has collected. *)

LEMMA WorkerCases ==
    ASSUME StateOK, RunOK, [Next]_vars, NEW v \in Workers
    PROVE  \/ run'[v] = run[v]
           \/ run'[v].pc \notin Steps
           \/ \E req \in Purges : \/ TagPurge(v, req) \/ WildPurge(v, req)
                                  \/ AllPurge(v, req) \/ ExactOpen(v, req)
           \/ HandlerStep(v)
  <1>1. ASSUME NEW w \in Workers, w # v, Starts(w) \/ HandlerStep(w) \/ Crash(w)
        PROVE  run'[v] = run[v]
    BY <1>1, StartOthers, HandlerOthers, OutsideDoes
  <1>2. ASSUME Starts(v) \/ Crash(v)
        PROVE  \/ run'[v].pc \notin Steps
               \/ \E req \in Purges : \/ TagPurge(v, req) \/ WildPurge(v, req)
                                      \/ AllPurge(v, req) \/ ExactOpen(v, req)
    BY <1>2, OutsideDoes DEF Starts, Steps, OnPath, OnOpened
  <1>3. ASSUME Aside PROVE run' = run
    BY <1>3 DEF Aside, Hit, NotStored, LogHandler, Evict, vars
  <1>4. Aside \/ \E w \in Workers : Starts(w) \/ HandlerStep(w) \/ Crash(w)
    <2>1. CASE UNCHANGED vars
      BY <2>1 DEF Aside
    <2>2. CASE (\E l \in logs : LogHandler(l)) \/ (\E p \in Paths : Evict(p))
      BY <2>2 DEF Aside
    <2>3. CASE \E w \in Workers : \/ \E p \in Paths : Hit(w, p)
                                  \/ \E p \in Paths : \E T \in TagsFor[p] : NotStored(w, p, T)
      BY <2>3 DEF Aside
    <2> QED  BY <2>1, <2>2, <2>3 DEF Next, Starts
  <1> QED  BY <1>1, <1>2, <1>3, <1>4

(* A purge goes on: its request and what that is about stay, and so does     *)
(* what it has collected, except where it collects more.                     *)
LEMMA PurgeGoesOn ==
    ASSUME StateOK, RunOK, PurgeInvs, NEW w \in Workers, HandlerStep(w), run'[w].pc \in Steps
    PROVE  /\ run[w] \in Purging /\ run'[w] \in Purging
           /\ run[w].pc \in Steps /\ run[w].rc = "none" /\ run'[w].rc # "NOT_READY"
           /\ run'[w].req = run[w].req /\ run'[w].want = run[w].want
           /\ \/ run'[w].snap = run[w].snap /\ run'[w].phase = run[w].phase
              \/ Exhausted(w) /\ run[w].req.kind = "wild"
              \/ run[w].req.kind = "exact" /\ (Fanout(w) \/ OwnEntry(w))
  <1>1. ~(NodeUpdate(w) \/ ScanEntry(w) \/ ScanParse(w) \/ ScanStore(w) \/ ScanDone(w)
            \/ Respond(w))
    BY OutsideDoes DEF Steps, OnPath, OnOpened
  <1>2. ASSUME run[w].pc \in Steps \ {"done"}
        PROVE  run[w].rc = "none"
    BY <1>2 DEF PurgeInvs, PurgeInv, Loop
  <1>3. CASE Visit(w)
    BY <1>2, <1>3, VisitDoes DEF Stays, Steps
  <1>4. CASE Stat(w) \/ Mark(w) \/ SoftNode(w) \/ DropEntry(w)
    BY ZenonT(60), <1>2, <1>4, StatDoes, MarkDoes, SoftNodeDoes, DropEntryDoes DEF Stays, Same, Steps, OnPath
  <1>5. CASE Unlink(w)
    BY <1>2, <1>5, UnlinkDoes DEF Stays, Same, Steps, OnPath
  <1>6. CASE SoftHeader(w)
    BY <1>2, <1>6, SoftHeaderDoes DEF Stays, Same, Steps, OnPath
  <1>7. CASE Exhausted(w)
    BY <1>2, <1>7, ExhaustedDoes DEF Stays, Same, Steps
  <1>8. CASE OpenedMark(w) \/ OpenedSoft(w) \/ OpenedExpire(w)
    BY <1>2, <1>8, OpenedMarkDoes, OpenedSoftDoes, OpenedExpireDoes
       DEF Stays, Same, Steps, OnOpened
  <1>9. CASE OpenedUnlink(w) \/ OpenedHeader(w)
    BY <1>2, <1>9, OpenedUnlinkDoes, OpenedHeaderDoes DEF Stays, Same, Steps, OnOpened
  <1>10. CASE Fanout(w) \/ OwnEntry(w)
    <2>1. /\ run[w].pc \in {"fanout", "own_entry"} /\ Stays(w)
          /\ run'[w].rc = run[w].rc \/ run'[w].rc = "OK"
          /\ run'[w].req = run[w].req /\ run'[w].want = run[w].want
      BY <1>10, FanoutDoes, OwnEntryDoes DEF Same, EndsAlone
    <2>2. run[w].req.kind = "exact"
      BY <2>1 DEF PurgeInvs, PurgeInv, Loop, Steps, OnOpened
    <2> QED  BY <1>2, <1>10, <2>1, <2>2 DEF Stays, Steps, OnOpened
  <1> QED
    BY <1>1, <1>3, <1>4, <1>5, <1>6, <1>7, <1>8, <1>9, <1>10 DEF HandlerStep

TagWants(h) ==
    h.pc \in Steps /\ h.req.kind = "tag" /\ h.rc # "NOT_READY" => h.want \subseteq h.snap

TagWanted == \A w \in Workers : TagWants(run[w])

LEMMA TagStart ==
    ASSUME StateOK, RunOK, IndexCovers, NEW w \in Workers, NEW req \in Purges,
           TagPurge(w, req) \/ WildPurge(w, req) \/ AllPurge(w, req) \/ ExactOpen(w, req)
    PROVE  TagWants(run[w])'
  <1> SUFFICES ASSUME req.kind = "tag", complete
               PROVE  run'[w].want \subseteq run'[w].snap
    BY StartDoes DEF TagWants, Collects, Fresh
  <1>1. run'[w].todo = {p \in Paths : index[p].tags \cap req.arg # {}}
    BY StartDoes DEF Collects
  <1>2. /\ run'[w].snap = Versions({p \in run'[w].todo : OnDisk(p)})
        /\ run'[w].want = Versions({p \in Paths : OnDisk(p) /\ Settled(p) /\ About(req, p)})
    BY StartDoes DEF Fresh
  <1>3. ASSUME NEW p \in Paths, OnDisk(p), Settled(p), About(req, p)
        PROVE  p \in run'[w].todo
    BY <1>1, <1>3 DEF IndexCovers, About
  <1> QED  BY <1>2, <1>3 DEF Versions

LEMMA NextTagWanted ==
    TypeOK /\ PurgeInvs /\ IndexCovers /\ TagWanted /\ [Next]_vars => TagWanted'
  <1> SUFFICES ASSUME StateOK, RunOK, PurgeInvs, IndexCovers, TagWanted, [Next]_vars,
                      NEW w \in Workers
               PROVE  TagWants(run[w])'
    BY TypeSplit DEF TagWanted
  <1>1. CASE run'[w] = run[w] \/ run'[w].pc \notin Steps
    BY <1>1 DEF TagWanted, TagWants
  <1>2. ASSUME NEW req \in Purges,
               TagPurge(w, req) \/ WildPurge(w, req) \/ AllPurge(w, req) \/ ExactOpen(w, req)
        PROVE  TagWants(run[w])'
    BY <1>2, TagStart
  <1>3. CASE HandlerStep(w) /\ run'[w].pc \in Steps
    BY <1>3, PurgeGoesOn DEF TagWanted, TagWants
  <1> QED  BY <1>1, <1>2, <1>3, WorkerCases

(* Where handlers do not overlap, every response for a page carries the same *)
(* tags and no exact purge arrives, a bootstrapped index has every settled   *)
(* file under all of its tags, through scans, log phases, purges of the      *)
(* other kinds, evictions, failed allocations, failed unlinks and crashes.   *)
(* Excepted are the files whose last indexing failed: a log phase that found *)
(* no room or died with its worker, a scan that could not read the file or   *)
(* its directory and still published the zone (scan_recursive, process_file).*)
THEOREM IndexAlwaysCovers ==
    NoExact /\ StableTags => (Spec /\ []Serial => []IndexCovers)
  <1> SUFFICES ASSUME NoExact, StableTags
               PROVE  Spec /\ []Serial => []IndexCovers
    OBVIOUS
  <1>1. PresentInv /\ TagsInv => IndexCovers
    BY DEF PresentInv, Present, TagsInv, DiskTags, IndexTags, StableTags, IndexCovers
  <1>2. TypeOK /\ PurgeInvs /\ PresentInv /\ Serial /\ Serial' /\ [Next]_vars => PresentInv'
    BY NextPresent DEF CleanExact
  <1>3. TypeOK /\ TagsInv /\ [Next]_vars => TagsInv'
    BY NextTags
  <1> QED
    BY <1>1, <1>2, <1>3, InitPresent, InitTags, InitPurgeInvs, NextPurgeInvs,
       CacheTypeCorrect, PTL DEF Spec

(* Under the same conditions a tag purge that answers has removed or expired *)
(* every file with one of its tags that was settled when it started,         *)
(* whatever fails, is stored or is evicted meanwhile (cache_index_purge).    *)
(* A file whose last indexing had failed is not settled.                     *)
THEOREM TagPurgesAreComplete ==
    NoExact /\ StableTags => (Spec /\ []Serial => []TagPurgeComplete)
  <1> SUFFICES ASSUME NoExact, StableTags
               PROVE  Spec /\ []Serial => []TagPurgeComplete
    OBVIOUS
  <1>1. Init => TagWanted
    BY DEF Init, TagWanted, TagWants, Idle, Steps, OnPath, OnOpened
  <1>2. TypeOK /\ PurgeInvs /\ TagWanted => TagPurgeComplete
    <2> SUFFICES ASSUME TypeOK, PurgeInvs, TagWanted, NEW w \in Workers,
                        Answered(run[w], {"tag"}, {"OK", "NOT_FOUND"})
                 PROVE  \A pv \in run[w].want : Gone(run[w], pv)
      BY DEF TagPurgeComplete
    <2>1. run[w].want \subseteq run[w].snap
      BY DEF TagWanted, TagWants, Answered, Steps
    <2>2. run[w] \in Purging /\ run[w].phase = "index"
      BY TypeSplit, HandlerCases DEF Answered, Steps, PurgeInvs, PurgeInv, Loop, Purging
    <2>3. Answered(run[w], Kinds, PurgeAnswers)
      BY DEF Answered, PurgeAnswers, Kinds
    <2> QED  BY <2>1, <2>2, <2>3, AnsweredGone
  <1>3. Spec /\ []Serial => []IndexCovers
    BY IndexAlwaysCovers
  <1> QED
    BY <1>1, <1>2, <1>3, NextTagWanted, InitPurgeInvs, NextPurgeInvs, CacheTypeCorrect, PTL
       DEF Spec

-----------------------------------------------------------------------------
(* Wildcard and exact purges do not ask whether the zone is complete, so     *)
(* they are complete only when it is.                                        *)

LEMMA StaysComplete == complete /\ [Next]_vars => complete'
  <1> SUFFICES ASSUME complete, [Next]_vars PROVE complete'
    OBVIOUS
  <1>1. ASSUME NEW w \in Workers, HandlerStep(w)
        PROVE  complete'
    BY <1>1 DEF HandlerStep, NodeUpdate, ScanEntry, ScanParse, ScanStore, ScanDone, Visit, Stat,
                Mark, Unlink, SoftHeader, SoftNode, DropEntry, Exhausted, OpenedMark,
                OpenedUnlink, OwnEntry, OpenedSoft, OpenedHeader, OpenedExpire, Fanout, Respond
  <1>2. ASSUME NEW w \in Workers,
               \/ \E p \in Paths : \E T \in TagsFor[p] : Rename(w, p, T)
               \/ \E p \in Paths : Hit(w, p)
               \/ \E p \in Paths : \E T \in TagsFor[p] : NotStored(w, p, T)
               \/ \E req \in Purges : \/ TagPurge(w, req) \/ WildPurge(w, req)
                                       \/ AllPurge(w, req) \/ ExactOpen(w, req)
               \/ ScanStart(w)
               \/ Crash(w)
        PROVE  complete'
    BY <1>2 DEF Rename, Hit, NotStored, TagPurge, WildPurge, AllPurge, ExactOpen, ScanStart, Crash
  <1>3. CASE (\E l \in logs : LogHandler(l)) \/ (\E p \in Paths : Evict(p)) \/ UNCHANGED vars
    BY <1>3 DEF LogHandler, Evict, vars
  <1> QED  BY <1>1, <1>2, <1>3 DEF Next

(* What a request wants are versions of the moment, of files with an entry. *)
LEMMA WantsAre ==
    ASSUME StateOK, Used, PresentInv, complete, NEW req \in Purges, NEW h, Fresh(h, req),
           NEW p \in Paths, NEW n \in 1..MaxVersion, <<p, n>> \in h.want
    PROVE  /\ OnDisk(p) /\ About(req, p) /\ index[p].present
           /\ n = disk[p].v /\ n <= version
  <1> DEFINE S == {q \in Paths : OnDisk(q) /\ Settled(q) /\ About(req, q)}
  <1>1. S \in SUBSET Paths /\ n \in Nat /\ h.want = Versions(S)
    BY DEF Fresh
  <1>2. p \in S /\ n = disk[p].v
    <2> HIDE DEF S
    <2> QED  BY <1>1, VersionsAre
  <1> QED  BY <1>2 DEF PresentInv, Present, Used

WildWants(h) ==
    h.pc \in Steps /\ h.req.kind = "wild" =>
        \A p \in Paths, v \in 1..MaxVersion : <<p, v>> \in h.want =>
            /\ v <= version
            /\ IF h.phase = "index" THEN <<p, v>> \in h.snap ELSE Away(h, p, v)

WildWanted == \A w \in Workers : WildWants(run[w])

LEMMA WildStart ==
    ASSUME "collect" \notin Faults, StateOK, RunOK, PurgeInvs, PresentInv, complete, NEW w \in Workers,
           NEW req \in Purges,
           TagPurge(w, req) \/ WildPurge(w, req) \/ AllPurge(w, req) \/ ExactOpen(w, req)
    PROVE  WildWants(run[w])'
  <1> SUFFICES ASSUME req.kind = "wild", NEW p \in Paths, NEW n \in 1..MaxVersion,
                      <<p, n>> \in run'[w].want
               PROVE  n <= version' /\ run'[w].phase = "index" /\ <<p, n>> \in run'[w].snap
    BY StartDoes DEF WildWants, Fresh
  <1>1. Fresh(run'[w], req) /\ version' = version /\ run'[w].phase = "index"
    BY StartDoes DEF cache, Collects
  <1>2. /\ OnDisk(p) /\ About(req, p) /\ index[p].present
        /\ n = disk[p].v /\ n <= version
    BY <1>1, WantsAre DEF PurgeInvs
  <1>3. p \in run'[w].todo
    BY ZenonT(60), <1>2, StartDoes DEF Collects, About
  <1> QED  BY <1>1, <1>2, <1>3 DEF Fresh, Versions

LEMMA NextWildWanted ==
    ASSUME "collect" \notin Faults
    PROVE  TypeOK /\ PurgeInvs /\ PresentInv /\ complete /\ WildWanted /\ [Next]_vars
               => WildWanted'
  <1> SUFFICES ASSUME StateOK, RunOK, PurgeInvs, PresentInv, complete, WildWanted, [Next]_vars,
                      NEW w \in Workers
               PROVE  WildWants(run[w])'
    BY TypeSplit DEF WildWanted
  <1>0. StateOK' /\ FileStep
    BY NextType, TypeSplit, FileSteps
  <1>1. ASSUME run[w].pc \in Steps, run'[w].req = run[w].req, run'[w].want = run[w].want,
               run'[w].snap = run[w].snap, run'[w].phase = run[w].phase
        PROVE  WildWants(run[w])'
    <2> SUFFICES ASSUME run[w].req.kind = "wild", NEW p \in Paths, NEW n \in 1..MaxVersion,
                        <<p, n>> \in run[w].want
                 PROVE  /\ n <= version'
                        /\ IF run[w].phase = "index" THEN <<p, n>> \in run[w].snap
                           ELSE Away(run[w], p, n)'
      BY <1>1 DEF WildWants
    <2>1. /\ n <= version
          /\ IF run[w].phase = "index" THEN <<p, n>> \in run[w].snap ELSE Away(run[w], p, n)
      BY <1>1 DEF WildWanted, WildWants
    <2>2. n \in 1..version
      BY <2>1 DEF StateOK
    <2>3. n \in 1..version' /\ (Away(run[w], p, n) => Away(run[w], p, n)')
      BY <1>0, <1>1, <2>2, GoneStays DEF Away
    <2> QED  BY <2>1, <2>3
  <1>2. CASE run'[w].pc \notin Steps
    BY <1>2 DEF WildWants
  <1>3. CASE run'[w] = run[w] /\ run'[w].pc \in Steps
    BY <1>1, <1>3
  <1>4. ASSUME NEW req \in Purges,
               TagPurge(w, req) \/ WildPurge(w, req) \/ AllPurge(w, req) \/ ExactOpen(w, req)
        PROVE  WildWants(run[w])'
    BY <1>4, WildStart
  <1>5. CASE Exhausted(w) /\ run[w].req.kind = "wild"
    <2>1. CASE run'[w].snap = run[w].snap /\ run'[w].phase = run[w].phase
      BY <1>1, <1>5, <2>1, ExhaustedDoes DEF Steps
    <2>2. CASE run[w].phase = "index" /\ run'[w].phase = "walk"
      <3>1. /\ run[w].pc = "next" /\ run[w].todo = {} /\ disk' = disk /\ version' = version
            /\ run'[w].req = run[w].req /\ run'[w].want = run[w].want
        BY <1>5, ExhaustedDoes DEF Exhausted, cache
      <3>2. Loop(run[w]) /\ Collected(run[w])
        BY <3>1 DEF PurgeInvs, PurgeInv, Steps
      <3>3. ASSUME NEW p \in Paths, NEW n \in 1..MaxVersion, <<p, n>> \in run[w].want
            PROVE  n <= version /\ Away(run[w], p, n)
        <4>1. n <= version /\ <<p, n>> \in run[w].snap
          BY <1>5, <2>2, <3>1, <3>3 DEF WildWanted, WildWants, Steps
        <4> QED  BY <2>2, <3>1, <3>2, <4>1 DEF Collected, Ahead, Loop
      <3> QED  BY <2>2, <3>1, <3>3 DEF WildWants, Away
    <2> QED  BY <1>5, <2>1, <2>2, ExhaustedDoes DEF Same
  <1>6. CASE HandlerStep(w) /\ run'[w].pc \in Steps
    <2>1. CASE run'[w].snap = run[w].snap /\ run'[w].phase = run[w].phase
      BY <1>1, <1>6, <2>1, PurgeGoesOn
    <2>2. CASE run[w].req.kind = "exact"
      BY <1>6, <2>2, PurgeGoesOn DEF WildWants
    <2> QED  BY <1>5, <1>6, <2>1, <2>2, PurgeGoesOn
  <1> QED  BY <1>2, <1>3, <1>4, <1>6, WorkerCases

(* Where handlers do not overlap, a wildcard purge of a bootstrapped zone    *)
(* that answers has removed or expired every settled file whose key has the  *)
(* prefix, whether the index or the tree walk found it and whatever failed   *)
(* during the walk, unless it could not collect from the index               *)
(* (cache_pilot_partial).                                                    *)
THEOREM WildPurgesAreComplete ==
    Ready /\ CleanExact /\ "collect" \notin Faults =>
        (Spec /\ []Serial => []WildPurgeComplete)
  <1> SUFFICES ASSUME Ready, CleanExact, "collect" \notin Faults
               PROVE  Spec /\ []Serial => []WildPurgeComplete
    OBVIOUS
  <1>1. Init => WildWanted /\ complete
    BY DEF Init, WildWanted, WildWants, Idle, Steps, OnPath, OnOpened
  <1>2. TypeOK /\ PurgeInvs /\ WildWanted => WildPurgeComplete
    <2> SUFFICES ASSUME TypeOK, PurgeInvs, WildWanted, NEW w \in Workers,
                        Answered(run[w], {"wild"}, {"OK", "NOT_FOUND"}),
                        NEW pv \in run[w].want
                 PROVE  Gone(run[w], pv)
      BY DEF WildPurgeComplete
    <2>1. run[w] \in Purging /\ Answered(run[w], Kinds, PurgeAnswers)
      BY TypeSplit, HandlerCases DEF Answered, Steps, PurgeAnswers, Kinds
    <2>2. PICK p \in Paths, n \in 1..MaxVersion : pv = <<p, n>>
      BY <2>1 DEF Purging
    <2>3. IF run[w].phase = "index" THEN <<p, n>> \in run[w].snap ELSE Away(run[w], p, n)
      BY <2>2 DEF WildWanted, WildWants, Answered, Steps
    <2> QED  BY <2>1, <2>2, <2>3, AnsweredGone DEF Gone, Away
  <1>3. TypeOK /\ PurgeInvs /\ PresentInv /\ Serial /\ Serial' /\ [Next]_vars => PresentInv'
    BY NextPresent
  <1> QED
    BY <1>1, <1>2, <1>3, NextWildWanted, StaysComplete, InitPresent, InitPurgeInvs,
       NextPurgeInvs, CacheTypeCorrect, PTL DEF Spec

OwnDone == {"own_entry", "opened_expire", "fanout"}

ExactWants(h) ==
    h.pc \in Steps /\ h.req.kind = "exact" =>
        \A p \in Paths, v \in 1..MaxVersion : <<p, v>> \in h.want =>
            /\ v <= version
            /\ \/ Away(h, p, v)
               \/ h.pc \in OnOpened /\ p # h.path /\ index[p].present /\ KeyOf[p] = KeyOf[h.path]
               \/ h.pc \in OnOpened \ OwnDone /\ p = h.path
               \/ h.pc \notin OnOpened /\ <<p, v>> \in h.snap
               \/ h.phase = "own" /\ p # h.path
               \/ h.rc \in {"NOT_FOUND", "ERROR"}

ExactWanted == \A w \in Workers : ExactWants(run[w])

(* The only worker is busy: nothing but its handler writes the index. *)
LEMMA BusyAlone ==
    ASSUME OneWorker, StateOK, NEW w \in Workers, run[w].pc \in Steps, [Next]_vars
    PROVE  HandlerStep(w) \/ UNCHANGED <<index, run>> \/ Crash(w)
  <1>1. \A v \in Workers : run[v] # Idle /\ v = w
    BY Values DEF OneWorker, Steps, OnPath, OnOpened
  <1>2. ASSUME NEW l \in logs, LogHandler(l) PROVE FALSE
    BY <1>1, <1>2 DEF LogHandler, StateOK
  <1>3. ASSUME NEW v \in Workers,
               \/ \E p \in Paths : \E T \in TagsFor[p] : Rename(v, p, T)
               \/ \E p \in Paths : Hit(v, p)
               \/ \E p \in Paths : \E T \in TagsFor[p] : NotStored(v, p, T)
               \/ \E req \in Purges : \/ TagPurge(v, req) \/ WildPurge(v, req)
                                       \/ AllPurge(v, req) \/ ExactOpen(v, req)
               \/ ScanStart(v)
        PROVE  FALSE
    BY <1>1, <1>3 DEF Rename, Hit, NotStored, TagPurge, WildPurge, AllPurge, ExactOpen, ScanStart
  <1>4. CASE UNCHANGED vars \/ \E p \in Paths : Evict(p)
    BY <1>4 DEF vars, Evict
  <1>5. CASE Next
    <2>1. CASE \E v \in Workers : HandlerStep(v) \/ Crash(v)
      BY <1>1, <2>1
    <2> QED  BY <1>2, <1>3, <1>4, <1>5, <2>1 DEF Next
  <1> QED  BY <1>4, <1>5

LEMMA ExactStart ==
    ASSUME StateOK, RunOK, PurgeInvs, PresentInv, complete, NEW w \in Workers,
           NEW req \in Purges,
           TagPurge(w, req) \/ WildPurge(w, req) \/ AllPurge(w, req) \/ ExactOpen(w, req)
    PROVE  ExactWants(run[w])'
  <1> SUFFICES ASSUME req.kind = "exact", NEW p \in Paths, NEW n \in 1..MaxVersion,
                      <<p, n>> \in run'[w].want
               PROVE  /\ n <= version'
                      /\ \/ /\ run'[w].pc = "opened"
                            /\ \/ p = run'[w].path
                               \/ index'[p].present /\ KeyOf[p] = KeyOf[run'[w].path]
                         \/ run'[w].rc = "NOT_FOUND"
    <2>1. run'[w].req = req
      BY StartDoes DEF Fresh
    <2> QED  BY <2>1 DEF ExactWants, OwnDone, OnOpened
  <1>1. Fresh(run'[w], req) /\ version' = version /\ index' = index
    BY StartDoes DEF cache
  <1>2. About(req, p) /\ index[p].present /\ n <= version
    BY <1>1, WantsAre DEF PurgeInvs
  <1>3. /\ run'[w].path = req.arg
        /\ run'[w].pc = "opened" \/ run'[w].rc = "NOT_FOUND"
    BY StartDoes DEF Collects
  <1> QED  BY <1>1, <1>2, <1>3 DEF About

(* The steps on the opened file, up to the fan-out. *)
LEMMA OpenedDoes ==
    ASSUME "unlink" \notin Faults, StateOK, RunOK, PurgeInvs, NEW w \in Workers,
           HandlerStep(w), run[w].pc \in OnOpened, run[w].pc # "fanout"
    PROVE  /\ run[w].path \in Paths /\ run'[w].path = run[w].path
           /\ \/ run'[w].rc \in {"NOT_FOUND", "ERROR"}
              \/ run[w].pc = "own_entry" /\ EndsAlone(w)
              \/ /\ run'[w].pc \in OnOpened
                 /\ \A p \in Paths : p # run[w].path => index'[p] = index[p]
                 /\ run'[w].pc \in OwnDone /\ run[w].pc \notin OwnDone =>
                       \A n \in 1..MaxVersion : Away(run[w], run[w].path, n)'
  <1>1. CASE OpenedMark(w)
    <2>1. index' = index
      BY <1>1 DEF OpenedMark
    <2> QED  BY <1>1, <2>1, OpenedMarkDoes DEF OnOpened, OwnDone, Same
  <1>2. CASE OpenedSoft(w)
    <2>1. index' = index
      BY <1>2 DEF OpenedSoft
    <2> QED  BY <1>2, <2>1, OpenedSoftDoes DEF OnOpened, OwnDone, Same
  <1>3. CASE OpenedUnlink(w)
    <2>1. PICK p \in Paths : p = run[w].path
      BY <1>3, OpenedUnlinkDoes
    <2>2. /\ index' = index /\ Same(run'[w], run[w]) /\ run'[w].pc = "own_entry"
          /\ \/ disk' = [disk EXCEPT ![p] = NoContent]
             \/ ~OnDisk(p) /\ disk' = disk
      BY <1>3, <2>1, OpenedUnlinkDoes DEF OpenedUnlink
    <2>3. disk'[p].v = 0
      BY <2>2 DEF NoContent, OnDisk, StateOK, Contents
    <2>4. \A n \in 1..MaxVersion : Away(run[w], run[w].path, n)'
      BY <2>1, <2>2, <2>3 DEF Away, Same
    <2> QED  BY <2>1, <2>2, <2>4 DEF OnOpened, Same
  <1>4. CASE OwnEntry(w)
    <2>1. CASE EndsAlone(w)
      BY <1>4, <2>1, OwnEntryDoes DEF EndsAlone
    <2> QED  BY <1>4, <2>1, OwnEntryDoes DEF OnOpened, OwnDone, Same
  <1>5. CASE OpenedHeader(w)
    <2>1. PICK p \in Paths : p = run[w].path
      BY <1>5, OpenedHeaderDoes
    <2>2. /\ index' = index /\ Same(run'[w], run[w]) /\ run[w].pc = "opened_header"
          /\ \/ disk' = [disk EXCEPT ![p].fresh = FALSE] /\ run'[w].pc = "opened_expire"
             \/ run'[w].rc \in {"NOT_FOUND", "ERROR"}
      BY <1>5, <2>1, OpenedHeaderDoes DEF OpenedHeader
    <2>3. run[w].req.soft
      BY <2>2 DEF PurgeInvs, PurgeInv, Loop, Steps, OnOpened
    <2>4. CASE disk' = [disk EXCEPT ![p].fresh = FALSE] /\ run'[w].pc = "opened_expire"
      <3>1. ~disk'[p].fresh
        BY <2>4 DEF StateOK, Contents
      <3>2. \A n \in 1..MaxVersion : Away(run[w], run[w].path, n)'
        BY <2>1, <2>2, <2>3, <3>1 DEF Away, Same
      <3> QED  BY <2>1, <2>2, <2>4, <3>2 DEF OnOpened, Same
    <2> QED  BY <2>1, <2>2, <2>4 DEF Same
  <1>6. CASE OpenedExpire(w)
    <2>1. index' = index /\ run[w].path \in Paths
      BY <1>6 DEF OpenedExpire, RunOK
    <2> QED  BY <1>6, <2>1, OpenedExpireDoes DEF OnOpened, OwnDone, Same
  <1> QED
    BY <1>1, <1>2, <1>3, <1>4, <1>5, <1>6
       DEF HandlerStep, NodeUpdate, ScanEntry, ScanParse, ScanStore, ScanDone, Visit, Stat,
           Mark, Unlink, SoftHeader, SoftNode, DropEntry, Exhausted, Fanout, Respond, OnOpened

LEMMA OpenPhase ==
    ASSUME PurgeInvs, NEW w \in Workers, run[w].pc \in Steps, run[w].pc # "done"
    PROVE  run[w].phase # "own"
  BY DEF PurgeInvs, PurgeInv, Loop

(* The fan-out collects every variant that has an entry and a file. *)
LEMMA ExactFanout ==
    ASSUME StateOK, RunOK, PurgeInvs, NEW w \in Workers, Fanout(w), ExactWants(run[w])
    PROVE  ExactWants(run[w])'
  <1>1. /\ run[w].pc = "fanout" /\ run'[w].pc \notin OnOpened
        /\ disk' = disk /\ version' = version
        /\ run[w].req = run'[w].req /\ run'[w].want = run[w].want /\ run'[w].path = run[w].path
        /\ \/ run'[w].snap = Versions({q \in SameKey(run[w].path) : OnDisk(q)})
           \/ run'[w].phase = "own"
    BY FanoutDoes DEF Fanout, cache, OnOpened, EndsAlone
  <1>2. run[w].rc = "none" /\ run[w].req.kind = "exact"
    BY <1>1 DEF PurgeInvs, PurgeInv, Loop, Steps, OnOpened
  <1>3. ASSUME NEW p \in Paths, NEW n \in 1..MaxVersion, <<p, n>> \in run[w].want
        PROVE  /\ n <= version
               /\ \/ Away(run[w], p, n)' \/ <<p, n>> \in run'[w].snap
                  \/ run'[w].phase = "own" /\ p # run'[w].path
    <2>1. /\ n <= version
          /\ \/ Away(run[w], p, n)
             \/ p # run[w].path /\ index[p].present /\ KeyOf[p] = KeyOf[run[w].path]
      BY <1>1, <1>2, <1>3, OpenPhase DEF ExactWants, Steps, OnOpened, OwnDone
    <2>2. CASE Away(run[w], p, n)
      BY <1>1, <2>1, <2>2 DEF Away
    <2>3. CASE /\ p # run[w].path /\ index[p].present /\ KeyOf[p] = KeyOf[run[w].path]
               /\ ~Away(run[w], p, n)
      <3>1. disk[p].v = n /\ OnDisk(p)
        BY <2>3 DEF Away, OnDisk
      <3>2. p \in SameKey(run[w].path)
        BY <2>3 DEF SameKey
      <3>3. CASE run'[w].phase = "own"
        BY <1>1, <2>1, <2>3, <3>3
      <3>4. CASE run'[w].snap = Versions({q \in SameKey(run[w].path) : OnDisk(q)})
        <4>1. p \in {q \in SameKey(run[w].path) : OnDisk(q)}
          BY <3>1, <3>2
        <4>2. <<p, disk[p].v>> \in Versions({q \in SameKey(run[w].path) : OnDisk(q)})
          BY Zenon, <4>1 DEF Versions
        <4>3. <<p, n>> \in run'[w].snap
          BY <3>1, <3>4, <4>2
        <4> QED  BY <2>1, <4>3
      <3> QED  BY <1>1, <2>1, <3>3, <3>4
    <2> QED  BY <2>1, <2>2, <2>3
  <1> QED  BY <1>1, <1>3 DEF ExactWants

LEMMA NextExactWanted ==
    ASSUME OneWorker, "unlink" \notin Faults
    PROVE  TypeOK /\ PurgeInvs /\ PresentInv /\ complete /\ ExactWanted /\ [Next]_vars
               => ExactWanted'
  <1> SUFFICES ASSUME StateOK, RunOK, PurgeInvs, PresentInv, complete, ExactWanted, [Next]_vars,
                      NEW w \in Workers
               PROVE  ExactWants(run[w])'
    BY TypeSplit DEF ExactWanted
  <1>0. StateOK' /\ FileStep
    BY NextType, TypeSplit, FileSteps
  <1>1. ASSUME NEW p \in Paths, NEW n \in 1..MaxVersion, n <= version,
               run'[w].req = run[w].req
        PROVE  n <= version' /\ (Away(run[w], p, n) => Away(run[w], p, n)')
    <2>1. n \in 1..version
      BY <1>1 DEF StateOK
    <2> QED  BY <1>0, <1>1, <2>1, GoneStays DEF Away
  <1>2. CASE run'[w].pc \notin Steps
    BY <1>2 DEF ExactWants
  <1>3. ASSUME NEW req \in Purges,
               TagPurge(w, req) \/ WildPurge(w, req) \/ AllPurge(w, req) \/ ExactOpen(w, req)
        PROVE  ExactWants(run[w])'
    BY <1>3, ExactStart
  <1>4. CASE UNCHANGED <<index, run>> /\ run'[w].pc \in Steps
    <2> SUFFICES ASSUME run[w].req.kind = "exact", NEW p \in Paths, NEW n \in 1..MaxVersion,
                        <<p, n>> \in run[w].want
                 PROVE  /\ n <= version'
                        /\ \/ Away(run[w], p, n)'
                           \/ /\ run[w].pc \in OnOpened /\ p # run[w].path
                              /\ index[p].present /\ KeyOf[p] = KeyOf[run[w].path]
                           \/ run[w].pc \in OnOpened \ OwnDone /\ p = run[w].path
                           \/ run[w].pc \notin OnOpened /\ <<p, n>> \in run[w].snap
                           \/ run[w].phase = "own" /\ p # run[w].path
                           \/ run[w].rc \in {"NOT_FOUND", "ERROR"}
      BY <1>4 DEF ExactWants
    <2> QED  BY <1>1, <1>4 DEF ExactWanted, ExactWants
  <1>5. CASE HandlerStep(w) /\ run'[w].pc \in Steps
    <2>0. /\ run[w].pc \in Steps /\ run[w].rc = "none" /\ run'[w].req = run[w].req
          /\ run'[w].want = run[w].want
          /\ run[w].phase # "own"
      <3>1. /\ run[w].pc \in Steps /\ run[w].rc = "none" /\ run'[w].req = run[w].req
            /\ run'[w].want = run[w].want
        BY <1>5, PurgeGoesOn
      <3> QED  BY <3>1 DEF PurgeInvs, PurgeInv, Loop
    <2>1. CASE Fanout(w)
      BY <2>1, ExactFanout DEF ExactWanted
    <2> SUFFICES ASSUME ~Fanout(w), run[w].req.kind = "exact",
                        NEW p \in Paths, NEW n \in 1..MaxVersion, <<p, n>> \in run[w].want
                 PROVE  /\ n <= version'
                        /\ \/ Away(run[w], p, n)'
                           \/ /\ run'[w].pc \in OnOpened /\ p # run'[w].path
                              /\ index'[p].present /\ KeyOf[p] = KeyOf[run'[w].path]
                           \/ run'[w].pc \in OnOpened \ OwnDone /\ p = run'[w].path
                           \/ run'[w].pc \notin OnOpened /\ <<p, n>> \in run'[w].snap
                           \/ run'[w].phase = "own" /\ p # run'[w].path
                           \/ run'[w].rc \in {"NOT_FOUND", "ERROR"}
      BY <2>0, <2>1 DEF ExactWants
    <2>2. /\ n <= version
          /\ \/ Away(run[w], p, n)
             \/ /\ run[w].pc \in OnOpened /\ p # run[w].path
                /\ index[p].present /\ KeyOf[p] = KeyOf[run[w].path]
             \/ run[w].pc \in OnOpened \ OwnDone /\ p = run[w].path
             \/ run[w].pc \notin OnOpened /\ <<p, n>> \in run[w].snap
      BY <2>0 DEF ExactWanted, ExactWants
    <2>3. n <= version' /\ (Away(run[w], p, n) => Away(run[w], p, n)')
      BY <1>1, <2>0, <2>2
    <2>4. CASE run[w].pc \in OnOpened
      <3>1. run[w].pc # "fanout"
        BY <1>5 DEF HandlerStep, NodeUpdate, ScanEntry, ScanParse, ScanStore, ScanDone, Visit,
                    Stat, Mark, Unlink, SoftHeader, SoftNode, DropEntry, Exhausted, OpenedMark,
                    OpenedUnlink, OwnEntry, OpenedSoft, OpenedHeader, OpenedExpire, Respond
      <3>2. /\ run'[w].path = run[w].path
            /\ \/ run'[w].rc \in {"NOT_FOUND", "ERROR"}
               \/ run[w].pc \in OwnDone /\ run'[w].phase = "own"
               \/ /\ run'[w].pc \in OnOpened
                  /\ p # run[w].path => index'[p] = index[p]
                  /\ run'[w].pc \in OwnDone /\ run[w].pc \notin OwnDone =>
                        (p = run[w].path => Away(run[w], p, n)')
        <4>1. /\ run'[w].path = run[w].path
              /\ \/ run'[w].rc \in {"NOT_FOUND", "ERROR"}
                 \/ run[w].pc \in OwnDone /\ run'[w].phase = "own"
                 \/ /\ run'[w].pc \in OnOpened
                    /\ p # run[w].path => index'[p] = index[p]
                    /\ run'[w].pc \in OwnDone /\ run[w].pc \notin OwnDone =>
                          Away(run[w], run[w].path, n)'
          BY <1>5, <2>4, <3>1, OpenedDoes DEF EndsAlone, OwnDone
        <4> QED  BY <4>1 DEF Away
      <3> QED  BY <2>2, <2>3, <2>4, <3>2
    <2>5. CASE run[w].pc \notin OnOpened
      <3>1. run'[w].pc \notin OnOpened
        <4>1. ~(NodeUpdate(w) \/ ScanEntry(w) \/ ScanParse(w) \/ ScanStore(w) \/ ScanDone(w)
                  \/ Respond(w))
          BY <1>5, OutsideDoes DEF Steps, OnPath, OnOpened
        <4>2. ~(OpenedMark(w) \/ OpenedUnlink(w) \/ OwnEntry(w) \/ OpenedSoft(w)
                  \/ OpenedHeader(w) \/ OpenedExpire(w))
          BY <2>5 DEF OpenedMark, OpenedUnlink, OwnEntry, OpenedSoft, OpenedHeader,
                      OpenedExpire, OnOpened
        <4>3. CASE Visit(w)
          BY <4>3, VisitDoes DEF OnOpened
        <4>4. CASE Stat(w) \/ Mark(w)
          BY <4>4, StatDoes, MarkDoes DEF OnOpened
        <4>5. CASE SoftNode(w) \/ DropEntry(w)
          BY <4>5, SoftNodeDoes, DropEntryDoes DEF OnOpened
        <4>6. CASE Unlink(w)
          BY <4>6, UnlinkDoes DEF OnOpened
        <4>7. CASE SoftHeader(w)
          BY <4>7, SoftHeaderDoes DEF OnOpened
        <4>8. CASE Exhausted(w)
          BY <4>8, ExhaustedDoes DEF OnOpened
        <4> QED
          BY <1>5, <4>1, <4>2, <4>3, <4>4, <4>5, <4>6, <4>7, <4>8 DEF HandlerStep
      <3>2. run'[w].snap = run[w].snap
        BY <1>5, <2>5, PurgeGoesOn DEF OwnEntry, OnOpened
      <3> QED  BY <2>2, <2>3, <2>5, <3>1, <3>2
    <2> QED  BY <2>4, <2>5
  <1>6. CASE run[w].pc \in Steps /\ run'[w].pc \in Steps
    <2>1. ~Crash(w)
      BY <1>6, Values DEF Crash, Become, RunOK, Steps, OnPath, OnOpened
    <2> QED  BY <1>4, <1>5, <1>6, <2>1, BusyAlone
  <1> QED  BY <1>2, <1>3, <1>5, <1>6, WorkerCases

(* With one worker, an exact purge of a bootstrapped zone that found its     *)
(* file has removed or expired every settled variant of the key: the file it *)
(* opened, and the variants that the fan-out collects from the index         *)
(* (exact_purge, exact_purge_soft, the log phases held back meanwhile).  A   *)
(* purge whose fan-out fails has still disposed of the file it opened.       *)
THEOREM ExactPurgesReachVariants ==
    Ready /\ OneWorker /\ "unlink" \notin Faults => (Spec => []ExactFanoutComplete)
  <1> SUFFICES ASSUME Ready, OneWorker, "unlink" \notin Faults
               PROVE  Spec => []ExactFanoutComplete
    OBVIOUS
  <1>1. Init => ExactWanted /\ complete
    BY DEF Init, ExactWanted, ExactWants, Idle, Steps, OnPath, OnOpened
  <1>2. TypeOK /\ PurgeInvs /\ ExactWanted => ExactFanoutComplete
    <2> SUFFICES ASSUME TypeOK, PurgeInvs, ExactWanted, NEW w \in Workers,
                        Answered(run[w], {"exact"}, {"OK"}),
                        NEW pv \in run[w].want
                 PROVE  Gone(run[w], pv) \/ (run[w].phase = "own" /\ pv[1] # run[w].path)
      BY DEF ExactFanoutComplete
    <2>1. /\ run[w] \in Purging /\ Answered(run[w], Kinds, PurgeAnswers)
          /\ run[w].phase # "walk"
      BY TypeSplit, HandlerCases
         DEF Answered, Steps, PurgeAnswers, Kinds, PurgeInvs, PurgeInv, Loop, Purging
    <2>2. PICK p \in Paths, n \in 1..MaxVersion : pv = <<p, n>>
      BY <2>1 DEF Purging
    <2>3. \/ Away(run[w], p, n) \/ <<p, n>> \in run[w].snap
          \/ run[w].phase = "own" /\ p # run[w].path
      BY <2>2 DEF ExactWanted, ExactWants, Answered, Steps, OnOpened
    <2> QED  BY <2>1, <2>2, <2>3, AnsweredGone DEF Gone, Away
  <1>3. TypeOK /\ PurgeInvs /\ PresentInv /\ Serial /\ Serial' /\ [Next]_vars => PresentInv'
    BY NextPresent DEF CleanExact
  <1>4. Serial
    BY DEF Serial, OneWorker
  <1>5. TypeOK /\ PurgeInvs /\ PresentInv /\ complete /\ ExactWanted /\ [Next]_vars
          => ExactWanted'
    BY NextExactWanted
  <1> QED
    BY <1>1, <1>2, <1>3, <1>4, <1>5, StaysComplete, InitPresent, InitPurgeInvs,
       NextPurgeInvs, CacheTypeCorrect, PTL DEF Spec

=============================================================================
