-------------------------- MODULE CachePurgeProofs --------------------------
(***************************************************************************)
(* Theorems about CachePurge that hold for any number of workers: types,   *)
(* what a purge that answers 200 has removed, and what it counts.          *)
(***************************************************************************)
EXTENDS CachePurge, FiniteSetTheorems, TLAPS

USE ConstantsAssumption, PurgesAssumption DEF Kinds

-----------------------------------------------------------------------------
(* Types. *)

Steps == OnPath \cup OnOpened \cup {"next", "done"}
Handlers == {Idle} \cup Storing \cup Scanning \cup Purging

StateOK ==
    /\ disk \in [Paths -> Contents]
    /\ node \in [Paths -> [exists : BOOLEAN, fresh : BOOLEAN]]
    /\ index \in [Paths -> [present : BOOLEAN, tags : SUBSET Tags]]
    /\ complete \in BOOLEAN
    /\ logs \subseteq [w : Workers, path : Paths, tags : SUBSET Tags]
    /\ version \in 1..MaxVersion
    /\ lost \subseteq Paths
    /\ tried \subseteq Workers

RunOK ==
    /\ run \in [Workers -> Handlers]
    /\ \A w \in Workers : run[w].pc \in OnPath \cup OnOpened => run[w].path \in Paths

LEMMA TypeSplit == (TypeOK <=> StateOK /\ RunOK) /\ (TypeOK' <=> StateOK' /\ RunOK')
  BY DEF TypeOK, StateOK, RunOK, Handlers

(* The step a worker is at says what it is doing. *)
LEMMA HandlerCases ==
    ASSUME RunOK, NEW w \in Workers
    PROVE  /\ run[w] \in Handlers
           /\ run[w].pc \in Steps => run[w] \in Purging
           /\ run[w].pc = "node" => run[w] \in Storing
           /\ run[w].pc \in {"scan", "entry", "parsed"} => run[w] \in Scanning
           /\ run[w].pc \in {"entry", "parsed"} => run[w].path \in Paths
  BY DEF RunOK, Handlers, Idle, Storing, Scanning, Purging, Steps, OnPath, OnOpened

(* A worker's step changes its own handler and no other. *)
LEMMA RunStep ==
    ASSUME RunOK, NEW w \in Workers, NEW h \in Handlers, Become(w, h),
           h.pc \in OnPath \cup OnOpened => h.path \in Paths
    PROVE  /\ RunOK'
           /\ run'[w] = h
           /\ \A v \in Workers : v # w => run'[v] = run[v]
  BY DEF RunOK, Become

LEMMA VersionsType ==
    ASSUME StateOK, NEW S \in SUBSET Paths, \A p \in S : OnDisk(p)
    PROVE  Versions(S) \in SUBSET (Paths \X (1..MaxVersion))
  BY DEF StateOK, Versions, OnDisk, Contents

(* A new handler, whatever it has collected. *)
LEMMA HandlerType ==
    ASSUME StateOK, NEW req \in Purges, NEW pc \in Steps, NEW todo \in SUBSET Paths
    PROVE  Handler(req, pc, todo) \in Purging
  <1>1. Versions({p \in todo : OnDisk(p)}) \in SUBSET (Paths \X (1..MaxVersion))
    BY VersionsType
  <1>2. Versions({p \in Paths : OnDisk(p) /\ Settled(p) /\ About(req, p)})
           \in SUBSET (Paths \X (1..MaxVersion))
    BY VersionsType
  <1> QED  BY <1>1, <1>2 DEF Handler, Purging, Steps

LEMMA FinishType ==
    ASSUME NEW h \in Purging, NEW rc \in {"OK", "NOT_FOUND", "NOT_READY", "ERROR"}
    PROVE  /\ Finish(h, rc) \in Purging
           /\ Finish(h, rc).pc = "done" /\ Finish(h, rc).rc = rc
  BY DEF Finish, Purging

LEMMA InitType == Init => TypeOK
  <1> SUFFICES ASSUME Init PROVE StateOK /\ RunOK
    BY TypeSplit
  <1>1. disk \in [Paths -> Contents]
    <2>1. NoContent \in Contents
      BY DEF Contents, NoContent
    <2>2. [v : {1}, tags : SUBSET Tags, fresh : {TRUE}] \subseteq Contents
      <3>1. 1 \in 0..MaxVersion /\ {TRUE} \subseteq BOOLEAN
        OBVIOUS
      <3> QED  BY <3>1 DEF Contents
    <2>3. disk \in [Paths -> {NoContent} \cup [v : {1}, tags : SUBSET Tags, fresh : {TRUE}]]
      BY DEF Init
    <2> QED  BY <2>1, <2>2, <2>3
  <1>2. index \in [Paths -> [present : BOOLEAN, tags : SUBSET Tags]]
    BY <1>1 DEF Init, Absent, Contents
  <1>3. node \in [Paths -> [exists : BOOLEAN, fresh : BOOLEAN]]
    BY DEF Init, OnDisk
  <1>4. RunOK
    BY DEF Init, RunOK, Handlers, Idle, OnPath, OnOpened
  <1> QED  BY <1>1, <1>2, <1>3, <1>4 DEF Init, StateOK

(* Records that the steps write. *)
LEMMA Values ==
    /\ NoContent \in Contents
    /\ NoNode \in [exists : BOOLEAN, fresh : BOOLEAN]
    /\ Absent \in [present : BOOLEAN, tags : SUBSET Tags]
    /\ Idle \in Handlers /\ Idle.pc = "idle"
  BY DEF Contents, NoContent, NoNode, Absent, Idle, Handlers

LEMMA ServingType ==
    ASSUME StateOK, RunOK, NEW w \in Workers,
           \/ \E p \in Paths : \E T \in TagsFor[p] : Rename(w, p, T) \/ NotStored(w, p, T)
           \/ \E p \in Paths : Hit(w, p)
           \/ NodeUpdate(w)
           \/ Crash(w)
    PROVE  StateOK' /\ RunOK'
  <1> USE Values, HandlerCases
  <1>1. ASSUME NEW p \in Paths, NEW T \in TagsFor[p], Rename(w, p, T)
        PROVE  StateOK' /\ RunOK'
    <2>1. [pc |-> "node", path |-> p, tags |-> T] \in Handlers
      BY DEF Handlers, Storing
    <2>2. RunOK'
      BY <1>1, <2>1, RunStep DEF Rename, Become, OnPath, OnOpened
    <2>3. [v |-> version + 1, tags |-> T, fresh |-> TRUE] \in Contents
      BY <1>1 DEF Contents, StateOK, Rename
    <2> QED  BY <1>1, <2>2, <2>3 DEF Rename, StateOK, history
  <1>2. ASSUME NEW p \in Paths, NEW T \in TagsFor[p], NotStored(w, p, T)
        PROVE  StateOK' /\ RunOK'
    BY <1>2 DEF NotStored, StateOK, RunOK, cache
  <1>3. ASSUME NEW p \in Paths, Hit(w, p)
        PROVE  StateOK' /\ RunOK'
    BY <1>3 DEF Hit, StateOK, RunOK, cache, Contents
  <1>4. CASE NodeUpdate(w)
    <2>1. RunOK'
      BY <1>4, RunStep DEF NodeUpdate, Become, OnPath, OnOpened
    <2> QED  BY <1>4, <2>1 DEF NodeUpdate, StateOK, Storing
  <1>5. CASE Crash(w)
    <2>1. RunOK'
      BY <1>5, RunStep DEF Crash, OnPath, OnOpened
    <2> QED  BY <1>5, <2>1 DEF Crash, StateOK, cache, Storing
  <1> QED  BY <1>1, <1>2, <1>3, <1>4, <1>5

LEMMA BackgroundType ==
    ASSUME StateOK, RunOK,
           (\E l \in logs : LogHandler(l)) \/ (\E p \in Paths : Evict(p))
    PROVE  StateOK' /\ RunOK'
  <1>1. ASSUME NEW l \in logs, LogHandler(l)
        PROVE  StateOK' /\ RunOK'
    <2>1. l.path \in Paths /\ l.tags \in SUBSET Tags
      BY DEF StateOK
    <2>2. [present |-> TRUE, tags |-> l.tags] \in [present : BOOLEAN, tags : SUBSET Tags]
      BY <2>1
    <2>3. \/ index' = [index EXCEPT ![l.path] = [present |-> TRUE, tags |-> l.tags]]
          \/ index' = [index EXCEPT ![l.path] = Absent]
      BY <1>1 DEF LogHandler
    <2>4. index' \in [Paths -> [present : BOOLEAN, tags : SUBSET Tags]]
      BY <2>2, <2>3, Values DEF StateOK
    <2>5. lost' \subseteq Paths /\ logs' \subseteq logs
      BY <1>1, <2>1 DEF LogHandler, StateOK
    <2> QED  BY <1>1, <2>4, <2>5 DEF LogHandler, StateOK, RunOK, cache
  <1>2. ASSUME NEW p \in Paths, Evict(p)
        PROVE  StateOK' /\ RunOK'
    BY <1>2, Values DEF Evict, StateOK, RunOK, history
  <1> QED  BY <1>1, <1>2

LEMMA ScanType ==
    ASSUME StateOK, RunOK, NEW w \in Workers,
           ScanStart(w) \/ ScanEntry(w) \/ ScanParse(w) \/ ScanStore(w) \/ ScanDone(w)
    PROVE  StateOK' /\ RunOK'
  <1> USE Values, HandlerCases
  <1> USE DEF cache, history
  <1>1. CASE ScanStart(w)
    <2>1. [pc |-> "scan", todo |-> Paths] \in Handlers
      BY DEF Handlers, Scanning
    <2>2. RunOK'
      BY <1>1, <2>1, RunStep DEF ScanStart, Become, OnPath, OnOpened
    <2> QED  BY <1>1, <2>2 DEF ScanStart, StateOK
  <1>2. CASE ScanEntry(w)
    <2>1. PICK p \in run[w].todo :
             /\ \/ run' = [run EXCEPT ![w] =
                             [pc |-> "entry", todo |-> run[w].todo \ {p}, path |-> p]]
                \/ run' = [run EXCEPT ![w] = [pc |-> "scan", todo |-> run[w].todo \ {p}]]
             /\ lost' = lost \/ lost' = lost \cup {p}
      BY <1>2 DEF ScanEntry
    <2>2. run[w].todo \in SUBSET Paths
      BY <1>2 DEF ScanEntry, Scanning
    <2>3. /\ [pc |-> "entry", todo |-> run[w].todo \ {p}, path |-> p] \in Handlers
          /\ [pc |-> "scan", todo |-> run[w].todo \ {p}] \in Handlers
      BY <2>2 DEF Handlers, Scanning
    <2>4. RunOK'
      BY <2>1, <2>3, RunStep DEF Become, OnPath, OnOpened
    <2>5. lost' \subseteq Paths
      BY <2>1, <2>2 DEF StateOK
    <2> QED  BY <1>2, <2>4, <2>5 DEF ScanEntry, StateOK
  <1>3. CASE ScanParse(w)
    <2>0. PICK got \in {"file", "nothing", "error"} :
             run' = [run EXCEPT ![w] =
                       [pc |-> "parsed", todo |-> run[w].todo, path |-> run[w].path,
                        got |-> got, tags |-> disk[run[w].path].tags]]
      BY <1>3 DEF ScanParse
    <2> DEFINE h == [pc |-> "parsed", todo |-> run[w].todo, path |-> run[w].path,
                     got |-> got, tags |-> disk[run[w].path].tags]
    <2>1. run[w].todo \in SUBSET Paths /\ run[w].path \in Paths
      BY <1>3 DEF ScanParse, Scanning
    <2>2. h \in Handlers
      BY <2>1 DEF Handlers, Scanning, StateOK, Contents
    <2>3. RunOK'
      BY <2>0, <2>2, RunStep DEF Become, OnPath, OnOpened
    <2> QED  BY <1>3, <2>3 DEF ScanParse, StateOK
  <1>4. CASE ScanStore(w)
    <2>1. /\ run[w].todo \in SUBSET Paths /\ run[w].path \in Paths
          /\ run[w].tags \in SUBSET Tags
      BY <1>4 DEF ScanStore, Scanning
    <2>2. [pc |-> "scan", todo |-> run[w].todo] \in Handlers
      BY <2>1 DEF Handlers, Scanning
    <2>3. RunOK'
      BY <1>4, <2>2, RunStep DEF ScanStore, Become, OnPath, OnOpened
    <2>4. [present |-> TRUE, tags |-> run[w].tags] \in [present : BOOLEAN, tags : SUBSET Tags]
      BY <2>1
    <2>5. \/ index' = [index EXCEPT ![run[w].path] = [present |-> TRUE, tags |-> run[w].tags]]
          \/ index' = [index EXCEPT ![run[w].path] = Absent]
      BY <1>4 DEF ScanStore
    <2>6. index' \in [Paths -> [present : BOOLEAN, tags : SUBSET Tags]]
      BY <2>4, <2>5 DEF StateOK
    <2>7. lost' \subseteq Paths
      BY <1>4, <2>1 DEF ScanStore, StateOK
    <2> QED  BY <1>4, <2>3, <2>6, <2>7 DEF ScanStore, StateOK
  <1>5. CASE ScanDone(w)
    <2>1. RunOK'
      BY <1>5, RunStep DEF ScanDone, Become, OnPath, OnOpened
    <2> QED  BY <1>5, <2>1 DEF ScanDone, StateOK
  <1> QED  BY <1>1, <1>2, <1>3, <1>4, <1>5

(* What a step of a purge leaves as it is. *)
Same(g, h) ==
    /\ g.req = h.req /\ g.todo = h.todo /\ g.phase = h.phase /\ g.path = h.path
    /\ g.snap = h.snap /\ g.want = h.want

Counted(g, h) == g.purged = h.purged /\ g.did = h.did

LEMMA MoveType ==
    ASSUME NEW h \in Purging, NEW pc \in Steps
    PROVE  LET g == [h EXCEPT !.pc = pc]
           IN  g \in Purging /\ g.pc = pc /\ g.rc = h.rc /\ Same(g, h) /\ Counted(g, h)
  BY DEF Purging, Steps, Same, Counted

LEMMA FinishSame ==
    ASSUME NEW h \in Purging, NEW rc \in {"OK", "NOT_FOUND", "NOT_READY", "ERROR"}
    PROVE  Same(Finish(h, rc), h) /\ Counted(Finish(h, rc), h)
  BY DEF Finish, Purging, Same, Counted

LEMMA DeclinedType ==
    ASSUME NEW h \in Purging
    PROVE  /\ Declined(h) \in Purging /\ Same(Declined(h), h) /\ Counted(Declined(h), h)
           /\ Declined(h).rc = h.rc
           /\ Declined(h).pc = IF DropsEntry(h, FALSE) THEN "drop" ELSE "next"
  <1> DEFINE pc == IF DropsEntry(h, FALSE) THEN "drop" ELSE "next"
  <1>1. pc \in Steps /\ Declined(h) = [h EXCEPT !.pc = pc]
    BY DEF Declined, Steps, OnPath
  <1> HIDE DEF pc
  <1>2. /\ Declined(h) \in Purging /\ Same(Declined(h), h) /\ Counted(Declined(h), h)
        /\ Declined(h).rc = h.rc /\ Declined(h).pc = pc
    BY <1>1, MoveType
  <1> QED  BY <1>2 DEF pc

LEMMA PurgedType ==
    ASSUME StateOK, NEW h \in Purging, h.path \in Paths, OnDisk(h.path)
    PROVE  /\ Purged(h) \in Purging /\ Same(Purged(h), h)
           /\ Purged(h).purged = h.purged + 1
           /\ Purged(h).did = h.did \cup {<<h.path, disk[h.path].v>>}
           /\ Purged(h).rc = h.rc
           /\ Purged(h).pc = IF DropsEntry(h, TRUE) THEN "drop" ELSE "next"
  <1>1. disk[h.path].v \in 1..MaxVersion
    BY DEF StateOK, OnDisk, Contents
  <1>2. h.did \cup {<<h.path, disk[h.path].v>>} \in SUBSET (Paths \X (1..MaxVersion))
    BY <1>1 DEF Purging
  <1>3. h.purged + 1 \in Nat
    BY DEF Purging
  <1> QED  BY ZenonT(60), <1>2, <1>3 DEF Purged, Purging, Same, OnPath

LEMMA FailedType ==
    ASSUME NEW h \in Purging
    PROVE  /\ Failed(h) \in Purging /\ Same(Failed(h), h) /\ Counted(Failed(h), h)
           /\ h.phase = "index" => Failed(h).pc = "done" /\ Failed(h).rc = "ERROR"
           /\ h.phase # "index" => Failed(h).pc = "next" /\ Failed(h).rc = h.rc
  <1>1. CASE h.phase = "index"
    BY <1>1, FinishType, FinishSame DEF Failed
  <1>2. CASE h.phase # "index"
    <2>1. "next" \in Steps /\ Failed(h) = [h EXCEPT !.pc = "next"]
      BY <1>2 DEF Failed, Steps
    <2> QED  BY <1>2, <2>1, MoveType
  <1> QED  BY <1>1, <1>2

(* A purging worker takes a step and stays on its path. *)
LEMMA PurgeStep ==
    ASSUME RunOK, NEW w \in Workers, NEW h \in Purging, Become(w, h),
           h.pc \in OnPath \cup OnOpened => h.path \in Paths
    PROVE  RunOK'
  BY RunStep DEF Handlers

LEMMA StartType ==
    ASSUME StateOK, RunOK, NEW w \in Workers, NEW req \in Purges,
           TagPurge(w, req) \/ WildPurge(w, req) \/ AllPurge(w, req) \/ ExactOpen(w, req)
    PROVE  StateOK' /\ RunOK'
  <1>0. StateOK'
    BY DEF TagPurge, WildPurge, AllPurge, ExactOpen, StateOK, cache, history
  <1>1. "next" \in Steps /\ "opened" \in Steps /\ {} \in SUBSET Paths
    BY DEF Steps, OnOpened
  <1>2. CASE TagPurge(w, req)
    <2> DEFINE h == Handler(req, "next", {p \in Paths : index[p].tags \cap req.arg # {}})
    <2>1. h \in Purging /\ h.pc = "next"
      BY <1>1, HandlerType DEF Handler
    <2>2. Become(w, h) \/ Become(w, Finish(h, "NOT_READY"))
      BY <1>2 DEF TagPurge
    <2> HIDE DEF h
    <2> QED  BY <1>0, <2>1, <2>2, FinishType, PurgeStep DEF OnPath, OnOpened
  <1>3. CASE WildPurge(w, req)
    <2> DEFINE h == Handler(req, "next", {p \in Paths : /\ index[p].present
                                                       /\ KeyOf[p] \in IndexMatch[req.arg]})
               g == Handler(req, "next", {})
    <2>1. h \in Purging /\ h.pc = "next" /\ g \in Purging /\ g.pc = "next"
      BY <1>1, HandlerType DEF Handler
    <2>2. Become(w, h) \/ Become(w, g)
      BY <1>3 DEF WildPurge
    <2> HIDE DEF h, g
    <2> QED  BY <1>0, <2>1, <2>2, PurgeStep DEF OnPath, OnOpened
  <1>4. CASE AllPurge(w, req)
    <2> DEFINE h == Handler(req, "next", Paths)
    <2>1. h \in Purging /\ h.pc = "next"
      BY <1>1, HandlerType DEF Handler
    <2>2. Become(w, [h EXCEPT !.phase = "walk"])
      BY <1>4 DEF AllPurge
    <2> HIDE DEF h
    <2>3. [h EXCEPT !.phase = "walk"] \in Purging /\ [h EXCEPT !.phase = "walk"].pc = "next"
      BY <2>1 DEF Purging
    <2> QED  BY <1>0, <2>2, <2>3, PurgeStep DEF OnPath, OnOpened
  <1>5. CASE ExactOpen(w, req)
    <2> DEFINE h == Handler(req, "opened", {})
    <2>1. h \in Purging /\ h.pc = "opened" /\ h.path = req.arg /\ req.arg \in Paths
      BY <1>1, <1>5, HandlerType DEF Handler, ExactOpen
    <2>2. Become(w, h) \/ Become(w, Finish(h, "NOT_FOUND"))
      BY <1>5 DEF ExactOpen
    <2> HIDE DEF h
    <2> QED  BY <1>0, <2>1, <2>2, FinishType, PurgeStep DEF OnPath, OnOpened
  <1> QED  BY <1>2, <1>3, <1>4, <1>5

-----------------------------------------------------------------------------
(* What each step of a purge does to its handler. *)

Stays(w) == /\ run'[w] \in Purging /\ run[w] \in Purging
            /\ \A v \in Workers : v # w => run'[v] = run[v]

LEMMA PurgeMoves ==
    ASSUME RunOK, NEW w \in Workers, run[w] \in Purging, NEW g \in Purging, Become(w, g),
           g.pc \in OnPath \cup OnOpened => g.path \in Paths
    PROVE  RunOK' /\ Stays(w) /\ run'[w] = g
  BY RunStep DEF Handlers, Stays

LEMMA FinishMoves ==
    ASSUME RunOK, NEW w \in Workers, run[w] \in Purging,
           NEW rc \in {"OK", "NOT_FOUND", "NOT_READY", "ERROR"},
           Become(w, Finish(run[w], rc))
    PROVE  /\ RunOK' /\ Stays(w)
           /\ Same(run'[w], run[w]) /\ Counted(run'[w], run[w])
           /\ run'[w].pc = "done" /\ run'[w].rc = rc
  <1> DEFINE g == Finish(run[w], rc)
  <1>1. g \in Purging /\ g.pc = "done" /\ g.rc = rc /\ Same(g, run[w]) /\ Counted(g, run[w])
    BY FinishType, FinishSame
  <1> HIDE DEF g
  <1>2. RunOK' /\ Stays(w) /\ run'[w] = g
    BY <1>1, PurgeMoves DEF g, OnPath, OnOpened
  <1> QED  BY <1>1, <1>2

FileErrors == Faults \cap {"unlink", "header"} # {}

(* An exact purge ends with the resolved file alone. *)
EndsAlone(w) ==
    /\ run'[w].pc = "done" /\ run'[w].rc = "OK" /\ run'[w].phase = "own"
    /\ run'[w].req = run[w].req /\ run'[w].todo = run[w].todo /\ run'[w].path = run[w].path
    /\ run'[w].snap = run[w].snap /\ run'[w].want = run[w].want
    /\ Counted(run'[w], run[w])

LEMMA AloneMoves ==
    ASSUME RunOK, NEW w \in Workers, run[w] \in Purging, Become(w, WithoutFanout(run[w]))
    PROVE  RunOK' /\ Stays(w) /\ EndsAlone(w)
  <1>1. ASSUME NEW h \in Purging
        PROVE  LET g == WithoutFanout(h)
               IN  /\ g \in Purging /\ g.pc = "done" /\ g.rc = "OK" /\ g.phase = "own"
                   /\ g.req = h.req /\ g.todo = h.todo /\ g.path = h.path
                   /\ g.snap = h.snap /\ g.want = h.want /\ Counted(g, h)
    BY DEF WithoutFanout, Purging, Counted
  <1> DEFINE g == WithoutFanout(run[w])
  <1>2. /\ g \in Purging /\ g.pc = "done" /\ g.rc = "OK" /\ g.phase = "own"
        /\ g.req = run[w].req /\ g.todo = run[w].todo /\ g.path = run[w].path
        /\ g.snap = run[w].snap /\ g.want = run[w].want /\ Counted(g, run[w])
    BY <1>1
  <1> HIDE DEF g
  <1>3. RunOK' /\ Stays(w) /\ run'[w] = g
    BY <1>2, PurgeMoves DEF g, OnPath, OnOpened
  <1> QED  BY <1>2, <1>3 DEF EndsAlone

LEMMA VisitDoes ==
    ASSUME StateOK, RunOK, NEW w \in Workers, Visit(w)
    PROVE  /\ StateOK' /\ RunOK' /\ Stays(w) /\ disk' = disk
           /\ run[w].pc = "next"
           /\ run'[w].req = run[w].req /\ run'[w].phase = run[w].phase
           /\ run'[w].snap = run[w].snap /\ run'[w].want = run[w].want
           /\ run'[w].rc = run[w].rc /\ Counted(run'[w], run[w])
           /\ \E p \in run[w].todo :
                 /\ run'[w].todo = run[w].todo \ {p}
                 /\ \/ /\ run'[w].pc = IF run[w].req.soft THEN "header" ELSE "stat"
                       /\ run'[w].path = p
                    \/ /\ run'[w].pc = "next" /\ run'[w].path = run[w].path
                       /\ run[w].phase # "index"
                       /\ \/ ~OnDisk(p)
                          \/ /\ run[w].req.kind # "all"
                             /\ KeyOf[p] \notin WalkMatch[run[w].req.arg]
  <1>0. StateOK' /\ disk' = disk
    BY DEF Visit, StateOK, cache, history
  <1>1. run[w] \in Purging /\ run[w].pc = "next"
    BY HandlerCases DEF Visit, Steps
  <1> DEFINE pc == IF run[w].req.soft THEN "header" ELSE "stat"
  <1>2. PICK p \in run[w].todo :
          \/ Become(w, [[run[w] EXCEPT !.todo = @ \ {p}] EXCEPT !.path = p, !.pc = pc])
          \/ /\ Become(w, [run[w] EXCEPT !.todo = @ \ {p}])
             /\ run[w].phase # "index"
             /\ \/ ~OnDisk(p)
                \/ run[w].req.kind # "all" /\ KeyOf[p] \notin WalkMatch[run[w].req.arg]
    BY DEF Visit
  <1>3. p \in Paths
    BY <1>1 DEF Purging
  <1>4. CASE Become(w, [[run[w] EXCEPT !.todo = @ \ {p}] EXCEPT !.path = p, !.pc = pc])
    <2> DEFINE g == [[run[w] EXCEPT !.todo = @ \ {p}] EXCEPT !.path = p, !.pc = pc]
    <2>1. /\ g \in Purging /\ g.pc = pc /\ g.path = p /\ g.todo = run[w].todo \ {p}
          /\ g.req = run[w].req /\ g.phase = run[w].phase /\ g.snap = run[w].snap
          /\ g.want = run[w].want /\ g.rc = run[w].rc /\ Counted(g, run[w])
      BY ZenonT(60), <1>1, <1>3 DEF Purging, OnPath, Counted
    <2>2. Become(w, g)
      BY <1>4
    <2> HIDE DEF g, pc
    <2>3. RunOK' /\ run'[w] = g /\ \A v \in Workers : v # w => run'[v] = run[v]
      BY <1>3, <2>1, <2>2, RunStep DEF Handlers
    <2> QED  BY <1>0, <1>1, <2>1, <2>3 DEF Stays, pc
  <1>5. CASE /\ Become(w, [run[w] EXCEPT !.todo = @ \ {p}])
             /\ run[w].phase # "index"
             /\ \/ ~OnDisk(p)
                \/ run[w].req.kind # "all" /\ KeyOf[p] \notin WalkMatch[run[w].req.arg]
    <2> DEFINE g == [run[w] EXCEPT !.todo = @ \ {p}]
    <2>1. /\ g \in Purging /\ g.pc = "next" /\ g.path = run[w].path
          /\ g.todo = run[w].todo \ {p}
          /\ g.req = run[w].req /\ g.phase = run[w].phase /\ g.snap = run[w].snap
          /\ g.want = run[w].want /\ g.rc = run[w].rc /\ Counted(g, run[w])
      BY <1>1, <1>3 DEF Purging, Counted
    <2>2. Become(w, g)
      BY <1>5
    <2> HIDE DEF g, pc
    <2>3. RunOK' /\ run'[w] = g /\ \A v \in Workers : v # w => run'[v] = run[v]
      BY <2>1, <2>2, RunStep DEF Handlers, OnPath, OnOpened
    <2> QED  BY <1>0, <1>1, <1>3, <1>5, <2>1, <2>3 DEF Stays
  <1> QED  BY <1>2, <1>4, <1>5

LEMMA StatDoes ==
    ASSUME StateOK, RunOK, NEW w \in Workers, Stat(w)
    PROVE  /\ StateOK' /\ RunOK' /\ Stays(w) /\ disk' = disk
           /\ run[w].pc = "stat"
           /\ Same(run'[w], run[w]) /\ Counted(run'[w], run[w])
           /\ \/ run'[w].pc = "mark" /\ run'[w].rc = run[w].rc
              \/ /\ ~OnDisk(run[w].path) /\ run'[w].rc = run[w].rc
                 /\ run'[w].pc = IF DropsEntry(run[w], FALSE) THEN "drop" ELSE "next"
              \/ /\ run[w].phase = "index" /\ run'[w].pc = "done" /\ run'[w].rc = "ERROR"
              \/ /\ run[w].phase # "index" /\ FileErrors
                 /\ run'[w].pc = "next" /\ run'[w].rc = run[w].rc
  <1>0. StateOK' /\ disk' = disk
    BY DEF Stat, StateOK, cache, history
  <1>1. run[w] \in Purging /\ run[w].pc = "stat" /\ run[w].path \in Paths
    BY HandlerCases DEF Stat, Steps, OnPath, RunOK
  <1>2. CASE Become(w, [run[w] EXCEPT !.pc = "mark"])
    <2>1. "mark" \in Steps /\ Become(w, [run[w] EXCEPT !.pc = "mark"])
      BY <1>2 DEF Steps, OnPath
    <2>2. RunOK' /\ Stays(w) /\ run'[w] = [run[w] EXCEPT !.pc = "mark"]
      BY ZenonT(60), <1>1, <2>1, MoveType, PurgeMoves DEF Same
    <2> QED  BY <1>0, <1>1, <2>1, <2>2, MoveType
  <1>3. CASE ~OnDisk(run[w].path) /\ Become(w, Declined(run[w]))
    <2>2. RunOK' /\ Stays(w) /\ run'[w] = Declined(run[w])
      BY <1>1, <1>3, DeclinedType, PurgeMoves DEF Same
    <2> QED  BY <1>0, <1>1, <1>3, <2>2, DeclinedType
  <1>4. CASE FileErrors /\ Become(w, Failed(run[w]))
    <2>2. RunOK' /\ Stays(w) /\ run'[w] = Failed(run[w])
      BY <1>1, <1>4, FailedType, PurgeMoves DEF Same
    <2> QED  BY <1>0, <1>1, <1>4, <2>2, FailedType
  <1> QED  BY <1>2, <1>3, <1>4 DEF Stat, FileErrors

LEMMA MarkDoes ==
    ASSUME StateOK, RunOK, NEW w \in Workers, Mark(w)
    PROVE  /\ StateOK' /\ RunOK' /\ Stays(w) /\ disk' = disk
           /\ run[w].pc = "mark" /\ run'[w].pc = "unlink" /\ run'[w].rc = run[w].rc
           /\ Same(run'[w], run[w]) /\ Counted(run'[w], run[w])
  <1>1. run[w] \in Purging /\ run[w].pc = "mark" /\ run[w].path \in Paths
    BY HandlerCases DEF Mark, Steps, OnPath, OnOpened, RunOK
  <1>2. StateOK' /\ disk' = disk
    BY <1>1, Values DEF Mark, StateOK, history, MarkNodeDeleted
  <1>3. "unlink" \in Steps /\ Become(w, [run[w] EXCEPT !.pc = "unlink"])
    BY DEF Mark, Steps, OnPath, OnOpened
  <1>4. RunOK' /\ Stays(w) /\ run'[w] = [run[w] EXCEPT !.pc = "unlink"]
    BY ZenonT(60), <1>1, <1>3, MoveType, PurgeMoves DEF Same
  <1> QED  BY <1>1, <1>2, <1>3, <1>4, MoveType

LEMMA SoftNodeDoes ==
    ASSUME StateOK, RunOK, NEW w \in Workers, SoftNode(w)
    PROVE  /\ StateOK' /\ RunOK' /\ Stays(w) /\ disk' = disk
           /\ run[w].pc = "expire" /\ run'[w].pc = "next" /\ run'[w].rc = run[w].rc
           /\ Same(run'[w], run[w]) /\ Counted(run'[w], run[w])
  <1>1. run[w] \in Purging /\ run[w].pc = "expire" /\ run[w].path \in Paths
    BY HandlerCases DEF SoftNode, Steps, OnPath, OnOpened, RunOK
  <1>2. StateOK' /\ disk' = disk
    BY <1>1, Values DEF SoftNode, StateOK, history
  <1>3. "next" \in Steps /\ Become(w, [run[w] EXCEPT !.pc = "next"])
    BY DEF SoftNode, Steps, OnPath, OnOpened
  <1>4. RunOK' /\ Stays(w) /\ run'[w] = [run[w] EXCEPT !.pc = "next"]
    BY ZenonT(60), <1>1, <1>3, MoveType, PurgeMoves DEF Same
  <1> QED  BY <1>1, <1>2, <1>3, <1>4, MoveType

LEMMA DropEntryDoes ==
    ASSUME StateOK, RunOK, NEW w \in Workers, DropEntry(w)
    PROVE  /\ StateOK' /\ RunOK' /\ Stays(w) /\ disk' = disk
           /\ run[w].pc = "drop" /\ run'[w].pc = "next" /\ run'[w].rc = run[w].rc
           /\ Same(run'[w], run[w]) /\ Counted(run'[w], run[w])
  <1>1. run[w] \in Purging /\ run[w].pc = "drop" /\ run[w].path \in Paths
    BY HandlerCases DEF DropEntry, Steps, OnPath, OnOpened, RunOK
  <1>2. StateOK' /\ disk' = disk
    BY <1>1, Values DEF DropEntry, StateOK, cache, history
  <1>3. "next" \in Steps /\ Become(w, [run[w] EXCEPT !.pc = "next"])
    BY DEF DropEntry, Steps, OnPath, OnOpened
  <1>4. RunOK' /\ Stays(w) /\ run'[w] = [run[w] EXCEPT !.pc = "next"]
    BY ZenonT(60), <1>1, <1>3, MoveType, PurgeMoves DEF Same
  <1> QED  BY <1>1, <1>2, <1>3, <1>4, MoveType

LEMMA OwnEntryDoes ==
    ASSUME StateOK, RunOK, NEW w \in Workers, OwnEntry(w)
    PROVE  /\ StateOK' /\ RunOK' /\ Stays(w) /\ disk' = disk
           /\ run[w].pc = "own_entry" /\ run[w].path \in Paths
           /\ \A p \in Paths : p # run[w].path => index'[p] = index[p]
           /\ \/ /\ run'[w].pc = "fanout" /\ run'[w].rc = run[w].rc
                 /\ Same(run'[w], run[w]) /\ Counted(run'[w], run[w])
              \/ EndsAlone(w)
  <1>1. run[w] \in Purging /\ run[w].pc = "own_entry" /\ run[w].path \in Paths
    BY HandlerCases DEF OwnEntry, Steps, OnPath, OnOpened, RunOK
  <1>2. StateOK' /\ disk' = disk /\ \A p \in Paths : p # run[w].path => index'[p] = index[p]
    BY <1>1, Values DEF OwnEntry, StateOK, cache, history
  <1>3. CASE Become(w, [run[w] EXCEPT !.pc = "fanout"])
    <2>1. "fanout" \in Steps
      BY DEF Steps, OnOpened
    <2>2. RunOK' /\ Stays(w) /\ run'[w] = [run[w] EXCEPT !.pc = "fanout"]
      BY ZenonT(60), <1>1, <1>3, <2>1, MoveType, PurgeMoves DEF Same
    <2> QED  BY <1>1, <1>2, <2>1, <2>2, MoveType
  <1>4. CASE Become(w, WithoutFanout(run[w]))
    BY <1>1, <1>2, <1>4, AloneMoves
  <1> QED  BY <1>3, <1>4 DEF OwnEntry

LEMMA OpenedExpireDoes ==
    ASSUME StateOK, RunOK, NEW w \in Workers, OpenedExpire(w)
    PROVE  /\ StateOK' /\ RunOK' /\ Stays(w) /\ disk' = disk
           /\ run[w].pc = "opened_expire" /\ run'[w].pc = "fanout" /\ run'[w].rc = run[w].rc
           /\ Same(run'[w], run[w]) /\ Counted(run'[w], run[w])
  <1>1. run[w] \in Purging /\ run[w].pc = "opened_expire" /\ run[w].path \in Paths
    BY HandlerCases DEF OpenedExpire, Steps, OnPath, OnOpened, RunOK
  <1>2. StateOK' /\ disk' = disk
    BY <1>1, Values DEF OpenedExpire, StateOK, history
  <1>3. "fanout" \in Steps /\ Become(w, [run[w] EXCEPT !.pc = "fanout"])
    BY DEF OpenedExpire, Steps, OnPath, OnOpened
  <1>4. RunOK' /\ Stays(w) /\ run'[w] = [run[w] EXCEPT !.pc = "fanout"]
    BY ZenonT(60), <1>1, <1>3, MoveType, PurgeMoves DEF Same
  <1> QED  BY <1>1, <1>2, <1>3, <1>4, MoveType

LEMMA UnlinkDoes ==
    ASSUME StateOK, RunOK, NEW w \in Workers, Unlink(w)
    PROVE  /\ StateOK' /\ RunOK' /\ Stays(w) /\ Same(run'[w], run[w])
           /\ run[w].pc = "unlink" /\ run[w].path \in Paths
           /\ \/ /\ OnDisk(run[w].path) /\ disk' = [disk EXCEPT ![run[w].path] = NoContent]
                 /\ run'[w].purged = run[w].purged + 1
                 /\ run'[w].did = run[w].did \cup {<<run[w].path, disk[run[w].path].v>>}
                 /\ run'[w].rc = run[w].rc
                 /\ run'[w].pc = IF DropsEntry(run[w], TRUE) THEN "drop" ELSE "next"
              \/ /\ ~OnDisk(run[w].path) /\ disk' = disk
                 /\ Counted(run'[w], run[w]) /\ run'[w].rc = run[w].rc
                 /\ run'[w].pc = IF DropsEntry(run[w], FALSE) THEN "drop" ELSE "next"
              \/ /\ "unlink" \in Faults /\ disk' = disk /\ Counted(run'[w], run[w])
                 /\ run[w].phase = "index" => run'[w].pc = "done" /\ run'[w].rc = "ERROR"
                 /\ run[w].phase # "index" => run'[w].pc = "next" /\ run'[w].rc = run[w].rc
  <1>1. run[w] \in Purging /\ run[w].pc = "unlink" /\ run[w].path \in Paths
    BY HandlerCases DEF Unlink, Steps, OnPath, RunOK
  <1>2. StateOK'
    <2>1. disk' = disk \/ disk' = [disk EXCEPT ![run[w].path] = NoContent]
      BY DEF Unlink
    <2>2. disk' \in [Paths -> Contents]
      BY <2>1, Values DEF StateOK
    <2> QED  BY <2>2 DEF Unlink, StateOK, history
  <1>3. CASE OnDisk(run[w].path) /\ disk' = [disk EXCEPT ![run[w].path] = NoContent]
             /\ Become(w, Purged(run[w]))
    <2>1. RunOK' /\ Stays(w) /\ run'[w] = Purged(run[w])
      BY <1>1, <1>3, PurgedType, PurgeMoves DEF Same
    <2> QED  BY <1>1, <1>2, <1>3, <2>1, PurgedType
  <1>4. CASE ~OnDisk(run[w].path) /\ Become(w, Declined(run[w])) /\ disk' = disk
    <2>1. RunOK' /\ Stays(w) /\ run'[w] = Declined(run[w])
      BY <1>1, <1>4, DeclinedType, PurgeMoves DEF Same
    <2> QED  BY <1>1, <1>2, <1>4, <2>1, DeclinedType
  <1>5. CASE "unlink" \in Faults /\ Become(w, Failed(run[w])) /\ disk' = disk
    <2>1. RunOK' /\ Stays(w) /\ run'[w] = Failed(run[w])
      BY <1>1, <1>5, FailedType, PurgeMoves DEF Same
    <2> QED  BY <1>1, <1>2, <1>5, <2>1, FailedType
  <1> QED  BY <1>3, <1>4, <1>5 DEF Unlink

LEMMA ExpiredType ==
    ASSUME StateOK, NEW p \in Paths, disk' = [disk EXCEPT ![p].fresh = FALSE]
    PROVE  disk' \in [Paths -> Contents]
  <1>1. disk \in [Paths -> Contents]
    BY DEF StateOK
  <1>2. disk[p] \in Contents
    BY <1>1
  <1>3. [disk[p] EXCEPT !.fresh = FALSE] \in Contents
    BY <1>2 DEF Contents
  <1> QED  BY <1>1, <1>3

LEMMA SoftHeaderDoes ==
    ASSUME StateOK, RunOK, NEW w \in Workers, SoftHeader(w)
    PROVE  /\ StateOK' /\ RunOK' /\ Stays(w) /\ Same(run'[w], run[w])
           /\ run[w].pc = "header" /\ run[w].path \in Paths
           /\ \/ /\ OnDisk(run[w].path) /\ disk' = [disk EXCEPT ![run[w].path].fresh = FALSE]
                 /\ run'[w].purged = run[w].purged + 1
                 /\ run'[w].did = run[w].did \cup {<<run[w].path, disk[run[w].path].v>>}
                 /\ run'[w].rc = run[w].rc
                 /\ run'[w].pc = "expire"
              \/ /\ ~OnDisk(run[w].path) /\ disk' = disk
                 /\ Counted(run'[w], run[w]) /\ run'[w].rc = run[w].rc
                 /\ run'[w].pc = IF DropsEntry(run[w], FALSE) THEN "drop" ELSE "next"
              \/ /\ "header" \in Faults /\ disk' = disk /\ Counted(run'[w], run[w])
                 /\ run[w].phase = "index" => run'[w].pc = "done" /\ run'[w].rc = "ERROR"
                 /\ run[w].phase # "index" => run'[w].pc = "next" /\ run'[w].rc = run[w].rc
  <1>1. run[w] \in Purging /\ run[w].pc = "header" /\ run[w].path \in Paths
    BY HandlerCases DEF SoftHeader, Steps, OnPath, RunOK
  <1>2. StateOK'
    <2>1. disk' = [disk EXCEPT ![run[w].path].fresh = FALSE] \/ disk' = disk
      BY DEF SoftHeader
    <2>2. disk' \in [Paths -> Contents]
      BY <1>1, <2>1, ExpiredType DEF StateOK
    <2> QED  BY <2>2 DEF SoftHeader, StateOK, history
  <1>3. CASE OnDisk(run[w].path) /\ disk' = [disk EXCEPT ![run[w].path].fresh = FALSE]
             /\ Become(w, [Purged(run[w]) EXCEPT !.pc = "expire"])
    <2> DEFINE h == Purged(run[w])
    <2>1. /\ h \in Purging /\ Same(h, run[w]) /\ h.rc = run[w].rc
          /\ h.purged = run[w].purged + 1
          /\ h.did = run[w].did \cup {<<run[w].path, disk[run[w].path].v>>}
      BY <1>1, <1>3, PurgedType
    <2> HIDE DEF h
    <2>2. "expire" \in Steps
      BY DEF Steps, OnPath
    <2> DEFINE g == [h EXCEPT !.pc = "expire"]
    <2>3. g \in Purging /\ g.pc = "expire" /\ g.rc = h.rc /\ Same(g, h) /\ Counted(g, h)
      BY <2>1, <2>2, MoveType
    <2>4. Become(w, g)
      BY <1>3 DEF h
    <2> HIDE DEF g
    <2>5. RunOK' /\ Stays(w) /\ run'[w] = g
      BY <1>1, <2>1, <2>3, <2>4, PurgeMoves DEF Same
    <2> QED  BY <1>1, <1>2, <1>3, <2>1, <2>3, <2>5 DEF Same, Counted
  <1>4. CASE ~OnDisk(run[w].path) /\ Become(w, Declined(run[w])) /\ disk' = disk
    <2>1. RunOK' /\ Stays(w) /\ run'[w] = Declined(run[w])
      BY <1>1, <1>4, DeclinedType, PurgeMoves DEF Same
    <2> QED  BY <1>1, <1>2, <1>4, <2>1, DeclinedType
  <1>5. CASE "header" \in Faults /\ Become(w, Failed(run[w])) /\ disk' = disk
    <2>1. RunOK' /\ Stays(w) /\ run'[w] = Failed(run[w])
      BY <1>1, <1>5, FailedType, PurgeMoves DEF Same
    <2> QED  BY <1>1, <1>2, <1>5, <2>1, FailedType
  <1> QED  BY <1>3, <1>4, <1>5 DEF SoftHeader

(* The end of the loop, or of its first half. *)
LEMMA ExhaustedDoes ==
    ASSUME StateOK, RunOK, NEW w \in Workers, Exhausted(w)
    PROVE  /\ StateOK' /\ RunOK' /\ Stays(w) /\ disk' = disk
           /\ run[w].pc = "next" /\ run[w].todo = {}
           /\ run'[w].req = run[w].req /\ run'[w].want = run[w].want
           /\ Counted(run'[w], run[w])
           /\ \/ /\ run[w].req.kind = "wild" /\ run[w].phase = "index" /\ run[w].purged = 0
                 /\ run'[w].pc = "next" /\ run'[w].rc = run[w].rc
                 /\ run'[w].phase = "walk" /\ run'[w].todo = Paths
                 /\ run'[w].snap = run[w].snap \cup
                       Versions({p \in Paths : OnDisk(p) /\
                                                KeyOf[p] \in WalkMatch[run[w].req.arg]})
              \/ /\ Same(run'[w], run[w]) /\ run'[w].pc = "done"
                 /\ run'[w].rc \in {"OK", "NOT_FOUND"}
                 /\ run[w].req.kind # "wild" \/ run[w].phase # "index" \/ run[w].purged # 0
                 /\ run'[w].rc = "NOT_FOUND" => run[w].req.kind = "tag"
  <1>1. run[w] \in Purging /\ run[w].pc = "next" /\ run[w].todo = {}
    BY HandlerCases DEF Exhausted, Steps
  <1>2. StateOK' /\ disk' = disk
    BY DEF Exhausted, StateOK, cache, history
  <1> DEFINE more == Versions({p \in Paths : OnDisk(p) /\
                                               KeyOf[p] \in WalkMatch[run[w].req.arg]})
             g == [run[w] EXCEPT !.phase = "walk", !.todo = Paths, !.snap = @ \cup more]
  <1>3. more \in SUBSET (Paths \X (1..MaxVersion))
    BY VersionsType
  <1>4. \/ /\ run[w].req.kind = "wild" /\ run[w].phase = "index" /\ run[w].purged = 0
           /\ Become(w, g)
        \/ /\ run[w].req.kind # "wild" \/ run[w].phase # "index" \/ run[w].purged # 0
           /\ \E rc \in {"OK", "NOT_FOUND"} :
                 /\ Become(w, Finish(run[w], rc))
                 /\ rc = "NOT_FOUND" => run[w].req.kind = "tag"
    BY DEF Exhausted
  <1>5. CASE /\ run[w].req.kind = "wild" /\ run[w].phase = "index" /\ run[w].purged = 0
             /\ Become(w, g)
    <2> HIDE DEF more
    <2>1. /\ g \in Purging /\ g.pc = "next" /\ g.rc = run[w].rc /\ g.phase = "walk"
          /\ g.todo = Paths /\ g.snap = run[w].snap \cup more /\ g.req = run[w].req
          /\ g.want = run[w].want /\ Counted(g, run[w])
      BY <1>1, <1>3 DEF Purging, Counted
    <2> HIDE DEF g
    <2>2. RunOK' /\ Stays(w) /\ run'[w] = g
      BY <1>1, <1>5, <2>1, PurgeMoves DEF OnPath, OnOpened
    <2> QED  BY <1>1, <1>2, <1>5, <2>1, <2>2 DEF more
  <1>6. ASSUME run[w].req.kind # "wild" \/ run[w].phase # "index" \/ run[w].purged # 0,
               NEW rc \in {"OK", "NOT_FOUND"}, Become(w, Finish(run[w], rc)),
               rc = "NOT_FOUND" => run[w].req.kind = "tag"
        PROVE  /\ RunOK' /\ Stays(w)
               /\ Same(run'[w], run[w]) /\ run'[w].pc = "done" /\ run'[w].rc = rc
               /\ Counted(run'[w], run[w])
    BY <1>1, <1>6, FinishMoves
  <1> HIDE DEF g, more
  <1> QED  BY <1>1, <1>2, <1>4, <1>5, <1>6 DEF Same

LEMMA OpenedMarkDoes ==
    ASSUME StateOK, RunOK, NEW w \in Workers, OpenedMark(w)
    PROVE  /\ StateOK' /\ RunOK' /\ Stays(w) /\ disk' = disk
           /\ run[w].pc = "opened" /\ run[w].path \in Paths
           /\ Same(run'[w], run[w]) /\ Counted(run'[w], run[w])
           /\ \/ run'[w].pc = "opened_unlink" /\ run'[w].rc = run[w].rc
              \/ run'[w].pc = "done" /\ run'[w].rc = "NOT_FOUND"
  <1>1. run[w] \in Purging /\ run[w].pc = "opened" /\ run[w].path \in Paths
    BY HandlerCases DEF OpenedMark, Steps, OnOpened, RunOK
  <1>2. StateOK' /\ disk' = disk
    <2>1. UNCHANGED <<disk, version, index, complete, logs, lost, tried>>
      BY DEF OpenedMark, history
    <2>2. node' = [node EXCEPT ![run[w].path] = NoNode] \/ node' = node
      BY DEF OpenedMark, MarkNodeDeleted
    <2>3. node' \in [Paths -> [exists : BOOLEAN, fresh : BOOLEAN]]
      BY <2>2, Values DEF StateOK
    <2> QED  BY <2>1, <2>3 DEF StateOK
  <1>3. "opened_unlink" \in Steps
    BY DEF Steps, OnOpened
  <1>4. CASE Become(w, [run[w] EXCEPT !.pc = "opened_unlink"])
    <2>1. RunOK' /\ Stays(w) /\ run'[w] = [run[w] EXCEPT !.pc = "opened_unlink"]
      BY ZenonT(60), <1>1, <1>3, <1>4, MoveType, PurgeMoves DEF Same
    <2> QED  BY <1>1, <1>2, <1>3, <2>1, MoveType
  <1>5. CASE Become(w, Finish(run[w], "NOT_FOUND"))
    BY <1>1, <1>2, <1>5, FinishMoves
  <1> QED  BY <1>4, <1>5 DEF OpenedMark

LEMMA OpenedSoftDoes ==
    ASSUME StateOK, RunOK, NEW w \in Workers, OpenedSoft(w)
    PROVE  /\ StateOK' /\ RunOK' /\ Stays(w) /\ disk' = disk
           /\ run[w].pc = "opened" /\ run[w].path \in Paths
           /\ Same(run'[w], run[w]) /\ Counted(run'[w], run[w])
           /\ \/ run'[w].pc = "opened_header" /\ run'[w].rc = run[w].rc
              \/ run'[w].pc = "done" /\ run'[w].rc = "NOT_FOUND"
  <1>1. run[w] \in Purging /\ run[w].pc = "opened" /\ run[w].path \in Paths
    BY HandlerCases DEF OpenedSoft, Steps, OnOpened, RunOK
  <1>2. StateOK' /\ disk' = disk
    BY DEF OpenedSoft, StateOK, history, cache
  <1>3. "opened_header" \in Steps
    BY DEF Steps, OnOpened
  <1>4. CASE Become(w, [run[w] EXCEPT !.pc = "opened_header"])
    <2>1. RunOK' /\ Stays(w) /\ run'[w] = [run[w] EXCEPT !.pc = "opened_header"]
      BY ZenonT(60), <1>1, <1>3, <1>4, MoveType, PurgeMoves DEF Same
    <2> QED  BY <1>1, <1>2, <1>3, <2>1, MoveType
  <1>5. CASE Become(w, Finish(run[w], "NOT_FOUND"))
    BY <1>1, <1>2, <1>5, FinishMoves
  <1> QED  BY <1>4, <1>5 DEF OpenedSoft

LEMMA OpenedUnlinkDoes ==
    ASSUME StateOK, RunOK, NEW w \in Workers, OpenedUnlink(w)
    PROVE  /\ StateOK' /\ RunOK' /\ Stays(w) /\ Same(run'[w], run[w])
           /\ run[w].pc = "opened_unlink" /\ run[w].path \in Paths
           /\ run'[w].pc = "own_entry" /\ run'[w].rc = run[w].rc
           /\ \/ OnDisk(run[w].path) /\ disk' = [disk EXCEPT ![run[w].path] = NoContent]
              \/ (~OnDisk(run[w].path) \/ "unlink" \in Faults) /\ disk' = disk
  <1>1. run[w] \in Purging /\ run[w].pc = "opened_unlink" /\ run[w].path \in Paths
    BY HandlerCases DEF OpenedUnlink, Steps, OnOpened, RunOK
  <1>2. StateOK'
    BY <1>1, Values DEF OpenedUnlink, StateOK, history
  <1>3. CASE OnDisk(run[w].path) /\ disk' = [disk EXCEPT ![run[w].path] = NoContent]
             /\ Become(w, [Purged(run[w]) EXCEPT !.pc = "own_entry"])
    <2> DEFINE h == Purged(run[w])
    <2>1. /\ h \in Purging /\ Same(h, run[w]) /\ h.rc = run[w].rc
      BY <1>1, <1>3, PurgedType
    <2> HIDE DEF h
    <2>2. "own_entry" \in Steps
      BY DEF Steps, OnOpened
    <2> DEFINE g == [h EXCEPT !.pc = "own_entry"]
    <2>3. g \in Purging /\ g.pc = "own_entry" /\ g.rc = h.rc /\ Same(g, h) /\ Counted(g, h)
      BY <2>1, <2>2, MoveType
    <2>4. Become(w, g)
      BY <1>3 DEF h
    <2> HIDE DEF g
    <2>5. RunOK' /\ Stays(w) /\ run'[w] = g
      BY <1>1, <2>1, <2>3, <2>4, PurgeMoves DEF Same
    <2> QED  BY <1>1, <1>2, <1>3, <2>1, <2>3, <2>5 DEF Same
  <1>4. CASE /\ ~OnDisk(run[w].path) \/ "unlink" \in Faults
             /\ Become(w, [run[w] EXCEPT !.pc = "own_entry", !.purged = 1]) /\ disk' = disk
    <2> DEFINE g == [run[w] EXCEPT !.pc = "own_entry", !.purged = 1]
    <2>1. g \in Purging /\ g.pc = "own_entry" /\ g.rc = run[w].rc /\ Same(g, run[w])
      BY <1>1 DEF Purging, Same, OnOpened
    <2> HIDE DEF g
    <2>2. RunOK' /\ Stays(w) /\ run'[w] = g
      BY <1>1, <1>4, <2>1, PurgeMoves DEF Same, g
    <2> QED  BY <1>1, <1>2, <1>4, <2>1, <2>2
  <1> QED  BY <1>3, <1>4 DEF OpenedUnlink

LEMMA OpenedHeaderDoes ==
    ASSUME StateOK, RunOK, NEW w \in Workers, OpenedHeader(w)
    PROVE  /\ StateOK' /\ RunOK' /\ Stays(w) /\ Same(run'[w], run[w])
           /\ run[w].pc = "opened_header" /\ run[w].path \in Paths
           /\ \/ /\ OnDisk(run[w].path) /\ disk' = [disk EXCEPT ![run[w].path].fresh = FALSE]
                 /\ run'[w].pc = "opened_expire" /\ run'[w].rc = run[w].rc
              \/ /\ disk' = disk
                 /\ run'[w].pc = "done" /\ run'[w].rc \in {"NOT_FOUND", "ERROR"}
  <1>1. run[w] \in Purging /\ run[w].pc = "opened_header" /\ run[w].path \in Paths
    BY HandlerCases DEF OpenedHeader, Steps, OnOpened, RunOK
  <1>2. StateOK'
    <2>1. disk' = [disk EXCEPT ![run[w].path].fresh = FALSE] \/ disk' = disk
      BY DEF OpenedHeader
    <2>2. disk' \in [Paths -> Contents]
      BY <1>1, <2>1, ExpiredType DEF StateOK
    <2> QED  BY <2>2 DEF OpenedHeader, StateOK, history
  <1>3. CASE OnDisk(run[w].path) /\ disk' = [disk EXCEPT ![run[w].path].fresh = FALSE]
             /\ Become(w, [Purged(run[w]) EXCEPT !.pc = "opened_expire"])
    <2> DEFINE h == Purged(run[w])
    <2>1. /\ h \in Purging /\ Same(h, run[w]) /\ h.rc = run[w].rc
      BY <1>1, <1>3, PurgedType
    <2> HIDE DEF h
    <2>2. "opened_expire" \in Steps
      BY DEF Steps, OnOpened
    <2> DEFINE g == [h EXCEPT !.pc = "opened_expire"]
    <2>3. g \in Purging /\ g.pc = "opened_expire" /\ g.rc = h.rc /\ Same(g, h) /\ Counted(g, h)
      BY <2>1, <2>2, MoveType
    <2>4. Become(w, g)
      BY <1>3 DEF h
    <2> HIDE DEF g
    <2>5. RunOK' /\ Stays(w) /\ run'[w] = g
      BY <1>1, <2>1, <2>3, <2>4, PurgeMoves DEF Same
    <2> QED  BY <1>1, <1>2, <1>3, <2>1, <2>3, <2>5 DEF Same
  <1>4. ASSUME NEW rc \in {"NOT_FOUND", "ERROR"}, Become(w, Finish(run[w], rc)), disk' = disk
        PROVE  /\ RunOK' /\ Stays(w) /\ Same(run'[w], run[w])
               /\ run'[w].pc = "done" /\ run'[w].rc = rc
    BY <1>1, <1>4, FinishMoves
  <1> QED  BY <1>1, <1>2, <1>3, <1>4 DEF OpenedHeader

LEMMA FanoutDoes ==
    ASSUME StateOK, RunOK, NEW w \in Workers, Fanout(w)
    PROVE  /\ StateOK' /\ RunOK' /\ Stays(w) /\ disk' = disk
           /\ run[w].pc = "fanout" /\ run[w].path \in Paths
           /\ run'[w].req = run[w].req
           /\ run'[w].path = run[w].path /\ run'[w].want = run[w].want
           /\ \/ /\ run'[w].pc = "next" /\ run'[w].rc = run[w].rc
                 /\ run'[w].phase = run[w].phase
                 /\ run'[w].todo = SameKey(run[w].path)
                 /\ run'[w].snap = Versions({p \in SameKey(run[w].path) : OnDisk(p)})
              \/ EndsAlone(w)
  <1>1. run[w] \in Purging /\ run[w].pc = "fanout" /\ run[w].path \in Paths
    BY HandlerCases DEF Fanout, Steps, OnOpened, RunOK
  <1>2. StateOK' /\ disk' = disk
    BY DEF Fanout, StateOK, history, cache
  <1> DEFINE todo == SameKey(run[w].path)
             snap == Versions({p \in todo : OnDisk(p)})
             g == [run[w] EXCEPT !.pc = "next", !.todo = todo, !.snap = snap]
  <1>3. todo \in SUBSET Paths
    BY DEF SameKey
  <1>4. snap \in SUBSET (Paths \X (1..MaxVersion))
    BY <1>3, VersionsType
  <1>5. Become(w, g) \/ Become(w, WithoutFanout(run[w]))
    BY DEF Fanout
  <1> HIDE DEF todo, snap
  <1>6. /\ g \in Purging /\ g.pc = "next" /\ g.rc = run[w].rc /\ g.req = run[w].req
        /\ g.phase = run[w].phase /\ g.path = run[w].path /\ g.want = run[w].want
        /\ g.todo = todo /\ g.snap = snap
    BY <1>1, <1>3, <1>4 DEF Purging
  <1> HIDE DEF g
  <1>7. CASE Become(w, g)
    <2>1. RunOK' /\ Stays(w) /\ run'[w] = g
      BY <1>1, <1>6, <1>7, PurgeMoves DEF OnPath, OnOpened
    <2> QED  BY <1>1, <1>2, <1>6, <2>1 DEF todo, snap
  <1>8. CASE Become(w, WithoutFanout(run[w]))
    BY <1>1, <1>2, <1>8, AloneMoves DEF EndsAlone
  <1> QED  BY <1>5, <1>7, <1>8

LEMMA RespondDoes ==
    ASSUME StateOK, RunOK, NEW w \in Workers, Respond(w)
    PROVE  /\ StateOK' /\ RunOK' /\ disk' = disk /\ run'[w] = Idle
           /\ \A v \in Workers : v # w => run'[v] = run[v]
  <1>1. run[w] \in Purging
    BY HandlerCases DEF Respond, Steps
  <1>2. run[w].req \in Purges
    BY <1>1 DEF Purging
  <1>3. StateOK' /\ disk' = disk
    BY <1>2 DEF Respond, StateOK, cache
  <1> QED  BY <1>3, Values, RunStep DEF Respond, OnPath, OnOpened

-----------------------------------------------------------------------------
LEMMA NextType == TypeOK /\ [Next]_vars => TypeOK'
  <1> SUFFICES ASSUME StateOK, RunOK, [Next]_vars PROVE StateOK' /\ RunOK'
    BY TypeSplit
  <1>1. CASE UNCHANGED vars
    BY <1>1 DEF vars, StateOK, RunOK
  <1>2. ASSUME NEW w \in Workers, HandlerStep(w)
        PROVE  StateOK' /\ RunOK'
    BY <1>2, ServingType, ScanType, VisitDoes, StatDoes, MarkDoes, UnlinkDoes,
       SoftHeaderDoes, SoftNodeDoes, DropEntryDoes, ExhaustedDoes, OpenedMarkDoes,
       OpenedUnlinkDoes, OwnEntryDoes, OpenedSoftDoes, OpenedHeaderDoes, OpenedExpireDoes,
       FanoutDoes, RespondDoes DEF HandlerStep
  <1> QED
    BY <1>1, <1>2, ServingType, BackgroundType, ScanType, StartType DEF Next

(* Files, nodes, index entries and all kinds of handlers keep their shape,   *)
(* for every configuration and every fault.                                  *)
THEOREM CacheTypeCorrect == Spec => []TypeOK
  BY InitType, NextType, PTL DEF Spec

-----------------------------------------------------------------------------
(* What happens to a file.  A version that has been replaced, removed or     *)
(* expired never comes back, since versions are used once.                   *)

FileStep ==
    /\ version <= version'
    /\ \A p \in Paths :
          \/ disk'[p].v = disk[p].v /\ (disk'[p].fresh => disk[p].fresh)
          \/ disk'[p].v = 0
          \/ disk'[p].v = version + 1 /\ version' = version + 1

LEMMA FileSteps ==
    ASSUME StateOK, RunOK, [Next]_vars
    PROVE  FileStep
  <1>1. ASSUME UNCHANGED <<disk, version>>
        PROVE  FileStep
    BY <1>1 DEF FileStep, StateOK
  <1>2. ASSUME NEW p \in Paths, version' = version,
               \/ disk' = [disk EXCEPT ![p] = NoContent]
               \/ disk' = [disk EXCEPT ![p].fresh = FALSE]
               \/ disk' = disk
        PROVE  FileStep
    BY SMTT(40), <1>2 DEF FileStep, StateOK, NoContent, Contents
  <1>3. ASSUME NEW w \in Workers, NEW p \in Paths, NEW T \in TagsFor[p], Rename(w, p, T)
        PROVE  FileStep
    BY <1>3 DEF FileStep, StateOK, Contents, Rename
  <1>4. CASE UNCHANGED vars
    BY <1>1, <1>4 DEF vars
  <1>5. ASSUME NEW p \in Paths, Evict(p)
        PROVE  FileStep
    BY <1>2, <1>5 DEF Evict
  <1>6. ASSUME NEW w \in Workers, HandlerStep(w)
        PROVE  FileStep
    <2>1. CASE Unlink(w)
      BY <1>2, <2>1, UnlinkDoes DEF Unlink
    <2>2. CASE SoftHeader(w)
      BY <1>2, <2>2, SoftHeaderDoes DEF SoftHeader
    <2>3. CASE OpenedUnlink(w)
      BY <1>2, <2>3, OpenedUnlinkDoes DEF OpenedUnlink
    <2>4. CASE OpenedHeader(w)
      BY <1>2, <2>4, OpenedHeaderDoes DEF OpenedHeader
    <2>5. CASE UNCHANGED <<disk, version>>
      BY <1>1, <2>5
    <2> QED
      BY <1>6, <2>1, <2>2, <2>3, <2>4, <2>5
         DEF HandlerStep, NodeUpdate, ScanEntry, ScanParse, ScanStore, ScanDone, Visit, Stat,
             Mark, SoftNode, DropEntry, Exhausted, OpenedMark, OwnEntry, OpenedSoft,
             OpenedExpire, Fanout, Respond, cache
  <1>7. ASSUME NEW w \in Workers,
               \/ \E p \in Paths : Hit(w, p)
               \/ \E p \in Paths : \E T \in TagsFor[p] : NotStored(w, p, T)
               \/ \E req \in Purges : \/ TagPurge(w, req) \/ WildPurge(w, req)
                                       \/ AllPurge(w, req) \/ ExactOpen(w, req)
               \/ ScanStart(w)
               \/ Crash(w)
        PROVE  FileStep
    BY <1>1, <1>7 DEF Hit, NotStored, TagPurge, WildPurge, AllPurge, ExactOpen, ScanStart,
                      Crash, cache
  <1>8. ASSUME NEW l \in logs, LogHandler(l)
        PROVE  FileStep
    BY <1>1, <1>8 DEF LogHandler, cache
  <1> QED
    BY <1>3, <1>4, <1>5, <1>6, <1>7, <1>8 DEF Next

LEMMA GoneStays ==
    ASSUME StateOK, StateOK', FileStep, NEW p \in Paths, NEW v \in 1..version
    PROVE  /\ disk[p].v # v => disk'[p].v # v
           /\ ~disk[p].fresh => disk'[p].v # v \/ ~disk'[p].fresh
           /\ v \in 1..version'
  BY SMTT(40) DEF StateOK, FileStep, Contents

-----------------------------------------------------------------------------
(* What a purge has collected is gone, or still ahead of it, or the path it  *)
(* is at.  A tree walk passes over what it could not delete or rewrite.      *)

Away(h, p, v) == disk[p].v # v \/ (h.req.soft /\ ~disk[p].fresh)

Ahead(h, p) ==
    \/ /\ p \in h.todo
       /\ h.phase = "walk" /\ h.req.kind # "all" => KeyOf[p] \in WalkMatch[h.req.arg]
    \/ p = h.path /\ h.pc \in {"stat", "mark", "unlink", "header"}

Collected(h) ==
    \A p \in Paths, v \in 1..MaxVersion :
        <<p, v>> \in h.snap =>
            /\ v <= version
            /\ \/ Away(h, p, v)
               \/ Ahead(h, p)
               \/ h.rc \in {"NOT_READY", "ERROR"}
               \/ h.phase = "walk" /\ FileErrors

Loop(h) ==
    /\ h.rc = "none" <=> h.pc # "done"
    /\ h.phase = "walk" => h.req.kind \in {"wild", "all"}
    /\ h.phase = "own" => h.pc = "done" /\ h.req.kind = "exact" /\ h.snap = {}
    /\ h.pc \in OnOpened => h.req.kind = "exact" /\ h.snap = {} /\ h.todo = {}
    /\ h.pc = "done" /\ h.rc \in {"OK", "NOT_FOUND"} => h.todo = {}
    /\ h.pc \in {"header", "expire", "opened_header", "opened_expire"} => h.req.soft
    /\ h.pc \in {"stat", "mark", "unlink", "opened_unlink", "own_entry"} => ~h.req.soft

(* No version is used before its time. *)
Used == \A p \in Paths : disk[p].v <= version

PurgeInv(h) == h.pc \in Steps => Loop(h) /\ Collected(h)

(* The steps of the other workers. *)
LEMMA OthersKeep ==
    ASSUME StateOK, StateOK', RunOK, FileStep, NEW v \in Workers, run'[v] = run[v],
           PurgeInv(run[v])
    PROVE  PurgeInv(run[v])'
  <1> SUFFICES ASSUME run[v].pc \in Steps
               PROVE  Loop(run[v])' /\ Collected(run[v])'
    BY DEF PurgeInv
  <1>1. run[v] \in Purging
    BY HandlerCases
  <1>2. Loop(run[v])'
    BY DEF PurgeInv, Loop
  <1>3. ASSUME NEW p \in Paths, NEW n \in 1..MaxVersion, <<p, n>> \in run[v].snap
        PROVE  /\ n <= version'
               /\ \/ Away(run[v], p, n)'
                  \/ Ahead(run[v], p)'
                  \/ run'[v].rc \in {"NOT_READY", "ERROR"}
                  \/ run'[v].phase = "walk" /\ FileErrors
    <2>1. n \in 1..version
      BY <1>3 DEF PurgeInv, Collected, StateOK
    <2>2. n \in 1..version'
      BY <2>1, GoneStays
    <2>3. Away(run[v], p, n) => Away(run[v], p, n)'
      BY <2>1, GoneStays DEF Away
    <2>4. Ahead(run[v], p) => Ahead(run[v], p)'
      BY DEF Ahead
    <2> QED  BY <1>3, <2>2, <2>3, <2>4 DEF PurgeInv, Collected
  <1> QED  BY <1>2, <1>3 DEF Collected

(* A step of a purge: what was ahead still is, or has been dealt with. *)
LEMMA OwnKeeps ==
    ASSUME StateOK, StateOK', FileStep, NEW w \in Workers, run[w] \in Purging,
           run'[w].req = run[w].req, run'[w].phase = run[w].phase, run'[w].snap = run[w].snap,
           run[w].rc = "none", Collected(run[w]),
           \A p \in Paths, n \in 1..MaxVersion : Ahead(run[w], p) =>
              \/ Ahead(run[w], p)'
              \/ Away(run[w], p, n)'
              \/ run'[w].rc = "ERROR"
              \/ run[w].phase = "walk" /\ FileErrors
    PROVE  Collected(run[w])'
  <1> SUFFICES ASSUME NEW p \in Paths, NEW n \in 1..MaxVersion, <<p, n>> \in run[w].snap
               PROVE  /\ n <= version'
                      /\ \/ Away(run[w], p, n)'
                         \/ Ahead(run[w], p)'
                         \/ run'[w].rc \in {"NOT_READY", "ERROR"}
                         \/ run'[w].phase = "walk" /\ FileErrors
    BY DEF Collected
  <1>1. n \in 1..version
    BY DEF Collected, StateOK
  <1>2. n \in 1..version'
    BY <1>1, GoneStays
  <1>3. Away(run[w], p, n) => Away(run[w], p, n)'
    BY <1>1, GoneStays DEF Away
  <1> QED  BY <1>2, <1>3 DEF Collected

LEMMA VisitKeeps ==
    ASSUME StateOK, RunOK, FileStep, NEW w \in Workers, Visit(w), PurgeInv(run[w])
    PROVE  PurgeInv(run[w])'
  <1> USE VisitDoes
  <1>1. Loop(run[w]) /\ Collected(run[w]) /\ run[w] \in Purging
    BY DEF PurgeInv, Steps, Stays
  <1>2. run[w].req.soft \in BOOLEAN
    BY <1>1 DEF Purging
  <1>3. Loop(run[w])'
    BY <1>1, <1>2 DEF Loop, OnOpened
  <1>4. ASSUME NEW p \in Paths, NEW n \in 1..MaxVersion, Ahead(run[w], p)
        PROVE  Ahead(run[w], p)' \/ Away(run[w], p, n)'
    <2>1. /\ p \in run[w].todo
          /\ run[w].phase # "index" /\ run[w].req.kind # "all" =>
                KeyOf[p] \in WalkMatch[run[w].req.arg]
      BY <1>1, <1>4 DEF Ahead, Loop, Purging
    <2>2. CASE p \in run'[w].todo
      BY <2>1, <2>2 DEF Ahead
    <2>3. CASE run'[w].path = p /\ run'[w].pc \in {"stat", "header"}
      BY <2>3 DEF Ahead
    <2>4. CASE ~OnDisk(p)
      BY <2>4 DEF Away, OnDisk, StateOK, Contents
    <2> QED  BY <2>1, <2>2, <2>3, <2>4
  <1>5. Collected(run[w])'
    BY <1>1, <1>4, OwnKeeps DEF Loop
  <1> QED  BY <1>3, <1>5 DEF PurgeInv

LEMMA AheadSame ==
    ASSUME NEW w \in Workers, Same(run'[w], run[w]), NEW p \in Paths, Ahead(run[w], p)
    PROVE  Ahead(run[w], p)' \/ (p = run[w].path /\ run[w].pc \in {"stat", "mark", "unlink", "header"})
  BY DEF Ahead, Same

LEMMA StatKeeps ==
    ASSUME StateOK, RunOK, FileStep, NEW w \in Workers, Stat(w), PurgeInv(run[w])
    PROVE  PurgeInv(run[w])'
  <1> USE StatDoes
  <1>1. Loop(run[w]) /\ Collected(run[w]) /\ run[w] \in Purging
    BY DEF PurgeInv, Steps, OnPath, Stays
  <1>2. Loop(run[w])'
    BY <1>1 DEF Loop, OnOpened, Same
  <1>3. ASSUME NEW p \in Paths, NEW n \in 1..MaxVersion, Ahead(run[w], p)
        PROVE  \/ Ahead(run[w], p)' \/ Away(run[w], p, n)' \/ run'[w].rc = "ERROR"
               \/ run[w].phase = "walk" /\ FileErrors
    <2>0. run[w].phase \in {"index", "walk"}
      BY <1>1 DEF Loop, Purging
    <2>1. CASE p = run[w].path /\ run'[w].pc = "mark"
      BY <2>1 DEF Ahead, Same
    <2>2. CASE p = run[w].path /\ ~OnDisk(p) /\ disk' = disk
      BY <2>2 DEF Away, OnDisk, StateOK, Contents
    <2>3. CASE p # run[w].path
      BY <1>3, <2>3, AheadSame
    <2> QED  BY <2>0, <2>1, <2>2, <2>3
  <1>4. Collected(run[w])'
    BY <1>1, <1>3, OwnKeeps DEF Loop, Same
  <1> QED  BY <1>2, <1>4 DEF PurgeInv

LEMMA MarkKeeps ==
    ASSUME StateOK, RunOK, FileStep, NEW w \in Workers, Mark(w), PurgeInv(run[w])
    PROVE  PurgeInv(run[w])'
  <1> USE MarkDoes
  <1>1. Loop(run[w]) /\ Collected(run[w]) /\ run[w] \in Purging
    BY DEF PurgeInv, Steps, OnPath, Stays
  <1>2. Loop(run[w])'
    BY <1>1 DEF Loop, OnOpened, Same
  <1>3. ASSUME NEW p \in Paths, NEW n \in 1..MaxVersion, Ahead(run[w], p)
        PROVE  Ahead(run[w], p)'
    <2>1. CASE p = run[w].path
      BY <2>1 DEF Ahead, Same
    <2> QED  BY <1>3, <2>1, AheadSame
  <1>4. Collected(run[w])'
    BY <1>1, <1>3, OwnKeeps DEF Loop, Same
  <1> QED  BY <1>2, <1>4 DEF PurgeInv

LEMMA UnlinkKeeps ==
    ASSUME StateOK, RunOK, FileStep, NEW w \in Workers, Unlink(w), PurgeInv(run[w])
    PROVE  PurgeInv(run[w])'
  <1> USE UnlinkDoes
  <1>1. Loop(run[w]) /\ Collected(run[w]) /\ run[w] \in Purging
    BY DEF PurgeInv, Steps, OnPath, Stays
  <1>2. Loop(run[w])'
    BY <1>1 DEF Loop, OnOpened, Same
  <1>3. ASSUME NEW p \in Paths, NEW n \in 1..MaxVersion, Ahead(run[w], p)
        PROVE  \/ Ahead(run[w], p)' \/ Away(run[w], p, n)'
               \/ run'[w].rc = "ERROR" \/ (run[w].phase = "walk" /\ FileErrors)
    <2>1. CASE disk'[p].v = 0
      BY <2>1 DEF Away
    <2>2. CASE p = run[w].path /\ ~OnDisk(p) /\ disk' = disk
      BY <2>2 DEF Away, OnDisk, StateOK, Contents
    <2>3. CASE "unlink" \in Faults /\ (run[w].phase = "index" => run'[w].rc = "ERROR")
      BY <1>1, <2>3 DEF FileErrors, Loop, Purging
    <2>4. CASE p = run[w].path /\ disk' = [disk EXCEPT ![run[w].path] = NoContent]
      BY <2>1, <2>4 DEF NoContent, StateOK
    <2> QED  BY <1>3, <2>2, <2>3, <2>4, AheadSame
  <1>4. Collected(run[w])'
    BY <1>1, <1>3, OwnKeeps DEF Loop, Same
  <1> QED  BY <1>2, <1>4 DEF PurgeInv

LEMMA SoftHeaderKeeps ==
    ASSUME StateOK, RunOK, FileStep, NEW w \in Workers, SoftHeader(w), PurgeInv(run[w])
    PROVE  PurgeInv(run[w])'
  <1> USE SoftHeaderDoes
  <1>1. Loop(run[w]) /\ Collected(run[w]) /\ run[w] \in Purging
    BY DEF PurgeInv, Steps, OnPath, Stays
  <1>2. Loop(run[w])'
    BY <1>1 DEF Loop, OnOpened, Same
  <1>3. ASSUME NEW p \in Paths, NEW n \in 1..MaxVersion, Ahead(run[w], p)
        PROVE  \/ Ahead(run[w], p)' \/ Away(run[w], p, n)'
               \/ run'[w].rc = "ERROR" \/ (run[w].phase = "walk" /\ FileErrors)
    <2>1. CASE p = run[w].path /\ ~OnDisk(p) /\ disk' = disk
      BY <2>1 DEF Away, OnDisk, StateOK, Contents
    <2>2. CASE "header" \in Faults /\ (run[w].phase = "index" => run'[w].rc = "ERROR")
      BY <1>1, <2>2 DEF FileErrors, Loop, Purging
    <2>3. CASE p = run[w].path /\ disk' = [disk EXCEPT ![run[w].path].fresh = FALSE]
      <3>1. ~disk'[p].fresh
        BY <2>3 DEF StateOK, Contents
      <3>2. run[w].req.soft
        BY <1>1 DEF Loop
      <3> QED  BY <3>1, <3>2 DEF Away, Same
    <2> QED  BY <1>3, <2>1, <2>2, <2>3, AheadSame
  <1>4. Collected(run[w])'
    BY <1>1, <1>3, OwnKeeps DEF Loop, Same
  <1> QED  BY <1>2, <1>4 DEF PurgeInv

LEMMA SoftNodeKeeps ==
    ASSUME StateOK, RunOK, FileStep, NEW w \in Workers, SoftNode(w) \/ DropEntry(w),
           PurgeInv(run[w])
    PROVE  PurgeInv(run[w])'
  <1> USE SoftNodeDoes, DropEntryDoes
  <1>1. Loop(run[w]) /\ Collected(run[w]) /\ run[w] \in Purging
    BY DEF PurgeInv, Steps, OnPath, Stays
  <1>2. Loop(run[w])'
    BY <1>1 DEF Loop, OnOpened, Same
  <1>3. \A p \in Paths : Ahead(run[w], p) => Ahead(run[w], p)'
    BY AheadSame
  <1>4. Collected(run[w])'
    BY <1>1, <1>3, OwnKeeps DEF Loop, Same
  <1> QED  BY <1>2, <1>4 DEF PurgeInv

(* The steps on the opened file have collected nothing yet. *)
LEMMA OpenedKeeps ==
    ASSUME StateOK, RunOK, FileStep, NEW w \in Workers, PurgeInv(run[w]),
           \/ OpenedMark(w) \/ OpenedUnlink(w) \/ OwnEntry(w)
           \/ OpenedSoft(w) \/ OpenedHeader(w) \/ OpenedExpire(w)
    PROVE  PurgeInv(run[w])'
  <1>1. /\ run[w].pc \in OnOpened /\ Stays(w)
        /\ Same(run'[w], run[w]) \/ EndsAlone(w)
        /\ \/ /\ run'[w].pc \in OnOpened /\ run'[w].rc = run[w].rc
              /\ run'[w].pc \in {"opened_header", "opened_expire"} => run[w].req.soft
              /\ run'[w].pc \in {"opened_unlink", "own_entry"} => ~run[w].req.soft
           \/ run'[w].pc = "done" /\ run'[w].rc \in {"OK", "NOT_FOUND", "ERROR"}
    <2>1. CASE OpenedMark(w)
      BY <2>1, OpenedMarkDoes DEF OnOpened, OpenedMark
    <2>2. CASE OpenedUnlink(w)
      BY <2>2, OpenedUnlinkDoes DEF OnOpened, PurgeInv, Loop, Steps
    <2>3. CASE OwnEntry(w)
      BY <2>3, OwnEntryDoes DEF OnOpened, EndsAlone
    <2>4. CASE OpenedSoft(w)
      BY <2>4, OpenedSoftDoes DEF OnOpened, OpenedSoft
    <2>5. CASE OpenedHeader(w)
      BY <2>5, OpenedHeaderDoes DEF OnOpened, PurgeInv, Loop, Steps
    <2>6. CASE OpenedExpire(w)
      BY <2>6, OpenedExpireDoes DEF OnOpened
    <2> QED  BY <2>1, <2>2, <2>3, <2>4, <2>5, <2>6
  <1>2. Loop(run[w])
    BY <1>1 DEF PurgeInv, Steps
  <1>3. Loop(run[w])'
    BY <1>1, <1>2 DEF Loop, OnOpened, Same, EndsAlone
  <1>4. run'[w].snap = {}
    BY <1>1, <1>2 DEF Loop, Same, EndsAlone
  <1>5. Collected(run[w])'
    BY <1>4 DEF Collected
  <1> QED  BY <1>3, <1>5 DEF PurgeInv

(* The versions that are collected are those of the moment. *)
LEMMA VersionsAre ==
    ASSUME NEW S \in SUBSET Paths, NEW p \in Paths, NEW n \in Nat
    PROVE  <<p, n>> \in Versions(S) <=> p \in S /\ n = disk[p].v
  BY DEF Versions

LEMMA FanoutKeeps ==
    ASSUME StateOK, RunOK, FileStep, Used, NEW w \in Workers, Fanout(w), PurgeInv(run[w])
    PROVE  PurgeInv(run[w])'
  <1> USE FanoutDoes
  <1>1. Loop(run[w]) /\ run[w] \in Purging
    BY DEF PurgeInv, Steps, OnOpened, Stays
  <1>2. Loop(run[w])'
    BY <1>1 DEF Loop, OnOpened, EndsAlone
  <1>3. ASSUME NEW p \in Paths, NEW n \in 1..MaxVersion, <<p, n>> \in run'[w].snap
        PROVE  n <= version' /\ Ahead(run[w], p)'
    <2>0. ~EndsAlone(w)
      BY <1>1, <1>3 DEF Loop, OnOpened, EndsAlone
    <2> DEFINE S == {q \in SameKey(run[w].path) : OnDisk(q)}
    <2>1. S \in SUBSET Paths /\ n \in Nat /\ run'[w].snap = Versions(S)
      BY <2>0 DEF SameKey
    <2>2. p \in S /\ n = disk[p].v
      <3> HIDE DEF S
      <3> QED  BY <1>3, <2>1, VersionsAre
    <2>3. run'[w].phase # "walk"
      BY <1>1, <2>0 DEF Loop, OnOpened
    <2>4. Ahead(run[w], p)'
      BY <2>0, <2>2, <2>3 DEF Ahead
    <2>5. n <= version /\ version <= version' /\ version \in Nat /\ version' \in Nat
      <3>1. StateOK' /\ MaxVersion \in Nat
        OBVIOUS
      <3>2. disk[p].v <= version /\ version <= version'
        BY DEF Used, FileStep
      <3> QED  BY <2>2, <3>1, <3>2 DEF StateOK
    <2> QED  BY <2>4, <2>5
  <1>4. Collected(run[w])'
    BY <1>3 DEF Collected
  <1> QED  BY <1>2, <1>4 DEF PurgeInv

LEMMA ExhaustedKeeps ==
    ASSUME StateOK, RunOK, FileStep, Used, NEW w \in Workers, Exhausted(w), PurgeInv(run[w])
    PROVE  PurgeInv(run[w])'
  <1> USE ExhaustedDoes
  <1>1. Loop(run[w]) /\ Collected(run[w]) /\ run[w] \in Purging
    BY DEF PurgeInv, Steps, Stays
  <1>2. Loop(run[w])'
    BY <1>1 DEF Loop, OnOpened, Same
  <1>3. CASE Same(run'[w], run[w]) /\ run'[w].pc = "done" /\ run'[w].rc \in {"OK", "NOT_FOUND"}
    <2>1. \A p \in Paths : ~Ahead(run[w], p)
      BY DEF Ahead
    <2>2. Collected(run[w])'
      BY <1>1, <1>3, <2>1, OwnKeeps DEF Loop, Same
    <2> QED  BY <1>2, <2>2 DEF PurgeInv
  <1>4. CASE /\ run[w].phase = "index" /\ run'[w].phase = "walk"
             /\ run'[w].todo = Paths
             /\ run'[w].snap = run[w].snap \cup
                  Versions({p \in Paths : OnDisk(p) /\
                                           KeyOf[p] \in WalkMatch[run[w].req.arg]})
    <2>1. ASSUME NEW p \in Paths, NEW n \in 1..MaxVersion, <<p, n>> \in run'[w].snap
          PROVE  n <= version' /\ (Away(run[w], p, n)' \/ Ahead(run[w], p)')
      <3>1. CASE <<p, n>> \in run[w].snap
        <4>1. n <= version /\ Away(run[w], p, n)
          BY <1>1, <1>4, <3>1 DEF Collected, Loop, Ahead
        <4> QED  BY <4>1 DEF Away, FileStep, StateOK
      <3>2. CASE <<p, n>> \notin run[w].snap
        <4>1. KeyOf[p] \in WalkMatch[run[w].req.arg] /\ n = disk[p].v
          BY <1>4, <2>1, <3>2, VersionsAre
        <4> QED  BY <1>4, <4>1 DEF Ahead, Used, FileStep, StateOK, Contents
      <3> QED  BY <3>1, <3>2
    <2>2. Collected(run[w])'
      BY <2>1 DEF Collected
    <2> QED  BY <1>2, <2>2 DEF PurgeInv
  <1> QED  BY <1>3, <1>4

(* The handler a purge request starts with. *)
Collects(h, req) ==
    \/ /\ req.kind = "tag" /\ h.phase = "index"
       /\ h.todo = {p \in Paths : index[p].tags \cap req.arg # {}}
       /\ \/ complete /\ h.pc = "next" /\ h.rc = "none"
          \/ h.pc = "done" /\ h.rc = "NOT_READY"
    \/ /\ req.kind = "wild" /\ h.phase = "index" /\ h.pc = "next" /\ h.rc = "none"
       /\ \/ h.todo = {p \in Paths : index[p].present /\ KeyOf[p] \in IndexMatch[req.arg]}
          \/ "collect" \in Faults /\ h.todo = {}
    \/ /\ req.kind = "all" /\ h.phase = "walk" /\ h.pc = "next" /\ h.rc = "none"
       /\ h.todo = Paths
    \/ /\ req.kind = "exact" /\ h.phase = "index" /\ h.todo = {} /\ h.path = req.arg
       /\ \/ h.pc = "opened" /\ h.rc = "none"
          \/ h.pc = "done" /\ h.rc = "NOT_FOUND"

Fresh(h, req) ==
    /\ h.req = req /\ h.purged = 0 /\ h.did = {}
    /\ h.snap = Versions({p \in h.todo : OnDisk(p)})
    /\ h.want = Versions({p \in Paths : OnDisk(p) /\ Settled(p) /\ About(req, p)})

LEMMA HandlerFresh ==
    ASSUME NEW req \in Purges, NEW pc \in Steps, NEW todo \in SUBSET Paths
    PROVE  LET h == Handler(req, pc, todo)
           IN  /\ Fresh(h, req) /\ h.pc = pc /\ h.todo = todo /\ h.rc = "none"
               /\ h.phase = "index" /\ (req.kind = "exact" => h.path = req.arg)
  BY DEF Handler, Fresh

LEMMA StartDoes ==
    ASSUME StateOK, RunOK, NEW w \in Workers, NEW req \in Purges,
           TagPurge(w, req) \/ WildPurge(w, req) \/ AllPurge(w, req) \/ ExactOpen(w, req)
    PROVE  /\ run'[w] \in Purging /\ run[w] = Idle
           /\ \A v \in Workers : v # w => run'[v] = run[v]
           /\ UNCHANGED <<cache, index, complete, history, tried>>
           /\ Collects(run'[w], req) /\ Fresh(run'[w], req)
  <1>0. /\ UNCHANGED <<cache, index, complete, history, tried>>
        /\ run[w] = Idle /\ \A v \in Workers : v # w => run'[v] = run[v]
    BY DEF TagPurge, WildPurge, AllPurge, ExactOpen, Become, RunOK
  <1>1. "next" \in Steps /\ "opened" \in Steps /\ {} \in SUBSET Paths
    BY DEF Steps, OnOpened
  <1>2. ASSUME NEW h, Become(w, h)
        PROVE  run'[w] = h
    BY <1>2 DEF Become, RunOK
  <1>3. ASSUME NEW h \in Purging, Fresh(h, req), NEW rc \in {"NOT_FOUND", "NOT_READY"}
        PROVE  LET g == Finish(h, rc)
               IN  /\ g \in Purging /\ Fresh(g, req) /\ g.pc = "done" /\ g.rc = rc
                   /\ g.todo = h.todo /\ g.phase = h.phase /\ g.path = h.path
    <2> DEFINE g == Finish(h, rc)
    <2>0. rc \in {"OK", "NOT_FOUND", "NOT_READY", "ERROR"}
      OBVIOUS
    <2>1. /\ g \in Purging /\ g.pc = "done" /\ g.rc = rc /\ Same(g, h) /\ Counted(g, h)
      BY <2>0, FinishType, FinishSame
    <2> HIDE DEF g
    <2>2. Fresh(g, req)
      BY <1>3, <2>1 DEF Same, Counted, Fresh
    <2> QED  BY <2>1, <2>2 DEF Same, g
  <1>4. CASE TagPurge(w, req)
    <2> DEFINE todo == {p \in Paths : index[p].tags \cap req.arg # {}}
               h == Handler(req, "next", todo)
    <2>1. /\ h \in Purging /\ Fresh(h, req) /\ h.pc = "next" /\ h.todo = todo /\ h.rc = "none"
          /\ h.phase = "index"
      BY <1>1, HandlerType, HandlerFresh
    <2>2. (complete /\ Become(w, h)) \/ Become(w, Finish(h, "NOT_READY"))
      BY <1>4 DEF TagPurge
    <2> HIDE DEF h
    <2>3. CASE complete /\ Become(w, h)
      BY <1>0, <1>2, <1>4, <2>1, <2>3 DEF Collects, TagPurge
    <2>4. CASE Become(w, Finish(h, "NOT_READY"))
      <3> DEFINE g == Finish(h, "NOT_READY")
      <3>1. /\ g \in Purging /\ Fresh(g, req) /\ g.pc = "done" /\ g.rc = "NOT_READY"
            /\ g.todo = todo /\ g.phase = "index" /\ run'[w] = g
        BY <1>2, <1>3, <2>1, <2>4
      <3> HIDE DEF g
      <3> QED  BY <1>0, <1>4, <3>1 DEF Collects, TagPurge
    <2> QED  BY <2>2, <2>3, <2>4
  <1>5. CASE WildPurge(w, req)
    <2> DEFINE todo == {p \in Paths : index[p].present /\ KeyOf[p] \in IndexMatch[req.arg]}
               h == Handler(req, "next", todo)
               g == Handler(req, "next", {})
    <2>1. /\ h \in Purging /\ Fresh(h, req) /\ h.pc = "next" /\ h.todo = todo /\ h.rc = "none"
          /\ h.phase = "index"
      BY <1>1, HandlerType, HandlerFresh
    <2>2. /\ g \in Purging /\ Fresh(g, req) /\ g.pc = "next" /\ g.todo = {} /\ g.rc = "none"
          /\ g.phase = "index"
      BY <1>1, HandlerType, HandlerFresh
    <2>3. Become(w, h) \/ ("collect" \in Faults /\ Become(w, g))
      BY <1>5 DEF WildPurge
    <2> HIDE DEF h, g
    <2>4. CASE Become(w, h)
      BY <1>0, <1>2, <1>5, <2>1, <2>4 DEF Collects, WildPurge
    <2>5. CASE "collect" \in Faults /\ Become(w, g)
      BY <1>0, <1>2, <1>5, <2>2, <2>5 DEF Collects, WildPurge
    <2> QED  BY <2>3, <2>4, <2>5
  <1>6. CASE AllPurge(w, req)
    <2> DEFINE h == Handler(req, "next", Paths)
               g == [h EXCEPT !.phase = "walk"]
    <2>1. h \in Purging /\ Fresh(h, req) /\ h.pc = "next" /\ h.todo = Paths /\ h.rc = "none"
      BY <1>1, HandlerType, HandlerFresh
    <2>2. Become(w, g)
      BY <1>6 DEF AllPurge
    <2> HIDE DEF h
    <2>3. /\ g \in Purging /\ Fresh(g, req) /\ g.pc = "next" /\ g.todo = Paths
          /\ g.rc = "none" /\ g.phase = "walk"
      <3>1. g \in Purging /\ g.phase = "walk"
        BY <2>1 DEF Purging
      <3>2. /\ g.req = h.req /\ g.purged = h.purged /\ g.did = h.did /\ g.snap = h.snap
            /\ g.want = h.want /\ g.pc = h.pc /\ g.todo = h.todo /\ g.rc = h.rc
        BY <2>1 DEF Purging
      <3> HIDE DEF g
      <3> QED  BY <2>1, <3>1, <3>2 DEF Fresh
    <2> HIDE DEF g
    <2> QED  BY <1>0, <1>2, <1>6, <2>2, <2>3 DEF Collects, AllPurge
  <1>7. CASE ExactOpen(w, req)
    <2> DEFINE h == Handler(req, "opened", {})
               g == Finish(h, "NOT_FOUND")
    <2>1. /\ h \in Purging /\ Fresh(h, req) /\ h.pc = "opened" /\ h.todo = {} /\ h.rc = "none"
          /\ h.phase = "index" /\ h.path = req.arg
      BY <1>1, <1>7, HandlerType, HandlerFresh DEF ExactOpen
    <2>2. Become(w, h) \/ Become(w, g)
      BY <1>7 DEF ExactOpen
    <2> HIDE DEF h
    <2>3. /\ g \in Purging /\ Fresh(g, req) /\ g.pc = "done" /\ g.rc = "NOT_FOUND"
          /\ g.todo = {} /\ g.phase = "index" /\ g.path = req.arg
      BY <1>3, <2>1
    <2> HIDE DEF g
    <2> QED  BY <1>0, <1>2, <1>7, <2>1, <2>2, <2>3 DEF Collects, ExactOpen
  <1> QED  BY <1>4, <1>5, <1>6, <1>7

LEMMA StartKeeps ==
    ASSUME StateOK, RunOK, Used, NEW w \in Workers, NEW req \in Purges,
           TagPurge(w, req) \/ WildPurge(w, req) \/ AllPurge(w, req) \/ ExactOpen(w, req)
    PROVE  PurgeInv(run[w])'
  <1> USE StartDoes
  <1>1. Loop(run[w])'
    BY DEF Loop, Collects, Fresh, OnOpened, Versions
  <1>2. ASSUME NEW p \in Paths, NEW n \in 1..MaxVersion, <<p, n>> \in run'[w].snap
        PROVE  n <= version' /\ (Ahead(run[w], p)' \/ run'[w].rc = "NOT_READY")
    <2> DEFINE S == {q \in run'[w].todo : OnDisk(q)}
    <2>1. S \in SUBSET Paths /\ n \in Nat /\ run'[w].snap = Versions(S)
      <3>1. run'[w].todo \in SUBSET Paths
        BY DEF Purging
      <3>2. run'[w].snap = Versions(S)
        BY DEF Fresh
      <3> QED  BY <3>1, <3>2
    <2>2. p \in S /\ n = disk[p].v
      <3> HIDE DEF S
      <3> QED  BY <1>2, <2>1, VersionsAre
    <2>3. n <= version'
      BY <2>2 DEF Used, cache
    <2>4. Ahead(run[w], p)'
      BY ZenonT(60), <2>2 DEF Ahead, Collects, Fresh
    <2> QED  BY <2>3, <2>4
  <1>3. Collected(run[w])'
    BY <1>2 DEF Collected
  <1> QED  BY <1>1, <1>3 DEF PurgeInv

(* The steps that are not part of a purge. *)
LEMMA OutsideDoes ==
    ASSUME RunOK, NEW w \in Workers,
           \/ \E p \in Paths : \E T \in TagsFor[p] : Rename(w, p, T)
           \/ NodeUpdate(w) \/ Crash(w) \/ Respond(w)
           \/ ScanStart(w) \/ ScanEntry(w) \/ ScanParse(w) \/ ScanStore(w) \/ ScanDone(w)
    PROVE  /\ run'[w].pc \in {"idle", "node", "scan", "entry", "parsed"}
           /\ \A v \in Workers : v # w => run'[v] = run[v]
  <1>1. ASSUME NEW h, run' = [run EXCEPT ![w] = h],
               h.pc \in {"idle", "node", "scan", "entry", "parsed"}
        PROVE  /\ run'[w].pc \in {"idle", "node", "scan", "entry", "parsed"}
               /\ \A v \in Workers : v # w => run'[v] = run[v]
    BY <1>1 DEF RunOK
  <1>2. ASSUME NEW p \in Paths, NEW T \in TagsFor[p], Rename(w, p, T)
        PROVE  \E h : /\ run' = [run EXCEPT ![w] = h]
                      /\ h.pc \in {"idle", "node", "scan", "entry", "parsed"}
    <2> WITNESS [pc |-> "node", path |-> p, tags |-> T]
    <2> QED  BY <1>2 DEF Rename
  <1>3. CASE NodeUpdate(w) \/ Crash(w) \/ Respond(w) \/ ScanDone(w)
    BY <1>1, <1>3, Values DEF NodeUpdate, Crash, Respond, ScanDone, Become
  <1>4. CASE ScanStart(w)
    <2>1. [pc |-> "scan", todo |-> Paths].pc = "scan"
      OBVIOUS
    <2> QED  BY <1>1, <1>4, <2>1 DEF ScanStart
  <1>5. CASE ScanEntry(w)
    <2>1. PICK p \in run[w].todo :
             \/ run' = [run EXCEPT ![w] =
                          [pc |-> "entry", todo |-> run[w].todo \ {p}, path |-> p]]
             \/ run' = [run EXCEPT ![w] = [pc |-> "scan", todo |-> run[w].todo \ {p}]]
      BY <1>5 DEF ScanEntry
    <2> QED  BY <1>1, <2>1
  <1>6. CASE ScanParse(w)
    BY <1>1, <1>6 DEF ScanParse
  <1>7. CASE ScanStore(w)
    <2>1. CASE run' = [run EXCEPT ![w] = [pc |-> "scan", todo |-> run[w].todo]]
      BY <1>1, <2>1
    <2>2. CASE run' = [run EXCEPT ![w] = Idle]
      BY <1>1, <2>2, Values
    <2> QED  BY <1>7, <2>1, <2>2 DEF ScanStore
  <1> QED  BY <1>1, <1>2, <1>3, <1>4, <1>5, <1>6, <1>7

(* The inductive invariant of the collected versions. *)
PurgeInvs == Used /\ \A w \in Workers : PurgeInv(run[w])

LEMMA InitPurgeInvs == Init => PurgeInvs
  <1> SUFFICES ASSUME Init PROVE PurgeInvs
    OBVIOUS
  <1>1. Used
    <2>1. /\ version = 1
          /\ disk \in [Paths -> {NoContent} \cup [v : {1}, tags : SUBSET Tags, fresh : {TRUE}]]
      BY DEF Init
    <2>2. ASSUME NEW p \in Paths PROVE disk[p].v \in {0, 1}
      <3>1. ASSUME NEW F, NEW c \in [v : {1}, tags : SUBSET Tags, fresh : F]
            PROVE  c.v = 1
        OBVIOUS
      <3>2. NoContent.v = 0
        BY DEF NoContent
      <3> HIDE DEF NoContent
      <3> DEFINE F == {TRUE}
      <3>3. disk[p] = NoContent \/ disk[p] \in [v : {1}, tags : SUBSET Tags, fresh : F]
        BY <2>1
      <3> HIDE DEF F
      <3> QED  BY <3>1, <3>2, <3>3
    <2> QED  BY <2>1, <2>2 DEF Used
  <1>2. \A w \in Workers : run[w] = Idle
    BY DEF Init
  <1> QED  BY <1>1, <1>2 DEF PurgeInvs, PurgeInv, Idle, Steps, OnPath, OnOpened

LEMMA NextPurgeInvs == TypeOK /\ PurgeInvs /\ [Next]_vars => PurgeInvs'
  <1> SUFFICES ASSUME StateOK, RunOK, PurgeInvs, [Next]_vars PROVE PurgeInvs'
    BY TypeSplit
  <1>1. StateOK' /\ RunOK' /\ FileStep
    BY NextType, TypeSplit, FileSteps
  <1>2. Used /\ \A w \in Workers : PurgeInv(run[w])
    BY DEF PurgeInvs
  <1>3. Used'
    <2> SUFFICES ASSUME NEW p \in Paths PROVE disk'[p].v <= version'
      BY DEF Used
    <2>1. version \in Nat /\ version' \in Nat /\ version <= version' /\ disk[p].v <= version
      BY <1>1, <1>2 DEF StateOK, FileStep, Used
    <2>2. disk[p].v \in Nat
      BY DEF StateOK, Contents
    <2> QED  BY <1>1, <2>1, <2>2 DEF FileStep
  <1>4. ASSUME NEW v \in Workers, run'[v] = run[v]
        PROVE  PurgeInv(run[v])'
    BY <1>1, <1>2, <1>4, OthersKeep
  <1>5. ASSUME run' = run
        PROVE  \A v \in Workers : PurgeInv(run[v])'
    BY <1>4, <1>5
  <1>6. ASSUME NEW w \in Workers, PurgeInv(run[w])',
               \A v \in Workers : v # w => run'[v] = run[v]
        PROVE  \A v \in Workers : PurgeInv(run[v])'
    BY <1>4, <1>6
  <1>7. ASSUME NEW w \in Workers, HandlerStep(w)
        PROVE  \A v \in Workers : PurgeInv(run[v])'
    <2>1. CASE NodeUpdate(w) \/ ScanEntry(w) \/ ScanParse(w) \/ ScanStore(w) \/ ScanDone(w)
                 \/ Respond(w)
      <3>1. PurgeInv(run[w])' /\ \A v \in Workers : v # w => run'[v] = run[v]
        BY <2>1, OutsideDoes DEF PurgeInv, Steps, OnPath, OnOpened
      <3> QED  BY <1>6, <3>1
    <2>2. CASE Visit(w)
      BY <1>1, <1>2, <1>6, <2>2, VisitKeeps, VisitDoes DEF Stays
    <2>3. CASE Stat(w)
      BY <1>1, <1>2, <1>6, <2>3, StatKeeps, StatDoes DEF Stays
    <2>4. CASE Mark(w)
      BY <1>1, <1>2, <1>6, <2>4, MarkKeeps, MarkDoes DEF Stays
    <2>5. CASE Unlink(w)
      BY <1>1, <1>2, <1>6, <2>5, UnlinkKeeps, UnlinkDoes DEF Stays
    <2>6. CASE SoftHeader(w)
      BY <1>1, <1>2, <1>6, <2>6, SoftHeaderKeeps, SoftHeaderDoes DEF Stays
    <2>7. CASE SoftNode(w)
      BY <1>1, <1>2, <1>6, <2>7, SoftNodeKeeps, SoftNodeDoes DEF Stays
    <2>8. CASE DropEntry(w)
      BY <1>1, <1>2, <1>6, <2>8, SoftNodeKeeps, DropEntryDoes DEF Stays
    <2>9. CASE Exhausted(w)
      BY <1>1, <1>2, <1>6, <2>9, ExhaustedKeeps, ExhaustedDoes DEF Stays
    <2>10. CASE OpenedMark(w)
      BY <1>1, <1>2, <1>6, <2>10, OpenedKeeps, OpenedMarkDoes DEF Stays
    <2>11. CASE OpenedUnlink(w)
      BY <1>1, <1>2, <1>6, <2>11, OpenedKeeps, OpenedUnlinkDoes DEF Stays
    <2>12. CASE OwnEntry(w)
      BY <1>1, <1>2, <1>6, <2>12, OpenedKeeps, OwnEntryDoes DEF Stays
    <2>13. CASE OpenedSoft(w)
      BY <1>1, <1>2, <1>6, <2>13, OpenedKeeps, OpenedSoftDoes DEF Stays
    <2>14. CASE OpenedHeader(w)
      BY <1>1, <1>2, <1>6, <2>14, OpenedKeeps, OpenedHeaderDoes DEF Stays
    <2>15. CASE OpenedExpire(w)
      BY <1>1, <1>2, <1>6, <2>15, OpenedKeeps, OpenedExpireDoes DEF Stays
    <2>16. CASE Fanout(w)
      BY <1>1, <1>2, <1>6, <2>16, FanoutKeeps, FanoutDoes DEF Stays
    <2> QED
      BY <1>7, <2>1, <2>2, <2>3, <2>4, <2>5, <2>6, <2>7, <2>8, <2>9, <2>10, <2>11, <2>12,
         <2>13, <2>14, <2>15, <2>16 DEF HandlerStep
  <1>8. ASSUME NEW w \in Workers,
               \/ \E p \in Paths : \E T \in TagsFor[p] : Rename(w, p, T)
               \/ ScanStart(w) \/ Crash(w)
        PROVE  \A v \in Workers : PurgeInv(run[v])'
    <2>1. PurgeInv(run[w])' /\ \A v \in Workers : v # w => run'[v] = run[v]
      BY <1>8, OutsideDoes DEF PurgeInv, Steps, OnPath, OnOpened
    <2> QED  BY <1>6, <2>1
  <1>9. ASSUME NEW w \in Workers, NEW req \in Purges,
               TagPurge(w, req) \/ WildPurge(w, req) \/ AllPurge(w, req) \/ ExactOpen(w, req)
        PROVE  \A v \in Workers : PurgeInv(run[v])'
    BY <1>2, <1>6, <1>9, StartKeeps, StartDoes
  <1>10. ASSUME NEW w \in Workers,
                \/ \E p \in Paths : Hit(w, p)
                \/ \E p \in Paths : \E T \in TagsFor[p] : NotStored(w, p, T)
         PROVE  \A v \in Workers : PurgeInv(run[v])'
    BY <1>5, <1>10 DEF Hit, NotStored
  <1>11. ASSUME (\E l \in logs : LogHandler(l)) \/ (\E p \in Paths : Evict(p)) \/ UNCHANGED vars
         PROVE  \A v \in Workers : PurgeInv(run[v])'
    <2>1. run' = run
      BY <1>11 DEF LogHandler, Evict, vars
    <2> QED  BY <1>5, <2>1
  <1>12. \A v \in Workers : PurgeInv(run[v])'
    <2>1. CASE UNCHANGED vars
      BY <1>11, <2>1
    <2>2. CASE Next
      <3>1. CASE (\E l \in logs : LogHandler(l)) \/ (\E p \in Paths : Evict(p))
        BY <1>11, <3>1
      <3> QED  BY <1>7, <1>8, <1>9, <1>10, <2>2, <3>1 DEF Next
    <2> QED  BY <2>1, <2>2
  <1> QED  BY <1>3, <1>12 DEF PurgeInvs

PurgeAnswers == {"OK", "NOT_FOUND"}

(* A purge that has gone through what it collected from the index. *)
IndexedGone ==
    \A w \in Workers :
        Answered(run[w], Kinds, PurgeAnswers) /\ run[w].phase = "index" =>
            \A pv \in run[w].snap : Gone(run[w], pv)

LEMMA AnsweredGone ==
    ASSUME TypeOK, PurgeInvs, NEW w \in Workers, Answered(run[w], Kinds, PurgeAnswers),
           run[w].phase # "walk" \/ ~FileErrors
    PROVE  \A pv \in run[w].snap : Gone(run[w], pv)
  <1>1. run[w].pc = "done" /\ run[w].rc \in PurgeAnswers
    BY DEF Answered
  <1>2. run[w] \in Purging /\ Loop(run[w]) /\ Collected(run[w])
    BY <1>1, TypeSplit, HandlerCases DEF PurgeInvs, PurgeInv, Steps
  <1> SUFFICES ASSUME NEW pv \in run[w].snap PROVE Gone(run[w], pv)
    OBVIOUS
  <1>3. PICK p \in Paths, v \in 1..MaxVersion : pv = <<p, v>>
    BY <1>2 DEF Purging
  <1>4. run[w].todo = {} /\ ~Ahead(run[w], p)
    BY <1>1, <1>2 DEF Loop, Ahead, PurgeAnswers
  <1>5. Away(run[w], p, v)
    BY <1>1, <1>2, <1>3, <1>4 DEF Collected, PurgeAnswers
  <1> QED  BY <1>3, <1>5 DEF Gone, Away

(* When a purge that went through the index ends without an error, every     *)
(* version it collected is gone, whatever the other workers, the cache       *)
(* manager and any of the faults did between its steps (the loops over the   *)
(* collected paths end on an error and never pass over a path).              *)
THEOREM IndexedPurgesGone == Spec => []IndexedGone
  <1>1. TypeOK /\ PurgeInvs => IndexedGone
    BY AnsweredGone DEF IndexedGone
  <1> QED  BY <1>1, InitPurgeInvs, NextPurgeInvs, CacheTypeCorrect, PTL DEF Spec

(* If unlink and header writes do not fail, this also holds of the versions  *)
(* a tree walk found: ngx_walk_tree passes over only what is gone, so every  *)
(* purge that answers has removed or expired all that it collected.          *)
THEOREM CollectedAreGone == ~FileErrors => (Spec => []CollectedGone)
  <1> SUFFICES ASSUME ~FileErrors PROVE Spec => []CollectedGone
    OBVIOUS
  <1>1. TypeOK /\ PurgeInvs => CollectedGone
    BY AnsweredGone DEF CollectedGone, PurgeAnswers
  <1> QED  BY <1>1, InitPurgeInvs, NextPurgeInvs, CacheTypeCorrect, PTL DEF Spec

-----------------------------------------------------------------------------
(* Counting: the loops over paths visit each path once, so each purged file  *)
(* adds one to the counter and one to the set of what was purged.  The steps *)
(* of an exact purge on its opened file are outside of that.                 *)

Pending == {"stat", "mark", "unlink", "header"}

Counting(h) ==
    h.pc \in Steps /\ h.req.kind # "exact" =>
        /\ IsFiniteSet(h.did) /\ h.purged = Cardinality(h.did)
        /\ \A p \in Paths, v \in 1..MaxVersion : <<p, v>> \in h.did => p \notin h.todo
        /\ h.pc \in Pending =>
              /\ h.path \notin h.todo
              /\ \A p \in Paths, v \in 1..MaxVersion : <<p, v>> \in h.did => p # h.path

LEMMA CountStays ==
    ASSUME NEW w \in Workers, Counting(run[w]), run[w].pc \in Steps,
           Same(run'[w], run[w]), Counted(run'[w], run[w]),
           run'[w].pc \in Pending => run[w].pc \in Pending
    PROVE  Counting(run[w])'
  BY DEF Counting, Same, Counted

(* One more file, that has not been counted yet. *)
LEMMA CountMore ==
    ASSUME NEW w \in Workers, StateOK, Counting(run[w]), run[w] \in Purging,
           run[w].pc \in Pending, run[w].path \in Paths, OnDisk(run[w].path),
           Same(run'[w], run[w]), run'[w].pc \notin Pending,
           run'[w].purged = run[w].purged + 1,
           run'[w].did = run[w].did \cup {<<run[w].path, disk[run[w].path].v>>}
    PROVE  Counting(run[w])'
  <1> SUFFICES ASSUME run[w].req.kind # "exact" PROVE Counting(run[w])'
    BY DEF Counting, Same
  <1> DEFINE e == <<run[w].path, disk[run[w].path].v>>
  <1>1. /\ IsFiniteSet(run[w].did) /\ run[w].purged = Cardinality(run[w].did)
        /\ \A p \in Paths, v \in 1..MaxVersion : <<p, v>> \in run[w].did => p \notin run[w].todo
        /\ run[w].path \notin run[w].todo
        /\ \A p \in Paths, v \in 1..MaxVersion : <<p, v>> \in run[w].did => p # run[w].path
    BY DEF Counting, Pending, Steps, OnPath
  <1>2. disk[run[w].path].v \in 1..MaxVersion
    BY DEF StateOK, OnDisk, Contents
  <1>3. e \notin run[w].did
    BY <1>1, <1>2
  <1>4. IsFiniteSet(run'[w].did) /\ Cardinality(run'[w].did) = Cardinality(run[w].did) + 1
    <2>1. run'[w].did = run[w].did \cup {e}
      OBVIOUS
    <2>2. /\ IsFiniteSet(run[w].did \cup {e})
          /\ Cardinality(run[w].did \cup {e}) = IF e \in run[w].did THEN Cardinality(run[w].did)
                                                ELSE Cardinality(run[w].did) + 1
      <3> HIDE DEF e
      <3> QED  BY ONLY <1>1, FS_AddElement
    <2> QED  BY <1>3, <2>1, <2>2
  <1>5. ASSUME NEW p \in Paths, NEW v \in 1..MaxVersion, <<p, v>> \in run'[w].did
        PROVE  p \notin run'[w].todo
    BY <1>1, <1>5 DEF Same
  <1> QED  BY <1>1, <1>4, <1>5 DEF Counting

LEMMA CountVisit ==
    ASSUME NEW w \in Workers, StateOK, RunOK, Counting(run[w]), Visit(w)
    PROVE  Counting(run[w])'
  <1> SUFFICES ASSUME run[w].req.kind # "exact" PROVE Counting(run[w])'
    BY VisitDoes DEF Counting
  <1>1. /\ IsFiniteSet(run[w].did) /\ run[w].purged = Cardinality(run[w].did)
        /\ \A p \in Paths, v \in 1..MaxVersion : <<p, v>> \in run[w].did => p \notin run[w].todo
    BY VisitDoes DEF Counting, Steps
  <1>2. /\ run'[w].did = run[w].did /\ run'[w].purged = run[w].purged
        /\ \E q \in run[w].todo :
              /\ run'[w].todo = run[w].todo \ {q}
              /\ run'[w].path = q \/ run'[w].pc = "next"
    BY VisitDoes DEF Counted
  <1> QED  BY <1>1, <1>2 DEF Counting, Pending

LEMMA CountExhausted ==
    ASSUME NEW w \in Workers, StateOK, RunOK, Counting(run[w]), Exhausted(w)
    PROVE  Counting(run[w])'
  <1> USE ExhaustedDoes
  <1>1. CASE Same(run'[w], run[w]) /\ run'[w].pc = "done"
    BY <1>1, CountStays DEF Steps, Pending
  <1>2. CASE run[w].req.kind = "wild" /\ run[w].purged = 0 /\ run'[w].pc = "next"
    <2>1. IsFiniteSet(run[w].did) /\ Cardinality(run[w].did) = 0
      BY <1>2 DEF Counting, Steps
    <2>2. run[w].did = {}
      BY <2>1, FS_EmptySet
    <2> QED  BY <1>2, <2>1, <2>2 DEF Counting, Counted, Pending
  <1> QED  BY <1>1, <1>2

LEMMA CountStart ==
    ASSUME StateOK, RunOK, NEW w \in Workers, NEW req \in Purges,
           TagPurge(w, req) \/ WildPurge(w, req) \/ AllPurge(w, req) \/ ExactOpen(w, req)
    PROVE  Counting(run[w])'
  <1>1. IsFiniteSet({}) /\ Cardinality({}) = 0
    BY FS_EmptySet
  <1>2. run'[w].did = {} /\ run'[w].purged = 0 /\ run'[w].pc \notin Pending
    BY StartDoes DEF Fresh, Collects, Pending
  <1> QED  BY <1>1, <1>2 DEF Counting

AllCounting == \A w \in Workers : Counting(run[w])

LEMMA NextCounting == TypeOK /\ PurgeInvs /\ AllCounting /\ [Next]_vars => AllCounting'
  <1> SUFFICES ASSUME StateOK, RunOK, PurgeInvs, \A w \in Workers : Counting(run[w]),
                      [Next]_vars, NEW v \in Workers
               PROVE  Counting(run[v])'
    BY TypeSplit DEF AllCounting
  <1>1. ASSUME run'[v] = run[v] PROVE Counting(run[v])'
    BY <1>1 DEF Counting
  <1>2. ASSUME NEW w \in Workers, Counting(run[w])',
               \A u \in Workers : u # w => run'[u] = run[u]
        PROVE  Counting(run[v])'
    BY <1>1, <1>2
  <1>3. ASSUME NEW w \in Workers, HandlerStep(w)
        PROVE  Counting(run[v])'
    <2>0. Counting(run[w]) /\ PurgeInv(run[w])
      BY DEF PurgeInvs
    <2>1. CASE NodeUpdate(w) \/ ScanEntry(w) \/ ScanParse(w) \/ ScanStore(w) \/ ScanDone(w)
                 \/ Respond(w)
      <3>1. Counting(run[w])' /\ \A u \in Workers : u # w => run'[u] = run[u]
        BY <2>1, OutsideDoes DEF Counting, Steps, OnPath, OnOpened
      <3> QED  BY <1>2, <3>1
    <2>2. CASE Visit(w)
      BY <1>2, <2>0, <2>2, CountVisit, VisitDoes DEF Stays
    <2>3. CASE Stat(w)
      <3>1. Counting(run[w])'
        BY <2>0, <2>3, StatDoes, CountStays DEF Steps, OnPath, Pending
      <3> QED  BY <1>2, <2>3, <3>1, StatDoes DEF Stays
    <2>4. CASE Mark(w)
      <3>1. Counting(run[w])'
        BY <2>0, <2>4, MarkDoes, CountStays DEF Steps, OnPath, Pending
      <3> QED  BY <1>2, <2>4, <3>1, MarkDoes DEF Stays
    <2>5. CASE Unlink(w)
      <3>1. Counting(run[w])'
        <4>1. CASE Counted(run'[w], run[w])
          BY <2>0, <2>5, <4>1, UnlinkDoes, CountStays DEF Steps, OnPath, Pending
        <4>2. CASE ~Counted(run'[w], run[w])
          <5>1. /\ run[w] \in Purging /\ run[w].pc \in Pending /\ run[w].path \in Paths
                /\ OnDisk(run[w].path) /\ Same(run'[w], run[w]) /\ run'[w].pc \notin Pending
                /\ run'[w].purged = run[w].purged + 1
                /\ run'[w].did = run[w].did \cup {<<run[w].path, disk[run[w].path].v>>}
            BY <2>5, <4>2, UnlinkDoes DEF Stays, Pending
          <5> QED  BY <2>0, <5>1, CountMore
        <4> QED  BY <4>1, <4>2
      <3> QED  BY <1>2, <2>5, <3>1, UnlinkDoes DEF Stays
    <2>6. CASE SoftHeader(w)
      <3>1. Counting(run[w])'
        <4>1. CASE Counted(run'[w], run[w])
          BY <2>0, <2>6, <4>1, SoftHeaderDoes, CountStays DEF Steps, OnPath, Pending
        <4>2. CASE ~Counted(run'[w], run[w])
          <5>1. /\ run[w] \in Purging /\ run[w].pc \in Pending /\ run[w].path \in Paths
                /\ OnDisk(run[w].path) /\ Same(run'[w], run[w]) /\ run'[w].pc \notin Pending
                /\ run'[w].purged = run[w].purged + 1
                /\ run'[w].did = run[w].did \cup {<<run[w].path, disk[run[w].path].v>>}
            BY <2>6, <4>2, SoftHeaderDoes DEF Stays, Pending
          <5> QED  BY <2>0, <5>1, CountMore
        <4> QED  BY <4>1, <4>2
      <3> QED  BY <1>2, <2>6, <3>1, SoftHeaderDoes DEF Stays
    <2>7. CASE SoftNode(w)
      <3>1. Counting(run[w])'
        BY <2>0, <2>7, SoftNodeDoes, CountStays DEF Steps, OnPath, Pending
      <3> QED  BY <1>2, <2>7, <3>1, SoftNodeDoes DEF Stays
    <2>8. CASE DropEntry(w)
      <3>1. Counting(run[w])'
        BY <2>0, <2>8, DropEntryDoes, CountStays DEF Steps, OnPath, Pending
      <3> QED  BY <1>2, <2>8, <3>1, DropEntryDoes DEF Stays
    <2>9. CASE Exhausted(w)
      BY <1>2, <2>0, <2>9, CountExhausted, ExhaustedDoes DEF Stays
    <2>10. CASE \/ OpenedMark(w) \/ OpenedUnlink(w) \/ OwnEntry(w) \/ OpenedSoft(w)
                \/ OpenedHeader(w) \/ OpenedExpire(w) \/ Fanout(w)
      <3>1. run[w].pc \in OnOpened /\ Stays(w) /\ run'[w].req = run[w].req
        <4>1. CASE OpenedMark(w)
          BY <4>1, OpenedMarkDoes DEF OnOpened, Same
        <4>2. CASE OpenedUnlink(w)
          BY <4>2, OpenedUnlinkDoes DEF OnOpened, Same
        <4>3. CASE OwnEntry(w)
          BY <4>3, OwnEntryDoes DEF OnOpened, Same, EndsAlone
        <4>4. CASE OpenedSoft(w)
          BY <4>4, OpenedSoftDoes DEF OnOpened, Same
        <4>5. CASE OpenedHeader(w)
          BY <4>5, OpenedHeaderDoes DEF OnOpened, Same
        <4>6. CASE OpenedExpire(w)
          BY <4>6, OpenedExpireDoes DEF OnOpened, Same
        <4>7. CASE Fanout(w)
          BY <4>7, FanoutDoes DEF OnOpened
        <4> QED  BY <2>10, <4>1, <4>2, <4>3, <4>4, <4>5, <4>6, <4>7
      <3>2. run'[w].req.kind = "exact"
        BY <2>0, <3>1 DEF PurgeInv, Loop, Steps
      <3>3. Counting(run[w])'
        BY <3>2 DEF Counting
      <3> QED  BY <1>2, <3>1, <3>3 DEF Stays
    <2> QED
      BY <1>3, <2>1, <2>2, <2>3, <2>4, <2>5, <2>6, <2>7, <2>8, <2>9, <2>10 DEF HandlerStep
  <1>4. ASSUME NEW w \in Workers,
               \/ \E p \in Paths : \E T \in TagsFor[p] : Rename(w, p, T)
               \/ ScanStart(w) \/ Crash(w)
        PROVE  Counting(run[v])'
    <2>1. Counting(run[w])' /\ \A u \in Workers : u # w => run'[u] = run[u]
      BY <1>4, OutsideDoes DEF Counting, Steps, OnPath, OnOpened
    <2> QED  BY <1>2, <2>1
  <1>5. ASSUME NEW w \in Workers, NEW req \in Purges,
               TagPurge(w, req) \/ WildPurge(w, req) \/ AllPurge(w, req) \/ ExactOpen(w, req)
        PROVE  Counting(run[v])'
    BY <1>2, <1>5, CountStart, StartDoes
  <1>6. ASSUME \/ \E w \in Workers, p \in Paths :
                     Hit(w, p) \/ \E T \in TagsFor[p] : NotStored(w, p, T)
               \/ \E l \in logs : LogHandler(l)
               \/ \E p \in Paths : Evict(p)
               \/ UNCHANGED vars
        PROVE  Counting(run[v])'
    <2>1. run' = run
      BY <1>6 DEF Hit, NotStored, LogHandler, Evict, vars
    <2> QED  BY <1>1, <2>1
  <1>7. CASE UNCHANGED vars
    BY <1>6, <1>7
  <1>8. CASE Next
    <2>1. CASE (\E l \in logs : LogHandler(l)) \/ (\E p \in Paths : Evict(p))
      BY <1>6, <2>1
    <2> QED  BY <1>3, <1>4, <1>5, <1>6, <1>8, <2>1 DEF Next
  <1> QED  BY <1>7, <1>8

(* The answer of a purge that loops over paths. *)
LoopsCount ==
    \A w \in Workers :
        Answered(run[w], Kinds \ {"exact"}, PurgeAnswers) =>
            run[w].purged = Cardinality(run[w].did)

(* A tag, wildcard or all purge reports as many entries as it removed or     *)
(* expired, under every fault and interleaving: a file that another worker   *)
(* re-created or the cache manager dropped meanwhile is never counted twice, *)
(* and a wildcard purge that falls back to the walk starts from zero.        *)
THEOREM LoopsCountEntries == Spec => []LoopsCount
  <1>1. Init => AllCounting
    BY DEF Init, Idle, AllCounting, Counting, Steps, OnPath, OnOpened
  <1>2. AllCounting => LoopsCount
    BY DEF LoopsCount, Answered, AllCounting, Counting, Steps
  <1> QED
    BY <1>1, <1>2, NextCounting, InitPurgeInvs, NextPurgeInvs, CacheTypeCorrect, PTL DEF Spec

(* Where no exact purge arrives, every 200 reports what was really purged.   *)
(* An exact purge counts a file it could not unlink, and counts the opened   *)
(* file again when its entry is still in the index.                          *)
THEOREM EntriesAreCounted ==
    (\A req \in Purges : req.kind # "exact") => (Spec => []CountsEntries)
  <1> SUFFICES ASSUME \A req \in Purges : req.kind # "exact"
               PROVE  Spec => []CountsEntries
    OBVIOUS
  <1>1. TypeOK /\ LoopsCount => CountsEntries
    <2> SUFFICES ASSUME TypeOK, LoopsCount, NEW w \in Workers,
                        Answered(run[w], Kinds, {"OK"})
                 PROVE  run[w].purged = Cardinality(run[w].did)
      BY DEF CountsEntries
    <2>1. run[w] \in Purging
      BY TypeSplit, HandlerCases DEF Answered, Steps
    <2>2. run[w].req.kind # "exact"
      BY <2>1 DEF Purging
    <2> QED  BY <2>2 DEF LoopsCount, Answered, PurgeAnswers
  <1> QED  BY <1>1, CacheTypeCorrect, LoopsCountEntries, PTL

=============================================================================
