---------------------------- MODULE PartialThread ----------------------------
(***************************************************************************)
(* A wildcard purge whose tree walk runs in a thread pool                  *)
(* (ngx_http_cache_pilot_partial_thread and _completion).  The event loop  *)
(* of one worker posts the task, arms a timer on the task's event and      *)
(* leaves the request blocked; the event's handler is called when the      *)
(* timer expires and when the task is done.  The thread works on memory of *)
(* the request.  Terminating and closing a request is nginx core: a        *)
(* request is freed when nothing refers to it and it is not blocked.       *)
(***************************************************************************)
EXTENDS Naturals, FiniteSets

CONSTANTS Requests,   \* wildcard purge requests that need the walk
          Threads,    \* number of threads of the pool
          MaxQueue    \* tasks the pool lets wait

VARIABLES phase,       \* [Requests -> "new", "open" or "freed"]
          count,       \* references of the event loop (r->main->count)
          blocked,     \* r->main->blocked
          aio,         \* r->aio
          terminated,  \* r->main->terminated
          task,        \* "none", "queued", "running", "OK", "ERROR" or "done"
          timer,       \* is the timer of the task's event set?
          answers,     \* responses sent
          recorded     \* purge operations counted

vars == <<phase, count, blocked, aio, terminated, task, timer, answers, recorded>>

Init ==
    /\ phase = [r \in Requests |-> "new"]
    /\ count = [r \in Requests |-> 1]
    /\ blocked = [r \in Requests |-> 0]
    /\ aio = [r \in Requests |-> FALSE]
    /\ terminated = [r \in Requests |-> FALSE]
    /\ task = [r \in Requests |-> "none"]
    /\ timer = [r \in Requests |-> FALSE]
    /\ answers = [r \in Requests |-> 0]
    /\ recorded = [r \in Requests |-> 0]

With(t) == {r \in Requests : task[r] = t}

(* ngx_http_close_request, b being what blocks the request by then. *)
Close(r, b) ==
    /\ count' = [count EXCEPT ![r] = @ - 1]
    /\ phase' = [phase EXCEPT ![r] = IF count[r] = 1 /\ b = 0 THEN "freed" ELSE "open"]

(* ngx_http_terminate_handler: whatever refers to the request is dropped. *)
Drop(r) ==
    /\ count' = [count EXCEPT ![r] = 0]
    /\ phase' = [phase EXCEPT ![r] = "freed"]

(* Mutant: the request is not marked as blocked. *)
PostUnblocked(r) ==
    /\ phase[r] = "new" /\ Cardinality(With("queued")) < MaxQueue
    /\ task' = [task EXCEPT ![r] = "queued"]
    /\ timer' = [timer EXCEPT ![r] = TRUE]
    /\ aio' = [aio EXCEPT ![r] = TRUE]
    /\ phase' = [phase EXCEPT ![r] = "open"]
    /\ UNCHANGED <<count, blocked, terminated, answers, recorded>>

(* partial posts the task and returns NGX_DONE; protocol_handler takes the   *)
(* reference that the content phase gives back.                              *)
Post(r) ==
    /\ phase[r] = "new" /\ Cardinality(With("queued")) < MaxQueue
    /\ task' = [task EXCEPT ![r] = "queued"]
    /\ timer' = [timer EXCEPT ![r] = TRUE]
    /\ blocked' = [blocked EXCEPT ![r] = @ + 1]
    /\ aio' = [aio EXCEPT ![r] = TRUE]
    /\ phase' = [phase EXCEPT ![r] = "open"]
    /\ UNCHANGED <<count, terminated, answers, recorded>>

(* The pool refuses the task: NGX_ERROR, answered 500 and finalized. *)
PostFails(r) ==
    /\ phase[r] = "new" /\ Cardinality(With("queued")) >= MaxQueue
    /\ answers' = [answers EXCEPT ![r] = @ + 1]
    /\ Close(r, 0)
    /\ UNCHANGED <<blocked, aio, terminated, task, timer, recorded>>

(* A thread takes the task and walks the tree. *)
ThreadStart(r) ==
    /\ task[r] = "queued" /\ Cardinality(With("running")) < Threads
    /\ task' = [task EXCEPT ![r] = "running"]
    /\ UNCHANGED <<phase, count, blocked, aio, terminated, timer, answers, recorded>>

ThreadEnd(r) ==
    /\ task[r] = "running"
    /\ \E rc \in {"OK", "ERROR"} : task' = [task EXCEPT ![r] = rc]
    /\ UNCHANGED <<phase, count, blocked, aio, terminated, timer, answers, recorded>>

(* Mutant: a timeout is taken for the completion. *)
TimedOutFinalizes(r) ==
    /\ timer[r]
    /\ timer' = [timer EXCEPT ![r] = FALSE]
    /\ blocked' = [blocked EXCEPT ![r] = @ - 1]
    /\ aio' = [aio EXCEPT ![r] = FALSE]
    /\ answers' = [answers EXCEPT ![r] = @ + 1]
    /\ Close(r, blocked[r] - 1)
    /\ UNCHANGED <<terminated, task, recorded>>

(* partial_completion, called for the timer: a line in the log, no more.     *)
TimedOut(r) ==
    /\ timer[r]
    /\ timer' = [timer EXCEPT ![r] = FALSE]
    /\ UNCHANGED <<phase, count, blocked, aio, terminated, task, answers, recorded>>

(* Mutant: a request that has been terminated is not left to nginx. *)
CompleteAnyway(r) ==
    /\ task[r] \in {"OK", "ERROR"}
    /\ task' = [task EXCEPT ![r] = "done"]
    /\ timer' = [timer EXCEPT ![r] = FALSE]
    /\ blocked' = [blocked EXCEPT ![r] = @ - 1]
    /\ aio' = [aio EXCEPT ![r] = FALSE]
    /\ answers' = [answers EXCEPT ![r] = @ + 1]
    /\ recorded' = [recorded EXCEPT ![r] = @ + (IF task[r] = "OK" THEN 1 ELSE 0)]
    /\ Close(r, blocked[r] - 1)
    /\ UNCHANGED terminated

(* Mutant: a terminated request is not handed back to nginx. *)
CompleteReturns(r) ==
    /\ task[r] \in {"OK", "ERROR"}
    /\ task' = [task EXCEPT ![r] = "done"]
    /\ timer' = [timer EXCEPT ![r] = FALSE]
    /\ blocked' = [blocked EXCEPT ![r] = @ - 1]
    /\ aio' = [aio EXCEPT ![r] = FALSE]
    /\ IF terminated[r]
       THEN UNCHANGED <<count, phase, answers, recorded>>
       ELSE /\ answers' = [answers EXCEPT ![r] = @ + 1]
            /\ recorded' = [recorded EXCEPT ![r] = @ + (IF task[r] = "OK" THEN 1 ELSE 0)]
            /\ Close(r, blocked[r] - 1)
    /\ UNCHANGED terminated

(* partial_completion, called for the task: unblock the request, and record  *)
(* and answer it, unless it has been terminated while the thread was busy.   *)
Complete(r) ==
    /\ task[r] \in {"OK", "ERROR"}
    /\ task' = [task EXCEPT ![r] = "done"]
    /\ timer' = [timer EXCEPT ![r] = FALSE]
    /\ blocked' = [blocked EXCEPT ![r] = @ - 1]
    /\ aio' = [aio EXCEPT ![r] = FALSE]
    /\ IF terminated[r]
       THEN Drop(r) /\ UNCHANGED <<answers, recorded>>
       ELSE /\ answers' = [answers EXCEPT ![r] = @ + 1]
            /\ recorded' = [recorded EXCEPT ![r] = @ + (IF task[r] = "OK" THEN 1 ELSE 0)]
            /\ Close(r, blocked[r] - 1)
    /\ UNCHANGED terminated

(* The client is gone and nginx terminates the request: at once, or, when it *)
(* is blocked, on the next write event after that.                           *)
Terminate(r) ==
    /\ phase[r] = "open" /\ ~terminated[r]
    /\ terminated' = [terminated EXCEPT ![r] = TRUE]
    /\ IF blocked[r] > 0 THEN UNCHANGED <<count, phase>> ELSE Drop(r)
    /\ UNCHANGED <<blocked, aio, task, timer, answers, recorded>>

PoolStep(r) == ThreadStart(r) \/ ThreadEnd(r)

Next ==
    \E r \in Requests :
        \/ Post(r) \/ PostFails(r) \/ PoolStep(r)
        \/ TimedOut(r) \/ Complete(r) \/ Terminate(r)

(* Threads and the event loop run; nobody has to terminate anything. *)
Spec ==
    /\ Init /\ [][Next]_vars
    /\ \A r \in Requests :
          WF_vars(ThreadStart(r)) /\ WF_vars(ThreadEnd(r)) /\ WF_vars(Complete(r))

-----------------------------------------------------------------------------
(* Properties. *)

(* Counters, flags and tasks keep their shape: nothing is unblocked twice.   *)
TypeOK ==
    /\ phase \in [Requests -> {"new", "open", "freed"}]
    /\ count \in [Requests -> 0..1]
    /\ blocked \in [Requests -> 0..1]
    /\ aio \in [Requests -> BOOLEAN]
    /\ terminated \in [Requests -> BOOLEAN]
    /\ task \in [Requests -> {"none", "queued", "running", "OK", "ERROR", "done"}]
    /\ timer \in [Requests -> BOOLEAN]
    /\ answers \in [Requests -> Nat]
    /\ recorded \in [Requests -> Nat]

(* The memory of a request outlives its task and its timer, whenever the     *)
(* client goes away and however long the walk takes.                         *)
MemoryOutlivesTask ==
    \A r \in Requests : phase[r] = "freed" => task[r] \in {"none", "done"} /\ ~timer[r]

(* A request is answered at most once, not after it has been terminated, and *)
(* a purge is counted only with its answer.                                  *)
AnsweredOnce ==
    \A r \in Requests :
        /\ answers[r] + (IF terminated[r] THEN 1 ELSE 0) <= 1
        /\ recorded[r] <= answers[r]

(* A request that has posted its walk is freed in the end, timeout or not.   *)
EveryWalkEnds ==
    \A r \in Requests : task[r] # "none" ~> phase[r] = "freed"

=============================================================================
