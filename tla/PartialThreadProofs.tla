------------------------ MODULE PartialThreadProofs -------------------------
(***************************************************************************)
(* Theorems about PartialThread, for every set of requests, number of      *)
(* threads and length of the queue.                                        *)
(***************************************************************************)
EXTENDS PartialThread, TLAPS

(* What a request's phase says of the rest of it.  A request that is open    *)
(* has its task in the pool and is blocked by it: this is what keeps         *)
(* Terminate from dropping it.                                               *)
Waits(r) ==
    phase[r] = "open" =>
        /\ count[r] = 1 /\ blocked[r] = 1
        /\ task[r] \in {"queued", "running", "OK", "ERROR"}
        /\ answers[r] = 0 /\ recorded[r] = 0

Untouched(r) ==
    phase[r] = "new" =>
        /\ count[r] = 1 /\ blocked[r] = 0
        /\ task[r] = "none" /\ ~timer[r] /\ ~terminated[r]
        /\ answers[r] = 0 /\ recorded[r] = 0

Over(r) ==
    phase[r] = "freed" =>
        /\ count[r] = 0 /\ blocked[r] = 0
        /\ task[r] \in {"none", "done"} /\ ~timer[r]
        /\ answers[r] \in 0..1 /\ (terminated[r] => answers[r] = 0)
        /\ recorded[r] <= answers[r]

IInv == TypeOK /\ \A r \in Requests : Waits(r) /\ Untouched(r) /\ Over(r)

LEMMA InitIInv == Init => IInv
  BY DEF Init, IInv, TypeOK, Waits, Untouched, Over

(* A step changes the request it is a step of, and no other. *)
LEMMA NextIInv == IInv /\ [Next]_vars => IInv'
  <1> SUFFICES ASSUME IInv, [Next]_vars PROVE IInv'
    OBVIOUS
  <1> USE DEF IInv, TypeOK, Waits, Untouched, Over
  <1>1. CASE UNCHANGED vars
    BY <1>1 DEF vars
  <1>2. ASSUME NEW r \in Requests, Post(r)
        PROVE  IInv'
    BY <1>2 DEF Post
  <1>3. ASSUME NEW r \in Requests, PostFails(r)
        PROVE  IInv'
    BY <1>3 DEF PostFails, Close
  <1>4. ASSUME NEW r \in Requests, ThreadStart(r)
        PROVE  IInv'
    BY <1>4 DEF ThreadStart
  <1>5. ASSUME NEW r \in Requests, ThreadEnd(r)
        PROVE  IInv'
    BY <1>5 DEF ThreadEnd
  <1>6. ASSUME NEW r \in Requests, TimedOut(r)
        PROVE  IInv'
    BY <1>6 DEF TimedOut
  <1>7. ASSUME NEW r \in Requests, Complete(r)
        PROVE  IInv'
    <2>1. CASE terminated[r]
      BY <1>7, <2>1 DEF Complete, Drop
    <2>2. CASE ~terminated[r]
      BY <1>7, <2>2 DEF Complete, Close
    <2> QED  BY <2>1, <2>2
  <1>8. ASSUME NEW r \in Requests, Terminate(r)
        PROVE  IInv'
    BY <1>8 DEF Terminate
  <1> QED
    BY <1>1, <1>2, <1>3, <1>4, <1>5, <1>6, <1>7, <1>8 DEF Next, PoolStep

LEMMA InvariantIInv == Spec => []IInv
  BY InitIInv, NextIInv, PTL DEF Spec

(* blocked and count never leave 0..1, whatever the order of timeouts,       *)
(* completions and terminations.                                             *)
THEOREM ThreadTypeCorrect == Spec => []TypeOK
  <1>1. IInv => TypeOK
    BY DEF IInv
  <1> QED  BY <1>1, InvariantIInv, PTL

(* partial_completion alone unblocks the request, so that the thread and the *)
(* timer never use the memory of a request that has been freed.              *)
THEOREM MemorySafe == Spec => []MemoryOutlivesTask
  <1>1. IInv => MemoryOutlivesTask
    BY DEF IInv, Over, MemoryOutlivesTask
  <1> QED  BY <1>1, InvariantIInv, PTL

(* One answer at most, none to a request that has been terminated, and no    *)
(* purge counted without its answer.                                         *)
THEOREM NeverAnsweredTwice == Spec => []AnsweredOnce
  <1>1. IInv => AnsweredOnce
    BY DEF IInv, TypeOK, Waits, Untouched, Over, AnsweredOnce
  <1> QED  BY <1>1, InvariantIInv, PTL
=============================================================================
