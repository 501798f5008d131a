------------------------------ MODULE Bootstrap ------------------------------
(***************************************************************************)
(* How the index zones of the server become ready                          *)
(* (ngx_cache_pilot_index_runtime).  Every worker makes a pass over the    *)
(* configured zones when it starts; a zone that the cache loader has not   *)
(* warmed yet is deferred, and a timer repeats the pass while there are    *)
(* deferred zones.  The state of a zone is in shared memory, which outlives*)
(* reloads of the configuration; every worker also keeps a copy.  What a   *)
(* scan writes into the index is the subject of CachePurge: here it takes  *)
(* one step and succeeds or fails.  Readiness is read by the statistics    *)
(* endpoint and by the gate in front of a tag purge.                       *)
(***************************************************************************)
EXTENDS Naturals, Sequences

CONSTANTS Workers,     \* the workers of every generation, a sequence of sets
          Zones,       \* the cache zones
          Headers,     \* lists of tag headers
          Configs,     \* the configurations every generation may have, a
                       \* sequence of sets of zone arrays (see ZoneArrays):
                       \* its length bounds the reloads
          Off,         \* no list: the zone is not registered for indexing
          Single,      \* ngx_process == NGX_PROCESS_SINGLE
          MaxErrors,   \* bound on the passes that fail
          MaxCrashes   \* bound on the workers that die and are replaced

(* pmcf->zones, the array in which register_cache puts the zones that some   *)
(* location indexes, each once, with their tag headers.                      *)
ZoneArrays ==
    {c \in Seq([zone : Zones, headers : Headers]) :
        \A i, j \in DOMAIN c : c[i].zone = c[j].zone => i = j}

ASSUME ConfigsAssumption ==
    /\ Configs \in Seq(SUBSET ZoneArrays) /\ Len(Configs) > 0
    /\ DOMAIN Workers = DOMAIN Configs

ASSUME BoundsAssumption ==
    /\ Off \notin Headers /\ Single \in BOOLEAN
    /\ MaxErrors \in Nat /\ MaxCrashes \in Nat

VARIABLES conf,      \* the configurations, one per generation of workers
          cold,      \* [zone -> cache->sh->cold]
          complete,  \* [zone -> bootstrap_complete in shared memory]
          built,     \* [zone -> the tag headers the index was last built with]
          cached,    \* [process -> [zone -> its own copy of complete]]
          pass,      \* [process -> where it is in its pass, if it makes one]
          timer,     \* [process -> is bootstrap_ev set?]
          failed,    \* processes one of whose passes returned NGX_ERROR
          errors, crashes

vars == <<conf, cold, complete, built, cached, pass, timer, failed, errors, crashes>>
shared == <<cold, complete, built>>
bounds == <<errors, crashes>>

Processes == UNION {{<<n, w>> : w \in Workers[n]} : n \in DOMAIN Configs}
Current(p) == p[1] = Len(conf)
None == [pc |-> "none"]        \* in the event loop
Stopped == [pc |-> "stopped"]  \* not forked yet, or gone
Pass(pc, i, deferred, initial) ==
    [pc |-> pc, i |-> i, deferred |-> deferred, initial |-> initial]

(* lookup_zone in the array of a configuration. *)
Lists(c, z) == \E i \in DOMAIN c : c[i].zone = z
HeadersIn(c, z) ==
    IF Lists(c, z) THEN c[CHOOSE i \in DOMAIN c : c[i].zone = z].headers ELSE Off

(* The array that process p runs with, and the zone its pass has come to. *)
ZonesOf(p) == conf[p[1]]
Registered(p, z) == Lists(ZonesOf(p), z)
ZoneAt(p) == ZonesOf(p)[pass[p].i].zone
HeadersAt(p) == ZonesOf(p)[pass[p].i].headers

Init ==
    /\ conf \in {<<c>> : c \in Configs[1]}
    /\ cold = [z \in Zones |-> TRUE]
    /\ complete = [z \in Zones |-> FALSE]
    /\ built = [z \in Zones |-> Off]
    /\ cached = [p \in Processes |-> [z \in Zones |-> FALSE]]
    /\ pass = [p \in Processes |-> IF Current(p) THEN [pc |-> "start"] ELSE Stopped]
    /\ timer = [p \in Processes |-> FALSE]
    /\ failed = {}
    /\ errors = 0 /\ crashes = 0

(* The cache loader has read the zone's directory (nginx core). *)
Warm(z) ==
    /\ cold[z]
    /\ cold' = [cold EXCEPT ![z] = FALSE]
    /\ UNCHANGED <<conf, complete, built, cached, pass, timer, failed, bounds>>

(* Mutant: the zone's shared memory is cleared for the new configuration. *)
ReloadClears(c) ==
    /\ conf' = Append(conf, c)
    /\ pass' = [p \in Processes |->
                   IF p[1] = Len(conf) + 1 THEN [pc |-> "start"] ELSE pass[p]]
    /\ complete' = [z \in Zones |-> FALSE]
    /\ cached' = [p \in Processes |-> [z \in Zones |-> FALSE]]
    /\ UNCHANGED <<cold, built, timer, failed, bounds>>

(* nginx -s reload: the master forks a generation of workers for the new     *)
(* configuration.  init_zone finds the context of the old cycle and keeps    *)
(* the shared memory as it is.  Responses of a zone that is no longer        *)
(* registered are stored without being indexed.                              *)
Reload(c) ==
    /\ conf' = Append(conf, c)
    /\ pass' = [p \in Processes |->
                   IF p[1] = Len(conf) + 1 THEN [pc |-> "start"] ELSE pass[p]]
    /\ built' = [z \in Zones |-> IF Lists(c, z) THEN built[z] ELSE Off]
    /\ UNCHANGED <<cold, complete, cached, timer, failed, bounds>>

(* init_runtime: copy the state of the zones, then the first pass. *)
Start(p) ==
    /\ pass[p].pc = "start"
    /\ cached' = [cached EXCEPT ![p] =
                     [z \in Zones |-> Registered(p, z) /\ complete[z]]]
    /\ pass' = [pass EXCEPT ![p] = Pass("zone", 1, FALSE, TRUE)]
    /\ UNCHANGED <<conf, shared, timer, failed, bounds>>

(* bootstrap_timer_handler: one more pass. *)
TimerFires(p) ==
    /\ timer[p] /\ pass[p] = None
    /\ timer' = [timer EXCEPT ![p] = FALSE]
    /\ pass' = [pass EXCEPT ![p] = Pass("zone", 1, FALSE, FALSE)]
    /\ UNCHANGED <<conf, shared, cached, failed, bounds>>

(* Mutant: the pass forgets the cold zone and ends with NGX_OK. *)
DeferZoneForgets(p) ==
    /\ pass[p].pc = "zone" /\ pass[p].i <= Len(ZonesOf(p))
    /\ cold[ZoneAt(p)] /\ ~Single
    /\ pass' = [pass EXCEPT ![p].i = @ + 1]
    /\ UNCHANGED <<conf, shared, cached, timer, failed, bounds>>

(* try_bootstrap_zones, one zone: the loader is cold, leave it for later ... *)
DeferZone(p) ==
    /\ pass[p].pc = "zone" /\ pass[p].i <= Len(ZonesOf(p))
    /\ cold[ZoneAt(p)] /\ ~Single
    /\ pass' = [pass EXCEPT ![p].i = @ + 1, ![p].deferred = TRUE]
    /\ UNCHANGED <<conf, shared, cached, timer, failed, bounds>>

(* Mutant: the loader is not asked. *)
LookZoneCold(p) ==
    /\ pass[p].pc = "zone" /\ pass[p].i <= Len(ZonesOf(p))
    /\ IF complete[ZoneAt(p)]
       THEN /\ cached' = [cached EXCEPT ![p][ZoneAt(p)] = TRUE]
            /\ pass' = [pass EXCEPT ![p].i = @ + 1]
       ELSE /\ pass' = [pass EXCEPT ![p].pc = "scan"]
            /\ UNCHANGED cached
    /\ UNCHANGED <<conf, shared, timer, failed, bounds>>

(* ... or another worker has done it already, or it has to be scanned ... *)
LookZone(p) ==
    /\ pass[p].pc = "zone" /\ pass[p].i <= Len(ZonesOf(p))
    /\ ~cold[ZoneAt(p)] \/ Single
    /\ IF complete[ZoneAt(p)]
       THEN /\ cached' = [cached EXCEPT ![p][ZoneAt(p)] = TRUE]
            /\ pass' = [pass EXCEPT ![p].i = @ + 1]
       ELSE /\ pass' = [pass EXCEPT ![p].pc = "scan"]
            /\ UNCHANGED cached
    /\ UNCHANGED <<conf, shared, timer, failed, bounds>>

(* Mutant: the loop variable is advanced twice. *)
ScanZoneSkips(p) ==
    /\ pass[p].pc = "scan"
    /\ complete' = [complete EXCEPT ![ZoneAt(p)] = TRUE]
    /\ built' = [built EXCEPT ![ZoneAt(p)] = HeadersAt(p)]
    /\ cached' = [cached EXCEPT ![p][ZoneAt(p)] = TRUE]
    /\ pass' = [pass EXCEPT ![p].pc = "zone", ![p].i = @ + 2]
    /\ UNCHANGED <<conf, cold, timer, failed, bounds>>

(* ... bootstrap_zone: the tree is walked with the tag headers of the        *)
(* process' own configuration and the zone published, whoever else has done  *)
(* so in the meantime; the worker's copy is taken from there.                *)
ScanZone(p) ==
    /\ pass[p].pc = "scan"
    /\ complete' = [complete EXCEPT ![ZoneAt(p)] = TRUE]
    /\ built' = [built EXCEPT ![ZoneAt(p)] = HeadersAt(p)]
    /\ cached' = [cached EXCEPT ![p][ZoneAt(p)] = TRUE]
    /\ pass' = [pass EXCEPT ![p].pc = "zone", ![p].i = @ + 1]
    /\ UNCHANGED <<conf, cold, timer, failed, bounds>>

(* The scan or the publication fails: the pass ends, the zones behind it are *)
(* not looked at.  At startup that ends the process, for good; in the timer  *)
(* handler there will be no further pass.                                    *)
ScanFails(p) ==
    /\ pass[p].pc = "scan"
    /\ errors < MaxErrors
    /\ errors' = errors + 1
    /\ failed' = failed \cup {p}
    /\ pass' = [pass EXCEPT ![p] = IF @.initial THEN Stopped ELSE None]
    /\ UNCHANGED <<conf, shared, cached, timer, crashes>>

(* Mutant: only the first pass sets the timer. *)
PassEndsOnce(p) ==
    /\ pass[p].pc = "zone" /\ pass[p].i > Len(ZonesOf(p))
    /\ timer' = [timer EXCEPT ![p] = pass[p].deferred /\ pass[p].initial]
    /\ pass' = [pass EXCEPT ![p] = None]
    /\ UNCHANGED <<conf, shared, cached, failed, bounds>>

(* All zones have been looked at: NGX_AGAIN sets the timer, NGX_OK does not. *)
PassEnds(p) ==
    /\ pass[p].pc = "zone" /\ pass[p].i > Len(ZonesOf(p))
    /\ timer' = [timer EXCEPT ![p] = pass[p].deferred]
    /\ pass' = [pass EXCEPT ![p] = None]
    /\ UNCHANGED <<conf, shared, cached, failed, bounds>>

(* A worker of an old generation is gone as soon as it has no timer left     *)
(* (nginx core: bootstrap_ev is not cancelable); shutdown_runtime.           *)
Exit(p) ==
    /\ p[1] < Len(conf) /\ pass[p] = None /\ ~timer[p]
    /\ pass' = [pass EXCEPT ![p] = Stopped]
    /\ cached' = [cached EXCEPT ![p] = [z \in Zones |-> FALSE]]
    /\ UNCHANGED <<conf, shared, timer, failed, bounds>>

(* A worker dies and the master starts another in its place if it is of the  *)
(* current generation; the shared memory is still there.                     *)
Crash(p) ==
    /\ pass[p].pc \notin {"start", "stopped"}
    /\ crashes < MaxCrashes
    /\ crashes' = crashes + 1
    /\ pass' = [pass EXCEPT ![p] = IF Current(p) THEN [pc |-> "start"] ELSE Stopped]
    /\ timer' = [timer EXCEPT ![p] = FALSE]
    /\ cached' = [cached EXCEPT ![p] = [z \in Zones |-> FALSE]]
    /\ failed' = failed \ {p}
    /\ UNCHANGED <<conf, shared, errors>>

-----------------------------------------------------------------------------
(* Who asks.  The reader is the store handle opened by init_runtime, which   *)
(* fails without one: no serving process lacks it.                           *)

Serving(p) == pass[p] = None

(* get_zone_state: the flag, under the zone's mutex.  Every path through it  *)
(* returns NGX_OK, for a zone that is not there too, so the branches of its  *)
(* callers for a failure ("reader_unavailable" in the statistics, an error   *)
(* in the gate) are never taken.                                             *)
ZoneState(z) == complete[z]

(* snapshot_zone: the state of one zone in the statistics. *)
Snapshot(p, z) ==
    IF Registered(p, z) /\ ZoneState(z) THEN "ready" ELSE "configured"

(* The gate of ngx_http_cache_index_purge: the reason to decline a tag purge *)
(* or none.                                                                  *)
Gate(p, z) ==
    CASE ~Registered(p, z) -> "zone_not_registered"
      [] Registered(p, z) /\ ~ZoneState(z) -> "index_not_ready"
      [] OTHER -> ""

-----------------------------------------------------------------------------
Work(p) ==
    \/ Start(p) \/ TimerFires(p)
    \/ DeferZone(p) \/ LookZone(p) \/ ScanZone(p) \/ PassEnds(p)
    \/ Exit(p)

Next ==
    \/ \E z \in Zones : Warm(z)
    \/ /\ Len(conf) < Len(Configs)
       /\ \E c \in Configs[Len(conf) + 1] : Reload(c)
    \/ \E p \in Processes :
          Work(p) \/ ScanFails(p) \/ Crash(p)

(* Workers run and timers fire; the cache loader gets to every zone. *)
Spec ==
    /\ Init /\ [][Next]_vars
    /\ \A p \in Processes : WF_vars(Work(p))
    /\ \A z \in Zones : WF_vars(Warm(z))

-----------------------------------------------------------------------------
(* Properties. *)

Passes == [pc : {"zone", "scan"}, i : Nat, deferred : BOOLEAN, initial : BOOLEAN]

(* Flags, passes and counters keep their shape; a pass stays within the      *)
(* array of its own configuration.                                           *)
TypeOK ==
    /\ conf \in Seq(ZoneArrays) /\ Len(conf) \in DOMAIN Configs
    /\ \A n \in DOMAIN conf : conf[n] \in Configs[n]
    /\ cold \in [Zones -> BOOLEAN]
    /\ complete \in [Zones -> BOOLEAN]
    /\ built \in [Zones -> Headers \cup {Off}]
    /\ \A z \in Zones : built[z] \in {HeadersIn(conf[n], z) : n \in DOMAIN conf} \cup {Off}
    /\ cached \in [Processes -> [Zones -> BOOLEAN]]
    /\ pass \in [Processes -> {None, Stopped, [pc |-> "start"]} \cup Passes]
    /\ \A p \in Processes : pass[p] # Stopped => p[1] \in DOMAIN conf
    /\ \A p \in Processes :
          pass[p].pc \in {"zone", "scan"} =>
              pass[p].i \in 1..(Len(ZonesOf(p)) + IF pass[p].pc = "scan" THEN 0 ELSE 1)
    /\ timer \in [Processes -> BOOLEAN]
    /\ failed \subseteq Processes
    /\ errors \in 0..MaxErrors /\ crashes \in 0..MaxCrashes

(* No zone counts as ready, in shared memory or in the copy of any worker,   *)
(* before the cache loader was through with it.                              *)
ReadyOnlyWhenWarm ==
    \A z \in Zones :
        complete[z] \/ (\E p \in Processes : cached[p][z]) => ~cold[z] /\ complete[z]

(* A worker that waits for no timer has left no zone of its configuration    *)
(* behind, unless a pass of its own has failed: each was found ready, or     *)
(* scanned, in the pass that set no timer, whatever the workers before,      *)
(* beside and after it have done to the zones since.                         *)
NoZoneLeftBehind ==
    \A p \in Processes :
        Serving(p) /\ ~timer[p] /\ p \notin failed =>
            \A z \in Zones : Registered(p, z) => complete[z] /\ cached[p][z]

(* README: automation polls the statistics endpoint before it issues purges. *)
(* Once a worker reports a zone as ready, no worker that indexes the zone    *)
(* declines a tag purge, nor does one that is started later, after a crash   *)
(* or by a reload.                                                           *)
PollThenPurge ==
    [][\A p, q \in Processes, z \in Zones :
          /\ Serving(p) /\ Snapshot(p, z) = "ready"
          /\ Serving(q)' /\ Registered(q, z)'
          => Gate(q, z)' = ""]_vars

(* A worker none of whose own passes fails gets to see every zone of its     *)
(* configuration ready, whatever errors and crashes the other workers run    *)
(* into and whatever reloads come before it: no zone is left behind by a     *)
(* deferral, a skipped zone or a timer that is not set again.                *)
EveryZoneReady ==
    \A p \in Processes :
        <>[](Current(p) /\ p \notin failed) =>
            <>[](Current(p) /\ \A z \in Zones : Registered(p, z) => complete[z] /\ cached[p][z])

(* README: the tag headers are used both to extract the tags of cached       *)
(* responses and to match the tags of purge requests.  A zone that counts as *)
(* ready was indexed with the headers that are configured.                   *)
ReadyIsCurrent ==
    \A z \in Zones :
        complete[z] /\ Lists(conf[Len(conf)], z) => built[z] = HeadersIn(conf[Len(conf)], z)

=============================================================================
