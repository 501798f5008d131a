-------------------------- MODULE BootstrapProofs ---------------------------
(***************************************************************************)
(* Theorems about Bootstrap, for any number of zones, workers, reloads,    *)
(* errors and crashes.                                                     *)
(***************************************************************************)
EXTENDS Bootstrap, TLAPS

USE ConfigsAssumption, BoundsAssumption

-----------------------------------------------------------------------------
(* Types. *)

Fresh == [pc |-> "start"]
Places == {None, Stopped, Fresh} \cup Passes

Within(p) ==
    /\ pass[p] # Stopped => p[1] \in DOMAIN conf
    /\ pass[p].pc \in {"zone", "scan"} =>
          pass[p].i \in 1..(Len(ZonesOf(p)) + IF pass[p].pc = "scan" THEN 0 ELSE 1)

(* A process knows its generation. *)
LEMMA Generations == \A p \in Processes : p[1] \in DOMAIN Configs
  BY DEF Processes

(* The elements of an array. *)
LEMMA Arrays ==
    ASSUME NEW c \in ZoneArrays
    PROVE  /\ c \in Seq([zone : Zones, headers : Headers])
           /\ Len(c) \in Nat /\ DOMAIN c = 1..Len(c)
           /\ \A i \in DOMAIN c : c[i] \in [zone : Zones, headers : Headers]
  <1> DEFINE E == [zone : Zones, headers : Headers]
  <1>1. c \in Seq(E)
    BY Zenon DEF ZoneArrays
  <1> HIDE DEF E
  <1>2. Len(c) \in Nat /\ DOMAIN c = 1..Len(c) /\ \A i \in DOMAIN c : c[i] \in E
    BY <1>1
  <1> QED  BY <1>1, <1>2 DEF E

(* What lookup_zone finds is the only element of the array for the zone. *)
LEMMA HeadersAre ==
    ASSUME NEW c \in ZoneArrays, NEW i \in DOMAIN c
    PROVE  /\ c[i].zone \in Zones /\ c[i].headers \in Headers /\ Lists(c, c[i].zone)
           /\ HeadersIn(c, c[i].zone) = c[i].headers
  <1>1. c[i] \in [zone : Zones, headers : Headers]
    BY Arrays
  <1>2. Lists(c, c[i].zone)
    BY DEF Lists
  <1>3. PICK j : j = CHOOSE k \in DOMAIN c : c[k].zone = c[i].zone
    OBVIOUS
  <1>4. j \in DOMAIN c /\ c[j].zone = c[i].zone
    BY <1>3
  <1>5. j = i
    BY <1>4 DEF ZoneArrays
  <1> QED  BY <1>1, <1>2, <1>3, <1>5 DEF HeadersIn

LEMMA InitType == Init => TypeOK
  <1> SUFFICES ASSUME Init PROVE TypeOK
    OBVIOUS
  <1>1. PICK c \in Configs[1] : conf = <<c>>
    BY DEF Init
  <1>2. c \in ZoneArrays /\ 1 \in DOMAIN Configs
    OBVIOUS
  <1>3. conf \in Seq(ZoneArrays) /\ Len(conf) = 1 /\ conf[1] = c /\ DOMAIN conf = {1}
    BY <1>1, <1>2
  <1>4. /\ pass \in [Processes -> Places]
        /\ \A p \in Processes : pass[p] # Stopped => p[1] = 1
        /\ \A p \in Processes : pass[p].pc \notin {"zone", "scan"}
    BY <1>3 DEF Init, Places, Fresh, Current, Stopped
  <1>5. cached \in [Processes -> [Zones -> BOOLEAN]]
    BY DEF Init
  <1>6. /\ Len(conf) \in DOMAIN Configs
        /\ \A n \in DOMAIN conf : conf[n] \in Configs[n]
    BY <1>2, <1>3
  <1>7. \A z \in Zones : built[z] = Off
    BY DEF Init
  <1>8. pass \in [Processes -> {None, Stopped, [pc |-> "start"]} \cup Passes]
    BY <1>4 DEF Places, Fresh
  <1> QED  BY <1>3, <1>4, <1>5, <1>6, <1>7, <1>8 DEF Init, TypeOK

(* A process moves in its pass and the array of zones stays. *)
LEMMA PassMoves ==
    ASSUME TypeOK, conf' = conf, NEW p \in Processes, NEW h \in Places,
           pass' = [pass EXCEPT ![p] = h],
           h # Stopped => p[1] \in DOMAIN conf,
           h.pc \in {"zone", "scan"} =>
               h.i \in 1..(Len(ZonesOf(p)) + IF h.pc = "scan" THEN 0 ELSE 1)
    PROVE  pass' \in [Processes -> Places] /\ \A q \in Processes : Within(q)'
  <1>1. pass \in [Processes -> Places] /\ \A q \in Processes : Within(q)
    BY DEF TypeOK, Places, Fresh, Within
  <1>2. pass' \in [Processes -> Places] /\ pass'[p] = h
        /\ \A q \in Processes : q # p => pass'[q] = pass[q]
    BY <1>1
  <1> QED  BY <1>1, <1>2 DEF Within, ZonesOf

LEMMA TypeSplit ==
    /\ TypeOK => pass \in [Processes -> Places] /\ \A p \in Processes : Within(p)
    /\ /\ TypeOK /\ UNCHANGED <<conf, built>>
       /\ pass' \in [Processes -> Places] /\ \A p \in Processes : Within(p)'
       /\ cold' \in [Zones -> BOOLEAN] /\ complete' \in [Zones -> BOOLEAN]
       /\ cached' \in [Processes -> [Zones -> BOOLEAN]]
       /\ timer' \in [Processes -> BOOLEAN] /\ failed' \subseteq Processes
       /\ errors' \in 0..MaxErrors /\ crashes' \in 0..MaxCrashes
       => TypeOK'
  BY DEF TypeOK, Places, Fresh, Within

(* A worker in its pass: where it is, and the zone it is at. *)
LEMMA InPass ==
    ASSUME TypeOK, NEW p \in Processes, pass[p].pc \in {"zone", "scan"}
    PROVE  /\ pass[p] \in Passes /\ pass[p].i \in Nat /\ p[1] \in DOMAIN conf
           /\ ZonesOf(p) \in ZoneArrays /\ Len(ZonesOf(p)) \in Nat
           /\ pass[p].i \in 1..(Len(ZonesOf(p)) + 1)
           /\ pass[p].pc = "scan" => pass[p].i <= Len(ZonesOf(p))
           /\ pass[p].i <= Len(ZonesOf(p)) =>
                 /\ ZoneAt(p) \in Zones /\ Registered(p, ZoneAt(p))
                 /\ HeadersIn(ZonesOf(p), ZoneAt(p)) = HeadersAt(p)
  <1>1. /\ pass[p] \in Passes /\ p[1] \in DOMAIN conf
        /\ pass[p].i \in 1..(Len(ZonesOf(p)) + IF pass[p].pc = "scan" THEN 0 ELSE 1)
    BY TypeSplit DEF Places, None, Stopped, Fresh, Within
  <1>2. ZonesOf(p) \in ZoneArrays /\ Len(ZonesOf(p)) \in Nat
        /\ DOMAIN ZonesOf(p) = 1..Len(ZonesOf(p))
    <2>1. ZonesOf(p) \in ZoneArrays
      BY <1>1 DEF ZonesOf, TypeOK
    <2> QED  BY <2>1, Arrays
  <1>3. pass[p].i \in Nat /\ pass[p].i >= 1 /\ pass[p].i <= Len(ZonesOf(p)) + 1
        /\ (pass[p].pc = "scan" => pass[p].i <= Len(ZonesOf(p)))
    BY <1>1, <1>2 DEF Passes
  <1>4. ASSUME pass[p].i <= Len(ZonesOf(p))
        PROVE  /\ ZoneAt(p) \in Zones /\ Registered(p, ZoneAt(p))
               /\ HeadersIn(ZonesOf(p), ZoneAt(p)) = HeadersAt(p)
    <2>1. pass[p].i \in DOMAIN ZonesOf(p)
      BY <1>2, <1>3, <1>4
    <2> QED  BY <1>2, <2>1, HeadersAre DEF ZoneAt, HeadersAt, Registered
  <1> QED  BY <1>1, <1>2, <1>3, <1>4

(* Where a process goes when its pass begins or ends. *)
Ends == {None, Stopped, Fresh, Pass("zone", 1, FALSE, TRUE), Pass("zone", 1, FALSE, FALSE)}

LEMMA PassEnd ==
    ASSUME TypeOK, UNCHANGED <<conf, built, cold, complete>>, NEW p \in Processes,
           pass[p] # Stopped,
           NEW h \in Ends,
           pass' = [pass EXCEPT ![p] = h],
           cached' \in [Processes -> [Zones -> BOOLEAN]],
           timer' \in [Processes -> BOOLEAN], failed' \subseteq Processes,
           errors' \in 0..MaxErrors, crashes' \in 0..MaxCrashes
    PROVE  TypeOK'
  <1>1. p[1] \in DOMAIN conf /\ Len(ZonesOf(p)) \in Nat
    BY Arrays DEF TypeOK, ZonesOf
  <1>2. h \in Places
    <2>1. Pass("zone", 1, FALSE, TRUE) \in Passes /\ Pass("zone", 1, FALSE, FALSE) \in Passes
      BY DEF Passes, Pass
    <2> QED  BY <2>1 DEF Places, Ends
  <1>3. h.pc \in {"zone", "scan"} => h.i = 1 /\ h.pc = "zone"
    BY DEF Ends, None, Stopped, Fresh, Pass
  <1>a. h.pc \in {"zone", "scan"} =>
            h.i \in 1..(Len(ZonesOf(p)) + IF h.pc = "scan" THEN 0 ELSE 1)
    BY <1>1, <1>3
  <1>4. pass' \in [Processes -> Places] /\ \A q \in Processes : Within(q)'
    BY <1>1, <1>2, <1>a, PassMoves
  <1> QED  BY <1>4, TypeSplit DEF TypeOK

(* Beginnings and ends of a pass. *)
LEMMA PassType ==
    ASSUME TypeOK, NEW p \in Processes,
           Start(p) \/ TimerFires(p) \/ PassEnds(p) \/ Exit(p) \/ ScanFails(p) \/ Crash(p)
    PROVE  TypeOK'
  <1>0. /\ cached \in [Processes -> [Zones -> BOOLEAN]] /\ timer \in [Processes -> BOOLEAN]
        /\ failed \subseteq Processes /\ errors \in 0..MaxErrors /\ crashes \in 0..MaxCrashes
    BY DEF TypeOK
  <1>a. [z \in Zones |-> FALSE] \in [Zones -> BOOLEAN]
    OBVIOUS
  <1>1. CASE Start(p)
    <2>1. [z \in Zones |-> Registered(p, z) /\ complete[z]] \in [Zones -> BOOLEAN]
      BY DEF Registered, Lists
    <2>2. cached' \in [Processes -> [Zones -> BOOLEAN]]
      BY <1>0, <1>1, <2>1 DEF Start
    <2>3. /\ UNCHANGED <<conf, built, cold, complete, timer, failed, errors, crashes>>
          /\ pass[p] # Stopped /\ Pass("zone", 1, FALSE, TRUE) \in Ends
          /\ pass' = [pass EXCEPT ![p] = Pass("zone", 1, FALSE, TRUE)]
      BY <1>1 DEF Start, Stopped, shared, bounds, Ends
    <2> QED  BY <1>0, <2>2, <2>3, PassEnd
  <1>2. CASE TimerFires(p)
    <2>1. timer' \in [Processes -> BOOLEAN]
      BY <1>0, <1>2 DEF TimerFires
    <2>2. /\ UNCHANGED <<conf, built, cold, complete, cached, failed, errors, crashes>>
          /\ pass[p] # Stopped /\ Pass("zone", 1, FALSE, FALSE) \in Ends
          /\ pass' = [pass EXCEPT ![p] = Pass("zone", 1, FALSE, FALSE)]
      BY <1>2 DEF TimerFires, None, Stopped, shared, bounds, Ends
    <2> QED  BY <1>0, <2>1, <2>2, PassEnd
  <1>3. CASE PassEnds(p)
    <2>1. pass[p].deferred \in BOOLEAN
      BY <1>3, InPass DEF PassEnds, Passes
    <2>2. timer' \in [Processes -> BOOLEAN]
      BY <1>0, <1>3, <2>1 DEF PassEnds
    <2>3. /\ UNCHANGED <<conf, built, cold, complete, cached, failed, errors, crashes>>
          /\ pass[p] # Stopped /\ None \in Ends /\ pass' = [pass EXCEPT ![p] = None]
      BY <1>3 DEF PassEnds, Stopped, shared, bounds, Ends
    <2> QED  BY <1>0, <2>2, <2>3, PassEnd
  <1>4. CASE Exit(p)
    <2>1. cached' \in [Processes -> [Zones -> BOOLEAN]]
      BY <1>0, <1>4, <1>a DEF Exit
    <2>2. /\ UNCHANGED <<conf, built, cold, complete, timer, failed, errors, crashes>>
          /\ pass[p] # Stopped /\ Stopped \in Ends /\ pass' = [pass EXCEPT ![p] = Stopped]
      BY <1>4 DEF Exit, None, Stopped, shared, bounds, Ends
    <2> QED  BY <1>0, <2>1, <2>2, PassEnd
  <1>5. CASE ScanFails(p)
    <2>1. errors' \in 0..MaxErrors /\ failed' \subseteq Processes
      BY <1>0, <1>5 DEF ScanFails
    <2>2. PICK h \in Ends : pass' = [pass EXCEPT ![p] = h]
      BY <1>5 DEF ScanFails, Ends
    <2>3. /\ UNCHANGED <<conf, built, cold, complete, cached, timer, crashes>>
          /\ pass[p] # Stopped
      BY <1>5 DEF ScanFails, Stopped, shared
    <2> QED  BY <1>0, <2>1, <2>2, <2>3, PassEnd
  <1>6. CASE Crash(p)
    <2>1. crashes' \in 0..MaxCrashes
      BY <1>0, <1>6 DEF Crash
    <2>2. PICK h \in Ends : pass' = [pass EXCEPT ![p] = h]
      BY <1>6 DEF Crash, Fresh, Ends
    <2>3. cached' \in [Processes -> [Zones -> BOOLEAN]]
      BY <1>0, <1>6, <1>a DEF Crash
    <2>4. timer' \in [Processes -> BOOLEAN] /\ failed' \subseteq Processes
      BY <1>0, <1>6 DEF Crash
    <2>5. UNCHANGED <<conf, built, cold, complete, errors>> /\ pass[p] # Stopped
      BY <1>6 DEF Crash, Stopped, shared
    <2> QED  BY <1>0, <2>1, <2>2, <2>3, <2>4, <2>5, PassEnd
  <1> QED  BY <1>1, <1>2, <1>3, <1>4, <1>5, <1>6

(* One zone of the array. *)
LEMMA ZoneType ==
    ASSUME TypeOK, NEW p \in Processes, DeferZone(p) \/ LookZone(p) \/ ScanZone(p)
    PROVE  TypeOK'
  <1>0. /\ pass[p] \in Passes /\ pass[p].i \in Nat /\ p[1] \in DOMAIN conf
        /\ Len(ZonesOf(p)) \in Nat
        /\ pass[p].i >= 1 /\ pass[p].i <= Len(ZonesOf(p))
        /\ ZoneAt(p) \in Zones
        /\ HeadersIn(ZonesOf(p), ZoneAt(p)) = HeadersAt(p)
    BY InPass DEF DeferZone, LookZone, ScanZone
  <1>a. pass \in [Processes -> Places]
    BY TypeSplit
  <1>1. PICK h \in Passes :
           /\ pass' = [pass EXCEPT ![p] = h]
           /\ \/ h.pc = "zone" /\ h.i = pass[p].i + 1
              \/ h.pc = "scan" /\ h.i = pass[p].i
    <2>1. CASE DeferZone(p)
      <3> DEFINE g == [pass[p] EXCEPT !.i = @ + 1, !.deferred = TRUE]
      <3>1. pass' = [pass EXCEPT ![p] = g]
        BY <1>a, <2>1, <1>0 DEF DeferZone
      <3>2. [pass[p] EXCEPT !.i = @ + 1] \in Passes
        BY <1>0 DEF Passes
      <3>3. g = [[pass[p] EXCEPT !.i = @ + 1] EXCEPT !.deferred = TRUE]
        BY <1>0 DEF Passes
      <3>4. g \in Passes
        BY <3>2, <3>3 DEF Passes
      <3>5. g.pc = "zone" /\ g.i = pass[p].i + 1
        BY <1>0, <2>1 DEF Passes, DeferZone
      <3> QED  BY <3>1, <3>4, <3>5
    <2>2. CASE LookZone(p) /\ complete[ZoneAt(p)]
      <3> DEFINE g == [pass[p] EXCEPT !.i = @ + 1]
      <3>1. pass' = [pass EXCEPT ![p] = g]
        BY <1>a, <2>2, <1>0 DEF LookZone
      <3>2. g \in Passes /\ g.pc = "zone" /\ g.i = pass[p].i + 1
        BY <1>0, <2>2 DEF Passes, LookZone
      <3> QED  BY <3>1, <3>2
    <2>3. CASE LookZone(p) /\ ~complete[ZoneAt(p)]
      <3> DEFINE g == [pass[p] EXCEPT !.pc = "scan"]
      <3>1. pass' = [pass EXCEPT ![p] = g]
        BY <1>a, <2>3, <1>0 DEF LookZone
      <3>2. g \in Passes /\ g.pc = "scan" /\ g.i = pass[p].i
        BY <1>0 DEF Passes
      <3> QED  BY <3>1, <3>2
    <2>4. CASE ScanZone(p)
      <3> DEFINE g == [pass[p] EXCEPT !.pc = "zone", !.i = @ + 1]
      <3>1. pass' = [pass EXCEPT ![p] = g]
        BY <1>0, <1>a, <2>4 DEF ScanZone
      <3>2. [pass[p] EXCEPT !.i = @ + 1] \in Passes
        BY <1>0 DEF Passes
      <3>3. g = [[pass[p] EXCEPT !.i = @ + 1] EXCEPT !.pc = "zone"]
        BY <1>0 DEF Passes
      <3>4. g \in Passes
        BY <3>2, <3>3 DEF Passes
      <3>5. g.pc = "zone" /\ g.i = pass[p].i + 1
        BY <1>0 DEF Passes
      <3> QED  BY <3>1, <3>4, <3>5
    <2> QED  BY <2>1, <2>2, <2>3, <2>4
  <1>3. UNCHANGED <<conf, cold, timer, failed, errors, crashes>>
    BY DEF DeferZone, LookZone, ScanZone, shared, bounds
  <1>4. pass' \in [Processes -> Places] /\ \A q \in Processes : Within(q)'
    <2>1. h \in Places
      BY DEF Places
    <2>2. h.i \in 1..(Len(ZonesOf(p)) + IF h.pc = "scan" THEN 0 ELSE 1)
      BY <1>0, <1>1
    <2> QED  BY <1>0, <1>1, <1>3, <2>1, <2>2, PassMoves
  <1>5. cached' \in [Processes -> [Zones -> BOOLEAN]]
    <2>1. cached \in [Processes -> [Zones -> BOOLEAN]]
      BY DEF TypeOK
    <2>2. cached' = cached \/ cached' = [cached EXCEPT ![p][ZoneAt(p)] = TRUE]
      BY DEF DeferZone, LookZone, ScanZone
    <2>3. [cached[p] EXCEPT ![ZoneAt(p)] = TRUE] \in [Zones -> BOOLEAN]
      BY <2>1
    <2> QED  BY <2>1, <2>2, <2>3
  <1>6. complete' \in [Zones -> BOOLEAN]
    BY DEF DeferZone, LookZone, ScanZone, TypeOK, shared
  <1>7. CASE built' = built
    BY <1>3, <1>4, <1>5, <1>6, <1>7, TypeSplit DEF TypeOK
  <1>8. CASE built' = [built EXCEPT ![ZoneAt(p)] = HeadersAt(p)]
    <2>1. built \in [Zones -> Headers \cup {Off}]
          /\ \A z \in Zones : built[z] \in {HeadersIn(conf[n], z) : n \in DOMAIN conf} \cup {Off}
      BY DEF TypeOK
    <2>2. HeadersAt(p) \in {HeadersIn(conf[n], ZoneAt(p)) : n \in DOMAIN conf}
      BY <1>0 DEF ZonesOf
    <2>3. HeadersAt(p) \in Headers
      <3>1. ZonesOf(p) \in ZoneArrays /\ pass[p].i \in DOMAIN ZonesOf(p)
        BY <1>0, Arrays DEF TypeOK, ZonesOf
      <3> QED  BY <3>1, HeadersAre DEF HeadersAt
    <2>4. built' \in [Zones -> Headers \cup {Off}]
          /\ \A z \in Zones : built'[z] \in {HeadersIn(conf[n], z) : n \in DOMAIN conf} \cup {Off}
      BY <1>8, <2>1, <2>2, <2>3
    <2>5. /\ pass' \in [Processes -> {None, Stopped, [pc |-> "start"]} \cup Passes]
          /\ \A q \in Processes : Within(q)'
      BY <1>4 DEF Places, Fresh
    <2> QED  BY <1>3, <1>5, <1>6, <2>4, <2>5 DEF TypeOK, Within
  <1> QED  BY <1>7, <1>8 DEF DeferZone, LookZone, ScanZone, shared

(* A reload: one more array, and the processes of the earlier ones go on. *)
LEMMA ReloadConf ==
    ASSUME TypeOK, Len(conf) < Len(Configs), NEW c \in Configs[Len(conf) + 1], Reload(c)
    PROVE  /\ conf' \in Seq(ZoneArrays) /\ Len(conf') = Len(conf) + 1
           /\ Len(conf') \in DOMAIN Configs
           /\ DOMAIN conf' = DOMAIN conf \cup {Len(conf) + 1}
           /\ conf'[Len(conf) + 1] = c /\ c \in ZoneArrays
           /\ \A n \in DOMAIN conf : n # Len(conf) + 1 /\ conf'[n] = conf[n]
  <1>1. conf \in Seq(ZoneArrays) /\ Len(conf) \in Nat /\ DOMAIN conf = 1..Len(conf)
    BY DEF TypeOK
  <1>2. Len(conf) + 1 \in DOMAIN Configs
    BY <1>1
  <1>3. c \in ZoneArrays /\ conf' = Append(conf, c)
    BY <1>2 DEF Reload
  <1> QED  BY <1>1, <1>2, <1>3

LEMMA ReloadType ==
    ASSUME TypeOK, Len(conf) < Len(Configs), NEW c \in Configs[Len(conf) + 1], Reload(c)
    PROVE  TypeOK'
  <1>0. conf' \in Seq(ZoneArrays) /\ Len(conf') \in DOMAIN Configs
        /\ \A n \in DOMAIN conf' : conf'[n] \in Configs[n]
    BY ReloadConf DEF TypeOK
  <1>1. built' \in [Zones -> Headers \cup {Off}]
    BY DEF Reload, TypeOK
  <1>2. ASSUME NEW z \in Zones
        PROVE  built'[z] \in {HeadersIn(conf'[n], z) : n \in DOMAIN conf'} \cup {Off}
    BY ReloadConf DEF Reload, TypeOK
  <1>3. ASSUME NEW p \in Processes
        PROVE  /\ \/ pass'[p] = Fresh /\ p[1] = Len(conf) + 1
                  \/ pass'[p] = pass[p] /\ (pass[p] # Stopped => ZonesOf(p)' = ZonesOf(p))
               /\ pass'[p] \in Places
    BY TypeSplit, ReloadConf DEF Reload, Within, Fresh, Places, ZonesOf
  <1>4. pass' \in [Processes -> Places]
    BY <1>3 DEF Reload
  <1>5. ASSUME NEW p \in Processes
        PROVE  Within(p)'
    <2>1. CASE pass'[p] = Fresh /\ p[1] = Len(conf) + 1
      BY <2>1, ReloadConf DEF Within, Fresh
    <2>2. CASE pass'[p] = pass[p] /\ (pass[p] # Stopped => ZonesOf(p)' = ZonesOf(p))
      BY <2>2, ReloadConf, TypeSplit DEF Within, Stopped
    <2> QED  BY <1>3, <2>1, <2>2
  <1>6. pass' \in [Processes -> {None, Stopped, [pc |-> "start"]} \cup Passes]
    BY <1>4 DEF Places, Fresh
  <1>7. UNCHANGED <<cold, complete, cached, timer, failed, errors, crashes>>
    BY DEF Reload, bounds
  <1> QED  BY <1>0, <1>1, <1>2, <1>5, <1>6, <1>7 DEF TypeOK, Within

LEMMA NextType == TypeOK /\ [Next]_vars => TypeOK'
  <1> SUFFICES ASSUME TypeOK, [Next]_vars PROVE TypeOK'
    OBVIOUS
  <1>1. ASSUME NEW z \in Zones, Warm(z)
        PROVE  TypeOK'
    <2>1. cold' \in [Zones -> BOOLEAN]
      BY <1>1 DEF Warm, TypeOK
    <2>2. UNCHANGED <<conf, complete, built, cached, pass, timer, failed, errors, crashes>>
      BY <1>1 DEF Warm, bounds
    <2>3. pass' \in [Processes -> Places] /\ \A p \in Processes : Within(p)'
      BY <2>2, TypeSplit DEF Within, ZonesOf
    <2> QED  BY <2>1, <2>2, <2>3, TypeSplit DEF TypeOK
  <1>2. ASSUME Len(conf) < Len(Configs), NEW c \in Configs[Len(conf) + 1], Reload(c)
        PROVE  TypeOK'
    BY <1>2, ReloadType
  <1>3. ASSUME NEW p \in Processes, Work(p) \/ ScanFails(p) \/ Crash(p)
        PROVE  TypeOK'
    BY <1>3, PassType, ZoneType DEF Work
  <1>4. CASE UNCHANGED vars
    BY <1>4 DEF vars, TypeOK, ZonesOf
  <1> QED  BY <1>1, <1>2, <1>3, <1>4 DEF Next

(* The passes of all generations of workers stay within the arrays of their  *)
(* own configurations, and the shared flags keep their types, over any       *)
(* number of reloads, errors and crashes (try_bootstrap_zones, init_zone).   *)
THEOREM BootstrapTypeCorrect == Spec => []TypeOK
  BY InitType, NextType, PTL DEF Spec

-----------------------------------------------------------------------------
(* Readiness. *)

(* A zone is scanned and published only when it is warm, and a worker's copy *)
(* says no more than the shared state.                                       *)
WarmInv ==
    /\ \A z \in Zones : complete[z] => ~cold[z]
    /\ \A p \in Processes, z \in Zones : cached[p][z] => complete[z]
    /\ \A p \in Processes : pass[p].pc = "scan" => ~cold[ZoneAt(p)]

(* Nothing takes a zone's readiness back, and only a scan gives it. *)
LEMMA CompleteSteps ==
    ASSUME TypeOK, [Next]_vars
    PROVE  /\ \A z \in Zones : complete[z] => complete'[z]
           /\ \/ UNCHANGED <<complete, built>>
              \/ \E c \in Configs[Len(conf) + 1] : Len(conf) < Len(Configs) /\ Reload(c)
              \/ \E p \in Processes : ScanZone(p)
  <1>1. ASSUME NEW p \in Processes, ScanZone(p)
        PROVE  \A z \in Zones : complete[z] => complete'[z]
    BY <1>1 DEF ScanZone, TypeOK
  <1>2. ASSUME NEW p \in Processes, Work(p) \/ ScanFails(p) \/ Crash(p), ~ScanZone(p)
        PROVE  UNCHANGED <<complete, built>>
    BY <1>2 DEF Work, Start, TimerFires, DeferZone, LookZone, PassEnds, Exit, ScanFails,
                Crash, shared
  <1>3. ASSUME NEW c, Reload(c)
        PROVE  complete' = complete
    BY <1>3 DEF Reload
  <1>4. ASSUME NEW z \in Zones, Warm(z)
        PROVE  UNCHANGED <<complete, built>>
    BY <1>4 DEF Warm
  <1> QED  BY <1>1, <1>2, <1>3, <1>4 DEF Next, vars

LEMMA NextWarm ==
    ASSUME ~Single, TypeOK, TypeOK', WarmInv, [Next]_vars
    PROVE  WarmInv'
  <1>1. \A z \in Zones : cold'[z] => cold[z]
    <2>1. ASSUME NEW p \in Processes, Work(p) \/ ScanFails(p) \/ Crash(p)
          PROVE  cold' = cold
      BY <2>1 DEF Work, Start, TimerFires, DeferZone, LookZone, ScanZone, PassEnds, Exit,
                  ScanFails, Crash, shared
    <2>2. ASSUME NEW z \in Zones, Warm(z)
          PROVE  \A y \in Zones : cold'[y] => cold[y]
      BY <2>2 DEF Warm, TypeOK
    <2> QED  BY <2>1, <2>2 DEF Next, Reload, vars
  <1>2. \A z \in Zones : complete'[z] => ~cold'[z]
    <2>1. ASSUME NEW p \in Processes, ScanZone(p), NEW z \in Zones, complete'[z]
          PROVE  ~cold[z]
      BY <2>1 DEF WarmInv, ScanZone, TypeOK
    <2>2. ASSUME complete' = complete
          PROVE  \A z \in Zones : complete'[z] => ~cold[z]
      BY <2>2 DEF WarmInv
    <2> QED  BY <1>1, <2>1, <2>2, CompleteSteps DEF Reload
  <1>3. ASSUME NEW q \in Processes, NEW z \in Zones, cached'[q][z]
        PROVE  complete'[z]
    <2>1. cached[q][z] => complete'[z]
      BY CompleteSteps DEF WarmInv
    <2>2. ASSUME NEW p \in Processes, Start(p)
          PROVE  cached[q][z] \/ complete'[z]
      BY <1>3, <2>2 DEF Start, shared, TypeOK
    <2>3. ASSUME NEW p \in Processes, LookZone(p)
          PROVE  cached[q][z] \/ complete'[z]
      BY <1>3, <2>3 DEF LookZone, shared, TypeOK
    <2>4. ASSUME NEW p \in Processes, ScanZone(p)
          PROVE  cached[q][z] \/ complete'[z]
      BY <1>3, <2>4 DEF ScanZone, TypeOK
    <2>5. ASSUME NEW p \in Processes, Exit(p) \/ Crash(p)
          PROVE  cached[q][z]
      BY <1>3, <2>5 DEF Exit, Crash, TypeOK
    <2>6. ASSUME NEW p \in Processes,
                 TimerFires(p) \/ DeferZone(p) \/ PassEnds(p) \/ ScanFails(p)
          PROVE  cached[q][z]
      BY <1>3, <2>6 DEF TimerFires, DeferZone, PassEnds, ScanFails
    <2> QED
      BY <1>3, <2>1, <2>2, <2>3, <2>4, <2>5, <2>6 DEF Next, Work, Warm, Reload, vars
  <1>4. ASSUME NEW q \in Processes, pass'[q].pc = "scan"
        PROVE  ~cold'[ZoneAt(q)']
    <2>1. CASE pass'[q] = pass[q] /\ ZonesOf(q)' = ZonesOf(q)
      <3>1. ZoneAt(q)' = ZoneAt(q) /\ ZoneAt(q) \in Zones
        BY <1>4, <2>1, InPass DEF ZoneAt
      <3> QED  BY <1>1, <1>4, <2>1, <3>1 DEF WarmInv
    <2>2. CASE LookZone(q)
      <3>1. pass[q].i <= Len(ZonesOf(q)) /\ pass[q] \in Passes /\ ZoneAt(q) \in Zones
        BY <2>2, InPass DEF LookZone
      <3>2. pass'[q].i = pass[q].i
        BY SMTT(40), <1>4, <2>2, <3>1 DEF LookZone, TypeOK, Passes
      <3>3. ZoneAt(q)' = ZoneAt(q)
        BY <2>2, <3>2 DEF ZoneAt, ZonesOf, LookZone
      <3> QED  BY <1>1, <2>2, <3>1, <3>3 DEF LookZone
    <2>3. ASSUME NEW p \in Processes, Work(p) \/ ScanFails(p) \/ Crash(p)
          PROVE  \/ pass'[q] = pass[q] /\ ZonesOf(q)' = ZonesOf(q)
                 \/ LookZone(q)
      <3>1. conf' = conf
        BY <2>3 DEF Work, Start, TimerFires, DeferZone, LookZone, ScanZone, PassEnds, Exit,
                    ScanFails, Crash
      <3>2. q # p => pass'[q] = pass[q]
        BY <2>3 DEF Work, Start, TimerFires, DeferZone, LookZone, ScanZone, PassEnds, Exit,
                    ScanFails, Crash, TypeOK
      <3>3. ASSUME q = p, ~LookZone(p)
            PROVE  FALSE
        <4>1. CASE DeferZone(p) \/ ScanZone(p)
          <5>1. pass[p] \in Passes
            BY <4>1, InPass DEF DeferZone, ScanZone
          <5> QED  BY <1>4, <3>3, <4>1, <5>1 DEF DeferZone, ScanZone, TypeOK, Passes
        <4>2. CASE Start(p) \/ TimerFires(p) \/ PassEnds(p) \/ Exit(p)
          BY <1>4, <3>3, <4>2 DEF Start, TimerFires, PassEnds, Exit, Pass, None, Stopped, TypeOK
        <4>3. CASE ScanFails(p) \/ Crash(p)
          BY <1>4, <3>3, <4>3 DEF ScanFails, Crash, None, Stopped, TypeOK
        <4> QED  BY <2>3, <3>3, <4>1, <4>2, <4>3 DEF Work
      <3> QED  BY <3>1, <3>2, <3>3 DEF ZonesOf
    <2>4. ASSUME Len(conf) < Len(Configs), NEW c \in Configs[Len(conf) + 1], Reload(c)
          PROVE  pass'[q] = pass[q] /\ ZonesOf(q)' = ZonesOf(q)
      <3>1. pass'[q] = pass[q]
        BY <1>4, <2>4 DEF Reload
      <3>2. q[1] \in DOMAIN conf
        BY <1>4, <3>1 DEF TypeOK, Stopped
      <3> QED  BY <2>4, <3>1, <3>2, ReloadConf DEF ZonesOf
    <2> QED  BY <2>1, <2>2, <2>3, <2>4 DEF Next, Warm, vars, ZonesOf
  <1> QED  BY <1>2, <1>3, <1>4 DEF WarmInv

(* With a cache loader (a server that is not a single process), no zone is   *)
(* published, and none is known to be ready in any worker, before the loader *)
(* is through with it: not by a worker that is late, replaced after a crash  *)
(* or left over from before a reload (try_bootstrap_zones).                  *)
THEOREM ReadyImpliesWarm == ~Single => (Spec => []ReadyOnlyWhenWarm)
  <1> SUFFICES ASSUME ~Single PROVE Spec => []ReadyOnlyWhenWarm
    OBVIOUS
  <1>1. Init => WarmInv
    BY DEF Init, WarmInv, Stopped
  <1>2. TypeOK /\ TypeOK' /\ WarmInv /\ [Next]_vars => WarmInv'
    BY NextWarm
  <1>3. WarmInv => ReadyOnlyWhenWarm
    BY DEF WarmInv, ReadyOnlyWhenWarm
  <1> QED  BY <1>1, <1>2, <1>3, BootstrapTypeCorrect, PTL DEF Spec

(* What was once reported as ready by the statistics of a worker is never    *)
(* declined for not being ready by a tag purge of any worker that indexes    *)
(* the zone, of this configuration or a later one.                           *)
THEOREM PolledStaysReady == Spec => PollThenPurge
  <1>1. TypeOK /\ [Next]_vars =>
           [\A p, q \in Processes, z \in Zones :
              /\ Serving(p) /\ Snapshot(p, z) = "ready"
              /\ Serving(q)' /\ Registered(q, z)'
              => Gate(q, z)' = ""]_vars
    <2> SUFFICES ASSUME TypeOK, [Next]_vars, NEW p \in Processes, NEW q \in Processes,
                        NEW z \in Zones, Snapshot(p, z) = "ready", Registered(q, z)'
                 PROVE  Gate(q, z)' = ""
      OBVIOUS
    <2>1. complete[z]
      BY DEF Snapshot, ZoneState
    <2>2. complete'[z]
      BY <2>1, CompleteSteps
    <2> QED  BY <2>2 DEF Gate, ZoneState
  <1> QED  BY <1>1, BootstrapTypeCorrect, PTL DEF Spec, PollThenPurge

-----------------------------------------------------------------------------
(* No zone is left behind. *)

Ready(p, z) == complete[z] /\ cached[p][z]

(* What a process has seen of its zones: in a pass, and after one. *)
Seen(p) ==
    /\ pass[p].pc \in {"zone", "scan"} /\ ~pass[p].deferred =>
          \A k \in 1..Len(ZonesOf(p)) : k < pass[p].i => Ready(p, ZonesOf(p)[k].zone)
    /\ Serving(p) /\ ~timer[p] /\ p \notin failed =>
          \A k \in 1..Len(ZonesOf(p)) : Ready(p, ZonesOf(p)[k].zone)

SeenInv == \A p \in Processes : Seen(p)

(* What is not changed of a process: its configuration, where it is, and     *)
(* what it has seen.                                                         *)
LEMMA SeenKept ==
    ASSUME TypeOK, [Next]_vars, NEW p \in Processes, Seen(p),
           pass[p] # Stopped => ZonesOf(p)' = ZonesOf(p), pass'[p] = pass[p], timer'[p] = timer[p],
           p \in failed <=> p \in failed', \A z \in Zones : cached[p][z] => cached'[p][z]
    PROVE  Seen(p)'
  <1>1. CASE pass[p] = Stopped
    BY <1>1 DEF Seen, Stopped, Serving, None
  <1>2. CASE pass[p] # Stopped
    <2>1. \A z \in Zones : Ready(p, z) => Ready(p, z)'
      BY CompleteSteps DEF Ready
    <2>2. \A k \in 1..Len(ZonesOf(p)) : ZonesOf(p)[k].zone \in Zones
      <3>1. ZonesOf(p) \in ZoneArrays
        BY <1>2 DEF TypeOK, ZonesOf
      <3> QED  BY <3>1, Arrays
    <2>3. ZonesOf(p)' = ZonesOf(p)
      BY <1>2
    <2>4. ASSUME NEW k \in 1..Len(ZonesOf(p)), Ready(p, ZonesOf(p)[k].zone)
          PROVE  Ready(p, ZonesOf(p)[k].zone)'
      BY <2>1, <2>2, <2>3, <2>4 DEF Ready
    <2> QED  BY <2>3, <2>4 DEF Seen, Serving
  <1> QED  BY <1>1, <1>2

(* A step of its own pass. *)
LEMMA SeenMoves ==
    ASSUME TypeOK, TypeOK', [Next]_vars, NEW p \in Processes, Seen(p), Work(p)
    PROVE  Seen(p)'
  <1>1. conf' = conf /\ ZonesOf(p)' = ZonesOf(p)
    BY DEF Work, Start, TimerFires, DeferZone, LookZone, ScanZone, PassEnds, Exit, ZonesOf
  <1>2. CASE Start(p) \/ TimerFires(p)
    <2>1. pass'[p].pc = "zone" /\ pass'[p].i = 1
      BY <1>2 DEF Start, TimerFires, Pass, TypeOK
    <2> QED  BY <2>1 DEF Seen, Serving, None
  <1>3. CASE Exit(p)
    <2>1. pass'[p] = Stopped
      BY <1>3 DEF Exit, TypeOK
    <2> QED  BY <2>1 DEF Seen, Serving, None, Stopped
  <1>4. CASE DeferZone(p)
    <2>1. pass[p] \in Passes
      BY <1>4, InPass DEF DeferZone
    <2>2. pass'[p].pc = "zone" /\ pass'[p].deferred
      BY <1>4, <2>1 DEF DeferZone, TypeOK, Passes
    <2> QED  BY <2>2 DEF Seen, Serving, None
  <1>5. CASE PassEnds(p)
    <2>1. /\ pass'[p] = None /\ timer'[p] = pass[p].deferred
          /\ pass[p].pc = "zone" /\ pass[p].i > Len(ZonesOf(p))
          /\ UNCHANGED <<complete, cached>>
      BY <1>5 DEF PassEnds, TypeOK, shared
    <2>2. Len(ZonesOf(p)) \in Nat /\ pass[p].i \in Nat
      BY <2>1, InPass
    <2>3. \A k \in 1..Len(ZonesOf(p)) : k < pass[p].i
      BY <2>1, <2>2
    <2>4. ~timer'[p] => \A k \in 1..Len(ZonesOf(p)) : Ready(p, ZonesOf(p)[k].zone)
      BY <2>1, <2>3 DEF Seen
    <2> QED  BY <1>1, <2>1, <2>4 DEF Seen, Ready, None
  <1>6. CASE LookZone(p) \/ ScanZone(p)
    <2>1. pass[p].pc \in {"zone", "scan"} /\ pass[p].i <= Len(ZonesOf(p))
      BY <1>6, InPass DEF LookZone, ScanZone
    <2>2. /\ pass[p] \in Passes /\ pass[p].i \in Nat /\ ZoneAt(p) \in Zones
          /\ ZonesOf(p) \in ZoneArrays
      BY <2>1, InPass
    <2>3. \/ pass'[p] = [pass[p] EXCEPT !.pc = "scan"] /\ cached' = cached
          \/ /\ pass'[p] \in {[pass[p] EXCEPT !.i = @ + 1],
                               [pass[p] EXCEPT !.pc = "zone", !.i = @ + 1]}
             /\ cached' = [cached EXCEPT ![p][ZoneAt(p)] = TRUE]
             /\ complete'[ZoneAt(p)]
      BY <1>6, <2>2 DEF LookZone, ScanZone, TypeOK, shared
    <2>4. /\ pass'[p].pc \in {"zone", "scan"} /\ pass'[p].deferred = pass[p].deferred
          /\ \/ pass'[p].i = pass[p].i /\ cached' = cached
             \/ /\ pass'[p].i = pass[p].i + 1
                /\ cached' = [cached EXCEPT ![p][ZoneAt(p)] = TRUE] /\ complete'[ZoneAt(p)]
      <3>1. ASSUME NEW r \in Passes
            PROVE  /\ LET s == [r EXCEPT !.pc = "scan"] IN
                       s.pc = "scan" /\ s.deferred = r.deferred /\ s.i = r.i
                   /\ LET s == [r EXCEPT !.i = @ + 1] IN
                       s.pc = r.pc /\ s.deferred = r.deferred /\ s.i = r.i + 1
                   /\ LET s == [r EXCEPT !.pc = "zone", !.i = @ + 1] IN
                       s.pc = "zone" /\ s.deferred = r.deferred /\ s.i = r.i + 1
        BY DEF Passes
      <3>2. PICK r \in Passes : r = pass[p]
        BY <2>2
      <3>3. CASE pass'[p] = [r EXCEPT !.pc = "scan"] /\ cached' = cached
        BY <3>1, <3>2, <3>3
      <3>4. CASE /\ pass'[p] \in {[r EXCEPT !.i = @ + 1], [r EXCEPT !.pc = "zone", !.i = @ + 1]}
                 /\ cached' = [cached EXCEPT ![p][ZoneAt(p)] = TRUE] /\ complete'[ZoneAt(p)]
        <4>1. /\ pass'[p].pc \in {"zone", "scan"} /\ pass'[p].deferred = r.deferred
              /\ pass'[p].i = r.i + 1
          <5>1. PICK f, g : f = [r EXCEPT !.i = @ + 1] /\ g = [r EXCEPT !.pc = "zone", !.i = @ + 1]
            OBVIOUS
          <5>2. /\ f.pc = r.pc /\ f.deferred = r.deferred /\ f.i = r.i + 1
                /\ g.pc = "zone" /\ g.deferred = r.deferred /\ g.i = r.i + 1
            BY <3>1, <5>1
          <5>3. pass'[p] = f \/ pass'[p] = g
            BY <3>4, <5>1
          <5> QED  BY <2>1, <3>2, <5>2, <5>3
        <4> QED  BY <3>2, <3>4, <4>1
      <3> QED  BY <2>3, <3>2, <3>3, <3>4
    <2>5. \A z \in Zones : Ready(p, z) => Ready(p, z)'
      BY <2>4, CompleteSteps DEF Ready, TypeOK
    <2>6. PICK y : y = ZoneAt(p)
      OBVIOUS
    <2>a. pass'[p].i = pass[p].i \/ (pass'[p].i = pass[p].i + 1 /\ Ready(p, y)')
      BY <2>2, <2>4, <2>6 DEF Ready, TypeOK
    <2>7. ASSUME ~pass'[p].deferred, NEW k \in 1..Len(ZonesOf(p)), k < pass'[p].i
          PROVE  Ready(p, ZonesOf(p)[k].zone)'
      <3>1. PICK z : z = ZonesOf(p)[k].zone
        OBVIOUS
      <3>2. z \in Zones
        BY <2>2, <3>1, Arrays
      <3>3. CASE k < pass[p].i
        <4>1. Ready(p, z)
          BY <2>1, <2>4, <2>7, <3>1, <3>3 DEF Seen
        <4>2. Ready(p, z)'
          BY <2>5, <3>2, <4>1
        <4> QED  BY <1>1, <3>1, <4>2 DEF Ready
      <3>4. CASE ~(k < pass[p].i)
        <4>1. pass'[p].i = pass[p].i + 1 /\ k = pass[p].i
          BY <2>2, <2>7, <2>a, <3>4
        <4>2. Ready(p, y)' /\ y = z
          BY <2>2, <2>6, <2>a, <3>1, <4>1 DEF ZoneAt
        <4> QED  BY <1>1, <3>1, <4>2 DEF Ready
      <3> QED  BY <3>3, <3>4
    <2>8. pass'[p] # None
      BY <2>4 DEF None
    <2> QED  BY <1>1, <2>7, <2>8 DEF Seen, Serving
  <1> QED  BY <1>2, <1>3, <1>4, <1>5, <1>6 DEF Work

LEMMA NextSeen ==
    ASSUME TypeOK, TypeOK', SeenInv, [Next]_vars
    PROVE  SeenInv'
  <1> SUFFICES ASSUME NEW q \in Processes PROVE Seen(q)'
    BY DEF SeenInv
  <1>0. Seen(q)
    BY DEF SeenInv
  <1>1. CASE UNCHANGED <<conf, pass, timer, failed, cached>>
    BY <1>0, <1>1, SeenKept DEF ZonesOf
  <1>2. ASSUME Len(conf) < Len(Configs), NEW c \in Configs[Len(conf) + 1], Reload(c)
        PROVE  Seen(q)'
    <2>1. pass'[q] = IF q[1] = Len(conf) + 1 THEN Fresh ELSE pass[q]
      BY <1>2 DEF Reload, Fresh
    <2>2. CASE q[1] = Len(conf) + 1
      BY <2>1, <2>2 DEF Seen, Fresh, Serving, None
    <2>3. CASE q[1] # Len(conf) + 1
      <3>1. pass[q] # Stopped => ZonesOf(q)' = ZonesOf(q)
        BY <1>2, ReloadConf DEF ZonesOf, TypeOK
      <3> QED  BY <1>0, <1>2, <2>1, <2>3, <3>1, SeenKept DEF Reload
    <2> QED  BY <2>2, <2>3
  <1>3. ASSUME NEW p \in Processes, Work(p) \/ ScanFails(p) \/ Crash(p)
        PROVE  Seen(q)'
    <2>1. CASE q # p
      <3>1. /\ conf' = conf /\ pass'[q] = pass[q] /\ timer'[q] = timer[q] /\ cached'[q] = cached[q]
            /\ q \in failed <=> q \in failed'
        <4>1. CASE Start(p) \/ TimerFires(p) \/ DeferZone(p) \/ LookZone(p)
          BY <2>1, <4>1 DEF Start, TimerFires, DeferZone, LookZone, TypeOK
        <4>2. CASE ScanZone(p) \/ PassEnds(p) \/ Exit(p)
          BY <2>1, <4>2 DEF ScanZone, PassEnds, Exit, TypeOK
        <4>3. CASE ScanFails(p) \/ Crash(p)
          BY <2>1, <4>3 DEF ScanFails, Crash, TypeOK
        <4> QED  BY <1>3, <4>1, <4>2, <4>3 DEF Work
      <3> QED  BY <1>0, <3>1, SeenKept DEF ZonesOf
    <2>2. CASE q = p /\ Work(p)
      BY <1>0, <2>2, SeenMoves
    <2>3. CASE q = p /\ ScanFails(p)
      <3>1. pass'[p] \in {Stopped, None} /\ p \in failed'
        BY <2>3 DEF ScanFails, TypeOK
      <3> QED  BY <2>3, <3>1 DEF Seen, Serving, Stopped, None
    <2>4. CASE q = p /\ Crash(p)
      <3>1. pass'[p] \in {Stopped, Fresh}
        BY <2>4 DEF Crash, TypeOK, Fresh
      <3> QED  BY <2>4, <3>1 DEF Seen, Serving, Stopped, Fresh, None
    <2> QED  BY <1>3, <2>1, <2>2, <2>3, <2>4
  <1> QED  BY <1>1, <1>2, <1>3 DEF Next, Warm, vars

(* The safety half of EveryZoneReady: a worker that no longer waits has seen *)
(* every zone of its configuration ready, and they still are.  The pass does *)
(* it zone by zone (Seen); deferrals, which leave a gap, set the timer.      *)
THEOREM NoneLeftBehind == Spec => []NoZoneLeftBehind
  <1>1. Init => SeenInv
    BY DEF Init, SeenInv, Seen, Serving, Stopped, None
  <1>2. TypeOK /\ TypeOK' /\ SeenInv /\ [Next]_vars => SeenInv'
    BY NextSeen
  <1>3. ASSUME TypeOK, SeenInv PROVE NoZoneLeftBehind
    <2>1. SUFFICES ASSUME NEW p \in Processes, Serving(p), ~timer[p], p \notin failed,
                          NEW z \in Zones, Registered(p, z)
                   PROVE  Ready(p, z)
      BY DEF NoZoneLeftBehind, Ready
    <2>2. ZonesOf(p) \in ZoneArrays
      BY <1>3, <2>1 DEF TypeOK, ZonesOf, Serving, None, Stopped
    <2>3. PICK k \in 1..Len(ZonesOf(p)) : ZonesOf(p)[k].zone = z
      BY <2>1, <2>2, Arrays DEF Registered, Lists
    <2> QED  BY <1>3, <2>1, <2>3 DEF SeenInv, Seen
  <1> QED  BY <1>1, <1>2, <1>3, BootstrapTypeCorrect, PTL DEF Spec

-----------------------------------------------------------------------------
(* All configurations index the same zones, with the same tag headers. *)
SameHeaders ==
    \A m, n \in DOMAIN Configs : \A c \in Configs[m], d \in Configs[n], z \in Zones :
        HeadersIn(c, z) = HeadersIn(d, z)

BuiltInv ==
    \A z \in Zones : complete[z] =>
        \A n \in DOMAIN Configs : \A c \in Configs[n] : built[z] = HeadersIn(c, z)

(* A reload that changes neither the indexed zones nor their tag headers is  *)
(* all that ReadyIsCurrent takes: scans of old and new workers, deferrals,   *)
(* errors and crashes do no harm.                                            *)
THEOREM SteadyReadyIsCurrent == SameHeaders => (Spec => []ReadyIsCurrent)
  <1> SUFFICES ASSUME SameHeaders PROVE Spec => []ReadyIsCurrent
    OBVIOUS
  <1>1. Init => BuiltInv
    BY DEF Init, BuiltInv
  <1>2. TypeOK /\ BuiltInv /\ [Next]_vars => BuiltInv'
    <2> SUFFICES ASSUME TypeOK, BuiltInv, [Next]_vars, NEW z \in Zones, complete'[z],
                        NEW n \in DOMAIN Configs, NEW c \in Configs[n]
                 PROVE  built'[z] = HeadersIn(c, z)
      BY DEF BuiltInv
    <2>1. CASE UNCHANGED <<complete, built>>
      BY <2>1 DEF BuiltInv
    <2>2. ASSUME Len(conf) < Len(Configs), NEW d \in Configs[Len(conf) + 1], Reload(d)
          PROVE  built'[z] = HeadersIn(c, z)
      <3>1. Len(conf) + 1 \in DOMAIN Configs
        BY <2>2, ReloadConf
      <3>2. HeadersIn(c, z) = HeadersIn(d, z)
        BY <3>1 DEF SameHeaders
      <3>3. built[z] = HeadersIn(d, z)
        BY <2>2, <3>1 DEF BuiltInv, Reload
      <3> QED  BY <2>2, <3>2, <3>3 DEF Reload, HeadersIn
    <2>3. ASSUME NEW p \in Processes, ScanZone(p)
          PROVE  built'[z] = HeadersIn(c, z)
      <3>1. /\ p[1] \in DOMAIN conf
            /\ HeadersIn(ZonesOf(p), ZoneAt(p)) = HeadersAt(p)
        BY <2>3, InPass DEF ScanZone
      <3>2. p[1] \in DOMAIN Configs /\ ZonesOf(p) \in Configs[p[1]]
        BY <3>1, Generations DEF TypeOK, ZonesOf
      <3>3. CASE z = ZoneAt(p)
        <4>1. built'[z] = HeadersAt(p)
          BY <2>3, <3>3 DEF ScanZone, TypeOK
        <4> QED  BY <3>1, <3>2, <3>3, <4>1 DEF SameHeaders
      <3>4. CASE z # ZoneAt(p)
        BY <2>3, <3>4 DEF ScanZone, TypeOK, BuiltInv
      <3> QED  BY <3>3, <3>4
    <2> QED  BY <2>1, <2>2, <2>3, CompleteSteps
  <1>3. TypeOK /\ BuiltInv => ReadyIsCurrent
    <2> SUFFICES ASSUME TypeOK, BuiltInv, NEW z \in Zones, complete[z]
                 PROVE  built[z] = HeadersIn(conf[Len(conf)], z)
      BY DEF ReadyIsCurrent
    <2>1. Len(conf) \in DOMAIN Configs /\ Len(conf) \in DOMAIN conf
      BY DEF TypeOK
    <2>2. conf[Len(conf)] \in Configs[Len(conf)]
      BY <2>1 DEF TypeOK
    <2> QED  BY <2>1, <2>2 DEF BuiltInv
  <1> QED  BY <1>1, <1>2, <1>3, BootstrapTypeCorrect, PTL DEF Spec

=============================================================================
