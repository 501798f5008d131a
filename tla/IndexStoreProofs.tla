-------------------------- MODULE IndexStoreProofs --------------------------
(***************************************************************************)
(* Theorems about IndexStore, for every set of paths, keys, tags, tag      *)
(* lists and times and every bound on failed allocations.                  *)
(***************************************************************************)
EXTENDS IndexStore, FiniteSetTheorems, TLAPS

USE NoKeyAssumption, TimesAssumption, MaxFailuresAssumption, TagListsAssumption

-----------------------------------------------------------------------------
(* An operation in progress is a request of the expected shape, and the     *)
(* record of an idle store is none of them.                                 *)
LEMMA OpCases ==
    ASSUME TypeOK
    PROVE  /\ op = Idle <=> op.pc = "idle"
           /\ op # Idle => op \in Busy
  BY DEF TypeOK, Idle, Busy

(* remove_file_locked keeps the shape of every structure it changes. *)
LEMMA RemoveFileType ==
    ASSUME TypeOK, NEW p \in Paths, RemoveFile(p)
    PROVE  /\ files' \subseteq Paths
           /\ file' \in [Paths -> Files]
           /\ keyIndex' \subseteq Keys
           /\ keyFiles' \in [Keys -> SUBSET Paths]
           /\ tagIndex' \subseteq Tags
           /\ tagFiles' \in [Tags -> SUBSET Paths]
  <1>1. NoFile \in Files
    BY DEF NoFile, NewFile, Files, KeyTexts
  <1> QED  BY <1>1 DEF TypeOK, RemoveFile

(* normalize_zone_state returns a zone state. *)
LEMMA NormalizeType ==
    ASSUME NEW s \in ZoneStates, NEW now \in Times
    PROVE  Normalize(s, now) \in ZoneStates
  BY DEF Normalize, ZoneStates, ZeroState

-----------------------------------------------------------------------------
LEMMA InitType == Init => TypeOK
  <1> SUFFICES ASSUME Init PROVE TypeOK
    OBVIOUS
  <1>1. NoFile \in Files
    BY DEF NoFile, NewFile, Files, KeyTexts
  <1>2. ZeroState \in ZoneStates
    BY DEF ZeroState, ZoneStates
  <1> QED  BY <1>1, <1>2 DEF Init, TypeOK

LEMMA NextType == TypeOK /\ [Next]_vars => TypeOK'
  <1> SUFFICES ASSUME TypeOK, [Next]_vars PROVE TypeOK'
    OBVIOUS
  <1> USE OpCases
  <1>1. CASE ZoneRefused
    BY <1>1 DEF ZoneRefused, AllocFails, TypeOK, links
  <1>2. ASSUME NEW p \in Paths, NEW k \in KeyTexts, NEW ts \in TagLists,
               UpsertBegin(p, k, ts)
        PROVE  TypeOK'
    <2>1. op' \in Busy
      BY <1>2 DEF UpsertBegin, Upserting, Busy
    <2>2. CASE p \in files
      BY <1>2, <2>1, <2>2, RemoveFileType DEF UpsertBegin, TypeOK
    <2>3. CASE p \notin files
      BY <1>2, <2>1, <2>3 DEF UpsertBegin, TypeOK, links
    <2> QED  BY <2>2, <2>3
  <1>3. CASE UpsertAlloc
    <2>1. op \in Busy
      BY <1>3 DEF UpsertAlloc
    <2>2. op' \in {Idle} \cup Busy
      BY <1>3, <2>1 DEF UpsertAlloc, Busy
    <2>5. NewFile(op.key) \in Files
      BY <2>1 DEF NewFile, Files, Busy, KeyTexts
    <2>3. file' \in [Paths -> Files]
      BY SMTT(40), <1>3, <2>1, <2>5 DEF UpsertAlloc, TypeOK, Busy
    <2>4. files' \subseteq Paths /\ alloc_failures' \in Nat
      BY <1>3, <2>1 DEF UpsertAlloc, AllocFails, TypeOK, Busy
    <2> QED  BY <1>3, <2>2, <2>3, <2>4 DEF UpsertAlloc, TypeOK, links
  <1>4. CASE LinkExactKey
    <2>1. op \in Busy
      BY <1>4 DEF LinkExactKey
    <2>2. op' \in Busy
      BY <1>4, <2>1 DEF LinkExactKey, Busy
    <2>3. file' \in [Paths -> Files]
      BY <1>4, <2>1 DEF LinkExactKey, TypeOK, Busy, Files
    <2>5. op.path \in Paths /\ op.key \in Keys \cup {NoKey}
      BY <2>1 DEF Busy, KeyTexts
    <2>6. alloc_failures' \in Nat
      BY <1>4 DEF LinkExactKey, AllocFails, TypeOK
    <2>4. keyIndex' \subseteq Keys /\ keyFiles' \in [Keys -> SUBSET Paths]
      BY <1>4, <2>5 DEF LinkExactKey, TypeOK
    <2> QED  BY <1>4, <2>2, <2>3, <2>4, <2>6 DEF LinkExactKey, TypeOK
  <1>5. CASE LinkTag
    <2>1. op \in Busy
      BY <1>5 DEF LinkTag
    <2>2. op' \in Busy
      BY <1>5, <2>1 DEF LinkTag, Busy
    <2>3. op.tags[op.i] \in Tags
      BY <1>5, <2>1 DEF LinkTag, Busy
    <2>4. op.path \in Paths
      BY <2>1 DEF Busy
    <2>5. file' \in [Paths -> Files]
      BY <1>5, <2>3, <2>4 DEF LinkTag, TypeOK, Files
    <2>6. alloc_failures' \in Nat
      BY <1>5 DEF LinkTag, AllocFails, TypeOK
    <2>7. tagIndex' \subseteq Tags /\ tagFiles' \in [Tags -> SUBSET Paths]
      BY <1>5, <2>3, <2>4 DEF LinkTag, TypeOK
    <2> QED  BY <1>5, <2>2, <2>5, <2>6, <2>7 DEF LinkTag, TypeOK
  <1>6. CASE Rollback
    <2>1. op.path \in Paths
      BY <1>6 DEF Rollback, Busy
    <2> QED  BY <1>6, <2>1, RemoveFileType DEF Rollback, TypeOK
  <1>7. ASSUME NEW now \in Times, UpsertDone(now)
        PROVE  TypeOK'
    BY <1>7 DEF UpsertDone, Touch, TypeOK, ZoneStates, links
  <1>8. ASSUME NEW p \in Paths, NEW now \in Times, DeleteFile(p, now)
        PROVE  TypeOK'
    <2>1. state' \in ZoneStates
      BY <1>8 DEF DeleteFile, Touch, TypeOK, ZoneStates
    <2> QED  BY <1>8, <2>1, RemoveFileType DEF DeleteFile, TypeOK
  <1>9. ASSUME NEW now \in Times, SetZoneState(now)
        PROVE  TypeOK'
    <2>1. state' \in ZoneStates
      BY <1>9, NormalizeType DEF SetZoneState, ZoneStates
    <2> QED  BY <1>9, <2>1 DEF SetZoneState, TypeOK, links
  <1>10. CASE UNCHANGED vars
    BY <1>10 DEF vars, TypeOK
  <1> QED
    BY <1>1, <1>2, <1>3, <1>4, <1>5, <1>6, <1>7, <1>8, <1>9, <1>10 DEF Next

(* The store's structures keep their shape whatever operations run on them. *)
THEOREM TypeCorrect == Spec => []TypeOK
  BY InitType, NextType, PTL DEF Spec

-----------------------------------------------------------------------------
(* remove_file_locked, called on any path, leaves the links of the other    *)
(* paths alone and no link of its own path.                                 *)
LEMMA RemoveFileConsistent ==
    ASSUME TypeOK, KeyLinksAgree, TagLinksAgree, EntriesReachable,
           NEW p \in Paths, p \in files, RemoveFile(p)
    PROVE  /\ KeyLinksAgree'
           /\ TagLinksAgree'
           /\ EntriesReachable'
           /\ files' = files \ {p}
           /\ \A q \in Paths \ {p} : file'[q] = file[q]
  <1>1. /\ files' = files \ {p}
        /\ \A q \in Paths \ {p} : file'[q] = file[q]
    BY DEF RemoveFile, TypeOK
  <1>2. KeyLinksAgree'
    BY <1>1 DEF RemoveFile, TypeOK, KeyLinksAgree, Files
  <1>3. TagLinksAgree'
    BY <1>1 DEF RemoveFile, TypeOK, TagLinksAgree, Files
  <1>4. ASSUME NEW k \in Keys PROVE keyFiles'[k] # {} <=> k \in keyIndex'
    <2>1. CASE k = file[p].key_entry
      BY <2>1 DEF RemoveFile, TypeOK, EntriesReachable, KeyLinksAgree
    <2>2. CASE k # file[p].key_entry
      BY <2>2 DEF RemoveFile, TypeOK, EntriesReachable
    <2> QED  BY <2>1, <2>2
  <1>5. ASSUME NEW t \in Tags PROVE tagFiles'[t] # {} => t \in tagIndex'
    BY DEF RemoveFile, TypeOK, EntriesReachable
  <1> QED  BY <1>1, <1>2, <1>3, <1>4, <1>5 DEF EntriesReachable

LEMMA InitIInv == Init => IInv
  <1> SUFFICES ASSUME Init PROVE IInv
    OBVIOUS
  <1>1. TypeOK
    BY InitType
  <1>2. Consistent
    BY DEF Init, Consistent, KeyLinksAgree, TagLinksAgree, EntriesReachable,
           KeyLinked
  <1>3. InFlight
    BY DEF Init, InFlight
  <1> QED  BY <1>1, <1>2, <1>3 DEF IInv

LEMMA NextIInv == IInv /\ [Next]_vars => IInv'
  <1> SUFFICES ASSUME IInv, [Next]_vars PROVE IInv'
    OBVIOUS
  <1>0. TypeOK /\ TypeOK'
    BY NextType DEF IInv
  <1>a. /\ KeyLinksAgree /\ TagLinksAgree /\ EntriesReachable /\ KeyLinked
        /\ InFlight
    BY DEF IInv, Consistent
  <1>b. /\ op = Idle <=> op.pc = "idle"
        /\ op # Idle => op \in Busy
    BY <1>0, OpCases
  <1> SUFFICES /\ KeyLinksAgree' /\ TagLinksAgree' /\ EntriesReachable'
               /\ KeyLinked' /\ InFlight'
    BY <1>0 DEF IInv, Consistent
  <1>1. CASE ZoneRefused
    BY <1>a, <1>1 DEF ZoneRefused, links, KeyLinksAgree, TagLinksAgree,
                      EntriesReachable, KeyLinked, InFlight
  <1>2. ASSUME NEW p \in Paths, NEW k \in KeyTexts, NEW ts \in TagLists,
               UpsertBegin(p, k, ts)
        PROVE  /\ KeyLinksAgree' /\ TagLinksAgree' /\ EntriesReachable'
               /\ KeyLinked' /\ InFlight'
    <2>1. /\ op = Idle /\ op' # Idle
          /\ op'.path = p /\ op'.pc = "alloc" /\ op'.i = 1
      BY <1>2 DEF UpsertBegin, Upserting, Idle
    <2>2. CASE p \in files
      <3>1. /\ KeyLinksAgree' /\ TagLinksAgree' /\ EntriesReachable'
            /\ files' = files \ {p}
            /\ \A q \in Paths \ {p} : file'[q] = file[q]
        BY <1>0, <1>a, <1>2, <2>2, RemoveFileConsistent DEF UpsertBegin
      <3>2. KeyLinked'
        BY <1>0, <1>a, <2>1, <3>1 DEF KeyLinked, TypeOK
      <3>3. InFlight'
        BY <2>1, <3>1 DEF InFlight
      <3> QED  BY <3>1, <3>2, <3>3
    <2>3. CASE p \notin files
      BY <1>a, <1>2, <2>1, <2>3 DEF UpsertBegin, links, KeyLinksAgree,
         TagLinksAgree, EntriesReachable, KeyLinked, InFlight
    <2> QED  BY <2>2, <2>3
  <1>3. CASE UpsertAlloc
    <2>1. /\ op # Idle /\ op \in Busy /\ op.path \in Paths
          /\ op.path \notin files /\ op.i = 1 /\ op.key \in KeyTexts
      BY <1>3, <1>a, <1>b DEF UpsertAlloc, InFlight, Idle, Busy
    <2>2. CASE alloc_failures' = alloc_failures
      <3>1. /\ files' = files \cup {op.path}
            /\ file' = [file EXCEPT ![op.path] = NewFile(op.key)]
            /\ op' = [op EXCEPT !.pc = "key"]
        BY <1>0, <1>3, <2>2 DEF UpsertAlloc, AllocFails, TypeOK
      <3>2. /\ file'[op.path] = NewFile(op.key)
            /\ \A q \in Paths \ {op.path} : file'[q] = file[q]
            /\ op'.path = op.path /\ op'.key = op.key /\ op'.pc = "key"
            /\ op'.i = 1 /\ op' # Idle
        BY <1>0, <2>1, <3>1 DEF TypeOK, Busy, Idle
      <3>3. KeyLinksAgree'
        BY <1>0, <1>a, <1>3, <2>1, <3>1, <3>2
           DEF KeyLinksAgree, NewFile, UpsertAlloc, links, TypeOK
      <3>4. TagLinksAgree'
        BY <1>0, <1>a, <1>3, <2>1, <3>1, <3>2
           DEF TagLinksAgree, NewFile, UpsertAlloc, links, TypeOK
      <3>5. EntriesReachable'
        BY <1>a, <1>3 DEF EntriesReachable, UpsertAlloc, links
      <3>6. KeyLinked'
        BY <1>0, <1>a, <2>1, <3>1, <3>2 DEF KeyLinked, TypeOK
      <3>7. InFlight'
        BY <2>1, <3>1, <3>2 DEF InFlight, NewFile
      <3> QED  BY <3>3, <3>4, <3>5, <3>6, <3>7
    <2>3. CASE alloc_failures' # alloc_failures
      <3>1. op' = Idle /\ UNCHANGED <<files, file, links>>
        BY <1>3, <2>3 DEF UpsertAlloc
      <3> QED
        BY <1>a, <2>1, <3>1 DEF links, KeyLinksAgree, TagLinksAgree,
           EntriesReachable, KeyLinked, InFlight
    <2> QED  BY <2>2, <2>3
  <1>4. CASE LinkExactKey
    <2>1. /\ op # Idle /\ op \in Busy /\ op.path \in Paths
          /\ op.path \in files /\ op.i = 1 /\ op.key \in KeyTexts
          /\ file[op.path].key = op.key /\ file[op.path].key_entry = NoKey
          /\ file[op.path].members = {} /\ op.pc = "key"
          /\ op.tags \in TagLists
      BY <1>4, <1>a, <1>b DEF LinkExactKey, InFlight, Idle, Busy
    <2>2. CASE op' = [op EXCEPT !.pc = "rollback"]
      <3>1. UNCHANGED <<files, file, links>>
        BY <1>4, <2>1, <2>2 DEF LinkExactKey, links, Busy
      <3>2. /\ op' # Idle /\ op'.path = op.path /\ op'.key = op.key
            /\ op'.pc = "rollback"
        BY <2>1, <2>2 DEF Busy, Idle
      <3> QED
        BY <1>a, <2>1, <3>1, <3>2 DEF links, KeyLinksAgree, TagLinksAgree,
           EntriesReachable, KeyLinked, InFlight
    <2>3. CASE op' = [op EXCEPT !.pc = "tags"]
      <3>1. /\ op' # Idle /\ op'.path = op.path /\ op'.key = op.key
            /\ op'.pc = "tags" /\ op'.i = 1 /\ op'.tags = op.tags
        BY <2>1, <2>3 DEF Busy, Idle
      <3>2. {op.tags[j] : j \in 1..(1 - 1)} = {}
        OBVIOUS
      <3>3. Len(op.tags) \in Nat
        BY <2>1
      <3>4. CASE op.key = NoKey
        <4>1. UNCHANGED <<files, file, links>>
          BY <1>4, <2>3, <3>4 DEF LinkExactKey, links
        <4> QED
          BY <1>a, <2>1, <3>1, <3>2, <3>3, <3>4, <4>1 DEF links,
             KeyLinksAgree, TagLinksAgree, EntriesReachable, KeyLinked, InFlight
      <3>5. CASE op.key # NoKey
        <4>1. /\ keyIndex' = keyIndex \cup {op.key}
              /\ keyFiles' = [keyFiles EXCEPT ![op.key] = @ \cup {op.path}]
              /\ file' = [file EXCEPT ![op.path].key_entry = op.key]
              /\ UNCHANGED <<files, tagIndex, tagFiles>>
          BY <1>4, <2>1, <2>3, <3>1, <3>5 DEF LinkExactKey, Busy
        <4>2. op.key \in Keys
          BY <2>1, <3>5 DEF KeyTexts
        <4>3. /\ file'[op.path].key_entry = op.key
              /\ file'[op.path].key = op.key
              /\ file'[op.path].members = {}
              /\ \A q \in Paths \ {op.path} : file'[q] = file[q]
          BY <1>0, <2>1, <4>1 DEF TypeOK, Files
        <4>4. /\ keyFiles'[op.key] = keyFiles[op.key] \cup {op.path}
              /\ \A k \in Keys \ {op.key} : keyFiles'[k] = keyFiles[k]
          BY <1>0, <4>1, <4>2 DEF TypeOK
        <4>5. KeyLinksAgree'
          BY <1>a, <2>1, <3>5, <4>1, <4>2, <4>3, <4>4 DEF KeyLinksAgree
        <4>6. TagLinksAgree'
          BY <1>a, <2>1, <4>1, <4>3 DEF TagLinksAgree
        <4>7. EntriesReachable'
          BY <1>a, <4>1, <4>2, <4>4 DEF EntriesReachable
        <4>8. KeyLinked'
          BY <1>0, <1>a, <3>1, <4>1, <4>3 DEF KeyLinked, TypeOK
        <4>9. InFlight'
          BY <2>1, <3>1, <3>2, <3>3, <4>1, <4>3 DEF InFlight
        <4> QED  BY <4>5, <4>6, <4>7, <4>8, <4>9
      <3> QED  BY <3>4, <3>5
    <2> QED  BY <1>4, <2>2, <2>3 DEF LinkExactKey
  <1>5. CASE LinkTag
    <2> DEFINE t == op.tags[op.i]
    <2>1. /\ op # Idle /\ op \in Busy /\ op.path \in Paths
          /\ op.path \in files /\ op.pc = "tags" /\ op.tags \in TagLists
          /\ op.i \in Nat \ {0} /\ op.i <= Len(op.tags)
          /\ file[op.path].key = op.key /\ file[op.path].key_entry = op.key
          /\ file[op.path].members = {op.tags[j] : j \in 1..(op.i - 1)}
      BY <1>5, <1>a, <1>b DEF LinkTag, InFlight, Idle, Busy
    <2>2. t \in Tags
      BY <2>1
    <2>3. CASE op' = [op EXCEPT !.pc = "rollback"]
      <3>1. /\ op' # Idle /\ op'.path = op.path /\ op'.key = op.key
            /\ op'.pc = "rollback"
        BY <2>1, <2>3 DEF Busy, Idle
      <3>2. /\ UNCHANGED <<files, file, keyIndex, keyFiles, tagFiles>>
            /\ tagIndex \subseteq tagIndex'
        BY <1>5, <2>1, <3>1 DEF LinkTag, Busy
      <3> QED
        BY <1>a, <2>1, <3>1, <3>2 DEF KeyLinksAgree, TagLinksAgree,
           EntriesReachable, KeyLinked, InFlight
    <2>4. CASE op' = [op EXCEPT !.i = @ + 1]
      <3>1. /\ op' # Idle /\ op'.path = op.path /\ op'.key = op.key
            /\ op'.pc = "tags" /\ op'.i = op.i + 1 /\ op'.tags = op.tags
        BY <2>1, <2>4 DEF Busy, Idle
      <3>2. /\ tagIndex' = tagIndex \cup {t}
            /\ tagFiles' = [tagFiles EXCEPT ![t] = @ \cup {op.path}]
            /\ file' = [file EXCEPT ![op.path].members = @ \cup {t}]
            /\ UNCHANGED <<files, keyIndex, keyFiles>>
        BY <1>5, <2>1, <3>1 DEF LinkTag, Busy
      <3>3. /\ file'[op.path].key_entry = op.key
            /\ file'[op.path].key = op.key
            /\ file'[op.path].members = file[op.path].members \cup {t}
            /\ \A q \in Paths \ {op.path} : file'[q] = file[q]
        BY <1>0, <2>1, <3>2 DEF TypeOK, Files
      <3>4. /\ tagFiles'[t] = tagFiles[t] \cup {op.path}
            /\ \A u \in Tags \ {t} : tagFiles'[u] = tagFiles[u]
        BY <1>0, <2>2, <3>2 DEF TypeOK
      <3>5. KeyLinksAgree'
        BY <1>a, <2>1, <3>2, <3>3 DEF KeyLinksAgree
      <3>6. TagLinksAgree'
        BY <1>a, <2>1, <2>2, <3>2, <3>3, <3>4 DEF TagLinksAgree
      <3>7. EntriesReachable'
        BY <1>a, <2>2, <3>2, <3>4 DEF EntriesReachable
      <3>8. KeyLinked'
        BY <1>0, <1>a, <3>1, <3>2, <3>3 DEF KeyLinked, TypeOK
      <3>9. file'[op.path].members = {op.tags[j] : j \in 1..((op.i + 1) - 1)}
        BY <2>1, <3>3
      <3>10. op.i + 1 <= Len(op.tags) + 1
        BY <2>1
      <3>11. InFlight'
        <4>1. /\ op'.path \in files' /\ op'.pc = "tags"
              /\ file'[op'.path].key = op'.key
              /\ file'[op'.path].key_entry = op'.key
              /\ op'.i <= Len(op'.tags) + 1
          BY <2>1, <3>1, <3>2, <3>3, <3>10
        <4>2. file'[op'.path].members = {op'.tags[j] : j \in 1..(op'.i - 1)}
          BY ONLY <3>1, <3>9, Zenon
        <4> QED  BY <4>1, <4>2, Zenon DEF InFlight
      <3> QED  BY <3>5, <3>6, <3>7, <3>8, <3>11
    <2> QED  BY <1>5, <2>3, <2>4 DEF LinkTag
  <1>6. CASE Rollback
    <2>1. /\ op # Idle /\ op.path \in Paths /\ op.path \in files
          /\ op' = Idle /\ RemoveFile(op.path)
      BY <1>6, <1>a, <1>b DEF Rollback, InFlight, Idle, Busy
    <2>2. /\ KeyLinksAgree' /\ TagLinksAgree' /\ EntriesReachable'
          /\ files' = files \ {op.path}
          /\ \A q \in Paths \ {op.path} : file'[q] = file[q]
      BY <1>0, <1>a, <2>1, RemoveFileConsistent
    <2>3. KeyLinked' /\ InFlight'
      BY <1>0, <1>a, <2>1, <2>2 DEF KeyLinked, InFlight, TypeOK
    <2> QED  BY <2>2, <2>3
  <1>7. ASSUME NEW now \in Times, UpsertDone(now)
        PROVE  /\ KeyLinksAgree' /\ TagLinksAgree' /\ EntriesReachable'
               /\ KeyLinked' /\ InFlight'
    <2>1. /\ op # Idle /\ op' = Idle
          /\ file[op.path].key = op.key /\ file[op.path].key_entry = op.key
      BY <1>7, <1>a, <1>b DEF UpsertDone, InFlight, Idle
    <2> QED
      BY <1>7, <1>a, <2>1 DEF UpsertDone, links, KeyLinksAgree, TagLinksAgree,
         EntriesReachable, KeyLinked, InFlight
  <1>8. ASSUME NEW p \in Paths, NEW now \in Times, DeleteFile(p, now)
        PROVE  /\ KeyLinksAgree' /\ TagLinksAgree' /\ EntriesReachable'
               /\ KeyLinked' /\ InFlight'
    <2>1. op = Idle /\ op' = Idle /\ p \in files /\ RemoveFile(p)
      BY <1>8 DEF DeleteFile
    <2>2. /\ KeyLinksAgree' /\ TagLinksAgree' /\ EntriesReachable'
          /\ files' = files \ {p}
          /\ \A q \in Paths \ {p} : file'[q] = file[q]
      BY <1>0, <1>a, <2>1, RemoveFileConsistent
    <2>3. KeyLinked' /\ InFlight'
      BY <1>0, <1>a, <2>1, <2>2 DEF KeyLinked, InFlight, TypeOK
    <2> QED  BY <2>2, <2>3
  <1>9. ASSUME NEW now \in Times, SetZoneState(now)
        PROVE  /\ KeyLinksAgree' /\ TagLinksAgree' /\ EntriesReachable'
               /\ KeyLinked' /\ InFlight'
    BY <1>9, <1>a DEF SetZoneState, links, KeyLinksAgree, TagLinksAgree,
       EntriesReachable, KeyLinked, InFlight
  <1>10. CASE UNCHANGED vars
    BY <1>10, <1>a DEF vars, KeyLinksAgree, TagLinksAgree, EntriesReachable,
       KeyLinked, InFlight
  <1> QED
    BY <1>1, <1>2, <1>3, <1>4, <1>5, <1>6, <1>7, <1>8, <1>9, <1>10 DEF Next

LEMMA IInvAlways == Spec => []IInv
  BY InitIInv, NextIInv, PTL DEF Spec

(* path_index, key_index and tag_index describe the same files at every     *)
(* step of upsert, delete and rollback, whichever allocations fail.         *)
THEOREM ConsistentAlways == Spec => []Consistent
  <1>1. IInv => Consistent
    BY DEF IInv
  <1> QED  BY <1>1, IInvAlways, PTL

-----------------------------------------------------------------------------
(* The collect operations of a consistent, idle store return exactly the    *)
(* paths of the map: a purge by tag, by key or by prefix misses no indexed  *)
(* file and reaches no other.                                               *)
LEMMA CollectFromIInv == IInv => CollectExact
  <1> SUFFICES ASSUME IInv, op = Idle
               PROVE  /\ \A ts \in SUBSET Tags : CollectByTags(ts) =
                            {p \in Paths : Index[p].tags \cap ts # {}}
                      /\ \A k \in Keys : CollectByExactKey(k) =
                            {p \in Paths : Index[p].present /\ Index[p].key = k}
                      /\ \A x \in Prefixes : CollectByKeyPrefix(x) =
                            UNION {CollectByExactKey(k) : k \in KeysWithPrefix[x]}
    BY DEF CollectExact
  <1>0. /\ TypeOK /\ KeyLinksAgree /\ TagLinksAgree /\ EntriesReachable
        /\ \A p \in files : file[p].key_entry = file[p].key
    BY DEF IInv, Consistent, KeyLinked
  <1>1. \A p \in Paths :
          /\ Index[p].present <=> p \in files
          /\ p \in files => /\ Index[p].key = file[p].key
                            /\ Index[p].tags = file[p].members
          /\ p \notin files => Index[p].tags = {}
    BY DEF Index
  <1>2. ASSUME NEW ts \in SUBSET Tags
        PROVE  CollectByTags(ts) = {p \in Paths : Index[p].tags \cap ts # {}}
    <2>1. CollectByTags(ts) \subseteq Paths
      BY <1>0 DEF CollectByTags, TypeOK
    <2>2. ASSUME NEW p \in Paths
          PROVE  p \in CollectByTags(ts) <=> Index[p].tags \cap ts # {}
      <3>1. p \in CollectByTags(ts) <=> \E t \in ts \cap tagIndex : p \in tagFiles[t]
        BY DEF CollectByTags
      <3>2. \A t \in ts : p \in tagFiles[t] => t \in tagIndex
        BY <1>0 DEF EntriesReachable
      <3>3. \A t \in ts : p \in tagFiles[t] <=> p \in files /\ t \in file[p].members
        BY <1>0 DEF TagLinksAgree
      <3> QED  BY <1>1, <3>1, <3>2, <3>3
    <2> QED  BY <2>1, <2>2
  <1>3. ASSUME NEW k \in Keys
        PROVE  CollectByExactKey(k) =
                 {p \in Paths : Index[p].present /\ Index[p].key = k}
    BY <1>0, <1>1 DEF CollectByExactKey, TypeOK, KeyLinksAgree, EntriesReachable
  <1>4. ASSUME NEW x \in Prefixes
        PROVE  CollectByKeyPrefix(x) =
                 UNION {CollectByExactKey(k) : k \in KeysWithPrefix[x]}
    <2>1. KeysWithPrefix[x] \subseteq Keys
      BY PrefixAssumption
    <2>2. \A p \in Paths : p \in CollectByKeyPrefix(x) <=>
            \E k \in KeysWithPrefix[x] : p \in CollectByExactKey(k)
      BY <1>0, <1>1, <1>3, <2>1 DEF CollectByKeyPrefix
    <2>3. /\ CollectByKeyPrefix(x) \subseteq Paths
          /\ \A k \in KeysWithPrefix[x] : CollectByExactKey(k) \subseteq Paths
      BY <1>0, <1>3, <2>1 DEF CollectByKeyPrefix, TypeOK
    <2> QED  BY <2>2, <2>3
  <1> QED  BY <1>2, <1>3, <1>4

THEOREM CollectsAreExact == Spec => []CollectExact
  BY CollectFromIInv, IInvAlways, PTL

(* normalize_zone_state always hands a reader a sane zone state. *)
LEMMA ReaderFromType == TypeOK => ReaderStateSane
  BY DEF TypeOK, ReaderStateSane, GetZoneState, Normalize, ZoneStates, ZeroState

(* However touches, completions and lagging clocks interleave, a reader is  *)
(* told "not complete" with zero timestamps, or two ordered non-zero ones.  *)
THEOREM ReadersSeeSaneState == Spec => []ReaderStateSane
  BY ReaderFromType, TypeCorrect, PTL

-----------------------------------------------------------------------------
(* Tag entries without files. *)

Orphans == {t \in tagIndex : tagFiles[t] = {}}

(* OrphanTagsCounted says nothing of an infinite set: finiteness goes along. *)
OrphansBounded == IsFiniteSet(Orphans) /\ Cardinality(Orphans) <= alloc_failures

LEMMA OrphansFewer ==
    ASSUME TypeOK, OrphansBounded, Orphans' \subseteq Orphans, alloc_failures' = alloc_failures
    PROVE  OrphansBounded'
  <1>1. /\ IsFiniteSet(Orphans') /\ Cardinality(Orphans') <= Cardinality(Orphans)
        /\ Cardinality(Orphans) \in Nat /\ Cardinality(Orphans') \in Nat
    BY FS_Subset, FS_CardinalityType DEF OrphansBounded
  <1> QED  BY <1>1 DEF OrphansBounded, TypeOK

(* A failed allocation leaves one more at most. *)
LEMMA OrphanPaid ==
    ASSUME TypeOK, OrphansBounded, NEW t, Orphans' \subseteq Orphans \cup {t},
           alloc_failures' = alloc_failures + 1
    PROVE  OrphansBounded'
  <1>1. /\ IsFiniteSet(Orphans \cup {t})
        /\ Cardinality(Orphans \cup {t}) <= Cardinality(Orphans) + 1
        /\ Cardinality(Orphans) \in Nat /\ Cardinality(Orphans \cup {t}) \in Nat
    <2>1. IsFiniteSet(Orphans)
      BY DEF OrphansBounded
    <2>2. /\ IsFiniteSet(Orphans \cup {t})
          /\ \/ Cardinality(Orphans \cup {t}) = Cardinality(Orphans)
             \/ Cardinality(Orphans \cup {t}) = Cardinality(Orphans) + 1
      BY <2>1, FS_AddElement
    <2>3. Cardinality(Orphans) \in Nat /\ Cardinality(Orphans \cup {t}) \in Nat
      BY <2>1, <2>2, FS_CardinalityType
    <2> QED  BY <2>2, <2>3
  <1>2. /\ IsFiniteSet(Orphans') /\ Cardinality(Orphans') <= Cardinality(Orphans \cup {t})
        /\ Cardinality(Orphans') \in Nat
    BY <1>1, FS_Subset, FS_CardinalityType
  <1> QED  BY <1>1, <1>2 DEF OrphansBounded, TypeOK

(* remove_file_locked frees the entries that it empties. *)
LEMMA RemoveFileOrphans ==
    ASSUME TypeOK, NEW p \in Paths, RemoveFile(p)
    PROVE  Orphans' \subseteq Orphans
  BY DEF RemoveFile, TypeOK, Orphans

LEMMA NextOrphans == TypeOK /\ OrphansBounded /\ [Next]_vars => OrphansBounded'
  <1> SUFFICES ASSUME TypeOK, OrphansBounded, [Next]_vars PROVE OrphansBounded'
    OBVIOUS
  <1>1. CASE ZoneRefused \/ UpsertAlloc \/ LinkExactKey
    <2>1. Orphans' = Orphans
      BY <1>1 DEF ZoneRefused, UpsertAlloc, LinkExactKey, links, Orphans
    <2>2. alloc_failures' = alloc_failures \/ alloc_failures' = alloc_failures + 1
      BY <1>1 DEF ZoneRefused, UpsertAlloc, LinkExactKey, AllocFails
    <2> QED  BY <2>1, <2>2, OrphansFewer, OrphanPaid
  <1>2. ASSUME NEW p \in Paths, NEW k \in KeyTexts, NEW ts \in TagLists,
               UpsertBegin(p, k, ts)
        PROVE  OrphansBounded'
    <2>1. Orphans' \subseteq Orphans
      BY <1>2, RemoveFileOrphans DEF UpsertBegin, links, Orphans
    <2> QED  BY <1>2, <2>1, OrphansFewer DEF UpsertBegin
  <1>3. CASE LinkTag
    <2>1. op \in Busy
      BY <1>3, OpCases DEF LinkTag
    <2>2. op.tags[op.i] \in Tags /\ op.path \in Paths
      BY <1>3, <2>1 DEF LinkTag, Busy
    <2>3. CASE alloc_failures' = alloc_failures
      <3>1. /\ tagIndex' = tagIndex \cup {op.tags[op.i]}
            /\ tagFiles' = [tagFiles EXCEPT ![op.tags[op.i]] = @ \cup {op.path}]
        BY <1>3, <2>3 DEF LinkTag, AllocFails, TypeOK
      <3>2. /\ tagFiles'[op.tags[op.i]] # {}
            /\ \A t \in Tags \ {op.tags[op.i]} : tagFiles'[t] = tagFiles[t]
        BY <2>2, <3>1 DEF TypeOK
      <3>3. Orphans' \subseteq Orphans
        BY <2>2, <3>1, <3>2 DEF Orphans, TypeOK
      <3> QED  BY <2>3, <3>3, OrphansFewer
    <2>4. CASE alloc_failures' = alloc_failures + 1
      <3>1. tagIndex' \subseteq tagIndex \cup {op.tags[op.i]} /\ tagFiles' = tagFiles
        BY <1>3, <2>4 DEF LinkTag, TypeOK
      <3>2. Orphans' \subseteq Orphans \cup {op.tags[op.i]}
        BY <3>1 DEF Orphans
      <3> QED  BY <2>4, <3>2, OrphanPaid
    <2> QED  BY <1>3, <2>3, <2>4 DEF LinkTag, AllocFails
  <1>4. CASE Rollback
    <2>1. op.path \in Paths
      BY <1>4, OpCases DEF Rollback, Busy
    <2> QED  BY <1>4, <2>1, RemoveFileOrphans, OrphansFewer DEF Rollback
  <1>5. ASSUME NEW p \in Paths, NEW now \in Times, DeleteFile(p, now)
        PROVE  OrphansBounded'
    BY <1>5, RemoveFileOrphans, OrphansFewer DEF DeleteFile
  <1>6. CASE \/ \E now \in Times : UpsertDone(now) \/ SetZoneState(now)
             \/ UNCHANGED vars
    <2>1. Orphans' = Orphans /\ alloc_failures' = alloc_failures
      BY <1>6 DEF UpsertDone, SetZoneState, links, vars, Orphans
    <2> QED  BY <2>1, OrphansFewer
  <1> QED  BY <1>1, <1>2, <1>3, <1>4, <1>5, <1>6 DEF Next

(* Tag entries that no file is in, which a member that cannot be allocated   *)
(* leaves behind in link_tags_locked, are no more than the failed            *)
(* allocations: nothing else leaks them, not a rollback, not a deletion.     *)
THEOREM OrphanTagsPaidFor == Spec => []OrphanTagsCounted
  <1>1. Init => OrphansBounded
    <2> SUFFICES ASSUME Init PROVE OrphansBounded
      OBVIOUS
    <2>1. Orphans = {} /\ alloc_failures = 0
      BY DEF Init, Orphans
    <2> QED  BY <2>1, FS_EmptySet DEF OrphansBounded
  <1>2. OrphansBounded => OrphanTagsCounted
    BY DEF OrphansBounded, OrphanTagsCounted, Orphans
  <1> QED  BY <1>1, <1>2, NextOrphans, TypeCorrect, PTL DEF Spec

-----------------------------------------------------------------------------
(* IndexStore implements IndexMap: the initial state maps to the empty map   *)
(* and, under the inductive invariant IInv, every step of the store maps to  *)
(* a step of the map or to none.                                             *)

(* What the map holds for a path, as a property of the path. *)
EntryOf(p) == [present |-> TRUE, key |-> file[p].key, tags |-> file[p].members]

(* No operation works on the path. *)
Free(p) == op = Idle \/ op.path # p

(* The map of a store, path by path. *)
LEMMA IndexAt ==
    ASSUME NEW p \in Paths
    PROVE  /\ p \in files /\ Free(p) => Index[p] = EntryOf(p)
           /\ ~(p \in files /\ Free(p)) => Index[p] = Map!Absent
  BY DEF Index, EntryOf, Free, Map!Absent

(* ... and the same of its successor. *)
LEMMA IndexNext ==
    ASSUME NEW p \in Paths
    PROVE  /\ p \in files' /\ Free(p)' => Index'[p] = EntryOf(p)'
           /\ ~(p \in files' /\ Free(p)') => Index'[p] = Map!Absent
  BY DEF Index, EntryOf, Free, Map!Absent

(* The map is a function of the paths in every state. *)
LEMMA IndexDomain ==
    /\ Index = [p \in Paths |-> Index[p]]
    /\ Index' = [p \in Paths |-> Index'[p]]
  BY DEF Index

(* Files other than q are where they were and as free as they were: the map  *)
(* has not changed outside q.                                                *)
LEMMA IndexOutside ==
    ASSUME NEW q \in Paths,
           \A p \in Paths \ {q} : /\ p \in files' <=> p \in files
                                  /\ file'[p] = file[p]
                                  /\ Free(p) /\ Free(p)'
    PROVE  \A p \in Paths \ {q} : Index'[p] = Index[p]
  <1> SUFFICES ASSUME NEW p \in Paths \ {q} PROVE Index'[p] = Index[p]
    OBVIOUS
  <1>1. EntryOf(p)' = EntryOf(p)
    BY DEF EntryOf
  <1>2. CASE p \in files
    BY <1>1, <1>2, IndexAt, IndexNext
  <1>3. CASE p \notin files
    BY <1>3, IndexAt, IndexNext
  <1> QED  BY <1>2, <1>3

(* A step of the operation that holds the mutex, which goes on working on    *)
(* its path, does not change the map: that path is absent before and after.  *)
LEMMA BusyKeepsIndex ==
    ASSUME op # Idle, op' # Idle, op.path \in Paths, op'.path = op.path,
           files' \cup {op.path} = files \cup {op.path},
           \A p \in Paths \ {op.path} : file'[p] = file[p]
    PROVE  Index' = Index
  <1>1. Index'[op.path] = Map!Absent /\ Index[op.path] = Map!Absent
    BY IndexAt, IndexNext DEF Free
  <1>2. \A p \in Paths \ {op.path} : Index'[p] = Index[p]
    <2>1. \A p \in Paths \ {op.path} : (p \in files' <=> p \in files)
      OBVIOUS
    <2> QED  BY <2>1, IndexOutside DEF Free
  <1> QED  BY <1>1, <1>2, IndexDomain

LEMMA InitRefines == Init => Map!Init
  BY DEF Init, Map!Init, Index, Request, Map!Absent, Map!NoReq

LEMMA StepRefines == IInv /\ [Next]_vars => [Map!Next]_(Map!vars)
  <1> SUFFICES ASSUME IInv, [Next]_vars
               PROVE  Map!Next \/ UNCHANGED Map!vars
    BY DEF Map!vars
  <1> USE OpCases DEF IInv
  <1>1. CASE ZoneRefused
    <2>1. Index' = Index
      BY <1>1 DEF ZoneRefused, Index
    <2>2. Map!Refuse
      BY <1>1, <2>1 DEF ZoneRefused, AllocFails, Request, Map!Refuse, Map!NoReq
    <2> QED  BY <2>2 DEF Map!Next
  <1>2. ASSUME NEW p \in Paths, NEW k \in KeyTexts, NEW ts \in TagLists,
               UpsertBegin(p, k, ts)
        PROVE  Map!Next
    <2>1. op = Idle /\ op' = Upserting("alloc", p, k, ts, 1)
      BY <1>2 DEF UpsertBegin
    <2>2. op' # Idle /\ op'.path = p
      BY <2>1 DEF Upserting, Idle
    <2>3. Index'[p] = Map!Absent
      BY <2>2, IndexNext DEF Free
    <2>4. \A q \in Paths \ {p} : Index'[q] = Index[q]
      <3>1. \A q \in Paths \ {p} : (q \in files' <=> q \in files) /\ file'[q] = file[q]
        BY <1>2 DEF UpsertBegin, RemoveFile, TypeOK
      <3>2. \A q \in Paths \ {p} : Free(q) /\ Free(q)'
        BY <2>1, <2>2 DEF Free
      <3> QED  BY <3>1, <3>2, IndexOutside
    <2>5. Index' = [Index EXCEPT ![p] = Map!Absent]
      BY <2>3, <2>4, IndexDomain
    <2>6. Request = <<>> /\ Request' = <<p, k, ts>>
      BY <2>1, <2>2 DEF Request, Upserting
    <2>7. Map!Begin(p, k, ts)
      BY <1>2, <2>5, <2>6 DEF UpsertBegin, Map!Begin, Map!NoReq
    <2> QED  BY <2>7 DEF Map!Next, KeyTexts
  <1>3. CASE UpsertAlloc
    <2>1. op \in Busy /\ op # Idle /\ op.path \in Paths /\ op.path \notin files
      BY <1>3 DEF UpsertAlloc, InFlight, Busy, Idle
    <2>2. CASE op' = [op EXCEPT !.pc = "key"]
      <3>1. op' # Idle /\ op'.path = op.path /\ Request' = Request
        BY <1>3, <2>1, <2>2 DEF UpsertAlloc, Request, Busy, Idle
      <3>2. Index' = Index
        BY <1>3, <2>1, <2>2, <3>1, BusyKeepsIndex DEF UpsertAlloc, TypeOK, AllocFails, Idle
      <3>3. alloc_failures' = alloc_failures
        BY <1>3, <2>1, <3>1 DEF UpsertAlloc
      <3> QED  BY <3>1, <3>2, <3>3 DEF Map!vars
    <2>3. CASE op' = Idle
      <3>1. Index' = Index
        BY <1>3, <2>1, <2>3 DEF UpsertAlloc, Index, Busy, Idle
      <3>2. alloc_failures' = alloc_failures + 1
        BY <1>3, <2>1, <2>3 DEF UpsertAlloc, AllocFails, Busy, Idle
      <3>3. Request # <<>> /\ Request' = <<>>
        BY <1>3, <2>1, <2>3 DEF UpsertAlloc, Request
      <3>4. Map!Abort
        BY <3>1, <3>2, <3>3 DEF Map!Abort, Map!NoReq
      <3> QED  BY <3>4 DEF Map!Next
    <2> QED  BY <1>3, <2>2, <2>3 DEF UpsertAlloc
  <1>4. CASE LinkExactKey
    <2>1. op \in Busy /\ op # Idle /\ op.path \in Paths
      BY <1>4 DEF LinkExactKey, Busy, Idle
    <2>2. op' # Idle /\ op'.path = op.path
      BY <1>4, <2>1 DEF LinkExactKey, Busy, Idle
    <2>3. Index' = Index
      BY <1>4, <2>1, <2>2, BusyKeepsIndex DEF LinkExactKey, TypeOK
    <2>4. CASE op' = [op EXCEPT !.pc = "tags"]
      <3>1. Request' = Request
        BY <1>4, <2>1, <2>2, <2>4 DEF LinkExactKey, Request, Busy
      <3>2. alloc_failures' = alloc_failures
        BY <1>4, <2>1, <2>4 DEF LinkExactKey, Busy
      <3> QED  BY <2>3, <3>1, <3>2 DEF Map!vars
    <2>5. CASE op' = [op EXCEPT !.pc = "rollback"] /\ AllocFails
      <3>1. Request # <<>> /\ Request' = <<>>
        BY <1>4, <2>1, <2>5 DEF LinkExactKey, Request, Busy
      <3>2. Map!Abort
        BY <2>3, <2>5, <3>1 DEF AllocFails, Map!Abort, Map!NoReq
      <3> QED  BY <3>2 DEF Map!Next
    <2> QED  BY <1>4, <2>4, <2>5 DEF LinkExactKey
  <1>5. CASE LinkTag
    <2>1. op \in Busy /\ op # Idle /\ op.path \in Paths
      BY <1>5 DEF LinkTag, Busy, Idle
    <2>2. op' # Idle /\ op'.path = op.path
      BY <1>5, <2>1 DEF LinkTag, Busy, Idle
    <2>3. Index' = Index
      BY <1>5, <2>1, <2>2, BusyKeepsIndex DEF LinkTag, TypeOK
    <2>4. CASE op' = [op EXCEPT !.i = @ + 1] /\ UNCHANGED alloc_failures
      <3>1. Request' = Request
        BY <1>5, <2>1, <2>2, <2>4 DEF LinkTag, Request, Busy
      <3> QED  BY <2>3, <2>4, <3>1 DEF Map!vars
    <2>5. CASE op' = [op EXCEPT !.pc = "rollback"] /\ AllocFails
      <3>1. Request # <<>> /\ Request' = <<>>
        BY <1>5, <2>1, <2>5 DEF LinkTag, Request, Busy
      <3>2. Map!Abort
        BY <2>3, <2>5, <3>1 DEF AllocFails, Map!Abort, Map!NoReq
      <3> QED  BY <3>2 DEF Map!Next
    <2> QED  BY <1>5, <2>4, <2>5 DEF LinkTag
  <1>6. CASE Rollback
    <2>1. op \in Busy /\ op # Idle /\ op.path \in Paths /\ op' = Idle
      BY <1>6 DEF Rollback, Busy, Idle
    <2>2. op.path \notin files'
      BY <1>6 DEF Rollback, RemoveFile
    <2>3. \A q \in Paths \ {op.path} :
             (q \in files' <=> q \in files) /\ file'[q] = file[q]
      BY <1>6, <2>1 DEF Rollback, RemoveFile, TypeOK
    <2>4. \A q \in Paths \ {op.path} : Index'[q] = Index[q]
      BY <2>1, <2>3, IndexOutside DEF Free
    <2>5. Index'[op.path] = Index[op.path]
      BY <2>1, <2>2, IndexAt, IndexNext DEF Free
    <2>6. Index' = Index
      BY <2>4, <2>5, IndexDomain
    <2>7. UNCHANGED Map!vars
      BY <1>6, <2>1, <2>6 DEF Rollback, Request, Map!vars
    <2> QED  BY <2>7
  <1>7. ASSUME NEW now \in Times, UpsertDone(now)
        PROVE  Map!Next
    <2>1. op \in Busy /\ op # Idle /\ op.path \in Paths /\ op' = Idle
      BY <1>7 DEF UpsertDone, Busy, Idle
    <2>2. /\ op.path \in files /\ file[op.path].key = op.key
          /\ file[op.path].members = {op.tags[j] : j \in 1..(op.i - 1)}
          /\ op.i <= Len(op.tags) + 1
      BY <1>7, <2>1 DEF UpsertDone, InFlight
    <2>3. op.tags \in Seq(Tags) /\ op.i \in Nat
      BY <2>1, TagListsAssumption DEF Busy
    <2>4. op.i = Len(op.tags) + 1
      BY <1>7, <2>2, <2>3 DEF UpsertDone
    <2>5. 1..(op.i - 1) = DOMAIN op.tags
      BY <2>3, <2>4
    <2>6. file[op.path].members = {op.tags[j] : j \in DOMAIN op.tags}
      BY <2>2, <2>5
    <2>7. EntryOf(op.path) = Map!Entry(op.key, op.tags)
      BY <2>2, <2>6 DEF EntryOf, Map!Entry
    <2>8. files' = files /\ file' = file
      BY <1>7 DEF UpsertDone
    <2>9. Index'[op.path] = Map!Entry(op.key, op.tags)
      BY <2>1, <2>2, <2>7, <2>8, IndexNext DEF Free, EntryOf
    <2>10. \A q \in Paths \ {op.path} : Index'[q] = Index[q]
      BY <2>1, <2>8, IndexOutside DEF Free
    <2>11. Request = <<op.path, op.key, op.tags>> /\ Request' = <<>>
      BY <1>7, <2>1 DEF UpsertDone, Request
    <2>12. Index' = [Index EXCEPT ![op.path] = Map!Entry(op.key, op.tags)]
      BY <2>9, <2>10, IndexDomain
    <2>13. Map!Commit
      BY <1>7, <2>11, <2>12 DEF UpsertDone, Map!Commit, Map!NoReq
    <2> QED  BY <2>13 DEF Map!Next
  <1>8. ASSUME NEW p \in Paths, NEW now \in Times, DeleteFile(p, now)
        PROVE  Map!Next
    <2>1. op = Idle /\ op' = Idle /\ p \in files /\ p \notin files'
      BY <1>8 DEF DeleteFile, RemoveFile
    <2>2. \A q \in Paths \ {p} : (q \in files' <=> q \in files) /\ file'[q] = file[q]
      BY <1>8 DEF DeleteFile, RemoveFile, TypeOK
    <2>3. \A q \in Paths \ {p} : Index'[q] = Index[q]
      BY <2>1, <2>2, IndexOutside DEF Free
    <2>4. Index'[p] = Map!Absent
      BY <2>1, IndexNext
    <2>5. Index' = [Index EXCEPT ![p] = Map!Absent]
      BY <2>3, <2>4, IndexDomain
    <2>6. Index[p].present
      BY <2>1 DEF Index
    <2>7. Request = <<>> /\ Request' = <<>>
      BY <2>1 DEF Request
    <2>8. Map!Drop(p)
      BY <1>8, <2>5, <2>6, <2>7 DEF DeleteFile, Map!Drop, Map!NoReq
    <2> QED  BY <2>8 DEF Map!Next
  <1>9. ASSUME NEW now \in Times, SetZoneState(now)
        PROVE  UNCHANGED Map!vars
    BY <1>9 DEF SetZoneState, Index, Request, Map!vars
  <1>10. CASE UNCHANGED vars
    BY <1>10 DEF vars, Index, Request, Map!vars
  <1> QED
    BY <1>1, <1>2, <1>3, <1>4, <1>5, <1>6, <1>7, <1>8, <1>9, <1>10 DEF Next

(* The store implements the map (ImplementsMap of the run on IndexStore).    *)
THEOREM StoreImplementsMap == Spec => ImplementsMap
  BY InitRefines, StepRefines, IInvAlways, PTL DEF Spec, ImplementsMap, Map!Spec

=============================================================================
