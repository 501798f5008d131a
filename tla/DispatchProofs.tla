--------------------------- MODULE DispatchProofs ---------------------------
(***************************************************************************)
(* Theorems about Dispatch, for every configuration and request and any    *)
(* number of entries.                                                      *)
(***************************************************************************)
EXTENDS Dispatch, FiniteSetTheorems, TLAPS

-----------------------------------------------------------------------------
(* Least and greatest elements. *)

LEMMA MinIsIn ==
    ASSUME NEW S \in SUBSET Nat, S # {}
    PROVE  Min(S) \in S /\ \A y \in S : Min(S) <= y
  <1>1. PICK x \in S : \A y \in S : ~(<<y, x>> \in OpToRel(<, Nat))
    BY NatLessThanWellFounded, WFMin, Zenon
  <1>2. \A y \in S : ~(y < x)
    BY <1>1 DEF OpToRel
  <1>3. \A y \in S : x <= y
    BY <1>2
  <1> QED  BY <1>3 DEF Min

LEMMA MaxIsIn ==
    ASSUME NEW b \in Nat, NEW S \in SUBSET (1..b), S # {}
    PROVE  Max(S) \in S /\ \A y \in S : y <= Max(S)
  <1> DEFINE T == {k \in Nat : \E x \in S : k = b - x}
  <1>1. \A x \in S : x \in Nat /\ x <= b /\ x >= 1
    OBVIOUS
  <1>2. \A y \in S : b - y \in T
    BY <1>1
  <1>3. T \in SUBSET Nat /\ T # {}
    BY <1>2
  <1>4. Min(T) \in T /\ \A y \in T : Min(T) <= y
    BY <1>3, MinIsIn
  <1>5. PICK x \in S : Min(T) = b - x
    BY <1>4
  <1>6. \A y \in S : y <= x
    BY <1>1, <1>2, <1>4, <1>5
  <1> QED  BY <1>6 DEF Max

-----------------------------------------------------------------------------
(* An `if' and the blocks it takes its handler from. *)

LEMMA ChainOf ==
    ASSUME NEW n \in Nat, n >= 1
    PROVE  /\ Chain(n) \subseteq 1..n /\ n \in Chain(n)
           /\ tree[n].kind # "if" => Chain(n) = {n}
           /\ n > 1 /\ tree[n].kind = "if" => Chain(n) = Chain(n - 1) \cup {n}
  <1>1. Chain(n) \subseteq 1..n /\ n \in Chain(n)
    BY DEF Chain
  <1>2. ASSUME tree[n].kind # "if" PROVE Chain(n) = {n}
    <2>1. \A i \in Chain(n) : ~(n \in (i + 1)..n)
      BY <1>2 DEF Chain
    <2>2. \A i \in Chain(n) : i = n
      BY <1>1, <2>1
    <2> QED  BY <1>1, <2>2
  <1>3. ASSUME n > 1, tree[n].kind = "if" PROVE Chain(n) = Chain(n - 1) \cup {n}
    <2>1. ASSUME NEW i \in 1..(n - 1)
          PROVE  /\ i \in 1..n /\ (i + 1)..n = ((i + 1)..(n - 1)) \cup {n}
      BY <1>3
    <2>2. \A i \in 1..(n - 1) : i \in Chain(n) <=> i \in Chain(n - 1)
      BY <1>3, <2>1 DEF Chain
    <2>3. /\ \A i \in Chain(n) : i = n \/ i \in 1..(n - 1)
          /\ \A i \in Chain(n - 1) : i \in 1..(n - 1)
      BY <1>1, <1>3 DEF Chain
    <2> QED  BY <1>1, <2>2, <2>3
  <1> QED  BY <1>1, <1>2, <1>3

LEMMA HandlerIn ==
    ASSUME NEW n \in Nat, n >= 1, NEW h
    PROVE  \/ ContentHandler(n, h) = None /\ \A i \in Chain(n) : h[i] = None
           \/ \E i \in Chain(n) : h[i] # None /\ ContentHandler(n, h) = h[i]
  <1> DEFINE S == {i \in Chain(n) : h[i] # None}
  <1>1. S \in SUBSET (1..n)
    BY ChainOf
  <1>2. CASE S = {}
    BY <1>2 DEF ContentHandler
  <1>3. CASE S # {}
    <2>1. Max(S) \in S
      BY <1>1, <1>3, MaxIsIn
    <2>2. ContentHandler(n, h) = h[Max(S)]
      BY <1>3 DEF ContentHandler
    <2> QED  BY <2>1, <2>2
  <1> QED  BY <1>2, <1>3

(* An `if' that sets no handler has the one of the block it is in. *)
LEMMA HandlerOf ==
    ASSUME NEW n \in Nat, n >= 1, tree[n].kind = "if" => n > 1, NEW h
    PROVE  ContentHandler(n, h) = IF tree[n].kind = "if" /\ h[n] = None
                                  THEN ContentHandler(n - 1, h) ELSE h[n]
  <1>1. CASE h[n] = None /\ tree[n].kind = "if"
    <2>1. {i \in Chain(n) : h[i] # None} = {i \in Chain(n - 1) : h[i] # None}
      BY <1>1, ChainOf
    <2> QED  BY <1>1, <2>1 DEF ContentHandler
  <1>2. CASE h[n] = None /\ tree[n].kind # "if"
    <2>1. {i \in Chain(n) : h[i] # None} = {}
      BY <1>2, ChainOf
    <2> QED  BY <1>2, <2>1 DEF ContentHandler
  <1>3. CASE h[n] # None
    <2> DEFINE S == {i \in Chain(n) : h[i] # None}
    <2>1. S \in SUBSET (1..n) /\ n \in S
      BY <1>3, ChainOf
    <2>2. Max(S) \in S /\ n <= Max(S)
      BY <2>1, MaxIsIn
    <2>3. Max(S) = n
      <3>1. Max(S) \in Nat /\ Max(S) <= n
        BY <2>1, <2>2
      <3> QED  BY <2>2, <3>1
    <2> QED  BY <1>3, <2>1, <2>3 DEF ContentHandler
  <1> QED  BY <1>1, <1>2, <1>3

(* Only the blocks up to b matter. *)
LEMMA HandlerUpTo ==
    ASSUME NEW b \in Nat, b >= 1, NEW h, NEW g, \A i \in 1..b : h[i] = g[i]
    PROVE  ContentHandler(b, h) = ContentHandler(b, g)
  <1> DEFINE S == {i \in Chain(b) : h[i] # None}
  <1>1. S = {i \in Chain(b) : g[i] # None} /\ S \in SUBSET (1..b)
    BY ChainOf
  <1>2. CASE S = {}
    BY <1>1, <1>2 DEF ContentHandler
  <1>3. CASE S # {}
    <2>1. Max(S) \in 1..b
      BY <1>1, <1>3, MaxIsIn
    <2> QED  BY <1>1, <1>3, <2>1 DEF ContentHandler
  <1> QED  BY <1>2, <1>3

LEMMA PassOf ==
    ASSUME NEW n \in Nat, n >= 1, tree[n].kind = "if" => n > 1, NEW p
    PROVE  HasPass(n, p) <=> \/ tree[n].content = p
                             \/ tree[n].kind = "if" /\ HasPass(n - 1, p)
  BY ChainOf DEF HasPass

-----------------------------------------------------------------------------
(* The configuration. *)

ConfInv ==
    /\ tree \in Trees /\ conf \in Seq(Range(conf)) /\ Len(conf) \in 1..Len(tree)
    /\ \A b \in DOMAIN conf : /\ conf[b].content \in {tree[b].content, Access}
                              /\ conf[b].original \notin Statuses
    /\ pc # "config" => /\ Len(conf) = Len(tree)
                        /\ req \in Requests /\ req.block \in 2..Len(tree)

(* The request itself, and what it asks for, stay from its arrival on. *)
Steady == UNCHANGED <<confVars, req>>

LEMMA InitConf == DispatchInit => ConfInv
  <1> SUFFICES ASSUME DispatchInit PROVE ConfInv
    OBVIOUS
  <1>1. tree \in Trees /\ conf = <<Parsed(tree[1])>> /\ pc = "config"
    BY DEF DispatchInit, Init
  <1>2. tree \in Seq(Range(tree)) /\ tree # <<>>
    BY <1>1, TreesAssumption
  <1>3. Len(tree) \in Nat /\ Len(tree) >= 1 /\ DOMAIN tree = 1..Len(tree)
    BY <1>2
  <1>4. /\ Len(conf) = 1 /\ DOMAIN conf = {1} /\ conf[1] = Parsed(tree[1])
        /\ Range(conf) = {Parsed(tree[1])} /\ conf \in Seq({Parsed(tree[1])})
    BY <1>1 DEF Range
  <1>5. conf[1].content = tree[1].content /\ conf[1].original = None
    <2>1. /\ Parsed(tree[1]).content = tree[1].content
          /\ Parsed(tree[1]).original = None
      BY DEF Parsed
    <2> QED  BY <1>4, <2>1
  <1> QED  BY <1>1, <1>3, <1>4, <1>5, HandlersAssumption DEF ConfInv

(* One more block has been merged. *)
LEMMA Grows ==
    ASSUME ConfInv, NEW c, conf' = Append(conf, c), Len(conf) + 1 <= Len(tree),
           UNCHANGED <<tree, req, pc>>,
           c.content \in {tree[Len(conf) + 1].content, Access}, c.original \notin Statuses
    PROVE  ConfInv'
  <1>1. /\ tree \in Trees /\ conf \in Seq(Range(conf)) /\ Len(conf) \in Nat /\ Len(conf) >= 1
        /\ DOMAIN conf = 1..Len(conf) /\ Len(tree) \in Nat
    BY DEF ConfInv
  <1>2. /\ conf \in Seq(Range(conf) \cup {c}) /\ Len(conf') = Len(conf) + 1
        /\ DOMAIN conf' = 1..(Len(conf) + 1) /\ conf'[Len(conf) + 1] = c
        /\ \A b \in DOMAIN conf : conf'[b] = conf[b]
    BY <1>1
  <1>3. conf' \in Seq(Range(conf'))
    <2>1. \A b \in 1..Len(conf') : conf'[b] \in Range(conf')
      BY <1>2 DEF Range
    <2>2. conf' \in Seq(Range(conf) \cup {c})
      BY <1>1, <1>2
    <2> QED  BY <2>1, <2>2
  <1>4. pc = "config"
    BY <1>1 DEF ConfInv
  <1> QED  BY <1>1, <1>2, <1>3, <1>4 DEF ConfInv

LEMMA ConfigureFirst ==
    ASSUME ConfInv, Configure
    PROVE  pc = "config"
  <1>1. Len(conf) + 1 <= Len(tree)
    BY DEF Configure, MergeBlock, MergePlain, Skip, Attach, Refuse, Chosen, Block
  <1>2. PICK n \in Nat : n = Len(conf)
    BY DEF ConfInv
  <1>3. Len(conf) # Len(tree)
    BY ONLY <1>1, <1>2
  <1> QED  BY <1>3 DEF ConfInv

LEMMA NextConf == ConfInv /\ [Next]_vars => ConfInv' /\ (pc # "config" => Steady)
  <1> SUFFICES ASSUME ConfInv, [Next]_vars
               PROVE  ConfInv' /\ (pc # "config" => Steady)
    OBVIOUS
  <1>0. /\ tree \in Trees /\ Len(conf) \in Nat /\ Len(conf) >= 1 /\ Len(tree) \in Nat
        /\ Len(conf) <= Len(tree) /\ DOMAIN conf = 1..Len(conf)
        /\ DOMAIN tree = 1..Len(tree)
    BY DEF ConfInv
  <1>a. /\ pc # "config" => Len(conf) = Len(tree)
        /\ \A b \in DOMAIN conf : conf[b].original \notin Statuses
    BY DEF ConfInv
  <1>1. CASE Configure
    <2>1. UNCHANGED <<tree, req, pc>>
      BY <1>1 DEF Configure, MergeBlock, MergePlain, Skip, Attach, Refuse
    <2>2. Block <= Len(tree)
      BY <1>1 DEF Configure, MergeBlock, MergePlain, Skip, Attach, Refuse, Chosen
    <2>3. pc = "config"
      BY <1>1, ConfigureFirst
    <2>4. Parent.original \notin Statuses /\ tree[Block].content \notin Statuses
      <3>1. Len(conf) \in DOMAIN conf /\ Block \in DOMAIN tree
        BY <1>0, <2>2 DEF Block
      <3> QED  BY <1>0, <1>a, <3>1, HandlersAssumption DEF Parent
    <2>5. /\ Parsed(tree[Block]).content = tree[Block].content
          /\ Parsed(tree[Block]).original = None
      BY DEF Parsed
    <2>6. ASSUME NEW i
          PROVE  /\ MergedUpTo(Block, i).content = tree[Block].content
                 /\ MergedUpTo(Block, i).original = None
                 /\ Attached(Block, i).content = Access
                 /\ Attached(Block, i).original \notin Statuses
      BY <2>4 DEF MergedUpTo, Merged, Parsed, Attached, OriginalHandler
    <2>a. Len(conf) + 1 <= Len(tree)
      BY <2>2 DEF Block
    <2>7. CASE conf' = conf
      BY <2>1, <2>3, <2>7 DEF ConfInv
    <2>8. ASSUME NEW i, conf' = Append(conf, MergedUpTo(Block, i))
          PROVE  ConfInv'
      <3> DEFINE c == MergedUpTo(Block, i)
      <3>1. c.content \in {tree[Len(conf) + 1].content, Access} /\ c.original \notin Statuses
        BY <2>6, HandlersAssumption DEF Block
      <3>2. conf' = Append(conf, c)
        BY <2>8
      <3> HIDE DEF c
      <3> QED  BY <2>1, <2>a, <3>1, <3>2, Grows
    <2>9. ASSUME NEW i, conf' = Append(conf, Attached(Block, i))
          PROVE  ConfInv'
      BY <2>1, <2>a, <2>6, <2>9, Grows DEF Block
    <2>10. CASE MergePlain
      <3> DEFINE c == [MergedUpTo(Block, Len(Protocols)) EXCEPT
                   !.conf = IF Parent.conf = Unset THEN None ELSE Parent.conf,
                   !.protocol = Parent.protocol, !.handler = Parent.handler,
                   !.original = Parent.original]
      <3>1. c.content = tree[Block].content /\ c.original = Parent.original
        BY DEF MergedUpTo, Merged, Parsed
      <3>3. c.content \in {tree[Len(conf) + 1].content, Access} /\ c.original \notin Statuses
        BY <2>4, <3>1 DEF Block
      <3>4. Len(conf) + 1 <= Len(tree)
        BY <2>2 DEF Block
      <3>2. conf' = Append(conf, c)
        BY <2>10 DEF MergePlain
      <3> HIDE DEF c
      <3> QED  BY <2>1, <2>3, <3>2, <3>3, <3>4, Grows
    <2> QED
      BY <1>1, <2>3, <2>7, <2>8, <2>9, <2>10 DEF Configure, MergeBlock, Skip, Attach, Refuse
  <1>2. ASSUME NEW q \in Requests, Arrive(q)
        PROVE  ConfInv' /\ pc = "config"
    <2>1. /\ UNCHANGED <<tree, conf>> /\ pc = "config" /\ req' = q
          /\ Len(conf) = Len(tree) /\ q.block <= Len(tree)
          /\ tree[q.block].kind \in {"location", "if"}
      BY <1>2 DEF Arrive, confVars, Configured, Named
    <2>2. q.block \in Nat \ {0} /\ q.block # 1
      BY <1>0, <2>1, RequestsAssumption, TreesAssumption
    <2> QED  BY <1>0, <2>1, <2>2 DEF ConfInv
  <1>3. CASE Steady /\ pc # "config"
    BY <1>3 DEF Steady, confVars, ConfInv
  <1>4. CASE UNCHANGED vars
    BY <1>4 DEF vars, confVars, Steady, ConfInv
  <1>5. CASE ~Configure /\ ~(\E q \in Requests : Arrive(q)) /\ Next
    BY <1>3, <1>5
       DEF Next, Steady, PassOn, NoHandler, CacheGet, SpecialOutOfMemory, SpecialTags,
           SpecialOther, Special, TagFails, TagDone, TagDeclined, PathPurged, PathGone, PathFails,
           InPaths, PartialOnly, PartialIndexed, PartialPost, Walking, HandlerAnswers,
           HandlerExact, HandlerOutOfMemory, OpenAgain, Resume, ExactNotFound, ExactFails,
           FanoutDone, TagCollect, All, AllFails, PartialCollect, PartialWalk, PartialFails,
           Completion, CompletionFails, Exact, OwnAgain
  <1> QED  BY <1>1, <1>2, <1>4, <1>5

LEMMA Bound == MaxEntries \in Nat
  BY RequestsAssumption

USE Bound

-----------------------------------------------------------------------------
(* The accounts of a request. *)

Nothing == [m \in Modes |-> 0]

Early == {"config", "access", "special", "tag", "all", "partial"}

Uncounted == ctx.purged = Zero /\ metrics.purged = Zero /\ metrics.purges = Zero

Blank == Uncounted /\ did = Nothing

(* Paths of the index have been purged and not yet been counted. *)
Pending == did = Bump(Nothing, RequestMode, count)

(* The same, where an exact purge may have counted its own file once more. *)
Nearly == \E n \in Nat : did = Bump(Nothing, RequestMode, n) /\ (count = n \/ count = n + 1)

Counted(k) ==
    /\ metrics.purges = Bump(Zero, k, 1)
    /\ metrics.purged = ctx.purged
    /\ \E n, r \in Nat : /\ ctx.purged = Bump(Zero, k, r) /\ did = Bump(Nothing, k[2], n)
                         /\ r = n \/ (k[1] = "exact" /\ r = n + 1)

(* What dispatch_special has decided, and the handler will decide again. *)
Decided ==
    /\ pc \in {"tag", "tagPaths"} => HasTags
    /\ pc = "all" => ~HasTags /\ Cf.conf.all
    /\ pc \in {"partial", "prefixPaths", "thread"} => ~HasTags /\ ~Cf.conf.all /\ IsPartial
    /\ pc \in {"open", "aio", "fanoutOwn", "fanout"} => ~PurgedBefore

Accounts ==
    /\ pc \in {"tagPaths", "prefixPaths"} => Uncounted /\ Pending
    /\ pc \in {"thread", "open", "aio"} => Blank
    /\ pc = "handler" => IF PurgedBefore THEN Counted(Asked) ELSE Blank
    /\ pc = "fanoutOwn" => Pending
    /\ pc \in {"fanoutOwn", "fanout"} =>
          /\ ctx.purged = Zero /\ metrics.purged = Zero /\ Nearly
          /\ metrics.purges = IF RequestMode = "soft" THEN Zero ELSE Bump(Zero, <<"exact", "hard">>, 1)
    /\ pc = "done" /\ status = "200" => Counted(Asked)

(* Also when the tags could not be read. *)
Declines ==
    /\ pc \in Early => Blank /\ count = 0
    /\ pc = "done" /\ status \notin {"200", "500", "gone"} => Blank

-----------------------------------------------------------------------------
(* Sizes. *)

ExactBlank(f) == \A m \in Modes : f[<<"exact", m>>] = 0

Sizes ==
    /\ pc \in {"tagPaths", "prefixPaths"} =>
          /\ Uncounted /\ metrics.fanout = 0 /\ metrics.hits = 0
          /\ count + left <= MaxEntries /\ \A m \in Modes : did[m] <= count
    /\ pc = "thread" => Uncounted /\ did = Nothing
    /\ pc \in Early => metrics.fanout = 0 /\ metrics.hits = 0
    /\ pc \in {"handler", "open", "aio"} =>
          /\ ExactBlank(ctx.purged) /\ ExactBlank(metrics.purged) /\ ExactBlank(metrics.purges)
          /\ metrics.fanout = 0 /\ \A m \in Modes : did[m] <= MaxEntries
    /\ pc = "fanoutOwn" => left > 0
    /\ pc \in {"fanoutOwn", "fanout"} =>
          /\ ExactBlank(ctx.purged) /\ ExactBlank(metrics.purged)
          /\ metrics.purges[<<"exact", "soft">>] = 0
          /\ metrics.fanout = 0 /\ count + left <= MaxEntries + 1
          /\ \A m \in Modes : did[m] <= MaxEntries + count

Ledger == Declines /\ (~oom => Decided /\ Accounts)

(* The terms of a request do not change on its way. *)
LEMMA SameRequest ==
    ASSUME Steady
    PROVE  /\ Cf' = Cf /\ RequestMode' = RequestMode /\ ConfMode' = ConfMode /\ Asked' = Asked
           /\ (HasTags' <=> HasTags) /\ (IsPartial' <=> IsPartial)
           /\ (PurgedBefore' <=> PurgedBefore)
  <1>1. Cf' = Cf /\ req' = req
    BY DEF Steady, confVars, Cf
  <1>2. (HasTags' <=> HasTags) /\ (IsPartial' <=> IsPartial)
    BY <1>1 DEF HasTags, LocationEnabled, IsPartial
  <1>3. RequestMode' = RequestMode /\ ConfMode' = ConfMode
    BY <1>1 DEF RequestMode, ConfMode
  <1> QED  BY <1>1, <1>2, <1>3 DEF PurgedBefore, Asked

LEMMA Terms ==
    ASSUME ConfInv, pc # "config"
    PROVE  /\ RequestMode \in Modes /\ ConfMode \in Modes
           /\ HasTags => Asked = <<"tag", RequestMode>>
           /\ ~HasTags /\ Cf.conf.all => Asked = <<"all", ConfMode>>
           /\ ~HasTags /\ ~Cf.conf.all /\ IsPartial => Asked = <<"wildcard", RequestMode>>
           /\ ~PurgedBefore => Asked = <<"exact", RequestMode>>
  <1>1. RequestMode \in Modes /\ ConfMode \in Modes
    BY RequestsAssumption DEF ConfInv, RequestMode, ConfMode, Modes
  <1> QED  BY <1>1 DEF Asked, PurgedBefore

LEMMA Bumps ==
    /\ \A m \in Modes, n \in Nat :
          /\ Bump(Nothing, m, n)[m] = n
          /\ \A l \in Modes : l # m => Bump(Nothing, m, n)[l] = 0
          /\ Bump(Nothing, m, 0) = Nothing
          /\ \A j \in Nat : Bump(Bump(Nothing, m, n), m, j) = Bump(Nothing, m, n + j)
    /\ \A k \in Buckets : Bump(Zero, k, 0) = Zero
  BY DEF Bump, Nothing, Zero

LEMMA BumpType ==
    ASSUME NEW f \in Counts, NEW k \in Buckets, NEW n \in Nat, f[k] + n <= MaxEntries + 1
    PROVE  /\ Bump(f, k, n) \in Counts /\ Bump(f, k, n)[k] = f[k] + n
           /\ \A j \in Buckets : j # k => Bump(f, k, n)[j] = f[j]
  BY DEF Bump, Counts

(* All that a step does is to move on. *)
Kept == UNCHANGED <<ctx.purged, metrics, did, count>>

LEMMA KeptSame ==
    ASSUME Steady, Kept
    PROVE  /\ (Blank' <=> Blank) /\ (Uncounted' <=> Uncounted) /\ (Pending' <=> Pending)
           /\ (Nearly' <=> Nearly) /\ (Counted(Asked)' <=> Counted(Asked))
  <1>1. (Blank' <=> Blank) /\ (Uncounted' <=> Uncounted) /\ (Pending' <=> Pending)
    BY SameRequest DEF Kept, Blank, Uncounted, Pending
  <1>2. Nearly' <=> Nearly
    BY SameRequest DEF Kept, Nearly
  <1>3. Counted(Asked)' <=> Counted(Asked)
    BY SameRequest DEF Kept, Counted
  <1> QED  BY <1>1, <1>2, <1>3

LEMMA InitAccounts == DispatchInit => TypeOK /\ Declines /\ Sizes /\ Ledger
  <1> SUFFICES ASSUME DispatchInit PROVE TypeOK /\ Declines /\ Sizes /\ Ledger
    OBVIOUS
  <1>1. Blank /\ count = 0 /\ metrics.fanout = 0 /\ metrics.hits = 0 /\ pc = "config"
    BY DEF DispatchInit, Blank, Uncounted, Nothing
  <1>2. Zero \in Counts /\ Nothing \in [Modes -> 0..(2 * MaxEntries + 1)]
    BY DEF Counts, Zero, Nothing
  <1>3. TypeOK
    <2>1. ctx \in [purged : Counts, path : PurgePaths \cup {None}, reason : Reasons \cup {None}]
      BY <1>2 DEF DispatchInit
    <2>2. metrics \in [purges : Counts, purged : Counts, fanout : 0..1, hits : 0..1]
      BY <1>2 DEF DispatchInit
    <2>3. did \in [Modes -> 0..(2 * MaxEntries + 1)]
      BY <1>2 DEF DispatchInit, Nothing
    <2>4. cache \in Zones \cup {None} /\ oom \in BOOLEAN
      BY DEF DispatchInit
    <2>5. left \in 0..MaxEntries /\ count \in 0..(MaxEntries + 1)
      BY DEF DispatchInit
    <2> QED  BY <1>1, <2>1, <2>2, <2>3, <2>4, <2>5 DEF TypeOK
  <1> QED  BY <1>1, <1>3 DEF Declines, Sizes, Ledger, Decided, Accounts, Early

-----------------------------------------------------------------------------
(* What the steps do to the counters. *)

LEMMA CountsAPurge ==
    ASSUME TypeOK, NEW type, NEW m, NEW n, NEW path, CountPurge(type, m, n, path)
    PROVE  /\ ctx'.purged = Bump(ctx.purged, <<type, m>>, n)
           /\ ctx'.path = path /\ ctx'.reason = ctx.reason
           /\ metrics'.purged = Bump(metrics.purged, <<type, m>>, n)
           /\ metrics'.purges = Bump(metrics.purges, <<type, m>>, 1)
           /\ metrics'.fanout = metrics.fanout /\ metrics'.hits = metrics.hits
  BY DEF TypeOK, CountPurge

(* A step that ends a request without a purge has touched nothing before. *)
LEMMA Moves ==
    ASSUME TypeOK, ConfInv, Next
    PROVE  \/ /\ Kept /\ (pc' \in Early => pc \in Early)
              /\ pc' = "done" /\ status' \notin {"200", "500", "gone"} => pc \in Early
           \/ pc' \notin Early /\ (pc' = "done" => status' \in {"200", "500", "gone"})
  <1> USE DEF Early, Answer
  <1>1. CASE Configure \/ \E q \in Requests : Arrive(q)
    BY <1>1, ConfigureFirst DEF Configure, Arrive, Kept
  <1>2. CASE PassOn \/ NoHandler \/ CacheGet
    BY <1>2 DEF PassOn, NoHandler, CacheGet, Kept
  <1>3. CASE SpecialOutOfMemory \/ SpecialTags \/ SpecialOther
    BY <1>3 DEF SpecialOutOfMemory, SpecialTags, SpecialOther, Special, Kept
  <1>4. CASE \E reason \in {"index_not_ready", "zone_not_registered"} : TagDeclined(reason)
    BY <1>4 DEF TagDeclined, Kept, TypeOK
  <1>5. CASE TagFails \/ TagDone \/ \E n \in 0..MaxEntries : TagCollect(n)
    BY <1>5 DEF TagFails, TagDone, TagCollect
  <1>6. CASE PathPurged \/ PathGone \/ PathFails
    BY <1>6 DEF PathPurged, PathGone, PathFails, InPaths
  <1>7. CASE \E n \in 0..MaxEntries : All(n) \/ AllFails(n)
    BY <1>7 DEF All, AllFails
  <1>8. CASE \E n \in 0..MaxEntries : PartialCollect(n) \/ PartialWalk(n) \/ PartialFails(n)
    BY <1>8 DEF PartialCollect, PartialWalk, PartialFails
  <1>9. CASE \E n \in 0..MaxEntries : Completion(n)
    BY <1>9 DEF Completion
  <1>10. CASE \E n \in 0..MaxEntries : \E s \in {"500", "gone"} : CompletionFails(n, s)
    BY <1>10 DEF CompletionFails
  <1>11. CASE PartialOnly \/ PartialIndexed \/ PartialPost
    BY <1>11 DEF PartialOnly, PartialIndexed, PartialPost
  <1>12. CASE HandlerAnswers \/ HandlerExact \/ HandlerOutOfMemory \/ OpenAgain \/ Resume
    BY <1>12 DEF HandlerAnswers, HandlerExact, HandlerOutOfMemory, OpenAgain, Resume
  <1>13. CASE ExactNotFound \/ ExactFails \/ FanoutDone \/ \E n \in 0..MaxEntries : Exact(n)
    BY <1>13 DEF ExactNotFound, ExactFails, FanoutDone, Exact
  <1>14. CASE OwnAgain
    BY <1>14 DEF OwnAgain
  <1> QED
    BY <1>1, <1>2, <1>3, <1>4, <1>5, <1>6, <1>7, <1>8, <1>9, <1>10, <1>11, <1>12, <1>13, <1>14
       DEF Next

LEMMA NextDeclines == TypeOK /\ ConfInv /\ Declines /\ [Next]_vars => Declines'
  <1> SUFFICES ASSUME TypeOK, ConfInv, Declines, [Next]_vars PROVE Declines'
    OBVIOUS
  <1>1. CASE UNCHANGED vars
    BY <1>1 DEF vars, Declines, Blank, Uncounted
  <1>2. CASE Next
    <2>1. ASSUME Kept PROVE (Blank /\ count = 0) => (Blank /\ count = 0)'
      BY <2>1 DEF Kept, Blank, Uncounted
    <2> QED  BY <1>2, <2>1, Moves DEF Declines
  <1> QED  BY <1>1, <1>2

-----------------------------------------------------------------------------
(* Types and sizes. *)

Places == {"config", "access", "special", "tag", "tagPaths", "all", "partial",
           "prefixPaths", "thread", "handler", "open", "aio", "fanoutOwn", "fanout", "done"}

(* TypeOK, the records field by field. *)
LEMMA Fields ==
    /\ TypeOK =>
         /\ pc \in Places /\ left \in 0..MaxEntries /\ count \in 0..(MaxEntries + 1)
         /\ ctx.purged \in Counts /\ metrics.purged \in Counts /\ metrics.purges \in Counts
         /\ metrics.fanout \in 0..1 /\ metrics.hits \in 0..1
         /\ did \in [Modes -> 0..(2 * MaxEntries + 1)]
    /\ TypeOK /\ pc' \in Places /\ cache' = cache /\ oom' = oom =>
         (/\ left' \in 0..MaxEntries /\ count' \in 0..(MaxEntries + 1)
          /\ ctx' \in [purged : Counts, path : PurgePaths \cup {None}, reason : Reasons \cup {None}]
          /\ metrics' \in [purges : Counts, purged : Counts, fanout : 0..1, hits : 0..1]
          /\ did' \in [Modes -> 0..(2 * MaxEntries + 1)]
          => TypeOK')
  BY DEF TypeOK, Places

LEMMA FewerLeft ==
    ASSUME NEW max \in Nat, NEW c \in 0..(max + 1), NEW l \in 0..max, NEW k \in 0..l
    PROVE  /\ c + l <= max => c + k <= max
           /\ c + l <= max + 1 => c + k <= max + 1
  OBVIOUS

(* Steps that count nothing. *)
LEMMA QuietSizes ==
    ASSUME TypeOK, ConfInv, Declines, Sizes, [Next]_vars,
           UNCHANGED <<metrics, did, count>>, ctx'.purged = ctx.purged,
           TypeOK',
           \/ pc' = pc /\ left' \in 0..left /\ (pc = "fanoutOwn" => left' > 0)
           \/ pc' \in Early /\ pc \in Early
           \/ pc' = "tagPaths" /\ pc = "tag"
           \/ pc' = "prefixPaths" /\ pc = "partial"
           \/ pc' = "thread" /\ Walking
           \/ pc' = "handler" /\ pc = "special"
           \/ pc' \in {"handler", "open", "aio"} /\ pc \in {"handler", "open", "aio"}
           \/ pc' = "done"
    PROVE  Sizes'
  <1>0. /\ MaxEntries \in Nat /\ left \in 0..MaxEntries /\ count \in 0..(MaxEntries + 1)
        /\ left' \in 0..MaxEntries
    BY Fields DEF TypeOK
  <1>1. did \in [Modes -> 0..(2 * MaxEntries + 1)]
    BY Fields
  <1>2. (Uncounted' <=> Uncounted) /\ ExactBlank(Zero)
    BY DEF Uncounted, ExactBlank, Zero, Buckets, Types
  <1>3. CASE pc' = pc /\ left' \in 0..left /\ (pc = "fanoutOwn" => left' > 0)
    <2>1. /\ (count + left <= MaxEntries => count + left' <= MaxEntries)
          /\ (count + left <= MaxEntries + 1 => count + left' <= MaxEntries + 1)
      BY <1>0, <1>3, FewerLeft
    <2> QED  BY <1>2, <1>3, <2>1 DEF Sizes, ExactBlank, Early
  <1>4. CASE pc' \in Early /\ pc \in Early
    BY <1>4 DEF Sizes, Early
  <1>5. CASE (pc' = "tagPaths" /\ pc = "tag") \/ (pc' = "prefixPaths" /\ pc = "partial")
    <2>1. /\ Blank /\ count = 0 /\ metrics.fanout = 0 /\ metrics.hits = 0
      BY <1>5 DEF Sizes, Early, Declines
    <2>2. count + left' <= MaxEntries
      <3>1. left' \in Nat /\ left' <= MaxEntries
        BY <1>0
      <3>2. \A n \in Nat : 0 + n = n
        OBVIOUS
      <3> QED  BY <2>1, <3>1, <3>2
    <2>3. Uncounted' /\ \A m \in Modes : did[m] <= count
      BY <1>2, <2>1 DEF Blank, Nothing
    <2> QED  BY <1>5, <2>1, <2>2, <2>3 DEF Sizes, Early
  <1>6. CASE pc' = "thread" /\ Walking
    <2>1. did = Nothing
      BY <1>0, <1>1, <1>6 DEF Sizes, Walking, Nothing
    <2> QED  BY <1>2, <1>6, <2>1 DEF Sizes, Walking
  <1>7. CASE pc' = "handler" /\ pc = "special"
    BY <1>0, <1>2, <1>7 DEF Sizes, Early, Declines, Blank, Nothing, Uncounted
  <1>8. CASE pc' \in {"handler", "open", "aio"} /\ pc \in {"handler", "open", "aio"}
    BY <1>8 DEF Sizes, ExactBlank, Early
  <1>9. CASE pc' = "done"
    BY <1>9 DEF Sizes, Early
  <1> QED  BY <1>3, <1>4, <1>5, <1>6, <1>7, <1>8, <1>9

(* The first purge to be counted is not an exact one. *)
LEMMA CountsFirst ==
    ASSUME NEW type \in Types, NEW m \in Modes, NEW n \in 0..(MaxEntries + 1)
    PROVE  /\ Bump(Zero, <<type, m>>, n) \in Counts /\ Bump(Zero, <<type, m>>, 1) \in Counts
           /\ Zero \in Counts /\ ExactBlank(Zero)
           /\ type # "exact" => /\ ExactBlank(Bump(Zero, <<type, m>>, n))
                                /\ ExactBlank(Bump(Zero, <<type, m>>, 1))
  <1>1. <<type, m>> \in Buckets /\ \A l \in Modes : <<"exact", l>> \in Buckets
    BY DEF Buckets, Types
  <1>2. 1 \in 0..(MaxEntries + 1) /\ 0 \in 0..(MaxEntries + 1)
    OBVIOUS
  <1>3. ASSUME NEW j \in 0..(MaxEntries + 1)
        PROVE  /\ Bump(Zero, <<type, m>>, j) \in Counts
               /\ type # "exact" => ExactBlank(Bump(Zero, <<type, m>>, j))
    <2>1. 0 + j = j
      OBVIOUS
    <2>2. Bump(Zero, <<type, m>>, j) = [k \in Buckets |-> IF k = <<type, m>> THEN j ELSE 0]
      BY <1>1, <2>1 DEF Bump, Zero
    <2> QED  BY <1>1, <1>2, <2>2 DEF Counts, ExactBlank
  <1> QED  BY <1>1, <1>2, <1>3 DEF Zero, Counts, ExactBlank

LEMMA CountsTyped ==
    ASSUME TypeOK, Uncounted, NEW type \in Types, NEW m \in Modes, NEW n \in 0..(MaxEntries + 1),
           NEW path \in PurgePaths \cup {None, ctx.path}, CountPurge(type, m, n, path)
    PROVE  /\ ctx' \in [purged : Counts, path : PurgePaths \cup {None}, reason : Reasons \cup {None}]
           /\ metrics' \in [purges : Counts, purged : Counts, fanout : 0..1, hits : 0..1]
           /\ metrics'.fanout = metrics.fanout /\ metrics'.hits = metrics.hits
           /\ type # "exact" => /\ ExactBlank(ctx'.purged) /\ ExactBlank(metrics'.purged)
                                /\ ExactBlank(metrics'.purges)
  <1>1. /\ ctx' = [[ctx EXCEPT !.purged = Bump(Zero, <<type, m>>, n)] EXCEPT !.path = path]
        /\ metrics' = [[metrics EXCEPT !.purged = Bump(Zero, <<type, m>>, n)]
                          EXCEPT !.purges = Bump(Zero, <<type, m>>, 1)]
    BY DEF Uncounted, CountPurge, TypeOK
  <1>2. ctx.path \in PurgePaths \cup {None}
    BY DEF TypeOK
  <1>3. Bump(Zero, <<type, m>>, n) \in Counts /\ Bump(Zero, <<type, m>>, 1) \in Counts
    BY CountsFirst
  <1>4. /\ ctx' \in [purged : Counts, path : PurgePaths \cup {None}, reason : Reasons \cup {None}]
        /\ ctx'.purged = Bump(Zero, <<type, m>>, n)
    BY <1>1, <1>2, <1>3 DEF TypeOK
  <1>5. /\ metrics' \in [purges : Counts, purged : Counts, fanout : 0..1, hits : 0..1]
        /\ metrics'.fanout = metrics.fanout /\ metrics'.hits = metrics.hits
        /\ metrics'.purged = Bump(Zero, <<type, m>>, n)
        /\ metrics'.purges = Bump(Zero, <<type, m>>, 1)
    BY <1>1, <1>3 DEF TypeOK
  <1> QED  BY <1>4, <1>5, CountsFirst

LEMMA Disposed ==
    ASSUME TypeOK, NEW m \in Modes, NEW n \in 0..MaxEntries, NEW b \in Nat,
           \A l \in Modes : did[l] <= b, b + n <= 2 * MaxEntries + 1, Dispose(m, n)
    PROVE  did' \in [Modes -> 0..(2 * MaxEntries + 1)] /\ \A l \in Modes : did'[l] <= b + n
  <1>1. did \in [Modes -> 0..(2 * MaxEntries + 1)] /\ did' = [did EXCEPT ![m] = @ + n]
    BY DEF TypeOK, Dispose, Bump
  <1>2. ASSUME NEW l \in Modes
        PROVE  did'[l] \in 0..(2 * MaxEntries + 1) /\ did'[l] <= b + n
    <2>1. did[l] \in Nat /\ did[l] <= b /\ (did'[l] = did[l] \/ did'[l] = did[l] + n)
      BY <1>1
    <2> QED  BY <2>1
  <1> QED  BY <1>1, <1>2

LEMMA NextSizes == TypeOK /\ ConfInv /\ Declines /\ Sizes /\ [Next]_vars => TypeOK' /\ Sizes'
  <1> SUFFICES ASSUME TypeOK, ConfInv, Declines, Sizes, [Next]_vars PROVE TypeOK' /\ Sizes'
    OBVIOUS
  <1>0. /\ left \in 0..MaxEntries /\ count \in 0..(MaxEntries + 1)
        /\ left \in Nat /\ count \in Nat
    BY Fields
  <1>a. /\ ctx.purged \in Counts /\ metrics.purged \in Counts /\ metrics.purges \in Counts
        /\ metrics.fanout \in 0..1 /\ metrics.hits \in 0..1
        /\ did \in [Modes -> 0..(2 * MaxEntries + 1)]
    BY Fields
  <1>b. ASSUME pc # "config"
        PROVE  RequestMode \in Modes /\ ConfMode \in Modes /\ Steady
    BY <1>b, Terms, NextConf
  <1>1. CASE UNCHANGED vars
    BY <1>1 DEF vars, TypeOK, Sizes, Uncounted, Early, ExactBlank
  <1>2. CASE Configure \/ \E q \in Requests : Arrive(q)
    <2>1. UNCHANGED <<cache, left, count, ctx, metrics, did, oom>> /\ pc' \in {"config", "access"}
      BY <1>2, ConfigureFirst DEF Configure, Arrive
    <2>2. pc = "config"
      BY <1>2, ConfigureFirst DEF Arrive
    <2>3. TypeOK'
      BY <2>1 DEF TypeOK
    <2> QED  BY <2>1, <2>2, <2>3, QuietSizes DEF Early
  <1>3. CASE PassOn \/ NoHandler \/ CacheGet
    <2>1. /\ UNCHANGED <<left, count, ctx, metrics, did, oom>> /\ pc' \in {"special", "done"}
          /\ cache' \in Zones \cup {cache} /\ pc = "access"
      BY <1>3 DEF PassOn, NoHandler, CacheGet, Answer
    <2>2. TypeOK'
      BY <2>1 DEF TypeOK
    <2> QED  BY <2>1, <2>2, QuietSizes DEF Early
  <1>4. CASE SpecialOutOfMemory \/ SpecialTags \/ SpecialOther
    <2>1. /\ UNCHANGED <<left, count, ctx, metrics, did, cache>> /\ oom' \in {TRUE, oom}
          /\ pc' \in {"tag", "all", "partial", "handler"} /\ pc = "special"
      BY <1>4 DEF SpecialOutOfMemory, SpecialTags, SpecialOther, Special
    <2>2. TypeOK'
      BY <2>1 DEF TypeOK
    <2> QED  BY <2>1, <2>2, QuietSizes DEF Early
  <1>5. CASE \E reason \in {"index_not_ready", "zone_not_registered"} : TagDeclined(reason)
    <2>1. PICK reason \in Reasons : TagDeclined(reason)
      BY <1>5 DEF Reasons
    <2>2. /\ UNCHANGED <<left, count, metrics, did, oom, cache>> /\ pc' = "done" /\ pc = "tag"
          /\ ctx' = [ctx EXCEPT !.reason = reason]
      BY <2>1 DEF TagDeclined, Answer
    <2>3. TypeOK' /\ ctx'.purged = ctx.purged
      BY <2>2 DEF TypeOK
    <2> QED  BY <2>2, <2>3, QuietSizes
  <1>6. CASE TagFails \/ PathFails \/ PartialOnly \/ HandlerAnswers \/ ExactFails
    <2>1. /\ UNCHANGED <<left, count, ctx, metrics, did, oom, cache>> /\ pc' = "done"
      BY <1>6 DEF TagFails, PathFails, PartialOnly, HandlerAnswers, ExactFails, Answer
    <2>2. TypeOK'
      BY <2>1 DEF TypeOK
    <2> QED  BY <2>1, <2>2, QuietSizes
  <1>7. CASE \E n \in 0..MaxEntries : TagCollect(n)
    <2>1. /\ UNCHANGED <<count, ctx, metrics, did, oom, cache>> /\ pc = "tag"
          /\ left' \in 0..MaxEntries /\ pc' = "tagPaths"
      BY <1>7 DEF TagCollect
    <2>2. TypeOK'
      BY <2>1 DEF TypeOK
    <2> QED  BY <2>1, <2>2, QuietSizes
  <1>8. CASE \E n \in 0..MaxEntries : PartialCollect(n)
    <2>1. /\ UNCHANGED <<count, metrics, did, oom, cache>> /\ pc = "partial"
          /\ left' \in 0..MaxEntries /\ pc' = "prefixPaths" /\ ctx' = KeyIndexReason
      BY <1>8 DEF PartialCollect
    <2>2. TypeOK' /\ ctx'.purged = ctx.purged
      BY <2>1 DEF TypeOK, KeyIndexReason, Reasons
    <2> QED  BY <2>1, <2>2, QuietSizes
  <1>9. CASE PathGone
    <2>1. /\ UNCHANGED <<count, ctx, metrics, did, oom, cache, pc>>
          /\ left' = left - 1 /\ left > 0 /\ (pc = "fanoutOwn" => left > 1)
      BY <1>0, <1>9 DEF PathGone, InPaths
    <2>2. left' \in 0..left /\ left' \in 0..MaxEntries /\ (pc = "fanoutOwn" => left' > 0)
      BY <1>0, <2>1
    <2>3. TypeOK'
      BY <2>1, <2>2 DEF TypeOK
    <2> QED  BY <2>1, <2>2, <2>3, QuietSizes
  <1>10. CASE PartialPost
    <2>1. /\ UNCHANGED <<count, metrics, did, oom, cache, left>> /\ Walking /\ pc' = "thread"
          /\ ctx' = [ctx EXCEPT !.path = "filesystem-fallback"]
      BY <1>10 DEF PartialPost
    <2>2. TypeOK' /\ ctx'.purged = ctx.purged
      BY <2>1 DEF TypeOK, PurgePaths
    <2> QED  BY <2>1, <2>2, QuietSizes
  <1>11. CASE HandlerExact \/ HandlerOutOfMemory \/ OpenAgain \/ Resume
    <2>1. /\ UNCHANGED <<count, ctx, metrics, did, cache, left>> /\ oom' \in {TRUE, oom}
          /\ pc \in {"handler", "open", "aio"} /\ pc' \in {"handler", "open", "aio", "done"}
      BY <1>11 DEF HandlerExact, HandlerOutOfMemory, OpenAgain, Resume, Answer
    <2>2. TypeOK'
      BY <2>1 DEF TypeOK
    <2> QED  BY <2>1, <2>2, QuietSizes
  <1>12. CASE PathPurged
    <2>1. /\ UNCHANGED <<ctx, metrics, cache, oom, pc>> /\ Dispose(RequestMode, 1)
          /\ left' = left - 1 /\ count' = count + 1 /\ left > 0
          /\ pc \in {"tagPaths", "prefixPaths", "fanoutOwn", "fanout"}
          /\ (pc = "fanoutOwn" => left > 1)
      BY <1>0, <1>12 DEF PathPurged, InPaths
    <2>2. /\ left' \in 0..MaxEntries /\ count' + left' = count + left
          /\ count' \in Nat /\ count + 1 <= count + left /\ (pc = "fanoutOwn" => left' > 0)
      BY <1>0, <2>1
    <2>3. 1 \in 0..MaxEntries
      BY <1>0, <2>1
    <2>4. CASE pc \notin {"fanoutOwn", "fanout"}
      <3>1. /\ count + left <= MaxEntries /\ \A m \in Modes : did[m] <= count
            /\ Uncounted /\ metrics.fanout = 0 /\ metrics.hits = 0
        BY <2>1, <2>4 DEF Sizes
      <3>2. count' \in 0..(MaxEntries + 1) /\ count + 1 <= 2 * MaxEntries + 1
        BY <1>0, <2>1, <2>2, <3>1
      <3>3. /\ did' \in [Modes -> 0..(2 * MaxEntries + 1)]
            /\ \A m \in Modes : did'[m] <= count'
        BY <1>0, <1>b, <2>1, <2>3, <3>1, <3>2, Disposed
      <3>4. TypeOK'
        BY <2>1, <2>2, <3>2, <3>3 DEF TypeOK
      <3>5. Uncounted'
        BY <2>1, <3>1 DEF Uncounted
      <3> QED  BY <2>1, <2>2, <2>4, <3>1, <3>3, <3>4, <3>5 DEF Sizes, Early
    <2>5. CASE pc \in {"fanoutOwn", "fanout"}
      <3>1. /\ count + left <= MaxEntries + 1 /\ \A m \in Modes : did[m] <= MaxEntries + count
        BY <2>5 DEF Sizes
      <3>2. /\ count' \in 0..(MaxEntries + 1) /\ (MaxEntries + count) + 1 <= 2 * MaxEntries + 1
            /\ MaxEntries + count' = (MaxEntries + count) + 1 /\ MaxEntries + count \in Nat
        BY <1>0, <2>1, <2>2, <3>1
      <3>3. /\ did' \in [Modes -> 0..(2 * MaxEntries + 1)]
            /\ \A m \in Modes : did'[m] <= MaxEntries + count'
        BY <1>b, <2>1, <2>3, <3>1, <3>2, Disposed
      <3>4. TypeOK'
        BY <2>1, <2>2, <3>2, <3>3 DEF TypeOK
      <3> QED  BY <2>1, <2>2, <2>5, <3>1, <3>3, <3>4 DEF Sizes, Early, ExactBlank
    <2> QED  BY <2>4, <2>5
  <1>13. CASE TagDone
    <2>1. /\ pc = "tagPaths" /\ left = 0 /\ pc' = "handler"
          /\ UNCHANGED <<cache, left, count, did, oom>>
      BY <1>13 DEF TagDone
    <2>2. /\ Uncounted /\ metrics.fanout = 0 /\ metrics.hits = 0
          /\ count + left <= MaxEntries /\ \A m \in Modes : did[m] <= count
      BY <2>1 DEF Sizes
    <2>3. \A m \in Modes : did'[m] <= MaxEntries
      BY <1>0, <1>a, <2>1, <2>2
    <2>4. /\ ctx' \in [purged : Counts, path : PurgePaths \cup {None}, reason : Reasons \cup {None}]
          /\ metrics' \in [purges : Counts, purged : Counts, fanout : 0..1, hits : 0..1]
          /\ metrics'.fanout = 0
          /\ ExactBlank(ctx'.purged) /\ ExactBlank(metrics'.purged) /\ ExactBlank(metrics'.purges)
      <3>1. CASE count > 0
        <4>1. CountPurge("tag", RequestMode, count, "reused-persisted-index")
          BY <1>13, <3>1 DEF TagDone
        <4> QED  BY <1>0, <1>b, <2>1, <2>2, <4>1, CountsTyped DEF Types, PurgePaths
      <3>2. CASE ~(count > 0)
        <4>1. /\ ctx' = [ctx EXCEPT !.reason = "not_found"]
              /\ metrics' = [metrics EXCEPT !.purges = Bump(Zero, <<"tag", RequestMode>>, 1)]
          BY <1>13, <3>2, <2>2 DEF TagDone, Uncounted, TypeOK
        <4>2. /\ Bump(Zero, <<"tag", RequestMode>>, 1) \in Counts /\ ExactBlank(Zero)
              /\ ExactBlank(Bump(Zero, <<"tag", RequestMode>>, 1))
          BY <1>b, <2>1, CountsFirst DEF Types
        <4>3. ctx' \in [purged : Counts, path : PurgePaths \cup {None}, reason : Reasons \cup {None}]
          BY <4>1 DEF TypeOK, Reasons
        <4>4. metrics' \in [purges : Counts, purged : Counts, fanout : 0..1, hits : 0..1]
          BY <4>1, <4>2 DEF TypeOK
        <4>5. /\ ctx'.purged = Zero /\ metrics'.purged = Zero /\ metrics'.fanout = 0
              /\ metrics'.purges = Bump(Zero, <<"tag", RequestMode>>, 1)
          BY <2>2, <4>1 DEF TypeOK, Uncounted
        <4> QED  BY <4>2, <4>3, <4>4, <4>5
      <3> QED  BY <3>1, <3>2
    <2>5. TypeOK'
      BY <2>1, <2>4 DEF TypeOK
    <2> QED  BY <2>1, <2>3, <2>4, <2>5 DEF Sizes, Early
  <1>14. ASSUME NEW n \in 0..MaxEntries, All(n)
         PROVE  TypeOK' /\ Sizes'
    <2>1. /\ pc = "all" /\ pc' = "handler" /\ UNCHANGED <<cache, left, count, oom>>
          /\ Dispose(ConfMode, n) /\ CountPurge("all", ConfMode, n, ctx.path)
      BY <1>14 DEF All
    <2>2. Uncounted /\ metrics.fanout = 0 /\ \A m \in Modes : did[m] <= 0
      BY <2>1 DEF Declines, Early, Blank, Nothing, Sizes
    <2>3. 0 + n <= 2 * MaxEntries + 1 /\ 0 + n <= MaxEntries /\ n \in 0..(MaxEntries + 1)
      OBVIOUS
    <2>4. did' \in [Modes -> 0..(2 * MaxEntries + 1)] /\ \A m \in Modes : did'[m] <= 0 + n
      BY <1>b, <2>1, <2>2, <2>3, Disposed
    <2>5. /\ ctx' \in [purged : Counts, path : PurgePaths \cup {None}, reason : Reasons \cup {None}]
          /\ metrics' \in [purges : Counts, purged : Counts, fanout : 0..1, hits : 0..1]
          /\ metrics'.fanout = 0
          /\ ExactBlank(ctx'.purged) /\ ExactBlank(metrics'.purged) /\ ExactBlank(metrics'.purges)
      BY <1>b, <2>1, <2>2, <2>3, CountsTyped DEF Types
    <2>6. TypeOK'
      BY <2>1, <2>4, <2>5 DEF TypeOK
    <2>7. \A m \in Modes : did'[m] <= MaxEntries
      BY <2>3, <2>4
    <2> QED  BY <2>1, <2>5, <2>6, <2>7 DEF Sizes, Early
  <1>15. ASSUME NEW n \in 0..MaxEntries, NEW s,
                AllFails(n) \/ PartialFails(n) \/ CompletionFails(n, s)
         PROVE  TypeOK' /\ Sizes'
    <2>1. /\ pc' = "done" /\ UNCHANGED <<ctx, metrics, cache, left, count, oom>>
          /\ \E m \in Modes : Dispose(m, n)
      BY <1>15, <1>b DEF AllFails, PartialFails, CompletionFails, Answer, Walking
    <2>2. \A m \in Modes : did[m] <= 0
      <3>1. CASE pc = "all" \/ pc = "thread"
        BY <3>1 DEF Declines, Early, Blank, Nothing, Sizes
      <3>2. CASE pc = "prefixPaths" /\ count = 0
        BY <3>2 DEF Sizes
      <3> QED  BY <1>15, <3>1, <3>2 DEF AllFails, PartialFails, CompletionFails, Walking
    <2>3. 0 + n <= 2 * MaxEntries + 1
      OBVIOUS
    <2>4. did' \in [Modes -> 0..(2 * MaxEntries + 1)]
      BY <2>1, <2>2, <2>3, Disposed
    <2>5. TypeOK'
      BY <2>1, <2>4 DEF TypeOK
    <2> QED  BY <2>1, <2>5 DEF Sizes, Early
  <1>16. CASE PartialIndexed
    <2> DEFINE k == <<"wildcard", RequestMode>>
    <2>1. /\ pc = "prefixPaths" /\ left = 0 /\ pc' = "handler"
          /\ UNCHANGED <<cache, left, count, did, oom>>
      BY <1>16 DEF PartialIndexed
    <2>2. /\ Uncounted /\ metrics.fanout = 0 /\ metrics.hits = 0
          /\ count + left <= MaxEntries /\ \A m \in Modes : did[m] <= count
      BY <2>1 DEF Sizes
    <2>3. \A m \in Modes : did'[m] <= MaxEntries
      BY <1>0, <1>a, <2>1, <2>2
    <2>4. /\ Bump(Zero, k, count) \in Counts /\ Bump(Zero, k, 1) \in Counts
          /\ ExactBlank(Bump(Zero, k, count)) /\ ExactBlank(Bump(Zero, k, 1))
      BY <1>0, <1>b, <2>1, CountsFirst DEF Types
    <2>5. /\ ctx' = [[ctx EXCEPT !.path = "key-prefix-index"] EXCEPT !.purged = Bump(Zero, k, count)]
          /\ metrics' = [[[metrics EXCEPT !.purged = Bump(Zero, k, count)]
                             EXCEPT !.purges = Bump(Zero, k, 1)] EXCEPT !.hits = 1]
      BY <1>16, <2>2 DEF PartialIndexed, Uncounted, TypeOK
    <2> HIDE DEF k
    <2>6. /\ ctx' \in [purged : Counts, path : PurgePaths \cup {None}, reason : Reasons \cup {None}]
          /\ ctx'.purged = Bump(Zero, k, count)
      BY <2>4, <2>5 DEF TypeOK, PurgePaths
    <2>7. /\ metrics' \in [purges : Counts, purged : Counts, fanout : 0..1, hits : 0..1]
          /\ metrics'.fanout = 0 /\ metrics'.purged = Bump(Zero, k, count)
          /\ metrics'.purges = Bump(Zero, k, 1)
      <3> DEFINE r1 == [metrics EXCEPT !.purged = Bump(Zero, k, count)]
                 r2 == [r1 EXCEPT !.purges = Bump(Zero, k, 1)]
      <3>1. /\ r1 \in [purges : Counts, purged : Counts, fanout : 0..1, hits : 0..1]
            /\ r1.fanout = 0 /\ r1.purged = Bump(Zero, k, count)
        BY <2>2, <2>4 DEF TypeOK
      <3>2. metrics' = [r2 EXCEPT !.hits = 1]
        BY <2>5
      <3> HIDE DEF r1
      <3>3. /\ r2 \in [purges : Counts, purged : Counts, fanout : 0..1, hits : 0..1]
            /\ r2.fanout = 0 /\ r2.purged = Bump(Zero, k, count) /\ r2.purges = Bump(Zero, k, 1)
        BY <2>4, <3>1
      <3> HIDE DEF r2
      <3> QED  BY <3>2, <3>3
    <2>8. TypeOK'
      BY <2>1, <2>6, <2>7 DEF TypeOK
    <2> QED  BY <2>1, <2>3, <2>4, <2>6, <2>7, <2>8 DEF Sizes, Early
  <1>17. ASSUME NEW n \in 0..MaxEntries, PartialWalk(n)
         PROVE  TypeOK' /\ Sizes'
    <2>1. /\ pc = "prefixPaths" /\ count = 0 /\ pc' = "handler"
          /\ UNCHANGED <<cache, left, count, oom>> /\ Dispose(RequestMode, n)
          /\ CountPurge("wildcard", RequestMode, n, "filesystem-fallback")
      BY <1>17 DEF PartialWalk, Walking
    <2>2. Uncounted /\ metrics.fanout = 0 /\ \A m \in Modes : did[m] <= 0
      BY <2>1 DEF Sizes
    <2>3. 0 + n <= 2 * MaxEntries + 1 /\ 0 + n <= MaxEntries /\ n \in 0..(MaxEntries + 1)
      OBVIOUS
    <2>4. did' \in [Modes -> 0..(2 * MaxEntries + 1)] /\ \A m \in Modes : did'[m] <= 0 + n
      BY <1>b, <2>1, <2>2, <2>3, Disposed
    <2>5. /\ ctx' \in [purged : Counts, path : PurgePaths \cup {None}, reason : Reasons \cup {None}]
          /\ metrics' \in [purges : Counts, purged : Counts, fanout : 0..1, hits : 0..1]
          /\ metrics'.fanout = 0
          /\ ExactBlank(ctx'.purged) /\ ExactBlank(metrics'.purged) /\ ExactBlank(metrics'.purges)
      BY <1>b, <2>1, <2>2, <2>3, CountsTyped DEF Types, PurgePaths
    <2>6. TypeOK'
      BY <2>1, <2>4, <2>5 DEF TypeOK
    <2>7. \A m \in Modes : did'[m] <= MaxEntries
      BY <2>3, <2>4
    <2> QED  BY <2>1, <2>5, <2>6, <2>7 DEF Sizes, Early
  <1>18. ASSUME NEW n \in 0..MaxEntries, Completion(n)
         PROVE  TypeOK' /\ Sizes'
    <2>1. /\ pc = "thread" /\ pc' = "done" /\ UNCHANGED <<cache, left, count, oom>>
          /\ Dispose(RequestMode, n) /\ CountPurge("wildcard", RequestMode, n, ctx.path)
      BY <1>18 DEF Completion, Answer
    <2>2. Uncounted /\ \A m \in Modes : did[m] <= 0
      BY <2>1 DEF Sizes, Nothing
    <2>3. 0 + n <= 2 * MaxEntries + 1 /\ n \in 0..(MaxEntries + 1)
      OBVIOUS
    <2>4. did' \in [Modes -> 0..(2 * MaxEntries + 1)]
      BY <1>b, <2>1, <2>2, <2>3, Disposed
    <2>5. /\ ctx' \in [purged : Counts, path : PurgePaths \cup {None}, reason : Reasons \cup {None}]
          /\ metrics' \in [purges : Counts, purged : Counts, fanout : 0..1, hits : 0..1]
      BY <1>b, <2>1, <2>2, <2>3, CountsTyped DEF Types
    <2>6. TypeOK'
      BY <2>1, <2>4, <2>5 DEF TypeOK
    <2> QED  BY <2>1, <2>6 DEF Sizes, Early
  <1>c. ASSUME pc = "open", NEW m \in Modes
        PROVE  /\ Bump(metrics.purges, <<"exact", m>>, 1) \in Counts
               /\ m = "hard" => Bump(metrics.purges, <<"exact", m>>, 1)[<<"exact", "soft">>] = 0
    <2>1. <<"exact", m>> \in Buckets /\ <<"exact", "soft">> \in Buckets
      BY DEF Buckets, Types, Modes
    <2>2. metrics.purges[<<"exact", m>>] = 0 /\ metrics.purges[<<"exact", "soft">>] = 0
      BY <1>c DEF Sizes, ExactBlank, Modes
    <2>3. metrics.purges[<<"exact", m>>] + 1 <= MaxEntries + 1
      BY <2>2
    <2> QED  BY <1>a, <2>1, <2>2, <2>3, BumpType
  <1>19. CASE ExactNotFound
    <2>1. /\ pc = "open" /\ pc' = "done" /\ UNCHANGED <<cache, left, count, did, oom>>
          /\ ctx' = [ctx EXCEPT !.reason = "not_found"]
          /\ metrics' = [metrics EXCEPT !.purges = Bump(@, <<"exact", RequestMode>>, 1)]
      BY <1>19 DEF ExactNotFound, Answer
    <2>2. ctx' \in [purged : Counts, path : PurgePaths \cup {None}, reason : Reasons \cup {None}]
      BY <2>1 DEF TypeOK, Reasons
    <2>3. metrics' \in [purges : Counts, purged : Counts, fanout : 0..1, hits : 0..1]
      BY <1>b, <1>c, <2>1 DEF TypeOK
    <2>4. TypeOK'
      BY <2>1, <2>2, <2>3 DEF TypeOK
    <2> QED  BY <2>1, <2>4 DEF Sizes, Early
  <1>20. ASSUME NEW n \in 0..MaxEntries, Exact(n)
         PROVE  TypeOK' /\ Sizes'
    <2>1. /\ pc = "open" /\ pc' \in {"fanoutOwn", "fanout"} /\ UNCHANGED <<cache, oom>>
          /\ left' = n /\ count' = 1 /\ ctx' = KeyIndexReason
          /\ pc' = "fanoutOwn" => n > 0
      BY <1>20 DEF Exact
    <2>d. PICK d \in {0, 1} : Dispose(RequestMode, d)
      BY <1>20 DEF Exact
    <2>2. /\ ctx' \in [purged : Counts, path : PurgePaths \cup {None}, reason : Reasons \cup {None}]
          /\ ctx'.purged = ctx.purged
      BY <2>1 DEF TypeOK, Reasons, KeyIndexReason
    <2>3. /\ ExactBlank(ctx.purged) /\ ExactBlank(metrics.purged) /\ ExactBlank(metrics.purges)
          /\ metrics.fanout = 0 /\ \A m \in Modes : did[m] <= MaxEntries
      BY <2>1 DEF Sizes
    <2>4. /\ metrics' \in [purges : Counts, purged : Counts, fanout : 0..1, hits : 0..1]
          /\ metrics'.fanout = 0 /\ metrics'.purged = metrics.purged
          /\ metrics'.purges[<<"exact", "soft">>] = 0
      <3>1. CASE RequestMode = "soft"
        <4>1. metrics' = metrics
          BY <1>20, <3>1 DEF Exact
        <4> QED  BY <2>3, <4>1 DEF ExactBlank, Modes, TypeOK
      <3>2. CASE RequestMode # "soft"
        <4>1. metrics' = [metrics EXCEPT !.purges = Bump(metrics.purges, <<"exact", "hard">>, 1)]
          BY <1>20, <3>2 DEF Exact
        <4>2. /\ Bump(metrics.purges, <<"exact", "hard">>, 1) \in Counts
              /\ Bump(metrics.purges, <<"exact", "hard">>, 1)[<<"exact", "soft">>] = 0
          BY <1>c, <2>1 DEF Modes
        <4> QED  BY <2>3, <4>1, <4>2 DEF TypeOK
      <3> QED  BY <3>1, <3>2
    <2>5. /\ did' \in [Modes -> 0..(2 * MaxEntries + 1)]
          /\ \A m \in Modes : did'[m] <= MaxEntries + 1
      <3>1. did \in [Modes -> 0..(2 * MaxEntries + 1)] /\ did' = [did EXCEPT ![RequestMode] = @ + d]
        BY <1>a, <2>d DEF Dispose, Bump
      <3>2. ASSUME NEW l \in Modes
            PROVE  did'[l] \in 0..(2 * MaxEntries + 1) /\ did'[l] <= MaxEntries + 1
        <4>1. /\ did[l] \in Nat /\ did[l] <= MaxEntries
              /\ (did'[l] = did[l] \/ did'[l] = did[l] + d)
          BY <2>3, <3>1
        <4> QED  BY <4>1
      <3> QED  BY <3>1, <3>2
    <2>6. /\ count' \in 0..(MaxEntries + 1) /\ count' + left' <= MaxEntries + 1
          /\ pc' = "fanoutOwn" => left' > 0
      BY <2>1
    <2>7. TypeOK'
      BY <2>1, <2>2, <2>4, <2>5, <2>6 DEF TypeOK
    <2> QED  BY <2>1, <2>2, <2>3, <2>4, <2>5, <2>6, <2>7 DEF Sizes, Early
  <1>21. CASE FanoutDone
    <2> DEFINE k == <<"exact", RequestMode>>
    <2>1. /\ pc = "fanout" /\ pc' = "done" /\ UNCHANGED <<cache, left, count, did, oom>>
          /\ RequestMode \in Modes
      BY <1>21, <1>b DEF FanoutDone, Answer
    <2>2. k \in Buckets /\ <<"exact", "soft">> \in Buckets
      BY <2>1 DEF Buckets, Types, Modes
    <2>3. ctx.purged[k] = 0 /\ metrics.purged[k] = 0 /\ metrics.fanout = 0
      BY <2>1 DEF Sizes, ExactBlank
    <2>4. Bump(ctx.purged, k, count) \in Counts /\ Bump(metrics.purged, k, count) \in Counts
      BY <1>0, <1>a, <2>2, <2>3, BumpType
    <2>5. RequestMode = "soft" => Bump(metrics.purges, k, 1) \in Counts
      <3>1. metrics.purges[<<"exact", "soft">>] = 0
        BY <2>1 DEF Sizes
      <3> QED  BY <1>a, <2>2, <3>1, BumpType
    <2>6. /\ ctx' = [[ctx EXCEPT !.purged = Bump(ctx.purged, k, count)] EXCEPT
                         !.path = IF count > 1 THEN "exact-key-fanout" ELSE ctx.path]
          /\ metrics' = [[[metrics EXCEPT !.purged = Bump(metrics.purged, k, count)] EXCEPT
                             !.fanout = IF count > 1 THEN 1 ELSE 0] EXCEPT
                             !.purges = IF RequestMode = "soft" THEN Bump(metrics.purges, k, 1)
                                        ELSE metrics.purges]
      BY <1>21, <2>3 DEF FanoutDone, TypeOK
    <2> HIDE DEF k
    <2>7. ctx' \in [purged : Counts, path : PurgePaths \cup {None}, reason : Reasons \cup {None}]
      BY <2>4, <2>6 DEF TypeOK, PurgePaths
    <2>8. metrics' \in [purges : Counts, purged : Counts, fanout : 0..1, hits : 0..1]
      <3>1. (IF RequestMode = "soft" THEN Bump(metrics.purges, k, 1) ELSE metrics.purges) \in Counts
        BY <1>a, <2>5
      <3> DEFINE r1 == [metrics EXCEPT !.purged = Bump(metrics.purged, k, count)]
                 r2 == [r1 EXCEPT !.fanout = IF count > 1 THEN 1 ELSE 0]
      <3>2. r1 \in [purges : Counts, purged : Counts, fanout : 0..1, hits : 0..1]
        BY <2>4 DEF TypeOK
      <3>3. metrics' = [r2 EXCEPT !.purges = IF RequestMode = "soft" THEN Bump(metrics.purges, k, 1)
                                             ELSE metrics.purges]
        BY <2>6
      <3> HIDE DEF r1
      <3>4. r2 \in [purges : Counts, purged : Counts, fanout : 0..1, hits : 0..1]
        BY <3>2
      <3> HIDE DEF r2
      <3> QED  BY <3>1, <3>3, <3>4
    <2>9. TypeOK'
      BY <2>1, <2>7, <2>8 DEF TypeOK
    <2> QED  BY <2>1, <2>9 DEF Sizes, Early
  <1>22. CASE OwnAgain
    <2>1. /\ UNCHANGED <<ctx, metrics, cache, oom>> /\ pc = "fanoutOwn" /\ pc' = "fanout"
          /\ left' = left - 1
      BY <1>22 DEF OwnAgain
    <2>2. PICK c \in {0, 1} : \E d \in 0..c : count' = count + c /\ Dispose(RequestMode, d)
      BY <1>22 DEF OwnAgain
    <2>3. PICK d \in 0..c : count' = count + c /\ Dispose(RequestMode, d)
      BY <2>2
    <2>4. /\ ExactBlank(ctx.purged) /\ ExactBlank(metrics.purged)
          /\ metrics.purges[<<"exact", "soft">>] = 0 /\ metrics.fanout = 0
          /\ left > 0 /\ count + left <= MaxEntries + 1
          /\ \A m \in Modes : did[m] <= MaxEntries + count
      BY <2>1 DEF Sizes
    <2>5. /\ left' \in 0..MaxEntries /\ count' \in 0..(MaxEntries + 1)
          /\ count' + left' <= MaxEntries + 1
      BY <1>0, <2>1, <2>2, <2>3, <2>4
    <2>6. /\ MaxEntries + count \in Nat /\ d \in 0..MaxEntries /\ d \in Nat
          /\ (MaxEntries + count) + d <= 2 * MaxEntries + 1
          /\ (MaxEntries + count) + d <= MaxEntries + count'
      BY <1>0, <2>2, <2>3, <2>4
    <2>7. /\ did' \in [Modes -> 0..(2 * MaxEntries + 1)]
          /\ \A m \in Modes : did'[m] <= (MaxEntries + count) + d
      BY <1>b, <2>1, <2>3, <2>4, <2>6, Disposed
    <2>8. \A m \in Modes : did'[m] <= MaxEntries + count'
      <3>1. MaxEntries + count' \in Nat /\ (MaxEntries + count) + d \in Nat
        BY <1>0, <2>3, <2>5, <2>6
      <3>2. ASSUME NEW m \in Modes PROVE did'[m] <= MaxEntries + count'
        <4>1. did'[m] \in Nat /\ did'[m] <= (MaxEntries + count) + d
          BY <2>7
        <4>2. \A x, y, z \in Nat : x <= y /\ y <= z => x <= z
          OBVIOUS
        <4> QED  BY <2>6, <3>1, <4>1, <4>2
      <3> QED  BY <3>2
    <2>9. TypeOK'
      BY <2>1, <2>5, <2>7 DEF TypeOK
    <2> QED  BY <2>1, <2>4, <2>5, <2>8, <2>9 DEF Sizes, Early, ExactBlank
  <1> QED
    BY <1>1, <1>2, <1>3, <1>4, <1>5, <1>6, <1>7, <1>8, <1>9, <1>10, <1>11, <1>12, <1>13, <1>14,
       <1>15, <1>16, <1>17, <1>18, <1>19, <1>20, <1>21, <1>22 DEF Next

-----------------------------------------------------------------------------
(* The ledger. *)

(* A first purge is counted as it is done. *)
LEMMA CountsWhatItDoes ==
    ASSUME TypeOK, Steady, Uncounted, NEW k \in Buckets, Asked = k, NEW n \in Nat,
           ctx'.purged = Bump(ctx.purged, k, n), metrics'.purged = Bump(metrics.purged, k, n),
           metrics'.purges = Bump(metrics.purges, k, 1), did' = Bump(Nothing, k[2], n)
    PROVE  Counted(Asked)'
  <1>1. Asked' = k
    BY SameRequest
  <1>2. /\ ctx'.purged = Bump(Zero, k, n) /\ metrics'.purged = Bump(Zero, k, n)
        /\ metrics'.purges = Bump(Zero, k, 1)
    BY DEF Uncounted
  <1> QED  BY <1>1, <1>2 DEF Counted

(* No content handler gives an answer of this module's. *)
LEMMA PassesToOthers ==
    ASSUME ConfInv, pc # "config"
    PROVE  ContentHandler(req.block, Handlers) \notin Statuses /\ Cf.original \notin Statuses
  <1>1. /\ tree \in Trees /\ Len(conf) = Len(tree) /\ req.block \in 2..Len(tree)
        /\ Len(tree) \in Nat /\ DOMAIN conf = 1..Len(tree)
    BY DEF ConfInv
  <1>2. req.block \in 1..Len(tree) /\ req.block - 1 \in 1..Len(tree)
    BY <1>1
  <1>3. DOMAIN tree = 1..Len(tree)
    BY <1>1, TreesAssumption
  <1>4. ASSUME NEW b \in 1..Len(tree)
        PROVE  Handlers[b] \notin Statuses
    <2>1. Handlers[b] \in {tree[b].content, Access}
      BY <1>1 DEF Handlers, ConfInv
    <2>2. tree[b].content \notin Statuses /\ Access \notin Statuses
      BY <1>1, <1>3, HandlersAssumption DEF Access, Statuses
    <2> QED  BY <2>1, <2>2
  <1>5. ContentHandler(req.block, Handlers) \notin Statuses
    <2>1. req.block \in Nat /\ req.block >= 1 /\ req.block <= Len(tree)
      BY <1>1
    <2>2. Chain(req.block) \subseteq 1..Len(tree)
      <3>1. Chain(req.block) \subseteq 1..req.block
        BY <2>1, ChainOf
      <3> QED  BY <1>1, <2>1, <3>1
    <2> QED  BY <1>4, <2>1, <2>2, HandlerIn, HandlersAssumption
  <1> QED  BY <1>1, <1>2, <1>5 DEF Cf, ConfInv

LEMMA NextLedger ==
    ASSUME TypeOK, ConfInv, Declines, Next, ~oom', ~oom, Decided, Accounts
    PROVE  Decided' /\ Accounts'
  <1>a. CASE pc = "config"
    <2>1. pc' \in {"config", "access"}
      BY <1>a, NextConf DEF Next, Configure, Arrive, PassOn, NoHandler, CacheGet,
           SpecialOutOfMemory, SpecialTags,
           SpecialOther, Special, TagFails, TagDone, TagDeclined, PathPurged, PathGone, PathFails,
           InPaths, PartialOnly, PartialIndexed, PartialPost, Walking, HandlerAnswers,
           HandlerExact, HandlerOutOfMemory, OpenAgain, Resume, ExactNotFound, ExactFails,
           FanoutDone, TagCollect, All, AllFails, PartialCollect, PartialWalk, PartialFails,
           Completion, CompletionFails, Exact, OwnAgain
    <2> QED  BY <2>1 DEF Decided, Accounts
  <1>b. CASE pc # "config"
    <2>0. Steady
      BY <1>b, NextConf
    <2>1. /\ Cf' = Cf /\ RequestMode' = RequestMode /\ ConfMode' = ConfMode /\ Asked' = Asked
          /\ (HasTags' <=> HasTags) /\ (IsPartial' <=> IsPartial)
          /\ (PurgedBefore' <=> PurgedBefore)
      BY <2>0, SameRequest
    <2>2. /\ RequestMode \in Modes /\ ConfMode \in Modes
          /\ HasTags => Asked = <<"tag", RequestMode>>
          /\ ~HasTags /\ Cf.conf.all => Asked = <<"all", ConfMode>>
          /\ ~HasTags /\ ~Cf.conf.all /\ IsPartial => Asked = <<"wildcard", RequestMode>>
          /\ ~PurgedBefore => Asked = <<"exact", RequestMode>>
      BY <1>b, Terms
    <2>3. count \in Nat /\ left \in Nat
      BY Fields
    <2>q. ASSUME Kept
          PROVE  /\ (Blank' <=> Blank) /\ (Uncounted' <=> Uncounted) /\ (Pending' <=> Pending)
                 /\ (Nearly' <=> Nearly) /\ (Counted(Asked)' <=> Counted(Asked))
      BY <2>0, <2>q, KeptSame
    <2>4. CASE PassOn \/ NoHandler \/ CacheGet
      <3>1. pc' \in {"special", "done"} /\ (pc' = "done" => status' # "200")
        BY <1>b, <2>4, PassesToOthers, HandlersAssumption
           DEF PassOn, NoHandler, CacheGet, Answer, Statuses
      <3> QED  BY <3>1 DEF Decided, Accounts
    <2>5. CASE SpecialTags \/ SpecialOther
      <3>1. Kept /\ pc = "special"
        BY <2>5 DEF SpecialTags, SpecialOther, Special, Kept
      <3>2. Blank
        BY <3>1 DEF Declines, Early
      <3>3. CASE pc' \in {"tag", "all", "partial"}
        BY <2>1, <2>5, <3>3 DEF SpecialTags, SpecialOther, Special, Decided, Accounts
      <3>4. CASE pc' = "handler" /\ ~PurgedBefore
        BY <2>1, <2>q, <3>1, <3>2, <3>4 DEF Decided, Accounts
      <3> QED  BY <2>5, <3>3, <3>4 DEF SpecialTags, SpecialOther, Special, PurgedBefore
    <2>6. CASE \/ TagFails \/ PathFails \/ PartialOnly \/ ExactFails
               \/ \E reason \in {"index_not_ready", "zone_not_registered"} : TagDeclined(reason)
      <3>1. pc' = "done" /\ status' # "200"
        BY <2>6 DEF TagFails, PathFails, PartialOnly, ExactFails, TagDeclined, Answer
      <3> QED  BY <3>1 DEF Decided, Accounts
    <2>7. CASE \E n \in 0..MaxEntries :
                  AllFails(n) \/ PartialFails(n) \/ \E s \in {"500", "gone"} : CompletionFails(n, s)
      <3>1. pc' = "done" /\ status' # "200"
        BY <2>7 DEF AllFails, PartialFails, CompletionFails, Answer
      <3> QED  BY <3>1 DEF Decided, Accounts
    <2>8. CASE \E n \in 0..MaxEntries : TagCollect(n) \/ PartialCollect(n)
      <3>1. Kept /\ ((pc = "tag" /\ pc' = "tagPaths") \/ (pc = "partial" /\ pc' = "prefixPaths"))
        BY <2>8 DEF TagCollect, PartialCollect, Kept, KeyIndexReason, TypeOK
      <3>2. Blank /\ count = 0
        BY <3>1 DEF Declines, Early
      <3>3. Uncounted /\ Pending
        BY <2>2, <3>2, Bumps DEF Blank, Pending
      <3> QED  BY <2>1, <2>q, <3>1, <3>3 DEF Decided, Accounts
    <2>9. CASE PathGone
      BY <2>1, <2>9, <2>q DEF PathGone, InPaths, Kept, Decided, Accounts
    <2>10. CASE PathPurged
      <3>1. /\ UNCHANGED <<ctx, metrics, pc>> /\ did' = Bump(did, RequestMode, 1)
            /\ count' = count + 1 /\ pc \in {"tagPaths", "prefixPaths", "fanoutOwn", "fanout"}
        BY <2>10 DEF PathPurged, InPaths, Dispose
      <3>2. Pending => Pending'
        BY <2>1, <2>2, <2>3, <3>1, Bumps DEF Pending
      <3>3. ASSUME Nearly PROVE Nearly'
        <4>1. PICK n \in Nat : did = Bump(Nothing, RequestMode, n) /\ (count = n \/ count = n + 1)
          BY <3>3 DEF Nearly
        <4>2. did' = Bump(Nothing, RequestMode', n + 1)
          BY <2>1, <2>2, <3>1, <4>1, Bumps
        <4>3. n + 1 \in Nat /\ (count' = n + 1 \/ count' = (n + 1) + 1)
          BY <3>1, <4>1
        <4> QED  BY <4>2, <4>3 DEF Nearly
      <3> QED  BY <2>1, <3>1, <3>2, <3>3 DEF Decided, Accounts, Uncounted
    <2>11. CASE TagDone
      <3> DEFINE k == <<"tag", RequestMode>>
      <3>1. /\ pc = "tagPaths" /\ pc' = "handler" /\ UNCHANGED <<did, count>>
        BY <2>11 DEF TagDone
      <3>2. Uncounted /\ Pending /\ HasTags /\ PurgedBefore
        BY <3>1 DEF Accounts, Decided, PurgedBefore
      <3>3. k \in Buckets /\ Asked = k /\ k[2] = RequestMode
        BY <2>2, <3>2 DEF Buckets, Types
      <3>4. /\ ctx'.purged = Bump(ctx.purged, k, count)
            /\ metrics'.purged = Bump(metrics.purged, k, count)
            /\ metrics'.purges = Bump(metrics.purges, k, 1)
        <4>1. CASE count > 0
          BY <2>11, <4>1, CountsAPurge DEF TagDone
        <4>2. CASE ~(count > 0)
          <5>1. count = 0 /\ Bump(Zero, k, 0) = Zero
            BY <2>3, <3>3, <4>2, Bumps
          <5>2. /\ ctx' = [ctx EXCEPT !.reason = "not_found"]
                /\ metrics' = [metrics EXCEPT !.purges = Bump(@, k, 1)]
            BY <2>11, <4>2 DEF TagDone
          <5> HIDE DEF k
          <5>3. /\ ctx'.purged = ctx.purged /\ metrics'.purged = metrics.purged
                /\ metrics'.purges = Bump(metrics.purges, k, 1)
            BY <5>2 DEF TypeOK
          <5> QED  BY <3>2, <5>1, <5>3 DEF Uncounted
        <4> QED  BY <4>1, <4>2
      <3>5. did' = Bump(Nothing, k[2], count)
        BY <3>1, <3>2, <3>3 DEF Pending
      <3> HIDE DEF k
      <3>6. Counted(Asked)'
        BY <2>0, <2>3, <3>2, <3>3, <3>4, <3>5, CountsWhatItDoes
      <3> QED  BY <2>1, <3>1, <3>2, <3>6 DEF Decided, Accounts
    <2>12. ASSUME NEW n \in 0..MaxEntries, NEW k \in Buckets, Asked = k, Blank,
                  did' = Bump(did, k[2], n), NEW path, CountPurge(k[1], k[2], n, path),
                  (pc' = "handler" /\ PurgedBefore) \/ pc' = "done"
           PROVE  Decided' /\ Accounts'
      <3>1. k = <<k[1], k[2]>>
        BY DEF Buckets
      <3>2. /\ ctx'.purged = Bump(ctx.purged, k, n) /\ metrics'.purged = Bump(metrics.purged, k, n)
            /\ metrics'.purges = Bump(metrics.purges, k, 1)
        BY <2>12, <3>1, CountsAPurge
      <3>3. did' = Bump(Nothing, k[2], n) /\ Uncounted /\ n \in Nat
        BY <2>12 DEF Blank
      <3>4. Counted(Asked)'
        BY <2>0, <2>12, <3>2, <3>3, CountsWhatItDoes
      <3> QED  BY <2>1, <2>12, <3>4 DEF Decided, Accounts
    <2>13. ASSUME NEW n \in 0..MaxEntries, All(n)
           PROVE  Decided' /\ Accounts'
      <3> DEFINE k == <<"all", ConfMode>>
      <3>1. /\ pc = "all" /\ pc' = "handler" /\ did' = Bump(did, ConfMode, n)
            /\ CountPurge("all", ConfMode, n, ctx.path)
        BY <2>13 DEF All, Dispose
      <3>2. Blank /\ PurgedBefore /\ Asked = k /\ k \in Buckets /\ k[1] = "all" /\ k[2] = ConfMode
        BY <2>2, <3>1 DEF Decided, PurgedBefore, Declines, Early, Buckets, Types
      <3> HIDE DEF k
      <3> QED  BY <2>12, <3>1, <3>2
    <2>14. ASSUME NEW n \in 0..MaxEntries, PartialWalk(n) \/ Completion(n)
           PROVE  Decided' /\ Accounts'
      <3> DEFINE k == <<"wildcard", RequestMode>>
      <3>1. /\ pc \in {"prefixPaths", "thread"} /\ did' = Bump(did, RequestMode, n)
            /\ \E path : CountPurge("wildcard", RequestMode, n, path)
            /\ pc' \in {"handler", "done"} /\ (pc = "prefixPaths" => count = 0)
        BY <2>14 DEF PartialWalk, Completion, Walking, Dispose, Answer
      <3>2. PurgedBefore /\ Asked = k /\ k \in Buckets /\ k[1] = "wildcard" /\ k[2] = RequestMode
        BY <2>2, <3>1 DEF Decided, PurgedBefore, Buckets, Types
      <3>3. Blank
        BY <2>2, <3>1, Bumps DEF Accounts, Pending, Blank
      <3> HIDE DEF k
      <3> QED  BY <2>12, <3>1, <3>2, <3>3
    <2>15. CASE PartialIndexed
      <3> DEFINE k == <<"wildcard", RequestMode>>
      <3>1. /\ pc = "prefixPaths" /\ pc' = "handler" /\ UNCHANGED <<did, count>>
            /\ ctx' = [ctx EXCEPT !.path = "key-prefix-index", !.purged = Bump(@, k, count)]
            /\ metrics' = [metrics EXCEPT !.purged = Bump(@, k, count),
                                          !.purges = Bump(@, k, 1), !.hits = @ + 1]
        BY <2>15 DEF PartialIndexed
      <3>2. Uncounted /\ Pending /\ PurgedBefore /\ Asked = k /\ k \in Buckets /\ k[2] = RequestMode
        BY <2>2, <3>1 DEF Decided, Accounts, PurgedBefore, Buckets, Types
      <3> HIDE DEF k
      <3>3. /\ ctx'.purged = Bump(ctx.purged, k, count)
            /\ metrics'.purged = Bump(metrics.purged, k, count)
            /\ metrics'.purges = Bump(metrics.purges, k, 1)
        BY <3>1 DEF TypeOK
      <3>4. did' = Bump(Nothing, k[2], count)
        BY <3>1, <3>2 DEF Pending
      <3>5. Counted(Asked)'
        BY <2>0, <2>3, <3>2, <3>3, <3>4, CountsWhatItDoes
      <3> QED  BY <2>1, <3>1, <3>2, <3>5 DEF Decided, Accounts
    <2>16. CASE PartialPost
      <3>1. pc = "prefixPaths" /\ count = 0 /\ pc' = "thread" /\ Kept
        BY <2>16 DEF PartialPost, Walking, Kept, TypeOK
      <3>2. Blank
        BY <2>2, <3>1, Bumps DEF Accounts, Pending, Blank
      <3> QED  BY <2>1, <2>q, <3>1, <3>2 DEF Decided, Accounts
    <2>17. CASE HandlerAnswers
      BY <2>q, <2>17 DEF HandlerAnswers, Answer, Kept, Decided, Accounts
    <2>18. CASE HandlerExact \/ OpenAgain \/ Resume
      BY <2>1, <2>q, <2>18 DEF HandlerExact, OpenAgain, Resume, Kept, Decided, Accounts
    <2>19. CASE ExactNotFound
      <3> DEFINE k == <<"exact", RequestMode>>
      <3>1. /\ pc = "open" /\ pc' = "done" /\ UNCHANGED did
            /\ ctx' = [ctx EXCEPT !.reason = "not_found"]
            /\ metrics' = [metrics EXCEPT !.purges = Bump(@, k, 1)]
        BY <2>19 DEF ExactNotFound, Answer
      <3>2. Blank /\ Uncounted /\ Asked = k /\ k \in Buckets /\ k[2] = RequestMode
        BY <2>2, <3>1 DEF Decided, Accounts, Blank, Buckets, Types
      <3>3. Bump(Zero, k, 0) = Zero /\ Bump(Nothing, k[2], 0) = Nothing
        BY <2>2, <3>2, Bumps
      <3> HIDE DEF k
      <3>4. /\ ctx'.purged = ctx.purged /\ metrics'.purged = metrics.purged
            /\ metrics'.purges = Bump(metrics.purges, k, 1)
        BY <3>1 DEF TypeOK
      <3>5. Counted(Asked)'
        BY <2>0, <3>1, <3>2, <3>3, <3>4, CountsWhatItDoes DEF Uncounted, Blank
      <3> QED  BY <3>1, <3>5 DEF Decided, Accounts
    <2>20. ASSUME NEW n \in 0..MaxEntries, Exact(n)
           PROVE  Decided' /\ Accounts'
      <3>1. /\ pc = "open" /\ pc' \in {"fanoutOwn", "fanout"} /\ count' = 1
            /\ metrics' = IF RequestMode = "soft" THEN metrics
                          ELSE [metrics EXCEPT !.purges = Bump(@, <<"exact", "hard">>, 1)]
            /\ ctx' = KeyIndexReason
        BY <2>20 DEF Exact
      <3>d. PICK d \in {0, 1} : did' = Bump(did, RequestMode, d) /\ (pc' = "fanoutOwn" => d = 1)
        BY <2>20 DEF Exact, Dispose
      <3>2. Blank /\ ~PurgedBefore
        BY <3>1 DEF Decided, Accounts
      <3>3. Nearly' /\ (pc' = "fanoutOwn" => Pending')
        <4>1. did' = Bump(Nothing, RequestMode', d)
          BY <2>1, <3>d, <3>2 DEF Blank
        <4>2. d \in Nat /\ (count' = d \/ count' = d + 1)
          BY <3>1, <3>d
        <4> QED  BY <3>1, <3>d, <4>1, <4>2 DEF Nearly, Pending
      <3>4. /\ ctx'.purged = Zero /\ metrics'.purged = Zero
            /\ metrics'.purges = IF RequestMode = "soft" THEN Zero ELSE Bump(Zero, <<"exact", "hard">>, 1)
        BY <3>1, <3>2 DEF Blank, Uncounted, KeyIndexReason, TypeOK
      <3> QED  BY <2>1, <3>1, <3>2, <3>3, <3>4 DEF Decided, Accounts
    <2>21. CASE FanoutDone
      <3> DEFINE k == <<"exact", RequestMode>>
      <3>1. /\ pc = "fanout" /\ pc' = "done" /\ UNCHANGED did
            /\ ctx' = [ctx EXCEPT !.purged = Bump(@, k, count),
                                  !.path = IF count > 1 THEN "exact-key-fanout" ELSE @]
            /\ metrics' = [metrics EXCEPT !.purged = Bump(@, k, count),
                                 !.fanout = IF count > 1 THEN @ + 1 ELSE @,
                                 !.purges = IF RequestMode = "soft" THEN Bump(@, k, 1) ELSE @]
        BY <2>21 DEF FanoutDone, Answer
      <3>2. /\ ctx.purged = Zero /\ metrics.purged = Zero /\ Nearly
            /\ metrics.purges = IF RequestMode = "soft" THEN Zero ELSE Bump(Zero, <<"exact", "hard">>, 1)
            /\ Asked = k /\ k \in Buckets /\ k[1] = "exact" /\ k[2] = RequestMode
        BY <2>2, <3>1 DEF Decided, Accounts, Buckets, Types
      <3>3. RequestMode # "soft" => k = <<"exact", "hard">>
        BY <2>2 DEF Modes
      <3> HIDE DEF k
      <3>4. /\ ctx'.purged = Bump(Zero, k, count) /\ metrics'.purged = Bump(Zero, k, count)
            /\ metrics'.purges = IF RequestMode = "soft" THEN Bump(metrics.purges, k, 1) ELSE metrics.purges
        BY <3>1, <3>2 DEF TypeOK
      <3>5. metrics'.purges = Bump(Zero, k, 1)
        BY <3>2, <3>3, <3>4
      <3>6. PICK n \in Nat : did' = Bump(Nothing, k[2], n) /\ (count = n \/ count = n + 1)
        BY <3>1, <3>2 DEF Nearly
      <3>7. Counted(Asked)'
        <4>1. Asked' = k
          BY <2>1, <3>2
        <4> QED  BY <2>3, <3>2, <3>4, <3>5, <3>6, <4>1 DEF Counted
      <3> QED  BY <3>1, <3>7 DEF Decided, Accounts
    <2>24. CASE OwnAgain
      <3>1. /\ pc = "fanoutOwn" /\ pc' = "fanout" /\ UNCHANGED <<ctx, metrics>>
        BY <2>24 DEF OwnAgain
      <3>2. PICK c \in {0, 1} : \E d \in 0..c : count' = count + c /\ Dispose(RequestMode, d)
        BY <2>24 DEF OwnAgain
      <3>3. PICK d \in 0..c : count' = count + c /\ did' = Bump(did, RequestMode, d)
        BY <3>2 DEF Dispose
      <3>4. Pending
        BY <3>1 DEF Accounts
      <3>5. did' = Bump(Nothing, RequestMode', count + d)
        BY <2>1, <2>2, <2>3, <3>3, <3>4, Bumps DEF Pending
      <3>6. count + d \in Nat /\ (count' = count + d \/ count' = (count + d) + 1)
        BY <2>3, <3>2, <3>3
      <3>7. Nearly'
        BY <3>5, <3>6 DEF Nearly
      <3> QED  BY <2>1, <3>1, <3>7 DEF Decided, Accounts
    <2>22. ~SpecialOutOfMemory /\ ~HandlerOutOfMemory
      BY DEF SpecialOutOfMemory, HandlerOutOfMemory
    <2>23. ~Configure /\ ~\E q \in Requests : Arrive(q)
      BY <1>b, ConfigureFirst DEF Arrive
    <2> QED
      BY <2>4, <2>5, <2>6, <2>7, <2>8, <2>9, <2>10, <2>11, <2>13, <2>14, <2>15, <2>16, <2>17,
         <2>18, <2>19, <2>20, <2>21, <2>22, <2>23, <2>24 DEF Next
  <1> QED  BY <1>a, <1>b

-----------------------------------------------------------------------------
DispatchInv == TypeOK /\ ConfInv /\ Sizes /\ Ledger

LEMMA Invariance == Spec => []DispatchInv
  <1>1. DispatchInit => DispatchInv
    BY InitConf, InitAccounts DEF DispatchInv
  <1>2. DispatchInv /\ [Next]_vars => DispatchInv'
    <2> SUFFICES ASSUME DispatchInv, [Next]_vars PROVE DispatchInv'
      OBVIOUS
    <2> USE DEF DispatchInv
    <2>1. Declines
      BY DEF Ledger
    <2>2. ConfInv' /\ Declines' /\ TypeOK' /\ Sizes'
      BY <2>1, NextConf, NextDeclines, NextSizes
    <2>3. ASSUME ~oom' PROVE Decided' /\ Accounts'
      <3>1. CASE UNCHANGED vars
        <4>1. Steady /\ Kept /\ UNCHANGED <<pc, status, oom>>
          BY <3>1 DEF vars, Steady, Kept
        <4>2. Decided /\ Accounts
          BY <2>3, <4>1 DEF Ledger
        <4> QED  BY <4>1, <4>2, SameRequest, KeptSame DEF Decided, Accounts, Kept
      <3>2. CASE Next
        <4>1. ~oom
          BY <2>3, <3>2 DEF Next, Configure, Arrive, PassOn, NoHandler, CacheGet,
           SpecialOutOfMemory, SpecialTags,
           SpecialOther, Special, TagFails, TagDone, TagDeclined, PathPurged, PathGone, PathFails,
           InPaths, PartialOnly, PartialIndexed, PartialPost, Walking, HandlerAnswers,
           HandlerExact, HandlerOutOfMemory, OpenAgain, Resume, ExactNotFound, ExactFails,
           FanoutDone, TagCollect, All, AllFails, PartialCollect, PartialWalk, PartialFails,
           Completion, CompletionFails, Exact, OwnAgain
        <4> QED  BY <2>1, <2>3, <3>2, <4>1, NextLedger DEF Ledger
      <3> QED  BY <3>1, <3>2
    <2> QED  BY <2>2, <2>3 DEF Ledger
  <1> QED  BY <1>1, <1>2, PTL DEF Spec

(* The context of a request and the counters keep their types: no counter    *)
(* grows beyond what one request can do (ngx_http_cache_pilot_request_ctx_t, *)
(* ngx_http_cache_pilot_metrics_t).                                          *)
THEOREM DispatchTypeCorrect == Spec => []TypeOK
  <1>1. DispatchInv => TypeOK
    BY DEF DispatchInv
  <1> QED  BY <1>1, Invariance, PTL

(* A purge that is answered with 200 counts as one purge of what was asked   *)
(* for: dispatch_special and the handler decide alike, and a handler that    *)
(* runs again after a read has not counted yet.                              *)
THEOREM PurgesCountedOnce == Spec => []CountedOnce
  <1>1. DispatchInv => CountedOnce
    BY DEF DispatchInv, Ledger, Accounts, Counted, CountedOnce, Answered
  <1> QED  BY <1>1, Invariance, PTL

(* What a 200 reports, and what the metrics count, are the entries that were *)
(* deleted or expired, except that an exact purge may report one more: its   *)
(* own file, which it could not unlink or has found among its siblings.      *)
THEOREM ReportsAreTrue == Spec => []ReportsWhatItDid
  <1>1. ASSUME DispatchInv PROVE ReportsWhatItDid
    <2> SUFFICES ASSUME Answered("200"), ~oom
                 PROVE  /\ \/ ctx.purged = Bump(Zero, Asked, did[Asked[2]])
                           \/ /\ Asked[1] = "exact"
                              /\ ctx.purged = Bump(Zero, Asked, did[Asked[2]] + 1)
                        /\ metrics.purged = ctx.purged
                        /\ \A m \in Modes : m # Asked[2] => did[m] = 0
      BY DEF ReportsWhatItDid
    <2>1. Counted(Asked) /\ pc # "config"
      BY <1>1 DEF DispatchInv, Ledger, Accounts, Answered
    <2>2. PICK n \in Nat, r \in Nat :
              /\ ctx.purged = Bump(Zero, Asked, r) /\ did = Bump(Nothing, Asked[2], n)
              /\ r = n \/ (Asked[1] = "exact" /\ r = n + 1)
      BY <2>1 DEF Counted
    <2>3. Asked[2] \in Modes
      BY <1>1, <2>1, Terms DEF DispatchInv, PurgedBefore
    <2>4. did[Asked[2]] = n /\ \A m \in Modes : m # Asked[2] => did[m] = 0
      <3>1. did = [m \in Modes |-> IF m = Asked[2] THEN n ELSE 0]
        BY <2>2, <2>3 DEF Bump, Nothing
      <3> QED  BY <2>3, <3>1
    <2>5. metrics.purged = ctx.purged
      BY <2>1 DEF Counted
    <2> QED  BY <2>2, <2>4, <2>5
  <1> QED  BY <1>1, Invariance, PTL

(* A request that is passed on, or declined, has purged nothing and counts   *)
(* nowhere, even when its tags could not be read.                            *)
THEOREM DeclinedDoNothing == Spec => []NothingWhenDeclined
  <1>1. DispatchInv => NothingWhenDeclined
    BY DEF DispatchInv, Ledger, Declines, Blank, Uncounted, Nothing, NothingWhenDeclined
  <1> QED  BY <1>1, Invariance, PTL

-----------------------------------------------------------------------------
(* Merging blocks. *)

Slot == [enable : BOOLEAN, configured : BOOLEAN, soft : BOOLEAN, all : BOOLEAN]

LEMMA MergesConf ==
    ASSUME NEW own \in Slot \cup {Unset}, NEW prev \in Slot \cup {Unset}
    PROVE  /\ MergeConf(own, prev) \in Slot
           /\ own # Unset => MergeConf(own, prev) = own
           /\ own = Unset /\ prev # Unset /\ prev.enable =>
                 /\ MergeConf(own, prev).enable /\ ~MergeConf(own, prev).configured
                 /\ MergeConf(own, prev).soft = prev.soft /\ MergeConf(own, prev).all = prev.all
           /\ own = Unset /\ (prev = Unset \/ ~prev.enable) => ~MergeConf(own, prev).enable
  BY DEF MergeConf, Disabled, Slot

(* What Parsed, MergedUpTo and Attached say, field by field. *)
LEMMA ParsedFields ==
    ASSUME tree \in Trees, NEW b \in DOMAIN tree, NEW i \in 1..Len(Protocols)
    PROVE  /\ Protocols[i] \notin DOMAIN tree[b].purge => Parsed(tree[b]).purge[i] = Unset
           /\ Protocols[i] \in DOMAIN tree[b].purge =>
                 LET s == Parsed(tree[b]).purge[i] IN
                 /\ s \in Slot /\ s # Unset /\ s.enable /\ s.configured
                 /\ s.soft = tree[b].purge[Protocols[i]].soft
                 /\ s.all = tree[b].purge[Protocols[i]].all
  <1>1. tree[b].purge \in [DOMAIN tree[b].purge -> [soft : BOOLEAN, all : BOOLEAN]]
    BY TreesAssumption
  <1>2. Parsed(tree[b]).purge[i] =
            IF Protocols[i] \in DOMAIN tree[b].purge
            THEN [enable |-> TRUE, configured |-> TRUE, soft |-> tree[b].purge[Protocols[i]].soft,
                  all |-> tree[b].purge[Protocols[i]].all]
            ELSE Unset
    BY DEF Parsed
  <1>3. ASSUME NEW x \in BOOLEAN, NEW y \in BOOLEAN
        PROVE  LET s == [enable |-> TRUE, configured |-> TRUE, soft |-> x, all |-> y] IN
               s \in Slot /\ s # Unset /\ s.enable /\ s.configured /\ s.soft = x /\ s.all = y
    <2> DEFINE s == [enable |-> TRUE, configured |-> TRUE, soft |-> x, all |-> y]
    <2>1. TRUE \in BOOLEAN
      OBVIOUS
    <2>2. s \in Slot
      BY <2>1, Zenon DEF Slot
    <2>3. Unset \notin Slot
      BY ValuesAssumption DEF Slot
    <2>4. s.enable /\ s.configured /\ s.soft = x /\ s.all = y
      OBVIOUS
    <2> HIDE DEF s
    <2>5. s # Unset
      BY <2>2, <2>3
    <2> QED  BY <2>2, <2>4, <2>5 DEF s
  <1>4. Protocols[i] \in DOMAIN tree[b].purge =>
           /\ tree[b].purge[Protocols[i]].soft \in BOOLEAN
           /\ tree[b].purge[Protocols[i]].all \in BOOLEAN
    BY <1>1
  <1> QED  BY <1>2, <1>3, <1>4

LEMMA MergedFields ==
    ASSUME NEW b, NEW i
    PROVE  /\ MergedUpTo(b, i).purge =
                 [j \in 1..Len(Protocols) |-> IF j <= i THEN Slots(b)[j] ELSE Parsed(tree[b]).purge[j]]
           /\ MergedUpTo(b, i).index = Merged(b).index
           /\ MergedUpTo(b, i).headers = Merged(b).headers
           /\ MergedUpTo(b, i).handler = None /\ MergedUpTo(b, i).original = None
           /\ MergedUpTo(b, i).content = tree[b].content
  BY DEF MergedUpTo, Merged, Parsed

LEMMA AttachedFields ==
    ASSUME NEW b, NEW i
    PROVE  /\ Attached(b, i).purge = MergedUpTo(b, i).purge
           /\ Attached(b, i).index = Merged(b).index
           /\ Attached(b, i).headers = Merged(b).headers
           /\ Attached(b, i).conf = Slots(b)[i] /\ Attached(b, i).protocol = Protocols[i]
           /\ Attached(b, i).original = OriginalHandler(Slots(b)[i], tree[b].content)
           /\ Attached(b, i).content = Access
           /\ Attached(b, i).handler = IF Complete(b, Protocols[i]) THEN "protocol_handler" ELSE None
  BY DEF Attached, MergedUpTo, Merged, Parsed

(* A block without a purge directive in force. *)
Plain(b) ==
    [MergedUpTo(b, Len(Protocols)) EXCEPT
        !.conf = IF Parent.conf = Unset THEN None ELSE Parent.conf,
        !.protocol = Parent.protocol, !.handler = Parent.handler, !.original = Parent.original]

LEMMA PlainFields ==
    ASSUME NEW b
    PROVE  /\ Plain(b).purge = MergedUpTo(b, Len(Protocols)).purge
           /\ Plain(b).index = Merged(b).index /\ Plain(b).headers = Merged(b).headers
           /\ Plain(b).handler = Parent.handler /\ Plain(b).original = Parent.original
           /\ Plain(b).content = tree[b].content
  BY DEF Plain, MergedUpTo, Merged, Parsed

(* The steps that merge a block. *)
LEMMA MergeSteps ==
    ASSUME ConfInv, Configure
    PROVE  /\ Block \in 2..Len(tree) /\ tree' = tree /\ Block \in DOMAIN tree
           /\ \/ conf' = conf /\ zones' = zones
              \/ /\ conf' = Append(conf, Plain(Block)) /\ zones' = zones
                 /\ EnabledSlots(Block) = {}
              \/ \E i \in EnabledSlots(Block) : (\A j \in EnabledSlots(Block) : i <= j) /\ Skip(i)
              \/ \E i \in EnabledSlots(Block) : (\A j \in EnabledSlots(Block) : i <= j) /\ Attach(i)
  <1>1. Block <= Len(tree) /\ tree' = tree
    BY DEF Configure, MergeBlock, MergePlain, Skip, Attach, Refuse, Chosen
  <1>2. Len(conf) \in Nat /\ Len(conf) >= 1 /\ Len(tree) \in Nat /\ tree \in Trees
    BY DEF ConfInv
  <1>3. Block \in 2..Len(tree)
    BY <1>1, <1>2 DEF Block
  <1>4. Block \in DOMAIN tree
    BY <1>2, <1>3, TreesAssumption
  <1>5. ASSUME NEW i, Chosen(i)
        PROVE  i \in EnabledSlots(Block) /\ \A j \in EnabledSlots(Block) : i <= j
    <2>1. EnabledSlots(Block) \in SUBSET Nat
      BY DEF EnabledSlots
    <2> QED  BY <1>5, <2>1, MinIsIn DEF Chosen
  <1> QED
    BY <1>1, <1>3, <1>4, <1>5 DEF Configure, MergeBlock, MergePlain, Skip, Attach, Refuse, Plain

LEMMA Grown ==
    ASSUME ConfInv, NEW c, conf' = Append(conf, c)
    PROVE  /\ DOMAIN conf' = DOMAIN conf \cup {Block} /\ Block \notin DOMAIN conf
           /\ conf'[Block] = c /\ \A b \in DOMAIN conf : conf'[b] = conf[b]
           /\ Len(conf) \in DOMAIN conf /\ Parent = conf[Len(conf)] /\ Len(conf) = Block - 1
  <1>1. conf \in Seq(Range(conf)) /\ Len(conf) \in Nat /\ Len(conf) >= 1 /\ DOMAIN conf = 1..Len(conf)
    BY DEF ConfInv
  <1>2. conf \in Seq(Range(conf) \cup {c})
    BY <1>1
  <1> QED  BY <1>1, <1>2 DEF Block, Parent

(* Before a request has come in, only blocks are merged. *)
LEMMA FirstSteps ==
    ASSUME pc = "config", [Next]_vars, ~Configure
    PROVE  (\E q \in Requests : Arrive(q)) \/ UNCHANGED vars
  BY DEF Next, PassOn, NoHandler, CacheGet, SpecialOutOfMemory, SpecialTags,
         SpecialOther, Special, TagFails, TagDone, TagDeclined, PathPurged, PathGone, PathFails,
         InPaths, PartialOnly, PartialIndexed, PartialPost, Walking, HandlerAnswers,
         HandlerExact, HandlerOutOfMemory, OpenAgain, Resume, ExactNotFound, ExactFails,
         FanoutDone, TagCollect, All, AllFails, PartialCollect, PartialWalk, PartialFails,
         Completion, CompletionFails, Exact, OwnAgain

LEMMA OtherSteps ==
    ASSUME ConfInv, [Next]_vars, ~Configure
    PROVE  UNCHANGED <<tree, conf, zones>>
  <1>1. CASE pc = "config"
    BY <1>1, FirstSteps DEF Arrive, vars, confVars
  <1>2. CASE pc # "config"
    BY <1>2, NextConf DEF Steady, confVars
  <1> QED  BY <1>1, <1>2

-----------------------------------------------------------------------------
(* Lists of tag headers. *)

Distinct(l) == l \in Seq(Range(l)) /\ \A i, j \in DOMAIN l : l[i] = l[j] => i = j

(* No list of tag headers names a header twice. *)
DistinctHeaders ==
    /\ Distinct(Default)
    /\ \A t \in Trees : \A b \in DOMAIN t : t[b].headers = Unset \/ Distinct(t[b].headers)

LEMMA DistinctSize ==
    ASSUME NEW l, Distinct(l)
    PROVE  IsFiniteSet(Range(l)) /\ Cardinality(Range(l)) = Len(l)
  <1>1. l \in Seq(Range(l)) /\ Len(l) \in Nat /\ DOMAIN l = 1..Len(l)
    BY DEF Distinct
  <1>2. IsFiniteSet(1..Len(l)) /\ Cardinality(1..Len(l)) = Len(l)
    <2>1. PICK n \in Nat : n = Len(l)
      BY <1>1
    <2>2. IsFiniteSet(1..n) /\ Cardinality(1..n) = IF 1 > n THEN 0 ELSE n - 1 + 1
      BY FS_Interval
    <2>3. (IF 1 > n THEN 0 ELSE n - 1 + 1) = n
      OBVIOUS
    <2> QED  BY <2>1, <2>2, <2>3
  <1>3. l \in [1..Len(l) -> Range(l)]
    BY <1>1
  <1>4. l \in Bijection(1..Len(l), Range(l))
    BY <1>1, <1>3 DEF Bijection, Injection, Surjection, IsInjective, Range, Distinct
  <1> QED  BY <1>2, <1>4, FS_Bijection DEF ExistsBijection

(* What headers_equal is right about. *)
LEMMA EqualHeaders ==
    ASSUME NEW l, NEW r, Distinct(l), Distinct(r), HeadersEqual(l, r)
    PROVE  Range(l) = Range(r)
  BY DistinctSize, FS_Subset DEF HeadersEqual

(* The slots keep their types, and there is a handler only where a purge     *)
(* directive is in force.                                                    *)
SlotsInv ==
    \A b \in DOMAIN conf :
        /\ conf[b].purge \in [1..Len(Protocols) -> Slot \cup {Unset}]
        /\ conf[b].handler # None =>
              \E i \in 1..Len(Protocols) : conf[b].purge[i] # Unset /\ conf[b].purge[i].enable

LEMMA SlotsTyped ==
    ASSUME ConfInv, SlotsInv, tree \in Trees, Block \in DOMAIN tree, NEW i
    PROVE  /\ Slots(Block) \in [1..Len(Protocols) -> Slot]
           /\ MergedUpTo(Block, i).purge \in [1..Len(Protocols) -> Slot \cup {Unset}]
           /\ i \in 1..Len(Protocols) => MergedUpTo(Block, i).purge[i] = Slots(Block)[i]
  <1>1. Parent.purge \in [1..Len(Protocols) -> Slot \cup {Unset}]
    BY DEF ConfInv, SlotsInv, Parent
  <1>2. \A j \in 1..Len(Protocols) : Parsed(tree[Block]).purge[j] \in Slot \cup {Unset}
    BY ParsedFields
  <1>3. ASSUME NEW j \in 1..Len(Protocols) PROVE Slots(Block)[j] \in Slot
    BY <1>1, <1>2, MergesConf DEF Slots
  <1>4. Slots(Block) \in [1..Len(Protocols) -> Slot]
    BY <1>3 DEF Slots
  <1>5. i \in 1..Len(Protocols) => i <= i
    OBVIOUS
  <1>6. MergedUpTo(Block, i).purge =
            [j \in 1..Len(Protocols) |->
                IF j <= i THEN Slots(Block)[j] ELSE Parsed(tree[Block]).purge[j]]
    BY MergedFields
  <1>7. \A j \in 1..Len(Protocols) : Slots(Block)[j] \in Slot \cup {Unset}
    BY <1>4
  <1>8. MergedUpTo(Block, i).purge \in [1..Len(Protocols) -> Slot \cup {Unset}]
    BY <1>2, <1>6, <1>7
  <1> QED  BY <1>4, <1>5, <1>6, <1>8

LEMMA PlainHasNoHandler ==
    ASSUME ConfInv, SlotsInv, tree \in Trees, Block \in DOMAIN tree, EnabledSlots(Block) = {}
    PROVE  Parent.handler = None
  <1> SUFFICES ASSUME Parent.handler # None PROVE FALSE
    OBVIOUS
  <1>1. Len(conf) \in DOMAIN conf
    BY DEF ConfInv
  <1>2. PICK i \in 1..Len(Protocols) : Parent.purge[i] # Unset /\ Parent.purge[i].enable
    BY <1>1 DEF SlotsInv, Parent
  <1>3. /\ Parent.purge[i] \in Slot \cup {Unset}
        /\ Parsed(tree[Block]).purge[i] \in Slot \cup {Unset}
        /\ Parsed(tree[Block]).purge[i] # Unset => Parsed(tree[Block]).purge[i].enable
    BY <1>1, ParsedFields DEF SlotsInv, Parent
  <1>4. Slots(Block)[i].enable
    BY <1>2, <1>3, MergesConf DEF Slots
  <1> QED  BY <1>4 DEF EnabledSlots

LEMMA NextSlots == ConfInv /\ SlotsInv /\ [Next]_vars => SlotsInv'
  <1> SUFFICES ASSUME ConfInv, SlotsInv, [Next]_vars PROVE SlotsInv'
    OBVIOUS
  <1>1. CASE ~Configure
    BY <1>1, OtherSteps DEF SlotsInv
  <1>2. CASE Configure
    <2>0. tree \in Trees /\ Block \in DOMAIN tree
      BY <1>2, MergeSteps DEF ConfInv
    <2>1. ASSUME NEW c, conf' = Append(conf, c),
                 c.purge \in [1..Len(Protocols) -> Slot \cup {Unset}],
                 c.handler # None =>
                     \E i \in 1..Len(Protocols) : c.purge[i] # Unset /\ c.purge[i].enable
          PROVE  SlotsInv'
      <3>1. SUFFICES ASSUME NEW b \in DOMAIN conf'
                     PROVE  /\ conf'[b].purge \in [1..Len(Protocols) -> Slot \cup {Unset}]
                            /\ conf'[b].handler # None =>
                                  \E i \in 1..Len(Protocols) : /\ conf'[b].purge[i] # Unset
                                                               /\ conf'[b].purge[i].enable
        BY DEF SlotsInv
      <3>2. CASE b = Block
        <4>1. conf'[b] = c
          BY <2>1, <3>2, Grown
        <4> QED  BY <2>1, <4>1
      <3>3. CASE b # Block
        <4>1. b \in DOMAIN conf /\ conf'[b] = conf[b]
          BY <2>1, <3>1, <3>3, Grown
        <4> QED  BY <4>1 DEF SlotsInv
      <3> QED  BY <3>2, <3>3
    <2>2. CASE conf' = Append(conf, Plain(Block)) /\ EnabledSlots(Block) = {}
      <3>1. Parent.handler = None
        BY <2>0, <2>2, PlainHasNoHandler
      <3> DEFINE c == Plain(Block)
      <3>2. c.purge \in [1..Len(Protocols) -> Slot \cup {Unset}] /\ c.handler = None
        BY <2>0, <3>1, SlotsTyped, PlainFields
      <3> HIDE DEF c
      <3> QED  BY <2>1, <2>2, <3>2 DEF c
    <2>3. ASSUME NEW i, Skip(i) PROVE SlotsInv'
      <3>1. conf' = Append(conf, MergedUpTo(Block, i))
        BY <2>3 DEF Skip
      <3> QED  BY <2>0, <2>1, <3>1, SlotsTyped, MergedFields
    <2>4. ASSUME NEW i \in EnabledSlots(Block), Attach(i) PROVE SlotsInv'
      <3> DEFINE c == Attached(Block, i)
      <3>1. conf' = Append(conf, c)
        BY <2>4 DEF Attach
      <3>2. i \in 1..Len(Protocols) /\ Slots(Block)[i].enable
        BY DEF EnabledSlots
      <3>3. /\ c.purge \in [1..Len(Protocols) -> Slot \cup {Unset}]
            /\ c.purge[i] = Slots(Block)[i]
        BY <2>0, <3>2, SlotsTyped, AttachedFields
      <3>4. Slots(Block)[i] # Unset
        <4>1. Slots(Block)[i] \in Slot
          BY <2>0, <3>2, SlotsTyped
        <4> QED  BY <4>1, ValuesAssumption DEF Slot
      <3> HIDE DEF c
      <3> QED  BY <2>1, <3>1, <3>2, <3>3, <3>4
    <2>5. CASE conf' = conf /\ zones' = zones
      BY <2>5 DEF SlotsInv
    <2> QED  BY <1>2, <2>2, <2>3, <2>4, <2>5, MergeSteps
  <1> QED  BY <1>1, <1>2

(* A block with a handler reads the tag headers that its zone is registered with. *)
Agreed(b) ==
    LET z == CacheOf(b, conf[b].protocol) IN
    conf[b].handler # None /\ conf[b].index = "on" /\ z \in Zones =>
        z \in DOMAIN zones /\ Range(zones[z]) = Range(conf[b].headers)

HeadersInv ==
    /\ \A b \in DOMAIN conf : conf[b].headers = Unset \/ Distinct(conf[b].headers)
    /\ \A z \in DOMAIN zones : Distinct(zones[z])
    /\ \A b \in DOMAIN conf : Agreed(b)

LEMMA NextHeaders ==
    ASSUME DistinctHeaders
    PROVE  ConfInv /\ SlotsInv /\ HeadersInv /\ [Next]_vars => HeadersInv'
  <1> SUFFICES ASSUME ConfInv, SlotsInv, HeadersInv, [Next]_vars PROVE HeadersInv'
    OBVIOUS
  <1>1. CASE ~Configure
    BY <1>1, OtherSteps DEF HeadersInv, Agreed, CacheOf, Caching
  <1>2. CASE Configure
    <2>0. tree \in Trees /\ Block \in DOMAIN tree /\ tree' = tree
      BY <1>2, MergeSteps DEF ConfInv
    <2>n. PICK n : n = Block
      OBVIOUS
    <2>c. \A b, p : CacheOf(b, p)' = CacheOf(b, p)
      BY <2>0 DEF CacheOf, Caching
    <2>1. ASSUME NEW c, conf' = Append(conf, c) PROVE Distinct(Merged(Block).headers)
      <3>1. Parent.headers = Unset \/ Distinct(Parent.headers)
        BY <2>1, Grown DEF HeadersInv
      <3>2. tree[Block].headers = Unset \/ Distinct(tree[Block].headers)
        BY <2>0 DEF DistinctHeaders
      <3>3. Merged(Block).headers =
              CASE tree[Block].headers # Unset -> tree[Block].headers
                [] tree[Block].headers = Unset /\ Parent.headers # Unset -> Parent.headers
                [] OTHER -> Default
        BY DEF Merged, Parsed
      <3> QED  BY <3>1, <3>2, <3>3 DEF DistinctHeaders
    <2>2. ASSUME NEW c, conf' = Append(conf, c), c.headers = Merged(Block).headers,
                 Agreed(n)', \A z \in DOMAIN zones : z \in DOMAIN zones' /\ zones'[z] = zones[z],
                 \A z \in DOMAIN zones' : Distinct(zones'[z])
          PROVE  HeadersInv'
      <3>1. ASSUME NEW b \in DOMAIN conf'
            PROVE  (conf'[b].headers = Unset \/ Distinct(conf'[b].headers)) /\ Agreed(b)'
        <4>1. CASE b = Block
          BY <2>1, <2>2, <2>n, <4>1, Grown
        <4>2. CASE b # Block
          <5>1. b \in DOMAIN conf /\ conf'[b] = conf[b]
            BY <2>2, <3>1, <4>2, Grown
          <5>2. Agreed(b)
            BY <5>1 DEF HeadersInv
          <5> QED  BY <2>2, <2>c, <5>1, <5>2 DEF HeadersInv, Agreed
        <4> QED  BY <4>1, <4>2
      <3> QED  BY <2>2, <3>1 DEF HeadersInv
    <2>3. ASSUME NEW c, conf' = Append(conf, c), c.headers = Merged(Block).headers,
                 c.handler = None, zones' = zones
          PROVE  HeadersInv'
      <3>1. Agreed(n)'
        BY <2>3, <2>n, Grown DEF Agreed
      <3> QED  BY <2>2, <2>3, <3>1 DEF HeadersInv
    <2>4. CASE conf' = Append(conf, Plain(Block)) /\ EnabledSlots(Block) = {} /\ zones' = zones
      <3>1. Parent.handler = None
        BY <2>0, <2>4, PlainHasNoHandler
      <3> QED  BY <2>3, <2>4, <3>1, PlainFields
    <2>5. ASSUME NEW i, Skip(i) PROVE HeadersInv'
      <3>1. conf' = Append(conf, MergedUpTo(Block, i)) /\ zones' = zones
        BY <2>5 DEF Skip
      <3> QED  BY <2>3, <3>1, MergedFields
    <2>6. ASSUME NEW i, Attach(i) PROVE HeadersInv'
      <3> DEFINE c == Attached(Block, i)
                 p == Protocols[i]
                 z == CacheOf(Block, p)
                 hs == Merged(Block).headers
      <3>1. /\ conf' = Append(conf, c)
            /\ Indexes(Block, p) => Agrees(z, hs)
            /\ IF Indexes(Block, p) THEN Register(z, hs) ELSE zones' = zones
        BY <2>6 DEF Attach
      <3>2. /\ c.headers = hs /\ c.index = Merged(Block).index /\ c.protocol = p
            /\ c.handler # None => Complete(Block, p)
        BY AttachedFields
      <3>3. Distinct(hs)
        BY <2>1, <3>1
      <3> HIDE DEF c, hs
      <3>4. /\ \A y \in DOMAIN zones : y \in DOMAIN zones' /\ zones'[y] = zones[y]
            /\ \A y \in DOMAIN zones' : Distinct(zones'[y])
        BY <3>1, <3>3 DEF Register, HeadersInv
      <3>5. ASSUME Indexes(Block, p), z \in Zones
            PROVE  z \in DOMAIN zones' /\ Range(zones'[z]) = Range(hs)
        <4>1. CASE z \in DOMAIN zones
          <5>1. zones'[z] = zones[z] /\ z \in DOMAIN zones'
            BY <3>4, <4>1
          <5>2. HeadersEqual(zones[z], hs) /\ Distinct(zones[z])
            BY <3>1, <3>5, <4>1 DEF Agrees, HeadersInv
          <5> QED  BY <3>3, <5>1, <5>2, EqualHeaders
        <4>2. CASE z \notin DOMAIN zones
          <5>1. zones' = [y \in DOMAIN zones \cup {z} |-> IF y = z THEN hs ELSE zones[y]]
            BY <3>1, <3>5, <4>2 DEF Register
          <5>2. z \in DOMAIN zones' /\ zones'[z] = hs
            BY <5>1
          <5> QED  BY <5>2
        <4> QED  BY <4>1, <4>2
      <3>6. Agreed(n)'
        <4>1. conf'[n] = c
          BY <2>n, <3>1, Grown
        <4> QED  BY <2>c, <2>n, <3>2, <3>5, <4>1 DEF Agreed, Indexes
      <3> QED  BY <2>2, <3>1, <3>2, <3>4, <3>6 DEF hs
    <2>7. CASE conf' = conf /\ zones' = zones
      BY <2>c, <2>7 DEF HeadersInv, Agreed
    <2> QED  BY <1>2, <2>4, <2>5, <2>6, <2>7, MergeSteps
  <1> QED  BY <1>1, <1>2

LEMMA InitSlots == DispatchInit => SlotsInv
  <1> SUFFICES ASSUME DispatchInit PROVE SlotsInv
    OBVIOUS
  <1>1. tree \in Trees /\ conf = <<Parsed(tree[1])>>
    BY DEF DispatchInit, Init
  <1>2. 1 \in DOMAIN tree
    BY <1>1, TreesAssumption
  <1>3. \A i \in 1..Len(Protocols) : Parsed(tree[1]).purge[i] \in Slot \cup {Unset}
    BY <1>1, <1>2, ParsedFields
  <1>4. /\ Parsed(tree[1]).purge \in [1..Len(Protocols) -> Slot \cup {Unset}]
        /\ Parsed(tree[1]).handler = None
    BY <1>3 DEF Parsed
  <1>5. DOMAIN conf = {1} /\ conf[1] = Parsed(tree[1])
    BY <1>1
  <1> QED  BY <1>4, <1>5 DEF SlotsInv

LEMMA InitHeaders ==
    ASSUME DistinctHeaders
    PROVE  DispatchInit => HeadersInv
  <1> SUFFICES ASSUME DispatchInit PROVE HeadersInv
    OBVIOUS
  <1>1. tree \in Trees /\ conf = <<Parsed(tree[1])>> /\ DOMAIN zones = {}
    BY DEF DispatchInit, Init
  <1>2. 1 \in DOMAIN tree
    BY <1>1, TreesAssumption
  <1>3. DOMAIN conf = {1} /\ conf[1].headers = tree[1].headers /\ conf[1].handler = None
    BY <1>1 DEF Parsed
  <1> QED  BY <1>1, <1>2, <1>3 DEF HeadersInv, Agreed, DistinctHeaders

(* Where no list of tag headers names a header twice, the tags of an indexed *)
(* zone are read from one set of headers, whichever block the request is in: *)
(* register_cache refuses what would differ.                                 *)
THEOREM ZonesHaveOneHeaderList == DistinctHeaders => (Spec => []OneHeaderList)
  <1> SUFFICES ASSUME DistinctHeaders PROVE Spec => []OneHeaderList
    OBVIOUS
  <1>1. DispatchInit => SlotsInv /\ HeadersInv
    BY InitSlots, InitHeaders
  <1>2. DispatchInv /\ SlotsInv /\ HeadersInv /\ [Next]_vars => SlotsInv' /\ HeadersInv'
    BY NextSlots, NextHeaders DEF DispatchInv
  <1>3. ASSUME DispatchInv, HeadersInv PROVE OneHeaderList
    <2> SUFFICES ASSUME Configured, NEW b \in 2..Len(tree) PROVE Agreed(b)
      BY DEF OneHeaderList, Agreed
    <2>1. b \in DOMAIN conf
      BY <1>3 DEF DispatchInv, ConfInv, Configured
    <2> QED  BY <1>3, <2>1 DEF HeadersInv
  <1> QED  BY <1>1, <1>2, <1>3, Invariance, PTL DEF Spec

-----------------------------------------------------------------------------
(* Blocks of one protocol. *)

Enabled(s) == s # Unset /\ s.enable

(* m is the nearest block, from b outwards, with a purge directive of p. *)
Nearest(b, p, m) == m \in Purging(b, p) /\ \A k \in Purging(b, p) : k <= m

(* The slot of p in block b is enabled below a purge directive, with the     *)
(* flags of the nearest one; no other slot is.                               *)
SlotState(b, p, s) ==
    /\ Enabled(s) <=> Purging(b, p) # {}
    /\ \A m \in 1..b : Nearest(b, p, m) =>
           s.soft = tree[m].purge[p].soft /\ s.all = tree[m].purge[p].all

SlotStates(b, p, slots) ==
    \A j \in 1..Len(Protocols) :
        IF Protocols[j] = p THEN SlotState(b, p, slots[j]) ELSE ~Enabled(slots[j])

(* Of the configuration c of block b: purges reach its cache, *)
Reaches(b, p, c) ==
    Purgeable(b, p) =>
        LET nearest == tree[Max(Purging(b, p))].purge[p] IN
        /\ c.content = Access /\ c.protocol = p /\ c.handler # None
        /\ c.conf.soft = nearest.soft /\ c.conf.all = nearest.all

(* what is kept for the `if's in it is the handler it would have, *)
KeepsHandler(b, p, c) ==
    /\ c.original \in {None, p}
    /\ b # 1 /\ HasPass(b, p) /\ Purging(b, p) # {} => c.original = p

(* and so is the one that its ordinary requests get, which nginx first gives *)
(* to the handler in force, served.                                          *)
Contents == [k \in 1..Len(tree) |-> tree[k].content]

Ordinary(b, p, c, served) ==
    /\ served = Access => Purging(b, p) # {}
    /\ (IF served = Access THEN c.original ELSE served) = ContentHandler(b, Contents)

Kind(b, p, c, served) ==
    /\ SlotStates(b, p, c.purge) /\ KeepsHandler(b, p, c)
    /\ Ordinary(b, p, c, served)
    /\ b # 1 => Reaches(b, p, c)

ProtocolInv ==
    \A p \in Range(Protocols) : OneProtocol(p) =>
        \A b \in DOMAIN conf : Kind(b, p, conf[b], ContentHandler(b, Handlers))

LEMMA PurgingBelow ==
    ASSUME tree \in Trees, NEW n \in DOMAIN tree, n # 1, NEW p
    PROVE  /\ n \in Nat /\ n > 1 /\ n - 1 \in Nat
           /\ p \notin DOMAIN tree[n].purge => Purging(n, p) = Purging(n - 1, p)
           /\ p \in DOMAIN tree[n].purge <=> n \in Purging(n, p)
           /\ \A k \in Purging(n, p) : k \in 1..n
  <1>1. DOMAIN tree = 1..Len(tree) /\ Len(tree) \in Nat
    BY TreesAssumption
  <1>2. n \in Nat /\ n > 1
    BY <1>1
  <1> QED  BY <1>2 DEF Purging

LEMMA NearestIsMax ==
    ASSUME NEW b \in Nat, NEW p, Purging(b, p) # {}
    PROVE  Nearest(b, p, Max(Purging(b, p))) /\ Max(Purging(b, p)) \in 1..b
  <1>1. Purging(b, p) \in SUBSET (1..b)
    BY DEF Purging
  <1> QED  BY <1>1, MaxIsIn DEF Nearest

(* What the slots of the next block are merged into. *)
LEMMA SlotsMerge ==
    ASSUME ConfInv, SlotsInv, tree \in Trees, NEW n \in DOMAIN tree, n # 1, n = Block,
           NEW p, OneProtocol(p), SlotStates(n - 1, p, Parent.purge)
    PROVE  /\ SlotStates(n, p, Slots(n))
           /\ \A j \in 1..Len(Protocols) :
                 Slots(n)[j].enable => /\ Protocols[j] = p
                                       /\ Slots(n)[j].configured <=> n \in Purging(n, p)
  <1> DEFINE own == Parsed(tree[n]).purge
             prev == Parent.purge
  <1>0. /\ n \in Nat /\ n > 1 /\ n - 1 \in Nat
        /\ p \notin DOMAIN tree[n].purge => Purging(n, p) = Purging(n - 1, p)
        /\ p \in DOMAIN tree[n].purge <=> n \in Purging(n, p)
        /\ \A k \in Purging(n, p) : k \in 1..n
    BY PurgingBelow
  <1>a. DOMAIN tree[n].purge \subseteq {p}
    BY TreesAssumption DEF OneProtocol
  <1>b. ASSUME NEW j \in 1..Len(Protocols)
        PROVE  prev[j] \in Slot \cup {Unset} /\ own[j] \in Slot \cup {Unset}
    <2>1. Len(conf) \in DOMAIN conf
      BY DEF ConfInv
    <2> QED  BY <2>1, ParsedFields DEF SlotsInv, Parent
  <1>c. \A j \in 1..Len(Protocols) : Slots(n)[j] = MergeConf(own[j], prev[j]) /\ Slots(n)[j] \in Slot
    BY <1>b, MergesConf DEF Slots
  <1>d. Unset \notin Slot
    BY ValuesAssumption DEF Slot
  <1>1. ASSUME NEW j \in 1..Len(Protocols), Protocols[j] # p
        PROVE  ~Enabled(Slots(n)[j])
    <2>1. own[j] = Unset
      BY <1>1, <1>a, ParsedFields
    <2>2. ~Enabled(prev[j])
      BY <1>1 DEF SlotStates
    <2> QED  BY <1>b, <1>c, <2>1, <2>2, MergesConf DEF Enabled
  <1>2. ASSUME NEW j \in 1..Len(Protocols), Protocols[j] = p, p \in DOMAIN tree[n].purge
        PROVE  SlotState(n, p, Slots(n)[j]) /\ Slots(n)[j].configured
    <2>1. /\ own[j] # Unset /\ own[j].enable /\ own[j].configured
          /\ own[j].soft = tree[n].purge[p].soft /\ own[j].all = tree[n].purge[p].all
      BY <1>2, ParsedFields
    <2>2. Slots(n)[j] = own[j]
      BY <1>b, <1>c, <2>1, MergesConf
    <2>3. \A m \in 1..n : Nearest(n, p, m) => m = n
      BY <1>0, <1>2 DEF Nearest
    <2>4. Purging(n, p) # {}
      BY <1>0, <1>2
    <2> QED  BY <2>1, <2>2, <2>3, <2>4 DEF SlotState, Enabled
  <1>3. ASSUME NEW j \in 1..Len(Protocols), Protocols[j] = p, p \notin DOMAIN tree[n].purge
        PROVE  SlotState(n, p, Slots(n)[j]) /\ (Slots(n)[j].enable => ~Slots(n)[j].configured)
    <2>1. own[j] = Unset /\ Purging(n, p) = Purging(n - 1, p)
      BY <1>0, <1>3, ParsedFields
    <2>2. SlotState(n - 1, p, prev[j])
      BY <1>3 DEF SlotStates
    <2>3. CASE Enabled(prev[j])
      <3>1. /\ Slots(n)[j].enable /\ ~Slots(n)[j].configured
            /\ Slots(n)[j].soft = prev[j].soft /\ Slots(n)[j].all = prev[j].all
        BY <1>b, <1>c, <2>1, <2>3, MergesConf DEF Enabled
      <3>2. Enabled(Slots(n)[j])
        BY <1>c, <1>d, <3>1 DEF Enabled
      <3>3. \A m \in 1..n : Nearest(n, p, m) => m \in 1..(n - 1) /\ Nearest(n - 1, p, m)
        BY <1>0, <2>1 DEF Nearest, Purging
      <3> QED  BY <2>1, <2>2, <2>3, <3>1, <3>2, <3>3 DEF SlotState
    <2>4. CASE ~Enabled(prev[j])
      <3>0. prev[j] = Unset \/ ~prev[j].enable
        BY <2>4 DEF Enabled
      <3>1. ~Slots(n)[j].enable
        <4>1. ASSUME NEW y \in Slot \cup {Unset}, y = Unset \/ ~y.enable
              PROVE  ~MergeConf(Unset, y).enable
          BY <4>1, MergesConf
        <4>2. prev[j] \in Slot \cup {Unset}
          BY <1>b
        <4>3. ~MergeConf(Unset, prev[j]).enable
          BY <3>0, <4>1, <4>2
        <4>4. Slots(n)[j] = MergeConf(Unset, prev[j])
          BY <1>c, <2>1
        <4> QED  BY <4>3, <4>4
      <3>2. Purging(n, p) = {}
        BY <2>1, <2>2, <2>4 DEF SlotState
      <3> QED  BY <3>1, <3>2 DEF SlotState, Enabled, Nearest
    <2> QED  BY <2>3, <2>4
  <1>4. SlotStates(n, p, Slots(n))
    BY <1>1, <1>2, <1>3 DEF SlotStates
  <1>5. ASSUME NEW j \in 1..Len(Protocols), Slots(n)[j].enable
        PROVE  Protocols[j] = p /\ (Slots(n)[j].configured <=> n \in Purging(n, p))
    <2>1. Protocols[j] = p
      BY <1>1, <1>5, <1>c, <1>d DEF Enabled
    <2> QED  BY <1>0, <1>2, <1>3, <1>5, <2>1
  <1> QED  BY <1>4, <1>5

(* The slots of its configuration, and which are enabled. *)
LEMMA NewSlots ==
    ASSUME ConfInv, SlotsInv, tree \in Trees, NEW n \in DOMAIN tree, n # 1, n = Block,
           NEW p \in Range(Protocols), OneProtocol(p), SlotStates(n - 1, p, Parent.purge)
    PROVE  /\ EnabledSlots(n) = {} =>
                 /\ Purging(n, p) = {} /\ Purging(n - 1, p) = {}
                 /\ SlotStates(n, p, Plain(n).purge)
           /\ \A i \in EnabledSlots(n) :
                 /\ Protocols[i] = p /\ Purging(n, p) # {}
                 /\ SlotStates(n, p, MergedUpTo(n, i).purge)
                 /\ Slots(n)[i].configured <=> n \in Purging(n, p)
                 /\ SlotState(n, p, Slots(n)[i])
  <1>1. /\ SlotStates(n, p, Slots(n))
        /\ \A j \in 1..Len(Protocols) :
              Slots(n)[j].enable => /\ Protocols[j] = p
                                    /\ Slots(n)[j].configured <=> n \in Purging(n, p)
    BY SlotsMerge
  <1>2. /\ Slots(n) \in [1..Len(Protocols) -> Slot] /\ Unset \notin Slot
        /\ Len(Protocols) \in Nat /\ DOMAIN Protocols = 1..Len(Protocols)
    BY SlotsTyped, ProtocolsAssumption, ValuesAssumption DEF Slot
  <1>3. PICK i0 \in 1..Len(Protocols) : Protocols[i0] = p
    BY <1>2 DEF Range
  <1>4. ASSUME EnabledSlots(n) = {}
        PROVE  /\ Purging(n, p) = {} /\ Purging(n - 1, p) = {}
               /\ SlotStates(n, p, Plain(n).purge)
    <2>1. ~Enabled(Slots(n)[i0])
      BY <1>4 DEF EnabledSlots, Enabled
    <2>2. Purging(n, p) = {}
      BY <1>1, <1>3, <2>1 DEF SlotStates, SlotState
    <2>3. Purging(n - 1, p) = {}
      <3>1. n \in Nat /\ n > 1
        BY PurgingBelow
      <3> QED  BY <2>2, <3>1 DEF Purging
    <2>4. \A j \in 1..Len(Protocols) : Plain(n).purge[j] = Slots(n)[j]
      BY <1>2, PlainFields, MergedFields
    <2> QED  BY <1>1, <2>2, <2>3, <2>4 DEF SlotStates
  <1>5. ASSUME NEW i \in EnabledSlots(n)
        PROVE  /\ Protocols[i] = p /\ Purging(n, p) # {}
               /\ SlotStates(n, p, MergedUpTo(n, i).purge)
               /\ Slots(n)[i].configured <=> n \in Purging(n, p)
               /\ SlotState(n, p, Slots(n)[i])
    <2>1. i \in 1..Len(Protocols) /\ Slots(n)[i].enable
      BY DEF EnabledSlots
    <2>2. Protocols[i] = p /\ (Slots(n)[i].configured <=> n \in Purging(n, p))
      BY <1>1, <2>1
    <2>3. Enabled(Slots(n)[i])
      BY <1>2, <2>1 DEF Enabled
    <2>4. SlotState(n, p, Slots(n)[i])
      BY <1>1, <2>1, <2>2 DEF SlotStates
    <2>5. Purging(n, p) # {}
      BY <2>3, <2>4 DEF SlotState
    <2>6. ASSUME NEW j \in 1..Len(Protocols)
          PROVE  IF Protocols[j] = p THEN SlotState(n, p, MergedUpTo(n, i).purge[j])
                 ELSE ~Enabled(MergedUpTo(n, i).purge[j])
      <3>1. MergedUpTo(n, i).purge[j] = IF j <= i THEN Slots(n)[j] ELSE Parsed(tree[n]).purge[j]
        <4>1. MergedUpTo(n, i).purge =
                [k \in 1..Len(Protocols) |->
                    IF k <= i THEN Slots(n)[k] ELSE Parsed(tree[n]).purge[k]]
          BY MergedFields
        <4> QED  BY <4>1
      <3>2. CASE Protocols[j] = p
        <4>1. j = i
          BY <1>2, <2>1, <2>2, <3>2, ProtocolsAssumption
        <4>2. j <= i
          BY <2>1, <4>1
        <4> QED  BY <2>4, <3>1, <3>2, <4>1, <4>2
      <3>3. CASE Protocols[j] # p
        <4>1. Protocols[j] \notin DOMAIN tree[n].purge
          BY <3>3, TreesAssumption DEF OneProtocol
        <4>2. ~Enabled(Parsed(tree[n]).purge[j])
          BY <4>1, ParsedFields DEF Enabled
        <4>3. ~Enabled(Slots(n)[j])
          BY <1>1, <3>3 DEF SlotStates
        <4> QED  BY <3>1, <3>3, <4>2, <4>3
      <3> QED  BY <3>2, <3>3
    <2>7. SlotStates(n, p, MergedUpTo(n, i).purge)
      BY <2>6 DEF SlotStates
    <2> QED  BY <2>2, <2>4, <2>5, <2>7
  <1> QED  BY <1>4, <1>5

(* The next block, by the three ways in which it is merged. *)
Merging(n, p) ==
    /\ tree \in Trees /\ n \in DOMAIN tree /\ n # 1 /\ n = Block
    /\ p \in Range(Protocols) /\ OneProtocol(p)
    /\ SlotStates(n - 1, p, Parent.purge) /\ KeepsHandler(n - 1, p, Parent)
    /\ Ordinary(n - 1, p, Parent, ContentHandler(n - 1, Handlers))

(* The handler in force in block n with content handler h. *)
Serves(n, h) ==
    IF tree[n].kind = "if" /\ h = None THEN ContentHandler(n - 1, Handlers) ELSE h

(* The blocks have one handler, p, so that it is in force where it is passed *)
(* to and none elsewhere.                                                    *)
LEMMA WithoutModule ==
    ASSUME tree \in Trees, NEW p, OneProtocol(p), NEW n \in DOMAIN tree
    PROVE  /\ ContentHandler(n, Contents) = IF HasPass(n, p) THEN p ELSE None
           /\ ContentHandler(n, Contents) # Access
  <1>1. DOMAIN tree = 1..Len(tree) /\ Len(tree) \in Nat
    BY TreesAssumption
  <1>2. n \in Nat /\ n >= 1 /\ Chain(n) \subseteq 1..Len(tree)
    <2>1. n \in Nat /\ n >= 1 /\ n <= Len(tree)
      BY <1>1
    <2>2. Chain(n) \subseteq 1..n
      BY <2>1, ChainOf
    <2> QED  BY <1>1, <2>1, <2>2
  <1>3. \A i \in Chain(n) : /\ Contents[i] = tree[i].content /\ tree[i].content \in {p, None}
                            /\ tree[i].content # Access
    BY <1>1, <1>2, TreesAssumption DEF OneProtocol, Contents
  <1>4. None # Access
    BY ValuesAssumption
  <1>5. CASE ContentHandler(n, Contents) = None /\ \A i \in Chain(n) : Contents[i] = None
    BY <1>3, <1>4, <1>5 DEF HasPass
  <1>6. ASSUME NEW i \in Chain(n), Contents[i] # None, ContentHandler(n, Contents) = Contents[i]
        PROVE  /\ ContentHandler(n, Contents) = IF HasPass(n, p) THEN p ELSE None
               /\ ContentHandler(n, Contents) # Access
    BY <1>3, <1>6 DEF HasPass
  <1> QED  BY <1>2, <1>5, <1>6, HandlerIn

LEMMA BlockFacts ==
    ASSUME NEW n, NEW p, Merging(n, p)
    PROVE  /\ n \in Nat /\ n > 1 /\ n - 1 \in DOMAIN tree
           /\ tree[n].content \in {None, p} /\ tree[n].content # Access /\ None # Access
           /\ tree[n].kind = "if" => /\ n - 1 # 1 /\ n \notin Purging(n, p)
                                     /\ Purging(n, p) = Purging(n - 1, p)
           /\ HasPass(n, p) <=> \/ tree[n].content = p
                                \/ tree[n].kind = "if" /\ HasPass(n - 1, p)
           /\ ContentHandler(n, Contents) = IF HasPass(n, p) THEN p ELSE None
           /\ ContentHandler(n, Contents) # Access
           /\ ContentHandler(n - 1, Contents) = IF HasPass(n - 1, p) THEN p ELSE None
           /\ ContentHandler(n - 1, Contents) # Access
  <1>1. tree \in Trees /\ n \in DOMAIN tree /\ n # 1 /\ OneProtocol(p)
    BY DEF Merging
  <1>2. DOMAIN tree = 1..Len(tree) /\ Len(tree) \in Nat /\ tree[1].kind = "http"
    BY <1>1, TreesAssumption
  <1>3. n \in Nat /\ n > 1 /\ n - 1 \in DOMAIN tree
    BY <1>1, <1>2
  <1>4. tree[n].content # Access /\ None # Access
    BY <1>1, <1>3, TreesAssumption, ValuesAssumption
  <1>5. tree[n].content \in {None, p}
    BY <1>1, <1>2 DEF OneProtocol
  <1>6. ASSUME tree[n].kind = "if"
        PROVE  n - 1 # 1 /\ n \notin Purging(n, p) /\ Purging(n, p) = Purging(n - 1, p)
    <2>1. tree[n - 1].kind \in {"location", "if"} /\ DOMAIN tree[n].purge = {}
      BY <1>1, <1>6, TreesAssumption
    <2>2. n - 1 # 1
      BY <1>2, <2>1
    <2> QED  BY <1>1, <2>1, <2>2, PurgingBelow
  <1>7. HasPass(n, p) <=> \/ tree[n].content = p
                          \/ tree[n].kind = "if" /\ HasPass(n - 1, p)
    BY <1>3, PassOf
  <1> QED  BY <1>1, <1>3, <1>4, <1>5, <1>6, <1>7, WithoutModule

LEMMA PlainKind ==
    ASSUME ConfInv, SlotsInv, NEW n, NEW p, Merging(n, p), EnabledSlots(n) = {}
    PROVE  Kind(n, p, Plain(n), Serves(n, Plain(n).content))
  <1> DEFINE c == Plain(n)
             up == ContentHandler(n - 1, Handlers)
             served == Serves(n, c.content)
  <1>1. Purging(n, p) = {} /\ Purging(n - 1, p) = {} /\ SlotStates(n, p, c.purge)
    BY NewSlots DEF Merging
  <1>2. c.content = tree[n].content /\ c.original = Parent.original
    BY PlainFields
  <1>3. up # Access /\ up = ContentHandler(n - 1, Contents) /\ Parent.original \in {None, p}
    BY <1>1 DEF Merging, Ordinary, KeepsHandler
  <1>4. served = IF tree[n].kind = "if" /\ tree[n].content = None THEN up ELSE tree[n].content
    BY <1>2 DEF Serves
  <1> HIDE DEF c, up, served
  <1>5. KeepsHandler(n, p, c) /\ Reaches(n, p, c)
    BY <1>1, <1>2, <1>3 DEF KeepsHandler, Reaches, Purgeable
  <1>6. served # Access /\ served = ContentHandler(n, Contents)
    BY <1>3, <1>4, BlockFacts
  <1>7. Ordinary(n, p, c, served)
    BY <1>6 DEF Ordinary
  <1> QED  BY <1>1, <1>5, <1>7 DEF Kind, c, served

LEMMA SkippedKind ==
    ASSUME ConfInv, SlotsInv, NEW n, NEW p, Merging(n, p), NEW i \in EnabledSlots(n),
           ~Applies(n, Slots(n)[i], Protocols[i])
    PROVE  Kind(n, p, MergedUpTo(n, i), Serves(n, MergedUpTo(n, i).content))
  <1> DEFINE c == MergedUpTo(n, i)
             up == ContentHandler(n - 1, Handlers)
             served == Serves(n, c.content)
  <1>1. /\ Protocols[i] = p /\ Purging(n, p) # {} /\ SlotStates(n, p, c.purge)
        /\ Slots(n)[i].configured <=> n \in Purging(n, p)
    BY NewSlots DEF Merging
  <1>2. c.content = tree[n].content /\ c.original = None
    BY MergedFields
  <1>3. (IF up = Access THEN Parent.original ELSE up) = ContentHandler(n - 1, Contents)
    BY DEF Merging, Ordinary
  <1>4. served = IF tree[n].kind = "if" /\ tree[n].content = None THEN up ELSE tree[n].content
    BY <1>2 DEF Serves
  <1> HIDE DEF c, up, served
  <1>5. ~HasPass(n, p)
    BY <1>1 DEF Applies
  <1>6. KeepsHandler(n, p, c)
    BY <1>2, <1>5 DEF KeepsHandler
  <1>7. ~Purgeable(n, p)
    BY <1>1, <1>5 DEF Purgeable, Applies, Complete
  <1>8. served \in {Access, None}
    BY <1>3, <1>4, <1>5, BlockFacts
  <1>9. Ordinary(n, p, c, served)
    BY <1>1, <1>2, <1>5, <1>8, BlockFacts DEF Ordinary
  <1> QED  BY <1>1, <1>6, <1>7, <1>9 DEF Kind, Reaches, c, served

LEMMA AttachedKind ==
    ASSUME ConfInv, SlotsInv, NEW n, NEW p, Merging(n, p), NEW i \in EnabledSlots(n),
           Applies(n, Slots(n)[i], Protocols[i])
    PROVE  Kind(n, p, Attached(n, i), Serves(n, Attached(n, i).content))
  <1> DEFINE c == Attached(n, i)
             s == Slots(n)[i]
  <1>1. /\ Protocols[i] = p /\ Purging(n, p) # {} /\ SlotStates(n, p, MergedUpTo(n, i).purge)
        /\ s.configured <=> n \in Purging(n, p)
        /\ SlotState(n, p, s)
    BY NewSlots DEF Merging
  <1>2. /\ c.purge = MergedUpTo(n, i).purge /\ c.conf = s /\ c.protocol = p /\ c.content = Access
        /\ c.original = OriginalHandler(s, tree[n].content)
        /\ c.handler = IF Complete(n, p) THEN "protocol_handler" ELSE None
    BY <1>1, AttachedFields
  <1>3. Applies(n, s, p)
    BY <1>1
  <1> HIDE DEF c, s
  <1>4. /\ n \in Nat /\ n > 1
        /\ tree[n].content \in {None, p} /\ tree[n].content # Access /\ None # Access
        /\ tree[n].kind = "if" => /\ n - 1 # 1 /\ n \notin Purging(n, p)
                                  /\ Purging(n, p) = Purging(n - 1, p)
        /\ HasPass(n, p) <=> \/ tree[n].content = p
                             \/ tree[n].kind = "if" /\ HasPass(n - 1, p)
        /\ ContentHandler(n, Contents) = IF HasPass(n, p) THEN p ELSE None
    BY BlockFacts
  <1>5. KeepsHandler(n - 1, p, Parent)
    BY DEF Merging
  <1>6. /\ c.original = IF Parent.original # None /\ ~s.configured THEN Parent.original
                        ELSE tree[n].content
        /\ Parent.original \in {None, p}
    BY <1>2, <1>4, <1>5 DEF OriginalHandler, KeepsHandler
  <1>7. KeepsHandler(n, p, c)
    <2>1. ASSUME HasPass(n, p), tree[n].content # p PROVE c.original = p
      <3>1. tree[n].kind = "if" /\ HasPass(n - 1, p) /\ tree[n].content = None
        BY <1>4, <2>1
      <3>2. ~s.configured /\ Purging(n - 1, p) # {} /\ n - 1 # 1
        BY <1>1, <1>4, <3>1
      <3>3. Parent.original = p
        BY <1>5, <3>1, <3>2 DEF KeepsHandler
      <3> QED  BY <1>6, <2>1, <3>1, <3>2, <3>3
    <2>2. tree[n].content = p => c.original = p
      BY <1>6
    <2>3. c.original \in {None, p}
      BY <1>4, <1>6
    <2> QED  BY <2>1, <2>2, <2>3 DEF KeepsHandler
  <1>8. Reaches(n, p, c)
    <2>1. SUFFICES ASSUME Purgeable(n, p)
                   PROVE  LET nearest == tree[Max(Purging(n, p))].purge[p] IN
                          /\ c.content = Access /\ c.protocol = p /\ c.handler # None
                          /\ c.conf.soft = nearest.soft /\ c.conf.all = nearest.all
      BY DEF Reaches
    <2>2. Nearest(n, p, Max(Purging(n, p))) /\ Max(Purging(n, p)) \in 1..n
      BY <1>1, <1>4, NearestIsMax
    <2>3. /\ s.soft = tree[Max(Purging(n, p))].purge[p].soft
          /\ s.all = tree[Max(Purging(n, p))].purge[p].all
      BY <1>1, <2>2 DEF SlotState
    <2>4. c.handler # None
      BY <1>2, <2>1, ValuesAssumption DEF Purgeable
    <2> QED  BY <1>2, <2>3, <2>4
  <1>9. Ordinary(n, p, c, Access)
    <2>1. CASE HasPass(n, p)
      BY <1>1, <1>4, <1>7, <2>1 DEF Ordinary, KeepsHandler
    <2>2. CASE ~HasPass(n, p)
      <3>1. s.configured /\ tree[n].content = None
        BY <1>3, <1>4, <2>2 DEF Applies
      <3> QED  BY <1>1, <1>4, <1>6, <2>2, <3>1 DEF Ordinary
    <2> QED  BY <2>1, <2>2
  <1>10. Serves(n, c.content) = Access
    BY <1>2, <1>4 DEF Serves
  <1> QED  BY <1>1, <1>2, <1>7, <1>8, <1>9, <1>10 DEF Kind, c

LEMMA InitProtocol == DispatchInit => ProtocolInv
  <1> SUFFICES ASSUME DispatchInit, NEW p \in Range(Protocols), OneProtocol(p), NEW b \in DOMAIN conf
               PROVE  Kind(b, p, conf[b], ContentHandler(b, Handlers))
    BY DEF ProtocolInv
  <1>1. tree \in Trees /\ conf = <<Parsed(tree[1])>>
    BY DEF DispatchInit, Init
  <1>2. 1 \in DOMAIN tree /\ 1 \in 1..Len(tree)
    BY <1>1, TreesAssumption
  <1>3. b = 1 /\ conf[b] = Parsed(tree[1])
    BY <1>1
  <1>4. /\ Parsed(tree[1]).content = tree[1].content /\ Parsed(tree[1]).original = None
        /\ tree[1].content # Access
    BY <1>1, <1>2, TreesAssumption DEF Parsed
  <1>5. DOMAIN tree[1].purge \subseteq {p}
    BY <1>2 DEF OneProtocol
  <1>6. Purging(1, p) = IF p \in DOMAIN tree[1].purge THEN {1} ELSE {}
    BY DEF Purging
  <1>7. ASSUME NEW j \in 1..Len(Protocols)
        PROVE  IF Protocols[j] = p THEN SlotState(1, p, Parsed(tree[1]).purge[j])
               ELSE ~Enabled(Parsed(tree[1]).purge[j])
    <2>1. CASE Protocols[j] \in DOMAIN tree[1].purge
      <3>1. Protocols[j] = p
        BY <1>5, <2>1
      <3>2. LET s == Parsed(tree[1]).purge[j] IN
            /\ s # Unset /\ s.enable
            /\ s.soft = tree[1].purge[p].soft /\ s.all = tree[1].purge[p].all
        BY <1>1, <1>2, <2>1, <3>1, ParsedFields
      <3>3. \A m \in 1..1 : m = 1
        OBVIOUS
      <3> QED  BY <1>6, <2>1, <3>1, <3>2, <3>3 DEF SlotState, Enabled
    <2>2. CASE Protocols[j] \notin DOMAIN tree[1].purge
      <3>1. Parsed(tree[1]).purge[j] = Unset
        BY <1>1, <1>2, <2>2, ParsedFields
      <3> QED  BY <1>6, <2>2, <3>1 DEF SlotState, Enabled, Nearest
    <2> QED  BY <2>1, <2>2
  <1>8. SlotStates(1, p, Parsed(tree[1]).purge)
    BY <1>7 DEF SlotStates
  <1>9. KeepsHandler(1, p, Parsed(tree[1]))
    BY <1>4 DEF KeepsHandler
  <1>10. Ordinary(1, p, Parsed(tree[1]), ContentHandler(1, Handlers))
    <2>1. tree[1].kind # "if"
      BY <1>1, TreesAssumption
    <2>2. ContentHandler(1, Handlers) = Handlers[1] /\ ContentHandler(1, Contents) = Contents[1]
      BY <2>1, HandlerOf
    <2>3. Handlers[1] = tree[1].content /\ Contents[1] = tree[1].content
      BY <1>2, <1>3, <1>4 DEF Handlers, Contents
    <2> QED  BY <1>4, <2>2, <2>3 DEF Ordinary
  <1> QED  BY <1>3, <1>8, <1>9, <1>10 DEF Kind

LEMMA NextProtocol == ConfInv /\ SlotsInv /\ ProtocolInv /\ [Next]_vars => ProtocolInv'
  <1> SUFFICES ASSUME ConfInv, SlotsInv, ProtocolInv, [Next]_vars PROVE ProtocolInv'
    OBVIOUS
  <1>0. ASSUME tree' = tree
        PROVE  /\ \A p : OneProtocol(p)' <=> OneProtocol(p)
               /\ \A b, p, c, served : Kind(b, p, c, served)' <=> Kind(b, p, c, served)
               /\ \A b, h : ContentHandler(b, h)' = ContentHandler(b, h)
    <2>0. \A b, p : Chain(b)' = Chain(b) /\ (HasPass(b, p)' <=> HasPass(b, p))
      BY <1>0 DEF Chain, HasPass
    <2>1. \A b, p : Purging(b, p)' = Purging(b, p) /\ Purgeable(b, p)' = Purgeable(b, p)
      BY <1>0, <2>0 DEF Purging, Purgeable, Complete, HasCache, CacheOf, Caching, HasKey
    <2>9. \A b, h : ContentHandler(b, h)' = ContentHandler(b, h)
      BY <2>0 DEF ContentHandler
    <2>2. \A b, p, m : Nearest(b, p, m)' <=> Nearest(b, p, m)
      BY <2>1 DEF Nearest
    <2>3. \A b, p, s : SlotState(b, p, s)' <=> SlotState(b, p, s)
      BY <1>0, <2>1, <2>2 DEF SlotState, Enabled
    <2>4. \A b, p, slots : SlotStates(b, p, slots)' <=> SlotStates(b, p, slots)
      BY <2>3 DEF SlotStates, Enabled
    <2>5. \A b, p, c : KeepsHandler(b, p, c)' <=> KeepsHandler(b, p, c)
      BY <2>0, <2>1 DEF KeepsHandler
    <2>6. \A b, p, c : Reaches(b, p, c)' <=> Reaches(b, p, c)
      BY <1>0, <2>1 DEF Reaches
    <2>7. \A b, p, c, served : Ordinary(b, p, c, served)' <=> Ordinary(b, p, c, served)
      <3>1. \A b : ContentHandler(b, Contents)' = ContentHandler(b, Contents)
        <4>1. Contents' = Contents
          BY <1>0 DEF Contents
        <4> QED  BY <1>0, <4>1 DEF ContentHandler, Chain
      <3> QED  BY <2>1, <3>1 DEF Ordinary
    <2>8. \A p : OneProtocol(p)' <=> OneProtocol(p)
      BY <1>0 DEF OneProtocol
    <2> QED  BY <2>4, <2>5, <2>6, <2>7, <2>8, <2>9 DEF Kind
  <1>1. CASE UNCHANGED <<tree, conf>>
    <2>1. Handlers' = Handlers
      BY <1>1 DEF Handlers
    <2>2. \A b : ContentHandler(b, Handlers)' = ContentHandler(b, Handlers)
      BY <1>1, <2>1 DEF ContentHandler, Chain
    <2> QED  BY <1>0, <1>1, <2>2 DEF ProtocolInv
  <1>2. CASE Configure
    <2>0. tree \in Trees /\ Block \in DOMAIN tree /\ Block # 1 /\ tree' = tree
      BY <1>2, MergeSteps DEF ConfInv
    <2>n. PICK n : n = Block
      OBVIOUS
    <2>1. ASSUME NEW p \in Range(Protocols), OneProtocol(p), NEW c, conf' = Append(conf, c)
          PROVE  Merging(n, p)
      <3>1. Len(conf) \in DOMAIN conf /\ Parent = conf[Len(conf)] /\ Len(conf) = n - 1
        BY <2>1, <2>n, Grown
      <3>2. Kind(n - 1, p, Parent, ContentHandler(n - 1, Handlers))
        BY <2>1, <3>1 DEF ProtocolInv
      <3> QED  BY <2>0, <2>1, <2>n, <3>2 DEF Merging, Kind
    <2>2. ASSUME NEW c, conf' = Append(conf, c),
                 \A p \in Range(Protocols) : OneProtocol(p) => Kind(n, p, c, Serves(n, c.content))
          PROVE  ProtocolInv'
      <3>1. SUFFICES ASSUME NEW p \in Range(Protocols), OneProtocol(p)', NEW b \in DOMAIN conf'
                     PROVE  Kind(b, p, conf[b], ContentHandler(b, Handlers))'
        BY DEF ProtocolInv
      <3>2. OneProtocol(p)
        BY <1>0, <2>0, <3>1
      <3>3. /\ DOMAIN conf' = DOMAIN conf \cup {n} /\ n \notin DOMAIN conf /\ conf'[n] = c
            /\ \A k \in DOMAIN conf : conf'[k] = conf[k]
            /\ n - 1 \in DOMAIN conf /\ Parent = conf[n - 1]
        BY <2>2, <2>n, Grown
      <3>4. /\ DOMAIN tree = 1..Len(tree) /\ DOMAIN conf = 1..(n - 1) /\ n \in Nat /\ n > 1
            /\ n <= Len(tree) /\ Len(tree) \in Nat
        <4>1. DOMAIN tree = 1..Len(tree) /\ Len(tree) \in Nat
          BY <2>0, TreesAssumption
        <4>2. DOMAIN conf = 1..(n - 1)
          BY <2>n DEF ConfInv, Block
        <4> QED  BY <2>0, <2>n, <4>1, <4>2
      <3>5. PICK h : h = Handlers'
        OBVIOUS
      <3>6. h[n] = c.content /\ \A k \in 1..(n - 1) : h[k] = Handlers[k]
        <4>1. h = [k \in 1..Len(tree) |-> conf'[k].content]
          BY <2>0, <3>5 DEF Handlers
        <4>2. n \in 1..Len(tree) /\ \A k \in 1..(n - 1) : k \in 1..Len(tree) /\ k \in DOMAIN conf
          BY <3>4
        <4>3. \A k \in 1..Len(tree) : h[k] = conf'[k].content
          BY <4>1
        <4>4. \A k \in 1..(n - 1) : Handlers[k] = conf[k].content
          BY <4>2 DEF Handlers
        <4> QED  BY <3>3, <4>2, <4>3, <4>4
      <3>7. ContentHandler(b, Handlers)' = ContentHandler(b, h)
        BY <1>0, <2>0, <3>5 DEF ContentHandler, Chain
      <3>8. \A k \in 1..(n - 1) : ContentHandler(k, h) = ContentHandler(k, Handlers)
        <4>1. SUFFICES ASSUME NEW k \in 1..(n - 1)
                       PROVE  ContentHandler(k, h) = ContentHandler(k, Handlers)
          OBVIOUS
        <4>2. k \in Nat /\ k >= 1 /\ \A m \in 1..k : m \in 1..(n - 1)
          BY <3>4
        <4> QED  BY <3>6, <4>2, HandlerUpTo
      <3>9. CASE b = n
        <4>1. ContentHandler(n, h) = Serves(n, c.content)
          <5>1. n - 1 \in 1..(n - 1)
            BY <3>4
          <5>2. ContentHandler(n, h) = IF tree[n].kind = "if" /\ h[n] = None
                                       THEN ContentHandler(n - 1, h) ELSE h[n]
            BY <3>4, HandlerOf
          <5> QED  BY <3>6, <3>8, <5>1, <5>2 DEF Serves
        <4>2. Kind(n, p, conf'[n], ContentHandler(n, h))
          BY <2>2, <3>2, <3>3, <4>1
        <4> QED  BY <1>0, <2>0, <3>7, <3>9, <4>2
      <3>10. CASE b # n
        <4>1. b \in DOMAIN conf
          BY <3>1, <3>3, <3>10
        <4>2. Kind(b, p, conf[b], ContentHandler(b, Handlers))
          BY <3>2, <4>1 DEF ProtocolInv
        <4>3. Kind(b, p, conf'[b], ContentHandler(b, h))
          BY <3>3, <3>4, <3>8, <4>1, <4>2
        <4> QED  BY <1>0, <2>0, <3>7, <4>3
      <3> QED  BY <3>9, <3>10
    <2>3. CASE conf' = Append(conf, Plain(Block)) /\ EnabledSlots(Block) = {}
      <3>1. conf' = Append(conf, Plain(n)) /\ EnabledSlots(n) = {}
        BY <2>3, <2>n
      <3>2. \A p \in Range(Protocols) : OneProtocol(p) =>
                Kind(n, p, Plain(n), Serves(n, Plain(n).content))
        BY <2>1, <3>1, PlainKind
      <3> QED  BY <2>2, <3>1, <3>2
    <2>4. ASSUME NEW i \in EnabledSlots(Block), Skip(i) PROVE ProtocolInv'
      <3>1. /\ conf' = Append(conf, MergedUpTo(n, i)) /\ i \in EnabledSlots(n)
            /\ ~Applies(n, Slots(n)[i], Protocols[i])
        BY <2>4, <2>n DEF Skip
      <3>2. \A p \in Range(Protocols) : OneProtocol(p) =>
                Kind(n, p, MergedUpTo(n, i), Serves(n, MergedUpTo(n, i).content))
        BY <2>1, <3>1, SkippedKind
      <3> QED  BY <2>2, <3>1, <3>2
    <2>5. ASSUME NEW i \in EnabledSlots(Block), Attach(i) PROVE ProtocolInv'
      <3>1. /\ conf' = Append(conf, Attached(n, i)) /\ i \in EnabledSlots(n)
            /\ Applies(n, Slots(n)[i], Protocols[i])
        BY <2>5, <2>n DEF Attach
      <3>2. \A p \in Range(Protocols) : OneProtocol(p) =>
                Kind(n, p, Attached(n, i), Serves(n, Attached(n, i).content))
        BY <2>1, <3>1, AttachedKind
      <3> QED  BY <2>2, <3>1, <3>2
    <2>6. CASE conf' = conf
      BY <1>1, <2>0, <2>6
    <2> QED  BY <1>2, <2>3, <2>4, <2>5, <2>6, MergeSteps
  <1> QED  BY <1>1, <1>2, OtherSteps

-----------------------------------------------------------------------------
(* A request without a purge condition is passed on, at once. *)
PassedOn ==
    pc # "config" =>
        /\ Named(req.block)
        /\ ~req.cond =>
              /\ pc \in {"access", "done"}
              /\ pc = "done" =>
                    LET c == ContentHandler(req.block, Handlers) IN
                    status = IF c = Access THEN Cf.original ELSE c

LEMMA NextPassedOn == TypeOK /\ ConfInv /\ PassedOn /\ [Next]_vars => PassedOn'
  <1> SUFFICES ASSUME TypeOK, ConfInv, PassedOn, [Next]_vars PROVE PassedOn'
    OBVIOUS
  <1>1. CASE pc = "config"
    <2>1. CASE \E q \in Requests : Arrive(q)
      BY <2>1 DEF Arrive, PassedOn, Named, confVars
    <2>2. CASE ~\E q \in Requests : Arrive(q)
      <3>1. pc' = "config"
        BY <1>1, <2>2, FirstSteps DEF vars, Configure
      <3> QED  BY <3>1 DEF PassedOn
    <2> QED  BY <2>1, <2>2
  <1>2. CASE pc # "config"
    <2>1. Steady
      BY <1>2, NextConf
    <2>2. /\ Named(req.block)' <=> Named(req.block)
          /\ ContentHandler(req.block, Handlers)' = ContentHandler(req.block, Handlers)
          /\ Cf' = Cf /\ req' = req
      BY <2>1 DEF Steady, confVars, Named, ContentHandler, Chain, Handlers, Cf
    <2>3. CASE req.cond
      BY <1>2, <2>2, <2>3 DEF PassedOn
    <2>4. CASE ~req.cond
      <3>1. pc \in {"access", "done"}
        BY <1>2, <2>4 DEF PassedOn
      <3>2. UNCHANGED <<pc, status>> \/ PassOn
        BY <1>2, <2>4, <3>1, ConfigureFirst
           DEF Next, vars, Ours, Arrive, NoHandler, CacheGet, SpecialOutOfMemory,
           SpecialTags, SpecialOther, Special, TagFails, TagDone, TagDeclined, PathPurged,
           PathGone, PathFails,
           InPaths, PartialOnly, PartialIndexed, PartialPost, Walking, HandlerAnswers,
           HandlerExact, HandlerOutOfMemory, OpenAgain, Resume, ExactNotFound, ExactFails,
           FanoutDone, TagCollect, All, AllFails, PartialCollect, PartialWalk, PartialFails,
           Completion, CompletionFails, Exact, OwnAgain
      <3>3. CASE UNCHANGED <<pc, status>>
        BY <1>2, <2>2, <3>3 DEF PassedOn
      <3>4. CASE PassOn
        BY <1>2, <2>2, <3>4 DEF PassedOn, PassOn, Answer
      <3> QED  BY <3>2, <3>3, <3>4
    <2> QED  BY <2>3, <2>4
  <1> QED  BY <1>1, <1>2

MergeInv == DispatchInv /\ SlotsInv /\ ProtocolInv /\ PassedOn

LEMMA MergeInvariance == Spec => []MergeInv
  <1>1. DispatchInit => SlotsInv /\ ProtocolInv /\ PassedOn
    BY InitSlots, InitProtocol DEF DispatchInit, PassedOn
  <1>2. /\ DispatchInv /\ SlotsInv /\ ProtocolInv /\ PassedOn /\ [Next]_vars
        => SlotsInv' /\ ProtocolInv' /\ PassedOn'
    BY NextSlots, NextProtocol, NextPassedOn DEF DispatchInv
  <1> QED  BY <1>1, <1>2, Invariance, PTL DEF Spec, MergeInv

(* However deep the blocks are nested, a purge directive reaches every block *)
(* with a cache, a key and a pass below it, with the flags of the nearest    *)
(* one: the early returns of merge_loc_conf and protocol_attach leave none   *)
(* out.                                                                      *)
THEOREM PurgesReachTheirCache == Spec => []PurgeReachesItsCache
  <1>1. ASSUME MergeInv PROVE PurgeReachesItsCache
    <2> SUFFICES ASSUME Configured, NEW b \in 1..Len(tree), NEW p \in Range(Protocols),
                        OneProtocol(p), Purgeable(b, p)
                 PROVE  Reaches(b, p, conf[b])
      BY DEF PurgeReachesItsCache, Reaches
    <2>1. b \in DOMAIN conf /\ tree \in Trees
      BY <1>1 DEF MergeInv, DispatchInv, ConfInv, Configured
    <2>2. b # 1
      BY <2>1, TreesAssumption DEF Purgeable
    <2> QED  BY <1>1, <2>1, <2>2 DEF MergeInv, ProtocolInv, Kind
  <1> QED  BY <1>1, MergeInvariance, PTL

(* A request without a purge condition is answered by the content handler    *)
(* that its block would have without this module, whichever blocks           *)
(* protocol_attach has put access_handler in.                                *)
THEOREM OrdinaryRequestsServed == Spec => []OrdinaryRequests
  <1>1. ASSUME MergeInv PROVE OrdinaryRequests
    <2> SUFFICES ASSUME NEW p \in Range(Protocols), pc = "done", ~req.cond, OneProtocol(p)
                 PROVE  status = ContentHandler(req.block, [b \in 1..Len(tree) |-> tree[b].content])
      BY DEF OrdinaryRequests
    <2> DEFINE n == req.block
    <2>1. /\ tree \in Trees /\ n \in 2..Len(tree) /\ Len(tree) \in Nat
          /\ n \in DOMAIN conf
      BY <1>1 DEF MergeInv, DispatchInv, ConfInv
    <2>2. Ordinary(n, p, conf[n], ContentHandler(n, Handlers))
      BY <1>1, <2>1 DEF MergeInv, ProtocolInv, Kind
    <2>3. LET c == ContentHandler(n, Handlers) IN
          status = IF c = Access THEN conf[n].original ELSE c
      BY <1>1 DEF MergeInv, PassedOn, Cf
    <2> QED  BY <2>2, <2>3 DEF Ordinary, Contents
  <1> QED  BY <1>1, MergeInvariance, PTL
=============================================================================
