---------------------------- MODULE LocationConf -----------------------------
(***************************************************************************)
(* The configuration of one location: the blocks that enclose it, each with*)
(* the directives written in it, are merged from the outside in            *)
(* (ngx_http_cache_pilot_merge_loc_conf), and a purge directive is attached*)
(* to the blocks it applies to (protocol_attach), which puts access_handler*)
(* before their content handler and registers their cache for indexing.    *)
(* What nginx and its upstream modules merge themselves is modelled from   *)
(* how this module reads it.                                               *)
(***************************************************************************)
EXTENDS Naturals, Sequences, Functions, FiniteSetsExt

CONSTANTS Protocols,   \* sequence: the table of protocols, in its order
          Zones,       \* cache zones
          Default,     \* the default list of tag headers
          Trees,       \* the configurations: sequences of blocks, http first
          Unset, None  \* NGX_CONF_UNSET and its kin, and NULL

(* A block is a record of                                                    *)
(*   kind     "http", "server", "location" or "if"                           *)
(*   purge    partial function from the protocols to the flags of *_purge    *)
(*   index    cache_pilot_index, or Unset                                    *)
(*   headers  cache_pilot_tag_headers, or Unset                              *)
(*   mode     is there a cache_pilot_purge_mode_header?                      *)
(*   content  the handler *_pass or another module sets, or None             *)
(*   cache    partial function from the protocols to their *_cache: a zone,  *)
(*            "off" or, for a variable, something else                       *)
(*   key      the protocols with a *_cache_key                               *)

Access == "access_handler"

(* An `if' is in a location or in another `if' (one in a server serves no    *)
(* request), and the commands allow no *_purge there.  The content handlers  *)
(* are those of the other modules.                                           *)
ASSUME TreesAssumption ==
    \A t \in Trees :
        /\ t \in Seq(Range(t)) /\ t # <<>> /\ t[1].kind = "http"
        /\ \A b \in DOMAIN t :
              /\ t[b].purge \in [DOMAIN t[b].purge -> [soft : BOOLEAN, all : BOOLEAN]]
              /\ t[b].kind = "if" => /\ b > 1 /\ t[b - 1].kind \in {"location", "if"}
                                     /\ DOMAIN t[b].purge = {}
              /\ t[b].content # Access

ASSUME ProtocolsAssumption ==
    /\ Protocols \in Seq(Range(Protocols))
    /\ \A i, j \in DOMAIN Protocols : Protocols[i] = Protocols[j] => i = j

ASSUME ValuesAssumption ==
    /\ Unset \notin [enable : BOOLEAN, configured : BOOLEAN, soft : BOOLEAN, all : BOOLEAN]
    /\ None \notin {Access, "protocol_handler"}

VARIABLES tree,   \* the blocks of this configuration
          conf,   \* the merged configurations of the first blocks
          zones,  \* pmcf->zones: [registered zones -> tag headers]
          failed  \* is the configuration refused?

confVars == <<tree, conf, zones, failed>>

-----------------------------------------------------------------------------
(* The upstream modules merge before this one.  A *_cache and a *_cache_key  *)
(* are inherited, a *_pass only by the `if's of a location.                  *)

Caching(b, p) == {i \in 1..b : p \in DOMAIN tree[i].cache}

CacheOf(b, p) == tree[Max(Caching(b, p))].cache[p]

HasCache(b, p) == Caching(b, p) # {} /\ CacheOf(b, p) # "off"

HasKey(b, p) == \E i \in 1..b : p \in tree[i].key

(* Block b and, if it is an `if', the blocks up to its location. *)
Chain(b) == {i \in 1..b : \A k \in (i + 1)..b : tree[k].kind = "if"}

HasPass(b, p) == \E i \in Chain(b) : tree[i].content = p

Named(b) == tree[b].kind \in {"location", "if"}

(* The content handler of a request in block b, h giving what each block     *)
(* sets: an `if' that sets none keeps the one of the block it is in.         *)
ContentHandler(b, h) ==
    LET setting == {i \in Chain(b) : h[i] # None} IN
    IF setting = {} THEN None ELSE h[Max(setting)]

-----------------------------------------------------------------------------
(* What the directives leave in a block's configuration before it is merged. *)
Parsed(blk) ==
    [purge |-> [i \in 1..Len(Protocols) |->
                    IF Protocols[i] \in DOMAIN blk.purge
                    THEN [enable |-> TRUE, configured |-> TRUE,
                          soft |-> blk.purge[Protocols[i]].soft,
                          all |-> blk.purge[Protocols[i]].all]
                    ELSE Unset],
     index |-> blk.index, headers |-> blk.headers, mode |-> blk.mode,
     conf |-> Unset, protocol |-> Unset, handler |-> None, original |-> None,
     content |-> blk.content]

Init ==
    /\ tree \in Trees
    /\ conf = <<Parsed(tree[1])>>
    /\ zones = [z \in {} |-> None]
    /\ failed = FALSE

Disabled == [enable |-> FALSE, configured |-> FALSE, soft |-> FALSE, all |-> FALSE]

(* Mutant: an inherited directive loses its flags. *)
MergeConfBare(own, prev) ==
    IF own # Unset THEN own
    ELSE IF prev # Unset /\ prev.enable THEN [Disabled EXCEPT !.enable = TRUE]
    ELSE Disabled

(* ngx_http_cache_pilot_merge_conf *)
MergeConf(own, prev) ==
    IF own # Unset THEN own
    ELSE IF prev # Unset /\ prev.enable THEN [prev EXCEPT !.configured = FALSE]
    ELSE Disabled

UsesCache(b) == \E p \in Range(Protocols) : HasCache(b, p)

MergeIndex(b, own, prev) ==
    CASE own # Unset -> own
      [] own = Unset /\ prev # Unset -> prev
      [] OTHER -> IF UsesCache(b) THEN "on" ELSE "off"

(* The block that is merged next, its parent, and its configuration with the *)
(* settings that are not tied to a protocol.                                 *)
Block == Len(conf) + 1
Parent == conf[Len(conf)]

Merged(b) ==
    LET own == Parsed(tree[b]) IN
    [own EXCEPT !.index = MergeIndex(b, @, Parent.index),
                !.headers = CASE @ # Unset -> @
                              [] @ = Unset /\ Parent.headers # Unset -> Parent.headers
                              [] OTHER -> Default,
                !.mode = @ \/ Parent.mode]

(* The purge directives of block b are merged in the order of the table, up  *)
(* to the first that is enabled: the others are left as they were parsed.    *)
Slots(b) == [i \in 1..Len(Protocols) |-> MergeConf(Parsed(tree[b]).purge[i], Parent.purge[i])]

EnabledSlots(b) == {i \in 1..Len(Protocols) : Slots(b)[i].enable}

MergedUpTo(b, i) ==
    [Merged(b) EXCEPT !.purge = [j \in DOMAIN @ |-> IF j <= i THEN Slots(b)[j] ELSE @[j]]]

-----------------------------------------------------------------------------
(* ngx_http_cache_index_headers_equal: every header of the one is in the     *)
(* other, and there are as many.                                             *)

(* Mutant: only the lengths are compared. *)
HeadersSameLength(l, r) == Len(l) = Len(r)

HeadersEqual(l, r) == Len(l) = Len(r) /\ Range(l) \subseteq Range(r)

(* ngx_http_cache_index_register_cache; the cache of a variable is NULL. *)
Agrees(z, headers) == z \in DOMAIN zones => HeadersEqual(zones[z], headers)

Register(z, headers) ==
    zones' = IF z \in Zones \ DOMAIN zones
             THEN [y \in DOMAIN zones \cup {z} |-> IF y = z THEN headers ELSE zones[y]]
             ELSE zones

-----------------------------------------------------------------------------
(* ngx_http_cache_pilot_protocol_attach, for slot s of protocol p, enabled in *)
(* block b: does the directive apply to it, and can it be served?             *)
Applies(b, s, p) ==
    /\ HasPass(b, p) \/ HasCache(b, p) \/ HasKey(b, p) \/ (s.configured /\ Named(b))
    /\ s.configured \/ HasPass(b, p)

Complete(b, p) == HasCache(b, p) /\ HasKey(b, p)

(* Mutant: the block's own content handler is always the one kept. *)
OriginalHandlerOwn(s, content) == content

OriginalHandler(s, content) ==
    IF Parent.original # None /\ (~s.configured \/ content = Access)
    THEN Parent.original ELSE content

Attached(b, i) ==
    LET s == Slots(b)[i] IN
    [MergedUpTo(b, i) EXCEPT
        !.conf = s, !.protocol = Protocols[i],
        !.original = OriginalHandler(s, tree[b].content),
        !.content = Access,
        !.handler = IF Complete(b, Protocols[i]) THEN "protocol_handler" ELSE None]

(* The first enabled directive, if there is one. *)
Chosen(i) ==
    /\ ~failed /\ Block <= Len(tree)
    /\ EnabledSlots(Block) # {} /\ i = Min(EnabledSlots(Block))

(* The directive is not for this block: nothing more is merged. *)
Skip(i) ==
    /\ Chosen(i) /\ ~Applies(Block, Slots(Block)[i], Protocols[i])
    /\ conf' = Append(conf, MergedUpTo(Block, i))
    /\ UNCHANGED <<tree, zones, failed>>

Indexes(b, p) == Merged(b).index = "on" /\ Complete(b, p)

Attach(i) ==
    LET b == Block
        p == Protocols[i] IN
    /\ Chosen(i) /\ Applies(b, Slots(b)[i], p)
    /\ HasPass(b, p) \/ Complete(b, p)
    /\ Indexes(b, p) => Agrees(CacheOf(b, p), Merged(b).headers)
    /\ conf' = Append(conf, Attached(b, i))
    /\ IF Indexes(b, p) THEN Register(CacheOf(b, p), Merged(b).headers) ELSE UNCHANGED zones
    /\ UNCHANGED <<tree, failed>>

(* A purge location lacks its *_cache or *_cache_key, or the tag headers are *)
(* not the ones its zone is registered with.                                 *)
Refuse(i) ==
    LET b == Block
        p == Protocols[i] IN
    /\ Chosen(i) /\ Applies(b, Slots(b)[i], p)
    /\ \/ ~HasPass(b, p) /\ ~Complete(b, p)
       \/ Indexes(b, p) /\ ~Agrees(CacheOf(b, p), Merged(b).headers)
    /\ failed' = TRUE
    /\ UNCHANGED <<tree, conf, zones>>

(* No purge directive is enabled. *)
MergePlain ==
    LET b == Block IN
    /\ ~failed /\ b <= Len(tree) /\ EnabledSlots(b) = {}
    /\ conf' = Append(conf, [MergedUpTo(b, Len(Protocols)) EXCEPT
                   !.conf = IF Parent.conf = Unset THEN None ELSE Parent.conf,
                   !.protocol = Parent.protocol, !.handler = Parent.handler,
                   !.original = Parent.original])
    /\ UNCHANGED <<tree, zones, failed>>

MergeBlock == MergePlain \/ \E i \in 1..Len(Protocols) : Skip(i) \/ Attach(i) \/ Refuse(i)

Configured == ~failed /\ Len(conf) = Len(tree)

-----------------------------------------------------------------------------
(* Properties *)

(* The blocks use one upstream protocol, and have no other content handler   *)
(* and no purge directive of another protocol.                               *)
OneProtocol(p) ==
    \A b \in 1..Len(tree) : tree[b].content \in {p, None} /\ DOMAIN tree[b].purge \subseteq {p}

(* Block b's cache of protocol p can be purged there: an enclosing block has *)
(* the directive, and b passes to the upstream or has the directive itself.  *)
Purging(b, p) == {i \in 1..b : p \in DOMAIN tree[i].purge}

Purgeable(b, p) ==
    /\ tree[b].kind \in {"location", "if"} /\ Complete(b, p) /\ Purging(b, p) # {}
    /\ HasPass(b, p) \/ b \in Purging(b, p)

(* A purge directive takes effect in every block below it with a cache, a key *)
(* and a pass, or in the purge location that has it: access_handler gets the  *)
(* block's requests, with the flags of the nearest directive.  Inheritance is *)
(* over three levels, with an early return per level (merge_loc_conf,         *)
(* protocol_attach).                                                          *)
PurgeReachesItsCache ==
    Configured => \A b \in 1..Len(tree), p \in Range(Protocols) :
        OneProtocol(p) /\ Purgeable(b, p) =>
            LET nearest == tree[Max(Purging(b, p))].purge[p] IN
            /\ conf[b].content = Access /\ conf[b].protocol = p
            /\ conf[b].handler # None
            /\ conf[b].conf.soft = nearest.soft /\ conf[b].conf.all = nearest.all

(* Where an indexed zone can be purged, tags are read from the headers that   *)
(* the zone is registered with, which are the ones the scan of the zone reads:*)
(* what register_cache refuses is all that could differ (for lists that name  *)
(* no header twice).                                                          *)
OneHeaderList ==
    Configured => \A b \in 2..Len(tree) :
        LET z == CacheOf(b, conf[b].protocol) IN
        conf[b].handler # None /\ conf[b].index = "on" /\ z \in Zones =>
            z \in DOMAIN zones /\ Range(zones[z]) = Range(conf[b].headers)
=============================================================================
