---------------------------- MODULE AdserverConf ----------------------------
(***************************************************************************)
(* The configuration of the adserver module                                *)
(* (src/adserver_module/ngx_http_adserver_module.c): its directives, at    *)
(* the levels of a chain of blocks (http, server, location, a location in  *)
(* it), and the merging of each level into the next.                       *)
(*                                                                         *)
(* The directives of a level may come before and after the block of the    *)
(* next one; nginx merges when it has read all of them, from the outermost *)
(* level inwards.  The timeouts are merged in the way of buffer_size.      *)
(***************************************************************************)
EXTENDS Integers

CONSTANTS
    Sizes,        \* values that adserver_buffer_size may be given
    ngx_pagesize,
    WordLists,    \* what adserver_next_upstream may be given at a time
    Groups,       \* of servers, that adserver_pass may name
    Locations,    \* how many of the levels are locations
    None

Words == {"error", "timeout", "invalid_response", "not_found", "off"}

ASSUME SizesAssumption == Sizes \subseteq Nat /\ ngx_pagesize \in Nat
ASSUME WordListsAssumption == WordLists \subseteq (SUBSET Words) \ {{}}
ASSUME LocationsAssumption == Locations \in Nat
ASSUME NoneAssumption ==
    None \notin Sizes /\ None # ngx_pagesize /\ None \notin Groups

\* http and server have no location's directives.
Levels == 1..(2 + Locations)
IsLocation(l) == l > 2

VARIABLES
    pc,       \* "parse", "merge", "merged", or "failed": nginx does not start
    conf,     \* ngx_http_adserver_loc_conf_t of each level
    given,    \* history: conf before merging
    level     \* the next level to be merged into its parent's

vars == <<pc, conf, given, level>>

LocConf ==
    [buffer_size : Sizes \cup {None, ngx_pagesize},
     next_upstream : SUBSET Words,
     upstream : Groups \cup {None},
     handler : BOOLEAN]

ngx_http_adserver_create_loc_conf ==
    [buffer_size |-> None, next_upstream |-> {}, upstream |-> None,
     handler |-> FALSE]

Init ==
    /\ pc = "parse"
    /\ conf = [l \in Levels |-> ngx_http_adserver_create_loc_conf]
    /\ given = conf
    /\ level = 2

(***************************************************************************)
(* The directives, each of which fails with "is duplicate" the second time *)
(* but for the list of words, which grows.                                 *)
(***************************************************************************)
Set(l, c) ==
    /\ conf' = [conf EXCEPT ![l] = c]
    /\ given' = conf'
    /\ UNCHANGED <<pc, level>>

\* The directive fails, and nginx does not start.
Refused == pc' = "failed" /\ UNCHANGED <<conf, given, level>>

adserver_buffer_size(l, size) ==
    /\ pc = "parse"
    /\ IF conf[l].buffer_size = None
       THEN Set(l, [conf[l] EXCEPT !.buffer_size = size])
       ELSE Refused

adserver_next_upstream(l, words) ==
    /\ pc = "parse"
    /\ Set(l, [conf[l] EXCEPT !.next_upstream = @ \cup words])

\* The handler is the location's and is not handed to the locations in it.
\* ngx_http_upstream_add may fail too: a URL it does not take, no memory.
ngx_http_adserver_pass(l, group) ==
    /\ pc = "parse"
    /\ IsLocation(l)
    /\ \/ /\ conf[l].upstream = None
          /\ Set(l, [conf[l] EXCEPT !.upstream = group, !.handler = TRUE])
       \/ Refused

EndOfFile ==
    /\ pc = "parse"
    /\ pc' = "merge"
    /\ UNCHANGED <<conf, given, level>>

(***************************************************************************)
(* Merging.                                                                *)
(***************************************************************************)
\* Definitions with a last word of their own in their name are wrong versions
\* of the one that follows them: what a slip in the code would make of it.
MergeSize_Unset(own, prev) == IF own # None THEN own ELSE prev

\* ngx_conf_merge_size_value
MergeSize(own, prev) ==
    IF own # None THEN own ELSE IF prev # None THEN prev ELSE ngx_pagesize

MergeWords_Default(own, prev) == IF own # {} THEN own ELSE {"error", "timeout"}

\* ngx_conf_merge_bitmask_value
MergeWords(own, prev) ==
    IF own # {} THEN own ELSE IF prev # {} THEN prev ELSE {"error", "timeout"}

OffAlone(words) == IF "off" \in words THEN {"off"} ELSE words

ngx_http_adserver_merge_loc_conf(prev, c) ==
    [buffer_size |-> MergeSize(c.buffer_size, prev.buffer_size),
     next_upstream |-> OffAlone(MergeWords(c.next_upstream, prev.next_upstream)),
     upstream |-> IF c.upstream = None THEN prev.upstream ELSE c.upstream,
     handler |-> c.handler]

MergeLevel ==
    /\ pc = "merge"
    /\ level \in Levels
    /\ conf' = [conf EXCEPT ![level] =
                   ngx_http_adserver_merge_loc_conf(conf[level - 1], @)]
    /\ level' = level + 1
    /\ UNCHANGED <<pc, given>>

Merged ==
    /\ pc = "merge"
    /\ level \notin Levels
    /\ pc' = "merged"
    /\ UNCHANGED <<conf, given, level>>

Next ==
    \/ \E l \in Levels :
         \/ \E size \in Sizes : adserver_buffer_size(l, size)
         \/ \E words \in WordLists : adserver_next_upstream(l, words)
         \/ \E group \in Groups : ngx_http_adserver_pass(l, group)
    \/ EndOfFile
    \/ MergeLevel
    \/ Merged

Spec == Init /\ [][Next]_vars

-----------------------------------------------------------------------------
(***************************************************************************)
(* Properties.                                                             *)
(***************************************************************************)
\* Merging leaves nothing unset that nginx's upstream goes by.
TypeOK ==
    /\ pc \in {"parse", "merge", "merged", "failed"}
    /\ conf \in [Levels -> LocConf]
    /\ given \in [Levels -> LocConf]
    /\ level \in 2..(3 + Locations)
    /\ pc = "merged" =>
           \A l \in Levels \ {1} : /\ conf[l].buffer_size # None
                                   /\ conf[l].next_upstream # {}

\* The innermost level of S that is l or around it, if there is one.
Nearest(l, S) == {k \in S : k <= l /\ \A j \in S : j <= l => j <= k}

SizeGiven == {l \in Levels : given[l].buffer_size # None}
WordsGiven == {l \in Levels : given[l].next_upstream # {}}
GroupGiven == {l \in Levels : given[l].upstream # None}

SizeRight(l) ==
    IF Nearest(l, SizeGiven) = {} THEN conf[l].buffer_size = ngx_pagesize
    ELSE \E k \in Nearest(l, SizeGiven) :
             conf[l].buffer_size = given[k].buffer_size

WordsRight(l) ==
    IF Nearest(l, WordsGiven) = {}
    THEN conf[l].next_upstream = {"error", "timeout"}
    ELSE \E k \in Nearest(l, WordsGiven) :
             conf[l].next_upstream = OffAlone(given[k].next_upstream)

GroupRight(l) ==
    IF Nearest(l, GroupGiven) = {} THEN conf[l].upstream = None
    ELSE \E k \in Nearest(l, GroupGiven) : conf[l].upstream = given[k].upstream

\* What a subrequest to a location goes by is what the nearest block around it
\* says, whole and unmixed, and the default if none says anything; "off" at
\* that block means that no second server is asked, whatever other words stand
\* there or outside (ngx_http_adserver_merge_loc_conf, one parent at a time).
NearestWins ==
    pc = "merged" =>
        \A l \in Levels \ {1} : SizeRight(l) /\ WordsRight(l) /\ GroupRight(l)
=============================================================================
