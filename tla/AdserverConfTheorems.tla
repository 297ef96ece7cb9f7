------------------------ MODULE AdserverConfTheorems ------------------------
(***************************************************************************)
(* Proofs about AdserverConf, for every number of levels.  Merging goes    *)
(* inwards, one level at a time: the levels before the next one to be      *)
(* merged are right, and those from it on, and the outermost, are as the   *)
(* directives have left them.                                              *)
(***************************************************************************)
EXTENDS AdserverConf, TLAPS

Typed ==
    /\ pc \in {"parse", "merge", "merged", "failed"}
    /\ conf \in [Levels -> LocConf]
    /\ given \in [Levels -> LocConf]
    /\ level \in 2..(3 + Locations)

Untouched == {l \in Levels : l = 1 \/ l >= level}

Right(l) == SizeRight(l) /\ WordsRight(l) /\ GroupRight(l)

Progress ==
    /\ pc = "parse" => conf = given /\ level = 2
    /\ pc = "merge" => \A l \in Untouched : conf[l] = given[l]
    /\ pc \in {"merge", "merged"} =>
           \A l \in Levels \ {1} : l < level => Right(l)
    /\ pc = "merged" => level = 3 + Locations

IInv == Typed /\ Progress

-----------------------------------------------------------------------------
(***************************************************************************)
(* The innermost level.                                                    *)
(***************************************************************************)
LEMMA NearestSelf ==
    ASSUME NEW l \in Nat, NEW S \in SUBSET Nat, l \in S
    PROVE  Nearest(l, S) = {l}
<1>1. l \in Nearest(l, S)
  BY DEF Nearest
<1>2. ASSUME NEW k \in Nearest(l, S)
      PROVE  k = l
  BY <1>2 DEF Nearest
<1> QED
  BY <1>1, <1>2

LEMMA NearestBefore ==
    ASSUME NEW l \in Nat, NEW S \in SUBSET Nat, l \notin S
    PROVE  Nearest(l, S) = Nearest(l - 1, S)
<1>1. \A k \in S : k <= l <=> k <= l - 1
  OBVIOUS
<1> QED
  BY <1>1 DEF Nearest

LEMMA NearestFirst ==
    ASSUME NEW S \in SUBSET (Nat \ {0}), 1 \notin S
    PROVE  Nearest(1, S) = {}
<1>1. ASSUME NEW k \in Nearest(1, S)
      PROVE  FALSE
  BY <1>1 DEF Nearest
<1> QED
  BY <1>1

LEMMA NearestWithin ==
    ASSUME NEW l, NEW S
    PROVE  Nearest(l, S) \subseteq S
BY DEF Nearest

-----------------------------------------------------------------------------
(***************************************************************************)
(* One level merged into its parent's.                                     *)
(***************************************************************************)
LEMMA MergeTyped ==
    ASSUME NEW p \in LocConf, NEW c \in LocConf
    PROVE  ngx_http_adserver_merge_loc_conf(p, c) \in LocConf
<1>1. MergeSize(c.buffer_size, p.buffer_size) \in Sizes \cup {None, ngx_pagesize}
  BY DEF LocConf, MergeSize
<1>2. MergeWords(c.next_upstream, p.next_upstream) \in SUBSET Words
  BY DEF LocConf, MergeWords, Words
<1>3. OffAlone(MergeWords(c.next_upstream, p.next_upstream)) \in SUBSET Words
  BY <1>2 DEF OffAlone, Words
<1>4. (IF c.upstream = None THEN p.upstream ELSE c.upstream) \in Groups \cup {None}
  BY DEF LocConf
<1>5. c.handler \in BOOLEAN
  BY DEF LocConf
<1> QED
  BY <1>1, <1>3, <1>4, <1>5 DEF LocConf, ngx_http_adserver_merge_loc_conf

(***************************************************************************)
(* What a level goes by, from what it says itself and what its parent goes *)
(* by.  given is as it was.                                                *)
(***************************************************************************)
LEMMA SizeMerged ==
    ASSUME Typed, level \in Levels, conf[level] = given[level],
           IF level = 2 THEN conf[1] = given[1] ELSE SizeRight(level - 1),
           NEW c \in [Levels -> LocConf],
           c[level].buffer_size = MergeSize(conf[level].buffer_size,
                                            conf[level - 1].buffer_size)
    PROVE  IF Nearest(level, SizeGiven) = {} THEN c[level].buffer_size = ngx_pagesize
           ELSE \E k \in Nearest(level, SizeGiven) :
                    c[level].buffer_size = given[k].buffer_size
<1>1. SizeGiven \in SUBSET (Nat \ {0}) /\ level \in Nat /\ level >= 2
  BY LocationsAssumption DEF SizeGiven, Levels, Typed
<1>2. CASE level \in SizeGiven
  <2>1. Nearest(level, SizeGiven) = {level}
    BY <1>1, <1>2, NearestSelf
  <2>2. c[level].buffer_size = given[level].buffer_size
    BY <1>2 DEF SizeGiven, MergeSize
  <2> QED
    BY <2>1, <2>2
<1>3. CASE level \notin SizeGiven
  <2>1. conf[level].buffer_size = None
    BY <1>3 DEF SizeGiven
  <2>2. Nearest(level, SizeGiven) = Nearest(level - 1, SizeGiven)
    BY <1>1, <1>3, NearestBefore
  <2>3. CASE level = 2
    <3>1. CASE 1 \in SizeGiven
      <4>1. Nearest(level, SizeGiven) = {1}
        BY <1>1, <2>2, <2>3, <3>1, NearestSelf
      <4>2. c[level].buffer_size = given[1].buffer_size
        BY <2>1, <2>3, <3>1 DEF SizeGiven, MergeSize
      <4> QED
        BY <4>1, <4>2
    <3>2. CASE 1 \notin SizeGiven
      <4>1. Nearest(level, SizeGiven) = {}
        BY <1>1, <2>2, <2>3, <3>2, NearestFirst
      <4>2. 1 \in Levels
        BY LocationsAssumption DEF Levels
      <4>3. c[level].buffer_size = ngx_pagesize
        BY <2>1, <2>3, <3>2, <4>2 DEF SizeGiven, MergeSize
      <4> QED
        BY <4>1, <4>3
    <3> QED
      BY <3>1, <3>2
  <2>4. CASE level # 2
    <3>1. SizeRight(level - 1)
      BY <2>4
    <3>2. CASE Nearest(level, SizeGiven) = {}
      <4>1. conf[level - 1].buffer_size = ngx_pagesize
        BY <2>2, <3>1, <3>2 DEF SizeRight
      <4> QED
        BY <2>1, <3>2, <4>1, NoneAssumption DEF MergeSize
    <3>3. CASE Nearest(level, SizeGiven) # {}
      <4>1. PICK k \in Nearest(level, SizeGiven) :
                conf[level - 1].buffer_size = given[k].buffer_size
        BY <2>2, <3>1, <3>3 DEF SizeRight
      <4>2. given[k].buffer_size # None
        BY NearestWithin DEF SizeGiven
      <4>3. c[level].buffer_size = given[k].buffer_size
        BY <2>1, <4>1, <4>2 DEF MergeSize
      <4> QED
        BY <3>3, <4>3
    <3> QED
      BY <3>2, <3>3
  <2> QED
    BY <2>3, <2>4
<1> QED
  BY <1>2, <1>3

LEMMA OffAloneDefault == OffAlone({"error", "timeout"}) = {"error", "timeout"}
BY DEF OffAlone

LEMMA OffAloneAgain ==
    ASSUME NEW w
    PROVE  /\ OffAlone(OffAlone(w)) = OffAlone(w)
           /\ w # {} => OffAlone(w) # {}
BY DEF OffAlone

LEMMA WordsMerged ==
    ASSUME Typed, level \in Levels, conf[level] = given[level],
           IF level = 2 THEN conf[1] = given[1] ELSE WordsRight(level - 1),
           NEW c \in [Levels -> LocConf],
           c[level].next_upstream =
               OffAlone(MergeWords(conf[level].next_upstream,
                                   conf[level - 1].next_upstream))
    PROVE  IF Nearest(level, WordsGiven) = {} 
           THEN c[level].next_upstream = {"error", "timeout"}
           ELSE \E k \in Nearest(level, WordsGiven) :
                    c[level].next_upstream = OffAlone(given[k].next_upstream)
<1>1. WordsGiven \in SUBSET (Nat \ {0}) /\ level \in Nat /\ level >= 2
  BY LocationsAssumption DEF WordsGiven, Levels, Typed
<1>2. CASE level \in WordsGiven
  <2>1. Nearest(level, WordsGiven) = {level}
    BY <1>1, <1>2, NearestSelf
  <2>2. c[level].next_upstream = OffAlone(given[level].next_upstream)
    BY <1>2 DEF WordsGiven, MergeWords
  <2> QED
    BY <2>1, <2>2
<1>3. CASE level \notin WordsGiven
  <2>1. conf[level].next_upstream = {}
    BY <1>3 DEF WordsGiven
  <2>2. Nearest(level, WordsGiven) = Nearest(level - 1, WordsGiven)
    BY <1>1, <1>3, NearestBefore
  <2>3. CASE level = 2
    <3>1. CASE 1 \in WordsGiven
      <4>1. Nearest(level, WordsGiven) = {1}
        BY <1>1, <2>2, <2>3, <3>1, NearestSelf
      <4>2. c[level].next_upstream = OffAlone(given[1].next_upstream)
        BY <2>1, <2>3, <3>1 DEF WordsGiven, MergeWords
      <4> QED
        BY <4>1, <4>2
    <3>2. CASE 1 \notin WordsGiven
      <4>1. Nearest(level, WordsGiven) = {}
        BY <1>1, <2>2, <2>3, <3>2, NearestFirst
      <4>2. 1 \in Levels
        BY LocationsAssumption DEF Levels
      <4>3. c[level].next_upstream = {"error", "timeout"}
        BY <2>1, <2>3, <3>2, <4>2, OffAloneDefault DEF WordsGiven, MergeWords
      <4> QED
        BY <4>1, <4>3
    <3> QED
      BY <3>1, <3>2
  <2>4. CASE level # 2
    <3>1. WordsRight(level - 1)
      BY <2>4
    <3>2. CASE Nearest(level, WordsGiven) = {}
      <4>1. conf[level - 1].next_upstream = {"error", "timeout"}
        BY <2>2, <3>1, <3>2 DEF WordsRight
      <4> QED
        BY <2>1, <3>2, <4>1, OffAloneDefault DEF MergeWords
    <3>3. CASE Nearest(level, WordsGiven) # {}
      <4>1. PICK k \in Nearest(level, WordsGiven) :
                conf[level - 1].next_upstream = OffAlone(given[k].next_upstream)
        BY <2>2, <3>1, <3>3 DEF WordsRight
      <4>2. given[k].next_upstream # {}
        BY NearestWithin DEF WordsGiven
      <4>3. c[level].next_upstream = OffAlone(given[k].next_upstream)
        BY <2>1, <4>1, <4>2, OffAloneAgain DEF MergeWords
      <4> QED
        BY <3>3, <4>3
    <3> QED
      BY <3>2, <3>3
  <2> QED
    BY <2>3, <2>4
<1> QED
  BY <1>2, <1>3

LEMMA GroupMerged ==
    ASSUME Typed, level \in Levels, conf[level] = given[level],
           IF level = 2 THEN conf[1] = given[1] ELSE GroupRight(level - 1),
           NEW c \in [Levels -> LocConf],
           c[level].upstream = IF conf[level].upstream = None
                               THEN conf[level - 1].upstream
                               ELSE conf[level].upstream
    PROVE  IF Nearest(level, GroupGiven) = {} THEN c[level].upstream = None
           ELSE \E k \in Nearest(level, GroupGiven) :
                    c[level].upstream = given[k].upstream
<1>1. GroupGiven \in SUBSET (Nat \ {0}) /\ level \in Nat /\ level >= 2
  BY LocationsAssumption DEF GroupGiven, Levels, Typed
<1>2. CASE level \in GroupGiven
  <2>1. Nearest(level, GroupGiven) = {level}
    BY <1>1, <1>2, NearestSelf
  <2>2. c[level].upstream = given[level].upstream
    BY <1>2 DEF GroupGiven
  <2> QED
    BY <2>1, <2>2
<1>3. CASE level \notin GroupGiven
  <2>1. conf[level].upstream = None
    BY <1>3 DEF GroupGiven
  <2>2. Nearest(level, GroupGiven) = Nearest(level - 1, GroupGiven)
    BY <1>1, <1>3, NearestBefore
  <2>3. CASE level = 2
    <3>1. CASE 1 \in GroupGiven
      <4>1. Nearest(level, GroupGiven) = {1}
        BY <1>1, <2>2, <2>3, <3>1, NearestSelf
      <4>2. c[level].upstream = given[1].upstream
        BY <2>1, <2>3, <3>1 DEF GroupGiven
      <4> QED
        BY <4>1, <4>2
    <3>2. CASE 1 \notin GroupGiven
      <4>1. Nearest(level, GroupGiven) = {}
        BY <1>1, <2>2, <2>3, <3>2, NearestFirst
      <4>2. 1 \in Levels
        BY LocationsAssumption DEF Levels
      <4>3. c[level].upstream = None
        BY <2>1, <2>3, <3>2, <4>2 DEF GroupGiven
      <4> QED
        BY <4>1, <4>3
    <3> QED
      BY <3>1, <3>2
  <2>4. CASE level # 2
    <3>1. GroupRight(level - 1)
      BY <2>4
    <3>2. CASE Nearest(level, GroupGiven) = {}
      <4>1. conf[level - 1].upstream = None
        BY <2>2, <3>1, <3>2 DEF GroupRight
      <4> QED
        BY <2>1, <3>2, <4>1
    <3>3. CASE Nearest(level, GroupGiven) # {}
      <4>1. PICK k \in Nearest(level, GroupGiven) :
                conf[level - 1].upstream = given[k].upstream
        BY <2>2, <3>1, <3>3 DEF GroupRight
      <4>2. given[k].upstream # None
        BY NearestWithin DEF GroupGiven
      <4>3. c[level].upstream = given[k].upstream
        BY <2>1, <4>1, <4>2
      <4> QED
        BY <3>3, <4>3
    <3> QED
      BY <3>2, <3>3
  <2> QED
    BY <2>3, <2>4
<1> QED
  BY <1>2, <1>3

-----------------------------------------------------------------------------
(***************************************************************************)
(* The invariant.                                                          *)
(***************************************************************************)
LEMMA LevelsBounds == Levels \subseteq Nat \ {0} /\ 1 \in Levels /\ 2 \in Levels
BY LocationsAssumption DEF Levels

LEMMA InitIInv == Init => IInv
<1> SUFFICES ASSUME Init PROVE IInv
  OBVIOUS
<1>1. ngx_http_adserver_create_loc_conf \in LocConf
  BY DEF ngx_http_adserver_create_loc_conf, LocConf
<1> QED
  BY <1>1, LocationsAssumption DEF Init, IInv, Typed, Progress

LEMMA SetIInv ==
    ASSUME IInv, pc = "parse", NEW l \in Levels, NEW c \in LocConf, Set(l, c)
    PROVE  IInv'
<1>1. conf' \in [Levels -> LocConf] /\ given' = conf'
  BY DEF IInv, Typed, Set
<1> QED
  BY <1>1 DEF IInv, Typed, Progress, Set

LEMMA RefusedIInv ==
    ASSUME IInv, Refused
    PROVE  IInv'
BY DEF IInv, Typed, Progress, Refused

LEMMA BufferSizeIInv ==
    ASSUME IInv, NEW l \in Levels, NEW size \in Sizes,
           adserver_buffer_size(l, size)
    PROVE  IInv'
<1> DEFINE c == [conf[l] EXCEPT !.buffer_size = size]
<1>1. c \in LocConf
  BY DEF IInv, Typed, LocConf
<1>2. pc = "parse" /\ (Set(l, c) \/ Refused)
  BY DEF adserver_buffer_size
<1> HIDE DEF c
<1> QED
  BY <1>1, <1>2, SetIInv, RefusedIInv

LEMMA NextUpstreamIInv ==
    ASSUME IInv, NEW l \in Levels, NEW words \in WordLists,
           adserver_next_upstream(l, words)
    PROVE  IInv'
<1> DEFINE c == [conf[l] EXCEPT !.next_upstream = @ \cup words]
<1>1. conf[l].next_upstream \cup words \in SUBSET Words
  BY WordListsAssumption DEF IInv, Typed, LocConf
<1>2. c \in LocConf
  BY <1>1 DEF IInv, Typed, LocConf
<1>3. pc = "parse" /\ Set(l, c)
  BY DEF adserver_next_upstream
<1> HIDE DEF c
<1> QED
  BY <1>2, <1>3, SetIInv

LEMMA PassIInv ==
    ASSUME IInv, NEW l \in Levels, NEW group \in Groups,
           ngx_http_adserver_pass(l, group)
    PROVE  IInv'
<1> DEFINE c == [conf[l] EXCEPT !.upstream = group, !.handler = TRUE]
<1>1. c \in LocConf
  BY DEF IInv, Typed, LocConf
<1>2. pc = "parse" /\ (Set(l, c) \/ Refused)
  BY DEF ngx_http_adserver_pass
<1> HIDE DEF c
<1> QED
  BY <1>1, <1>2, SetIInv, RefusedIInv

LEMMA EndOfFileIInv ==
    ASSUME IInv, EndOfFile
    PROVE  IInv'
<1>1. conf' = given' /\ level' = 2 /\ pc' = "merge" /\ Typed'
  BY DEF IInv, Typed, Progress, EndOfFile
<1>2. \A l \in Untouched' : conf'[l] = given'[l]
  BY <1>1
<1>3. \A l \in Levels \ {1} : ~(l < level')
  BY <1>1, LevelsBounds
<1> QED
  BY <1>1, <1>2, <1>3 DEF IInv, Progress

LEMMA MergeLevelIInv ==
    ASSUME IInv, MergeLevel
    PROVE  IInv'
<1> DEFINE c == conf'
<1>1. /\ pc = "merge" /\ level \in Levels /\ level >= 2 /\ level \in Nat
      /\ Typed /\ given' = given /\ pc' = pc /\ level' = level + 1
  BY LevelsBounds DEF MergeLevel, IInv, Typed
<1>2. level - 1 \in Levels
  BY <1>1, LocationsAssumption DEF Levels
<1>3. DEFINE m == ngx_http_adserver_merge_loc_conf(conf[level - 1], conf[level])
<1>4. m \in LocConf
  BY <1>1, <1>2, MergeTyped DEF Typed
<1>5. conf' = [conf EXCEPT ![level] = m]
  BY DEF MergeLevel
<1>6. c \in [Levels -> LocConf] /\ c[level] = m
  <2> HIDE DEF m
  <2> QED
    BY <1>1, <1>4, <1>5 DEF Typed
<1>7. \A l \in Levels : l # level => conf'[l] = conf[l]
  <2> HIDE DEF m
  <2> QED
    BY <1>1, <1>5 DEF Typed
<1>8. /\ conf[level] = given[level]
      /\ level = 2 => conf[1] = given[1]
      /\ level # 2 => Right(level - 1)
  BY <1>1, <1>2, LevelsBounds DEF IInv, Progress, Untouched
<1>9. /\ c[level].buffer_size = MergeSize(conf[level].buffer_size,
                                          conf[level - 1].buffer_size)
      /\ c[level].next_upstream =
             OffAlone(MergeWords(conf[level].next_upstream,
                                 conf[level - 1].next_upstream))
      /\ c[level].upstream = IF conf[level].upstream = None
                             THEN conf[level - 1].upstream
                             ELSE conf[level].upstream
  BY <1>6 DEF ngx_http_adserver_merge_loc_conf
<1> HIDE DEF m
<1>10. /\ SizeGiven' = SizeGiven
       /\ WordsGiven' = WordsGiven
       /\ GroupGiven' = GroupGiven
  BY <1>1 DEF SizeGiven, WordsGiven, GroupGiven
<1>11. ASSUME NEW n \in Levels, n = level
       PROVE  Right(n)'
  <2>1. SizeRight(n)'
    <3>1. IF Nearest(n, SizeGiven) = {} THEN c[n].buffer_size = ngx_pagesize
          ELSE \E k \in Nearest(n, SizeGiven) :
                   c[n].buffer_size = given[k].buffer_size
      <4>1. IF level = 2 THEN conf[1] = given[1] ELSE SizeRight(level - 1)
        BY <1>8 DEF Right
      <4> HIDE DEF c
      <4> QED
        BY <1>1, <1>6, <1>8, <1>9, <1>11, <4>1, SizeMerged
    <3> QED
      BY <3>1, <1>1, <1>10 DEF SizeRight
  <2>2. WordsRight(n)'
    <3>1. IF Nearest(n, WordsGiven) = {}
          THEN c[n].next_upstream = {"error", "timeout"}
          ELSE \E k \in Nearest(n, WordsGiven) :
                   c[n].next_upstream = OffAlone(given[k].next_upstream)
      <4>1. IF level = 2 THEN conf[1] = given[1] ELSE WordsRight(level - 1)
        BY <1>8 DEF Right
      <4> HIDE DEF c
      <4> QED
        BY <1>1, <1>6, <1>8, <1>9, <1>11, <4>1, WordsMerged
    <3> QED
      BY <3>1, <1>1, <1>10 DEF WordsRight
  <2>3. GroupRight(n)'
    <3>1. IF Nearest(n, GroupGiven) = {} THEN c[n].upstream = None
          ELSE \E k \in Nearest(n, GroupGiven) :
                   c[n].upstream = given[k].upstream
      <4>1. IF level = 2 THEN conf[1] = given[1] ELSE GroupRight(level - 1)
        BY <1>8 DEF Right
      <4> HIDE DEF c
      <4> QED
        BY <1>1, <1>6, <1>8, <1>9, <1>11, <4>1, GroupMerged
    <3> QED
      BY <3>1, <1>1, <1>10 DEF GroupRight
  <2> QED
    BY <2>1, <2>2, <2>3 DEF Right
<1>12. ASSUME NEW n \in Levels, n # level, Right(n)
       PROVE  Right(n)'
  BY <1>1, <1>7, <1>10, <1>12 DEF Right, SizeRight, WordsRight, GroupRight
<1>13. ASSUME NEW n \in Levels \ {1}, n < level'
       PROVE  Right(n)'
  <2>1. CASE n = level
    BY <1>11, <2>1
  <2>2. CASE n # level
    <3>1. n < level
      BY <1>1, <1>13, <2>2, LevelsBounds
    <3>2. Right(n)
      BY <1>1, <3>1 DEF IInv, Progress
    <3> QED
      BY <1>12, <2>2, <3>2
  <2> QED
    BY <2>1, <2>2
<1>14. \A l \in Untouched' : conf'[l] = given'[l]
  <2> SUFFICES ASSUME NEW l \in Untouched'
               PROVE  conf'[l] = given'[l]
    OBVIOUS
  <2>1. l \in Untouched /\ l # level
    BY <1>1, LevelsBounds DEF Untouched
  <2> QED
    BY <1>1, <1>7, <2>1 DEF IInv, Progress, Untouched
<1>15. Typed'
  <2>1. level' \in 2..(3 + Locations)
    BY <1>1, LocationsAssumption DEF Levels
  <2> QED
    BY <1>1, <1>6, <2>1 DEF Typed
<1> QED
  BY <1>1, <1>13, <1>14, <1>15 DEF IInv, Progress

LEMMA MergedIInv ==
    ASSUME IInv, Merged
    PROVE  IInv'
<1>1. level = 3 + Locations /\ pc = "merge"
  BY LocationsAssumption DEF IInv, Typed, Merged, Levels
<1>2. /\ conf' = conf /\ given' = given /\ level' = level /\ pc' = "merged"
  BY DEF Merged
<1>3. ASSUME NEW n \in Levels \ {1}, n < level'
      PROVE  Right(n)'
  BY <1>1, <1>2, <1>3
     DEF IInv, Progress, Right, SizeRight, WordsRight, GroupRight,
         SizeGiven, WordsGiven, GroupGiven
<1> QED
  BY <1>1, <1>2, <1>3 DEF IInv, Typed, Progress

LEMMA StutterIInv ==
    ASSUME IInv, UNCHANGED vars
    PROVE  IInv'
<1>1. ASSUME NEW n \in Levels, Right(n)
      PROVE  Right(n)'
  BY <1>1 DEF vars, Right, SizeRight, WordsRight, GroupRight,
              SizeGiven, WordsGiven, GroupGiven
<1>2. Untouched' = Untouched
  BY DEF vars, Untouched
<1> QED
  BY <1>1, <1>2 DEF IInv, Typed, Progress, vars

LEMMA NextIInv == IInv /\ [Next]_vars => IInv'
<1> SUFFICES ASSUME IInv, [Next]_vars PROVE IInv'
  OBVIOUS
<1> QED
  BY BufferSizeIInv, NextUpstreamIInv, PassIInv, EndOfFileIInv, MergeLevelIInv,
     MergedIInv, StutterIInv DEF Next

LEMMA IInvTypeOK == IInv => TypeOK
<1> SUFFICES ASSUME IInv PROVE TypeOK
  OBVIOUS
<1>1. ASSUME pc = "merged", NEW l \in Levels \ {1}
      PROVE  conf[l].buffer_size # None /\ conf[l].next_upstream # {}
  <2>1. SizeRight(l) /\ WordsRight(l)
    <3>1. l < level
      BY <1>1, LocationsAssumption DEF IInv, Progress, Levels
    <3> QED
      BY <1>1, <3>1 DEF IInv, Progress, Right
  <2>2. conf[l].buffer_size # None
    BY <2>1, NearestWithin, NoneAssumption DEF SizeRight, SizeGiven
  <2>3. conf[l].next_upstream # {}
    BY <2>1, NearestWithin, OffAloneAgain DEF WordsRight, WordsGiven
  <2> QED
    BY <2>2, <2>3
<1> QED
  BY <1>1 DEF IInv, Typed, TypeOK

LEMMA IInvNearestWins == IInv => NearestWins
<1> SUFFICES ASSUME IInv, pc = "merged", NEW l \in Levels \ {1}
             PROVE  SizeRight(l) /\ WordsRight(l) /\ GroupRight(l)
  BY DEF NearestWins
<1>1. l < level
  BY LocationsAssumption DEF IInv, Progress, Levels
<1> QED
  BY <1>1 DEF IInv, Progress, Right

-----------------------------------------------------------------------------
\* Configurations are well formed while they are read and merged, and nothing
\* that nginx's upstream goes by is unset when they are: at any depth.
THEOREM TypeCorrect == Spec => []TypeOK
<1> QED
  BY InitIInv, NextIInv, IInvTypeOK, PTL DEF Spec

\* A location goes by what the nearest block around it says, at any depth and
\* with any directives at any of the levels.
THEOREM NearestBlockWins == Spec => []NearestWins
<1> QED
  BY InitIInv, NextIInv, IInvNearestWins, PTL DEF Spec
=============================================================================
