----------------------- MODULE PluginManagerTheorems ------------------------
(***************************************************************************)
(* Proofs about PluginManager, for every number of files, entries, names,  *)
(* libraries and directives.  The invariant has four parts: well-formed    *)
(* states; the file; the life of each entry's plugin, by whether a name    *)
(* leads to it; and for each name the first of the entries gone through    *)
(* so far that claims it.  The balance of the libraries needs cardinality. *)
(***************************************************************************)
EXTENDS PluginManager, FiniteSetTheorems, TLAPS

Typed ==
    /\ named \in Seq(Files) /\ Len(named) <= MaxNamed
    /\ handle \in Files \cup {NoFile}
    /\ file \in Files \cup {NoFile}
    /\ pc \in Steps
    /\ conf \in Seq(Entry)
    /\ info \in Seq(PluginInfo) /\ Len(info) <= Len(conf)
    /\ inserted \in 0..MaxNames
    /\ DOMAIN plugins \subseteq Names
    /\ \A n \in DOMAIN plugins : plugins[n] \in 1..Len(info)
    /\ dl \in [Libraries -> Int]

\* Before a worker is started there is nothing.
Fresh ==
    pc = "none" => /\ file = NoFile
                   /\ conf = <<>> /\ info = <<>>
                   /\ DOMAIN plugins = {}
                   /\ inserted = 0
                   /\ dl = [l \in Libraries |-> 0]

FileInv ==
    /\ handle = NoFile <=> named = <<>>
    /\ named # <<>> => handle = named[1]
    /\ file # NoFile => file = handle

Mapped(i) == \E n \in DOMAIN plugins : plugins[n] = i

IsKept(p) == p.plugin = "ready" /\ p.so_handler = "open" /\ p.inits = 1
IsUnloaded(p) == p.plugin = "deleted" /\ p.so_handler = "NULL" /\ p.inits = 1
IsFailed(p) == p.plugin \in {"none", "lost"} /\ p.so_handler = "NULL"

Settled(i) ==
    /\ Mapped(i) => IsKept(info[i])
    /\ ~Mapped(i) => IsUnloaded(info[i])

\* An entry whose round has ended is alive just if a name leads to it; the
\* one whose round is under way is held by the round as well.
LifeInv ==
    /\ \A i \in DOMAIN info :
         i < Len(info) \/ pc \in {"load", "serving"} => Settled(i)
    /\ pc = "names" =>
         /\ Len(info) > 0
         /\ IsKept(info[Len(info)])
         /\ info[Len(info)].refs >= 1
         /\ info[Len(info)].refs = 1 <=> ~Mapped(Len(info))
         /\ inserted <= Len(conf[Len(info)].names)
    /\ pc = "exited" /\ info # <<>> =>
         IsFailed(info[Len(info)]) /\ ~Mapped(Len(info))
    /\ pc = "serving" => Len(info) = Len(conf)

\* Name n of entry i has been gone through.
Claimed(i, n) ==
    /\ i \in DOMAIN info
    /\ \E j \in DOMAIN conf[i].names :
         /\ conf[i].names[j] = n
         /\ i = Len(info) /\ pc = "names" => j <= inserted

NamesInv ==
    pc \in {"load", "names", "serving"} =>
        \A n \in Names :
            /\ n \in DOMAIN plugins =>
                 /\ Claimed(plugins[n], n)
                 /\ \A i \in DOMAIN info : Claimed(i, n) => plugins[n] <= i
            /\ \A i \in DOMAIN info : Claimed(i, n) => n \in DOMAIN plugins

Balance == \A l \in Libraries : dl[l] = Cardinality(Holding(l))

IInv == Typed /\ Fresh /\ FileInv /\ LifeInv /\ NamesInv /\ Balance

-----------------------------------------------------------------------------
(***************************************************************************)
(* Sequences, and the sets whose cardinality counts.                       *)
(***************************************************************************)
LEMMA SeqUpToIs ==
    ASSUME NEW S, NEW n \in Nat
    PROVE  \A s : s \in SeqUpTo(S, n) <=> s \in Seq(S) /\ Len(s) <= n
<1>1. ASSUME NEW s, s \in SeqUpTo(S, n)
      PROVE  s \in Seq(S) /\ Len(s) <= n
  BY <1>1 DEF SeqUpTo
<1>2. ASSUME NEW s \in Seq(S), Len(s) <= n
      PROVE  s \in SeqUpTo(S, n)
  <2>1. Len(s) \in 0..n /\ s \in [1..Len(s) -> S]
    BY <1>2
  <2> QED
    BY <2>1 DEF SeqUpTo
<1> QED
  BY <1>1, <1>2

LEMMA HoldingFinite ==
    ASSUME Typed, NEW l
    PROVE  IsFiniteSet(Holding(l)) /\ Cardinality(Holding(l)) \in Nat
<1>1. Len(info) \in Nat /\ DOMAIN info = 1..Len(info)
  BY DEF Typed
<1>2. IsFiniteSet(1..Len(info))
  BY <1>1, FS_Interval
<1>3. Holding(l) \subseteq 1..Len(info)
  BY <1>1 DEF Holding
<1> QED
  BY <1>2, <1>3, FS_Subset, FS_CardinalityType

LEMMA ProductType ==
    ASSUME Typed
    PROVE  /\ MaxEntries \in Nat /\ MaxNames \in Nat /\ MaxNamed \in Nat
           /\ Len(info) \in Nat /\ DOMAIN info = 1..Len(info)
           /\ Len(conf) \in Nat /\ DOMAIN conf = 1..Len(conf)
           /\ \A i \in 1..Len(info) : info[i] \in PluginInfo
           /\ \A i \in 1..Len(conf) :
                /\ conf[i].lib \in Libraries
                /\ conf[i].names \in Seq(Names)
                /\ Len(conf[i].names) \in 0..MaxNames
                /\ DOMAIN conf[i].names = 1..Len(conf[i].names)
<1>1. MaxEntries \in Nat /\ MaxNames \in Nat /\ MaxNamed \in Nat
  BY BoundsAssumption
<1>2. /\ Len(info) \in Nat /\ DOMAIN info = 1..Len(info)
      /\ \A i \in 1..Len(info) : info[i] \in PluginInfo
  BY DEF Typed
<1>3. Len(conf) \in Nat /\ DOMAIN conf = 1..Len(conf)
  BY DEF Typed
<1>4. ASSUME NEW i \in 1..Len(conf)
      PROVE  /\ conf[i].lib \in Libraries
             /\ conf[i].names \in Seq(Names)
             /\ Len(conf[i].names) \in 0..MaxNames
             /\ DOMAIN conf[i].names = 1..Len(conf[i].names)
  <2>1. conf[i] \in Entry
    BY <1>3, <1>4 DEF Typed
  <2>2. conf[i].lib \in Libraries /\ conf[i].names \in SeqUpTo(Names, MaxNames)
    BY <2>1 DEF Entry
  <2>3. conf[i].names \in Seq(Names) /\ Len(conf[i].names) <= MaxNames
    BY <1>1, <2>2, SeqUpToIs
  <2> QED
    BY <1>1, <2>2, <2>3
<1> QED
  BY <1>1, <1>2, <1>3, <1>4

(***************************************************************************)
(* What loading, sharing and dropping make of a PluginInfo.                *)
(***************************************************************************)
LEMMA InfoTypes ==
    /\ Loaded \in PluginInfo
    /\ \A failure \in Failures : NotLoaded(failure) \in PluginInfo
    /\ \A p \in PluginInfo : Shared(p) \in PluginInfo
<1>1. Loaded \in PluginInfo
  BY DEF Loaded, PluginInfo
<1>2. ASSUME NEW failure \in Failures PROVE NotLoaded(failure) \in PluginInfo
  BY DEF NotLoaded, PluginInfo
<1>3. ASSUME NEW p \in PluginInfo PROVE Shared(p) \in PluginInfo
  BY DEF Shared, PluginInfo
<1> QED
  BY <1>1, <1>2, <1>3

LEMMA DroppedIs ==
    ASSUME NEW p \in PluginInfo, p.refs >= 1
    PROVE  /\ Dropped(p) \in PluginInfo
           /\ p.refs = 1 => /\ Dropped(p).plugin = "deleted"
                            /\ Dropped(p).so_handler = "NULL"
                            /\ Dropped(p).inits = p.inits
           /\ p.refs # 1 => /\ Dropped(p).plugin = p.plugin
                            /\ Dropped(p).so_handler = p.so_handler
                            /\ Dropped(p).inits = p.inits
<1> DEFINE q == [p EXCEPT !.refs = 0]
<1>1. q \in PluginInfo /\ q.inits = p.inits
  BY DEF PluginInfo
<1>2. p.refs = 1 => Dropped(p) = Destroyed(q)
  BY DEF Dropped
<1> HIDE DEF q
<1>3. /\ Destroyed(q) \in PluginInfo
      /\ Destroyed(q).plugin = "deleted"
      /\ Destroyed(q).so_handler = "NULL"
      /\ Destroyed(q).inits = q.inits
  BY <1>1 DEF Destroyed, PluginInfo
<1>4. p.refs # 1 => /\ Dropped(p) = [p EXCEPT !.refs = @ - 1]
                   /\ p.refs - 1 \in Nat
  BY DEF Dropped, PluginInfo
<1>5. p.refs # 1 => /\ Dropped(p) \in PluginInfo
                   /\ Dropped(p).plugin = p.plugin
                   /\ Dropped(p).so_handler = p.so_handler
                   /\ Dropped(p).inits = p.inits
  BY <1>4 DEF PluginInfo
<1> QED
  BY <1>1, <1>2, <1>3, <1>5

-----------------------------------------------------------------------------
(***************************************************************************)
(* The invariant holds at first.                                           *)
(***************************************************************************)
LEMMA InitIInv == Init => IInv
<1> SUFFICES ASSUME Init PROVE IInv
  OBVIOUS
<1> USE DEF Init
<1>1. Typed
  BY BoundsAssumption DEF Typed, Steps
<1>2. Fresh
  BY DEF Fresh
<1>3. FileInv
  BY DEF FileInv
<1>4. LifeInv
  BY DEF LifeInv
<1>5. NamesInv
  BY DEF NamesInv
<1>6. Balance
  <2>1. ASSUME NEW l \in Libraries PROVE dl[l] = Cardinality(Holding(l))
    <3>1. Holding(l) = {}
      BY DEF Holding
    <3> QED
      BY <3>1, FS_EmptySet
  <2> QED
    BY <2>1 DEF Balance
<1> QED
  BY <1>1, <1>2, <1>3, <1>4, <1>5, <1>6 DEF IInv

-----------------------------------------------------------------------------
(***************************************************************************)
(* Typed, Fresh and FileInv are preserved.                                 *)
(***************************************************************************)
LEMMA StartsWithPluginConf ==
    ASSUME Typed, ReadPluginConfList
    PROVE  /\ conf' \in Seq(Entry)
           /\ pc' \in {"load", "exited"}
<1>1. CASE UNCHANGED conf /\ pc' = "exited"
  BY <1>1 DEF Typed
<1>2. CASE conf' \in SeqUpTo(Entry, MaxEntries) /\ pc' = "load"
  <2>1. ASSUME NEW c, c \in SeqUpTo(Entry, MaxEntries) PROVE c \in Seq(Entry)
    BY <2>1, BoundsAssumption, SeqUpToIs
  <2> QED
    BY <1>2, <2>1
<1> QED
  BY <1>1, <1>2 DEF ReadPluginConfList

LEMMA TypedStep ==
    ASSUME IInv, [Next]_vars
    PROVE  Typed'
<1>0. Typed /\ Fresh /\ LifeInv
  BY DEF IInv
<1>a. /\ MaxNames \in Nat /\ MaxNamed \in Nat
      /\ Len(info) \in Nat /\ DOMAIN info = 1..Len(info)
      /\ Len(conf) \in Nat
      /\ \A i \in 1..Len(info) : info[i] \in PluginInfo
  BY <1>0, ProductType
<1>1. ASSUME NEW f \in Files, ReadLocation(f) PROVE Typed'
  <2>1. named' \in Seq(Files) /\ Len(named') <= MaxNamed
    BY <1>0, <1>a, <1>1 DEF ReadLocation, Typed
  <2>2. handle' \in Files \cup {NoFile} /\ UNCHANGED worker
    BY <1>0, <1>1 DEF ReadLocation, ngx_http_adfront_merge_loc_conf, Typed
  <2> QED
    BY <1>0, <2>1, <2>2 DEF worker, Typed
<1>2. CASE StartWorker
  <2>1. pc = "none" /\ info = <<>>
    BY <1>0, <1>2 DEF StartWorker, Fresh
  <2>2. /\ file' \in Files \cup {NoFile}
        /\ conf' \in Seq(Entry)
        /\ pc' \in Steps
    <3>1. CASE handle # NoFile /\ InitProcess
      BY <1>0, <3>1, StartsWithPluginConf DEF InitProcess, Typed, Steps
    <3>2. CASE pc' = "exited" /\ UNCHANGED <<file, conf>>
      BY <1>0, <3>2 DEF Typed, Steps
    <3> QED
      BY <1>2, <3>1, <3>2 DEF StartWorker
  <2>3. Len(info') <= Len(conf')
    BY <1>2, <2>1, <2>2 DEF StartWorker
  <2> QED
    BY <1>0, <1>2, <2>2, <2>3 DEF StartWorker, Typed
<1>3. CASE WorkerGone
  BY <1>0, <1>3, BoundsAssumption DEF WorkerGone, Typed, Steps
<1>4. CASE LoadPlugin
  <2>1. ASSUME NEW p \in PluginInfo, info' = Append(info, p)
        PROVE  /\ info' \in Seq(PluginInfo)
               /\ Len(info') = Len(info) + 1
    BY <1>0, <2>1 DEF Typed
  <2>2. /\ info' \in Seq(PluginInfo)
        /\ Len(info') = Len(info) + 1
    BY <1>4, <2>1, InfoTypes DEF LoadPlugin
  <2>3. Len(info) < Len(conf)
    BY <1>4 DEF LoadPlugin
  <2>4. conf[Len(info) + 1].lib \in Libraries
    BY <1>0, <1>a, <2>3, ProductType
  <2>5. dl' \in [Libraries -> Int]
    <3>1. dl \in [Libraries -> Int]
      BY <1>0 DEF Typed
    <3>2. dl' = dl \/ dl' = [dl EXCEPT ![Loading.lib] = @ + 1]
      BY <1>4 DEF LoadPlugin
    <3> QED
      BY <2>4, <3>1, <3>2 DEF Loading
  <2>6. inserted' \in 0..MaxNames /\ pc' \in Steps
    <3>1. inserted' \in {0, inserted} /\ pc' \in {"names", "exited"}
      BY <1>4 DEF LoadPlugin
    <3> QED
      BY <1>0, <1>a, <3>1 DEF Typed, Steps
  <2>7. \A n \in DOMAIN plugins' : plugins'[n] \in 1..Len(info')
    BY <1>0, <1>4, <1>a, <2>2 DEF LoadPlugin, Typed
  <2> QED
    BY <1>0, <1>4, <1>a, <2>2, <2>3, <2>5, <2>6, <2>7 DEF LoadPlugin, Typed
<1>5. CASE InsertName
  <2> DEFINE n == conf[Len(info)].names[inserted + 1]
  <2>1. Len(info) \in 1..Len(conf) /\ Len(info) \in 1..Len(info)
    BY <1>0, <1>5, <1>a DEF InsertName, LifeInv, Typed
  <2>2. /\ Len(conf[Len(info)].names) \in 0..MaxNames
        /\ conf[Len(info)].names \in Seq(Names)
    BY <1>0, <2>1, ProductType
  <2>3. n \in Names /\ inserted + 1 \in 0..MaxNames
    BY <1>0, <1>5, <1>a, <2>2 DEF InsertName, Typed
  <2>4. /\ info' \in Seq(PluginInfo)
        /\ Len(info') = Len(info)
    <3>1. info[Len(info)] \in PluginInfo
      BY <1>a, <2>1
    <3>2. Shared(info[Len(info)]) \in PluginInfo
      BY <3>1, InfoTypes
    <3> QED
      BY <1>0, <1>5, <2>1, <3>2 DEF InsertName, Typed
  <2>5. plugins' = Inserted(n)
    BY <1>5 DEF InsertName
  <2> HIDE DEF n
  <2>6. /\ DOMAIN plugins' \subseteq Names
        /\ \A m \in DOMAIN plugins' : plugins'[m] \in 1..Len(info)
    BY <1>0, <1>a, <2>1, <2>3, <2>5 DEF Inserted, Typed
  <2> QED
    BY <1>0, <1>5, <2>3, <2>4, <2>6 DEF InsertName, Typed
<1>6. CASE EndOfRound
  <2>1. Len(info) \in 1..Len(conf) /\ Len(info) \in 1..Len(info)
    BY <1>0, <1>6, <1>a DEF EndOfRound, LifeInv, Typed
  <2>2. info[Len(info)] \in PluginInfo /\ info[Len(info)].refs >= 1
    BY <1>0, <1>6, <1>a, <2>1 DEF EndOfRound, LifeInv
  <2>3. Dropped(info[Len(info)]) \in PluginInfo
    BY <2>2, DroppedIs
  <2>4. info' \in Seq(PluginInfo) /\ Len(info') = Len(info)
    BY <1>0, <1>6, <2>1, <2>3 DEF EndOfRound, Typed
  <2>5. conf[Len(info)].lib \in Libraries
    BY <1>0, <2>1, ProductType
  <2>6. dl' \in [Libraries -> Int]
    BY <1>0, <1>6, <2>5 DEF EndOfRound, Typed
  <2> QED
    BY <1>0, <1>6, <2>4, <2>6 DEF EndOfRound, Typed, Steps
<1>7. CASE Serve
  BY <1>0, <1>7 DEF Serve, Typed, Steps
<1>8. CASE UNCHANGED vars
  BY <1>0, <1>8 DEF vars, Typed
<1> QED
  BY <1>1, <1>2, <1>3, <1>4, <1>5, <1>6, <1>7, <1>8 DEF Next

LEMMA FreshStep ==
    ASSUME Fresh, [Next]_vars
    PROVE  Fresh'
<1>1. ASSUME NEW f \in Files, ReadLocation(f) PROVE Fresh'
  BY <1>1 DEF ReadLocation, worker, Fresh
<1>2. CASE WorkerGone
  BY <1>2 DEF WorkerGone, Fresh
<1>3. CASE StartWorker
  BY <1>3 DEF StartWorker, InitProcess, ReadPluginConfList, Fresh
<1>4. CASE UNCHANGED vars
  BY <1>4 DEF vars, Fresh
<1> QED
  BY <1>1, <1>2, <1>3, <1>4
     DEF Next, LoadPlugin, InsertName, EndOfRound, Serve, LoadPlugins, Fresh

LEMMA FileStep ==
    ASSUME Typed, FileInv, [Next]_vars
    PROVE  FileInv'
<1>1. ASSUME NEW f \in Files, ReadLocation(f) PROVE FileInv'
  <2>1. f # NoFile
    BY NoFileAssumption
  <2>2. /\ named' = Append(named, f) /\ file' = file
        /\ handle' = IF handle = NoFile THEN f ELSE handle
    BY <1>1 DEF ReadLocation, ngx_http_adfront_merge_loc_conf, worker
  <2>3. named' # <<>> /\ named'[1] = IF named = <<>> THEN f ELSE named[1]
    BY <2>2 DEF Typed
  <2> QED
    BY <2>1, <2>2, <2>3 DEF FileInv
<1>2. CASE StartWorker
  BY <1>2 DEF StartWorker, InitProcess, FileInv
<1>3. CASE WorkerGone
  BY <1>3 DEF WorkerGone, FileInv
<1>4. CASE UNCHANGED <<named, handle, file>>
  BY <1>4 DEF FileInv
<1> QED
  BY <1>1, <1>2, <1>3, <1>4
     DEF Next, LoadPlugin, InsertName, EndOfRound, Serve, vars

-----------------------------------------------------------------------------
(***************************************************************************)
(* LifeInv and NamesInv are preserved.  What they say depends on nothing   *)
(* of the master.                                                          *)
(***************************************************************************)
LEMMA LifeStep ==
    ASSUME IInv, [Next]_vars
    PROVE  LifeInv'
<1>0. Typed /\ Fresh /\ LifeInv /\ NamesInv
  BY DEF IInv
<1>a. /\ Len(info) \in Nat /\ DOMAIN info = 1..Len(info)
      /\ \A i \in 1..Len(info) : info[i] \in PluginInfo
  BY <1>0, ProductType
<1>b. \A n \in DOMAIN plugins : plugins[n] \in 1..Len(info)
  BY <1>0 DEF Typed
<1>c. Len(info) \in Nat
  BY <1>a
<1>1. CASE UNCHANGED worker
  BY <1>0, <1>1 DEF worker, LifeInv, Settled, Mapped
<1>2. CASE StartWorker
  <2>1. info' = <<>> /\ pc' \in {"load", "exited"}
    BY <1>0, <1>2
       DEF StartWorker, InitProcess, ReadPluginConfList, Fresh
  <2> QED
    BY <2>1 DEF LifeInv
<1>3. CASE WorkerGone
  BY <1>3 DEF WorkerGone, LifeInv
<1>4. CASE LoadPlugin
  <2>1. pc = "load" /\ plugins' = plugins /\ conf' = conf
    BY <1>4 DEF LoadPlugin
  <2>2. PICK p \in PluginInfo :
          /\ info' = Append(info, p)
          /\ \/ p = Loaded /\ pc' = "names" /\ inserted' = 0
             \/ IsFailed(p) /\ pc' = "exited"
    <3>1. \A failure \in Failures : IsFailed(NotLoaded(failure))
      BY DEF IsFailed, NotLoaded
    <3> QED
      BY <1>4, <3>1, InfoTypes DEF LoadPlugin
  <2>3. /\ Len(info') = Len(info) + 1
        /\ DOMAIN info' = 1..(Len(info) + 1)
        /\ info'[Len(info) + 1] = p
        /\ \A i \in 1..Len(info) : info'[i] = info[i]
    BY <1>0, <2>2 DEF Typed
  <2>4. ASSUME NEW k, k = Len(info) + 1
        PROVE  ~Mapped(k)'
    BY <1>a, <1>b, <2>1, <2>4 DEF Mapped
  <2>5. ASSUME NEW i \in 1..Len(info)
        PROVE  Settled(i)'
    <3>1. Settled(i)
      BY <1>0, <1>a, <2>1 DEF LifeInv
    <3> QED
      BY <2>1, <2>3, <3>1 DEF Settled, Mapped
  <2>6. IsKept(Loaded) /\ Loaded.refs = 1
    BY DEF IsKept, Loaded
  <2>7. Len(conf[Len(info) + 1].names) >= 0
    <3>1. Len(info) < Len(conf)
      BY <1>4 DEF LoadPlugin
    <3> QED
      BY <1>0, <1>a, <3>1, ProductType
  <2> QED
    BY <1>a, <2>1, <2>2, <2>3, <2>4, <2>5, <2>6, <2>7 DEF LifeInv
<1>5. CASE InsertName
  <2> DEFINE n == conf[Len(info)].names[inserted + 1]
  <2>1. /\ pc = "names" /\ pc' = "names" /\ conf' = conf
        /\ inserted < Len(conf[Len(info)].names)
        /\ inserted' = inserted + 1
        /\ plugins' = Inserted(n)
        /\ info' = IF n \in DOMAIN plugins THEN info
                   ELSE [info EXCEPT ![Len(info)] = Shared(@)]
    BY <1>5 DEF InsertName
  <2> HIDE DEF n
  <2>2. /\ Len(info) \in 1..Len(info) /\ IsKept(info[Len(info)])
        /\ info[Len(info)].refs >= 1
        /\ info[Len(info)].refs = 1 <=> ~Mapped(Len(info))
    BY <1>0, <1>a, <2>1 DEF LifeInv
  <2>3. Len(info') = Len(info) /\ DOMAIN info' = 1..Len(info)
    BY <1>0, <1>a, <2>1 DEF Typed
  <2>4. \A i \in 1..Len(info) : i # Len(info) =>
          info'[i] = info[i] /\ (Mapped(i)' <=> Mapped(i))
    BY <1>a, <1>b, <2>1, <2>2 DEF Inserted, Mapped
  <2>5. /\ IsKept(info'[Len(info)])
        /\ info'[Len(info)].refs >= 1
        /\ \A k : k = Len(info) =>
             (info'[k].refs = 1 <=> ~Mapped(k)')
    <3>1. CASE n \in DOMAIN plugins
      <4>1. info' = info /\ \A m : m \in DOMAIN plugins' <=> m \in DOMAIN plugins
        BY <2>1, <3>1 DEF Inserted
      <4>2. \A m \in DOMAIN plugins : plugins'[m] = plugins[m]
        BY <2>1, <3>1 DEF Inserted
      <4> QED
        BY <2>2, <4>1, <4>2 DEF Mapped
    <3>2. CASE n \notin DOMAIN plugins
      <4>1. info'[Len(info)] = Shared(info[Len(info)])
        BY <1>0, <2>1, <2>2, <3>2 DEF Typed
      <4>2. info[Len(info)] \in PluginInfo
        BY <1>a, <2>2
      <4>3. /\ IsKept(Shared(info[Len(info)]))
            /\ Shared(info[Len(info)]).refs > 1
        BY <2>2, <4>2 DEF Shared, IsKept, PluginInfo
      <4>4. n \in DOMAIN plugins' /\ plugins'[n] = Len(info)
        BY <2>1, <3>2 DEF Inserted
      <4>5. \A k : k = Len(info) => Mapped(k)'
        BY <4>4 DEF Mapped
      <4>6. info'[Len(info)].refs >= 1 /\ info'[Len(info)].refs # 1
        <5> DEFINE v == Shared(info[Len(info)]).refs
        <5>1. v = info[Len(info)].refs + 1 /\ info[Len(info)].refs \in Nat
          BY <4>2 DEF Shared, PluginInfo
        <5>2. v >= 1 /\ v # 1
          BY <2>2, <5>1
        <5> QED
          BY <4>1, <5>2
      <4> QED
        BY <4>1, <4>3, <4>5, <4>6
    <3> QED
      BY <3>1, <3>2
  <2>6. inserted' <= Len(conf[Len(info)].names)
    <3>1. Len(info) \in 1..Len(conf)
      BY <1>0, <1>a, <2>2 DEF Typed
    <3>2. Len(conf[Len(info)].names) \in Nat /\ inserted \in Nat
      BY <1>0, <3>1, ProductType DEF Typed
    <3> QED
      BY <2>1, <3>2
  <2>7. ASSUME NEW i \in 1..Len(info), i < Len(info)
        PROVE  Settled(i)'
    <3>1. Settled(i)
      BY <1>0, <1>a, <2>7 DEF LifeInv
    <3>2. i # Len(info)
      BY <1>c, <2>7
    <3>3. info'[i] = info[i] /\ (Mapped(i)' <=> Mapped(i))
      BY <2>4, <3>2
    <3> QED
      BY <3>1, <3>3 DEF Settled
  <2> QED
    BY <1>a, <2>1, <2>2, <2>3, <2>5, <2>6, <2>7 DEF LifeInv
<1>6. CASE EndOfRound
  <2>1. /\ pc = "names" /\ pc' = "load" /\ plugins' = plugins
        /\ info' = [info EXCEPT ![Len(info)] = Dropped(@)]
    BY <1>6 DEF EndOfRound
  <2>2. /\ Len(info) \in 1..Len(info) /\ IsKept(info[Len(info)])
        /\ info[Len(info)].refs >= 1
        /\ info[Len(info)].refs = 1 <=> ~Mapped(Len(info))
    BY <1>0, <1>a, <2>1 DEF LifeInv
  <2>3. /\ Len(info') = Len(info) /\ DOMAIN info' = 1..Len(info)
        /\ info'[Len(info)] = Dropped(info[Len(info)])
        /\ \A i \in 1..Len(info) : i # Len(info) => info'[i] = info[i]
    <3>1. info \in Seq(PluginInfo)
      BY <1>0 DEF Typed
    <3>2. ASSUME NEW p, info' = [info EXCEPT ![Len(info)] = p]
          PROVE  /\ Len(info') = Len(info) /\ DOMAIN info' = 1..Len(info)
                 /\ info'[Len(info)] = p
                 /\ \A i \in 1..Len(info) : i # Len(info) => info'[i] = info[i]
      BY <2>2, <3>1, <3>2
    <3> QED
      BY <2>1, <3>2
  <2>4. /\ Mapped(Len(info)) => IsKept(info'[Len(info)])
        /\ ~Mapped(Len(info)) => IsUnloaded(info'[Len(info)])
    <3> DEFINE p == info[Len(info)]
    <3>1. p \in PluginInfo /\ p.refs >= 1 /\ IsKept(p)
      BY <1>a, <2>2
    <3>2. p.refs = 1 => ~Mapped(Len(info))
      BY <2>2
    <3>3. p.refs # 1 => Mapped(Len(info))
      BY <2>2
    <3>4. info'[Len(info)] = Dropped(p)
      BY <2>3
    <3> HIDE DEF p
    <3>5. p.refs = 1 => IsUnloaded(Dropped(p))
      BY <3>1, DroppedIs DEF IsKept, IsUnloaded
    <3>6. p.refs # 1 => IsKept(Dropped(p))
      BY <3>1, DroppedIs DEF IsKept
    <3> QED
      BY <3>2, <3>3, <3>4, <3>5, <3>6
  <2>5. ASSUME NEW i \in 1..Len(info)
        PROVE  Settled(i)'
    <3>1. Mapped(i)' <=> Mapped(i)
      BY <2>1 DEF Mapped
    <3>2. CASE i = Len(info)
      BY <2>4, <3>1, <3>2 DEF Settled
    <3>3. CASE i # Len(info)
      <4>1. i < Len(info)
        BY <1>c, <3>3
      <4>2. Settled(i) /\ info'[i] = info[i]
        BY <1>0, <1>a, <2>3, <3>3, <4>1 DEF LifeInv
      <4> QED
        BY <3>1, <4>2 DEF Settled
    <3> QED
      BY <3>2, <3>3
  <2> QED
    BY <2>1, <2>3, <2>5 DEF LifeInv
<1>7. CASE Serve
  <2>1. /\ pc = "load" /\ pc' = "serving" /\ Len(info) = Len(conf)
        /\ info' = info /\ conf' = conf /\ plugins' = plugins
    BY <1>7 DEF Serve, LoadPlugins
  <2> QED
    BY <1>0, <2>1 DEF LifeInv, Settled, Mapped
<1> QED
  BY <1>1, <1>2, <1>3, <1>4, <1>5, <1>6, <1>7
     DEF Next, ReadLocation, vars, worker

LEMMA NamesStep ==
    ASSUME IInv, [Next]_vars
    PROVE  NamesInv'
<1>0. Typed /\ Fresh /\ LifeInv /\ NamesInv
  BY DEF IInv
<1>a. /\ Len(info) \in Nat /\ DOMAIN info = 1..Len(info)
      /\ Len(conf) \in Nat
  BY <1>0, ProductType
<1>b. \A n \in DOMAIN plugins : plugins[n] \in 1..Len(info)
  BY <1>0 DEF Typed
<1>c. Len(info) \in Nat
  BY <1>a
<1>1. CASE UNCHANGED worker
  BY <1>0, <1>1 DEF worker, NamesInv, Claimed
<1>2. CASE StartWorker
  <2>1. info' = <<>> /\ DOMAIN plugins' = {}
    BY <1>0, <1>2 DEF StartWorker, Fresh
  <2> QED
    BY <2>1 DEF NamesInv, Claimed
<1>3. CASE WorkerGone
  BY <1>3 DEF WorkerGone, NamesInv
<1>4. CASE LoadPlugin
  <2>1. CASE pc' # "names"
    <3>1. pc' = "exited"
      BY <1>4, <2>1 DEF LoadPlugin
    <3> QED
      BY <3>1 DEF NamesInv
  <2>2. CASE pc' = "names"
    <3>1. /\ pc = "load" /\ plugins' = plugins /\ conf' = conf
          /\ info' = Append(info, Loaded) /\ inserted' = 0
          /\ Len(info) + 1 \in 1..Len(conf)
      BY <1>4, <1>a, <2>2 DEF LoadPlugin
    <3>2. Len(info') = Len(info) + 1 /\ DOMAIN info' = 1..(Len(info) + 1)
      BY <1>0, <3>1, InfoTypes DEF Typed
    <3>3. DOMAIN conf[Len(info) + 1].names =
             1..Len(conf[Len(info) + 1].names)
      BY <1>0, <3>1, ProductType
    <3>4. ASSUME NEW n, NEW i
          PROVE  Claimed(i, n)' <=> Claimed(i, n)
      <4>1. CASE i = Len(info) + 1
        BY <1>a, <2>2, <3>1, <3>2, <3>3, <4>1 DEF Claimed
      <4>2. CASE i # Len(info) + 1
        BY <1>a, <2>2, <3>1, <3>2, <4>2 DEF Claimed
      <4> QED
        BY <4>1, <4>2
    <3>5. \A n, i : Claimed(i, n) => i \in DOMAIN info
      BY DEF Claimed
    <3>6. NamesInv
      BY <1>0
    <3> QED
      BY <1>b, <2>2, <3>1, <3>4, <3>5, <3>6 DEF NamesInv
  <2> QED
    BY <2>1, <2>2
<1>5. CASE InsertName
  <2> DEFINE n == conf[Len(info)].names[inserted + 1]
  <2>1. /\ pc = "names" /\ pc' = "names" /\ conf' = conf
        /\ inserted < Len(conf[Len(info)].names)
        /\ inserted' = inserted + 1
        /\ plugins' = Inserted(n)
        /\ info' = IF n \in DOMAIN plugins THEN info
                   ELSE [info EXCEPT ![Len(info)] = Shared(@)]
    BY <1>5 DEF InsertName
  <2>2. Len(info) \in 1..Len(info) /\ Len(info) \in 1..Len(conf)
    BY <1>0, <1>a, <2>1 DEF LifeInv, Typed
  <2>3. Len(info') = Len(info) /\ DOMAIN info' = 1..Len(info)
    BY <1>0, <1>a, <2>1, <2>2 DEF Typed
  <2>4. /\ inserted \in Nat
        /\ Len(conf[Len(info)].names) \in Nat
        /\ DOMAIN conf[Len(info)].names = 1..Len(conf[Len(info)].names)
    BY <1>0, <2>2, ProductType DEF Typed
  <2>5. ASSUME NEW m, NEW i
        PROVE  Claimed(i, m)' <=> Claimed(i, m) \/ (i = Len(info) /\ m = n)
    <3>1. CASE i = Len(info)
      <4>1. Claimed(i, m)' <=>
              \E j \in 1..Len(conf[Len(info)].names) :
                 conf[Len(info)].names[j] = m /\ j <= inserted + 1
        BY <1>a, <2>1, <2>2, <2>3, <2>4, <3>1 DEF Claimed
      <4>2. Claimed(i, m) <=>
              \E j \in 1..Len(conf[Len(info)].names) :
                 conf[Len(info)].names[j] = m /\ j <= inserted
        BY <1>a, <2>1, <2>2, <2>4, <3>1 DEF Claimed
      <4>3. inserted + 1 \in 1..Len(conf[Len(info)].names)
        BY <2>1, <2>4
      <4>4. \A j \in 1..Len(conf[Len(info)].names) :
              j <= inserted + 1 <=> j <= inserted \/ j = inserted + 1
        BY <2>4
      <4> QED
        BY <3>1, <4>1, <4>2, <4>3, <4>4
    <3>2. CASE i # Len(info)
      BY <1>a, <2>1, <2>3, <3>2 DEF Claimed
    <3> QED
      BY <3>1, <3>2
  <2> HIDE DEF n
  <2>6. /\ \A m : m \in DOMAIN plugins' <=> m \in DOMAIN plugins \/ m = n
        /\ \A m \in DOMAIN plugins : plugins'[m] = plugins[m]
        /\ n \notin DOMAIN plugins => plugins'[n] = Len(info)
    BY <2>1 DEF Inserted
  <2>7. \A m, i : Claimed(i, m) => i \in 1..Len(info)
    BY <1>a DEF Claimed
  <2>8. ASSUME NEW m \in Names
        PROVE  /\ m \in DOMAIN plugins' =>
                    /\ \A i : i = plugins'[m] => Claimed(i, m)'
                    /\ \A i \in 1..Len(info) :
                         Claimed(i, m)' => plugins'[m] <= i
               /\ \A i \in 1..Len(info) :
                     Claimed(i, m)' => m \in DOMAIN plugins'
    <3>1. /\ m \in DOMAIN plugins =>
                 /\ Claimed(plugins[m], m)
                 /\ \A i \in 1..Len(info) : Claimed(i, m) => plugins[m] <= i
          /\ \A i \in 1..Len(info) : Claimed(i, m) => m \in DOMAIN plugins
      BY <1>0, <1>a, <2>1 DEF NamesInv
    <3>2. \A i \in 1..Len(info) :
            Claimed(i, m)' <=> Claimed(i, m) \/ (i = Len(info) /\ m = n)
      BY <2>5
    <3>3. CASE m \in DOMAIN plugins
      <4>1. plugins'[m] = plugins[m] /\ plugins[m] \in 1..Len(info)
        BY <1>b, <2>6, <3>3
      <4>3. \A i : i = plugins'[m] => Claimed(i, m)'
        BY <2>5, <3>1, <3>3, <4>1
      <4> QED
        BY <1>c, <2>6, <3>1, <3>2, <3>3, <4>1, <4>3
    <3>4. CASE m \notin DOMAIN plugins /\ m = n
      <4>1. plugins'[m] = Len(info) /\ m \in DOMAIN plugins'
        BY <2>6, <3>4
      <4>2. \A i : i = plugins'[m] => Claimed(i, m)'
        BY <2>5, <3>4, <4>1
      <4> QED
        BY <1>c, <3>1, <3>2, <3>4, <4>1, <4>2
    <3>5. CASE m \notin DOMAIN plugins /\ m # n
      BY <2>6, <3>1, <3>2, <3>5
    <3> QED
      BY <3>3, <3>4, <3>5
  <2> QED
    BY <2>3, <2>8 DEF NamesInv
<1>6. CASE EndOfRound
  <2>1. /\ pc = "names" /\ pc' = "load" /\ plugins' = plugins
        /\ conf' = conf
        /\ inserted = Len(conf[Len(info)].names)
        /\ info' = [info EXCEPT ![Len(info)] = Dropped(@)]
    BY <1>6 DEF EndOfRound
  <2>2. Len(info) \in 1..Len(info) /\ Len(info) \in 1..Len(conf)
    BY <1>0, <1>a, <2>1 DEF LifeInv, Typed
  <2>3. Len(info') = Len(info) /\ DOMAIN info' = 1..Len(info)
    BY <1>0, <1>a, <2>1, <2>2 DEF Typed
  <2>4. /\ Len(conf[Len(info)].names) \in Nat
        /\ DOMAIN conf[Len(info)].names = 1..Len(conf[Len(info)].names)
    BY <1>0, <2>2, ProductType
  <2>5. ASSUME NEW m, NEW i PROVE Claimed(i, m)' <=> Claimed(i, m)
    BY <1>a, <2>1, <2>3, <2>4 DEF Claimed
  <2> QED
    BY <1>0, <1>a, <2>1, <2>3, <2>5 DEF NamesInv
<1>7. CASE Serve
  <2>1. /\ pc = "load" /\ pc' = "serving"
        /\ info' = info /\ conf' = conf /\ plugins' = plugins
    BY <1>7 DEF Serve, LoadPlugins
  <2> QED
    BY <1>0, <2>1 DEF NamesInv, Claimed
<1> QED
  BY <1>1, <1>2, <1>3, <1>4, <1>5, <1>6, <1>7
     DEF Next, ReadLocation, vars, worker

-----------------------------------------------------------------------------
(***************************************************************************)
(* Balance is preserved: an entry holds its library or it does not, and    *)
(* a step changes at most the last entry.                                  *)
(***************************************************************************)
Holds(p) == p.so_handler = "open" \/ p.plugin = "lost"

LEMMA HoldingAppended ==
    ASSUME Typed, NEW p \in PluginInfo, NEW l,
           info' = Append(info, p), conf' = conf
    PROVE  /\ Len(info) + 1 \notin Holding(l)
           /\ Holds(p) /\ conf[Len(info) + 1].lib = l =>
                Holding(l)' = Holding(l) \cup {Len(info) + 1}
           /\ ~Holds(p) \/ conf[Len(info) + 1].lib # l =>
                Holding(l)' = Holding(l)
<1>1. Len(info) \in Nat /\ DOMAIN info = 1..Len(info)
  BY DEF Typed
<1>2. /\ DOMAIN info' = 1..(Len(info) + 1)
      /\ info'[Len(info) + 1] = p
      /\ \A i \in 1..Len(info) : info'[i] = info[i]
  BY DEF Typed
<1>3. \A i : i \in Holding(l) <=>
               /\ i \in 1..Len(info)
               /\ conf[i].lib = l
               /\ Holds(info[i])
  BY <1>1 DEF Holding, Holds
<1>4. \A i : i \in Holding(l)' <=>
               /\ i \in 1..(Len(info) + 1)
               /\ conf[i].lib = l
               /\ Holds(info'[i])
  BY <1>2 DEF Holding, Holds
<1>5. \A i : i \in 1..(Len(info) + 1) <=>
               i \in 1..Len(info) \/ i = Len(info) + 1
  BY <1>1
<1>6. Len(info) + 1 \notin 1..Len(info)
  BY <1>1
<1>7. Len(info) + 1 \notin Holding(l)
  BY <1>3, <1>6
<1>8. \A i : i \in Holding(l)' <=>
               \/ i \in Holding(l)
               \/ /\ i = Len(info) + 1
                  /\ conf[i].lib = l
                  /\ Holds(p)
  BY <1>2, <1>3, <1>4, <1>5
<1>9. ASSUME Holds(p), conf[Len(info) + 1].lib = l
      PROVE  Holding(l)' = Holding(l) \cup {Len(info) + 1}
  BY <1>8, <1>9
<1>10. ASSUME ~Holds(p) \/ conf[Len(info) + 1].lib # l
       PROVE  Holding(l)' = Holding(l)
  BY <1>8, <1>10
<1> QED
  BY <1>7, <1>9, <1>10

LEMMA HoldingChanged ==
    ASSUME Typed, NEW k \in 1..Len(info), NEW p \in PluginInfo, NEW l,
           info' = [info EXCEPT ![k] = p], conf' = conf
    PROVE  /\ (Holds(p) <=> Holds(info[k])) \/ conf[k].lib # l =>
                Holding(l)' = Holding(l)
           /\ ~Holds(p) /\ Holds(info[k]) /\ conf[k].lib = l =>
                Holding(l)' = Holding(l) \ {k} /\ k \in Holding(l)
<1>1. DOMAIN info = 1..Len(info) /\ info \in Seq(PluginInfo)
  BY DEF Typed
<1>2. /\ DOMAIN info' = 1..Len(info)
      /\ info'[k] = p
      /\ \A i \in 1..Len(info) : i # k => info'[i] = info[i]
  BY <1>1
<1>3. \A i : i \in Holding(l) <=>
               /\ i \in 1..Len(info)
               /\ conf[i].lib = l
               /\ Holds(info[i])
  BY <1>1 DEF Holding, Holds
<1>4. \A i : i \in Holding(l)' <=>
               /\ i \in 1..Len(info)
               /\ conf[i].lib = l
               /\ Holds(info'[i])
  BY <1>2 DEF Holding, Holds
<1>5. \A i : i # k => (i \in Holding(l)' <=> i \in Holding(l))
  BY <1>2, <1>3, <1>4
<1>6. ASSUME (Holds(p) <=> Holds(info[k])) \/ conf[k].lib # l
      PROVE  Holding(l)' = Holding(l)
  <2>1. k \in Holding(l)' <=> k \in Holding(l)
    BY <1>2, <1>3, <1>4, <1>6
  <2>2. \A i : i \in Holding(l)' <=> i \in Holding(l)
    BY <1>5, <2>1
  <2> QED
    BY <2>2
<1>7. ASSUME ~Holds(p), Holds(info[k]), conf[k].lib = l
      PROVE  Holding(l)' = Holding(l) \ {k} /\ k \in Holding(l)
  <2>1. k \notin Holding(l)' /\ k \in Holding(l)
    BY <1>2, <1>3, <1>4, <1>7
  <2> QED
    BY <1>5, <2>1
<1> QED
  BY <1>6, <1>7

LEMMA BalanceStep ==
    ASSUME IInv, [Next]_vars
    PROVE  Balance'
<1>0. Typed /\ Fresh /\ LifeInv /\ Balance
  BY DEF IInv
<1>a. /\ Len(info) \in Nat /\ DOMAIN info = 1..Len(info)
      /\ \A i \in 1..Len(info) : info[i] \in PluginInfo
  BY <1>0, ProductType
<1>b. dl \in [Libraries -> Int] /\ \A l \in Libraries : dl[l] = Cardinality(Holding(l))
  BY <1>0 DEF Typed, Balance
<1>c. \A l : IsFiniteSet(Holding(l)) /\ Cardinality(Holding(l)) \in Nat
  BY <1>0, HoldingFinite
<1>1. CASE UNCHANGED worker
  BY <1>0, <1>1 DEF worker, Balance, Holding
<1>2. CASE StartWorker \/ WorkerGone
  <2>1. info' = <<>> /\ dl' = [l \in Libraries |-> 0]
    BY <1>0, <1>2 DEF StartWorker, WorkerGone, Fresh
  <2>2. ASSUME NEW l \in Libraries PROVE dl'[l] = Cardinality(Holding(l)')
    <3>1. Holding(l)' = {}
      BY <2>1 DEF Holding
    <3> QED
      BY <2>1, <3>1, FS_EmptySet
  <2> QED
    BY <2>2 DEF Balance
<1>3. CASE LoadPlugin
  <2>1. conf' = conf
    BY <1>3 DEF LoadPlugin
  <2> DEFINE m == conf[Len(info) + 1].lib
  <2>2. PICK p \in PluginInfo :
          /\ info' = Append(info, p)
          /\ \/ Holds(p) /\ dl' = [dl EXCEPT ![m] = @ + 1]
             \/ ~Holds(p) /\ dl' = dl
    <3>1. Holds(Loaded)
      BY DEF Holds, Loaded
    <3>2. \A failure \in Failures :
            IF failure = "Init" THEN Holds(NotLoaded(failure))
                                ELSE ~Holds(NotLoaded(failure))
      BY DEF Holds, NotLoaded
    <3>3. CASE info' = Append(info, Loaded) /\ dl' = [dl EXCEPT ![m] = @ + 1]
      BY <3>1, <3>3, InfoTypes
    <3>4. ASSUME NEW failure \in Failures,
                 info' = Append(info, NotLoaded(failure)),
                 dl' = IF failure = "Init" THEN [dl EXCEPT ![m] = @ + 1]
                       ELSE dl
          PROVE  \E p \in PluginInfo :
                    /\ info' = Append(info, p)
                    /\ \/ Holds(p) /\ dl' = [dl EXCEPT ![m] = @ + 1]
                       \/ ~Holds(p) /\ dl' = dl
      <4>1. NotLoaded(failure) \in PluginInfo
        BY InfoTypes
      <4>2. \/ /\ Holds(NotLoaded(failure))
               /\ dl' = [dl EXCEPT ![m] = @ + 1]
            \/ /\ ~Holds(NotLoaded(failure))
               /\ dl' = dl
        BY <3>2, <3>4
      <4> QED
        BY <3>4, <4>1, <4>2
    <3> QED
      BY <1>3, <3>3, <3>4 DEF LoadPlugin, Loading
  <2> HIDE DEF m
  <2>3. ASSUME NEW l \in Libraries PROVE dl'[l] = Cardinality(Holding(l)')
    <3>1. dl[l] = Cardinality(Holding(l)) /\ dl[l] \in Int
      BY <1>b
    <3>2. CASE Holds(p) /\ m = l
      <4>1. /\ Holding(l)' = Holding(l) \cup {Len(info) + 1}
            /\ Len(info) + 1 \notin Holding(l)
        BY <1>0, <2>1, <2>2, <3>2, HoldingAppended DEF m
      <4>2. Cardinality(Holding(l)') = Cardinality(Holding(l)) + 1
        BY <1>c, <4>1, FS_AddElement
      <4>3. dl'[l] = dl[l] + 1
        BY <1>b, <2>2, <3>2
      <4> QED
        BY <3>1, <4>2, <4>3
    <3>3. CASE ~Holds(p) \/ m # l
      <4>1. Holding(l)' = Holding(l)
        BY <1>0, <2>1, <2>2, <3>3, HoldingAppended DEF m
      <4>2. dl'[l] = dl[l]
        BY <1>b, <2>2, <3>3
      <4> QED
        BY <3>1, <4>1, <4>2
    <3> QED
      BY <3>2, <3>3
  <2> QED
    BY <2>3 DEF Balance
<1>4. CASE InsertName
  <2>1. /\ pc = "names" /\ conf' = conf /\ dl' = dl
        /\ info' = info \/ info' = [info EXCEPT ![Len(info)] = Shared(@)]
    BY <1>4 DEF InsertName
  <2>2. Len(info) \in 1..Len(info)
    BY <1>0, <1>a, <2>1 DEF LifeInv
  <2>3. ASSUME NEW l PROVE Holding(l)' = Holding(l)
    <3>1. CASE info' = info
      BY <2>1, <3>1 DEF Holding
    <3>2. CASE info' = [info EXCEPT ![Len(info)] = Shared(info[Len(info)])]
      <4> DEFINE q == info[Len(info)]
      <4>1. q \in PluginInfo
        BY <1>a, <2>2
      <4> HIDE DEF q
      <4>2. Shared(q) \in PluginInfo
        BY <4>1, InfoTypes
      <4>3. Holds(Shared(q)) <=> Holds(q)
        BY <4>1 DEF Holds, Shared, PluginInfo
      <4> QED
        BY <1>0, <2>1, <2>2, <3>2, <4>2, <4>3, HoldingChanged DEF q
    <3> QED
      BY <2>1, <3>1, <3>2
  <2> QED
    BY <1>b, <2>1, <2>3 DEF Balance
<1>5. CASE EndOfRound
  <2> DEFINE q == info[Len(info)]
             m == conf[Len(info)].lib
  <2>1. /\ pc = "names" /\ conf' = conf
        /\ info' = [info EXCEPT ![Len(info)] = Dropped(q)]
        /\ dl' = IF info'[Len(info)].plugin = "deleted"
                 THEN [dl EXCEPT ![m] = @ - 1] ELSE dl
    BY <1>5 DEF EndOfRound
  <2>2. Len(info) \in 1..Len(info) /\ IsKept(q) /\ q.refs >= 1
    BY <1>0, <1>a, <2>1 DEF LifeInv
  <2>3. q \in PluginInfo
    BY <1>a, <2>2
  <2>4. info'[Len(info)] = Dropped(q)
    <3>1. info \in Seq(PluginInfo)
      BY <1>0 DEF Typed
    <3> QED
      BY <2>1, <2>2, <3>1
  <2> HIDE DEF q, m
  <2>5. Dropped(q) \in PluginInfo /\ Holds(q)
    BY <2>2, <2>3, DroppedIs DEF IsKept, Holds
  <2>6. CASE q.refs = 1
    <3>1. ~Holds(Dropped(q)) /\ Dropped(q).plugin = "deleted"
      BY <2>2, <2>3, <2>6, DroppedIs DEF Holds
    <3>2. dl' = [dl EXCEPT ![m] = @ - 1]
      BY <2>1, <2>4, <3>1
    <3>3. ASSUME NEW l \in Libraries PROVE dl'[l] = Cardinality(Holding(l)')
      <4>1. dl[l] = Cardinality(Holding(l)) /\ dl[l] \in Int
        BY <1>b
      <4>2. CASE m = l
        <5>1. Holding(l)' = Holding(l) \ {Len(info)} /\ Len(info) \in Holding(l)
          BY <1>0, <2>1, <2>2, <2>5, <3>1, <4>2, HoldingChanged DEF q, m
        <5>2. Cardinality(Holding(l)') = Cardinality(Holding(l)) - 1
          BY <1>c, <5>1, FS_RemoveElement
        <5>3. dl'[l] = dl[l] - 1
          BY <1>b, <3>2, <4>2
        <5> QED
          BY <4>1, <5>2, <5>3
      <4>3. CASE m # l
        <5>1. Holding(l)' = Holding(l)
          BY <1>0, <2>1, <2>2, <2>5, <4>3, HoldingChanged DEF q, m
        <5>2. dl'[l] = dl[l]
          BY <1>b, <3>2, <4>3
        <5> QED
          BY <4>1, <5>1, <5>2
      <4> QED
        BY <4>2, <4>3
    <3> QED
      BY <3>3 DEF Balance
  <2>7. CASE q.refs # 1
    <3>1. Holds(Dropped(q)) /\ Dropped(q).plugin # "deleted"
      BY <2>2, <2>3, <2>7, DroppedIs DEF Holds, IsKept
    <3>2. dl' = dl
      BY <2>1, <2>4, <3>1
    <3>3. \A l : Holding(l)' = Holding(l)
      BY <1>0, <2>1, <2>2, <2>5, <3>1, HoldingChanged DEF q
    <3> QED
      BY <1>b, <3>2, <3>3 DEF Balance
  <2> QED
    BY <2>6, <2>7
<1>6. CASE Serve
  BY <1>0, <1>6 DEF Serve, Balance, Holding
<1> QED
  BY <1>1, <1>2, <1>3, <1>4, <1>5, <1>6
     DEF Next, ReadLocation, vars, worker

-----------------------------------------------------------------------------
(***************************************************************************)
(* The theorems.                                                           *)
(***************************************************************************)
THEOREM Invariance == Spec => []IInv
<1>1. Init => IInv
  BY InitIInv
<1>2. IInv /\ [Next]_vars => IInv'
  <2> SUFFICES ASSUME IInv, [Next]_vars PROVE IInv'
    OBVIOUS
  <2>1. Typed /\ Fresh /\ FileInv
    BY DEF IInv
  <2>2. Typed' /\ Fresh' /\ FileInv'
    BY <2>1, TypedStep, FreshStep, FileStep
  <2>3. LifeInv' /\ NamesInv' /\ Balance'
    BY LifeStep, NamesStep, BalanceStep
  <2> QED
    BY <2>2, <2>3 DEF IInv
<1> QED
  BY <1>1, <1>2, PTL DEF Spec

\* States are well-formed, and no library is closed more often than it was
\* opened, whatever the files hold and however often a worker is started.
THEOREM TypeCorrect == Spec => []TypeOK
<1>1. IInv => TypeOK
  <2> SUFFICES ASSUME IInv PROVE TypeOK
    OBVIOUS
  <2>1. Typed
    BY DEF IInv
  <2>2. named \in SeqUpTo(Files, MaxNamed)
    BY <2>1, BoundsAssumption, SeqUpToIs DEF Typed
  <2>3. dl \in [Libraries -> Nat]
    <3>1. \A l \in Libraries : dl[l] \in Nat
      BY <2>1, HoldingFinite DEF IInv, Balance
    <3> QED
      BY <2>1, <3>1 DEF Typed
  <2> QED
    BY <2>1, <2>2, <2>3 DEF Typed, TypeOK
<1> QED
  BY <1>1, Invariance, PTL

\* An entry that a name leads to is alive, whatever the worker is doing.
LEMMA MappedKept ==
    ASSUME IInv, NEW n \in DOMAIN plugins
    PROVE  plugins[n] \in 1..Len(info) /\ IsKept(info[plugins[n]])
<1>0. Typed /\ Fresh /\ LifeInv
  BY DEF IInv
<1>1. Len(info) \in Nat /\ DOMAIN info = 1..Len(info)
  BY <1>0, ProductType
<1>2. plugins[n] \in 1..Len(info) /\ Mapped(plugins[n])
  BY <1>0 DEF Typed, Mapped
<1>3. CASE plugins[n] < Len(info) \/ pc \in {"load", "serving"}
  <2>1. Settled(plugins[n])
    BY <1>0, <1>1, <1>2, <1>3 DEF LifeInv
  <2> QED
    BY <1>2, <2>1 DEF Settled
<1>4. CASE plugins[n] = Len(info) /\ pc = "names"
  BY <1>0, <1>2, <1>4 DEF LifeInv
<1>5. CASE plugins[n] = Len(info) /\ pc = "exited"
  <2>1. info # <<>>
    BY <1>1, <1>2
  <2>2. ~Mapped(Len(info))
    BY <1>0, <1>5, <2>1 DEF LifeInv
  <2> QED
    BY <1>2, <1>5, <2>2
<1>6. CASE pc = "none"
  BY <1>0, <1>6 DEF Fresh
<1>7. plugins[n] < Len(info) \/ plugins[n] = Len(info)
  BY <1>1, <1>2
<1>8. pc \in {"none", "load", "names", "serving", "exited"}
  BY <1>0 DEF Typed, Steps
<1> QED
  BY <1>3, <1>4, <1>5, <1>6, <1>7, <1>8

\* However many entries, names and libraries there are and however the
\* entries share them, a plugin that can be got is alive, initialized once,
\* and its library is open.
THEOREM PluginsStayAlive == Spec => []PluginAlive
<1>1. IInv => PluginAlive
  <2> SUFFICES ASSUME IInv, NEW n \in Names, GetPlugin(n) # 0
               PROVE  LET i == GetPlugin(n)
                      IN  /\ info[i].plugin = "ready"
                          /\ info[i].so_handler = "open"
                          /\ dl[conf[i].lib] > 0
    BY DEF PluginAlive
  <2>1. n \in DOMAIN plugins /\ GetPlugin(n) = plugins[n]
    BY DEF GetPlugin
  <2> DEFINE i == plugins[n]
  <2>2. i \in 1..Len(info) /\ IsKept(info[i])
    BY <2>1, MappedKept
  <2>3. Typed /\ Balance
    BY DEF IInv
  <2>4. i \in DOMAIN info /\ conf[i].lib \in Libraries
    <3>1. Len(info) \in Nat /\ Len(conf) \in Nat /\ Len(info) <= Len(conf)
      BY <2>3, ProductType DEF Typed
    <3>2. i \in 1..Len(conf)
      BY <2>2, <3>1
    <3> QED
      BY <2>2, <2>3, <3>2, ProductType
  <2> HIDE DEF i
  <2>5. i \in Holding(conf[i].lib)
    BY <2>2, <2>4 DEF Holding, IsKept
  <2>6. Cardinality(Holding(conf[i].lib)) # 0
    BY <2>3, <2>5, HoldingFinite, FS_EmptySet
  <2>7. dl[conf[i].lib] > 0
    BY <2>3, <2>4, <2>6, HoldingFinite DEF Balance
  <2> QED
    BY <2>1, <2>2, <2>7 DEF i, IsKept
<1> QED
  BY <1>1, Invariance, PTL

\* The count of each library is that of the entries that hold it, and only a
\* worker that has given up holds one it will never close.
THEOREM OpenedAsOftenAsHeld == Spec => []LibrariesBalance
<1>1. IInv => LibrariesBalance
  <2> SUFFICES ASSUME IInv,
                      NEW i \in DOMAIN info, info[i].plugin = "lost"
               PROVE  pc = "exited"
    BY DEF LibrariesBalance, IInv, Balance
  <2>0. Typed /\ Fresh /\ LifeInv
    BY DEF IInv
  <2>1. Len(info) \in Nat /\ DOMAIN info = 1..Len(info)
    BY <2>0, ProductType
  <2>2. ~IsKept(info[i]) /\ ~IsUnloaded(info[i])
    BY DEF IsKept, IsUnloaded
  <2>3. ~Settled(i)
    BY <2>2 DEF Settled
  <2>4. i = Len(info)
    <3>1. ~(i < Len(info))
      BY <2>0, <2>3 DEF LifeInv
    <3> QED
      BY <2>1, <3>1
  <2>5. pc \notin {"load", "serving"}
    BY <2>0, <2>3 DEF LifeInv
  <2>6. pc # "names"
    BY <2>0, <2>2, <2>4 DEF LifeInv
  <2>7. pc # "none"
    BY <2>0 DEF Fresh
  <2> QED
    BY <2>0, <2>5, <2>6, <2>7 DEF Typed, Steps
<1> QED
  BY <1>1, Invariance, PTL

\* A worker that serves gives each name the first entry of its file that
\* claims it, and knows no other name, for every file.
THEOREM FirstEntryHasTheName == Spec => []FirstEntryWins
<1>1. IInv => FirstEntryWins
  <2> SUFFICES ASSUME IInv, pc = "serving", NEW n \in Names
               PROVE  IF Naming(n) = {} THEN GetPlugin(n) = 0
                      ELSE /\ GetPlugin(n) \in Naming(n)
                           /\ \A i \in Naming(n) : GetPlugin(n) <= i
    BY DEF FirstEntryWins
  <2>0. Typed /\ LifeInv /\ NamesInv
    BY DEF IInv
  <2>1. DOMAIN info = DOMAIN conf
    <3>1. DOMAIN info = 1..Len(info) /\ DOMAIN conf = 1..Len(conf)
      BY <2>0, ProductType
    <3>2. Len(info) = Len(conf)
      BY <2>0 DEF LifeInv
    <3> QED
      BY <3>1, <3>2
  <2>2. \A i : i \in Naming(n) <=> i \in DOMAIN info /\ Claimed(i, n)
    BY <2>1 DEF Naming, Claimed
  <2>3. /\ n \in DOMAIN plugins =>
             /\ Claimed(plugins[n], n)
             /\ \A i \in DOMAIN info : Claimed(i, n) => plugins[n] <= i
        /\ \A i \in DOMAIN info : Claimed(i, n) => n \in DOMAIN plugins
    BY <2>0 DEF NamesInv
  <2>4. \A i : Claimed(i, n) => i \in DOMAIN info
    BY DEF Claimed
  <2>5. CASE n \in DOMAIN plugins
    <3>1. GetPlugin(n) = plugins[n]
      BY <2>5 DEF GetPlugin
    <3> QED
      BY <2>2, <2>3, <2>4, <2>5, <3>1
  <2>6. CASE n \notin DOMAIN plugins
    <3>1. GetPlugin(n) = 0
      BY <2>6 DEF GetPlugin
    <3>2. Naming(n) = {}
      BY <2>2, <2>3, <2>6
    <3> QED
      BY <3>1, <3>2
  <2> QED
    BY <2>5, <2>6
<1> QED
  BY <1>1, Invariance, PTL

\* A worker that serves has initialized every entry's plugin once and has
\* kept those, and only those, that a name leads to.
THEOREM EachInitializedOnce == Spec => []InitializedOnce
<1>1. IInv => InitializedOnce
  <2> SUFFICES ASSUME IInv, pc = "serving"
               PROVE  /\ Len(info) = Len(conf)
                      /\ \A i \in DOMAIN conf :
                           /\ info[i].inits = 1
                           /\ info[i].plugin =
                                IF \E n \in DOMAIN plugins : plugins[n] = i
                                THEN "ready" ELSE "deleted"
    BY DEF InitializedOnce
  <2>0. Typed /\ LifeInv
    BY DEF IInv
  <2>1. Len(info) = Len(conf)
    BY <2>0 DEF LifeInv
  <2>2. DOMAIN info = DOMAIN conf
    <3>1. DOMAIN info = 1..Len(info) /\ DOMAIN conf = 1..Len(conf)
      BY <2>0, ProductType
    <3> QED
      BY <2>1, <3>1
  <2>3. ASSUME NEW i \in DOMAIN conf
        PROVE  /\ info[i].inits = 1
               /\ info[i].plugin =
                    IF \E n \in DOMAIN plugins : plugins[n] = i
                    THEN "ready" ELSE "deleted"
    <3>1. Settled(i)
      BY <2>0, <2>2 DEF LifeInv
    <3>2. CASE Mapped(i)
      <4>1. IsKept(info[i])
        BY <3>1, <3>2 DEF Settled
      <4> QED
        BY <3>2, <4>1 DEF IsKept, Mapped
    <3>3. CASE ~Mapped(i)
      <4>1. IsUnloaded(info[i])
        BY <3>1, <3>3 DEF Settled
      <4> QED
        BY <3>3, <4>1 DEF IsUnloaded, Mapped
    <3> QED
      BY <3>2, <3>3
  <2> QED
    BY <2>1, <2>3
<1> QED
  BY <1>1, Invariance, PTL

\* Whatever locations are read and however often workers are started, each
\* reads the file that was named first.
THEOREM FirstFileForever == Spec => []FileOfFirstLocation
<1>1. IInv => FileOfFirstLocation
  <2> SUFFICES ASSUME IInv, file # NoFile
               PROVE  named # <<>> /\ file = Head(named)
    BY DEF FileOfFirstLocation
  <2>1. Typed /\ FileInv
    BY DEF IInv
  <2>2. named # <<>> /\ file = named[1]
    BY <2>1 DEF FileInv
  <2> QED
    BY <2>1, <2>2 DEF Typed
<1> QED
  BY <1>1, Invariance, PTL
=============================================================================
