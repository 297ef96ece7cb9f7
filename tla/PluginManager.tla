--------------------------- MODULE PluginManager ----------------------------
(***************************************************************************)
(* How a worker comes by its plugins: the handler that the configuration   *)
(* of a location creates in the master (src/ngx_http_adfront_module.c,     *)
(* src/ngx_handler_interface.cc, src/ngx_handler.cc), and what             *)
(* PluginManager::Init does with it in every worker                        *)
(* (src/plugin_manager/plugin_manager.cc).                                 *)
(*                                                                         *)
(* There is one worker: the others do the same in a memory of their own.   *)
(* It is started when nginx starts, when it is told to read its            *)
(* configuration again and when the last worker has crashed.  A step of    *)
(* the worker is one round of a loop of LoadPlugins, or one name of it.    *)
(***************************************************************************)
EXTENDS Integers, Sequences, FiniteSets

CONSTANTS
    Files,        \* the files that plugin_manager_config_file may name
    NoFile,
    Names,        \* of plugins
    Libraries,    \* what so_home_path and so_name name
    MaxEntries,   \* bound on the entries of a file
    MaxNames,     \* bound on the names of an entry
    MaxNamed      \* bound on the directives read, over all configurations

ASSUME NoFileAssumption == NoFile \notin Files
ASSUME BoundsAssumption == {MaxEntries, MaxNames, MaxNamed} \subseteq Nat

VARIABLES
    named,      \* history: the files named by the locations, as they are read
    handle,     \* adfront_handle->config_file_; NoFile when it is NULL
    pc,         \* where the worker is
    file,       \* the file it has to read
    conf,       \* config_obj_.plugin_conf_list
    info,       \* the PluginInfo of each entry so far
    inserted,   \* how many names of the last entry have been inserted
    plugins,    \* plugins_info_map_: the entry behind a name
    dl          \* how often each library is open

vars == <<named, handle, pc, file, conf, info, inserted, plugins, dl>>
worker == <<pc, file, conf, info, inserted, plugins, dl>>

SeqUpTo(S, n) == UNION {[1..k -> S] : k \in 0..n}

Entry == [names : SeqUpTo(Names, MaxNames), lib : Libraries]

(***************************************************************************)
(* refs counts the shared pointers to a PluginInfo.  plugin is what became *)
(* of its instance: "lost" when its Init failed, in which case neither it  *)
(* nor its library can be reached any more.                                *)
(***************************************************************************)
PluginInfo ==
    [refs : Nat, plugin : {"none", "ready", "lost", "deleted"},
     so_handler : {"open", "NULL"}, inits : Nat]

Steps == {"none", "load", "names", "serving", "exited"}

Init ==
    /\ named = <<>>
    /\ handle = NoFile
    /\ pc = "none"
    /\ file = NoFile
    /\ conf = <<>>
    /\ info = <<>>
    /\ inserted = 0
    /\ plugins = <<>>
    /\ dl = [l \in Libraries |-> 0]

(***************************************************************************)
(* The master.                                                             *)
(***************************************************************************)
\* Definitions with a second name after an underscore are wrong versions of
\* the one that follows them: what a slip in the code would make of it.
ngx_http_adfront_merge_loc_conf_Anew(f) == handle' = f

\* A location names file f.  The first to do so creates the handler, and the
\* handler outlives the configuration: it is a global of the process.
ngx_http_adfront_merge_loc_conf(f) ==
    handle' = IF handle = NoFile THEN f ELSE handle

ReadLocation(f) ==
    /\ Len(named) < MaxNamed
    /\ named' = Append(named, f)
    /\ ngx_http_adfront_merge_loc_conf(f)
    /\ UNCHANGED worker

(***************************************************************************)
(* The worker.                                                             *)
(***************************************************************************)
\* PluginManager::Init.  What the file holds may have changed since the last
\* worker read it; it may be gone or malformed.
ReadPluginConfList ==
    \/ /\ conf' \in SeqUpTo(Entry, MaxEntries)
       /\ pc' = "load"
    \/ /\ UNCHANGED conf
       /\ pc' = "exited"

\* Handler::InitProcess: each worker has a plugin manager of its own, and the
\* handler knows no more than the name of its file.
InitProcess ==
    /\ file' = handle
    /\ ReadPluginConfList

\* ngx_http_adfront_init_process in a new process.
StartWorker ==
    /\ pc = "none"
    /\ \/ /\ handle # NoFile
          /\ InitProcess
       \/ /\ handle = NoFile
          /\ pc' = "exited"
          /\ UNCHANGED <<file, conf>>
    /\ UNCHANGED <<named, handle, info, inserted, plugins, dl>>

\* The worker has exited, crashed or been killed, or quits for one with a newer
\* configuration: what it had in memory is gone, and nothing is destroyed.
WorkerGone ==
    /\ pc # "none"
    /\ pc' = "none"
    /\ file' = NoFile
    /\ conf' = <<>>
    /\ info' = <<>>
    /\ inserted' = 0
    /\ plugins' = <<>>
    /\ dl' = [l \in Libraries |-> 0]
    /\ UNCHANGED <<named, handle>>

\* What can go wrong with an entry, in the order in which it is tried.
Failures == {"dlopen", "dlsym", "create_instance", "Init"}

Loading == conf[Len(info) + 1]

\* The PluginInfo of an entry that has been loaded, and of one that has not.
Loaded == [refs |-> 1, plugin |-> "ready", so_handler |-> "open", inits |-> 1]

NotLoaded(failure) ==
    [refs |-> 0, so_handler |-> "NULL",
     plugin |-> IF failure = "Init" THEN "lost" ELSE "none",
     inits |-> IF failure = "Init" THEN 1 ELSE 0]

LoadPlugin ==
    /\ pc = "load"
    /\ Len(info) < Len(conf)
    /\ \/ /\ info' = Append(info, Loaded)
          /\ dl' = [dl EXCEPT ![Loading.lib] = @ + 1]
          /\ inserted' = 0
          /\ pc' = "names"
       \/ \E failure \in Failures :
            /\ info' = Append(info, NotLoaded(failure))
            /\ dl' = IF failure = "Init" THEN [dl EXCEPT ![Loading.lib] = @ + 1]
                     ELSE dl
            /\ pc' = "exited"
            /\ UNCHANGED inserted
    /\ UNCHANGED <<named, handle, file, conf, plugins>>

Inserted_Assigned(n) ==
    [m \in DOMAIN plugins \cup {n} |-> IF m = n THEN Len(info) ELSE plugins[m]]

Inserted_FromZero(n) ==
    [m \in DOMAIN plugins \cup {n} |->
        IF m \in DOMAIN plugins THEN plugins[m] ELSE Len(info) - 1]

\* std::map::insert: a name that is there keeps its plugin.
Inserted(n) ==
    [m \in DOMAIN plugins \cup {n} |->
        IF m \in DOMAIN plugins THEN plugins[m] ELSE Len(info)]

\* A shared pointer is copied.
Shared(p) == [p EXCEPT !.refs = @ + 1]

InsertName ==
    /\ pc = "names"
    /\ inserted < Len(conf[Len(info)].names)
    /\ LET n == conf[Len(info)].names[inserted + 1]
       IN  /\ plugins' = Inserted(n)
           /\ info' = IF n \in DOMAIN plugins THEN info
                      ELSE [info EXCEPT ![Len(info)] = Shared(@)]
    /\ inserted' = inserted + 1
    /\ UNCHANGED <<named, handle, pc, file, conf, dl>>

Destroyed_StillOpen(p) == [p EXCEPT !.plugin = "deleted"]

\* ~PluginInfo
Destroyed(p) == [p EXCEPT !.plugin = "deleted", !.so_handler = "NULL"]

Dropped_Freed(p) == Destroyed([p EXCEPT !.refs = @ - 1])

\* A shared pointer goes out of scope.
Dropped(p) ==
    IF p.refs = 1 THEN Destroyed([p EXCEPT !.refs = 0])
    ELSE [p EXCEPT !.refs = @ - 1]

\* The end of a round: plugin_info_ptr goes out of scope.
EndOfRound ==
    /\ pc = "names"
    /\ inserted = Len(conf[Len(info)].names)
    /\ info' = [info EXCEPT ![Len(info)] = Dropped(@)]
    /\ dl' = IF info'[Len(info)].plugin = "deleted"
             THEN [dl EXCEPT ![conf[Len(info)].lib] = @ - 1] ELSE dl
    /\ pc' = "load"
    /\ UNCHANGED <<named, handle, file, conf, inserted, plugins>>

LoadPlugins_Skip == pc = "load" /\ Len(info) + 1 >= Len(conf)

\* Every entry has been loaded.
LoadPlugins == pc = "load" /\ Len(info) = Len(conf)

\* plugin_init_handler reports success, and the worker goes to its event loop.
Serve ==
    /\ LoadPlugins
    /\ pc' = "serving"
    /\ UNCHANGED <<named, handle, file, conf, info, inserted, plugins, dl>>

\* The entry whose plugin_ptr is handed out, 0 for NULL.
GetPlugin(n) == IF n \in DOMAIN plugins THEN plugins[n] ELSE 0

Next ==
    \/ \E f \in Files : ReadLocation(f)
    \/ StartWorker
    \/ WorkerGone
    \/ LoadPlugin
    \/ InsertName
    \/ EndOfRound
    \/ Serve

Spec == Init /\ [][Next]_vars

-----------------------------------------------------------------------------
(***************************************************************************)
(* Properties.                                                             *)
(***************************************************************************)
TypeOK ==
    /\ named \in SeqUpTo(Files, MaxNamed)
    /\ handle \in Files \cup {NoFile}
    /\ file \in Files \cup {NoFile}
    /\ pc \in Steps
    /\ conf \in Seq(Entry)
    /\ info \in Seq(PluginInfo) /\ Len(info) <= Len(conf)
    /\ inserted \in 0..MaxNames
    /\ DOMAIN plugins \subseteq Names
    /\ \A n \in DOMAIN plugins : plugins[n] \in 1..Len(info)
    /\ dl \in [Libraries -> Nat]

\* PluginManager::GetPlugin never hands out a plugin that has been deleted or
\* whose library is closed, however names are shared between entries and
\* however often one library is named (the shared pointers of
\* plugins_info_map_, the destructor of PluginInfo).
PluginAlive ==
    \A n \in Names :
        LET i == GetPlugin(n)
        IN  i # 0 =>
            /\ info[i].plugin = "ready" /\ info[i].so_handler = "open"
            /\ dl[conf[i].lib] > 0

\* The entries that have library l open.
Holding(l) ==
    {i \in DOMAIN info : /\ conf[i].lib = l
                         /\ \/ info[i].so_handler = "open"
                            \/ info[i].plugin = "lost"}

\* Every dlopen is matched by the PluginInfo that will close it, except that
\* of a plugin whose Init failed: that one is never closed, and the worker
\* goes down with it.
LibrariesBalance ==
    /\ \A l \in Libraries : dl[l] = Cardinality(Holding(l))
    /\ (\E i \in DOMAIN info : info[i].plugin = "lost") => pc = "exited"

\* The entries that name n, and who answers for it in the end: the first of
\* them.
Naming(n) == {i \in DOMAIN conf : \E j \in DOMAIN conf[i].names :
                                      conf[i].names[j] = n}

\* A worker that serves knows every name of its file and no other, and the
\* first entry with a name has it, even when a later entry claims it again.
FirstEntryWins ==
    pc = "serving" =>
        \A n \in Names :
            IF Naming(n) = {} THEN GetPlugin(n) = 0
            ELSE /\ GetPlugin(n) \in Naming(n)
                 /\ \A i \in Naming(n) : GetPlugin(n) <= i

\* A worker that serves has initialized the plugin of every entry once, and
\* has kept just those that have a name of their own: an entry whose names
\* are all taken, or that has none, is unloaded again after its Init.
InitializedOnce ==
    pc = "serving" =>
        /\ Len(info) = Len(conf)
        /\ \A i \in DOMAIN conf :
             /\ info[i].inits = 1
             /\ info[i].plugin =
                  IF \E n \in DOMAIN plugins : plugins[n] = i
                  THEN "ready" ELSE "deleted"

\* Workers of every generation read one file, the first that was named since
\* nginx was started: neither another location nor a reload can change it.
FileOfFirstLocation ==
    file # NoFile => /\ named # <<>>
                     /\ file = Head(named)
=============================================================================
