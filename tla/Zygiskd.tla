------------------------------- MODULE Zygiskd -------------------------------
(***************************************************************************)
(* zygiskd (daemon/zygisk/daemon/zygiskd.cpp) and the module loading of    *)
(* the injected core (daemon/zygisk/core/src/core.cpp).                    *)
(*                                                                         *)
(* The daemon is one thread: it scans the module directories and reads     *)
(* yzconfig.json at start and again at every RELOAD event, and answers one *)
(* request per connection.  An app process asks for the configuration, the *)
(* grants, the number of modules and then, per index, a name and a file,   *)
(* each on a connection of its own: the daemon may reload, die or start    *)
(* again between any two of them.                                          *)
(***************************************************************************)
EXTENDS Integers, Sequences, SequencesExt, TLC

CONSTANTS
    Order,        \* the modules, in the order readdir returns them
    Uids,
    Procs,        \* app processes
    Configs,      \* the contents yzconfig.json may have
    NoModule,     \* the empty name, an empty companion slot
    MaxEdits,     \* bound: changes of the files
    MaxDeaths,    \* bound: deaths of the daemon
    MaxQueue,     \* bound: events the netlink socket holds
    MaxCalls      \* bound: companion connections per process

Mods == ToSet(Order)

CONSTANT UidOf   \* the uid a process specialises to

ASSUME OrderAssumption == Order \in Seq(Mods) /\ IsInjective(Order)
ASSUME UidAssumption == UidOf \in [Procs -> Uids]
ASSUME NoModuleAssumption == NoModule \notin Mods
ASSUME BoundsAssumption == {MaxEdits, MaxDeaths, MaxQueue, MaxCalls} \subseteq Nat

\* A scope entry of the file: no entry, "*", or a list of uids.
Scope == [kind : {"absent", "star", "list"}, uids : SUBSET Uids]
Config == [filter : BOOLEAN, granted : SUBSET Mods, scopes : [Mods -> Scope]]
ASSUME ConfigAssumption == Configs \subseteq Config

VARIABLES
    disk,      \* the enabled module directories and yzconfig.json
    edits,     \* changes made so far
    unsaid,    \* the files changed and no RELOAD was sent since
    missed,    \* a RELOAD was lost after the daemon had scanned
    dpc,       \* the daemon: down, its start, or serving
    deaths,
    queue,     \* RELOAD events waiting in the daemon's netlink socket
    mods,      \* g_modules
    conf,      \* g_granted_modules, g_grant_filter_active, g_module_scopes
    comps,     \* g_companions
    drained,   \* the daemon reloaded since it started
    procs,     \* the state of load_modules_impl in each process
    calm,      \* the daemon served one and the same list since the process began
    served     \* companion connections made: asked for, got

files == <<disk, edits, unsaid>>
daemon == <<dpc, deaths, queue, mods, conf, comps, drained, missed>>
clients == <<procs, calm, served>>
vars == <<files, daemon, clients>>

-----------------------------------------------------------------------------
(* What the daemon decides.                                                 *)

\* scan_modules: the enabled directories, in readdir order.
Scan(enabled) ==
    LET found[i \in 0..Len(Order)] ==
            IF i = 0 THEN <<>>
            ELSE IF Order[i] \in enabled THEN Append(found[i - 1], Order[i]) ELSE found[i - 1]
    IN  found[Len(Order)]

\* read_yzconfig: `wildcard` starts true; a list fills `uids`, and the test
\* that would clear `wildcard` requires it to be clear already.
ParseScope(text) ==
    LET start == TRUE
    IN  [wildcard |-> IF text.kind = "list" /\ ~start /\ text.uids # {} THEN FALSE ELSE start,
         uids     |-> text.uids]

\* module_globally_granted
GloballyGranted(m) == conf.filter => m \in conf.granted

\* module_granted_for_uid
GrantedForUid(m, uid) ==
    \/ conf.scopes[m].kind = "absent"
    \/ ParseScope(conf.scopes[m]).wildcard
    \/ uid \in ParseScope(conf.scopes[m]).uids

\* GetGrantedModules
Picked(uid) == {m \in ToSet(mods) : GloballyGranted(m) /\ GrantedForUid(m, uid)}

EmptySlot == [lib |-> NoModule, alive |-> FALSE, entry |-> FALSE]

\* std::vector::resize: a new length keeps the slots that fit.
Resized(slots, n) == [i \in 1..n |-> IF i <= Len(slots) THEN slots[i] ELSE EmptySlot]

-----------------------------------------------------------------------------
(* The files, and the manager's `tamisu_daemon zygisk reload`.              *)

EditFiles(enabled, config) ==
    /\ edits < MaxEdits
    /\ [enabled |-> enabled, conf |-> config] # disk
    /\ disk' = [enabled |-> enabled, conf |-> config]
    /\ edits' = edits + 1
    /\ unsaid' = TRUE
    /\ UNCHANGED <<daemon, clients>>

\* TAMISU_IOCTL_YZ_RELOAD: multicast, which reaches a bound socket or nobody.
SignalReload ==
    /\ unsaid
    /\ unsaid' = FALSE
    /\ IF dpc = "up" /\ queue < MaxQueue
       THEN queue' = queue + 1 /\ UNCHANGED missed
       ELSE /\ missed' = (missed \/ dpc \in {"scanned", "parsed", "up"})
            /\ UNCHANGED queue
    /\ UNCHANGED <<disk, edits, dpc, deaths, mods, conf, comps, drained, clients>>

-----------------------------------------------------------------------------
(* run_daemon                                                               *)

\* bind_listen: from here on connections queue up in the listen backlog.
Bind ==
    /\ dpc = "down"
    /\ dpc' = "bound"
    /\ UNCHANGED <<files, deaths, queue, mods, conf, comps, drained, missed, clients>>

\* rescan_modules
Rescan ==
    /\ dpc = "bound"
    /\ mods' = Scan(disk.enabled)
    /\ dpc' = "scanned"
    /\ UNCHANGED <<files, deaths, queue, conf, comps, drained, missed, clients>>

\* read_yzconfig
ReadConfig ==
    /\ dpc = "scanned"
    /\ conf' = disk.conf
    /\ dpc' = "parsed"
    /\ UNCHANGED <<files, deaths, queue, mods, comps, drained, missed, clients>>

\* nl_listen, then the poll loop
Listen ==
    /\ dpc = "parsed"
    /\ dpc' = "up"
    /\ UNCHANGED <<files, deaths, queue, mods, conf, comps, drained, missed, clients>>

\* nl_drain reads the modules again and forgets the configuration.
DrainReloadMut ==
    /\ dpc = "up" /\ queue > 0
    /\ queue' = queue - 1
    /\ mods' = Scan(disk.enabled)
    /\ drained' = TRUE
    /\ missed' = FALSE
    /\ calm' = [p \in Procs |-> FALSE]
    /\ UNCHANGED <<files, dpc, deaths, conf, comps, procs, served>>

\* nl_drain: one datagram, YZ_EV_RELOAD.  g_companions is left alone.
DrainReload ==
    /\ dpc = "up" /\ queue > 0
    /\ queue' = queue - 1
    /\ mods' = Scan(disk.enabled)
    /\ conf' = disk.conf
    /\ drained' = TRUE
    /\ missed' = FALSE
    /\ calm' = [p \in Procs |-> FALSE]
    /\ UNCHANGED <<files, dpc, deaths, comps, procs, served>>

\* The daemon is killed; its companions read end-of-file and exit.
DaemonDies ==
    /\ dpc # "down" /\ deaths < MaxDeaths
    /\ dpc' = "down"
    /\ deaths' = deaths + 1
    /\ queue' = 0 /\ comps' = <<>> /\ mods' = <<>>
    /\ drained' = FALSE /\ missed' = FALSE
    /\ calm' = [p \in Procs |-> FALSE]
    /\ UNCHANGED <<files, conf, procs, served>>

\* A companion process crashes; its slot keeps the pid and the socket.
CompanionDies ==
    /\ \E i \in DOMAIN comps :
          /\ comps[i].alive
          /\ comps' = [comps EXCEPT ![i].alive = FALSE]
    /\ UNCHANGED <<files, dpc, deaths, queue, mods, conf, drained, missed, clients>>

-----------------------------------------------------------------------------
(* load_modules_impl in process p.  A request is answered while the daemon  *)
(* serves, waits while it starts, and fails while it is down.               *)

Answered == dpc = "up"
Refused == dpc = "down"

Goto(p, pc) == [procs EXCEPT ![p].pc = pc]

\* The process is forked and starts to specialise.
Begin(p) ==
    /\ procs[p].pc = "idle"
    /\ procs' = Goto(p, "config")
    /\ calm' = [calm EXCEPT ![p] = Answered]
    /\ UNCHANGED <<files, daemon, served>>

\* zd_load_config: no answer keeps what the process inherited.
GetConfig(p) ==
    /\ procs[p].pc = "config"
    /\ Answered \/ Refused
    /\ LET on == IF Answered THEN conf.filter ELSE procs[p].filter
       IN  procs' = [procs EXCEPT ![p] = [@ EXCEPT !.filter = on,
                                                   !.pc = IF on THEN "granted" ELSE "count"]]
    /\ UNCHANGED <<files, daemon, calm, served>>

\* fetch_granted_modules: no answer is the empty set.
GetGranted(p) ==
    /\ procs[p].pc = "granted"
    /\ Answered \/ Refused
    /\ procs' = [procs EXCEPT ![p] = [@ EXCEPT !.granted = IF Answered THEN Picked(UidOf[p]) ELSE {},
                                               !.pc = "count"]]
    /\ UNCHANGED <<files, daemon, calm, served>>

\* GetModuleCount: no answer ends the load.
GetCount(p) ==
    /\ procs[p].pc = "count"
    /\ Answered \/ Refused
    /\ procs' = IF Answered /\ mods # <<>>
                THEN [procs EXCEPT ![p] = [@ EXCEPT !.count = Len(mods), !.pc = "name"]]
                ELSE Goto(p, "running")
    /\ UNCHANGED <<files, daemon, calm, served>>

\* The loop goes on to index i + 1, or ends.
Advanced(st) == [st EXCEPT !.i = @ + 1,
                           !.pc = IF st.i + 1 < st.count THEN "name" ELSE "running"]

\* The filter forgotten: every index goes on to its file.
GetNameMut(p) ==
    /\ procs[p].pc = "name"
    /\ Answered \/ Refused
    /\ LET i == procs[p].i
       IN  procs' = [procs EXCEPT ![p].pc = "fd",
                        ![p].name = IF Answered /\ i < Len(mods) THEN mods[i + 1] ELSE NoModule]
    /\ UNCHANGED <<files, daemon, calm, served>>

\* GetModuleName(i), and the grant test on the name.
GetName(p) ==
    /\ procs[p].pc = "name"
    /\ Answered \/ Refused
    /\ LET st   == procs[p]
           name == IF Answered /\ st.i < Len(mods) THEN mods[st.i + 1] ELSE NoModule
           skip == st.filter /\ name \notin st.granted
       IN  procs' = [procs EXCEPT ![p] = IF skip THEN Advanced(st)
                                         ELSE [st EXCEPT !.name = name, !.pc = "fd"]]
    /\ UNCHANGED <<files, daemon, calm, served>>

\* GetModuleFd(i) answered: the library is mapped and registers itself.
GetFd(p) ==
    /\ procs[p].pc = "fd"
    /\ Answered /\ procs[p].i < Len(mods)
    /\ LET st == procs[p]
       IN  procs' = [procs EXCEPT ![p] =
                        [Advanced(st) EXCEPT !.loaded =
                            Append(@, [lib |-> mods[st.i + 1], name |-> st.name, id |-> st.i])]]
    /\ UNCHANGED <<files, daemon, calm, served>>

\* No file, or one that cannot be mapped or does not register: the index is skipped.
GetFdFails(p) ==
    /\ procs[p].pc = "fd"
    /\ Answered \/ Refused
    /\ LET st == procs[p]
       IN  procs' = [procs EXCEPT ![p] = [Advanced(st) EXCEPT !.failed = @ \cup {st.i}]]
    /\ UNCHANGED <<files, daemon, calm, served>>

-----------------------------------------------------------------------------
(* ConnectCompanion, from a module's callback in a running process.         *)

\* ensure_companion found or started a companion; the socket reaches it.
Reach(p, rec, slots, i) ==
    /\ comps' = slots
    /\ served' = [served EXCEPT ![p] = Append(@,
                    [asked |-> rec.lib, got |-> slots[i].lib,
                     calm |-> calm[p] /\ ~drained])]

\* ensure_companion starts the companion of the neighbouring module.
SpawnedMut(i, entry) ==
    [lib |-> mods[IF i < Len(mods) THEN i + 1 ELSE i], alive |-> TRUE, entry |-> entry]

\* The companion forked for slot i runs the library now at index i.
Spawned(i, entry) == [lib |-> mods[i], alive |-> TRUE, entry |-> entry]

\* handle_client ConnectCompanion for the k-th module the process loaded.
Connect(p, k) ==
    LET rec   == procs[p].loaded[k]
        i     == rec.id + 1
        slots == Resized(comps, Len(mods))
    IN  /\ procs[p].pc = "running" /\ Len(served[p]) < MaxCalls
        /\ Answered
        /\ i <= Len(mods)
        /\ IF slots[i] # EmptySlot
           THEN IF slots[i].entry /\ slots[i].alive
                THEN Reach(p, rec, slots, i)
                ELSE comps' = slots /\ UNCHANGED served
           ELSE \/ Reach(p, rec, [slots EXCEPT ![i] = Spawned(i, TRUE)], i)
                \/ /\ comps' = [slots EXCEPT ![i] = Spawned(i, FALSE)]
                   /\ UNCHANGED served
                \/ /\ comps' = slots          \* not ready within kCompanionReadyMs
                   /\ UNCHANGED served
        /\ UNCHANGED <<files, dpc, deaths, queue, mods, conf, drained, missed, procs, calm>>

-----------------------------------------------------------------------------
NewProc == [pc |-> "idle", filter |-> FALSE, granted |-> {}, count |-> 0, i |-> 0,
            name |-> NoModule, loaded |-> <<>>, failed |-> {}]

Init ==
    /\ \E c \in Configs : disk = [enabled |-> Mods, conf |-> c] /\ conf = c
    /\ edits = 0 /\ unsaid = FALSE /\ missed = FALSE
    /\ dpc = "down" /\ deaths = 0 /\ queue = 0
    /\ mods = <<>> /\ comps = <<>> /\ drained = FALSE
    /\ procs = [p \in Procs |-> NewProc]
    /\ calm = [p \in Procs |-> FALSE]
    /\ served = [p \in Procs |-> <<>>]

Files == (\E e \in SUBSET Mods, c \in Configs : EditFiles(e, c)) \/ SignalReload
Startup == Rescan \/ ReadConfig \/ Listen
Daemon == Bind \/ Startup \/ DrainReload \/ DaemonDies \/ CompanionDies
Load(p) == \/ GetConfig(p) \/ GetGranted(p) \/ GetCount(p)
           \/ GetName(p) \/ GetFd(p) \/ GetFdFails(p)
Client(p) == Begin(p) \/ Load(p) \/ \E k \in DOMAIN procs[p].loaded : Connect(p, k)

Next == Files \/ Daemon \/ \E p \in Procs : Client(p)

Spec == Init /\ [][Next]_vars

\* The daemon finishes its start and drains its socket; a process that loads
\* keeps running.  Nobody promises to start the daemon.
Fairness == /\ WF_vars(Startup)
            /\ WF_vars(DrainReload)
            /\ \A p \in Procs : WF_vars(Load(p))

FairSpec == Spec /\ Fairness

-----------------------------------------------------------------------------
Named == Mods \cup {NoModule}
Loaded == [lib : Mods, name : Named, id : Nat]
Companion == [lib : Named, alive : BOOLEAN, entry : BOOLEAN]
Process ==
    [pc : {"idle", "config", "granted", "count", "name", "fd", "running"}, filter : BOOLEAN,
     granted : SUBSET Mods, count : Nat, i : Nat, name : Named,
     loaded : Seq(Loaded), failed : SUBSET Nat]

\* Type invariant: the daemon's tables and each process's place in the load.
TypeOK ==
    /\ disk \in [enabled : SUBSET Mods, conf : Configs] /\ conf \in Configs
    /\ dpc \in {"down", "bound", "scanned", "parsed", "up"}
    /\ queue \in 0..MaxQueue /\ edits \in 0..MaxEdits /\ deaths \in 0..MaxDeaths
    /\ {unsaid, missed, drained} \subseteq BOOLEAN
    /\ mods \in Seq(Mods) /\ comps \in Seq(Companion)
    /\ procs \in [Procs -> Process] /\ calm \in [Procs -> BOOLEAN]
    /\ served \in [Procs -> Seq([asked : Named, got : Named, calm : BOOLEAN])]

\* What the daemon's list and configuration allow the process to run.
Expected(p) == IF conf.filter THEN Picked(UidOf[p]) ELSE ToSet(mods)

\* load_modules_impl: while the daemon serves one list, a process runs exactly
\* the modules it is granted, save those that failed to load, none of them
\* twice, and each at the index and under the name the daemon knows it by.
CalmLoadIsExact(p) ==
    LET st == procs[p]
        libs == {st.loaded[k].lib : k \in DOMAIN st.loaded}
        lost == {mods[i + 1] : i \in st.failed}
    IN  calm[p] =>
          /\ \A k \in DOMAIN st.loaded :
                LET r == st.loaded[k] IN r.name = r.lib /\ mods[r.id + 1] = r.lib
          /\ libs \subseteq Expected(p)
          /\ st.pc = "running" => libs \cup lost = Expected(p) /\ libs \cap lost = {}
          /\ IsInjective(st.loaded)

\* A process that starts to load modules gets to run, whatever the daemon does,
\* and under one list with exactly those it is granted.
LoadsEndExact ==
    /\ [](\A p \in Procs : CalmLoadIsExact(p))
    /\ \A p \in Procs : procs[p].pc = "config" ~> procs[p].pc = "running"

\* ensure_companion: a module reaches its own companion, if the daemon has not
\* reloaded since it started and serves the list the process loaded from.
CalmCompanionMatches ==
    \A p \in Procs : \A k \in DOMAIN served[p] :
        served[p][k].calm => served[p][k].got = served[p][k].asked

\* RELOAD: once the socket is drained, the daemon decides by the files as they
\* were when the last RELOAD was sent, unless the kernel found no room or no
\* listener for it after the daemon had scanned.
QuietViewFresh ==
    (dpc = "up" /\ queue = 0 /\ ~unsaid /\ ~missed)
        => mods = Scan(disk.enabled) /\ conf = disk.conf

=============================================================================
