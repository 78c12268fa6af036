---------------------------- MODULE ModuleLinker ----------------------------
(***************************************************************************)
(* The ELF loader of the injected core                                     *)
(* (daemon/zygisk/core/src/zygisk_linker.cpp, built with YUKILINKER_FULL). *)
(*                                                                         *)
(* One thread opens and closes libraries from memory files.  The loader    *)
(* keeps the list that its dl_iterate_phdr shows to the modules, and a     *)
(* table of the libraries with thread-local variables, from which any      *)
(* thread that runs a module's code gets its own copy of them.  Open       *)
(* libraries are numbered in the order of their opening: every opening has *)
(* a handle of its own, from an arena that gives nothing back.             *)
(***************************************************************************)
EXTENDS Integers, Sequences, SequencesExt

CONSTANTS
    Libs,       \* library files
    Tls,        \* those with thread-local variables
    Offset,     \* those whose first segment is not at address 0
    Needs,      \* the system libraries each needs
    Threads,
    MaxOpens,   \* bound: openings
    MaxTls,     \* kMaxTlsModules - 1: identifiers there are
    MaxImages,  \* kMaxImages
    MaxFaults   \* bound: steps that fail

Deps == UNION {Needs[l] : l \in Libs}
Handles == 1..MaxOpens
Ids == 1..MaxTls
None == 0

ASSUME LibsAssumption == Tls \subseteq Libs /\ Offset \subseteq Libs
ASSUME NeedsAssumption == DOMAIN Needs = Libs
ASSUME BoundsAssumption ==
    {MaxOpens, MaxFaults} \subseteq Nat /\ {MaxTls, MaxImages} \subseteq Nat \ {0}

VARIABLES
    h,         \* the handles
    images,    \* g_images
    nextId,    \* g_next_tls_mod_id
    owner,     \* g_tls_modules[id].owner, None also while unloading
    refs,      \* references the loader holds to the system's libraries
    shut,      \* g_tls_shutdown
    key,       \* g_tls_key: none, ready, failed, deleted
    th,        \* the threads' thread-local state
    strayed,   \* a library's end has unmapped something else
    faults     \* steps that failed

linker == <<h, images, nextId, owner, refs>>
tls == <<shut, key, th>>
vars == <<linker, tls, strayed, faults>>

Running == {"init", "open", "fini"}

Unused == [lib |-> None, at |-> "unused", mapped |-> FALSE,
           id |-> None,      \* tls_mod_id
           ref |-> None,     \* the identifier in its relocated TLS references
           room |-> TRUE,    \* the list had room for it
           deps |-> {}]      \* dep_handles that are not null

\* A thread: where it is in custom_tls_get_addr, for whom, its blocks by
\* identifier (a block is named by the handle it was made from), and the last
\* answer it got.
Fresh == [at |-> "out", for |-> None, state |-> FALSE, blocks |-> [i \in Ids |-> None], got |-> None]

Failing(bad) == /\ bad => faults < MaxFaults
                /\ faults' = faults + (IF bad THEN 1 ELSE 0)

\* The opening or closing that is under way: there is at most one.
Busy == \E n \in Handles : h[n].at \notin {"unused", "open", "gone"}

-----------------------------------------------------------------------------
(* dlopen_memfd.                                                            *)

\* The checks of the ELF header, the segments, the handle from the arena.  What
\* fails leaves nothing mapped.
Open(n) ==
    /\ ~Busy /\ h[n].at = "unused" /\ \A m \in Handles : m < n => h[m].at # "unused"
    /\ \E l \in Libs :
          \/ h' = [h EXCEPT ![n] = [Unused EXCEPT !.lib = l, !.at = "dynamic", !.mapped = TRUE]]
             /\ Failing(FALSE)
          \/ h' = [h EXCEPT ![n] = [Unused EXCEPT !.lib = l, !.at = "gone"]] /\ Failing(TRUE)
    /\ UNCHANGED <<images, nextId, owner, refs, tls, strayed>>

\* The dynamic section, which may lack the symbol or the string table.
ParseDynamic(n) ==
    /\ h[n].at = "dynamic"
    /\ \/ h' = [h EXCEPT ![n].at = "deps"] /\ Failing(FALSE)
       \/ h' = [h EXCEPT ![n].mapped = FALSE, ![n].at = "gone"] /\ Failing(TRUE)
    /\ UNCHANGED <<images, nextId, owner, refs, tls, strayed>>

\* DT_NEEDED: one the system does not have is passed over.
OpenDeps(n) ==
    /\ h[n].at = "deps"
    /\ \E found \in SUBSET Needs[h[n].lib] :
          /\ Failing(found # Needs[h[n].lib])
          /\ h' = [h EXCEPT ![n].deps = found, ![n].at = "tls"]
          /\ refs' = [d \in Deps |-> refs[d] + (IF d \in found THEN 1 ELSE 0)]
    /\ UNCHANGED <<images, nextId, owner, tls, strayed>>

\* register_tls_module takes the first identifier that is free.
RegisterTlsMut(n) ==
    /\ h[n].at = "tls" /\ h[n].lib \in Tls /\ ~shut
    /\ \E id \in Ids :
          /\ owner[id] = None /\ \A j \in Ids : j < id => owner[j] # None
          /\ owner' = [owner EXCEPT ![id] = n]
          /\ h' = [h EXCEPT ![n].id = id, ![n].at = "relocate"]
    /\ UNCHANGED <<images, nextId, refs, tls, strayed, faults>>

\* register_tls_module: identifiers are never given out again.
RegisterTls(n) ==
    /\ h[n].at = "tls" /\ h[n].lib \in Tls /\ ~shut
    /\ nextId \in Ids
    /\ nextId' = nextId + 1
    /\ owner' = [owner EXCEPT ![nextId] = n]
    /\ h' = [h EXCEPT ![n].id = nextId, ![n].at = "relocate"]
    /\ UNCHANGED <<images, refs, tls, strayed, faults>>

\* A segment that makes no sense, the table full, or after the shutdown: the
\* image is unmapped, the system libraries stay open.
TlsRefused(n) ==
    /\ h[n].at = "tls" /\ h[n].lib \in Tls
    /\ \/ shut \/ nextId \notin Ids
       \/ faults < MaxFaults
    /\ nextId' = nextId + (IF ~shut /\ nextId \notin Ids THEN 1 ELSE 0)
    /\ faults' = IF shut \/ nextId \notin Ids THEN faults ELSE faults + 1
    /\ h' = [h EXCEPT ![n].mapped = FALSE, ![n].at = "gone"]
    /\ UNCHANGED <<images, owner, refs, tls, strayed>>

NoTls(n) ==
    /\ h[n].at = "tls" /\ h[n].lib \notin Tls
    /\ h' = [h EXCEPT ![n].at = "relocate"]
    /\ UNCHANGED <<images, nextId, owner, refs, tls, strayed, faults>>


Listed(n) == IF Len(images) < MaxImages THEN Append(images, n) ELSE images

\* resolve: a symbol of a system library that was not found may be missing.
MayLack(n) == h[n].deps # Needs[h[n].lib]

\* resolve_tls_reference: the library's own variables only.
TlsReference(n) == h[n].id

\* apply_rela, to the end.
Relocated(n) == [h EXCEPT ![n].ref = TlsReference(n), ![n].at = "init", ![n].room = Len(images) < MaxImages]

\* apply_rela meets a missing symbol, a thread-local variable that is not the
\* library's, a relocation it does not know, or no memory for an index.
Unrelocatable(n) == Failing(~MayLack(n))

\* The relocation fails and the thread-local variables stay registered.
RelocateMut(n) ==
    /\ h[n].at = "relocate"
    /\ \/ /\ h' = Relocated(n) /\ images' = Listed(n)
          /\ Failing(FALSE) /\ UNCHANGED owner
       \/ /\ h' = [h EXCEPT ![n].mapped = FALSE, ![n].id = None, ![n].at = "gone"]
          /\ Unrelocatable(n) /\ UNCHANGED <<owner, images>>
    /\ UNCHANGED <<nextId, refs, tls, strayed>>

\* Relocation and final protections, and the image is listed, if there is room;
\* or unregistered and unmapped, while the system libraries stay open.
Relocate(n) ==
    /\ h[n].at = "relocate"
    /\ \/ /\ h' = Relocated(n) /\ images' = Listed(n)
          /\ Failing(FALSE) /\ UNCHANGED owner
       \/ /\ h' = [h EXCEPT ![n].mapped = FALSE, ![n].id = None, ![n].at = "gone"]
          /\ owner' = [id \in Ids |-> IF owner[id] = n THEN None ELSE owner[id]]
          /\ Unrelocatable(n) /\ UNCHANGED images
    /\ UNCHANGED <<nextId, refs, tls, strayed>>

\* The initialisers return: did_init.
Initialised(n) ==
    /\ h[n].at = "init"
    /\ h' = [h EXCEPT ![n].at = "open"]
    /\ UNCHANGED <<images, nextId, owner, refs, tls, strayed, faults>>

-----------------------------------------------------------------------------
(* dlclose, and shutdown.                                                   *)

\* dlclose that takes the image off the list before its finalisers run.
CloseMut(n) ==
    /\ ~Busy /\ h[n].at = "open"
    /\ h' = [h EXCEPT ![n].at = "fini"]
    /\ images' = SelectSeq(images, LAMBDA m : m # n)
    /\ UNCHANGED <<nextId, owner, refs, tls, strayed, faults>>

\* dlclose: the finalisers begin.
Close(n) ==
    /\ ~Busy /\ h[n].at = "open"
    /\ h' = [h EXCEPT ![n].at = "fini"]
    /\ UNCHANGED <<images, nextId, owner, refs, tls, strayed, faults>>

\* The finalisers return; unregister_tls_module.
UnregisterTls(n) ==
    /\ h[n].at = "fini"
    /\ h' = [h EXCEPT ![n].at = "unlist", ![n].id = None]
    /\ owner' = [id \in Ids |-> IF owner[id] = n THEN None ELSE owner[id]]
    /\ UNCHANGED <<images, nextId, refs, tls, strayed, faults>>

\* The loop over g_images shifts down what follows the image, and breaks.
Unlist(n) ==
    /\ h[n].at = "unlist"
    /\ h' = [h EXCEPT ![n].at = "drop"]
    /\ images' = RemoveFirst(images, n)
    /\ UNCHANGED <<nextId, owner, refs, tls, strayed, faults>>

\* The references go, the system libraries as well when none is left; then
\* munmap(load_bias, map_size).  load_bias is the start of the image less the
\* address of its first segment: when that is not 0 the call takes away what
\* lies below it, which may belong to another image, and leaves the end.
Unmap(n) ==
    /\ h[n].at = "drop"
    /\ refs' = [d \in Deps |-> refs[d] - (IF d \in h[n].deps THEN 1 ELSE 0)]
    /\ IF h[n].lib \notin Offset
       THEN h' = [h EXCEPT ![n].at = "gone", ![n].mapped = FALSE] /\ UNCHANGED strayed
       ELSE /\ strayed' = TRUE
            /\ \/ h' = [h EXCEPT ![n].at = "gone"]
               \/ \E m \in Handles \ {n} :
                     h' = [h EXCEPT ![n].at = "gone", ![m].mapped = FALSE]
    /\ UNCHANGED <<images, nextId, owner, tls, faults>>

\* shutdown: only before the core unmaps itself.
Shutdown ==
    /\ ~Busy /\ ~shut
    /\ shut' = TRUE
    /\ owner' = [id \in Ids |-> None]
    /\ key' = IF key = "ready" THEN "deleted" ELSE key
    /\ UNCHANGED <<h, images, nextId, refs, th, strayed, faults>>

-----------------------------------------------------------------------------
(* custom_tls_get_addr, in a thread that runs code of library n.            *)

Answered(t, n, block) == [th EXCEPT ![t].at = "out", ![t].for = n, ![t].got = block]

\* get_thread_tls, without the lock: null after the shutdown, without a key, or
\* without memory.
GetThreadTls(t, n) ==
    /\ th[t].at = "out" /\ h[n].at \in Running /\ h[n].ref # None
    /\ \/ /\ shut
          /\ th' = Answered(t, n, None)
          /\ Failing(FALSE) /\ UNCHANGED key
       \/ /\ ~shut
          /\ \E made \in IF key = "none" THEN {"ready", "failed"} ELSE {key} :
                /\ key' = made
                /\ \/ /\ made = "ready" /\ Failing(FALSE)
                      /\ th' = [th EXCEPT ![t].at = "locked", ![t].for = n, ![t].state = TRUE]
                   \/ /\ made = "ready" /\ ~th[t].state /\ Failing(TRUE)
                      /\ th' = Answered(t, n, None)
                   \/ /\ made # "ready" /\ Failing(key = "none")
                      /\ th' = Answered(t, n, None)
    /\ UNCHANGED <<linker, shut, strayed>>

\* The rest, under g_tls_lock: the block is made on the first access, from the
\* image of the library that owns the identifier.
GiveBlock(t) ==
    LET n  == th[t].for
        id == h[n].ref
    IN  /\ th[t].at = "locked"
        /\ \/ /\ owner[id] = None
              /\ th' = Answered(t, n, None) /\ Failing(FALSE)
           \/ /\ owner[id] # None /\ th[t].blocks[id] # None
              /\ th' = Answered(t, n, th[t].blocks[id]) /\ Failing(FALSE)
           \/ /\ owner[id] # None /\ th[t].blocks[id] = None
              /\ \/ /\ th' = [Answered(t, n, owner[id]) EXCEPT ![t].blocks[id] = owner[id]]
                    /\ Failing(FALSE)
                 \/ th' = Answered(t, n, None) /\ Failing(TRUE)
        /\ UNCHANGED <<linker, shut, key, strayed>>

\* destroy_thread_tls, or a key that is gone; another thread takes its place.
ThreadExit(t) ==
    /\ th[t].at = "out" /\ th[t] # Fresh
    /\ th' = [th EXCEPT ![t] = Fresh]
    /\ UNCHANGED <<linker, shut, key, strayed, faults>>

-----------------------------------------------------------------------------
Init ==
    /\ h = [n \in Handles |-> Unused]
    /\ images = <<>> /\ nextId = 1 /\ owner = [id \in Ids |-> None]
    /\ refs = [d \in Deps |-> 0]
    /\ shut = FALSE /\ key = "none" /\ th = [t \in Threads |-> Fresh]
    /\ strayed = FALSE /\ faults = 0

Next ==
    \/ \E n \in Handles :
          \/ Open(n) \/ ParseDynamic(n) \/ OpenDeps(n) \/ RegisterTls(n) \/ TlsRefused(n) \/ NoTls(n)
          \/ Relocate(n) \/ Initialised(n)
          \/ Close(n) \/ UnregisterTls(n) \/ Unlist(n) \/ Unmap(n)
    \/ Shutdown
    \/ \E t \in Threads : GiveBlock(t) \/ ThreadExit(t) \/ \E n \in Handles : GetThreadTls(t, n)

Spec == Init /\ [][Next]_vars

-----------------------------------------------------------------------------
States == {"unused", "dynamic", "deps", "tls", "relocate", "init", "open",
           "fini", "unlist", "drop", "gone"}
Handle == [lib : Libs \cup {None}, at : States, mapped : BOOLEAN,
           id : Ids \cup {None}, ref : Ids \cup {None}, room : BOOLEAN, deps : SUBSET Deps]
Thread == [at : {"out", "locked"}, for : Handles \cup {None}, state : BOOLEAN,
           blocks : [Ids -> Handles \cup {None}], got : Handles \cup {None}]

\* Type invariant.
TypeOK ==
    /\ h \in [Handles -> Handle]
    /\ \A n \in Handles : h[n].at # "unused" => h[n].lib \in Libs
    /\ images \in Seq(Handles)
    /\ nextId \in Nat \ {0}
    /\ owner \in [Ids -> Handles \cup {None}]
    /\ refs \in [Deps -> Int]
    /\ shut \in BOOLEAN /\ strayed \in BOOLEAN
    /\ key \in {"none", "ready", "failed", "deleted"}
    /\ th \in [Threads -> Thread]
    /\ faults \in Nat

\* The loader's tables lead to mapped images only: the list that
\* dl_iterate_phdr_hook walks, and the initial values of a library's
\* thread-local variables, copied when a thread first uses them.  Not after a
\* library whose first segment is not at 0 has been closed (Unmap).
TablesMapped ==
    ~strayed =>
      /\ \A i \in DOMAIN images : h[images[i]].mapped
      /\ \A id \in Ids : owner[id] # None => h[owner[id]].mapped

\* While code of a library may run, its initialisers and finalisers included,
\* it is mapped, finds itself in the list ("Let modules enumerate themselves":
\* its exceptions are unwound through it) unless the list was full, and the
\* system libraries it is bound to are open.
RunningIsComplete ==
    \A n \in Handles :
        h[n].at \in Running /\ ~strayed =>
          /\ h[n].mapped
          /\ h[n].room => n \in ToSet(images)
          /\ \A d \in h[n].deps : refs[d] > 0

\* A thread that runs code of a library gets the block that was made for it
\* from this library's image, whatever was open under its identifier before; it
\* goes away empty only after the shutdown or for want of memory.
Answers ==
    \A t \in Threads :
       th[t].at = "locked" /\ th'[t].at = "out" =>
         LET n == th[t].for
         IN  /\ th'[t].got \in {n, None}
             /\ th'[t].got = None => shut \/ faults' > faults \/ h[n].at \notin Running

TlsAnswered == [][Answers]_vars
=============================================================================
