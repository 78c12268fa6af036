------------------------------- MODULE InitRc -------------------------------
(***************************************************************************)
(* How the kernel module adds to init.rc (core/tamisu_daemon_integration.c)*)
(*                                                                         *)
(* Hooks in the system call table catch read and fstat of init.rc by init. *)
(* The first read gives the open file proxy operations that, when the file *)
(* is exhausted, go on with a built-in text and then with the modules'     *)
(* text; fstat reports the sum of the sizes.  The cursors are static: they *)
(* belong to no file.  A second read asks a work item to take the hooks    *)
(* out again.                                                              *)
(*                                                                         *)
(* A unit of text is its position in the three texts put one after         *)
(* another: 1..orig the file, then the built-in text, then the modules'.   *)
(* Environment: init opens the file, asks for its size, reads until a read *)
(* returns nothing and closes it; it may do so again later.                *)
(***************************************************************************)
EXTENDS Naturals, Sequences

CONSTANTS RcLen,     \* tamisu_rc_len, the length of the built-in text
          OrigLens,  \* possible lengths of the file
          ModLens,   \* possible lengths of the modules' text, 0 for none
          Counts,    \* sizes of a read
          MaxOpens   \* bound: how often init opens the file

ASSUME InitRcAssumption ==
  /\ RcLen \in Nat \ {0} /\ OrigLens \subseteq Nat \ {0}
  /\ ModLens \subseteq Nat /\ Counts \subseteq Nat \ {0} /\ MaxOpens \in Nat

VARIABLES
  text,      \* the lengths in this boot: orig and mod
  hooks,     \* the table hooks in place: a subset of {"read", "fstat"}
  rcHooked,  \* rc_hooked: a file has been given the proxy operations
  loaded,    \* load_module_rc_once has run
  modLen,    \* module_rc_len, 0 again once the text has been freed
  rcPos,     \* tamisu_rc_pos
  modPos,    \* module_rc_pos
  work,      \* stop_init_rc_hook_work: idle, queued, running
  file       \* init's file: how many were opened, whether this one is open
             \* and proxied, its position, the units init got from it, the
             \* size fstat gave, whether a read has returned nothing, and
             \* whether a copy to init has failed

proxyVars == <<rcHooked, loaded, modLen, rcPos, modPos>>
rcVars == <<text, hooks, proxyVars, work, file>>

Smaller(a, b) == IF a < b THEN a ELSE b
Units(from, n) == [i \in 1..n |-> from + i]
NoSize == 0   \* fstat has not been called: no size is 0

Fresh(n) == [n |-> n, open |-> TRUE, proxied |-> FALSE, pos |-> 0, got |-> <<>>,
             size |-> NoSize, eof |-> FALSE, failed |-> FALSE]

\* tamisu_tamisu_daemon_init has installed both hooks.
RcInit ==
  /\ text \in [orig : OrigLens, mod : ModLens]
  /\ hooks = {"read", "fstat"}
  /\ rcHooked = FALSE /\ loaded = FALSE /\ modLen = 0 /\ rcPos = 0 /\ modPos = 0
  /\ work = "idle"
  /\ file = [Fresh(0) EXCEPT !.open = FALSE]

Open ==
  /\ ~file.open /\ file.n < MaxOpens
  /\ file' = Fresh(file.n + 1)
  /\ UNCHANGED <<text, hooks, proxyVars, work>>

Close ==
  /\ file.open /\ file.eof
  /\ file' = [file EXCEPT !.open = FALSE]
  /\ UNCHANGED <<text, hooks, proxyVars, work>>

\* load_module_rc_once; a length of 0 stands for every way to have no text.
LoadedLen == IF loaded THEN modLen ELSE text.mod

\* tamisu_sys_fstat: the length is enlarged by what the proxy will append.
Fstat ==
  /\ file.open /\ file.got = <<>> /\ ~file.eof
  /\ IF "fstat" \in hooks
       THEN /\ loaded' = TRUE /\ modLen' = LoadedLen
            /\ file' = [file EXCEPT !.size = text.orig + RcLen + LoadedLen]
       ELSE /\ file' = [file EXCEPT !.size = text.orig]
            /\ UNCHANGED <<loaded, modLen>>
  /\ UNCHANGED <<text, hooks, rcHooked, rcPos, modPos, work>>

(***************************************************************************)
(* read_proxy and read_iter_proxy.  They differ in how a copy stops at the *)
(* end of the buffer, with the same effect.                                *)
(***************************************************************************)
\* A read of the file itself.
OrigCount(count) == Smaller(count, text.orig - file.pos)

\* Where a read begins, the length of the modules' text being len: once an
\* append has begun the file is not asked again.
InStatic == rcPos > 0 /\ rcPos < RcLen
InModule(len) == rcPos >= RcLen /\ modPos < len

\* How much of each text a read of count bytes appends; a copy may fault,
\* and then it ends the read.
StaticCount(count, fault) ==
  IF fault \/ rcPos >= RcLen THEN 0 ELSE Smaller(count, RcLen - rcPos)
ModuleCount(count, len, fault) ==
  LET done == StaticCount(count, FALSE)
  IN IF fault \/ modPos >= len THEN 0 ELSE Smaller(count - done, len - modPos)

\* The appending part, which takes the built-in text first.
AppendFreeEarly(count, len, faults) ==
  LET s == StaticCount(count, "static" \in faults)
      m == IF "static" \in faults /\ rcPos < RcLen THEN 0
           ELSE ModuleCount(count, len, "module" \in faults)
  IN /\ rcPos' = rcPos + s
     /\ modPos' = modPos + m
     /\ modLen' = IF rcPos + s = RcLen THEN 0 ELSE len
     /\ file' = [file EXCEPT !.proxied = TRUE,
                             !.got = @ \o Units(text.orig + rcPos, s)
                                       \o Units(text.orig + RcLen + modPos, m),
                             !.eof = (s + m = 0),
                             !.failed = @ \/ faults # {}]
AppendTexts(count, len, faults) ==
  LET s == StaticCount(count, "static" \in faults)
      m == IF "static" \in faults /\ rcPos < RcLen THEN 0
           ELSE ModuleCount(count, len, "module" \in faults)
  IN /\ rcPos' = rcPos + s
     /\ modPos' = modPos + m
     /\ modLen' = IF m > 0 /\ modPos + m = len THEN 0 ELSE len
     /\ file' = [file EXCEPT !.proxied = TRUE,
                             !.got = @ \o Units(text.orig + rcPos, s)
                                       \o Units(text.orig + RcLen + modPos, m),
                             !.eof = (s + m = 0),
                             !.failed = @ \/ faults # {}]

\* The file's own read, through the proxy or not.
ReadOrig(count, proxied) ==
  file' = [file EXCEPT !.proxied = proxied,
                       !.pos = @ + OrigCount(count),
                       !.got = @ \o Units(file.pos, OrigCount(count)),
                       !.eof = (OrigCount(count) = 0)]

ProxyRead(count, len) ==
  IF ~InStatic /\ ~InModule(len)
       /\ (OrigCount(count) > 0 \/ (rcPos >= RcLen /\ modPos >= len))
    THEN ReadOrig(count, TRUE) /\ modLen' = len /\ UNCHANGED <<rcPos, modPos>>
    ELSE \E faults \in SUBSET {"static", "module"} : AppendTexts(count, len, faults)

(***************************************************************************)
(* tamisu_sys_read: tamisu_handle_sys_read, then the real call.            *)
(***************************************************************************)
\* A file of init.rc is met for the first time: it gets the proxy.
FirstRead(count) ==
  /\ file.open /\ "read" \in hooks /\ ~rcHooked
  /\ rcHooked' = TRUE /\ loaded' = TRUE
  /\ ProxyRead(count, LoadedLen)
  /\ UNCHANGED <<text, hooks, work>>

\* It has been met before: the hooks have done their work.
LaterRead(count) ==
  /\ file.open /\ "read" \in hooks /\ rcHooked
  /\ work' = IF work = "idle" THEN "queued" ELSE work
  /\ IF file.proxied THEN ProxyRead(count, modLen)
     ELSE ReadOrig(count, FALSE) /\ UNCHANGED <<modLen, rcPos, modPos>>
  /\ UNCHANGED <<text, hooks, rcHooked, loaded>>

\* The table has its own entry again; a proxied file keeps its proxy.
UnhookedRead(count) ==
  /\ file.open /\ "read" \notin hooks
  /\ IF file.proxied THEN ProxyRead(count, modLen)
     ELSE ReadOrig(count, FALSE) /\ UNCHANGED <<modLen, rcPos, modPos>>
  /\ UNCHANGED <<text, hooks, rcHooked, loaded, work>>

\* do_stop_init_rc_hook: one table entry after the other.
StopRead ==
  /\ work = "queued"
  /\ hooks' = hooks \ {"read"} /\ work' = "running"
  /\ UNCHANGED <<text, proxyVars, file>>
StopFstat ==
  /\ work = "running"
  /\ hooks' = hooks \ {"fstat"} /\ work' = "idle"
  /\ UNCHANGED <<text, proxyVars, file>>

-----------------------------------------------------------------------------
Read(count) == ~file.eof /\ (FirstRead(count) \/ LaterRead(count) \/ UnhookedRead(count))
StopHooks == StopRead \/ StopFstat

RcNext == Open \/ Close \/ Fstat \/ (\E c \in Counts : Read(c)) \/ StopHooks

RcSpec == RcInit /\ [][RcNext]_rcVars

\* Work items run; init need not read at all.
RcFairSpec == RcSpec /\ WF_rcVars(StopHooks)

-----------------------------------------------------------------------------
\* What the first file of init is to give.
WholeLen == text.orig + RcLen + text.mod

\* The first time init reads init.rc it gets the file, the built-in text and
\* the modules' text, in this order, without a gap or a repetition, whatever
\* the sizes of its reads and however the hooks are removed meanwhile; it is
\* told that the file has ended only when it has them all, unless a copy to
\* its memory failed.  Any later time it gets the file alone.
WholeText ==
  /\ file.got = Units(0, Len(file.got))
  /\ file.n = 1 /\ file.eof /\ ~file.failed => Len(file.got) = WholeLen
  /\ file.n > 1 => Len(file.got) <= text.orig

\* The size init was told of its first file is the size of what it reads.
SizeTruth ==
  file.n = 1 /\ file.eof /\ ~file.failed /\ file.size # NoSize
    => file.size = Len(file.got)

\* Init is served: the texts whole and of the size it was told, and after it has
\* read the file to its end both hooks leave the system call table.
InitServed ==
  /\ [](WholeText /\ SizeTruth)
  /\ (file.n > 0 /\ file.eof) ~> hooks = {}
=============================================================================
