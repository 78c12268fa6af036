-------------------------- MODULE NativeLoadProofs --------------------------
(***************************************************************************)
(* Proofs about NativeLoad for any modules, lists, processes and functions, *)
(* and any number of deaths and reloads of the daemon.                     *)
(***************************************************************************)
EXTENDS NativeLoad, SequenceTheorems, TLAPS

-----------------------------------------------------------------------------
(* The invariant.                                                           *)

\* While a patch is under way its trampoline is mapped and its hook not
\* recorded.
HookInv ==
    /\ HooksSound
    /\ proc.at = "patch" =>
          /\ proc.fun \in Funs /\ proc.fun \notin proc.hooks /\ proc.fun \in proc.tramp
          /\ proc.back \in {"callback", "running"}

\* The module that was loaded last has not been reported yet.
Unreported == proc.at \in {"callback", "report"} \/ (proc.at = "patch" /\ proc.back = "callback")

\* As long as the daemon serves one list, handles have the index of their line.
LoadInv ==
    /\ proc.at \in {"none", "count"} => proc.loaded = <<>>
    /\ proc.calm /\ proc.at \notin {"none", "count"} => daemon = "up"
    /\ proc.calm => \A k \in DOMAIN proc.loaded :
          proc.loaded[k].idx <= Len(list) /\ proc.loaded[k].lib = list[proc.loaded[k].idx].id
    /\ proc.at = "open" => proc.lib \in Modules
    /\ proc.calm /\ proc.at = "open" => proc.i + 1 <= Len(list) /\ proc.lib = list[proc.i + 1].id
    /\ Unreported => /\ proc.loaded # <<>>
                     /\ proc.loaded[Len(proc.loaded)] = [idx |-> proc.i + 1, lib |-> proc.lib]
    /\ proc.at = "report" => <<proc.pid, proc.lib>> \in injected

\* Until the daemon reloads, a slot has the companion of its own line.
CompanionInv ==
    /\ daemon # "up" => comps = <<>>
    /\ ~drained => \A i \in DOMAIN comps :
          i <= Len(list) /\ (comps[i] = EmptySlot \/ comps[i].lib = list[i].id)
    /\ CompanionOwn

\* No record comes twice; the others are of modules that ran, and of all of them
\* but the one that is not reported yet, as long as nothing is cut off.
RecordInv ==
    /\ IsInjective(records)
    /\ ~misled =>
      /\ \A i \in DOMAIN records : <<records[i].pid, records[i].id>> \in injected
      /\ proc.calm /\ Len(records) < MaxRecords =>
            \A k \in DOMAIN proc.loaded :
               \/ k = Len(proc.loaded) /\ Unreported
               \/ [pid |-> proc.pid, id |-> proc.loaded[k].lib] \in ToSet(records)

IInv == TypeOK /\ HookInv /\ LoadInv /\ CompanionInv /\ RecordInv
-----------------------------------------------------------------------------
(* Lists of records.                                                         *)

\* RemoveAt, position by position.
LEMMA RemoveAtProperties ==
  ASSUME NEW S, NEW s \in Seq(S), NEW k \in 1..Len(s)
  PROVE  LET r == RemoveAt(s, k)
         IN  /\ r \in Seq(S)
             /\ Len(r) = Len(s) - 1
             /\ \A i \in 1..Len(r) : r[i] = IF i < k THEN s[i] ELSE s[i + 1]
<1>1. Len(s) \in Nat /\ \A i \in 1..Len(s) : s[i] \in S
  OBVIOUS
<1>2. PICK a : a = SubSeq(s, 1, k - 1)
  OBVIOUS
<1>3. PICK b : b = SubSeq(s, k + 1, Len(s))
  OBVIOUS
<1>4. /\ a \in Seq(S) /\ Len(a) = k - 1
      /\ \A i \in 1..k - 1 : a[i] = s[i]
  <2>1. \A i \in 1..k - 1 : s[i] \in S  BY <1>1
  <2> QED  BY <1>1, <1>2, <2>1, SubSeqProperties
<1>5. /\ b \in Seq(S) /\ Len(b) = Len(s) - k
      /\ \A i \in 1..Len(s) - k : b[i] = s[k + i]
  <2>1. \A i \in k + 1..Len(s) : s[i] \in S  BY <1>1
  <2> QED  BY <1>1, <1>3, <2>1, SubSeqProperties
<1>6. RemoveAt(s, k) = a \o b
  BY <1>2, <1>3 DEF RemoveAt
<1>7. /\ a \o b \in Seq(S) /\ Len(a \o b) = Len(a) + Len(b)
      /\ \A i \in 1..Len(a) + Len(b) :
            (a \o b)[i] = IF i <= Len(a) THEN a[i] ELSE b[i - Len(a)]
  BY <1>4, <1>5, ConcatProperties
<1>8. /\ Len(a \o b) = Len(s) - 1
      /\ \A i \in 1..Len(s) - 1 : (a \o b)[i] = IF i < k THEN s[i] ELSE s[i + 1]
  BY <1>1, <1>4, <1>5, <1>7
<1> QED  BY <1>6, <1>7, <1>8

\* An element that is in a list once is taken out of it, and nothing else.
LEMMA RemoveOnce ==
  ASSUME NEW S, NEW s \in Seq(S), NEW n,
         \A i, j \in DOMAIN s : s[i] = s[j] => i = j
  PROVE  LET r == RemoveFirst(s, n)
         IN  /\ r \in Seq(S)
             /\ \A i, j \in DOMAIN r : r[i] = r[j] => i = j
             /\ ToSet(r) = ToSet(s) \ {n} /\ Len(s) <= Len(r) + 1
<1>1. CASE ~ \E i \in 1..Len(s) : s[i] = n
  BY <1>1 DEF RemoveFirst, ToSet
<1>2. CASE \E i \in 1..Len(s) : s[i] = n
  <2>1. PICK k \in 1..Len(s) : s[k] = n
    BY <1>2
  <2> DEFINE I == {i \in 1..Len(s) : s[i] = n}
  <2>2. I = {k}
    BY <2>1
  <2>3. Min(I) = k
    BY <2>2 DEF Min
  <2>4. RemoveFirst(s, n) = RemoveAt(s, k)
    BY <1>2, <2>2, <2>3 DEF RemoveFirst, SelectInSeq
  <2> DEFINE r == RemoveAt(s, k)
  <2>5. /\ r \in Seq(S)
        /\ Len(r) = Len(s) - 1
        /\ \A i \in 1..Len(r) : r[i] = IF i < k THEN s[i] ELSE s[i + 1]
    BY RemoveAtProperties
  <2> HIDE DEF r
  <2>6. \A i, j \in DOMAIN r : r[i] = r[j] => i = j
    <3>1. DOMAIN r = 1..Len(r) /\ Len(r) \in Nat  BY <2>5
    <3> SUFFICES ASSUME NEW i \in 1..Len(r), NEW j \in 1..Len(r), r[i] = r[j]
                 PROVE  i = j
      BY <3>1
    <3>2. \A m \in 1..Len(r) : m \in DOMAIN s /\ m + 1 \in DOMAIN s
      BY <2>5
    <3>3. s[IF i < k THEN i ELSE i + 1] = s[IF j < k THEN j ELSE j + 1]
      BY <2>5
    <3>4. (IF i < k THEN i ELSE i + 1) = (IF j < k THEN j ELSE j + 1)
      BY <3>2, <3>3
    <3> QED  BY <3>1, <3>4
  <2>7. ToSet(r) = ToSet(s) \ {n}
    <3>1. ASSUME NEW i \in DOMAIN r  PROVE r[i] \in ToSet(s) /\ r[i] # n
      <4> DEFINE j == IF i < k THEN i ELSE i + 1
      <4>1. i \in 1..Len(r) /\ Len(s) \in Nat  BY <2>5
      <4>2. j \in DOMAIN s /\ j # k /\ r[i] = s[j]  BY <2>5, <4>1
      <4> QED  BY <2>1, <4>2 DEF ToSet
    <3>2. ASSUME NEW i \in DOMAIN s, s[i] # n  PROVE \E j \in DOMAIN r : r[j] = s[i]
      <4>1. CASE i < k  BY <4>1, <2>5
      <4>2. CASE i > k
        <5>1. i - 1 \in DOMAIN r /\ r[i - 1] = s[i]  BY <4>2, <2>5
        <5> QED  BY <5>1
      <4> QED  BY <4>1, <4>2, <2>1, <3>2
    <3> QED  BY <3>1, <3>2 DEF ToSet
  <2> QED  BY <2>4, <2>5, <2>6, <2>7 DEF r
<1> QED  BY <1>1, <1>2

\* record_native_injection: the new record comes first, and nothing else comes.
LEMMA RecordStep ==
  ASSUME NEW S, records \in Seq(S), IsInjective(records), MaxRecords \in Nat \ {0}, NEW pid, NEW id,
         [pid |-> pid, id |-> id] \in S
  PROVE  LET new == [pid |-> pid, id |-> id]
             r   == Record(pid, id)
         IN  /\ r \in Seq(S) /\ IsInjective(r)
             /\ ToSet(r) \subseteq {new} \cup ToSet(records)
             /\ Len(r) < MaxRecords => /\ Len(records) < MaxRecords
                                       /\ ToSet(r) = {new} \cup ToSet(records)
<1> DEFINE new == [pid |-> pid, id |-> id]
<1>1. PICK q : q = RemoveFirst(records, new)
  OBVIOUS
<1> HIDE DEF new
<1>2. \A i, j \in DOMAIN records : records[i] = records[j] => i = j
  BY DEF IsInjective
<1>3. /\ q \in Seq(S) /\ ToSet(q) = ToSet(records) \ {new} /\ Len(records) <= Len(q) + 1
      /\ \A i, j \in DOMAIN q : q[i] = q[j] => i = j
  BY <1>1, <1>2, RemoveOnce
<1>4. PICK all : all = <<new>> \o q
  OBVIOUS
<1>5. /\ <<new>> \in Seq(S) /\ Len(<<new>>) = 1 /\ <<new>>[1] = new
      /\ new \in S
  BY DEF new
<1>6. /\ all \in Seq(S) /\ Len(all) = 1 + Len(q) /\ Len(q) \in Nat /\ Len(records) \in Nat
      /\ \A i \in 1..1 + Len(q) : all[i] = IF i <= 1 THEN new ELSE q[i - 1]
  BY <1>3, <1>4, <1>5, ConcatProperties
<1>7. \A i \in DOMAIN q : q[i] # new
  BY <1>3 DEF ToSet
<1>8. PICK n \in Nat : n = IF Len(all) > MaxRecords THEN MaxRecords ELSE Len(all)
  BY <1>6
<1>9. PICK r : r = SubSeq(all, 1, n)
  OBVIOUS
<1>10. Record(pid, id) = r
  BY <1>1, <1>4, <1>8, <1>9, Zenon DEF Record, new
<1>11. n <= Len(all) /\ (n < MaxRecords => n = Len(all))
  BY <1>8, <1>6
<1>12. r \in Seq(S) /\ Len(r) = n /\ \A i \in 1..n : r[i] = all[i]
  <2>1. \A i \in 1..n : all[i] \in S  BY <1>6, <1>11
  <2> QED  BY <2>1, <1>9, SubSeqProperties
<1>13. \A i, j \in 1..n : r[i] = r[j] => i = j
  <2> SUFFICES ASSUME NEW i \in 1..n, NEW j \in 1..n, r[i] = r[j]  PROVE i = j
    OBVIOUS
  <2>1. (IF i <= 1 THEN new ELSE q[i - 1]) = (IF j <= 1 THEN new ELSE q[j - 1])
    BY <1>6, <1>11, <1>12
  <2>2. \A m \in 1..n : m > 1 => m - 1 \in DOMAIN q
    BY <1>3, <1>6, <1>11
  <2>3. (i > 1 => q[i - 1] # new) /\ (j > 1 => q[j - 1] # new)
    BY <2>2, <1>7
  <2>4. CASE i > 1 /\ j > 1
    <3>1. i - 1 = j - 1  BY <2>1, <2>2, <2>4, <1>3
    <3> QED  BY <3>1
  <2> QED  BY <2>1, <2>3, <2>4
<1>14. ToSet(r) \subseteq {new} \cup ToSet(records)
  <2> SUFFICES ASSUME NEW i \in 1..n  PROVE r[i] \in {new} \cup ToSet(records)
    BY <1>12 DEF ToSet
  <2>1. CASE i > 1
    <3>1. i - 1 \in DOMAIN q /\ r[i] = q[i - 1]  BY <2>1, <1>3, <1>6, <1>11, <1>12
    <3> QED  BY <3>1, <1>3 DEF ToSet
  <2> QED  BY <2>1, <1>6, <1>11, <1>12
<1>15. ASSUME n < MaxRecords  PROVE Len(records) < MaxRecords /\ {new} \cup ToSet(records) \subseteq ToSet(r)
  <2>1. n = Len(all) /\ 1 \in 1..n  BY <1>6, <1>11, <1>15
  <2>2. r[1] = new  BY <2>1, <1>6, <1>12
  <2>3. new \in ToSet(r)  BY <2>1, <2>2, <1>12 DEF ToSet
  <2>4. ASSUME NEW i \in DOMAIN q  PROVE q[i] \in ToSet(r)
    <3>1. i + 1 \in 1..n /\ r[i + 1] = q[i]  BY <2>1, <2>4, <1>3, <1>6, <1>12
    <3> QED  BY <3>1, <1>12 DEF ToSet
  <2>5. ToSet(q) \subseteq ToSet(r)  BY <2>4 DEF ToSet
  <2> QED  BY <2>1, <2>3, <2>5, <1>3, <1>6, <1>15
<1>16. IsInjective(r)
  BY <1>12, <1>13 DEF IsInjective
<1> QED  BY <1>10, <1>12, <1>14, <1>15, <1>16 DEF new

-----------------------------------------------------------------------------
(* What a step leaves alone.                                                 *)

\* A record of the fields of a process is one.
LEMMA ProcessFields ==
  ASSUME proc \in Process
  PROVE  /\ proc.at \in Places /\ proc.pid \in Pids \cup {None} /\ proc.n \in Nat /\ proc.i \in Nat
         /\ proc.lib \in Named /\ proc.loaded \in Seq(Handle) /\ proc.failed \in SUBSET Nat
         /\ proc.calm \in BOOLEAN
         /\ proc.hooks \in SUBSET Funs /\ proc.tramp \in SUBSET Funs /\ proc.branch \in SUBSET Funs
         /\ proc.lost \in SUBSET Funs /\ proc.unacked \in SUBSET Funs /\ proc.fun \in Funs \cup {None}
         /\ proc.back \in {"none", "callback", "running"}
  BY DEF Process

\* The hooks of a process, and what they are in.
HooksKept == /\ proc'.hooks = proc.hooks /\ proc'.tramp = proc.tramp /\ proc'.branch = proc.branch
             /\ proc'.lost = proc.lost /\ proc'.unacked = proc.unacked

\* Any step that leaves the hooks alone and starts no patch.
LEMMA HookKept ==
  ASSUME HookInv, HooksKept,
         proc'.at # "patch" \/ (proc'.at = proc.at /\ proc'.fun = proc.fun /\ proc'.back = proc.back)
  PROVE  HookInv'
BY DEF HookInv, HooksSound, HooksKept

\* Any step that leaves the companions, and what the process got of them, alone.
LEMMA CompanionKept ==
  ASSUME CompanionInv, UNCHANGED <<daemon, list, comps, drained>>, proc'.got = proc.got
  PROVE  CompanionInv'
BY DEF CompanionInv, CompanionOwn

\* Any step that leaves the records and what the process has loaded alone.
LEMMA RecordKept ==
  ASSUME RecordInv, UNCHANGED <<records, misled>>, injected \subseteq injected',
         proc'.pid = proc.pid, proc'.loaded = proc.loaded, proc'.calm => proc.calm,
         Unreported => Unreported'
  PROVE  RecordInv'
BY DEF RecordInv

\* A step after which the process serves the same list, or is not calm.
ListKept == proc'.calm => proc.calm /\ list' = list /\ (daemon = "up" => daemon' = "up")

\* The process goes on in the loop, or after it.
LEMMA LoadPassed ==
  ASSUME LoadInv, ListKept, injected' = injected, proc'.loaded = proc.loaded,
         proc.at \notin {"none", "count"}, proc'.at \in {"info", "fd", "restore", "running"}
  PROVE  LoadInv'
BY DEF LoadInv, Unreported, ListKept

\* The process stays with the module it is at.
LEMMA LoadKept ==
  ASSUME LoadInv, ListKept, injected' = injected, proc'.pid = proc.pid,
         proc'.loaded = proc.loaded, proc'.i = proc.i, proc'.lib = proc.lib,
         \/ proc'.at = proc.at /\ proc'.back = proc.back
         \/ /\ {proc.at, proc'.at} \subseteq {"callback", "running", "patch"}
            /\ Unreported' = Unreported
  PROVE  LoadInv'
<1>1. CASE proc'.at = proc.at /\ proc'.back = proc.back
  BY <1>1 DEF LoadInv, Unreported, ListKept
<1>2. CASE {proc.at, proc'.at} \subseteq {"callback", "running", "patch"} /\ Unreported' = Unreported
  BY <1>2 DEF LoadInv, ListKept
<1> QED  BY <1>1, <1>2

\* A process that the daemon's deeds leave alone, but for being calm.
Disturbed == proc' = proc \/ proc' = [proc EXCEPT !.calm = FALSE]

\* What the daemon does alone.
LEMMA ServedStep ==
  ASSUME TypeOK, HookInv, LoadInv, Disturbed, ListKept, injected' = injected
  PROVE  /\ proc' \in Process /\ HookInv' /\ LoadInv'
         /\ proc'.got = proc.got /\ proc'.pid = proc.pid /\ proc'.loaded = proc.loaded
         /\ Unreported' = Unreported
<1>1. proc \in Process
  BY DEF TypeOK
<1>2. /\ proc' \in Process /\ HooksKept
      /\ proc'.at = proc.at /\ proc'.fun = proc.fun /\ proc'.back = proc.back
      /\ proc'.got = proc.got /\ proc'.pid = proc.pid /\ proc'.loaded = proc.loaded
      /\ proc'.i = proc.i /\ proc'.lib = proc.lib
  <2> DEFINE r == [proc EXCEPT !.calm = FALSE]
  <2>1. /\ r \in Process
        /\ r.hooks = proc.hooks /\ r.tramp = proc.tramp /\ r.branch = proc.branch
        /\ r.lost = proc.lost /\ r.unacked = proc.unacked
        /\ r.at = proc.at /\ r.fun = proc.fun /\ r.back = proc.back
        /\ r.got = proc.got /\ r.pid = proc.pid /\ r.loaded = proc.loaded
        /\ r.i = proc.i /\ r.lib = proc.lib
    BY <1>1 DEF Process
  <2> QED  BY <1>1, <2>1, Zenon DEF Disturbed, HooksKept
<1>3. HookInv'
  BY <1>2, HookKept
<1>4. LoadInv'
  BY <1>2, LoadKept
<1>5. Unreported' = Unreported
  BY <1>2 DEF Unreported
<1> QED  BY <1>2, <1>3, <1>4, <1>5

-----------------------------------------------------------------------------
(* The steps of the daemon.                                                  *)

\* Edit: nothing that a process or the daemon has read changes.
LEMMA EditStep ==
  ASSUME IInv, Edit
  PROVE  IInv'
<1>1. /\ disk' \in Seq(Line)
      /\ UNCHANGED <<daemon, list, targets, comps, records, proc, injected, drained, misled>>
  BY ListsAssumption DEF Edit
<1>2. TypeOK /\ HookInv /\ LoadInv /\ CompanionInv /\ RecordInv
  BY DEF IInv
<1>3. TypeOK'
  BY <1>1, <1>2, Zenon DEF TypeOK
<1>4. HookInv' /\ LoadInv' /\ Unreported' = Unreported
      /\ proc'.got = proc.got /\ proc'.pid = proc.pid /\ proc'.loaded = proc.loaded
  BY <1>1, <1>2, ServedStep DEF Disturbed, ListKept
<1>5. CompanionInv' /\ RecordInv'
  BY <1>1, <1>2, <1>4, CompanionKept, RecordKept
<1> QED  BY <1>3, <1>4, <1>5 DEF IInv

\* Bind: the daemon has no list yet, nor companions.
LEMMA BindStep ==
  ASSUME IInv, Bind
  PROVE  IInv'
<1>1. /\ daemon = "down" /\ daemon' = "starting"
      /\ UNCHANGED <<disk, list, targets, comps, records, proc, injected, drained, misled>>
  BY DEF Bind
<1>2. TypeOK /\ HookInv /\ LoadInv /\ CompanionInv /\ RecordInv
  BY DEF IInv
<1>3. TypeOK'
  BY <1>1, <1>2 DEF TypeOK
<1>4. HookInv' /\ LoadInv' /\ Unreported' = Unreported
      /\ proc'.got = proc.got /\ proc'.pid = proc.pid /\ proc'.loaded = proc.loaded
  BY <1>1, <1>2, ServedStep DEF Disturbed, ListKept
<1>5. CompanionInv'
  BY <1>1, <1>2 DEF CompanionInv, CompanionOwn
<1>6. RecordInv'
  BY <1>1, <1>2, <1>4, RecordKept
<1> QED  BY <1>3, <1>4, <1>5, <1>6 DEF IInv

\* What the kernel is told are lines of the list.
LEMMA PublishedLines ==
  ASSUME NEW lines \in Seq(Line)
  PROVE  Published(lines) \subseteq Line
BY DEF Published

\* Start and Reload: a process that has counted is not calm any more; the
\* companions that stay at a reload are no longer vouched for.
LEMMA RescanStep ==
  ASSUME IInv, Start \/ Reload
  PROVE  IInv'
<1>1. /\ Rescan /\ daemon' = "up"
      /\ \/ daemon = "starting" /\ drained' = FALSE
         \/ daemon = "up" /\ drained' = TRUE
  BY Zenon DEF Start, Reload
<1>2. /\ list' = disk /\ targets' = Published(disk) /\ proc' = [proc EXCEPT !.calm = FALSE]
      /\ UNCHANGED <<disk, comps, records, injected, misled>>
  BY <1>1, Zenon DEF Rescan
<1>3. TypeOK /\ HookInv /\ LoadInv /\ CompanionInv /\ RecordInv
  BY DEF IInv
<1>4. proc'.calm = FALSE
  BY <1>2, <1>3 DEF TypeOK, Process
<1>5. proc' \in Process /\ HookInv' /\ LoadInv' /\ Unreported' = Unreported
      /\ proc'.got = proc.got /\ proc'.pid = proc.pid /\ proc'.loaded = proc.loaded
  BY <1>2, <1>3, <1>4, ServedStep DEF Disturbed, ListKept
<1>6. TypeOK'
  <2>1. targets' \subseteq Line  BY <1>2, <1>3, PublishedLines DEF TypeOK
  <2> QED  BY <1>1, <1>2, <1>3, <1>5, <2>1 DEF TypeOK
<1>7. CompanionInv'
  <2>1. CompanionOwn'  BY <1>3, <1>5 DEF CompanionInv, CompanionOwn
  <2>2. comps' = comps  BY <1>2
  <2>3. daemon # "up" => comps = <<>>  BY <1>3 DEF CompanionInv
  <2>4. ASSUME ~drained'  PROVE DOMAIN comps' = {}  BY <1>1, <2>2, <2>3, <2>4
  <2> QED  BY <1>1, <2>1, <2>4 DEF CompanionInv
<1>8. RecordInv'
  BY <1>2, <1>3, <1>4, <1>5, RecordKept
<1> QED  BY <1>5, <1>6, <1>7, <1>8 DEF IInv

\* With the daemon its companions and its records go.
LEMMA DeadStep ==
  ASSUME IInv, Dead, proc'.calm = FALSE, proc'.got = proc.got, proc' \in Process
  PROVE  TypeOK' /\ CompanionInv' /\ RecordInv'
<1>1. /\ daemon' = "down" /\ list' = <<>> /\ comps' = <<>> /\ records' = <<>>
      /\ drained' = FALSE /\ misled' = FALSE /\ disk' = disk /\ targets' = targets
      /\ injected' = injected
  BY DEF Dead
<1>2. TypeOK /\ CompanionOwn
  BY DEF IInv, CompanionInv
<1>3. TypeOK'
  <2>1. /\ disk \in Seq(Line) /\ targets \subseteq Line
    BY <1>2 DEF TypeOK
  <2>2. /\ list' \in Seq(Line) /\ comps' \in Seq(Companions)
        /\ records' \in Seq([pid : Pids \cup {None}, id : Modules])
    BY <1>1
  <2> QED  BY <1>1, <2>1, <2>2 DEF TypeOK
<1>4. CompanionInv'
  BY <1>1, <1>2 DEF CompanionInv, CompanionOwn
<1>5. RecordInv'
  BY <1>1 DEF RecordInv, IsInjective
<1> QED  BY <1>3, <1>4, <1>5

\* DaemonDies
LEMMA DaemonDiesStep ==
  ASSUME IInv, DaemonDies
  PROVE  IInv'
<1>1. Dead /\ proc' = [proc EXCEPT !.calm = FALSE]
  BY DEF DaemonDies
<1>2. TypeOK /\ HookInv /\ LoadInv
  BY DEF IInv
<1>3. proc'.calm = FALSE
  BY <1>1, <1>2 DEF TypeOK, Process
<1>4. injected' = injected
  BY <1>1 DEF Dead
<1>5. proc' \in Process /\ HookInv' /\ LoadInv' /\ proc'.got = proc.got
  BY <1>1, <1>2, <1>3, <1>4, ServedStep DEF Disturbed, ListKept
<1>6. TypeOK' /\ CompanionInv' /\ RecordInv'
  BY <1>1, <1>3, <1>5, DeadStep
<1> QED  BY <1>5, <1>6 DEF IInv

\* CompanionDies: the slot stays the line's.
LEMMA CompanionDiesStep ==
  ASSUME IInv, CompanionDies
  PROVE  IInv'
<1>1. UNCHANGED <<disk, daemon, list, targets, records, proc, injected, drained, misled>>
  BY DEF CompanionDies
<1>2. PICK c \in DOMAIN comps : comps[c].alive /\ comps' = [comps EXCEPT ![c].alive = FALSE]
  BY Zenon DEF CompanionDies
<1>3. TypeOK /\ HookInv /\ LoadInv /\ CompanionInv /\ RecordInv
  BY DEF IInv
<1>4. HookInv' /\ LoadInv' /\ Unreported' = Unreported
      /\ proc'.got = proc.got /\ proc'.pid = proc.pid /\ proc'.loaded = proc.loaded
  BY <1>1, <1>3, ServedStep DEF Disturbed, ListKept
<1>5. RecordInv'
  BY <1>1, <1>3, <1>4, RecordKept
<1>6. PICK slot : slot = [comps[c] EXCEPT !.alive = FALSE]
  OBVIOUS
<1>7. comps \in Seq(Companions) /\ comps[c] \in Companions
  BY <1>2, <1>3 DEF TypeOK
<1>8. slot \in Companions /\ slot.lib = comps[c].lib
  BY <1>6, <1>7 DEF Companions
<1>9. comps' = [comps EXCEPT ![c] = slot]
  BY <1>2, <1>6
<1>10. /\ comps' \in Seq(Companions) /\ DOMAIN comps' = DOMAIN comps
       /\ \A j \in DOMAIN comps : comps'[j] = IF j = c THEN slot ELSE comps[j]
  <2> DEFINE next == [comps EXCEPT ![c] = slot]
  <2>1. /\ next \in Seq(Companions) /\ DOMAIN next = DOMAIN comps
        /\ \A j \in DOMAIN comps : next[j] = IF j = c THEN slot ELSE comps[j]
    BY <1>7, <1>8
  <2> QED  BY <1>9, <2>1
<1>11. TypeOK'
  BY <1>1, <1>3, <1>10 DEF TypeOK
<1>12. comps[c] # EmptySlot
  BY <1>2 DEF EmptySlot
<1>13. CompanionInv'
  <2>1. daemon = "up"  BY <1>2, <1>3 DEF CompanionInv
  <2>2. CompanionOwn'  BY <1>1, <1>3 DEF CompanionInv, CompanionOwn
  <2>3. ASSUME ~drained, NEW j \in DOMAIN comps
        PROVE  j <= Len(list) /\ (comps'[j] = EmptySlot \/ comps'[j].lib = list[j].id)
    BY <1>3, <1>8, <1>10, <1>12, <2>3 DEF CompanionInv
  <2> QED  BY <1>1, <1>10, <2>1, <2>2, <2>3 DEF CompanionInv
<1> QED  BY <1>4, <1>5, <1>11, <1>13 DEF IInv

-----------------------------------------------------------------------------
(* The steps of the loop.                                                    *)

\* A step that changes nothing but the process.
Alone == UNCHANGED <<disk, daemon, list, targets, comps, drained, records, injected, misled>>

\* The types of what such a step leaves alone.
LEMMA AloneTyped ==
  ASSUME TypeOK, Alone, proc' \in Process
  PROVE  TypeOK'
BY Zenon DEF TypeOK, Alone

\* An empty sequence has no positions.
LEMMA NoPositions == DOMAIN <<>> = {}
OBVIOUS

\* A process that has not counted.
Fresh(r) == /\ r \in Process /\ r.at \in {"none", "count"} /\ r.loaded = <<>> /\ r.got = <<>>
            /\ r.hooks = {} /\ r.branch = {}

\* A process that has not counted has nothing that could be wrong.
LEMMA FreshStep ==
  ASSUME IInv, Alone, Fresh(proc')
  PROVE  IInv'
<1>2. /\ proc' \in Process /\ proc'.at \in {"none", "count"}
      /\ proc'.loaded = <<>> /\ proc'.got = <<>> /\ proc'.hooks = {} /\ proc'.branch = {}
  BY DEF Fresh
<1>3. TypeOK /\ RecordInv /\ CompanionInv
  BY DEF IInv
<1>4. TypeOK'
  BY <1>2, <1>3, AloneTyped
<1>5. HookInv'
  BY <1>2 DEF HookInv, HooksSound
<1>6. DOMAIN proc'.loaded = {}
  BY <1>2, NoPositions
<1>7. ~Unreported' /\ proc'.at # "open" /\ proc'.at # "report"
  BY <1>2 DEF Unreported
<1>8. LoadInv'
  BY <1>2, <1>6, <1>7 DEF LoadInv
<1>9. CompanionInv'
  BY <1>2, <1>3 DEF CompanionInv, CompanionOwn, Alone
<1>10. RecordInv'
  BY <1>3, <1>6 DEF RecordInv, Alone
<1> QED  BY <1>4, <1>5, <1>8, <1>9, <1>10 DEF IInv

\* Exec and Exit make one.
LEMMA FreshProcesses ==
  /\ Fresh(NoProc)
  /\ \A pid \in Pids : Fresh([NoProc EXCEPT !.at = "count", !.pid = pid])
<1>1. NoProc \in Process
  BY DEF NoProc, Process, Places, Named
<1>2. /\ NoProc.at = "none" /\ NoProc.loaded = <<>> /\ NoProc.got = <<>>
      /\ NoProc.hooks = {} /\ NoProc.branch = {}
  BY DEF NoProc
<1>3. ASSUME NEW pid \in Pids
      PROVE  Fresh([NoProc EXCEPT !.at = "count", !.pid = pid])
  <2> DEFINE r == [NoProc EXCEPT !.at = "count", !.pid = pid]
  <2>1. /\ r \in Process /\ r.at = "count"
        /\ r.loaded = NoProc.loaded /\ r.got = NoProc.got
        /\ r.hooks = NoProc.hooks /\ r.branch = NoProc.branch
    BY <1>1 DEF Process, Places
  <2> QED  BY <1>2, <2>1 DEF Fresh
<1> QED  BY <1>1, <1>2, <1>3 DEF Fresh

\* Exec
LEMMA ExecStep ==
  ASSUME IInv, NEW pid \in Pids, Exec(pid)
  PROVE  IInv'
<1>1. Alone /\ proc' = [NoProc EXCEPT !.at = "count", !.pid = pid]
  BY Zenon DEF Exec, Alone, served
<1> QED  BY <1>1, FreshProcesses, FreshStep

\* Exit
LEMMA ExitStep ==
  ASSUME IInv, Exit
  PROVE  IInv'
<1>1. Alone /\ proc' = NoProc
  BY Zenon DEF Exit, Alone, served
<1> QED  BY <1>1, FreshProcesses, FreshStep

\* GetCount: nothing is loaded yet; the process is calm if it was answered.
LEMMA GetCountStep ==
  ASSUME IInv, GetCount
  PROVE  IInv'
<1>1. proc.at = "count" /\ Alone
  BY Zenon DEF GetCount, Step, Alone, served
<1>2. TypeOK /\ HookInv /\ LoadInv /\ CompanionInv /\ RecordInv /\ proc \in Process
  BY DEF IInv, TypeOK
<1>3. PICK n \in Nat : n = Len(list)
  BY <1>2 DEF TypeOK
<1>4. PICK at \in {"restore", "info"} : at = IF list = <<>> THEN "restore" ELSE "info"
  OBVIOUS
<1>5. PICK calm \in BOOLEAN : calm = Answered
  BY DEF Answered
<1> DEFINE r == [proc EXCEPT !.n = n, !.calm = calm, !.at = at]
<1>6. proc' = r
  BY <1>3, <1>4, <1>5, Zenon DEF GetCount, Step
<1>7. /\ r \in Process /\ r.at = at /\ r.calm = calm
      /\ r.loaded = proc.loaded /\ r.got = proc.got
      /\ r.hooks = proc.hooks /\ r.tramp = proc.tramp /\ r.branch = proc.branch
      /\ r.lost = proc.lost /\ r.unacked = proc.unacked
  BY <1>2, <1>4 DEF Process, Places
<1> HIDE DEF r
<1>8. proc.loaded = <<>>
  BY <1>1, <1>2 DEF LoadInv
<1>9. TypeOK'
  BY <1>1, <1>2, <1>6, <1>7, AloneTyped
<1>10. HookInv'
  BY <1>2, <1>6, <1>7, HookKept DEF HooksKept
<1>11. LoadInv'
  <2>1. DOMAIN proc'.loaded = {} /\ proc'.loaded = <<>>
    BY <1>6, <1>7, <1>8, NoPositions
  <2>2. ~Unreported' /\ proc'.at \notin {"none", "count", "open", "report"}
    BY <1>6, <1>7 DEF Unreported
  <2>3. proc'.calm => daemon' = "up"
    BY <1>1, <1>5, <1>6, <1>7 DEF Answered, Alone
  <2> QED  BY <2>1, <2>2, <2>3 DEF LoadInv
<1>12. CompanionInv'
  BY <1>1, <1>2, <1>6, <1>7, CompanionKept DEF Alone
<1>13. RecordInv'
  <2>1. DOMAIN proc'.loaded = {}  BY <1>6, <1>7, <1>8, NoPositions
  <2> QED  BY <2>1, <1>1, <1>2 DEF RecordInv, Alone
<1> QED  BY <1>9, <1>10, <1>11, <1>12, <1>13 DEF IInv

\* Only the place in the loop, the index and what was passed over change.
Moved == /\ proc' \in Process /\ HooksKept
         /\ proc'.pid = proc.pid /\ proc'.loaded = proc.loaded /\ proc'.calm = proc.calm
         /\ proc'.got = proc.got
         /\ proc'.at \in {"info", "fd", "restore", "running"}

\* The process goes on, without what it may have been about to load.
LEMMA MovedStep ==
  ASSUME IInv, Moved, Alone, proc.at \in {"info", "fd", "open", "restore"}
  PROVE  IInv'
<1>1. TypeOK /\ HookInv /\ LoadInv /\ CompanionInv /\ RecordInv
  BY DEF IInv
<1>2. TypeOK'
  BY <1>1, AloneTyped DEF Moved
<1>3. HookInv'
  BY <1>1, HookKept DEF Moved
<1>4. LoadInv'
  BY <1>1, LoadPassed DEF Moved, Alone, ListKept
<1>5. CompanionInv'
  BY <1>1, CompanionKept DEF Moved, Alone
<1>6. RecordInv'
  BY <1>1, RecordKept DEF Moved, Alone, Unreported
<1> QED  BY <1>2, <1>3, <1>4, <1>5, <1>6 DEF IInv

\* Advanced goes on with everything but the index and the module.
LEMMA AdvancedFields ==
  ASSUME NEW st \in Process
  PROVE  LET go == Advanced(st)
         IN  /\ go \in Process
             /\ go.hooks = st.hooks /\ go.tramp = st.tramp /\ go.branch = st.branch
             /\ go.lost = st.lost /\ go.unacked = st.unacked
             /\ go.pid = st.pid /\ go.loaded = st.loaded /\ go.calm = st.calm
             /\ go.got = st.got /\ go.at \in {"info", "restore"}
<1>1. PICK i \in Nat : i = st.i + 1
  BY DEF Process
<1>2. PICK at \in {"info", "restore"} : at = IF st.i + 1 < st.n THEN "info" ELSE "restore"
  OBVIOUS
<1> DEFINE go == [st EXCEPT !.i = i, !.lib = None, !.at = at]
<1>3. /\ go.hooks = st.hooks /\ go.tramp = st.tramp /\ go.branch = st.branch
      /\ go.lost = st.lost /\ go.unacked = st.unacked
      /\ go.pid = st.pid /\ go.loaded = st.loaded /\ go.calm = st.calm
      /\ go.got = st.got /\ go.at = at
  BY DEF Process
<1>5. go \in Process
  <2>1. st \in Process /\ at \in Places /\ i \in Nat /\ None \in Named
    BY <1>2 DEF Places, Named
  <2> QED  BY <2>1 DEF Process
<1>4. Advanced(st) = go
  BY <1>1, <1>2, Zenon DEF Advanced
<1> QED  BY <1>2, <1>3, <1>4, <1>5

\* What Advanced and Passed do.
LEMMA AdvancedMoves ==
  ASSUME proc \in Process
  PROVE  /\ proc' = Advanced(proc) => Moved
         /\ proc' = Passed(proc) => Moved
         /\ proc' = [proc EXCEPT !.at = "fd"] => Moved
         /\ proc' = [proc EXCEPT !.at = "running"] => Moved
<1> DEFINE After(r) == /\ r \in Process
                       /\ r.hooks = proc.hooks /\ r.tramp = proc.tramp /\ r.branch = proc.branch
                       /\ r.lost = proc.lost /\ r.unacked = proc.unacked
                       /\ r.pid = proc.pid /\ r.loaded = proc.loaded /\ r.calm = proc.calm
                       /\ r.got = proc.got
                       /\ r.at \in {"info", "fd", "restore", "running"}
<1>1. After(Advanced(proc))
  BY AdvancedFields
<1>2. PICK failed \in SUBSET Nat : failed = proc.failed \cup {proc.i + 1}
  <2>1. proc.i + 1 \in Nat /\ proc.failed \in SUBSET Nat  BY DEF Process
  <2> QED  BY <2>1
<1> DEFINE st == [proc EXCEPT !.failed = failed]
<1>3. /\ st \in Process
      /\ st.hooks = proc.hooks /\ st.tramp = proc.tramp /\ st.branch = proc.branch
      /\ st.lost = proc.lost /\ st.unacked = proc.unacked
      /\ st.pid = proc.pid /\ st.loaded = proc.loaded /\ st.calm = proc.calm
      /\ st.got = proc.got
  BY DEF Process
<1>4. Passed(proc) = Advanced(st)
  BY <1>2, Zenon DEF Passed
<1> HIDE DEF st
<1>5. After(Passed(proc))
  BY <1>3, <1>4, AdvancedFields
<1>6. After([proc EXCEPT !.at = "fd"])
  BY DEF Process, Places
<1>7. After([proc EXCEPT !.at = "running"])
  BY DEF Process, Places
<1> HIDE DEF After
<1>8. ASSUME After(proc')  PROVE Moved
  BY <1>8 DEF After, Moved, HooksKept
<1> QED  BY <1>1, <1>5, <1>6, <1>7, <1>8

\* GetInfo, GetFd and OpenLibrary that go on to the next line, and
\* RestorePolicy.
LEMMA PassingStep ==
  ASSUME IInv, NEW at \in {"info", "fd", "open", "restore"}, NEW st, Step(at, st),
         st \in {Advanced(proc), Passed(proc), [proc EXCEPT !.at = "fd"], [proc EXCEPT !.at = "running"]}
  PROVE  IInv'
<1>1. proc.at = at /\ proc' = st /\ Alone
  BY Zenon DEF Step, Alone, served
<1>2. proc \in Process
  BY DEF IInv, TypeOK
<1>3. Moved
  BY <1>1, <1>2, AdvancedMoves
<1> QED  BY <1>1, <1>3, MovedStep

-----------------------------------------------------------------------------
(* The steps that load a module and report it.                               *)

\* GetFd: the file is the one of the line that has the index now, which is the
\* line the process was told of if it is calm.
LEMMA FdStep ==
  ASSUME IInv, Answered, proc.i + 1 <= Len(list),
         Step("fd", [proc EXCEPT !.at = "open", !.lib = list[proc.i + 1].id])
  PROVE  IInv'
<1>1. proc.at = "fd" /\ Alone
  BY Zenon DEF Step, Alone, served
<1>2. TypeOK /\ HookInv /\ LoadInv /\ CompanionInv /\ RecordInv /\ proc \in Process
  BY DEF IInv, TypeOK
<1>3. list \in Seq(Line) /\ proc.i \in Nat
  BY <1>2 DEF TypeOK, Process
<1>4. list[proc.i + 1] \in Line
  BY <1>3
<1>5. PICK lib \in Modules : lib = list[proc.i + 1].id
  BY <1>4 DEF Line
<1> DEFINE r == [proc EXCEPT !.at = "open", !.lib = lib]
<1>6. proc' = r
  BY <1>5, Zenon DEF Step
<1>7. /\ r.at = "open" /\ r.lib = lib /\ r.i = proc.i /\ r.pid = proc.pid
      /\ r.loaded = proc.loaded /\ r.got = proc.got /\ r.calm = proc.calm
      /\ r.hooks = proc.hooks /\ r.tramp = proc.tramp /\ r.branch = proc.branch
      /\ r.lost = proc.lost /\ r.unacked = proc.unacked
  BY <1>2 DEF Process
<1>8. r \in Process
  BY <1>2 DEF Process, Places, Named
<1> HIDE DEF r
<1>9. TypeOK'
  BY <1>1, <1>2, <1>6, <1>8, AloneTyped
<1>10. HookInv'
  BY <1>2, <1>6, <1>7, HookKept DEF HooksKept
<1>11. LoadInv'
  <2>1. ~Unreported' /\ proc'.at = "open"
    BY <1>6, <1>7 DEF Unreported
  <2>2. proc'.calm = proc.calm /\ proc'.loaded = proc.loaded /\ proc'.i = proc.i /\ proc'.lib = lib
    BY <1>6, <1>7
  <2> QED  BY <1>1, <1>2, <1>5, <2>1, <2>2 DEF LoadInv, Alone
<1>12. CompanionInv'
  BY <1>1, <1>2, <1>6, <1>7, CompanionKept DEF Alone
<1>13. RecordInv'
  <2>1. ~Unreported  BY <1>1 DEF Unreported
  <2> QED  BY <2>1, <1>1, <1>2, <1>6, <1>7, RecordKept DEF Alone
<1> QED  BY <1>9, <1>10, <1>11, <1>12, <1>13 DEF IInv

\* OpenLibrary: the handle is entered, and the module is the last that is not
\* reported.
LEMMA OpenStep ==
  ASSUME IInv, Step("open", [proc EXCEPT !.at = "callback",
                               !.loaded = Append(@, [idx |-> proc.i + 1, lib |-> proc.lib])])
  PROVE  IInv'
<1>1. proc.at = "open" /\ Alone
  BY Zenon DEF Step, Alone, served
<1>2. TypeOK /\ HookInv /\ LoadInv /\ CompanionInv /\ RecordInv /\ proc \in Process
  BY DEF IInv, TypeOK
<1>3. proc.i \in Nat /\ proc.loaded \in Seq(Handle) /\ proc.lib \in Modules
  BY <1>1, <1>2 DEF Process, LoadInv
<1>4. PICK h \in Handle : h = [idx |-> proc.i + 1, lib |-> proc.lib]
  <2>1. proc.i + 1 \in Nat \ {0} /\ proc.lib \in Named
    BY <1>3 DEF Named
  <2> QED  BY <2>1 DEF Handle
<1>5. PICK loaded \in Seq(Handle) : loaded = Append(proc.loaded, h)
  <2>1. h \in Handle  BY <1>4
  <2> QED  BY <2>1, <1>3, AppendProperties
<1> DEFINE r == [proc EXCEPT !.at = "callback", !.loaded = loaded]
<1>6. proc' = r
  BY <1>4, <1>5, Zenon DEF Step
<1>7. /\ r.at = "callback" /\ r.lib = proc.lib /\ r.i = proc.i /\ r.pid = proc.pid
      /\ r.loaded = loaded /\ r.got = proc.got /\ r.calm = proc.calm
      /\ r.hooks = proc.hooks /\ r.tramp = proc.tramp /\ r.branch = proc.branch
      /\ r.lost = proc.lost /\ r.unacked = proc.unacked
  BY <1>2 DEF Process
<1>8. r \in Process
  BY <1>2 DEF Process, Places
<1> HIDE DEF r
<1>9. /\ Len(loaded) = Len(proc.loaded) + 1 /\ Len(proc.loaded) \in Nat
      /\ loaded[Len(loaded)] = h
      /\ \A k \in DOMAIN loaded : k # Len(loaded) =>
            k \in DOMAIN proc.loaded /\ loaded[k] = proc.loaded[k]
  BY <1>3, <1>5
<1>10. TypeOK'
  BY <1>1, <1>2, <1>6, <1>8, AloneTyped
<1>11. HookInv'
  BY <1>2, <1>6, <1>7, HookKept DEF HooksKept
<1>12. h.idx = proc.i + 1 /\ h.lib = proc.lib
  BY <1>4
<1>13. LoadInv'
  <2>1. Unreported' /\ proc'.at = "callback"
    BY <1>6, <1>7 DEF Unreported
  <2>2. /\ proc'.calm = proc.calm /\ proc'.loaded = loaded /\ proc'.i = proc.i
        /\ proc'.lib = proc.lib /\ list' = list /\ daemon' = daemon
    BY <1>1, <1>6, <1>7 DEF Alone
  <2>3. proc.calm => daemon = "up"
    BY <1>1, <1>2 DEF LoadInv
  <2>4. ASSUME proc.calm, NEW k \in DOMAIN loaded
        PROVE  loaded[k].idx <= Len(list) /\ loaded[k].lib = list[loaded[k].idx].id
    <3>1. CASE k = Len(loaded)
      <4>1. proc.i + 1 <= Len(list) /\ proc.lib = list[proc.i + 1].id
        BY <1>1, <1>2, <2>4 DEF LoadInv
      <4> QED  BY <3>1, <4>1, <1>9, <1>12
    <3>2. CASE k # Len(loaded)
      <4>1. k \in DOMAIN proc.loaded /\ loaded[k] = proc.loaded[k]
        BY <3>2, <1>9
      <4> QED  BY <4>1, <1>2, <2>4 DEF LoadInv
    <3> QED  BY <3>1, <3>2
  <2>5. loaded # <<>> /\ loaded[Len(loaded)] = [idx |-> proc.i + 1, lib |-> proc.lib]
    BY <1>4, <1>9
  <2> QED  BY <2>1, <2>2, <2>3, <2>4, <2>5 DEF LoadInv
<1>14. CompanionInv'
  BY <1>1, <1>2, <1>6, <1>7, CompanionKept DEF Alone
<1>15. RecordInv'
  <2>1. ~Unreported /\ Unreported'
    BY <1>1, <1>6, <1>7 DEF Unreported
  <2>2. /\ UNCHANGED <<records, misled, injected>> /\ proc'.loaded = loaded
        /\ proc'.calm = proc.calm /\ proc'.pid = proc.pid
    BY <1>1, <1>6, <1>7 DEF Alone
  <2> QED  BY <2>1, <2>2, <1>2, <1>9 DEF RecordInv
<1> QED  BY <1>10, <1>11, <1>13, <1>14, <1>15 DEF IInv

\* CallbackEnds: what is to be reported has run.
LEMMA CallbackStep ==
  ASSUME IInv, CallbackEnds
  PROVE  IInv'
<1>1. /\ proc.at = "callback" /\ proc' = [proc EXCEPT !.at = "report"]
      /\ injected' = injected \cup {<<proc.pid, proc.lib>>}
      /\ UNCHANGED <<disk, daemon, list, targets, comps, drained, records, misled>>
  BY Zenon DEF CallbackEnds, served
<1>2. TypeOK /\ HookInv /\ LoadInv /\ CompanionInv /\ RecordInv /\ proc \in Process
  BY DEF IInv, TypeOK
<1> DEFINE r == [proc EXCEPT !.at = "report"]
<1>3. /\ r.at = "report" /\ r.lib = proc.lib /\ r.i = proc.i /\ r.pid = proc.pid
      /\ r.loaded = proc.loaded /\ r.got = proc.got /\ r.calm = proc.calm
      /\ r.hooks = proc.hooks /\ r.tramp = proc.tramp /\ r.branch = proc.branch
      /\ r.lost = proc.lost /\ r.unacked = proc.unacked
  BY <1>2 DEF Process
<1>4. r \in Process
  BY <1>2 DEF Process, Places
<1>5. proc' = r
  BY <1>1
<1> HIDE DEF r
<1>6. TypeOK'
  BY <1>1, <1>2, <1>4, <1>5 DEF TypeOK
<1>7. HookInv'
  BY <1>2, <1>3, <1>5, HookKept DEF HooksKept
<1>8. Unreported /\ Unreported' /\ proc'.at = "report"
  BY <1>1, <1>3, <1>5 DEF Unreported
<1>9. LoadInv'
  <2>1. /\ proc'.calm = proc.calm /\ proc'.loaded = proc.loaded /\ proc'.i = proc.i
        /\ proc'.lib = proc.lib /\ proc'.pid = proc.pid
    BY <1>3, <1>5
  <2>2. <<proc'.pid, proc'.lib>> \in injected'
    BY <1>1, <2>1
  <2> QED  BY <1>1, <1>2, <1>8, <2>1, <2>2 DEF LoadInv
<1>10. CompanionInv'
  BY <1>1, <1>2, <1>3, <1>5, CompanionKept
<1>11. RecordInv'
  BY <1>1, <1>2, <1>3, <1>5, <1>8, RecordKept
<1> QED  BY <1>6, <1>7, <1>9, <1>10, <1>11 DEF IInv

\* Report: what a calm process reports is the module it has just run; the
\* record of it is there as long as there is room.
LEMMA ReportStep ==
  ASSUME IInv, Report
  PROVE  IInv'
<1>1. /\ proc.at = "report"
      /\ proc' = Advanced(proc)
      /\ UNCHANGED <<disk, daemon, list, targets, comps, drained, injected>>
  BY Zenon DEF Report, served
<1>2. TypeOK /\ HookInv /\ LoadInv /\ CompanionInv /\ RecordInv /\ proc \in Process
  BY DEF IInv, TypeOK
<1>3. Moved
  BY <1>1, <1>2, AdvancedMoves
<1>4. proc' \in Process /\ HookInv'
  BY <1>2, <1>3, HookKept DEF Moved
<1>5. LoadInv'
  BY <1>1, <1>2, <1>3, LoadPassed DEF Moved, ListKept
<1>6. CompanionInv'
  BY <1>1, <1>2, <1>3, CompanionKept DEF Moved
<1>7. /\ proc'.loaded = proc.loaded /\ proc'.pid = proc.pid /\ proc'.calm = proc.calm
  BY <1>3 DEF Moved
<1> DEFINE S == [pid : Pids \cup {None}, id : Modules]
<1>8. records \in Seq(S) /\ proc.pid \in Pids \cup {None} /\ proc.i \in Nat /\ list \in Seq(Line)
  BY <1>2 DEF TypeOK, Process
<1>9. CASE Answered /\ proc.i + 1 <= Len(list)
  <2>1. list[proc.i + 1] \in Line
    BY <1>8, <1>9
  <2>2. PICK id \in Modules : id = list[proc.i + 1].id
    BY <2>1 DEF Line
  <2>3. PICK r : r = Record(proc.pid, id)
    OBVIOUS
  <2>4. records' = r /\ misled' = (misled \/ ~proc.calm)
    BY <1>9, <2>2, <2>3, Zenon DEF Report
  <2>5. [pid |-> proc.pid, id |-> id] \in S
    BY <1>8
  <2> DEFINE new == [pid |-> proc.pid, id |-> id]
  <2>6. /\ r \in Seq(S) /\ IsInjective(r)
        /\ ToSet(r) \subseteq {new} \cup ToSet(records)
        /\ Len(r) < MaxRecords => /\ Len(records) < MaxRecords
                                  /\ ToSet(r) = {new} \cup ToSet(records)
    <3>1. IsInjective(records) /\ MaxRecords \in Nat \ {0}
      BY <1>2, BoundsAssumption DEF RecordInv
    <3> HIDE DEF S
    <3> QED  BY <1>8, <2>3, <2>5, <3>1, RecordStep
  <2>7. TypeOK'
    BY <1>1, <1>2, <1>4, <2>4, <2>6 DEF TypeOK
  <2>8. ASSUME ~misled'
        PROVE  /\ proc.calm /\ ~misled /\ id = proc.lib /\ <<proc.pid, id>> \in injected
               /\ proc.loaded[Len(proc.loaded)].lib = id
    <3>1. proc.calm /\ ~misled
      BY <1>2, <2>4, <2>8 DEF TypeOK, Process
    <3>2. /\ proc.loaded # <<>> /\ proc.loaded[Len(proc.loaded)] = [idx |-> proc.i + 1, lib |-> proc.lib]
          /\ <<proc.pid, proc.lib>> \in injected
      BY <1>1, <1>2 DEF LoadInv, Unreported
    <3>3. proc.loaded \in Seq(Handle)
      BY <1>2 DEF Process
    <3>4. Len(proc.loaded) \in DOMAIN proc.loaded
      BY <3>2, <3>3
    <3>5. proc.lib = list[proc.i + 1].id
      <4>1. proc.loaded[Len(proc.loaded)].lib = list[proc.loaded[Len(proc.loaded)].idx].id
        BY <1>2, <3>1, <3>4 DEF LoadInv
      <4> QED  BY <3>2, <4>1
    <3> QED  BY <3>1, <3>2, <3>5, <2>2
  <2>9. ASSUME ~misled', NEW i \in DOMAIN r
        PROVE  <<r[i].pid, r[i].id>> \in injected
    <3>1. r[i] \in {new} \cup ToSet(records)
      BY <2>6 DEF ToSet
    <3>2. CASE r[i] = new
      BY <3>2, <2>8, <2>9
    <3>3. CASE r[i] \in ToSet(records)
      <4>1. PICK j \in DOMAIN records : r[i] = records[j]
        BY <3>3 DEF ToSet
      <4>2. ~misled
        BY <2>8, <2>9
      <4> QED  BY <1>2, <4>1, <4>2 DEF RecordInv
    <3> QED  BY <3>1, <3>2, <3>3
  <2>10. ASSUME ~misled', Len(r) < MaxRecords, NEW k \in DOMAIN proc.loaded
         PROVE  [pid |-> proc.pid, id |-> proc.loaded[k].lib] \in ToSet(r)
    <3>1. CASE k = Len(proc.loaded)
      BY <3>1, <2>6, <2>8, <2>10
    <3>2. CASE k # Len(proc.loaded)
      <4>1. proc.calm /\ ~misled /\ Len(records) < MaxRecords
        BY <2>6, <2>8, <2>10
      <4>2. [pid |-> proc.pid, id |-> proc.loaded[k].lib] \in ToSet(records)
        BY <1>2, <3>2, <4>1, <2>10 DEF RecordInv
      <4> QED  BY <4>2, <2>6, <2>10
    <3> QED  BY <3>1, <3>2
  <2>11. RecordInv'
    <3> HIDE DEF new
    <3> QED  BY <1>1, <1>7, <2>4, <2>6, <2>9, <2>10 DEF RecordInv
  <2> QED  BY <1>4, <1>5, <1>6, <2>7, <2>11 DEF IInv
<1>10. CASE ~(Answered /\ proc.i + 1 <= Len(list))
  <2>1. records' = records /\ misled' = misled
    BY <1>10, Zenon DEF Report
  <2>2. TypeOK'
    BY <1>1, <1>2, <1>4, <2>1, AloneTyped DEF Alone
  <2>3. ~proc.calm
    <3>1. Unreported
      BY <1>1 DEF Unreported
    <3>2. Len(proc.loaded) \in DOMAIN proc.loaded /\ proc.loaded[Len(proc.loaded)].idx = proc.i + 1
      <4>1. proc.loaded # <<>> /\ proc.loaded[Len(proc.loaded)] = [idx |-> proc.i + 1, lib |-> proc.lib]
        BY <1>2, <3>1 DEF LoadInv
      <4>2. proc.loaded \in Seq(Handle)
        BY <1>2 DEF Process
      <4> QED  BY <4>1, <4>2
    <3>3. proc.calm => Answered /\ proc.i + 1 <= Len(list)
      BY <1>1, <1>2, <3>2 DEF LoadInv, Answered
    <3> QED  BY <1>10, <3>3
  <2>4. RecordInv'
    BY <1>1, <1>2, <1>7, <2>1, <2>3 DEF RecordInv
  <2> QED  BY <1>4, <1>5, <1>6, <2>2, <2>4 DEF IInv
<1> QED  BY <1>9, <1>10

-----------------------------------------------------------------------------
(* The steps of the API.                                                     *)

\* The process keeps its place in the loop while the API is called.
Calling == /\ proc' \in Process
           /\ proc'.pid = proc.pid /\ proc'.loaded = proc.loaded /\ proc'.i = proc.i
           /\ proc'.lib = proc.lib
           /\ {proc.at, proc'.at} \subseteq {"callback", "running", "patch"}
           /\ Unreported' = Unreported

\* A call that leaves the daemon alone keeps what is not about hooks.
LEMMA CallingStep ==
  ASSUME IInv, Calling, Alone, HookInv', proc'.calm = proc.calm, proc'.got = proc.got
  PROVE  IInv'
<1>1. TypeOK /\ LoadInv /\ CompanionInv /\ RecordInv
  BY DEF IInv
<1>2. TypeOK'
  BY <1>1, AloneTyped DEF Calling
<1>3. LoadInv'
  BY <1>1, LoadKept DEF Calling, Alone, ListKept
<1>4. CompanionInv'
  BY <1>1, CompanionKept DEF Alone
<1>5. RecordInv'
  BY <1>1, RecordKept DEF Calling, Alone
<1> QED  BY <1>2, <1>3, <1>4, <1>5 DEF IInv

\* InlineHook: the trampoline is mapped and its function not hooked yet.
LEMMA InlineHookStep ==
  ASSUME IInv, NEW f \in Funs, InlineHook(f)
  PROVE  IInv'
<1>1. /\ proc.at \in {"callback", "running"} /\ f \notin proc.hooks /\ Alone
      /\ proc' = [proc EXCEPT !.at = "patch", !.back = proc.at, !.fun = f, !.tramp = @ \cup {f}]
  BY Zenon DEF InlineHook, CanCall, Alone, served
<1>2. HookInv /\ proc \in Process
  BY DEF IInv, TypeOK
<1>3. PICK back \in {"callback", "running"} : back = proc.at
  BY <1>1
<1>4. PICK tramp \in SUBSET Funs : tramp = proc.tramp \cup {f}
  BY <1>2 DEF Process
<1> DEFINE r == [proc EXCEPT !.at = "patch", !.back = back, !.fun = f, !.tramp = tramp]
<1>5. proc' = r
  BY <1>1, <1>3, <1>4, Zenon
<1>6. /\ r.at = "patch" /\ r.back = back /\ r.fun = f /\ r.tramp = tramp
      /\ r.lib = proc.lib /\ r.i = proc.i /\ r.pid = proc.pid
      /\ r.loaded = proc.loaded /\ r.got = proc.got /\ r.calm = proc.calm
      /\ r.hooks = proc.hooks /\ r.branch = proc.branch
      /\ r.lost = proc.lost /\ r.unacked = proc.unacked
  BY <1>2 DEF Process
<1>7. r \in Process
  BY <1>2 DEF Process, Places
<1> HIDE DEF r
<1>8. HookInv'
  BY <1>1, <1>2, <1>3, <1>4, <1>5, <1>6 DEF HookInv, HooksSound
<1>9. Unreported' = Unreported
  BY <1>1, <1>3, <1>5, <1>6 DEF Unreported
<1>10. Calling
  BY <1>1, <1>5, <1>6, <1>7, <1>9 DEF Calling
<1> QED  BY <1>1, <1>5, <1>6, <1>8, <1>10, CallingStep

\* Patched gives the function a hook, or takes the trampoline away again.
LEMMA PatchedFields ==
  ASSUME proc \in Process, HookInv, proc.at = "patch", NEW ok \in BOOLEAN
  PROVE  LET r == Patched(ok)
         IN  /\ r \in Process
             /\ r.at = proc.back /\ r.lib = proc.lib /\ r.i = proc.i /\ r.pid = proc.pid
             /\ r.n = proc.n /\ r.failed = proc.failed
             /\ r.loaded = proc.loaded /\ r.got = proc.got /\ r.calm = proc.calm
             /\ r.hooks = (IF ok THEN proc.hooks \cup {proc.fun} ELSE proc.hooks)
             /\ r.tramp = (IF ok THEN proc.tramp ELSE proc.tramp \ {proc.fun})
             /\ r.branch = (IF ok THEN proc.branch \cup {proc.fun} ELSE proc.branch)
             /\ r.lost = (IF ok THEN proc.lost \ {proc.fun} ELSE proc.lost)
             /\ r.unacked = proc.unacked
<1>1. proc.fun \in Funs /\ proc.back \in Places
  BY DEF HookInv, Places
<1>2. /\ proc.hooks \in SUBSET Funs /\ proc.tramp \in SUBSET Funs
      /\ proc.branch \in SUBSET Funs /\ proc.lost \in SUBSET Funs
  BY DEF Process
<1>3. PICK hooks \in SUBSET Funs : hooks = IF ok THEN proc.hooks \cup {proc.fun} ELSE proc.hooks
  BY <1>1, <1>2
<1>4. PICK tramp \in SUBSET Funs : tramp = IF ok THEN proc.tramp ELSE proc.tramp \ {proc.fun}
  BY <1>1, <1>2
<1>5. PICK branch \in SUBSET Funs : branch = IF ok THEN proc.branch \cup {proc.fun} ELSE proc.branch
  BY <1>1, <1>2
<1>6. PICK lost \in SUBSET Funs : lost = IF ok THEN proc.lost \ {proc.fun} ELSE proc.lost
  BY <1>1, <1>2
<1>7. PICK back \in Places : back = proc.back
  BY <1>1
<1> DEFINE r == [proc EXCEPT !.at = back, !.fun = None, !.hooks = hooks, !.tramp = tramp,
                             !.branch = branch, !.lost = lost]
<1>8. Patched(ok) = r
  BY <1>3, <1>4, <1>5, <1>6, <1>7, Zenon DEF Patched
<1>9. /\ r.at = back /\ r.lib = proc.lib /\ r.i = proc.i /\ r.pid = proc.pid
      /\ r.n = proc.n /\ r.failed = proc.failed
      /\ r.loaded = proc.loaded /\ r.got = proc.got /\ r.calm = proc.calm
      /\ r.hooks = hooks /\ r.tramp = tramp /\ r.branch = branch /\ r.lost = lost
      /\ r.unacked = proc.unacked
  BY DEF Process
<1>10. r \in Process
  BY DEF Process
<1> HIDE DEF r
<1> QED  BY <1>3, <1>4, <1>5, <1>6, <1>7, <1>8, <1>9, <1>10

\* PatchText: done, or refused.
LEMMA PatchTextStep ==
  ASSUME IInv, PatchText
  PROVE  IInv'
<1>1. PICK ok \in BOOLEAN : Step("patch", Patched(ok))
  BY Zenon DEF PatchText
<1>2. proc.at = "patch" /\ proc' = Patched(ok) /\ Alone
  BY <1>1, Zenon DEF Step, Alone, served
<1>3. HookInv /\ proc \in Process
  BY DEF IInv, TypeOK
<1>4. PICK r : r = Patched(ok)
  OBVIOUS
<1>5. /\ r \in Process
      /\ r.at = proc.back /\ r.lib = proc.lib /\ r.i = proc.i /\ r.pid = proc.pid
      /\ r.loaded = proc.loaded /\ r.got = proc.got /\ r.calm = proc.calm
      /\ r.hooks = (IF ok THEN proc.hooks \cup {proc.fun} ELSE proc.hooks)
      /\ r.tramp = (IF ok THEN proc.tramp ELSE proc.tramp \ {proc.fun})
      /\ r.branch = (IF ok THEN proc.branch \cup {proc.fun} ELSE proc.branch)
      /\ r.lost = (IF ok THEN proc.lost \ {proc.fun} ELSE proc.lost)
      /\ r.unacked = proc.unacked
  BY <1>2, <1>3, <1>4, PatchedFields
<1>6. proc' = r
  BY <1>2, <1>4
<1>7. /\ proc.back \in {"callback", "running"}
      /\ proc.fun \notin proc.hooks /\ proc.fun \in proc.tramp /\ HooksSound
  BY <1>2, <1>3 DEF HookInv
<1>8. HooksSound'
  <2>1. CASE ok
    BY <1>5, <1>6, <1>7, <2>1 DEF HooksSound
  <2>2. CASE ~ok
    BY <1>5, <1>6, <1>7, <2>2 DEF HooksSound
  <2> QED  BY <2>1, <2>2
<1>9. HookInv'
  BY <1>5, <1>6, <1>7, <1>8 DEF HookInv
<1>10. Unreported' = Unreported
  BY <1>2, <1>5, <1>6, <1>7 DEF Unreported
<1>11. Calling
  BY <1>2, <1>5, <1>6, <1>7, <1>10 DEF Calling
<1> QED  BY <1>2, <1>5, <1>6, <1>9, <1>11, CallingStep

\* PatchUnacked: the text branches to a trampoline that is gone; the function
\* counts as one that the daemon died over.
LEMMA PatchUnackedStep ==
  ASSUME IInv, PatchUnacked
  PROVE  IInv'
<1>1. proc.at = "patch" /\ Dead
      /\ proc' = [Patched(FALSE) EXCEPT !.branch = @ \cup {proc.fun}, !.calm = FALSE,
                                        !.unacked = @ \cup {proc.fun}]
  BY Zenon DEF PatchUnacked
<1>2. TypeOK /\ HookInv /\ LoadInv /\ proc \in Process
  BY DEF IInv, TypeOK
<1>3. PICK st : st = Patched(FALSE)
  OBVIOUS
<1>4. /\ st \in Process
      /\ st.at = proc.back /\ st.lib = proc.lib /\ st.i = proc.i /\ st.pid = proc.pid
      /\ st.loaded = proc.loaded /\ st.got = proc.got
      /\ st.hooks = proc.hooks /\ st.tramp = proc.tramp \ {proc.fun}
      /\ st.branch = proc.branch /\ st.lost = proc.lost /\ st.unacked = proc.unacked
  BY <1>1, <1>2, <1>3, PatchedFields
<1>5. /\ proc.back \in {"callback", "running"} /\ proc.fun \in Funs
      /\ proc.fun \notin proc.hooks /\ proc.fun \in proc.tramp /\ HooksSound
  BY <1>1, <1>2 DEF HookInv
<1>6. /\ proc.branch \in SUBSET Funs /\ proc.unacked \in SUBSET Funs
  BY <1>2 DEF Process
<1>7. PICK branch \in SUBSET Funs : branch = st.branch \cup {proc.fun}
  BY <1>4, <1>5, <1>6
<1>8. PICK unacked \in SUBSET Funs : unacked = st.unacked \cup {proc.fun}
  BY <1>4, <1>5, <1>6
<1> DEFINE r == [st EXCEPT !.branch = branch, !.calm = FALSE, !.unacked = unacked]
<1>9. proc' = r
  BY <1>1, <1>3, <1>7, <1>8, Zenon
<1>10. st \in Process
  BY <1>4
<1>11. /\ r.at = st.at /\ r.lib = st.lib /\ r.i = st.i /\ r.pid = st.pid
       /\ r.loaded = st.loaded /\ r.got = st.got /\ r.calm = FALSE
       /\ r.hooks = st.hooks /\ r.tramp = st.tramp /\ r.branch = branch /\ r.lost = st.lost
       /\ r.unacked = unacked
  BY <1>10 DEF Process
<1>12. r \in Process
  BY <1>10 DEF Process
<1> HIDE DEF r
<1>13. TypeOK' /\ CompanionInv' /\ RecordInv'
  BY <1>1, <1>4, <1>9, <1>11, <1>12, DeadStep
<1>14. HookInv'
  BY <1>4, <1>5, <1>7, <1>8, <1>9, <1>11 DEF HookInv, HooksSound
<1>15. Unreported' = Unreported
  BY <1>1, <1>4, <1>5, <1>9, <1>11 DEF Unreported
<1>16. LoadInv'
  <2>1. injected' = injected
    BY <1>1 DEF Dead
  <2>4. proc'.at = proc.back /\ proc'.calm = FALSE
    BY <1>4, <1>9, <1>11
  <2>2. proc'.calm = FALSE /\ {proc.at, proc'.at} \subseteq {"callback", "running", "patch"}
    BY <1>1, <1>5, <2>4
  <2>3. proc'.pid = proc.pid /\ proc'.loaded = proc.loaded /\ proc'.i = proc.i /\ proc'.lib = proc.lib
    BY <1>4, <1>9, <1>11
  <2> QED  BY <1>2, <1>15, <2>1, <2>2, <2>3, LoadKept DEF ListKept
<1> QED  BY <1>13, <1>14, <1>16 DEF IInv

\* InlineUnhook: the function's own page is among those that are restored.
LEMMA InlineUnhookStep ==
  ASSUME IInv, NEW f \in Funs, InlineUnhook(f)
  PROVE  IInv'
<1>1. /\ proc.at \in {"callback", "running"} /\ f \in proc.hooks /\ Alone
      /\ proc' = [proc EXCEPT !.hooks = @ \ {f}, !.tramp = @ \ {f},
                              !.branch = @ \ Near(f), !.unacked = @ \ Near(f),
                              !.lost = (@ \cup (proc.hooks \cap Near(f))) \ {f}]
  BY Zenon DEF InlineUnhook, CanCall, Alone, served
<1>2. HookInv /\ proc \in Process
  BY DEF IInv, TypeOK
<1>3. f \in Near(f)
  <2>1. PageOf[f] \in Nat  BY FunsAssumption
  <2> QED  BY <2>1 DEF Near
<1>4. /\ proc.hooks \in SUBSET Funs /\ proc.tramp \in SUBSET Funs /\ proc.branch \in SUBSET Funs
      /\ proc.lost \in SUBSET Funs /\ proc.unacked \in SUBSET Funs
  BY <1>2 DEF Process
<1>5. PICK hooks \in SUBSET Funs : hooks = proc.hooks \ {f}
  BY <1>4
<1>6. PICK tramp \in SUBSET Funs : tramp = proc.tramp \ {f}
  BY <1>4
<1>7. PICK branch \in SUBSET Funs : branch = proc.branch \ Near(f)
  BY <1>4
<1>8. PICK unacked \in SUBSET Funs : unacked = proc.unacked \ Near(f)
  BY <1>4
<1>9. PICK lost \in SUBSET Funs : lost = (proc.lost \cup (proc.hooks \cap Near(f))) \ {f}
  BY <1>4
<1> DEFINE r == [proc EXCEPT !.hooks = hooks, !.tramp = tramp, !.branch = branch,
                             !.unacked = unacked, !.lost = lost]
<1>10. proc' = r
  BY <1>1, <1>5, <1>6, <1>7, <1>8, <1>9, Zenon
<1>11. /\ r.at = proc.at /\ r.back = proc.back /\ r.lib = proc.lib /\ r.i = proc.i /\ r.pid = proc.pid
       /\ r.loaded = proc.loaded /\ r.got = proc.got /\ r.calm = proc.calm
       /\ r.hooks = hooks /\ r.tramp = tramp /\ r.branch = branch /\ r.lost = lost
       /\ r.unacked = unacked
  BY <1>2 DEF Process
<1>12. r \in Process
  BY <1>2 DEF Process
<1> HIDE DEF r
<1>13. HooksSound'
  BY <1>2, <1>3, <1>5, <1>6, <1>7, <1>8, <1>9, <1>10, <1>11 DEF HookInv, HooksSound
<1>14. HookInv'
  BY <1>1, <1>10, <1>11, <1>13 DEF HookInv
<1>15. Unreported' = Unreported
  BY <1>10, <1>11 DEF Unreported
<1>16. Calling
  BY <1>1, <1>10, <1>11, <1>12, <1>15 DEF Calling
<1> QED  BY <1>1, <1>10, <1>11, <1>14, <1>16, CallingStep

-----------------------------------------------------------------------------
(* The companions.                                                           *)

\* A slot that is not given a companion keeps the one it has, or none.
LEMMA ResizedSlots ==
  ASSUME comps \in Seq(Companions), NEW n \in Nat
  PROVE  LET slots == Resized(comps, n)
         IN  /\ slots \in Seq(Companions) /\ DOMAIN slots = 1..n
             /\ \A j \in 1..n : slots[j] = EmptySlot \/ (j \in DOMAIN comps /\ slots[j] = comps[j])
<1>1. EmptySlot \in Companions
  BY DEF EmptySlot, Companions, Named
<1> DEFINE slots == [j \in 1..n |-> IF j <= Len(comps) THEN comps[j] ELSE EmptySlot]
<1>2. \A j \in 1..n : slots[j] = EmptySlot \/ (j \in DOMAIN comps /\ slots[j] = comps[j])
  OBVIOUS
<1>3. \A j \in 1..n : slots[j] \in Companions
  BY <1>1, <1>2
<1>4. slots \in [1..n -> Companions]
  BY <1>3
<1>5. slots \in Seq(Companions)
  BY <1>4, IsASeq
<1> QED  BY <1>2, <1>5 DEF Resized

\* ensure_native_companion: a companion is started for the line of its slot.
LEMMA CompanionSlots ==
  ASSUME TypeOK, CompanionInv, NEW i \in 1..Len(list), NEW slots \in Companion(i)
  PROVE  /\ slots \in Seq(Companions) /\ DOMAIN slots = 1..Len(list)
         /\ ~drained => \A j \in DOMAIN slots : slots[j] = EmptySlot \/ slots[j].lib = list[j].id
<1>1. comps \in Seq(Companions) /\ list \in Seq(Line) /\ Len(list) \in Nat
  BY DEF TypeOK
<1>2. PICK old : old = Resized(comps, Len(list))
  OBVIOUS
<1>3. /\ old \in Seq(Companions) /\ DOMAIN old = 1..Len(list)
      /\ \A j \in 1..Len(list) : old[j] = EmptySlot \/ (j \in DOMAIN comps /\ old[j] = comps[j])
  BY <1>1, <1>2, ResizedSlots
<1>4. ~drained => \A j \in 1..Len(list) : old[j] = EmptySlot \/ old[j].lib = list[j].id
  BY <1>3 DEF CompanionInv
<1>5. CASE slots = old
  BY <1>3, <1>4, <1>5
<1>6. CASE slots # old
  <2>1. PICK entry \in BOOLEAN :
           slots = [old EXCEPT ![i] = [lib |-> list[i].id, alive |-> TRUE, entry |-> entry]]
    BY <1>2, <1>6, Zenon DEF Companion
  <2>2. list[i] \in Line
    BY <1>1
  <2>3. PICK new \in Companions : new = [lib |-> list[i].id, alive |-> TRUE, entry |-> entry]
    BY <2>2 DEF Companions, Named, Line
  <2>4. new.lib = list[i].id
    BY <2>3
  <2>5. slots = [old EXCEPT ![i] = new]
    BY <2>1, <2>3
  <2> DEFINE s == [old EXCEPT ![i] = new]
  <2>6. /\ s \in Seq(Companions) /\ DOMAIN s = 1..Len(list)
        /\ \A j \in 1..Len(list) : s[j] = IF j = i THEN new ELSE old[j]
    BY <1>3
  <2> HIDE DEF s
  <2>7. slots = s
    BY <2>5 DEF s
  <2> QED  BY <1>4, <2>4, <2>6, <2>7
<1> QED  BY <1>5, <1>6

\* ConnectCompanion: a calm process reaches the companion of its own line.
LEMMA ConnectStep ==
  ASSUME IInv, NEW k \in DOMAIN proc.loaded, ConnectCompanion(k)
  PROVE  IInv'
<1>1. PICK i : i = proc.loaded[k].idx
  OBVIOUS
<1>2. /\ proc.at \in {"callback", "running"} /\ daemon = "up" /\ i <= Len(list)
      /\ UNCHANGED <<disk, daemon, list, targets, drained, records, injected, misled>>
  BY <1>1, Zenon DEF ConnectCompanion, CanCall, Answered
<1>3. PICK slots \in Companion(i) :
        /\ comps' = slots
        /\ proc' = IF slots[i].alive /\ slots[i].entry
                   THEN [proc EXCEPT !.got = <<proc.loaded[k].lib, slots[i].lib, proc.calm /\ ~drained>>]
                   ELSE proc
  BY <1>1, Zenon DEF ConnectCompanion
<1>4. TypeOK /\ HookInv /\ LoadInv /\ CompanionInv /\ RecordInv /\ proc \in Process
  BY DEF IInv, TypeOK
<1>5. list \in Seq(Line) /\ proc.loaded \in Seq(Handle)
  BY <1>4 DEF TypeOK, Process
<1>6. i \in 1..Len(list) /\ proc.loaded[k].lib \in Named
  <2>1. proc.loaded[k] \in Handle  BY <1>5
  <2>2. i \in Nat \ {0} /\ proc.loaded[k].lib \in Named  BY <1>1, <2>1 DEF Handle
  <2> QED  BY <1>2, <1>5, <2>2
<1>7. /\ slots \in Seq(Companions) /\ DOMAIN slots = 1..Len(list)
      /\ ~drained => \A j \in DOMAIN slots : slots[j] = EmptySlot \/ slots[j].lib = list[j].id
  BY <1>3, <1>4, <1>6, CompanionSlots
<1>8. slots[i] \in Companions
  BY <1>6, <1>7
<1>9. /\ proc' \in Process /\ HooksKept
      /\ proc'.at = proc.at /\ proc'.back = proc.back /\ proc'.fun = proc.fun
      /\ proc'.pid = proc.pid /\ proc'.loaded = proc.loaded /\ proc'.i = proc.i
      /\ proc'.lib = proc.lib /\ proc'.calm = proc.calm
      /\ CompanionOwn'
  <2>1. CASE ~(slots[i].alive /\ slots[i].entry)
    <3>1. proc' = proc  BY <1>3, <2>1
    <3> QED  BY <1>4, <3>1 DEF HooksKept, CompanionInv, CompanionOwn
  <2>2. CASE slots[i].alive /\ slots[i].entry
    <3>1. PICK own \in Named : own = proc.loaded[k].lib
      BY <1>6
    <3>2. PICK other \in Named : other = slots[i].lib
      BY <1>8 DEF Companions
    <3>3. PICK sure \in BOOLEAN : sure = (proc.calm /\ ~drained)
      OBVIOUS
    <3>4. PICK got \in Named \X Named \X BOOLEAN : got = <<own, other, sure>>
      OBVIOUS
    <3> DEFINE r == [proc EXCEPT !.got = got]
    <3>5. proc' = r
      BY <1>3, <2>2, <3>1, <3>2, <3>3, <3>4, Zenon
    <3>6. /\ r.at = proc.at /\ r.back = proc.back /\ r.fun = proc.fun
          /\ r.lib = proc.lib /\ r.i = proc.i /\ r.pid = proc.pid
          /\ r.loaded = proc.loaded /\ r.got = got /\ r.calm = proc.calm
          /\ r.hooks = proc.hooks /\ r.tramp = proc.tramp /\ r.branch = proc.branch
          /\ r.lost = proc.lost /\ r.unacked = proc.unacked
      BY <1>4 DEF Process
    <3>7. r \in Process
      BY <1>4 DEF Process
    <3> HIDE DEF r
    <3>8. ASSUME sure  PROVE own = other
      <4>1. own = list[i].id
        BY <1>1, <1>4, <3>1, <3>3, <3>8 DEF LoadInv
      <4>2. slots[i] # EmptySlot
        BY <2>2 DEF EmptySlot
      <4>3. slots[i].lib = list[i].id
        BY <1>6, <1>7, <3>3, <3>8, <4>2
      <4> QED  BY <3>2, <4>1, <4>3
    <3>9. got[1] = own /\ got[2] = other /\ got[3] = sure
      BY <3>4
    <3>10. CompanionOwn'
      BY <3>5, <3>6, <3>8, <3>9 DEF CompanionOwn
    <3> QED  BY <3>5, <3>6, <3>7, <3>10 DEF HooksKept
  <2> QED  BY <2>1, <2>2
<1>10. TypeOK'
  BY <1>2, <1>3, <1>4, <1>7, <1>9 DEF TypeOK
<1>11. HookInv'
  BY <1>4, <1>9, HookKept
<1>12. LoadInv'
  BY <1>2, <1>4, <1>9, LoadKept DEF ListKept
<1>13. CompanionInv'
  <2>1. ASSUME ~drained, NEW j \in DOMAIN slots
        PROVE  j <= Len(list) /\ (slots[j] = EmptySlot \/ slots[j].lib = list[j].id)
    BY <1>5, <1>7, <2>1
  <2> QED  BY <1>2, <1>3, <1>9, <2>1 DEF CompanionInv
<1>14. RecordInv'
  <2>1. Unreported' = Unreported  BY <1>9 DEF Unreported
  <2> QED  BY <1>2, <1>4, <1>9, <2>1, RecordKept
<1> QED  BY <1>10, <1>11, <1>12, <1>13, <1>14 DEF IInv

-----------------------------------------------------------------------------
(* The theorems.                                                             *)

\* The initial states satisfy the invariant.
LEMMA InitInv == Init => IInv
<1> SUFFICES ASSUME Init  PROVE IInv
  OBVIOUS
<1>1. /\ disk \in Seq(Line) /\ daemon = "down" /\ list = <<>> /\ targets = {}
      /\ comps = <<>> /\ records = <<>> /\ proc = NoProc /\ injected = {}
      /\ drained = FALSE /\ misled = FALSE
  BY ListsAssumption DEF Init
<1>2. Fresh(proc)
  BY <1>1, FreshProcesses
<1>3. /\ proc \in Process /\ proc.at \in {"none", "count"} /\ proc.loaded = <<>> /\ proc.got = <<>>
      /\ proc.hooks = {} /\ proc.branch = {}
  BY <1>2 DEF Fresh
<1>4. DOMAIN proc.loaded = {} /\ DOMAIN records = {} /\ DOMAIN comps = {}
  BY <1>1, <1>3, NoPositions
<1>5. TypeOK
  <2>1. /\ list \in Seq(Line) /\ comps \in Seq(Companions)
        /\ records \in Seq([pid : Pids \cup {None}, id : Modules])
    BY <1>1
  <2> QED  BY <1>1, <1>3, <2>1 DEF TypeOK
<1>6. HookInv
  BY <1>3 DEF HookInv, HooksSound
<1>7. LoadInv
  <2>1. ~Unreported /\ proc.at # "open" /\ proc.at # "report"  BY <1>3 DEF Unreported
  <2> QED  BY <1>3, <1>4, <2>1 DEF LoadInv
<1>8. CompanionInv
  BY <1>1, <1>3, <1>4 DEF CompanionInv, CompanionOwn
<1>9. RecordInv
  BY <1>4 DEF RecordInv, IsInjective
<1> QED  BY <1>5, <1>6, <1>7, <1>8, <1>9 DEF IInv

\* Every step keeps the invariant.
LEMMA NextInv == IInv /\ [Next]_vars => IInv'
<1> SUFFICES ASSUME IInv, [Next]_vars  PROVE IInv'
  OBVIOUS
<1>1. CASE Edit  BY <1>1, EditStep
<1>2. CASE Bind  BY <1>2, BindStep
<1>3. CASE Start \/ Reload  BY <1>3, RescanStep
<1>4. CASE DaemonDies  BY <1>4, DaemonDiesStep
<1>5. CASE CompanionDies  BY <1>5, CompanionDiesStep
<1>6. CASE \E pid \in Pids : Exec(pid)  BY <1>6, ExecStep
<1>7. CASE Exit  BY <1>7, ExitStep
<1>8. CASE Load
  <2>1. CASE GetCount  BY <2>1, GetCountStep
  <2>2. CASE GetInfo
    <3>1. \E st \in {Advanced(proc), [proc EXCEPT !.at = "fd"]} : Step("info", st)
      BY <2>2, Zenon DEF GetInfo
    <3> QED  BY <3>1, PassingStep
  <2>3. CASE GetFd
    <3>1. \/ /\ Answered /\ proc.i + 1 <= Len(list)
             /\ Step("fd", [proc EXCEPT !.at = "open", !.lib = list[proc.i + 1].id])
          \/ Step("fd", Passed(proc))
      BY <2>3, Zenon DEF GetFd
    <3>2. CASE Step("fd", Passed(proc))  BY <3>2, PassingStep
    <3> QED  BY <3>1, <3>2, FdStep
  <2>4. CASE OpenLibrary
    <3>1. \/ Step("open", [proc EXCEPT !.at = "callback",
                             !.loaded = Append(@, [idx |-> proc.i + 1, lib |-> proc.lib])])
          \/ Step("open", Passed(proc))
      BY <2>4, Zenon DEF OpenLibrary
    <3>2. CASE Step("open", Passed(proc))  BY <3>2, PassingStep
    <3> QED  BY <3>1, <3>2, OpenStep
  <2>5. CASE CallbackEnds  BY <2>5, CallbackStep
  <2>6. CASE Report  BY <2>6, ReportStep
  <2>7. CASE RestorePolicy
    <3>1. Step("restore", [proc EXCEPT !.at = "running"])  BY <2>7, Zenon DEF RestorePolicy
    <3> QED  BY <3>1, PassingStep
  <2> QED  BY <1>8, <2>1, <2>2, <2>3, <2>4, <2>5, <2>6, <2>7 DEF Load
<1>9. CASE Api
  <2>1. CASE \E f \in Funs : InlineHook(f) \/ InlineUnhook(f)
    BY <2>1, InlineHookStep, InlineUnhookStep
  <2>2. CASE \E k \in DOMAIN proc.loaded : ConnectCompanion(k)
    BY <2>2, ConnectStep
  <2> QED  BY <1>9, <2>1, <2>2 DEF Api
<1>10. CASE PatchText  BY <1>10, PatchTextStep
<1>11. CASE PatchUnacked  BY <1>11, PatchUnackedStep
<1>12. CASE UNCHANGED vars
  BY <1>12 DEF vars, IInv, TypeOK, HookInv, HooksSound, LoadInv, Unreported, CompanionInv,
               CompanionOwn, RecordInv
<1> QED
  BY <1>1, <1>2, <1>3, <1>4, <1>5, <1>6, <1>7, <1>8, <1>9, <1>10, <1>11, <1>12 DEF Next

\* In every reachable state the daemon's list, the companions, the records, and
\* what the process has loaded and hooked are related as load_matching_modules
\* and the API need it.
THEOREM Invariant == Spec => []IInv
<1>1. Init => IInv  BY InitInv
<1>2. IInv /\ [Next]_vars => IInv'  BY NextInv
<1> QED  BY <1>1, <1>2, PTL DEF Spec

\* Every variable keeps its type, whatever is loaded, hooked or reloaded.
THEOREM TypeCorrect == Spec => []TypeOK
<1>1. IInv => TypeOK  BY DEF IInv
<1> QED  BY <1>1, Invariant, PTL

\* The inline hooks of the modules: whatever they hook and unhook, on whatever
\* pages, and whenever the daemon refuses or dies, text branches to mapped
\* trampolines only, but where the daemon died over the patch, and a recorded
\* hook is in effect, unless one nearby was taken back.
THEOREM HooksSoundHolds == Spec => []HooksSound
<1>1. IInv => HooksSound  BY DEF IInv, HookInv
<1> QED  BY <1>1, Invariant, PTL

\* ensure_native_companion: however many modules there are, one whose process
\* has seen the daemon's first and only list reaches its own companion.
THEOREM CompanionOwnHolds == Spec => []CompanionOwn
<1>1. IInv => CompanionOwn  BY DEF IInv, CompanionInv
<1> QED  BY <1>1, Invariant, PTL

\* record_native_injection: unless a report was made over a list the process had
\* not seen, what the manager is shown has happened, is shown once, and is all
\* that has happened while there is room.
THEOREM RecordsTrueHolds == Spec => []RecordsTrue
<1>1. IInv => RecordsTrue  BY DEF IInv, RecordInv, RecordsTrue, Unreported
<1> QED  BY <1>1, Invariant, PTL

-----------------------------------------------------------------------------
(* Exactness.                                                                *)

\* The process is in the loop of load_matching_modules, with the line at i + 1.
Looping == \/ proc.at \in {"info", "fd", "open", "callback", "report"}
           \/ proc.at = "patch" /\ proc.back = "callback"

\* How many lines it has dealt with.
Met == IF Unreported THEN proc.i + 1 ELSE proc.i

Handles == DOMAIN proc.loaded
Increasing == \A j, k \in Handles : j < k => proc.loaded[j].idx < proc.loaded[k].idx

\* Of the lines that were dealt with, the handles have those that were for the
\* process and were not passed over.
Exactly == {proc.loaded[k].idx : k \in Handles} =
              {j \in 1..Met : list[j].here /\ j \notin proc.failed}

\* In the loop and after it a calm process has loaded exactly what was due.
ExactInv ==
    /\ proc.at \in {"none", "count"} => proc.i = 0
    /\ proc.failed \subseteq 1..proc.i
    /\ proc.calm /\ proc.at \in {"fd", "open"} => list[proc.i + 1].here
    /\ proc.calm /\ (Looping \/ proc.at = "restore") =>
          /\ proc.n = Len(list)
          /\ Looping => proc.i < proc.n
          /\ proc.at = "restore" => proc.i = proc.n
          /\ Exactly /\ Increasing

\* Where the loop is and what it has loaded stay.
LoopKept == /\ proc'.i = proc.i /\ proc'.n = proc.n /\ proc'.failed = proc.failed
            /\ proc'.loaded = proc.loaded

\* A step that leaves the loop where it is, or leaves it.
LEMMA ExactKept ==
  ASSUME ExactInv, LoopKept, proc'.calm => proc.calm /\ list' = list,
         Unreported' = Unreported, Looping' => Looping,
         proc'.at = "restore" => proc.at = "restore",
         proc'.at \in {"none", "count"} => proc.at \in {"none", "count"},
         proc'.at \in {"fd", "open"} => proc.at \in {"fd", "open"}
  PROVE  ExactInv'
<1>1. Met' = Met
  BY DEF Met, LoopKept
<1>2. ASSUME proc'.calm  PROVE (Exactly' <=> Exactly) /\ (Increasing' <=> Increasing)
  BY <1>1, <1>2 DEF Exactly, Increasing, Handles, LoopKept
<1> QED  BY <1>2 DEF ExactInv, LoopKept

\* A process that is none, or has not counted.
LEMMA ExactFresh ==
  ASSUME proc' = NoProc \/ \E pid \in Pids : proc' = [NoProc EXCEPT !.at = "count", !.pid = pid]
  PROVE  ExactInv'
<1>1. proc'.i = 0 /\ proc'.failed = {} /\ proc'.at \in {"none", "count"}
  <2>1. NoProc \in Process /\ NoProc.at = "none"
    BY FreshProcesses, Zenon DEF Fresh, NoProc
  <2>2. NoProc.i = 0 /\ NoProc.failed = {}
    BY DEF NoProc
  <2>3. ASSUME NEW pid \in Pids, proc' = [NoProc EXCEPT !.at = "count", !.pid = pid]
        PROVE  proc'.i = 0 /\ proc'.failed = {} /\ proc'.at = "count"
    <3> DEFINE r == [NoProc EXCEPT !.at = "count", !.pid = pid]
    <3>1. r.i = NoProc.i /\ r.failed = NoProc.failed /\ r.at = "count"
      BY <2>1 DEF Process
    <3> QED  BY <2>2, <2>3, <3>1
  <2> QED  BY <2>1, <2>2, <2>3
<1>2. ~Looping' /\ proc'.at \notin {"restore", "fd", "open"}
  BY <1>1 DEF Looping
<1> QED  BY <1>1, <1>2 DEF ExactInv

\* What the daemon does alone leaves the loop alone.
LEMMA ExactServed ==
  ASSUME IInv, ExactInv, Disturbed, proc'.calm => proc.calm /\ list' = list
  PROVE  ExactInv'
<1> DEFINE r == [proc EXCEPT !.calm = FALSE]
<1>1. proc \in Process
  BY DEF IInv, TypeOK
<1>2. /\ r.at = proc.at /\ r.back = proc.back /\ r.i = proc.i /\ r.n = proc.n
      /\ r.failed = proc.failed /\ r.loaded = proc.loaded
  BY <1>1 DEF Process
<1> HIDE DEF r
<1>3. /\ LoopKept /\ proc'.at = proc.at /\ proc'.back = proc.back
  BY <1>2, Zenon DEF Disturbed, LoopKept, r
<1>4. Unreported' = Unreported /\ Looping' = Looping
  BY <1>3 DEF Unreported, Looping
<1> QED  BY <1>3, <1>4, ExactKept

\* GetCount: the loop begins, over the list that a calm process is told of.
LEMMA ExactCount ==
  ASSUME IInv, ExactInv, GetCount
  PROVE  ExactInv'
<1>1. proc.at = "count" /\ list' = list
  BY Zenon DEF GetCount, Step, served
<1>2. list \in Seq(Line) /\ proc \in Process /\ proc.loaded = <<>>
  BY <1>1 DEF IInv, TypeOK, LoadInv
<1>3. PICK n \in Nat : n = Len(list)
  BY <1>2
<1>4. PICK at \in {"restore", "info"} : at = IF list = <<>> THEN "restore" ELSE "info"
  OBVIOUS
<1>5. PICK calm \in BOOLEAN : calm = Answered
  BY DEF Answered
<1> DEFINE r == [proc EXCEPT !.n = n, !.calm = calm, !.at = at]
<1>6. proc' = r
  BY <1>3, <1>4, <1>5, Zenon DEF GetCount, Step
<1>7. /\ r.at = at /\ r.calm = calm /\ r.n = n /\ r.i = proc.i /\ r.failed = proc.failed
      /\ r.loaded = proc.loaded
  BY <1>2 DEF Process
<1> HIDE DEF r
<1>8. proc.i = 0 /\ proc.failed = {}
  BY <1>1 DEF ExactInv
<1>9. ~Unreported' /\ Met' = 0 /\ DOMAIN proc'.loaded = {}
  BY <1>2, <1>4, <1>6, <1>7, <1>8, NoPositions DEF Unreported, Met
<1>10. Exactly' /\ Increasing'
  BY <1>9 DEF Exactly, Increasing, Handles
<1>11. /\ at = "restore" => n = 0
       /\ at # "restore" => 0 < n
       /\ Looping' <=> at = "info"
  BY <1>2, <1>3, <1>4, <1>6, <1>7 DEF Looping
<1> QED  BY <1>1, <1>3, <1>4, <1>6, <1>7, <1>8, <1>10, <1>11 DEF ExactInv

\* The line at i + 1 has been dealt with, rightly.
LEMMA ExactAdvanced ==
  ASSUME IInv, ExactInv, NEW st, proc' = Advanced(st), st \in Process, list' = list,
         st.i = proc.i, st.n = proc.n, st.loaded = proc.loaded, st.calm = proc.calm,
         proc.at \in {"info", "fd", "open", "report"},
         \/ st.failed = proc.failed
         \/ st.failed = proc.failed \cup {proc.i + 1} /\ ~Unreported,
         proc.calm /\ ~Unreported /\ st.failed = proc.failed => ~list[proc.i + 1].here
  PROVE  ExactInv'
<1>1. PICK at \in {"info", "restore"} : at = IF st.i + 1 < st.n THEN "info" ELSE "restore"
  OBVIOUS
<1>2. PICK i \in Nat : i = st.i + 1
  BY DEF Process
<1> DEFINE go == [st EXCEPT !.i = i, !.lib = None, !.at = at]
<1>3. proc' = go
  BY <1>1, <1>2, Zenon DEF Advanced
<1>4. /\ go.at = at /\ go.i = i /\ go.n = st.n /\ go.loaded = st.loaded /\ go.failed = st.failed
      /\ go.calm = st.calm
  BY DEF Process
<1> HIDE DEF go
<1>5. /\ proc'.at = at /\ proc'.i = i /\ proc'.n = proc.n /\ proc'.loaded = proc.loaded
      /\ proc'.failed = st.failed /\ proc'.calm = proc.calm
  BY <1>3, <1>4
<1>6. i = proc.i + 1 /\ proc.i \in Nat /\ i \in Nat /\ proc.n \in Nat
  BY <1>2 DEF IInv, TypeOK, Process
<1>7. Looping
  BY DEF Looping
<1>8. ~Unreported' /\ (Looping' <=> at = "info") /\ Met' = i
  BY <1>5 DEF Unreported, Looping, Met
<1>9. proc'.failed \subseteq 1..i
  BY <1>5, <1>6 DEF ExactInv
<1>10. ASSUME proc'.calm
       PROVE  /\ proc'.n = Len(list) /\ proc.i < proc.n /\ Exactly' /\ Increasing'
  <2>1. /\ proc.calm /\ proc.n = Len(list) /\ proc.i < proc.n /\ Exactly /\ Increasing
    BY <1>5, <1>7, <1>10 DEF ExactInv
  <2>2. proc.failed \subseteq 1..proc.i
    BY DEF ExactInv
  <2>3. {j \in 1..Met : list[j].here /\ j \notin proc.failed} =
           {j \in 1..i : list[j].here /\ j \notin st.failed}
    <3>1. CASE Unreported
      <4>1. Met = i /\ st.failed = proc.failed  BY <3>1, <1>6 DEF Met
      <4> QED  BY <4>1
    <3>2. CASE ~Unreported
      <4>1. Met = proc.i  BY <3>2 DEF Met
      <4>2. 1..i = 1..proc.i \cup {i} /\ i \notin 1..proc.i  BY <1>6
      <4>3. st.failed = proc.failed \cup {i} \/ (st.failed = proc.failed /\ ~list[i].here)
        BY <1>6, <2>1, <3>2
      <4> QED  BY <2>2, <4>1, <4>2, <4>3
    <3> QED  BY <3>1, <3>2
  <2> QED  BY <1>5, <1>8, <2>1, <2>3 DEF Exactly, Increasing, Handles
<1>11. ASSUME proc'.calm
       PROVE  /\ at = "info" => i < proc.n
              /\ at = "restore" => i = proc.n
  BY <1>1, <1>2, <1>6, <1>10, <1>11
<1> QED  BY <1>1, <1>5, <1>8, <1>9, <1>10, <1>11 DEF ExactInv

\* GetInfo: a calm process goes on to the file of a line that is for it.
LEMMA ExactInfo ==
  ASSUME IInv, ExactInv, GetInfo
  PROVE  ExactInv'
<1>1. proc.at = "info" /\ list' = list /\ proc \in Process
  BY Zenon DEF GetInfo, Step, served, IInv, TypeOK
<1>2. ~Unreported
  BY <1>1 DEF Unreported
<1>3. CASE Answered /\ TargetMatches(proc.i + 1)
  <2> DEFINE r == [proc EXCEPT !.at = "fd"]
  <2>1. proc' = r
    BY <1>3, Zenon DEF GetInfo, Step
  <2>2. /\ r.at = "fd" /\ r.i = proc.i /\ r.n = proc.n /\ r.failed = proc.failed
        /\ r.loaded = proc.loaded /\ r.calm = proc.calm
    BY <1>1 DEF Process
  <2> HIDE DEF r
  <2>3. ~Unreported' /\ Looping /\ Looping'
    BY <1>1, <2>1, <2>2 DEF Unreported, Looping
  <2>4. Met' = Met
    BY <1>2, <2>1, <2>2, <2>3 DEF Met
  <2>5. (Exactly' <=> Exactly) /\ (Increasing' <=> Increasing)
    BY <1>1, <2>1, <2>2, <2>4 DEF Exactly, Increasing, Handles
  <2>6. list[proc.i + 1].here
    BY <1>3 DEF TargetMatches
  <2> QED  BY <1>1, <2>1, <2>2, <2>3, <2>5, <2>6 DEF ExactInv
<1>4. CASE ~(Answered /\ TargetMatches(proc.i + 1))
  <2>1. proc' = Advanced(proc)
    BY <1>4, Zenon DEF GetInfo, Step
  <2>2. proc.calm => ~list[proc.i + 1].here
    <3> SUFFICES ASSUME proc.calm  PROVE ~list[proc.i + 1].here
      OBVIOUS
    <3>1. Answered
      BY <1>1 DEF IInv, LoadInv, Answered
    <3>2. proc.i < proc.n /\ proc.n = Len(list)
      BY <1>1 DEF ExactInv, Looping
    <3>3. proc.i + 1 <= Len(list)
      BY <1>1, <3>2 DEF Process
    <3> QED  BY <1>4, <3>1, <3>3 DEF TargetMatches
  <2> QED  BY <1>1, <2>1, <2>2, ExactAdvanced
<1> QED  BY <1>3, <1>4

\* GetFd and OpenLibrary that fail: the line is passed over.
LEMMA ExactPassed ==
  ASSUME IInv, ExactInv, NEW at \in {"fd", "open"}, Step(at, Passed(proc))
  PROVE  ExactInv'
<1>1. proc.at = at /\ proc' = Passed(proc) /\ list' = list
  BY Zenon DEF Step, served
<1>2. proc \in Process
  BY DEF IInv, TypeOK
<1>3. PICK failed \in SUBSET Nat : failed = proc.failed \cup {proc.i + 1}
  <2>1. proc.i + 1 \in Nat /\ proc.failed \in SUBSET Nat  BY <1>2 DEF Process
  <2> QED  BY <2>1
<1> DEFINE st == [proc EXCEPT !.failed = failed]
<1>4. /\ st \in Process /\ st.i = proc.i /\ st.n = proc.n /\ st.loaded = proc.loaded
      /\ st.calm = proc.calm /\ st.failed = failed
  BY <1>2 DEF Process
<1>5. proc' = Advanced(st)
  BY <1>1, <1>3, Zenon DEF Passed
<1> HIDE DEF st
<1>6. ~Unreported
  BY <1>1 DEF Unreported
<1>7. failed # proc.failed
  <2>1. proc.failed \subseteq 1..proc.i /\ proc.i \in Nat  BY <1>2 DEF ExactInv, Process
  <2>2. proc.i + 1 \notin proc.failed  BY <2>1
  <2> QED  BY <2>2, <1>3
<1> QED  BY <1>1, <1>3, <1>4, <1>5, <1>6, <1>7, ExactAdvanced

\* GetFd: on to the library of the same line.
LEMMA ExactFd ==
  ASSUME IInv, ExactInv, Step("fd", [proc EXCEPT !.at = "open", !.lib = list[proc.i + 1].id])
  PROVE  ExactInv'
<1>1. proc.at = "fd" /\ list' = list /\ proc \in Process
  BY Zenon DEF Step, served, IInv, TypeOK
<1>2. PICK lib : lib = list[proc.i + 1].id
  OBVIOUS
<1> DEFINE r == [proc EXCEPT !.at = "open", !.lib = lib]
<1>3. proc' = r
  BY <1>2, Zenon DEF Step
<1>4. /\ r.at = "open" /\ r.i = proc.i /\ r.n = proc.n /\ r.failed = proc.failed
      /\ r.loaded = proc.loaded /\ r.calm = proc.calm
  BY <1>1 DEF Process
<1> HIDE DEF r
<1>5. Unreported' = Unreported /\ Looping /\ Looping'
  BY <1>1, <1>3, <1>4 DEF Unreported, Looping
<1> QED  BY <1>1, <1>3, <1>4, <1>5, ExactKept DEF LoopKept

\* OpenLibrary: the line is for the process and has been loaded, after all the
\* others.
LEMMA ExactOpen ==
  ASSUME IInv, ExactInv,
         Step("open", [proc EXCEPT !.at = "callback",
                         !.loaded = Append(@, [idx |-> proc.i + 1, lib |-> proc.lib])])
  PROVE  ExactInv'
<1>1. proc.at = "open" /\ list' = list /\ proc \in Process
  BY Zenon DEF Step, served, IInv, TypeOK
<1>2. proc.i \in Nat /\ proc.loaded \in Seq(Handle)
  BY <1>1 DEF Process
<1>3. PICK h : h = [idx |-> proc.i + 1, lib |-> proc.lib]
  OBVIOUS
<1>4. PICK loaded : loaded = Append(proc.loaded, h)
  OBVIOUS
<1> DEFINE r == [proc EXCEPT !.at = "callback", !.loaded = loaded]
<1>5. proc' = r
  BY <1>3, <1>4, Zenon DEF Step
<1>6. /\ r.at = "callback" /\ r.i = proc.i /\ r.n = proc.n /\ r.failed = proc.failed
      /\ r.loaded = loaded /\ r.calm = proc.calm
  BY <1>1 DEF Process
<1> HIDE DEF r
<1>7. h.idx = proc.i + 1
  BY <1>3
<1>8. PICK m \in Nat : m = Len(proc.loaded)
  BY <1>2
<1>9. /\ DOMAIN loaded = 1..m + 1 /\ DOMAIN proc.loaded = 1..m
      /\ loaded[m + 1] = h /\ \A k \in 1..m : loaded[k] = proc.loaded[k]
  BY <1>2, <1>4, <1>8
<1>10. Unreported' /\ ~Unreported /\ Looping' /\ Looping
  BY <1>1, <1>5, <1>6 DEF Unreported, Looping
<1>11. Met' = proc.i + 1 /\ Met = proc.i
  BY <1>5, <1>6, <1>10 DEF Met
<1>12. ASSUME proc.calm
       PROVE  /\ proc.n = Len(list) /\ proc.i < proc.n /\ Exactly' /\ Increasing'
  <2>1. /\ proc.n = Len(list) /\ proc.i < proc.n /\ Exactly /\ Increasing
        /\ list[proc.i + 1].here /\ proc.failed \subseteq 1..proc.i
    BY <1>1, <1>10, <1>12 DEF ExactInv
  <2>2. {loaded[k].idx : k \in 1..m + 1} = {proc.loaded[k].idx : k \in 1..m} \cup {proc.i + 1}
    <3>1. 1..m + 1 = 1..m \cup {m + 1}  OBVIOUS
    <3> QED  BY <3>1, <1>7, <1>9
  <2>3. {j \in 1..proc.i + 1 : list[j].here /\ j \notin proc.failed} =
          {j \in 1..proc.i : list[j].here /\ j \notin proc.failed} \cup {proc.i + 1}
    <3>1. 1..proc.i + 1 = 1..proc.i \cup {proc.i + 1} /\ proc.i + 1 \notin 1..proc.i  BY <1>2
    <3> QED  BY <2>1, <3>1
  <2>4. Exactly'
    <3>1. /\ proc'.loaded = loaded /\ proc'.failed = proc.failed /\ list' = list
          /\ DOMAIN loaded = 1..m + 1 /\ DOMAIN proc.loaded = 1..m
      BY <1>1, <1>5, <1>6, <1>9
    <3>2. {proc.loaded[k].idx : k \in 1..m} =
             {j \in 1..proc.i : list[j].here /\ j \notin proc.failed}
      BY <1>11, <2>1, <3>1 DEF Exactly, Handles
    <3>3. {loaded[k].idx : k \in 1..m + 1} =
             {j \in 1..proc.i + 1 : list[j].here /\ j \notin proc.failed}
      BY <2>2, <2>3, <3>2, Zenon
    <3> QED  BY <1>11, <3>1, <3>3 DEF Exactly, Handles
  <2>5. \A j \in 1..m : proc.loaded[j].idx \in 1..proc.i
    BY <1>9, <1>11, <2>1 DEF Exactly, Handles
  <2>6. ASSUME NEW j \in 1..m + 1, NEW k \in 1..m + 1, j < k
        PROVE  loaded[j].idx < loaded[k].idx
    <3>1. j \in 1..m
      BY <2>6
    <3>2. CASE k \in 1..m
      BY <1>9, <2>1, <2>6, <3>1, <3>2 DEF Increasing, Handles
    <3>3. CASE k = m + 1
      BY <1>2, <1>7, <1>9, <2>5, <3>1, <3>3
    <3> QED  BY <3>2, <3>3
  <2>7. Increasing'
    BY <1>5, <1>6, <1>9, <2>6 DEF Increasing, Handles
  <2> QED  BY <2>1, <2>4, <2>7
<1>13. proc.failed \subseteq 1..proc.i
  BY DEF ExactInv
<1> QED  BY <1>1, <1>5, <1>6, <1>10, <1>12, <1>13 DEF ExactInv

\* CallbackEnds, Report, RestorePolicy: nothing is loaded.
LEMMA ExactReported ==
  ASSUME IInv, ExactInv, CallbackEnds \/ Report \/ RestorePolicy
  PROVE  ExactInv'
<1>1. proc \in Process /\ list' = list
  BY Zenon DEF IInv, TypeOK, CallbackEnds, Report, RestorePolicy, Step, served
<1>2. CASE CallbackEnds
  <2> DEFINE r == [proc EXCEPT !.at = "report"]
  <2>1. proc.at = "callback" /\ proc' = r
    BY <1>2 DEF CallbackEnds
  <2>2. /\ r.at = "report" /\ r.i = proc.i /\ r.n = proc.n /\ r.failed = proc.failed
        /\ r.loaded = proc.loaded /\ r.calm = proc.calm
    BY <1>1 DEF Process
  <2> HIDE DEF r
  <2>3. Unreported' = Unreported /\ Looping
    BY <2>1, <2>2 DEF Unreported, Looping
  <2> QED  BY <1>1, <2>1, <2>2, <2>3, ExactKept DEF LoopKept
<1>3. CASE Report
  <2>1. proc.at = "report" /\ proc' = Advanced(proc)
    BY <1>3, Zenon DEF Report
  <2>2. Unreported
    BY <2>1 DEF Unreported
  <2> QED  BY <1>1, <2>1, <2>2, ExactAdvanced
<1>4. CASE RestorePolicy
  <2> DEFINE r == [proc EXCEPT !.at = "running"]
  <2>1. proc.at = "restore" /\ proc' = r
    BY <1>4, Zenon DEF RestorePolicy, Step
  <2>2. /\ r.at = "running" /\ r.i = proc.i /\ r.n = proc.n /\ r.failed = proc.failed
        /\ r.loaded = proc.loaded /\ r.calm = proc.calm
    BY <1>1 DEF Process
  <2> HIDE DEF r
  <2>3. Unreported' = Unreported /\ ~Looping'
    BY <2>1, <2>2 DEF Unreported, Looping
  <2> QED  BY <1>1, <2>1, <2>2, <2>3, ExactKept DEF LoopKept
<1> QED  BY <1>2, <1>3, <1>4

\* A call of the API, from the loop or after it.
LEMMA ExactCalled ==
  ASSUME ExactInv, LoopKept, proc'.calm => proc.calm /\ list' = list,
         {proc.at, proc'.at} \subseteq {"callback", "running", "patch"},
         Unreported' = Unreported
  PROVE  ExactInv'
<1>1. (Looping' <=> Unreported') /\ (Looping <=> Unreported)
  BY DEF Looping, Unreported
<1> QED  BY <1>1, ExactKept

\* InlineHook, InlineUnhook.
LEMMA ExactHooked ==
  ASSUME IInv, ExactInv, NEW f \in Funs, InlineHook(f) \/ InlineUnhook(f)
  PROVE  ExactInv'
<1>1. proc \in Process /\ list' = list /\ proc.at \in {"callback", "running"}
  BY Zenon DEF IInv, TypeOK, InlineHook, InlineUnhook, CanCall, served
<1>2. CASE InlineHook(f)
  <2>1. PICK back \in {"callback", "running"} : back = proc.at
    BY <1>1
  <2>2. PICK tramp : tramp = proc.tramp \cup {f}
    OBVIOUS
  <2> DEFINE r == [proc EXCEPT !.at = "patch", !.back = back, !.fun = f, !.tramp = tramp]
  <2>3. proc' = r
    BY <1>2, <2>1, <2>2, Zenon DEF InlineHook
  <2>4. /\ r.at = "patch" /\ r.back = back /\ r.i = proc.i /\ r.n = proc.n
        /\ r.failed = proc.failed /\ r.loaded = proc.loaded /\ r.calm = proc.calm
    BY <1>1 DEF Process
  <2> HIDE DEF r
  <2>5. Unreported' = Unreported
    BY <1>1, <2>1, <2>3, <2>4 DEF Unreported
  <2> QED  BY <1>1, <2>3, <2>4, <2>5, ExactCalled DEF LoopKept
<1>3. CASE InlineUnhook(f)
  <2>1. PICK hooks : hooks = proc.hooks \ {f}
    OBVIOUS
  <2>2. PICK tramp : tramp = proc.tramp \ {f}
    OBVIOUS
  <2>3. PICK branch : branch = proc.branch \ Near(f)
    OBVIOUS
  <2>4. PICK unacked : unacked = proc.unacked \ Near(f)
    OBVIOUS
  <2>5. PICK lost : lost = (proc.lost \cup (proc.hooks \cap Near(f))) \ {f}
    OBVIOUS
  <2> DEFINE r == [proc EXCEPT !.hooks = hooks, !.tramp = tramp, !.branch = branch,
                               !.unacked = unacked, !.lost = lost]
  <2>6. proc' = r
    BY <1>3, <2>1, <2>2, <2>3, <2>4, <2>5, Zenon DEF InlineUnhook
  <2>7. /\ r.at = proc.at /\ r.back = proc.back /\ r.i = proc.i /\ r.n = proc.n
        /\ r.failed = proc.failed /\ r.loaded = proc.loaded /\ r.calm = proc.calm
    BY <1>1 DEF Process
  <2> HIDE DEF r
  <2>8. Unreported' = Unreported
    BY <2>6, <2>7 DEF Unreported
  <2> QED  BY <1>1, <2>6, <2>7, <2>8, ExactCalled DEF LoopKept
<1> QED  BY <1>2, <1>3

\* PatchText, PatchUnacked.
LEMMA ExactPatched ==
  ASSUME IInv, ExactInv, PatchText \/ PatchUnacked
  PROVE  ExactInv'
<1>1. proc \in Process /\ HookInv /\ proc.at = "patch"
  BY Zenon DEF IInv, TypeOK, PatchText, PatchUnacked, Step
<1>2. proc.back \in {"callback", "running"}
  BY <1>1 DEF HookInv
<1>3. ASSUME NEW ok \in BOOLEAN, NEW st, st = Patched(ok)
      PROVE  /\ st \in Process /\ st.at = proc.back /\ st.i = proc.i /\ st.n = proc.n
             /\ st.failed = proc.failed /\ st.loaded = proc.loaded /\ st.calm = proc.calm
  BY <1>1, <1>3, PatchedFields
<1>4. CASE PatchText
  <2>1. PICK ok \in BOOLEAN : Step("patch", Patched(ok))
    BY <1>4, Zenon DEF PatchText
  <2>2. PICK st : st = Patched(ok)
    OBVIOUS
  <2>3. proc' = st /\ list' = list
    BY <2>1, <2>2, Zenon DEF Step, served
  <2>4. Unreported' = Unreported
    BY <1>1, <1>2, <1>3, <2>2, <2>3 DEF Unreported
  <2> QED  BY <1>1, <1>2, <1>3, <2>2, <2>3, <2>4, ExactCalled DEF LoopKept
<1>5. CASE PatchUnacked
  <2>1. PICK st : st = Patched(FALSE)
    OBVIOUS
  <2>2. PICK branch : branch = st.branch \cup {proc.fun}
    OBVIOUS
  <2>3. PICK unacked : unacked = st.unacked \cup {proc.fun}
    OBVIOUS
  <2> DEFINE r == [st EXCEPT !.branch = branch, !.calm = FALSE, !.unacked = unacked]
  <2>4. proc' = r
    BY <1>5, <2>1, <2>2, <2>3, Zenon DEF PatchUnacked
  <2>5. /\ r.at = st.at /\ r.i = st.i /\ r.n = st.n
        /\ r.failed = st.failed /\ r.loaded = st.loaded /\ r.calm = FALSE
    BY <1>3, <2>1 DEF Process
  <2> HIDE DEF r
  <2>6. /\ proc'.at = proc.back /\ LoopKept /\ proc'.calm = FALSE
    BY <1>3, <2>1, <2>4, <2>5 DEF LoopKept
  <2>7. Unreported' = Unreported
    BY <1>1, <1>2, <2>6 DEF Unreported
  <2> QED  BY <1>1, <1>2, <2>6, <2>7, ExactCalled
<1> QED  BY <1>4, <1>5

\* ConnectCompanion
LEMMA ExactConnected ==
  ASSUME IInv, ExactInv, NEW k \in DOMAIN proc.loaded, ConnectCompanion(k)
  PROVE  ExactInv'
<1>1. proc \in Process /\ list' = list /\ proc.at \in {"callback", "running"}
  BY Zenon DEF IInv, TypeOK, ConnectCompanion, CanCall
<1>2. proc' = proc \/ \E got : proc' = [proc EXCEPT !.got = got]
  <2>1. PICK i : i = proc.loaded[k].idx
    OBVIOUS
  <2>2. PICK slots \in Companion(i) :
           proc' = IF slots[i].alive /\ slots[i].entry
                   THEN [proc EXCEPT !.got = <<proc.loaded[k].lib, slots[i].lib, proc.calm /\ ~drained>>]
                   ELSE proc
    BY <2>1, Zenon DEF ConnectCompanion
  <2> QED  BY <2>2, Zenon
<1>3. LoopKept /\ proc'.at = proc.at /\ proc'.back = proc.back /\ proc'.calm = proc.calm
  <2>1. CASE proc' = proc
    BY <2>1 DEF LoopKept
  <2>2. ASSUME NEW got, proc' = [proc EXCEPT !.got = got]
        PROVE  LoopKept /\ proc'.at = proc.at /\ proc'.back = proc.back /\ proc'.calm = proc.calm
    <3> DEFINE r == [proc EXCEPT !.got = got]
    <3>1. /\ r.at = proc.at /\ r.back = proc.back /\ r.i = proc.i /\ r.n = proc.n
          /\ r.failed = proc.failed /\ r.loaded = proc.loaded /\ r.calm = proc.calm
      BY <1>1 DEF Process
    <3> QED  BY <2>2, <3>1 DEF LoopKept
  <2> QED  BY <1>2, <2>1, <2>2
<1>4. Unreported' = Unreported
  BY <1>3 DEF Unreported
<1> QED  BY <1>1, <1>3, <1>4, ExactCalled

\* What the daemon does: the list stays, or the process is not calm any more.
LEMMA ExactDaemon ==
  ASSUME IInv, ExactInv, Edit \/ Bind \/ Start \/ Reload \/ DaemonDies \/ CompanionDies
  PROVE  ExactInv'
<1>1. proc \in Process
  BY DEF IInv, TypeOK
<1>2. (proc' = proc /\ list' = list) \/ proc' = [proc EXCEPT !.calm = FALSE]
  BY Zenon DEF Edit, Bind, Start, Reload, Rescan, DaemonDies, CompanionDies
<1>3. proc'.calm => proc.calm /\ list' = list
  BY <1>1, <1>2 DEF Process
<1> QED  BY <1>2, <1>3, ExactServed DEF Disturbed

\* The initial states are exact.
LEMMA ExactInit == Init => ExactInv
<1> SUFFICES ASSUME Init  PROVE ExactInv
  OBVIOUS
<1>1. proc.i = 0 /\ proc.failed = {} /\ proc.at = "none"
  BY DEF Init, NoProc
<1>2. ~Looping
  BY <1>1 DEF Looping
<1> QED  BY <1>1, <1>2 DEF ExactInv

\* Every step keeps the loop exact.
LEMMA ExactStep == IInv /\ ExactInv /\ [Next]_vars => ExactInv'
<1> SUFFICES ASSUME IInv, ExactInv, [Next]_vars  PROVE ExactInv'
  OBVIOUS
<1>1. CASE Edit \/ Bind \/ Start \/ Reload \/ DaemonDies \/ CompanionDies
  BY <1>1, ExactDaemon
<1>2. CASE (\E pid \in Pids : Exec(pid)) \/ Exit
  <2>1. proc' = NoProc \/ \E pid \in Pids : proc' = [NoProc EXCEPT !.at = "count", !.pid = pid]
    BY <1>2, Zenon DEF Exec, Exit
  <2> QED  BY <2>1, ExactFresh
<1>3. CASE Load
  <2>1. CASE GetFd
    <3>1. \/ Step("fd", [proc EXCEPT !.at = "open", !.lib = list[proc.i + 1].id])
          \/ Step("fd", Passed(proc))
      BY <2>1, Zenon DEF GetFd
    <3> QED  BY <3>1, ExactFd, ExactPassed
  <2>2. CASE OpenLibrary
    <3>1. \/ Step("open", [proc EXCEPT !.at = "callback",
                             !.loaded = Append(@, [idx |-> proc.i + 1, lib |-> proc.lib])])
          \/ Step("open", Passed(proc))
      BY <2>2, Zenon DEF OpenLibrary
    <3> QED  BY <3>1, ExactOpen, ExactPassed
  <2>3. CASE CallbackEnds \/ Report \/ RestorePolicy  BY <2>3, ExactReported
  <2> QED  BY <1>3, <2>1, <2>2, <2>3, ExactCount, ExactInfo DEF Load
<1>4. CASE Api
  <2>1. CASE \E f \in Funs : InlineHook(f) \/ InlineUnhook(f)
    BY <2>1, ExactHooked
  <2>2. CASE \E k \in DOMAIN proc.loaded : ConnectCompanion(k)
    BY <2>2, ExactConnected
  <2> QED  BY <1>4, <2>1, <2>2 DEF Api
<1>5. CASE PatchText \/ PatchUnacked  BY <1>5, ExactPatched
<1>6. CASE UNCHANGED vars
  <2>1. proc' = proc /\ list' = list  BY <1>6 DEF vars
  <2>2. Unreported' = Unreported /\ Looping' = Looping  BY <2>1 DEF Unreported, Looping
  <2> QED  BY <2>1, <2>2, ExactKept DEF LoopKept
<1> QED  BY <1>1, <1>2, <1>3, <1>4, <1>5, <1>6 DEF Next

\* load_matching_modules: while the daemon serves one list, a process loads all
\* the lines that are for it and can be loaded, in their order, none twice, and
\* each handle has the index of its own line; whatever the lists, and whatever
\* modules hook and connect to from their callbacks.
THEOREM CalmNativeLoadExactHolds == Spec => []CalmNativeLoadExact
<1>1. Init => ExactInv  BY ExactInit
<1>2. IInv /\ ExactInv /\ [Next]_vars => ExactInv'  BY ExactStep
<1>3. IInv /\ ExactInv => CalmNativeLoadExact
  <2> SUFFICES ASSUME IInv, ExactInv, proc.calm, proc.at = "restore"
               PROVE  /\ {proc.loaded[k].idx : k \in Handles} =
                            {j \in DOMAIN list : list[j].here /\ j \notin proc.failed}
                      /\ Increasing
                      /\ \A k \in Handles : proc.loaded[k].lib = list[proc.loaded[k].idx].id
    BY DEF CalmNativeLoadExact, Handles, Increasing
  <2>1. proc.n = Len(list) /\ proc.i = proc.n /\ Exactly /\ Increasing
    BY DEF ExactInv
  <2>2. Met = Len(list)
    BY <2>1 DEF Met, Unreported
  <2>3. DOMAIN list = 1..Met
    BY <2>2 DEF IInv, TypeOK
  <2>4. \A k \in Handles : proc.loaded[k].lib = list[proc.loaded[k].idx].id
    BY DEF IInv, LoadInv, Handles
  <2> QED  BY <2>1, <2>3, <2>4 DEF Exactly
<1> QED  BY <1>1, <1>2, <1>3, Invariant, PTL DEF Spec

=============================================================================
