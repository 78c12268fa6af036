---------------------------- MODULE ZygiskdProofs ----------------------------
(***************************************************************************)
(* Proofs about Zygiskd for any modules, configurations, processes and     *)
(* deaths of the daemon.                                                   *)
(***************************************************************************)
EXTENDS Zygiskd, SequenceTheorems, WellFoundedInduction, TLAPS

-----------------------------------------------------------------------------
(* The invariant.                                                           *)

\* Until the daemon reloads, a slot has the companion of its own module.
CompanionInv ==
    /\ dpc # "up" => comps = <<>>
    /\ ~drained => \A i \in DOMAIN comps :
          i <= Len(mods) /\ (comps[i] = EmptySlot \/ comps[i].lib = mods[i])
    /\ CalmCompanionMatches

\* Between a scan of the files and the next, what the daemon has read is what
\* is there, unless somebody still has to say, or said in vain, that it is not.
FreshInv ==
    /\ dpc # "up" => queue = 0
    /\ queue = 0 /\ ~unsaid /\ ~missed =>
          /\ dpc \in {"scanned", "parsed", "up"} => mods = Scan(disk.enabled)
          /\ dpc \in {"parsed", "up"} => conf = disk.conf

Before == {"idle", "config", "granted", "count"}

\* The module at index j is one that a process in state st may load.
Allowed(st, j) == st.filter => mods[j + 1] \in st.granted

\* A process that has not counted has loaded nothing.
Unloaded(st) == st.loaded = <<>> /\ st.failed = {} /\ st.i = 0

\* What a process that the daemon serves one list knows of it.
Informed(st, p) ==
    /\ st.pc \notin {"idle", "config"} => st.filter = conf.filter
    /\ st.pc \notin {"idle", "config", "granted"} /\ st.filter => st.granted = Picked(UidOf[p])
    /\ st.pc \in {"name", "fd"} => st.count = Len(mods) /\ st.i < Len(mods)
    /\ st.pc = "fd" => st.name = mods[st.i + 1] /\ Allowed(st, st.i)
    /\ st.pc = "running" => st.i = Len(mods)

\* It has loaded the modules it may load, at all indices it has passed, in order.
Exact(st) ==
    /\ \A k \in DOMAIN st.loaded :
          st.loaded[k].name = st.loaded[k].lib /\ st.loaded[k].lib = mods[st.loaded[k].id + 1]
    /\ \A j, k \in DOMAIN st.loaded : j < k => st.loaded[j].id < st.loaded[k].id
    /\ {st.loaded[k].id : k \in DOMAIN st.loaded} =
          {j \in 0..st.i - 1 : Allowed(st, j) /\ j \notin st.failed}
    /\ st.failed \subseteq {j \in 0..st.i - 1 : Allowed(st, j)}

Sound(p) == /\ procs[p].pc \in Before => Unloaded(procs[p])
            /\ calm[p] => dpc = "up" /\ Informed(procs[p], p) /\ Exact(procs[p])

LoadInv == \A p \in Procs : Sound(p)

IInv == TypeOK /\ IsInjective(mods) /\ CompanionInv /\ FreshInv /\ LoadInv

-----------------------------------------------------------------------------
(* The scan of the directories.                                             *)

\* Every set of numbers that has any has a least one.
LEMMA LeastNumber ==
  ASSUME NEW T \in SUBSET Nat, T # {}
  PROVE  \E x \in T : \A y \in T : x <= y
<1>1. PICK R : R = OpToRel(<, Nat)
  OBVIOUS
<1>2. IsWellFoundedOn(R, Nat)
  BY <1>1, NatLessThanWellFounded
<1>3. PICK x \in T : \A y \in T : <<y, x>> \notin R
  BY <1>2, WFMin
<1>4. R = {pair \in Nat \X Nat : pair[1] < pair[2]}
  BY <1>1 DEF OpToRel
<1>5. ASSUME NEW y \in T, y < x  PROVE FALSE
  <2>1. <<y, x>> \in Nat \X Nat /\ <<y, x>>[1] < <<y, x>>[2]
    BY <1>5
  <2> QED  BY <1>3, <1>4, <2>1
<1> QED  BY <1>5

\* Induction, over the set of the numbers that something holds of.
LEMMA NumbersByInduction ==
  ASSUME NEW P \in SUBSET Nat, 0 \in P, \A n \in P : n + 1 \in P
  PROVE  P = Nat
<1> SUFFICES ASSUME Nat \ P # {}  PROVE FALSE
  OBVIOUS
<1>1. PICK x \in Nat \ P : \A y \in Nat \ P : x <= y
  BY LeastNumber
<1>2. x # 0
  BY <1>1
<1>3. x - 1 \in P
  BY <1>1, <1>2
<1>4. (x - 1) + 1 = x
  BY <1>1
<1> QED  BY <1>1, <1>3, <1>4

\* The function that scan_modules fills, over the first n directories.
IsFound(f, enabled, n) ==
    f = [i \in 0..n |->
            IF i = 0 THEN <<>>
            ELSE IF Order[i] \in enabled THEN Append(f[i - 1], Order[i]) ELSE f[i - 1]]

\* There is one.
LEMMA FoundExists ==
  ASSUME NEW enabled, NEW N \in Nat
  PROVE  \E f : IsFound(f, enabled, N)
<1> DEFINE P == {n \in Nat : \E f : IsFound(f, enabled, n)}
<1>1. 0 \in P
  <2>1. PICK f : f = [i \in 0..0 |-> <<>>]
    OBVIOUS
  <2>2. \A i \in 0..0 : i = 0
    OBVIOUS
  <2>3. IsFound(f, enabled, 0)
    BY <2>1, <2>2 DEF IsFound
  <2> QED  BY <2>3
<1>2. ASSUME NEW n \in P  PROVE n + 1 \in P
  <2>1. PICK f : IsFound(f, enabled, n)
    OBVIOUS
  <2>2. PICK last : last = IF Order[n + 1] \in enabled THEN Append(f[n], Order[n + 1]) ELSE f[n]
    OBVIOUS
  <2>3. PICK g : g = [i \in 0..n + 1 |-> IF i = n + 1 THEN last ELSE f[i]]
    OBVIOUS
  <2>4. \A i \in 0..n : g[i] = f[i]
    BY <2>3
  <2>5. g[n + 1] = last
    BY <2>3
  <2>6. DOMAIN f = 0..n
    BY <2>1 DEF IsFound
  <2>7. \A i \in 0..n + 1 :
           g[i] = IF i = 0 THEN <<>>
                  ELSE IF Order[i] \in enabled THEN Append(g[i - 1], Order[i]) ELSE g[i - 1]
    <3> SUFFICES ASSUME NEW i \in 0..n + 1
                 PROVE  g[i] = IF i = 0 THEN <<>>
                               ELSE IF Order[i] \in enabled THEN Append(g[i - 1], Order[i])
                                    ELSE g[i - 1]
      OBVIOUS
    <3>1. CASE i = n + 1
      <4>1. i - 1 = n /\ n \in 0..n /\ i # 0  BY <3>1
      <4> QED  BY <2>2, <2>4, <2>5, <3>1, <4>1
    <3>2. CASE i \in 0..n
      <4>1. f[i] = IF i = 0 THEN <<>>
                   ELSE IF Order[i] \in enabled THEN Append(f[i - 1], Order[i]) ELSE f[i - 1]
        BY <2>1, <3>2 DEF IsFound
      <4>2. CASE i = 0
        BY <2>4, <3>2, <4>1, <4>2
      <4>3. CASE i # 0
        <5>1. i - 1 \in 0..n  BY <3>2, <4>3
        <5>2. g[i - 1] = f[i - 1] /\ g[i] = f[i]  BY <2>4, <3>2, <5>1
        <5> QED  BY <4>1, <4>3, <5>2
      <4> QED  BY <4>2, <4>3
    <3> QED  BY <3>1, <3>2
  <2>8. IsFound(g, enabled, n + 1)
    BY <2>3, <2>7 DEF IsFound
  <2> QED  BY <2>8
<1> HIDE DEF P
<1>3. P = Nat
  <2>1. P \in SUBSET Nat  BY DEF P
  <2> QED  BY <1>1, <1>2, <2>1, NumbersByInduction
<1> QED  BY <1>3 DEF P

\* Append, position by position.
LEMMA Appended ==
  ASSUME NEW S, NEW s \in Seq(S), NEW x \in S
  PROVE  LET r == Append(s, x)
         IN  /\ r \in Seq(S) /\ DOMAIN r = 1..Len(s) + 1 /\ Len(s) \in Nat
             /\ DOMAIN s = 1..Len(s)
             /\ \A i \in 1..Len(s) : r[i] = s[i]
             /\ r[Len(s) + 1] = x
BY AppendProperties

\* scan_modules lists the directories that are enabled, each once.
THEOREM ScanExact ==
  \A enabled : /\ Scan(enabled) \in Seq(Mods) /\ IsInjective(Scan(enabled))
               /\ ToSet(Scan(enabled)) = Mods \cap enabled
<1> SUFFICES ASSUME NEW enabled
             PROVE  /\ Scan(enabled) \in Seq(Mods) /\ IsInjective(Scan(enabled))
                    /\ ToSet(Scan(enabled)) = Mods \cap enabled
  OBVIOUS
<1>1. PICK N \in Nat : N = Len(Order)
  BY OrderAssumption
<1>2. /\ DOMAIN Order = 1..N /\ \A i \in 1..N : Order[i] \in Mods
      /\ \A i, j \in 1..N : Order[i] = Order[j] => i = j
  BY <1>1, OrderAssumption DEF IsInjective
<1> DEFINE F == CHOOSE f : IsFound(f, enabled, N)
<1>3. IsFound(F, enabled, N)
  BY FoundExists
<1>4. Scan(enabled) = F[N]
  BY <1>1 DEF Scan, IsFound
<1> HIDE DEF F
<1>5. \A i \in 0..N : F[i] = IF i = 0 THEN <<>>
                             ELSE IF Order[i] \in enabled THEN Append(F[i - 1], Order[i])
                                  ELSE F[i - 1]
  BY <1>3 DEF IsFound
<1> DEFINE Right(n) == /\ F[n] \in Seq(Mods)
                       /\ \A i, j \in DOMAIN F[n] : F[n][i] = F[n][j] => i = j
                       /\ \A i \in DOMAIN F[n] : \E k \in 1..n : F[n][i] = Order[k] /\ Order[k] \in enabled
                       /\ \A k \in 1..n : Order[k] \in enabled => \E i \in DOMAIN F[n] : F[n][i] = Order[k]
           P == {n \in Nat : n <= N => Right(n)}
<1>6. 0 \in P
  <2>1. F[0] = <<>>  BY <1>5
  <2>2. DOMAIN F[0] = {} /\ 1..0 = {} /\ F[0] \in Seq(Mods)  BY <2>1
  <2> QED  BY <2>2
<1>7. ASSUME NEW n \in P  PROVE n + 1 \in P
  <2> SUFFICES ASSUME n + 1 <= N  PROVE Right(n + 1)
    OBVIOUS
  <2>1. n \in Nat /\ n <= N /\ n + 1 \in 1..N /\ n + 1 # 0 /\ (n + 1) - 1 = n /\ n + 1 \in 0..N
    BY <1>1
  <2>2. Right(n)
    BY <2>1
  <2>3. F[n + 1] = IF Order[n + 1] \in enabled THEN Append(F[n], Order[n + 1]) ELSE F[n]
    BY <1>5, <2>1
  <2>4. 1..n + 1 = 1..n \cup {n + 1}
    BY <2>1
  <2>5. CASE Order[n + 1] \notin enabled
    <3>1. F[n + 1] = F[n]  BY <2>3, <2>5
    <3> QED  BY <2>2, <2>4, <2>5, <3>1
  <2>6. CASE Order[n + 1] \in enabled
    <3>1. PICK s : s = F[n]
      OBVIOUS
    <3>2. PICK x \in Mods : x = Order[n + 1]
      BY <1>2, <2>1
    <3>3. PICK r : r = Append(s, x)
      OBVIOUS
    <3>4. F[n + 1] = r
      BY <2>3, <2>6, <3>1, <3>2, <3>3
    <3>5. s \in Seq(Mods)
      BY <2>2, <3>1
    <3>6. PICK m \in Nat : m = Len(s)
      BY <3>5
    <3>7. /\ r \in Seq(Mods) /\ DOMAIN r = 1..m + 1 /\ DOMAIN s = 1..m
          /\ \A i \in 1..m : r[i] = s[i]
          /\ r[m + 1] = x
      BY <3>3, <3>5, <3>6, Appended
    <3>8. \A i \in 1..m : \E k \in 1..n : s[i] = Order[k] /\ Order[k] \in enabled
      BY <2>2, <3>1, <3>7
    <3>9. \A i \in 1..m : s[i] # x
      <4> SUFFICES ASSUME NEW i \in 1..m  PROVE s[i] # x
        OBVIOUS
      <4>1. PICK k \in 1..n : s[i] = Order[k]
        BY <3>8
      <4>2. k \in 1..N /\ k # n + 1
        BY <2>1
      <4> QED  BY <1>2, <2>1, <3>2, <4>1, <4>2
    <3>10. 1..m + 1 = 1..m \cup {m + 1}
      BY <3>6
    <3>11. \A i, j \in 1..m + 1 : r[i] = r[j] => i = j
      <4>1. \A i, j \in 1..m : s[i] = s[j] => i = j  BY <2>2, <3>1, <3>7
      <4> QED  BY <3>7, <3>9, <3>10, <4>1
    <3>12. \A i \in 1..m + 1 : \E k \in 1..n + 1 : r[i] = Order[k] /\ Order[k] \in enabled
      <4>1. \A i \in 1..m : \E k \in 1..n + 1 : r[i] = Order[k] /\ Order[k] \in enabled
        BY <2>4, <3>7, <3>8
      <4>2. \E k \in 1..n + 1 : r[m + 1] = Order[k] /\ Order[k] \in enabled
        BY <2>4, <2>6, <3>2, <3>7
      <4> QED  BY <3>10, <4>1, <4>2
    <3>13. \A k \in 1..n + 1 : Order[k] \in enabled => \E i \in 1..m + 1 : r[i] = Order[k]
      <4>1. \A k \in 1..n : Order[k] \in enabled => \E i \in 1..m : s[i] = Order[k]
        BY <2>2, <3>1, <3>7
      <4> QED  BY <2>4, <3>2, <3>7, <3>10, <4>1
    <3> QED  BY <3>4, <3>7, <3>11, <3>12, <3>13
  <2> QED  BY <2>5, <2>6
<1> HIDE DEF P
<1>8. N \in P
  <2>1. P \in SUBSET Nat  BY DEF P
  <2>2. P = Nat  BY <1>6, <1>7, <2>1, NumbersByInduction
  <2> QED  BY <2>2
<1>9. Right(N)
  BY <1>8 DEF P
<1>10. Mods = {Order[k] : k \in 1..N}
  BY <1>2 DEF Mods, ToSet
<1> HIDE DEF Right
<1>11. /\ F[N] \in Seq(Mods) /\ IsInjective(F[N])
  BY <1>9 DEF Right, IsInjective
<1>12. ToSet(F[N]) = Mods \cap enabled
  <2>1. ToSet(F[N]) = {F[N][i] : i \in DOMAIN F[N]}
    BY DEF ToSet
  <2>2. \A i \in DOMAIN F[N] : F[N][i] \in Mods \cap enabled
    BY <1>9, <1>10 DEF Right
  <2>3. \A m \in Mods \cap enabled : \E i \in DOMAIN F[N] : F[N][i] = m
    BY <1>9, <1>10 DEF Right
  <2> QED  BY <2>1, <2>2, <2>3
<1> QED  BY <1>4, <1>11, <1>12

-----------------------------------------------------------------------------
(* What a step leaves alone.                                                *)

\* A process that is left alone, with the list and the configuration.
LEMMA SoundKept ==
  ASSUME NEW p \in Procs, Sound(p), procs'[p] = procs[p],
         calm'[p] => calm[p] /\ UNCHANGED <<mods, conf, dpc>>
  PROVE  Sound(p)'
<1>1. CASE calm'[p]
  <2>1. mods' = mods /\ conf' = conf /\ dpc' = dpc /\ calm[p]
    BY <1>1
  <2>2. Picked(UidOf[p])' = Picked(UidOf[p])
    BY <2>1 DEF Picked, GloballyGranted, GrantedForUid, ParseScope
  <2> QED  BY <2>1, <2>2 DEF Sound, Unloaded, Informed, Exact, Allowed
<1>2. CASE ~calm'[p]
  BY <1>2 DEF Sound, Unloaded
<1> QED  BY <1>1, <1>2

\* A step that leaves the companions alone.
LEMMA CompanionKept ==
  ASSUME CompanionInv, UNCHANGED <<mods, comps, drained, dpc, served>>
  PROVE  CompanionInv'
BY DEF CompanionInv, CalmCompanionMatches

\* A step that leaves the files and what the daemon knows of them alone.
LEMMA FreshKept ==
  ASSUME FreshInv, UNCHANGED <<disk, conf, mods, queue, unsaid, missed, dpc>>
  PROVE  FreshInv'
BY DEF FreshInv

\* A step of one process alone.
LEMMA ProcessStep ==
  ASSUME IInv, NEW p \in Procs, NEW r \in Process,
         procs' = [procs EXCEPT ![p] = r], UNCHANGED <<files, daemon, served>>,
         calm' \in [Procs -> BOOLEAN], \A q \in Procs : q # p => calm'[q] = calm[q],
         r.pc \in Before => Unloaded(r),
         calm'[p] => dpc = "up" /\ Informed(r, p) /\ Exact(r)
  PROVE  IInv'
<1>1. /\ UNCHANGED <<disk, edits, unsaid, dpc, deaths, queue, mods, conf, comps, drained, missed, served>>
  BY DEF files, daemon
<1>2. TypeOK /\ IsInjective(mods) /\ CompanionInv /\ FreshInv /\ LoadInv
  BY DEF IInv
<1>3. procs' \in [Procs -> Process] /\ procs'[p] = r /\ \A q \in Procs : q # p => procs'[q] = procs[q]
  BY <1>2 DEF TypeOK
<1>4. TypeOK'
  BY <1>1, <1>2, <1>3 DEF TypeOK
<1>5. CompanionInv' /\ FreshInv' /\ IsInjective(mods)'
  BY <1>1, <1>2, CompanionKept, FreshKept
<1>6. ASSUME NEW q \in Procs, q # p  PROVE Sound(q)'
  <2>1. calm'[q] => calm[q] /\ UNCHANGED <<mods, conf, dpc>>  BY <1>1, <1>6
  <2> QED  BY <1>2, <1>3, <1>6, <2>1, SoundKept DEF LoadInv
<1>7. Sound(p)'
  <2>1. Picked(UidOf[p])' = Picked(UidOf[p])
    BY <1>1 DEF Picked, GloballyGranted, GrantedForUid, ParseScope
  <2> QED  BY <1>1, <1>3, <2>1 DEF Sound, Unloaded, Informed, Exact, Allowed
<1> QED  BY <1>4, <1>5, <1>6, <1>7 DEF IInv, LoadInv

-----------------------------------------------------------------------------
(* The files and the daemon.                                                *)

\* A step that leaves the processes alone, and the daemon's list and
\* configuration unless no process is calm after it.
LEMMA OutsideStep ==
  ASSUME LoadInv, procs' = procs, TypeOK,
         \/ calm' = calm /\ UNCHANGED <<mods, conf, dpc>>
         \/ \A p \in Procs : ~calm'[p]
  PROVE  LoadInv'
<1> SUFFICES ASSUME NEW p \in Procs  PROVE Sound(p)'
  BY DEF LoadInv
<1> QED  BY SoundKept DEF LoadInv

\* EditFiles and SignalReload: what was read is stale only if somebody still has
\* to say so, or nobody heard.
LEMMA FilesStep ==
  ASSUME IInv, Files
  PROVE  IInv'
<1>1. TypeOK /\ IsInjective(mods) /\ CompanionInv /\ FreshInv /\ LoadInv
  BY DEF IInv
<1>2. CASE \E e \in SUBSET Mods, c \in Configs : EditFiles(e, c)
  <2>1. PICK e \in SUBSET Mods, c \in Configs : EditFiles(e, c)
    BY <1>2
  <2>2. /\ edits < MaxEdits /\ edits' = edits + 1 /\ unsaid' = TRUE
        /\ disk' = [enabled |-> e, conf |-> c]
        /\ UNCHANGED <<dpc, deaths, queue, mods, conf, comps, drained, missed, procs, calm, served>>
    BY <2>1, Zenon DEF EditFiles, daemon, clients
  <2>3. edits' \in 0..MaxEdits
    BY <1>1, <2>2, BoundsAssumption DEF TypeOK
  <2>4. TypeOK'
    BY <1>1, <2>2, <2>3 DEF TypeOK
  <2>5. CompanionInv' /\ LoadInv'
    BY <1>1, <2>2, CompanionKept, OutsideStep
  <2>6. FreshInv'
    BY <1>1, <2>2 DEF FreshInv
  <2> QED  BY <1>1, <2>2, <2>4, <2>5, <2>6 DEF IInv
<1>3. CASE SignalReload
  <2>1. /\ unsaid' = FALSE
        /\ UNCHANGED <<disk, edits, dpc, deaths, mods, conf, comps, drained, procs, calm, served>>
        /\ \/ dpc = "up" /\ queue < MaxQueue /\ queue' = queue + 1 /\ missed' = missed
           \/ queue' = queue /\ missed' = (missed \/ dpc \in {"scanned", "parsed", "up"})
    BY <1>3, Zenon DEF SignalReload, clients
  <2>2. queue' \in 0..MaxQueue /\ (queue' = queue \/ (dpc = "up" /\ queue' # 0))
    BY <1>1, <2>1, BoundsAssumption DEF TypeOK
  <2>3. TypeOK'
    BY <1>1, <2>1, <2>2 DEF TypeOK
  <2>4. CompanionInv' /\ LoadInv'
    BY <1>1, <2>1, CompanionKept, OutsideStep
  <2>5. FreshInv'
    <3>1. missed \in BOOLEAN
      BY <1>1 DEF TypeOK
    <3>2. CASE queue' = queue + 1 /\ dpc = "up"
      <4>1. queue' # 0  BY <1>1, <3>2 DEF TypeOK
      <4> QED  BY <2>1, <3>2, <4>1 DEF FreshInv
    <3>3. CASE queue' = queue /\ missed' = (missed \/ dpc \in {"scanned", "parsed", "up"})
      <4>1. ~missed' => dpc \notin {"scanned", "parsed", "up"}  BY <3>1, <3>3
      <4> QED  BY <1>1, <2>1, <3>3, <4>1 DEF FreshInv
    <3> QED  BY <2>1, <3>2, <3>3
  <2> QED  BY <1>1, <2>1, <2>3, <2>4, <2>5 DEF IInv
<1> QED  BY <1>2, <1>3 DEF Files

\* Bind and the daemon's start: no process is calm, for nobody serves yet.
LEMMA StartStep ==
  ASSUME IInv, Bind \/ Startup
  PROVE  IInv'
<1>1. TypeOK /\ IsInjective(mods) /\ CompanionInv /\ FreshInv /\ LoadInv
  BY DEF IInv
<1>2. /\ UNCHANGED <<disk, edits, unsaid, deaths, queue, comps, drained, missed, procs, calm, served>>
      /\ \/ dpc = "down" /\ dpc' = "bound" /\ mods' = mods /\ conf' = conf
         \/ dpc = "bound" /\ dpc' = "scanned" /\ mods' = Scan(disk.enabled) /\ conf' = conf
         \/ dpc = "scanned" /\ dpc' = "parsed" /\ mods' = mods /\ conf' = disk.conf
         \/ dpc = "parsed" /\ dpc' = "up" /\ mods' = mods /\ conf' = conf
  BY Zenon DEF Bind, Startup, Rescan, ReadConfig, Listen, files, clients
<1>3. dpc # "up"
  BY <1>2
<1>4. mods' \in Seq(Mods) /\ IsInjective(mods')
  BY <1>1, <1>2, ScanExact DEF TypeOK
<1>5. TypeOK'
  BY <1>1, <1>2, <1>4 DEF TypeOK
<1>6. \A p \in Procs : ~calm[p]
  BY <1>1, <1>3 DEF LoadInv, Sound
<1>7. LoadInv'
  BY <1>1, <1>2, <1>6, OutsideStep
<1>8. CompanionInv'
  <2>1. comps' = <<>> /\ DOMAIN comps' = {}
    <3>1. comps' = <<>>  BY <1>1, <1>2, <1>3 DEF CompanionInv
    <3> QED  BY <3>1
  <2> QED  BY <1>1, <1>2, <2>1 DEF CompanionInv, CalmCompanionMatches
<1>9. FreshInv'
  BY <1>1, <1>2 DEF FreshInv
<1> QED  BY <1>4, <1>5, <1>7, <1>8, <1>9 DEF IInv

\* DrainReload and DaemonDies: no process is calm any more.
LEMMA DisturbingStep ==
  ASSUME IInv, DrainReload \/ DaemonDies
  PROVE  IInv'
<1>1. TypeOK /\ IsInjective(mods) /\ CompanionInv /\ FreshInv /\ LoadInv
  BY DEF IInv
<1>2. /\ UNCHANGED <<disk, edits, unsaid, procs, served>> /\ missed' = FALSE
      /\ calm' = [p \in Procs |-> FALSE]
      /\ \/ /\ dpc = "up" /\ dpc' = "up" /\ queue > 0 /\ queue' = queue - 1
            /\ mods' = Scan(disk.enabled) /\ conf' = disk.conf /\ drained' = TRUE
            /\ comps' = comps /\ deaths' = deaths
         \/ /\ dpc' = "down" /\ deaths < MaxDeaths /\ deaths' = deaths + 1 /\ queue' = 0
            /\ comps' = <<>> /\ mods' = <<>> /\ drained' = FALSE /\ conf' = conf
  BY Zenon DEF DrainReload, DaemonDies, files
<1>3. mods' \in Seq(Mods) /\ IsInjective(mods')
  <2>1. <<>> \in Seq(Mods) /\ IsInjective(<<>>)
    BY DEF IsInjective
  <2> QED  BY <1>2, <2>1, ScanExact
<1>4. queue' \in 0..MaxQueue /\ deaths' \in 0..MaxDeaths
  BY <1>1, <1>2, BoundsAssumption DEF TypeOK
<1>5. \A p \in Procs : ~calm'[p]
  BY <1>2
<1>6. TypeOK'
  <2>1. comps' \in Seq(Companion)  
    <3>1. <<>> \in Seq(Companion)  OBVIOUS
    <3>2. comps \in Seq(Companion)  BY <1>1 DEF TypeOK
    <3> QED  BY <1>2, <3>1, <3>2
  <2>2. /\ drained' \in BOOLEAN /\ conf' \in Configs /\ dpc' \in {"down", "up"}
        /\ calm' \in [Procs -> BOOLEAN]
    BY <1>1, <1>2 DEF TypeOK
  <2> QED  BY <1>1, <1>2, <1>3, <1>4, <2>1, <2>2 DEF TypeOK
<1>7. LoadInv'
  BY <1>1, <1>2, <1>5, OutsideStep
<1>8. CompanionInv'
  BY <1>1, <1>2 DEF CompanionInv, CalmCompanionMatches
<1>9. FreshInv'
  BY <1>1, <1>2 DEF FreshInv
<1> QED  BY <1>3, <1>6, <1>7, <1>8, <1>9 DEF IInv

\* CompanionDies: the slot stays its module's.
LEMMA CompanionDiesStep ==
  ASSUME IInv, CompanionDies
  PROVE  IInv'
<1>1. TypeOK /\ IsInjective(mods) /\ CompanionInv /\ FreshInv /\ LoadInv
  BY DEF IInv
<1>2. UNCHANGED <<disk, edits, unsaid, dpc, deaths, queue, mods, conf, drained, missed, procs, calm, served>>
  BY DEF CompanionDies, files, clients
<1>3. PICK c \in DOMAIN comps : comps[c].alive /\ comps' = [comps EXCEPT ![c].alive = FALSE]
  BY Zenon DEF CompanionDies
<1>4. PICK slot : slot = [comps[c] EXCEPT !.alive = FALSE]
  OBVIOUS
<1>5. comps \in Seq(Companion) /\ comps[c] \in Companion
  BY <1>1 DEF TypeOK
<1>6. slot \in Companion /\ slot.lib = comps[c].lib /\ comps[c] # EmptySlot
  <2>1. comps[c].alive  BY <1>3
  <2>2. comps[c] # EmptySlot  BY <2>1 DEF EmptySlot
  <2>3. slot \in Companion /\ slot.lib = comps[c].lib  BY <1>4, <1>5 DEF Companion
  <2> QED  BY <2>2, <2>3
<1>7. /\ comps' \in Seq(Companion) /\ DOMAIN comps' = DOMAIN comps
      /\ \A j \in DOMAIN comps : comps'[j] = IF j = c THEN slot ELSE comps[j]
  <2> DEFINE next == [comps EXCEPT ![c] = slot]
  <2>1. /\ next \in Seq(Companion) /\ DOMAIN next = DOMAIN comps
        /\ \A j \in DOMAIN comps : next[j] = IF j = c THEN slot ELSE comps[j]
    BY <1>5, <1>6
  <2>2. comps' = next
    BY <1>3, <1>4
  <2> QED  BY <2>1, <2>2
<1>8. TypeOK'
  BY <1>1, <1>2, <1>7 DEF TypeOK
<1>9. CompanionInv'
  <2>1. dpc = "up"
    <3>1. comps # <<>>  BY <1>3
    <3> QED  BY <1>1, <3>1 DEF CompanionInv
  <2>2. CalmCompanionMatches'
    BY <1>1, <1>2 DEF CompanionInv, CalmCompanionMatches
  <2>3. ASSUME ~drained, NEW j \in DOMAIN comps
        PROVE  j <= Len(mods) /\ (comps'[j] = EmptySlot \/ comps'[j].lib = mods[j])
    BY <1>1, <1>6, <1>7, <2>3 DEF CompanionInv
  <2> QED  BY <1>2, <1>7, <2>1, <2>2, <2>3 DEF CompanionInv
<1>10. FreshInv' /\ LoadInv'
  BY <1>1, <1>2, FreshKept, OutsideStep
<1> QED  BY <1>1, <1>2, <1>8, <1>9, <1>10 DEF IInv

-----------------------------------------------------------------------------
(* The steps of load_modules_impl.                                          *)

\* What a process that has not counted knows and has loaded is right.
LEMMA UnloadedExact ==
  ASSUME NEW st, Unloaded(st)
  PROVE  Exact(st)
<1>1. DOMAIN st.loaded = {} /\ st.failed = {} /\ 0..st.i - 1 = {}
  BY DEF Unloaded
<1> QED  BY <1>1 DEF Exact

\* Begin: calm, if the daemon serves.
LEMMA BeginStep ==
  ASSUME IInv, NEW p \in Procs, Begin(p)
  PROVE  IInv'
<1>1. procs \in [Procs -> Process] /\ calm \in [Procs -> BOOLEAN] /\ Sound(p)
  BY DEF IInv, TypeOK, LoadInv
<1>2. PICK st \in Process : st = procs[p]
  BY <1>1
<1>3. PICK r : r = [st EXCEPT !.pc = "config"]
  OBVIOUS
<1>4. /\ r \in Process /\ r.pc = "config" /\ r.loaded = st.loaded /\ r.failed = st.failed /\ r.i = st.i
  BY <1>3 DEF Process
<1>5. /\ procs[p].pc = "idle" /\ procs' = [procs EXCEPT ![p] = r]
      /\ calm' = [calm EXCEPT ![p] = (dpc = "up")] /\ UNCHANGED <<files, daemon, served>>
  BY <1>2, <1>3, Zenon DEF Begin, Goto, Answered
<1>6. /\ calm' \in [Procs -> BOOLEAN] /\ calm'[p] = (dpc = "up")
      /\ \A q \in Procs : q # p => calm'[q] = calm[q]
  BY <1>1, <1>5
<1>7. Unloaded(r)
  <2>1. Unloaded(st)  BY <1>1, <1>2, <1>5 DEF Sound, Before
  <2> QED  BY <1>4, <2>1 DEF Unloaded
<1>8. Informed(r, p) /\ Exact(r)
  BY <1>4, <1>7, UnloadedExact DEF Informed
<1> QED  BY <1>4, <1>5, <1>6, <1>7, <1>8, ProcessStep

\* A step that asks for the configuration or the grants, or counts.
LEMMA AskingStep ==
  ASSUME IInv, NEW p \in Procs, NEW r \in Process, procs' = [procs EXCEPT ![p] = r],
         UNCHANGED <<files, daemon, calm, served>>, procs[p].pc \in Before,
         r.loaded = procs[p].loaded, r.failed = procs[p].failed, r.i = procs[p].i,
         calm[p] => Informed(r, p)
  PROVE  IInv'
<1>1. calm \in [Procs -> BOOLEAN] /\ Sound(p) /\ calm' = calm
  BY DEF IInv, TypeOK, LoadInv
<1>2. Unloaded(r)
  BY <1>1 DEF Sound, Unloaded
<1>3. calm[p] => dpc = "up"
  BY <1>1 DEF Sound
<1> QED  BY <1>1, <1>2, <1>3, UnloadedExact, ProcessStep

\* A calm process is answered.
LEMMA CalmAnswered ==
  ASSUME IInv, NEW p \in Procs, calm[p]
  PROVE  Answered /\ Informed(procs[p], p) /\ Exact(procs[p])
BY DEF IInv, LoadInv, Sound, Answered

\* GetConfig
LEMMA GetConfigStep ==
  ASSUME IInv, NEW p \in Procs, GetConfig(p)
  PROVE  IInv'
<1>1. PICK st : st = procs[p]
  OBVIOUS
<1>2. st \in Process /\ conf.filter \in BOOLEAN
  BY <1>1, ConfigAssumption DEF IInv, TypeOK, Config
<1>3. PICK on \in BOOLEAN : on = IF Answered THEN conf.filter ELSE st.filter
  BY <1>2 DEF Process
<1>4. PICK pc \in {"granted", "count"} : pc = IF on THEN "granted" ELSE "count"
  OBVIOUS
<1>5. PICK r : r = [st EXCEPT !.filter = on, !.pc = pc]
  OBVIOUS
<1>6. /\ r \in Process /\ r.pc = pc /\ r.filter = on /\ r.loaded = st.loaded
      /\ r.failed = st.failed /\ r.i = st.i
  BY <1>2, <1>5 DEF Process
<1>7. /\ procs[p].pc = "config" /\ procs' = [procs EXCEPT ![p] = r]
      /\ UNCHANGED <<files, daemon, calm, served>>
  BY <1>1, <1>3, <1>4, <1>5, Zenon DEF GetConfig
<1>8. calm[p] => Informed(r, p)
  BY <1>3, <1>4, <1>6, CalmAnswered DEF Informed
<1> QED  BY <1>1, <1>6, <1>7, <1>8, AskingStep DEF Before

\* GetGranted: only a process whose filter is on asks.
LEMMA GetGrantedStep ==
  ASSUME IInv, NEW p \in Procs, GetGranted(p)
  PROVE  IInv'
<1>1. PICK st : st = procs[p]
  OBVIOUS
<1>2. st \in Process /\ mods \in Seq(Mods)
  BY <1>1 DEF IInv, TypeOK
<1>3. PICK granted \in SUBSET Mods : granted = IF Answered THEN Picked(UidOf[p]) ELSE {}
  <2>1. \A i \in DOMAIN mods : mods[i] \in Mods  BY <1>2
  <2>2. Picked(UidOf[p]) \subseteq Mods  BY <2>1 DEF Picked, ToSet
  <2> QED  BY <2>2
<1>4. PICK r : r = [st EXCEPT !.granted = granted, !.pc = "count"]
  OBVIOUS
<1>5. /\ r \in Process /\ r.pc = "count" /\ r.granted = granted /\ r.filter = st.filter
      /\ r.loaded = st.loaded /\ r.failed = st.failed /\ r.i = st.i
  BY <1>2, <1>4 DEF Process
<1>6. /\ procs[p].pc = "granted" /\ procs' = [procs EXCEPT ![p] = r]
      /\ UNCHANGED <<files, daemon, calm, served>>
  BY <1>1, <1>3, <1>4, Zenon DEF GetGranted
<1>7. calm[p] => Informed(r, p)
  BY <1>1, <1>3, <1>5, <1>6, CalmAnswered DEF Informed
<1> QED  BY <1>1, <1>5, <1>6, <1>7, AskingStep DEF Before

\* GetCount: an empty list, or no answer, ends the load.
LEMMA GetCountStep ==
  ASSUME IInv, NEW p \in Procs, GetCount(p)
  PROVE  IInv'
<1>1. PICK st : st = procs[p]
  OBVIOUS
<1>2. st \in Process /\ mods \in Seq(Mods)
  BY <1>1 DEF IInv, TypeOK
<1>3. /\ procs[p].pc = "count" /\ UNCHANGED <<files, daemon, calm, served>>
  BY Zenon DEF GetCount
<1>4. st.i = 0
  BY <1>1, <1>3 DEF IInv, LoadInv, Sound, Before, Unloaded
<1>5. CASE Answered /\ mods # <<>>
  <2>1. PICK n \in Nat : n = Len(mods)
    BY <1>2
  <2>2. PICK r : r = [st EXCEPT !.count = n, !.pc = "name"]
    OBVIOUS
  <2>3. /\ r \in Process /\ r.pc = "name" /\ r.granted = st.granted /\ r.filter = st.filter
        /\ r.loaded = st.loaded /\ r.failed = st.failed /\ r.i = st.i /\ r.count = n
    BY <1>2, <2>2 DEF Process
  <2>4. procs' = [procs EXCEPT ![p] = r]
    BY <1>1, <1>5, <2>1, <2>2, Zenon DEF GetCount
  <2>5. n > 0
    BY <1>2, <1>5, <2>1
  <2>6. calm[p] => Informed(r, p)
    BY <1>1, <1>3, <1>4, <2>1, <2>3, <2>5, CalmAnswered DEF Informed
  <2> QED  BY <1>1, <1>3, <2>3, <2>4, <2>6, AskingStep DEF Before
<1>6. CASE ~(Answered /\ mods # <<>>)
  <2>1. PICK r : r = [st EXCEPT !.pc = "running"]
    OBVIOUS
  <2>2. /\ r \in Process /\ r.pc = "running" /\ r.granted = st.granted /\ r.filter = st.filter
        /\ r.loaded = st.loaded /\ r.failed = st.failed /\ r.i = st.i
    BY <1>2, <2>1 DEF Process
  <2>3. procs' = [procs EXCEPT ![p] = r]
    BY <1>1, <1>6, <2>1, Zenon DEF GetCount, Goto
  <2>4. calm[p] => Informed(r, p)
    <3> SUFFICES ASSUME calm[p]  PROVE Informed(r, p)
      OBVIOUS
    <3>1. mods = <<>> /\ Informed(st, p)
      BY <1>1, <1>6, CalmAnswered
    <3>2. Len(mods) = 0
      BY <3>1
    <3> QED  BY <1>1, <1>3, <1>4, <2>2, <3>1, <3>2 DEF Informed
  <2> QED  BY <1>1, <1>3, <2>2, <2>3, <2>4, AskingStep DEF Before
<1> QED  BY <1>5, <1>6

\* The loop goes on: the index, and where the process is.
LEMMA AdvancedFields ==
  ASSUME NEW st \in Process
  PROVE  LET r == Advanced(st)
         IN  /\ r \in Process /\ r.i = st.i + 1
             /\ r.pc = (IF st.i + 1 < st.count THEN "name" ELSE "running")
             /\ r.count = st.count /\ r.filter = st.filter /\ r.granted = st.granted
             /\ r.loaded = st.loaded /\ r.failed = st.failed /\ r.name = st.name
<1>1. PICK i \in Nat : i = st.i + 1
  BY DEF Process
<1>2. PICK pc \in {"name", "running"} : pc = IF st.i + 1 < st.count THEN "name" ELSE "running"
  OBVIOUS
<1> DEFINE r == [st EXCEPT !.i = i, !.pc = pc]
<1>3. Advanced(st) = r
  BY <1>1, <1>2, Zenon DEF Advanced
<1>4. r \in Process
  BY DEF Process
<1>5. /\ r.i = i /\ r.pc = pc /\ r.count = st.count /\ r.filter = st.filter
      /\ r.granted = st.granted /\ r.loaded = st.loaded /\ r.failed = st.failed /\ r.name = st.name
  BY DEF Process
<1> HIDE DEF r
<1> QED  BY <1>1, <1>2, <1>3, <1>4, <1>5

\* What a process knows does not change as it goes on.
LEMMA AdvancedInformed ==
  ASSUME mods \in Seq(Mods), NEW p \in Procs, NEW st \in Process, Informed(st, p),
         st.pc \in {"name", "fd"},
         NEW r \in Process, r.i = st.i + 1, r.pc = (IF st.i + 1 < st.count THEN "name" ELSE "running"),
         r.count = st.count, r.filter = st.filter, r.granted = st.granted
  PROVE  Informed(r, p)
<1>1. st.count = Len(mods) /\ st.i < Len(mods) /\ Len(mods) \in Nat /\ st.i \in Nat
  BY DEF Informed, Process
<1>2. CASE st.i + 1 < st.count
  BY <1>1, <1>2 DEF Informed
<1>3. CASE ~(st.i + 1 < st.count)
  <2>1. r.i = Len(mods) /\ r.pc = "running"
    BY <1>1, <1>3
  <2> QED  BY <2>1 DEF Informed
<1> QED  BY <1>2, <1>3

\* An index that the process may not load, or could not, is passed over.
LEMMA PassedExact ==
  ASSUME NEW st \in Process, Exact(st), NEW r \in Process,
         r.i = st.i + 1, r.filter = st.filter, r.granted = st.granted, r.loaded = st.loaded,
         \/ r.failed = st.failed /\ ~Allowed(st, st.i)
         \/ r.failed = st.failed \cup {st.i} /\ Allowed(st, st.i)
  PROVE  Exact(r)
<1>1. st.i \in Nat /\ r.i - 1 = st.i
  BY DEF Process
<1>2. 0..r.i - 1 = (0..st.i - 1) \cup {st.i} /\ st.i \notin 0..st.i - 1
  BY <1>1
<1>3. \A j : Allowed(r, j) <=> Allowed(st, j)
  BY DEF Allowed
<1>4. st.failed \subseteq {j \in 0..st.i - 1 : Allowed(st, j)}
  BY DEF Exact
<1>5. {j \in 0..r.i - 1 : Allowed(r, j) /\ j \notin r.failed} =
         {j \in 0..st.i - 1 : Allowed(st, j) /\ j \notin st.failed}
  BY <1>2, <1>3, <1>4
<1>6. r.failed \subseteq {j \in 0..r.i - 1 : Allowed(r, j)}
  BY <1>2, <1>3, <1>4
<1> QED  BY <1>5, <1>6 DEF Exact

\* One that it may load is loaded, after all the others.
LEMMA LoadedExact ==
  ASSUME NEW st \in Process, Exact(st), NEW r \in Process, NEW h \in Loaded,
         h.id = st.i, h.name = h.lib, h.lib = mods[st.i + 1], Allowed(st, st.i),
         r.i = st.i + 1, r.filter = st.filter, r.granted = st.granted, r.failed = st.failed,
         r.loaded = Append(st.loaded, h)
  PROVE  Exact(r)
<1>1. st.i \in Nat /\ r.i - 1 = st.i /\ st.loaded \in Seq(Loaded)
  BY DEF Process
<1>2. 0..r.i - 1 = (0..st.i - 1) \cup {st.i} /\ st.i \notin 0..st.i - 1
  BY <1>1
<1>3. \A j : Allowed(r, j) <=> Allowed(st, j)
  BY DEF Allowed
<1>4. /\ st.failed \subseteq {j \in 0..st.i - 1 : Allowed(st, j)}
      /\ \A k \in DOMAIN st.loaded :
            st.loaded[k].name = st.loaded[k].lib /\ st.loaded[k].lib = mods[st.loaded[k].id + 1]
      /\ \A j, k \in DOMAIN st.loaded : j < k => st.loaded[j].id < st.loaded[k].id
      /\ {st.loaded[k].id : k \in DOMAIN st.loaded} =
            {j \in 0..st.i - 1 : Allowed(st, j) /\ j \notin st.failed}
  BY DEF Exact
<1>5. PICK m \in Nat : m = Len(st.loaded)
  BY <1>1
<1>6. /\ DOMAIN st.loaded = 1..m /\ DOMAIN r.loaded = 1..m + 1
      /\ \A k \in 1..m : r.loaded[k] = st.loaded[k]
      /\ r.loaded[m + 1] = h
  BY <1>1, <1>5, Appended
<1>7. 1..m + 1 = 1..m \cup {m + 1}
  OBVIOUS
<1>8. \A k \in 1..m + 1 :
         r.loaded[k].name = r.loaded[k].lib /\ r.loaded[k].lib = mods[r.loaded[k].id + 1]
  BY <1>4, <1>6, <1>7
<1>9. \A k \in 1..m : st.loaded[k].id \in 0..st.i - 1
  BY <1>4, <1>6
<1>10. ASSUME NEW j \in 1..m + 1, NEW k \in 1..m + 1, j < k
       PROVE  r.loaded[j].id < r.loaded[k].id
  <2>1. j \in 1..m
    BY <1>10
  <2>2. CASE k \in 1..m
    BY <1>4, <1>6, <1>10, <2>1, <2>2
  <2>3. CASE k = m + 1
    BY <1>1, <1>6, <1>9, <2>1, <2>3
  <2> QED  BY <1>7, <2>2, <2>3
<1>11. {r.loaded[k].id : k \in 1..m + 1} = {st.loaded[k].id : k \in 1..m} \cup {st.i}
  BY <1>6, <1>7
<1>12. {j \in 0..r.i - 1 : Allowed(r, j) /\ j \notin r.failed} =
          {j \in 0..st.i - 1 : Allowed(st, j) /\ j \notin st.failed} \cup {st.i}
  BY <1>2, <1>3, <1>4
<1>13. r.failed \subseteq {j \in 0..r.i - 1 : Allowed(r, j)}
  BY <1>2, <1>3, <1>4
<1>14. {r.loaded[k].id : k \in DOMAIN r.loaded} =
          {j \in 0..r.i - 1 : Allowed(r, j) /\ j \notin r.failed}
  <2>1. {st.loaded[k].id : k \in 1..m} =
           {j \in 0..st.i - 1 : Allowed(st, j) /\ j \notin st.failed}
    BY <1>4, <1>6
  <2> QED  BY <1>6, <1>11, <1>12, <2>1
<1>15. \A j, k \in DOMAIN r.loaded : j < k => r.loaded[j].id < r.loaded[k].id
  BY <1>6, <1>10
<1> QED  BY <1>6, <1>8, <1>13, <1>14, <1>15 DEF Exact

\* A step of a process that has counted.
LEMMA LoopStep ==
  ASSUME IInv, NEW p \in Procs, NEW r \in Process, procs' = [procs EXCEPT ![p] = r],
         UNCHANGED <<files, daemon, calm, served>>, r.pc \in {"name", "fd", "running"},
         calm[p] => Informed(r, p) /\ Exact(r)
  PROVE  IInv'
<1>1. calm \in [Procs -> BOOLEAN] /\ Sound(p) /\ calm' = calm
  BY DEF IInv, TypeOK, LoadInv
<1>2. (calm[p] => dpc = "up") /\ r.pc \notin Before
  BY <1>1 DEF Sound, Before
<1> QED  BY <1>1, <1>2, ProcessStep

\* GetName: on to the file of a module that is granted, past any other.
LEMMA GetNameStep ==
  ASSUME IInv, NEW p \in Procs, GetName(p)
  PROVE  IInv'
<1>1. PICK st : st = procs[p]
  OBVIOUS
<1>2. st \in Process /\ mods \in Seq(Mods)
  BY <1>1 DEF IInv, TypeOK
<1>3. PICK name : name = IF Answered /\ st.i < Len(mods) THEN mods[st.i + 1] ELSE NoModule
  OBVIOUS
<1>4. st.i \in Nat /\ name \in Named
  BY <1>2, <1>3 DEF Process, Named
<1>5. /\ st.pc = "name" /\ UNCHANGED <<files, daemon, calm, served>>
      /\ procs' = [procs EXCEPT ![p] = IF st.filter /\ name \notin st.granted THEN Advanced(st)
                                       ELSE [st EXCEPT !.name = name, !.pc = "fd"]]
  BY <1>1, <1>3, Zenon DEF GetName
<1>6. ASSUME calm[p]
      PROVE  /\ Informed(st, p) /\ Exact(st) /\ name = mods[st.i + 1]
             /\ st.filter /\ name \notin st.granted <=> ~Allowed(st, st.i)
  <2>1. Answered /\ Informed(st, p) /\ Exact(st)
    BY <1>1, <1>6, CalmAnswered
  <2>2. name = mods[st.i + 1]
    BY <1>3, <1>5, <2>1 DEF Informed
  <2> QED  BY <2>1, <2>2 DEF Allowed
<1>7. CASE st.filter /\ name \notin st.granted
  <2>1. PICK r : r = Advanced(st)
    OBVIOUS
  <2>2. /\ r \in Process /\ r.i = st.i + 1
        /\ r.pc = (IF st.i + 1 < st.count THEN "name" ELSE "running")
        /\ r.count = st.count /\ r.filter = st.filter /\ r.granted = st.granted
        /\ r.loaded = st.loaded /\ r.failed = st.failed
    BY <1>2, <2>1, AdvancedFields
  <2>3. calm[p] => Informed(r, p)
    BY <1>2, <1>5, <1>6, <2>2, AdvancedInformed
  <2>4. calm[p] => Exact(r)
    BY <1>2, <1>6, <1>7, <2>2, PassedExact
  <2>5. r.pc \in {"name", "fd", "running"}
    BY <2>2
  <2> QED  BY <1>5, <1>7, <2>1, <2>2, <2>3, <2>4, <2>5, LoopStep
<1>8. CASE ~(st.filter /\ name \notin st.granted)
  <2>1. PICK r : r = [st EXCEPT !.name = name, !.pc = "fd"]
    OBVIOUS
  <2>2. /\ r \in Process /\ r.i = st.i /\ r.pc = "fd" /\ r.name = name
        /\ r.count = st.count /\ r.filter = st.filter /\ r.granted = st.granted
        /\ r.loaded = st.loaded /\ r.failed = st.failed
    BY <1>2, <1>4, <2>1 DEF Process
  <2>3. calm[p] => Informed(r, p)
    BY <1>5, <1>6, <1>8, <2>2 DEF Informed, Allowed
  <2>4. calm[p] => Exact(r)
    BY <1>6, <2>2 DEF Exact, Allowed
  <2> QED  BY <1>5, <1>8, <2>1, <2>2, <2>3, <2>4, LoopStep
<1> QED  BY <1>7, <1>8

\* GetFd: the library of the same index.
LEMMA GetFdStep ==
  ASSUME IInv, NEW p \in Procs, GetFd(p)
  PROVE  IInv'
<1>1. PICK st : st = procs[p]
  OBVIOUS
<1>2. st \in Process /\ mods \in Seq(Mods)
  BY <1>1 DEF IInv, TypeOK
<1>3. /\ st.pc = "fd" /\ st.i < Len(mods) /\ UNCHANGED <<files, daemon, calm, served>>
      /\ procs' = [procs EXCEPT ![p] =
                     [Advanced(st) EXCEPT !.loaded =
                         Append(@, [lib |-> mods[st.i + 1], name |-> st.name, id |-> st.i])]]
  BY <1>1, Zenon DEF GetFd
<1>4. st.i \in Nat /\ st.name \in Named /\ st.loaded \in Seq(Loaded) /\ mods[st.i + 1] \in Mods
  BY <1>2, <1>3 DEF Process
<1>5. PICK h \in Loaded : h = [lib |-> mods[st.i + 1], name |-> st.name, id |-> st.i]
  BY <1>4 DEF Loaded
<1>6. h.lib = mods[st.i + 1] /\ h.name = st.name /\ h.id = st.i
  BY <1>5
<1>7. PICK go : go = Advanced(st)
  OBVIOUS
<1>8. /\ go \in Process /\ go.i = st.i + 1
      /\ go.pc = (IF st.i + 1 < st.count THEN "name" ELSE "running")
      /\ go.count = st.count /\ go.filter = st.filter /\ go.granted = st.granted
      /\ go.loaded = st.loaded /\ go.failed = st.failed
  BY <1>2, <1>7, AdvancedFields
<1>9. PICK loaded \in Seq(Loaded) : loaded = Append(go.loaded, h)
  BY <1>4, <1>8, Appended
<1>10. PICK r : r = [go EXCEPT !.loaded = loaded]
  OBVIOUS
<1>11. /\ r \in Process /\ r.i = go.i /\ r.pc = go.pc
       /\ r.count = go.count /\ r.filter = go.filter /\ r.granted = go.granted
       /\ r.loaded = loaded /\ r.failed = go.failed
  BY <1>8, <1>10 DEF Process
<1>12. procs' = [procs EXCEPT ![p] = r]
  BY <1>3, <1>5, <1>7, <1>9, <1>10, Zenon
<1>13. ASSUME calm[p]  PROVE Informed(r, p) /\ Exact(r)
  <2>1. Informed(st, p) /\ Exact(st)
    BY <1>1, <1>13, CalmAnswered
  <2>2. st.name = mods[st.i + 1] /\ Allowed(st, st.i)
    BY <1>3, <2>1 DEF Informed
  <2>3. Informed(r, p)
    BY <1>2, <1>3, <1>8, <1>11, <2>1, AdvancedInformed
  <2>4. r.loaded = Append(st.loaded, h)
    BY <1>8, <1>9, <1>11
  <2>5. Exact(r)
    BY <1>2, <1>6, <1>8, <1>11, <2>1, <2>2, <2>4, LoadedExact
  <2> QED  BY <2>3, <2>5
<1>14. r.pc \in {"name", "fd", "running"}
  BY <1>8, <1>11
<1> QED  BY <1>3, <1>11, <1>12, <1>13, <1>14, LoopStep

\* GetFdFails: the index counts as failed.
LEMMA GetFdFailsStep ==
  ASSUME IInv, NEW p \in Procs, GetFdFails(p)
  PROVE  IInv'
<1>1. PICK st : st = procs[p]
  OBVIOUS
<1>2. st \in Process /\ mods \in Seq(Mods)
  BY <1>1 DEF IInv, TypeOK
<1>3. PICK i \in Nat : i = st.i
  BY <1>2 DEF Process
<1>4. /\ st.pc = "fd" /\ UNCHANGED <<files, daemon, calm, served>>
      /\ procs' = [procs EXCEPT ![p] = [Advanced(st) EXCEPT !.failed = @ \cup {i}]]
  BY <1>1, <1>3, Zenon DEF GetFdFails
<1>5. PICK go : go = Advanced(st)
  OBVIOUS
<1>6. /\ go \in Process /\ go.i = st.i + 1
      /\ go.pc = (IF st.i + 1 < st.count THEN "name" ELSE "running")
      /\ go.count = st.count /\ go.filter = st.filter /\ go.granted = st.granted
      /\ go.loaded = st.loaded /\ go.failed = st.failed
  BY <1>2, <1>5, AdvancedFields
<1>7. PICK failed \in SUBSET Nat : failed = go.failed \cup {i}
  BY <1>6 DEF Process
<1>8. PICK r : r = [go EXCEPT !.failed = failed]
  OBVIOUS
<1>9. /\ r \in Process /\ r.i = go.i /\ r.pc = go.pc
      /\ r.count = go.count /\ r.filter = go.filter /\ r.granted = go.granted
      /\ r.loaded = go.loaded /\ r.failed = failed
  BY <1>6, <1>8 DEF Process
<1>10. procs' = [procs EXCEPT ![p] = r]
  BY <1>4, <1>5, <1>7, <1>8, Zenon
<1>11. ASSUME calm[p]  PROVE Informed(r, p) /\ Exact(r)
  <2>1. Informed(st, p) /\ Exact(st)
    BY <1>1, <1>11, CalmAnswered
  <2>2. Allowed(st, st.i)
    BY <1>4, <2>1 DEF Informed
  <2>3. Informed(r, p)
    BY <1>2, <1>4, <1>6, <1>9, <2>1, AdvancedInformed
  <2>4. Exact(r)
    BY <1>2, <1>3, <1>6, <1>7, <1>9, <2>1, <2>2, PassedExact
  <2> QED  BY <2>3, <2>4
<1>12. r.pc \in {"name", "fd", "running"}
  BY <1>6, <1>9
<1> QED  BY <1>4, <1>9, <1>10, <1>11, <1>12, LoopStep

-----------------------------------------------------------------------------
(* The companions.                                                          *)

\* A slot that is not given a companion keeps the one it has, or none.
LEMMA ResizedSlots ==
  ASSUME comps \in Seq(Companion), NEW n \in Nat
  PROVE  LET slots == Resized(comps, n)
         IN  /\ slots \in Seq(Companion) /\ DOMAIN slots = 1..n
             /\ \A j \in 1..n : slots[j] = EmptySlot \/ (j \in DOMAIN comps /\ slots[j] = comps[j])
<1>1. EmptySlot \in Companion
  BY DEF EmptySlot, Companion, Named
<1> DEFINE slots == [j \in 1..n |-> IF j <= Len(comps) THEN comps[j] ELSE EmptySlot]
<1>2. \A j \in 1..n : slots[j] = EmptySlot \/ (j \in DOMAIN comps /\ slots[j] = comps[j])
  OBVIOUS
<1>3. \A j \in 1..n : slots[j] \in Companion
  BY <1>1, <1>2
<1>4. slots \in [1..n -> Companion]
  BY <1>3
<1>5. slots \in Seq(Companion)
  BY <1>4, IsASeq
<1> QED  BY <1>2, <1>5 DEF Resized

\* Slots of which each has its own module's companion, or none.
Own(slots) ==
    /\ slots \in Seq(Companion) /\ DOMAIN slots = 1..Len(mods)
    /\ ~drained => \A j \in 1..Len(mods) : slots[j] = EmptySlot \/ slots[j].lib = mods[j]

\* ensure_companion: one is started for the module of its slot.
LEMMA SpawnedSlots ==
  ASSUME mods \in Seq(Mods), NEW slots, Own(slots), NEW i \in 1..Len(mods), NEW entry \in BOOLEAN
  PROVE  LET new == [slots EXCEPT ![i] = Spawned(i, entry)]
         IN  Own(new) /\ new[i].lib = mods[i]
<1>1. PICK one : one = Spawned(i, entry)
  OBVIOUS
<1>2. one \in Companion /\ one.lib = mods[i]
  <2>1. mods[i] \in Named  BY DEF Named
  <2> QED  BY <1>1, <2>1 DEF Spawned, Companion
<1>3. PICK new : new = [slots EXCEPT ![i] = one]
  OBVIOUS
<1>4. /\ new \in Seq(Companion) /\ DOMAIN new = 1..Len(mods) /\ new[i] = one
      /\ \A j \in 1..Len(mods) : j # i => new[j] = slots[j]
  BY <1>2, <1>3 DEF Own
<1>5. Own(new) /\ new[i].lib = mods[i]
  BY <1>2, <1>4 DEF Own
<1> QED  BY <1>1, <1>3, <1>5

\* Connect: a module of a calm process reaches the companion of its own index.
LEMMA ConnectStep ==
  ASSUME IInv, NEW p \in Procs, NEW k \in DOMAIN procs[p].loaded, Connect(p, k)
  PROVE  IInv'
<1>1. TypeOK /\ IsInjective(mods) /\ CompanionInv /\ FreshInv /\ LoadInv
  BY DEF IInv
<1>2. PICK rec : rec = procs[p].loaded[k]
  OBVIOUS
<1>3. PICK i : i = rec.id + 1
  OBVIOUS
<1>4. PICK old : old = Resized(comps, Len(mods))
  OBVIOUS
<1>5. /\ dpc = "up" /\ i <= Len(mods)
      /\ UNCHANGED <<files, dpc, deaths, queue, mods, conf, drained, missed, procs, calm>>
      /\ \/ old[i] # EmptySlot /\ Reach(p, rec, old, i)
         \/ comps' = old /\ served' = served
         \/ old[i] = EmptySlot /\ Reach(p, rec, [old EXCEPT ![i] = Spawned(i, TRUE)], i)
         \/ comps' = [old EXCEPT ![i] = Spawned(i, FALSE)] /\ served' = served
  BY <1>2, <1>3, <1>4, Zenon DEF Connect, Answered
<1>6. /\ comps \in Seq(Companion) /\ mods \in Seq(Mods) /\ Len(mods) \in Nat
      /\ served \in [Procs -> Seq([asked : Named, got : Named, calm : BOOLEAN])]
      /\ calm[p] \in BOOLEAN
  <2>1. /\ comps \in Seq(Companion) /\ mods \in Seq(Mods) /\ calm \in [Procs -> BOOLEAN]
        /\ served \in [Procs -> Seq([asked : Named, got : Named, calm : BOOLEAN])]
    BY <1>1 DEF TypeOK
  <2>2. Len(mods) \in Nat /\ calm[p] \in BOOLEAN
    BY <2>1
  <2> QED  BY <2>1, <2>2
<1>7. rec \in Loaded
  <2>1. procs[p] \in Process  BY <1>1 DEF TypeOK
  <2>2. procs[p].loaded \in Seq(Loaded)  BY <2>1 DEF Process
  <2> QED  BY <1>2, <2>2
<1>8. i \in 1..Len(mods) /\ rec.lib \in Mods
  BY <1>3, <1>5, <1>6, <1>7 DEF Loaded
<1>9. Own(old)
  <2>1. /\ old \in Seq(Companion) /\ DOMAIN old = 1..Len(mods)
        /\ \A j \in 1..Len(mods) : old[j] = EmptySlot \/ (j \in DOMAIN comps /\ old[j] = comps[j])
    BY <1>4, <1>6, ResizedSlots
  <2> QED  BY <1>1, <2>1 DEF Own, CompanionInv
<1>10. PICK slots : /\ comps' = slots /\ Own(slots)
                    /\ \/ served' = served
                       \/ Reach(p, rec, slots, i) /\ (~drained => slots[i].lib = mods[i])
  <2>1. CASE old[i] # EmptySlot /\ Reach(p, rec, old, i)
    <3>1. ~drained => old[i].lib = mods[i]  BY <1>8, <1>9, <2>1 DEF Own
    <3> QED  BY <1>9, <2>1, <3>1 DEF Reach
  <2>2. CASE comps' = old /\ served' = served
    BY <1>9, <2>2
  <2>3. CASE old[i] = EmptySlot /\ Reach(p, rec, [old EXCEPT ![i] = Spawned(i, TRUE)], i)
    <3>1. PICK new : new = [old EXCEPT ![i] = Spawned(i, TRUE)]
      OBVIOUS
    <3>2. Own(new) /\ new[i].lib = mods[i]  BY <1>6, <1>8, <1>9, <3>1, SpawnedSlots
    <3> QED  BY <2>3, <3>1, <3>2 DEF Reach
  <2>4. CASE comps' = [old EXCEPT ![i] = Spawned(i, FALSE)] /\ served' = served
    <3>1. PICK new : new = [old EXCEPT ![i] = Spawned(i, FALSE)]
      OBVIOUS
    <3>2. Own(new)  BY <1>6, <1>8, <1>9, <3>1, SpawnedSlots
    <3> QED  BY <2>4, <3>1, <3>2
  <2> QED  BY <1>5, <2>1, <2>2, <2>3, <2>4
<1>11. /\ served' \in [Procs -> Seq([asked : Named, got : Named, calm : BOOLEAN])]
       /\ CalmCompanionMatches'
  <2>1. CASE served' = served
    BY <1>1, <1>6, <2>1 DEF CompanionInv, CalmCompanionMatches
  <2>2. CASE Reach(p, rec, slots, i) /\ (~drained => slots[i].lib = mods[i])
    <3>1. PICK sure \in BOOLEAN : sure = (calm[p] /\ ~drained)
      OBVIOUS
    <3>2. slots[i] \in Companion
      BY <1>8, <1>10 DEF Own
    <3>3. PICK one : one = [asked |-> rec.lib, got |-> slots[i].lib, calm |-> sure]
      OBVIOUS
    <3>4. one \in [asked : Named, got : Named, calm : BOOLEAN]
      BY <1>8, <3>2, <3>3 DEF Named, Companion
    <3>5. one.calm => one.asked = one.got
      <4> SUFFICES ASSUME sure  PROVE rec.lib = slots[i].lib
        BY <3>3
      <4>1. rec.lib = mods[rec.id + 1]
        BY <1>1, <1>2, <3>1 DEF LoadInv, Sound, Exact
      <4> QED  BY <1>3, <2>2, <3>1, <4>1
    <3>6. PICK calls : calls = Append(served[p], one)
      OBVIOUS
    <3>7. served' = [served EXCEPT ![p] = calls]
      BY <2>2, <3>1, <3>3, <3>6, Zenon DEF Reach
    <3>8. served[p] \in Seq([asked : Named, got : Named, calm : BOOLEAN])
      BY <1>6
    <3>9. PICK m \in Nat : m = Len(served[p])
      BY <3>8
    <3>10. /\ calls \in Seq([asked : Named, got : Named, calm : BOOLEAN])
           /\ DOMAIN calls = 1..m + 1 /\ DOMAIN served[p] = 1..m
           /\ \A j \in 1..m : calls[j] = served[p][j]
           /\ calls[m + 1] = one
      BY <3>4, <3>6, <3>8, <3>9, Appended
    <3>11. /\ served' \in [Procs -> Seq([asked : Named, got : Named, calm : BOOLEAN])]
           /\ served'[p] = calls /\ \A q \in Procs : q # p => served'[q] = served[q]
      BY <1>6, <3>7, <3>10
    <3>12. \A j \in 1..m + 1 : calls[j].calm => calls[j].got = calls[j].asked
      <4>1. \A j \in 1..m : calls[j].calm => calls[j].got = calls[j].asked
        BY <1>1, <3>10 DEF CompanionInv, CalmCompanionMatches
      <4>2. 1..m + 1 = 1..m \cup {m + 1}
        OBVIOUS
      <4> QED  BY <3>5, <3>10, <4>1, <4>2
    <3> QED  BY <1>1, <3>10, <3>11, <3>12 DEF CompanionInv, CalmCompanionMatches
  <2> QED  BY <1>10, <2>1, <2>2
<1>12. UNCHANGED <<disk, edits, unsaid, dpc, deaths, queue, mods, conf, drained, missed, procs, calm>>
  BY <1>5 DEF files
<1>13. TypeOK'
  BY <1>1, <1>10, <1>11, <1>12 DEF TypeOK, Own
<1>14. FreshInv' /\ LoadInv'
  BY <1>1, <1>12, FreshKept, OutsideStep
<1>15. CompanionInv'
  <2>1. ASSUME ~drained, NEW j \in DOMAIN slots
        PROVE  j <= Len(mods) /\ (slots[j] = EmptySlot \/ slots[j].lib = mods[j])
    BY <1>6, <1>10, <2>1 DEF Own
  <2> QED  BY <1>5, <1>10, <1>11, <1>12, <2>1 DEF CompanionInv
<1> QED  BY <1>1, <1>12, <1>13, <1>14, <1>15 DEF IInv

-----------------------------------------------------------------------------
(* The theorems.                                                            *)

\* The initial states satisfy the invariant.
LEMMA InitInv == Init => IInv
<1> SUFFICES ASSUME Init  PROVE IInv
  OBVIOUS
<1>1. PICK c \in Configs : disk = [enabled |-> Mods, conf |-> c] /\ conf = c
  BY DEF Init
<1>2. /\ edits = 0 /\ unsaid = FALSE /\ missed = FALSE
      /\ dpc = "down" /\ deaths = 0 /\ queue = 0
      /\ mods = <<>> /\ comps = <<>> /\ drained = FALSE
      /\ procs = [p \in Procs |-> NewProc]
      /\ calm = [p \in Procs |-> FALSE]
      /\ served = [p \in Procs |-> <<>>]
  BY DEF Init
<1>3. /\ <<>> \in Seq(Mods) /\ <<>> \in Seq(Companion) /\ IsInjective(<<>>)
      /\ <<>> \in Seq([asked : Named, got : Named, calm : BOOLEAN]) /\ DOMAIN <<>> = {}
  BY DEF IsInjective
<1>4. NewProc \in Process /\ Unloaded(NewProc)
  <2>1. <<>> \in Seq(Loaded)  OBVIOUS
  <2> QED  BY <2>1 DEF NewProc, Process, Named, Unloaded
<1>5. TypeOK
  <2>1. disk \in [enabled : SUBSET Mods, conf : Configs]
    BY <1>1
  <2>2. /\ procs \in [Procs -> Process] /\ calm \in [Procs -> BOOLEAN]
        /\ served \in [Procs -> Seq([asked : Named, got : Named, calm : BOOLEAN])]
    BY <1>2, <1>3, <1>4
  <2>3. queue \in 0..MaxQueue /\ edits \in 0..MaxEdits /\ deaths \in 0..MaxDeaths
    BY <1>2, BoundsAssumption
  <2> QED  BY <1>1, <1>2, <1>3, <2>1, <2>2, <2>3 DEF TypeOK
<1>6. CompanionInv
  BY <1>2, <1>3 DEF CompanionInv, CalmCompanionMatches
<1>7. FreshInv
  BY <1>2 DEF FreshInv
<1>8. LoadInv
  BY <1>2, <1>4 DEF LoadInv, Sound
<1> QED  BY <1>2, <1>3, <1>5, <1>6, <1>7, <1>8 DEF IInv

\* Every step keeps the invariant.
LEMMA NextInv == IInv /\ [Next]_vars => IInv'
<1> SUFFICES ASSUME IInv, [Next]_vars  PROVE IInv'
  OBVIOUS
<1>1. CASE Files  BY <1>1, FilesStep
<1>2. CASE Daemon  BY <1>2, StartStep, DisturbingStep, CompanionDiesStep DEF Daemon
<1>3. ASSUME NEW p \in Procs, Client(p)  PROVE IInv'
  <2>1. CASE Begin(p)  BY <2>1, BeginStep
  <2>2. CASE Load(p)
    BY <2>2, GetConfigStep, GetGrantedStep, GetCountStep, GetNameStep, GetFdStep, GetFdFailsStep DEF Load
  <2>3. CASE \E k \in DOMAIN procs[p].loaded : Connect(p, k)  BY <2>3, ConnectStep
  <2> QED  BY <1>3, <2>1, <2>2, <2>3 DEF Client
<1>4. CASE UNCHANGED vars
  <2>1. UNCHANGED <<disk, edits, unsaid, dpc, deaths, queue, mods, conf, comps, drained, missed,
                    procs, calm, served>>
    BY <1>4 DEF vars, files, daemon, clients
  <2>2. TypeOK'
    BY <2>1 DEF IInv, TypeOK
  <2>3. CompanionInv' /\ FreshInv' /\ LoadInv'
    BY <2>1, CompanionKept, FreshKept, OutsideStep DEF IInv
  <2> QED  BY <2>1, <2>2, <2>3 DEF IInv
<1> QED  BY <1>1, <1>2, <1>3, <1>4 DEF Next

\* In every reachable state the daemon's list and configuration, the files, the
\* companions and what the processes have loaded are related as the requests of
\* load_modules_impl need it.
THEOREM Invariant == Spec => []IInv
<1>1. Init => IInv  BY InitInv
<1>2. IInv /\ [Next]_vars => IInv'  BY NextInv
<1> QED  BY <1>1, <1>2, PTL DEF Spec

\* Every variable keeps its type.
THEOREM TypeCorrect == Spec => []TypeOK
<1>1. IInv => TypeOK  BY DEF IInv
<1> QED  BY <1>1, Invariant, PTL

\* ensure_companion: a module reaches its own companion, however many there are,
\* if the daemon has served one list since it started and since the process
\* began.
THEOREM CalmCompanionMatchesHolds == Spec => []CalmCompanionMatches
<1>1. IInv => CalmCompanionMatches  BY DEF IInv, CompanionInv
<1> QED  BY <1>1, Invariant, PTL

\* RELOAD: with the socket drained, the daemon decides by the files as they were
\* when the last RELOAD was sent, unless that one found no room or no listener.
THEOREM QuietViewFreshHolds == Spec => []QuietViewFresh
<1>1. IInv => QuietViewFresh  BY DEF IInv, FreshInv, QuietViewFresh
<1> QED  BY <1>1, Invariant, PTL

\* The safety half of LoadsEndExact, load_modules_impl: under one list a process
\* runs exactly the modules it is granted, but those that failed to load, none
\* twice, and each at the index and under the name the daemon knows it by.
THEOREM CalmLoadsExact == Spec => [](\A p \in Procs : CalmLoadIsExact(p))
<1>1. ASSUME IInv, NEW p \in Procs  PROVE CalmLoadIsExact(p)
  <2> DEFINE st == procs[p]
             libs == {st.loaded[k].lib : k \in DOMAIN st.loaded}
             lost == {mods[i + 1] : i \in st.failed}
  <2>1. SUFFICES ASSUME calm[p]
                 PROVE  /\ \A k \in DOMAIN st.loaded :
                              LET r == st.loaded[k] IN r.name = r.lib /\ mods[r.id + 1] = r.lib
                        /\ libs \subseteq Expected(p)
                        /\ st.pc = "running" => libs \cup lost = Expected(p) /\ libs \cap lost = {}
                        /\ IsInjective(st.loaded)
    BY DEF CalmLoadIsExact
  <2>2. Informed(st, p) /\ Exact(st)
    BY <1>1, <2>1, CalmAnswered
  <2>3. st \in Process /\ mods \in Seq(Mods) /\ IsInjective(mods)
    BY <1>1 DEF IInv, TypeOK
  <2>4. st.i \in Nat /\ st.failed \in SUBSET Nat /\ st.loaded \in Seq(Loaded) /\ Len(mods) \in Nat
    BY <2>3 DEF Process
  <2>5. /\ \A k \in DOMAIN st.loaded :
              st.loaded[k].name = st.loaded[k].lib /\ st.loaded[k].lib = mods[st.loaded[k].id + 1]
        /\ \A j, k \in DOMAIN st.loaded : j < k => st.loaded[j].id < st.loaded[k].id
        /\ {st.loaded[k].id : k \in DOMAIN st.loaded} =
              {j \in 0..st.i - 1 : Allowed(st, j) /\ j \notin st.failed}
        /\ st.failed \subseteq {j \in 0..st.i - 1 : Allowed(st, j)}
    BY <2>2 DEF Exact
  <2> HIDE DEF st
  <2>6. libs = {mods[j + 1] : j \in {j \in 0..st.i - 1 : Allowed(st, j) /\ j \notin st.failed}}
    <3>1. libs = {mods[st.loaded[k].id + 1] : k \in DOMAIN st.loaded}
      BY <2>5
    <3>2. libs = {mods[j + 1] : j \in {st.loaded[k].id : k \in DOMAIN st.loaded}}
      BY <3>1
    <3> QED  BY <2>5, <3>2
  <2>7. st.i <= Len(mods) \/ st.i = 0
    <3>1. CASE st.pc \in Before
      BY <1>1, <3>1 DEF IInv, LoadInv, Sound, Unloaded, st
    <3>2. CASE st.pc \notin Before
      <4>1. st.pc \in {"name", "fd", "running"}  BY <2>3, <3>2 DEF Process, Before
      <4> QED  BY <2>2, <2>4, <4>1 DEF Informed
    <3> QED  BY <3>1, <3>2
  <2>8. \A j \in 0..st.i - 1 : j \in Nat /\ j + 1 \in 1..Len(mods)
    BY <2>4, <2>7
  <2>9. \A j, k \in 0..st.i - 1 : mods[j + 1] = mods[k + 1] => j = k
    <3> SUFFICES ASSUME NEW j \in 0..st.i - 1, NEW k \in 0..st.i - 1, mods[j + 1] = mods[k + 1]
                 PROVE  j = k
      OBVIOUS
    <3>1. j + 1 \in DOMAIN mods /\ k + 1 \in DOMAIN mods  BY <2>3, <2>8
    <3>2. j + 1 = k + 1  BY <2>3, <3>1 DEF IsInjective
    <3> QED  BY <2>8, <3>2
  <2>10. ASSUME st.pc \notin Before
         PROVE  \A j \in 0..Len(mods) - 1 : Allowed(st, j) <=> mods[j + 1] \in Expected(p)
    <3>1. st.pc \in {"name", "fd", "running"}
      BY <2>3, <2>10 DEF Process, Before
    <3>2. st.filter = conf.filter /\ (st.filter => st.granted = Picked(UidOf[p]))
      BY <2>2, <3>1 DEF Informed
    <3>3. \A j \in 0..Len(mods) - 1 : mods[j + 1] \in ToSet(mods)
      BY <2>3, <2>4 DEF ToSet
    <3> QED  BY <3>2, <3>3 DEF Expected, Allowed
  <2>11. Expected(p) \subseteq {mods[j + 1] : j \in 0..Len(mods) - 1}
    <3>1. Expected(p) \subseteq ToSet(mods)
      BY DEF Expected, Picked
    <3>2. ASSUME NEW n \in DOMAIN mods  PROVE \E j \in 0..Len(mods) - 1 : mods[n] = mods[j + 1]
      <4>1. n - 1 \in 0..Len(mods) - 1 /\ (n - 1) + 1 = n  BY <2>3, <2>4
      <4> QED  BY <4>1
    <3> QED  BY <3>1, <3>2 DEF ToSet
  <2>12. libs \subseteq Expected(p)
    <3>1. CASE st.pc \in Before
      <4>1. 0..st.i - 1 = {}
        <5>1. st.i = 0  BY <1>1, <3>1 DEF IInv, LoadInv, Sound, Unloaded, st
        <5> QED  BY <5>1
      <4> QED  BY <2>6, <4>1
    <3>2. CASE st.pc \notin Before
      <4>1. \A j \in 0..st.i - 1 : j \in 0..Len(mods) - 1  BY <2>4, <2>7
      <4>2. \A j \in 0..st.i - 1 : Allowed(st, j) => mods[j + 1] \in Expected(p)
        BY <2>10, <3>2, <4>1
      <4> QED  BY <2>6, <4>2
    <3> QED  BY <3>1, <3>2
  <2>13. ASSUME st.pc = "running"
         PROVE  libs \cup lost = Expected(p) /\ libs \cap lost = {}
    <3>1. st.i = Len(mods) /\ st.pc \notin Before
      BY <2>2, <2>13 DEF Informed, Before
    <3>2. lost \subseteq Expected(p)
      BY <2>5, <2>10, <3>1
    <3>3. Expected(p) \subseteq libs \cup lost
      BY <2>6, <2>10, <2>11, <3>1
    <3>4. libs \cap lost = {}
      BY <2>5, <2>6, <2>9
    <3> QED  BY <2>12, <3>2, <3>3, <3>4
  <2>14. IsInjective(st.loaded)
    <3> SUFFICES ASSUME NEW j \in DOMAIN st.loaded, NEW k \in DOMAIN st.loaded,
                        st.loaded[j] = st.loaded[k]
                 PROVE  j = k
      BY DEF IsInjective
    <3>1. st.loaded[j].id \in Nat /\ j \in Int /\ k \in Int
      <4>1. st.loaded[j] \in Loaded  BY <2>4
      <4> QED  BY <2>4, <4>1 DEF Loaded
    <3> QED  BY <2>5, <3>1
  <2> QED  BY <2>5, <2>12, <2>13, <2>14
<1>2. IInv => \A p \in Procs : CalmLoadIsExact(p)
  BY <1>1
<1> QED  BY <1>2, Invariant, PTL

=============================================================================
