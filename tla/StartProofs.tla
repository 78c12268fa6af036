------------------------------- MODULE StartProofs --------------------------
(***************************************************************************)
(* What a phone starts with, in the order it comes: proofs about ImageFlow *)
(* (the boot image), InitRc (what init reads), DaemonBoot (the daemon and  *)
(* zygiskd) and ZygoteLifecycle (the zygotes and their children).  They    *)
(* are four specifications; this module only keeps their proofs together.  *)
(***************************************************************************)
EXTENDS ImageFlow, InitRc, DaemonBoot, ZygoteLifecycle, FiniteSetTheorems, SequenceTheorems, TLAPS

-----------------------------------------------------------------------------
(***************************************************************************)
(* ImageFlow, for any versions, layouts of their ramdisks, slots and       *)
(* callers.                                                                *)
(*                                                                         *)
(* The argument speaks of single images.  One that no failure was passed   *)
(* over in has at most one modules directory, whose list names just what is *)
(* in it; so the directory that is chosen, merged into and stripped is the *)
(* one that first-stage init takes, and what a backup note names is clean. *)
(***************************************************************************)

IsImage(i) ==
  /\ i = [os |-> i.os, bak |-> i.bak, torn |-> i.torn, odd |-> i.odd, dirs |-> i.dirs]
  /\ i.os \in Versions /\ i.torn \in BOOLEAN /\ i.odd \in BOOLEAN

\* What every image is that no failure of magiskboot has gone into: at most
\* one directory, that of the stock image where it has one, whose list names
\* just what is there.
Standard(i) ==
  /\ \A d, e \in DOMAIN i.dirs : d = e
  /\ StockDirs(i.os) \subseteq DOMAIN i.dirs
  /\ \E e \in SUBSET {"vendor", "tamisu"} :
       /\ i.dirs = [d \in DOMAIN i.dirs |-> [list |-> e, kos |-> e]]
       /\ "vendor" \in e <=> StockDirs(i.os) # {}

\* The backup it names, if any, is the clean image of its own system.
NamesClean(i) ==
  i.bak = <<>> \/ (i.bak = <<i.bak[1]>> /\ Clean(i.bak[1]) /\ i.bak[1].os = i.os)

ImageOK(i) == IsImage(i) /\ (i.odd = FALSE => Standard(i) /\ NamesClean(i))

Restores == {"restore", "uninstall"}
Restored(src, new, cut) ==
  cut = TRUE \/ src.odd = TRUE \/ new.odd = TRUE \/ (Clean(new) /\ new.os = src.os)

IsCommand(c) ==
  /\ c = [op |-> c.op, at |-> c.at, slot |-> c.slot, src |-> c.src, new |-> c.new,
          seen |-> c.seen, cut |-> c.cut]
  /\ c.slot \in BootSlots /\ ImageOK(c.src) /\ ImageOK(c.new)
  /\ c.seen \in BOOLEAN /\ c.cut \in BOOLEAN

\* Where each command can be, and what it holds there.
Places(op, at) ==
  \/ op = "none" /\ at = "idle"
  \/ op = "patch" /\ at \in {"backup", "flash", "write"}
  \/ op = "restore" /\ at \in {"find", "flash", "write"}
  \/ op = "uninstall" /\ at \in {"find", "flash", "write", "reboot"}
CommandInv ==
  /\ IsCommand(cmd)
  /\ Places(cmd.op, cmd.at)
  /\ cmd.at = "backup" =>
       /\ cmd.src.torn = FALSE /\ cmd.src.os = cmd.new.os
       /\ cmd.new.odd = FALSE => cmd.src.odd = FALSE /\ cmd.seen = Patched(cmd.src)
  /\ cmd.op \in Restores /\ cmd.at \in {"flash", "write"} =>
       Restored(cmd.src, cmd.new, cmd.cut)

\* While a command can still write, no earlier one is spoken of.
LastInv ==
  /\ last.slot \in BootSlots
  /\ cmd.at \in {"backup", "find", "flash", "write"} => last.op = "none"
  /\ last.op \in Restores => Restored(last.src, img[last.slot], last.cut)

ImagesInv ==
  /\ booted \in BootSlots
  /\ img = [s \in BootSlots |-> img[s]] /\ \A s \in BootSlots : ImageOK(img[s])
  /\ \A x \in store : x = [of |-> x.of, body |-> x.body] /\ ImageOK(x.of)
  /\ out = <<>> \/ (out = <<out[1]>> /\ ImageOK(out[1]))

ImageIInv == ImagesInv /\ CommandInv /\ LastInv

\* A stock image has its modules in one directory at most.
LEMMA StockDirsOne ==
  ASSUME NEW v \in Versions
  PROVE  /\ \A d, e \in StockDirs(v) : d = e
         /\ StockDirs(v) = {} <=> Layout[v] = "none"
  BY ImageAssumption DEF StockDirs

\* The one set of modules of a standard image, and how it shows.
LEMMA StandardSet ==
  ASSUME NEW i, Standard(i), i.os \in Versions
  PROVE  \E e \in SUBSET {"vendor", "tamisu"} :
           /\ \A d \in DOMAIN i.dirs : i.dirs[d].list = e /\ i.dirs[d].kos = e
           /\ i.dirs = [d \in DOMAIN i.dirs |-> [list |-> e, kos |-> e]]
           /\ "vendor" \in e <=> StockDirs(i.os) # {}
           /\ StockDirs(i.os) # {} => DOMAIN i.dirs = StockDirs(i.os)
<1>1. PICK e \in SUBSET {"vendor", "tamisu"} :
         /\ i.dirs = [d \in DOMAIN i.dirs |-> [list |-> e, kos |-> e]]
         /\ "vendor" \in e <=> StockDirs(i.os) # {}
  BY DEF Standard
<1>2. \A d \in DOMAIN i.dirs : i.dirs[d] = [list |-> e, kos |-> e] BY <1>1
<1>3. \A d \in DOMAIN i.dirs : i.dirs[d].list = e /\ i.dirs[d].kos = e BY <1>2
<1>4. StockDirs(i.os) # {} => DOMAIN i.dirs = StockDirs(i.os) BY DEF Standard
<1> QED BY <1>1, <1>3, <1>4

LEMMA StandardBoots ==
  ASSUME NEW i, Standard(i), i.os \in Versions, i.torn = FALSE
  PROVE  Boots(i) /\ (Patched(i) => "tamisu" \in Listed(i))
<1>1. PICK e \in SUBSET {"vendor", "tamisu"} :
         /\ \A d \in DOMAIN i.dirs : i.dirs[d].list = e /\ i.dirs[d].kos = e
         /\ "vendor" \in e <=> StockDirs(i.os) # {}
         /\ StockDirs(i.os) # {} => DOMAIN i.dirs = StockDirs(i.os)
  BY StandardSet
<1>2. LoadDirs(i) = DOMAIN i.dirs BY DEF LoadDirs, Standard
<1>3. Listed(i) = Loadable(i) BY <1>1, <1>2 DEF Listed, Loadable
<1>4. \A d \in DOMAIN i.dirs : e \subseteq Listed(i) BY <1>1, <1>2 DEF Listed
<1>5. Layout[i.os] # "none" => "vendor" \in Listed(i)
  BY <1>1, <1>4, StockDirsOne
<1>6. Patched(i) => "tamisu" \in Listed(i) BY <1>1, <1>4 DEF Patched
<1> QED BY <1>3, <1>5, <1>6 DEF Boots

LEMMA StandardClean ==
  ASSUME NEW i, Standard(i), i.os \in Versions, i.torn = FALSE, ~Patched(i)
  PROVE  Clean(i)
<1>1. PICK e \in SUBSET {"vendor", "tamisu"} :
         /\ \A d \in DOMAIN i.dirs : i.dirs[d].list = e /\ i.dirs[d].kos = e
         /\ i.dirs = [d \in DOMAIN i.dirs |-> [list |-> e, kos |-> e]]
         /\ "vendor" \in e <=> StockDirs(i.os) # {}
         /\ StockDirs(i.os) # {} => DOMAIN i.dirs = StockDirs(i.os)
  BY StandardSet
<1> DEFINE full == {d \in DOMAIN i.dirs : i.dirs[d] # Bare}
<1>2. \A d \in DOMAIN i.dirs : i.dirs[d] = [list |-> e, kos |-> e] BY <1>1
<1>3. \A d \in DOMAIN i.dirs : "tamisu" \notin e BY <1>1 DEF Patched
<1>4. CASE StockDirs(i.os) # {}
  <2>1. DOMAIN i.dirs = StockDirs(i.os) BY <1>1, <1>4
  <2>2. e = {"vendor"} BY <1>1, <1>3, <1>4, <2>1
  <2>3. \A d \in DOMAIN i.dirs : i.dirs[d] = Vendor BY <1>2, <2>2 DEF Vendor
  <2>4. Vendor # Bare
    <3>1. Vendor.list # Bare.list BY DEF Vendor, Bare
    <3> QED BY <3>1
  <2>5. full = StockDirs(i.os) BY <2>1, <2>3, <2>4
  <2>6. [d \in full |-> i.dirs[d]] = [d \in StockDirs(i.os) |-> Vendor] BY <2>1, <2>3, <2>5
  <2> QED BY <2>6 DEF Clean, Stock
<1>5. CASE StockDirs(i.os) = {}
  <2>1. full = {}
    <3>1. SUFFICES ASSUME NEW d \in DOMAIN i.dirs PROVE i.dirs[d] = Bare OBVIOUS
    <3>2. "vendor" \notin e BY <1>1, <1>5
    <3>3. "tamisu" \notin e BY <1>3
    <3>4. e = {} BY <3>2, <3>3
    <3> QED BY <1>2, <3>1, <3>4 DEF Bare
  <2>2. [d \in full |-> i.dirs[d]] = [d \in StockDirs(i.os) |-> Vendor] BY <1>5, <2>1
  <2> QED BY <2>2 DEF Clean, Stock
<1> QED BY <1>4, <1>5

LEMMA StockOK ==
  ASSUME NEW v \in Versions
  PROVE  ImageOK(Stock(v))
<1> DEFINE i == Stock(v)
<1>1. i = [os |-> v, bak |-> <<>>, torn |-> FALSE, odd |-> FALSE, dirs |-> [d \in StockDirs(v) |-> Vendor]]
  BY DEF Stock
<1>2. i.os = v /\ i.bak = <<>> /\ i.torn = FALSE /\ i.odd = FALSE
      /\ i.dirs = [d \in StockDirs(v) |-> Vendor]
  BY <1>1
<1> HIDE DEF i
<1>3. IsImage(i) BY <1>1, <1>2 DEF IsImage
<1>4. DOMAIN i.dirs = StockDirs(v) BY <1>2
<1>5. PICK e \in SUBSET {"vendor", "tamisu"} : e = IF StockDirs(v) = {} THEN {} ELSE {"vendor"}
  OBVIOUS
<1>6. i.dirs = [d \in DOMAIN i.dirs |-> [list |-> e, kos |-> e]]
  BY <1>2, <1>4, <1>5 DEF Vendor
<1>7. Standard(i) BY <1>2, <1>4, <1>5, <1>6, StockDirsOne DEF Standard
<1>8. NamesClean(i) BY <1>2 DEF NamesClean
<1> QED BY <1>3, <1>7, <1>8 DEF ImageOK, i

\* What an image is does not depend on its having been written whole.
LEMMA TornOK ==
  ASSUME NEW i, ImageOK(i), NEW torn \in BOOLEAN
  PROVE  ImageOK([i EXCEPT !.torn = torn])
<1> DEFINE j == [i EXCEPT !.torn = torn]
<1>1. j = [os |-> i.os, bak |-> i.bak, torn |-> torn, odd |-> i.odd, dirs |-> i.dirs]
  BY DEF ImageOK, IsImage
<1>2. j.os = i.os /\ j.bak = i.bak /\ j.torn = torn /\ j.odd = i.odd /\ j.dirs = i.dirs BY <1>1
<1> HIDE DEF j
<1>3. IsImage(j) BY <1>1, <1>2 DEF ImageOK, IsImage
<1>4. Standard(i) => Standard(j) BY <1>2 DEF Standard
<1>5. NamesClean(i) => NamesClean(j) BY <1>2 DEF NamesClean
<1> QED BY <1>2, <1>3, <1>4, <1>5 DEF ImageOK, j

\* Its note may name what is a clean image of the same system.
LEMMA NotedOK ==
  ASSUME NEW i, ImageOK(i), NEW b, i.odd = FALSE => Clean(b) /\ b.os = i.os
  PROVE  ImageOK([i EXCEPT !.bak = <<b>>])
<1> DEFINE j == [i EXCEPT !.bak = <<b>>]
<1>1. j = [os |-> i.os, bak |-> <<b>>, torn |-> i.torn, odd |-> i.odd, dirs |-> i.dirs]
  BY DEF ImageOK, IsImage
<1>2. j.os = i.os /\ j.bak = <<b>> /\ j.torn = i.torn /\ j.odd = i.odd /\ j.dirs = i.dirs BY <1>1
<1> HIDE DEF j
<1>3. IsImage(j) BY <1>1, <1>2 DEF ImageOK, IsImage
<1>4. Standard(i) => Standard(j) BY <1>2 DEF Standard
<1>5. i.odd = FALSE => NamesClean(j)
  <2>1. <<b>>[1] = b OBVIOUS
  <2>2. j.bak[1] = b BY <1>2, <2>1
  <2> QED BY <1>2, <2>2 DEF NamesClean
<1> QED BY <1>2, <1>3, <1>4, <1>5 DEF ImageOK, j

\* The directory patched is in the one the image has, or the image has none.
LEMMA SelectsStandard ==
  ASSUME NEW i, Standard(i), NEW r, NEW d \in SelectDirs(i, r)
  PROVE  DOMAIN i.dirs = {d} \/ DOMAIN i.dirs = {}
<1> DEFINE listing == {e \in DOMAIN i.dirs : i.dirs[e].list # {}}
<1>1. d \in DOMAIN i.dirs \/ DOMAIN i.dirs = {}
  <2>1. CASE r \in DOMAIN i.dirs BY <2>1 DEF SelectDirs
  <2>2. CASE r \notin DOMAIN i.dirs /\ listing # {}
    <3>1. SelectDirs(i, r) = listing BY <2>2 DEF SelectDirs
    <3> QED BY <3>1
  <2>3. CASE r \notin DOMAIN i.dirs /\ listing = {}
    <3>1. SelectDirs(i, r) = IF DOMAIN i.dirs # {} THEN DOMAIN i.dirs ELSE {r}
      BY <2>3 DEF SelectDirs
    <3> QED BY <3>1
  <2> QED BY <2>1, <2>2, <2>3
<1> QED BY <1>1 DEF Standard

\* What is common to every patched image: all but its directories.
LEMMA InjectFields ==
  ASSUME NEW i, IsImage(i), NEW d, NEW kept \in BOOLEAN, NEW fault \in BOOLEAN
  PROVE  LET j == [Inject(i, d, kept) EXCEPT !.odd = @ \/ fault]
         IN /\ IsImage(j) /\ j.os = i.os /\ j.bak = i.bak /\ j.torn = i.torn
            /\ j.odd = (i.odd \/ fault) /\ j.dirs = Inject(i, d, kept).dirs
<1> DEFINE dirs == Inject(i, d, kept).dirs
           j == [Inject(i, d, kept) EXCEPT !.odd = @ \/ fault]
<1>1. PICK x : Inject(i, d, kept) = [i EXCEPT !.dirs = x] BY DEF Inject
<1>2. Inject(i, d, kept) = [os |-> i.os, bak |-> i.bak, torn |-> i.torn, odd |-> i.odd, dirs |-> x]
  BY <1>1 DEF IsImage
<1>3. dirs = x BY <1>2
<1>4. j = [os |-> i.os, bak |-> i.bak, torn |-> i.torn, odd |-> i.odd \/ fault, dirs |-> dirs]
  BY <1>2, <1>3
<1>5. i.odd \in BOOLEAN /\ i.torn \in BOOLEAN /\ i.os \in Versions BY DEF IsImage
<1> HIDE DEF dirs, j
<1>6. j.os = i.os /\ j.bak = i.bak /\ j.torn = i.torn /\ j.odd = (i.odd \/ fault) /\ j.dirs = dirs
  BY <1>4
<1>7. IsImage(j) BY <1>4, <1>5, <1>6 DEF IsImage
<1> QED BY <1>6, <1>7 DEF dirs, j

\* Merged into the one directory, ours comes beside what is there.
LEMMA InjectStandard ==
  ASSUME NEW i, IsImage(i), Standard(i), NEW r, NEW d \in SelectDirs(i, r), NEW j,
         j.os = i.os, j.dirs = Inject(i, d, TRUE).dirs
  PROVE  Standard(j)
<1>1. PICK e \in SUBSET {"vendor", "tamisu"} :
         /\ \A x \in DOMAIN i.dirs : i.dirs[x].list = e /\ i.dirs[x].kos = e
         /\ "vendor" \in e <=> StockDirs(i.os) # {}
         /\ StockDirs(i.os) # {} => DOMAIN i.dirs = StockDirs(i.os)
  <2>1. i.os \in Versions BY DEF IsImage
  <2> QED BY <2>1, StandardSet
<1> DEFINE had == IF d \in DOMAIN i.dirs THEN i.dirs[d] ELSE Bare
           merged == [list |-> had.list \cup {"tamisu"}, kos |-> had.kos \cup {"tamisu"}]
           dirs == [x \in DOMAIN i.dirs \cup {d} |-> IF x = d THEN merged ELSE i.dirs[x]]
<1>2. Inject(i, d, TRUE) = [i EXCEPT !.dirs = dirs] BY DEF Inject
<1>3. j.dirs = dirs
  <2> HIDE DEF dirs
  <2>1. [i EXCEPT !.dirs = dirs].dirs = dirs BY DEF IsImage
  <2> QED BY <1>2, <2>1
<1>4. DOMAIN i.dirs \cup {d} = {d} BY SelectsStandard
<1>5. j.dirs = [x \in {d} |-> merged] BY <1>3, <1>4
<1>6. DOMAIN i.dirs = {d} \/ DOMAIN i.dirs = {} BY SelectsStandard
<1>7. PICK f \in SUBSET {"vendor", "tamisu"} :
         /\ had.list = f /\ had.kos = f
         /\ "vendor" \in f <=> StockDirs(i.os) # {}
  <2>1. CASE DOMAIN i.dirs = {d} BY <1>1, <2>1
  <2>2. CASE DOMAIN i.dirs = {}
    <3>1. had = Bare BY <2>2
    <3>2. StockDirs(i.os) = {} BY <2>2 DEF Standard
    <3>3. had.list = {} /\ had.kos = {} BY <3>1 DEF Bare
    <3> QED BY <3>2, <3>3
  <2> QED BY <1>6, <2>1, <2>2
<1> HIDE DEF had
<1>8. merged = [list |-> f \cup {"tamisu"}, kos |-> f \cup {"tamisu"}] BY <1>7
<1> HIDE DEF merged
<1>9. DOMAIN j.dirs = {d} BY <1>5
<1>10. j.dirs = [x \in DOMAIN j.dirs |-> [list |-> f \cup {"tamisu"}, kos |-> f \cup {"tamisu"}]]
  BY <1>5, <1>8, <1>9
<1>11. f \cup {"tamisu"} \in SUBSET {"vendor", "tamisu"} OBVIOUS
<1>12. "vendor" \in f \cup {"tamisu"} <=> StockDirs(j.os) # {} BY <1>7
<1>13. StockDirs(j.os) \subseteq DOMAIN j.dirs BY <1>6, <1>9 DEF Standard
<1>14. \E e2 \in SUBSET {"vendor", "tamisu"} :
         /\ j.dirs = [x \in DOMAIN j.dirs |-> [list |-> e2, kos |-> e2]]
         /\ "vendor" \in e2 <=> StockDirs(j.os) # {}
  BY <1>10, <1>11, <1>12
<1> QED BY <1>9, <1>13, <1>14 DEF Standard

\* What boot-patch makes of an image, with or without a failure passed over.
LEMMA PatchesOK ==
  ASSUME NEW i, ImageOK(i), NEW r, NEW faults \in BOOLEAN, NEW p \in Patches(i, r, faults)
  PROVE  /\ ImageOK(p.image) /\ p.image.os = i.os
         /\ p.seen \in BOOLEAN
         /\ p.image.odd = FALSE => i.odd = FALSE /\ p.seen = Patched(i)
<1>1. Patched(i) \in BOOLEAN BY DEF Patched
<1>2. PICK d \in SelectDirs(i, r) \cup {r}, kept \in BOOLEAN, seen \in BOOLEAN, fault \in BOOLEAN :
         /\ p = [image |-> [Inject(i, d, kept) EXCEPT !.odd = @ \/ fault], seen |-> seen, fault |-> fault]
         /\ fault = FALSE => d \in SelectDirs(i, r) /\ kept = TRUE /\ seen = Patched(i)
  <2> DEFINE Made(d, kept, seen, fault) ==
               [image |-> [Inject(i, d, kept) EXCEPT !.odd = @ \/ fault], seen |-> seen, fault |-> fault]
  <2>1. \/ \E d \in SelectDirs(i, r) : p = Made(d, TRUE, Patched(i), FALSE)
        \/ \E d \in SelectDirs(i, r) : p = Made(d, FALSE, Patched(i), TRUE)
        \/ \E d \in SelectDirs(i, r) : p = Made(d, TRUE, FALSE, TRUE)
        \/ p = Made(r, TRUE, Patched(i), TRUE)
    BY DEF Patches
  <2>2. PICK d \in SelectDirs(i, r) \cup {r}, kept \in BOOLEAN, seen \in BOOLEAN, fault \in BOOLEAN :
           /\ p = Made(d, kept, seen, fault)
           /\ fault = FALSE => d \in SelectDirs(i, r) /\ kept = TRUE /\ seen = Patched(i)
    <3> HIDE DEF Made
    <3>1. PICK was \in BOOLEAN : was = Patched(i) BY <1>1
    <3>2. CASE \E d \in SelectDirs(i, r) : p = Made(d, TRUE, Patched(i), FALSE) BY <3>1, <3>2
    <3>3. CASE \E d \in SelectDirs(i, r) : p = Made(d, FALSE, Patched(i), TRUE) BY <3>1, <3>3
    <3>4. CASE \E d \in SelectDirs(i, r) : p = Made(d, TRUE, FALSE, TRUE) BY <3>1, <3>4
    <3>5. CASE p = Made(r, TRUE, Patched(i), TRUE) BY <3>1, <3>5
    <3> QED BY <2>1, <3>2, <3>3, <3>4, <3>5
  <2> QED BY <2>2
<1> DEFINE j == [Inject(i, d, kept) EXCEPT !.odd = @ \/ fault]
<1>3. /\ IsImage(j) /\ j.os = i.os /\ j.bak = i.bak
      /\ j.odd = (i.odd \/ fault) /\ j.dirs = Inject(i, d, kept).dirs
  BY InjectFields DEF ImageOK
<1>4. p.image = j /\ p.seen = seen BY <1>2
<1> HIDE DEF j
<1>5. j.odd = FALSE => i.odd = FALSE /\ fault = FALSE BY <1>3 DEF ImageOK, IsImage
<1>6. j.odd = FALSE => Standard(j)
  <2>1. HAVE j.odd = FALSE
  <2>2. d \in SelectDirs(i, r) /\ kept = TRUE /\ Standard(i) /\ IsImage(i)
    BY <1>2, <1>5, <2>1 DEF ImageOK
  <2> QED BY <1>3, <2>2, InjectStandard
<1>7. j.odd = FALSE => NamesClean(j) BY <1>3, <1>5 DEF NamesClean, ImageOK
<1> QED BY <1>2, <1>3, <1>4, <1>5, <1>6, <1>7 DEF ImageOK

LEMMA StripFields ==
  ASSUME NEW i, IsImage(i), NEW r
  PROVE  LET j == Strip(i, r)
             ours == {d \in DOMAIN i.dirs : "tamisu" \in i.dirs[d].kos} \cup {r}
         IN /\ IsImage(j) /\ j.os = i.os /\ j.bak = i.bak /\ j.torn = i.torn /\ j.odd = i.odd
            /\ j.dirs = [d \in DOMAIN i.dirs |->
                           IF d \in ours THEN [list |-> i.dirs[d].list \ {"tamisu"},
                                               kos |-> i.dirs[d].kos \ {"tamisu"}]
                                         ELSE i.dirs[d]]
<1> DEFINE j == Strip(i, r)
           ours == {d \in DOMAIN i.dirs : "tamisu" \in i.dirs[d].kos} \cup {r}
           dirs == [d \in DOMAIN i.dirs |->
                      IF d \in ours THEN [list |-> i.dirs[d].list \ {"tamisu"},
                                          kos |-> i.dirs[d].kos \ {"tamisu"}]
                                    ELSE i.dirs[d]]
<1>1. j = [i EXCEPT !.dirs = dirs] BY DEF Strip
<1> HIDE DEF j, dirs
<1>2. j = [os |-> i.os, bak |-> i.bak, torn |-> i.torn, odd |-> i.odd, dirs |-> dirs]
  BY <1>1 DEF IsImage
<1>3. j.os = i.os /\ j.bak = i.bak /\ j.torn = i.torn /\ j.odd = i.odd /\ j.dirs = dirs BY <1>2
<1>4. IsImage(j) BY <1>2, <1>3 DEF IsImage
<1> QED BY <1>3, <1>4 DEF j, dirs

\* The strip of a standard image leaves it standard, and clean.
LEMMA StripOK ==
  ASSUME NEW i, ImageOK(i), NEW r
  PROVE  /\ ImageOK(Strip(i, r)) /\ Strip(i, r).os = i.os
         /\ i.odd = FALSE /\ i.torn = FALSE => Clean(Strip(i, r))
<1> DEFINE j == Strip(i, r)
           ours == {d \in DOMAIN i.dirs : "tamisu" \in i.dirs[d].kos} \cup {r}
<1>1. /\ IsImage(j) /\ j.os = i.os /\ j.bak = i.bak /\ j.torn = i.torn /\ j.odd = i.odd
      /\ j.dirs = [d \in DOMAIN i.dirs |->
                     IF d \in ours THEN [list |-> i.dirs[d].list \ {"tamisu"},
                                         kos |-> i.dirs[d].kos \ {"tamisu"}]
                                   ELSE i.dirs[d]]
  BY StripFields DEF ImageOK
<1> HIDE DEF j
<1>2. ASSUME i.odd = FALSE PROVE Standard(j) /\ ~Patched(j)
  <2>1. Standard(i) /\ i.os \in Versions BY <1>2 DEF ImageOK, IsImage
  <2>2. PICK e \in SUBSET {"vendor", "tamisu"} :
           /\ \A x \in DOMAIN i.dirs : i.dirs[x].list = e /\ i.dirs[x].kos = e
           /\ i.dirs = [d \in DOMAIN i.dirs |-> [list |-> e, kos |-> e]]
           /\ "vendor" \in e <=> StockDirs(i.os) # {}
    BY <2>1, StandardSet
  <2> DEFINE f == e \ {"tamisu"}
  <2>3. DOMAIN j.dirs = DOMAIN i.dirs BY <1>1
  <2>4. ASSUME NEW d \in DOMAIN i.dirs PROVE j.dirs[d] = [list |-> f, kos |-> f]
    <3>1. CASE d \in ours BY <1>1, <2>2, <3>1
    <3>2. CASE d \notin ours
      <4>1. "tamisu" \notin e BY <2>2, <2>4, <3>2
      <4>2. f = e BY <4>1
      <4>3. i.dirs[d] = [list |-> e, kos |-> e] BY <2>2, <2>4
      <4>4. j.dirs[d] = i.dirs[d] BY <1>1, <2>4, <3>2
      <4> QED BY <4>2, <4>3, <4>4
    <3> QED BY <3>1, <3>2
  <2>5. j.dirs = [d \in DOMAIN j.dirs |-> [list |-> f, kos |-> f]] BY <1>1, <2>3, <2>4
  <2>6. f \in SUBSET {"vendor", "tamisu"} /\ ("vendor" \in f <=> StockDirs(j.os) # {})
    BY <1>1, <2>2
  <2>7. \A d \in DOMAIN j.dirs : j.dirs[d].kos = f BY <2>3, <2>4
  <2>8. ~Patched(j) BY <2>7 DEF Patched
  <2> HIDE DEF f
  <2>9. \E g \in SUBSET {"vendor", "tamisu"} :
           /\ j.dirs = [d \in DOMAIN j.dirs |-> [list |-> g, kos |-> g]]
           /\ "vendor" \in g <=> StockDirs(j.os) # {}
    BY <2>5, <2>6
  <2>10. Standard(j) BY <1>1, <2>1, <2>3, <2>9 DEF Standard
  <2> QED BY <2>8, <2>10
<1>3. j.odd = FALSE => NamesClean(j) BY <1>1 DEF NamesClean, ImageOK
<1>4. ImageOK(j) BY <1>1, <1>2, <1>3 DEF ImageOK
<1>5. i.odd = FALSE /\ i.torn = FALSE => Clean(j)
  BY <1>1, <1>2, StandardClean DEF IsImage
<1> QED BY <1>1, <1>4, <1>5 DEF j

Command(op, at, which, src, new, seen, cut) ==
  [op |-> op, at |-> at, slot |-> which, src |-> src, new |-> new, seen |-> seen, cut |-> cut]

\* A command that is put together from images that are right.
LEMMA CommandHolds ==
  ASSUME NEW op, NEW at, NEW which \in BootSlots, NEW src, NEW new, NEW seen \in BOOLEAN, NEW cut \in BOOLEAN,
         cmd' = Command(op, at, which, src, new, seen, cut),
         ImageOK(src), ImageOK(new), Places(op, at),
         at = "backup" => /\ src.torn = FALSE /\ src.os = new.os
                          /\ new.odd = FALSE => src.odd = FALSE /\ seen = Patched(src),
         op \in Restores /\ at \in {"flash", "write"} => Restored(src, new, cut)
  PROVE  CommandInv' /\ cmd'.op = op /\ cmd'.at = at
<1> DEFINE c == cmd'
<1>1. c = [op |-> op, at |-> at, slot |-> which, src |-> src, new |-> new, seen |-> seen, cut |-> cut]
  BY DEF Command
<1>2. /\ c.op = op /\ c.at = at /\ c.slot = which /\ c.src = src /\ c.new = new
      /\ c.seen = seen /\ c.cut = cut
  BY <1>1
<1> HIDE DEF c
<1>3. IsCommand(c) BY <1>1, <1>2 DEF IsCommand
<1>4. c.at = "backup" =>
        /\ c.src.torn = FALSE /\ c.src.os = c.new.os
        /\ c.new.odd = FALSE => c.src.odd = FALSE /\ c.seen = Patched(c.src)
  BY <1>2
<1>5. c.op \in Restores /\ c.at \in {"flash", "write"} => Restored(c.src, c.new, c.cut) BY <1>2
<1>6. Places(c.op, c.at) BY <1>2
<1> QED BY <1>2, <1>3, <1>4, <1>5, <1>6 DEF CommandInv, c

LEMMA CommandMoves ==
  ASSUME IsCommand(cmd), NEW at
  PROVE  [cmd EXCEPT !.at = at] = Command(cmd.op, at, cmd.slot, cmd.src, cmd.new, cmd.seen, cmd.cut)
  BY DEF IsCommand, Command

\* One that comes to write, or does.
LEMMA CommandWrites ==
  ASSUME NEW op, NEW at \in {"flash", "write"}, NEW which \in BootSlots, NEW src, NEW new, NEW seen \in BOOLEAN,
         NEW cut \in BOOLEAN, cmd' = Command(op, at, which, src, new, seen, cut),
         ImageOK(src), ImageOK(new), Places(op, at), op \in Restores => Restored(src, new, cut)
  PROVE  CommandInv' /\ cmd'.op = op /\ cmd'.at = at
<1>1. at # "backup" OBVIOUS
<1> QED BY <1>1, CommandHolds

\* With no command there is nothing that could be wrong.
LEMMA NoCommandHolds ==
  ASSUME NEW s \in BootSlots, cmd' = Command("none", "idle", s, Stock(Factory), Stock(Factory), FALSE, FALSE)
  PROVE  CommandInv' /\ cmd'.op = "none" /\ cmd'.at = "idle"
<1>1. ImageOK(Stock(Factory)) BY StockOK, ImageAssumption
<1> QED BY <1>1, CommandHolds DEF Places, Restores

LEMMA NoCommandIs ==
  /\ NoCommand = Command("none", "idle", booted, Stock(Factory), Stock(Factory), FALSE, FALSE)
  /\ \A s \in BootSlots : [NoCommand EXCEPT !.slot = s] = Command("none", "idle", s, Stock(Factory), Stock(Factory), FALSE, FALSE)
<1>1. NoCommand = Command("none", "idle", booted, Stock(Factory), Stock(Factory), FALSE, FALSE)
  BY DEF NoCommand, Command
<1>2. ASSUME NEW s \in BootSlots
      PROVE  [NoCommand EXCEPT !.slot = s] = Command("none", "idle", s, Stock(Factory), Stock(Factory), FALSE, FALSE)
  <2>1. PICK c : c = [NoCommand EXCEPT !.slot = s] OBVIOUS
  <2>2. c = Command("none", "idle", s, Stock(Factory), Stock(Factory), FALSE, FALSE)
    BY <2>1 DEF NoCommand, Command
  <2> QED BY <2>1, <2>2
<1> QED BY <1>1, <1>2

LEMMA EndedHolds ==
  ASSUME ImagesInv, CommandInv, cmd.op # "none", cmd' = Ended
  PROVE  CommandInv' /\ cmd'.at \in {"idle", "reboot"}
<1>1. CASE cmd.op = "uninstall"
  <2>1. IsCommand(cmd) BY DEF CommandInv
  <2>2. cmd' = Command("uninstall", "reboot", cmd.slot, cmd.src, cmd.new, cmd.seen, cmd.cut)
    BY <1>1, <2>1, CommandMoves DEF Ended
  <2>3. /\ cmd.slot \in BootSlots /\ ImageOK(cmd.src) /\ ImageOK(cmd.new)
        /\ cmd.seen \in BOOLEAN /\ cmd.cut \in BOOLEAN
    BY <2>1 DEF IsCommand
  <2>4. Places("uninstall", "reboot") BY DEF Places
  <2> QED BY <2>2, <2>3, <2>4, CommandHolds
<1>2. CASE cmd.op # "uninstall"
  <2>1. cmd' = NoCommand BY <1>2 DEF Ended
  <2> QED BY <2>1, NoCommandIs, NoCommandHolds DEF ImagesInv
<1> QED BY <1>1, <1>2

LEMMA NothingLast ==
  ASSUME last'.op = "none", last'.slot \in BootSlots
  PROVE  LastInv'
  BY DEF LastInv, Restores

LEMMA NoLastIs ==
  /\ NoLast.op = "none" /\ NoLast.slot = booted
  /\ \A s : [NoLast EXCEPT !.slot = s].op = "none" /\ [NoLast EXCEPT !.slot = s].slot = s
  BY DEF NoLast

\* What an action leaves alone stays right.
LEMMA ImagesStay ==
  ASSUME ImagesInv, UNCHANGED <<booted, img, out>>, store' \subseteq store
  PROVE  ImagesInv'
  BY DEF ImagesInv

LEMMA SlotWritten ==
  ASSUME ImagesInv, NEW s \in BootSlots, NEW i, ImageOK(i), img' = [img EXCEPT ![s] = i]
  PROVE  img' = [x \in BootSlots |-> img'[x]] /\ (\A x \in BootSlots : ImageOK(img'[x])) /\ img'[s] = i
  BY DEF ImagesInv

LEMMA FlushedOK ==
  ASSUME NEW files, \A x \in files : x = [of |-> x.of, body |-> x.body] /\ ImageOK(x.of)
  PROVE  \A x \in Flushed(files) : x = [of |-> x.of, body |-> x.body] /\ ImageOK(x.of)
<1> TAKE x \in Flushed(files)
<1>0. PICK b \in files : \E body : x = [b EXCEPT !.body = body] BY DEF Flushed
<1>1. PICK body : x = [b EXCEPT !.body = body] BY <1>0
<1>2. x = [of |-> b.of, body |-> body] BY <1>1
<1>3. x.of = b.of /\ x.body = body BY <1>2
<1> QED BY <1>2, <1>3

-----------------------------------------------------------------------------
(* One lemma per action. *)

LEMMA PatchKeeps ==
  ASSUME ImageIInv, NEW s \in BootSlots, Patch(s)
  PROVE  ImageIInv'
<1>1. ImageOK(img[s]) /\ img[s].torn = FALSE
  BY DEF ImageIInv, ImagesInv, Patch, ImageOK, IsImage
<1>2. PICK p \in Patches(img[s], RunningRelease, Troubled) :
         cmd' = [op |-> "patch", at |-> "backup", slot |-> s, src |-> img[s],
                 new |-> p.image, seen |-> p.seen, cut |-> FALSE]
  BY DEF Patch
<1>3. Troubled \in BOOLEAN BY DEF Troubled
<1>4. /\ ImageOK(p.image) /\ p.image.os = img[s].os /\ p.seen \in BOOLEAN
      /\ p.image.odd = FALSE => img[s].odd = FALSE /\ p.seen = Patched(img[s])
  BY <1>1, <1>2, <1>3, PatchesOK
<1>5. CommandInv'
  <2>1. cmd' = Command("patch", "backup", s, img[s], p.image, p.seen, FALSE) BY <1>2 DEF Command
  <2>2. Places("patch", "backup") BY DEF Places
  <2> QED BY <1>1, <1>4, <2>1, <2>2, CommandHolds
<1>6. ImagesInv' BY ImagesStay DEF ImageIInv, Patch, Begin
<1>7. LastInv' BY NothingLast, NoLastIs DEF ImageIInv, ImagesInv, Patch, Begin
<1> QED BY <1>5, <1>6, <1>7 DEF ImageIInv

LEMMA PatchFileKeeps ==
  ASSUME ImageIInv, PatchFile
  PROVE  ImageIInv'
<1>1. PICK src \in {Stock(v) : v \in Versions} \cup {img[s] : s \in BootSlots} :
         \E p \in Patches(src, RunningRelease, Troubled) : out' = <<p.image>>
  BY DEF PatchFile
<1>2. ImageOK(src) BY <1>1, StockOK DEF ImageIInv, ImagesInv
<1>3. PICK p \in Patches(src, RunningRelease, Troubled) : out' = <<p.image>> BY <1>1
<1>4. Troubled \in BOOLEAN BY DEF Troubled
<1>5. ImageOK(p.image) BY <1>2, <1>3, <1>4, PatchesOK
<1>6. out' = <<out'[1]>> /\ ImageOK(out'[1]) BY <1>3, <1>5
<1>7. ImagesInv' BY <1>6 DEF ImageIInv, ImagesInv, PatchFile
<1>8. CommandInv' BY DEF ImageIInv, CommandInv, PatchFile
<1>9. LastInv' BY NothingLast, NoLastIs DEF ImageIInv, ImagesInv, PatchFile, Begin
<1> QED BY <1>7, <1>8, <1>9 DEF ImageIInv

\* The note is made when the image did not look patched, and what is standard
\* and not patched is clean.
LEMMA BackupKeeps ==
  ASSUME ImageIInv, Backup
  PROVE  ImageIInv'
<1> USE DEF ImageIInv
<1>1. /\ IsCommand(cmd) /\ cmd.op = "patch" /\ cmd.at = "backup"
      /\ cmd.src.torn = FALSE /\ cmd.src.os = cmd.new.os
      /\ cmd.new.odd = FALSE => cmd.src.odd = FALSE /\ cmd.seen = Patched(cmd.src)
  BY DEF CommandInv, Backup
<1>2. /\ cmd.slot \in BootSlots /\ ImageOK(cmd.src) /\ ImageOK(cmd.new)
      /\ cmd.seen \in BOOLEAN /\ cmd.cut \in BOOLEAN
  BY <1>1 DEF IsCommand
<1>3. Places("patch", "flash") BY DEF Places
<1>4. ASSUME cmd' = [cmd EXCEPT !.at = "flash"]
      PROVE  CommandInv' /\ cmd'.at = "flash"
  <2>1. cmd' = Command("patch", "flash", cmd.slot, cmd.src, cmd.new, cmd.seen, cmd.cut)
    BY <1>1, <1>4, CommandMoves
  <2>2. "patch" \notin Restores BY DEF Restores
  <2> QED BY <1>2, <1>3, <2>1, <2>2, CommandWrites
<1>5. ASSUME cmd' = Noted, ~cmd.seen
      PROVE  CommandInv' /\ cmd'.at = "flash"
  <2> DEFINE new == [cmd.new EXCEPT !.bak = <<cmd.src>>]
  <2>1. cmd' = Command("patch", "flash", cmd.slot, cmd.src, new, cmd.seen, cmd.cut)
    BY <1>1, <1>5 DEF Noted, IsCommand, Command
  <2>2. cmd.new.odd = FALSE => Clean(cmd.src)
    <3>1. HAVE cmd.new.odd = FALSE
    <3>2. cmd.src.odd = FALSE /\ ~Patched(cmd.src) BY <1>1, <1>5, <3>1
    <3>3. Standard(cmd.src) /\ cmd.src.os \in Versions BY <1>2, <3>2 DEF ImageOK, IsImage
    <3> QED BY <1>1, <3>2, <3>3, StandardClean
  <2>3. ImageOK(new) BY <1>1, <1>2, <2>2, NotedOK
  <2> HIDE DEF new
  <2>4. "patch" \notin Restores BY DEF Restores
  <2> QED BY <1>2, <1>3, <2>1, <2>3, <2>4, CommandWrites
<1>6. CommandInv' /\ cmd'.at = "flash"
  <2>1. cmd' = [cmd EXCEPT !.at = "flash"] \/ (cmd' = Noted /\ ~cmd.seen)
    BY DEF Backup, WantsBackup
  <2> QED BY <1>4, <1>5, <2>1
<1>7. \A x \in store' : x = [of |-> x.of, body |-> x.body] /\ ImageOK(x.of)
  <2>1. store' = store \/ store' = Saved("dirty") \/ store' = Saved("cut") BY DEF Backup
  <2>2. ASSUME NEW body PROVE \A x \in Saved(body) : x = [of |-> x.of, body |-> x.body] /\ ImageOK(x.of)
    BY <1>2 DEF Saved, ImagesInv
  <2> QED BY <2>1, <2>2 DEF ImagesInv
<1>8. ImagesInv' BY <1>7 DEF ImagesInv, Backup
<1>9. LastInv'
  <2>1. last.op = "none" BY <1>1 DEF LastInv
  <2>2. last' = last /\ img' = img BY DEF Backup
  <2> QED BY <2>1, <2>2 DEF LastInv, Restores
<1> QED BY <1>6, <1>8, <1>9

LEMMA RestoreKeeps ==
  ASSUME ImageIInv, Restore
  PROVE  ImageIInv'
<1>1. ImageOK(Stock(Factory)) BY StockOK, ImageAssumption
<1>2. cmd' = Command("restore", "find", booted, Stock(Factory), Stock(Factory), FALSE, FALSE)
  BY DEF Restore, NoCommand, Command
<1>3. Places("restore", "find") BY DEF Places
<1>4. booted \in BootSlots BY DEF ImageIInv, ImagesInv
<1>5. CommandInv' BY <1>1, <1>2, <1>3, <1>4, CommandHolds
<1>6. ImagesInv' BY ImagesStay DEF ImageIInv, Restore
<1>7. LastInv' BY <1>4, NothingLast, NoLastIs DEF Restore, Begin
<1> QED BY <1>5, <1>6, <1>7 DEF ImageIInv

LEMMA UninstallKeeps ==
  ASSUME ImageIInv, NEW caller \in Callers, Uninstall(caller)
  PROVE  ImageIInv'
<1>1. ImageOK(Stock(Factory)) BY StockOK, ImageAssumption
<1>2. booted \in BootSlots /\ ImageOK(img[booted]) BY DEF ImageIInv, ImagesInv
<1>3. PICK at \in {"find", "reboot"} :
         cmd' = Command("uninstall", at, booted, img[booted], Stock(Factory), FALSE, FALSE)
  BY DEF Uninstall, NoCommand, Command
<1>4. Places("uninstall", at) BY DEF Places
<1>5. CommandInv' BY <1>1, <1>2, <1>3, <1>4, CommandHolds
<1>6. ImagesInv' BY ImagesStay DEF ImageIInv, Uninstall
<1>7. LastInv' BY <1>2, NothingLast, NoLastIs DEF Uninstall, Begin
<1> QED BY <1>5, <1>6, <1>7 DEF ImageIInv

\* A command that ends without writing.
LEMMA EndsKeeps ==
  ASSUME ImageIInv, NotPatched \/ Stop \/ FlashFails
  PROVE  ImageIInv'
<1>1. cmd' = Ended /\ cmd.at \in {"find", "backup", "flash", "write"}
      /\ UNCHANGED <<booted, img, store, out, last>>
  BY DEF NotPatched, Stop, FlashFails
<1>2. cmd.op # "none" BY <1>1 DEF ImageIInv, CommandInv, Places
<1>3. CommandInv' /\ cmd'.at \in {"idle", "reboot"} BY <1>1, <1>2, EndedHolds DEF ImageIInv
<1>4. ImagesInv' BY <1>1, ImagesStay DEF ImageIInv
<1>5. LastInv' BY <1>1, <1>3 DEF ImageIInv, LastInv
<1> QED BY <1>3, <1>4, <1>5 DEF ImageIInv

\* The named backup of a good image is the clean image of its system.
LEMMA FromBackupKeeps ==
  ASSUME ImageIInv, FromBackup
  PROVE  ImageIInv'
<1> DEFINE i == img[booted]
<1>1. ImageOK(i) /\ booted \in BootSlots BY DEF ImageIInv, ImagesInv
<1>2. PICK b \in Named :
         /\ store' = {b}
         /\ cmd' = [cmd EXCEPT !.at = "flash", !.src = i, !.new = b.of, !.cut = (b.body = "cut")]
  BY DEF FromBackup
<1>3. b \in store /\ i.bak = <<b.of>> BY <1>2 DEF Named
<1>4. ImageOK(b.of) BY <1>3 DEF ImageIInv, ImagesInv
<1>5. i.odd = FALSE => Clean(b.of) /\ b.of.os = i.os
  <2>1. HAVE i.odd = FALSE
  <2>2. i.bak # <<>> /\ i.bak[1] = b.of BY <1>3
  <2> QED BY <1>1, <2>1, <2>2 DEF ImageOK, NamesClean
<1>6. IsCommand(cmd) /\ cmd.at = "find" /\ cmd.op \in Restores
  BY DEF ImageIInv, CommandInv, FromBackup, Places, Restores
<1>7. /\ cmd.slot \in BootSlots /\ cmd.seen \in BOOLEAN
  BY <1>6 DEF IsCommand
<1>8. PICK cut \in BOOLEAN : cut = (b.body = "cut") OBVIOUS
<1>9. cmd' = Command(cmd.op, "flash", cmd.slot, i, b.of, cmd.seen, cut)
  <2> HIDE DEF i
  <2> QED BY <1>2, <1>6, <1>8 DEF IsCommand, Command
<1>10. Places(cmd.op, "flash") BY <1>6 DEF Places, Restores
<1>11. i.odd \in BOOLEAN BY <1>1 DEF ImageOK, IsImage
<1>12. Restored(i, b.of, cut) BY <1>5, <1>11 DEF Restored
<1> HIDE DEF i
<1>13. CommandInv' /\ cmd'.at = "flash"
  BY <1>1, <1>4, <1>7, <1>9, <1>10, <1>12, CommandWrites
<1>14. ImagesInv'
  <2>1. store' \subseteq store BY <1>2, <1>3
  <2> QED BY <2>1, ImagesStay DEF ImageIInv, FromBackup
<1>15. LastInv' BY <1>6 DEF ImageIInv, LastInv, Restores, FromBackup
<1> QED BY <1>13, <1>14, <1>15 DEF ImageIInv

LEMMA FromStripKeeps ==
  ASSUME ImageIInv, FromStrip
  PROVE  ImageIInv'
<1> DEFINE i == img[booted]
<1>1. ImageOK(i) /\ booted \in BootSlots BY DEF ImageIInv, ImagesInv
<1>2. PICK new :
         /\ cmd' = [cmd EXCEPT !.at = "flash", !.src = i, !.new = new]
         /\ new = [i EXCEPT !.odd = TRUE] \/ new = Strip(i, RunningRelease)
  BY DEF FromStrip
<1>3. i.torn = FALSE /\ i.odd \in BOOLEAN BY <1>1 DEF FromStrip, ImageOK, IsImage
<1>4. IsCommand(cmd) /\ cmd.at = "find" /\ cmd.op \in Restores
  BY DEF ImageIInv, CommandInv, FromStrip, Places, Restores
<1>5. /\ cmd.slot \in BootSlots /\ cmd.seen \in BOOLEAN /\ cmd.cut \in BOOLEAN
  BY <1>4 DEF IsCommand
<1>6. ImageOK(new) /\ Restored(i, new, cmd.cut)
  <2>1. CASE new = [i EXCEPT !.odd = TRUE]
    <3>1. new = [os |-> i.os, bak |-> i.bak, torn |-> i.torn, odd |-> TRUE, dirs |-> i.dirs]
      BY <1>1, <2>1 DEF ImageOK, IsImage
    <3>2. new.os = i.os /\ new.bak = i.bak /\ new.torn = i.torn /\ new.odd = TRUE /\ new.dirs = i.dirs
      BY <3>1
    <3>3. IsImage(new) BY <1>1, <3>1, <3>2 DEF ImageOK, IsImage
    <3> QED BY <3>2, <3>3 DEF ImageOK, Restored
  <2>2. CASE new = Strip(i, RunningRelease)
    <3> HIDE DEF i
    <3>1. ImageOK(new) /\ new.os = i.os /\ (i.odd = FALSE => Clean(new))
      BY <1>1, <1>3, <2>2, StripOK
    <3> QED BY <1>3, <3>1 DEF Restored
  <2> QED BY <1>2, <2>1, <2>2
<1> HIDE DEF i
<1>7. cmd' = Command(cmd.op, "flash", cmd.slot, i, new, cmd.seen, cmd.cut)
  BY <1>2, <1>4 DEF IsCommand, Command
<1>8. Places(cmd.op, "flash") BY <1>4 DEF Places, Restores
<1>9. CommandInv' /\ cmd'.at = "flash" BY <1>1, <1>5, <1>6, <1>7, <1>8, CommandWrites
<1>10. ImagesInv' BY ImagesStay DEF ImageIInv, FromStrip
<1>11. LastInv' BY <1>4 DEF ImageIInv, LastInv, Restores, FromStrip
<1> QED BY <1>9, <1>10, <1>11 DEF ImageIInv

LEMMA FlashBeginKeeps ==
  ASSUME ImageIInv, FlashBegin
  PROVE  ImageIInv'
<1>1. IsCommand(cmd) /\ Places(cmd.op, cmd.at) /\ cmd.at = "flash"
  BY DEF ImageIInv, CommandInv, FlashBegin
<1>2. /\ cmd.slot \in BootSlots /\ cmd.seen \in BOOLEAN /\ cmd.cut \in BOOLEAN
      /\ ImageOK(cmd.src) /\ ImageOK(cmd.new)
  BY <1>1 DEF IsCommand
<1>3. cmd' = Command(cmd.op, "write", cmd.slot, cmd.src, cmd.new, cmd.seen, cmd.cut)
  BY <1>1, CommandMoves DEF FlashBegin
<1>4. Places(cmd.op, "write") BY <1>1 DEF Places
<1>5. cmd.op \in Restores => Restored(cmd.src, cmd.new, cmd.cut) BY <1>1 DEF ImageIInv, CommandInv
<1>6. CommandInv' /\ cmd'.at = "write" BY <1>2, <1>3, <1>4, <1>5, CommandWrites
<1>7. ImagesInv'
  <2> DEFINE i == [img[cmd.slot] EXCEPT !.torn = TRUE]
  <2>1. ImageOK(i) BY <1>2, TornOK DEF ImageIInv, ImagesInv
  <2>2. img' = [img EXCEPT ![cmd.slot] = i] BY DEF FlashBegin
  <2> HIDE DEF i
  <2>3. img' = [x \in BootSlots |-> img'[x]] /\ \A x \in BootSlots : ImageOK(img'[x])
    BY <1>2, <2>1, <2>2, SlotWritten DEF ImageIInv
  <2> QED BY <2>3 DEF ImageIInv, ImagesInv, FlashBegin
<1>8. LastInv' BY <1>1, NothingLast DEF ImageIInv, LastInv, FlashBegin
<1> QED BY <1>6, <1>7, <1>8 DEF ImageIInv

\* What is written is what was made ready, whole or cut as its backup was.
LEMMA FlashEndKeeps ==
  ASSUME ImageIInv, FlashEnd
  PROVE  ImageIInv'
<1>1. IsCommand(cmd) /\ Places(cmd.op, cmd.at) /\ cmd.at = "write"
  BY DEF ImageIInv, CommandInv, FlashEnd
<1>2. /\ cmd.slot \in BootSlots /\ cmd.cut \in BOOLEAN /\ ImageOK(cmd.new)
  BY <1>1 DEF IsCommand
<1> DEFINE i == [cmd.new EXCEPT !.torn = cmd.cut]
<1>3. ImageOK(i) BY <1>2, TornOK
<1>4. img' = [img EXCEPT ![cmd.slot] = i] BY DEF FlashEnd
<1>5. i.os = cmd.new.os /\ i.odd = cmd.new.odd /\ i.dirs = cmd.new.dirs /\ i.torn = cmd.cut
  BY <1>2 DEF ImageOK, IsImage
<1> HIDE DEF i
<1>6. img' = [x \in BootSlots |-> img'[x]] /\ (\A x \in BootSlots : ImageOK(img'[x])) /\ img'[cmd.slot] = i
  BY <1>2, <1>3, <1>4, SlotWritten DEF ImageIInv
<1>7. ImagesInv' BY <1>6 DEF ImageIInv, ImagesInv, FlashEnd
<1>8. cmd.op # "none" BY <1>1 DEF Places
<1>9. CommandInv' /\ cmd'.at \in {"idle", "reboot"} BY <1>8, EndedHolds DEF ImageIInv, FlashEnd
<1>10. last' = [op |-> cmd.op, slot |-> cmd.slot, src |-> cmd.src, cut |-> cmd.cut] BY DEF FlashEnd
<1>11. last'.op = cmd.op /\ last'.slot = cmd.slot /\ last'.src = cmd.src /\ last'.cut = cmd.cut
  BY <1>10
<1>12. ASSUME cmd.op \in Restores PROVE Restored(cmd.src, i, cmd.cut)
  <2>1. Restored(cmd.src, cmd.new, cmd.cut) BY <1>1, <1>12 DEF ImageIInv, CommandInv
  <2>2. cmd.cut = FALSE /\ Clean(cmd.new) => Clean(i)
    <3>1. HAVE cmd.cut = FALSE /\ Clean(cmd.new)
    <3>2. i.torn = FALSE BY <1>5, <3>1
    <3> QED BY <1>5, <3>1, <3>2 DEF Clean
  <2> QED BY <1>2, <1>5, <2>1, <2>2 DEF Restored
<1>13. LastInv'
  <2>1. last'.op \in Restores => Restored(last'.src, img'[last'.slot], last'.cut)
    BY <1>6, <1>11, <1>12
  <2> QED BY <1>2, <1>9, <1>11, <2>1 DEF LastInv
<1> QED BY <1>7, <1>9, <1>13 DEF ImageIInv

-----------------------------------------------------------------------------
LEMMA RebootKeeps ==
  ASSUME ImageIInv, NEW s \in BootSlots, Reboot(s)
  PROVE  ImageIInv'
<1>1. CommandInv' /\ cmd'.op = "none" /\ cmd'.at = "idle" BY NoCommandIs, NoCommandHolds DEF Reboot
<1>2. ImagesInv' BY FlushedOK DEF ImageIInv, ImagesInv, Reboot
<1>3. LastInv'
  <2>1. CASE last' = last BY <1>1, <2>1 DEF ImageIInv, LastInv, Reboot
  <2>2. CASE last' = [NoLast EXCEPT !.slot = s] BY <2>2, NoLastIs, NothingLast
  <2> QED BY <2>1, <2>2 DEF Reboot
<1> QED BY <1>1, <1>2, <1>3 DEF ImageIInv

LEMMA PowerCutKeeps ==
  ASSUME ImageIInv, PowerCut
  PROVE  ImageIInv'
<1>1. booted \in BootSlots BY DEF ImageIInv, ImagesInv
<1>2. CommandInv' BY <1>1, NoCommandIs, NoCommandHolds DEF PowerCut
<1>3. LastInv' BY <1>1, NoLastIs, NothingLast DEF PowerCut
<1>4. PICK lost \in SUBSET {b \in store : b.body = "dirty"}, gone \in SUBSET cached :
         /\ store' = Flushed(store \ lost) \cup {[b EXCEPT !.body = "cut"] : b \in lost}
         /\ img' = [s \in BootSlots |-> [img[s] EXCEPT !.torn = @ \/ s \in gone]]
  BY DEF PowerCut
<1>5. ASSUME NEW s \in BootSlots PROVE ImageOK(img'[s])
  <2>1. PICK torn \in BOOLEAN : torn = (img[s].torn \/ s \in gone) OBVIOUS
  <2>2. img'[s] = [img[s] EXCEPT !.torn = torn] BY <1>4, <2>1
  <2> QED BY <2>2, TornOK DEF ImageIInv, ImagesInv
<1>6. img' = [s \in BootSlots |-> img'[s]] BY <1>4
<1>7. ASSUME NEW x \in store' PROVE x = [of |-> x.of, body |-> x.body] /\ ImageOK(x.of)
  <2>1. CASE x \in Flushed(store \ lost) BY <2>1, FlushedOK DEF ImageIInv, ImagesInv
  <2>2. CASE x \in {[b EXCEPT !.body = "cut"] : b \in lost}
    <3>1. PICK b \in store : x = [b EXCEPT !.body = "cut"] BY <2>2
    <3>2. b = [of |-> b.of, body |-> b.body] /\ ImageOK(b.of) BY DEF ImageIInv, ImagesInv
    <3>3. x = [of |-> b.of, body |-> "cut"] BY <3>1, <3>2
    <3> QED BY <3>2, <3>3
  <2> QED BY <1>4, <2>1, <2>2
<1>8. ImagesInv' BY <1>5, <1>6, <1>7 DEF ImageIInv, ImagesInv, PowerCut
<1> QED BY <1>2, <1>3, <1>8 DEF ImageIInv

LEMMA UpdateKeeps ==
  ASSUME ImageIInv, NEW s \in BootSlots, Update(s)
  PROVE  ImageIInv'
<1>1. PICK v \in Versions : img' = [img EXCEPT ![s] = Stock(v)] BY DEF Update
<1>2. img' = [x \in BootSlots |-> img'[x]] /\ \A x \in BootSlots : ImageOK(img'[x])
  BY <1>1, StockOK, SlotWritten DEF ImageIInv
<1>3. ImagesInv' BY <1>2 DEF ImageIInv, ImagesInv, Update
<1>4. CommandInv' BY DEF ImageIInv, CommandInv, Update
<1>5. LastInv' BY NoLastIs, NothingLast DEF ImageIInv, ImagesInv, Update, Begin
<1> QED BY <1>3, <1>4, <1>5 DEF ImageIInv

LEMMA FastbootKeeps ==
  ASSUME ImageIInv, NEW s \in BootSlots, Fastboot(s)
  PROVE  ImageIInv'
<1>1. PICK i \in {Stock(v) : v \in Versions} \cup {out[k] : k \in DOMAIN out} : img' = [img EXCEPT ![s] = i]
  BY DEF Fastboot
<1>2. ImageOK(i)
  <2>1. CASE i \in {Stock(v) : v \in Versions} BY <2>1, StockOK
  <2>2. CASE i \in {out[k] : k \in DOMAIN out}
    <3>1. PICK k \in DOMAIN out : i = out[k] BY <2>2
    <3>2. out = <<out[1]>> /\ ImageOK(out[1]) BY <3>1 DEF ImageIInv, ImagesInv
    <3>3. DOMAIN out = {1} BY <3>2
    <3> QED BY <3>1, <3>2, <3>3
  <2> QED BY <1>1, <2>1, <2>2
<1>3. img' = [x \in BootSlots |-> img'[x]] /\ \A x \in BootSlots : ImageOK(img'[x])
  BY <1>1, <1>2, SlotWritten DEF ImageIInv
<1>4. ImagesInv' BY <1>3, FlushedOK DEF ImageIInv, ImagesInv, Fastboot
<1>5. CommandInv' BY NoCommandIs, NoCommandHolds DEF Fastboot
<1>6. LastInv' BY NoLastIs, NothingLast DEF Fastboot
<1> QED BY <1>4, <1>5, <1>6 DEF ImageIInv

-----------------------------------------------------------------------------
LEMMA ImageIInvAtStart ==
  ASSUME ImageInit
  PROVE  ImageIInv
<1>1. ImageOK(Stock(Factory)) BY StockOK, ImageAssumption
<1>2. ImagesInv BY <1>1 DEF ImageInit, ImagesInv
<1>3. CommandInv
  <2>1. cmd = Command("none", "idle", booted, Stock(Factory), Stock(Factory), FALSE, FALSE)
    BY NoCommandIs DEF ImageInit
  <2>2. cmd = [op |-> "none", at |-> "idle", slot |-> booted, src |-> Stock(Factory),
               new |-> Stock(Factory), seen |-> FALSE, cut |-> FALSE]
    BY <2>1 DEF Command
  <2>3. /\ cmd.op = "none" /\ cmd.at = "idle" /\ cmd.slot = booted /\ cmd.src = Stock(Factory)
        /\ cmd.new = Stock(Factory) /\ cmd.seen = FALSE /\ cmd.cut = FALSE
    BY <2>2
  <2>4. IsCommand(cmd) BY <1>1, <2>2, <2>3 DEF IsCommand, ImageInit
  <2> QED BY <2>3, <2>4 DEF CommandInv, Places, Restores
<1>4. LastInv BY NoLastIs DEF ImageInit, LastInv, Restores
<1> QED BY <1>2, <1>3, <1>4 DEF ImageIInv

LEMMA ImageIInvStep ==
  ASSUME ImageIInv, [ImageNext]_imageVars
  PROVE  ImageIInv'
<1>1. CASE ImageNext
  BY <1>1, PatchKeeps, RebootKeeps, UpdateKeeps, FastbootKeeps, UninstallKeeps, PatchFileKeeps,
     BackupKeeps, RestoreKeeps, EndsKeeps, FromBackupKeeps, FromStripKeeps, FlashBeginKeeps,
     FlashEndKeeps, PowerCutKeeps DEF ImageNext
<1>2. CASE UNCHANGED imageVars
  BY <1>2 DEF imageVars, ImageIInv, ImagesInv, CommandInv, LastInv
<1> QED BY <1>1, <1>2

\* Over every order of commands, updates, fastboot sessions, failures and power
\* cuts: an image no failure was passed over in has one modules directory whose
\* list names what is there, a backup it names is the clean image of its own
\* system, and a restore is about to write that or a clean strip.
THEOREM ImageInvariant == ImageSpec => []ImageIInv
<1>1. ImageInit => ImageIInv BY ImageIInvAtStart
<1>2. ImageIInv /\ [ImageNext]_imageVars => ImageIInv' BY ImageIInvStep
<1> QED BY <1>1, <1>2, PTL DEF ImageSpec

\* For any versions, layouts of their ramdisks and slots: an image that is whole
\* and has no passed-over failure in it starts and, when patched, loads the
\* module (patch_boot in boot_patch.cpp).
THEOREM PatchedBootsHolds == ImageSpec => []PatchedBoots
<1>1. ImageIInv => PatchedBoots
  <2>1. SUFFICES ASSUME ImageIInv, NEW s \in BootSlots, ~img[s].torn, ~img[s].odd
                 PROVE  Boots(img[s]) /\ (Patched(img[s]) => "tamisu" \in Listed(img[s]))
    BY DEF PatchedBoots
  <2>2. img[s].torn = FALSE /\ Standard(img[s]) /\ img[s].os \in Versions
    BY <2>1 DEF ImageIInv, ImagesInv, ImageOK, IsImage
  <2> QED BY <2>2, StandardBoots
<1> QED BY <1>1, ImageInvariant, PTL

\* A restore or uninstall that wrote an image left the stock modules of the
\* system it found, unless a cut backup or a passed-over failure stands between.
THEOREM RestoreIsStockHolds == ImageSpec => []RestoreIsStock
<1>1. ImageIInv => RestoreIsStock
  BY DEF ImageIInv, LastInv, Restores, Restored, RestoreIsStock
<1> QED BY <1>1, ImageInvariant, PTL

-----------------------------------------------------------------------------
(***************************************************************************)
(* InitRc, for texts of any length and reads of any size.                  *)
(*                                                                         *)
(* The argument: the first file is the proxied one, its position and the   *)
(* two cursors add up to what init got from it, and each of the three      *)
(* moves only when the one before it is at its end.                        *)
(***************************************************************************)

Files == [n : Nat, open : BOOLEAN, proxied : BOOLEAN, pos : Nat, got : Seq(Nat),
          size : Nat, eof : BOOLEAN, failed : BOOLEAN]

RcTypeOK ==
  /\ text \in [orig : OrigLens, mod : ModLens]
  /\ hooks \in SUBSET {"read", "fstat"} /\ work \in {"idle", "queued", "running"}
  /\ rcHooked \in BOOLEAN /\ loaded \in BOOLEAN
  /\ modLen \in Nat /\ rcPos \in Nat /\ modPos \in Nat
  /\ file \in Files

\* What is left to append is known, unless it has been appended.
Known(len) == len = text.mod \/ (len = 0 /\ rcPos = RcLen /\ modPos = text.mod)

CursorsInv ==
  /\ rcPos <= RcLen /\ modPos <= text.mod /\ file.pos <= text.orig
  /\ modPos > 0 => rcPos = RcLen
  /\ loaded = TRUE => Known(modLen)
  /\ file.n = 1 /\ rcPos > 0 => file.pos = text.orig

\* Up to the first read nothing has happened but fstat; it is a read of the
\* first file, and gives it the proxy.
HookedInv ==
  /\ rcHooked = FALSE =>
       /\ file.n \in {0, 1} /\ (file.open = TRUE <=> file.n = 1)
       /\ file.proxied = FALSE /\ file.pos = 0 /\ file.eof = FALSE /\ file.failed = FALSE
       /\ rcPos = 0 /\ modPos = 0 /\ hooks = {"read", "fstat"} /\ work = "idle"
  /\ rcHooked = TRUE =>
       /\ loaded = TRUE /\ file.n > 0 /\ (file.proxied = TRUE <=> file.n = 1)
       /\ file.n = 1 => file.pos > 0

TextInv ==
  /\ file.n # 1 => file.got = Units(0, file.pos)
  /\ file.n = 1 =>
       /\ file.got = Units(0, file.pos + rcPos + modPos)
       /\ file.size # NoSize => file.size = WholeLen
       /\ file.eof = TRUE /\ file.failed = FALSE =>
            file.pos = text.orig /\ rcPos = RcLen /\ modPos = text.mod

RcIInv == RcTypeOK /\ CursorsInv /\ HookedInv /\ TextInv

\* The units after a position, and the two ways to come to the same place.
LEMMA UnitsAre ==
  ASSUME NEW a \in Nat, NEW n \in Nat
  PROVE  /\ Units(a, n) \in Seq(Nat) /\ Len(Units(a, n)) = n
         /\ \A i \in 1..n : Units(a, n)[i] = a + i
<1>1. Units(a, n) \in [1..n -> Nat] BY DEF Units
<1>2. Units(a, n) \in Seq(Nat) BY <1>1, SeqDef
<1>3. DOMAIN Units(a, n) = 1..n BY DEF Units
<1>4. Len(Units(a, n)) = n BY <1>2, <1>3, LenProperties
<1> QED BY <1>2, <1>4 DEF Units

LEMMA JoinNumbers ==
  ASSUME NEW a \in Nat, NEW n \in Nat, NEW u \in Seq(Nat), NEW v \in Seq(Nat), NEW w \in Seq(Nat),
         Len(u) = a, Len(v) = n, Len(w) = a + n,
         \A i \in 1..a : u[i] = i, \A i \in 1..n : v[i] = a + i, \A i \in 1..(a + n) : w[i] = i
  PROVE  u \o v = w
<1> DEFINE s == u \o v
<1>1. /\ s \in Seq(Nat) /\ Len(s) = Len(u) + Len(v)
      /\ \A i \in 1..(Len(u) + Len(v)) : s[i] = IF i <= Len(u) THEN u[i] ELSE v[i - Len(u)]
  BY ConcatProperties
<1> HIDE DEF s
<1>2. ASSUME NEW i \in 1..(a + n) PROVE s[i] = w[i]
  <2>1. CASE i <= a BY <1>1, <2>1
  <2>2. CASE ~(i <= a)
    <3>1. i - a \in 1..n /\ a + (i - a) = i BY <2>2
    <3> QED BY <1>1, <2>2, <3>1
  <2> QED BY <2>1, <2>2
<1>3. s = w BY <1>1, <1>2, SeqEqual
<1> QED BY <1>3 DEF s

LEMMA FirstUnits ==
  ASSUME NEW k \in Nat
  PROVE  Units(0, k) \in Seq(Nat) /\ Len(Units(0, k)) = k /\ \A i \in 1..k : Units(0, k)[i] = i
<1>1. /\ Units(0, k) \in Seq(Nat) /\ Len(Units(0, k)) = k
      /\ \A i \in 1..k : Units(0, k)[i] = 0 + i
  BY UnitsAre
<1> QED BY <1>1

LEMMA UnitsJoin ==
  ASSUME NEW a \in Nat, NEW n \in Nat
  PROVE  Units(0, a) \o Units(a, n) = Units(0, a + n)
<1>1. \A k \in Nat :
         Units(0, k) \in Seq(Nat) /\ Len(Units(0, k)) = k /\ \A i \in 1..k : Units(0, k)[i] = i
  BY FirstUnits
<1>2. /\ Units(a, n) \in Seq(Nat) /\ Len(Units(a, n)) = n
      /\ \A i \in 1..n : Units(a, n)[i] = a + i
  BY UnitsAre
<1>3. PICK u, v, w : u = Units(0, a) /\ v = Units(a, n) /\ w = Units(0, a + n) OBVIOUS
<1>4. u \in Seq(Nat) /\ Len(u) = a /\ \A i \in 1..a : u[i] = i BY <1>1, <1>3
<1>5. v \in Seq(Nat) /\ Len(v) = n /\ \A i \in 1..n : v[i] = a + i BY <1>2, <1>3
<1>6. w \in Seq(Nat) /\ Len(w) = a + n /\ \A i \in 1..(a + n) : w[i] = i
  <2>1. a + n \in Nat OBVIOUS
  <2> QED BY <1>1, <1>3, <2>1
<1>7. u \o v = w BY <1>4, <1>5, <1>6, JoinNumbers
<1> QED BY <1>3, <1>7

LEMMA NoUnits ==
  ASSUME NEW a \in Nat, NEW got \in Seq(Nat)
  PROVE  got \o Units(a, 0) = got
<1>1. Units(a, 0) \in Seq(Nat) /\ Len(Units(a, 0)) = 0 BY UnitsAre
<1>2. Units(a, 0) = <<>> BY <1>1, EmptySeq
<1> QED BY <1>2, ConcatEmptySeq

LEMMA Lengths ==
  ASSUME RcTypeOK
  PROVE  /\ RcLen \in Nat /\ RcLen > 0 /\ text.orig \in Nat /\ text.orig > 0 /\ text.mod \in Nat
         /\ text.mod \in ModLens
         /\ \A count \in Counts : count \in Nat /\ count > 0
<1>1. text.orig \in OrigLens /\ text.mod \in ModLens BY DEF RcTypeOK
<1>2. text.orig \in Nat \ {0} /\ text.mod \in Nat /\ RcLen \in Nat \ {0} BY <1>1, InitRcAssumption
<1>3. \A count \in Counts : count \in Nat \ {0} BY InitRcAssumption
<1> QED BY <1>1, <1>2, <1>3

LEMMA FileIs ==
  ASSUME RcTypeOK
  PROVE  /\ file.n \in Nat /\ file.open \in BOOLEAN /\ file.proxied \in BOOLEAN /\ file.pos \in Nat
         /\ file.got \in Seq(Nat) /\ file.size \in Nat /\ file.eof \in BOOLEAN /\ file.failed \in BOOLEAN
  BY DEF RcTypeOK, Files

\* A read of the file itself gives what comes next, and nothing only at its end.
LEMMA OrigCountIs ==
  ASSUME RcTypeOK, file.pos <= text.orig, NEW count \in Counts
  PROVE  /\ OrigCount(count) \in Nat /\ file.pos + OrigCount(count) <= text.orig
         /\ OrigCount(count) = 0 <=> file.pos = text.orig
  BY Lengths, FileIs DEF OrigCount, Smaller

\* What a file's own read makes of its record.
LEMMA ReadOrigGives ==
  ASSUME RcTypeOK, CursorsInv, NEW count \in Counts, NEW proxied \in BOOLEAN, ReadOrig(count, proxied)
  PROVE  /\ file' \in Files
         /\ file'.n = file.n /\ file'.open = file.open /\ file'.size = file.size /\ file'.failed = file.failed
         /\ file'.proxied = proxied
         /\ file'.pos = file.pos + OrigCount(count)
         /\ file'.got = file.got \o Units(file.pos, OrigCount(count))
         /\ file'.eof = TRUE <=> OrigCount(count) = 0
<1>1. OrigCount(count) \in Nat BY OrigCountIs DEF CursorsInv
<1>2. PICK eof \in BOOLEAN : eof = (OrigCount(count) = 0) OBVIOUS
<1>3. eof = TRUE <=> OrigCount(count) = 0 BY <1>2
<1>4. PICK got \in Seq(Nat) : got = file.got \o Units(file.pos, OrigCount(count))
  BY <1>1, FileIs, UnitsAre, ConcatProperties
<1>5. PICK pos \in Nat : pos = file.pos + OrigCount(count) BY <1>1, FileIs
<1>6. file' = [file EXCEPT !.proxied = proxied, !.pos = pos, !.got = got, !.eof = eof]
  BY <1>2, <1>4, <1>5 DEF ReadOrig
<1>7. /\ file' \in Files
      /\ file'.n = file.n /\ file'.open = file.open /\ file'.size = file.size /\ file'.failed = file.failed
      /\ file'.proxied = proxied /\ file'.pos = pos /\ file'.got = got /\ file'.eof = eof
  BY <1>6 DEF RcTypeOK, Files
<1> QED BY <1>3, <1>4, <1>5, <1>7

\* What an append makes of the record and the cursors: s units of the built-in
\* text and, when it is then at its end, m of the modules'.
Appends(s, m, count, len, faults) ==
  /\ rcPos + s <= RcLen
  /\ m > 0 => rcPos + s = RcLen /\ modPos + m <= len
  /\ faults = {} /\ s = 0 /\ m = 0 => rcPos >= RcLen /\ modPos >= len
  /\ rcPos' = rcPos + s /\ modPos' = modPos + m
  /\ modLen' = len \/ (modLen' = 0 /\ m > 0 /\ modPos + m = len)
  /\ file' \in Files
  /\ file'.n = file.n /\ file'.open = file.open /\ file'.size = file.size /\ file'.pos = file.pos
  /\ file'.proxied = TRUE
  /\ file'.got = file.got \o Units(text.orig + rcPos, s) \o Units(text.orig + RcLen + modPos, m)
  /\ file'.eof = TRUE <=> s = 0 /\ m = 0
  /\ file'.failed = FALSE => faults = {}

LEMMA AppendGives ==
  ASSUME RcTypeOK, CursorsInv, NEW count \in Counts, NEW len \in Nat,
         NEW faults \in SUBSET {"static", "module"}, AppendTexts(count, len, faults)
  PROVE  \E s, m \in Nat : Appends(s, m, count, len, faults)
<1>0. /\ RcLen \in Nat /\ count \in Nat /\ count > 0 /\ rcPos \in Nat /\ modPos \in Nat /\ rcPos <= RcLen
      /\ text.orig \in Nat
  BY Lengths DEF RcTypeOK, CursorsInv
<1>2. PICK s : s = StaticCount(count, "static" \in faults) OBVIOUS
<1>3. s \in Nat /\ rcPos + s <= RcLen /\ s <= count
  BY <1>0, <1>2 DEF StaticCount, Smaller
<1>4. "static" \notin faults => s = StaticCount(count, FALSE) /\ (s = 0 => rcPos >= RcLen) /\ (s < count => rcPos + s = RcLen)
  BY <1>0, <1>2 DEF StaticCount, Smaller
<1>5. PICK m : m = IF "static" \in faults /\ rcPos < RcLen THEN 0
                   ELSE ModuleCount(count, len, "module" \in faults)
  OBVIOUS
<1>6. PICK done : done = StaticCount(count, FALSE) OBVIOUS
<1>7. done \in Nat /\ done <= count /\ (rcPos >= RcLen => done = 0)
  BY <1>0, <1>6 DEF StaticCount, Smaller
<1>8. ModuleCount(count, len, "module" \in faults)
        = IF "module" \in faults \/ modPos >= len THEN 0 ELSE Smaller(count - done, len - modPos)
  BY <1>6 DEF ModuleCount
<1>9. m \in Nat /\ (m > 0 => modPos + m <= len)
  BY <1>0, <1>5, <1>7, <1>8 DEF Smaller
<1>10. m > 0 => rcPos + s = RcLen
  <2>1. SUFFICES ASSUME m > 0 PROVE rcPos + s = RcLen OBVIOUS
  <2>2. CASE rcPos >= RcLen BY <1>0, <1>3, <2>2
  <2>3. CASE rcPos < RcLen
    <3>1. "static" \notin faults BY <1>5, <2>1, <2>3
    <3>2. s = done BY <1>4, <1>6, <3>1
    <3>3. m <= count - done BY <1>0, <1>5, <1>7, <1>8, <2>1, <3>1 DEF Smaller
    <3>4. s < count BY <1>0, <1>3, <1>7, <1>9, <2>1, <3>2, <3>3
    <3> QED BY <1>4, <3>1, <3>4
  <2> QED BY <1>0, <2>2, <2>3
<1>11. faults = {} /\ s = 0 /\ m = 0 => rcPos >= RcLen /\ modPos >= len
  <2>1. SUFFICES ASSUME faults = {}, s = 0, m = 0 PROVE rcPos >= RcLen /\ modPos >= len OBVIOUS
  <2>2. rcPos >= RcLen BY <1>4, <2>1
  <2>3. "static" \notin faults /\ "module" \notin faults BY <2>1
  <2>4. m = IF modPos >= len THEN 0 ELSE Smaller(count - done, len - modPos) BY <1>5, <1>8, <2>3
  <2>5. done = 0 BY <1>7, <2>2
  <2>6. ASSUME ~(modPos >= len) PROVE FALSE
    <3>1. count - done > 0 /\ len - modPos > 0 BY <1>0, <2>5, <2>6
    <3>2. m = count - done \/ m = len - modPos BY <2>4, <2>6 DEF Smaller
    <3> QED BY <1>0, <1>7, <2>1, <3>1, <3>2
  <2> QED BY <2>2, <2>6
<1>12. /\ rcPos' = rcPos + s
       /\ modPos' = modPos + m
       /\ modLen' = IF m > 0 /\ modPos + m = len THEN 0 ELSE len
       /\ file' = [file EXCEPT !.proxied = TRUE,
                               !.got = @ \o Units(text.orig + rcPos, s)
                                         \o Units(text.orig + RcLen + modPos, m),
                               !.eof = (s + m = 0),
                               !.failed = @ \/ faults # {}]
  BY <1>2, <1>5 DEF AppendTexts
<1>13. PICK got \in Seq(Nat) : got = file.got \o Units(text.orig + rcPos, s)
                                         \o Units(text.orig + RcLen + modPos, m)
  <2>0. text.orig + rcPos \in Nat /\ text.orig + RcLen + modPos \in Nat BY <1>0
  <2>1. Units(text.orig + rcPos, s) \in Seq(Nat) BY <1>3, <2>0, UnitsAre
  <2>2. Units(text.orig + RcLen + modPos, m) \in Seq(Nat) BY <1>9, <2>0, UnitsAre
  <2>3. file.got \in Seq(Nat) BY FileIs
  <2>4. file.got \o Units(text.orig + rcPos, s) \in Seq(Nat) BY <2>1, <2>3, ConcatProperties
  <2>5. (file.got \o Units(text.orig + rcPos, s)) \o Units(text.orig + RcLen + modPos, m) \in Seq(Nat)
    BY <2>2, <2>4, ConcatProperties
  <2> QED BY <2>5
<1>14. PICK eof \in BOOLEAN : eof = (s + m = 0) OBVIOUS
<1>15. eof = TRUE <=> s = 0 /\ m = 0
  <2>1. s + m = 0 <=> s = 0 /\ m = 0 BY <1>3, <1>9
  <2> QED BY <1>14, <2>1
<1>16. PICK failed \in BOOLEAN : failed = (file.failed \/ faults # {}) OBVIOUS
<1>17. failed = FALSE => faults = {} BY <1>16
<1>18. file' = [file EXCEPT !.proxied = TRUE, !.got = got, !.eof = eof, !.failed = failed]
  BY <1>12, <1>13, <1>14, <1>16
<1>19. /\ file' \in Files
       /\ file'.n = file.n /\ file'.open = file.open /\ file'.size = file.size /\ file'.pos = file.pos
       /\ file'.proxied = TRUE /\ file'.got = got /\ file'.eof = eof /\ file'.failed = failed
  BY <1>18 DEF RcTypeOK, Files
<1>20. Appends(s, m, count, len, faults)
  BY <1>3, <1>9, <1>10, <1>11, <1>12, <1>13, <1>15, <1>17, <1>19 DEF Appends
<1> QED BY <1>3, <1>9, <1>20

\* What a proxied read leaves of the first file.
Serves ==
  /\ rcPos' \in Nat /\ modPos' \in Nat /\ modLen' \in Nat /\ file' \in Files
  /\ rcPos' <= RcLen /\ modPos' <= text.mod /\ file'.pos <= text.orig
  /\ modPos' > 0 => rcPos' = RcLen
  /\ modLen' = text.mod \/ (modLen' = 0 /\ rcPos' = RcLen /\ modPos' = text.mod)
  /\ rcPos' > 0 => file'.pos = text.orig
  /\ file'.n = 1 /\ file'.open = file.open /\ file'.proxied = TRUE /\ file'.pos > 0 /\ file'.size = file.size
  /\ file'.got = Units(0, file'.pos + rcPos' + modPos')
  /\ file'.eof = TRUE /\ file'.failed = FALSE =>
       file'.pos = text.orig /\ rcPos' = RcLen /\ modPos' = text.mod

LEMMA ProxyReadServes ==
  ASSUME RcTypeOK, CursorsInv, TextInv, file.n = 1, NEW len \in Nat, Known(len),
         NEW count \in Counts, ProxyRead(count, len)
  PROVE  Serves
<1>0. /\ RcLen \in Nat /\ RcLen > 0 /\ text.orig \in Nat /\ text.orig > 0 /\ text.mod \in Nat
      /\ rcPos \in Nat /\ modPos \in Nat /\ file.pos \in Nat
      /\ rcPos <= RcLen /\ modPos <= text.mod /\ file.pos <= text.orig
      /\ modPos > 0 => rcPos = RcLen
      /\ rcPos > 0 => file.pos = text.orig
      /\ file.got = Units(0, file.pos + rcPos + modPos)
      /\ file.got \in Seq(Nat)
      /\ len = text.mod \/ (len = 0 /\ rcPos = RcLen /\ modPos = text.mod)
  BY Lengths, FileIs DEF RcTypeOK, CursorsInv, TextInv, Known
<1>a. PICK o : o = OrigCount(count) OBVIOUS
<1>b. o \in Nat /\ file.pos + o <= text.orig /\ (o = 0 <=> file.pos = text.orig)
  BY <1>a, OrigCountIs DEF CursorsInv
<1>1. CASE ~InStatic /\ ~InModule(len) /\ (OrigCount(count) > 0 \/ (rcPos >= RcLen /\ modPos >= len))
  <2>1. ReadOrig(count, TRUE) /\ modLen' = len /\ rcPos' = rcPos /\ modPos' = modPos
    BY <1>1 DEF ProxyRead
  <2>2. /\ file' \in Files
        /\ file'.n = file.n /\ file'.open = file.open /\ file'.size = file.size
        /\ file'.proxied = TRUE
        /\ file'.pos = file.pos + o
        /\ file'.got = file.got \o Units(file.pos, o)
        /\ file'.eof = TRUE <=> o = 0
    BY <1>a, <2>1, ReadOrigGives
  <2>3. CASE o > 0
    <3>1. rcPos = 0 /\ modPos = 0 BY <1>0, <1>b, <2>3
    <3>2. file.got \o Units(file.pos, o) = Units(0, file.pos + o)
      <4>1. file.got = Units(0, file.pos) BY <1>0, <3>1
      <4> QED BY <4>1, <1>0, <1>b, UnitsJoin
    <3>3. file'.got = Units(0, file'.pos + rcPos' + modPos')
      BY SMTT(30), <1>0, <1>b, <2>1, <2>2, <3>1, <3>2
    <3>4. file'.pos > 0 /\ file'.pos <= text.orig BY <1>0, <1>b, <2>2, <2>3
    <3>5. ~(file'.eof = TRUE) BY <2>2, <2>3
    <3>6. len = text.mod /\ RcLen # 0 BY <1>0, <3>1
    <3> QED BY <1>0, <2>1, <2>2, <3>1, <3>3, <3>4, <3>5, <3>6 DEF Serves
  <2>4. CASE o = 0
    <3>1. file.pos = text.orig /\ rcPos >= RcLen /\ modPos >= len BY <1>1, <1>a, <1>b, <2>4
    <3>2. rcPos = RcLen /\ modPos = text.mod BY <1>0, <3>1
    <3>3. file.got \o Units(file.pos, o) = file.got BY <1>0, <2>4, NoUnits
    <3>4. file'.pos = file.pos BY <1>0, <2>2, <2>4
    <3> QED BY <1>0, <2>1, <2>2, <3>1, <3>2, <3>3, <3>4 DEF Serves
  <2> QED BY <1>b, <2>3, <2>4
<1>2. CASE ~(~InStatic /\ ~InModule(len) /\ (OrigCount(count) > 0 \/ (rcPos >= RcLen /\ modPos >= len)))
  <2>1. PICK faults \in SUBSET {"static", "module"} : AppendTexts(count, len, faults)
    BY <1>2 DEF ProxyRead
  <2>2. PICK s, m \in Nat : Appends(s, m, count, len, faults) BY <2>1, AppendGives
  <2>3. file.pos = text.orig BY <1>0, <1>2, <1>a, <1>b DEF InStatic, InModule
  <2>4. ~(rcPos >= RcLen /\ modPos >= len) BY <1>0, <1>2, <1>a, <1>b, <2>3 DEF InStatic, InModule
  <2>5. len = text.mod BY <1>0, <2>4
  <2>6. m > 0 => rcPos + s = RcLen BY <2>2 DEF Appends
  <2>7. /\ rcPos + s <= RcLen
        /\ m > 0 => modPos + m <= len
        /\ rcPos' = rcPos + s /\ modPos' = modPos + m
        /\ modLen' = len \/ (modLen' = 0 /\ m > 0 /\ modPos + m = len)
        /\ file' \in Files
        /\ file'.n = file.n /\ file'.open = file.open /\ file'.size = file.size /\ file'.pos = file.pos
        /\ file'.proxied = TRUE
    BY <2>2 DEF Appends
  <2>8. PICK g, h : g = file.got \o Units(text.orig + rcPos, s) /\ h = Units(text.orig + RcLen + modPos, m)
    OBVIOUS
  <2>9. file'.got = g \o h BY <2>2, <2>8 DEF Appends
  <2>10. g = Units(0, text.orig + rcPos + s + modPos)
    <3>1. CASE modPos = 0
      <4>1. file.got = Units(0, text.orig + rcPos) /\ text.orig + rcPos \in Nat BY <1>0, <2>3, <3>1
      <4>2. text.orig + rcPos + s + modPos = (text.orig + rcPos) + s BY <1>0, <3>1
      <4> QED BY <2>8, <4>1, <4>2, UnitsJoin
    <3>2. CASE modPos > 0
      <4>1. s = 0 /\ text.orig + rcPos \in Nat BY <1>0, <2>7, <3>2
      <4>2. g = file.got BY <1>0, <2>8, <4>1, NoUnits
      <4>3. text.orig + rcPos + s + modPos = file.pos + rcPos + modPos BY <1>0, <2>3, <4>1
      <4> QED BY <1>0, <4>2, <4>3
    <3> QED BY <1>0, <3>1, <3>2
  <2>11. text.orig + rcPos + s + modPos \in Nat BY <1>0
  <2>12. g \o h = Units(0, text.orig + rcPos + s + modPos + m)
    <3>1. CASE m = 0
      <4>1. g \in Seq(Nat) BY <2>10, <2>11, UnitsAre
      <4>2. text.orig + RcLen + modPos \in Nat BY <1>0
      <4>3. g \o h = g BY <2>8, <3>1, <4>1, <4>2, NoUnits
      <4>4. text.orig + rcPos + s + modPos + m = text.orig + rcPos + s + modPos BY <1>0, <3>1
      <4> QED BY <2>10, <4>3, <4>4
    <3>2. CASE m > 0
      <4>0. RcLen = rcPos + s BY <2>6, <3>2
      <4>1. text.orig + RcLen + modPos = text.orig + rcPos + s + modPos BY SMTT(30), <1>0, <4>0
      <4> QED BY <2>8, <2>10, <2>11, <4>1, UnitsJoin
    <3> QED BY <3>1, <3>2
  <2>13. text.orig + rcPos + s + modPos + m = file'.pos + rcPos' + modPos' BY <1>0, <2>3, <2>7
  <2>14. file'.got = Units(0, file'.pos + rcPos' + modPos') BY <2>9, <2>12, <2>13
  <2>15. ~(file'.eof = TRUE /\ file'.failed = FALSE) BY <2>2, <2>4 DEF Appends
  <2>16. modLen' = text.mod \/ (modLen' = 0 /\ rcPos' = RcLen /\ modPos' = text.mod)
    BY <2>5, <2>6, <2>7
  <2>17. modPos' <= text.mod BY <1>0, <2>5, <2>7
  <2>18. modPos' > 0 => rcPos' = RcLen BY <1>0, <2>6, <2>7
  <2>19. rcPos' \in Nat /\ modPos' \in Nat /\ modLen' \in Nat /\ rcPos' <= RcLen BY <1>0, <2>7
  <2>20. file'.pos = text.orig /\ file'.pos > 0 /\ file'.pos <= text.orig BY <1>0, <2>3, <2>7
  <2> QED BY <2>7, <2>14, <2>15, <2>16, <2>17, <2>18, <2>19, <2>20 DEF Serves
<1> QED BY <1>1, <1>2

\* A file's own read, of one that has no proxy.
LEMMA PlainReadServes ==
  ASSUME RcTypeOK, CursorsInv, TextInv, file.n # 1, NEW count \in Counts, ReadOrig(count, FALSE)
  PROVE  /\ file' \in Files /\ file'.n = file.n /\ file'.open = file.open /\ file'.proxied = FALSE
         /\ file'.pos <= text.orig /\ file'.got = Units(0, file'.pos)
<1>1. PICK o : o = OrigCount(count) OBVIOUS
<1>2. o \in Nat /\ file.pos + o <= text.orig BY <1>1, OrigCountIs DEF CursorsInv
<1>3. /\ file' \in Files /\ file'.n = file.n /\ file'.open = file.open /\ file'.proxied = FALSE
      /\ file'.pos = file.pos + o /\ file'.got = file.got \o Units(file.pos, o)
  BY <1>1, ReadOrigGives
<1>4. file.got = Units(0, file.pos) /\ file.pos \in Nat BY FileIs DEF TextInv
<1>5. file'.got = Units(0, file.pos + o) BY <1>2, <1>3, <1>4, UnitsJoin
<1> QED BY <1>2, <1>3, <1>5

LEMMA FirstReadKeeps ==
  ASSUME RcIInv, NEW count \in Counts, FirstRead(count)
  PROVE  RcIInv'
<1>1. RcTypeOK /\ CursorsInv /\ HookedInv /\ TextInv BY DEF RcIInv
<1>2. rcHooked = FALSE /\ file.open = TRUE BY <1>1, FileIs DEF FirstRead, RcTypeOK
<1>3. file.n = 1 /\ rcPos = 0 /\ modPos = 0 BY <1>1, <1>2 DEF HookedInv
<1>4. LoadedLen \in Nat /\ Known(LoadedLen)
  BY <1>1, Lengths DEF RcTypeOK, CursorsInv, LoadedLen, Known
<1>5. Serves BY <1>1, <1>3, <1>4, ProxyReadServes DEF FirstRead
<1>6. UNCHANGED <<text, hooks, work>> /\ rcHooked' = TRUE /\ loaded' = TRUE BY DEF FirstRead
<1>7. RcTypeOK' BY <1>1, <1>5, <1>6 DEF RcTypeOK, Serves
<1>8. CursorsInv' BY <1>5, <1>6 DEF CursorsInv, Serves, Known
<1>9. HookedInv' BY <1>5, <1>6 DEF HookedInv, Serves
<1>10. TextInv' BY <1>1, <1>3, <1>5, <1>6 DEF TextInv, Serves, WholeLen
<1> QED BY <1>7, <1>8, <1>9, <1>10 DEF RcIInv

\* A later read, while the hook on read is there or not.
LEMMA OtherReadKeeps ==
  ASSUME RcIInv, NEW count \in Counts, rcHooked = TRUE,
         IF file.proxied THEN ProxyRead(count, modLen)
         ELSE ReadOrig(count, FALSE) /\ UNCHANGED <<modLen, rcPos, modPos>>,
         UNCHANGED <<text, hooks, rcHooked, loaded>>, work' \in {"idle", "queued", "running"}
  PROVE  RcIInv'
<1>1. RcTypeOK /\ CursorsInv /\ HookedInv /\ TextInv BY DEF RcIInv
<1>2. loaded = TRUE /\ file.n > 0 /\ (file.proxied = TRUE <=> file.n = 1) BY <1>1 DEF HookedInv
<1>3. CASE file.n = 1
  <2>1. ProxyRead(count, modLen) BY <1>2, <1>3
  <2>2. modLen \in Nat /\ Known(modLen) BY <1>1, <1>2 DEF RcTypeOK, CursorsInv
  <2>3. Serves BY <1>1, <1>3, <2>1, <2>2, ProxyReadServes
  <2>4. RcTypeOK' BY <1>1, <2>3 DEF RcTypeOK, Serves
  <2>5. CursorsInv' BY <2>3 DEF CursorsInv, Serves, Known
  <2>6. HookedInv' BY <1>2, <2>3 DEF HookedInv, Serves
  <2>7. TextInv' BY <1>1, <1>3, <2>3 DEF TextInv, Serves, WholeLen
  <2> QED BY <2>4, <2>5, <2>6, <2>7 DEF RcIInv
<1>4. CASE file.n # 1
  <2>1. ReadOrig(count, FALSE) /\ UNCHANGED <<modLen, rcPos, modPos>>
    <3>1. file.proxied = FALSE BY <1>1, <1>2, <1>4, FileIs
    <3> QED BY <3>1
  <2>2. /\ file' \in Files /\ file'.n = file.n /\ file'.open = file.open /\ file'.proxied = FALSE
        /\ file'.pos <= text.orig /\ file'.got = Units(0, file'.pos)
    BY <1>1, <1>4, <2>1, PlainReadServes
  <2>4. RcTypeOK' BY <1>1, <2>1, <2>2 DEF RcTypeOK
  <2>5. CursorsInv' BY <1>1, <1>4, <2>1, <2>2 DEF CursorsInv, Known
  <2>6. HookedInv' BY <1>2, <1>4, <2>1, <2>2 DEF HookedInv
  <2>7. TextInv' BY <1>4, <2>2 DEF TextInv
  <2> QED BY <2>4, <2>5, <2>6, <2>7 DEF RcIInv
<1> QED BY <1>3, <1>4

LEMMA ReadKeeps ==
  ASSUME RcIInv, NEW count \in Counts, Read(count)
  PROVE  RcIInv'
<1>1. CASE FirstRead(count) BY <1>1, FirstReadKeeps
<1>2. CASE LaterRead(count)
  <2>1. rcHooked = TRUE BY <1>2 DEF LaterRead, RcIInv, RcTypeOK
  <2>2. work' \in {"idle", "queued", "running"} BY <1>2 DEF LaterRead, RcIInv, RcTypeOK
  <2> QED BY <1>2, <2>1, <2>2, OtherReadKeeps DEF LaterRead
<1>3. CASE UnhookedRead(count)
  <2>1. rcHooked = TRUE BY <1>3 DEF UnhookedRead, RcIInv, RcTypeOK, HookedInv
  <2>2. work' \in {"idle", "queued", "running"} BY <1>3 DEF UnhookedRead, RcIInv, RcTypeOK
  <2> QED BY <1>3, <2>1, <2>2, OtherReadKeeps DEF UnhookedRead
<1> QED BY <1>1, <1>2, <1>3 DEF Read

LEMMA OpenKeeps ==
  ASSUME RcIInv, Open
  PROVE  RcIInv'
<1>1. RcTypeOK /\ CursorsInv /\ HookedInv /\ TextInv BY DEF RcIInv
<1>2. UNCHANGED <<text, hooks, rcHooked, loaded, modLen, rcPos, modPos, work>>
  BY DEF Open, proxyVars
<1>3. file.open = FALSE /\ file.n \in Nat BY <1>1, FileIs DEF Open
<1>4. /\ file'.n = file.n + 1 /\ file'.open = TRUE /\ file'.proxied = FALSE /\ file'.pos = 0 /\ file'.got = <<>>
      /\ file'.size = 0 /\ file'.eof = FALSE /\ file'.failed = FALSE
  BY DEF Open, Fresh, NoSize
<1>5. file' \in Files
  <2>1. file.n + 1 \in Nat /\ 0 \in Nat BY <1>3
  <2>2. <<>> \in Seq(Nat) BY EmptySeq
  <2> QED BY <2>1, <2>2 DEF Open, Fresh, NoSize, Files
<1>6. <<>> = Units(0, 0)
  <2>1. Units(0, 0) \in Seq(Nat) /\ Len(Units(0, 0)) = 0 BY UnitsAre
  <2> QED BY <2>1, EmptySeq
<1>7. rcHooked = FALSE => file.n = 0 BY <1>1, <1>3 DEF HookedInv
<1>8. rcHooked = TRUE => file'.n # 1 BY <1>1, <1>3, <1>4 DEF HookedInv
<1>9. RcTypeOK' BY <1>1, <1>2, <1>5 DEF RcTypeOK
<1>10. CursorsInv'
  <2>1. rcPos > 0 => rcHooked = TRUE BY <1>1 DEF HookedInv, RcTypeOK
  <2>2. file'.pos <= text.orig BY <1>1, <1>4, Lengths
  <2> QED BY <1>1, <1>2, <1>4, <1>8, <2>1, <2>2 DEF CursorsInv, Known
<1>11. HookedInv'
  BY <1>1, <1>2, <1>3, <1>4, <1>7, <1>8 DEF HookedInv
<1>12. TextInv'
  <2>1. CASE file'.n # 1 BY <1>4, <1>6, <2>1 DEF TextInv
  <2>2. CASE file'.n = 1
    <3>1. rcPos = 0 /\ modPos = 0 BY <1>1, <1>8, <2>2 DEF HookedInv, RcTypeOK
    <3> QED BY <1>2, <1>4, <1>6, <2>2, <3>1 DEF TextInv, NoSize
  <2> QED BY <2>1, <2>2
<1> QED BY <1>9, <1>10, <1>11, <1>12 DEF RcIInv

LEMMA CloseKeeps ==
  ASSUME RcIInv, Close
  PROVE  RcIInv'
<1>1. RcTypeOK /\ CursorsInv /\ HookedInv /\ TextInv BY DEF RcIInv
<1>2. UNCHANGED <<text, hooks, rcHooked, loaded, modLen, rcPos, modPos, work>>
  BY DEF Close, proxyVars
<1>3. /\ file' \in Files /\ file'.n = file.n /\ file'.proxied = file.proxied /\ file'.pos = file.pos
      /\ file'.got = file.got /\ file'.size = file.size /\ file'.eof = file.eof /\ file'.failed = file.failed
  BY <1>1 DEF Close, RcTypeOK, Files
<1>4. rcHooked = TRUE BY <1>1, FileIs DEF Close, HookedInv, RcTypeOK
<1>5. RcTypeOK' /\ CursorsInv' /\ HookedInv' /\ TextInv'
  BY <1>1, <1>2, <1>3, <1>4 DEF RcTypeOK, CursorsInv, HookedInv, TextInv, Known, WholeLen
<1> QED BY <1>5 DEF RcIInv

\* fstat before the first read knows all that will be appended.
LEMMA FstatKeeps ==
  ASSUME RcIInv, Fstat
  PROVE  RcIInv'
<1>1. RcTypeOK /\ CursorsInv /\ HookedInv /\ TextInv BY DEF RcIInv
<1>2. UNCHANGED <<text, hooks, rcHooked, rcPos, modPos, work>> BY DEF Fstat
<1>3. LoadedLen \in Nat /\ Known(LoadedLen)
  BY <1>1, Lengths DEF RcTypeOK, CursorsInv, LoadedLen, Known
<1>4. PICK size \in Nat :
         /\ file' = [file EXCEPT !.size = size]
         /\ "fstat" \in hooks => size = text.orig + RcLen + LoadedLen
  <2>1. text.orig + RcLen + LoadedLen \in Nat /\ text.orig \in Nat BY <1>1, <1>3, Lengths
  <2>2. CASE "fstat" \in hooks
    <3>1. file' = [file EXCEPT !.size = text.orig + RcLen + LoadedLen] BY <2>2 DEF Fstat
    <3> QED BY <2>1, <3>1
  <2>3. CASE "fstat" \notin hooks
    <3>1. file' = [file EXCEPT !.size = text.orig] BY <2>3 DEF Fstat
    <3> QED BY <2>1, <2>3, <3>1
  <2> QED BY <2>2, <2>3
<1>5. /\ file' \in Files /\ file'.n = file.n /\ file'.open = file.open /\ file'.proxied = file.proxied
      /\ file'.pos = file.pos /\ file'.got = file.got /\ file'.eof = file.eof /\ file'.failed = file.failed
      /\ file'.size = size
  BY <1>1, <1>4 DEF RcTypeOK, Files
<1>6. loaded' \in BOOLEAN /\ modLen' \in Nat /\ (loaded' = TRUE => Known(modLen'))
      /\ (loaded = TRUE => loaded' = TRUE)
  BY <1>1, <1>3 DEF Fstat, RcTypeOK, CursorsInv
<1>7. file.n = 1 => rcHooked = FALSE
  <2>1. SUFFICES ASSUME file.n = 1, rcHooked = TRUE PROVE FALSE BY <1>1 DEF RcTypeOK
  <2>2. file.pos > 0 /\ file.got = Units(0, file.pos + rcPos + modPos)
    BY <1>1, <2>1 DEF HookedInv, TextInv
  <2>3. file.pos + rcPos + modPos \in Nat /\ file.pos + rcPos + modPos > 0
    BY <1>1, <2>2, FileIs DEF RcTypeOK
  <2>4. Len(file.got) > 0 BY <2>2, <2>3, FirstUnits
  <2>5. file.got = <<>> BY DEF Fstat
  <2> QED BY <2>4, <2>5, EmptySeq
<1>8. file.n = 1 => size = WholeLen
  <2>1. SUFFICES ASSUME file.n = 1 PROVE size = WholeLen OBVIOUS
  <2>2. "fstat" \in hooks /\ rcPos = 0 BY <1>1, <1>7, <2>1 DEF HookedInv
  <2>3. LoadedLen = text.mod BY <1>1, <1>3, <2>2, Lengths DEF Known
  <2> QED BY <1>4, <2>2, <2>3 DEF WholeLen
<1>9. RcTypeOK' BY <1>1, <1>2, <1>5, <1>6 DEF RcTypeOK
<1>10. CursorsInv' BY <1>1, <1>2, <1>5, <1>6 DEF CursorsInv, Known
<1>11. HookedInv' BY <1>1, <1>2, <1>5, <1>6 DEF HookedInv
<1>12. TextInv' BY <1>1, <1>2, <1>5, <1>8 DEF TextInv, WholeLen
<1> QED BY <1>9, <1>10, <1>11, <1>12 DEF RcIInv

LEMMA StopKeeps ==
  ASSUME RcIInv, StopHooks
  PROVE  RcIInv'
<1>1. RcTypeOK /\ CursorsInv /\ HookedInv /\ TextInv BY DEF RcIInv
<1>2. /\ UNCHANGED <<text, rcHooked, loaded, modLen, rcPos, modPos, file>>
      /\ hooks' \in SUBSET {"read", "fstat"} /\ work' \in {"idle", "running"} /\ work \in {"queued", "running"}
  BY <1>1 DEF StopHooks, StopRead, StopFstat, proxyVars, RcTypeOK
<1>3. rcHooked = TRUE BY <1>1, <1>2 DEF HookedInv, RcTypeOK
<1>4. RcTypeOK' /\ CursorsInv' /\ HookedInv' /\ TextInv'
  BY <1>1, <1>2, <1>3 DEF RcTypeOK, CursorsInv, HookedInv, TextInv, Known, WholeLen
<1> QED BY <1>4 DEF RcIInv

LEMMA RcAtStart ==
  ASSUME RcInit
  PROVE  RcIInv
<1>1. /\ file.n = 0 /\ file.open = FALSE /\ file.proxied = FALSE /\ file.pos = 0 /\ file.got = <<>>
      /\ file.size = 0 /\ file.eof = FALSE /\ file.failed = FALSE
  BY DEF RcInit, Fresh, NoSize
<1>2. file \in Files
  <2>1. <<>> \in Seq(Nat) BY EmptySeq
  <2> QED BY <2>1 DEF RcInit, Fresh, NoSize, Files
<1>3. RcTypeOK BY <1>2 DEF RcInit, RcTypeOK
<1>4. <<>> = Units(0, 0)
  <2>1. Units(0, 0) \in Seq(Nat) /\ Len(Units(0, 0)) = 0 BY UnitsAre
  <2> QED BY <2>1, EmptySeq
<1>5. CursorsInv BY <1>1, <1>3, Lengths DEF RcInit, CursorsInv
<1>6. HookedInv BY <1>1 DEF RcInit, HookedInv
<1>7. TextInv BY <1>1, <1>4 DEF TextInv
<1> QED BY <1>3, <1>5, <1>6, <1>7 DEF RcIInv

\* The types, the cursors and what init got agree in every state, for texts of
\* any length and reads of any size (read_proxy and its callers).
THEOREM RcInvariant == RcSpec => []RcIInv
<1>1. RcInit => RcIInv BY RcAtStart
<1>2. RcIInv /\ [RcNext]_rcVars => RcIInv'
  <2>1. SUFFICES ASSUME RcIInv, [RcNext]_rcVars PROVE RcIInv' OBVIOUS
  <2>2. CASE Open BY <2>1, <2>2, OpenKeeps
  <2>3. CASE Close BY <2>1, <2>3, CloseKeeps
  <2>4. CASE Fstat BY <2>1, <2>4, FstatKeeps
  <2>5. ASSUME NEW count \in Counts, Read(count) PROVE RcIInv' BY <2>1, <2>5, ReadKeeps
  <2>6. CASE StopHooks BY <2>1, <2>6, StopKeeps
  <2>7. CASE UNCHANGED rcVars
    BY <2>1, <2>7 DEF rcVars, proxyVars, RcIInv, RcTypeOK, CursorsInv, HookedInv, TextInv,
       Known, WholeLen
  <2> QED BY <2>1, <2>2, <2>3, <2>4, <2>5, <2>6, <2>7 DEF RcNext
<1> QED BY <1>1, <1>2, PTL DEF RcSpec

\* The safety half of InitServed: what init reads of its first file is the
\* three texts in order, whole when it is told the end, and of the size it was
\* told; any other file gives it the file alone.
THEOREM InitServedHolds == RcSpec => [](WholeText /\ SizeTruth)
<1>1. RcIInv => WholeText /\ SizeTruth
  <2>1. SUFFICES ASSUME RcIInv PROVE WholeText /\ SizeTruth OBVIOUS
  <2>2. RcTypeOK /\ CursorsInv /\ HookedInv /\ TextInv BY <2>1 DEF RcIInv
  <2>3. PICK k \in Nat :
           /\ k = IF file.n = 1 THEN file.pos + rcPos + modPos ELSE file.pos
           /\ file.got = Units(0, k)
    BY <2>2, FileIs DEF RcTypeOK, TextInv
  <2>4. Len(file.got) = k BY <2>3, FirstUnits
  <2>5. ASSUME file.n = 1, file.eof = TRUE, file.failed = FALSE
        PROVE  k = WholeLen
    BY <2>2, <2>3, <2>5, Lengths DEF TextInv, WholeLen
  <2>6. file.n > 1 => Len(file.got) <= text.orig BY <2>2, <2>3, <2>4 DEF CursorsInv
  <2>7. file.got = Units(0, Len(file.got)) BY <2>3, <2>4
  <2>8. file.n = 1 /\ file.size # NoSize => file.size = WholeLen BY <2>2 DEF TextInv
  <2>9. file.eof \in BOOLEAN /\ file.failed \in BOOLEAN BY <2>2, FileIs
  <2>10. WholeText BY <2>4, <2>5, <2>6, <2>7, <2>9 DEF WholeText
  <2>11. SizeTruth BY <2>4, <2>5, <2>8, <2>9 DEF SizeTruth
  <2> QED BY <2>10, <2>11
<1> QED BY <1>1, RcInvariant, PTL

-----------------------------------------------------------------------------
(***************************************************************************)
(* DaemonBoot, for any modules, zygotes, thresholds and numbers of boots.  *)
(*                                                                         *)
(* The argument follows a boot that owes an injected zygote, step by step, *)
(* up to the first zygote: what was saved and what stands for it while it  *)
(* is saved again, what reaches the kernel and what the ready pipe waits for. *)
(***************************************************************************)

Steps == {"early", "clear", "ask", "common", "rcOpen", "rcWrite", "rcRename", "policy", "features",
          "resave", "launch", "wait", "scripts", "postMount", "done", "saving"}
Collections == [mods : SUBSET Modules, whole : BOOLEAN]
Values == {"none", "on", "off"}
KeyStates == [count : Nat, probe : {"armed", "stopping", "gone"}]
KernelStates == [enabled : BOOLEAN, offsets : BOOLEAN, safemode : BOOLEAN]
Histories == [owed : BOOLEAN, value : Values, cut : BOOLEAN, rcFailed : BOOLEAN,
              trouble : BOOLEAN, first : {"none", "plain", "injected"}]

BootTypeOK ==
  /\ phone \in [magisk : {"none", "path", "zygisk"}, empty : SUBSET Modules, crashes : BOOLEAN]
  /\ mods \in [Modules -> {"enabled", "disabled", "removing"}]
  /\ temp \in SUBSET Modules /\ saved \in Values
  /\ rc \in Collections /\ tmp \in Collections
  /\ used \in [events : Nat, boots : Nat]
  /\ keys \in KeyStates
  /\ prop \in BOOLEAN /\ pc \in Steps /\ safe \in BOOLEAN
  /\ stage \in SUBSET {"service", "boot-completed"} /\ ran \in SUBSET (Modules \cup {"common"})
  /\ kern \in KernelStates
  /\ guard \in [Zygotes -> Nat]
  /\ zd \in {"none", "starting", "resolved", "unresolved", "up", "dead"}
  /\ pipe \in {"none", "open", "one", "zero", "eof"}
  /\ zyg \in [Zygotes -> {"down", "exec", "plain", "injected"}]
  /\ hist \in Histories

\* Up to the first question nothing of a module has run, up to the launch
\* zygiskd has not, and up to the daemon's return no zygote; who stands aside
\* never comes there.
AsideInv ==
  /\ pc \notin {"done", "saving"} => \A z \in Zygotes : zyg[z] = "down"
  /\ safe => IsSafe /\ pc \in {"done", "saving"} /\ ran = {} /\ zd = "none"
  /\ pc \in {"early", "clear", "ask"} => ran = {}
  /\ pc \in Steps \ {"wait", "scripts", "postMount", "done", "saving"} => zd = "none"
  /\ phone.magisk = "path" => ran = {} /\ pc \in {"early", "clear", "done", "saving"}
  /\ phone.magisk # "none" => /\ zd = "none" /\ kern.offsets = FALSE
                              /\ \A z \in Zygotes : zyg[z] # "injected"

\* The saved value, where no save is under way or was cut short, and what
\* stands for it in the kernel while it is written again.
SavedInv ==
  hist.cut = FALSE =>
    /\ pc \notin {"resave", "saving"} => saved = hist.value
    /\ pc = "resave" => Value = hist.value

Before == {"early", "clear", "ask", "common", "rcOpen", "rcWrite", "rcRename", "policy", "features"}

\* zygiskd is on its way to the ready byte.
Coming ==
  \/ zd = "starting" /\ pipe = "open"
  \/ zd = "resolved" /\ pipe = "open" /\ kern.offsets = TRUE
  \/ zd = "up" /\ pipe = "one" /\ kern.offsets = TRUE

\* Until the first zygote has come to something nothing has changed what the
\* boot owes, and step by step the kernel gets ready for it.
Ready ==
  /\ pc \notin Before => kern.enabled = TRUE
  /\ hist.trouble = FALSE => /\ pc = "wait" => Coming
                             /\ pc \in {"scripts", "postMount", "done"} => kern.offsets = TRUE
NoneYet ==
  /\ Enabled \cap Managers = {} /\ "boot-completed" \notin stage /\ pc # "saving"
  /\ \A z \in Zygotes : zyg[z] \in {"down", "exec"} /\ guard[z] = 0
  /\ kern.safemode = FALSE
  /\ pc \notin {"early", "clear"} => temp = {}
  /\ ~IsSafe => Ready
OwedInv ==
  hist.owed = TRUE =>
    /\ phone.magisk = "none"
    /\ pc \in Before => hist.value = "on" /\ hist.cut = FALSE
    /\ hist.first = "none" /\ Zygotes # {} => NoneYet
    /\ hist.trouble = FALSE /\ ~IsSafe /\ hist.first # "none" => hist.first = "injected"

BootIInv == BootTypeOK /\ AsideInv /\ rc.whole = TRUE /\ SavedInv /\ OwedInv

USE DEF disk, boot, daemon, zygisk, Goto

LEMMA CollectionsHold ==
  /\ [mods |-> {}, whole |-> FALSE] \in Collections
  /\ RcComplete \in Collections
  /\ NoTmp \in Collections
  /\ \A some \in SUBSET (Enabled \ phone.empty) : [mods |-> some, whole |-> FALSE] \in Collections
<1>1. ASSUME NEW some \in SUBSET Modules, NEW whole \in BOOLEAN
      PROVE  [mods |-> some, whole |-> whole] \in Collections
  BY DEF Collections
<1> QED BY <1>1 DEF RcComplete, NoTmp, Enabled

LEMMA KeyPressKeeps ==
  ASSUME BootIInv, KeyPress
  PROVE  BootIInv'
<1>1. BootTypeOK'
  <2>1. keys.count \in Nat /\ keys.probe \in {"armed", "stopping", "gone"}
    BY DEF BootIInv, BootTypeOK, KeyStates
  <2>2. CASE keys.count + 1 = Presses
    <3>1. PICK probe \in {"armed", "stopping", "gone"} : keys' = [[keys EXCEPT !.count = Presses] EXCEPT !.probe = probe]
      BY <2>1, <2>2 DEF KeyPress, Stopped, BootIInv, BootTypeOK, KeyStates
    <3>2. keys' \in KeyStates
      BY <2>1, <3>1, DaemonBootAssumption DEF BootIInv, BootTypeOK, KeyStates
    <3> QED BY <3>2 DEF BootIInv, BootTypeOK, KeyPress
  <2>3. CASE keys.count + 1 # Presses
    <3>1. keys' = [keys EXCEPT !.count = keys.count + 1] BY <2>3 DEF KeyPress
    <3> QED BY <2>1, <3>1 DEF BootIInv, BootTypeOK, Steps, Values, KeyStates, KeyPress
  <2> QED BY <2>2, <2>3
<1>2. AsideInv'
  BY DaemonBootAssumption DEF BootIInv, BootTypeOK, Histories, KernelStates, KeyStates,
     AsideInv, Steps, IsSafe, KeyPress, Stopped
<1>3. rc'.whole = TRUE BY DEF BootIInv, BootTypeOK, Collections, KeyPress, Stopped
<1>4. SavedInv'
  BY DEF BootIInv, BootTypeOK, Histories, KernelStates, KeyStates, SavedInv, OwedInv,
     Before, Value, Steps, Values, KeyPress, Stopped
<1>5. OwedInv'
  BY DaemonBootAssumption DEF BootIInv, BootTypeOK, Histories, KernelStates, KeyStates,
     AsideInv, SavedInv, OwedInv, NoneYet, Ready, Coming, Before, IsSafe, Enabled, Value,
     Steps, KeyPress, Stopped
<1> QED BY <1>1, <1>2, <1>3, <1>4, <1>5 DEF BootIInv

LEMMA ProbeRemovedKeeps ==
  ASSUME BootIInv, ProbeRemoved
  PROVE  BootIInv'
<1>1. BootTypeOK'
  BY DaemonBootAssumption DEF BootIInv, BootTypeOK, Steps, Values, Collections, Histories,
     KernelStates, KeyStates, Enabled, ProbeRemoved
<1>2. AsideInv'
  BY DaemonBootAssumption DEF BootIInv, BootTypeOK, Histories, KernelStates, KeyStates,
     AsideInv, Steps, IsSafe, ProbeRemoved
<1>3. rc'.whole = TRUE BY DEF BootIInv, BootTypeOK, Collections, ProbeRemoved
<1>4. SavedInv'
  BY DEF BootIInv, BootTypeOK, Histories, KernelStates, KeyStates, SavedInv, OwedInv,
     Before, Value, Steps, Values, ProbeRemoved
<1>5. OwedInv'
  BY DaemonBootAssumption DEF BootIInv, BootTypeOK, Histories, KernelStates, KeyStates,
     AsideInv, SavedInv, OwedInv, NoneYet, Ready, Coming, Before, IsSafe, Enabled, Value,
     Steps, ProbeRemoved
<1> QED BY <1>1, <1>2, <1>3, <1>4, <1>5 DEF BootIInv

LEMMA ReportKeeps ==
  ASSUME BootIInv, Report
  PROVE  BootIInv'
<1>1. BootTypeOK'
  BY DaemonBootAssumption DEF BootIInv, BootTypeOK, Steps, Values, Collections, Histories,
     KernelStates, KeyStates, Enabled, Report, Stopped
<1>2. AsideInv'
  BY DaemonBootAssumption DEF BootIInv, BootTypeOK, Histories, KernelStates, KeyStates,
     AsideInv, Steps, IsSafe, Report, Stopped
<1>3. rc'.whole = TRUE BY DEF BootIInv, BootTypeOK, Collections, Report, Stopped
<1>4. SavedInv'
  BY DEF BootIInv, BootTypeOK, Histories, KernelStates, KeyStates, SavedInv, OwedInv,
     Before, Value, Steps, Values, Report, Stopped
<1>5. OwedInv'
  BY DaemonBootAssumption DEF BootIInv, BootTypeOK, Histories, KernelStates, KeyStates,
     AsideInv, SavedInv, OwedInv, NoneYet, Ready, Coming, Before, IsSafe, Enabled, Value,
     Steps, Report, Stopped
<1> QED BY <1>1, <1>2, <1>3, <1>4, <1>5 DEF BootIInv

LEMMA ClearTempKeeps ==
  ASSUME BootIInv, ClearTemp
  PROVE  BootIInv'
<1>1. BootTypeOK'
  BY DaemonBootAssumption DEF BootIInv, BootTypeOK, Steps, Values, Collections, Histories,
     KernelStates, KeyStates, Enabled, ClearTemp
<1>2. AsideInv'
  BY DaemonBootAssumption DEF BootIInv, BootTypeOK, Histories, KernelStates, KeyStates,
     AsideInv, Steps, IsSafe, ClearTemp
<1>3. rc'.whole = TRUE BY DEF BootIInv, BootTypeOK, Collections, ClearTemp
<1>4. SavedInv'
  BY DEF BootIInv, BootTypeOK, Histories, KernelStates, KeyStates, SavedInv, OwedInv,
     Before, Value, Steps, Values, ClearTemp
<1>5. OwedInv'
  BY DaemonBootAssumption DEF BootIInv, BootTypeOK, Histories, KernelStates, KeyStates,
     AsideInv, SavedInv, OwedInv, NoneYet, Ready, Coming, Before, IsSafe, Enabled, Value,
     Steps, ClearTemp
<1> QED BY <1>1, <1>2, <1>3, <1>4, <1>5 DEF BootIInv

LEMMA AskFirstKeeps ==
  ASSUME BootIInv, AskFirst
  PROVE  BootIInv'
<1>1. BootTypeOK'
  <2>1. keys' \in KeyStates
    BY DaemonBootAssumption DEF BootIInv, BootTypeOK, KeyStates, AskFirst, Ask, Stopped, IsSafe
  <2> QED
    BY <2>1, DaemonBootAssumption DEF BootIInv, BootTypeOK, Steps, Values, Histories,
       KernelStates, Collections, Enabled, AskFirst, Ask, Stopped, IsSafe
<1>2. AsideInv'
  BY DaemonBootAssumption DEF BootIInv, BootTypeOK, Histories, KernelStates, KeyStates,
     AsideInv, Steps, IsSafe, AskFirst, Ask, Stopped
<1>3. rc'.whole = TRUE BY DEF BootIInv, BootTypeOK, Collections, AskFirst, Ask, Stopped
<1>4. SavedInv'
  BY DEF BootIInv, BootTypeOK, Histories, KernelStates, KeyStates, SavedInv, OwedInv,
     Before, Value, Steps, Values, AskFirst, Ask, Stopped
<1>5. OwedInv'
  BY DaemonBootAssumption DEF BootIInv, BootTypeOK, Histories, KernelStates, KeyStates,
     AsideInv, SavedInv, OwedInv, NoneYet, Ready, Coming, Before, IsSafe, Enabled, Value,
     Steps, AskFirst, Ask, Stopped
<1> QED BY <1>1, <1>2, <1>3, <1>4, <1>5 DEF BootIInv

LEMMA CommonScriptsKeeps ==
  ASSUME BootIInv, CommonScripts
  PROVE  BootIInv'
<1>1. BootTypeOK'
  BY DaemonBootAssumption DEF BootIInv, BootTypeOK, Steps, Values, Collections, Histories,
     KernelStates, KeyStates, Enabled, CommonScripts
<1>2. AsideInv'
  BY DaemonBootAssumption DEF BootIInv, BootTypeOK, Histories, KernelStates, KeyStates,
     AsideInv, Steps, IsSafe, CommonScripts
<1>3. rc'.whole = TRUE BY DEF BootIInv, BootTypeOK, Collections, CommonScripts
<1>4. SavedInv'
  BY DEF BootIInv, BootTypeOK, Histories, KernelStates, KeyStates, SavedInv, OwedInv,
     Before, Value, Steps, Values, CommonScripts
<1>5. OwedInv'
  BY DaemonBootAssumption DEF BootIInv, BootTypeOK, Histories, KernelStates, KeyStates,
     AsideInv, SavedInv, OwedInv, NoneYet, Ready, Coming, Before, IsSafe, Enabled, Value,
     Steps, CommonScripts
<1> QED BY <1>1, <1>2, <1>3, <1>4, <1>5 DEF BootIInv

LEMMA RcOpenKeeps ==
  ASSUME BootIInv, RcOpen
  PROVE  BootIInv'
<1>1. BootTypeOK'
  <2>1. hist' \in Histories
    BY ZenonT(60), DaemonBootAssumption DEF BootIInv, BootTypeOK, Histories, Values,
       KernelStates, RcOpen
  <2>2. tmp' \in Collections
    BY CollectionsHold, DaemonBootAssumption DEF BootIInv, BootTypeOK, RcOpen
  <2> QED
    BY <2>1, <2>2, DaemonBootAssumption DEF BootIInv, BootTypeOK, Steps, Values,
       KernelStates, KeyStates, Enabled, RcOpen
<1>2. AsideInv'
  BY DaemonBootAssumption DEF BootIInv, BootTypeOK, Histories, KernelStates, KeyStates,
     AsideInv, Steps, IsSafe, RcOpen
<1>3. rc'.whole = TRUE BY DEF BootIInv, BootTypeOK, Collections, RcOpen
<1>4. SavedInv'
  BY DEF BootIInv, BootTypeOK, Histories, KernelStates, KeyStates, SavedInv, OwedInv,
     Before, Value, Steps, Values, RcOpen
<1>5. OwedInv'
  BY DaemonBootAssumption DEF BootIInv, BootTypeOK, Histories, KernelStates, KeyStates,
     AsideInv, SavedInv, OwedInv, NoneYet, Ready, Coming, Before, IsSafe, Enabled, Value,
     Steps, RcOpen
<1> QED BY <1>1, <1>2, <1>3, <1>4, <1>5 DEF BootIInv

LEMMA RcWriteKeeps ==
  ASSUME BootIInv, RcWrite
  PROVE  BootIInv'
<1>1. BootTypeOK'
  <2>1. hist' \in Histories
    BY ZenonT(60), DaemonBootAssumption DEF BootIInv, BootTypeOK, Histories, Values,
       KernelStates, RcWrite, RcComplete
  <2>2. tmp' \in Collections
    BY ZenonT(60), CollectionsHold, DaemonBootAssumption DEF BootIInv, BootTypeOK, RcWrite,
       RcComplete
  <2> QED
    BY <2>1, <2>2, DaemonBootAssumption DEF BootIInv, BootTypeOK, Steps, Values,
       KernelStates, KeyStates, Enabled, RcWrite, RcComplete
<1>2. AsideInv'
  BY DaemonBootAssumption DEF BootIInv, BootTypeOK, Histories, KernelStates, KeyStates,
     AsideInv, Steps, IsSafe, RcWrite, RcComplete
<1>3. rc'.whole = TRUE BY DEF BootIInv, BootTypeOK, Collections, RcWrite, RcComplete
<1>4. SavedInv'
  BY DEF BootIInv, BootTypeOK, Histories, KernelStates, KeyStates, SavedInv, OwedInv,
     Before, Value, Steps, Values, RcWrite, RcComplete
<1>5. OwedInv'
  BY DaemonBootAssumption DEF BootIInv, BootTypeOK, Histories, KernelStates, KeyStates,
     AsideInv, SavedInv, OwedInv, NoneYet, Ready, Coming, Before, IsSafe, Enabled, Value,
     Steps, RcWrite, RcComplete
<1> QED BY <1>1, <1>2, <1>3, <1>4, <1>5 DEF BootIInv

LEMMA RcRenameKeeps ==
  ASSUME BootIInv, RcRename
  PROVE  BootIInv'
<1>1. BootTypeOK'
  BY DaemonBootAssumption DEF BootIInv, BootTypeOK, Steps, Values, Collections, Histories,
     KernelStates, KeyStates, Enabled, RcRename, NoTmp
<1>2. AsideInv'
  BY DaemonBootAssumption DEF BootIInv, BootTypeOK, Histories, KernelStates, KeyStates,
     AsideInv, Steps, IsSafe, RcRename, NoTmp
<1>3. rc'.whole = TRUE BY DEF BootIInv, BootTypeOK, Collections, RcRename, NoTmp
<1>4. SavedInv'
  BY DEF BootIInv, BootTypeOK, Histories, KernelStates, KeyStates, SavedInv, OwedInv,
     Before, Value, Steps, Values, RcRename, NoTmp
<1>5. OwedInv'
  BY DaemonBootAssumption DEF BootIInv, BootTypeOK, Histories, KernelStates, KeyStates,
     AsideInv, SavedInv, OwedInv, NoneYet, Ready, Coming, Before, IsSafe, Enabled, Value,
     Steps, RcRename, NoTmp
<1> QED BY <1>1, <1>2, <1>3, <1>4, <1>5 DEF BootIInv

LEMMA LoadPolicyRulesKeeps ==
  ASSUME BootIInv, LoadPolicyRules
  PROVE  BootIInv'
<1>1. BootTypeOK'
  <2>1. hist' \in Histories
    BY DaemonBootAssumption DEF BootIInv, BootTypeOK, Histories, Values, KernelStates,
       LoadPolicyRules, NotDisabled
  <2> QED
    BY <2>1, DaemonBootAssumption DEF BootIInv, BootTypeOK, Steps, Values, KernelStates,
       KeyStates, Collections, Enabled, LoadPolicyRules, NotDisabled
<1>2. AsideInv'
  BY DaemonBootAssumption DEF BootIInv, BootTypeOK, Histories, KernelStates, KeyStates,
     AsideInv, Steps, IsSafe, LoadPolicyRules, NotDisabled
<1>3. rc'.whole = TRUE BY DEF BootIInv, BootTypeOK, Collections, LoadPolicyRules, NotDisabled
<1>4. SavedInv'
  BY DEF BootIInv, BootTypeOK, Histories, KernelStates, KeyStates, SavedInv, OwedInv,
     Before, Value, Steps, Values, LoadPolicyRules, NotDisabled
<1>5. OwedInv'
  BY DaemonBootAssumption DEF BootIInv, BootTypeOK, Histories, KernelStates, KeyStates,
     AsideInv, SavedInv, OwedInv, NoneYet, Ready, Coming, Before, IsSafe, Enabled, Value,
     Steps, LoadPolicyRules, NotDisabled
<1> QED BY <1>1, <1>2, <1>3, <1>4, <1>5 DEF BootIInv

LEMMA InitFeaturesKeeps ==
  ASSUME BootIInv, InitFeatures
  PROVE  BootIInv'
<1>1. BootTypeOK'
  <2>1. kern' \in KernelStates
    BY ZenonT(60), DaemonBootAssumption DEF BootIInv, BootTypeOK, KernelStates,
       InitFeatures, Managed
  <2> QED
    BY <2>1, DaemonBootAssumption DEF BootIInv, BootTypeOK, Steps, Values, Histories,
       KeyStates, Collections, Enabled, InitFeatures, Managed
<1>2. AsideInv'
  BY DaemonBootAssumption DEF BootIInv, BootTypeOK, Histories, KernelStates, KeyStates,
     AsideInv, Steps, IsSafe, InitFeatures, Managed
<1>3. rc'.whole = TRUE BY DEF BootIInv, BootTypeOK, Collections, InitFeatures, Managed
<1>4. SavedInv'
  BY ZenonT(60) DEF BootIInv, BootTypeOK, Histories, KernelStates, KeyStates, SavedInv,
     OwedInv, Before, Value, Steps, Values, InitFeatures, Managed
<1>5. OwedInv'
  BY DaemonBootAssumption DEF BootIInv, BootTypeOK, Histories, KernelStates, KeyStates,
     AsideInv, SavedInv, OwedInv, NoneYet, Ready, Coming, Before, IsSafe, Enabled, Value,
     Steps, InitFeatures, Managed
<1> QED BY <1>1, <1>2, <1>3, <1>4, <1>5 DEF BootIInv

LEMMA ResaveKeeps ==
  ASSUME BootIInv, Resave
  PROVE  BootIInv'
<1>1. BootTypeOK'
  <2>1. hist' \in Histories
    BY DaemonBootAssumption DEF BootIInv, BootTypeOK, Histories, Values, KernelStates,
       Resave, Written, Value
  <2> QED
    BY <2>1, DaemonBootAssumption DEF BootIInv, BootTypeOK, Steps, Values, KernelStates,
       KeyStates, Collections, Enabled, Resave, Written, Value
<1>2. AsideInv'
  BY DaemonBootAssumption DEF BootIInv, BootTypeOK, Histories, KernelStates, KeyStates,
     AsideInv, Steps, IsSafe, Resave, Written
<1>3. rc'.whole = TRUE BY DEF BootIInv, BootTypeOK, Collections, Resave, Written
<1>4. SavedInv'
  BY DEF BootIInv, BootTypeOK, Histories, KernelStates, KeyStates, SavedInv, OwedInv,
     Before, Value, Steps, Values, Resave, Written
<1>5. OwedInv'
  BY DaemonBootAssumption DEF BootIInv, BootTypeOK, Histories, KernelStates, KeyStates,
     AsideInv, SavedInv, OwedInv, NoneYet, Ready, Coming, Before, IsSafe, Enabled, Value,
     Steps, Resave, Written
<1> QED BY <1>1, <1>2, <1>3, <1>4, <1>5 DEF BootIInv

LEMMA NoLaunchKeeps ==
  ASSUME BootIInv, NoLaunch
  PROVE  BootIInv'
<1>1. BootTypeOK'
  BY DaemonBootAssumption DEF BootIInv, BootTypeOK, Steps, Values, Collections, Histories,
     KernelStates, KeyStates, Enabled, NoLaunch, Ask, Stopped, WontLaunch
<1>2. AsideInv'
  BY DaemonBootAssumption DEF BootIInv, BootTypeOK, Histories, KernelStates, KeyStates,
     AsideInv, Steps, IsSafe, NoLaunch, Ask, Stopped, WontLaunch
<1>3. rc'.whole = TRUE BY DEF BootIInv, BootTypeOK, Collections, NoLaunch, Ask, Stopped, WontLaunch
<1>4. SavedInv'
  BY DEF BootIInv, BootTypeOK, Histories, KernelStates, KeyStates, SavedInv, OwedInv,
     Before, Value, Steps, Values, NoLaunch, Ask, Stopped, WontLaunch
<1>5. OwedInv'
  BY DaemonBootAssumption DEF BootIInv, BootTypeOK, Histories, KernelStates, KeyStates,
     AsideInv, SavedInv, OwedInv, NoneYet, Ready, Coming, Before, IsSafe, Enabled, Value,
     Steps, NoLaunch, Ask, Stopped, WontLaunch
<1> QED BY <1>1, <1>2, <1>3, <1>4, <1>5 DEF BootIInv

LEMMA SpawnKeeps ==
  ASSUME BootIInv, Spawn
  PROVE  BootIInv'
<1>1. BootTypeOK'
  <2>1. hist' \in Histories
    BY ZenonT(60), DaemonBootAssumption DEF BootIInv, BootTypeOK, Histories, Values,
       KernelStates, Spawn, Ask, Stopped, WontLaunch, Trouble
  <2>2. keys' \in KeyStates
    BY DaemonBootAssumption DEF BootIInv, BootTypeOK, KeyStates, Spawn, Ask, Stopped,
       WontLaunch, Trouble
  <2> QED
    BY <2>1, <2>2, DaemonBootAssumption DEF BootIInv, BootTypeOK, Steps, Values,
       KernelStates, Collections, Enabled, Spawn, Ask, Stopped, WontLaunch, Trouble
<1>2. AsideInv'
  BY DaemonBootAssumption DEF BootIInv, BootTypeOK, Histories, KernelStates, KeyStates,
     AsideInv, Steps, IsSafe, Spawn, Ask, Stopped, WontLaunch, Trouble
<1>3. rc'.whole = TRUE
  BY DEF BootIInv, BootTypeOK, Collections, Spawn, Ask, Stopped, WontLaunch, Trouble
<1>4. SavedInv'
  BY DEF BootIInv, BootTypeOK, Histories, KernelStates, KeyStates, SavedInv, OwedInv,
     Before, Value, Steps, Values, Spawn, Ask, Stopped, WontLaunch, Trouble
<1>5. OwedInv'
  BY DaemonBootAssumption DEF BootIInv, BootTypeOK, Histories, KernelStates, KeyStates,
     AsideInv, SavedInv, OwedInv, NoneYet, Ready, Coming, Before, IsSafe, Enabled, Value,
     Steps, Spawn, Ask, Stopped, WontLaunch, Trouble
<1> QED BY <1>1, <1>2, <1>3, <1>4, <1>5 DEF BootIInv

LEMMA WaitReadyKeeps ==
  ASSUME BootIInv, WaitReady
  PROVE  BootIInv'
<1>1. BootTypeOK'
  BY DaemonBootAssumption DEF BootIInv, BootTypeOK, Steps, Values, Collections, Histories,
     KernelStates, KeyStates, Enabled, WaitReady
<1>2. AsideInv'
  BY DaemonBootAssumption DEF BootIInv, BootTypeOK, Histories, KernelStates, KeyStates,
     AsideInv, Steps, IsSafe, WaitReady
<1>3. rc'.whole = TRUE BY DEF BootIInv, BootTypeOK, Collections, WaitReady
<1>4. SavedInv'
  BY DEF BootIInv, BootTypeOK, Histories, KernelStates, KeyStates, SavedInv, OwedInv,
     Before, Value, Steps, Values, WaitReady
<1>5. OwedInv'
  BY DaemonBootAssumption DEF BootIInv, BootTypeOK, Histories, KernelStates, KeyStates,
     AsideInv, SavedInv, OwedInv, NoneYet, Ready, Coming, Before, IsSafe, Enabled, Value,
     Steps, WaitReady
<1> QED BY <1>1, <1>2, <1>3, <1>4, <1>5 DEF BootIInv

LEMMA WaitTimeoutKeeps ==
  ASSUME BootIInv, WaitTimeout
  PROVE  BootIInv'
<1>1. BootTypeOK'
  <2>1. hist' \in Histories
    BY DaemonBootAssumption DEF BootIInv, BootTypeOK, Histories, Values, KernelStates,
       WaitTimeout, Trouble
  <2> QED
    BY <2>1, DaemonBootAssumption DEF BootIInv, BootTypeOK, Steps, Values, KernelStates,
       KeyStates, Collections, Enabled, WaitTimeout, Trouble
<1>2. AsideInv'
  BY DaemonBootAssumption DEF BootIInv, BootTypeOK, Histories, KernelStates, KeyStates,
     AsideInv, Steps, IsSafe, WaitTimeout, Trouble
<1>3. rc'.whole = TRUE BY DEF BootIInv, BootTypeOK, Collections, WaitTimeout, Trouble
<1>4. SavedInv'
  BY DEF BootIInv, BootTypeOK, Histories, KernelStates, KeyStates, SavedInv, OwedInv,
     Before, Value, Steps, Values, WaitTimeout, Trouble
<1>5. OwedInv'
  BY DaemonBootAssumption DEF BootIInv, BootTypeOK, Histories, KernelStates, KeyStates,
     AsideInv, SavedInv, OwedInv, NoneYet, Ready, Coming, Before, IsSafe, Enabled, Value,
     Steps, WaitTimeout, Trouble
<1> QED BY <1>1, <1>2, <1>3, <1>4, <1>5 DEF BootIInv

LEMMA StageScriptsKeeps ==
  ASSUME BootIInv, StageScripts
  PROVE  BootIInv'
<1>1. BootTypeOK'
  BY DaemonBootAssumption DEF BootIInv, BootTypeOK, Steps, Values, Collections, Histories,
     KernelStates, KeyStates, Enabled, StageScripts, StageModules, NotDisabled
<1>2. AsideInv'
  BY DaemonBootAssumption DEF BootIInv, BootTypeOK, Histories, KernelStates, KeyStates,
     AsideInv, Steps, IsSafe, StageScripts, StageModules, NotDisabled
<1>3. rc'.whole = TRUE
  BY DEF BootIInv, BootTypeOK, Collections, StageScripts, StageModules, NotDisabled
<1>4. SavedInv'
  BY DEF BootIInv, BootTypeOK, Histories, KernelStates, KeyStates, SavedInv, OwedInv,
     Before, Value, Steps, Values, StageScripts, StageModules, NotDisabled
<1>5. OwedInv'
  BY DaemonBootAssumption DEF BootIInv, BootTypeOK, Histories, KernelStates, KeyStates,
     AsideInv, SavedInv, OwedInv, NoneYet, Ready, Coming, Before, IsSafe, Enabled, Value,
     Steps, StageScripts, StageModules, NotDisabled
<1> QED BY <1>1, <1>2, <1>3, <1>4, <1>5 DEF BootIInv

LEMMA PostMountKeeps ==
  ASSUME BootIInv, PostMount
  PROVE  BootIInv'
<1>1. BootTypeOK'
  BY DaemonBootAssumption DEF BootIInv, BootTypeOK, Steps, Values, Collections, Histories,
     KernelStates, KeyStates, Enabled, PostMount, RunStage, Stopped, StageModules
<1>2. AsideInv'
  BY DaemonBootAssumption DEF BootIInv, BootTypeOK, Histories, KernelStates, KeyStates,
     AsideInv, Steps, IsSafe, PostMount, RunStage, Stopped, StageModules
<1>3. rc'.whole = TRUE
  BY DEF BootIInv, BootTypeOK, Collections, PostMount, RunStage, Stopped, StageModules
<1>4. SavedInv'
  BY DEF BootIInv, BootTypeOK, Histories, KernelStates, KeyStates, SavedInv, OwedInv,
     Before, Value, Steps, Values, PostMount, RunStage, Stopped, StageModules
<1>5. OwedInv'
  BY DaemonBootAssumption DEF BootIInv, BootTypeOK, Histories, KernelStates, KeyStates,
     AsideInv, SavedInv, OwedInv, NoneYet, Ready, Coming, Before, IsSafe, Enabled, Value,
     Steps, PostMount, RunStage, Stopped, StageModules
<1> QED BY <1>1, <1>2, <1>3, <1>4, <1>5 DEF BootIInv

LEMMA LaterStageKeeps ==
  ASSUME BootIInv, LaterStage
  PROVE  BootIInv'
<1>1. BootTypeOK'
  BY DaemonBootAssumption DEF BootIInv, BootTypeOK, Steps, Values, Collections, Histories,
     KernelStates, KeyStates, Enabled, LaterStage, RunStage, Stopped, StageModules
<1>2. AsideInv'
  BY DaemonBootAssumption DEF BootIInv, BootTypeOK, Histories, KernelStates, KeyStates,
     AsideInv, Steps, IsSafe, LaterStage, RunStage, Stopped, StageModules
<1>3. rc'.whole = TRUE
  BY DEF BootIInv, BootTypeOK, Collections, LaterStage, RunStage, Stopped, StageModules
<1>4. SavedInv'
  BY DEF BootIInv, BootTypeOK, Histories, KernelStates, KeyStates, SavedInv, OwedInv,
     Before, Value, Steps, Values, LaterStage, RunStage, Stopped, StageModules
<1>5. OwedInv'
  BY DaemonBootAssumption DEF BootIInv, BootTypeOK, Histories, KernelStates, KeyStates,
     AsideInv, SavedInv, OwedInv, NoneYet, Ready, Coming, Before, IsSafe, Enabled, Value,
     Steps, LaterStage, RunStage, Stopped, StageModules
<1> QED BY <1>1, <1>2, <1>3, <1>4, <1>5 DEF BootIInv

LEMMA ZdResolveKeeps ==
  ASSUME BootIInv, ZdResolve
  PROVE  BootIInv'
<1>1. BootTypeOK'
  <2>1. hist' \in Histories
    BY ZenonT(60), DaemonBootAssumption DEF BootIInv, BootTypeOK, Histories, Values,
       KernelStates, ZdResolve, Trouble
  <2>2. kern' \in KernelStates
    BY DaemonBootAssumption DEF BootIInv, BootTypeOK, KernelStates, ZdResolve, Trouble
  <2> QED
    BY <2>1, <2>2, DaemonBootAssumption DEF BootIInv, BootTypeOK, Steps, Values, KeyStates,
       Collections, Enabled, ZdResolve, Trouble
<1>2. AsideInv'
  BY DaemonBootAssumption DEF BootIInv, BootTypeOK, Histories, KernelStates, KeyStates,
     AsideInv, Steps, IsSafe, ZdResolve, Trouble
<1>3. rc'.whole = TRUE BY DEF BootIInv, BootTypeOK, Collections, ZdResolve, Trouble
<1>4. SavedInv'
  BY DEF BootIInv, BootTypeOK, Histories, KernelStates, KeyStates, SavedInv, OwedInv,
     Before, Value, Steps, Values, ZdResolve, Trouble
<1>5. OwedInv'
  BY DaemonBootAssumption DEF BootIInv, BootTypeOK, Histories, KernelStates, KeyStates,
     AsideInv, SavedInv, OwedInv, NoneYet, Ready, Coming, Before, IsSafe, Enabled, Value,
     Steps, ZdResolve, Trouble
<1> QED BY <1>1, <1>2, <1>3, <1>4, <1>5 DEF BootIInv

LEMMA ZdNotifyKeeps ==
  ASSUME BootIInv, ZdNotify
  PROVE  BootIInv'
<1>1. BootTypeOK'
  BY DaemonBootAssumption DEF BootIInv, BootTypeOK, Steps, Values, Collections, Histories,
     KernelStates, KeyStates, Enabled, ZdNotify
<1>2. AsideInv'
  BY DaemonBootAssumption DEF BootIInv, BootTypeOK, Histories, KernelStates, KeyStates,
     AsideInv, Steps, IsSafe, ZdNotify
<1>3. rc'.whole = TRUE BY DEF BootIInv, BootTypeOK, Collections, ZdNotify
<1>4. SavedInv'
  BY DEF BootIInv, BootTypeOK, Histories, KernelStates, KeyStates, SavedInv, OwedInv,
     Before, Value, Steps, Values, ZdNotify
<1>5. OwedInv'
  BY DaemonBootAssumption DEF BootIInv, BootTypeOK, Histories, KernelStates, KeyStates,
     AsideInv, SavedInv, OwedInv, NoneYet, Ready, Coming, Before, IsSafe, Enabled, Value,
     Steps, ZdNotify
<1> QED BY <1>1, <1>2, <1>3, <1>4, <1>5 DEF BootIInv

LEMMA ZdDiesKeeps ==
  ASSUME BootIInv, ZdDies
  PROVE  BootIInv'
<1>1. BootTypeOK'
  <2>1. hist' \in Histories
    BY DaemonBootAssumption DEF BootIInv, BootTypeOK, Histories, Values, KernelStates,
       ZdDies, Trouble
  <2> QED
    BY <2>1, DaemonBootAssumption DEF BootIInv, BootTypeOK, Steps, Values, KernelStates,
       KeyStates, Collections, Enabled, ZdDies, Trouble
<1>2. AsideInv'
  BY DaemonBootAssumption DEF BootIInv, BootTypeOK, Histories, KernelStates, KeyStates,
     AsideInv, Steps, IsSafe, ZdDies, Trouble
<1>3. rc'.whole = TRUE BY DEF BootIInv, BootTypeOK, Collections, ZdDies, Trouble
<1>4. SavedInv'
  BY DEF BootIInv, BootTypeOK, Histories, KernelStates, KeyStates, SavedInv, OwedInv,
     Before, Value, Steps, Values, ZdDies, Trouble
<1>5. OwedInv'
  BY DaemonBootAssumption DEF BootIInv, BootTypeOK, Histories, KernelStates, KeyStates,
     AsideInv, SavedInv, OwedInv, NoneYet, Ready, Coming, Before, IsSafe, Enabled, Value,
     Steps, ZdDies, Trouble
<1> QED BY <1>1, <1>2, <1>3, <1>4, <1>5 DEF BootIInv

LEMMA CrashKeeps ==
  ASSUME BootIInv, NEW z \in Zygotes, Crash(z)
  PROVE  BootIInv'
<1>1. BootTypeOK'
  BY DaemonBootAssumption DEF BootIInv, BootTypeOK, Steps, Values, Collections, Histories,
     KernelStates, KeyStates, Enabled, Crash
<1>2. AsideInv'
  BY DaemonBootAssumption DEF BootIInv, BootTypeOK, Histories, KernelStates, KeyStates,
     AsideInv, Steps, IsSafe, Crash
<1>3. rc'.whole = TRUE BY DEF BootIInv, BootTypeOK, Collections, Crash
<1>4. SavedInv'
  BY DEF BootIInv, BootTypeOK, Histories, KernelStates, KeyStates, SavedInv, OwedInv,
     Before, Value, Steps, Values, Crash
<1>5. OwedInv'
  BY DaemonBootAssumption DEF BootIInv, BootTypeOK, Histories, KernelStates, KeyStates,
     AsideInv, SavedInv, OwedInv, NoneYet, Ready, Coming, Before, IsSafe, Enabled, Value,
     Steps, Crash
<1> QED BY <1>1, <1>2, <1>3, <1>4, <1>5 DEF BootIInv

LEMMA KillKeeps ==
  ASSUME BootIInv, NEW z \in Zygotes, Kill(z)
  PROVE  BootIInv'
<1>1. BootTypeOK'
  BY DaemonBootAssumption DEF BootIInv, BootTypeOK, Steps, Values, Collections, Histories,
     KernelStates, KeyStates, Enabled, Kill
<1>2. AsideInv'
  BY DaemonBootAssumption DEF BootIInv, BootTypeOK, Histories, KernelStates, KeyStates,
     AsideInv, Steps, IsSafe, Kill
<1>3. rc'.whole = TRUE BY DEF BootIInv, BootTypeOK, Collections, Kill
<1>4. SavedInv'
  BY DEF BootIInv, BootTypeOK, Histories, KernelStates, KeyStates, SavedInv, OwedInv,
     Before, Value, Steps, Values, Kill
<1>5. OwedInv'
  BY DaemonBootAssumption DEF BootIInv, BootTypeOK, Histories, KernelStates, KeyStates,
     AsideInv, SavedInv, OwedInv, NoneYet, Ready, Coming, Before, IsSafe, Enabled, Value,
     Steps, Kill
<1> QED BY <1>1, <1>2, <1>3, <1>4, <1>5 DEF BootIInv

LEMMA SetModuleKeeps ==
  ASSUME BootIInv, NEW m \in Modules, NEW s \in {"enabled", "disabled", "removing"}, SetModule(m, s)
  PROVE  BootIInv'
<1>1. BootTypeOK'
  BY DaemonBootAssumption DEF BootIInv, BootTypeOK, Steps, Values, Collections, Histories,
     KernelStates, KeyStates, Enabled, SetModule, MayEdit, Running
<1>2. AsideInv'
  BY DaemonBootAssumption DEF BootIInv, BootTypeOK, Histories, KernelStates, KeyStates,
     AsideInv, Steps, IsSafe, SetModule, MayEdit, Running
<1>3. rc'.whole = TRUE BY DEF BootIInv, BootTypeOK, Collections, SetModule, MayEdit, Running
<1>4. SavedInv'
  BY DEF BootIInv, BootTypeOK, Histories, KernelStates, KeyStates, SavedInv, OwedInv,
     Before, Value, Steps, Values, SetModule, MayEdit, Running
<1>5. OwedInv'
  BY DaemonBootAssumption DEF BootIInv, BootTypeOK, Histories, KernelStates, KeyStates,
     AsideInv, SavedInv, OwedInv, NoneYet, Ready, Coming, Before, IsSafe, Enabled, Value,
     Steps, SetModule, MayEdit, Running
<1> QED BY <1>1, <1>2, <1>3, <1>4, <1>5 DEF BootIInv

LEMMA SetTempKeeps ==
  ASSUME BootIInv, NEW m \in Modules, SetTemp(m)
  PROVE  BootIInv'
<1>1. BootTypeOK'
  BY DaemonBootAssumption DEF BootIInv, BootTypeOK, Steps, Values, Collections, Histories,
     KernelStates, KeyStates, Enabled, SetTemp, MayEdit, Running
<1>2. AsideInv'
  BY DaemonBootAssumption DEF BootIInv, BootTypeOK, Histories, KernelStates, KeyStates,
     AsideInv, Steps, IsSafe, SetTemp, MayEdit, Running
<1>3. rc'.whole = TRUE BY DEF BootIInv, BootTypeOK, Collections, SetTemp, MayEdit, Running
<1>4. SavedInv'
  BY DEF BootIInv, BootTypeOK, Histories, KernelStates, KeyStates, SavedInv, OwedInv,
     Before, Value, Steps, Values, SetTemp, MayEdit, Running
<1>5. OwedInv'
  BY DaemonBootAssumption DEF BootIInv, BootTypeOK, Histories, KernelStates, KeyStates,
     AsideInv, SavedInv, OwedInv, NoneYet, Ready, Coming, Before, IsSafe, Enabled, Value,
     Steps, SetTemp, MayEdit, Running
<1> QED BY <1>1, <1>2, <1>3, <1>4, <1>5 DEF BootIInv

LEMMA FeatureSetKeeps ==
  ASSUME BootIInv, NEW on \in BOOLEAN, FeatureSet(on)
  PROVE  BootIInv'
<1>1. BootTypeOK'
  BY DaemonBootAssumption DEF BootIInv, BootTypeOK, Steps, Values, Collections, Histories,
     KernelStates, KeyStates, Enabled, FeatureSet, MayEdit, Running
<1>2. AsideInv'
  BY DaemonBootAssumption DEF BootIInv, BootTypeOK, Histories, KernelStates, KeyStates,
     AsideInv, Steps, IsSafe, FeatureSet, MayEdit, Running
<1>3. rc'.whole = TRUE BY DEF BootIInv, BootTypeOK, Collections, FeatureSet, MayEdit, Running
<1>4. SavedInv'
  BY DEF BootIInv, BootTypeOK, Histories, KernelStates, KeyStates, SavedInv, OwedInv,
     Before, Value, Steps, Values, FeatureSet, MayEdit, Running
<1>5. OwedInv'
  BY DaemonBootAssumption DEF BootIInv, BootTypeOK, Histories, KernelStates, KeyStates,
     AsideInv, SavedInv, OwedInv, NoneYet, Ready, Coming, Before, IsSafe, Enabled, Value,
     Steps, FeatureSet, MayEdit, Running
<1> QED BY <1>1, <1>2, <1>3, <1>4, <1>5 DEF BootIInv

LEMMA SaveBeginKeeps ==
  ASSUME BootIInv, SaveBegin
  PROVE  BootIInv'
<1>1. BootTypeOK'
  BY DaemonBootAssumption DEF BootIInv, BootTypeOK, Steps, Values, Collections, Histories,
     KernelStates, KeyStates, Enabled, SaveBegin, Running
<1>2. AsideInv'
  BY DaemonBootAssumption DEF BootIInv, BootTypeOK, Histories, KernelStates, KeyStates,
     AsideInv, Steps, IsSafe, SaveBegin, Running
<1>3. rc'.whole = TRUE BY DEF BootIInv, BootTypeOK, Collections, SaveBegin, Running
<1>4. SavedInv'
  BY DEF BootIInv, BootTypeOK, Histories, KernelStates, KeyStates, SavedInv, OwedInv,
     Before, Value, Steps, Values, SaveBegin, Running
<1>5. OwedInv'
  BY DaemonBootAssumption DEF BootIInv, BootTypeOK, Histories, KernelStates, KeyStates,
     AsideInv, SavedInv, OwedInv, NoneYet, Ready, Coming, Before, IsSafe, Enabled, Value,
     Steps, SaveBegin, Running
<1> QED BY <1>1, <1>2, <1>3, <1>4, <1>5 DEF BootIInv

LEMMA SaveEndKeeps ==
  ASSUME BootIInv, SaveEnd
  PROVE  BootIInv'
<1>1. BootTypeOK'
  <2>1. hist' \in Histories
    BY DaemonBootAssumption DEF BootIInv, BootTypeOK, Histories, Values, KernelStates,
       SaveEnd, Written, Value
  <2> QED
    BY <2>1, DaemonBootAssumption DEF BootIInv, BootTypeOK, Steps, Values, KernelStates,
       KeyStates, Collections, Enabled, SaveEnd, Written, Value
<1>2. AsideInv'
  BY DaemonBootAssumption DEF BootIInv, BootTypeOK, Histories, KernelStates, KeyStates,
     AsideInv, Steps, IsSafe, SaveEnd, Written
<1>3. rc'.whole = TRUE BY DEF BootIInv, BootTypeOK, Collections, SaveEnd, Written
<1>4. SavedInv'
  BY DEF BootIInv, BootTypeOK, Histories, KernelStates, KeyStates, SavedInv, OwedInv,
     Before, Value, Steps, Values, SaveEnd, Written
<1>5. OwedInv'
  BY DaemonBootAssumption DEF BootIInv, BootTypeOK, Histories, KernelStates, KeyStates,
     AsideInv, SavedInv, OwedInv, NoneYet, Ready, Coming, Before, IsSafe, Enabled, Value,
     Steps, SaveEnd, Written
<1> QED BY <1>1, <1>2, <1>3, <1>4, <1>5 DEF BootIInv

LEMMA PowerLossKeeps ==
  ASSUME BootIInv, PowerLoss
  PROVE  BootIInv'
<1>1. BootTypeOK'
  <2>1. hist' \in Histories
    BY DaemonBootAssumption DEF BootIInv, BootTypeOK, Histories, Values, KernelStates,
       PowerLoss, Volatile, Owed, NoTmp
  <2>2. keys' \in KeyStates
    BY DaemonBootAssumption DEF BootIInv, BootTypeOK, KeyStates, PowerLoss, Volatile, Owed, NoTmp
  <2>3. kern' \in KernelStates
    BY DaemonBootAssumption DEF BootIInv, BootTypeOK, KernelStates, PowerLoss, Volatile, Owed, NoTmp
  <2>4. tmp' \in Collections
    BY CollectionsHold, DaemonBootAssumption DEF BootIInv, BootTypeOK, PowerLoss, Volatile,
       Owed, NoTmp
  <2>5. used' \in [events : Nat, boots : Nat] BY DEF BootIInv, BootTypeOK, PowerLoss
  <2>6. guard' \in [Zygotes -> Nat] /\ zyg' \in [Zygotes -> {"down", "exec", "plain", "injected"}]
    BY DEF PowerLoss, Volatile
  <2>7. UNCHANGED <<phone, disk>> /\ pc' \in Steps /\ zd' = "none" /\ pipe' = "none" /\ prop' \in BOOLEAN
        /\ safe' = FALSE /\ stage' = {} /\ ran' = {}
    BY DEF PowerLoss, Volatile, Steps
  <2> QED BY <2>1, <2>2, <2>3, <2>4, <2>5, <2>6, <2>7 DEF BootIInv, BootTypeOK
<1>2. AsideInv'
  BY DaemonBootAssumption DEF BootIInv, BootTypeOK, Histories, KernelStates, KeyStates,
     AsideInv, Steps, IsSafe, PowerLoss, Volatile, Owed, NoTmp
<1>3. rc'.whole = TRUE BY DEF BootIInv, BootTypeOK, Collections, PowerLoss, Volatile, Owed, NoTmp
<1>4. SavedInv'
  BY DEF BootIInv, BootTypeOK, Histories, KernelStates, KeyStates, SavedInv, OwedInv,
     Before, Value, Steps, Values, PowerLoss, Volatile, Owed, NoTmp
<1>5. OwedInv'
  BY DaemonBootAssumption DEF BootIInv, BootTypeOK, Histories, KernelStates, KeyStates,
     AsideInv, SavedInv, OwedInv, NoneYet, Ready, Coming, Before, IsSafe, Enabled, Value,
     Steps, PowerLoss, Volatile, Owed, NoTmp
<1> QED BY <1>1, <1>2, <1>3, <1>4, <1>5 DEF BootIInv

\* What the attempt on a zygote leaves: its state, the first outcome of the
\* boot, and whether something failed.
Became(z, how, failed) ==
  /\ zyg' = [zyg EXCEPT ![z] = how]
  /\ hist' \in Histories
  /\ hist'.owed = hist.owed /\ hist'.value = hist.value /\ hist'.cut = hist.cut
  /\ hist'.trouble = failed
  /\ hist'.first = IF hist.first = "none" /\ how # "exec" THEN how ELSE hist.first

LEMMA OutcomeBecomes ==
  ASSUME BootTypeOK, NEW z \in Zygotes, NEW how \in {"exec", "plain", "injected"}, Outcome(z, how)
  PROVE  Became(z, how, hist.trouble)
<1>1. CASE hist.first = "none" /\ how # "exec"
  <2>1. hist' = [hist EXCEPT !.first = how] BY <1>1 DEF Outcome
  <2>2. how \in {"plain", "injected"} BY <1>1
  <2>3. hist' \in Histories BY <2>1, <2>2 DEF BootTypeOK, Histories
  <2> QED BY <1>1, <2>1, <2>3 DEF BootTypeOK, Histories, Became, Outcome
<1>2. CASE ~(hist.first = "none" /\ how # "exec")
  <2>1. hist' = hist BY <1>2 DEF Outcome
  <2> QED BY <1>2, <2>1 DEF BootTypeOK, Became, Outcome
<1> QED BY <1>1, <1>2

LEMMA UnableBecomes ==
  ASSUME BootTypeOK, NEW z \in Zygotes, Unable(z)
  PROVE  Became(z, "plain", TRUE)
<1>1. PICK first \in {"none", "plain", "injected"} :
         /\ first = IF hist.first = "none" THEN "plain" ELSE hist.first
         /\ hist' = [hist EXCEPT !.trouble = TRUE, !.first = first]
  BY DEF Unable, BootTypeOK, Histories
<1>2. hist' \in Histories BY <1>1 DEF BootTypeOK, Histories
<1> QED BY <1>1, <1>2 DEF BootTypeOK, Histories, Became, Unable

\* An exec is tried where the feature is on, and passed over elsewhere.
LEMMA ExecZygoteKeeps ==
  ASSUME BootIInv, NEW z \in Zygotes, ExecZygote(z)
  PROVE  BootIInv'
<1>0. PICK how \in {"exec", "plain"}, failed \in BOOLEAN :
         /\ Became(z, how, failed)
         /\ hist.trouble = TRUE => failed = TRUE
         /\ failed = FALSE /\ kern.enabled = TRUE /\ kern.safemode = FALSE => how = "exec"
  <2>1. BootTypeOK /\ hist.trouble \in BOOLEAN BY DEF BootIInv, BootTypeOK, Histories
  <2>2. CASE kern.enabled /\ ~kern.safemode /\ Outcome(z, "exec")
    BY <2>1, <2>2, OutcomeBecomes
  <2>3. CASE Unable(z) BY <2>1, <2>3, UnableBecomes
  <2>4. CASE ~(kern.enabled /\ ~kern.safemode) /\ Outcome(z, "plain")
    BY <2>1, <2>4, OutcomeBecomes
  <2> QED BY <2>2, <2>3, <2>4 DEF ExecZygote
<1>1. BootTypeOK' BY <1>0 DEF BootIInv, BootTypeOK, Became, ExecZygote
<1>2. AsideInv' BY <1>0 DEF BootIInv, BootTypeOK, AsideInv, IsSafe, Became, ExecZygote
<1>3. rc'.whole = TRUE BY DEF BootIInv, ExecZygote
<1>4. SavedInv' BY <1>0 DEF BootIInv, SavedInv, Value, Became, ExecZygote
<1>5. OwedInv'
  BY <1>0 DEF BootIInv, BootTypeOK, KernelStates, Histories, OwedInv, NoneYet, Ready,
     Coming, Before, IsSafe, Enabled, Became,
     ExecZygote
<1> QED BY <1>1, <1>2, <1>3, <1>4, <1>5 DEF BootIInv

\* The guard counts before it decides, so the first zygote of a boot is let in.
LEMMA InjectWorkKeeps ==
  ASSUME BootIInv, NEW z \in Zygotes, InjectWork(z)
  PROVE  BootIInv'
<1>0. PICK how \in {"injected", "plain"}, failed \in BOOLEAN :
         /\ Became(z, how, failed)
         /\ hist.trouble = TRUE => failed = TRUE
         /\ failed = FALSE /\ kern.enabled = TRUE /\ kern.offsets = TRUE /\ kern'.safemode = FALSE
              => how = "injected"
         /\ how = "injected" => kern.offsets = TRUE
  <2>1. BootTypeOK /\ hist.trouble \in BOOLEAN BY DEF BootIInv, BootTypeOK, Histories
  <2>2. CASE ~kern'.safemode /\ kern.enabled /\ kern.offsets /\ Outcome(z, "injected")
    <3>1. kern.offsets = TRUE BY <2>1, <2>2 DEF BootTypeOK, KernelStates
    <3> QED BY <2>1, <2>2, <3>1, OutcomeBecomes
  <2>3. CASE Unable(z) BY <2>1, <2>3, UnableBecomes
  <2>4. CASE ~(~kern'.safemode /\ kern.enabled /\ kern.offsets) /\ Outcome(z, "plain")
    BY <2>1, <2>4, OutcomeBecomes
  <2> QED BY <2>2, <2>3, <2>4 DEF InjectWork
<1>6. PICK safemode \in BOOLEAN :
         /\ kern' = [kern EXCEPT !.safemode = safemode]
         /\ kern.safemode = FALSE /\ guard[z] = 0 => safemode = FALSE
  <2>1. guard[z] = 0 => ~TooMany(z) BY DaemonBootAssumption DEF TooMany
  <2> QED BY <2>1 DEF InjectWork, BootIInv, BootTypeOK, KernelStates
<1>7. guard' \in [Zygotes -> Nat] BY DEF InjectWork, Counted, BootIInv, BootTypeOK
<1>8. kern' \in KernelStates BY <1>6 DEF BootIInv, BootTypeOK, KernelStates
<1>9. kern'.enabled = kern.enabled /\ kern'.offsets = kern.offsets /\ kern'.safemode = safemode
  BY <1>6 DEF BootIInv, BootTypeOK, KernelStates
<1>1. BootTypeOK' BY ZenonT(60), <1>0, <1>7, <1>8 DEF BootIInv, BootTypeOK, Became, InjectWork
<1>2. AsideInv' BY <1>0, <1>9 DEF BootIInv, BootTypeOK, AsideInv, IsSafe, Became, InjectWork
<1>3. rc'.whole = TRUE BY DEF BootIInv, InjectWork
<1>4. SavedInv' BY <1>0, <1>9 DEF BootIInv, SavedInv, Value, Became, InjectWork
<1>5. OwedInv'
  <2> SUFFICES ASSUME hist'.owed = TRUE PROVE OwedInv' BY DEF OwedInv
  <2>1. hist.owed = TRUE BY <1>0 DEF Became
  <2>2. pc \notin Before BY DEF BootIInv, AsideInv, InjectWork, Before
  <2>3. phone.magisk = "none" /\ phone' = phone BY <2>1 DEF BootIInv, OwedInv, InjectWork
  <2>4. UNCHANGED <<pc, prop, keys>> BY DEF InjectWork, boot, daemon
  <2>5. hist'.first # "none" BY <1>0 DEF Became
  <2>6. ASSUME hist'.trouble = FALSE, ~IsSafe PROVE hist'.first = "injected"
    <3>1. hist.trouble = FALSE BY <1>0, <2>6 DEF Became, BootIInv, BootTypeOK, Histories
    <3>2. CASE hist.first # "none"
      BY <1>0, <2>1, <2>6, <3>1, <3>2 DEF Became, BootIInv, OwedInv
    <3>3. CASE hist.first = "none"
      <4>1. NoneYet BY <2>1, <3>3 DEF BootIInv, OwedInv
      <4>2. kern.enabled = TRUE /\ kern.offsets = TRUE /\ kern'.safemode = FALSE
        BY <1>6, <1>9, <2>2, <2>6, <3>1, <4>1 DEF NoneYet, Ready, BootIInv, AsideInv, InjectWork
      <4> QED BY <1>0, <2>6, <3>3, <4>2 DEF Became
    <3> QED BY <3>2, <3>3
  <2> QED BY <2>2, <2>3, <2>4, <2>5, <2>6 DEF OwedInv, IsSafe
<1> QED BY <1>1, <1>2, <1>3, <1>4, <1>5 DEF BootIInv

LEMMA BootIInvAtStart ==
  ASSUME BootInit
  PROVE  BootIInv
<1>1. BootTypeOK
  BY DEF BootInit, BootTypeOK, Steps, Values, Collections, Histories, KernelStates,
     KeyStates, Owed, Enabled
<1>2. AsideInv /\ rc.whole = TRUE /\ SavedInv
  BY DEF BootInit, AsideInv, SavedInv, Steps
<1>3. OwedInv
  BY DEF BootInit, OwedInv, Owed, NoneYet, Ready, Before, Enabled
<1> QED BY <1>1, <1>2, <1>3 DEF BootIInv

LEMMA BootIInvStep ==
  ASSUME BootIInv, [BootNext]_bootVars
  PROVE  BootIInv'
<1>1. CASE PostFsData
  BY <1>1, ReportKeeps, ClearTempKeeps, AskFirstKeeps, CommonScriptsKeeps, RcOpenKeeps,
     RcWriteKeeps,
     RcRenameKeeps, LoadPolicyRulesKeeps, InitFeaturesKeeps, ResaveKeeps, NoLaunchKeeps, SpawnKeeps,
     WaitReadyKeeps, WaitTimeoutKeeps, StageScriptsKeeps, PostMountKeeps DEF PostFsData
<1>2. CASE KeyPress \/ ProbeRemoved \/ LaterStage \/ PowerLoss
  BY <1>2, KeyPressKeeps, ProbeRemovedKeeps, LaterStageKeeps, PowerLossKeeps
<1>3. CASE Zd \/ ZdDies
  BY <1>3, ZdResolveKeeps, ZdNotifyKeeps, ZdDiesKeeps DEF Zd
<1>4. CASE \E z \in Zygotes : Zygote(z) \/ Kill(z)
  BY <1>4, ExecZygoteKeeps, InjectWorkKeeps, CrashKeeps, KillKeeps DEF Zygote
<1>5. CASE User
  BY <1>5, SetModuleKeeps, SetTempKeeps, FeatureSetKeeps, SaveBeginKeeps, SaveEndKeeps DEF User
<1>6. CASE UNCHANGED bootVars
  <2>1. BootTypeOK' BY <1>6 DEF bootVars, BootIInv, BootTypeOK
  <2>2. AsideInv' BY <1>6 DEF bootVars, BootIInv, AsideInv, IsSafe
  <2>3. (rc.whole = TRUE)' /\ SavedInv' BY <1>6 DEF bootVars, BootIInv, SavedInv, Value
  <2>4. OwedInv' BY <1>6 DEF bootVars, BootIInv, OwedInv, NoneYet, Ready, Coming, IsSafe, Enabled
  <2> QED BY <2>1, <2>2, <2>3, <2>4 DEF BootIInv
<1> QED BY <1>1, <1>2, <1>3, <1>4, <1>5, <1>6 DEF BootNext

\* Over every boot and loss of power: the types hold; what stands aside has run
\* nothing; modules.rc is whole; the saved value is where it should be between
\* two saves; and a boot that owes an injected zygote has, step by step, what
\* the first zygote will need.
THEOREM BootInvariant == BootSpec => []BootIInv
<1>1. BootInit => BootIInv BY BootIInvAtStart
<1>2. BootIInv /\ [BootNext]_bootVars => BootIInv' BY BootIInvStep
<1> QED BY <1>1, <1>2, PTL DEF BootSpec

\* For any modules, zygotes and number of boots: in safe mode, or where Magisk
\* is, no code of a module runs at any stage and no zygote is injected, and
\* init never gets a modules.rc that is not complete (init_event.cpp).
THEOREM ModulesRunRightHolds == BootSpec => []ModulesRunRight
<1>1. BootIInv => ModulesRunRight
  BY DEF BootIInv, BootTypeOK, AsideInv, ModulesRunRight, StandsAside, RcWhole
<1> QED BY <1>1, BootInvariant, PTL

\* A boot that owes an injected zygote injects the first that starts, unless
\* safe mode was asked for or a part failed or was late.
THEOREM FirstZygoteInjectedHolds == BootSpec => []FirstZygoteInjected
<1>1. BootIInv => FirstZygoteInjected
  BY DEF BootIInv, BootTypeOK, Histories, OwedInv, FirstZygoteInjected
<1> QED BY <1>1, BootInvariant, PTL

-----------------------------------------------------------------------------
(***************************************************************************)
(* ZygoteLifecycle, for any pids, slots and bundles.                       *)
(***************************************************************************)

USE LifecycleAssumption

-----------------------------------------------------------------------------
(* The invariant.                                                           *)

\* A specialisation is announced by its own process, which cannot exit before,
\* and the orchestrator tracks no process that has been freed.
AnnounceInv ==
  \A p \in Pids :
    /\ emit[p] => task[p] = "alive" /\ child[p] = "specialized" /\ sent[p] = 0
    /\ sent[p] = 1 /\ child[p] # "none" => child[p] = "specialized"
    /\ child[p] # "none" => task[p] \in {"alive", "exiting", "exited"}

\* A bundle that is held is in one of the four places ...
Held(b) ==
  \/ \E s \in Slots : slot[s].bundle = b
  \/ \E p \in Pids : taken[p] = b
  \/ hand.stage = "lock" /\ hand.bundle = b
  \/ hand.old = b

\* ... and in one of them only.
PlacesInv ==
  /\ \A b \in Bundles : fate[b] = "held" <=> Held(b)
  /\ \A s, t \in Slots : slot[s].bundle = slot[t].bundle => slot[s].bundle = None \/ s = t
  /\ \A p, q \in Pids : taken[p] = taken[q] => taken[p] = None \/ p = q
  /\ \A s \in Slots : \A p \in Pids : slot[s].bundle = taken[p] => taken[p] = None
  /\ hand.stage = "lock" => /\ hand.bundle \in Bundles /\ hand.pid \in Pids
                            /\ \A s \in Slots : slot[s].bundle # hand.bundle
                            /\ \A p \in Pids : taken[p] # hand.bundle
  /\ hand.stage # "put" => hand.old = None
  /\ hand.old # None => /\ \A s \in Slots : slot[s].bundle # hand.old
                        /\ \A p \in Pids : taken[p] # hand.old

\* When a process is handed files at most once, the callback that is queued in
\* it is the one of this hand-off, in the slot that is still its own.
QueueInv ==
  /\ \A p \in Pids : handed[p] <= life[p]
  /\ \A p \in Pids : \A s \in Slots : works[p][s] > 0 =>
        /\ slot[s].pid = p /\ works[p][s] = 1
        /\ task[p] \in {"alive", "exiting"} /\ handed[p] = life[p]
  /\ hand.stage = "lock" =>
        /\ hand.found <= life[hand.pid] /\ hand.found <= handed[hand.pid]
        /\ hand.found = life[hand.pid] => \A s \in Slots : works[hand.pid][s] = 0

IInv == TypeOK /\ AnnounceInv /\ PlacesInv
-----------------------------------------------------------------------------
(* Types.                                                                  *)

USE DEF zoVars, ctlVars

\* Every variable keeps its type; a child that AnnounceInv describes is
\* announced once.
LEMMA TypeStep == TypeOK /\ AnnounceInv /\ PlacesInv /\ [Next]_vars => TypeOK'
<1> SUFFICES ASSUME TypeOK, AnnounceInv, PlacesInv, [Next]_vars PROVE TypeOK'
  OBVIOUS
<1> USE DEF TypeOK
<1>1. ASSUME NEW p \in Pids, Fork(p)  PROVE TypeOK'
  BY <1>1 DEF Fork, Tracked
<1>2. ASSUME NEW p \in Pids, ForkElsewhere(p)  PROVE TypeOK'
  BY <1>2 DEF ForkElsewhere
<1>3. ASSUME NEW p \in Pids, Specialize(p)  PROVE TypeOK'
  BY <1>3 DEF Specialize
<1>4. ASSUME NEW p \in Pids, Announce(p)  PROVE TypeOK'
  <2>1. sent[p] = 0  BY <1>4 DEF AnnounceInv, Announce
  <2> QED  BY <1>4, <2>1 DEF Announce
<1>5. ASSUME NEW p \in Pids, Exit(p)  PROVE TypeOK'
  BY <1>5 DEF Exit
<1>6. ASSUME NEW p \in Pids, WorksExited(p)  PROVE TypeOK'
  BY <1>6 DEF WorksExited
<1>7. ASSUME NEW p \in Pids, OnFree(p)  PROVE TypeOK'
  BY <1>7 DEF OnFree
<1>8. ASSUME NEW p \in Pids, Release(p)  PROVE TypeOK'
  BY <1>8 DEF Release, SlotOf, Free, Idle
<1>9. ASSUME NEW p \in Pids, DeliverTake(p)  PROVE TypeOK'
  BY <1>9 DEF DeliverTake, Free, Idle
<1>10. ASSUME NEW p \in Pids, DeliverInstall(p)  PROVE TypeOK'
  BY <1>10 DEF DeliverInstall, Free, Idle
<1>11. ASSUME NEW p \in Pids, DeliverDrop(p)  PROVE TypeOK'
  BY <1>11 DEF DeliverDrop, Free, Idle
<1>12. ASSUME NEW p \in Pids, NEW b \in Bundles, HandoffBegin(p, b)  PROVE TypeOK'
  BY <1>12 DEF HandoffBegin, Free, Idle
<1>13. ASSUME HandoffLocked  PROVE TypeOK'
  <2>1. PICK s \in ChosenSlots(hand.pid) :
           /\ slot' = [slot EXCEPT ![s] = [pid |-> hand.pid, bundle |-> hand.bundle]]
           /\ hand' = [hand EXCEPT !.stage = "put", !.old = slot[s].bundle]
           /\ works' = Queue(hand.pid, s)
    BY <1>13, Zenon DEF HandoffLocked
  <2>2. s \in Slots /\ hand.pid \in Pids /\ hand.bundle \in Bundles
    BY <1>13, <2>1 DEF ChosenSlots, SlotOf, HandoffLocked, PlacesInv
  <2>3. works' \in [Pids -> [Slots -> 0..2]]
    BY <2>1, <2>2 DEF Queue
  <2>4. slot' \in [Slots -> [pid : Pids \cup {None}, bundle : Bundles \cup {None}]]
    BY <2>1, <2>2
  <2>5. hand' \in [stage : {"idle", "lock", "put"}, pid : Pids \cup {None},
                   bundle : Bundles \cup {None}, found : 0..MaxLives, old : Bundles \cup {None}]
    BY <2>1, <2>2
  <2> QED  BY <1>13, <2>3, <2>4, <2>5 DEF HandoffLocked
<1>14. ASSUME HandoffNoSpace  PROVE TypeOK'
  <2>1. fate' \in [Bundles -> {"unused", "held", "installed", "dropped"}]
    BY <1>14 DEF HandoffNoSpace
  <2>2. hand' = Idle /\ UNCHANGED <<task, life, zoVars, slot, works, taken, into, handed>>
    BY <1>14 DEF HandoffNoSpace
  <2> QED  BY <2>1, <2>2 DEF Idle
<1>15. ASSUME HandoffPut  PROVE TypeOK'
  BY <1>15 DEF HandoffPut, Free, Idle
<1>16. CASE UNCHANGED vars
  BY <1>16 DEF vars
<1> QED
  BY <1>1, <1>2, <1>3, <1>4, <1>5, <1>6, <1>7, <1>8, <1>9, <1>10, <1>11,
     <1>12, <1>13, <1>14, <1>15, <1>16
  DEF Next, Handoff, ProcessEnds, Deliver

-----------------------------------------------------------------------------
(* Announcements.                                                           *)

\* Every step keeps what is invariant of the announcements.
LEMMA AnnounceStep == TypeOK /\ AnnounceInv /\ [Next]_vars => AnnounceInv'
<1> SUFFICES ASSUME TypeOK, AnnounceInv, [Next]_vars PROVE AnnounceInv'
  OBVIOUS
<1>a. /\ task \in [Pids -> {"none", "alive", "exiting", "exited", "freeing"}]
      /\ child \in [Pids -> {"none", "forked", "specialized"}]
      /\ emit \in [Pids -> BOOLEAN] /\ sent \in [Pids -> 0..1]
  BY DEF TypeOK
<1> USE DEF AnnounceInv
<1>1. ASSUME NEW p \in Pids, Fork(p)  PROVE AnnounceInv'
  BY <1>a, <1>1 DEF Fork
<1>2. ASSUME NEW p \in Pids, ForkElsewhere(p)  PROVE AnnounceInv'
  BY <1>a, <1>2 DEF ForkElsewhere
<1>3. ASSUME NEW p \in Pids, Specialize(p)  PROVE AnnounceInv'
  BY <1>a, <1>3 DEF Specialize
<1>4. ASSUME NEW p \in Pids, Announce(p)  PROVE AnnounceInv'
  BY <1>a, <1>4 DEF Announce
<1>5. ASSUME NEW p \in Pids, Exit(p)  PROVE AnnounceInv'
  BY <1>a, <1>5 DEF Exit
<1>6. ASSUME NEW p \in Pids, WorksExited(p)  PROVE AnnounceInv'
  BY <1>a, <1>6 DEF WorksExited
<1>7. ASSUME NEW p \in Pids, OnFree(p)  PROVE AnnounceInv'
  BY <1>a, <1>7 DEF OnFree
<1>8. ASSUME NEW p \in Pids, Release(p)  PROVE AnnounceInv'
  BY <1>a, <1>8 DEF Release
<1>9. ASSUME NEW p \in Pids, DeliverTake(p)  PROVE AnnounceInv'
  BY <1>a, <1>9 DEF DeliverTake
<1>10. ASSUME NEW p \in Pids, DeliverInstall(p)  PROVE AnnounceInv'
  BY <1>a, <1>10 DEF DeliverInstall
<1>11. ASSUME NEW p \in Pids, DeliverDrop(p)  PROVE AnnounceInv'
  BY <1>a, <1>11 DEF DeliverDrop
<1>12. ASSUME NEW p \in Pids, NEW b \in Bundles, HandoffBegin(p, b)  PROVE AnnounceInv'
  BY <1>a, <1>12 DEF HandoffBegin
<1>13. ASSUME HandoffLocked  PROVE AnnounceInv'
  BY <1>a, <1>13 DEF HandoffLocked
<1>14. ASSUME HandoffNoSpace  PROVE AnnounceInv'
  BY <1>a, <1>14 DEF HandoffNoSpace
<1>15. ASSUME HandoffPut  PROVE AnnounceInv'
  BY <1>a, <1>15 DEF HandoffPut
<1>16. CASE UNCHANGED vars
  BY <1>16 DEF vars
<1> QED
  BY <1>1, <1>2, <1>3, <1>4, <1>5, <1>6, <1>7, <1>8, <1>9, <1>10, <1>11,
     <1>12, <1>13, <1>14, <1>15, <1>16
  DEF Next, Handoff, ProcessEnds, Deliver

-----------------------------------------------------------------------------
(* References.                                                              *)

\* A bundle changes its place, or loses the last one, in one step.
LEMMA PlacesStep == TypeOK /\ PlacesInv /\ [Next]_vars => PlacesInv'
<1> SUFFICES ASSUME TypeOK, PlacesInv, [Next]_vars PROVE PlacesInv'
  OBVIOUS
<1>a. /\ slot \in [Slots -> [pid : Pids \cup {None}, bundle : Bundles \cup {None}]]
      /\ taken \in [Pids -> Bundles \cup {None}]
      /\ fate \in [Bundles -> {"unused", "held", "installed", "dropped"}]
      /\ hand \in [stage : {"idle", "lock", "put"}, pid : Pids \cup {None},
                   bundle : Bundles \cup {None}, found : 0..MaxLives, old : Bundles \cup {None}]
  BY DEF TypeOK
<1> USE DEF PlacesInv, Held
<1>b. ASSUME UNCHANGED <<slot, taken, fate, hand>>  PROVE PlacesInv'
  BY <1>b
<1>1. ASSUME NEW p \in Pids, Fork(p)  PROVE PlacesInv'
  BY <1>b, <1>1 DEF Fork
<1>2. ASSUME NEW p \in Pids, ForkElsewhere(p)  PROVE PlacesInv'
  BY <1>b, <1>2 DEF ForkElsewhere
<1>3. ASSUME NEW p \in Pids, Specialize(p)  PROVE PlacesInv'
  BY <1>b, <1>3 DEF Specialize
<1>4. ASSUME NEW p \in Pids, Announce(p)  PROVE PlacesInv'
  BY <1>b, <1>4 DEF Announce
<1>5. ASSUME NEW p \in Pids, Exit(p)  PROVE PlacesInv'
  BY <1>b, <1>5 DEF Exit
<1>6. ASSUME NEW p \in Pids, WorksExited(p)  PROVE PlacesInv'
  BY <1>b, <1>6 DEF WorksExited
<1>7. ASSUME NEW p \in Pids, OnFree(p)  PROVE PlacesInv'
  BY <1>b, <1>7 DEF OnFree
<1>8. ASSUME NEW p \in Pids, Release(p)  PROVE PlacesInv'
  BY <1>a, <1>8 DEF Release, SlotOf, Free, Idle, ChosenSlots, SlotOf
<1>9. ASSUME NEW p \in Pids, DeliverTake(p)  PROVE PlacesInv'
  BY <1>a, <1>9 DEF DeliverTake, Free, Idle, ChosenSlots, SlotOf
<1>10. ASSUME NEW p \in Pids, DeliverInstall(p)  PROVE PlacesInv'
  BY <1>a, <1>10 DEF DeliverInstall, Free, Idle, ChosenSlots, SlotOf
<1>11. ASSUME NEW p \in Pids, DeliverDrop(p)  PROVE PlacesInv'
  BY <1>a, <1>11 DEF DeliverDrop, Free, Idle, ChosenSlots, SlotOf
<1>12. ASSUME NEW p \in Pids, NEW b \in Bundles, HandoffBegin(p, b)  PROVE PlacesInv'
  BY <1>a, <1>12 DEF HandoffBegin, Free, Idle, ChosenSlots, SlotOf
<1>13. ASSUME HandoffLocked  PROVE PlacesInv'
  BY <1>a, <1>13 DEF HandoffLocked, Free, Idle, ChosenSlots, SlotOf
<1>14. ASSUME HandoffNoSpace  PROVE PlacesInv'
  BY <1>a, <1>14 DEF HandoffNoSpace, Free, Idle, ChosenSlots, SlotOf
<1>15. ASSUME HandoffPut  PROVE PlacesInv'
  BY <1>a, <1>15 DEF HandoffPut, Free, Idle, ChosenSlots, SlotOf
<1>16. CASE UNCHANGED vars
  BY <1>b, <1>16 DEF vars
<1> QED
  BY <1>1, <1>2, <1>3, <1>4, <1>5, <1>6, <1>7, <1>8, <1>9, <1>10, <1>11,
     <1>12, <1>13, <1>14, <1>15, <1>16
  DEF Next, Handoff, ProcessEnds, Deliver

-----------------------------------------------------------------------------
(* Queued callbacks, when a process is handed files once.                   *)

\* A callback runs, or its process is gone, before the process or the slot
\* can be another's.
LEMMA QueueStep == ~Replace /\ TypeOK /\ PlacesInv /\ QueueInv /\ [Next]_vars => QueueInv'
<1> SUFFICES ASSUME ~Replace, TypeOK, PlacesInv, QueueInv, [Next]_vars PROVE QueueInv'
  OBVIOUS
<1>a. /\ task \in [Pids -> {"none", "alive", "exiting", "exited", "freeing"}]
      /\ life \in [Pids -> 0..MaxLives] /\ handed \in [Pids -> 0..MaxLives]
      /\ slot \in [Slots -> [pid : Pids \cup {None}, bundle : Bundles \cup {None}]]
      /\ works \in [Pids -> [Slots -> 0..2]]
      /\ hand \in [stage : {"idle", "lock", "put"}, pid : Pids \cup {None},
                   bundle : Bundles \cup {None}, found : 0..MaxLives, old : Bundles \cup {None}]
  BY DEF TypeOK
<1>b. hand.stage = "lock" => hand.pid \in Pids
  BY DEF PlacesInv
<1> USE DEF QueueInv
<1>1. ASSUME NEW p \in Pids, Fork(p)  PROVE QueueInv'
  BY <1>a, <1>b, <1>1 DEF Fork, Tracked, Idle
<1>2. ASSUME NEW p \in Pids, ForkElsewhere(p)  PROVE QueueInv'
  BY <1>a, <1>b, <1>2 DEF ForkElsewhere, Idle
<1>3. ASSUME NEW p \in Pids, Specialize(p)  PROVE QueueInv'
  BY <1>a, <1>b, <1>3 DEF Specialize, Idle
<1>4. ASSUME NEW p \in Pids, Announce(p)  PROVE QueueInv'
  BY <1>a, <1>b, <1>4 DEF Announce, Idle
<1>5. ASSUME NEW p \in Pids, Exit(p)  PROVE QueueInv'
  BY <1>a, <1>b, <1>5 DEF Exit, Idle
<1>6. ASSUME NEW p \in Pids, WorksExited(p)  PROVE QueueInv'
  BY <1>a, <1>b, <1>6 DEF WorksExited, Idle
<1>7. ASSUME NEW p \in Pids, OnFree(p)  PROVE QueueInv'
  BY <1>a, <1>b, <1>7 DEF OnFree, Idle
<1>8. ASSUME NEW p \in Pids, Release(p)  PROVE QueueInv'
  BY <1>a, <1>b, <1>8 DEF Release, SlotOf, Idle
<1>9. ASSUME NEW p \in Pids, DeliverTake(p)  PROVE QueueInv'
  <2>1. PICK s \in Slots : /\ works[p][s] > 0 /\ works' = [works EXCEPT ![p][s] = @ - 1]
                           /\ slot' = [slot EXCEPT ![s] = Free]
    BY <1>9, Zenon DEF DeliverTake
  <2>2. UNCHANGED <<task, life, handed, hand>>
    BY <1>9 DEF DeliverTake
  <2>3. slot[s].pid = p /\ works[p][s] = 1
    BY <2>1
  <2>4. \A q \in Pids : \A t \in Slots :
           works'[q][t] = IF q = p /\ t = s THEN 0 ELSE works[q][t]
    BY <1>a, <2>1, <2>3
  <2>5. \A t \in Slots : t # s => slot'[t] = slot[t]
    BY <1>a, <2>1
  <2>6. \A q \in Pids : works'[q][s] = 0
    <3>1. \A q \in Pids : works[q][s] \in 0..2  BY <1>a
    <3> QED  BY <2>3, <2>4, <3>1
  <2> QED  BY <1>a, <1>b, <2>2, <2>4, <2>5, <2>6
<1>10. ASSUME NEW p \in Pids, DeliverInstall(p)  PROVE QueueInv'
  BY <1>a, <1>b, <1>10 DEF DeliverInstall, Idle
<1>11. ASSUME NEW p \in Pids, DeliverDrop(p)  PROVE QueueInv'
  BY <1>a, <1>b, <1>11 DEF DeliverDrop, Idle
<1>12. ASSUME NEW p \in Pids, NEW b \in Bundles, HandoffBegin(p, b)  PROVE QueueInv'
  <2>1. /\ hand.stage = "idle" /\ life[p] > 0 /\ handed[p] < life[p]
        /\ handed' = [handed EXCEPT ![p] = life[p]]
        /\ UNCHANGED <<task, life, slot, works>>
    BY <1>12 DEF HandoffBegin
  <2>2. hand'.stage = "lock" /\ hand'.pid = p /\ hand'.found \in {0, life[p]}
    BY <1>12 DEF HandoffBegin
  <2>3. \A s \in Slots : works[p][s] = 0
    <3>1. \A s \in Slots : works[p][s] \in 0..2  BY <1>a
    <3>2. ~ handed[p] = life[p]  BY <1>a, <2>1
    <3> QED  BY <3>1, <3>2
  <2> QED  BY <1>a, <2>1, <2>2, <2>3
<1>13. ASSUME HandoffLocked  PROVE QueueInv'
  <2>1. PICK s \in ChosenSlots(hand.pid) :
           /\ slot' = [slot EXCEPT ![s] = [pid |-> hand.pid, bundle |-> hand.bundle]]
           /\ hand' = [hand EXCEPT !.stage = "put", !.old = slot[s].bundle]
           /\ works' = Queue(hand.pid, s)
    BY <1>13, Zenon DEF HandoffLocked
  <2>2. UNCHANGED <<task, life, handed>> /\ hand.stage = "lock"
    BY <1>13, Zenon DEF HandoffLocked, zoVars
  <2> PICK p \in Pids : p = hand.pid
    BY <1>b, <2>2
  <2>3. s \in Slots /\ slot[s].pid \in {p, None}
    BY <2>1 DEF ChosenSlots, SlotOf
  <2>4. hand'.stage = "put"
    BY <1>a, <2>1
  <2>5. /\ slot'[s].pid = p
        /\ \A t \in Slots : t # s => slot'[t] = slot[t]
    BY <1>a, <2>1, <2>3
  <2>6. CASE hand.found = life[p] /\ task[p] \in {"alive", "exiting"}
    <3>1. works[p][s] = 0
      BY <2>2, <2>3, <2>6
    <3>2. works' = [works EXCEPT ![p][s] = IF @ = 0 THEN 1 ELSE 2]
      BY <2>1, <2>6 DEF Queue
    <3>3. \A q \in Pids : \A t \in Slots :
             works'[q][t] = IF q = p /\ t = s THEN 1 ELSE works[q][t]
      BY <1>a, <2>3, <3>1, <3>2
    <3>4. handed[p] = life[p]
      <4>1. handed[p] \in Nat /\ life[p] \in Nat
        BY <1>a
      <4>2. life[p] <= handed[p] /\ handed[p] <= life[p]
        BY <2>2, <2>6
      <4> QED  BY <4>1, <4>2
    <3>5. \A q \in Pids : q # p => ~(works[q][s] > 0)
      BY <2>3
    <3> QED  BY <2>2, <2>4, <2>5, <2>6, <3>3, <3>4, <3>5
  <2>7. CASE ~(hand.found = life[p] /\ task[p] \in {"alive", "exiting"})
    <3>1. works' = works
      BY <2>1, <2>7 DEF Queue
    <3>2. \A q \in Pids : works[q][s] > 0 => q = p
      BY <2>3
    <3> QED  BY <2>2, <2>4, <2>5, <3>1, <3>2
  <2> QED  BY <2>6, <2>7
<1>14. ASSUME HandoffNoSpace  PROVE QueueInv'
  BY <1>a, <1>b, <1>14 DEF HandoffNoSpace, Idle
<1>15. ASSUME HandoffPut  PROVE QueueInv'
  BY <1>a, <1>b, <1>15 DEF HandoffPut, Idle
<1>16. CASE UNCHANGED vars
  BY <1>16 DEF vars
<1> QED
  BY <1>1, <1>2, <1>3, <1>4, <1>5, <1>6, <1>7, <1>8, <1>9, <1>10, <1>11,
     <1>12, <1>13, <1>14, <1>15, <1>16
  DEF Next, Handoff, ProcessEnds, Deliver

-----------------------------------------------------------------------------
(* The theorems.                                                            *)

\* The initial state.
LEMMA InitOK == Init => IInv /\ QueueInv
<1> SUFFICES ASSUME Init PROVE IInv /\ QueueInv
  OBVIOUS
<1> USE DEF Init, Free, Idle
<1>1. TypeOK
  BY DEF TypeOK
<1>2. AnnounceInv
  BY DEF AnnounceInv
<1>3. PlacesInv
  BY DEF PlacesInv, Held
<1>4. QueueInv
  BY DEF QueueInv
<1> QED  BY <1>1, <1>2, <1>3, <1>4 DEF IInv

\* The orchestrator, the slots and the callbacks agree in every reachable state.
THEOREM Invariant == Spec => []IInv
<1>1. IInv /\ [Next]_vars => IInv'
  BY TypeStep, AnnounceStep, PlacesStep DEF IInv
<1> QED  BY InitOK, <1>1, PTL DEF Spec

\* Type correctness.
THEOREM TypeCorrect == Spec => []TypeOK
<1>1. IInv => TypeOK
  BY DEF IInv
<1> QED  BY Invariant, <1>1, PTL

\* A child's specialisation is announced once in its life and by the child
\* itself, whichever of the setuid hook and the report comes first.
THEOREM AnnouncedOnceHolds == Spec => []AnnouncedOnce
<1>1. IInv => AnnouncedOnce
  BY DEF IInv, TypeOK, AnnounceInv, AnnouncedOnce, Tracked
<1> QED  BY Invariant, <1>1, PTL

\* The reference of a hand-off is in one place, until it is put or installed,
\* through deliveries, replacements and releases in any order.
THEOREM RefsBalancedHolds == Spec => []RefsBalanced
<1>1. IInv => RefsBalanced
  <2> SUFFICES ASSUME IInv, NEW b \in Bundles
               PROVE  Cardinality(Holders(b)) = IF fate[b] = "held" THEN 1 ELSE 0
    BY DEF RefsBalanced
  <2>a. PlacesInv /\ b # None
    BY DEF IInv
  <2>1. ASSUME ~Held(b)  PROVE Holders(b) = {}
    BY <2>1 DEF Held, Holders
  <2>2. ASSUME Held(b)  PROVE \E x : Holders(b) = {x}
    <3>1. ASSUME NEW s \in Slots, slot[s].bundle = b  PROVE Holders(b) = {<<"slot", s>>}
      <4>1. \A t \in Slots : slot[t].bundle = b => t = s
        BY <2>a, <3>1 DEF PlacesInv
      <4>2. \A p \in Pids : taken[p] # b
        BY <2>a, <3>1 DEF PlacesInv
      <4>3. ~(hand.stage = "lock" /\ hand.bundle = b) /\ hand.old # b
        BY <2>a, <3>1 DEF PlacesInv
      <4> QED  BY <3>1, <4>1, <4>2, <4>3 DEF Holders
    <3>2. ASSUME NEW p \in Pids, taken[p] = b  PROVE Holders(b) = {<<"callback", p>>}
      <4>1. \A q \in Pids : taken[q] = b => q = p
        BY <2>a, <3>2 DEF PlacesInv
      <4>2. \A t \in Slots : slot[t].bundle # b
        BY <2>a, <3>2 DEF PlacesInv
      <4>3. ~(hand.stage = "lock" /\ hand.bundle = b) /\ hand.old # b
        BY <2>a, <3>2 DEF PlacesInv
      <4> QED  BY <3>2, <4>1, <4>2, <4>3 DEF Holders
    <3>3. ASSUME hand.stage = "lock", hand.bundle = b  PROVE Holders(b) = {<<"handoff", "new">>}
      <4>1. hand.old # b /\ \A p \in Pids : taken[p] # b
        BY <2>a, <3>3 DEF PlacesInv
      <4>2. \A t \in Slots : slot[t].bundle # b
        BY <2>a, <3>3 DEF PlacesInv
      <4> QED  BY <3>3, <4>1, <4>2 DEF Holders
    <3>4. ASSUME hand.old = b  PROVE Holders(b) = {<<"handoff", "old">>}
      <4>1. hand.stage # "lock" /\ \A p \in Pids : taken[p] # b
        BY <2>a, <3>4 DEF PlacesInv
      <4>2. \A t \in Slots : slot[t].bundle # b
        BY <2>a, <3>4 DEF PlacesInv
      <4> QED  BY <3>4, <4>1, <4>2 DEF Holders
    <3> QED  BY <2>2, <3>1, <3>2, <3>3, <3>4 DEF Held
  <2>3. fate[b] = "held" <=> Held(b)
    BY <2>a DEF PlacesInv
  <2> QED  BY <2>1, <2>2, <2>3, FS_EmptySet, FS_Singleton
<1> QED  BY Invariant, <1>1, PTL

\* When zygiskd hands files to a process at most once, a slot whose callback is
\* queued in a process is that process's, and the callback is queued once.
THEOREM QueuedSlotsOwnedHolds == ~Replace => (Spec => []QueuedSlotsOwned)
<1> SUFFICES ASSUME ~Replace PROVE Spec => []QueuedSlotsOwned
  OBVIOUS
<1>1. IInv /\ QueueInv /\ [Next]_vars => QueueInv'
  BY QueueStep DEF IInv
<1>2. QueueInv => QueuedSlotsOwned
  BY DEF QueueInv, QueuedSlotsOwned
<1> QED  BY Invariant, InitOK, <1>1, <1>2, PTL DEF Spec

\* The action part of InstalledInTarget: a callback takes out of its slot what was
\* handed to the process it runs in.
THEOREM TakenByTargetHolds == ~Replace => (Spec => [][TakenByTarget]_vars)
<1> SUFFICES ASSUME ~Replace PROVE Spec => [][TakenByTarget]_vars
  OBVIOUS
<1>1. IInv /\ QueueInv /\ [Next]_vars => QueueInv'
  BY QueueStep DEF IInv
<1>2. IInv /\ QueueInv /\ [Next]_vars => [TakenByTarget]_vars
  <2> SUFFICES ASSUME IInv, QueueInv, Next, NEW p \in Pids, NEW s \in Slots,
                      slot[s].bundle # None, taken[p] = None, taken'[p] = slot[s].bundle
               PROVE  slot[s].pid = p
    BY DEF TakenByTarget
  <2>a. taken \in [Pids -> Bundles \cup {None}] /\ PlacesInv
    BY DEF IInv, TypeOK
  <2>1. DeliverTake(p)
    <3>1. ASSUME NEW q \in Pids, DeliverInstall(q) \/ DeliverDrop(q)
          PROVE  FALSE
      BY <2>a, <3>1 DEF DeliverInstall, DeliverDrop
    <3>2. ASSUME NEW q \in Pids, DeliverTake(q)  PROVE q = p
      BY <2>a, <3>2 DEF DeliverTake
    <3>3. ASSUME UNCHANGED taken  PROVE FALSE
      BY <3>3
    <3>4. ASSUME NEW q \in Pids  PROVE UNCHANGED taken \/ Deliver(q) \/ ~(Fork(q) \/ ForkElsewhere(q) \/ Specialize(q) \/ Announce(q)
             \/ Exit(q) \/ WorksExited(q) \/ OnFree(q) \/ Release(q) \/ \E b \in Bundles : HandoffBegin(q, b))
      <4>1. Fork(q) => UNCHANGED taken  BY DEF Fork
      <4>2. ForkElsewhere(q) => UNCHANGED taken  BY DEF ForkElsewhere
      <4>3. Specialize(q) => UNCHANGED taken  BY DEF Specialize
      <4>4. Announce(q) => UNCHANGED taken  BY DEF Announce
      <4>5. Exit(q) => UNCHANGED taken  BY DEF Exit
      <4>6. WorksExited(q) => UNCHANGED taken  BY DEF WorksExited
      <4>7. OnFree(q) => UNCHANGED taken  BY DEF OnFree
      <4>8. Release(q) => UNCHANGED taken  BY DEF Release
      <4>9. \A b \in Bundles : HandoffBegin(q, b) => UNCHANGED taken  BY DEF HandoffBegin
      <4> QED  BY <4>1, <4>2, <4>3, <4>4, <4>5, <4>6, <4>7, <4>8, <4>9
    <3>5. Handoff => UNCHANGED taken
      <4>1. HandoffLocked => UNCHANGED taken  BY Zenon DEF HandoffLocked
      <4>2. HandoffNoSpace => UNCHANGED taken  BY Zenon DEF HandoffNoSpace
      <4>3. HandoffPut => UNCHANGED taken  BY DEF HandoffPut
      <4> QED  BY <4>1, <4>2, <4>3 DEF Handoff
    <3> QED  BY <3>1, <3>2, <3>3, <3>4, <3>5 DEF Next, ProcessEnds, Deliver
  <2>2. PICK t \in Slots : works[p][t] > 0 /\ taken' = [taken EXCEPT ![p] = slot[t].bundle]
    BY <2>1, Zenon DEF DeliverTake
  <2>3. slot[t].bundle = slot[s].bundle
    BY <2>a, <2>2
  <2>4. t = s
    BY <2>a, <2>3 DEF PlacesInv
  <2> QED  BY <2>2, <2>4 DEF QueueInv
<1> QED  BY Invariant, InitOK, <1>1, <1>2, PTL DEF Spec
=============================================================================
