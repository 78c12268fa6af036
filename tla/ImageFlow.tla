------------------------------ MODULE ImageFlow ------------------------------
(***************************************************************************)
(* Boot images: what `boot-patch`, `boot-restore` and `uninstall` do to    *)
(* the boot partitions of the two slots and to the backups under           *)
(* /data/tamisu, across updates, power losses and tools that fail          *)
(* (daemon/tamisud_core/src/boot/boot_patch.cpp, tools.cpp, utils.cpp).    *)
(*                                                                         *)
(* An image is an operating system, the kernel module directories of its   *)
(* ramdisk and the name of the backup noted in it.  A backup is named by   *)
(* the SHA-1 of the image it is a copy of, here by that image itself.      *)
(* The release of a kernel (uname -r) is the version of the system.        *)
(*                                                                         *)
(* External: magiskboot edits the ramdisk, the bootloader starts the       *)
(* booted slot, and first-stage init loads the modules as the comment at   *)
(* boot_patch.cpp:869 says it does.                                        *)
(***************************************************************************)
EXTENDS Naturals, FiniteSets, Sequences

CONSTANTS BootSlots,    \* _a and _b
          Versions,     \* system versions, each with a kernel of its own
          Layout,       \* where the stock ramdisk of a version has its modules
          Factory,      \* the version both slots come with
          Callers,      \* how uninstall is started: "manager", "installed"
          MaxCommands,  \* bound: commands, updates and fastboot sessions
          MaxTrouble    \* bound: power losses and failures that go unnoticed

ASSUME ImageAssumption ==
  /\ IsFiniteSet(BootSlots) /\ BootSlots # {}
  /\ Factory \in Versions
  /\ Layout \in [Versions -> {"own", "other", "none"}]
  /\ Callers \subseteq {"manager", "installed"}
  /\ MaxCommands \in Nat /\ MaxTrouble \in Nat

VARIABLES booted,   \* the slot in use
          up,       \* the device has started
          img,      \* the boot image in each slot
          cached,   \* slots written by a dd that did not sync
          store,    \* the backup files
          cmd,      \* the command that runs
          out,      \* the image the last `boot-patch -b` wrote, if any
          last,     \* the command that ended last with "Done!"
          commands, \* commands so far
          trouble   \* troubles so far

imageVars ==
  <<booted, up, img, cached, store, cmd, out, last, commands, trouble>>

-----------------------------------------------------------------------------
(* Images. *)

\* lib/modules/<dir>: what modules.load lists and which modules are there.
Bare == [list |-> {}, kos |-> {}]
Vendor == [list |-> {"vendor"}, kos |-> {"vendor"}]

\* The image of a version as it is shipped: its modules in the directory named
\* by its own release, in one with another name, or in another partition.
StockDirs(v) ==
  CASE Layout[v] = "own" -> {v}
    [] Layout[v] = "other" -> {"shared"}
    [] Layout[v] = "none" -> {}
Stock(v) ==
  [os |-> v, bak |-> <<>>, torn |-> FALSE, odd |-> FALSE,
   dirs |-> [d \in StockDirs(v) |-> Vendor]]

\* First-stage init loads only the directory of its own release when there is
\* one, otherwise what it finds.
LoadDirs(i) == IF i.os \in DOMAIN i.dirs THEN {i.os} ELSE DOMAIN i.dirs

Listed(i) == UNION {i.dirs[d].list : d \in LoadDirs(i)}

Loadable(i) == UNION {i.dirs[d].kos : d \in LoadDirs(i)}

\* A listed module that is missing is fatal, and so is a vendor module that is
\* not listed.
Boots(i) ==
  /\ ~i.torn
  /\ Listed(i) \subseteq Loadable(i)
  /\ Layout[i.os] # "none" => "vendor" \in Listed(i)

\* is_tamisu_patched
Patched(i) == \E d \in DOMAIN i.dirs : "tamisu" \in i.dirs[d].kos

\* Nothing of ours is left and all of the vendor's modules are there.
Clean(i) ==
  LET full == {d \in DOMAIN i.dirs : i.dirs[d] # Bare}
  IN ~i.torn /\ [d \in full |-> i.dirs[d]] = Stock(i.os).dirs

-----------------------------------------------------------------------------
(* What the commands compute. *)

\* select_modules_dir: the directory of the running release, one with a list,
\* any; a private directory only when there is none.
SelectDirsMut(i, release) == {release}
SelectDirs(i, release) ==
  LET listing == {d \in DOMAIN i.dirs : i.dirs[d].list # {}}
  IN CASE release \in DOMAIN i.dirs -> {release}
       [] release \notin DOMAIN i.dirs /\ listing # {} -> listing
       [] release \notin DOMAIN i.dirs /\ listing = {} ->
            IF DOMAIN i.dirs # {} THEN DOMAIN i.dirs ELSE {release}

\* The module, modules.load and modules.dep are merged into the directory.
\* The list it had is lost when it could not be extracted.
Inject(i, d, kept) ==
  LET had == IF d \in DOMAIN i.dirs THEN i.dirs[d] ELSE Bare
      merged == [list |-> (IF kept THEN had.list ELSE {}) \cup {"tamisu"},
                 kos |-> had.kos \cup {"tamisu"}]
  IN [i EXCEPT !.dirs = [e \in DOMAIN i.dirs \cup {d} |->
                           IF e = d THEN merged ELSE i.dirs[e]]]

\* A backup is made of an image that does not look patched.
WantsBackupMut(seen) == TRUE
WantsBackup(seen) == ~seen

\* The manual removal: our lines and our module leave the directories that
\* have the module, and that of the running release.
Strip(i, release) ==
  LET ours == {d \in DOMAIN i.dirs : "tamisu" \in i.dirs[d].kos} \cup {release}
      Without(e) == [list |-> e.list \ {"tamisu"}, kos |-> e.kos \ {"tamisu"}]
  IN [i EXCEPT !.dirs = [d \in DOMAIN i.dirs |-> IF d \in ours THEN Without(i.dirs[d])
                                                              ELSE i.dirs[d]]]

\* Every image boot-patch can make of src.  "odd" is set when it ignored a
\* failure of magiskboot: the list of the patched directory not extracted, the
\* tree not listed and taken for absent, or a patched image taken for stock.
Patches(src, release, faults) ==
  LET dirs == SelectDirs(src, release)
      Made(d, kept, seen, fault) ==
        [image |-> [Inject(src, d, kept) EXCEPT !.odd = @ \/ fault], seen |-> seen,
         fault |-> fault]
  IN {Made(d, TRUE, Patched(src), FALSE) : d \in dirs}
     \cup IF ~faults THEN {} ELSE
          {Made(d, FALSE, Patched(src), TRUE) : d \in dirs}
          \cup {Made(d, TRUE, FALSE, TRUE) : d \in dirs}
          \cup {Made(release, TRUE, Patched(src), TRUE)}

-----------------------------------------------------------------------------
NoCommand == [op |-> "none", at |-> "idle", slot |-> booted, src |-> Stock(Factory),
         new |-> Stock(Factory), seen |-> FALSE, cut |-> FALSE]

NoLast == [op |-> "none", slot |-> booted, src |-> Stock(Factory), cut |-> FALSE]

RunningRelease == img[booted].os

Troubled == trouble < MaxTrouble

ImageInit ==
  /\ booted \in BootSlots
  /\ up = TRUE
  /\ img = [s \in BootSlots |-> Stock(Factory)]
  /\ cached = {}
  /\ store = {}
  /\ cmd = NoCommand
  /\ out = <<>>
  /\ last = NoLast
  /\ commands = 0
  /\ trouble = 0

\* A command of the user starts: the device runs and no command does.
Begin ==
  /\ up
  /\ cmd.op = "none"
  /\ commands < MaxCommands
  /\ commands' = commands + 1
  /\ last' = NoLast

\* boot-patch -f, on the slot in use or on the other one (--ota): the partition
\* is read, unpacked and changed in the work directory.  An image that was not
\* written whole does not unpack.
Patch(s) ==
  /\ Begin
  /\ ~img[s].torn
  /\ \E p \in Patches(img[s], RunningRelease, Troubled) :
       /\ cmd' = [op |-> "patch", at |-> "backup", slot |-> s, src |-> img[s],
                  new |-> p.image, seen |-> p.seen, cut |-> FALSE]
       /\ trouble' = IF p.fault THEN trouble + 1 ELSE trouble
  /\ UNCHANGED <<booted, up, img, cached, store, out>>

\* boot-patch -b: the image is a file of the user, and so is the result.  No
\* backup is made and nothing is flashed.
PatchFile ==
  /\ Begin
  /\ \E src \in {Stock(v) : v \in Versions} \cup {img[s] : s \in BootSlots} :
       /\ ~src.torn
       /\ \E p \in Patches(src, RunningRelease, Troubled) :
            /\ out' = <<p.image>>
            /\ trouble' = IF p.fault THEN trouble + 1 ELSE trouble
  /\ UNCHANGED <<booted, up, img, cached, store, cmd>>

\* A backup file is written over one of the same name; it is not synced.
Saved(body) == {b \in store : b.of # cmd.src} \cup {[of |-> cmd.src, body |-> body]}

Noted == [cmd EXCEPT !.at = "flash", !.new.bak = <<cmd.src>>]

\* do_backup, whose failure is a warning.
Backup ==
  /\ cmd.op = "patch" /\ cmd.at = "backup"
  /\ IF ~WantsBackup(cmd.seen)
       THEN cmd' = [cmd EXCEPT !.at = "flash"] /\ UNCHANGED <<store, trouble>>
       ELSE \/ /\ store' = Saved("dirty")
               /\ cmd' = Noted
               /\ UNCHANGED trouble
            \* no hash, or the file cannot be opened
            \/ /\ cmd' = [cmd EXCEPT !.at = "flash"]
               /\ UNCHANGED <<store, trouble>>
            \* the note cannot be added to the ramdisk
            \/ /\ store' = Saved("dirty")
               /\ cmd' = [cmd EXCEPT !.at = "flash"]
               /\ UNCHANGED trouble
            \* the copy stops short, which nobody looks at
            \/ /\ Troubled
               /\ trouble' = trouble + 1
               /\ store' = Saved("cut")
               /\ cmd' = Noted
  /\ UNCHANGED <<booted, up, img, cached, out, last, commands>>

\* boot-restore -f works on the slot in use.
Restore ==
  /\ Begin
  /\ cmd' = [NoCommand EXCEPT !.op = "restore", !.at = "find"]
  /\ UNCHANGED <<booted, up, img, cached, store, out, trouble>>

\* uninstall removes /data/tamisu and the installed daemon, then restores.  The
\* installed daemon, deleted by now, does not find itself to run as magiskboot.
Uninstall(caller) ==
  /\ Begin
  /\ store' = {}
  /\ cmd' = [NoCommand EXCEPT !.op = "uninstall", !.src = img[booted],
                         !.at = IF caller = "manager" THEN "find" ELSE "reboot"]
  /\ UNCHANGED <<booted, up, img, cached, out, trouble>>

\* Where a command goes when it ends early or at its end: uninstall reboots.
Ended == IF cmd.op = "uninstall" THEN [cmd EXCEPT !.at = "reboot"] ELSE NoCommand

NotPatched ==
  /\ cmd.at = "find"
  /\ img[booted].torn \/ ~Patched(img[booted])
  /\ cmd' = Ended
  /\ UNCHANGED <<booted, up, img, cached, store, out, last, commands, trouble>>

\* The backup the image names.
Named == {b \in store : img[booted].bak = <<b.of>>}

\* It is there: the others are deleted, it is flashed as it is.
FromBackup ==
  /\ cmd.at = "find"
  /\ ~img[booted].torn /\ Patched(img[booted])
  /\ \E b \in Named :
       /\ store' = {b}
       /\ cmd' = [cmd EXCEPT !.at = "flash", !.src = img[booted], !.new = b.of,
                             !.cut = (b.body = "cut")]
  /\ UNCHANGED <<booted, up, img, cached, out, last, commands, trouble>>

\* No note, no such file, or a failure of magiskboot to find or extract the
\* note: the image is stripped.  Failures of the strip are ignored.
FromStrip ==
  /\ cmd.at = "find"
  /\ ~img[booted].torn /\ Patched(img[booted])
  /\ Named = {} \/ Troubled
  /\ \E fault \in IF Troubled THEN BOOLEAN ELSE {FALSE} :
       /\ cmd' = [cmd EXCEPT !.at = "flash", !.src = img[booted],
                    !.new = IF fault THEN [img[booted] EXCEPT !.odd = TRUE]
                                     ELSE Strip(img[booted], RunningRelease)]
       /\ trouble' = IF fault \/ Named # {} THEN trouble + 1 ELSE trouble
  /\ UNCHANGED <<booted, up, img, cached, store, out, last, commands>>

\* Any error return before the partition is written.
Stop ==
  /\ cmd.at \in {"find", "backup", "flash"}
  /\ cmd' = Ended
  /\ UNCHANGED <<booted, up, img, cached, store, out, last, commands, trouble>>

\* flash_boot: dd overwrites the partition in place.
FlashBegin ==
  /\ cmd.at = "flash"
  /\ img' = [img EXCEPT ![cmd.slot].torn = TRUE]
  /\ cmd' = [cmd EXCEPT !.at = "write"]
  /\ UNCHANGED <<booted, up, cached, store, out, last, commands, trouble>>

\* dd ends well, or the dd without conv=fsync that is tried after it.
FlashEnd ==
  /\ cmd.at = "write"
  /\ img' = [img EXCEPT ![cmd.slot] = [cmd.new EXCEPT !.torn = cmd.cut]]
  /\ \E synced \in BOOLEAN :
       cached' = IF synced THEN cached \ {cmd.slot} ELSE cached \cup {cmd.slot}
  /\ cmd' = Ended
  /\ last' = [op |-> cmd.op, slot |-> cmd.slot, src |-> cmd.src, cut |-> cmd.cut]
  /\ UNCHANGED <<booted, up, store, out, commands, trouble>>

\* Both fail.
FlashFails ==
  /\ cmd.at = "write"
  /\ cmd' = Ended
  /\ UNCHANGED <<booted, up, img, cached, store, out, last, commands, trouble>>

-----------------------------------------------------------------------------
(* The device. *)

Flushed(files) == {[b EXCEPT !.body = IF @ = "dirty" THEN "whole" ELSE @] : b \in files}

\* The device starts from a slot: the user's reboot, after an update into the
\* updated slot, or that of uninstall, which says nothing of how it went.
Reboot(s) ==
  /\ up
  /\ cmd.op = "none" \/ (cmd.at = "reboot" /\ s = booted)
  /\ s # booted \/ cmd.at = "reboot" \/ cached # {} \/ Flushed(store) # store
  /\ booted' = s
  /\ up' = Boots(img[s])
  /\ cached' = {}
  /\ store' = Flushed(store)
  /\ cmd' = [NoCommand EXCEPT !.slot = s]
  /\ last' = IF cmd.op = "uninstall" THEN last ELSE [NoLast EXCEPT !.slot = s]
  /\ UNCHANGED <<img, out, commands, trouble>>

\* What was not written back is lost: backups are cut, images torn.
PowerCut ==
  /\ up
  /\ Troubled
  /\ trouble' = trouble + 1
  /\ \E lost \in SUBSET {b \in store : b.body = "dirty"}, gone \in SUBSET cached :
       /\ store' = Flushed(store \ lost) \cup {[b EXCEPT !.body = "cut"] : b \in lost}
       /\ img' = [s \in BootSlots |-> [img[s] EXCEPT !.torn = @ \/ s \in gone]]
  /\ cached' = {}
  /\ up' = Boots(img'[booted])
  /\ cmd' = NoCommand
  /\ last' = NoLast
  /\ UNCHANGED <<booted, out, commands>>

\* An update of the system writes the slot that is not in use.
Update(s) ==
  /\ Begin
  /\ s # booted
  /\ \E v \in Versions : img' = [img EXCEPT ![s] = Stock(v)]
  /\ cached' = cached \ {s}
  /\ UNCHANGED <<booted, up, store, cmd, out, trouble>>

\* The user flashes an image with fastboot, a stock one or the patched file,
\* and the device starts.
Fastboot(s) ==
  /\ cmd.op = "none"
  /\ commands < MaxCommands
  /\ commands' = commands + 1
  /\ \E i \in {Stock(v) : v \in Versions} \cup {out[k] : k \in DOMAIN out} :
       img' = [img EXCEPT ![s] = i]
  /\ booted' = s
  /\ up' = Boots(img'[s])
  /\ cached' = {}
  /\ store' = Flushed(store)
  /\ cmd' = [NoCommand EXCEPT !.slot = s]
  /\ last' = [NoLast EXCEPT !.slot = s]
  /\ UNCHANGED <<out, trouble>>

ImageNext ==
  \/ \E s \in BootSlots : Patch(s) \/ Reboot(s) \/ Update(s) \/ Fastboot(s)
  \/ \E caller \in Callers : Uninstall(caller)
  \/ PatchFile \/ Backup
  \/ Restore \/ NotPatched \/ FromBackup \/ FromStrip
  \/ Stop \/ FlashBegin \/ FlashEnd \/ FlashFails
  \/ PowerCut

ImageSpec == ImageInit /\ [][ImageNext]_imageVars

-----------------------------------------------------------------------------
(* Properties. *)

\* Unless the write was cut short or a failure of magiskboot was passed over,
\* an image in a slot starts: first-stage init finds the vendor's modules
\* listed, and all that is listed, and a patched image has it load ours.  The
\* commands meet images with any layout, patched before, stripped, updated,
\* patched for another running kernel, with backups that failed or were cut.
PatchedBoots ==
  \A s \in BootSlots :
    LET i == img[s]
    IN ~i.torn /\ ~i.odd => /\ Boots(i)
                            /\ Patched(i) => "tamisu" \in Listed(i)

\* A restore that said "Done!" has left the system it found with all of its
\* modules and nothing of ours, whether it flashed a backup or stripped the
\* image, unless the image was damaged when it was patched or stripped or the
\* backup when it was made.
RestoreIsStock ==
  last.op \in {"restore", "uninstall"} =>
    LET i == img[last.slot]
    IN last.cut \/ last.src.odd \/ i.odd \/ (Clean(i) /\ i.os = last.src.os)

=============================================================================
