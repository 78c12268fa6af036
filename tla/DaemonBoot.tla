----------------------------- MODULE DaemonBoot -----------------------------
(***************************************************************************)
(* A phone boots with Tamisu: from the keys held during early boot, through*)
(* post-fs-data in the daemon and the start of zygiskd, to the zygotes, and*)
(* again after a loss of power (init_event.cpp, module.cpp, feature.cpp,   *)
(* module_config.cpp; in the kernel the key counter, the feature, the      *)
(* zygote guard and its safe mode).                                        *)
(*                                                                         *)
(* What survives a boot: the saved feature, modules.rc, the state of the   *)
(* modules.  The kernel's and the daemon's memory do not.                  *)
(***************************************************************************)
EXTENDS Naturals, FiniteSets

CONSTANTS Modules,    \* installed modules
          Providers,  \* those that are zygisk implementations of their own
          Managers,   \* those whose saved configuration manages the feature
          Zygotes,    \* names of the 64-bit zygotes
          Presses,    \* volume-down presses that make safe mode (3)
          Threshold,  \* YZ_ZYGOTE_CRASH_THRESHOLD
          GuardMax,   \* ZP_ZYGOTE_GUARD_MAX
          MaxBoots,   \* bound: boots
          MaxEvents   \* bound: changes by the user, and zygote deaths with
                      \* another cause than what was injected

ASSUME DaemonBootAssumption ==
  /\ Providers \subseteq Modules /\ Managers \subseteq Modules
  /\ IsFiniteSet(Zygotes)
  /\ {Presses, Threshold, MaxBoots} \subseteq Nat \ {0}
  /\ {MaxEvents, GuardMax} \subseteq Nat

VARIABLES
  phone,   \* fixed: Magisk's state, modules whose rc file is empty, and
           \* whether an injected zygote crashes
  mods,    \* per module: enabled, disabled, or marked for removal
  temp,    \* modules whose temporary configuration manages the feature
  saved,   \* .feature_config: on, off, or none (absent or cut short)
  rc,      \* modules.rc: the modules in it, and whether it is complete
  tmp,     \* modules.rc.tmp
  used,    \* events so far, and the number of this boot
  keys,    \* presses counted, and the input kprobe: armed, stopping, gone
  prop,    \* a safe mode property of Android is set
  pc,      \* the step of on_post_data_fs that comes next
  safe,    \* what its first question for safe mode was answered
  stage,   \* the later stages that have run
  ran,     \* modules (and "common") whose code has run in this boot
  kern,    \* zygisk_enabled, the linker offsets, the safe mode of the guard
  guard,   \* per zygote: how often the guard has met it
  zd,      \* zygiskd: none, starting, resolved, unresolved, up, dead
  pipe,    \* its ready pipe: none, open, one, zero, eof
  zyg,     \* per zygote: down, exec, plain, injected
  hist     \* see Boot: what this boot was expected to do, and what happened

disk == <<mods, temp, saved, rc>>
boot == <<keys, prop, stage>>
daemon == <<tmp, pc, safe, ran>>
zygisk == <<kern, guard, zd, pipe, zyg>>
bootVars == <<phone, disk, used, boot, daemon, zygisk, hist>>

Enabled == {m \in Modules : mods[m] = "enabled"}

(***************************************************************************)
(* A boot begins.  hist keeps for the properties: whether this boot owes   *)
(* an injected zygote (the feature was saved as on and no save was cut     *)
(* short or failed, no enabled module manages it, Magisk is absent); the   *)
(* last value that was saved and whether a save was cut short or failed    *)
(* since; whether writing modules.rc failed; whether a part of the start   *)
(* of zygiskd or of an injection failed or was late; and what became of    *)
(* the first zygote.                                                       *)
(***************************************************************************)
Volatile ==
  /\ keys' = [count |-> 0, probe |-> "armed"]
  /\ prop' \in BOOLEAN
  /\ pc' = "early" /\ safe' = FALSE /\ stage' = {} /\ ran' = {}
  /\ kern' = [enabled |-> FALSE, offsets |-> FALSE, safemode |-> FALSE]
  /\ guard' = [z \in Zygotes |-> 0]
  /\ zd' = "none" /\ pipe' = "none" /\ zyg' = [z \in Zygotes |-> "down"]

Owed(value, cut) ==
  value = "on" /\ ~cut /\ Enabled \cap Managers = {} /\ phone.magisk = "none"

BootInit ==
  /\ phone \in [magisk : {"none", "path", "zygisk"}, empty : SUBSET Modules,
                crashes : BOOLEAN]
  /\ mods \in [Modules -> {"enabled", "disabled"}] /\ temp = {} /\ saved \in {"none", "on"}
  /\ rc = [mods |-> {}, whole |-> TRUE] /\ tmp = [mods |-> {}, whole |-> FALSE]
  /\ used = [events |-> 0, boots |-> 1]
  /\ keys = [count |-> 0, probe |-> "armed"]
  /\ prop = FALSE /\ pc = "early" /\ safe = FALSE /\ stage = {} /\ ran = {}
  /\ kern = [enabled |-> FALSE, offsets |-> FALSE, safemode |-> FALSE]
  /\ guard = [z \in Zygotes |-> 0]
  /\ zd = "none" /\ pipe = "none" /\ zyg = [z \in Zygotes |-> "down"]
  /\ hist = [owed |-> Owed(saved, FALSE), value |-> saved, cut |-> FALSE,
             rcFailed |-> FALSE, trouble |-> FALSE, first |-> "none"]

-----------------------------------------------------------------------------
(***************************************************************************)
(* Safe mode by keys (tamisu_daemon_integration.c).                        *)
(***************************************************************************)
Stopped(k) == [k EXCEPT !.probe = IF @ = "armed" THEN "stopping" ELSE @]

\* tamisu_handle_input_handle_event
KeyPress ==
  /\ keys.probe # "gone" /\ keys.count < Presses
  /\ keys' = IF keys.count + 1 = Presses
               THEN Stopped([keys EXCEPT !.count = Presses])
               ELSE [keys EXCEPT !.count = @ + 1]
  /\ UNCHANGED <<phone, disk, used, prop, stage, daemon, zygisk, hist>>

\* do_stop_input_hook, a work item
ProbeRemoved ==
  /\ keys.probe = "stopping"
  /\ keys' = [keys EXCEPT !.probe = "gone"]
  /\ UNCHANGED <<phone, disk, used, prop, stage, daemon, zygisk, hist>>

\* is_safe_mode: Android's properties, then tamisu_is_safe_mode, which
\* stops the counting first.
IsSafe == prop \/ keys.count >= Presses
Ask == keys' = IF prop THEN keys ELSE Stopped(keys)

-----------------------------------------------------------------------------
(***************************************************************************)
(* on_post_data_fs, a step per call that others can come between.          *)
(***************************************************************************)
Goto(from, to) == pc = from /\ pc' = to

\* init starts the daemon and report_post_fs_data stops the counting.
Report ==
  /\ Goto("early", "clear")
  /\ keys' = Stopped(keys)
  /\ UNCHANGED <<phone, disk, used, prop, stage, tmp, safe, ran, zygisk, hist>>

\* clear_all_temp_configs, then has_magisk.
ClearTemp ==
  /\ Goto("clear", IF phone.magisk = "path" THEN "done" ELSE "ask")
  /\ temp' = {}
  /\ UNCHANGED <<phone, mods, saved, rc, used, boot, tmp, safe, ran, zygisk, hist>>

\* The first question; in safe mode only directories and binaries follow.
AskFirst ==
  /\ Goto("ask", IF IsSafe THEN "done" ELSE "common")
  /\ Ask /\ safe' = IsSafe
  /\ UNCHANGED <<phone, disk, used, prop, stage, tmp, ran, zygisk, hist>>

\* exec_common_scripts
CommonScripts ==
  /\ Goto("common", "rcOpen")
  /\ ran' = ran \cup {"common"}
  /\ UNCHANGED <<phone, disk, used, boot, tmp, safe, zygisk, hist>>

(***************************************************************************)
(* regenerate_preinit_rc.  Copying an empty file into the stream fails the *)
(* stream: nothing after it is written, and the final check finds it so.   *)
(***************************************************************************)
RcOpen ==
  \/ /\ Goto("rcOpen", "rcWrite")
     /\ tmp' = [mods |-> {}, whole |-> FALSE]
     /\ UNCHANGED <<phone, disk, used, boot, safe, ran, zygisk, hist>>
  \/ /\ Goto("rcOpen", "policy")     \* the file cannot be created
     /\ hist' = [hist EXCEPT !.rcFailed = TRUE]
     /\ UNCHANGED <<phone, disk, used, boot, tmp, safe, ran, zygisk>>

RcComplete == [mods |-> Enabled, whole |-> TRUE]
RcWrite ==
  /\ Goto("rcWrite", "rcRename")
  /\ \/ Enabled \cap phone.empty = {} /\ tmp' = RcComplete /\ UNCHANGED hist
     \/ /\ Enabled \cap phone.empty # {}
        /\ \E some \in SUBSET (Enabled \ phone.empty) :
             tmp' = [mods |-> some, whole |-> FALSE]
        /\ UNCHANGED hist
     \/ \* the disk is full
        /\ tmp' = [mods |-> {}, whole |-> FALSE]
        /\ hist' = [hist EXCEPT !.rcFailed = TRUE]
  /\ UNCHANGED <<phone, disk, used, boot, safe, ran, zygisk>>

\* An incomplete file is left behind; the next RcOpen truncates it.
NoTmp == [mods |-> {}, whole |-> FALSE]
RcRename ==
  /\ Goto("rcRename", "policy")
  /\ rc' = (IF tmp.whole THEN tmp ELSE rc) /\ tmp' = NoTmp
  /\ UNCHANGED <<phone, mods, temp, saved, used, boot, safe, ran, zygisk, hist>>

\* load_sepolicy_rule and load_system_prop: a module marked for removal still
\* has its rules and properties loaded.
NotDisabled == {m \in Modules \ Providers : mods[m] # "disabled"}
LoadPolicyRules ==
  /\ Goto("policy", "features")
  /\ ran' = ran \cup NotDisabled
  /\ hist' = [hist EXCEPT !.rcFailed = FALSE]
  /\ UNCHANGED <<phone, disk, used, boot, tmp, safe, zygisk>>

\* init_features: a managed feature is left to its module; when nothing is
\* left there is nothing to apply or to save.
Managed == Enabled \cap (Managers \cup temp) # {}
InitFeatures ==
  /\ IF saved = "none" \/ Managed
       THEN Goto("features", "launch") /\ UNCHANGED <<kern, saved>>
       ELSE /\ Goto("features", "resave")
            /\ kern' = [kern EXCEPT !.enabled = (saved = "on")]
            /\ saved' = "none"       \* save_binary_config truncates the file
  /\ UNCHANGED <<phone, mods, temp, rc, used, boot, tmp, safe, ran, guard, zd,
                 pipe, zyg, hist>>

Value == IF kern.enabled THEN "on" ELSE "off"
\* save_binary_config reports success even when its writes fail.
Written == saved' \in {Value, "none"}
Resave ==
  /\ Goto("resave", "launch")
  /\ Written
  /\ hist' = [hist EXCEPT !.cut = @ \/ saved' = "none"]
  /\ UNCHANGED <<phone, mods, temp, rc, used, boot, tmp, safe, ran, zygisk>>

(***************************************************************************)
(* ensure_zygisk_payload_if_enabled and ensure_zygiskd_running_if_enabled, *)
(* both of which ask for safe mode again; spawn_zygiskd with its pipe.     *)
(***************************************************************************)
Trouble == hist' = [hist EXCEPT !.trouble = TRUE]
WontLaunch == IsSafe \/ ~kern.enabled \/ phone.magisk = "zygisk"

NoLaunch ==
  /\ WontLaunch
  /\ Goto("launch", "scripts") /\ Ask
  /\ UNCHANGED <<phone, disk, used, prop, stage, tmp, safe, ran, zygisk, hist>>

Spawn ==
  /\ ~WontLaunch
  /\ Goto("launch", "wait") /\ Ask
  /\ \/ pipe' = "open" /\ zd' = "starting" /\ UNCHANGED hist
     \/ pipe' = "none" /\ zd' = "starting" /\ Trouble    \* no pipe
     \/ pipe' = "zero" /\ zd' = "dead" /\ Trouble        \* fork or exec fails
  /\ UNCHANGED <<phone, disk, used, prop, stage, tmp, safe, ran, kern, guard, zyg>>

WaitMut ==
  /\ Goto("wait", "scripts")
  /\ UNCHANGED <<phone, disk, used, boot, tmp, safe, ran, zygisk, hist>>
WaitReady ==
  /\ Goto("wait", "scripts") /\ pipe # "open"
  /\ UNCHANGED <<phone, disk, used, boot, tmp, safe, ran, zygisk, hist>>
WaitTimeout ==
  /\ Goto("wait", "scripts") /\ pipe = "open" /\ Trouble
  /\ UNCHANGED <<phone, disk, used, boot, tmp, safe, ran, zygisk>>

\* exec_stage_script and load_system_prop, without asking again.
StageModules == Enabled \ Providers
StageScripts ==
  /\ Goto("scripts", "postMount")
  /\ ran' = ran \cup StageModules \cup NotDisabled
  /\ UNCHANGED <<phone, disk, used, boot, tmp, safe, zygisk, hist>>

\* run_stage, for post-mount and for the later stages.
RunStageMut ==
  /\ ran' = IF phone.magisk = "path" THEN ran
            ELSE ran \cup {"common"} \cup StageModules
  /\ keys' = IF phone.magisk = "path" \/ prop THEN keys ELSE Stopped(keys)
RunStage ==
  /\ ran' = IF phone.magisk = "path" \/ IsSafe THEN ran
            ELSE ran \cup {"common"} \cup StageModules
  /\ keys' = IF phone.magisk = "path" \/ prop THEN keys ELSE Stopped(keys)

PostMount ==
  /\ Goto("postMount", "done")
  /\ RunStage
  /\ UNCHANGED <<phone, disk, used, prop, stage, tmp, safe, zygisk, hist>>

\* on_services, then on_boot_completed once a zygote is up.
LaterStage ==
  /\ pc = "done"
  /\ \/ stage = {} /\ stage' = {"service"}
     \/ /\ stage = {"service"} /\ stage' = {"service", "boot-completed"}
        /\ \A z \in Zygotes : zyg[z] \in {"plain", "injected"}
  /\ RunStage
  /\ UNCHANGED <<phone, disk, used, prop, tmp, pc, safe, zygisk, hist>>
-----------------------------------------------------------------------------
(***************************************************************************)
(* zygiskd up to its ready byte: the linker offsets go to the kernel first.*)
(***************************************************************************)
ZdResolve ==
  /\ zd = "starting"
  /\ \/ zd' = "resolved" /\ kern' = [kern EXCEPT !.offsets = TRUE] /\ UNCHANGED hist
     \/ zd' = "unresolved" /\ Trouble /\ UNCHANGED kern
  /\ UNCHANGED <<phone, disk, used, boot, daemon, guard, pipe, zyg>>

\* notify_ready; the byte is lost if nobody has, or still has, the pipe.
ZdNotify ==
  /\ zd \in {"resolved", "unresolved"}
  /\ zd' = "up"
  /\ pipe' = IF pipe # "open" THEN pipe ELSE IF zd = "resolved" THEN "one" ELSE "zero"
  /\ UNCHANGED <<phone, disk, used, boot, daemon, kern, guard, zyg, hist>>

ZdDies ==
  /\ zd \in {"starting", "resolved", "unresolved"}
  /\ zd' = "dead" /\ Trouble
  /\ pipe' = IF pipe = "open" THEN "eof" ELSE pipe
  /\ UNCHANGED <<phone, disk, used, boot, daemon, kern, guard, zyg>>

-----------------------------------------------------------------------------
(***************************************************************************)
(* The zygotes (tamisu_zygote_probe.c).  init starts them after the daemon *)
(* has returned, and again when they die.  Each life has a process id of   *)
(* its own, so the guard tells restarts apart by it.                       *)
(***************************************************************************)
Outcome(z, how) ==
  /\ zyg' = [zyg EXCEPT ![z] = how]
  /\ hist' = IF hist.first = "none" /\ how # "exec" THEN [hist EXCEPT !.first = how] ELSE hist

\* No memory, or the libraries cannot be staged in the process.
Unable(z) ==
  /\ zyg' = [zyg EXCEPT ![z] = "plain"]
  /\ hist' = [hist EXCEPT !.trouble = TRUE,
                          !.first = IF @ = "none" THEN "plain" ELSE @]

\* my_bprm_committed_creds queues the task work.
ExecZygote(z) ==
  /\ pc \in {"done", "saving"} /\ zyg[z] = "down"
  /\ IF kern.enabled /\ ~kern.safemode
       THEN Outcome(z, "exec") \/ Unable(z)
       ELSE Outcome(z, "plain")
  /\ UNCHANGED <<phone, disk, used, boot, daemon, kern, guard, zd, pipe>>

\* zp_zygote_safemode_should_skip: the slots, the count, the decision.
HasSlot(z) ==
  guard[z] > 0 \/ Cardinality({y \in Zygotes : guard[y] > 0}) < GuardMax
CountedMut(z) == guard' = [guard EXCEPT ![z] = 1]
Counted(z) ==
  guard' = IF kern.safemode \/ ~HasSlot(z) THEN guard ELSE [guard EXCEPT ![z] = @ + 1]
TooMany(z) == HasSlot(z) /\ guard[z] >= Threshold

\* zp_inject_tw_func for a zygote.
InjectWork(z) ==
  /\ zyg[z] = "exec"
  /\ Counted(z)
  /\ kern' = [kern EXCEPT !.safemode = @ \/ TooMany(z)]
  /\ IF ~kern'.safemode /\ kern.enabled /\ kern.offsets
       THEN Outcome(z, "injected") \/ Unable(z)
       ELSE Outcome(z, "plain")
  /\ UNCHANGED <<phone, disk, used, boot, daemon, zd, pipe>>

\* A module that is bad for the zygote takes it down each time.
Crash(z) ==
  /\ zyg[z] = "injected" /\ phone.crashes
  /\ zyg' = [zyg EXCEPT ![z] = "down"]
  /\ UNCHANGED <<phone, disk, used, boot, daemon, kern, guard, zd, pipe, hist>>

Kill(z) ==
  /\ used.events < MaxEvents /\ zyg[z] \in {"plain", "injected"}
  /\ used' = [used EXCEPT !.events = @ + 1]
  /\ zyg' = [zyg EXCEPT ![z] = "down"]
  /\ UNCHANGED <<phone, disk, boot, daemon, kern, guard, zd, pipe, hist>>

-----------------------------------------------------------------------------
(***************************************************************************)
(* The user, once the phone is up, and the loss of power.                  *)
(***************************************************************************)
Running == "boot-completed" \in stage /\ pc = "done"
MayEdit ==
  /\ Running /\ used.events < MaxEvents
  /\ used' = [used EXCEPT !.events = @ + 1]

SetModule(m, s) ==
  /\ MayEdit
  /\ mods' = [mods EXCEPT ![m] = s]
  /\ UNCHANGED <<phone, temp, saved, rc, boot, daemon, zygisk, hist>>

\* module_config_handle: a module's script sets its temporary configuration.
SetTemp(m) ==
  /\ MayEdit
  /\ temp' = temp \cup {m}
  /\ UNCHANGED <<phone, mods, saved, rc, boot, daemon, zygisk, hist>>

\* feature_set
FeatureSet(on) ==
  /\ MayEdit
  /\ kern' = [kern EXCEPT !.enabled = on]
  /\ UNCHANGED <<phone, disk, boot, daemon, guard, zd, pipe, zyg, hist>>

\* feature_save_config: save_binary_config opens the file, then writes it.
SaveBegin ==
  /\ Running
  /\ pc' = "saving" /\ saved' = "none"
  /\ UNCHANGED <<phone, mods, temp, rc, used, boot, tmp, safe, ran, zygisk, hist>>
SaveEnd ==
  /\ Goto("saving", "done")
  /\ Written
  /\ hist' = [hist EXCEPT !.value = Value, !.cut = (saved' = "none")]
  /\ UNCHANGED <<phone, mods, temp, rc, used, boot, tmp, safe, ran, zygisk>>

PowerLoss ==
  /\ used.boots < MaxBoots
  /\ used' = [used EXCEPT !.boots = @ + 1]
  /\ Volatile
  /\ LET cut == hist.cut \/ pc \in {"resave", "saving"}
     IN hist' = [hist EXCEPT !.cut = cut, !.owed = Owed(hist.value, cut),
                             !.rcFailed = FALSE, !.trouble = FALSE, !.first = "none"]
  /\ tmp' = NoTmp
  /\ UNCHANGED <<phone, disk>>

-----------------------------------------------------------------------------
PostFsData ==
  \/ Report \/ ClearTemp \/ AskFirst \/ CommonScripts \/ RcOpen \/ RcWrite \/ RcRename
  \/ LoadPolicyRules \/ InitFeatures \/ Resave \/ NoLaunch \/ Spawn \/ WaitReady
  \/ WaitTimeout \/ StageScripts \/ PostMount
Zd == ZdResolve \/ ZdNotify
Zygote(z) == ExecZygote(z) \/ InjectWork(z) \/ Crash(z)
User ==
  \/ \E m \in Modules, s \in {"enabled", "disabled", "removing"} : SetModule(m, s)
  \/ \E m \in Modules : SetTemp(m)
  \/ \E on \in BOOLEAN : FeatureSet(on)
  \/ SaveBegin
  \/ SaveEnd

BootNext ==
  \/ KeyPress \/ ProbeRemoved \/ PostFsData \/ LaterStage
  \/ Zd \/ ZdDies \/ \E z \in Zygotes : Zygote(z) \/ Kill(z)
  \/ User \/ PowerLoss

BootSpec == BootInit /\ [][BootNext]_bootVars

\* Processes that have been started run; scripts end; init restarts zygotes.
BootFairSpec ==
  /\ BootSpec
  /\ WF_bootVars(PostFsData) /\ WF_bootVars(Zd)
  /\ \A z \in Zygotes : WF_bootVars(Zygote(z))

-----------------------------------------------------------------------------
\* Where Tamisu is to stand aside it does so in the whole boot: when the
\* daemon's first question found safe mode, or Magisk is there, no script,
\* rule or property of a module is run or loaded at any stage and zygiskd is
\* not started; and next to Magisk's Zygisk no zygote is injected, whatever
\* the user sets meanwhile.
StandsAside ==
  /\ safe \/ phone.magisk = "path" => ran = {} /\ zd = "none"
  /\ phone.magisk # "none" => \A z \in Zygotes : zyg[z] # "injected"

\* Wherever power fails, modules.rc is one complete collection: init never
\* gets a text that ends in the middle or lacks a module in the middle.
RcWhole == rc.whole

\* What runs of the modules: nothing of the daemon's when it is to stand aside,
\* and the init text of one collection, whole.
ModulesRunRight == StandsAside /\ RcWhole

\* A boot that owes an injected zygote gives one from its first zygote on,
\* unless safe mode was asked for, or zygiskd or the injection failed or was
\* late: the saved value gets to the kernel, no temporary configuration of an
\* earlier boot is in its way, and the daemon does not return before the
\* kernel is ready.
FirstZygoteInjected ==
  hist.owed /\ ~hist.trouble /\ ~IsSafe /\ hist.first # "none"
    => hist.first = "injected"

\* A module that crashes every injected zygote cannot keep the phone from
\* coming up: eventually every zygote stays up.
BootLoopEnds ==
  <>[](\A z \in Zygotes : zyg[z] = "plain" \/ (zyg[z] = "injected" /\ ~phone.crashes))

=============================================================================
