---------------------------- MODULE Ssd20xxBoot ----------------------------
(* How the vendor driver comes up (ssd20xx.c): probe(), the chain of two    *)
(* firmware loads it starts and does not wait for, and the interrupt        *)
(* handler, any of which may decide to write the flash of the controller;   *)
(* power may be lost at any step.  What an update writes and in which       *)
(* order is Seeprom's; here the flash is blank, begun, or whole.            *)
EXTENDS Naturals

CONSTANTS Flashes,      \* what the flash may hold at first
          FileSets,     \* [force, fw, header]: the three firmware files
          Absent,       \* a file that is not there
          Factory,      \* HIDDEN_VERSION_FACTORY
          Unwritten,    \* the display version of a blank flash, 0xFFFFFFFF
          MaxCrashes,   \* bound: losses of power
          MaxFaults     \* bound: failed transfers and boots with a bad trim

Version == [product : Nat, display : Nat, hidden : Nat]
NoVersion == [product |-> 0, display |-> Unwritten, hidden |-> 0]
Zeroed == [product |-> 0, display |-> 0, hidden |-> 0]

ASSUME VersionAssumption == Factory \in Nat /\ Unwritten \in Nat /\ Absent \notin Version
ASSUME FilesAssumption ==
    /\ FileSets \subseteq [force : Version \union {Absent}, fw : Version \union {Absent},
                           header : Version]
    /\ Flashes \subseteq [version : Version, whole : BOOLEAN]
ASSUME BoundsAssumption == MaxCrashes \in Nat /\ MaxFaults \in Nat

VARIABLES
    flash,              \* [version, whole]
    files,
    chip,               \* what the controller is doing
    int, pending,       \* its interrupt line, and an edge not handled yet
    registered, depth,  \* request_threaded_irq() done; disable_irq() depth
    work_procedure,
    init_ds_flag, found_force_bin_file, checksum_flag,
    boot_flag,          \* the bits CPUCFG and SYS_CFG of the boot status
    info_flag,          \* its other error bits: what the controller is made with
    fw_version,         \* the version last read from the flash
    scheduled,          \* the load that is under way: "none", "force", "fw"
    pc,                 \* [Actors -> place]
    file,               \* [Actors -> the file it writes]
    accidents,          \* what leaves the touch dead until the next boot
    crashes, faults

Actors == {"probe", "loader", "handler"}

chipVars == <<chip, int, pending>>
irqVars == <<registered, depth>>
flagVars == <<init_ds_flag, found_force_bin_file, boot_flag, info_flag, checksum_flag,
              fw_version>>
countVars == <<crashes, faults>>
vars == <<flash, files, chipVars, irqVars, work_procedure, flagVars, scheduled, pc, file,
          accidents, countVars>>

-----------------------------------------------------------------------------
(* solomon_firmware_version_check(): dev is the flash, fw the file.         *)
VersionCheck(dev, fw) ==
    \/ dev.display = Unwritten /\ fw.display # Unwritten
    \/ (dev.hidden = Factory) # (fw.hidden = Factory)
    \/ dev.display = 0 /\ fw.display # 0
    \/ /\ dev.product = fw.product
       /\ \/ dev.display < fw.display
          \/ dev.display = fw.display /\ dev.hidden < fw.hidden

(* solomon_firmware_pre_boot_up_check(): why it updates without asking for  *)
(* the version.  Of the boot status it looks at what an update can repair;  *)
(* probe() and the handler ask for one whatever the error is.               *)
BootError == boot_flag \/ info_flag
Forced == boot_flag \/ checksum_flag \/ found_force_bin_file

-----------------------------------------------------------------------------
Start == [a \in Actors |-> IF a = "probe" THEN "power_on" ELSE "idle"]
NoFile == [a \in Actors |-> NoVersion]

Init ==
    /\ flash \in Flashes /\ files \in FileSets
    /\ chip = "off" /\ int = FALSE /\ pending = FALSE
    /\ registered = FALSE /\ depth = 0
    /\ work_procedure = "none"
    /\ init_ds_flag = TRUE /\ found_force_bin_file = FALSE
    /\ boot_flag = FALSE /\ info_flag = FALSE /\ checksum_flag = FALSE
    /\ fw_version = Zeroed
    /\ scheduled = "none"
    /\ pc = Start /\ file = NoFile
    /\ accidents = {}
    /\ crashes = 0 /\ faults = 0

(* Only the flash, and the files, outlive a loss of power.                  *)
PowerLoss ==
    /\ crashes < MaxCrashes
    /\ crashes' = crashes + 1
    /\ chip' = "off" /\ int' = FALSE /\ pending' = FALSE
    /\ registered' = FALSE /\ depth' = 0
    /\ work_procedure' = "none"
    /\ init_ds_flag' = TRUE /\ found_force_bin_file' = FALSE
    /\ boot_flag' = FALSE /\ info_flag' = FALSE /\ checksum_flag' = FALSE
    /\ fw_version' = Zeroed
    /\ scheduled' = "none"
    /\ pc' = Start /\ file' = NoFile
    /\ accidents' = {}
    /\ UNCHANGED <<flash, files, faults>>

At(a, place) == pc[a] = place
Go(a, place) == pc' = [pc EXCEPT ![a] = place]

MayFail(fails) ==
    /\ UNCHANGED crashes
    /\ IF fails THEN faults < MaxFaults /\ faults' = faults + 1 ELSE UNCHANGED faults

When(happens, what) == IF happens THEN {what} ELSE {}
Record(what) == accidents' = accidents \union what

-----------------------------------------------------------------------------
(* The controller: it boots and waits, with INT low, for its CPU to be      *)
(* started; what it does then depends on the flash.                         *)
Edge == int' = TRUE /\ pending' = TRUE

Boots ==
    /\ chip = "reset"
    /\ chip' = "bios"
    /\ Edge
    /\ UNCHANGED <<flash, files, irqVars, work_procedure, flagVars, scheduled, pc, file,
                   accidents, countVars>>

Starts ==
    /\ chip = "starting" /\ ~int
    /\ IF flash.whole THEN chip' = "boot_st" /\ Edge /\ UNCHANGED accidents
       ELSE IF flash.version # NoVersion
       THEN chip' = "cs_error" /\ Edge /\ UNCHANGED accidents
       ELSE /\ chip' = "silent"
            /\ Record({"blank"})
            /\ UNCHANGED <<int, pending>>
    /\ UNCHANGED <<flash, files, irqVars, work_procedure, flagVars, scheduled, pc, file,
                   countVars>>

Reset == chip' = "reset" /\ int' = FALSE /\ UNCHANGED pending
StartCpu == /\ chip' = IF chip = "bios" THEN "starting" ELSE chip
            /\ UNCHANGED <<int, pending>>

-----------------------------------------------------------------------------
(* solomon_boot_sequence().  Where probe() gives up there is no touch.      *)
PowerOn ==
    /\ At("probe", "power_on")
    /\ work_procedure' = "initialize"
    /\ Reset
    /\ Go("probe", "process_version")
    /\ UNCHANGED <<flash, files, irqVars, flagVars, scheduled, file, accidents, countVars>>

(* The reset has waited for INT, for 200 ms; ds_process_version() follows,  *)
(* and solomon_read_points() looks at INT again.                            *)
ProcessVersion ==
    /\ At("probe", "process_version")
    /\ \E fails \in BOOLEAN :
         /\ MayFail(fails)
         /\ ~fails => chip = "bios"
         /\ Go("probe", IF fails THEN "failed" ELSE "boot_st")
         /\ Record(When(fails, "boot"))
    /\ UNCHANGED <<flash, files, chipVars, irqVars, work_procedure, flagVars, scheduled, file>>

-----------------------------------------------------------------------------
(* solomon_pre_init(), in probe() and in the handler.  A failure leaves the *)
(* error bits as they were last read.                                       *)
AfterPreInit(a, failed) ==
    CASE BootError -> "checksum"
      [] ~BootError /\ a = "probe" -> IF failed THEN "failed" ELSE "request_irq"
      [] ~BootError /\ a # "probe" -> "out"

PreInitFails(a) ==
    /\ MayFail(TRUE)
    /\ UNCHANGED <<boot_flag, info_flag, fw_version, init_ds_flag, scheduled, chipVars>>
    /\ Go(a, AfterPreInit(a, TRUE))
    /\ Record({"boot"})

PreInit(a, place) ==
    /\ At(a, place)
    /\ UNCHANGED <<flash, files, irqVars, work_procedure, found_force_bin_file,
                   checksum_flag, file>>

(* A blank flash shows in the boot status; one whose update was cut short   *)
(* may or may not.  A boot at which the controller finds its own trim bad   *)
(* is one of the faults.                                                    *)
ReadBootSt(a) ==
    /\ PreInit(a, "boot_st")
    /\ \/ PreInitFails(a)
       \/ /\ \E bad \in BOOLEAN : MayFail(bad) /\ info_flag' = bad
          /\ boot_flag' \in IF flash.whole THEN {FALSE}
                            ELSE IF flash.version = NoVersion THEN {TRUE} ELSE BOOLEAN
          /\ Go(a, "version")
          /\ UNCHANGED <<fw_version, init_ds_flag, scheduled, chipVars, accidents>>

\* mutant: the version is the one of the last update
VersionBootOnce(a) ==
    /\ PreInit(a, "version")
    /\ \/ PreInitFails(a)
       \/ /\ MayFail(FALSE)
          /\ Go(a, "pre_init_end")
          /\ UNCHANGED <<fw_version, boot_flag, info_flag, init_ds_flag, scheduled, chipVars,
                         accidents>>

(* ds_init_code() and solomon_get_version_boot().                           *)
VersionBoot(a) ==
    /\ PreInit(a, "version")
    /\ \/ PreInitFails(a)
       \/ /\ MayFail(FALSE)
          /\ fw_version' = flash.version
          /\ Go(a, "pre_init_end")
          /\ UNCHANGED <<boot_flag, info_flag, init_ds_flag, scheduled, chipVars, accidents>>

(* The first time the CPU is left to the loader; later it is started here.  *)
PreInitEnd(a) ==
    /\ PreInit(a, "pre_init_end")
    /\ \/ PreInitFails(a)
       \/ /\ MayFail(FALSE)
          /\ UNCHANGED <<boot_flag, info_flag, fw_version, accidents>>
          /\ IF init_ds_flag
             THEN /\ scheduled' = "force"
                  /\ init_ds_flag' = FALSE
                  /\ UNCHANGED chipVars
             ELSE /\ chip' = IF chip = "bios" THEN "starting" ELSE chip
                  /\ int' = FALSE
                  /\ UNCHANGED <<pending, init_ds_flag, scheduled>>
          /\ Go(a, AfterPreInit(a, FALSE))

(* The error bits are acted on: in probe() by the loader, unless that has   *)
(* already written the word that is tested here.                            *)
Checksum(a) ==
    /\ At(a, "checksum")
    /\ IF a = "probe" /\ work_procedure = "initialize"
       THEN Go(a, "request_irq") /\ UNCHANGED <<chipVars, accidents>>
       ELSE /\ Go(a, "fw_update")
            /\ Record(When(a = "probe", "early"))
            /\ Reset
    /\ UNCHANGED <<flash, files, irqVars, work_procedure, flagVars, scheduled, file, countVars>>

(* request_threaded_irq() starts the interrupt, whatever its depth was; an  *)
(* edge from before it may be remembered or not.                            *)
RequestIrq ==
    /\ At("probe", "request_irq")
    /\ registered' = TRUE /\ depth' = 0
    /\ pending' \in {FALSE, pending}
    /\ Record(When(depth > 0 \/ (int /\ ~pending' /\ chip # "bios"), "early"))
    /\ Go("probe", "done")
    /\ UNCHANGED <<flash, files, chip, int, work_procedure, flagVars, scheduled, file, countVars>>

-----------------------------------------------------------------------------
(* The loads.  solomon_fw_update_controller() looks for the file that       *)
(* forces an update, solomon_repeat_fw_update_controller() for the other,   *)
(* and takes the header if there is none.                                   *)
LoaderStart ==
    /\ At("loader", "idle") /\ scheduled # "none"
    /\ work_procedure' = "upgrade"
    /\ Go("loader", IF scheduled = "force" THEN "disable" ELSE "repeat")
    /\ UNCHANGED <<flash, files, chipVars, irqVars, flagVars, scheduled, file, accidents,
                   countVars>>

\* mutant: the interrupt is left on
LoaderLeavesIrq ==
    /\ At("loader", "disable")
    /\ Go("loader", "force")
    /\ UNCHANGED <<flash, files, chipVars, registered, depth, work_procedure, flagVars, scheduled,
                   file, accidents, countVars>>

(* disable_irq() waits for a handler that runs.                             *)
LoaderDisable ==
    /\ At("loader", "disable") /\ At("handler", "idle")
    /\ depth' = depth + 1
    /\ Go("loader", "force")
    /\ UNCHANGED <<flash, files, chipVars, registered, work_procedure, flagVars, scheduled,
                   file, accidents, countVars>>

LoaderForce ==
    /\ At("loader", "force")
    /\ found_force_bin_file' = (files.force # Absent)
    /\ IF files.force = Absent
       THEN scheduled' = "fw" /\ Go("loader", "idle") /\ UNCHANGED file
       ELSE /\ file' = [file EXCEPT !["loader"] = files.force]
            /\ scheduled' = "none"
            /\ Go("loader", "check")
    /\ UNCHANGED <<flash, files, chipVars, irqVars, work_procedure, init_ds_flag, boot_flag,
                   info_flag, checksum_flag, fw_version, accidents, countVars>>

OwnFile == IF files.fw = Absent THEN files.header ELSE files.fw

\* mutant: the second load disables the interrupt as the first did
LoaderRepeatDisables ==
    /\ At("loader", "repeat") /\ At("handler", "idle")
    /\ depth' = depth + 1
    /\ file' = [file EXCEPT !["loader"] = OwnFile]
    /\ scheduled' = "none"
    /\ Go("loader", "check")
    /\ UNCHANGED <<flash, files, chipVars, registered, work_procedure, flagVars, accidents,
                   countVars>>

LoaderRepeat ==
    /\ At("loader", "repeat")
    /\ file' = [file EXCEPT !["loader"] = OwnFile]
    /\ scheduled' = "none"
    /\ Go("loader", "check")
    /\ UNCHANGED <<flash, files, chipVars, irqVars, work_procedure, flagVars, accidents,
                   countVars>>

(* solomon_fw_update(), after its first reset.                              *)
FwUpdate(a) ==
    /\ At(a, "fw_update") /\ chip = "bios"
    /\ file' = [file EXCEPT ![a] = OwnFile]
    /\ Go(a, "check")
    /\ UNCHANGED <<flash, files, chipVars, irqVars, work_procedure, flagVars, scheduled,
                   accidents, countVars>>

-----------------------------------------------------------------------------
AfterUpdate(a) == IF a = "loader" THEN "clear_int" ELSE "reset"

\* mutant: a file that is not newer is never written
CheckVersionFirst(a) ==
    /\ At(a, "check")
    /\ checksum_flag' = IF boot_flag THEN checksum_flag ELSE FALSE
    /\ Go(a, IF VersionCheck(fw_version, file[a]) THEN "erase" ELSE AfterUpdate(a))
    /\ UNCHANGED <<flash, files, chipVars, irqVars, work_procedure, init_ds_flag,
                   found_force_bin_file, boot_flag, info_flag, fw_version, scheduled, file,
                   accidents, countVars>>

(* solomon_firmware_pre_boot_up_check().                                    *)
Check(a) ==
    /\ At(a, "check")
    /\ checksum_flag' = IF boot_flag THEN checksum_flag ELSE FALSE
    /\ Go(a, IF Forced \/ VersionCheck(fw_version, file[a]) THEN "erase" ELSE AfterUpdate(a))
    /\ UNCHANGED <<flash, files, chipVars, irqVars, work_procedure, init_ds_flag,
                   found_force_bin_file, boot_flag, info_flag, fw_version, scheduled, file,
                   accidents, countVars>>

(* The three stages of an update.  One that fails is not tried again here.  *)
Stage(a, place, next, content) ==
    /\ At(a, place)
    /\ \E fails \in BOOLEAN :
         /\ MayFail(fails)
         /\ Go(a, IF fails THEN AfterUpdate(a) ELSE next)
         /\ flash' \in IF fails THEN {flash, content} ELSE {content}
         /\ UNCHANGED accidents
    /\ UNCHANGED <<files, chipVars, irqVars, work_procedure, flagVars, scheduled, file>>

Begun(a) == [version |-> file[a], whole |-> FALSE]

EraseFlash(a) == Stage(a, "erase", "config", [version |-> NoVersion, whole |-> FALSE])
WriteConfig(a) == Stage(a, "config", "body", Begun(a))
WriteBody(a) == Stage(a, "body", AfterUpdate(a), [Begun(a) EXCEPT !.whole = TRUE])

Writing(a) == pc[a] \in {"erase", "config", "body"}

(* The end of solomon_fw_update().                                          *)
ResetAfter(a) ==
    /\ At(a, "reset")
    /\ Reset
    /\ Go(a, IF a = "probe" THEN "request_irq" ELSE "out")
    /\ UNCHANGED <<flash, files, irqVars, work_procedure, flagVars, scheduled, file, accidents,
                   countVars>>

-----------------------------------------------------------------------------
(* The end of the loader: start the CPU and wait for INT.  A transfer that  *)
(* fails leaves the interrupt off and the word at TS_IN_UPGRADE.            *)
LoaderClearInt ==
    /\ At("loader", "clear_int")
    /\ \/ /\ MayFail(TRUE)
          /\ Record({"boot"})
          /\ Go("loader", "given_up")
          /\ UNCHANGED chipVars
       \/ /\ MayFail(FALSE)
          /\ int' = FALSE
          /\ Go("loader", "unstall")
          /\ UNCHANGED <<chip, pending, accidents>>
    /\ UNCHANGED <<flash, files, irqVars, work_procedure, flagVars, scheduled, file>>

LoaderUnstall ==
    /\ At("loader", "unstall")
    /\ \/ /\ MayFail(TRUE)
          /\ Record({"boot"})
          /\ Go("loader", "given_up")
          /\ UNCHANGED chipVars
       \/ /\ MayFail(FALSE)
          /\ StartCpu
          /\ Go("loader", "give_back")
          /\ UNCHANGED accidents
    /\ UNCHANGED <<flash, files, irqVars, work_procedure, flagVars, scheduled, file>>

LoaderGiveBack ==
    /\ At("loader", "give_back")
    /\ work_procedure' = "none"
    /\ Go("loader", "enable")
    /\ UNCHANGED <<flash, files, chipVars, irqVars, flagVars, scheduled, file, accidents,
                   countVars>>

LoaderEnable ==
    /\ At("loader", "enable")
    /\ depth' = IF depth > 0 THEN depth - 1 ELSE 0
    /\ Go("loader", "idle")
    /\ UNCHANGED <<flash, files, chipVars, registered, work_procedure, flagVars, scheduled,
                   file, accidents, countVars>>

-----------------------------------------------------------------------------
(* The handler, and the frames by which a controller asks to be started.    *)
(* During an update it returns at once, and the frame stays unanswered.     *)
HandlerStart ==
    /\ At("handler", "idle") /\ pending /\ registered /\ depth = 0
    /\ pending' = FALSE
    /\ CASE work_procedure = "upgrade" ->
              /\ Record(When(int, "early"))
              /\ UNCHANGED <<pc, work_procedure>>
         [] work_procedure # "upgrade" /\ ~int -> UNCHANGED <<pc, work_procedure, accidents>>
         [] work_procedure = "none" /\ int ->
              /\ work_procedure' = "normal"
              /\ Go("handler", "frame")
              /\ UNCHANGED accidents
         [] work_procedure \in {"initialize", "normal"} /\ int ->
              Go("handler", "clear") /\ UNCHANGED <<work_procedure, accidents>>
    /\ UNCHANGED <<flash, files, chip, int, irqVars, flagVars, scheduled, file, countVars>>

HandlerFrame ==
    /\ At("handler", "frame")
    /\ checksum_flag' = (checksum_flag \/ chip = "cs_error")
    /\ Go("handler", CASE chip = "bios" -> "boot_st"
                       [] chip = "cs_error" -> "checksum"
                       [] OTHER -> "clear")
    /\ UNCHANGED <<flash, files, chipVars, irqVars, work_procedure, init_ds_flag,
                   found_force_bin_file, boot_flag, info_flag, fw_version, scheduled, file,
                   accidents, countVars>>

(* solomon_init_config(), and int_clear_cmd().                              *)
HandlerClear ==
    /\ At("handler", "clear")
    /\ \E fails \in BOOLEAN :
         /\ MayFail(fails)
         /\ Record(When(fails, "boot"))
         /\ int' = IF fails \/ chip = "bios" THEN int ELSE FALSE
         /\ chip' = IF ~fails /\ chip = "boot_st" THEN "run" ELSE chip
    /\ Go("handler", "out")
    /\ UNCHANGED <<flash, files, pending, irqVars, work_procedure, flagVars, scheduled, file>>

HandlerOut ==
    /\ At("handler", "out")
    /\ work_procedure' = IF work_procedure = "normal" THEN "none" ELSE work_procedure
    /\ Go("handler", "idle")
    /\ UNCHANGED <<flash, files, chipVars, irqVars, flagVars, scheduled, file, accidents,
                   countVars>>

-----------------------------------------------------------------------------
Chip == Boots \/ Starts

Common(a) ==
    \/ ReadBootSt(a) \/ VersionBoot(a) \/ PreInitEnd(a) \/ Checksum(a) \/ FwUpdate(a)
    \/ Check(a) \/ EraseFlash(a) \/ WriteConfig(a) \/ WriteBody(a) \/ ResetAfter(a)

Probe == PowerOn \/ ProcessVersion \/ RequestIrq \/ Common("probe")

Loader ==
    \/ LoaderStart \/ LoaderDisable \/ LoaderForce \/ LoaderRepeat
    \/ LoaderClearInt \/ LoaderUnstall \/ LoaderGiveBack \/ LoaderEnable
    \/ Common("loader")

Handler == HandlerStart \/ HandlerFrame \/ HandlerClear \/ HandlerOut \/ Common("handler")

Next == PowerLoss \/ Chip \/ Probe \/ Loader \/ Handler

Spec == Init /\ [][Next]_vars

(* Each of the three runs on, and the controller answers.                   *)
FairSpec == Spec /\ WF_vars(Chip) /\ WF_vars(Probe) /\ WF_vars(Loader) /\ WF_vars(Handler)

-----------------------------------------------------------------------------
AllVersions ==
    { f.version : f \in Flashes } \union {NoVersion, Zeroed}
    \union ((UNION { {s.force, s.fw, s.header} : s \in FileSets }) \ {Absent})

Places == {"idle", "power_on", "process_version", "failed", "boot_st", "version",
           "pre_init_end", "checksum", "request_irq", "done", "disable", "force",
           "repeat", "fw_update", "check", "erase", "config", "body", "reset",
           "clear_int", "unstall", "give_back", "enable", "given_up", "frame", "clear",
           "out"}

(* Every variable has its type; the interrupt is disabled at most once.     *)
TypeOK ==
    /\ flash \in [version : AllVersions, whole : BOOLEAN]
    /\ files \in FileSets
    /\ chip \in {"off", "reset", "bios", "starting", "boot_st", "cs_error", "silent", "run"}
    /\ int \in BOOLEAN /\ pending \in BOOLEAN /\ registered \in BOOLEAN
    /\ depth \in {0, 1}
    /\ work_procedure \in {"none", "initialize", "upgrade", "normal"}
    /\ init_ds_flag \in BOOLEAN /\ found_force_bin_file \in BOOLEAN
    /\ boot_flag \in BOOLEAN /\ info_flag \in BOOLEAN /\ checksum_flag \in BOOLEAN
    /\ fw_version \in AllVersions
    /\ scheduled \in {"none", "force", "fw"}
    /\ pc \in [Actors -> Places]
    /\ file \in [Actors -> AllVersions]
    /\ accidents \subseteq {"boot", "blank", "early"}
    /\ crashes \in 0..MaxCrashes /\ faults \in 0..MaxFaults

Older(v, w) == v.display < w.display \/ (v.display = w.display /\ v.hidden <= w.hidden)

(* Firmware that is whole is replaced only by a newer version, but for the  *)
(* file that forces an update, and versions that say factory, zero or never *)
(* written: whoever decides, on a version read before, and after whatever   *)
(* loss of power.  It may be written once more by a handler that could not  *)
(* read the error bits and acts on those that asked for the first time, or  *)
(* that is sent to the update by a bad trim and finds a checksum error that *)
(* the last one, asked for by those bits, has left standing.                *)
NoDowngrade ==
    \A a \in Actors :
        At(a, "erase") /\ flash.whole /\ ~found_force_bin_file /\ "early" \notin accidents
            => \/ ~Older(file[a], flash.version)
               \/ flash.version.display \in {0, Unwritten}
               \/ (flash.version.hidden = Factory) # (file[a].hidden = Factory)
               \/ file[a] = flash.version /\ ("boot" \in accidents \/ info_flag)

(* The flash has one writer, and while it writes the handler does not talk  *)
(* to the controller: by disable_irq(), by the word, or because the handler *)
(* is not there yet.  Only an error bit that probe() acts on while the      *)
(* loader has begun breaks it.                                              *)
OneWriter ==
    \A a, b \in Actors :
        a # b /\ Writing(a) /\ "early" \notin accidents
            => /\ ~Writing(b)
               /\ b = "handler" => At(b, "idle")

(* After the last loss of power the touch comes up, with whole firmware,    *)
(* the word free and the interrupt on, whatever the flash held, whichever   *)
(* step the power was lost at, and though nobody waits for the loads.       *)
Settled ==
    /\ chip = "run" /\ ~int /\ flash.whole
    /\ work_procedure = "none" /\ registered /\ depth = 0
    /\ \A a \in Actors : pc[a] \in {"idle", "done"}

ComesUp == <>[](Settled \/ accidents # {})
=============================================================================
