----------------------- MODULE Ssd20xxVersionProofs -----------------------
(* TLAPS proof that the firmware of the vendor driver's controller is not   *)
(* downgraded, for any firmware files, any flash, and any number of failed  *)
(* transfers and losses of power.                                           *)
EXTENDS Ssd20xxBootProofs

Fresh == "early" \notin accidents

(* A load is due whose decision has not been taken.                         *)
Pending == scheduled # "none" \/ pc["loader"] \in {"disable", "force", "repeat", "check"}

(* Until solomon_pre_init() has ended in probe() nobody else has begun.     *)
StartInv ==
    /\ pc["probe"] \in {"power_on", "process_version", "boot_st", "version", "pre_init_end"}
         => /\ init_ds_flag /\ ~registered /\ ~checksum_flag
            /\ pc["probe"] # "power_on" => work_procedure = "initialize"
    /\ ~registered => pc["handler"] = "idle"
    /\ registered => pc["probe"] = "done"

(* The word becomes free when the loads are over, and the handler only      *)
(* initialises or updates when it was free.                                 *)
FreeInv ==
    /\ work_procedure \in {"none", "normal"} /\ pc["probe"] # "power_on"
         => scheduled = "none" /\ pc["loader"] \in {"idle", "enable"} /\ ~init_ds_flag
    /\ pc["handler"] \notin {"idle", "clear", "out"} => work_procedure = "normal"

(* While the flash is written, or about to be, the controller waits for its *)
(* CPU to be started; a checksum error is that of the flash as it is.       *)
ChipInv == Fresh =>
    /\ pc["probe"] \in {"boot_st", "version", "pre_init_end"} => chip = "bios"
    /\ Pending \/ pc["loader"] \in {"erase", "config", "body", "clear_int", "unstall"}
         => chip = "bios"
    /\ pc["handler"] \in Updating => chip = "bios"
    /\ chip = "cs_error" => ~flash.whole

(* What is written is the driver's own file, or the one that forces.        *)
FileInv ==
    /\ found_force_bin_file => files.force # Absent
    /\ pc["loader"] \in Updating => found_force_bin_file \/ file["loader"] = OwnFile
    /\ pc["handler"] \in Updating => file["handler"] = OwnFile

(* Why whole firmware is about to be replaced: it is older, or it has been  *)
(* written since the error bits, the checksum error or the version were     *)
(* read, and the handler has been sent here by an error that does not tell. *)
Asked == "boot" \in accidents \/ info_flag
Again == Asked /\ flash.version = OwnFile

FlagInv == Fresh /\ flash.whole /\ ~found_force_bin_file =>
    /\ boot_flag \/ checksum_flag => flash.version = OwnFile
    /\ ~init_ds_flag => fw_version = flash.version \/ flash.version = OwnFile
    /\ \A a \in {"probe", "handler"} : pc[a] \in {"version", "pre_init_end"} => ~boot_flag
    /\ pc["probe"] = "pre_init_end" \/ Pending => fw_version = flash.version
    /\ Pending => ~boot_flag /\ ~checksum_flag
    /\ pc["handler"] \in {"checksum", "fw_update", "check"} => Asked
    /\ \A a \in Actors : pc[a] = "erase" =>
         VersionCheck(flash.version, file[a]) \/ (Again /\ file[a] = OwnFile)

VersionInv == StartInv /\ FreeInv /\ ChipInv /\ FileInv /\ FlagInv

-----------------------------------------------------------------------------
(* What more than one actor does.                                           *)
LEMMA CommonVersion ==
    ASSUME BootInv, VersionInv, NEW a \in Actors, Common(a)
    PROVE  VersionInv'
  <1>1. CASE ReadBootSt(a)
    <2>0. /\ pc[a] = "boot_st"
          /\ UNCHANGED <<flash, files, irqVars, work_procedure, found_force_bin_file,
                         checksum_flag, file, init_ds_flag, scheduled, chipVars, fw_version>>
          /\ \/ /\ Go(a, "version") /\ UNCHANGED accidents
                /\ flash.whole => boot_flag' = FALSE
             \/ /\ UNCHANGED <<boot_flag, info_flag>> /\ Record({"boot"})
                /\ \/ BootError /\ Go(a, "checksum")
                   \/ ~BootError /\ a = "probe" /\ Go(a, "failed")
                   \/ ~BootError /\ a # "probe" /\ Go(a, "out")
      <3>1. CASE PreInitFails(a)
        BY <1>1, <3>1
        DEF ReadBootSt, PreInit, PreInitFails, AfterPreInit, At, BootInv, TypeOK
      <3>2. CASE ~PreInitFails(a)
        <4>1. boot_flag' \in IF flash.whole THEN {FALSE}
                             ELSE IF flash.version = NoVersion THEN {TRUE} ELSE BOOLEAN
          BY <1>1, <3>2 DEF ReadBootSt
        <4>2. flash.whole => boot_flag' = FALSE
          BY <4>1
        <4> QED
          BY <1>1, <3>2, <4>2 DEF ReadBootSt, PreInit, At, BootInv, TypeOK, flagVars
      <3> QED
        BY <3>1, <3>2
    <2>1. StartInv' /\ FreeInv'
      BY <2>0, GoFacts, ActorFacts
      DEF BootInv, TypeOK, Progress, LoadInv, HoldInv, ProbeInv, IrqHeld, Updating,
          Ending, VersionInv, StartInv, FreeInv, Places, chipVars, irqVars,
          flagVars, Record
    <2>2. ChipInv'
      BY <2>0, GoFacts, ActorFacts
      DEF BootInv, TypeOK, Progress, LoadInv, HoldInv, ProbeInv, IrqHeld, Updating,
          Ending, VersionInv, StartInv, FreeInv, ChipInv, Fresh, Pending, Places,
          chipVars, irqVars, flagVars, Record
    <2>3. FileInv'
      BY <2>0, GoFacts, ActorFacts
      DEF BootInv, TypeOK, Progress, LoadInv, HoldInv, ProbeInv, IrqHeld, Updating,
          Ending, VersionInv, StartInv, FreeInv, FileInv, OwnFile, Places, chipVars,
          irqVars, flagVars, Record
    <2>4. FlagInv'
      BY <2>0, GoFacts, ActorFacts
      DEF BootInv, TypeOK, Progress, LoadInv, HoldInv, ProbeInv, IrqHeld, Updating,
          Ending, VersionInv, StartInv, FreeInv, ChipInv, FileInv, FlagInv, Fresh,
          Pending, Again, Asked, OwnFile, Places, chipVars, irqVars, flagVars, Record
    <2> QED BY <2>1, <2>2, <2>3, <2>4 DEF VersionInv
  <1>2. CASE VersionBoot(a)
    <2>0. /\ pc[a] = "version"
          /\ UNCHANGED <<flash, files, irqVars, work_procedure, found_force_bin_file,
                         checksum_flag, file, init_ds_flag, scheduled, chipVars, boot_flag,
                         info_flag>>
          /\ \/ /\ Go(a, "pre_init_end") /\ UNCHANGED accidents
                /\ fw_version' = flash.version
             \/ /\ UNCHANGED fw_version /\ Record({"boot"})
                /\ \/ BootError /\ Go(a, "checksum")
                   \/ ~BootError /\ a = "probe" /\ Go(a, "failed")
                   \/ ~BootError /\ a # "probe" /\ Go(a, "out")
      BY <1>2 DEF VersionBoot, PreInit, PreInitFails, AfterPreInit, At, BootInv, TypeOK
    <2>1. StartInv' /\ FreeInv'
      BY <2>0, GoFacts, ActorFacts
      DEF BootInv, TypeOK, Progress, LoadInv, HoldInv, ProbeInv, IrqHeld, Updating,
          Ending, VersionInv, StartInv, FreeInv, Places, chipVars, irqVars,
          flagVars, Record
    <2>2. ChipInv'
      BY <2>0, GoFacts, ActorFacts
      DEF BootInv, TypeOK, Progress, LoadInv, HoldInv, ProbeInv, IrqHeld, Updating,
          Ending, VersionInv, StartInv, FreeInv, ChipInv, Fresh, Pending, Places,
          chipVars, irqVars, flagVars, Record
    <2>3. FileInv'
      BY <2>0, GoFacts, ActorFacts
      DEF BootInv, TypeOK, Progress, LoadInv, HoldInv, ProbeInv, IrqHeld, Updating,
          Ending, VersionInv, StartInv, FreeInv, FileInv, OwnFile, Places, chipVars,
          irqVars, flagVars, Record
    <2>4. FlagInv'
      BY <2>0, GoFacts, ActorFacts
      DEF BootInv, TypeOK, Progress, LoadInv, HoldInv, ProbeInv, IrqHeld, Updating,
          Ending, VersionInv, StartInv, FreeInv, ChipInv, FileInv, FlagInv, Fresh,
          Pending, Again, Asked, OwnFile, Places, chipVars, irqVars, flagVars, Record
    <2> QED BY <2>1, <2>2, <2>3, <2>4 DEF VersionInv
  <1>3. CASE PreInitEnd(a)
    <2>1. StartInv' /\ FreeInv'
      BY <1>3, GoFacts, ActorFacts
      DEF BootInv, TypeOK, Progress, LoadInv, HoldInv, ProbeInv, IrqHeld, Updating,
          Ending, VersionInv, StartInv, FreeInv, Places, PreInitEnd, At, MayFail,
          Record, AfterPreInit, PreInitFails, PreInit, chipVars, irqVars, flagVars,
          countVars
    <2>2. ChipInv'
      BY <1>3, GoFacts, ActorFacts
      DEF BootInv, TypeOK, Progress, LoadInv, HoldInv, ProbeInv, IrqHeld, Updating,
          Ending, VersionInv, StartInv, FreeInv, ChipInv, Fresh, Pending, Places,
          PreInitEnd, At, MayFail, Record, AfterPreInit, PreInitFails, PreInit,
          chipVars, irqVars, flagVars, countVars
    <2>3. FileInv'
      BY <1>3, GoFacts, ActorFacts
      DEF BootInv, TypeOK, Progress, LoadInv, HoldInv, ProbeInv, IrqHeld, Updating,
          Ending, VersionInv, StartInv, FreeInv, FileInv, OwnFile, Places,
          PreInitEnd, At, MayFail, Record, AfterPreInit, PreInitFails, PreInit,
          chipVars, irqVars, flagVars, countVars
    <2>4. FlagInv'
      <3>1. /\ pc[a] = "pre_init_end"
            /\ UNCHANGED <<flash, files, work_procedure, found_force_bin_file, checksum_flag,
                           file, boot_flag, info_flag, fw_version>>
            /\ \/ Record({"boot"}) /\ UNCHANGED <<init_ds_flag, scheduled>>
               \/ /\ UNCHANGED accidents
                  /\ IF init_ds_flag THEN scheduled' = "force" /\ ~init_ds_flag'
                     ELSE UNCHANGED <<init_ds_flag, scheduled>>
            /\ \/ (boot_flag \/ info_flag) /\ Go(a, "checksum")
               \/ \E place \in {"failed", "request_irq", "out"} : Go(a, place)
        <4>1. CASE PreInitFails(a)
          BY <1>3, <4>1
          DEF PreInitEnd, PreInit, PreInitFails, AfterPreInit, BootError, At, BootInv, TypeOK
        <4>2. CASE ~PreInitFails(a)
          BY <1>3, <4>2 DEF PreInitEnd, PreInit, AfterPreInit, BootError, At, BootInv, TypeOK
        <4> QED BY <4>1, <4>2
      <3>2. PICK place \in Places : Go(a, place)
        BY <3>1 DEF Places
      <3>3. /\ pc'[a] \in {"checksum", "failed", "request_irq", "out"}
            /\ \A b \in Actors \ {a} : pc'[b] = pc[b]
            /\ pc'[a] = "checksum" => boot_flag \/ info_flag
        BY <3>1, GoFacts DEF BootInv, TypeOK, Places
      <3> QED
        BY <3>1, <3>3, ActorFacts
        DEF BootInv, TypeOK, Progress, LoadInv, HoldInv, ProbeInv, IrqHeld, Updating, Ending,
            VersionInv, StartInv, FreeInv, FileInv, FlagInv, Fresh, Pending, Again, Asked,
            OwnFile, Places, Record
    <2> QED BY <2>1, <2>2, <2>3, <2>4 DEF VersionInv
  <1>4. CASE Checksum(a)
    <2>1. StartInv' /\ FreeInv'
      BY <1>4, GoFacts, ActorFacts
      DEF BootInv, TypeOK, Progress, LoadInv, HoldInv, ProbeInv, IrqHeld, Updating,
          Ending, VersionInv, StartInv, FreeInv, Places, Checksum, At, When, Record,
          Reset, StartCpu, chipVars, irqVars, flagVars, countVars
    <2>2. ChipInv'
      BY <1>4, GoFacts, ActorFacts
      DEF BootInv, TypeOK, Progress, LoadInv, HoldInv, ProbeInv, IrqHeld, Updating,
          Ending, VersionInv, StartInv, FreeInv, ChipInv, Fresh, Pending, Places,
          Checksum, At, When, Record, Reset, StartCpu, chipVars, irqVars, flagVars,
          countVars
    <2>3. FileInv'
      BY <1>4, GoFacts, ActorFacts
      DEF BootInv, TypeOK, Progress, LoadInv, HoldInv, ProbeInv, IrqHeld, Updating,
          Ending, VersionInv, StartInv, FreeInv, FileInv, OwnFile, Places, Checksum,
          At, When, Record, Reset, StartCpu, chipVars, irqVars, flagVars, countVars
    <2>4. FlagInv'
      BY <1>4, GoFacts, ActorFacts
      DEF BootInv, TypeOK, Progress, LoadInv, HoldInv, ProbeInv, IrqHeld, Updating,
          Ending, VersionInv, StartInv, FreeInv, ChipInv, FileInv, FlagInv, Fresh,
          Pending, Again, Asked, OwnFile, Places, Checksum, At, When, Record, Reset,
          StartCpu, chipVars, irqVars, flagVars, countVars
    <2> QED BY <2>1, <2>2, <2>3, <2>4 DEF VersionInv
  <1>5. CASE FwUpdate(a)
    <2>1. StartInv' /\ FreeInv'
      BY <1>5, GoFacts, ActorFacts
      DEF BootInv, TypeOK, Progress, LoadInv, HoldInv, ProbeInv, IrqHeld, Updating,
          Ending, VersionInv, StartInv, FreeInv, Places, FwUpdate, At, chipVars,
          irqVars, flagVars, countVars
    <2>2. ChipInv'
      BY <1>5, GoFacts, ActorFacts
      DEF BootInv, TypeOK, Progress, LoadInv, HoldInv, ProbeInv, IrqHeld, Updating,
          Ending, VersionInv, StartInv, FreeInv, ChipInv, Fresh, Pending, Places,
          FwUpdate, At, chipVars, irqVars, flagVars, countVars
    <2>3. FileInv'
      BY <1>5, GoFacts, ActorFacts
      DEF BootInv, TypeOK, Progress, LoadInv, HoldInv, ProbeInv, IrqHeld, Updating,
          Ending, VersionInv, StartInv, FreeInv, FileInv, OwnFile, Places, FwUpdate,
          At, chipVars, irqVars, flagVars, countVars
    <2>4. FlagInv'
      BY <1>5, GoFacts, ActorFacts
      DEF BootInv, TypeOK, Progress, LoadInv, HoldInv, ProbeInv, IrqHeld, Updating,
          Ending, VersionInv, StartInv, FreeInv, ChipInv, FileInv, FlagInv, Fresh,
          Pending, Again, Asked, OwnFile, Places, FwUpdate, At, chipVars, irqVars,
          flagVars, countVars
    <2> QED BY <2>1, <2>2, <2>3, <2>4 DEF VersionInv
  <1>6. CASE Check(a)
    <2>1. StartInv' /\ FreeInv'
      BY <1>6, GoFacts, ActorFacts
      DEF BootInv, TypeOK, Progress, LoadInv, HoldInv, ProbeInv, IrqHeld, Updating,
          Ending, VersionInv, StartInv, FreeInv, Places, Check, At, Forced,
          AfterUpdate, chipVars, irqVars, flagVars, countVars
    <2>2. ChipInv'
      BY <1>6, GoFacts, ActorFacts
      DEF BootInv, TypeOK, Progress, LoadInv, HoldInv, ProbeInv, IrqHeld, Updating,
          Ending, VersionInv, StartInv, FreeInv, ChipInv, Fresh, Pending, Places,
          Check, At, Forced, AfterUpdate, chipVars, irqVars, flagVars, countVars
    <2>3. FileInv'
      BY <1>6, GoFacts, ActorFacts
      DEF BootInv, TypeOK, Progress, LoadInv, HoldInv, ProbeInv, IrqHeld, Updating,
          Ending, VersionInv, StartInv, FreeInv, FileInv, OwnFile, Places, Check,
          At, Forced, AfterUpdate, chipVars, irqVars, flagVars, countVars
    <2>4. FlagInv'
      <3>1. /\ pc[a] = "check"
            /\ \/ Go(a, "erase") /\ (Forced \/ VersionCheck(fw_version, file[a]))
               \/ Go(a, AfterUpdate(a))
            /\ UNCHANGED <<flash, files, chipVars, irqVars, work_procedure, init_ds_flag,
                           found_force_bin_file, boot_flag, info_flag, fw_version, scheduled, file,
                           accidents>>
            /\ ~checksum_flag => ~checksum_flag'
        BY <1>6 DEF Check, At, BootInv, TypeOK
      <3>2. Again' = Again /\ Asked' = Asked
        BY <3>1 DEF Again, Asked, OwnFile
      <3>3. /\ \A b \in Actors \ {a} : pc'[b] = pc[b]
            /\ pc'[a] \in {"erase", "clear_int", "reset"}
            /\ pc'[a] = "erase" => Forced \/ VersionCheck(fw_version, file[a])
        BY <3>1, GoFacts, ActorFacts DEF AfterUpdate, BootInv, TypeOK, Places
      <3> SUFFICES ASSUME Fresh, flash.whole, ~found_force_bin_file PROVE FlagInv'
        BY <3>1 DEF FlagInv, Fresh
      <3>4. FlagInv!2
        BY DEF VersionInv, FlagInv
      <3>5. pc'[a] = "erase" =>
              VersionCheck(flash.version, file[a]) \/ (Again /\ file[a] = OwnFile)
        <4>1. CASE a = "loader"
          BY <3>1, <3>3, <3>4, <4>1 DEF Pending, Forced
        <4>2. CASE a = "handler"
          <5>1. Asked /\ file[a] = OwnFile /\ ~init_ds_flag
            <6>1. pc["handler"] = "check" /\ work_procedure = "normal"
              BY <3>1, <4>2 DEF VersionInv, FreeInv
            <6>2. pc["probe"] = "done"
              BY <6>1 DEF VersionInv, StartInv
            <6>3. ~init_ds_flag
              BY <6>1, <6>2 DEF VersionInv, FreeInv
            <6>4. Asked
              BY <3>4, <6>1
            <6>5. file[a] = OwnFile
              BY <4>2, <6>1 DEF VersionInv, FileInv, Updating
            <6> QED
              BY <6>3, <6>4, <6>5
          <5>2. boot_flag \/ checksum_flag => Again
            BY <3>4, <5>1 DEF Again
          <5>3. fw_version = flash.version \/ Again
            BY <3>4, <5>1 DEF Again
          <5> QED
            BY <3>3, <5>1, <5>2, <5>3 DEF Forced
        <4>3. CASE a = "probe"
          BY <3>1, <4>3 DEF Fresh, BootInv, Progress, ProbeInv, HoldInv, Updating, Ending
        <4> QED
          BY <4>1, <4>2, <4>3, ActorFacts
      <3> QED
        BY <3>1, <3>2, <3>3, <3>4, <3>5, ActorFacts DEF FlagInv, Fresh, Pending, OwnFile
    <2> QED BY <2>1, <2>2, <2>3, <2>4 DEF VersionInv
  <1>7. CASE EraseFlash(a)
    <2>1. StartInv' /\ FreeInv'
      BY <1>7, GoFacts, ActorFacts
      DEF BootInv, TypeOK, Progress, LoadInv, HoldInv, ProbeInv, IrqHeld, Updating,
          Ending, VersionInv, StartInv, FreeInv, Places, EraseFlash, At, MayFail,
          AfterUpdate, Stage, Begun, chipVars, irqVars, flagVars, countVars
    <2>2. ChipInv'
      BY <1>7, GoFacts, ActorFacts
      DEF BootInv, TypeOK, Progress, LoadInv, HoldInv, ProbeInv, IrqHeld, Updating,
          Ending, VersionInv, StartInv, FreeInv, ChipInv, Fresh, Pending, Places,
          EraseFlash, At, MayFail, AfterUpdate, Stage, Begun, chipVars, irqVars,
          flagVars, countVars
    <2>3. FileInv'
      BY <1>7, GoFacts, ActorFacts
      DEF BootInv, TypeOK, Progress, LoadInv, HoldInv, ProbeInv, IrqHeld, Updating,
          Ending, VersionInv, StartInv, FreeInv, FileInv, OwnFile, Places,
          EraseFlash, At, MayFail, AfterUpdate, Stage, Begun, chipVars, irqVars,
          flagVars, countVars
    <2>4. FlagInv'
      BY <1>7, GoFacts, ActorFacts
      DEF BootInv, TypeOK, Progress, LoadInv, HoldInv, ProbeInv, IrqHeld, Updating,
          Ending, VersionInv, StartInv, FreeInv, ChipInv, FileInv, FlagInv, Fresh,
          Pending, Again, Asked, OwnFile, Places, EraseFlash, At, MayFail, AfterUpdate,
          Stage, Begun, chipVars, irqVars, flagVars, countVars
    <2> QED BY <2>1, <2>2, <2>3, <2>4 DEF VersionInv
  <1>8. CASE WriteConfig(a)
    <2>1. StartInv' /\ FreeInv'
      BY <1>8, GoFacts, ActorFacts
      DEF BootInv, TypeOK, Progress, LoadInv, HoldInv, ProbeInv, IrqHeld, Updating,
          Ending, VersionInv, StartInv, FreeInv, Places, WriteConfig, At, MayFail,
          AfterUpdate, Stage, Begun, chipVars, irqVars, flagVars, countVars
    <2>2. ChipInv'
      BY <1>8, GoFacts, ActorFacts
      DEF BootInv, TypeOK, Progress, LoadInv, HoldInv, ProbeInv, IrqHeld, Updating,
          Ending, VersionInv, StartInv, FreeInv, ChipInv, Fresh, Pending, Places,
          WriteConfig, At, MayFail, AfterUpdate, Stage, Begun, chipVars, irqVars,
          flagVars, countVars
    <2>3. FileInv'
      BY <1>8, GoFacts, ActorFacts
      DEF BootInv, TypeOK, Progress, LoadInv, HoldInv, ProbeInv, IrqHeld, Updating,
          Ending, VersionInv, StartInv, FreeInv, FileInv, OwnFile, Places,
          WriteConfig, At, MayFail, AfterUpdate, Stage, Begun, chipVars, irqVars,
          flagVars, countVars
    <2>4. FlagInv'
      BY <1>8, GoFacts, ActorFacts
      DEF BootInv, TypeOK, Progress, LoadInv, HoldInv, ProbeInv, IrqHeld, Updating,
          Ending, VersionInv, StartInv, FreeInv, ChipInv, FileInv, FlagInv, Fresh,
          Pending, Again, Asked, OwnFile, Places, WriteConfig, At, MayFail, AfterUpdate,
          Stage, Begun, chipVars, irqVars, flagVars, countVars
    <2> QED BY <2>1, <2>2, <2>3, <2>4 DEF VersionInv
  <1>9. CASE WriteBody(a)
    <2>1. StartInv' /\ FreeInv'
      BY <1>9, GoFacts, ActorFacts
      DEF BootInv, TypeOK, Progress, LoadInv, HoldInv, ProbeInv, IrqHeld, Updating,
          Ending, VersionInv, StartInv, FreeInv, Places, WriteBody, At, MayFail,
          AfterUpdate, Stage, Begun, chipVars, irqVars, flagVars, countVars
    <2>2. ChipInv'
      BY <1>9, GoFacts, ActorFacts
      DEF BootInv, TypeOK, Progress, LoadInv, HoldInv, ProbeInv, IrqHeld, Updating,
          Ending, VersionInv, StartInv, FreeInv, ChipInv, Fresh, Pending, Places,
          WriteBody, At, MayFail, AfterUpdate, Stage, Begun, chipVars, irqVars,
          flagVars, countVars
    <2>3. FileInv'
      BY <1>9, GoFacts, ActorFacts
      DEF BootInv, TypeOK, Progress, LoadInv, HoldInv, ProbeInv, IrqHeld, Updating,
          Ending, VersionInv, StartInv, FreeInv, FileInv, OwnFile, Places,
          WriteBody, At, MayFail, AfterUpdate, Stage, Begun, chipVars, irqVars,
          flagVars, countVars
    <2>4. FlagInv'
      BY <1>9, GoFacts, ActorFacts
      DEF BootInv, TypeOK, Progress, LoadInv, HoldInv, ProbeInv, IrqHeld, Updating,
          Ending, VersionInv, StartInv, FreeInv, ChipInv, FileInv, FlagInv, Fresh,
          Pending, Again, Asked, OwnFile, Places, WriteBody, At, MayFail, AfterUpdate,
          Stage, Begun, chipVars, irqVars, flagVars, countVars
    <2> QED BY <2>1, <2>2, <2>3, <2>4 DEF VersionInv
  <1>10. CASE ResetAfter(a)
    <2>1. StartInv' /\ FreeInv'
      BY <1>10, GoFacts, ActorFacts
      DEF BootInv, TypeOK, Progress, LoadInv, HoldInv, ProbeInv, IrqHeld, Updating,
          Ending, VersionInv, StartInv, FreeInv, Places, ResetAfter, At, Reset,
          StartCpu, chipVars, irqVars, flagVars, countVars
    <2>2. ChipInv'
      BY <1>10, GoFacts, ActorFacts
      DEF BootInv, TypeOK, Progress, LoadInv, HoldInv, ProbeInv, IrqHeld, Updating,
          Ending, VersionInv, StartInv, FreeInv, ChipInv, Fresh, Pending, Places,
          ResetAfter, At, Reset, StartCpu, chipVars, irqVars, flagVars, countVars
    <2>3. FileInv'
      BY <1>10, GoFacts, ActorFacts
      DEF BootInv, TypeOK, Progress, LoadInv, HoldInv, ProbeInv, IrqHeld, Updating,
          Ending, VersionInv, StartInv, FreeInv, FileInv, OwnFile, Places,
          ResetAfter, At, Reset, StartCpu, chipVars, irqVars, flagVars, countVars
    <2>4. FlagInv'
      BY <1>10, GoFacts, ActorFacts
      DEF BootInv, TypeOK, Progress, LoadInv, HoldInv, ProbeInv, IrqHeld, Updating,
          Ending, VersionInv, StartInv, FreeInv, ChipInv, FileInv, FlagInv, Fresh,
          Pending, Again, Asked, OwnFile, Places, ResetAfter, At, Reset, StartCpu,
          chipVars, irqVars, flagVars, countVars
    <2> QED BY <2>1, <2>2, <2>3, <2>4 DEF VersionInv
  <1> QED
    BY <1>1, <1>2, <1>3, <1>4, <1>5, <1>6, <1>7, <1>8, <1>9, <1>10 DEF Common

(* The loader.                                                              *)
LEMMA LoaderVersion ==
    ASSUME BootInv, VersionInv, Loader
    PROVE  VersionInv'
  <1>1. CASE LoaderStart
    <2>1. StartInv' /\ FreeInv'
      BY <1>1, GoFacts, ActorFacts
      DEF BootInv, TypeOK, Progress, LoadInv, HoldInv, ProbeInv, IrqHeld, Updating,
          Ending, VersionInv, StartInv, FreeInv, Places, LoaderStart, At, chipVars,
          irqVars, flagVars, countVars
    <2>2. ChipInv'
      BY <1>1, GoFacts, ActorFacts
      DEF BootInv, TypeOK, Progress, LoadInv, HoldInv, ProbeInv, IrqHeld, Updating,
          Ending, VersionInv, StartInv, FreeInv, ChipInv, Fresh, Pending, Places,
          LoaderStart, At, chipVars, irqVars, flagVars, countVars
    <2>3. FileInv'
      BY <1>1, GoFacts, ActorFacts
      DEF BootInv, TypeOK, Progress, LoadInv, HoldInv, ProbeInv, IrqHeld, Updating,
          Ending, VersionInv, StartInv, FreeInv, FileInv, OwnFile, Places,
          LoaderStart, At, chipVars, irqVars, flagVars, countVars
    <2>4. FlagInv'
      BY <1>1, GoFacts, ActorFacts
      DEF BootInv, TypeOK, Progress, LoadInv, HoldInv, ProbeInv, IrqHeld, Updating,
          Ending, VersionInv, StartInv, FreeInv, ChipInv, FileInv, FlagInv, Fresh,
          Pending, Again, Asked, OwnFile, Places, LoaderStart, At, chipVars, irqVars,
          flagVars, countVars
    <2> QED BY <2>1, <2>2, <2>3, <2>4 DEF VersionInv
  <1>2. CASE LoaderDisable
    <2>1. StartInv' /\ FreeInv'
      BY <1>2, GoFacts, ActorFacts
      DEF BootInv, TypeOK, Progress, LoadInv, HoldInv, ProbeInv, IrqHeld, Updating,
          Ending, VersionInv, StartInv, FreeInv, Places, LoaderDisable, At,
          chipVars, irqVars, flagVars, countVars
    <2>2. ChipInv'
      BY <1>2, GoFacts, ActorFacts
      DEF BootInv, TypeOK, Progress, LoadInv, HoldInv, ProbeInv, IrqHeld, Updating,
          Ending, VersionInv, StartInv, FreeInv, ChipInv, Fresh, Pending, Places,
          LoaderDisable, At, chipVars, irqVars, flagVars, countVars
    <2>3. FileInv'
      BY <1>2, GoFacts, ActorFacts
      DEF BootInv, TypeOK, Progress, LoadInv, HoldInv, ProbeInv, IrqHeld, Updating,
          Ending, VersionInv, StartInv, FreeInv, FileInv, OwnFile, Places,
          LoaderDisable, At, chipVars, irqVars, flagVars, countVars
    <2>4. FlagInv'
      BY <1>2, GoFacts, ActorFacts
      DEF BootInv, TypeOK, Progress, LoadInv, HoldInv, ProbeInv, IrqHeld, Updating,
          Ending, VersionInv, StartInv, FreeInv, ChipInv, FileInv, FlagInv, Fresh,
          Pending, Again, Asked, OwnFile, Places, LoaderDisable, At, chipVars, irqVars,
          flagVars, countVars
    <2> QED BY <2>1, <2>2, <2>3, <2>4 DEF VersionInv
  <1>3. CASE LoaderForce
    <2>1. StartInv' /\ FreeInv'
      BY <1>3, GoFacts, ActorFacts
      DEF BootInv, TypeOK, Progress, LoadInv, HoldInv, ProbeInv, IrqHeld, Updating,
          Ending, VersionInv, StartInv, FreeInv, Places, LoaderForce, At, chipVars,
          irqVars, flagVars, countVars
    <2>2. ChipInv'
      BY <1>3, GoFacts, ActorFacts
      DEF BootInv, TypeOK, Progress, LoadInv, HoldInv, ProbeInv, IrqHeld, Updating,
          Ending, VersionInv, StartInv, FreeInv, ChipInv, Fresh, Pending, Places,
          LoaderForce, At, chipVars, irqVars, flagVars, countVars
    <2>3. FileInv'
      BY <1>3, GoFacts, ActorFacts
      DEF BootInv, TypeOK, Progress, LoadInv, HoldInv, ProbeInv, IrqHeld, Updating,
          Ending, VersionInv, StartInv, FreeInv, FileInv, OwnFile, Places,
          LoaderForce, At, chipVars, irqVars, flagVars, countVars
    <2>4. FlagInv'
      BY <1>3, GoFacts, ActorFacts
      DEF BootInv, TypeOK, Progress, LoadInv, HoldInv, ProbeInv, IrqHeld, Updating,
          Ending, VersionInv, StartInv, FreeInv, ChipInv, FileInv, FlagInv, Fresh,
          Pending, Again, Asked, OwnFile, Places, LoaderForce, At, chipVars, irqVars,
          flagVars, countVars
    <2> QED BY <2>1, <2>2, <2>3, <2>4 DEF VersionInv
  <1>4. CASE LoaderRepeat
    <2>1. StartInv' /\ FreeInv'
      BY <1>4, GoFacts, ActorFacts
      DEF BootInv, TypeOK, Progress, LoadInv, HoldInv, ProbeInv, IrqHeld, Updating,
          Ending, VersionInv, StartInv, FreeInv, Places, LoaderRepeat, At, chipVars,
          irqVars, flagVars, countVars
    <2>2. ChipInv'
      BY <1>4, GoFacts, ActorFacts
      DEF BootInv, TypeOK, Progress, LoadInv, HoldInv, ProbeInv, IrqHeld, Updating,
          Ending, VersionInv, StartInv, FreeInv, ChipInv, Fresh, Pending, Places,
          LoaderRepeat, At, chipVars, irqVars, flagVars, countVars
    <2>3. FileInv'
      BY <1>4, GoFacts, ActorFacts
      DEF BootInv, TypeOK, Progress, LoadInv, HoldInv, ProbeInv, IrqHeld, Updating,
          Ending, VersionInv, StartInv, FreeInv, FileInv, OwnFile, Places,
          LoaderRepeat, At, chipVars, irqVars, flagVars, countVars
    <2>4. FlagInv'
      <3>1. /\ pc["loader"] = "repeat"
            /\ UNCHANGED <<flash, files, flagVars, work_procedure, accidents>>
            /\ \A b \in {"probe", "handler"} : file'[b] = file[b]
        BY <1>4 DEF LoaderRepeat, At, BootInv, TypeOK
      <3>2. pc'["loader"] = "check" /\ pc'["probe"] = pc["probe"]
              /\ pc'["handler"] = pc["handler"]
        BY <1>4, GoFacts, ActorFacts DEF LoaderRepeat, BootInv, TypeOK, Places
      <3> QED
        BY <3>1, <3>2, ActorFacts
        DEF VersionInv, FlagInv, Fresh, Pending, Again, Asked, OwnFile, flagVars
    <2> QED BY <2>1, <2>2, <2>3, <2>4 DEF VersionInv
  <1>5. CASE LoaderClearInt
    <2>1. StartInv' /\ FreeInv'
      BY <1>5, GoFacts, ActorFacts
      DEF BootInv, TypeOK, Progress, LoadInv, HoldInv, ProbeInv, IrqHeld, Updating,
          Ending, VersionInv, StartInv, FreeInv, Places, LoaderClearInt, At,
          MayFail, Record, chipVars, irqVars, flagVars, countVars
    <2>2. ChipInv'
      BY <1>5, GoFacts, ActorFacts
      DEF BootInv, TypeOK, Progress, LoadInv, HoldInv, ProbeInv, IrqHeld, Updating,
          Ending, VersionInv, StartInv, FreeInv, ChipInv, Fresh, Pending, Places,
          LoaderClearInt, At, MayFail, Record, chipVars, irqVars, flagVars,
          countVars
    <2>3. FileInv'
      BY <1>5, GoFacts, ActorFacts
      DEF BootInv, TypeOK, Progress, LoadInv, HoldInv, ProbeInv, IrqHeld, Updating,
          Ending, VersionInv, StartInv, FreeInv, FileInv, OwnFile, Places,
          LoaderClearInt, At, MayFail, Record, chipVars, irqVars, flagVars,
          countVars
    <2>4. FlagInv'
      BY <1>5, GoFacts, ActorFacts
      DEF BootInv, TypeOK, Progress, LoadInv, HoldInv, ProbeInv, IrqHeld, Updating,
          Ending, VersionInv, StartInv, FreeInv, ChipInv, FileInv, FlagInv, Fresh,
          Pending, Again, Asked, OwnFile, Places, LoaderClearInt, At, MayFail, Record,
          chipVars, irqVars, flagVars, countVars
    <2> QED BY <2>1, <2>2, <2>3, <2>4 DEF VersionInv
  <1>6. CASE LoaderUnstall
    <2>1. StartInv' /\ FreeInv'
      BY <1>6, GoFacts, ActorFacts
      DEF BootInv, TypeOK, Progress, LoadInv, HoldInv, ProbeInv, IrqHeld, Updating,
          Ending, VersionInv, StartInv, FreeInv, Places, LoaderUnstall, At, MayFail,
          Record, StartCpu, chipVars, irqVars, flagVars, countVars
    <2>2. ChipInv'
      BY <1>6, GoFacts, ActorFacts
      DEF BootInv, TypeOK, Progress, LoadInv, HoldInv, ProbeInv, IrqHeld, Updating,
          Ending, VersionInv, StartInv, FreeInv, ChipInv, Fresh, Pending, Places,
          LoaderUnstall, At, MayFail, Record, StartCpu, chipVars, irqVars, flagVars,
          countVars
    <2>3. FileInv'
      BY <1>6, GoFacts, ActorFacts
      DEF BootInv, TypeOK, Progress, LoadInv, HoldInv, ProbeInv, IrqHeld, Updating,
          Ending, VersionInv, StartInv, FreeInv, FileInv, OwnFile, Places,
          LoaderUnstall, At, MayFail, Record, StartCpu, chipVars, irqVars, flagVars,
          countVars
    <2>4. FlagInv'
      BY <1>6, GoFacts, ActorFacts
      DEF BootInv, TypeOK, Progress, LoadInv, HoldInv, ProbeInv, IrqHeld, Updating,
          Ending, VersionInv, StartInv, FreeInv, ChipInv, FileInv, FlagInv, Fresh,
          Pending, Again, Asked, OwnFile, Places, LoaderUnstall, At, MayFail, Record,
          StartCpu, chipVars, irqVars, flagVars, countVars
    <2> QED BY <2>1, <2>2, <2>3, <2>4 DEF VersionInv
  <1>7. CASE LoaderGiveBack
    <2>1. StartInv' /\ FreeInv'
      BY <1>7, GoFacts, ActorFacts
      DEF BootInv, TypeOK, Progress, LoadInv, HoldInv, ProbeInv, IrqHeld, Updating,
          Ending, VersionInv, StartInv, FreeInv, Places, LoaderGiveBack, At,
          chipVars, irqVars, flagVars, countVars
    <2>2. ChipInv'
      BY <1>7, GoFacts, ActorFacts
      DEF BootInv, TypeOK, Progress, LoadInv, HoldInv, ProbeInv, IrqHeld, Updating,
          Ending, VersionInv, StartInv, FreeInv, ChipInv, Fresh, Pending, Places,
          LoaderGiveBack, At, chipVars, irqVars, flagVars, countVars
    <2>3. FileInv'
      BY <1>7, GoFacts, ActorFacts
      DEF BootInv, TypeOK, Progress, LoadInv, HoldInv, ProbeInv, IrqHeld, Updating,
          Ending, VersionInv, StartInv, FreeInv, FileInv, OwnFile, Places,
          LoaderGiveBack, At, chipVars, irqVars, flagVars, countVars
    <2>4. FlagInv'
      BY <1>7, GoFacts, ActorFacts
      DEF BootInv, TypeOK, Progress, LoadInv, HoldInv, ProbeInv, IrqHeld, Updating,
          Ending, VersionInv, StartInv, FreeInv, ChipInv, FileInv, FlagInv, Fresh,
          Pending, Again, Asked, OwnFile, Places, LoaderGiveBack, At, chipVars, irqVars,
          flagVars, countVars
    <2> QED BY <2>1, <2>2, <2>3, <2>4 DEF VersionInv
  <1>8. CASE LoaderEnable
    <2>1. StartInv' /\ FreeInv'
      BY <1>8, GoFacts, ActorFacts
      DEF BootInv, TypeOK, Progress, LoadInv, HoldInv, ProbeInv, IrqHeld, Updating,
          Ending, VersionInv, StartInv, FreeInv, Places, LoaderEnable, At, chipVars,
          irqVars, flagVars, countVars
    <2>2. ChipInv'
      BY <1>8, GoFacts, ActorFacts
      DEF BootInv, TypeOK, Progress, LoadInv, HoldInv, ProbeInv, IrqHeld, Updating,
          Ending, VersionInv, StartInv, FreeInv, ChipInv, Fresh, Pending, Places,
          LoaderEnable, At, chipVars, irqVars, flagVars, countVars
    <2>3. FileInv'
      BY <1>8, GoFacts, ActorFacts
      DEF BootInv, TypeOK, Progress, LoadInv, HoldInv, ProbeInv, IrqHeld, Updating,
          Ending, VersionInv, StartInv, FreeInv, FileInv, OwnFile, Places,
          LoaderEnable, At, chipVars, irqVars, flagVars, countVars
    <2>4. FlagInv'
      BY <1>8, GoFacts, ActorFacts
      DEF BootInv, TypeOK, Progress, LoadInv, HoldInv, ProbeInv, IrqHeld, Updating,
          Ending, VersionInv, StartInv, FreeInv, ChipInv, FileInv, FlagInv, Fresh,
          Pending, Again, Asked, OwnFile, Places, LoaderEnable, At, chipVars, irqVars,
          flagVars, countVars
    <2> QED BY <2>1, <2>2, <2>3, <2>4 DEF VersionInv
  <1>9. CASE Common("loader")
    BY <1>9, CommonVersion, ActorFacts
  <1> QED
    BY <1>1, <1>2, <1>3, <1>4, <1>5, <1>6, <1>7, <1>8, <1>9 DEF Loader

(* The handler.                                                             *)
LEMMA HandlerVersion ==
    ASSUME BootInv, VersionInv, Handler
    PROVE  VersionInv'
  <1>1. CASE HandlerStart
    <2>0. /\ pc["handler"] = "idle" /\ registered /\ depth = 0
          /\ \/ UNCHANGED pc
             \/ Go("handler", "frame") /\ work_procedure' = "normal"
             \/ Go("handler", "clear")
          /\ \/ work_procedure' = work_procedure
             \/ work_procedure = "none" /\ work_procedure' = "normal"
          /\ UNCHANGED <<flash, files, chip, irqVars, flagVars, scheduled, file>>
          /\ "early" \in accidents => "early" \in accidents'
          /\ "boot" \in accidents => "boot" \in accidents'
      BY <1>1 DEF HandlerStart, At, Record, BootInv, TypeOK
    <2>1. StartInv' /\ FreeInv'
      BY <2>0, GoFacts, ActorFacts
      DEF BootInv, TypeOK, Progress, LoadInv, HoldInv, ProbeInv, IrqHeld, Updating,
          Ending, VersionInv, StartInv, FreeInv, Places, chipVars, irqVars,
          flagVars, Record
    <2>2. ChipInv'
      BY <2>0, GoFacts, ActorFacts
      DEF BootInv, TypeOK, Progress, LoadInv, HoldInv, ProbeInv, IrqHeld, Updating,
          Ending, VersionInv, StartInv, FreeInv, ChipInv, Fresh, Pending, Places,
          chipVars, irqVars, flagVars, Record
    <2>3. FileInv'
      BY <2>0, GoFacts, ActorFacts
      DEF BootInv, TypeOK, Progress, LoadInv, HoldInv, ProbeInv, IrqHeld, Updating,
          Ending, VersionInv, StartInv, FreeInv, FileInv, OwnFile, Places, chipVars,
          irqVars, flagVars, Record
    <2>4. FlagInv'
      BY <2>0, GoFacts, ActorFacts
      DEF BootInv, TypeOK, Progress, LoadInv, HoldInv, ProbeInv, IrqHeld, Updating,
          Ending, VersionInv, StartInv, FreeInv, ChipInv, FileInv, FlagInv, Fresh,
          Pending, Again, Asked, OwnFile, Places, chipVars, irqVars, flagVars, Record
    <2> QED BY <2>1, <2>2, <2>3, <2>4 DEF VersionInv
  <1>2. CASE HandlerFrame
    <2>1. StartInv' /\ FreeInv'
      BY <1>2, GoFacts, ActorFacts
      DEF BootInv, TypeOK, Progress, LoadInv, HoldInv, ProbeInv, IrqHeld, Updating,
          Ending, VersionInv, StartInv, FreeInv, Places, HandlerFrame, At, chipVars,
          irqVars, flagVars, countVars
    <2>2. ChipInv'
      BY <1>2, GoFacts, ActorFacts
      DEF BootInv, TypeOK, Progress, LoadInv, HoldInv, ProbeInv, IrqHeld, Updating,
          Ending, VersionInv, StartInv, FreeInv, ChipInv, Fresh, Pending, Places,
          HandlerFrame, At, chipVars, irqVars, flagVars, countVars
    <2>3. FileInv'
      BY <1>2, GoFacts, ActorFacts
      DEF BootInv, TypeOK, Progress, LoadInv, HoldInv, ProbeInv, IrqHeld, Updating,
          Ending, VersionInv, StartInv, FreeInv, FileInv, OwnFile, Places,
          HandlerFrame, At, chipVars, irqVars, flagVars, countVars
    <2>4. FlagInv'
      BY <1>2, GoFacts, ActorFacts
      DEF BootInv, TypeOK, Progress, LoadInv, HoldInv, ProbeInv, IrqHeld, Updating,
          Ending, VersionInv, StartInv, FreeInv, ChipInv, FileInv, FlagInv, Fresh,
          Pending, Again, Asked, OwnFile, Places, HandlerFrame, At, chipVars, irqVars,
          flagVars, countVars
    <2> QED BY <2>1, <2>2, <2>3, <2>4 DEF VersionInv
  <1>3. CASE HandlerClear
    <2>1. StartInv' /\ FreeInv'
      BY <1>3, GoFacts, ActorFacts
      DEF BootInv, TypeOK, Progress, LoadInv, HoldInv, ProbeInv, IrqHeld, Updating,
          Ending, VersionInv, StartInv, FreeInv, Places, HandlerClear, At, MayFail,
          When, Record, chipVars, irqVars, flagVars, countVars
    <2>2. ChipInv'
      BY <1>3, GoFacts, ActorFacts
      DEF BootInv, TypeOK, Progress, LoadInv, HoldInv, ProbeInv, IrqHeld, Updating,
          Ending, VersionInv, StartInv, FreeInv, ChipInv, Fresh, Pending, Places,
          HandlerClear, At, MayFail, When, Record, chipVars, irqVars, flagVars,
          countVars
    <2>3. FileInv'
      BY <1>3, GoFacts, ActorFacts
      DEF BootInv, TypeOK, Progress, LoadInv, HoldInv, ProbeInv, IrqHeld, Updating,
          Ending, VersionInv, StartInv, FreeInv, FileInv, OwnFile, Places,
          HandlerClear, At, MayFail, When, Record, chipVars, irqVars, flagVars,
          countVars
    <2>4. FlagInv'
      BY <1>3, GoFacts, ActorFacts
      DEF BootInv, TypeOK, Progress, LoadInv, HoldInv, ProbeInv, IrqHeld, Updating,
          Ending, VersionInv, StartInv, FreeInv, ChipInv, FileInv, FlagInv, Fresh,
          Pending, Again, Asked, OwnFile, Places, HandlerClear, At, MayFail, When, Record,
          chipVars, irqVars, flagVars, countVars
    <2> QED BY <2>1, <2>2, <2>3, <2>4 DEF VersionInv
  <1>4. CASE HandlerOut
    <2>1. StartInv' /\ FreeInv'
      BY <1>4, GoFacts, ActorFacts
      DEF BootInv, TypeOK, Progress, LoadInv, HoldInv, ProbeInv, IrqHeld, Updating,
          Ending, VersionInv, StartInv, FreeInv, Places, HandlerOut, At, chipVars,
          irqVars, flagVars, countVars
    <2>2. ChipInv'
      BY <1>4, GoFacts, ActorFacts
      DEF BootInv, TypeOK, Progress, LoadInv, HoldInv, ProbeInv, IrqHeld, Updating,
          Ending, VersionInv, StartInv, FreeInv, ChipInv, Fresh, Pending, Places,
          HandlerOut, At, chipVars, irqVars, flagVars, countVars
    <2>3. FileInv'
      BY <1>4, GoFacts, ActorFacts
      DEF BootInv, TypeOK, Progress, LoadInv, HoldInv, ProbeInv, IrqHeld, Updating,
          Ending, VersionInv, StartInv, FreeInv, FileInv, OwnFile, Places,
          HandlerOut, At, chipVars, irqVars, flagVars, countVars
    <2>4. FlagInv'
      BY <1>4, GoFacts, ActorFacts
      DEF BootInv, TypeOK, Progress, LoadInv, HoldInv, ProbeInv, IrqHeld, Updating,
          Ending, VersionInv, StartInv, FreeInv, ChipInv, FileInv, FlagInv, Fresh,
          Pending, Again, Asked, OwnFile, Places, HandlerOut, At, chipVars, irqVars,
          flagVars, countVars
    <2> QED BY <2>1, <2>2, <2>3, <2>4 DEF VersionInv
  <1>5. CASE Common("handler")
    BY <1>5, CommonVersion, ActorFacts
  <1> QED
    BY <1>1, <1>2, <1>3, <1>4, <1>5 DEF Handler

(* probe().                                                                 *)
LEMMA ProbeVersion ==
    ASSUME BootInv, VersionInv, Probe
    PROVE  VersionInv'
  <1>1. CASE PowerOn
    <2>1. StartInv' /\ FreeInv'
      BY <1>1, GoFacts, ActorFacts
      DEF BootInv, TypeOK, Progress, LoadInv, HoldInv, ProbeInv, IrqHeld, Updating,
          Ending, VersionInv, StartInv, FreeInv, Places, PowerOn, At, Reset,
          StartCpu, chipVars, irqVars, flagVars, countVars
    <2>2. ChipInv'
      BY <1>1, GoFacts, ActorFacts
      DEF BootInv, TypeOK, Progress, LoadInv, HoldInv, ProbeInv, IrqHeld, Updating,
          Ending, VersionInv, StartInv, FreeInv, ChipInv, Fresh, Pending, Places,
          PowerOn, At, Reset, StartCpu, chipVars, irqVars, flagVars, countVars
    <2>3. FileInv'
      BY <1>1, GoFacts, ActorFacts
      DEF BootInv, TypeOK, Progress, LoadInv, HoldInv, ProbeInv, IrqHeld, Updating,
          Ending, VersionInv, StartInv, FreeInv, FileInv, OwnFile, Places, PowerOn,
          At, Reset, StartCpu, chipVars, irqVars, flagVars, countVars
    <2>4. FlagInv'
      BY <1>1, GoFacts, ActorFacts
      DEF BootInv, TypeOK, Progress, LoadInv, HoldInv, ProbeInv, IrqHeld, Updating,
          Ending, VersionInv, StartInv, FreeInv, ChipInv, FileInv, FlagInv, Fresh,
          Pending, Again, Asked, OwnFile, Places, PowerOn, At, Reset, StartCpu, chipVars,
          irqVars, flagVars, countVars
    <2> QED BY <2>1, <2>2, <2>3, <2>4 DEF VersionInv
  <1>2. CASE ProcessVersion
    <2>1. StartInv' /\ FreeInv'
      BY <1>2, GoFacts, ActorFacts
      DEF BootInv, TypeOK, Progress, LoadInv, HoldInv, ProbeInv, IrqHeld, Updating,
          Ending, VersionInv, StartInv, FreeInv, Places, ProcessVersion, At,
          MayFail, When, Record, chipVars, irqVars, flagVars, countVars
    <2>2. ChipInv'
      BY <1>2, GoFacts, ActorFacts
      DEF BootInv, TypeOK, Progress, LoadInv, HoldInv, ProbeInv, IrqHeld, Updating,
          Ending, VersionInv, StartInv, FreeInv, ChipInv, Fresh, Pending, Places,
          ProcessVersion, At, MayFail, When, Record, chipVars, irqVars, flagVars,
          countVars
    <2>3. FileInv'
      BY <1>2, GoFacts, ActorFacts
      DEF BootInv, TypeOK, Progress, LoadInv, HoldInv, ProbeInv, IrqHeld, Updating,
          Ending, VersionInv, StartInv, FreeInv, FileInv, OwnFile, Places,
          ProcessVersion, At, MayFail, When, Record, chipVars, irqVars, flagVars,
          countVars
    <2>4. FlagInv'
      BY <1>2, GoFacts, ActorFacts
      DEF BootInv, TypeOK, Progress, LoadInv, HoldInv, ProbeInv, IrqHeld, Updating,
          Ending, VersionInv, StartInv, FreeInv, ChipInv, FileInv, FlagInv, Fresh,
          Pending, Again, Asked, OwnFile, Places, ProcessVersion, At, MayFail, When,
          Record, chipVars, irqVars, flagVars, countVars
    <2> QED BY <2>1, <2>2, <2>3, <2>4 DEF VersionInv
  <1>3. CASE RequestIrq
    <2>1. StartInv' /\ FreeInv'
      BY <1>3, GoFacts, ActorFacts
      DEF BootInv, TypeOK, Progress, LoadInv, HoldInv, ProbeInv, IrqHeld, Updating,
          Ending, VersionInv, StartInv, FreeInv, Places, RequestIrq, At, When,
          Record, chipVars, irqVars, flagVars, countVars
    <2>2. ChipInv'
      BY <1>3, GoFacts, ActorFacts
      DEF BootInv, TypeOK, Progress, LoadInv, HoldInv, ProbeInv, IrqHeld, Updating,
          Ending, VersionInv, StartInv, FreeInv, ChipInv, Fresh, Pending, Places,
          RequestIrq, At, When, Record, chipVars, irqVars, flagVars, countVars
    <2>3. FileInv'
      BY <1>3, GoFacts, ActorFacts
      DEF BootInv, TypeOK, Progress, LoadInv, HoldInv, ProbeInv, IrqHeld, Updating,
          Ending, VersionInv, StartInv, FreeInv, FileInv, OwnFile, Places,
          RequestIrq, At, When, Record, chipVars, irqVars, flagVars, countVars
    <2>4. FlagInv'
      BY <1>3, GoFacts, ActorFacts
      DEF BootInv, TypeOK, Progress, LoadInv, HoldInv, ProbeInv, IrqHeld, Updating,
          Ending, VersionInv, StartInv, FreeInv, ChipInv, FileInv, FlagInv, Fresh,
          Pending, Again, Asked, OwnFile, Places, RequestIrq, At, When, Record, chipVars,
          irqVars, flagVars, countVars
    <2> QED BY <2>1, <2>2, <2>3, <2>4 DEF VersionInv
  <1>4. CASE Common("probe")
    BY <1>4, CommonVersion, ActorFacts
  <1> QED
    BY <1>1, <1>2, <1>3, <1>4 DEF Probe

(* The controller, and the loss of power.                                   *)
LEMMA ChipVersion ==
    ASSUME BootInv, VersionInv, Chip \/ PowerLoss
    PROVE  VersionInv'
  <1>1. CASE Boots
    <2>1. StartInv' /\ FreeInv'
      BY <1>1, GoFacts, ActorFacts
      DEF BootInv, TypeOK, Progress, LoadInv, HoldInv, ProbeInv, IrqHeld, Updating,
          Ending, VersionInv, StartInv, FreeInv, Places, Boots, Edge, chipVars,
          irqVars, flagVars, countVars
    <2>2. ChipInv'
      BY <1>1, GoFacts, ActorFacts
      DEF BootInv, TypeOK, Progress, LoadInv, HoldInv, ProbeInv, IrqHeld, Updating,
          Ending, VersionInv, StartInv, FreeInv, ChipInv, Fresh, Pending, Places,
          Boots, Edge, chipVars, irqVars, flagVars, countVars
    <2>3. FileInv'
      BY <1>1, GoFacts, ActorFacts
      DEF BootInv, TypeOK, Progress, LoadInv, HoldInv, ProbeInv, IrqHeld, Updating,
          Ending, VersionInv, StartInv, FreeInv, FileInv, OwnFile, Places, Boots,
          Edge, chipVars, irqVars, flagVars, countVars
    <2>4. FlagInv'
      BY <1>1, GoFacts, ActorFacts
      DEF BootInv, TypeOK, Progress, LoadInv, HoldInv, ProbeInv, IrqHeld, Updating,
          Ending, VersionInv, StartInv, FreeInv, ChipInv, FileInv, FlagInv, Fresh,
          Pending, Again, Asked, OwnFile, Places, Boots, Edge, chipVars, irqVars, flagVars,
          countVars
    <2> QED BY <2>1, <2>2, <2>3, <2>4 DEF VersionInv
  <1>2. CASE Starts
    <2>1. StartInv' /\ FreeInv'
      BY <1>2, GoFacts, ActorFacts
      DEF BootInv, TypeOK, Progress, LoadInv, HoldInv, ProbeInv, IrqHeld, Updating,
          Ending, VersionInv, StartInv, FreeInv, Places, Starts, Record, Edge,
          chipVars, irqVars, flagVars, countVars
    <2>2. ChipInv'
      BY <1>2, GoFacts, ActorFacts
      DEF BootInv, TypeOK, Progress, LoadInv, HoldInv, ProbeInv, IrqHeld, Updating,
          Ending, VersionInv, StartInv, FreeInv, ChipInv, Fresh, Pending, Places,
          Starts, Record, Edge, chipVars, irqVars, flagVars, countVars
    <2>3. FileInv'
      BY <1>2, GoFacts, ActorFacts
      DEF BootInv, TypeOK, Progress, LoadInv, HoldInv, ProbeInv, IrqHeld, Updating,
          Ending, VersionInv, StartInv, FreeInv, FileInv, OwnFile, Places, Starts,
          Record, Edge, chipVars, irqVars, flagVars, countVars
    <2>4. FlagInv'
      BY <1>2, GoFacts, ActorFacts
      DEF BootInv, TypeOK, Progress, LoadInv, HoldInv, ProbeInv, IrqHeld, Updating,
          Ending, VersionInv, StartInv, FreeInv, ChipInv, FileInv, FlagInv, Fresh,
          Pending, Again, Asked, OwnFile, Places, Starts, Record, Edge, chipVars, irqVars,
          flagVars, countVars
    <2> QED BY <2>1, <2>2, <2>3, <2>4 DEF VersionInv
  <1>3. CASE PowerLoss
    <2>1. StartInv' /\ FreeInv'
      BY <1>3, GoFacts, ActorFacts
      DEF BootInv, TypeOK, Progress, LoadInv, HoldInv, ProbeInv, IrqHeld, Updating,
          Ending, VersionInv, StartInv, FreeInv, Places, PowerLoss, Start, NoFile
    <2>2. ChipInv'
      BY <1>3, GoFacts, ActorFacts
      DEF BootInv, TypeOK, Progress, LoadInv, HoldInv, ProbeInv, IrqHeld, Updating,
          Ending, VersionInv, StartInv, FreeInv, ChipInv, Fresh, Pending, Places,
          PowerLoss, Start, NoFile
    <2>3. FileInv'
      BY <1>3, GoFacts, ActorFacts
      DEF BootInv, TypeOK, Progress, LoadInv, HoldInv, ProbeInv, IrqHeld, Updating,
          Ending, VersionInv, StartInv, FreeInv, FileInv, OwnFile, Places,
          PowerLoss, Start, NoFile
    <2>4. FlagInv'
      BY <1>3, GoFacts, ActorFacts
      DEF BootInv, TypeOK, Progress, LoadInv, HoldInv, ProbeInv, IrqHeld, Updating,
          Ending, VersionInv, StartInv, FreeInv, ChipInv, FileInv, FlagInv, Fresh,
          Pending, Again, Asked, OwnFile, Places, PowerLoss, Start, NoFile
    <2> QED BY <2>1, <2>2, <2>3, <2>4 DEF VersionInv
  <1> QED
    BY <1>1, <1>2, <1>3 DEF Chip

-----------------------------------------------------------------------------
LEMMA VersionNumbers ==
    \A v \in AllVersions : v.display \in Nat /\ v.hidden \in Nat
  <1>1. AllVersions \subseteq Version
    <2>1. { f.version : f \in Flashes } \subseteq Version
      BY FilesAssumption
    <2>2. NoVersion \in Version /\ Zeroed \in Version
      BY VersionAssumption DEF NoVersion, Zeroed, Version
    <2>3. ASSUME NEW s \in FileSets, NEW v \in {s.force, s.fw, s.header}, v # Absent
          PROVE  v \in Version
      BY <2>3, FilesAssumption
    <2>4. (UNION { {s.force, s.fw, s.header} : s \in FileSets }) \ {Absent} \subseteq Version
      BY <2>3
    <2> QED
      BY <2>1, <2>2, <2>4 DEF AllVersions
  <1> QED
    BY <1>1 DEF Version

LEMMA InitVersion == Init => VersionInv
  BY ActorFacts
  DEF Init, Start, VersionInv, StartInv, FreeInv, ChipInv, FileInv, FlagInv, Fresh, Pending,
      Updating, Again, Asked

LEMMA NextVersion == BootInv /\ VersionInv /\ [Next]_vars => VersionInv'
  <1> SUFFICES ASSUME BootInv, VersionInv, [Next]_vars PROVE VersionInv'
    OBVIOUS
  <1>1. CASE UNCHANGED vars
    BY <1>1
    DEF vars, chipVars, irqVars, flagVars, countVars, VersionInv, StartInv, FreeInv, ChipInv,
        FileInv, FlagInv, Fresh, Pending, Updating, Again, Asked, OwnFile
  <1> QED
    BY <1>1, CommonVersion, LoaderVersion, HandlerVersion, ProbeVersion, ChipVersion DEF Next

(* Firmware that is whole is replaced only by a newer version, but for the  *)
(* exceptions of solomon_firmware_version_check() (factory, zero, never     *)
(* written), the file that forces, and a second write of the same file      *)
(* after error bits that could not be read again or a bad trim.             *)
THEOREM NoDowngradeCorrect == Spec => []NoDowngrade
  <1>1. BootInv /\ VersionInv => NoDowngrade
    <2> SUFFICES ASSUME BootInv, VersionInv,
                        NEW a \in Actors,
                        At(a, "erase"), flash.whole, ~found_force_bin_file,
                        "early" \notin accidents
                 PROVE  \/ ~Older(file[a], flash.version)
                        \/ flash.version.display \in {0, Unwritten}
                        \/ (flash.version.hidden = Factory) # (file[a].hidden = Factory)
                        \/ file[a] = flash.version /\ ("boot" \in accidents \/ info_flag)
      BY DEF NoDowngrade
    <2>1. VersionCheck(flash.version, file[a]) \/ (Again /\ file[a] = OwnFile)
      BY DEF VersionInv, FlagInv, Fresh, At
    <2>2. CASE Again /\ file[a] = OwnFile
      BY <2>2 DEF Again, Asked
    <2>3. CASE VersionCheck(flash.version, file[a])
      <3>1. flash.version \in AllVersions /\ file[a] \in AllVersions
        BY DEF BootInv, TypeOK
      <3>2. /\ flash.version.display \in Nat /\ flash.version.hidden \in Nat
            /\ file[a].display \in Nat /\ file[a].hidden \in Nat
        BY <3>1, VersionNumbers
      <3> QED
        BY <2>3, <3>2 DEF VersionCheck, Older
    <2> QED
      BY <2>1, <2>2, <2>3
  <1>2. Init => BootInv /\ VersionInv
    BY InitBoot, InitVersion
  <1>3. BootInv /\ VersionInv /\ [Next]_vars => BootInv' /\ VersionInv'
    BY NextBoot, NextVersion
  <1> QED
    BY <1>1, <1>2, <1>3, PTL DEF Spec
=============================================================================
