------------------------- MODULE Ssd20xxBootProofs -------------------------
(* TLAPS proofs about the boot of the vendor driver: its types, and that    *)
(* the flash has one writer, for any firmware files, any flash, and any     *)
(* number of failed transfers and losses of power.                          *)
EXTENDS Ssd20xxBoot, TLAPS

(* The loader has turned the interrupt off: from disable_irq() of the first *)
(* load to enable_irq() of the second, the wait between the two included.   *)
Updating == {"check", "erase", "config", "body"}
Ending == {"clear_int", "unstall", "give_back", "enable", "given_up"}

IrqHeld ==
    \/ pc["loader"] \in {"force", "repeat"} \union Updating \union Ending
    \/ pc["loader"] = "idle" /\ scheduled = "fw"

(* Nothing is loaded before solomon_pre_init() has asked for it, and it     *)
(* asks once.                                                               *)
LoadInv ==
    /\ pc["loader"] \in {"idle", "disable", "force", "repeat"} \union Updating \union Ending
    /\ init_ds_flag => pc["loader"] = "idle" /\ scheduled = "none"
    /\ pc["loader"] \in Updating \union Ending => scheduled = "none"

(* The interrupt is off, and its thread at rest, as long as the loader      *)
(* holds it, unless request_threaded_irq() came in between.                 *)
HoldInv ==
    /\ ~IrqHeld => depth = 0
    /\ IrqHeld /\ "early" \notin accidents => depth = 1 /\ pc["handler"] = "idle"

(* probe() itself updates only by the accident of a word already changed.   *)
ProbeInv ==
    pc["probe"] \in {"fw_update", "reset"} \union Updating => "early" \in accidents

Progress == LoadInv /\ HoldInv /\ ProbeInv
BootInv == TypeOK /\ Progress

-----------------------------------------------------------------------------
(* The versions that can be met are those of the flash and of the files.    *)
LEMMA VersionFacts ==
    /\ NoVersion \in AllVersions /\ Zeroed \in AllVersions
    /\ \A f \in Flashes : f \in [version : AllVersions, whole : BOOLEAN]
    /\ files \in FileSets => /\ OwnFile \in AllVersions
                             /\ files.force # Absent => files.force \in AllVersions
  <1>1. NoVersion \in AllVersions /\ Zeroed \in AllVersions
    BY DEF AllVersions
  <1>2. \A f \in Flashes : f \in [version : AllVersions, whole : BOOLEAN]
    BY FilesAssumption DEF AllVersions
  <1>3. ASSUME files \in FileSets
        PROVE  /\ files.header \in AllVersions
               /\ files.fw # Absent => files.fw \in AllVersions
               /\ files.force # Absent => files.force \in AllVersions
    <2>1. files.header \in Version
      BY <1>3, FilesAssumption
    <2>2. files.header # Absent
      BY <2>1, VersionAssumption
    <2>3. \A v \in {files.force, files.fw, files.header} \ {Absent} : v \in AllVersions
      BY <1>3, \A s \in FileSets : {s.force, s.fw, s.header} \subseteq
                    UNION { {t.force, t.fw, t.header} : t \in FileSets }
      DEF AllVersions
    <2> QED
      BY <2>2, <2>3
  <1> QED
    BY <1>1, <1>2, <1>3 DEF OwnFile

(* One actor moves.                                                         *)
LEMMA GoFacts ==
    ASSUME pc \in [Actors -> Places], NEW a \in Actors, NEW place \in Places, Go(a, place)
    PROVE  /\ pc' \in [Actors -> Places]
           /\ pc'[a] = place
           /\ \A b \in Actors \ {a} : pc'[b] = pc[b]
  BY DEF Go

LEMMA ActorFacts ==
    /\ Actors = {"probe", "loader", "handler"}
    /\ {"probe", "loader", "handler"} \subseteq Actors
  BY DEF Actors

(* What each group of variables keeps of its type.                          *)
FlagTypes ==
    /\ init_ds_flag \in BOOLEAN /\ found_force_bin_file \in BOOLEAN
    /\ boot_flag \in BOOLEAN /\ info_flag \in BOOLEAN /\ checksum_flag \in BOOLEAN
    /\ fw_version \in AllVersions
ChipTypes ==
    /\ chip \in {"off", "reset", "bios", "starting", "boot_st", "cs_error", "silent", "run"}
    /\ int \in BOOLEAN /\ pending \in BOOLEAN
FileTypes ==
    /\ flash \in [version : AllVersions, whole : BOOLEAN]
    /\ files \in FileSets
    /\ file \in [Actors -> AllVersions]
WordTypes ==
    /\ work_procedure \in {"none", "initialize", "upgrade", "normal"}
    /\ scheduled \in {"none", "force", "fw"}
    /\ registered \in BOOLEAN /\ depth \in {0, 1}
CountTypes ==
    /\ accidents \subseteq {"boot", "blank", "early"}
    /\ crashes \in 0..MaxCrashes /\ faults \in 0..MaxFaults

LEMMA TypePartsNext ==
    TypeOK' <=> /\ FlagTypes' /\ ChipTypes' /\ FileTypes' /\ WordTypes' /\ CountTypes'
                /\ pc' \in [Actors -> Places]
  BY DEF TypeOK, FlagTypes, ChipTypes, FileTypes, WordTypes, CountTypes

(* A transfer that fails, or does not; and what is noted of it.             *)
LEMMA FailFacts ==
    ASSUME TypeOK
    PROVE  /\ MayFail(TRUE) => crashes' \in 0..MaxCrashes /\ faults' \in 0..MaxFaults
           /\ MayFail(FALSE) => crashes' \in 0..MaxCrashes /\ faults' \in 0..MaxFaults
           /\ \A bad \in BOOLEAN :
                MayFail(bad) => crashes' \in 0..MaxCrashes /\ faults' \in 0..MaxFaults
           /\ Record({"boot"}) => accidents' \subseteq {"boot", "blank", "early"}
           /\ UNCHANGED accidents => accidents' \subseteq {"boot", "blank", "early"}
  <1>1. /\ MayFail(TRUE) => crashes' \in 0..MaxCrashes /\ faults' \in 0..MaxFaults
        /\ MayFail(FALSE) => crashes' \in 0..MaxCrashes /\ faults' \in 0..MaxFaults
    BY BoundsAssumption DEF TypeOK, MayFail
  <1>2. Record({"boot"}) => accidents' \subseteq {"boot", "blank", "early"}
    BY DEF TypeOK, Record
  <1>3. \A bad \in BOOLEAN :
          MayFail(bad) => crashes' \in 0..MaxCrashes /\ faults' \in 0..MaxFaults
    BY BoundsAssumption DEF TypeOK, MayFail
  <1> QED
    BY <1>1, <1>2, <1>3 DEF TypeOK

(* A stage of an update leaves in the flash what was there, or its content. *)
LEMMA StageFacts ==
    ASSUME TypeOK, NEW a \in Actors, NEW place, NEW next,
           NEW content \in [version : AllVersions, whole : BOOLEAN],
           Stage(a, place, next, content)
    PROVE  /\ flash' \in [version : AllVersions, whole : BOOLEAN]
           /\ files' = files /\ file' = file
  BY DEF Stage, TypeOK

-----------------------------------------------------------------------------
(* What more than one actor does.                                           *)
LEMMA CommonKeeps ==
    ASSUME BootInv, NEW a \in Actors, Common(a)
    PROVE  BootInv'
  <1>1. CASE ReadBootSt(a)
    <2>1. TypeOK'
      <3>1. FileTypes'
        BY <1>1
        DEF BootInv, TypeOK, ReadBootSt, MayFail, Record, PreInitFails, PreInit,
            flagVars, countVars, FileTypes
      <3>2. ChipTypes' /\ WordTypes'
        BY <1>1, GoFacts, ActorFacts
        DEF BootInv, TypeOK, ReadBootSt, At, MayFail, Record, AfterPreInit,
            PreInitFails, PreInit, chipVars, irqVars, flagVars, countVars,
            ChipTypes, WordTypes
      <3>3. FlagTypes'
        BY <1>1
        DEF BootInv, TypeOK, ReadBootSt, MayFail, Record, PreInitFails, PreInit,
            flagVars, countVars, FlagTypes
      <3>4. CountTypes'
        BY <1>1, FailFacts
        DEF BootInv, TypeOK, ReadBootSt, PreInitFails, PreInit, CountTypes
      <3>5. pc' \in [Actors -> Places]
        BY <1>1, GoFacts, ActorFacts
        DEF BootInv, TypeOK, Places, ReadBootSt, At, MayFail, Record, AfterPreInit,
            PreInitFails, PreInit, chipVars, irqVars, flagVars, countVars
      <3> QED BY <3>1, <3>2, <3>3, <3>4, <3>5, TypePartsNext
    <2>2. Progress'
      <3>1. /\ \/ Go(a, "version")
               \/ BootError /\ Go(a, "checksum")
               \/ ~BootError /\ Go(a, "failed") /\ a = "probe"
               \/ ~BootError /\ Go(a, "out") /\ a # "probe"
            /\ UNCHANGED <<init_ds_flag, scheduled, irqVars>>
            /\ Record({"boot"}) \/ UNCHANGED accidents
            /\ pc[a] = "boot_st"
        BY <1>1 DEF ReadBootSt, PreInit, PreInitFails, AfterPreInit, At, BootInv, TypeOK
      <3>2. "early" \in accidents' <=> "early" \in accidents
        BY <3>1 DEF Record
      <3> QED
        BY <3>1, <3>2, GoFacts, ActorFacts
        DEF BootInv, TypeOK, Progress, LoadInv, HoldInv, ProbeInv, IrqHeld, Updating,
            Ending, Places, irqVars
    <2> QED BY <2>1, <2>2 DEF BootInv
  <1>2. CASE VersionBoot(a)
    <2>1. TypeOK'
      BY <1>2, GoFacts, ActorFacts, VersionFacts, BoundsAssumption
      DEF BootInv, TypeOK, Places, VersionBoot, At, MayFail, Record, AfterPreInit,
          PreInitFails, PreInit, chipVars, irqVars, flagVars, countVars
    <2>2. Progress'
      BY <1>2, GoFacts, ActorFacts
      DEF BootInv, TypeOK, Progress, LoadInv, HoldInv, ProbeInv, IrqHeld, Updating,
          Ending, Places, VersionBoot, At, MayFail, Record, AfterPreInit,
          PreInitFails, PreInit, chipVars, irqVars, flagVars, countVars
    <2> QED BY <2>1, <2>2 DEF BootInv
  <1>3. CASE PreInitEnd(a)
    <2>1. TypeOK'
      <3>1. FileTypes'
        BY <1>3
        DEF BootInv, TypeOK, PreInitEnd, MayFail, Record, PreInitFails, PreInit,
            flagVars, countVars, FileTypes
      <3>2. ChipTypes' /\ WordTypes'
        BY <1>3, GoFacts, ActorFacts
        DEF BootInv, TypeOK, PreInitEnd, At, PreInitFails, PreInit, chipVars,
            irqVars, flagVars, countVars, ChipTypes, WordTypes
      <3>3. FlagTypes'
        BY <1>3
        DEF BootInv, TypeOK, PreInitEnd, MayFail, Record, PreInitFails, PreInit,
            flagVars, countVars, FlagTypes
      <3>4. CountTypes'
        BY <1>3, FailFacts
        DEF BootInv, TypeOK, PreInitEnd, PreInitFails, PreInit, CountTypes
      <3>5. pc' \in [Actors -> Places]
        BY <1>3, GoFacts, ActorFacts
        DEF BootInv, TypeOK, Places, PreInitEnd, At, MayFail, Record, AfterPreInit,
            PreInitFails, PreInit, chipVars, irqVars, flagVars, countVars
      <3> QED BY <3>1, <3>2, <3>3, <3>4, <3>5, TypePartsNext
    <2>2. Progress'
      BY <1>3, GoFacts, ActorFacts
      DEF BootInv, TypeOK, Progress, LoadInv, HoldInv, ProbeInv, IrqHeld, Updating,
          Ending, Places, PreInitEnd, At, MayFail, Record, AfterPreInit,
          PreInitFails, PreInit, chipVars, irqVars, flagVars, countVars
    <2> QED BY <2>1, <2>2 DEF BootInv
  <1>4. CASE Checksum(a)
    <2>1. TypeOK'
      <3>1. FileTypes'
        BY <1>4
        DEF BootInv, TypeOK, Checksum, When, Record, flagVars, countVars, FileTypes
      <3>2. ChipTypes' /\ WordTypes'
        BY <1>4, GoFacts, ActorFacts
        DEF BootInv, TypeOK, Checksum, At, When, Record, Reset, StartCpu, chipVars,
            irqVars, flagVars, countVars, ChipTypes, WordTypes
      <3>3. FlagTypes'
        BY <1>4
        DEF BootInv, TypeOK, Checksum, When, Record, flagVars, countVars, FlagTypes
      <3>4. CountTypes'
        BY <1>4, BoundsAssumption
        DEF BootInv, TypeOK, Checksum, When, Record, countVars, CountTypes
      <3>5. pc' \in [Actors -> Places]
        BY <1>4, GoFacts, ActorFacts
        DEF BootInv, TypeOK, Places, Checksum, At, When, Record, Reset, StartCpu,
            chipVars, irqVars, flagVars, countVars
      <3> QED BY <3>1, <3>2, <3>3, <3>4, <3>5, TypePartsNext
    <2>2. Progress'
      BY <1>4, GoFacts, ActorFacts
      DEF BootInv, TypeOK, Progress, LoadInv, HoldInv, ProbeInv, IrqHeld, Updating,
          Ending, Places, Checksum, At, When, Record, Reset, StartCpu, chipVars,
          irqVars, flagVars, countVars
    <2> QED BY <2>1, <2>2 DEF BootInv
  <1>5. CASE FwUpdate(a)
    <2>1. TypeOK'
      BY <1>5, GoFacts, ActorFacts, VersionFacts
      DEF BootInv, TypeOK, Places, FwUpdate, At, chipVars, irqVars, flagVars,
          countVars
    <2>2. Progress'
      BY <1>5, GoFacts, ActorFacts
      DEF BootInv, TypeOK, Progress, LoadInv, HoldInv, ProbeInv, IrqHeld, Updating,
          Ending, Places, FwUpdate, At, chipVars, irqVars, flagVars, countVars
    <2> QED BY <2>1, <2>2 DEF BootInv
  <1>6. CASE Check(a)
    <2>1. TypeOK'
      <3>1. FileTypes'
        BY <1>6
        DEF BootInv, TypeOK, Check, Forced, AfterUpdate, flagVars, countVars,
            FileTypes
      <3>2. ChipTypes' /\ WordTypes'
        BY <1>6, GoFacts, ActorFacts
        DEF BootInv, TypeOK, Check, At, Forced, AfterUpdate, chipVars, irqVars,
            flagVars, countVars, ChipTypes, WordTypes
      <3>3. FlagTypes'
        BY <1>6
        DEF BootInv, TypeOK, Check, Forced, AfterUpdate, flagVars, countVars,
            FlagTypes
      <3>4. CountTypes'
        BY <1>6, BoundsAssumption
        DEF BootInv, TypeOK, Check, Forced, AfterUpdate, countVars, CountTypes
      <3>5. pc' \in [Actors -> Places]
        BY <1>6, GoFacts, ActorFacts
        DEF BootInv, TypeOK, Places, Check, At, Forced, AfterUpdate, chipVars,
            irqVars, flagVars, countVars
      <3> QED BY <3>1, <3>2, <3>3, <3>4, <3>5, TypePartsNext
    <2>2. Progress'
      BY <1>6, GoFacts, ActorFacts
      DEF BootInv, TypeOK, Progress, LoadInv, HoldInv, ProbeInv, IrqHeld, Updating,
          Ending, Places, Check, At, Forced, AfterUpdate, chipVars, irqVars,
          flagVars, countVars
    <2> QED BY <2>1, <2>2 DEF BootInv
  <1>7. CASE EraseFlash(a)
    <2>1. TypeOK'
      <3>1. FileTypes'
        BY <1>7, StageFacts, ActorFacts, VersionFacts
        DEF BootInv, TypeOK, EraseFlash, Begun, FileTypes
      <3>2. ChipTypes' /\ WordTypes'
        BY <1>7, GoFacts, ActorFacts
        DEF BootInv, TypeOK, EraseFlash, At, MayFail, AfterUpdate, Stage, Begun,
            chipVars, irqVars, flagVars, countVars, ChipTypes, WordTypes
      <3>3. FlagTypes'
        BY <1>7, VersionFacts
        DEF BootInv, TypeOK, EraseFlash, MayFail, AfterUpdate, Stage, Begun,
            flagVars, countVars, FlagTypes
      <3>4. CountTypes'
        BY <1>7, BoundsAssumption
        DEF BootInv, TypeOK, EraseFlash, MayFail, AfterUpdate, Stage, countVars,
            CountTypes
      <3>5. pc' \in [Actors -> Places]
        BY <1>7, GoFacts, ActorFacts
        DEF BootInv, TypeOK, Places, EraseFlash, At, MayFail, AfterUpdate, Stage,
            Begun, chipVars, irqVars, flagVars, countVars
      <3> QED BY <3>1, <3>2, <3>3, <3>4, <3>5, TypePartsNext
    <2>2. Progress'
      BY <1>7, GoFacts, ActorFacts
      DEF BootInv, TypeOK, Progress, LoadInv, HoldInv, ProbeInv, IrqHeld, Updating,
          Ending, Places, EraseFlash, At, MayFail, AfterUpdate, Stage, Begun,
          chipVars, irqVars, flagVars, countVars
    <2> QED BY <2>1, <2>2 DEF BootInv
  <1>8. CASE WriteConfig(a)
    <2>1. TypeOK'
      <3>1. FileTypes'
        BY <1>8, StageFacts, ActorFacts, VersionFacts
        DEF BootInv, TypeOK, WriteConfig, Begun, FileTypes
      <3>2. ChipTypes' /\ WordTypes'
        BY <1>8, GoFacts, ActorFacts
        DEF BootInv, TypeOK, WriteConfig, At, MayFail, AfterUpdate, Stage, Begun,
            chipVars, irqVars, flagVars, countVars, ChipTypes, WordTypes
      <3>3. FlagTypes'
        BY <1>8, VersionFacts
        DEF BootInv, TypeOK, WriteConfig, MayFail, AfterUpdate, Stage, Begun,
            flagVars, countVars, FlagTypes
      <3>4. CountTypes'
        BY <1>8, BoundsAssumption
        DEF BootInv, TypeOK, WriteConfig, MayFail, AfterUpdate, Stage, countVars,
            CountTypes
      <3>5. pc' \in [Actors -> Places]
        BY <1>8, GoFacts, ActorFacts
        DEF BootInv, TypeOK, Places, WriteConfig, At, MayFail, AfterUpdate, Stage,
            Begun, chipVars, irqVars, flagVars, countVars
      <3> QED BY <3>1, <3>2, <3>3, <3>4, <3>5, TypePartsNext
    <2>2. Progress'
      BY <1>8, GoFacts, ActorFacts
      DEF BootInv, TypeOK, Progress, LoadInv, HoldInv, ProbeInv, IrqHeld, Updating,
          Ending, Places, WriteConfig, At, MayFail, AfterUpdate, Stage, Begun,
          chipVars, irqVars, flagVars, countVars
    <2> QED BY <2>1, <2>2 DEF BootInv
  <1>9. CASE WriteBody(a)
    <2>1. TypeOK'
      <3>1. FileTypes'
        BY <1>9, StageFacts, ActorFacts, VersionFacts
        DEF BootInv, TypeOK, WriteBody, Begun, FileTypes
      <3>2. ChipTypes' /\ WordTypes'
        BY <1>9, GoFacts, ActorFacts
        DEF BootInv, TypeOK, WriteBody, At, MayFail, AfterUpdate, Stage, Begun,
            chipVars, irqVars, flagVars, countVars, ChipTypes, WordTypes
      <3>3. FlagTypes'
        BY <1>9, VersionFacts
        DEF BootInv, TypeOK, WriteBody, MayFail, AfterUpdate, Stage, Begun,
            flagVars, countVars, FlagTypes
      <3>4. CountTypes'
        BY <1>9, BoundsAssumption
        DEF BootInv, TypeOK, WriteBody, MayFail, AfterUpdate, Stage, countVars,
            CountTypes
      <3>5. pc' \in [Actors -> Places]
        BY <1>9, GoFacts, ActorFacts
        DEF BootInv, TypeOK, Places, WriteBody, At, MayFail, AfterUpdate, Stage,
            Begun, chipVars, irqVars, flagVars, countVars
      <3> QED BY <3>1, <3>2, <3>3, <3>4, <3>5, TypePartsNext
    <2>2. Progress'
      BY <1>9, GoFacts, ActorFacts
      DEF BootInv, TypeOK, Progress, LoadInv, HoldInv, ProbeInv, IrqHeld, Updating,
          Ending, Places, WriteBody, At, MayFail, AfterUpdate, Stage, Begun,
          chipVars, irqVars, flagVars, countVars
    <2> QED BY <2>1, <2>2 DEF BootInv
  <1>10. CASE ResetAfter(a)
    <2>1. TypeOK'
      <3>1. FileTypes'
        BY <1>10
        DEF BootInv, TypeOK, ResetAfter, flagVars, countVars, FileTypes
      <3>2. ChipTypes' /\ WordTypes'
        BY <1>10, GoFacts, ActorFacts
        DEF BootInv, TypeOK, ResetAfter, At, Reset, StartCpu, chipVars, irqVars,
            flagVars, countVars, ChipTypes, WordTypes
      <3>3. FlagTypes'
        BY <1>10
        DEF BootInv, TypeOK, ResetAfter, flagVars, countVars, FlagTypes
      <3>4. CountTypes'
        BY <1>10, BoundsAssumption
        DEF BootInv, TypeOK, ResetAfter, countVars, CountTypes
      <3>5. pc' \in [Actors -> Places]
        BY <1>10, GoFacts, ActorFacts
        DEF BootInv, TypeOK, Places, ResetAfter, At, Reset, StartCpu, chipVars,
            irqVars, flagVars, countVars
      <3> QED BY <3>1, <3>2, <3>3, <3>4, <3>5, TypePartsNext
    <2>2. Progress'
      BY <1>10, GoFacts, ActorFacts
      DEF BootInv, TypeOK, Progress, LoadInv, HoldInv, ProbeInv, IrqHeld, Updating,
          Ending, Places, ResetAfter, At, Reset, StartCpu, chipVars, irqVars,
          flagVars, countVars
    <2> QED BY <2>1, <2>2 DEF BootInv
  <1> QED
    BY <1>1, <1>2, <1>3, <1>4, <1>5, <1>6, <1>7, <1>8, <1>9, <1>10 DEF Common

(* The loader turns the interrupt off with its thread at rest, and on last. *)
LEMMA LoaderKeeps ==
    ASSUME BootInv, Loader
    PROVE  BootInv'
  <1>1. CASE LoaderStart
    <2>1. TypeOK'
      BY <1>1, GoFacts, ActorFacts
      DEF BootInv, TypeOK, Places, LoaderStart, At, chipVars, irqVars, flagVars,
          countVars
    <2>2. Progress'
      BY <1>1, GoFacts, ActorFacts
      DEF BootInv, TypeOK, Progress, LoadInv, HoldInv, ProbeInv, IrqHeld, Updating,
          Ending, Places, LoaderStart, At, chipVars, irqVars, flagVars, countVars
    <2> QED BY <2>1, <2>2 DEF BootInv
  <1>2. CASE LoaderDisable
    <2>1. TypeOK'
      <3>1. FileTypes'
        BY <1>2
        DEF BootInv, TypeOK, LoaderDisable, flagVars, countVars, FileTypes
      <3>2. ChipTypes' /\ WordTypes'
        BY <1>2, GoFacts, ActorFacts
        DEF BootInv, TypeOK, LoaderDisable, At, chipVars, irqVars, flagVars,
            countVars, Progress, HoldInv, IrqHeld, Updating, Ending, ChipTypes,
            WordTypes
      <3>3. FlagTypes'
        BY <1>2
        DEF BootInv, TypeOK, LoaderDisable, flagVars, countVars, FlagTypes
      <3>4. CountTypes'
        BY <1>2, BoundsAssumption
        DEF BootInv, TypeOK, LoaderDisable, countVars, CountTypes
      <3>5. pc' \in [Actors -> Places]
        BY <1>2, GoFacts, ActorFacts
        DEF BootInv, TypeOK, Places, LoaderDisable, At, chipVars, irqVars, flagVars,
            countVars
      <3> QED BY <3>1, <3>2, <3>3, <3>4, <3>5, TypePartsNext
    <2>2. Progress'
      BY <1>2, GoFacts, ActorFacts
      DEF BootInv, TypeOK, Progress, LoadInv, HoldInv, ProbeInv, IrqHeld, Updating,
          Ending, Places, LoaderDisable, At, chipVars, irqVars, flagVars, countVars
    <2> QED BY <2>1, <2>2 DEF BootInv
  <1>3. CASE LoaderForce
    <2>1. TypeOK'
      BY <1>3, GoFacts, ActorFacts, VersionFacts
      DEF BootInv, TypeOK, Places, LoaderForce, At, chipVars, irqVars, flagVars,
          countVars
    <2>2. Progress'
      BY <1>3, GoFacts, ActorFacts
      DEF BootInv, TypeOK, Progress, LoadInv, HoldInv, ProbeInv, IrqHeld, Updating,
          Ending, Places, LoaderForce, At, chipVars, irqVars, flagVars, countVars
    <2> QED BY <2>1, <2>2 DEF BootInv
  <1>4. CASE LoaderRepeat
    <2>1. TypeOK'
      BY <1>4, GoFacts, ActorFacts, VersionFacts
      DEF BootInv, TypeOK, Places, LoaderRepeat, At, chipVars, irqVars, flagVars,
          countVars
    <2>2. Progress'
      BY <1>4, GoFacts, ActorFacts
      DEF BootInv, TypeOK, Progress, LoadInv, HoldInv, ProbeInv, IrqHeld, Updating,
          Ending, Places, LoaderRepeat, At, chipVars, irqVars, flagVars, countVars
    <2> QED BY <2>1, <2>2 DEF BootInv
  <1>5. CASE LoaderClearInt
    <2>1. TypeOK'
      <3>1. FileTypes'
        BY <1>5
        DEF BootInv, TypeOK, LoaderClearInt, MayFail, Record, flagVars, countVars,
            FileTypes
      <3>2. ChipTypes' /\ WordTypes'
        BY <1>5, GoFacts, ActorFacts
        DEF BootInv, TypeOK, LoaderClearInt, At, MayFail, Record, chipVars, irqVars,
            flagVars, countVars, ChipTypes, WordTypes
      <3>3. FlagTypes'
        BY <1>5
        DEF BootInv, TypeOK, LoaderClearInt, MayFail, Record, flagVars, countVars,
            FlagTypes
      <3>4. CountTypes'
        BY <1>5, FailFacts
        DEF BootInv, TypeOK, LoaderClearInt, CountTypes
      <3>5. pc' \in [Actors -> Places]
        BY <1>5, GoFacts, ActorFacts
        DEF BootInv, TypeOK, Places, LoaderClearInt, At, MayFail, Record, chipVars,
            irqVars, flagVars, countVars
      <3> QED BY <3>1, <3>2, <3>3, <3>4, <3>5, TypePartsNext
    <2>2. Progress'
      BY <1>5, GoFacts, ActorFacts
      DEF BootInv, TypeOK, Progress, LoadInv, HoldInv, ProbeInv, IrqHeld, Updating,
          Ending, Places, LoaderClearInt, At, MayFail, Record, chipVars, irqVars,
          flagVars, countVars
    <2> QED BY <2>1, <2>2 DEF BootInv
  <1>6. CASE LoaderUnstall
    <2>1. TypeOK'
      <3>1. FileTypes'
        BY <1>6
        DEF BootInv, TypeOK, LoaderUnstall, MayFail, Record, flagVars, countVars,
            FileTypes
      <3>2. ChipTypes' /\ WordTypes'
        BY <1>6, GoFacts, ActorFacts
        DEF BootInv, TypeOK, LoaderUnstall, At, MayFail, Record, StartCpu, chipVars,
            irqVars, flagVars, countVars, ChipTypes, WordTypes
      <3>3. FlagTypes'
        BY <1>6
        DEF BootInv, TypeOK, LoaderUnstall, MayFail, Record, flagVars, countVars,
            FlagTypes
      <3>4. CountTypes'
        BY <1>6, FailFacts
        DEF BootInv, TypeOK, LoaderUnstall, CountTypes
      <3>5. pc' \in [Actors -> Places]
        BY <1>6, GoFacts, ActorFacts
        DEF BootInv, TypeOK, Places, LoaderUnstall, At, MayFail, Record, StartCpu,
            chipVars, irqVars, flagVars, countVars
      <3> QED BY <3>1, <3>2, <3>3, <3>4, <3>5, TypePartsNext
    <2>2. Progress'
      BY <1>6, GoFacts, ActorFacts
      DEF BootInv, TypeOK, Progress, LoadInv, HoldInv, ProbeInv, IrqHeld, Updating,
          Ending, Places, LoaderUnstall, At, MayFail, Record, StartCpu, chipVars,
          irqVars, flagVars, countVars
    <2> QED BY <2>1, <2>2 DEF BootInv
  <1>7. CASE LoaderGiveBack
    <2>1. TypeOK'
      BY <1>7, GoFacts, ActorFacts
      DEF BootInv, TypeOK, Places, LoaderGiveBack, At, chipVars, irqVars, flagVars,
          countVars
    <2>2. Progress'
      BY <1>7, GoFacts, ActorFacts
      DEF BootInv, TypeOK, Progress, LoadInv, HoldInv, ProbeInv, IrqHeld, Updating,
          Ending, Places, LoaderGiveBack, At, chipVars, irqVars, flagVars, countVars
    <2> QED BY <2>1, <2>2 DEF BootInv
  <1>8. CASE LoaderEnable
    <2>1. TypeOK'
      BY <1>8, GoFacts, ActorFacts
      DEF BootInv, TypeOK, Places, LoaderEnable, At, chipVars, irqVars, flagVars,
          countVars
    <2>2. Progress'
      BY <1>8, GoFacts, ActorFacts
      DEF BootInv, TypeOK, Progress, LoadInv, HoldInv, ProbeInv, IrqHeld, Updating,
          Ending, Places, LoaderEnable, At, chipVars, irqVars, flagVars, countVars
    <2> QED BY <2>1, <2>2 DEF BootInv
  <1>9. CASE Common("loader")
    BY <1>9, CommonKeeps, ActorFacts
  <1> QED
    BY <1>1, <1>2, <1>3, <1>4, <1>5, <1>6, <1>7, <1>8, <1>9 DEF Loader

(* The handler starts only while the interrupt is on.                       *)
LEMMA HandlerKeeps ==
    ASSUME BootInv, Handler
    PROVE  BootInv'
  <1>1. CASE HandlerStart
    <2>1. TypeOK'
      <3>1. FileTypes'
        BY <1>1
        DEF BootInv, TypeOK, HandlerStart, When, Record, flagVars, countVars,
            FileTypes
      <3>2. ChipTypes' /\ WordTypes'
        BY <1>1, GoFacts, ActorFacts
        DEF BootInv, TypeOK, HandlerStart, At, When, Record, chipVars, irqVars,
            flagVars, countVars, ChipTypes, WordTypes
      <3>3. FlagTypes'
        BY <1>1
        DEF BootInv, TypeOK, HandlerStart, When, Record, flagVars, countVars,
            FlagTypes
      <3>4. CountTypes'
        BY <1>1, BoundsAssumption
        DEF BootInv, TypeOK, HandlerStart, When, Record, countVars, CountTypes
      <3>5. pc' \in [Actors -> Places]
        BY <1>1, GoFacts, ActorFacts
        DEF BootInv, TypeOK, Places, HandlerStart, At, When, Record, chipVars,
            irqVars, flagVars, countVars
      <3> QED BY <3>1, <3>2, <3>3, <3>4, <3>5, TypePartsNext
    <2>2. Progress'
      <3>1. /\ pc["handler"] = "idle" /\ depth = 0
            /\ UNCHANGED pc \/ Go("handler", "frame") \/ Go("handler", "clear")
            /\ UNCHANGED <<init_ds_flag, scheduled, irqVars>>
        BY <1>1 DEF HandlerStart, At, flagVars, irqVars, BootInv, TypeOK
      <3>2. "early" \in accidents => "early" \in accidents'
        BY <1>1 DEF HandlerStart, Record, BootInv, TypeOK
      <3>3. pc'["loader"] = pc["loader"] /\ pc'["probe"] = pc["probe"]
        BY <3>1, GoFacts, ActorFacts DEF BootInv, TypeOK, Places
      <3>4. ~IrqHeld' \/ "early" \in accidents
        BY <3>1, <3>3 DEF BootInv, Progress, HoldInv, IrqHeld
      <3> QED
        BY <3>1, <3>2, <3>3, <3>4
        DEF BootInv, Progress, LoadInv, HoldInv, ProbeInv, IrqHeld, Updating, Ending,
            irqVars
    <2> QED BY <2>1, <2>2 DEF BootInv
  <1>2. CASE HandlerFrame
    <2>1. TypeOK'
      BY <1>2, GoFacts, ActorFacts
      DEF BootInv, TypeOK, Places, HandlerFrame, At, chipVars, irqVars, flagVars,
          countVars
    <2>2. Progress'
      BY <1>2, GoFacts, ActorFacts
      DEF BootInv, TypeOK, Progress, LoadInv, HoldInv, ProbeInv, IrqHeld, Updating,
          Ending, Places, HandlerFrame, At, chipVars, irqVars, flagVars, countVars
    <2> QED BY <2>1, <2>2 DEF BootInv
  <1>3. CASE HandlerClear
    <2>1. TypeOK'
      <3>1. FileTypes'
        BY <1>3
        DEF BootInv, TypeOK, HandlerClear, MayFail, When, Record, flagVars,
            countVars, FileTypes
      <3>2. ChipTypes' /\ WordTypes'
        BY <1>3, GoFacts, ActorFacts
        DEF BootInv, TypeOK, HandlerClear, At, MayFail, When, Record, chipVars,
            irqVars, flagVars, countVars, ChipTypes, WordTypes
      <3>3. FlagTypes'
        BY <1>3
        DEF BootInv, TypeOK, HandlerClear, MayFail, When, Record, flagVars,
            countVars, FlagTypes
      <3>4. CountTypes'
        BY <1>3, BoundsAssumption
        DEF BootInv, TypeOK, HandlerClear, MayFail, When, Record, countVars,
            CountTypes
      <3>5. pc' \in [Actors -> Places]
        BY <1>3, GoFacts, ActorFacts
        DEF BootInv, TypeOK, Places, HandlerClear, At, MayFail, When, Record,
            chipVars, irqVars, flagVars, countVars
      <3> QED BY <3>1, <3>2, <3>3, <3>4, <3>5, TypePartsNext
    <2>2. Progress'
      BY <1>3, GoFacts, ActorFacts
      DEF BootInv, TypeOK, Progress, LoadInv, HoldInv, ProbeInv, IrqHeld, Updating,
          Ending, Places, HandlerClear, At, MayFail, When, Record, chipVars,
          irqVars, flagVars, countVars
    <2> QED BY <2>1, <2>2 DEF BootInv
  <1>4. CASE HandlerOut
    <2>1. TypeOK'
      BY <1>4, GoFacts, ActorFacts
      DEF BootInv, TypeOK, Places, HandlerOut, At, chipVars, irqVars, flagVars,
          countVars
    <2>2. Progress'
      BY <1>4, GoFacts, ActorFacts
      DEF BootInv, TypeOK, Progress, LoadInv, HoldInv, ProbeInv, IrqHeld, Updating,
          Ending, Places, HandlerOut, At, chipVars, irqVars, flagVars, countVars
    <2> QED BY <2>1, <2>2 DEF BootInv
  <1>5. CASE Common("handler")
    BY <1>5, CommonKeeps, ActorFacts
  <1> QED
    BY <1>1, <1>2, <1>3, <1>4, <1>5 DEF Handler

(* request_threaded_irq() turns it on behind the loader: by an accident.    *)
LEMMA ProbeKeeps ==
    ASSUME BootInv, Probe
    PROVE  BootInv'
  <1>1. CASE PowerOn
    <2>1. TypeOK'
      <3>1. FileTypes'
        BY <1>1
        DEF BootInv, TypeOK, PowerOn, flagVars, countVars, FileTypes
      <3>2. ChipTypes' /\ WordTypes'
        BY <1>1, GoFacts, ActorFacts
        DEF BootInv, TypeOK, PowerOn, At, Reset, StartCpu, chipVars, irqVars,
            flagVars, countVars, ChipTypes, WordTypes
      <3>3. FlagTypes'
        BY <1>1
        DEF BootInv, TypeOK, PowerOn, flagVars, countVars, FlagTypes
      <3>4. CountTypes'
        BY <1>1, BoundsAssumption
        DEF BootInv, TypeOK, PowerOn, countVars, CountTypes
      <3>5. pc' \in [Actors -> Places]
        BY <1>1, GoFacts, ActorFacts
        DEF BootInv, TypeOK, Places, PowerOn, At, Reset, StartCpu, chipVars,
            irqVars, flagVars, countVars
      <3> QED BY <3>1, <3>2, <3>3, <3>4, <3>5, TypePartsNext
    <2>2. Progress'
      BY <1>1, GoFacts, ActorFacts
      DEF BootInv, TypeOK, Progress, LoadInv, HoldInv, ProbeInv, IrqHeld, Updating,
          Ending, Places, PowerOn, At, Reset, StartCpu, chipVars, irqVars, flagVars,
          countVars
    <2> QED BY <2>1, <2>2 DEF BootInv
  <1>2. CASE ProcessVersion
    <2>1. TypeOK'
      BY <1>2, GoFacts, ActorFacts, BoundsAssumption
      DEF BootInv, TypeOK, Places, ProcessVersion, At, MayFail, When, Record,
          chipVars, irqVars, flagVars, countVars
    <2>2. Progress'
      BY <1>2, GoFacts, ActorFacts
      DEF BootInv, TypeOK, Progress, LoadInv, HoldInv, ProbeInv, IrqHeld, Updating,
          Ending, Places, ProcessVersion, At, MayFail, When, Record, chipVars,
          irqVars, flagVars, countVars
    <2> QED BY <2>1, <2>2 DEF BootInv
  <1>3. CASE RequestIrq
    <2>1. TypeOK'
      <3>1. FileTypes'
        BY <1>3
        DEF BootInv, TypeOK, RequestIrq, When, Record, flagVars, countVars,
            FileTypes
      <3>2. ChipTypes' /\ WordTypes'
        BY <1>3, GoFacts, ActorFacts
        DEF BootInv, TypeOK, RequestIrq, At, When, Record, chipVars, irqVars,
            flagVars, countVars, ChipTypes, WordTypes
      <3>3. FlagTypes'
        BY <1>3
        DEF BootInv, TypeOK, RequestIrq, When, Record, flagVars, countVars,
            FlagTypes
      <3>4. CountTypes'
        BY <1>3, BoundsAssumption
        DEF BootInv, TypeOK, RequestIrq, When, Record, countVars, CountTypes
      <3>5. pc' \in [Actors -> Places]
        BY <1>3, GoFacts, ActorFacts
        DEF BootInv, TypeOK, Places, RequestIrq, At, When, Record, chipVars,
            irqVars, flagVars, countVars
      <3> QED BY <3>1, <3>2, <3>3, <3>4, <3>5, TypePartsNext
    <2>2. Progress'
      BY <1>3, GoFacts, ActorFacts
      DEF BootInv, TypeOK, Progress, LoadInv, HoldInv, ProbeInv, IrqHeld, Updating,
          Ending, Places, RequestIrq, At, When, Record, chipVars, irqVars, flagVars,
          countVars
    <2> QED BY <2>1, <2>2 DEF BootInv
  <1>4. CASE Common("probe")
    BY <1>4, CommonKeeps, ActorFacts
  <1> QED
    BY <1>1, <1>2, <1>3, <1>4 DEF Probe

(* The controller, and the loss of power.                                   *)
LEMMA ChipKeeps ==
    ASSUME BootInv, Chip \/ PowerLoss
    PROVE  BootInv'
  <1>1. CASE Boots
    <2>1. TypeOK'
      BY <1>1, GoFacts, ActorFacts
      DEF BootInv, TypeOK, Places, Boots, Edge, chipVars, irqVars, flagVars,
          countVars
    <2>2. Progress'
      BY <1>1, GoFacts, ActorFacts
      DEF BootInv, TypeOK, Progress, LoadInv, HoldInv, ProbeInv, IrqHeld, Updating,
          Ending, Places, Boots, Edge, chipVars, irqVars, flagVars, countVars
    <2> QED BY <2>1, <2>2 DEF BootInv
  <1>2. CASE Starts
    <2>1. TypeOK'
      <3>1. FileTypes'
        BY <1>2
        DEF BootInv, TypeOK, Starts, Record, flagVars, countVars, FileTypes
      <3>2. ChipTypes' /\ WordTypes'
        BY <1>2, GoFacts, ActorFacts
        DEF BootInv, TypeOK, Starts, Record, Edge, chipVars, irqVars, flagVars,
            countVars, ChipTypes, WordTypes
      <3>3. FlagTypes'
        BY <1>2
        DEF BootInv, TypeOK, Starts, Record, flagVars, countVars, FlagTypes
      <3>4. CountTypes'
        BY <1>2, BoundsAssumption
        DEF BootInv, TypeOK, Starts, Record, countVars, CountTypes
      <3>5. pc' \in [Actors -> Places]
        BY <1>2, GoFacts, ActorFacts
        DEF BootInv, TypeOK, Places, Starts, Record, Edge, chipVars, irqVars,
            flagVars, countVars
      <3> QED BY <3>1, <3>2, <3>3, <3>4, <3>5, TypePartsNext
    <2>2. Progress'
      BY <1>2, GoFacts, ActorFacts
      DEF BootInv, TypeOK, Progress, LoadInv, HoldInv, ProbeInv, IrqHeld, Updating,
          Ending, Places, Starts, Record, Edge, chipVars, irqVars, flagVars,
          countVars
    <2> QED BY <2>1, <2>2 DEF BootInv
  <1>3. CASE PowerLoss
    <2>1. TypeOK'
      <3>1. FileTypes'
        BY <1>3, VersionFacts
        DEF BootInv, TypeOK, PowerLoss, Start, NoFile, FileTypes
      <3>2. ChipTypes' /\ WordTypes'
        BY <1>3, GoFacts, ActorFacts
        DEF BootInv, TypeOK, PowerLoss, Start, NoFile, ChipTypes, WordTypes
      <3>3. FlagTypes'
        BY <1>3, VersionFacts
        DEF BootInv, TypeOK, PowerLoss, Start, NoFile, FlagTypes
      <3>4. CountTypes'
        BY <1>3, BoundsAssumption
        DEF BootInv, TypeOK, PowerLoss, Start, NoFile, CountTypes
      <3>5. pc' \in [Actors -> Places]
        BY <1>3, GoFacts, ActorFacts
        DEF BootInv, TypeOK, Places, PowerLoss, Start, NoFile
      <3> QED BY <3>1, <3>2, <3>3, <3>4, <3>5, TypePartsNext
    <2>2. Progress'
      BY <1>3, GoFacts, ActorFacts
      DEF BootInv, TypeOK, Progress, LoadInv, HoldInv, ProbeInv, IrqHeld, Updating,
          Ending, Places, PowerLoss, Start, NoFile
    <2> QED BY <2>1, <2>2 DEF BootInv
  <1> QED
    BY <1>1, <1>2, <1>3 DEF Chip

-----------------------------------------------------------------------------
LEMMA InitBoot == Init => BootInv
  <1> SUFFICES ASSUME Init PROVE BootInv
    OBVIOUS
  <1>1. TypeOK
    <2>1. flash \in [version : AllVersions, whole : BOOLEAN] /\ files \in FileSets
      BY VersionFacts DEF Init
    <2>2. pc \in [Actors -> Places] /\ file \in [Actors -> AllVersions]
      BY VersionFacts DEF Init, Start, NoFile, Places
    <2>3. crashes \in 0..MaxCrashes /\ faults \in 0..MaxFaults
      BY BoundsAssumption DEF Init
    <2> QED
      BY <2>1, <2>2, <2>3, VersionFacts DEF Init, TypeOK
  <1>2. Progress
    BY ActorFacts
    DEF Init, Start, Progress, LoadInv, HoldInv, ProbeInv, IrqHeld, Updating, Ending
  <1> QED
    BY <1>1, <1>2 DEF BootInv

LEMMA NextBoot == BootInv /\ [Next]_vars => BootInv'
  <1> SUFFICES ASSUME BootInv, [Next]_vars PROVE BootInv'
    OBVIOUS
  <1>1. CASE UNCHANGED vars
    BY <1>1
    DEF vars, chipVars, irqVars, flagVars, countVars, BootInv, TypeOK, Progress, LoadInv,
        HoldInv, ProbeInv, IrqHeld
  <1> QED
    BY <1>1, CommonKeeps, LoaderKeeps, HandlerKeeps, ProbeKeeps, ChipKeeps DEF Next

LEMMA BootAlways == Spec => []BootInv
  BY InitBoot, NextBoot, PTL DEF Spec

(* Every variable of the boot has its type in every reachable state; that   *)
(* disable_irq() of the loads is never nested (depth at most one) is the    *)
(* part of it that is not a matter of shape.                                *)
THEOREM TypeCorrect == Spec => []TypeOK
  BY BootAlways, PTL DEF BootInv

(* The flash has one writer, and while it writes the handler does not talk  *)
(* to the controller, in probe(), the two loads of firmware and the handler *)
(* (ssd20xx.c), but for the error bit that probe() acts on behind a load.   *)
THEOREM OneWriterCorrect == Spec => []OneWriter
  <1>1. BootInv => OneWriter
    <2> SUFFICES ASSUME BootInv,
                        NEW a \in Actors, NEW b \in Actors,
                        a # b, Writing(a), "early" \notin accidents
                 PROVE  ~Writing(b) /\ (b = "handler" => At(b, "idle"))
      BY DEF OneWriter
    <2>1. a # "probe" /\ ~Writing("probe")
      BY DEF BootInv, Progress, ProbeInv, Writing, Updating
    <2>2. Writing("loader") => At("handler", "idle")
      BY DEF BootInv, Progress, HoldInv, IrqHeld, Updating, Writing, At
    <2>3. ~(Writing("loader") /\ Writing("handler"))
      BY <2>2 DEF Writing, At
    <2> QED
      BY <2>1, <2>2, <2>3, ActorFacts
  <1> QED
    BY <1>1, BootAlways, PTL
=============================================================================
