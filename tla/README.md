# Verification of the Gemini PDA mainline port

This directory holds a TLA+ development kept beside the `gemini-linux` repository, the port of Linux 6.6
to the Planet Computers Gemini PDA (MediaTek MT6797X). The repository carries no kernel tree: its programs are
the patches of `patches/v6.6/`, three of which add complete drivers with a life of their own; the vendor's driver of
the touch controller, kept under `docs/vendor-touch-ssd20xx/` as the reference of the port, and by far the largest
program of the repository; a bare-metal test; and the scripts that build, flash and watch the machine. Line numbers
below are lines of the named file; a driver is quoted as `input/0002:444`, that is line 444 of the patch
`patches/v6.6/input/0002-*.patch`, and the vendor's files by their names (`ssd20xx.c:3527`).

Contents: [inventory](#1-the-system) · [plan](#2-plan) · [modules and code](#3-modules-and-code) ·
[runs](#4-what-the-runs-show) · [findings](#5-findings) · [bounds](#6-bounds-and-fairness) ·
[proofs](#7-what-is-proved) · [limits](#8-what-is-not-covered) · [how to run](#9-running)

## 1. The system

### 1.1 Components

| Component | State | Operations | What makes it correct | Status |
|---|---|---|---|---|
| SSD2092 touchscreen (`input/0002`) | geometry, axes given to the input core, MT slots; in the chip: bootloader or live MCU, latched report, INT | probe, reset, DS handshake, TMC config, poll with retry, echo fallback, AUX and boot recovery, report, ack | axes always usable; contacts are those of one real report; a report is always consumed | modelled, proved |
| AW9523B GPIO expander (`gpio/0001`) | latch and direction registers behind the regmap cache, `irq_mask`, `prev_state`; in the chip: interrupt mask, last-read inputs | probe, gpio_chip operations, irq bus lock and mask sync, threaded INT handler | a pin only does what its own call asks; no key event is doubled or lost; mask in the chip equals mask in the driver | modelled, proved |
| CONSYS bring-up (`soc/0003`) | rails, domain, sleep mask, MCU reset, BTIF clock, EMI window; progress of the firmware push; the MCU's executed commands and events in flight | power-on sequence and unwinding, WMT exchange over BTIF, scripts, firmware push, verdict | power order; verdict means what it says; no fragment without an address; bounded waits | modelled, proved |
| Vendor touch: firmware update (`ssd20xx_upgrade.c`, `ssd20xx_mx25v100.c`) | the file parser's position; section, page, attempt and round of the update; in the flash chip: content, write enable, protection, busy | parse a merged file, update from header, bin or file; erase, program, verify with their retries; protect | success means the image is in the flash; only failed transfers make it fail; the protection comes back | modelled, refined, proved |
| Vendor touch: callers (`ssd20xx.c`, ioctl and sysfs) | the word `work_procedure`, its semaphore, the disable depth of the interrupt, `raw_data_lock`, the raw-data ring, test mode | register, mode and download ioctls, MP test, update by sysfs, resets, GET_RAW_DATA; the interrupt thread between them | what is taken is given back; flash written with the thread out; no torn frame; every call returns; no frame left unanswered | modelled, proved |
| Vendor touch: frames, recovery, power management (`ssd20xx.c`) | `m_up_event`, `lastValidCnt`, `keydata`, `m_power_status`, retries; `m_point_skip_time`; in the controller: running, asleep or in one of the steps of a boot | read and report a frame, or skip it after a change of the touch mode; AUX and checksum recovery, re-initialisation; suspend, pre_on, resume | no ghost contacts; a restart releases; every frame answered; a reset controller runs again | modelled, proved |
| Vendor touch: probe and firmware loads (`ssd20xx.c`) | boot, checksum and force flags, version read, load under way, disable depth; the flash; power | probe, two asynchronous loads, update by whoever finds the error bits, loss of power | one writer; no downgrade; the touch comes up after any loss of power | modelled, proved |
| Vendor touch: remove (`ssd20xx.c:4290`) | - | - | - | not modelled: it waits for the interrupt thread with the semaphore that thread may wait for; there is no property that holds and none promised |
| Matrix keypad polling (`input/0001`) | `stopped`, `scan_pending`, delayed work | open, close, suspend, scan | - | not modelled: the patch adds a re-arm and early exits to a driver that is not in the repository |
| DSI host (`drm/0004`, `0008`, `0013`, `0015`) | `bridge_added`, refcount, interrupt enable | attach, detach, power | - | not modelled: patches of a few lines to `mtk_dsi.c`, not in the repository |
| SSD2092 panel (`panel/0005`, `0006`) | `prepared`, `enabled`, rails, reset | prepare, enable, disable, unprepare | - | not modelled: straight lines in an order the DRM core fixes, and a table |
| FUSB301A CC controller (`usb/0001`) | poll work | probe, poll, remove, shutdown | - | not modelled: a poll that logs; its stop is `cancel_delayed_work_sync()` |
| USB PHY forcing (`phy/0001`), power domains (`pmdomain/*`), BQ25890, MUSB clocks, SMI larbs, pwrap, i2c, pwm, serial | in upstream drivers | - | - | not modelled: a few guards or table entries each, in drivers that are not in the repository |
| MIPI TX PLL (`phy/0004`), regulators (`regulator/*`) | dividers; a set-up bit | - | - | not modelled: arithmetic without state; a write before the first enable |
| Bare-metal test (`baremetal/display-hang-test`) | heartbeat counter, UART, GIC | IRQ handler, main loop | - | not modelled: one counter raised by a timer and printed by a loop; parked, it has never run |
| Battery monitor, boot image packer, run-once service | none | - | - | not modelled: one decision, one pass, one rename |
| DRM tables, device trees, configuration | data | - | - | not modelled: data |
| Other scripts, logs, other vendor sources, flash tool | - | - | - | not modelled: straight-line tooling, records, third-party code |

### 1.2 How they interact

* The keypad's rows and columns are lines of the AW9523B. Columns are driven through `direction_output` and
  `direction_input`, rows are read with `get`; with the INT pin wired up, rows may also be interrupt lines of the expander.
  That one expander serves both uses is what makes `aw9523b_get()` and the INT handler compete for the same input register.
* The touchscreen and the panel are one SSD2092 package on two buses (I2C and DSI); their drivers do not talk to each other.
* The CONSYS driver takes two MT6351 rails, the CONN power domain and an EMI window before it talks to the MCU over BTIF.
* The vendor driver's threads meet in four places: the word `work_procedure` (initialising, upgrading, in a mode, in
  a frame), its semaphore `work_procedure_lock`, the interrupt's disable depth, and the ring of raw frames. The interrupt
  thread, the ioctls and sysfs calls, the firmware callbacks and the power-management calls all change some of them, and not
  all take the semaphore. `Ssd20xxWork`, `Ssd20xxReport` and `Ssd20xxBoot` are three views of that driver (who may
  work, what a frame does, how it comes up); `Seeprom` is what all of them call when they write the flash.
* The port's recovery (`input/0002:444`) claims to mirror the vendor's: `SsdTouch` and `Ssd20xxReport` model both.
* The panel is a child of the DSI host: host registration can call attach at once, the panel's init table goes
  through host transfers, and these wait for the interrupt that power-on enables.
* The left USB port joins the CC controller (role), the PHY (forced session), the boost regulator of the charger
  (VBUS) and the controller's runtime PM, which `99-gemini-usb-host-pm.rules` pins on.

### 1.3 What is hard

* **Interleaving.** Nothing holds the INT line or the touch controller still between two transfers: the handler's
  two reads, the poll's length and records, a `get()` in between.
* **Crash recovery.** Power may go between the erase of the flash, the configuration that holds the version, and the
  program behind it; the next boot finds a version without a program.
* **Locks by convention.** The vendor driver guards the controller by disabling the interrupt, by a semaphore and by a word,
  in an order that differs from call to call; some calls use none, and the handler spins.
* **Partial failure.** Almost every step is a bus transfer that can fail, sometimes after it has taken effect:
  a cached register, a half re-initialised MCU, a firmware file half sent.
* **Unreliable delivery.** WMT answers can be lost, wrong, or late enough to be taken for the answer to a later command.
* **Stale state.** Contacts in the input core's slots across a chip reset; a cached register across a failed write;
  a register that echoes its own address.
* **Liveness.** A polled chip stays silent until acked; a level-low INT stays low until its port is read; a boot
  must not hang on an MCU that does not answer.

`PROJECT.json` lists the hazards at their lines with the property that covers each, or why none does. Not listed there, because
their component is not modelled and they are smaller than those that are: two FUSB301A registers read in two transfers
(`usb/0001:111`) and the unchecked hand-back to SINK (`usb/0001:197`); the controller found in video mode (`drm/0013:19`), an
interrupt before the first atomic state (`drm/0012:44`), a mutex device without a driver (`drm/0010:34`); an enable that
fails after its set-up (`regulator/0002:147`); a staged script that reboots and is run again (`run-once-exec`); CONSYS script commands
whose failure is ignored on purpose (`soc/0003:530`), the drain's 64 bytes (`soc/0003:458`) and the power domain the PM core may
power before probe (`soc/0003:843`).

## 2. Plan

Done, in the order of what matters most:

1. `SsdTouch` – the touchscreen of the port with its chip; proofs.
2. `Aw9523b` – the expander with its regmap cache; proofs.
3. `Consys` – power sequence and firmware gate; proofs.
4. `FlashUpdate`, `FwFile`, `Seeprom` – what an update promises, the parser, and the update that implements the promise;
   proofs.
5. `RawQueue`, `Ssd20xxWork` – the ring, and everybody who takes the controller; proofs.
6. `Ssd20xxReport` – frames, recovery, suspend and resume; proofs.
7. `Ssd20xxBoot` – probe, the two firmware loads, loss of power; proofs (`Ssd20xxBootProofs`, `Ssd20xxVersionProofs`).

Left:

* A termination measure like `AttemptsRunOut` and `GateRunsOut` for the boot of `Ssd20xxBoot`.
* An abstract expander (a pin has one drive value that changes in one call) that `Aw9523b` implements; `DriveAsAsked` and `SuccessTakesEffect` are its two
  halves.
* The keypad and the display stack, should their drivers ever be part of the repository.

The set of runs is meant to stay small: one passing run per question, and a run that only documents a finding is dropped when
the code is fixed, or when a deeper one takes its place.

## 3. Modules and code

Every module is a state machine whose variables are the driver's fields, its program counter where a handler
has several transfers, and the chip or remote end it talks to. A driver step is one bus call, one wait, or one critical
section: what the scheduler, the bus and the chip can get in between is exactly what can come between two steps.
`PROJECT.json` maps each definition to its lines.

### 3.1 `SsdTouch`

| Code | Model |
|---|---|
| `ssd2092_probe` | `ProbeStart`, then the shared sequence with `ctx = "probe"`, then `Register` |
| `ssd2092_hw_reset`, `ssd2092_wait_int` | `HwReset`, `WaitReady` (a timeout fails the sequence) |
| `ssd2092_ds_handshake` | `DsHandshake` once per transfer (`DsSteps`), `WaitLive` (a timeout is only a warning) |
| `ssd2092_tmc_config` | `TouchMode`, `ReadX`, `ReadY`, `ReadPointNum`; `ts->max_x` is written before it is checked |
| `ssd2092_reinit` | the same sequence with `ctx = "aux"`; its errors return to the poller |
| `ssd2092_poll` | `PollStart`, `ReadSnl`, `ReadSnlAlt` (the re-read at 0x00F0), `Branch`, `ReadAux`, `ReadPoints`, `Ack` |
| `ssd2092_report_points` | `ReportPoints` over the input core's slots |
| the chip | `ChipReady`, `ChipLive`, `ChipLatch`, `ChipAux`, `ChipRestart`, `AckEffect` |

A report is a sequence of records `[id, down]`; coordinates, weights and the checksum's arithmetic are abstracted to
whether the checksum is where the driver looks for it (`ChecksumOk`). The length is read in one step and the
records in another, so the chip may re-latch, restart or echo between them. `int_clear` may drop what was latched after
the read: the source does not say, so both happen.

### 3.2 `Aw9523b`

| Code | Model |
|---|---|
| `aw9523b_probe` | `SoftReset`, `Identify`, `Configure`, `AddGpiochip`, `Seed0`, `Seed1`, `RequestIrq`; consumers may call from `AddGpiochip` on |
| `direction_output` | `Latch` then `Direct`, each a regmap update |
| `direction_input`, `set`, `get_direction`, `get` | `DirectionInput`, `Set`, `GetDirection`, `Get` |
| `irq_bus_lock`, `irq_mask`/`unmask`, `irq_bus_sync_unlock` | `IrqBusLock`, `IrqMaskUnmask`, `Sync0`, `Sync1` |
| `aw9523b_irq_handler` | `HandlerStart`, `ReadP0`, `ReadP1`, `Changed`, `NestedIrq` per line |
| regmap (external) | `Bits`, `UpdateOk`, `UpdateFail`: atomic read-modify-write on a cached copy that a failed write drops |
| the chip (external) | `Pads`, `Pending`: INT is asserted while an unmasked line differs from what was last read of its port |

Each line has one consumer thread, so concurrent calls on the same port interleave at every transfer. A failed write
may have reached the chip.

### 3.3 `Consys`

| Code | Model |
|---|---|
| power-on sequence of `mtk_consys_spike_probe` | `Vcn18` ... `ChipId`; error labels in `Unwinding` |
| `consys_gate_g2b` | `EmiSetup`, `BtifClk`, `ReleaseMcu`, the queries, the verdict (`After`) |
| `wmt_cmd_evt` | `Transmit`, the MCU's step, `Drain` with `Result` |
| `wmt_run_script`, `wmt_push_patch`, `wmt_firmware_push` | where an exchange leads by its result: `AfterScript`, `AfterPatch`, `NextPatch`, `Load` |
| driver detach | `Unbind`: there is no remove(), only the PM core's detach |
| the MCU (external) | `McuAnswers`, `LateEvent` |

A command is identified by where the driver sends it; an event only by its kind, as on the wire, so the late event of
one reg-write can pass for the answer to another.

### 3.4 `FlashUpdate`, `FwFile`, `Seeprom`

| Code | Model |
|---|---|
| comments on what an update returns | `FlashUpdate`: `Begin`, `Refuse`, `Write`, `Succeed`, `Fail` |
| `solomon_make_link`, the line parser of the merged file | `FwFile!Parse`, a fold of `ReadLine` over lines that are a marker, a number, or a blob of data |
| `solomon_firmware_pre_boot_up_check_head`, `_bin`, `solomon_firmware_update_byfile` | `PreBootUpCheckHead`, `PreBootUpCheckBin`, `UpdateByFile`, started by `Ask` |
| `ds16_seeprom_firmware_update` and `_by_section` | `BySection`: where the update goes when a command of it `Succeeded` or `Failed`; `SectionFailed` has the second pass of a whole-chip update |
| one SPI command with its write enable and its wait | `Wren`, `Cmd`, `WaitBusyClear` |
| verify | `Verify` over `ReadNbyte` |
| the MX25 flash (external) | `Receive`, `ChipDone`: a command needs the write enable, an erase or a program also that nothing is protected; a busy chip ignores it |

An address is an address, but a flash cell is the byte number of a content, so that a wrong or missing byte shows while no byte has a
value. The image of `ssd20xx_upgrade.h` is the constant `Image`, a list of section descriptors.

### 3.5 `RawQueue`, `Ssd20xxWork`

`RawQueue` is the ring with the code's index arithmetic. `Ssd20xxWork` runs any number of processes over it: a call is a
`kind` and a place in it. What a kind takes before it works is `FirstPlaces` (the touch mode
is set by ioctl or by sysfs, which clears the ring first), `DisableIrq`, `Synchronize` (disable_irq() waits for a
running handler), `Down`, `TakeUnasked` (those that write the word without the semaphore), `CopyIn`; what it does is
`Flash`, `RegBody`, `ModeBody`, `MptestBody`, `MpStart`, `MpStop`, `SetSkip`, `ModeRead`; what it gives back, in the
code's order, `Release`, `EnableIrq`, `Up`, `ClearUnasked`, and `MpCopyFails` for the way out that gives nothing back. `GetFront`, `CopyOut`,
`Drop` are GET_RAW_DATA, `Reset` and `StopLater` the calls that ask nobody. The handler is `HandlerStart`, `TryLock`, `Spin`,
`Dispatch`, then `RawData`, `AgingData` (the points in an aging mode, which fill the ring without `raw_data_lock`) or
`MpStatusFails`, `MpBegin`, ..., `Unlock`, `Out`, with the frames it clears unread (`HandlerClear`).

INT is released by writes over I2C whose result the code ignores (`int_clear_cmd()`, the reset of `sint_unstall()`): `MayRaiseInt` in
a call, `ClearInt` for the handler's last write of a frame, each of which may fail; only the reset pin always releases it (`IntUp`). If
`ClearInt` fails with no edge waiting nobody tries again: `unanswered`.

### 3.6 `Ssd20xxReport`

| Code | Model |
|---|---|
| `solomon_read_points` | `ReadSnl` (`StatusRead`), `ReadAux` (`AuxRead`), `ReadPoints` with `retry` and `state_flag` (`Garbled`); `Out`, `OutReset`, `Checksum` for its labels |
| `solomon_pre_init`, `solomon_init_config` | `ReadBootSt`, `InitCode`, `DsClearInt`, `Unstall`; `InitConfig`, after which there is nothing to report (`ReportNone`) |
| `solomon_check_skiptime` | `SkipTime`, possible once after a change of the touch mode (`TouchMode`) until `m_point_skip_time` is zeroed |
| `solomon_report` | `ReportNone`, `ReportPoints`, `ReportKey`, `ReportPalm`, `ReportGesture`; `release()` is `Release` |
| suspend, pre_on, resume | `Suspend` and `Suspended`, `PreOn` and `PreOnEnd`, `Resume`, `LpmEndClear`, `ResumeEnd`: each in the transfers between which the handler may run |
| the controller (external) | `Frame`, `Sleep`, `Gesture`, `DisplayOn`, `Crash`, `Boots`, `Starts` |

### 3.7 `Ssd20xxBoot`

probe() (`PowerOn`, `ProcessVersion`, `RequestIrq`), the loads (`LoaderStart` to `LoaderEnable`) and the handler (`HandlerStart` to
`HandlerOut`) share the actions of solomon_pre_init() and solomon_fw_update() (`Common`), which is how the code shares them. Of the error bits
`boot_flag` has those that force an update (`Forced`: the flash was at fault) and `info_flag` the others (a bad trim), which send the handler and probe() to the
update check all the same (`BootError`). An
update is three stages here (`EraseFlash`, `WriteConfig`, `WriteBody`); their inside is `Seeprom`'s. `PowerLoss` may come at any
step; the flash and the files outlive it.

### 3.8 Model-checking and proof modules

The `MC` modules extend their component with the finite values the `.cfg` files refer to. The `Proofs` modules extend their
component and TLAPS. Definitions commented `mutant` are deliberate bugs, each a variant of the definition below it; nothing
in the models uses them. Putting one in place of that definition makes the named property fail, which shows the property is
sensitive to the code.

## 4. What the runs show

| Run | Config | Question | Result |
|---|---|---|---|
| touch_frames | `SsdTouchFrames` | Do the contacts userspace sees always come from one report of a live MCU, whatever the chip does between the two reads? | `ContactsFollowReport` holds |
| touch_polling | `SsdTouchLive` | Are the axes usable for every answer of the chip, and is every latched report eventually consumed? | `AbsRangeUsable`, `ReportConsumed` hold |
| touch_stalled | `SsdTouchStalled` | Does a stalled MCU come back? | violated, finding |
| gpio_drive | `Aw9523bDrive` | Does a pin only do what its own call asks, with concurrent neighbours and failing writes; and is a call that returns success done? | `DriveAsAsked`, `SuccessTakesEffect` hold |
| gpio_irq | `Aw9523bIrq` | Does the mask reach the chip; are events neither doubled nor lost; is every change read? | `MaskReachesChip`, `NothingLost`, `EventsAlternate`, `ChangeSampled` hold |
| gpio_get_eats_event | `Aw9523bGet` | Are press and release reported when somebody else reads the port? | violated, finding |
| consys_gate | `ConsysGate` | Power order, meaning of the verdict, order of fragments, end of a failed push, termination, with a file that is missing or has no body | all hold |
| seeprom_update | `SeepromUpdate` | Does an update that reports success leave the whole image, fail only by failed transfers, put the protection back, and end, from each of the three sources and for every line of a file garbled? | all hold: `ImplementsFlashUpdate` is the safety of `FlashUpdate`, `EveryUpdateEnds` its fairness, `AttemptsRunOut` the measure that makes it end |
| seeprom_corrupt | `SeepromCorrupt` | ... and from a garbled bin file at boot? | violated, finding |
| vendor_work | `Ssd20xxWork` | Three calls of two processes against the interrupt thread: is everything given back, the flash written alone, the word the handler's while it reads, no frame torn, every call returned, every frame answered? | all hold |
| vendor_report | `Ssd20xxReport` | Do contacts and keys follow the controller through checksum errors, resets, suspends; is every frame answered; does a reset controller run again? | all hold |
| vendor_boot | `Ssd20xxBoot` | Whatever the flash held, whatever the files, wherever power was lost: no downgrade, one writer, and the touch comes up? | all hold |

Some properties hold only up to a named condition, which is part of the statement, and every condition is something the code does
not handle:

* `NothingLost` and `MaskReachesChip` while no transfer has failed (`faults = MaxFaults`), and `NothingLost` only for lines whose port
  nobody reads with `get()`; `NoBlindFragments` up to the first fault; `ProtectRestored` without a failed transfer.
* `leaked` in `Ssd20xxWork`: an MP_TEST whose argument could not be copied keeps the interrupt disabled and the word taken for good
  (`ssd20xx.c:1741`). `disturbed`: a reader's frame was cleared, skipped or dropped from under it. `unanswered`: the handler's own last write
  for a frame, which releases INT, failed (`ssd20xx.c:2438`, `2529`, `3527`, `3536`, and `2411` where a reset does it): its result is ignored, nobody repeats it,
  and with no edge waiting INT stays low until a call resets the controller. Any other failed transfer is made good (`IntAnswered`).
* `accidents` in `Ssd20xxReport`: the transfer that clears INT failed (`clear`), a re-initialisation stopped half way (`boot`),
  a gesture set `m_power_status` after resume had looked at it, or the next suspend overwrote it, or a power command reached a CPU that waits for its initialisation (`late`), the
  transfer of a frame failed or resume cleared it unread (`dropped`), a frame was being read while suspend released the contacts (`suspend`), `lastValidCnt` was
  zeroed by a frame without contacts (`uncounted`), the frame that announces a reset was thrown away unread
  because it came within 32 ms of a change of the touch mode (`skipped`, `ssd20xx.c:3134`): the controller then waits for an initialisation that nobody
  makes. A frame with contacts that is thrown away like that counts as `dropped`.
* `accidents` in `Ssd20xxBoot`: a transfer of the boot failed (`boot`), the flash is blank (`blank`: the controller stays silent and the next boot repairs
  it), the interrupt or the error bits were used before the loader had them (`early`: `request_threaded_irq()` resets the depth the
  loader has raised, or probe() finds the word already changed and writes the flash itself).
  With `boot`, a handler that could not read the error bits again acts on those of the first time, and writes the same file once more
  (`NoDowngrade`, `ssd20xx.c:3185`). So does one that a bad trim sends to the update check, if an earlier update, asked for by the boot bits, has left the
  checksum error standing (`info_flag`, `ssd20xx_upgrade.c:963`).

Each is a variable of the model, so the property says precisely that nothing else goes wrong.

## 5. Findings

1. **A failed re-init is final** (run `touch_stalled`, `input/0002:447`). If any transfer or wait between reset and unstall fails, the MCU stays
   in its bootloader. Later polls see echoes with bad checksums, ack, and never reset: the touchscreen is dead until the next
   probe. The vendor driver resets the chip at that point, which is what `Recovers` of `Ssd20xxReport` shows.
2. **`get()` eats key events** (run `gpio_get_eats_event`, `gpio/0001:252`). Reading an input register releases INT; `get()` does not
   update `prev_state`, so a change it reads first is reported only with a later one, or never if the line moves back.
3. **A corrupt bin file is flashed as a success** (run `seeprom_corrupt`, `ssd20xx_upgrade.c:1013`). The error of the parser is
   overwritten by the result of the update: the chip is erased, nothing is written, and 0 is returned.

Observed while modelling, with no run of their own:

* A finger that was down at an AUX event stays down until the next frame, where the vendor's driver releases every contact first
  (`input/0002:545`; `RestartReleases` is that property of the vendor's).
* The handshake's INT timeout is only a warning, and registers that still echo give 0x0056 x 0x0057, inside the 1..4095 window
  (`input/0002:433`).
* A failed read of port 1 throws away the sample of port 0, whose INT is already released (`gpio/0001:338`).
* The push's result is overwritten by the final query's, which the boot ROM answers either way (`soc/0003:770`); a missing firmware
  file returns between clock-up and restore (`soc/0003:673`).
* An AUX bit in the same status word as a boot bit is acked without a re-init (`input/0002:540`); "sequence rolled back"
  (`soc/0003:908`) leaves sleep mask, MCU reset and SPM key as they were set; "Teardown happens on driver unbind"
  (`soc/0003:897`) has no remove() behind it.
* An update by sections has no second pass, because its error is never reset at `retry_all` (`ssd20xx_mx25v100.c:1033`), so the first
  erase, sent to a chip still busy with its status register, can fail it with no failed transfer.
* solomon_remove() can deadlock with the interrupt thread (`ssd20xx.c:4299`).

## 6. Bounds and fairness

| Bound | Value | Why it is enough |
|---|---|---|
| `SsdTouch.MaxPoint` | 2 slots (10 in the code) | slots are only compared with each other; two show a finger kept while another is released, and the reports include a key record, a finger id with no slot and one record too many |
| `SsdTouch.AxisLast` | 2 | one finger id beyond the slots (ids 10 to 14 in the code) |
| `SsdTouch.MaxFaults` | 0 or 1 per run | one failed or corrupted transfer at any step; retries are also exhausted by echoes, which are not faults |
| `XResolution`, `YResolution` | a good and a bad value each | the code compares with 0 and 4095 only, and the default |
| `Aw9523b` lines | 2 or 3 of 16 | two lines of one port show sharing, one line of each port shows the two reads and the mask pair |
| `Aw9523b.MaxFaults` | 0 to 2 | two: a failed write and a failed read after it, the way a stale copy could be used |
| `Consys.Frags`, `Unusable` | `<<3, 1>>`, `{2}` | a file with first, middle and last fragment, and one where they coincide, which may be missing or have no body |
| `DlmLen`, `UpLen`, `DnLen` | 1, 2, 2 (3, 4, 3 in the code) | first and last reg-write apart; the clock is selected by the last, deselected by the first |
| `Consys.MaxFaults` | 3 | lost, late and failed together |
| `Seeprom` flash, pages, sections | 12 bytes, 2, 3 and an empty one | a section that starts inside a page and shares a sector with another, one that fills a page and a part, one that is not erased itself: the layouts of `ssd20xx_upgrade.h` |
| `Seeprom.MaxFaults`, `Retries` | 3, 3 (the code's) | three failures exhaust one chunk's attempts; more only repeat what a round does |
| `Ssd20xxWork.Procs`, `MaxCalls` | 2, 3 | one that reads and one that updates; three calls are two at once and one more after either has ended |
| `Ssd20xxWork.QueueSize`, `SkipFrames` | 2, 2 (11 and 100 in the code) | a ring that holds one frame is full and empty by turns; a frame that is skipped and one that is not |
| `Ssd20xxWork.MaxFrames`, `MaxFaults` | 2, 1 | a frame while the last is being read, and one failed transfer or copy |
| `Ssd20xxReport.Ids`, `Keys` | 2, 1 | one finger stays while another goes; a key between two frames of points |
| `Ssd20xxReport.MaxFrames`, `MaxFaults`, `MaxCalls` | 3, 1, 1 | a recovery needs two frames (what asks for it, what its boot sends); a third meets its end; the call is a suspend or a change of the touch mode |
| `Ssd20xxBoot.MaxCrashes`, `MaxFaults` | 2, 2 | a loss of power during the repair of what another loss has left; two failures, of a transfer or of the trim a controller starts with, are what it takes to cut an update short and then act on error bits that could not be read again, or on a checksum error that was left standing |
| `Ssd20xxBoot.Flashes`, `FileSets` | 8, 3 | each outcome of the version test, and each source of a file |

`MaxFaults` bounds how often the environment misbehaves in one behaviour, nothing else: fault-free behaviours are unbounded.
Every other counter is bounded by the code itself (three tries, the length of a script). No run uses a state
constraint. The CONSYS drain's 64-byte limit cannot be met with the late events these bounds allow.

Larger instances were tried once, without a violation: four faults for `Seeprom` and `Consys`, two for `Aw9523b`'s interrupts and for
`Ssd20xxWork`, three frames for `Ssd20xxWork`, and for `Ssd20xxReport` two calls with two frames, and, for its invariants alone, two calls with
three frames. They take too long to be run each time.

Deadlock is not checked where the systems really stop: a probe that has failed, an expander none of whose lines move,
a gate that is done, a controller nobody touches when the frames and calls of the bounds are used up. `seeprom_update` checks it:
there a new call can always be made.

Fairness, stated in each `FairSpec` and used only by the liveness properties:

* `SsdTouch`: weak fairness of the driver as a whole, because the input core re-queues the poller; of `ChipReady` and
  `ChipLive`, because a reset chip comes up. Touches, AUX events and restarts are not promised.
* `Aw9523b`: weak fairness of the handler thread, which a level interrupt keeps waking. Consumers owe nothing.
* `Consys`: weak fairness of the driver and of the outcome of an exchange: each wait in the code has a timeout, so losing the
  answer is one of the outcomes. The MCU itself is not assumed to answer.
* `Seeprom`: weak fairness of the driver, every loop of which counts its attempts, and of the flash chip finishing what it has begun.
  Calls are not promised.
* `Ssd20xxWork`: weak fairness of the interrupt thread and of every call under way (a semaphore that is free is taken, a thread that
  is runnable runs). That weak fairness of down() is enough rests on the bounded number of calls: no caller is overtaken for ever.
* `Ssd20xxReport`: weak fairness of the thread, of the power-management calls and of the controller's own boot; fingers, crashes,
  suspends and changes of the touch mode are not promised.
* `Ssd20xxBoot`: weak fairness of probe(), loader, handler and controller. Losses of power are bounded by `MaxCrashes`, so `ComesUp` says what
  happens after the last one.
* `FlashUpdate` has weak fairness of its outcome; that `Seeprom` implements its safety is `ImplementsFlashUpdate`, its fairness
  `EveryUpdateEnds`.

## 7. What is proved

Every theorem holds for all values of the constants allowed by the module's assumptions (`TouchAssumption`,
`ExpanderAssumption`, `ConsysAssumption`, those of `Seeprom`, `Ssd20xxWork`, `Ssd20xxBoot` and `Ssd20xxReport`), which only give the constants their types and
keep the two ports, and the lines used for driving and for interrupts, apart. TLC evaluates the assumptions in each run.

| Theorem | Statement | Argument |
|---|---|---|
| `SsdTouchProofs!TypeCorrect` | `Spec => []TypeOK` | needs `RetryLeft`: a read of the status word always has a try left, otherwise `retry` is unbounded |
| `SsdTouchProofs!AbsRangeCorrect` | `Spec => []AbsRangeUsable` | `GeometryInv`: at `Register` the geometry has just been checked, on whichever path led there |
| `SsdTouchProofs!ContactsCorrect` | `Spec => ContactsFollowReport` | `OwnSlot` (in a regular report a record lands in the slot it names), `ActiveIsDown` (so the slots down afterwards are the fingers down), `NothingDown` (an all-zero packet releases, and reports nothing) |
| `Aw9523bProofs!TypeCorrect` | `Spec => []TypeOK` | part of `DriveInv` |
| `Aw9523bProofs!DriveCorrect` | `Spec => DriveAsAsked` | `DriveInv`: a cached copy equals the register on its port (`CacheCoherent`), kept through failed writes because the copy is dropped; the latch holds the level before the direction changes (`LatchSet`); nobody calls before the gpiochip exists (`NoEarlyCall`), and a reset meets an empty cache (`EmptyCache`) |
| `Aw9523bProofs!SuccessCorrect` | `Spec => SuccessTakesEffect` | `DriveInv` again: a call that ends without an error has just had an update that succeeded (`Returns`), after which the register holds the bit whether or not it was written (`CacheCoherent`), and `LatchSet` gives the level |
| `Aw9523bProofs!EventsCorrect` | `Spec => EventsAlternate` | `ToldInv`: what a line was last told is the sample kept in `prev_state`, except while it waits to be dispatched, when it is the opposite |
| `Aw9523bProofs!MaskReachesChipCorrect` | `Spec => []MaskReachesChip` | `MaskInv` (what `HeldInv` says is held is masked at the chip or about to be written) |
| `Aw9523bProofs!NothingLostCorrect` | `Spec => NothingLost` | `SampInv`: a port's interrupt is down only when the sample last read is the level of its lines |
| `ConsysProofs!TypeCorrect` | `Spec => []TypeOK` | with `PhaseInv`: an exchange is in progress only in a stage that makes one |
| `ConsysProofs!PoweredCorrect` | `Spec => []PoweredInOrder` | `PowerInv` ties rails, domain, EMI, clock and reset to the stage, error labels included |
| `ConsysProofs!FailedPushCorrect` | `Spec => FailureEndsPush` | `PushInv`: once the push has failed only the restore, the final query and the end are left |
| `ConsysProofs!PassCorrect` | `Spec => []PassIsAnswered` | `AnswerInv`: a query event waiting or still to come is the answer to an executed query |
| `ConsysProofs!NoBlindFragmentsCorrect` | `Spec => []NoBlindFragments` | `BlindInv`: before the next patch is looked at, whatever was written belongs to a file with a body and a query that was answered |
| `ConsysProofs!GateRunsOutCorrect` | `Spec => GateRunsOut` | `IndexInv`: an index counts up to the length of its script or file, never past it; then one case per edge of the stage graph: which number gets smaller (`AfterShrinks`, `StepShrinks`) |
| `SeepromProofs!TypeCorrect` | `ListsFit => (Spec => []TypeOK)` | `TypeInv`: the place is in a section of the list that has data, at one of its bytes or sectors, and the chip is at a command of one of the driver's operations; needs the arithmetic of pages (`PageFacts`, `ChunkFacts`: a chunk begins where the last has ended, and the last one ends with the section) |
| `SeepromProofs!AttemptsCorrect` | `ListsFit => (Spec => AttemptsRunOut)` | `TypeInv` (all seven numbers of `Remains` are natural) and one case per step of the driver: which number gets smaller, with those before it unchanged |
| `SeepromProofs!UpdateImplements` | `ListsFit /\ ListsIntact => (Spec => ImplementsFlashUpdate)` | `FlashInv`: `WrittenInv` (each section before the one at hand is `Safe`: in the flash, and out of reach of the command the chip is at) and `OutcomeInv` (the outcome is settled on the way to the protection, and after a success every section is `Safe`); then each step maps to a step of `FlashUpdate` or a stutter (`StepImplements`) |
| `SeepromProofs!SuccessFlashed` | `ListsFit /\ ListsIntact => (Spec => []SuccessMeansFlashed)` | `OutcomeInv`; the lists of `seeprom_corrupt` are not `ListsIntact`, and that run violates it |
| `SeepromProofs!CleanUpdateSucceeds` | `ListsFit /\ ListsApart => (Spec => []FailureNeedsFaults)` | `CleanInv`: the first pass may miss commands but leaves the array open and the chip at rest when anything is read back (`FirstPass`); in the second, what is not written yet is blank (`BlankFrom`, `UpTo`), so what is programmed reads back (`SecondPass`) |
| `SeepromProofs!ProtectRestoredCorrect` | `NoHollowFile => (Spec => []ProtectRestored)` | `ProtectInv`: by the place the driver is at, what the status register command in flight will leave; a wait that looks at the chip comes between the two commands as soon as one section is written. `NoHollowFile` is that a file by name is refused or writes something; without it the theorem is false, and TLC evaluates it as an assumption of `MCSeeprom` |
| `Ssd20xxWorkProofs!TypeCorrect` | `Spec => []TypeOK` | no semaphore is given back twice: part of `WorkInv` |
| `Ssd20xxWorkProofs!WorkReturnedCorrect` | `Spec => []WorkReturned` | `Core` of `WorkInv`: what each process has taken follows from its kind and place (`PathInv`), the depth of the interrupt is one for each that masks it (`DepthInv`), the semaphore is free or has one holder, handler included (`LockInv`, `WordInv`) |
| `Ssd20xxWorkProofs!FlashAloneCorrect` | `Spec => []FlashAlone` | whoever masks and has synchronised finds the handler idle, and it cannot start while a depth is positive |
| `Ssd20xxWorkProofs!HandlerOwnsWordCorrect` | `Spec => []HandlerOwnsWord` | those that write the word without the semaphore mask the interrupt first |
| `Ssd20xxWorkProofs!NoTornFrameCorrect` | `Spec => []NoTornFrame` | `RingInv`: an undisturbed reader copies the front slot of a ring that is not empty, and the slot being filled is its rear slot, unless it is empty |
| `Ssd20xxWorkProofs!AnswerOwedCorrect` | `Spec => []AnswerOwed` | the safety behind `IntAnswered`: while INT is low an edge waits, or the handler still has a write to make, or that write has failed. `UpdateInv`: the handler lets an edge go only in TS_IN_UPGRADE, which lasts no longer than a call that masks the interrupt |
| `Ssd20xxReportProofs!TypeCorrect` | `Spec => []TypeOK` | `TypeInv`: fingers come only in frames of points, keys only in frames of keys, so the count and the contacts stay within `Ids` |
| `Ssd20xxReportProofs!NoGhostContactCorrect` | `Spec => []NoGhostContact` | `ContactInv`, which holds until an accident: a frame of points in hand is the one presented (`PointsInv`), and while none is in hand a contact that is gone is contradicted by a frame that waits or by a restart (`GhostInv`); the count is zero exactly when there is no contact (`CountInv`) |
| `Ssd20xxReportProofs!RestartReleasesCorrect` | `Spec => []RestartReleases` | `ContactInv`: the controller is started only by the handler, which has released first (`BootInv`, `DownInv`) |
| `Ssd20xxBootProofs!TypeCorrect` | `Spec => []TypeOK` | the disable depth is at most one: `HoldInv` |
| `Ssd20xxVersionProofs!NoDowngradeCorrect` | `Spec => []NoDowngrade` | `BootInv` and `VersionInv`: until the decision of a load that is due is taken, the version read and the error bits are those of the flash as it is (`FlagInv`), because the handler only updates when the word was free, and the word is free when the loads are over (`FreeInv`); a checksum error is that of the flash as it is (`ChipInv`), or an update asked for by the boot bits has left it standing (`Asked`, `Again`); error bits that outlive a repair belong to a flash that holds the driver's own file (`FileInv`) |
| `Ssd20xxBootProofs!OneWriterCorrect` | `Spec => []OneWriter` | `BootInv`: from disable_irq() of the first load to enable_irq() of the second the depth is one and the handler idle, the wait between the two included (`IrqHeld`), nothing is loaded before probe() asks, once (`LoadInv`), and probe() updates only by accident (`ProbeInv`) |

In each case the property alone is not inductive; the invariant named is, and the proof has the usual three parts:
the initial states satisfy it, every action preserves it (one step per action), and it implies the property.

The theorems about `Seeprom` are about lists of sections, and say of them what the headers and files have to say; each hypothesis is
a definition of `Seeprom`'s last section, and `MCSeeprom` assumes all four, so TLC evaluates them on the files of the run:

| Hypothesis | What it says | Why the code needs it |
|---|---|---|
| `ListsFit` | the sections are inside the flash | nothing in the code compares an address with the size of the flash |
| `ListsIntact` | a list that reaches the chip holds the whole image, and writing or erasing a section leaves those before it alone; a file without a section is an error | the parser's checksums are of each section, not of the list; sectors are erased whole, and the first chunk of an unaligned section runs to a page boundary. A corrupt bin file at boot is not intact: finding 3 |
| `ListsApart` | with the chip blank, writing a section leaves every other one alone; `FW_MAX_RETRY_COUNT` is at least two | the second pass is what makes good the commands that the chip ignored |
| `NoHollowFile` | a file by name is refused, or writes something | between the two status register writes nobody waits for the chip unless something is written |

The sections of `ssd20xx_upgrade.h` (`0x0`, `0x1c0`, `0x1000`, `0x13000`, `0x16000` and `0x18000`, pages of 256 bytes and
sectors of 4096) satisfy them: they are disjoint, the one that does not start on a page (`0x1c0`) is longer than the rest of its page, and the
header goes to the whole chip, so that nothing is erased once something is written.

Only model-checked: the liveness properties (`ReportConsumed`, `ChangeSampled`, `GateTerminates`, `EveryCallReturns`, the two
`IntAnswered`, `Recovers`, `ComesUp`, and `EveryUpdateEnds`), since the prover does not handle fairness and `ENABLED`. Of some of them the theorems have the part
that needs no fairness: no step of an update (`AttemptsRunOut`) or of the CONSYS gate (`GateRunsOut`) leaves as much to do as it found; of `IntAnswered` of
`Ssd20xxWork` they have that the handler always still owes the answer (`AnswerOwed`).
Also only model-checked: what the parser of `FwFile` makes of a file, which is a fold and would need induction: the
theorems about `Seeprom` hold whatever it computes, as long as the lists it hands over are those of the hypotheses.

## 8. What is not covered

* The parts marked not modelled in 1.1. Most are patches of a few lines to kernel drivers that are not in the repository, of which
  a model would be external code for the larger part; the rest is data, straight-line tooling or arithmetic without state.
* Of the vendor driver: the branches its build leaves out (ESD timer, early suspend, protocol B, MediaTek ESD recovery), the ioctls that only copy
  a configuration word, sysfs formatting, probe()'s error exits before the controller is touched, and solomon_remove().
* The three views of the vendor driver are not composed: an update is one step of `Ssd20xxWork` and three of `Ssd20xxBoot`; `Ssd20xxWork`
  takes a frame as read or failed, `Ssd20xxReport` has its recovery; of a change of the touch mode `Ssd20xxReport` has the time it sets, `Ssd20xxWork` the locks.
* A controller that finds its trim bad at every boot: the handler resets it, finds nothing to update, and is called again by the next boot's frame,
  for ever. `Ssd20xxBoot` counts such boots among its `MaxFaults`, so `ComesUp` is about one whose trim is bad a bounded number of times.
* Of the 32 ms of `solomon_check_skiptime()` there is no clock: after a change of the touch mode the first frame it applies to may be skipped or
  not. The other place that asks for it, a length over the maximum (`ssd20xx.c:3152`), is not reached, because the controller presents no such length.
* An update by a file of length zero: it is not parsed, and 0 is returned with nothing written. `ListsIntact` excludes such files; the run has none.
* Inside the modelled drivers: coordinates and touch weights, the arithmetic of checksums, log texts, the exact
  delays, the bytes of WMT commands and the lengths of fragments. The models keep the control they lead to.
* Where the source does not say what a chip does (what INT_CLEAR drops, whether both status bits can be raised together,
  what a soft reset leaves in the latches), the models allow every answer, so what is shown holds for each.
* The kernel around the drivers (input core, gpiolib, regmap, PM core) is modelled from how the drivers use it and is
  marked external in the map.

## 9. Running

    tlc -workers 2 -config SsdTouchFrames.cfg MCSsdTouch
    tlapm SsdTouchProofs.tla

Each passing run takes well under three minutes. A proof module takes about two, `Ssd20xxBootProofs` four, `Ssd20xxVersionProofs` seven.
