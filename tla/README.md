# Verification of the meta-gemini boot and update system

meta-gemini is a Yocto layer for the aesys boards. The logic of its own has two
parts. The *dual boot*: a system is installed twice, as half `a` and half `b`;
one half runs while the other is updated; U-Boot decides at every boot which
half to start. And the *way to a kernel* on six boards: a loader that brings up
supply and memory, the boards' code in U-Boot, which finds out the revision and
sets up console, Ethernet and USB, and a boot command of some 150 lines of hush
scripts. This directory models both, checks them with TLC and proves their
central safety properties with TLAPS.

## 1. The system

### Parts and how they interact

| part | source | state it keeps | operations |
|---|---|---|---|
| secondary program loader | `aesys_<board>/spl.c`, `lpddr4_timing.c` | PMIC registers, the trained memory | `board_init_f`: supply, interrupt controller, memory, boot device |
| U-Boot board support | `aesys_<board>.c` | console pads and mode, revision found, `IOMUXC_GPR1`, USB PHY registers, link | `board_early_init_f`, `custom_board_fix_fdt`, `board_init`, `board_late_init`, USB device start and stop, `board_phy_config` |
| U-Boot environment and boot command | `gemini_env.h`, `include/configs/aesys_<board>.h` | the environment in memory and as saved, the shell's variables, what is loaded where | `bootcmd`: detection, network attempts, `mmcargs` with `db_swap_requested`, FIT image, plain kernel |
| initramfs `/init` | `init-aesys.sh` | files of the halves, `*.update`, `persist.bin`, `firstinit.pending` | mount, grow data, create `persist.bin`, apply updates, mount extras, SecureFS checks, overlays, `switch_root` |
| `dual-tool-id.sh` | same directory | `/data/.sys/a.id`, `b.id` | compute, `-s` write, `-c` clear |
| `dual-tool-clone.sh` | same directory | files of the inactive half, its id | compare or (`-s`) synchronise and purge |
| `xdelta-apply.sh` | same directory | files of the target half, `*.update`, its id, `db_attempt_switch`, boot loader | apply a package |
| first initialization | `aesys-firstinit.sh` | `firstinit.pending`, ids, `db_last_half`, VNC keys | once per (re-)created persistent layer |
| start-up, watchdog, automount, DHCP hooks, ifplugd, overlay commit | `recipes-aesys/*`, `recipes-connectivity/*` | GPIO lines, `/tmp/.automount-*`, `dhcpcd.conf`, `/tmp/static_*` | event scripts |
| kernel patches, device trees, configuration | `recipes-kernel`, `conf`, ... | - | data and third-party code |

The parts never call each other directly except `dual-tool-id.sh`, which the
other tools run. They communicate through files on the data partition and
through the U-Boot environment: the tools *clear* the id of the half they are
about to touch, write the files, write the id again and (xdelta) set
`db_attempt_switch`; the next boot of U-Boot reads flag and ids and picks a
half; the initramfs applies the updates that were staged because their target
was in use; the application, which is not in the repository, finally accepts the
boot by clearing `db_last_half`.

### What is hard

* Power fails anywhere, also inside a copy, between the clearing of an id and
  its writing, between the copy of an update and its removal.
* Each tool has error exits in the middle; writes fail while the system stays up.
* U-Boot decides from *records about* the halves (ids, flags), never from the
  halves: every record that outlives what it describes is a wrong boot.
* The same asset has up to three places (boot folder, data folder, staged
  update), and four scripts each compute, on their own, which one counts.
* The loader and U-Boot's board code run on hardware that another program has
  used before, with fields of registers left set; calls fail and are not looked
  at; the same fact is kept in two tables (pads and pins, training messages and
  controller registers, memory size in table and header).
* The boot command keeps state in three places, the saved environment, the
  environment and the shell, and what is in which decides what survives a reset
  or a command given again.
* Two schemes (files: `x.a`/`x.b` in one partition; partitions: one boot
  partition per half) and a forced single boot that turns targets around.

What makes the parts correct, therefore: an id is true whenever it exists; a
half being written has none; an unrequested swap keeps the content; the running
half is not touched; tools that finish leave a complete half; a staged update
is applied and not lost; the system comes up again whatever was interrupted; a
persistent layer that was made again is initialized again, the root file system
is protected once it is, and a commit outlives the boot it was made in. The
memory that was trained is the memory U-Boot takes for granted and had its
supply first; the revision detected is one that was built; a kernel is started
whole from one half and told the truth about it; only the decision is saved.

## 2. The modules

| module | models | state |
|---|---|---|
| `DualStore` | the two halves and the records about them; `dual-tool-id.sh` | `disk`, `staged`, `ids`, `env`, `cmd`, `phase` |
| `UBootEnv` | `mmcargs`, `db_swap_requested` | - |
| `InitRam` | the two update loops of `/init` | `init` |
| `DualToolClone` | `dual-tool-clone.sh -s [-n]` | `clone` |
| `XdeltaApply` | `xdelta-apply.sh [-l] [-n]` | `xdelta` |
| `FirstInit` | `aesys-firstinit.sh`, the trigger written by `/init` | `firstPending`, `firstPc` |
| `DualSystem` | the composition: boots, power failures, watchdog resets, the application, the operator | all of the above |
| `DualProps` | the properties, the fairness, the refinement mapping, the inductive invariant | - |
| `ABUpdate` | the abstract specification: an A/B update system | slots, certificates, request |
| `MCDual` | a small instance | - |
| `DualProofs` | type correctness; the staged updates and the loops that apply them | - |
| `DualSafetyProofs` | the tools in either scheme, the running half, the inductive invariants with and without forced single boot | - |
| `DualRefinementProofs` | `DualSystem` implements `ABUpdate` | - |
| `PersistStore` | the data partition: flag files, sizes, `persist.bin`, what it holds | `flags`, `part`, `fsys`, `bin`, `layer`, `durable`, `pc` |
| `PersistLoop` | `/init` from the mount of `/data` to the updates: early shell, growth, the `persist.bin` loop | - |
| `OverlayRoot` | the rest of `/init`: layers, SecureFS checks, overlay; `overlayroot-commit.sh` | `overlay`, `ram`, `committed`, `secure` |
| `PersistSystem` | the composition with the first initialization, power failures and damages; the properties and the inductive invariant | `first`, `failed`, `faults` |
| `MCPersist` | a small instance | - |
| `PersistProofs` | type correctness | - |
| `PersistSafetyProofs` | the inductive invariant and the safety properties | - |
| `DdrTables` | the LPDDR4 tables of the six boards, as far as they say what memory there is, how it is refreshed and trained | - |
| `DdrMap` | what the controller and the memory make of them: address map, capacity, refresh, mode registers | - |
| `BoardCode` | the functions of each board's `spl.c` and `aesys_<board>.c`, as data: calls in their order, register writes, lookup tables | - |
| `Spl` | runs `board_init_f`, with calls that fail | `board`, `pc`, `step`, `write`, `pmic`, `dram`, `gic`, `uart`, `failed`, `faults` |
| `UBootInit` | runs U-Boot's board code up to the prompt and at it | `straps`, `fixup`, `id`, `gpr1`, `clk`, `usb`, `usbregs`, `eth` |
| `BoardSystem` | the composition with power cycles; the properties | - |
| `MCBoard` | strappings for TLC | - |
| `BoardProofs`, `BoardSafetyProofs` | straps, revision, console, link; supply, memory, clocks, USB, hangs | - |
| `BootEnv` | the default environment of each board: addresses, and whose script a name is | - |
| `BootCommand` | the boot command, boots and commands given again at the prompt | `at`, `ids`, `saved`, `env`, `shell`, `dual`, `mem`, `kernel`, `pc`, `boots`, `retries`, `faults` |
| `BootProps` | its properties, and its relation to `UBootEnv` | - |
| `MCBootCmd` | boards and media for TLC | - |
| `BootProofs` | the inductive invariants, the safety properties and the relation to `UBootEnv` | - |

### How state and actions correspond to the code

An asset is a location `<<folder, name>>`, the name without its half suffix;
`disk[h][l]` is what half `h` has there. A content is a version, `NoFile`, or
`Torn(h)`: what an interrupted or failed write leaves. The two halves have
different torn values because two garbled files are never equal by chance.
SHA-256 is injective, so an id *is* the function from locations to contents.
`staged[h][n]` is `/data/.sys/n.h.update`. `env` has the four U-Boot variables,
`cmd` what U-Boot passed on the kernel command line.

Every file operation that takes time is two steps, a *begin* that tears the
file and an *end* that fills it, so that power can fail in between. A tool
invocation is a record: where it is (`pc`), the files of the current loop still
to do, the current file, and the flags the script keeps (`CLEAREDID`,
`PENDINGCHANGES`, `REBOOTPENDING`). The script's order is kept: clear the id
before the first touch, then the file, then its verification, then the next
file. `PowerOff` may happen between any two steps and discards all of that.

Operators whose name has a suffix (`Orphan_Never`, `WriteId_Running`, ...) are
*faulty variants*, preceded by a comment `Faulty:`. Nothing uses them; each is
substituted for the operator it precedes to see that a property notices.

The device of `PersistSystem` is a second view of the same boot, of the parts
that `DualSystem` leaves out: there `PersistCreated` stands for what the loop of
`PersistLoop` does to `firstinit.pending`, here the halves and the updates are
left out. `pc` walks through `/init` in its order; each console is a `pc` of its
own, left only by the operator, after which the code does what it does: every
loop of this part tries again. `layer` is the content of `persist.bin` as it is
read and `durable` as the disk has it; a power failure leaves, of each file,
either one. `bin = "raw"` is a file without a file system that mounts: not yet
formatted, badly formatted or damaged.

A board is its program. The six boards have copies of the same files, edited
by hand; `BoardCode` has for every function one sequence of calls or writes per
board, a copy that does not differ being defined by the one it equals, and
`Spl` and `UBootInit` run what `Code[board]` says, one call or write a step. A
call of the libraries that can fail may fail, as long as `faults` allows; what
the caller then does is the code's. A register that is a bit field is the set of
its bits that are one. `straps` is how the revision pins are tied on this board,
a fact of the hardware. A power cycle keeps board and straps and leaves anything
of `Leftovers` in the registers that the boot ROM or an earlier start may have
written.

`BootCommand` is a program counter over the scripts of `gemini_env.h`, one
action a script (a network attempt is one per method). `env`, `saved` and
`shell` keep apart the three scopes of a name; `saveenv` is the assignment of
`saved`, at its place within `mmcargs`. A load puts a file, `<<base, partition,
suffix>>`, at an address, so that a load over another one, a suffix appended
twice or a wrong partition is seen in the kernel that is started. `Retry` is the
boot command given again at the prompt, where all but the kernel is as the first
one left it. `UBootEnv`'s `Mmcargs`, which the dual-boot model uses, is a
projection of the `Mmcargs` here: `DecisionIsMmcargs` says so.

### Abstractions

* Removing and creating the flag files of `/data/.sys` is durable at once, which
  for `rm firstinit.pending` is the worst case.
* A root file system is two things: whether it has the keys of the first
  initialization, and one configuration file with a number of changes.
* A SecureFS file system is what is wrong with it: nothing, or the first of its
  three checks that fails. `securefs.skip` stands for the flag of all file
  systems and for those of single ones.
* `persist.autofix`, `securefs.skip`, and the removal of `persist.bin` or of a
  defect are what an operator does in a console.
* The order in which `ls` lists files is any order.
* `*.update.tmp` is not observable: `/init` deletes it and no tool reads it.
* `pre.sh`, `post.sh` and the boot loader only make the exit ask for a reboot.
* The hush shell of the old U-Boot: an `if` whose condition fails, without
  `else`, fails; `db_swap_requested` depends on it (`gemini_env.h:42-46`).
* An id file is written in one step. (A torn id file exists on real hardware;
  see the hazards.)
* A boot that fails for any reason outside the model, the PXE path included, is
  a `PowerOff`. What a *half* needs to boot is complete boot assets of a version
  that works (`Bootable`).
* Of about 60 controller registers, `DdrTables` has those of memory size,
  refresh and mode; of the PHY its lanes and the messages of its training. The
  timings in clocks and the PHY's microcode are numbers of the vendor's tool.
* Training either works or fails, the PMIC answers or does not; no time passes.
* A revision pin is tied low, tied high or floating; a pull decides a floating
  one only if it is on the pad of that pin.
* The 2522 and 2602 tables have a row `0000_xxxx`, of nine characters, that a
  `gpioid` of four never equals: the default id is used, and the model does that.
* The network: an address is got or not, a file is there or not. `ipaddr` and
  `serverip` are not kept, only which method was tried.
* Sizes of images are not modelled: an image that reaches into the next
  address is not seen. Addresses are the numbers of the headers.
* `AppAccepts` is external: nothing in the repository clears `db_attempt_switch`
  and only the first initialization clears `db_last_half` (`:86`), so the
  application must. It clears the latter and may clear the former.
* `Exclusive` (one tool at a time) is an assumption on the operator: the scripts
  have no lock. Without it `IdSound` does not hold, as one would expect.

## 3. The runs

The `dual_*`, `part_*` and `failed_rootfs_update` runs use `MCDual`: one or two assets, two
versions on the disk and one more in no package, one package that updates everything and one that updates the
kernel alone. Small, but a kernel in the boot folder and an application in the
data folder exercise both loops of each tool, and a single name in *both*
folders exercises the root file system, which is staged in one and lives in the
other. Two versions are enough to tell old from new, and mixes of the two
appear. In these runs no counter is bounded and no state constraint is used: the
state spaces are complete.

| run | setting | properties | states |
|---|---|---|---|
| `dual_ids` | files scheme, failing writes | `TypeOK`, `IdSound`, `NoIdWhileTouched`, `UpdateComplete`, `CloneComplete`, `FallbackSafe`, `RunningHalfUntouched`, `ImplementsAB` | 226 k |
| `dual_recovery` | a version that does not boot, fair | `AlwaysRecovers` | 104 k |
| `dual_forced` | forced single boot allowed, root file system, fair | `IdSound`, `UpdateNotLost`, `UpdateApplied` | 45 k |
| `dual_forced_errors` | the same with failing writes and `-n`, kernel and application | `NoIdWhileTouched`, `UpdateNotLost` | 3.8 M |
| `dual_partitions` | partitions scheme, failing writes | `NoIdWhileTouched`, `RunningHalfUntouched` | 692 k |
| `persist_boot` | secure boot, two checked file systems, three faults, fair | `TypeOK`, `KeysKept`, `WritableRootEnds`, `SecureStart`, `Settles` | 953 k |
| `board_boot` | six boards, their strappings, two faults or power cycles | `TypeOK`, `MemoryAsConfigured`, `SupplyBeforeLoadIfPmic`, `HangHasCause`, `DetectedShipped`, `StrapsTold`, `ConsoleAgrees`, `EthernetClocks`, `NoGigabit`, `UsbReady` | 1.06 M |
| `boot_cmd` | six boards; single, files and partitions; missing files, network off, forced ids | `TypeOK`, `OneHalf`, `DecisionSaved`, `SavedClean`, `SecureFromFit`, `PxeDisabledHonoured`, `ConfOfBoard`, `PromptHasCause`, `DecisionIsMmcargs` | 141 k |

`persist_boot` uses `MCPersist` and bounds the faults (`MaxFaults`:
shut-downs, power failures, a format, an overlay mount or a command of the first
initialization that fails) and the
changes of the configuration file (`MaxEdits`). Three faults are enough for one
to hit the repair of another. `Settles` needs the bound for what it says: no
system settles while its power keeps failing.

`board_boot` uses `MCBoard`, where `Strappings` gives each board the strappings
of its table rows, those that differ from one in a single pin, and, for the
extension boards, every level of their lines. `MaxFaults` = 2: one call that
fails and a power cycle after it, or two that fail in one boot; a third adds
nothing, since no step of the code counts failures. `boot_cmd` uses `MCBootCmd`:
every board with complete media of each kind, and one board with everything that
may be missing, disabled or forced (the boards' boot commands differ only in
their addresses and default names). Three boots (`MaxBoots`) are one that
switches, one that falls back and one after it; one command is given again
(`MaxRetries`), one read fails or one kernel returns (`MaxFaults`). In both the
system may stop: a hang, a started kernel, and the prompt when its bound is used
up are ends, so deadlock is not an error there.

What they show:

* `IdSound`: an id that exists is the id of what its half holds *now*. This is
  what U-Boot relies on and it takes the discipline of three tools to hold.
* `NoIdWhileTouched`: from the first touch to the last verification there is no
  id, so a power failure never leaves a half eligible for the fallback.
* `FallbackSafe`: a swap that nobody requested is between equal halves.
* `RunningHalfUntouched`: no step changes what the running half consists of.
* `UpdateComplete`, `CloneComplete`: a tool that ends with success leaves the
  half it says. `UpdateComplete` is checked without forced single boot: there an
  older staged update may be pending when a package asks for the version that
  the file already has.
* `UpdateNotLost`, `UpdateApplied`: a staged update disappears only when the
  file it replaces is equal to it, and it does disappear.
* `AlwaysRecovers`: if from some moment power does not fail *during boots*, the
  system comes up infinitely often, in spite of versions that do not boot.
* `ImplementsAB`: the whole refines `ABUpdate`, with halves as slots, id files as
  certificates and `db_attempt_switch` as the request.

* `KeysKept`: no interruption loses the first initialization: its trigger is
  there whenever its work is not on the disk, across a `persist.bin` made again
  by `/init` or by `persist.autofix`. It needs the sync in `dual-tool-id.sh`: on
  a single-boot device (`DualBoot = FALSE`) a power failure just after the
  trigger is removed may lose the keys. And it excuses what the service does not
  look at: `aesys-firstinit.sh` removes the trigger whatever its commands
  returned. After a run in which openssl failed the keys may be missing for
  good; after one in which both calls of `dual-tool-id.sh` ended before their
  sync they are lost if power fails before the reboot. The history variable
  `failed` tells these runs apart; a reboot that syncs takes the second kind out.
* `WritableRootEnds`: a boot without the overlay is either wanted or ends with
  the reboot of the first initialization.
* `SecureStart`: unlike the update loops, the SecureFS loops are not left
  through the console of `do_panic`.
* `Settles`: with `persist.autofix`, interruptions, damages and failing commands
  only delay a running device under its overlay whose first initialization is
  over, with the keys unless one of its commands failed.

* `MemoryAsConfigured`: trained memory is what `PHYS_SDRAM_SIZE` says, its
  address map reaches every cell once, its refresh suits its density, and the
  training messages agree with the controller's registers. `SupplyBeforeLoadIfPmic`:
  memory and interrupt controller are brought up only at the typical supply, as
  long as the PMIC answers; when it does not, `spl.c` goes on at the reset
  supply, and the property says no more than that.
* `HangHasCause`: a board hangs only after a call failed; so no power cycle, no
  leftover and no sequence of USB starts and stops leads into a register without
  power or clock, or into memory that was not trained.
* `DetectedShipped`, `StrapsTold`: every strapping is taken for a revision with a
  device tree, and the pins read are the pads that are pulled.
* `ConsoleAgrees`: the console that was corrected before the relocation is the
  one of the revision found after it.
* `EthernetClocks`, `NoGigabit`, `UsbReady`: register fields and link have their
  values whatever was there before, also when a partner has negotiated
  1000 Mbit/s before the PHY was told not to. `NoGigabit` needs the two MDIO
  accesses of `board_phy_config` itself to succeed: it looks at neither.
* `OneHalf`: a kernel of the MMC has image, device tree, ramdisk and arguments of
  one half. `DecisionSaved`: and that half is saved as active and last, without
  which the fallback of the next boot would not work. `SavedClean`: of the other
  variables that the boot command sets, none is saved as long as no command is
  given again at the prompt. Neither `OneHalf` nor `SavedClean` is promised once
  one is: its suffixes are appended a second time and the first one's variables
  are saved with its decision. `OneHalf` sees a load over another one only
  where their addresses are equal; sizes are not modelled.
* `SecureFromFit`: only a FIT image of the MMC is told `secure-boot`; a kernel
  of the network may inherit it when a command is given again, and is excepted.
* `PxeDisabledHonoured`: a method of PXE that the environment disables is never
  used. What a mark (`.sys/pxe*.disabled`) disables is not used as long as reads
  succeed: a failing `test -e` is taken for a missing mark, and the code goes on
  to the network (`gemini_env.h:190`). `pxeboot_nocheck` asks nobody, and comes
  only when the MMC has nothing that can be read.
* `ConfOfBoard`: which configuration is asked for, but by `pxeboot_nocheck`,
  which asks for none.
* `PromptHasCause`: without a failed read, and without a kernel that returns
  from `booti`, the boot ends at the prompt only when files are missing or a
  forced board is unknown.
* `DecisionIsMmcargs`: on a dual device `mmcargs` does the step of `UBootEnv`, so
  that what is shown of `DualSystem` is about this script.

### Fairness

`AlwaysRecovers` and `UpdateApplied` assume weak fairness of the U-Boot step, of
the initramfs steps and of the outcome of a boot: both are straight-line
programs that run when the board is powered, and a boot that hangs is reset by
the hardware watchdog. Nothing is assumed of the tools, of the operator or of
the application. That power stays up during boots is a hypothesis of the
properties themselves (`<>[][~InterruptedBoot]_vars`), since no program can
make it so; it excuses interruptions of the boot, not failures of the half.
Writes that fail are excluded from these two runs: after a failed verification
`/init` opens a console with the watchdog disabled and waits for somebody.

The loader, U-Boot's board code and the boot command are straight-line programs
that end with their last step; no fairness is assumed of them, and nothing is
claimed of them that would need it.

`Settles` assumes weak fairness of the steps of `/init` outside its consoles, of
the first initialization service and of its reboot. Consoles are left by the
operator, of whom nothing is assumed: the property asks for devices that need
none, and counts the console of an overlay that cannot be mounted as an end.

### Where the code does not do what it says

| run | property | disagreement |
|---|---|---|
| `part_ids` | `IdSound` | `dual-tool-id.sh -t` ignores the target half when it picks the boot folder of the partitions scheme |
| `part_update` | `UpdateComplete` | `xdelta-apply.sh` compares a boot asset with itself before copying it from the current half: it never does |
| `failed_rootfs_update` | `UpdateNotLost` | an update of the root file system that fails is taken by the loop of the other updates, copied to the wrong folder and removed |
| `overlay_commit` | `CommitPersists` | `mount --mount` where `mount --move` is meant: the persisted root is never mounted, and commits go to RAM and report success |

The quotations are in `PROJECT.json`. Because of them `dual_partitions` does
not check `IdSound`, and `dual_forced_errors` has no root file system. Two more
observations are only recorded as hazards: forced single boot in the partitions
scheme clears the id of `a` and writes `b`, so no run combines the two; and power
failing between `parted resizepart` and `resize2fs` leaves a small file system
in a large partition, with no later boot that grows it. Two more combinations are out for a reason worth knowing: with
forced single boot *and* failing writes `IdSound` and `RunningHalfUntouched` do
not hold, since `dual-tool-clone.sh` purges a file and leaves its staged update
for the next boot to install; with `-n` *and* failing writes the running half may
have been written wrong, which is what `-n` accepts. That the id of a half is true
even then, and the fallback safe, is among what is proved below (`IdsSound`,
`FallbackIsSafe`).

## 4. The proofs

Every safety invariant and every action property of the passing runs has a
theorem. What a theorem assumes beyond the `ASSUME`s of the modules is in the
last column.

| theorem | module | says | assumes |
|---|---|---|---|
| `TypeCorrect` | `DualProofs` | `Spec => []TypeOK` of `DualSystem` | nothing: every scheme and option |
| `UpdatesAreNotLost` | `DualProofs` | `Spec => UpdateNotLost` | no write fails, or no squashfs is kept in the boot folder (`~WriteErrors \/ RootfsNames = {}`) |
| `NoUpdateIsLeft` | `DualProofs` | `Spec => [](phase = "mount" => Pending = {})` | no write fails |
| `UpdateLoopsEnd` | `DualProofs` | every step of the update loops lowers a variant | finitely many names |
| `NoIdWhileTouchedHolds` | `DualSafetyProofs` | `Spec => []NoIdWhileTouched` | one tool at a time (`Exclusive`); with partitions, no forced single boot |
| `RunningHalfIsUntouched` | `DualSafetyProofs` | `Spec => RunningHalfUntouched` | no forced single boot (`~AllowForce`) |
| `Inductive` | `DualSafetyProofs` | `Spec => []IInv` | files scheme (`~Partitions`), one tool at a time, no forced single boot |
| `IdsSound` | `DualSafetyProofs` | `Spec => []IdSound` | files scheme, one tool at a time; with forced single boot, that no write fails and every squashfs is a boot asset (`AllowForce => ~WriteErrors /\ DataNames \subseteq BootNames`) |
| `FallbackIsSafe` | `DualSafetyProofs` | `Spec => FallbackSafe` | as `IdsSound` |
| `ClonesAreComplete` | `DualSafetyProofs` | `Spec => []CloneComplete` | one tool at a time, no forced single boot, failing writes noticed (`SkipVerification => ~WriteErrors`); either scheme |
| `UpdatesAreComplete` | `DualSafetyProofs` | `Spec => []UpdateComplete` | as the line above, and the files scheme |
| `Refines` | `DualRefinementProofs` | `Spec => ImplementsAB` | as `Inductive` |
| `TypeCorrect` | `PersistProofs` | `Spec => []TypeOK` of `PersistSystem` | nothing |
| `PersistInductive` | `PersistSafetyProofs` | `Spec => []PersistInv` | nothing |
| `KeysAreKept` | `PersistSafetyProofs` | `Spec => []KeysKept` | dual boot |
| `WritableRootIsTemporary` | `PersistSafetyProofs` | `Spec => []WritableRootEnds` | nothing |
| `StartIsSecure` | `PersistSafetyProofs` | `Spec => []SecureStart` | nothing |
| `BoardTypes` | `BoardSafetyProofs` | `Spec => []TypeOK` of `BoardSystem` | nothing: all strappings, any number of faults |
| `MemoryIsAsConfigured` | `BoardSafetyProofs` | `Spec => []MemoryAsConfigured` | nothing |
| `SupplyFirst` | `BoardSafetyProofs` | `Spec => []SupplyBeforeLoadIfPmic` | nothing |
| `ClocksAlways` | `BoardSafetyProofs` | `Spec => []EthernetClocks` | nothing |
| `UsbIsReady` | `BoardSafetyProofs` | `Spec => []UsbReady` | nothing |
| `HangsHaveCauses` | `BoardSafetyProofs` | `Spec => []HangHasCause` | nothing |
| `TwoPairsStaySlow` | `BoardProofs` | `Spec => []NoGigabit` | nothing |
| `DetectionShipped` | `BoardProofs` | `Spec => []DetectedShipped` | nothing |
| `StrapsAreTold` | `BoardProofs` | `Spec => []StrapsTold` | nothing |
| `ConsolesAgree` | `BoardProofs` | `Spec => []ConsoleAgrees` | nothing |
| `BootTypes` | `BootProofs` | `Spec => []TypeOK` of `BootProps` | nothing: any situations of the three layouts, any bounds |
| `KernelOfOneHalf` | `BootProofs` | `Spec => []OneHalf` | nothing |
| `SavedStaysClean` | `BootProofs` | `Spec => []SavedClean` | nothing |
| `SecureIsFit` | `BootProofs` | `Spec => []SecureFromFit` | nothing |
| `PxeStaysDisabled` | `BootProofs` | `Spec => []PxeDisabledHonoured` | nothing |
| `ConfIsBoards` | `BootProofs` | `Spec => []ConfOfBoard` | nothing |
| `DecisionIsSaved` | `BootProofs` | `Spec => []DecisionSaved` | nothing |
| `MmcargsIsTheDecision` | `BootProofs` | `Spec => DecisionIsMmcargs` | nothing |
| `PromptIsExplained` | `BootProofs` | `Spec => []PromptHasCause` | the image has the default device tree and configuration, and those of the detected board (`TreesComplete`) |

### The two halves

The theorems hold for any set of assets and versions, any packages, with and
without failing writes and `-n` where the table does not say otherwise. The
hypotheses are not for convenience; without them the code does not keep the
property:

* `~Partitions` of `IdsSound`: `part_ids` refutes it; of `UpdatesAreComplete`:
  `part_update` does.
* `Exclusive`: the tools have no lock.
* The hypothesis of `UpdatesAreNotLost`: `failed_rootfs_update` refutes it.
* Partitions with forced single boot (`NoIdWhileTouchedHolds`): boot assets are
  written to the inactive partition, and the id that was cleared is that of `a`.
* Forced single boot in `IdsSound`: with failing writes, or with a squashfs that
  lives in the data folder, `dual-tool-clone.sh` may purge the file and leave its
  staged update for the next boot to install, after the id was written.
* `~AllowForce` of `RunningHalfIsUntouched`: to write the half that runs is what
  single boot means.

The argument, in layers. Three invariants say what holds of the parts in either
scheme. `ToolInv`: invocations exclude each other and die with the boot
(`OneTool`), and one past its first touch has cleared the id of its target,
which is still absent (`ClearedMeansNoId`); it gives `NoIdWhileTouched`.
`NothingStaged`: without forced single boot no `.update` ever exists, so that
the initramfs copies nothing and the tools write the other half; it gives
`RunningHalfUntouched`, with any number of tools at once. `StagedInv`: tools
work only while the system is up and stage nothing but squashfs files, and the
first update loop has only names of the root file system, the second only
others (`LoopsSplit`); hence each loop copies an update over the file it is
meant for and removes it behind the copy, which is `UpdateNotLost`. That the
second loop has every update in its list (`ExtraHasAll`) gives `NoUpdateIsLeft`:
the system is mounted with nothing staged. This is what is safe in
`UpdateApplied`; `UpdateLoopsEnd` is what of its progress can be said without
fairness.

`IdSound` is not inductive: to see that a copy keeps it one must know that the
half being written has no id, hence that the invocation that writes has cleared
it and that nobody has written it since. `IInv` is `IdSound` with `ToolInv` and
`NothingStaged`, and the proof goes component by component (`CloneInv`,
`XdeltaInv`, `FirstInv`, `BootInv`), from four lemmas on what one operation does
to `IdSound`: nothing touched (`KeepSound`), an id cleared (`ClearSound`), an id
written (`WriteSound`), a file of a half without id touched (`TouchSound`).

With forced single boot updates are staged, and the files of a half change at
the next boot although its id is not written again. `IdSound` survives since an
id is computed from what a half *will* hold, staged updates considered
(`Considered`): a copy of the initramfs leaves that as it is
(`ApplyKeepsContent`). `ForcedInv` adds to `ToolInv` and `StagedInv` what makes
this so (`BootOnly`): each half always has all its boot assets and no stray
copy of one, so that the purges find nothing to do, and the tools have in their
lists only boot assets, whose updates the initramfs applies to the very file the
id is computed from.

The refinement maps each step to `Revoke`, `Rewrite`, `Certify`, `Boot`, `Stop`,
`Request` or a stutter. `ClonesAreComplete` and `UpdatesAreComplete` follow the
loops of the tools (`CloneWorkInv`, `XdeltaWorkInv`): a loop that is over has
left no difference of the kind it looks for, and the current one none but in the
files it has still to do. A file that is taken leaves the list only when its
copy was verified, which is where the hypothesis on failing writes comes in:
with `-n` a copy that fails is not noticed.

### The data partition

`PersistInv` is `KeysKept` with what keeps it: while `persist.bin` is being made
the trigger is there, and `/init` goes past its loop with a good one only
(`LoopInv`); the overlay is the one decided from the flags, and no flag it was
decided from changes but by the service that reboots (`OverlayInv`); the service
keeps its trigger until its keys are there, and with dual boot until they
are on the disk, or until a command that should have seen to it has failed
(`FirstInv`, which also says that the keys last until the reboot of the service
if openssl did not fail); the file systems before the next check have passed
theirs, and the current one those before the next (`SecureInv`). These theorems
hold for any sizes, any list of file systems and any number of faults.

### The boards

The theorems on the boards each have an inductive invariant that says, stage by
stage, what the program has done so far: which calls of `board_init_f` lie
behind `step` and what they left in the PMIC (`SupplyInv`); how many writes of
`board_init` are done and which bits they forced (`ClockInv`); which clock and
power the next register access needs and why it is there (`HangInv`); which bits
of the USB PHY the writes of `board_usb_init` so far have set or cleared,
whatever the registers held before (`PhyInv`). Since the programs are finite
sequences of `BoardCode`, the steps are split by board and by index, and the
prover evaluates the sequence at each.

They hold for any strapping of each board's pins (`StrappingsAssumption`: pins
low, high or floating), also outside `MCBoard`: `DetectionShipped` and
`StrapsAreTold` go through the lookup tables with pins of any level. The
`gpioid` tells a floating pin from a tied one by reading it under either pull.
`StrapsInv` says that the revision, once there, is the one detected from the
strapping of the board; that its `gpioid` tells of every pin is then a lemma
about each board's detection (`Told`).

`MemoryAsConfigured` is a fact about the tables: `SupplyInv` gives that the
tables in use are those of the board, and lemma by lemma the map from system
address to rank, bank, row and column is shown exact, for each of the four
tables that differ (`Memory_2319a`, `Memory_2409`, `Memory_2414`,
`Memory_2414_2g`), with its capacity, its refresh and the modes of its
training.

### The boot command

`BootProofs` has one invariant, `BootInv`, for four of its theorems, again by
stage: until a command is given again the saved environment is `Clean`, that is
without anything meant for one boot, and so is the environment in memory up to
`mmcargs` (`EnvInv`); where the configuration of the FIT image is
(`ConfInv`), whether `secure-boot` is in the arguments (`SecureInv`), what is
known not to be on the medium (`MediaInv`), and what all that makes of a kernel
(`KernelInv`). What the invariant says of a mark holds while no read has failed
(`Enabled`): a test that finds PXE enabled in spite of one has counted the
failure (`EnabledWhenFound`). `DecisionIsSaved` adds that after `mmcargs` the saved half is the
one in the arguments (`DecisionInv`).

`KernelOfOneHalf` rests on `HalfInv`: the first command after a reset finds no
suffix left by an earlier one, so that after `mmcargs` suffix, partition and
arguments are those of one half (`ArgsInv`), and what was loaded to an address
stays there until the kernel is started (`LoadedInv`), which needs that the
addresses of each board differ. `PromptIsExplained` adds `CauseInv`: as long as
every read of a file that is there succeeds, what was not loaded is missing.
`TreesComplete` is its hypothesis because the model can also describe an image
built without the tree of the board it runs on, which does end at the prompt
for that reason. `MmcargsIsTheDecision` compares the script, statement by
statement as `BootCommand` has it, with the action `Mmcargs` of `UBootEnv`.

### Only model-checked

The liveness properties `AlwaysRecovers`, `UpdateApplied` and `Settles`: they
need fairness and `ENABLED`, which the prover does not reach. Of `UpdateApplied`
the safe half is proved (`NoUpdateIsLeft`), and that its loops end
(`UpdateLoopsEnd`). The properties of the four runs that expect a violation are
false, or true only under the hypotheses above.

## 5. Not modelled, and the plan

Not modelled, since there is nothing to say that a model would add: the kernel,
its patches and the device trees, recipes and configuration (data and
third-party code); the LPDDR4 timings in clocks and `ddr_phy_pie` (the PHY's
microcode); Type-C and the commands of the evaluation kit in the boards' code
(not compiled in); NAND and jailhouse scripts of the environment; the memory
regions of `ft_board_setup`; `ifplugd.sh`, host name and raise-hand scripts
(wrappers without state). `aesys_2414.c:551` has `}2522` where `}` is meant, so
the file does not compile as it stands; it is modelled as meant.

Not yet modelled, in the order planned:

1. the asset naming of `xdelta-apply.sh` (`delta_file`), single boot included,
   as an operator checked against a reference definition; downloads (`-l`),
   disk space and the boot loader;
2. `aesys-startup.sh` (the first boot decision), the hardware watchdog lines and
   the scripts that drive them concurrently,
   with what a panic console does to the watchdog;
3. the DHCP hooks, the fallback marker and the recheck timer; the automounter:
   event scripts that share files without a lock;
4. the mounts of the extra file systems in `/init`, and `DualSystem` composed
   with `PersistSystem` over one data partition;
5. sizes of the images in the address map of the boot command;
6. proofs: `Refines` with forced single boot, which needs an abstract system that
   rewrites the running half through a restart; `IdSound` in the partitions
   scheme, once `dual-tool-id.sh -t` looks at its target.
