# A formal model of EFI Boot Guard

EFI Boot Guard is a UEFI boot loader with a fail-safe update mechanism.  Each of
ENV_NUM_CONFIG_PARTS config partitions holds one environment record (which
kernel to start, watchdog timeout, update state, revision, user variables, a
CRC32).  The boot loader picks a record, marks a trial on disk, arms a watchdog
and starts a kernel; the running system prepares and confirms updates through a
library and `bg_setenv`.  The two sides share nothing but the config files, and
the machine may lose power between any two steps.  The question the project asks
is the one the program exists for: *whatever happens, does the machine come up
with a working configuration, and does it find its way back from a bad update?*

## 1. Inventory

| Part | Source | State | Operations | Interacts with |
|---|---|---|---|---|
| Environment record | `include/envdata.h` | kernelfile, kernelparams, in_progress, ustate, watchdog_timeout_sec, revision, userdata, crc32 | – | everything |
| Config loading of the loader | `env/fatvars.c` | copies of all records, `env_invalid`, `current_partition` | `load_config`, `save_current_config` | config files |
| Loader main path | `main.c`, `print.c` | loader parameters | `efi_main`, `error_exit` | load_config, watchdog, firmware |
| Volumes of the loader | `utils.c`, `env/syspart.c` | list of volumes, boot medium first | `get_volumes`, `enumerate_cfg_parts`, `FileDevicePathFromConfig` | firmware, load_config |
| Watchdog | `watchdog.c`, `drivers/` | list of drivers, `probed_before` flags, the hardware | `register_watchdog`, `probe_watchdogs`, one `init` per driver | efi_main, hardware |
| Environment library | `env/env_api.c`, `env/env_api_fat.c` | `envdata`, `config_parts`, `initialized`, open handle, garbage collection registry | create_new, open_current, get, set, get/setglobalstate, finalize_update, close | config files |
| User variables | `env/uservars.c` | packed records in `userdata` | set, get, delete, find, validate, free space | environment library |
| bg_setenv, bg_printenv | `tools/` | journal of options | update, edit, confirm, file mode, print | environment library |
| Search for config partitions | `env/env_config_*.c`, `env/env_disk_utils.c`, `tools/ebgpart.c`, `tools/fat.c` | list of devices (static, across calls), config partitions, mounts | `probe_config_partitions`, `ped_device_probe_all`, mount, unmount | environment library, EFI variable of the loader |
| Loader interface | `loader_interface.c` | EFI variable LoaderDevicePartUUID | set unless it is set | boot loader, kernel stub, search for config partitions |
| Unified kernel generator | `tools/bg_gen_unified_kernel` | PE headers, sections | build an image from stub, command line, kernel, initrd, device trees | kernel stub (through the image) |
| Kernel stub | `kernel-stub/` | sections of the image, kernel buffer, registered protocols | start kernel with initrd and device tree, clean up | firmware |
| CRC32, completion | `env/env_api_crc32.c`, `completion/` | – | – | – |

What is hard here is not one routine but the sequence: a crash in the middle of
an in-place write; a loader that could not save what it decided and boots
nonetheless; the loader and the library choosing "the latest" record with
different code over different copies; operators who start an update before they
confirmed the last one; start values of searches that survive when nothing
matches; a packed area that is full to the last byte; two processes that edit
copies of the same records.  `PROJECT.json` lists each hazard at its line.

What makes each part correct:

* record choice: latest, second latest and oldest are what their names say, ties
  and boundary revisions included, and loader and library agree;
* loader: a trial is on disk before it starts; a failed trial is left for a
  confirmed configuration; no crash leaves nothing to boot;
* library and tools: an update replaces the oldest record, never the newest
  confirmed one; the outcome of a trial is reported;
* user variables: set and delete are local, refusals are justified, what one
  process writes the next one accepts;
* watchdog: success means that a timer runs, will reset the machine and has the
  time asked for; an error on one device hides no other one;
* volumes: the files of the boot medium win, whatever the order in which the
  firmware lists the volumes; a label finds its volume;
* search for config partitions: it succeeds exactly when there are as many files
  as expected, leaves the system's mounts as they were, and ends up with the
  files the loader has used;
* sessions: a process overwrites only what it has read;
* unified kernel: the image is laid out as its headers say, the kernel gets what
  was built in, and the stub leaves nothing behind that points into freed memory.

## 2. Modules

| Module | Models | Kind |
|---|---|---|
| `EnvData` | the record, a config file, reading it, the choice of latest / second latest / oldest, the decision of `load_config` | operators |
| `BootGuard` (extends EnvData) | loader, kernel, watchdog, power, library and bg_setenv on shared config files | state machine |
| `BootGuardInv` | the inductive invariants of BootGuard | invariants |
| `BootGuardProofs` | theorems about BootGuard | proofs |
| `EnvScan` (extends EnvData) | the loops behind the choice, iteration by iteration | state machine |
| `EnvScanProofs` | theorems about EnvScan | proofs |
| `UserVars` | the packed user variable area and its users | state machine |
| `UserVarsProofs` | theorems about UserVars | proofs |
| `Watchdog` | `probe_watchdogs` and the `init` of all eleven drivers | state machine |
| `WatchdogProofs` | theorems about Watchdog | proofs |
| `SafeUpdate` | what the update mechanism promises: confirmed, candidate, trial, running | abstract specification |
| `BootGuardRefines` (extends BootGuard) | the refinement mapping from BootGuard to SafeUpdate and the invariant behind it | refinement |
| `BootGuardRefinement` | the proof that BootGuard implements SafeUpdate | proofs |
| `Machine` | disks, partition tables, config files, the EFI variable | shared environment |
| `Volumes` (extends Machine) | the loader's volumes, search for config files and lookup of labels | state machine |
| `ConfigSearch` (extends Machine) | the library's search for config partitions, mounts included | state machine |
| `BootMedia` (extends both) | loader, then library, on one machine | composition |
| `BootMediaProofs` | theorems about BootMedia | proofs |
| `Sessions` (extends EnvData) | several processes with the library on the same config files | state machine |
| `SessionsProofs` | theorems about Sessions | proofs |
| `UnifiedKernel` | the generator of unified kernel images | state machine |
| `KernelStub` | the stub and the firmware services it uses | state machine |
| `UnifiedBoot` (extends both) | generator, PE loader of the firmware (external), stub | composition |
| `UnifiedBootProofs` | theorems about UnifiedBoot | proofs |
| `MCBootGuard`, `MCEnvScan`, `MCUserVars`, `MCWatchdog`, `MCBootMedia`, `MCSessions`, `MCUnifiedBoot` | small instances for TLC | instances |

Definitions named `..._unmarked`, `..._turned` and the like, each under a
comment that begins with "Fault:", are plausible mistakes in the definition that
follows them.  Nothing uses them; replacing the original by one must make TLC
find the property it is paired with in `PROJECT.json` violated.

### BootGuard and the code

`disk` holds one file per config partition: a record and whether the file is
intact (complete, right CRC32).  `mode` is the machine's program counter
(`load`, `save`, `saving`, `probe`, `image` in the loader; `os`, `hang` in a
kernel; `halt` after `error_exit`).  `bl` is the loader's memory: the partition
found latest, the one to boot, the changed record, and `BG_LOADER_PARAMS`.
`armed` is the hardware watchdog.  `tool` is one process of the running system:
its copies of all records (`envdata`), its handle, what `setglobalstate` still
has to write, and whether the file it writes is truncated.

* `LoadConfig` is `load_config` as a whole but for the write it ends with;
  `SaveBegin` and `SaveEnd` are that write, `SaveFails` its failure.  Between
  the two the file holds any mixture of old and new sectors and a wrong CRC.
  A missing partition (`vis # Parts`) makes `save_current_config` refuse.  A
  file that does not open counts as a zeroed record with a right CRC, one whose
  read stops short as an invalid one with the front part of its fields.
* `ProbeWatchdogs`, `StartImage` and `LoadImageFails` are the rest of
  `efi_main`: no watchdog for a non-zero timeout ends in `error_exit`, a kernel
  that cannot be loaded in a reset if the loader believes in a trial, else in
  `error_exit`.  A kernel that returns is a kernel that hangs: control is with
  the firmware and the watchdog goes on.
* `ErrorExit` are the errors that have nothing to do with a record, allowed by
  `FirmwareErrors`: no volume, no memory or one config partition too many in
  `load_config`, a payload path that cannot be built, an image that cannot be
  opened.
* `ebg_env_create_new` ... `ebg_env_close` are the calls of the library, and
  `bg_setenv_update`, `bg_setenv_latest`, `bg_setenv_part` one run of the tool.
  Calls edit the copies; `write_env_truncate` and `write_env_data` are the two
  steps by which a copy reaches the disk, `write_env_fails` their failure.
  After `setglobalstate(OK)` the other records are written first (`sync`).
* `WatchdogReset`, `Reboot` and `PowerCut` restart the loader.  The state after
  each is the same; `PowerLost` are the restarts only a power cut explains.

The operator is part of the model.  With `Procedure` the documented update
procedure (docs/UPDATE.md, docs/API.md) is kept to: an update is created,
edited, finalized and closed, or made by `bg_setenv --update
--ustate=INSTALLED`; a configuration is confirmed only while it runs and is
under test.  `ConfirmFirst` adds that an update is started only when the latest
configuration is confirmed.  Without them every call is possible at any time.

Kernels are model values: `good` works, `bad` loads and hangs, `gone` is not
there.  A kernel name stands for kernel, parameters and user variables, since
the properties ask only which image starts.

### EnvScan and the code

BootGuard takes the choice of the latest, second latest and oldest record from
predicates of EnvData.  EnvScan models the loops themselves: the enumeration
result, the read loop of `load_config` with its ways to fail (open, read, CRC,
close) and its return value, the scan for the two latest revisions, `bgenv_init`,
`bgenv_open_latest` and `bgenv_open_oldest`.  Slots are config partitions in the
order in which they are found.  A file with a right CRC over corrupt user
variables is live to the loader, which does not look at them, and zero to the
library, which does; `SameLatest` is stated for the files both can read.

### UserVars and the code

A variable is a key, a data length and a mark for its contents; records are
packed in a sequence and their sizes are the byte counts of `uservars.c`
(key, terminator, 4 byte length, 8 byte type, data).  `InsertNew`, `Overwrite`
and `Resize` are the three ways through `bgenv_set_uservar`; `Resize` deletes
the old record before it knows whether the new one fits.  `Reopen` is close,
write, read and validate by the next process.  `call` records the last call, its
arguments and return value, for the action properties.

### Watchdog and the code

BootGuard's `ProbeWatchdogs` arms a watchdog or fails.  Watchdog models what is
behind it: `Begin` is `probe_watchdogs` up to its loop, `OpenFails`, `ReadFails`
and `ReadId` are what can happen to a device, and `Probe` is the call of one
driver on it, which refuses, fails or succeeds.  `next` is the driver pointer,
`status` the one variable all calls share, `probed` the `probed_before` flags.

Each driver is a record: whether it recognises the device or the machine, whether
it looks only once, the ticks it computes from the timeout with the widths of
its code, and the steps of its `init`.  A step sets the time, lets the timer
reset the machine, starts it, or does none of these (identification, unlocking);
it may be able to fail, with or without its effect.  A driver that writes through
port I/O has steps that cannot fail.  The byte the NCT6116 gets starts its timer
unless it is zero, so at 256, 512, ... seconds the driver succeeds with the timer
off; a WDAT whose SET_REBOOT is missing or cannot be run is started without it.
`SuccessMeansArmed` names these two and shows that there are no others.  A
firmware table that is present but
disabled or unusable is a first step that fails.  `hw` is what each driver has
done to its hardware, `failed` and `seen` are records for the properties.
`Expires` and `Longest` describe the hardware, as the comments and masks of the
drivers do; only for the 6300ESB the source gives no width, and its counter is
assumed to hold any 16-bit timeout.  If timers of several drivers run, only the one that succeeded is
looked at for its time.

### SafeUpdate and the refinement

SafeUpdate knows no files: there is a confirmed kernel, at most one candidate,
which is pending, being tried or gone, and a kernel that runs.  A trial counts
from the moment the machine decides on it (`Try`), takes place in one boot, and
ends with `Confirm` or with the next `Reset`; a loader that gives up before the
kernel runs has ended it as well.  BootGuardRefines maps BootGuard
to it: the confirmed kernel is that of the newest confirmed record; the
candidate is the record that is INSTALLED or TESTING; `running` is the payload
in `os` and `hang`.  The mapping has to look past the disk in two places.  While
the record of the trial is being overwritten in place, its old and its new
content are both gone from disk, and the memory of the writer (the loader in
`saving`, the process that has truncated the file) says what the candidate is.
And a record that is still TESTING on disk when the loader starts again belongs
to a trial that is over, though it is not yet marked FAILED.

### Volumes, ConfigSearch and the code

A machine is a set of disks with their tables, the boot partition, the partitions
that hold a config file, labels, what is mounted, and what an earlier boot stage
has put into LoaderDevicePartUUID.  `Volumes` has one action per iteration of
`get_volumes` (`AddVolume` inserts a volume of the boot medium in front of the
others) and `enumerate_cfg_parts`, then the lookup of the kernel's label and the
EFI variable.  Device paths are sequences of nodes; `GetMediumPath` cuts off the
last one, which on an unpartitioned disk is the disk itself, so that sibling
disks count as the boot medium (utils.c:268); the properties exclude that.
A label is compared up to the end of the one given (utils.c:242): a volume `K1`
is taken for `L:K:`, and before a volume `K` if it comes first, where
docs/USAGE.md:157-160 speaks of the label of the partition.  `KernelByLabel` says
what a label means, the very label, for machines on which no label goes on where
the given one ends.

`ConfigSearch` follows `probe_config_partitions`: the EFI variable may limit the
search to one disk; devices are added with the partitions `check_partition_table`
finds, and each FAT partition is mounted unless it is, searched and unmounted.
The list of devices is freed only by walking to its end.  What this shows:

* a search that stops because there is one config file too many leaves its list;
  the next search in the process appends to it, meets the same files again and
  fails too, unless errors hide some of them (`SearchExact`, third conjunct);
* the library looks for FAT file systems only behind the partition types it
  lists (ebgpart.c:57-94, 0xEF of an MBR is not among them), the firmware behind
  all; config files on the others (`unlisted`) are found by the loader alone;
* an unused entry in a GPT hides what follows from the library, not from the
  loader (`Visible`); if it is the first one, the library goes on with the MBR
  entries in front of the GPT, which the firmware ignores;
* for the same reason an I/O error at the first entry of a GPT beside other MBR
  entries makes the library show partitions it otherwise would not; the second
  conjunct of `SearchExact` therefore says `CfgInScope` and not `InScope`;
* an I/O error at a GPT partition other than the first loses the whole list;
* `read_env` and `write_env` leave a partition mounted when the file does not open;
* a variable that an earlier boot stage has set with another length is refused
  (env_config_partitions.c:53), and then, too, all disks are searched; that the
  path of a disk cannot be resolved is not tested and ends the process;
* without GPT on the boot disk there is no variable, and the library searches
  all disks without a rule like that of the loader for the boot medium.

Loader and library number the files in the order they find them, which may
differ; numbers are never exchanged, and only ties between equal revisions would
be broken differently.

### Sessions and the code

BootGuard has one process, which reads all records in one step.  Sessions has
several, each with `mem` (the static `envdata`), `initialized`, an open handle
and the record it is reading or writing.  Records are read one by one; a read
that fails leaves an old copy or a cleared one, and the session goes on.  A
process may be killed anywhere.  `seen` and `whole` are records for the
properties: the files as the process last saw them, and whether all its reads
worked.  `Reboot` applies what `load_config` writes.

The library takes no lock.  `Serial = TRUE` is an assumption on its users: one
session at a time, from `bgenv_init` to `ebg_env_close`.  Without it TLC finds
`NoLostUpdate` violated at once, for instance by a process that confirms with a
copy of a record another process has meanwhile replaced.  With it, a process
never truncates a file it has not seen, even after others died in the middle of
a write.  One failed read is enough to lose this: `bgenv_init` ignores the
result of `read_env` (env_api_fat.c:182), and the cleared copy of the running
configuration is then the oldest one.  Closing a confirmed record that was only
opened truncates and rewrites it, so the operator of the model opens a record
only to confirm it.

### UnifiedKernel, KernelStub and the code

`UnifiedKernel` has one action per section the tool adds; `add_section` is the
method of that name, with the file relocation it may cause.  `WriteImage` lays
the pieces one after the other and fails where `bytearray` would get a negative
length.  That happens with an empty initrd or device tree: a section without
data is not pushed back with the others (bg_gen_unified_kernel:218), its offset
stays behind, and the tool ends with an exception once a header has moved the
data.  `FileLayout` is stated for files that are not empty (`Filled`).
`UnifiedBoot` loads the image the way a PE loader does: a section
survives if it overlaps neither the headers nor another section and fits into
the image.  `KernelStub` runs from there, with every firmware call failing at
will; `fw` is the firmware's memory map, its device tree, the variable and the
protocols registered.  The kernel may return, and the image may be started
again.  A missing partition UUID is undefined behaviour in the stub
(kernel-stub/main.c:220), on a disk without GPT or when the device path cannot
be had: the stub crashes or sets a meaningless variable.

## 3. Runs

| Run | Result | What it shows |
|---|---|---|
| `update_flaky` | pass | `AlwaysBootable`, `RollbackWorks`, `ConfirmedNeverLost` with power cuts everywhere, missing partitions, read, write and firmware errors and failing watchdog probes, for a careful operator |
| `update_live` | pass | `MarkedBeforeStart`, `OutcomeReported`, the liveness property `RollbackHappens` and the refinement `KeepsPromise` on working storage with power cuts, with three config partitions |
| `any_operator` | pass | `TypeOK` and `DistinctRevisions` for an operator who does anything but set revisions by hand |
| `env_scan` | pass | `ScanCorrect`, `LibraryScansCorrect`, `SameLatest`, `SuccessMeansComplete` over all contents of three files |
| `uservars` | pass | `TypeOK`, `KeysUnique`, `SetIsLocal`, `RefusedOnlyIfFull`, `GcIsExact`, `ReopenKeeps` |
| `watchdog` | pass | `TypeOK`, `SuccessMeansArmed`, `NeverUntimed`, `PlatformFirst`, `NothingMissed`, `TimeEnough` and the liveness property `Ends` over machines with one or two devices |
| `boot_media` | pass | `RecoveryMode`, `KernelByLabel` (loader), `SearchExact`, `MountsRestored` (library), `SameFiles` (both) over machines with two disks |
| `sessions` | pass | `NoLostUpdate`, `ConfirmedSurvives` for two processes whose sessions do not overlap |
| `unified_boot` | pass | `FileLayout`, `NothingDangles`, `RunsAsBuilt`, `CopyFits` from the generator to the running kernel |
| `failed_again` | violated | `FailedNeverBooted`, see findings |
| `uservars_full` | violated | `AreaTerminated`, see findings |
| `watchdog_time` | violated | `TimeoutHonoured`, see findings |

Bounds.  Two config partitions are the default of `configure` and the smallest
number with a way back; `UINT32_MAX = 5` leaves three updates in a row, enough
for an update, its failure, the next update over the failed record and its
confirmation, after which the pattern of records repeats with shifted revisions.
`update_live` has three config partitions and `UINT32_MAX = 7`, so that there
are confirmed records older than the one to fall back to, and two working
kernels, so that the confirmed one can change and be told from its successor.
`any_operator` uses `UINT32_MAX = 3` so that revisions do run into the end of
their range and wrap, and one kernel because its properties do not look at
kernels.  `env_scan` has three files, the smallest number in which a former
latest record can be displaced twice, and revisions 0 to 3 = UINT32_MAX, so that
all orders, ties and both boundary values occur.  `uservars` has the smallest
area `configure` accepts (96 bytes), three keys of two lengths and data lengths
chosen so that the area can be filled to the last byte and missed by one.
`watchdog` has every kind of device alone with all tables and stations, so that
each driver meets each other one, and pairs of devices, the smallest number in
which a driver's failure or a `probed_before` flag carries over; the timeouts
are 0, 1, a usual one, the limits of the counters (255, 614, 1229, 8388 and
65535 seconds) and the first that a byte cannot hold (256), and the WDAT timer has
ten bits of 0.6 s.
`boot_media` has pairs of disks (GPT, GPT with a hole, MBR with logical volumes,
a GPT behind an MBR partition, also with its first entry unused, unpartitioned)
with at most four FAT
file systems, every subset of which holds config files, so that there are too
few, enough and too many on each medium, under listed and unlisted types and with
three labels, one the beginning of another; two config files are expected, two I/O
errors may happen, and two searches suffice for the second to start with what
the first has left.  `sessions` has two processes and two records; a process
that ends starts afresh, so that two stand for any number one after the other.
`unified_boot` has stubs with the text below and above the first page, headers
that run into the data after one or after several sections, kernels of three
alignments, an empty initrd, up to two device trees of four kinds, two starts and
two failures.

Deadlock is checked in all runs of BootGuard that pass: there is always a step,
if only a power cut or a reset (`halt` without a watchdog ends in a power
cycle).  `env_scan`, `watchdog`, `boot_media` and `unified_boot` end when their
loops end, the searches are used up, or the starts.

Fairness.  `FairSpec` has weak fairness of the loader's steps (it runs alone and
waits for nobody) and of `WatchdogReset` (an armed timer nobody serves expires).
Nothing forces a power cut, a reboot or a call of the library.
`RollbackHappens` excuses only `PowerLost` steps that never cease: restarts that
are neither a watchdog reset nor a reboot nor a step of the loader.  A loader that
started the hanging update after every watchdog reset would violate it.  In
Watchdog the
weak fairness of `Next` says that the loader, which runs alone, goes on while it
has a step to take; that each driver's `init` returns is part of the model (the
IPMI driver bounds its retries by a timer, the EIO-IS200 by a count).

### Findings

* `failed_again`: docs/UPDATE.md:57 says that revision 0 "avoids that the
  corresponding configuration is booted again in future".  If an update is
  installed while the latest record is still unconfirmed, it replaces the last
  confirmed one; when it fails and the unconfirmed one fails too,
  `pre_latest_idx` keeps its start value and the loader boots a record it has
  marked FAILED.  With the rule "confirm first" this cannot happen
  (`update_flaky`, theorem `Bootable`).
* `uservars_full`: `bgenv_uservar_realloc` (`env/uservars.c:154`) compares with
  `new_rsize - 1` where `bgenv_uservar_alloc` compares with `datalen + 1` and
  explains why.  A variable that grows to the last byte leaves no closing zero;
  the next reader finds the area corrupt and clears the environment.
* `watchdog_time`: docs/UPDATE.md:28 calls `watchdog_timeout_sec` the "Number of
  seconds, the watchdog times out after".  The TCO driver writes the low ten
  bits of the ticks (`drivers/watchdog/itco.c:391`): 616 seconds become 1.2
  seconds.  The NCT6116 driver keeps a byte (256 seconds switch it off), IPMI and HPE keep 16 bits, WDAT the
  mask of its table, while others saturate; below the limit of its counter every
  driver gives the time asked for (`TimeEnough`), up to three seconds lost to
  rounding.

## 4. Proofs

All proofs are checked by TLAPS with Z3, Zenon and LS4.  They hold for every
value of the constants that satisfies the named ASSUMEs of the modules, which
TLC evaluates in every run: among them that partition tables are well formed and
config files lie on FAT file systems (`MachinesAssumption`), that the firmware's
device tree is in the firmware's memory (`BoardAssumption`), that labels are
sequences of characters (`LabelsAssumption`), and that a stub is
an aligned PE image with its sections in order (`StubsAssumption`), linked below
the address of the command line and without overlap (`LinkedAssumption`).  Premises
beyond these are written into the theorem.  No property is inductive as it
stands; what had to be added is named for each.  TLC has checked every
inductive invariant on the instances of section 3 before it was proved.

### The update mechanism (BootGuardProofs, BootGuardRefinement)

| Theorem | States | Premise | Invariant |
|---|---|---|---|
| `TypeCorrect` | `TypeOK` | – | `TypeOK` |
| `Distinct` | `DistinctRevisions` | `NoRevisionByHand` | `VInv` |
| `Invariance` | `IInv` | `CarefulOperator` | `IInv` |
| `Bootable`, `Rollback`, `NeverLost` | `AlwaysBootable`, `RollbackWorks`, `ConfirmedNeverLost` | `CarefulOperator` | `IInv` |
| `TrialInvariance` | `RInv` | `SoundMedia` | `RInv` |
| `Marked`, `Outcome` | `MarkedBeforeStart`, `OutcomeReported` | `SoundMedia` | `RInv` |
| `Refinement` | `KeepsPromise` | `SoundMedia` | `RInv` |

`CarefulOperator`: the operator keeps to the procedure and confirms first, the
loader can read the files it has seen, and there are at least two config
partitions.  Power cuts, torn writes, missing partitions for the second boot and
write errors are not excluded; `Visible` is any set of sets of partitions.
`SoundMedia` adds that writes do not fail and all partitions are found; power
still fails anywhere.  These theorems are false without: a loader that could not
save its mark boots nonetheless.  `NoRevisionByHand` forbids only
`bg_setenv --revision`; every other call, in any order, and every failure may
happen.

That some record is confirmed says nothing about which one a write in progress
is about to destroy.  `IInv` adds the *anchor*: there is a confirmed record `g`,
newest of the confirmed, and a single other record `u` that may be pending; all
live records besides are confirmed and older.  Whatever the loader is about to
save and whatever a process has open belongs to `u` and is newer than `g`; what
`setglobalstate` writes in addition is not live.  A crash can then only hurt
`u`, and `u` becomes the new anchor in the one step in which its confirmation is
complete on disk.  The anchor also fixes what the searches find (`LatestIs`,
`PreLatestIs`, `LibLatestIs`, `LibOldestIs`), which is where revisions and ties
enter.

`RInv` adds to the anchor what loader and process are doing with `u`: what the
loader is about to mark is what it has read (`Marking`), what it starts is the
update if its trial is marked and the newest confirmed record otherwise
(`Chosen`), a trial on disk is the one that runs (`OnTrial`), and a process has
either a new update open or the record of the running trial (`Editing`).  With
it the refinement mapping is a function of the anchor (`Views`): the confirmed
kernel is that of `g`, the candidate that of `u`.  The proof of `Refinement`
then has one lemma per group of steps: reads, calls of the library that only
edit copies, the decision of `load_config` and every truncation of a file by a
process stutter; the last write of an update is `Install`; the first byte the
loader writes to mark it is `Try`, so that a power cut in the middle of the mark
is already a `Reset` of the trial; the end of the write that confirms is
`Confirm`; every restart of the loader is `Reset`, and so is a step by which it
gives up (`HaltMaps`).

`VInv` is about revisions only.  It must speak of the copies of a process (they
have different revisions, and agree with the disk but for the open record), of
what the loader is about to write, and of partition 0 even when its file is
torn, because the scan of `load_config` falls back to it when nothing matches.
The increment of the latest revision may wrap to 0, which is not live.

### The loops (EnvScanProofs)

`LoopInvariance`, `LoaderScan`, `LibraryScans`: for any number of files and any
revisions the loops end with what `ScanCorrect` and `LibraryScansCorrect` say.
The invariant is that of each loop: after `i` iterations the two indices are the
best two of the first `i` slots.  `Report` (`SuccessMeansComplete`) adds that as
long as the result is success the first `i` files were read and are right
(`ReportInv`).  `Agreement` (`SameLatest`) combines both: the loader's latest and
the library's are each the first maximum of the same revisions, and there is
only one such.

### Sessions (SessionsProofs)

`SessionTypes` holds for any interleaving.  `NothingLost` (`NoLostUpdate`) has
the premise `Serial`, one session at a time; `UpToDate` says that what the
process in its session has read is on disk, up to the record it is reading.
`FallbackKept` (`ConfirmedSurvives`) needs two config partitions besides;
`SafeInv` is the anchor again, with the copies of the process in place of the
tool's, and holds while no read has failed.

### User variables (UserVarsProofs)

| Theorem | States | Premise |
|---|---|---|
| `OneRecordPerKey` | `KeysUnique` | – |
| `SetLocal`, `Refused`, `Exact` | `SetIsLocal`, `RefusedOnlyIfFull`, `GcIsExact` | – |
| `Room` | `TypeOK`, `AreaTerminated` | `~Tight` |
| `Accepted` | `ReopenKeeps` | `~Tight` |

`~Tight` excludes the replacements of the finding `uservars_full`, and only
those: without it the last two are false.  The byte counts are recursive
functions over the packed records.  That such a function exists, and what it is
after an append, a deletion and an overwriting, is shown by induction: `CountUp`
is induction over a set of numbers, from the least counterexample, and `Loop`
the existence of the values of a loop; neither needs an operator as parameter.
The countdown of `bgenv_user_free` then loses the size of an appended record
(`FreeAppend`) and gains that of a deleted one (`FreeRemove`); the walk of
`bgenv_validate_uservars` is the same countdown as long as a byte is left at its
end (`Validates`); and the loop over the registry has, after `n` rounds, deleted
the first `n` registered keys and nothing else (`CollectedHolds`).

### Watchdog (WatchdogProofs)

`Success`, `Timed`, `Platform`, `Complete`: `SuccessMeansArmed`, `NeverUntimed`,
`PlatformFirst` and `NothingMissed` hold for device lists of any length, any
timeout and all failures of the drivers' steps, with the two exceptions written
into `SuccessMeansArmed`; `WatchdogTypes` for the cursor.
`WInv` says which drivers have had their chance: those before the cursor on the
device under it (`TriedHere`), all of them on the devices behind it
(`TriedBefore`), and one that looks only once on every device (`OnceTried`),
which is why the `probed_before` flags hide nothing.  `EnoughTime`
(`TimeEnough`) is arithmetic over the ticks of each of the eleven drivers, with
the widths of their counters; its premise is that a tick of the WDAT timer is
not longer than the slack.

### Volumes and mounts (BootMediaProofs)

`Recovery` (`RecoveryMode`) and `LabelledKernel` (`KernelByLabel`) hold for any
number of disks and every order in which the firmware lists them.  `LoaderInv`:
the volumes of the boot medium are exactly the first `bootCount` ones while the
list is built, by insertion in the middle and at the end (`Sorted`); the config
files found are all of the boot medium or none is (`Unmixed`); without I/O
errors nothing seen so far is missing.  `KernelByLabel` is about the exact label
and has the premise that no volume's label goes on where it ends; the loader's
own prefix test then finds the same volumes.  `Mounts` (`MountsRestored`): the mount
the library has made is none of the system's (`Mounted`) and is held only while
a partition is looked at (`Held`).

### The search for config partitions (BootMediaProofs)

`ExactSearch` (`SearchExact`) and `LibraryAgrees` (`SameFiles`) hold for any
number of disks, partitions, searches and I/O errors.  The proof has two halves.

*The tables* (Part 7).  `ListOf(s, A, F)` says of a list of partitions that its
numbers are different and in `A`, and that the FAT file systems among them are
those in `F`; it is kept when lists without a common number are joined.  With it
`MbrList`, `GptList` and `LogicalList` say what `check_partition_table` returns,
and `TableSound` that without I/O errors this is what `Visible` says; with
errors the list still has no number twice (`TableFault`).

*The search* (Part 8).  `Hits` are the entries of all lists of devices at which a
config file is found, `Walked` those the search has passed.  `SInv` says that a
list that began empty has each disk of the scope at most once, without errors
all of them with just what is visible (`Probed`); that the config partitions
found so far are those walked (`Gathered`), and as many (`Counted`); and that a
list that is left over has more hits than a search accepts (`LeftOver`,
`Overfull`).  The last is what makes every later search fail: it only adds to
the list, and counts past the limit before it reaches the end.  `Counted` must
be kept apart from `Gathered` because in a list that is not fresh a partition
may occur twice.  `SameFiles` follows by counting: either the scope is the boot
disk, and as many files as that has were found on it, or all disks were searched,
the files of the boot disk among them, and there is room for no others.

### The unified kernel (UnifiedBootProofs)

| Theorem | States | Premise | Invariant |
|---|---|---|---|
| `Clean` | `NothingDangles` | – | `KInv` |
| `ImageInvariance`, `Layout` | `FileLayout` | `Filled` | `GInv` |
| `RunInvariance`, `CopyInBuffer` | `CopyFits` | `Fits`, `WellFormed` | `RInv` |
| `AsBuilt` | `RunsAsBuilt` | `Fits` | `RInv` |

The premises are those written into the properties: no input file is empty; the
inputs fit between the fixed addresses; the kernel's header is right about its
length.  The number of starts, of failing calls and of device trees is any.

`KInv` says for every place in the stub what memory is in use, whether this
start's device tree is missing, loose or in the table, and where protocols may
be registered.  A tree installed by an earlier start stays in the table and in
memory, which is why the invariant counts the starts.

`GInv` is about the headers while sections are added.  The data of the stub has
been pushed back by one and the same amount, the difference between `first_data`
now and in the stub (`StubPart`), and the headers end before `first_data`, which
stays aligned (`IsHeaders`); behind the stub the files follow one another at
aligned places, and the next one goes to where the last one ends (`OrderPart`,
which needs `Filled`).  This is why the offsets of earlier sections stay right
when a later header moves everything.  `GFiles`,
`GTrees` and `GEntry` say which file, name and address each section has, and that
the entry point moves with a text section that is raised.

`RInv` joins generator and stub.  The sections in memory are those of the image
(`RLoaded`); since their addresses do not overlap, none is lost in loading.  The
scan has found a section as soon as it has passed its number (`RScan`).  The
tree that is to replace the firmware's is one given for the board (`RAlt`), and
the table holds the board's own tree or such a one (`RTable`), also when an
earlier start has installed it and the kernel has returned: the stub then
compares its trees with its own earlier choice.  The buffer has room for the
image after its start was aligned (`RCopy`).

### Only model-checked

* Liveness (`RollbackHappens`, `Ends`): out of the prover's reach.
* `update_flaky` covers read errors of the loader, which the safety theorems
  exclude.

## 5. Plan

1. *(done)* EnvData, BootGuard, EnvScan, UserVars, Watchdog; type correctness,
   safety of updates, the loops.
2. *(done)* Volumes, ConfigSearch and their composition; Sessions; the unified
   kernel from generator to stub; the abstract specification and the refinement.
3. *(done)* Proofs: the refinement, trials and revisions of BootGuard; what the
   loops report; sessions; user variables; watchdogs; volumes and mounts; the
   cleanup of the stub.
4. *(done)* Proofs: the layout of the unified image, what the stub starts from
   it and where it copies the kernel; the search for config partitions and its
   agreement with the loader.  Every safety property of a passing run is now
   stated by a theorem.
5. The setters of `bgenv_set` with the width of numbers and the length of
   strings, the parsing of options and the file mode of `bg_setenv`.

## 6. Not modelled

* CRC32: taken to detect every incomplete write.
* Shell completion: scripts for interactive use.
* bg_printenv beyond its session: it formats and prints, and changes nothing.
* Strings and numbers in `bgenv_get` and `bgenv_set`, the parsing of options and
  the file mode of the tools: planned.  Setting `revision`, `ustate` and
  `in_progress` through `ebg_env_set` by name is covered only by the journals of
  `bg_setenv`.
* The byte layout of partition tables, FAT headers, PE headers, device trees,
  ACPI and SMBIOS tables, and the registers of watchdogs: abstracted to what the
  code reads from them.
* `initrd_load_file`, which copies the initrd to the kernel on request: a
  read-only service; that it is registered just while the image is there is
  part of `NothingDangles`.
* Running out of memory in user space; a device tree fixup that reports success
  for a buffer of size 0 (the stub then starts the kernel with the firmware's
  tree) or changes the size it was given (the stub frees as many pages as the
  new size has); and the wrap of the 32-bit sum of SizeOfImage and
  SectionAlignment in `kernel_pages`, which needs a kernel of almost 4 GB.
