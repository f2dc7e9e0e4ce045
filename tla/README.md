# A verification development of ARFW

ARFW makes APFS disks readable on Windows. It runs as a Windows service or in a
console, waits for disks, finds the APFS partitions on them, and mounts each as a
drive letter through WinFsp. What WinFsp asks for is answered by an APFS library
that reads the raw disk (`vendor/apfs`).

This directory has TLA+ modules that model the program, TLC configurations that
check them on small instances, and proofs of the most important results for
instances of any size. `PROJECT.json` maps each definition to the lines that it
stands for, and lists the runs, the hazards, the theorems and the mutants (for each
property, a plausible bug that the property catches).

* Run a check: `tlc -config X.cfg M`, with the module of the run in `PROJECT.json`.
* Check the proofs: `tlapm DaemonProofs.tla` (and `DeviceWatcherProofs`,
  `MountManagerProofs`, `DriverProofs`, `FileReadProofs`, `ProgramProofs`, `BTreeProofs`,
  `ApfsVolumeProofs`). All of them take about ten minutes.

Contents: [Inventory](#inventory) - [Modules](#modules) - [Runs](#runs) -
[Fairness](#fairness) - [Proofs](#proofs) - [Where the code does something
else](#where-the-code-does-something-else) - [What is not
modelled](#what-is-not-modelled) - [Plan](#plan)

## Inventory

The program is in `src/src`, the library in `src/vendor/apfs/src`.

| component | code | state | operations | called by |
|---|---|---|---|---|
| daemon loop and scan | `main.rs`, `device_monitor.rs` | `known_partitions`; the locals of a scan | wait for an event or a timeout, scan all drive numbers, mount what is new, unmount what is gone, stop | console (`main.rs`) or service |
| device watcher | `device_watcher.rs` | a registration with the Windows configuration manager (CM), a boxed `Sender` behind a raw pointer, a channel | register, callback, `Drop` | the daemon; CM calls the callback on its own threads |
| mount manager | `mount_manager.rs` | map from (disk, partition) to a mounted host | `mount_partition`, `unmount_partition` | the daemon |
| driver construction | `driver.rs`, `disk.rs` | three handles on one disk, a volume | `ApfsDriver::new` | the mount manager |
| driver callbacks | `driver.rs` | volume behind a mutex, raw handle behind a mutex, LRU cache behind a mutex, a context per open file | `get_security_by_name`, `open`, `close`, `read`, `read_directory`, `get_file_info`, `get_volume_info` | WinFsp, on several threads |
| raw disk reader | `disk.rs` | a handle of Windows with its file pointer | `read`, `seek`, `read_at_absolute`, opens | the driver; the library through `Read + Seek` |
| service | `service.rs` | status as reported, control handler, shutdown channel | `run_service`, install, uninstall | the service manager |
| library: container | `superblock.rs`, `lib.rs` | none (a volume is two block numbers) | `read_nxsb`, `find_latest_nxsb`, `ApfsVolume::open` | the driver |
| library: object map | `omap.rs` | none | `omap_lookup` | B-tree, open |
| library: B-tree | `btree.rs` | none | `btree_lookup`, `btree_scan` | object map, catalog |
| library: catalog | `catalog.rs`, `lib.rs` | none | lookups, path resolution, listing, walk | the driver |
| library: file data | `extents.rs`, `lib.rs` | `ForkReader`'s position | extent map, `read_file`, `ForkReader` | the driver (extent map only) |
| library: objects | `object.rs`, `fletcher.rs` | none | `read_block`, checksum | all of the library |
| command line and manual mount | `main.rs`, `service.rs` | the `FileSystemHost` of `arfw mount`, the handler of Ctrl+C | `main`, `run_manual_mount`, `run_daemon`, `install_service`, `uninstall_service` | the user |
| errors, utilities, build | `error.rs`, `utils.rs`, `build.rs` | - | - | - |

How they interact. CM's threads push events into an unbounded channel; the daemon's
one thread takes them out and does everything else in the daemon: it scans, calls
the mount manager, and looks for a request to stop when no event came for 100 ms.
Mounting creates a driver, whose callbacks WinFsp then runs on threads of its own
until the host is dropped. A callback uses one of the two handles under its mutex,
and the cache under a third. The service's thread *is* the daemon's thread once
WinFsp is there; the control handler runs on a thread of the service manager and
talks to it through another channel. Nothing is persisted by ARFW: the only thing
that survives a crash is the disk itself, which somebody else writes.

### What is hard here, and what would make it correct

* **Disks change under everyone's feet.** A drive number is reused by the next disk;
  each open is by number; a mount opens the disk three times, at an offset that it has
  from the scan. *Correct*: no driver mixes two disks; if the disk that was scanned is
  still there, the volume that appears under a key is that of its partition; a volume is
  unmounted only when its disk is gone. That is also the limit: nobody asks the
  partition table again, so if another disk has come meanwhile, a container that was left
  over at that offset of it is mounted, and stays while the key is present.
* **Events and scans race.** An event says only that something changed; it may be
  delivered in another order, during a scan, or before the watcher exists.
  *Correct*: once the daemon has dealt with all events, a volume is mounted under the
  key of each partition that is present and holds one, and under no key that is absent.
  It is by key: under a number that was reused between two scans it may be the volume
  of the disk before ([below](#where-the-code-does-something-else)).
* **Memory shared with the operating system.** The callback dereferences a raw
  pointer to a box that `Drop` frees. *Correct*: the box is live while a callback
  runs, freed in the end, and `Drop` cannot hang.
* **Teardown.** A return drops what exists by then, in the middle of a start or at the
  end. *Correct*: no callback, no `Sender` and no volume is left.
* **One file pointer for two threads.** Reading is two to four calls of Windows.
  *Correct*: each byte is the right one, whichever threads interleave and whichever
  calls fail.
* **The cache has entries of two kinds**, with and without extents, and no lock is
  held from a look to a put. *Correct*: a file that is open has its extents.
* **Disks are pulled out of a Mac in the middle of a write**, and blocks go bad.
  *Correct*: the last committed transaction is the one seen, all of it; the library
  never takes an error for "not found". (The driver does: `get_security_by_name`, `open`
  and `get_file_info` turn every error of the library into
  `STATUS_OBJECT_NAME_NOT_FOUND`, `driver.rs:167`, `203` and `392`. `exists` and `walk`,
  for which it matters most, are in the library's interface only; ARFW calls neither.)
* **A directory is told of in one buffer**, and times and sizes go through casts and
  sums of words that wrap. *Correct*: what is answered is what the inode says.
* **Service manager**: timeouts, controls at any moment, an uninstall that does not
  wait. *Correct*: it is told the truth, and told in the end.
* **Ctrl+C** comes before its handler is set, in the middle of a mount, or in the first
  scan. *Correct*: the program ends and nothing stays mounted.

`PROJECT.json` lists 39 hazards at their lines, with the properties that would catch
them, or why none does.

## Modules

| module | models | is used by |
|---|---|---|
| `PhysicalDisks` | *environment*: drive numbers, arrivals, partition tables, containers | `MountManager` |
| `DeviceWatcher` | `device_watcher.rs` | `Daemon` as `W` |
| `MountManager` | `mount_manager.rs`, `ApfsDriver::new`, the opens | `Daemon` as `M` |
| `Daemon` | `main.rs` (daemon), `device_monitor.rs` | `DaemonHistory` |
| `DaemonHistory` | *history variables* for `Daemon` | - |
| `DaemonLife` | *abstract*: what `run_daemon_internal` is to its callers | refined by `Daemon`; `Service` as `L`, `Program` as `D` |
| `Service` | `run_service` and its control handler | `Program` |
| `Program` | `main`, `run_manual_mount`, `run_daemon`; install and uninstall of `service.rs` | - |
| `FileInfo` | `fill_file_info` and the conversions of `driver.rs` | `Driver` |
| `Extents` | extent map of `lib.rs`, and how `driver.rs` searches it | `FileRead` |
| `DiskReader` | `Read`, `Seek`, `read_at_absolute` of `disk.rs` | `FileRead` |
| `ByteStream` | *abstract*: what `std::io::{Read, Seek}` promise | refined by `FileRead` |
| `FileRead` | `ApfsDriver::read`, `read_block`, on two handles with mutexes | - |
| `Driver` | the other callbacks of `driver.rs`, cache and mutexes | - |
| `BTree` | `btree.rs`, `omap.rs` | `Catalog` |
| `Catalog` | `catalog.rs`, the operations of `ApfsVolume` | `ApfsVolume` |
| `ApfsVolume` | `superblock.rs`, `ApfsVolume::open`; *environment*: the Mac that writes the disk | - |
| `MC...` | values of constants for TLC | the runs |
| `...Proofs` | invariants, lemmas, theorems | - |

An operator whose name is another's name with a suffix, and whose comment begins with
"Mutant of", is not part of a model.

### PhysicalDisks, MountManager

An arrival of a disk gets an identity, `arrivals`; `slot[d]` is the disk that has the
number `d` now. A handle is the identity it was opened on, so "the handle still
works" is "this identity is still in its slot". `mount_partition` is one step per
call: `Begin`, `OpenDisk`, `ReopenRaw`, `ReopenForSize`, `OpenVolume`, `HostMount`,
or `Fail`, which happens when the next call cannot succeed or an I/O error makes it
fail. The size is either read through the third handle or, if that read fails, is
what the first handle knew: the model takes both. A disk comes with a `table`, which
only the scan reads, and with `volumes`, the offsets at which there is a container that
can be opened, which is all that `OpenVolume` asks for: `ApfsVolume::open` looks at magic
numbers and checksums and not at the partition table. The two need not agree: a
partition may be unformatted, and a container may be left over where a partition was once.

### DeviceWatcher

`watch` and `box` are the registration and the heap box. `raised` counts what CM owes,
`running` the callbacks that execute. `CM_Unregister_Notification` is two steps, since
it waits for callbacks; that it does is the contract of CM that the code relies on, and so
is that it succeeds: `Drop` ignores its result (`device_watcher.rs:122`) and frees the box.
The channel is the sequence of events.

### Daemon

`pc` has a place for each point where the thread can be overtaken: between two
disks of a scan, between two steps of a mount, between the scan and the unmounts.
`M` and `W` are instances that share its variables; a plug or pull is a step of both
(the table changes *and* a notification is raised). `select!` takes an event when
there is one and times out only if there is none. The order of destructors is
`DropWatcher`, then `DropMount` for each volume, then `Exit`.

### DaemonLife, DaemonHistory

Both callers of `run_daemon_internal` know of it only that it may fail before it
serves, that a message in its channel makes it leave, and that it returns when it has
left. `DaemonLife` is that, in four steps and `Ask`; `Daemon` implements it with
`Stage` and `stop` (property and theorem `ImplementsLife`), so `Service` and `Program`
use it in place of the whole daemon.

`DaemonHistory` runs `Daemon` with two more variables. `clean`: since the last scan
began there was no error and no letter changed hands. It exists for
`CleanScanMountsAll`: a mount that failed is not in `known_partitions`, so a later scan
tries it again. `listed`: the disk whose partition table was read last for each number.
It exists for `ListedIsMounted`: between that look and the mount there are all the other
numbers, all the other mounts and three opens, and what the scan found must be of this
scan, under its key and at its offset. Neither variable restricts a step of `Daemon`, and
all runs of the daemon carry them.

### Service, Program

`Service` is the process that the service manager starts: one step per call of
`run_service`. `Tell` is `set_service_status(..)?`, which may fail and then ends
`run_service` with an error that `service_main` only logs: the history variable
`failed` remembers it. The daemon in the middle is `DaemonLife`, and the message of the
control handler is its `Ask`. `now` counts polls. The Boolean `mail` is enough since
only the first message is ever received. The manager delivers a Stop only to a service
that said it takes one; an interrogation comes at any time.

`Program` is a console in which one `arfw` command runs after the other, next to that
service: `main` (`Main`), `run_manual_mount` (`ManualMount`, one step of `Follows` per
`?`), `run_daemon` (`DaemonLife` again, with its own variables), `install_service`
(`Create`, `Describe`, `Start`) and `uninstall_service` (`Query`, `StopService`,
`SleepTwo`, `DeleteService`). Ctrl+C may come at any step; without a handler Windows ends
the process. `host` is what `arfw mount` has mounted; it goes with the process, on each
path. The entry of the service in the manager's database is `entry`: a deleted service
is only marked while it runs or somebody has it open.

### Extents, DiskReader, ByteStream, FileRead

Bytes are named by where they lie on the disk, so the content of a buffer tells
where it came from, and "the right bytes" is a statement about addresses. Each call of
Windows (`SetFilePointerEx`, `ReadFile`) is a step and may fail. The extent map is
built as the code builds it: lengths laid end to end, the addresses of the records
ignored. `FileRead` has the loop of `ApfsDriver::read`, and the library's
seek-and-`read_exact`, on the two handles. Its `IsByteStream` is a refinement: with
`StreamPos` and `StreamData` the handle of the metadata implements `ByteStream`,
although it is really at sector boundaries most of the time.

### Driver, FileInfo

`cache` is the LRU list, most recently used first. A callback goes through `lookup`,
`wait`, `inside` (holding the volume's mutex), `put`, `answer`; `read_directory` through
`fill` and `filling` (holding the cache's), then its buffer is filled and read
(`Filled`) and, if nothing marked the end in it, WinFsp asks once more with a marker
(`ReadOn`) and is told that there is no more. `get_security_by_name` of the root is
answered at once, from the path. An entry has the stat of its inode or the
zeros that a listing has when an inode cannot be read; its kind and number come from the
record of the directory and are right in both cases. Looking up and putting are one
step each since each is under the cache's mutex.

`FileInfo` has what is told of a stat. Words are `0 .. 2 * Half - 1`, and the
conversion of a time is the code's: divide towards zero, cast, add, wrap. It wraps in a
release build only; with the overflow checks of a debug build `apfs_time_to_filetime`
panics for each time before 1970.

### BTree, Catalog, ApfsVolume

The library keeps no state, so `BTree` and `Catalog` are operators over a disk: a
function from the numbers of readable blocks to what they hold. Parsing is abstracted
(a node is its sequence of records), control is not: which node is read next, where a
loop stops, which error wins. A descent goes on through at most `MaxHeight` levels, and
`walk` through `MaxDepth`, as functions on the levels in place of the code's recursion; a
tree that would be higher is never written (`fits`), so no answer depends on the bounds.
`ApfsVolume` adds who writes the disk. The Mac is
external. It is taken to behave like this: a transaction writes new nodes into
blocks that no checkpoint in the ring uses, keeps the mapping of a node that did not
change, then writes a checkpoint map, then the superblock; block 0 is brought up to
date when the volume is ejected; the disk is pulled at any point, and a checkpoint
block or block 0 that is being written then is torn. Contents change by create, hard link,
unlink, rename and write; the first one, `FirstContent`, may be any that a volume can have
(`IsContent`), whose directories are nested within `MaxDepth` (`IsNested`), and that fits.
What the library answers is compared with the *content*
(`Reached`, `StatOf`, `EntriesOf`...), which is computed without any tree.

## Runs

A run that is expected to be violated is about a comment that the code does not keep;
see [below](#where-the-code-does-something-else). States are distinct states; where TLC
stops at a violation their number varies. Each run takes less than three minutes on two
cores.

| run | module, configuration | states | what it shows |
|---|---|---|---|
| `watcher` | `MCDeviceWatcher`, `MCDeviceWatcher.cfg` | 757 | No callback meets a freed `Sender` (`ContextAlive`); the box lives exactly as long as the registration (`BoxFollowsRegistration`); `Drop` ends (`DropTerminates`); an arrival under a registration reaches the channel (`ArrivalsAreReported`). |
| `mounts` | `MCMountManager`, `MCMountManager.cfg` | 325 496 | The three handles of a driver are on one disk, however disks are swapped between its opens (`HandlesAgree`). |
| `daemon` | `MCDaemon`, `MCDaemon.cfg` | 2 103 652 | `known_partitions` and the manager agree (`KnownIsMounted`); at rest a volume is mounted under each key that is present and holds one, and under none that is absent (`AutoMount`, `AutoUnmount`); without an I/O error, no volume is unmounted from its user while its disk is there (`OnlyGoneUnmounted`); if the disk that was scanned last under a number is still there, the volume that appears under a key of it is the one of its partition, at that partition's offset (`ListedIsMounted`); the channel outlives the loop (`SenderAliveInLoop`); nothing is left behind at the exit (`CleanExit`); to its callers the daemon is `DaemonLife` (`ImplementsLife`). |
| `daemon_two_disks` | `MCDaemon`, `MCDaemonTwoDisks.cfg` | 616 082 | After a scan that nothing disturbed, a volume is mounted under each key that is present and holds one, whatever failed before it (`CleanScanMountsAll`); the daemon comes to rest (`Settles`); a request to stop ends it (`StopIsHonoured`). |
| `removed_are_unmounted` | `MCDaemon`, `MCDaemonRemovedAreUnmounted.cfg` | 25 000 | `RemovedAreUnmounted` is violated. |
| `only_removed_are_unmounted` | `MCDaemon`, `MCDaemonOnlyRemovedAreUnmounted.cfg` | 29 000 | `OnlyRemovedAreUnmounted` is violated. |
| `all_are_mounted` | `MCDaemon`, `MCDaemonAllAreMounted.cfg` | 89 000 | `AllAreMounted` is violated. |
| `file_read` | `MCFileRead`, `MCFileRead.cfg` | 58 574 | One call of Windows per handle at a time (`OneCallPerHandle`); each byte of an answer is the one of that place in the file (`ReadIsExact`), and none is left out (`ReadIsWhole`); locks are given back (`LocksAreReleased`); the handle of the metadata is a byte stream (`IsByteStream`). |
| `driver` | `MCDriver`, `MCDriver.cfg` | 774 269 | A file that is open has its extents (`OpenFilesAreReadable`); answers agree with the volume in kind and number, and in size, allocation and times unless a listing had zeros for an inode that it could not read; what `open` tells of a file is right even then (`AnswersAreRight`); a listing that fits its buffer is given once and as a whole (`ListingIsWhole`) and does not take extents out of the cache (`ResolvedStays`); each callback returns (`CallbacksReturn`). |
| `volume` | `MCApfsVolume`, `MCApfsVolume.cfg` | 95 955 | The volume opens in its last committed state (`OpensTheLastCommit`), the operations answer what that holds (`AnswersAreTrue`, `WalkIsComplete`), and a block that cannot be read is never taken for something that does not exist (`NoLieOverABadBlock`). |
| `newest_mapping` | `MCApfsVolume`, `MCNewestMapping.cfg` | 2 000 | `NewestMapping` is violated. |
| `service` | `Program`, `Program.cfg` | 92 220 | The service is reported as running only while it serves, and a Stop that it took is not lost (`RunningMeansServed`); a stop and a start are answered (`StopIsReported`, `StartIsAnswered`); Ctrl+C ends `mount` and `daemon` and leaves nothing mounted (`CtrlCEndsIt`); an uninstall ends the service and its entry, also after an installation that failed half way (`UninstallEndsIt`). |

Bounds. They are constants, except `MCDeviceWatcher`'s, which is a conjunct of its
next-state relation, and the length of the paths that `ApfsVolume`'s properties ask
for (`PathsUpTo`).

* `daemon`, `mounts`: one drive number is enough for every confusion of two disks,
  since only a number can be reused; two resp. three arrivals give a disk, its
  successor and one more; two partitions give a table that its successor permutes. The
  layouts are chosen so that the successor has the same number at another offset and
  the other way round, that a partition holds no container, and that a container lies
  where the table has no partition. One I/O error and one letter taken by another program
  is what the properties distinguish from none.
* `daemon_two_disks`: two numbers, so that a scan looks at one while the other
  changes; liveness is checked here.
* `watcher`: four notifications at a time: an arrival, a removal, an unknown one, and
  one more of any kind.
* `file_read`: sectors of two bytes, blocks of four, a partition at an odd offset,
  so that nothing is aligned by accident; ranges that cross sectors, extents and the
  end of the file; a dense file with its extents in the opposite order on the disk and
  an empty record between, a file beyond the end of the disk, one with a hole.
* `driver`: a cache of two for three paths, so that eviction happens, and five
  callbacks on two threads: open, a listing that evicts, a listing that restores,
  and a race of two fills. Words of eight bits, with the relations of the 64-bit
  constants; times at both ends of their range and at both sides of the epoch; buffers
  that are too small for the listing, just large enough, and larger.
* `volume`: nodes of two records give trees of three levels from eight records;
  three transactions go round the ring of two checkpoints, so an old superblock is
  overwritten. One block may be bad, any one. Paths have up to three names, which is
  what three transactions can nest; two where a block is bad.
* `service`: four polls in place of 120; the program does not use the number. Ctrl+C
  is pressed once per command (`pressed`).

`TypeOK` of each module is one of its invariants. Those of `MountManager` and
`DeviceWatcher` are conjuncts of `Daemon`'s, that of `Service` of `Program`'s.

## Fairness

Only the program's own steps are fair, and weakly:

* the daemon's thread (`WF_vars(Thread)`): it is one thread of a running process and
  its calls return;
* each kind of callback (`WF_vars(Notify(a))`, in `DeviceWatcher` `CallbackStart`,
  `Callback`): CM dispatches what it owes, and a callback never blocks since the
  channel is unbounded;
* `Reclaim`: `CM_Unregister_Notification` returns when the callbacks have;
* each thread of WinFsp (`WF_vars(ThreadStep(t))`), the thread of the service
  (`Thread`) and that of the command in the console (`Console`).

Nothing is assumed of disks, users, other programs, the Mac, WinFsp's availability,
keys, or the service manager.

Mutexes are not fair, so no claim is made that a thread gets one while others keep
taking it: `LocksAreReleased` says that the holder gives it back, and
`CallbacksReturn` is about finitely many callbacks (`MaxCalls`). `StopIsHonoured`
needs events to stop coming, since the code looks for a request only in the timeout
branch; `MaxArrivals` bounds the events in the model, and a stream of events that never
pauses for 100 ms would postpone the stop in the program. `StopIsReported`,
`StartIsAnswered` and `UninstallEndsIt` except a `?` that ended `run_service`
(`failed`), after which the code reports nothing.

## Proofs

The theorems hold for any number of drive numbers, partitions, letters, disks,
notifications, threads and errors, for any volume, word width and capacity of the cache,
for any files, extents, sizes of sectors and blocks and any place of the partition, for any
names, contents, transactions and heights of trees, and nodes of any size. They
assume only what the `ASSUME`s of the modules say: that bounds are numbers, that the layout
of a disk maps partition numbers to offsets and has containers at offsets, that there are finitely many partition numbers, that the
root of a volume is a directory, that there is a file, that names and numbers of files are numbers,
that a node holds two records or more, that a volume's first content is one (its root a
directory, no directory in itself or with data: `FirstContentAssumption`), and that a word is wide enough for the epoch
and a multiple of a cluster (`FileInfoAssumption`, which the code's numbers meet).

| module | theorem | says |
|---|---|---|
| `DeviceWatcherProofs` | `TypeCorrect`, `NoUseAfterFree`, `NoLeak` | `TypeOK`, `ContextAlive`, `BoxFollowsRegistration` |
| `MountManagerProofs` | `TypeCorrect`, `OneDiskPerVolume` | `TypeOK`, `HandlesAgree` |
| `DaemonProofs` | `TypeCorrect`, `KnownMatchesMounted`, `SenderOutlivesLoop`, `ExitIsClean` | `TypeOK`, `KnownIsMounted`, `SenderAliveInLoop`, `CleanExit` |
| `DaemonProofs` | `PresentAreMounted`, `AbsentAreUnmounted`, `PresentAreKept` | `AutoMount`, `AutoUnmount`, `OnlyGoneUnmounted` |
| `DaemonProofs` | `CleanScanRepairs`, `ListedAreMounted` | `CleanScanMountsAll`, `ListedIsMounted` of `DaemonHistory` |
| `DaemonProofs` | `ManagerImplemented`, `WatcherImplemented`, `LifeImplemented` | the daemon implements `M!Spec` and `W!Spec`, and `ImplementsLife` |
| `DriverProofs` | `FileTimeIsRight`, `AllocationIsRight` | the conversions, for each time and size |
| `DriverProofs` | `TypeCorrect`, `OpenIsReadable`, `AnswersAgree`, `ListingsAreWhole`, `ResolvedStaysUntilEvicted` | `TypeOK`, `OpenFilesAreReadable`, `AnswersAreRight`, `ListingIsWhole`, `ResolvedStays` |
| `FileReadProofs` | `TypeCorrect`, `CallsAreSerial`, `BytesAreExact`, `AnswersAreWhole` | `TypeOK`, `OneCallPerHandle`, `ReadIsExact`, `ReadIsWhole` |
| `FileReadProofs` | `ByteStreamImplemented` | `IsByteStream` |
| `ProgramProofs` | `TypeCorrect`, `ManagerIsToldTheTruth` | `ProgramTypeOK`, `RunningMeansServed` |
| `BTreeProofs` | `LookupIsRight`, `ScanIsRight` | what `btree_lookup` and `btree_scan` find in any tree |
| `BTreeProofs` | `OmapLookupIsRight`, `OmapLookupOfNone` | what `omap_lookup` finds, of objects with and without mappings |
| `ApfsVolumeProofs` | `TypeCorrect`, `OpensTheLastCommitAlways` | `TypeOK`, `OpensTheLastCommit` |
| `ApfsVolumeProofs` | `AnswersAreTrueAlways`, `WalkIsCompleteAlways`, `NoLieOverABadBlockAlways` | `AnswersAreTrue`, `WalkIsComplete`, `NoLieOverABadBlock` |

**The watcher.** The invariant adds `OnlyWhileWatched`: callbacks execute, and
notifications wait, only under a registration. With `BoxFollowsRegistration` that gives
`ContextAlive`; neither is inductive alone, since `Reclaim` frees the box because no
callback executes, and `CallbackStart` is possible because the watcher is registered.

**The manager.** Identities grow with time, so handles can be compared: `Between(id,
meta, d)` says that a handle was opened no earlier than `meta`, and no later than
what is in the slot now. When `OpenVolume` reads through `meta` successfully, `meta` is
in the slot, so all handles in between are on the same identity. This is why the
order "reopen first, read last" in `ApfsDriver::new` matters, and what fails in the
mutant that opens the volume first.

**The daemon.** `IInv` is the invariants of both components (a step of the daemon is a
step of each, or leaves it alone: `ManagerStep`, `WatcherStep`, which also prove the
two refinements) and what relates the thread to them. The core is `EventPending`:
anything that a scan believes and that is no longer true has an event under way that
makes the daemon scan again. `FoundIsFresh` says so of what it has found, `FoundIsAll`
of what it has not, `FoundAreMounted` carries the second through the mount loop (for the
entries that hold a volume: the others fail each time), and
`KnownArePresent` the first through the unmount loop; at rest there is no event, so what
is believed is true. `FoundAreMounted` needs to know that a mount in the loop does not
fail: no I/O error, the disk unchanged or an event pending (`AttemptGoesWell`), and a
letter left, which is a counting argument (`LetterLeft`: no more volumes than keys, each
with one letter). `OnlyGoneUnmounted` rests on `MountedAreFound`: a volume whose disk is
still there was found by the scan, even when events are pending. `ListedIsMounted` is carried
from the scan to the mount by `ListedInv`: what is found is of a number that the scan has
passed (`FoundIsBehind`) and is from the table of the disk listed under it
(`FoundIsListed`), and the attempt carries such an entry (`AttemptIsListed`). Identities
only grow, so a disk that is still there under the listed identity is the one that was
read, and the offset is from its table. This does not use what the volume's blocks say: a
container at an offset that the table no longer has can be mounted, on another disk.

**The driver.** The cache is a sequence, and the first half is about sequences: what
`Without`, `Promoted` and `With` leave in it (`Removing`, `Before`, `Promoting`,
`Putting`), so that it never has a path twice nor exceeds its capacity. `IInv` then says
what is true of an entry (`TrueEntry`: with extents it has its inode, and while no error
happened all have) and of a callback on its way (`TrueCallback`: what it found is of its
path, what it is about to put has extents, what it lists is the listing). It needs no
mutex: each step that looks or puts is atomic, and what is found is true of a
read-only volume for ever, whoever changes the cache meanwhile. That is the argument by
which the code may drop its locks between a look and a put. `FaultsGo` is what makes it
inductive under errors: an error only weakens it. Which object a name is does not depend
on errors at all (`NameIsRight`), and `open` resolves for itself, so the kind, the number
and the answer of `open` are right under errors too.

**Reading.** `IInv` is a conjunction over the threads, and the argument is by ownership: a
call on a handle is under way only for the thread that has its mutex (`CallerHolds`), so a
step of one thread leaves alone all that another relies on, its file pointer included
(`OthersStayRight`). What is left is sequential: `ReadIsRight` says at each of the four
calls of Windows where the pointer is, and that a call is for the next bytes of its job;
`TransferGives`, which is arithmetic about sectors, that nothing comes back only where the
disk ends. The module begins with what is used of the extent map: an extent that has a byte has
it where the records say (`LocatedIsByte`), and where its file is dense it is the right one.
The sum of the lengths is a recursive function; that it exists and is a number is an
induction, done with sets in place of predicates (`Induction`, from the well-foundedness of
the natural numbers in the library). For the refinement, a read is one step of `ByteStream`:
the one that puts the pointer back (`RestoreIsRead`); before it the stream is at the
position where the read began, wherever the file pointer is.

**The service.** `RunningMeansServed` becomes inductive with what each place of
`run_service` knows: that it has told the manager, what it told, and that the handler's
message is kept as long as `DaemonLife` receives. `TypeCorrect` needs the deadline: the
checkpoint counts the rounds, and is bounded because the clock is.

**B-trees.** `IsTree` says what a tree over sorted records is: a leaf has a piece of them,
another node has for each child the first key of what that child's tree has.
`LookupLeaf` and `LookupIndex` are the two cases of `btree_lookup`'s descent (if a
record is equal, there is one below the last child whose first key is not behind it), and
`LookupTree` is the induction over the height. Nothing is said of how the records are cut
into nodes, and each node may be unreadable, so a lookup is either right or fails.
The object map compares by object only: of several mappings of an object one is found
(`OmapLookupIsRight`), not always the newest, which is the run `newest_mapping`.
`btree_scan` collects in the order of the tree and may be stopped by a record behind the
target. So a leaf, and a node with all its children, give the equal records of a stretch of
the tree, in order, with whether one of the stretch is behind (`IsScanned`, `ScanOfLeaf`), and
two stretches that lie side by side give those of both (`RunJoins`); the scan of the children
that the code skips or does not reach gives nothing (`ScanOfChildren`). `ScanTree` is the
induction over the height.

**The volume.** `Stored(d, s, x)` says that the transaction `x` with the state `s` is on the
disk `d`: each node of its catalog is where its newest mapping says (`Places`), the object
map is a tree over those mappings (`HoldsOmap`), and behind it are the five blocks that lead
to it (`LeadsTo`). The proof has three parts. What the Mac writes is Stored: `GrowIs` shows
that putting records into nodes level by level ends in a tree over them, `CatalogRecordsAre`
that no two records of a content have the same key, `WithNodesAre` and `WithMapIs` that
nodes which did not change are found where they were; that needs contents to stay what a
volume can have (`ChangesAre`). What is Stored stays so, because every later write is at or
above `free` of the last transaction, or in the ring (`StoredFrame`, `FreesOK`). And the
library finds it (`LatestIs`, `MountedIs`, `OpenVolumeIs`): the slots alternate (`Slots`), so
the superblock of the last transaction is never the one being written, and of those that can
be read the highest is the last, unless that one is bad. `IInv` adds to `OpensTheLastCommit`
what makes it inductive: that all transactions are Stored and block 0 and the ring hold
their superblocks (`RingOK`), that the one being written is Stored and not reached yet
(`PendingOK`), and which transaction is open (`OpenOK`). Neither of the two bounds of the
Mac, `MaxXid` and `MaxPieces`, is used.

**The catalog.** The answers need no invariant of their own: `IInv` says that the volume
that is open has a catalog tree over the records of its content (`IsServed`, `ServedIs`), and
the rest is about the operations, which change nothing. `CatalogLookup` and `CatalogScan`
turn the theorems about trees into records, `RecordsByType` tells records of the content by
their types, and with them there is a lemma for each operation, from `LookupInodeIs` and
`EntriesAre` to `ExistsIs`. A path is an induction over its components: the parent that
`ParentOf` has after some of them is the object that these name, if that is a directory
(`ParentIs`). Each of these lemmas has the alternative `Failed`, the error of the disk, which
is possible only if a block is lost; with none lost they give `AnswersAreTrue`, and
otherwise `NoLieOverABadBlock`: an operation that takes an error for a missing object would
have no proof. Both are proved for each path of any length. Neither says that the newest
mapping is found: `Served` leaves out volumes with a mapping only a snapshot needs.

**The walk.** `walk` ends because directories are nested. That is an invariant apart from
`IInv` (`NestedOK`, `NestedAlways`): there is a depth of each directory, one more than that
of the one which has it (`IsDepth`), so each path to a directory has the length of its depth
(`DepthIs`); it is kept because a directory has one entry and is created only within the
bound. What is below a path is what is below its entries, and no two of these share a
path (`BelowIs`, `UnderIs`), so the loop over the entries (`WalkEntriesIs`) and the recursion
over the levels (`WalkLevelIs`) give each path once.

**Model-checked only.** Liveness: `DropTerminates`, `ArrivalsAreReported`,
`StopIsHonoured`, `Settles`, `LocksAreReleased`, `CallbacksReturn` and the four of
`Program`. It needs `ENABLED`, for which there is no prover. Every invariant of the
passing runs is proved.

## Where the code does something else

Four runs show that a comment says something that the code does not do.

* `removed_are_unmounted` (`main.rs:221`, `main.rs:237`): a disk that is replaced before
  the scan keeps its key, so its volume stays mounted, and the new disk is never
  mounted. Four steps of the environment between two scans are enough.
* `only_removed_are_unmounted` (`device_monitor.rs:57`): one failed open in a scan
  unmounts a volume in use whose disk is there.
* `all_are_mounted` (`main.rs:222`): mounts come before unmounts in a scan, and a
  partition for which no letter was left is looked at again only at the next event,
  although the same scan gave a letter back.
* `newest_mapping` (`omap.rs:41`, `omap.rs:82`): the object map is to be searched for the
  highest transaction, but the direct lookup answers first, with the first mapping it
  meets. With a snapshot there are two, and a node of the catalog is read in the state
  of the snapshot. The properties of the `volume` run are therefore stated while no
  mapping is kept for a snapshot only (`Served`).

## What is not modelled

* Corrupt nodes: records out of order, keys too short, offsets out of a block. The
  library turns them into errors or skips them; the models have well-formed nodes only,
  and blocks that cannot be read.
* Holes in files: `ReadIsExact` is stated for dense files (`Dense`), because
  `stat_and_extents` ignores addresses; the run has a file with a hole all the same, for
  the control flow.
* The arithmetic of offsets in 64 bits: no disk is that large.
* Functions that nothing in the program calls: `ForkReader`, `read_file`,
  `read_file_data` (the library's tests do); `read_at`, `read_block`,
  `read_apfs_volume_space`, `search_btree_node` and the seeks from the current position or
  the end in `disk.rs`; `is_mounted` and `get_mounted_disks`; `utils.rs`.
* How large the disk is said to be (`get_disk_size`, `read_apfs_container_size`): the
  number is only reported, by `get_volume_info`. That the container's size is asked for
  through a third handle is modelled.
* The contents of arguments and of the registry, error types and their texts, the build.
* A change of a partition table without an arrival of a disk (hazard at `main.rs:185`): no
  event announces it, and nothing promises that it is noticed.
* Clones: the library does not resolve them (`vendor/apfs/README.md:62`). No two files of
  the model share data, and no change clones a file; a private id that differs from the
  number of its file is all that is there (`Private`).
* Blocks of another size than 4096 bytes, for which block 0 is read twice, and a seek that
  fails while the ring is searched: `open` ends with its error (`superblock.rs:291`) where
  a block that cannot be read is passed over. It is an error of the call and not of a block,
  and would be one more way for `open` to fail.
* The result of `CM_Unregister_Notification` (`device_watcher.rs:122`), which the code
  ignores: it is taken to succeed, since the handle is the one that the registration gave
  and is unregistered once. Were it to fail, the box would be freed under a registration.
* A volume's second, third... volume: the library opens the first, and so does the model
  (`fs_oids` with an empty first entry).

## Plan

Written in this order, the most important behaviour first: `PhysicalDisks`,
`DeviceWatcher`, `MountManager`, `Daemon` with their proofs; `Extents`, `DiskReader`,
`ByteStream`, `FileRead`; `Driver`; `BTree`, `Catalog`, `ApfsVolume`; `Service`. Then
`FileInfo` and the buffer of listings, `DaemonLife`, `DaemonHistory`, `Program`, and the
proofs of `Driver`, `FileRead`, `Program`, `BTree` and `ApfsVolume`.

Next, for the model:

1. A hosted `Driver`: callbacks that are under way while the daemon unmounts, and the
   removal of a disk under an open file.
2. Corrupt nodes: what `btree_scan` and `list_directory` do with a record that cannot
   be parsed.

Next, for the proofs:

1. `AnswersAreTrue` with mappings that only a snapshot needs: which of the two states the
   library reads a node in, and what that makes of a path.
2. A file's bytes from the volume to the application: `ReadIsExact` over the extents that
   `stat_and_extents` gives.
