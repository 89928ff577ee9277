# IdenVault in TLA+

IdenVault keeps files in *vaults*: directories with a name, perhaps a password, watched by a
monitor thread and recorded in a catalog on disk. A command interpreter in Rust (`src/main.rs`,
`src/vault.rs`) calls a core in C (`c_src/`) through `c_src/vault_ffi.c`. `build.rs` compiles
`c_src/vault_{crypto,catalog,monitor,sandbox,engine,ffi}.c`; the copies in `src/c_src/` and
`core_linux/` are older and are not built.

The tree is in the middle of a move from inotify to fanotify and does not compile as it stands:
`c_src/vault_monitor.c` has lost the beginning of the rule engine (line 332), has an empty `if()`
(line 241) and repeats the tail of the monitor loop (lines 488-511), and uses declarations that are
left only in `src/c_src/vault_core.h`. The modules follow the text that is legible, and model
nothing that depends on what is missing.

## The system

| Part | State | Operations | Talks to |
|---|---|---|---|
| Catalog (`vault_catalog.c`, authentication in `vault_crypto.c`, alerts in `vault_monitor.c`) | `g_catalog`: an array of `Vault`, a count, `next_id`; `catalog.dat` | create, delete, rename, unlock, change password, resolve, scan, alert; save, load | everything, through `g_monitor.lock` |
| Process life (`vault_ffi_init`, `vault_ffi_shutdown`, `main`) | the monitor thread, `running`, the lock | start, commands, Ctrl+C, quit | catalog, monitor |
| File encryption (`vault_encrypt_ffi`, `encrypt_file`, ...) | `x` and `x.enc` in each vault, the salt, `write_mode` | encrypt, decrypt; add and remove a file | catalog (password), monitor (`write_mode`) |
| Monitor (`monitor_thread`) | event queue, credits per file, hash map of the files | events, scan, escalation | catalog, under the lock |
| Rule engine | up to 64 rules | add, evaluate on events | monitor |
| Isolation engine (`vault_engine.c`) | layers of decoy directories, `.engine_real`, `engine_level` in memory | apply, validate, clean up | catalog (status, save), alerts |
| Sandbox (`vault_sandbox.c`) | the caller, a child, a shell; the pipe between them; the jail's directories | open a session | catalog (password, authorised processes), kernel |
| Rust file operations (`vault.rs`, `crypto.rs`) | temporary copies, its own `.enc` format | `safe_copy`, `secure_store`, `add_file`, `remove_file`, `encrypt`, `decrypt`; export | catalog (registered paths), file encryption (the same `.enc`) |
| Interpreter | none | parse, suggest, prompt | all of the above |

What is hard in it:

* **Threads.** Commands and the monitor share one non-recursive mutex. Three paths escape it: the
  Ctrl+C handler (`vault_ffi_shutdown` takes no lock), the sandbox (which gives the lock up before it
  checks the password) and the callback from C to Rust during an export (which takes it twice).
* **Persistence.** The catalog is saved whole by nearly every call, through a temporary file and a
  rename; no `fwrite` is checked; a load that fails is reported and then ignored.
* **Two-step changes.** Salt then hash, target then source, memory then disk, record then status:
  each pair can be cut between its halves by an error or a crash.
* **Events.** The monitor learns of a change when it reads the event, which may be long after; by
  then the mode, the flags, the alert and the file may have changed. What the program itself does to a
  vault makes events too.
* **Processes.** A sandbox is three processes that meet at a pipe, at each other's entries in `/proc`
  and in `waitpid`; each may fail or be killed anywhere.
* **Files made in steps.** Layers of decoys one by one, a copy under a temporary name, a sealed file
  written in place beside its source: what an error or a crash leaves meets the next command.
* **Numbers and limits.** Ids that never come back, `MAX_VAULTS`, attempts, credits.

The components with their status, and every hazard with its line and the properties that cover it,
are listed in `PROJECT.json`.

## Modules

| Module | Models |
|---|---|
| `VaultCatalog` | the catalog: each call one action, the saved image, loads, restarts and crashes |
| `VaultRegistry` | what the catalog promises, abstractly; `VaultCatalog` implements it |
| `VaultCatalogProofs` | theorems about `VaultCatalog` |
| `VaultRegistryProofs` | more of them: memory against the image, and the refinement of `VaultRegistry` |
| `VaultProcess` | command loop, monitor and Ctrl+C handler with the lock and the two files of a save, step by step |
| `VaultProcessProofs` | theorems about `VaultProcess` |
| `VaultFiles` | encryption and decryption of a vault's files, system call by system call |
| `VaultFilesProofs` | theorems about `VaultFiles` |
| `VaultMonitor` | one vault, its directory, the event queue, the monitor's turns and the commands |
| `VaultMonitorProofs` | theorems about `VaultMonitor` |
| `VaultEngine` | the isolation engine of a vault: applications layer by layer, cleanup, validation |
| `VaultEngineProofs` | theorems about `VaultEngine` |
| `VaultSandbox` | caller, child and shell of a sandbox session, system call by system call |
| `VaultSandboxProofs` | theorems about `VaultSandbox` |
| `VaultStore` | the file commands of the interpreter, step by step |
| `VaultShelf` | what they promise of the files a user names, abstractly; `VaultStore` implements it |
| `VaultStoreProofs` | theorems about `VaultStore`, its refinement of `VaultShelf` among them |
| `MCVault...` | the instances for TLC, one for each module that has a run |

### VaultCatalog

`vaults` is `g_catalog.vaults[0..count-1]`, `nextId` is `next_id`, `disk` is `catalog.dat`. A vault
is a record; `hash` stands for `has_pass`, `salt` and `pass_hash` together, with a value of its own,
`BrokenSalt`, for a hash that belongs to another salt than the stored one; `alerted` stands for
`alert.first_triggered # 0`. The actions are the calls under the lock, each with the authentication
it does first and the save it does last:

| Action | Code |
|---|---|
| `Create`, `CreateRejected` | `vault_create`, with the password accepted, and refused after the id was taken |
| `Delete`, `Rename`, `Unlock`, `ChangePassword`, `Resolve` | the functions of these names |
| `ChangePasswordFails` | `auth_set_password` when `derive_key` fails after the salt was drawn |
| `Authenticate`, `WrongPassword` | `auth_verify_password` in any call that then saves nothing |
| `Alert`, `Scan` | `alert_trigger` from the monitor; `vault_scan_ffi` |
| `Start`, `Quit`, `Crash` | `vault_ffi_init` with `catalog_load`; `vault_ffi_shutdown`; a kill |

`CatalogSave` is every outcome of `catalog_save`: the image is replaced; `fopen` or `rename` fails
and the old one stays; or a write falls short, unnoticed, and a cut image is renamed into place. A
cut image is then loaded as `catalog_load` does it: the records before the cut, the fields before the
cut and a part of the one it falls in (`AtCut`), zeroed records behind it, an error, and a program that
goes on. What `fread` leaves of a field are its first bytes: of a number the low ones (`LowBytes`), of a
name or path a beginning (`CutString`), which `Prefixes` relates to the name it comes from, so that a
cut name can be that of another vault. A cut in the header (`Headless`) leaves as many zeroed slots as
`count` says with a `next_id` of 0 or its low bytes; when `count` itself is cut, or the file is empty,
fewer or none.

Left out: time stamps, file lists, `engine_level` (it is not saved), the text of names and paths
otherwise, and a wipe of the memory in several steps.

### VaultProcess

Three threads with program counters. `lock` is the mutex, with `"gone"` for a destroyed one; `name`
and `content` are the directory and the inodes of `catalog.dat` and `catalog.dat.tmp`, so that a
writer whose file was renamed under it goes on writing to the renamed file. `mem` is a version number
for the catalog: each change makes a new one, and a save writes header and records separately, from
the memory of that moment. `catalog_save` fails where the code's does: `fopen` and `rename` are looked at
and end the save with an error, after the change was made in memory; an `fwrite` or `fclose` that comes
short is not, and the save goes on with its part missing, renames the image into place and reports it.
`short` (history) holds the inodes this has happened to, until they are truncated or freed. A shutdown
waits at `joining` for the monitor; a second one, of a quit and a Ctrl+C together, is refused by
`pthread_join` and goes on at once. `careful` is history too: it is true until somebody works on the
catalog without the lock.

### VaultFiles

`plain[x]` and `enc[x]` are the files `x` and `x.enc`; a sealed file carries the key it was made
with. A call is `Start`, then for each entry of the directory `...Open` (both files, the target
truncated), `...Write` (the contents, with every failure) and `...Unlink` (the source), then
`Finish`. `Crash` may come between any two. `key` is the salt in memory, `savedKey` the one in
`catalog.dat`: a password change whose save fails is in force until the process ends. Between calls
files are added and removed and the password is changed. History variables say what the user last
stored (`latest`), which names are still owed to him (`safe`), whether anything has failed in the
current call (`smooth`), and what it found when it began (`found`). A name leaves `safe` only in the
step that destroys something, and each such step is named at `SafeFilesSurvive`: a target that is
truncated while its source is not what the user stored last (`TargetGone`: an older `x.enc` beside a newer
`x`, a key that no longer fits, a torn source), a `fread` or `fclose` that is not checked, a password that
changes or is not saved.

Left out: mode bits, hidden files and directories (which both loops skip), users who name a file
`x.enc` themselves, and `secure_store`, which seals in another format.

### VaultMonitor

`s` is the vault: `status`, the alert record (`triggered`, `last`, `idx` for `first_triggered`,
`last_alerted` and `interval_idx`), `writeMode`, the hash map (`hash`, and `flagged` for its entries
with `modified` set), the `credits` of each file, and the kernel's `queue` of events for it. The
functions of `vault_monitor.c` are operators from such a record to the next (`Scan`, `AlertTrigger`,
`Deduct`, `Respond`, `Escalate`, ...), as in the code, where each changes `*v`; the events that a
function's own system calls make go to the queue in the same step (`Emit`), unless the directory is
not watched.

A turn of the monitor is `Wake` (the queue is read, the lock taken), one `HandleEvent` for each event,
and `EndTurn` (escalation, watches for what has none, the lock released). Commands are one step each,
between turns; whoever else works on the files (`Others`) comes at any time, and so do `add_file` and
`remove_file`, which take no lock and set no write mode. `Restart` keeps what the catalog keeps.

The kernel is modelled as inotify(7) describes it: an event equal to the last one in the queue is
merged with it, events that find the queue full are dropped, and a directory that is removed takes its
watch along. `suspect_access` is declared nowhere, and the condition before the hash is replaced is
missing from the source: both are nondeterministic.

Left out: hidden files and the sandbox's names (every handler passes over them), rules, a read of
only a part of the queue, failed saves and crashes (`VaultCatalog` has them), subdirectories, and a
move of the watched directory.

`owed` (history) holds the files a stranger wrote to outside write mode, from the moment the event is in
the queue until it is handled. An encryption whose second `opendir` fails (`RewriteFails`) leaves it as it
is: the event is then handled under the write mode that was left on, and dropped from `owed` *there*, which
`WritesNoticed` names as an exception. The end of the monitor or of the program is the other one.

### VaultEngine

The engine of one vault. `root` and `real` say whether `.engine_decoy` and `.engine_real` exist,
`layers` and `decoys` what the first holds (a decoy is its layer, its letter and its kind), `frozen`
which decoys have mode 0400. `engine_apply` is `ApplyBegin` (the level, which is set before anything
is looked at, and the two directories), one `FillLayer` for each turn of its loop, with
`engine_populate_layer` and all its partial results (`Populate`), and `ApplyEnd`: success and the
save, or the cleanup with `rm -rf` when any layer failed. `Validate` is `engine_validate` with the alert
it raises. Between and during calls others remove decoys, layers or a whole directory, and the process
may die; between calls the vault is locked and unlocked, deleted and made again at the same path, and
the process restarted, which loses `level`. An ordinary process cannot open again the decoys of an
earlier application, which are read-only: it fails, and cleans up *both* mazes. `built`, `hurt`, `spoilt`
and `tidy` are history: which maze was reported as a success, whether it lost a part, whether the one
being made did, and whether anything was cut short. `built` outlives the beginning of another application:
the earlier maze is owed while the new one is made, when that is refused, cannot begin, dies or cannot be
saved, and is given up only in the cleanup of one that failed in a layer, the exception that
`AppliedIsWhole` names.

Left out: the text of the decoys and the user's files in `.engine_real`. After an
application `vault-encrypt` and the export work on `v->path`, and the listing on `.engine_real`; no
property is about that.

### VaultSandbox

Three program counters, `caller`, `child` and `shell`, one step for each system call that others can
notice: `pipe`, `fork`, the entry among the authorised processes, the three writes to `/proc`, the
`close` that releases the child, two `waitpid`s; `unshare`, `close`, `read`, `unshare`, `fork`; the
new root, the capabilities, the filter, `execl`. `layers` holds what each process has put between
itself and the host, `writers` who keeps the pipe open, `ids` what was written to the child's maps,
`jail` the marker file, `bin` and `bin/sh` in the vault. A write to a map of a child that has not
unshared yet, or by a caller without the privilege, comes to nothing, as in the kernel. Any call may
fail; the shell, the child or the caller may be killed; `vault_enforce_readonly` may shut the jail's
directories under the call.

The `umount2` of the old root is not looked at (`vault_sandbox.c`): `oldRoot` has its outcome, and no
property says that the host's files are unreachable, only that the five layers are in place.

Left out: the mounts, limits and rules of the filter one by one, the Windows stub, and the password
check that precedes (its save without the lock is listed in `PROJECT.json` under hazards).

### VaultStore

The commands make up names with `with_extension`, so only files of one stem meet; `safe-copy` goes from
any of them to any name, except that the user does not himself name a copy `.tmp_copy`. `file` maps
`<<directory, extension>>` to what the file holds: a content with the number of times it is encrypted,
`None`, or `Torn` for a file that was not written to its end. `job` is the command that runs and where
it is. `CopyOpen`, `CopyWrite`, `CopyRename` are `safe_copy`; `SealOpen`, `Fill`, `UnlinkCopy`,
`UnlinkSource` the rest of `secure_store`; `CryptOpen` and `Fill` are `encrypt` and `decrypt`, whose
`fs::write` truncates first. `VaultDecrypt` is what the core's `decrypt_file` does to a file in the
format of `crypto.rs`. Between commands the user writes and removes files. `owed` and `replaced` are
history: what he gave and did not remove, and what a command wrote over. `VaultShelf` promises of the
names the user gives that each changes in one step, to what the file it is copied from holds at that
moment: a part of a file only if a part was copied, which `safe-copy` does with what an interrupted
`fs::write` left in `x.enc` or `x.dec`.

Left out: symbolic links, modes and path checks (`allow-write` and `isolate-directory` change modes
only), wrong passwords (the command then does nothing), and `derive-master-key`, which keeps nothing.

## Runs

| Run | Question |
|---|---|
| `catalog` | Do credentials, lockout, alerts, write-through and identities survive failed saves, loads and key derivations, crashes and restarts, and does the catalog implement `VaultRegistry`? |
| `catalog_torn` | Are ids and names unambiguous, but for the records named in `UniqueIds` and `UniqueNames`, when images cut in the header, in a name or anywhere else are put in place and loaded? |
| `process` | With any interleaving, and an `fopen`, `fwrite` or `rename` that fails: is `catalog.dat` whole and what was reported on disk, unless a write came short; is nothing changed during a save, the monitor out before a shutdown that was not refused goes on; do changes and shutdowns end? |
| `process_ctrl_c` | *Violation.* A Ctrl+C during a command saves a mixture, or loses what was reported. |
| `process_export` | *Violation.* `vault-export` locks the mutex twice and never returns. |
| `files` | Do stored files survive every failure and crash of encryptions and decryptions but those named, what exactly does a call in which nothing failed leave of every file it found, and does every call end? |
| `monitor` | With events handled late, merged or dropped, and commands and strangers in any order: does every flagged file keep its alert, does every write that was queued wait for its alert until it is handled, does every new alert start a new schedule, and is none left unreported? |
| `monitor_resolve` | *Violation.* An alert that was resolved comes back by itself: the `chmod` of `alert_resolve` makes attribute events, which the monitor takes for an attack. |
| `engine` | Is a maze whose application was reported whole until somebody takes a part or a failed application over it cleans up, does a failed application leave none, does the validation tell exactly the difference? |
| `sandbox` | With any interleaving, failure and kill: is every shell behind all five layers, are its ids fixed before it begins, is nothing left when the call has returned, does every setup end? |
| `store` | With failures and crashes anywhere: is nothing lost but what a command writes over, do files under the user's names change in one step only, to what they are copied from (`VaultShelf`), do commands that do not fail leave nothing behind, does a secure-copy move its file? |
| `store_secure_copy` | *Violation.* `secure-copy` of `x.txt` and then of `x.pdf` leaves one `x.enc`: the first file is gone, and no call has failed. |

A violation run checks one statement of the repository's own documents or comments, quoted in
`PROJECT.json` under `findings`.

Some disagreements were met that have no run:

* `main.rs` announces after a failed load that it goes on "sem persistência"; the next save replaces
  `catalog.dat` all the same (`Start` and `CatalogSave` in `VaultCatalog` allow it).
* A sandbox session checks its password after giving the lock up, so that the save of a wrong attempt
  shares `catalog.dat.tmp` with the monitor's.
* Files encrypted before a password change no longer open after it. A decryption leaves such an `x.enc`
  and removes an `x` beside it (`DecryptRestores`, `InPlace`).
* An application of another level over a maze fails for an ordinary user and takes the earlier maze too
  (`vault_engine.c:483-487`); a plain file added over an encrypted one of the same name is replaced by the
  older contents at the next `vault-decrypt`, and no call fails.
* `SECURITY_REVIEW.md` (section 11) warns of interrupted encryptions; `VaultFiles` shows exactly what
  is at stake: after an interruption the *same* call recovers everything, and it is the *other* one that
  destroys, where it truncates its target (`TargetGone`).
* An ordinary caller never gets its `gid_map` written, and the failure is not looked at; after
  `vault_enforce_readonly` has shut the jail's directories, a session ends at `execl`.
* `secure-copy` of a file named `.enc` removes it: the sealed file has the name of the copy that is
  then unlinked. `vault-decrypt` of a file sealed by `crypto.rs` fails and unlinks a plain file of the
  name without `.enc`.

### Bounds

* `catalog`: 2 vaults, 2 names, 1 directory, 2 passwords, ids up to 3, lockout at the second wrong
  password, 2 failures. Two vaults are the least with which a deletion moves a slot, a name collides
  or an id could come back; three ids let one be spent on a refused creation and another on a new
  vault after a deletion; two failures let a failed save be followed by a failed load. The names, the
  directories and the passwords are symmetric, and no temporal property of these runs is a liveness
  property.
* `catalog_torn`: the same with 1 password, two names of which one is the beginning of the other, and
  saves that are cut. Cut images are kept out of the
  other run because they break what it checks, by design of the format: a cut between `has_pass` and
  the salt leaves a vault that no password opens.
* `process`: catalogs up to version 3 (one from the start and two changes, so that a reported save
  is followed by one of the monitor), 4 inodes (the two names and two more writers), 1 failure, which is
  enough to fall into any save and be followed by one that works. Deadlock is not
  checked: the program ends when the process has exited, or hangs in an export, which
  `process_export` shows and `ShutdownEnds` excepts by name.
* `files`: 2 names, 2 contents, 2 keys, 2 failures or crashes. Two names show the loop going on after
  a failure; two contents tell a stale `x.enc` from a new `x`; two failures allow a crash after a
  failure, or one during the call that repairs the first.

* `monitor`: 1 name (so 2 files, `x` and `x.enc`), 2 contents, 3 credits as in the code, 2 alert
  intervals of the 20, a queue of 3 events, and 3 commands or touches by others in all; the monitor's
  own steps, time and the events are not counted. Three are what it takes to change a file, act on the
  alert and change it again, or to write, encrypt and resolve; one encryption already makes more events
  than the queue has room for, so that drops happen, and the directory event that each listing makes
  keeps neighbours from merging all the time. Deadlock is not checked: with no monitor and all steps
  used nothing is left to happen.
* `monitor_resolve`: the same with a `suspect_access` that never suspects, 2 steps and a queue of 4, so
  that the counterexample owes nothing to the missing function or to a dropped event.

* `engine`: three levels of 1, 1 and 2 layers for the five of 1, 3, 6, 16 and 20, the last two with binary
  decoys, so that one level can be applied over one with fewer layers, with more, and of another kind; 2
  decoys a layer, which are symmetric; 2 failures, so that an application and its cleanup may both fail.
* `sandbox`: 2 calls, so that what the first leaves meets the second; 2 failures or kills, so that a
  shell can outlive both its parents. Deadlock is not checked: with the caller dead or the calls used
  nothing is left to happen.
* `store`: 2 contents (symmetric); no extension, `txt` and `enc`; both directories; contents encrypted
  at most twice; 3 commands or changes by the user, of which the last may meet what two others
  left, such as a file, its decryption that was cut, and a copy of that; 2 failures or crashes. Deadlock is
  not checked: nothing happens after the third. In
  `store_secure_copy` the two extensions are `txt` and `pdf`, and nothing fails.

### Fairness

`VaultCatalog`, `VaultMonitor`, `VaultEngine` and `VaultStore` need none: their properties are safety properties (that an alert is
reported is stated of the turn, `AlertsAreReported`, and not as something that must happen: the loop
ends for good when `select` fails). `VaultProcess` assumes that the
kernel runs every thread that can run (weak fairness of each thread's steps), that a thread waiting
for the lock gets it some time (strong fairness of `Lock`: the monitor sleeps up to five seconds in
`select` between two turns, so a waiting command does get in), and nothing of the user. `VaultFiles`
assumes that a call that can go on does (weak fairness of `Progress`), and nothing of the calls that
start it or of crashes. `VaultSandbox` assumes that the kernel runs the caller, the child and the
shell's setup when they can run (weak fairness of each), and nothing of the user, who may never leave
the shell, or of kills: `SetupEnds` promises a shell or a return, not the end of a session.

## Proofs

`tlapm` checks all of it, for any number of vaults, names, passwords, files, attempts and failures.
The assumptions are those on the constants (`CatalogAssumption`, `ProcessAssumption`,
`FilesAssumption`, `MonitorAssumption`, `EngineAssumption`, `SandboxAssumption`, `StoreAssumption`):
the special values are distinct from the ordinary ones, the bounds are natural numbers, a directory can
hold one more file than a name and two writers keep busy, and directories have finitely many files.

**VaultCatalogProofs.** `TypeCorrect`, then five results from one argument. `StepShape` says that any
step does one of a few things to the array: nothing, a new sound vault with the next id and a free
name, one slot removed, one slot replaced by a vault with the same id and a name that is its own or
free, the array of an image, or the array of a cut image; and to the image: nothing, the array before
or after the step, or nothing at all. Each invariant is then one of these few cases, however many
calls there are. `IdsCorrect` and `NamesCorrect` hold with cut images, in the header too: they are
inductive together with `TypeOK`, because the record at the cut keeps its fields in the order of the file:
the id is there before any of the name, and the directory only behind the whole name. What is exempt is a
record without a name (`Named`) and, in `UniqueIds`, one with id 0 and no directory (`Hollow`): a header
cut leaves such records, and a rename may give one a name. In `UniqueNames` it is a record without a
directory, whose name may be cut to that of another vault. `CredentialsCorrect`, `LockoutCorrect` and
`AlertCorrect` follow from the invariant `Sound`: as long as images are written whole, every slot in
memory *and* in the image satisfies all three at once. The image is part of the invariant because a
restart brings it back. `CallShape` separates the calls of a running process from starts and ends, for
the next module.

**VaultRegistryProofs.** `WriteThrough` is inductive with the types: a call either saves what memory is
after it, or changes only a failure counter or the next id. `DiskIdentity` is not. `LinkInv` adds that a
process that loaded the image shares its ids only for the same vaults, and that the next id is beyond
those of the *image* as well as those of memory: this is what a deletion whose save failed could have
broken. With it, and with `ById` computed for an array that got a slot, lost one or had one replaced, a
call maps to `Enter`, `Leave`, `Relabel` or `Sync` of `VaultRegistry`, an end of the process to `Stop`,
a start to nothing or to `Detach` (`CatalogImplementsRegistry`). Cut images are excluded, as in the
`catalog` run: a registry knows none.

**VaultProcessProofs.** All four safety properties of the `process` run, in layers. `TypeInv` adds to
the types where each thread can be in what it runs (`PlaceInv`) and when it has a file open (`FdInv`):
without the second nothing says that an inode is left for the temporary file. `MonitorOut` is
`MonitorIsOut` without its first condition; it is inductive because a monitor that is done stays done.
`LockInv` is what `careful` buys: a call that works on the catalog has the lock, and the lock is
destroyed only when the shutdown is alone. From these three `OneAtATime` follows, and with it
`NoChangeWhileSaving`. `ImageInv` is about the files: memory holds what was made and reported until it
is wiped, the writer's file is the temporary one and not that of `catalog.dat`, and what it has written
is what memory holds, so that a rename puts a whole image with everything reported in place
(`DatIsWhole`, `ReportedIsSaved`): unless the inode is `short`, and whatever `fopen` or `rename` fails.
`MonitorOut` excepts, as the property does, a shutdown that another one waiting in `pthread_join` had
refused there. Each layer holds for any number of changes; the code's promise ends
where `careful` does, and `process_ctrl_c` shows what happens then.

The rest does without `careful`. `OwnerInv` ties the lock to the places of the threads, with the handler
and the sandbox about: a lock that is held belongs to a call between its `lock` and its `unlock`, and such
a call has it unless a shutdown has destroyed it. `LockExcludes` follows at once, and
`NobodyWaitsInVain`: `CanGo` is the guard of each thread's next step, and the chain of those that wait ends
after two with one that can go, since a shutdown waits for the monitor and the monitor for a call. The one
circle is an export that takes its own lock again, and `ExportsHangForGood` turns the counterexample of
`process_export` into a statement about every run: nobody else can free that lock, and a destroy of a
mutex that is held fails.

**VaultFilesProofs.** `FilesSurvive` (`SafeFilesSurvive`), `EncryptCorrect` (`EncryptSeals`) and
`DecryptCorrect` (`DecryptRestores`). None is inductive: that a file survives depends on where the
call is. `EncryptInv` says what the call relies on: a safe file that is still ahead, or whose target
is being written, is intact as `x`; one whose source is about to be removed is intact as `x.enc`.
`DecryptInv` is its mirror image, and `JobInv` says that a file is visited once. For the two action
properties `EncryptedInv` and `DecryptedInv` say that, as long as nothing failed, the files behind
the call are done; at its end all of them are. TLC has checked the whole invariant `Inv` on the
instance of the `files` run. `CallsAreShort` is the safety half of `CallsEnd`: three steps for an entry
of the directory that the call has yet to reach, less for the one it is at, is a number that every step
of a call makes smaller, whatever fails. That it is at most three for a name needs that an entry the
the call is at is not still ahead (`JobInv`), and that `Names` is finite. `DecryptedInv` compares each file
with what the call found there, so that `DecryptCorrect` says what becomes of *every* name, safe or not.

**VaultMonitorProofs.** `FlagsCorrect` (`FlagsMeanAlert`), `AlertsStartAnew` (`NewAlertsAreNew`) and
`AlertsReported` (`AlertsAreReported`). The functions of the monitor call one another, so what each
may do to a vault is one relation, `Serves`, which is reflexive and composes: it ends no alert, makes
no schedule look used, and flags a file only together with an alert. A lemma per function shows that it
serves; a lemma per action, that the action serves or keeps `Inv` in its own way (`ResolveStep`,
`LockStep`, `IntervalEndsStep`). `Inv` adds to `FlagsMeanAlert` that a vault without an alert has an
unused schedule, which is what a new alert starts from. The events never matter: `Inv` leaves the
queue free. `WritesAnswered` (`WritesNoticed`) and `Typing` (`TypeOK`) are about the events alone. `Keeps`
is the relation here: the queue loses nothing it had, and write mode is not switched on. `Noticed` is the
invariant: the event of a write that is owed an alert is in `batch` or in the queue, whatever write mode
is; nobody is owed one before the thread has begun, since it starts from an empty queue; between turns `batch` is empty, since `Wake` overwrites it. TLC has checked
`Noticed` on the instance of the `monitor` run. That the events of a listing and of an encryption form a
sequence (`SetToSeqType`, `FlattenSeqType`) is an induction over data. The library's induction theorems
have an operator as a parameter and cannot be used, so `InductionOverSets` states induction for a *set* of
numbers, and follows from the library's theorem that the numbers are well founded. `DeadWatchStaysDead`
comes out of the same lemmas, since `Holds` also says that a function of the monitor leaves the queue
alone where nobody watches: it states for every run what becomes of a directory that is removed and made
again, the one hazard of the monitor that no promise of the repository makes a property of.

**VaultEngineProofs.** `AppliedMazesAreWhole`, `ValidationCorrect` and `MazesAreWholeOrGone`, all three
from `BuildInv`: while an application runs and nothing it needs was taken (`spoilt`), the layers before
the loop variable are there with their decoys unless a failure was counted; a maze that was reported is
whole unless `hurt`, also while another is made over it, since a layer filled again loses nothing
(`Spared`, `Adds`); and between calls `hurt` *equals* "not whole", which is what makes the validation exact
in both directions. `Taken` says once what the four ways of removing something have in common.

**VaultSandboxProofs.** `SessionsAreConfined` from `ConfinedInv` (the place of each process implies its
layers), `IdsAreFixedInTime` from `PipeInv` (as long as the caller holds the pipe the child is not past
its `read`, and it holds it until the last map is written), `NothingLeftBehind` from `EndInv`.
`NobodyWaitsInVain` and `CallsAreShort` are the safety half of `SetupEnds`. For the first `WaitInv` says
that who waits for a process has one to wait for, and the type invariant that who holds the pipe's write
end has yet to close it: then one of the three can go on, or the shell runs. For the second each place
of each process has a number of steps to go, and a process that forks gives of its own to the child;
their sum is at most 23 and every step makes it smaller, kills included. It needs that the child has no
shell before it forks one (`EarlyInv`). `ShutForGood` is about the vault afterwards: an alert or an
encryption leaves it without a `bin` that can be searched, and nothing in the program gives that back.

**VaultStoreProofs.** All five properties of the `store` run. What a command finds in its files depends
on where it is: `PairInv` (the source is not the temporary file, and stays until it is unlinked; it may be
the destination), `PlaceInv` (what the
temporary file or the target holds) and `SealInv` (the sealed copy has the contents of the source until
the source is removed, or these count as written over). `OnlyReplacedIsLost` then follows step by step
from two lemmas on what a write of one cell can lose, `StoreImplementsShelf` from `RefinementStep`,
which maps a rename to `Copy` of the file the command reads, an unlink of a name the user gave to `Remove`,
and all else to `Elsewhere`.

Every safety property of every passing run is a theorem. Only model-checked are the four liveness
properties: `ChangesEnd`, `ShutdownEnds`, `CallsEnd` and `SetupEnds` speak of fairness, hence of `ENABLED`,
which this prover does not know. What can be said of them without it is proved: that somebody can always
go on, and that steps run out. The guards in those theorems (`CanGo`, `CallerGoes`, `ChildGoes`,
`ShellGoes`) are written out by hand; TLC has compared them with `ENABLED` of the steps they stand for in
every reachable state of the `process` and the `sandbox` instance, `CallerGoes` while a call is under way
and `CanGo` while the process is alive.

## Not modelled, and the plan

What could still be added, in this order:

1. `Lookup`: which vault a path belongs to (`vault_find_by_path`, the confinement checks of `vault.rs`),
   with paths as sequences of components and symbolic links.
2. `Suggest`: the edit distance of the command interpreter against a reference definition.
3. The modes that `allow-write`, `isolate-directory` and `vault_enforce_readonly` set, together.

Not planned: the rule engine (the beginning of its evaluation is missing from the source), the
installation scripts, the manual, system information and logging (output only), seccomp filters and
mounts (sequences of kernel calls without state of their own).
