# UlakeFUSE in TLA+

UlakeFUSE mounts several directories, the *branches*, as one file system. Some
branches are writable, some read-only. A file on a read-only branch is copied
to a writable branch above it before it is changed (copy-on-write); a removed
file of a read-only branch is hidden by a *whiteout*, an entry
`.ulakefs/<path>_HIDDEN~` on a branch above. This directory models that
machinery, checks it with TLC on small mounts and proves most of what is
checked with TLAPS for mounts of any size. It also models the program's start, from its arguments
to the mount; open files and calls that overlap; the listing of directories
with its hash tables; and the buffered logging that all threads share.

- [The system](#the-system)
- [Modules](#modules)
- [What the model leaves out of the code it models](#what-the-model-leaves-out-of-the-code-it-models)
- [Runs](#runs)
- [Disagreements between the code and its comments](#disagreements-between-the-code-and-its-comments)
- [Proofs](#proofs)
- [Not modelled](#not-modelled)
- [Plan](#plan)

## The system

| Part | Code | State | Operations | Uses |
|---|---|---|---|---|
| Branch lookup | `general.c` 33-82, 215-268, 390-399 | the branches' trees and whiteouts | `path_hidden`, `find_branch`, `find_rorw_branch`, `find_lowest_rw_branch` | the branch file systems |
| Copy-on-write, whiteouts | `general.c` 88-193, 276-385, 404-824 | the same | `path_create`, `cow_cp`, `copy_directory`, `copy_file`, `remove_hidden`, `hide_file`, `hide_dir`, `maybe_whiteout`, `find_rw_branch_*` | lookup, syslog |
| Namespace handlers | `fuse_operations.c`, `readrmdir.c` 258-397 | the same | `chmod chown utimens truncate create mkdir mknod symlink open unlink rmdir rename` | lookup, copy-on-write |
| Listing | `readrmdir.c` 25-252 | two hash tables per call | `ulakefs_readdir`, `dir_not_empty` | hash table, lookup |
| Open files | `fuse_operations.c` 75-146, 217-241, 306-373, 635-644 | file descriptors in `fi->fh`, the buffer of `copy_file` | `open read write flush fsync release link` | lookup, copy-on-write |
| Other handlers | `fuse_operations.c` | none | `getattr access readlink statfs init` | lookup |
| Buffered syslog | `debug.c` 67-332 | two linked lists, `list_lock`, one lock per entry, a condition variable | `usyslog`, `do_syslog`, `syslog_thread`, `init_syslog` | syslog(3), pthreads |
| Debug log file | `debug.c` 1-65 | `dbgfile`, `file_lock` | `debug_init`, `get_dbgfile`, `put_dbgfile` | `options.c` |
| Options, path strings | `options.c` | `uopt` | `ulakefs_opt_proc`, `parse_branches`, `ulakefs_post_opts`, `build_path`, `u_dirname`, `whiteout_tag` | fuse_opt |
| Hash table | `hashtable*.c` (vendored) | buckets, length, number of entries | `insert`, `search`, `expand`, iterator | |
| Network, HTTP | `network.c`, `http.c` | a socket | download helper | no handler calls it |
| Start | `Ulakefs.c` | `uopt` | `main` | options, syslog, `fuse_main` |

Interaction: the kernel looks a path up name by name with `getattr`, then calls
one handler. The handler asks a lookup function for a branch, possibly after a
copy, and changes that branch with ordinary system calls. There is no other
state: the union *is* the branches' contents. Every function logs through
`usyslog`, from any FUSE thread.

What makes it hard, and what "correct" means:

- **One tree.** What users see is computed from several trees and their
  whiteouts. Every call must have its POSIX effect on that view and no other.
  A whiteout too few brings removed files back, one too many loses files.
- **Two ways of looking.** Listings merge whole branches, lookups stop at the
  first answer. They must agree.
- **Half-done work.** A handler is many system calls. When one fails, what is
  left must not show.
- **Read-only means read-only.** No handler may write to such a branch.
- **Threads and locks of the syslog buffer.** Loggers may not be held up by the
  syslog daemon; messages may not be torn, overwritten or lost.

The hazards with their lines are in `PROJECT.json`.

## Modules

    Paths            paths and trees; rename on one tree
      TreeView       abstract: the mount is one tree
      UlakeDisk      branches, whiteouts, lookups, listings as operators
        UlakeCow     copy-up, whiteouts, choice of a writable branch
          UlakeFuse  the handlers: Init, Next, Spec
            UlakeUnion    what the handlers guarantee; refinement of TreeView
              MCUnion     mounts for TLC
            UlakeHistory  UlakeFuse with the disk before the last call
              MCHistory   mounts for TLC
          Listing    readdir entry by entry, hash tables, copies meanwhile
        Mount        arguments, main, path strings, statfs
          Session    Mount, then Listing on what was mounted
            MCSession     arguments, branches and disks for TLC
    OpenFiles        calls of several users, one system call per step
                                             MCOpenFiles  instances for TLC
    Usyslog          the syslog buffer      MCUsyslog    instances for TLC
    UlakeDiskProofs, UlakeCowProofs, UlakeFuseProofs, UlakeUnionProofs,
    OpenFilesProofs, OpenFilesLossProofs, SessionProofs, UsyslogProofs

**State of UlakeFuse.** `uopt` (which branches are writable, copy-on-write or
not), `fs` (for each branch a tree and a set of whiteouts) and `ret` (the last
call and its result). A file is a kind and a value of `Val` that stands for
contents and attributes. A function of `general.c` is an operator on a disk
that returns the disk it leaves and its result; it is applied to the disk that
the earlier steps of the handler left, as in the code. A handler is one action
that contains all of them, with each early return.

`env` says what the branch file systems do to a call: the paths at which
`mkdir`, `mknod` or copying fails, whether a failed copy leaves a truncated
file, whether whiteouts can be made, the order of `readdir(3)`.

**State of OpenFiles.** What `UlakeFuse` cannot say because there a handler is
one step and a file is a value: names point to inodes, an open file (`fi->fh`)
keeps its inode, and a call of a user (`call[u]`, the locals of its handler) takes one step for each
system call, among them the rounds of `copy_file` through its static `buf`.
One writable branch above a read-only one, one directory. `Faults` lets the
system calls of `copy_file` fail and the process be killed; then calls and open
files are gone and only the branches are left. Three history variables say
what users should find: `node` (which names are one file), `want` (its contents
and attributes), `spoiled` (names met by one of the hazards that
`LossNeedsOverlap` lists).

**State of Mount, Listing and Session.** `opts` is `uopt` of the program with
what is kept for libfuse, `given` the arguments so far, `main` where `main` is.
Strings are lengths with or without a slash at their ends, which is all that
`build_path` and the walk of `path_hidden` see of them; the length of a path
(`Strlen`) is any that is more than its directory's. `ls` has the locals of
the handler that reads a directory, its two hash tables included: each has its
buckets, its length and its number of entries. Each entry read, each insertion
and each change of branch is a step, and between them another call may copy a
file up. `Session` runs the two one after the other: what `main` leaves in
`uopt` is what the listing works with.

**State of Usyslog.** The fields of the entries, the four list pointers, who
holds each mutex, and for each thread where it is and its local pointers. Each
single read and each single write of the lists is a step, because `list_lock`
turns out not to keep them together: `used_bottom->next = log` is one step that
reads `used_bottom` (into `read`) and one that writes through what was read.
Memory is sequentially consistent, and of `used_head = used_bottom = log` the
right-hand store comes first. What an entry's lock protects (`used`, `message`)
is written in the step that releases it. A mutex behaves like glibc's default
one: unlocking always frees it; the history variable `stolen` remembers that
one was unlocked that another thread held. `pthread_cond_wait` may return
without a signal if `Spurious`. A NULL pointer that is followed (`debug.c` 164,
166, 228, 254) ends all threads ("crashed").

## What the model leaves out of the code it models

- UlakeFuse takes a handler as one step. libfuse's high-level layer locks the
  paths of most calls and the kernel locks directories and inodes; `open` and
  what runs beside it is the subject of OpenFiles.
- In UlakeFuse and OpenFiles a path is short enough. Lengths are in Mount:
  `HiddenMatches` is the property that, without a chroot, the lookup by string is
  the lookup by names that the other modules use.
- `hide_meta_files` is on: listings have no `.ulakefs` and no `.fuse_hidden*`. No
  other file is named like these or like a whiteout.
- The branches that are mounted writable can be written, unless `env` says
  otherwise; a mount without copy-on-write has no `.ulakefs` directories.
- `create` and `open` get neither `O_EXCL` nor `O_TRUNC`.
- In UlakeCow `setfile` succeeds whenever the copy does. Symbolic links, fifos
  and devices share the kind "spec": each is recreated by one system call.
- Permissions are the kernel's business (`relaxed_permissions` is parsed, in
  Mount, and changes nothing else).
- `SafeDirRename`: unless `AnyDirRename` is TRUE, a directory is renamed only if
  it is on one branch, nothing was deleted from it, and its new name is on no
  branch. The other renames lose, revive or uncover files (see the findings);
  with them no property of the view could be checked further. `UlakeHistory`
  allows them, and so do all theorems but `UnionIsOneTree` and `FailedCallUnseen`.
- `PathBound`: a directory is renamed only where `Path` has room for its files.
- OpenFiles assumes the locks above ulakefs (`Excluded`, `Allowed`): libfuse's
  for the path of an `unlink`, the kernel's for inodes and directories, and
  libfuse's habit of renaming an open file instead of removing it.
  `O_TRUNC` is a `truncate`. Its copies are of regular files.
- In Listing a directory is not changed while it is read, but for copies,
  since the kernel locks it; `rmdir`, which calls `dir_not_empty`, also has
  libfuse's lock on everything below its path, so nothing is copied meanwhile.
  A key of the hash table is its name, so hash collisions stay within a chain.
- In Mount the branches exist and can be opened, the chroot can be entered,
  and option strings are well-formed. `debug_file`, `max_files` and
  `noinitgroups` leave nothing that is read later; no argument stands for them.
- In Usyslog the counters `free_entries` and `used_entries` are left out; only
  `verify_lists`, which is compiled away, reads them.
- In a debug build `RETURN(x)` evaluates its argument more than once, so that
  `RETURN(-errno)` could change between two evaluations; the model is of the
  release build.

## Runs

`CHECK_DEADLOCK FALSE` everywhere: a small union has states where no call is
possible, a program that refused its arguments has ended, and the syslog buffer
really gets stuck (see below).

| Run | Instance, bounds | Checks |
|---|---|---|
| `rw_ro` | an empty writable branch over a read-only one with each arrangement of two names and a file in each directory, or a socket and a fifo; two values | `ReaddirMatchesLookup`, `CutlastWritable`, `CowInvisible`, `ReadOnlyUntouched`, `ImplementsTreeView` |
| `ro_rw_ro` | paths `a`, `b`, `a/x`, `a/x/y`; a writable branch between two read-only ones, of which only the upper has `b`, copy-on-write on and off; a regular file of the writable branch below a directory of the same name; or two writable branches, files on the lower, over an empty one | `ReaddirMatchesLookup`, `OnlyNewNamesLeak`, `ImplementsTreeView` |
| `faults_rw_ro` | an empty writable branch over a read-only one with any two names and a file in each directory; copies of files, the directory `a` or whiteouts cannot be made, copies are cut short; one value | `TypeOK`, `CowInvisible`, `FailureUnseen`, `OnlyNewNamesLeak` |
| `handles` | two users, two files and four inodes, files of one buffer; failures and crashes | `LossNeedsOverlap`, `HandlesNamed`, `LowerUntouched` |
| `session` | up to four arguments, given by root; three branches, two of them on one file system; three files in one directory, tables that grow at two and at three entries, `malloc` that may fail | `MountedAsAsked`, `StatfsBounded`, `HiddenMatches`, `ListingExact`, `EmptyExact`, `TablesFind` |
| `usyslog` | two loggers, the syslog thread, two entries, four calls, spurious wakeups, one message | `TypeOK`, `CrashNeedsStolenLock`, `ReadsWholeMessages`, `NoOverwrite`, `CallsReturn` |

The properties:

- `ImplementsTreeView`: `UlakeFuse` with `view <- View(fs)` implements
  `TreeView`. A call that returns 0 has its POSIX effect on one tree, a call
  that fails changes nothing, and it may fail only with the run's `Refusal`
  (`{}` in `rw_ro`), `ENOENT` for a socket to be copied, or `ENOTEMPTY` where
  it is due.
- `ReaddirMatchesLookup`: listings and lookups agree in every directory.
- `CowInvisible`: preparing a path for writing, whether that succeeds or not,
  leaves the view as it is, save for one truncated file if a copy was cut short
  (`general.c:738`).
- `FailureUnseen`: a call that returns an error has changed nothing that users
  see, though `mkdir`, a copy or a whiteout failed in the middle of it; again
  save for one truncated file, if the error is `ENOSPC`.
- `CutlastWritable`, `ReadOnlyUntouched` (`rw_ro`): `find_rw_branch_cutlast`
  answers with a writable branch, as `general.c:270` says of its functions, and
  no step changes a read-only branch, save that `remove_hidden` deletes
  whiteouts there, as the code does. Both are false where `general.c:326` is
  reached: on the mounts of `ro_rw_ro`, and with the faults of `faults_rw_ro`.
- `OnlyNewNamesLeak` (`ro_rw_ro`, `faults_rw_ro`): what is true there. All that
  ever reaches a read-only branch is one new name, by a `create`, `mkdir`,
  `mknod` or `symlink` that returns 0 and for whose name `find_rw_branch_cutlast`
  has no writable branch. No other call writes there, and none leaves anything
  there when it fails.
- `LossNeedsOverlap`: what users find under a name, and read from an open file,
  is what they made it. The exceptions are the hazards of the code, each named
  in the property: two copies at a time, a second copy over a changed file, a
  change of a file during its copy, a copy that fails, a crash during a copy or
  between `unlink_rw` and `maybe_whiteout`. So any other order of steps is safe,
  for instance a crash after `link(2)` or between a copy and `remove_hidden`.
- `HandlesNamed`: a file open for writing is the inode its name has on the
  writable branch, also after a second copy or a link.
- `LowerUntouched`: no step of any call changes the read-only branch.
- `MountedAsAsked`: the branches, their flags, the mountpoint and the options
  of the mount are those of the arguments, in whatever order they came.
- `HiddenMatches`: `path_hidden` on strings says what `path_hidden` on names says.
- `StatfsBounded`: the space reported is that of the file systems, each counted
  once, to within a block for each branch. With `statfs_omit_ro` it is only
  bounded from above: the first branch is counted whatever it is
  (`fuse_operations.c:533`).
- `ListingExact`, `EmptyExact`: a listing made while files are copied up has
  each name that lookups find once, and no other; a directory is empty exactly
  if lookups find nothing in it. If an insertion into a table failed a listing
  may have too much, never too little.
- `TablesFind`: each key in a table is found and counted, however it has grown.
- `CrashNeedsStolenLock`: no thread follows a NULL pointer before some thread
  has unlocked a `list_lock` that another one held. After that each of the
  four pointers can be NULL.
- `ReadsWholeMessages`, `NoOverwrite`: no message is read half-written, or
  written over before it was read, even though the lists are corrupted.
- `CallsReturn`: a call of `usyslog` returns even if `syslog(3)` never does,
  unless the buffer is already stuck or the process has died.

Why the bounds are enough to be interesting. Two names and one level below
them give every case of a file, an empty and a filled directory being source
or target of a rename; an empty top branch is filled by copies as the run goes
on, so every mixture of originals, copies and whiteouts is reached. Three
branches are the fewest with a read-only branch above the writable one and one
below. Two values tell an old copy from a new one; the run with faults needs
only one, since a torn copy has a value of its own. `VIEW DiskView` leaves
`ret` out of the identity of states: no action reads it, and the properties that
mention it are action properties, which TLC checks on every step, also one that
leads to a known state.

In `handles` two users are the fewest that overlap, two files the fewest that
can be mixed up or linked, and four inodes are room for both originals and both
copies. `VIEW SoundState` does not tell states apart by contents that are
already spoiled, and the users are interchangeable. In `session` four arguments
are a list, the mountpoint and two flags, or a second list; the lengths put
one path just at and one just beyond what fits. `VIEW MCView` drops the
arguments once a listing runs. In `usyslog` two loggers, two entries and four calls
are the fewest with which each of the four NULL pointers is followed: two
messages let `do_syslog` go on to a second entry and unlock a `list_lock` that
is not its own, and two more calls then work on the lists together.

`ro_rw_ro` has a path of three names because `general.c:326` can be reached
without any failing system call only there: the upper read-only branch has `a/`
and `a/x/`, the writable one below it a regular file `a`, so that `create a/x/y`
cannot make `a/x` on the writable branch. A directory has one member in these
runs; a `copy_directory` of several members that stops half way is left to the
theorem `FailedCallUnseen`. `session` is a mount by root, who is refused
`relaxed_permissions` (`Ulakefs.c:51`), and one of its branches has a path that
is too long; the theorems about `Session` are for users as well.

Mounts for which a property is not checked because it fails there:

- With two writable branches above a read-only one that has files, `mkdir`
  makes a directory below the whiteout of the upper branch and it stays hidden,
  and a later copy-up takes a directory's attributes from the read-only branch
  and undoes a `chmod`.
- With a read-only branch above the first writable one, `CutlastWritable` and
  `ReadOnlyUntouched` fail, as said above; the other properties hold.

Fairness, in `usyslog` and `usyslog_lost` only: strong fairness of each
thread's steps, so that a mutex given back again and again is at last
obtained (the threads are scheduled, and `do_syslog` sleeps for a second
between two tries). Calling `usyslog` is not fair: nothing need be logged.
`Emit`, the call of `syslog(3)`, is fair only in `MCDaemonSpec`; `CallsReturn` is
about a daemon that does not answer. The handlers have no loop that waits for
another thread, so the other modules have no liveness to state: a call ends
after finitely many of its own steps.

Every property has a mutant in `PROJECT.json`: a plausible slip in one mapped
operator, whose text stands before the operator in its module.

## Disagreements between the code and its comments

Each of these runs ends with a counterexample.

| Run | Comment | What happens |
|---|---|---|
| `rename_copies_all` | `fuse_operations.c:377` | a directory that was copied up without its files is renamed on the writable branch only; its files vanish |
| `rename_revives` | `readrmdir.c:334` | `copy_directory` copies deleted files too; they come back under the new name |
| `copy_exact` | `general.c:667` | two files opened for writing at the same time are copied through one static buffer and get each other's contents |
| `chroot_hidden` | `general.c:50` | with a chroot `path_len` is too large for the path that `path_hidden` walks; it skips the first directories, and files of a removed one show again |
| `usyslog_kept` | `debug.c:127` | woken with an empty list, `do_syslog` returns with `list_lock` locked; every later logger waits for ever |
| `usyslog_lost` | `debug.c:281` | a signal sent while `do_syslog` finishes is lost, and the message stays in the buffer |

`usyslog_kept` needs no spurious wakeup: two messages are drained at the first
signal, and the second signal arrives when the list is empty.

Seen while modelling, all of them in the model, and without a run of their own:

- From its second entry on `do_syslog` unlocks a `list_lock` that it does not
  hold (`debug.c:147`, against line 70; also 140, when the entry is busy), and
  several threads work on the lists: a logger can follow a NULL `log` (228) or
  `used_bottom` (254), `do_syslog` a NULL `free_bottom` (164, 166). It then also puts an entry on
  the free list before it releases the entry's lock; a logger finds it busy and
  loses it (`debug.c:174`, against 232).
- If `path_create` fails, `__find_rw_branch_cutlast` answers with a read-only
  branch, and the caller writes to it (`general.c:326`, against 270). No system
  call has to fail for want of anything: a file in the way is enough
  (`ro_rw_ro`). `OnlyNewNamesLeak` says that nothing else gets there.
- A copy that fails half way stays, and hides the whole file (`general.c:738`).
- `ulakefs_rename` removes the whiteout of its target also for a directory, so
  that what a removed directory of that name held shows again
  (`fuse_operations.c:450`, against the comment at 248).
- After a failed `rename(2)` the copy of the source stays, because the branch
  number was replaced before the test for it (`fuse_operations.c:428`). Users
  do not see it (`FailureUnseen`).
- `unlink` returns 0 though the whiteout could not be made and the lower file
  is back (`readrmdir.c:392`).
- `rmdir` on a read-only branch with nothing writable above returns the
  positive `EACCES` (`readrmdir.c:329`).
- `create` over a file of the writable branch that only a whiteout hides
  reopens it with its old contents (`fuse_operations.c:90`).
- A whiteout path of exactly `PATHLEN_MAX` characters passes the length test of
  `filedir_hidden` but is cut by `snprintf`, so its file is never hidden
  (`general.c:38`).
- When a hash table grows in place, the new part is cleared through a pointer
  read from beyond the old table (`hashtable.c:124`); a key whose `strdup`
  failed is hashed (`readrmdir.c:156`). Both end the program.
- `statfs` looks at the first branch of each file system only: a writable branch
  that shares one with a read-only branch above it adds no free space
  (`fuse_operations.c:541`). With `statfs_omit_ro` the first branch is counted
  although it is read-only (533, against the help text at `options.c:329`).
- With a chroot the result of `BUILD_PATH` is not tested, so that a branch whose
  path is too long is mounted with the length of what the buffer then holds
  (`options.c:367`).

The note at `options.c:272`, that `chroot` has to come before the branches, is
not needed: `ulakefs_post_opts` runs after all options (`MountedAsAsked`).

## Proofs

All for any set of paths closed under `u_dirname`, any number of branches and
of users, files or messages. The assumptions are the named `ASSUME`s of `Paths`,
`UlakeDisk`, `UlakeFuse`, `OpenFiles`, `Mount`, `Listing`, `Session` and `Usyslog`,
which TLC evaluates in the runs of these modules. Mounts and faults are any, but for the theorems of the
second group below, which say in their `ASSUME` on which mounts they hold; the
counterexamples on other mounts are named with each.

Of every mount and every fault:

- `UlakeFuseProofs!Types`: `Spec => []TypeOK`. `TypeOK` contains that every
  branch is a tree. It is inductive by itself; the work is in the operators.
  `UlakeCowProofs` shows for each function of `general.c` that it takes a sound
  disk to a sound disk (`Sound`), and `UlakeFuseProofs` has one lemma for each
  handler. `UlakeDiskProofs` begins with the facts about prefixes and renamed
  subtrees (`GraftTree`).
- `UlakeFuseProofs!Listings`: `Spec => []ReaddirMatchesLookup`. Given that the
  branches are trees, it holds of every disk (`UlakeDiskProofs!ReaddirFinds`):
  a name that a lookup finds has its parent on the same branch, and a branch
  that hides the directory hides the name. `NotEmptyFinds` is the same for
  `dir_not_empty`.
- `UlakeFuseProofs!OnlyCutlastLeaks`: `Spec => OnlyNewNamesLeak`. So what
  `general.c:326` does when `path_create` fails is the only way to write to a
  read-only branch, and only a new name gets there. The lemmas carry, besides
  `Sound`, that a disk has the same read-only branches (`SameReadOnly`), and of
  each handler that it writes to the branch it was given, which only
  `find_rw_branch_cutlast` may have found read-only (`Prepared`, `MadeReadOnly`).
- `UsyslogProofs!UsyslogTypes`, `OnlyStolenLockCrashes`, `WholeMessages`,
  `MessagesKept`: for any number of loggers, messages and entries. The invariant
  `IInv` adds to `TypeOK` that a thread between its `trylock` and its `unlock`
  holds the entry's lock (`OwnersHold`), that a logger that has seen `used`
  false still finds it so (`UnusedFree`), and, as long as `stolen` is FALSE,
  that only the holder of `list_lock` is anywhere in the code that works on the
  lists and that the pointers it tested are still what they were (`Guarded`).
  The last is what keeps NULL from being followed; the two theorems on messages
  need only the entries' locks and so hold when the lists are corrupted.
- `OpenFilesProofs!OpenFileTypes`, `HandlesStayNamed`, `LowerNeverWritten`: for
  any number of users, files, inodes and buffers, with or without faults. That
  an open file is the one its name shows is not inductive: one has to know
  what each call has in its locals. The invariant `IInv` adds to `TypeOK` that
  the names of the read-only branch never change (`LowerFixed`) and the
  writable branch names no inode of it (`UpperNames`), what holds of a call at
  each of its steps (`Stages`: a copy goes to the file's name on the writable
  branch, a call that writes knows that branch), that the calls that exclude
  one another do so (`Exclusion`), and that nobody has a file open that is
  being removed (`UnlinkAlone`). There is one lemma for each action. A step
  then only changes inodes outside `LowerInode` (`StepsUpper`), which gives
  `LowerUntouched`.
- `OpenFilesLossProofs!OnlyOverlapLoses`: `Spec => []LossNeedsOverlap`, with any
  faults and crashes. Its invariant (`Fate`) says of a name that is not spoiled
  that two names share an inode exactly if they are one file (`SameFile`), that
  a file that has no copy shows the original and that it is `want`, that each
  call knows what the branches have (`AllKnow`), and that the only copy under
  way has written as many chunks of `want` as it has counted (`Copies`).
- `SessionProofs!TablesAlwaysFind`, `ListingAlwaysExact`, `EmptyAlwaysExact`:
  for any branches, names and numbers of buckets, whichever `malloc` fails. The
  invariant is about the locals of the handler that reads (`Reading`): the
  tables have each key where its hash puts it and count it (`TablesFiled`), the
  whiteouts read so far are those of the branches above (`LoopState`), what was
  shown is found by a lookup, and what a lookup finds was shown or is still to
  come (`Answered`). A copy made meanwhile adds an entry to a branch that the
  lookups' answer does not depend on.
- `SessionProofs!MountAlwaysAsAsked`: for any arguments in any order and number.
  The invariant (`Asked`) is about the time before the mount: the branches are
  those of the first list, and every other list is among the arguments kept. So
  if one argument was kept, and it is a list, there were two. The witness of
  "among the arguments kept" is a function from their places to the places
  where they were given (`Keeps`).
- `SessionProofs!WalkFindsWhiteouts`: `Spec => []HiddenMatches`, for any strings
  and lengths. It needs of the mount that without a chroot `path_len` is the
  length of the branch's path (`Measured`), and of a path that its first names
  are a path that is no longer (`OnTheWay`): then no parent ends before the
  walk begins, and none is too long if the path is not.
- `SessionProofs!StatfsAlwaysBounded`: `Spec => []StatfsBounded`, for any number
  of branches, sizes of blocks and file systems. What was counted and what there is are
  recursive functions of the number of branches (`counted`, `held`). The
  library's theorems about such functions cannot be instantiated here, so
  `RecursionExists` shows from a least counterexample that the functions exist
  at all, and `AllBounded`, again from a least counterexample, that each branch keeps
  the bounds (`BranchAdds`).

Of mounts of a certain shape:

- `UlakeFuseProofs!CutlastAlwaysWritable` and `ReadOnlyNeverWritten`, where the
  uppermost branch is writable (`WritableFirst`; or none is, or there is no
  copy-on-write) and no `mkdir` fails: `Spec => []CutlastWritable`, hence
  `Spec => ReadOnlyUntouched` (`ReadOnlyOnlyByCutlast`). A directory that a lookup finds has
  all its parents in the uppermost branch either as directories or not at all,
  for otherwise that branch would have answered; so `path_create` can make
  them. That argument needs the first branch to be the one written to; with a
  read-only branch above it only `OnlyCutlastLeaks` remains.
- `UlakeFuseProofs!CopyKeepsFiles`: preparing a path for writing, on any mount,
  changes at most attributes of directories in what is seen, if a copy that
  fails leaves no truncated file (`NothingTorn`; otherwise `general.c:738`
  bites). `CopyNeverSeen`, likewise without truncated files: it changes nothing (`Spec => []CowInvisible`) where,
  of the branches above a read-only one, at most the next is writable
  (`WritableNext`); otherwise the attributes come from the wrong directory
  (`general.c:422`). Both rest on `Mirrors`: after any part of `path_create` and
  `copy_file` the writable branch differs from before only on prefixes of the
  path, where it now has what the read-only branch has.
- `UlakeFuseProofs!FailedCallUnseen`: `Spec => FailureUnseen`, on the mounts of
  `CopyNeverSeen`, with any faults that leave no truncated file and the
  directory renames of `SafeDirRename`. A handler that fails leaves one of three
  disks: the one it found, the one after copying, or the one after making
  directories on the branch to write to (`HandlerFails`, `RenameFails`). A
  directory that was copied in part is not seen either, because nothing in it
  has a whiteout, and so whatever part was copied, the lookups that go to the
  writable branch find what the read-only one has (`Spreads`, `CopyDirectorySpread`).
- `UlakeUnionProofs!UnionIsOneTree`: `Spec => ImplementsTreeView`, the whole
  refinement, for a writable branch above a read-only one (`OneOverOne`), with
  no faults (`NoFault`) and the directory renames of `SafeDirRename`, and for
  any set of paths, however deep, and any `Refusal`. On two branches a lookup is a function of two trees and the
  whiteouts of the upper one (`TwoBranches`). First, what a handler does to
  prepare is unseen (`CowZero`, `CutlastZero`, `CommonWhole`), and leaves the path's
  parent on branch 0. Then the change on branch 0 at one path is seen as
  its POSIX effect on one tree (`PutSeen`, `AttrSeen`, `DeleteTree`, `MoveSeen`);
  this is where the whiteouts matter, each removed or made at the right place.
  One lemma for each handler puts the two together and maps the step to one of
  `TreeView`, or to a stutter. On other mounts it fails as said above, or is
  only checked (`ro_rw_ro`); with faults it fails by design of the code
  (`general.c:326`, `readrmdir.c:392`).

Only model-checked:

- `ImplementsTreeView` for mounts with a read-only branch above the writable one
  or with two writable branches (`ro_rw_ro`).
- `CowInvisible` and `FailureUnseen` where a copy is cut short: that the
  truncated file is all that shows.
- `CallsReturn`: liveness under fairness is beyond the prover.
- The findings: each is a counterexample.

## Not modelled

- `access` and `readlink` forward one call to the branch that the lookup names;
  `flush` and `fsync` one to the open file. They change nothing that another
  call reads. `init` enters the chroot.
- The debug log file (`debug.c` 1-65): `debug_init` runs once, before there are
  threads, and the functions that would change the path later have no callers.
- `hashtable_remove` and the iterator of the hash table have no callers.
- `network.c` and `http.c` are not reached from `main` or any handler. A model
  of their loops would be one of code that this program never runs.
- Mounts without `hide_meta_files`; `max_files`, the debug options and all wording.
- The file counters of `statfs`, which the same lines add up as the blocks.

## Plan

Done: all modules and theorems above.

Next theorems: the refinement for two branches of which only the lower is writable, where
there is nothing to copy up, and for one branch.

Next models: `copy_directory` in steps beside listings, and renames in
OpenFiles.
