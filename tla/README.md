# A verification model of DuplicateCleaner

DuplicateCleaner scans directories for files of equal content, lets rules decide
which file of each group to keep, and deletes the others: to a backup directory,
to the trash or for good.  This directory holds TLA+ modules that model that
program, TLC configurations that check them on small instances, and proofs for
every value of the constants.  Line numbers are those of `src/`.

## The system

| Part | State | Operations | Talks to |
|---|---|---|---|
| scan task, `internal/scanner/task.go` | flags `running`, `paused`, `stopped`; size buckets, hash groups, progress; a scanner goroutine and a hashing goroutine per bucket | NewTask, StartAsync, Pause, Resume, Stop, Status, Results | file system, hash, cache; called by the handlers |
| hash cache, `internal/cache/cache.go` | a map in memory, a JSON file | Load, Save, Get, Put | shared, without a lock, by the hashing goroutine, the scanner and Stop |
| hash, `internal/hash/hash.go` | none | ComputeHash | file system |
| rules, `internal/rules/rules.go` | none | Apply | called with each group by preview and confirm |
| delete and restore, `internal/backup/{backup,trash,delete}.go` | the backup directory, `restore_last.json`, the trash | MoveToBackupWithManifest, MoveToTrash, DeletePermanently, RestoreLast | file system; called by the handlers |
| space check, `internal/backup/space_*.go` | none | RequiredSpaceForCopy, FreeSpace, SameVolume | called by confirm before files move |
| directory cleanup, `internal/backup/cleanup.go` | a list and a map, local | CleanEmptyDirs | called by confirm after files moved |
| handlers, `internal/web/router.go` | the current task, its options and the rule set, under one RWMutex | start, status, results, pause, resume, stop, rules, preview, confirm, restore | all of the above |
| web page, in `router.go` | the controls, a timer | updateRules, debounce | POSTs to the handlers |
| synchronous scanner, `internal/scanner/scanner.go` | local; a pool of goroutines | Scan, called by nothing | file system, hash, cache |
| Windows and macOS variants, logging, server start | - | - | - |

Other programs are part of the system: they edit, create and remove the files
the program works on, at any moment.

What makes it hard to get right, with the line where it bites, is the list
`hazards` of `PROJECT.json`.  In short:

* files change under a scan, and what was read of them (walk, first `os.Stat`,
  hash, second `os.Stat`, cache entry) belongs to different moments;
* handlers, scanner and hashing goroutine share flags and a map without a lock,
  and two goroutines may write one cache file;
* the process may be killed between truncating a file and writing it, or between
  copying a file and removing the original;
* each step of a delete or restore may fail alone, with several files in a batch;
* deletion works from results and rules that may be older than the disk, and
  requests overlap: the lock is released before any file is touched, and before the
  lists are read, which polls sort in place;
* space, directories and the backups a manifest names are checked first and used
  later.

What makes each part correct:

* task: groups are disjoint and truthful for untouched files, nothing is missed,
  Stop takes effect, the scan ends, changes under the hash are flagged;
* cache: an entry never answers for a file that has another digest;
* rules: exactly one file of a group survives, the one the first applicable rule
  prefers, and it keeps surviving when a partial deletion is repeated;
* delete and restore: no content is lost unless asked for, the manifest leads to
  every file, restore overwrites no file that is there, the reply tells the truth;
* handlers: one copy of each content stays in place whatever overlaps, a delete
  that was checked lacks no more space than rounding adds, the cleanup removes what
  is empty within its bounds and nothing else, a restore brings everything back;
* page: the server ends up with rules the page has posted last;
* scanner: every file the options admit is found once, the pool does not block.

## Modules

| Module | Models |
|---|---|
| `HashCache` | pure operators: entries, Load, Get, Put, and what a write that overlaps another leaves in the file |
| `Task` | one scan task with its goroutines, the handlers that drive it, the cache, the file system, kills and restarts; the inductive invariants |
| `ScanJob` | the abstract specification of a task: candidates are collected once, each is classified at most once, to the end or until Stop |
| `Rules` | Apply, rule by rule, and its repetition after a partial deletion |
| `Vault` | the abstract specification of deletes and restores: what may happen to a name and its content |
| `Backup` | deletes and restores, one file system call per step |
| `Cleanup` | the directory tree and the loop of CleanEmptyDirs, one system call per step |
| `Page` | the controls, the debounce timer and the POSTs on their way, which may overtake each other or get lost |
| `Session` | RouterState: scans, rules, deletes with space check and cleanup, and restores, as overlapping requests |
| `Scanner` | Scan: the walk with its filters, and the pool of hashing goroutines |
| `TaskProofs`, `JobProofs`, `ResultProofs` | theorems about `Task` |
| `RulesProofs` | theorems about `Rules` |
| `SessionProofs`, `RequestProofs` | theorems about `Session`, with `Cleanup` and `Page` |
| `BackupProofs` | theorems about `Backup` and `Vault` |
| `ScannerProofs` | theorems about `Scanner` |
| `MCTask`, `MCRules`, `MCBackup`, `MCSession`, `MCScanner` | instances for TLC |

`Task` extends `HashCache` and implements `ScanJob` through the refinement
mapping at its end, as `Backup` implements `Vault`.  `Session` extends `Cleanup` and
`Page` and composes all parts at a coarser grain: a file is hashed in one step
(details in `Task`), moved in one step (details in `Backup`), and the choice Apply
makes in one group is a function `Keep`, of which it assumes what `Rules` proves.

### Task and HashCache

Variables carry the names of the Go fields (`running`, `paused`, `stopped`,
`buckets` for `sizeBuckets`, `groups` for `hashGroups`, `cache` for
`cacheStore`).  `pc` is the position of the goroutine of StartAsync, `w[s]` the
local state of the hashing goroutine of the bucket of size `s`.  A step ends
where another goroutine or program can look: at each `os.Stat`, at the hash, at
each access to a flag, the map or the groups.  `Save` takes three steps: marshal
the map, truncate the file, write it.  Stop's own Save (`stopPc`) is separate
from the scanner's (`pc`), and a file both are writing may end up as either text
or as a mixture that `json.Unmarshal` rejects.  While Stop marshals the map, a
Put may end the process, as the Go runtime does when it notices.

The file system gives every edit a new modification time.  A digest is a pair of
algorithm and content, so digests never collide.  A file is hashed in one step:
if it changes while its chunks are read, the second `os.Stat` sees that whether
the digest is of the old, the new or a mixed content.  Any call of ComputeHash may
fail, also for a file that `os.Stat` has found: then there is no digest, and the
file goes to the group of the empty one, which Results leaves out.  The filters of the walk
(hidden, system, read-only, symbolic links) only decide what `Under` holds; they
are modelled in `Scanner`.  The order of directories and of buckets, random in Go
for the map, is free.  The percentage of `updateProgressStep` is computed with
integers; the code uses floating point and truncates.

### Rules

A path is a sequence of symbols, so that "is a prefix of" and "is below" differ.
A base name is its numbers, dots and other text, which is what the regular
expression `v?(\d+)(\.\d+)*` can tell apart.  A number wraps at the width of an
`int`.  Each iteration of the loop over `Priority` is one action.  After Apply,
`Rescan` shows the same rules a group from which some of the deleted files are
gone.

### Backup and Vault

The disk is a directory from paths to nodes and the data of the nodes.  The
indirection matters: a file that is being copied into can be renamed or removed
by another request, and the copy goes on in the node.  `h[p]` is the local state
of request `p`; each `os` call is a step that does its work, fails because the
state says so (no such file, another volume), or fails without a reason
(`Fault`).  `os.WriteFile` of the manifest takes two steps.  A delete in backup
or trash mode renames, or copies and removes; permanent mode removes; a restore
goes the other way.  Before that it asks `os.Stat` whether the path is in use
(`NextMapping`), and every error counts as "no", not only that there is no such
file; what was taken for free so is recorded in `overlooked`.  The clock that makes backup names unique is taken never to
repeat.  A failed space check and an unreadable manifest end a request before it
changes anything and appear as requests that are not made.

`Vault` knows names and contents only: a content moves to a free name, is copied
to one and completed there, loses a name where it has another, or is given up.  A
name whose content was overlooked (`Overlook`) counts as free.
`Backup` maps what is read at each path to it (`Holds`); requests, open files,
manifests and the clock are the detail.  That the names of backups are free when
they are used is part of what is shown, and rests on the time in them: with
names that repeat (`UniqueByName`) the refinement fails.

### Session, Cleanup and Page

`r[q]` holds the local variables of request `q`, `pc` its place in the handler:
`apply` and `list` (the two times `rules.Apply` goes through a group), `check` (the
space check), `delete` (a file per step), `clean` (the loop of `Cleanup`, `c[q]`),
and for a restore `next` (the target is looked at) and `move` (`os.MkdirAll` has
returned, the rename has not).  `EndDelete` reads `opts.Dirs` without the lock, as
router.go:273 does.

Confirm takes the rules and the results under the lock (router.go:209 to 216).  The
results are slices of the arrays the task appends to, and the lock is released
before they are read: `Choose` is the copy of the candidates and the choice among
them (rules.go:28 to 62), `ListDeletes` the loop that collects the rest of the group
(65 to 69).  Whenever the group has grown, a poll sorts the array in place
(`buildGroupsSnapshot`, task.go:284), and the slice, which is no longer than it was,
shows other files (`Resort`).  The order of polls is not modelled: `Resort` gives the
slice any files of the group, no more than it had, which includes what a read in the
middle of the sort may see.

Results grow file by file (`Visit`) and stay when files go.  Stop clears
`running` at once; one more file may be added to the results.  The space check
(`Refuse`, `Accept`) sums the bytes of the files on another volume (`Required`) and
compares them with the bytes of the free blocks; a copy takes whole blocks
(`Blocks`), and one that fails may leave some of them in use.  It is skipped when one
of the paths or the target directory cannot be looked at.  A file of the same volume
is copied, too, when its rename fails (`DeleteByCopy`); the copy needs its blocks
until the file is removed.  The manifest pairs files and backups by position and is
replaced by each delete in backup mode.

`Cleanup` goes from each path of the delete upwards: `TakePath`, `Look` (the
map, the bounds, `os.ReadDir`), `RemoveDir` (`os.Remove`, which refuses a
directory that is no longer empty).  Both may also fail for other reasons
(`CleanError`).  `Bare` holds the bounds "." and "/", which
withinBounds turns into a prefix of nothing.

`Page` posts the rules at once for a select or a check box and after 400 quiet
milliseconds for the keep directories.  Nobody waits for a POST or sends it again:
the server may serve POSTs in any order (`Deliver`) and may not get one (`Lose`).
Loading the page anew (`Reload`) resets the controls and posts nothing.  The handler
stores what it serves last.

Some of the state only serves the properties.  `calm` in a request says that no other
request and no other program has changed what it works on since it looked; `touched`
holds the contents that other programs, a restore or a copy have moved or rewritten;
`mixed` those whose list was sorted between the two reads of Apply; `applied` the
rule sets that deletes have used; `rivals` what the page's last POST has competed
with; `checked`, `lacked`, `room` and `sizes` what a delete met at its space check and
after it.

### Scanner

The tree rests.  `Tree` assumes of it what a file system guarantees: no directory
is below itself, and two entries of a directory have nothing below them in
common.  The walk keeps the entries to come in `agenda`, as
`filepath.WalkDir` does: `Enter` puts the entries of a directory in front, `Skip`
and `Take` go on behind a file.  A link has the length of its text and the
digest of its target.  The pool has one goroutine per bucket, a semaphore
(`slots`) and a WaitGroup (`wg`); a goroutine gives back the WaitGroup before the
semaphore, as the deferred calls do.  `Returned` are the groups Scan returns, with
that of the files without a digest, should there be two.

## Runs

| Run | Shows | States |
|---|---|---|
| `task_cached` | the cache is truthful and results are complete over two scans, an edit, failing reads, stops and a kill, and with two buckets in either order | 918,000 |
| `task_edited` | disjoint and truthful groups, changes marked, Stop and progress, under an edit at any moment and failing reads; refinement of `ScanJob`; a scan that does not stay paused ends | 568,000 |
| `rules` | one file kept, the preferred one, for good | 148,000 |
| `backup` | no content lost but one overlooked, a complete delete recoverable, truthful replies; refinement of `Vault` | 848,000 |
| `session` | the last copy stays, space suffices but for rounding, the cleanup is complete and within bounds, a restore is complete, the rules settle | 646,000 |
| `scanner` | nothing missed or taken twice, groups complete, the pool returns and is safe with one worker | 135,000 |

Each of the other runs ends in a counterexample, described under `findings` in
`PROJECT.json`:

| Run | Disagreement |
|---|---|
| `task_cache_poisoned` | a digest is cached under the time of a later version of its file (`task.go:239`) |
| `task_stop_race` | Stop saves the map while the hashing goroutine writes it (`task.go:85`) |
| `task_stop_paused` | a scan stopped during a pause never ends (`task.go:199`, `214`) |
| `backup_manifest` | after one failed file the manifest pairs the wrong paths (`backup.go:56`) |
| `backup_overlap` | a delete during a restore from another volume loses the content (`backup.go:91`) |
| `backup_overwrite` | a file created between the `os.Stat` and the rename of a restore is overwritten (`backup.go:82`) |

`backup_overwrite` needs no more than another program that creates the file.  With
`EditDuringCalls` FALSE and one failing call it is violated, too: the file is there
before the restore starts, `os.Stat` fails on it, and the rename replaces it.

Met while modelling and kept out of the passing runs by the conditions named
with them, without a run of their own:

* Two deletes on the same results with different rules remove every copy of a
  file (`router.go:213`): `LastCopyKept` speaks of one rule set.
* A list that is sorted between the two reads of Apply (`rules.go:28`, `65`;
  `task.go:284`) shows the second read other files than the first.  The delete keeps
  the file chosen among those of the first read and may delete the one the rules keep
  among all copies; after a confirm during a scan and another one on the same
  results, made when the scan has ended, no copy may be left, under one rule set:
  `LastCopyKept` leaves out the contents in `mixed`.
* A keep directory `keep` is a prefix of `keep-old/a`, which is then kept and
  `keep/b` deleted (`rules.go:78`, against `README.md:102`): `KeepsPreferred` speaks
  of directories none of which is the beginning of another name.
* POSTs of the rules are served in any order (`router.go:586`), and older rules may
  stay in force until the next change, against `README.md:65`, "take effect
  immediately": `RulesSettle` names the rules that are possible then.
* With the root "." nothing is ever cleaned (`cleanup.go:59`), although
  `README.md:112` names the scan directories as the bounds: `Bare` is empty.
* The space check is skipped when a file of the list has gone or the target
  directory is not there yet (`router.go:241`): `SpaceSuffices` speaks of deletes
  that were checked.
* Bytes are summed, blocks are taken (`space_unix.go:53`): `SpaceSuffices` says by how
  little a checked delete may run out of space, not that it never does.
* Scan returns the files it could not read as one group of duplicates, whatever their
  lengths (`scanner.go:180`, against `README.md:8`, "Accurate duplicate detection",
  and unlike `task.go:278`): `GroupsComplete` speaks of the groups of digests.
  Nothing calls Scan.
* A followed link is bucketed by the length of its text, so that it is compared
  with the wrong files (`task.go:169`, against `README.md:91`): `GroupsComplete`
  speaks of the files Scan compares.

Every property of a passing run has a mutant of the model, a plausible bug named
`... Wrong: ...` in the module, under which TLC finds the property violated.

### Bounds

* `MaxScans`, `MaxEdits`, `MaxKills` of `Task`: two scans are needed for a cache
  entry to be reused; one edit separates what a scan read from what is there; a
  kill anywhere in a Save followed by a scan covers the recovery.  Two or three
  files make a bucket large, and with overlapping roots one of them is met twice.
  `Followed` in `MCTask` has `task_cached` follow two files of one size through two
  scans with the edit and the kill, and four files, two of each size, through one
  scan with failing reads and Stop: the order of buckets matters within a scan.
  Two workers are allowed although the code never uses the second.
* `EditWhileScanning`: with the cache on, an edit inside a scan poisons the
  cache (finding above), so `task_cached` edits between scans; `task_edited` has
  the cache off and edits at any moment.  `Recreate` is FALSE in `task_edited`:
  a file that is missing for one `os.Stat` only is hashed without change
  detection.
* `MaxFiles` of `Rules`: groups of three have a first, a middle and a last file in
  every rule; rule sets with two rules show every order of two.  `Half` is a width
  that none of the names of the run overflows.
* `MaxCalls` = 3 of `Backup`: delete, restore, restore again, or delete, restore,
  delete.  `MaxFaults` = 2: one failing call and one more in the attempt to repair
  it, or a `os.Stat` that fails.  `EditDuringCalls` is FALSE in `backup`: between the
  check that a path is free and the rename, another program can create the file,
  which `backup_overwrite` shows.  `Handlers` has one member in `backup`;
  `backup_overlap` shows what two lead to.
* `session`: three copies of one content in two directories of three, two of them
  on another volume; three bytes take two blocks of two bytes each, and two or three
  blocks are free (`Capacity`), so that the check refuses, admits what fits, and
  admits what does not; three rule sets that disagree about every group of two, two
  requests (interchangeable, hence the symmetry).  `OneComplication` admits one of:
  two requests served at once, a second scan, a request during the first scan,
  trouble (one error, or another program), a change of the rules, two free blocks
  instead of three.  `RulesEarly` lets the page change rules only while nothing else
  runs, and a confirm that follows a change find them settled: nothing but Confirm
  reads them.  `ScanElsewhere` keeps scans from going on during the loop of a
  cleanup, which has read its bounds and looks at no results.  `SessionProofs` and
  `RequestProofs` have no such bounds.
* `scanner`: all 64 combinations of the options, three lists of roots (two of them
  overlapping, one with a missing root), digests of the files of one length that are
  alike, different, or missing; two large buckets against one slot or two.

### Fairness

`FairSpec` of `Task` gives weak fairness to the scanner goroutine, to each
hashing goroutine and to a Stop call in progress: the Go scheduler runs every
goroutine that can run, and none of their steps waits for more than a flag, a
slot of the semaphore or the exit of the hashing goroutine.  Users, other
programs and kills have no fairness.  `ScanEnds` assumes that the scan is not
paused for ever or again and again.  `Scanner` has the same fairness for the
goroutine that called Scan and for each of the pool.

## Proofs

All theorems hold for every value of the constants that satisfies the named
assumptions of the modules (`TaskAssumption` and so on), which TLC evaluates in
each run.  Further conditions are in the statement of a theorem, and repeated
here.

### Task

`TaskProofs`:

* `TypeCorrect`: `Spec => []TypeOK`.
* `ControlCorrect`: `Spec => []ControlInv`, from which `OncePerFileHolds`,
  `StopsSoonHolds` and `OneHasherHolds` follow.  `OncePerFile` alone is not
  inductive.  The strengthening says that each path is in one bucket at most
  (`BucketsInv`), that only the bucket the loop waits for has a goroutine and
  that this works on that bucket (`WorkersInv`), that no file that still waits to
  be grouped is grouped already (`GroupsInv`), and that the file grouped after
  Stop was the one in hand (`LateInv`).
* `TruthCorrect`: `Spec => []TruthInv`, if the cache is off or files rest while
  a scan runs (`OneOfTheTwo`), from which `GroupsTruthfulHolds` and
  `CacheTruthfulHolds` follow.  The strengthening says that no recorded time lies
  in the future (`TimesInv`), that a digest in hand is that of its file
  (`InHandInv`), and that the map, both buffers on their way to the disk and the
  cache file hold an entry with the time of the file only if it has the digest of
  the file (`StoresInv`).  Without the condition it is false: see
  `task_cache_poisoned`.

`JobProofs`:

* `JobCorrect`: `Spec => []JobInv`.  What is grouped was collected into a large
  bucket (`SourceInv`); without Stop every collected file is grouped or still to
  be grouped (`NoneLost`), and the loop ends with no bucket left (`LoopEnds`).
* `ImplementsJobHolds`: `Spec => ImplementsJob`.  The mapping is named (`Phase`,
  `Candidates`, `Grouped`); a step of the scanner, of a hashing goroutine and of
  the handlers is each shown to be one step of `ScanJob` or a stutter.
  `GroupsInv` gives that a file is not classified twice, `LateInv` that at most
  one is after Stop, `NoneLost` and `LoopEnds` that all are without.

`ResultProofs`:

* `ProgressCompleteHolds`: a scan that ends without Stop shows 100 percent.  The
  invariant counts (`CountInv`): the buckets done, to come and in the loop are
  all that hold a file, and there are no more large ones.
* `ResultsCompleteHolds`, under `OneOfTheTwo`: every two equal files that rested
  are in one group of the results.  It needs `JobInv` (they are grouped),
  `TruthInv` (under their digest); the files that could not be read are those in the
  group of the empty digest, of which it says nothing.
* `ChangesMarkedHolds`, under `OneOfTheTwo` and `~Recreate`: a file that no
  longer holds what its digest says is marked when the second `os.Stat` sees it.
  `ReadInv` says that with a digest in hand the first `os.Stat` has found the file,
  and with another time than it has now if the digest is not that of its content.

### Rules

`RulesProofs`: `TypeCorrect`, `KeepsExactlyOneHolds`, `KeptForGoodHolds`, and
`KeepsPreferredHolds` where numbers fit in an int (`NumbersFit`) and no directory
named is the beginning of another name (`DirsEndNames`; see above).
That a group has a latest, an earliest and a highest file is shown with least
elements of well-founded orders.  The argument turns on `Stands(rs, S, K)`: `K` is
the least in path order of those that the first rule preferring any file of `S`
prefers.  `StandsInherits`: a file that stands in a group stands in every part
of it that holds the file.  `RulesInv` says that the candidates are the whole
group until a rule prefers a file, and then the one file that stands.

`Session` takes Apply for a function `Keep` and makes two assumptions of it.
`ApplyIsChoice` shows that Apply is a function of the rules and the group (`Choice`),
and `ChoiceIsAKeep` that it meets the assumptions, which are repeated there: the
two modules are not instances of each other.

### Session

`SessionProofs`:

* `TypeCorrect`, with what is needed of the lists of each request: what was moved
  is no longer than what was asked for, and manifests name backups that were made.
* `RulesSettleHolds`, without a condition: what is on its way is among the rules the
  last POST competed with, and so is what the server has when nothing is, and what
  the page shows unless its timer runs (`PostsInv`).
* `LastCopyKeptHolds`: `LastCopyKept` is not inductive, since a request may have
  the kept file on its list, or a scan may have seen another file with that
  content.  `Kept` says that all places and results with the content are old copies,
  that backups of it came from there, and that each request is `Safe`: the chosen
  file is not to be deleted, and if it is in the group the request goes through, it
  is the one taken out.  With this and the assumption on `Keep`, every list of the
  content is a part of the copies that either holds the chosen file, which then is
  kept, or does not hold it; sorting changes the part, and does harm only between
  the two reads.

`RequestProofs` is about single requests among others.  A step of another request
or program leaves the variables of a calm request alone, or ends its calm
(`Undisturbed`), so that each invariant need only be kept by the request's own
steps.

* `CleanWithinBoundsHolds`: the loop is above a listed path and finds a directory
  empty only within the bounds (`LoopOK`).
* `CleanCompleteHolds`, if `Bare` is empty: every directory above a path that was
  taken is swept, or on the way of the loop (`SweepOK`).  The loop stops where it
  meets its own traces (`seen`); that nothing above is left undone needs that the
  same holds above every directory it has removed, with the loop strictly above
  the directory it came from, and that what is there has its parents (`Closed`).
* `RestoreCompleteHolds`: what a calm restore has left is the end of the manifest,
  and every mapping before it is settled (`LeftOver`).

### Backup

`BackupProofs`.  `TypeCorrect` holds whatever overlaps; all the rest is for other
programs that wait for the requests to end (`~EditDuringCalls`): between the
`os.Stat` of a path and the rename to it, anybody can create the file.  What the
requests may do next to each other is a condition of each theorem, as a temporal
formula on the same behaviour.

* `TypeCorrect`: from `TypeInv`, which adds where each request is in its lists,
  and that a node that is made is new.
* Where a restore runs alone and deletes may overlap (`RestoresAlone`; without it
  the content is lost, see `backup_overlap`): `LossInvariant`, with
  `NothingLostHolds` and `ImplementsVaultHolds`.
  `NothingLost` alone is not inductive.  `LossInv` adds that no two names lead to
  one file and that names of backups are older than the clock (`DiskInv`), that
  the names deletes are about to use are their own (`NamesInv`), and how far each
  move is (`MoveInv`): its target is free until it is created, incomplete while it
  is copied into, and equal to the original, should that still be there, before the
  original is removed; the target of a restore may hold what was overlooked.
* Where requests come one at a time (`OneAtATime`): `CallInvariant`, with
  `ReplyTruthfulHolds` and `RecoverableHolds`.  `ReplyInv` follows the list of a
  delete, whose files differ from each other; `ParallelInv` says that while nothing
  has failed the files moved are parallel to those asked for, which is what the
  manifest takes for granted; `CleanInv` that a manifest written so gives every
  file a backup of its own; `RestoreInv` that a restore from it has in hand what
  its target held.
* `ImplementsVaultHolds`: each system call is one step of `Vault` or none.
  Removing the original is a `Drop` because of `MoveInv`, a rename a `Move` to a
  free name because of `MoveInv` and `NamesInv`.
* `VaultLosesNothing`: `V!Spec => []NothingLost`, without any condition.  It says
  that the promises of `Vault` are the ones that matter; together with the
  refinement it is a second way to `NothingLost`.

### Scanner

`ScannerProofs`, for any tree, options, roots and number of goroutines:

* `PoolInvariant`, with `TypeCorrect` and `SerialPoolSafeHolds`: the counters are
  the numbers of goroutines they are meant to count (`Cardinality` of a set of
  buckets), so that with one worker at most one is in its loop, and none when
  Scan saves the map.
* `WalkInvariant`, with `WalkCompleteHolds`: what was taken and what the entries
  and roots still to come offer (`Still`) make up what is to be taken.  The lemma
  behind it (`OffersOfDir`) says that a directory that is entered offers what its
  entries offer together, one that is not entered nothing; it needs `Tree`.
* `GroupInvariant`, with `GroupsCompleteHolds`: buckets sort what was taken
  (`BucketInv`), and what was hashed so far is what left the lists of the
  goroutines and is in its group, once (`GroupInv`).

### Only model-checked

Liveness: `ScanEnds` and `ScanReturns`; and `SpaceSuffices`, whose sum over the files
of a list is a fold and would need induction over data.  The counterexamples of the violation
runs concern properties that do not hold.  Every other property of the passing
runs is stated by a theorem.

## Not modelled

* The goroutine that a stopped scan leaves behind, next to the scan that is started
  then: `Task` has one task at a time.  The abandoned one works on a map of its
  own; what they share is the cache file, and a file two are writing is modelled
  for Stop.
* Windows: the recycle bin is one call of the shell, and the space check compares
  drive names.  Trash on macOS is the loop for Linux without `.trashinfo`.
* Logging, the server's start, languages, polling and layout of the page: nothing
  else reads what they write.
* What preview, status and results answer; that they sort the lists is `Resort`.
* A slice header of `opts.Dirs` that is read half old and half new (router.go:273), and
  an entry of a list that is read while the sort exchanges it: Go gives no meaning to
  either.  `SessionAssumption` has scans name equally many directories, so that the
  header read is the old one or the new one.
* Hash collisions, files that change without a new modification time, backup
  names made in one tick of a coarse clock, a disk that loses what was synced.

## What could come next

* `Task` with an abandoned goroutine, and two writers of the cache file from two
  tasks.
* `Session` on `Vault`, in place of its one-step move, and more than one request
  next to a restore in `BackupProofs`, for files on one volume.
* `Scanner` as the walk of `Task`, in place of `Under`.
