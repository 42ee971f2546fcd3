------------------------------- MODULE Session -------------------------------
(***************************************************************************)
(* The handlers of internal/web/router.go around RouterState: scans whose  *)
(* results outlive the files, rules that arrive from the page (Page),      *)
(* deletes that apply the one to the other, the space check before and the *)
(* cleanup of directories (Cleanup) after them, and the restore of the     *)
(* last delete.  Requests share nothing but RouterState and the disk, and  *)
(* the lock is released before files are touched.                          *)
(*                                                                         *)
(* A scan hashes a file in one step, and moving a file is one step: their  *)
(* details are in Task and Backup.  The lists a delete works from share    *)
(* their arrays with the results of the task, which polls sort in place.   *)
(***************************************************************************)
EXTENDS Cleanup, Page, FiniteSetsExt

CONSTANTS
    Keep,          \* Keep[rs][g]: the file of g that rules.Apply keeps
    Initial,       \* the content of each file before the first request
    Scans,         \* the values of dirs in the requests to scan
    CrossVolume,   \* the files on another volume than backup directory and trash
    Bytes, Block,  \* the size of each content, and that of the blocks of a volume
    Capacity,      \* how many free blocks the volume of backup and trash may have
    Modes,         \* the values of deleteMode in use
    Absent,        \* there is no restore_last.json
    MaxScans, MaxCalls, MaxTrouble   \* bounds of the model

Group == (SUBSET Paths) \ {{}}

\* Module Rules checks of Apply what is assumed of Keep: the file is one of the
\* group and stays the choice when others are gone (KeepsExactlyOne, KeptForGood).
\* Scans name equally many directories: the header of the slice opts.Dirs, which a
\* request may read while it is written, is then the old or the new one.
ASSUME SessionAssumption ==
    /\ IsFiniteSet(Paths) /\ IsFiniteSet(Dirs)
    /\ Keep \in [RuleSets -> [Group -> Paths]]
    /\ \A rs \in RuleSets, g \in Group : Keep[rs][g] \in g
    /\ \A rs \in RuleSets, g, g2 \in Group :
          g2 \subseteq g /\ Keep[rs][g] \in g2 => Keep[rs][g2] = Keep[rs][g]
    /\ Initial \in [Paths -> Contents \cup {Gone}]
    /\ Scans \subseteq SUBSET Dirs
    /\ \A D, E \in Scans : Cardinality(D) = Cardinality(E)
    /\ CrossVolume \subseteq Paths /\ Capacity \subseteq Nat
    /\ Bytes \in [Contents -> Nat] /\ Block \in Nat \ {0}
    /\ Modes \subseteq {"backup", "trash", "permanent"}
    /\ MaxScans \in Nat /\ MaxCalls \in Nat /\ MaxTrouble \in Nat

BackupFile == [from : Paths, content : Contents \cup {Gone}]
Mapping    == [source : Paths, backup : Nat]

ASSUME AbsentAssumption == Absent \notin Seq(Mapping)

VARIABLES
    opts, running,     \* RouterState.opts.Dirs, Task.running
    toVisit, found,    \* what the scan is still to hash, and what it found
    r,                 \* the local variables of each request
    backups, manifest, \* the backup files in the order of their names
    targets, free,     \* the backup directory and the trash; their free space
    scans, calls, trouble,
    applied,           \* history: the rules deletes have applied
    touched,           \* history: contents that are not just where they were
    mixed              \* history: contents of lists sorted while they were read

tree    == <<home, dirs, c>>
page    == pageVars
scan    == <<opts, running, toVisit, found>>
store   == <<backups, manifest, targets, free>>
bounds  == <<scans, calls, trouble>>
history == <<applied, touched, mixed>>
vars == <<tree, page, scan, r, store, bounds, history>>

\* The lists of a delete (view, of the scan "scan") with the group it is at and the
\* file kept of it; what is left to delete, was asked for and was moved; the mappings
\* of a restore; and what is noted of the space check.
IdleRequest == [pc |-> "idle", mode |-> "permanent", clean |-> FALSE, rs |-> Unset,
                scan |-> 0, view |-> [x \in Contents |-> {}], at |-> Gone, kept |-> {},
                todo |-> {}, asked |-> <<>>, moved |-> <<>>, plan |-> <<>>,
                checked |-> FALSE, lacked |-> FALSE, calm |-> FALSE,
                room |-> 0, sizes |-> [p \in Paths |-> Gone]]

\* Request q gets the local variables l; nothing else is undisturbed by its step.
Step(q, l) == r' = [x \in Requests |-> IF x = q THEN l ELSE [r[x] EXCEPT !.calm = FALSE]]

\* A step that no other request can notice.
Quiet(q, l) == r' = [r EXCEPT ![q] = l]

\* An error of the file system, or something another program does.
Trouble == trouble < MaxTrouble /\ trouble' = trouble + 1

-----------------------------------------------------------------------------
\* /api/scan/start, /api/scan/stop and the task.

StartScan(D) ==
    /\ ~running /\ scans < MaxScans /\ scans' = scans + 1
    /\ opts' = D /\ running' = TRUE
    /\ toVisit' = {p \in Paths : Above[p] \cap D # {}}
    /\ found' = [p \in Paths |-> Gone]
    /\ UNCHANGED <<tree, page, r, store, calls, trouble, history>>

\* The results grow file by file; they are read while they do.
Visit(p) ==
    /\ p \in toVisit /\ toVisit' = toVisit \ {p}
    /\ found' = [found EXCEPT ![p] = home[p]]
    /\ UNCHANGED <<tree, page, opts, running, r, store, bounds, history>>

EndScan ==
    /\ running /\ toVisit = {} /\ running' = FALSE
    /\ UNCHANGED <<tree, page, opts, toVisit, found, r, store, bounds, history>>

\* The file in hand is still added to the results (StopsSoon of Task).
StopScan ==
    /\ running /\ running' = FALSE
    /\ toVisit' \in {{}} \cup {{p} : p \in toVisit}
    /\ UNCHANGED <<tree, page, opts, found, r, store, bounds, history>>

Same(x) == {p \in Paths : found[p] = x}

\* The page changes the rules, and /api/rules stores them.
Rule == PageNext /\ UNCHANGED <<tree, scan, r, store, bounds, history>>

-----------------------------------------------------------------------------
\* /api/delete/confirm

\* Results of the task: the groups of two files and more.
Groups == [x \in Contents |-> IF Cardinality(Same(x)) >= 2 THEN Same(x) ELSE {}]

\* On to the next group, or to the space check and the files.
GoOn(l) ==
    IF \E x \in Contents : l.view[x] # {}
    THEN [l EXCEPT !.pc = "apply", !.at = Gone, !.kept = {}]
    ELSE [IdleRequest EXCEPT !.pc = IF l.mode = "permanent" THEN "delete" ELSE "check",
                             !.mode = l.mode, !.clean = l.clean, !.todo = l.todo]

\* Under the lock: the rules, and slices of the arrays the task appends to.
Confirm(q, mode, clean) ==
    /\ r[q].pc = "idle" /\ calls < MaxCalls /\ calls' = calls + 1
    /\ Quiet(q, GoOn([IdleRequest EXCEPT !.mode = mode, !.clean = clean, !.rs = ruleSet,
                                         !.scan = scans, !.view = Groups]))
    /\ applied' = applied \cup {ruleSet}
    /\ UNCHANGED <<tree, page, scan, store, scans, trouble, touched, mixed>>

\* rules.Apply copies the candidates of a group and chooses among them ...
Choose(q, x) ==
    /\ r[q].pc = "apply" /\ r[q].view[x] # {}
    /\ Quiet(q, [r[q] EXCEPT !.pc = "list", !.at = x,
                             !.kept = {Keep[r[q].rs][r[q].view[x]]}])
    /\ UNCHANGED <<tree, page, scan, store, bounds, history>>

\* Wrong: the kept file is not taken out of the list.
ListedWithKept(l) == l.view[l.at]

Listed(l) == l.view[l.at] \ l.kept

\* ... and then goes through the group once more.
ListDeletes(q) ==
    /\ r[q].pc = "list"
    /\ Quiet(q, GoOn([r[q] EXCEPT !.todo = @ \cup Listed(r[q]),
                                  !.view = [@ EXCEPT ![r[q].at] = {}]]))
    /\ UNCHANGED <<tree, page, scan, store, bounds, history>>

\* A poll of status, results or preview, or another confirm, sorts the array of a
\* group that has grown; the slice, no longer than it was, now shows other files.  A
\* read in the middle of the sort may see a file twice and thus fewer files.  (When
\* append had no room the array was copied, and no poll reaches the old one.)
Resort(q, x) ==
    LET seen == r[q].view[x] IN
    /\ r[q].pc \in {"apply", "list"} /\ seen # {} /\ r[q].scan = scans
    /\ Cardinality(Same(x)) > Cardinality(seen)
    /\ \E v \in (SUBSET Same(x)) \ {{}, seen} :
          /\ Cardinality(v) <= Cardinality(seen)
          /\ Quiet(q, [r[q] EXCEPT !.view = [@ EXCEPT ![x] = v]])
    /\ mixed' = IF r[q].at = x THEN mixed \cup {x} ELSE mixed
    /\ UNCHANGED <<tree, page, scan, store, bounds, applied, touched>>

\* What copies of files with these contents take in bytes, and in blocks.
Size(x) == IF x = Gone THEN 0 ELSE Bytes[x]
Blocks(x) == (Size(x) + Block - 1) \div Block

\* Wrong: the sum ends with the first file.
RequiredForOne(files) ==
    LET across == files \cap CrossVolume
    IN IF across = {} THEN 0 ELSE Size(home[CHOOSE p \in across : TRUE])

\* RequiredSpaceForCopy
Required(files) == MapThenSumSet(LAMBDA p : Size(home[p]), files \cap CrossVolume)

\* FreeSpace is in bytes as well.
TooMuch(files) == Required(files) > free * Block

\* The check is skipped when a file or the target directory is missing: os.Stat
\* fails, and err == nil is asked for.
Checkable(q) == r[q].mode \in targets /\ \A p \in r[q].todo : home[p] # Gone

\* "insufficient storage"
Refuse(q) ==
    /\ r[q].pc = "check" /\ Checkable(q) /\ TooMuch(r[q].todo)
    /\ Quiet(q, IdleRequest)
    /\ UNCHANGED <<tree, page, scan, store, bounds, history>>

\* MkdirAll of the target directory follows.
Accept(q) ==
    /\ r[q].pc = "check" /\ ~(Checkable(q) /\ TooMuch(r[q].todo))
    /\ Quiet(q, [r[q] EXCEPT !.pc = "delete", !.checked = Checkable(q), !.calm = TRUE,
                             !.room = free, !.sizes = home])
    /\ targets' = targets \cup {r[q].mode}
    /\ UNCHANGED <<tree, page, scan, backups, manifest, free, bounds, history>>

\* A rename to another volume fails and becomes a copy.
Copied(q, p) == p \in CrossVolume /\ r[q].mode # "permanent"

\* Wrong: a copy is not in need of space.
AlwaysFits(p) == TRUE

Fits(p) == Blocks(home[p]) <= free

Asked(q, p) == [r[q] EXCEPT !.todo = @ \ {p}, !.asked = Append(@, p)]

\* The file is gone, and with a backup of it when that is the mode.
Gets(q, p, l) ==
    /\ r[q].pc = "delete" /\ p \in r[q].todo /\ home[p] # Gone
    /\ home' = [home EXCEPT ![p] = Gone]
    /\ IF r[q].mode = "backup"
       THEN /\ backups' = Append(backups, [from |-> p, content |-> home[p]])
            /\ Step(q, [l EXCEPT !.moved = Append(@, Len(backups) + 1)])
       ELSE UNCHANGED backups /\ Step(q, l)
    /\ UNCHANGED <<dirs, c, page, scan, manifest, targets, scans, calls, applied, mixed>>

DeleteFile(q, p) ==
    /\ Gets(q, p, Asked(q, p))
    /\ Copied(q, p) => Fits(p)
    /\ free' = IF Copied(q, p) THEN free - Blocks(home[p]) ELSE free
    /\ UNCHANGED <<trouble, touched>>

\* On one volume the rename failed and became a copy, of a later time than the file;
\* removing the file gives its blocks back.
DeleteByCopy(q, p) ==
    /\ Gets(q, p, [Asked(q, p) EXCEPT !.calm = FALSE])
    /\ ~Copied(q, p) /\ r[q].mode # "permanent" /\ Fits(p) /\ Trouble
    /\ touched' = touched \cup {home[p]}
    /\ UNCHANGED free

\* The file is not there, the copy finds no space, or another error, that of a rename
\* on one volume and then of the copy included; an incomplete copy takes space.
DeleteFails(q, p) ==
    /\ r[q].pc = "delete" /\ p \in r[q].todo
    /\ \/ home[p] = Gone /\ Step(q, Asked(q, p)) /\ UNCHANGED <<trouble, free>>
       \/ /\ home[p] # Gone /\ Copied(q, p) /\ ~Fits(p)
          /\ Step(q, [Asked(q, p) EXCEPT !.lacked = TRUE])
          /\ free' \in 0..free /\ UNCHANGED trouble
       \/ /\ home[p] # Gone /\ Trouble
          /\ Step(q, [Asked(q, p) EXCEPT !.calm = FALSE])
          /\ free' \in {n \in 0..free : /\ free - n <= Blocks(home[p])
                                       /\ r[q].mode = "permanent" => n = free}
    /\ UNCHANGED <<tree, page, scan, backups, manifest, targets, scans, calls, history>>

\* MoveToBackupWithManifest pairs the files with the backups by position.
Mappings(q) ==
    [k \in DOMAIN r[q].moved |-> [source |-> r[q].asked[k], backup |-> r[q].moved[k]]]

\* state.opts.Dirs is read without the lock: it may be that of a newer scan.
EndDelete(q) ==
    /\ r[q].pc = "delete" /\ r[q].todo = {}
    /\ manifest' = IF r[q].mode = "backup" THEN Mappings(q) ELSE manifest
    /\ IF r[q].clean
       THEN /\ c' = [c EXCEPT ![q] = CleanStart({r[q].asked[k] : k \in DOMAIN r[q].asked}, opts)]
            /\ Step(q, [IdleRequest EXCEPT !.pc = "clean", !.asked = r[q].asked, !.calm = TRUE])
       ELSE UNCHANGED c /\ Step(q, IdleRequest)
    /\ UNCHANGED <<home, dirs, page, scan, backups, targets, free, bounds, history>>

Cleaning(q) ==
    /\ r[q].pc = "clean" /\ CleanStep(q)
    /\ IF dirs' = dirs THEN UNCHANGED r ELSE Step(q, r[q])
    /\ UNCHANGED <<page, scan, store, bounds, history>>

CleaningFails(q) ==
    /\ r[q].pc = "clean" /\ CleanError(q) /\ Trouble
    /\ UNCHANGED <<page, scan, r, store, scans, calls, history>>

EndCleaning(q) ==
    /\ r[q].pc = "clean" /\ Cleaned(q)
    /\ c' = [c EXCEPT ![q] = IdleLoop]
    /\ Quiet(q, IdleRequest)
    /\ UNCHANGED <<home, dirs, page, scan, store, bounds, history>>

-----------------------------------------------------------------------------
\* /api/delete/restore

Restore(q) ==
    /\ r[q].pc = "idle" /\ manifest # Absent
    /\ calls < MaxCalls /\ calls' = calls + 1
    /\ Quiet(q, [IdleRequest EXCEPT !.pc = "next", !.plan = manifest, !.calm = TRUE])
    /\ UNCHANGED <<tree, page, scan, store, scans, trouble, history>>

Rest(q) == [r[q] EXCEPT !.pc = "next", !.plan = Tail(@)]

\* The path is in use.
SkipMapping(q) ==
    /\ r[q].pc = "next" /\ r[q].plan # <<>>
    /\ home[Head(r[q].plan).source] # Gone
    /\ Quiet(q, Rest(q))
    /\ UNCHANGED <<tree, page, scan, store, bounds, history>>

\* Wrong: the directory of the file is taken to be there.
NoParents(p) == {}

\* os.MkdirAll
Parents(p) == Above[p]

\* Nothing is at the path, or os.Stat failed for another reason: err == nil is asked
\* for.
MakeParents(q) ==
    /\ r[q].pc = "next" /\ r[q].plan # <<>>
    /\ IF home[Head(r[q].plan).source] = Gone THEN UNCHANGED trouble ELSE Trouble
    /\ dirs' = dirs \cup Parents(Head(r[q].plan).source)
    /\ Step(q, [r[q] EXCEPT !.pc = "move"])
    /\ UNCHANGED <<home, c, page, scan, store, scans, calls, history>>

\* A file that was copied back has a new time, and one that comes back at another
\* path a new name: it is not the file a scan knew.  What was at the path is replaced.
\* On one volume a copy is made only when the rename failed.
MoveBack(q) ==
    LET m == Head(r[q].plan)
        b == backups[m.backup]
        across == m.source \in CrossVolume
    IN /\ r[q].pc = "move"
       /\ Up[m.source] \in dirs /\ b.content # Gone
       /\ home' = [home EXCEPT ![m.source] = b.content]
       /\ backups' = [backups EXCEPT ![m.backup].content = Gone]
       /\ free' = IF across THEN free + Blocks(b.content) ELSE free
       /\ \/ /\ b.from = m.source /\ ~across /\ UNCHANGED trouble
             /\ touched' = touched \cup {home[m.source]}
          \/ /\ IF b.from # m.source \/ across THEN UNCHANGED trouble ELSE Trouble
             /\ touched' = touched \cup {home[m.source], b.content}
       /\ Step(q, Rest(q))
       /\ UNCHANGED <<dirs, c, page, scan, manifest, targets, scans, calls, applied, mixed>>

MoveBackFails(q) ==
    LET m == Head(r[q].plan) IN
    /\ r[q].pc = "move"
    /\ IF Up[m.source] \in dirs /\ backups[m.backup].content # Gone
       THEN Trouble /\ Quiet(q, [Rest(q) EXCEPT !.calm = FALSE])
       ELSE UNCHANGED trouble /\ Quiet(q, Rest(q))
    /\ UNCHANGED <<tree, page, scan, store, scans, calls, history>>

EndRestore(q) ==
    /\ r[q].pc = "next" /\ r[q].plan = <<>>
    /\ Quiet(q, IdleRequest)
    /\ UNCHANGED <<tree, page, scan, store, bounds, history>>

-----------------------------------------------------------------------------
\* Other programs create and remove files.

Disturbed == [q \in Requests |-> [r[q] EXCEPT !.calm = FALSE]]

Appear(p, x) ==
    /\ home[p] = Gone /\ Trouble
    /\ home' = [home EXCEPT ![p] = x] /\ dirs' = dirs \cup Above[p]
    /\ touched' = touched \cup {x} /\ r' = Disturbed
    /\ UNCHANGED <<c, page, scan, store, scans, calls, applied, mixed>>

Vanish(p) ==
    /\ home[p] # Gone /\ Trouble
    /\ home' = [home EXCEPT ![p] = Gone]
    /\ touched' = touched \cup {home[p]} /\ r' = Disturbed
    /\ UNCHANGED <<dirs, c, page, scan, store, scans, calls, applied, mixed>>

-----------------------------------------------------------------------------
Init ==
    /\ home = Initial /\ dirs = Dirs
    /\ c = [q \in Requests |-> IdleLoop]
    /\ PageInit
    /\ opts = {} /\ running = FALSE /\ toVisit = {}
    /\ found = [p \in Paths |-> Gone]
    /\ r = [q \in Requests |-> IdleRequest]
    /\ backups = <<>> /\ manifest = Absent
    /\ targets \in SUBSET (Modes \ {"permanent"}) /\ free \in Capacity
    /\ scans = 0 /\ calls = 0 /\ trouble = 0
    /\ applied = {} /\ touched = {} /\ mixed = {}

Task == (\E p \in Paths : Visit(p)) \/ EndScan

Listing(q) == ListDeletes(q) \/ \E x \in Contents : Choose(q, x) \/ Resort(q, x)

Delete(q) ==
    \/ Listing(q) \/ Refuse(q) \/ Accept(q)
    \/ \E p \in Paths : DeleteFile(q, p) \/ DeleteByCopy(q, p) \/ DeleteFails(q, p)
    \/ EndDelete(q) \/ Cleaning(q) \/ CleaningFails(q) \/ EndCleaning(q)

Restoring(q) ==
    SkipMapping(q) \/ MakeParents(q) \/ MoveBack(q) \/ MoveBackFails(q) \/ EndRestore(q)

Request(q) == Delete(q) \/ Restoring(q)

Next ==
    \/ (\E D \in Scans : StartScan(D)) \/ StopScan \/ Task \/ Rule
    \/ \E q \in Requests :
          \/ \E mode \in Modes, clean \in BOOLEAN : Confirm(q, mode, clean)
          \/ Restore(q) \/ Request(q)
    \/ \E p \in Paths : Vanish(p) \/ \E x \in Contents : Appear(p, x)

Spec == Init /\ [][Next]_vars

-----------------------------------------------------------------------------
\* Properties

RequestType ==
    [pc : {"idle", "apply", "list", "check", "delete", "clean", "next", "move"},
     mode : {"backup", "trash", "permanent"}, clean : BOOLEAN, rs : RuleSets,
     scan : Nat, view : [Contents -> SUBSET Paths], at : Contents \cup {Gone},
     kept : SUBSET Paths, todo : SUBSET Paths,
     asked : Seq(Paths), moved : Seq(Nat), plan : Seq(Mapping),
     checked : BOOLEAN, lacked : BOOLEAN, calm : BOOLEAN,
     room : Nat, sizes : [Paths -> Contents \cup {Gone}]]

\* Every variable has its type; what was moved is never longer than what was asked
\* for, and manifests name backups that were made.
TypeOK ==
    /\ CleanTypeOK /\ PageTypeOK
    /\ opts \subseteq Dirs /\ running \in BOOLEAN /\ toVisit \subseteq Paths
    /\ found \in [Paths -> Contents \cup {Gone}]
    /\ r \in [Requests -> RequestType]
    /\ \A q \in Requests :
          /\ Len(r[q].moved) <= Len(r[q].asked)
          /\ \A k \in DOMAIN r[q].moved : r[q].moved[k] \in DOMAIN backups
          /\ \A k \in DOMAIN r[q].plan : r[q].plan[k].backup \in DOMAIN backups
          /\ r[q].pc = "move" => r[q].plan # <<>>
          /\ r[q].pc = "check" => r[q].mode # "permanent"
          /\ r[q].pc = "list" => r[q].at # Gone
    /\ backups \in Seq(BackupFile) /\ manifest \in Seq(Mapping) \cup {Absent}
    /\ manifest # Absent => \A k \in DOMAIN manifest : manifest[k].backup \in DOMAIN backups
    /\ targets \subseteq {"backup", "trash"} /\ free \in Nat
    /\ scans \in Nat /\ calls \in Nat /\ trouble \in Nat
    /\ applied \subseteq RuleSets /\ touched \subseteq Contents \cup {Gone}
    /\ mixed \subseteq Contents

\* As long as deletes apply one rule set, however many requests, polls, scans and
\* restores overlap and however old the results are they work from, one copy of each
\* content stays in place: the one the rules keep among all its copies.  Not so for a
\* content whose list was sorted between the two reads of rules.Apply.
LastCopyKept ==
    \A rs \in RuleSets, x \in Contents \ (touched \cup mixed) :
        LET copies == {p \in Paths : Initial[p] = x} IN
        applied \subseteq {rs} /\ copies # {} => home[Keep[rs][copies]] = x

\* A delete that passed the space check, undisturbed and without errors, runs out of
\* space only where the blocks of its copies were too many, and these are more than
\* the free ones by less than one for each copy: by what rounding adds to the bytes.
SpaceSuffices ==
    \A q \in Requests :
        LET copies == (r[q].todo \cup {r[q].asked[k] : k \in DOMAIN r[q].asked})
                      \cap CrossVolume
            blocks == MapThenSumSet(LAMBDA p : Blocks(r[q].sizes[p]), copies)
        IN r[q].pc = "delete" /\ r[q].checked /\ r[q].calm /\ r[q].lacked =>
              r[q].room < blocks /\ blocks < r[q].room + Cardinality(copies)

\* README.md, "Clean Empty Dirs": when the cleanup has ended, undisturbed and without
\* errors, no directory above a deleted file and within the directories of the scan
\* is empty, in whatever order the files were listed.
CleanComplete ==
    \A q \in Requests :
        r[q].pc = "clean" /\ Cleaned(q) /\ r[q].calm /\ c[q].failed = {} =>
            \A k \in DOMAIN r[q].asked :
                \A d \in Above[r[q].asked[k]] \cap dirs :
                    d \in c[q].bounds \/ Above[d] \cap c[q].bounds # {} => Entries(d) # {}

\* README.md, "directories outside are not removed": a directory disappears only to
\* a request whose bounds it lies in and that was to delete a file below it.
CleanWithinBounds ==
    [][\A d \in dirs \ dirs' : \E q \in Requests :
          /\ d \in c[q].bounds \/ Above[d] \cap c[q].bounds # {}
          /\ \E k \in DOMAIN r[q].asked : d \in Above[r[q].asked[k]]]_vars

\* README.md, "Restore Last": an undisturbed restore without errors brings back every
\* file whose backup is there and whose path is free, also where the cleanup has
\* removed the directories.
RestoreComplete ==
    \A q \in Requests :
        r[q].pc = "next" /\ r[q].plan = <<>> /\ r[q].calm /\ manifest # Absent =>
            \A k \in DOMAIN manifest :
                \/ home[manifest[k].source] # Gone
                \/ backups[manifest[k].backup].content = Gone
=============================================================================
