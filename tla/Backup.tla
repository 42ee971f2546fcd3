------------------------------- MODULE Backup -------------------------------
(***************************************************************************)
(* internal/backup as the delete and restore handlers call it: files go to *)
(* the backup directory (with the manifest restore_last.json), to the      *)
(* trash (Linux, with a .trashinfo each) or away for good, and come back   *)
(* from the manifest.  A move is a rename or, where that fails, a copy     *)
(* followed by a remove.                                                   *)
(*                                                                         *)
(* Handlers run without a common lock, any call to the file system may     *)
(* fail, the server may be killed between any two of them, and other       *)
(* programs create and remove files.                                       *)
(*                                                                         *)
(* The disk is a directory, from paths to nodes, and the data of the nodes: *)
(* a file that is being copied into can be renamed or removed under the    *)
(* copy.  A backup name is <<area, base name, time>>; the nanoseconds of   *)
(* time.Now() are taken never to repeat.                                   *)
(***************************************************************************)
EXTENDS Naturals, Sequences, FiniteSets

CONSTANTS
    Source,         \* the paths of the files a scan found, each its own content
    Base,           \* Base[s]: the base name of s
    CrossVolume,    \* the files on another volume than backup directory and trash
    Modes,          \* the values of deleteMode in use
    Batches,        \* the lists of files the rules decide to delete
    Handlers,       \* the HTTP requests that may be served at the same time
    Torn,           \* what a file holds that is not copied completely
    Foreign,        \* what other programs write
    Gone,           \* no content: there is no such file
    NoPath, NoNode, Absent,
    MaxCalls, MaxFaults, MaxKills, MaxEdits,  \* bounds of the model
    EditDuringCalls \* other programs are active while a handler runs, too

Bases == {Base[s] : s \in Source}
Stored == {"backup", "trash"} \X Bases \X Nat
Path == Source \cup Stored
Content == Source \cup {Torn, Foreign}
Node == Source \cup Nat
Mapping == [source : Source, backup : Stored]
Calls == Modes \cup {"restore"}

ASSUME BackupAssumption ==
    /\ IsFiniteSet(Source) /\ Source \cap Nat = {} /\ Source \cap Stored = {}
    /\ Torn \notin Source /\ Foreign \notin Source /\ Torn # Foreign
    /\ Gone \notin Content
    /\ CrossVolume \subseteq Source
    /\ Modes \subseteq {"backup", "trash", "permanent"}
    /\ Batches \subseteq Seq(Source)
    /\ \A b \in Batches : \A j, k \in DOMAIN b : b[j] = b[k] => j = k
    /\ NoPath \notin Path /\ NoNode \notin Node
    /\ Absent \notin Seq(Mapping) /\ Torn \notin Seq(Mapping)
    /\ MaxCalls \in Nat /\ MaxFaults \in Nat /\ MaxKills \in Nat
    /\ MaxEdits \in Nat /\ EditDuringCalls \in BOOLEAN

VARIABLES
    dir, data,      \* the disk
    manifest,       \* restore_last.json
    trashinfo,      \* the trashed files that have a .trashinfo
    clock,          \* time.Now().UnixNano()
    h,              \* the local variables of each handler
    calls, faults, kills, edits,
    givenUp,        \* history: contents deleted for good on purpose
    overlooked,     \* history: contents a restore did not see, for os.Stat failed
    batch, clean    \* history: what the last delete to backup moved, and
                    \* whether it moved everything it was asked to

disk    == <<dir, data>>
bounds  == <<calls, faults, kills, edits>>
history == <<givenUp, overlooked, batch, clean>>
vars == <<disk, manifest, trashinfo, clock, h, bounds, history>>

-----------------------------------------------------------------------------
\* The file system.

Exists(p) == p \in DOMAIN dir
Read(p)   == IF Exists(p) THEN data[dir[p]] ELSE Gone

Unlinked(p)   == [q \in DOMAIN dir \ {p} |-> dir[q]]
Linked(p, n)  == [q \in DOMAIN dir \cup {p} |-> IF q = p THEN n ELSE dir[q]]
Renamed(p, q) == [r \in (DOMAIN dir \ {p}) \cup {q} |-> IF r = q THEN dir[p] ELSE dir[r]]

NewNode == Cardinality(DOMAIN data)
WithData(n, c) == [m \in DOMAIN data \cup {n} |-> IF m = n THEN c ELSE data[m]]

\* An error of the file system that its state does not explain.
Fault == faults < MaxFaults /\ faults' = faults + 1
NoFault == UNCHANGED faults

Edit ==
    /\ edits < MaxEdits /\ edits' = edits + 1
    /\ EditDuringCalls \/ \A p \in Handlers : h[p].pc = "idle"
    /\ UNCHANGED <<manifest, trashinfo, clock, h, calls, faults, kills>>

\* Other programs create and remove files.
Appear(s) ==
    /\ ~Exists(s) /\ Edit
    /\ data' = WithData(NewNode, Foreign) /\ dir' = Linked(s, NewNode)
    /\ UNCHANGED history

Vanish(s) ==
    /\ Exists(s) /\ Edit
    /\ dir' = Unlinked(s) /\ UNCHANGED data
    /\ givenUp' = givenUp \cup {Read(s)}
    /\ batch' = {x \in batch : x[1] # s} /\ UNCHANGED <<overlooked, clean>>

-----------------------------------------------------------------------------
\* The handlers.

IdleHandler ==
    [pc |-> "idle", call |-> "restore", files |-> <<>>, mappings |-> <<>>, i |-> 1,
     moved |-> <<>>, failed |-> {}, had |-> <<>>,
     from |-> NoPath, to |-> NoPath, in |-> NoNode, out |-> NoNode]

\* The file the loop is at, as the reply names it.
Item(p) == IF h[p].call = "restore" THEN h[p].mappings[h[p].i].source
           ELSE h[p].files[h[p].i]

Goto(p, label) == h' = [h EXCEPT ![p].pc = label]

\* "failed[...] = err; continue"
Fail(p) == h' = [h EXCEPT ![p].pc = "next", ![p].i = @ + 1, ![p].failed = @ \cup {Item(p)},
                          ![p].in = NoNode, ![p].out = NoNode]

\* The last statements of the loop body.
Succeed(p) ==
    h' = [h EXCEPT ![p].pc = IF h[p].call = "trash" THEN "trashinfo" ELSE "next",
                   ![p].i = IF h[p].call = "trash" THEN @ ELSE @ + 1,
                   ![p].moved = Append(@, IF h[p].call = "permanent" THEN h[p].from
                                          ELSE h[p].to),
                   ![p].in = NoNode, ![p].out = NoNode]

\* /api/delete/confirm, after the rules: the list may be older than the disk.
Confirm(p, mode, files) ==
    /\ h[p].pc = "idle" /\ calls < MaxCalls /\ calls' = calls + 1
    /\ h' = [h EXCEPT ![p] = [IdleHandler EXCEPT !.pc = "next", !.call = mode,
                                                 !.files = files]]
    /\ batch' = {} /\ clean' = FALSE
    /\ UNCHANGED <<disk, manifest, trashinfo, clock, faults, kills, edits, givenUp,
                   overlooked>>

\* /api/delete/restore: RestoreLast gives up on a manifest it cannot read.
Restore(p) ==
    /\ h[p].pc = "idle" /\ calls < MaxCalls /\ calls' = calls + 1
    /\ manifest \notin {Absent, Torn}
    /\ h' = [h EXCEPT ![p] = [IdleHandler EXCEPT !.pc = "next", !.call = "restore",
                                                 !.mappings = manifest]]
    /\ UNCHANGED <<disk, manifest, trashinfo, clock, faults, kills, edits, history>>

\* Wrong: the name of a file in backup or trash does not tell when.
UniqueByName(area, s) == <<area, Base[s], 0>>

\* The name of a file in backup or trash.
Unique(area, s) == <<area, Base[s], clock>>

\* The next file to delete, and the name it gets.
NextFile(p) ==
    /\ h[p].pc = "next" /\ h[p].call # "restore" /\ h[p].i <= Len(h[p].files)
    /\ LET src == h[p].files[h[p].i]
           area == IF h[p].call = "trash" THEN "trash" ELSE "backup"
       IN h' = [h EXCEPT ![p].from = src,
                         ![p].had = Append(@, Read(src)),
                         ![p].to = Unique(area, src),
                         ![p].pc = IF h[p].call = "permanent" THEN "remove" ELSE "rename"]
    /\ clock' = IF h[p].call = "permanent" THEN clock ELSE clock + 1
    /\ UNCHANGED <<disk, manifest, trashinfo, bounds, history>>

\* The next file to restore, unless its path is in use.  A path is taken for free
\* on every error of os.Stat, not only when there is no such file.
NextMapping(p) ==
    LET m == h[p].mappings[h[p].i]
        fetched == [h EXCEPT ![p].pc = "rename", ![p].from = m.backup, ![p].to = m.source]
    IN  /\ h[p].pc = "next" /\ h[p].call = "restore" /\ h[p].i <= Len(h[p].mappings)
        /\ \/ Exists(m.source) /\ NoFault /\ Fail(p) /\ UNCHANGED overlooked
           \/ /\ Exists(m.source) /\ Fault /\ h' = fetched
              /\ overlooked' = overlooked \cup {Read(m.source)}
           \/ ~Exists(m.source) /\ NoFault /\ h' = fetched /\ UNCHANGED overlooked
        /\ UNCHANGED <<disk, manifest, trashinfo, clock, calls, kills, edits, givenUp, batch,
                       clean>>

RenameOk(p) ==
    /\ h[p].pc = "rename" /\ Exists(h[p].from)
    /\ {h[p].from, h[p].to} \cap CrossVolume = {}
    /\ dir' = Renamed(h[p].from, h[p].to) /\ Succeed(p)
    /\ UNCHANGED <<data, manifest, trashinfo, clock, bounds, history>>

RenameFails(p) ==
    /\ h[p].pc = "rename" /\ Goto(p, "open")
    /\ IF ~Exists(h[p].from) \/ {h[p].from, h[p].to} \cap CrossVolume # {}
       THEN NoFault ELSE Fault
    /\ UNCHANGED <<disk, manifest, trashinfo, clock, calls, kills, edits, history>>

\* copyFile: os.Open, os.Create, io.Copy and Sync.
Open(p) ==
    /\ h[p].pc = "open"
    /\ \/ /\ Exists(h[p].from) /\ NoFault
          /\ h' = [h EXCEPT ![p].pc = "create", ![p].in = dir[h[p].from]]
       \/ Exists(h[p].from) /\ Fault /\ Fail(p)
       \/ ~Exists(h[p].from) /\ NoFault /\ Fail(p)
    /\ UNCHANGED <<disk, manifest, trashinfo, clock, calls, kills, edits, history>>

\* os.Create empties a file that is there already.
Create(p) ==
    LET n == IF Exists(h[p].to) THEN dir[h[p].to] ELSE NewNode IN
    /\ h[p].pc = "create"
    /\ \/ /\ NoFault /\ dir' = Linked(h[p].to, n) /\ data' = WithData(n, Torn)
          /\ h' = [h EXCEPT ![p].pc = "copy", ![p].out = n]
       \/ Fault /\ Fail(p) /\ UNCHANGED disk
    /\ UNCHANGED <<manifest, trashinfo, clock, calls, kills, edits, history>>

\* Wrong: the error of io.Copy is not returned.
CopyUnchecked(p) ==
    /\ h[p].pc = "copy" /\ Goto(p, "remove")
    /\ \/ NoFault /\ data' = WithData(h[p].out, data[h[p].in])
       \/ Fault /\ UNCHANGED data
    /\ UNCHANGED <<dir, manifest, trashinfo, clock, calls, kills, edits, history>>

Copy(p) ==
    /\ h[p].pc = "copy"
    /\ \/ NoFault /\ Goto(p, "remove") /\ data' = WithData(h[p].out, data[h[p].in])
       \/ Fault /\ Fail(p) /\ UNCHANGED data
    /\ UNCHANGED <<dir, manifest, trashinfo, clock, calls, kills, edits, history>>

\* Wrong: the error of os.Remove is not looked at.
RemoveUnchecked(p) ==
    LET src == h[p].from IN
    /\ h[p].pc = "remove" /\ Succeed(p)
    /\ \/ Exists(src) /\ NoFault /\ dir' = Unlinked(src)
       \/ Exists(src) /\ Fault /\ UNCHANGED dir
       \/ ~Exists(src) /\ NoFault /\ UNCHANGED dir
    /\ givenUp' = IF h[p].call = "permanent" /\ Exists(src) /\ ~(src \in DOMAIN dir')
                  THEN givenUp \cup {Read(src)} ELSE givenUp
    /\ UNCHANGED <<data, manifest, trashinfo, clock, calls, kills, edits, overlooked,
                   batch, clean>>

\* os.Remove of what was copied or, in permanent mode, of the file itself.
Remove(p) ==
    LET src == h[p].from IN
    /\ h[p].pc = "remove"
    /\ \/ Exists(src) /\ NoFault /\ dir' = Unlinked(src) /\ Succeed(p)
       \/ Exists(src) /\ Fault /\ Fail(p) /\ UNCHANGED dir
       \/ ~Exists(src) /\ NoFault /\ Fail(p) /\ UNCHANGED dir
    /\ givenUp' = IF h[p].call = "permanent" /\ Exists(src) /\ ~(src \in DOMAIN dir')
                  THEN givenUp \cup {Read(src)} ELSE givenUp
    /\ UNCHANGED <<data, manifest, trashinfo, clock, calls, kills, edits, overlooked,
                   batch, clean>>

\* writeTrashInfo, whose error is ignored.
WriteTrashInfo(p) ==
    /\ h[p].pc = "trashinfo"
    /\ h' = [h EXCEPT ![p].pc = "next", ![p].i = @ + 1]
    /\ \/ NoFault /\ trashinfo' = trashinfo \cup {h[p].to}
       \/ Fault /\ UNCHANGED trashinfo
    /\ UNCHANGED <<disk, manifest, clock, calls, kills, edits, history>>

\* The end of the loop: the reply, or first the manifest.
EndLoop(p) ==
    /\ h[p].pc = "next"
    /\ h[p].i > IF h[p].call = "restore" THEN Len(h[p].mappings) ELSE Len(h[p].files)
    /\ IF h[p].call = "backup" THEN Goto(p, "truncate")
       ELSE h' = [h EXCEPT ![p] = IdleHandler]
    /\ UNCHANGED <<disk, manifest, trashinfo, clock, bounds, history>>

\* os.WriteFile of the manifest: truncate, then write.  Its error is ignored.
TruncateManifest(p) ==
    /\ h[p].pc = "truncate"
    /\ \/ NoFault /\ manifest' = Torn /\ Goto(p, "write")
       \/ Fault /\ UNCHANGED manifest /\ h' = [h EXCEPT ![p] = IdleHandler]
    /\ UNCHANGED <<disk, trashinfo, clock, calls, kills, edits, history>>

\* Wrong: source and backup are swapped.
MappingsSwapped(p) ==
    [k \in DOMAIN h[p].moved |-> [source |-> h[p].moved[k], backup |-> h[p].files[k]]]

\* Wrong: the list is paired from its second file on.
MappingsShifted(p) ==
    [k \in {k \in DOMAIN h[p].moved : k < Len(h[p].files)} |->
        [source |-> h[p].files[k + 1], backup |-> h[p].moved[k]]]

\* MoveToBackupWithManifest pairs the lists by position; moved is never longer.
Mappings(p) ==
    [k \in DOMAIN h[p].moved |-> [source |-> h[p].files[k], backup |-> h[p].moved[k]]]

\* Two handlers may write into the file at once; it then holds either text or
\* a mixture.
WriteManifest(p) ==
    /\ h[p].pc = "write" /\ h' = [h EXCEPT ![p] = IdleHandler]
    /\ \/ NoFault /\ manifest' \in {Mappings(p)} \cup IF manifest = Torn THEN {} ELSE {Torn}
       \/ Fault /\ manifest' = Torn
    /\ batch' = {<<h[p].files[k], h[p].had[k]>> :
                     k \in {k \in DOMAIN h[p].files : h[p].files[k] \notin h[p].failed}}
    /\ clean' = (h[p].failed = {} /\ manifest' # Torn)
    /\ UNCHANGED <<disk, trashinfo, clock, calls, kills, edits, givenUp, overlooked>>

\* The server is killed and started again: the handlers are gone.
Kill ==
    /\ kills < MaxKills /\ kills' = kills + 1
    /\ h' = [p \in Handlers |-> IdleHandler]
    /\ UNCHANGED <<disk, manifest, trashinfo, clock, calls, faults, edits, history>>

-----------------------------------------------------------------------------
Init ==
    /\ dir = [s \in Source |-> s] /\ data = [s \in Source |-> s]
    /\ manifest = Absent /\ trashinfo = {} /\ clock = 0
    /\ h = [p \in Handlers |-> IdleHandler]
    /\ calls = 0 /\ faults = 0 /\ kills = 0 /\ edits = 0
    /\ givenUp = {} /\ overlooked = {} /\ batch = {} /\ clean = FALSE

Handler(p) ==
    \/ \E mode \in Modes, b \in Batches : Confirm(p, mode, b)
    \/ Restore(p)
    \/ NextFile(p) \/ NextMapping(p)
    \/ RenameOk(p) \/ RenameFails(p) \/ Open(p) \/ Create(p) \/ Copy(p) \/ Remove(p)
    \/ WriteTrashInfo(p) \/ EndLoop(p) \/ TruncateManifest(p) \/ WriteManifest(p)

Next == (\E p \in Handlers : Handler(p)) \/ (\E s \in Source : Appear(s) \/ Vanish(s)) \/ Kill

Spec == Init /\ [][Next]_vars

-----------------------------------------------------------------------------
\* Properties

HandlerType ==
    [pc : {"idle", "next", "rename", "open", "create", "copy", "remove", "trashinfo",
           "truncate", "write"},
     call : Calls, files : Seq(Source), mappings : Seq(Mapping), i : Nat \ {0},
     moved : Seq(Path), failed : SUBSET Source, had : Seq(Content \cup {Gone}),
     from : Path \cup {NoPath}, to : Path \cup {NoPath},
     in : Node \cup {NoNode}, out : Node \cup {NoNode}]

TypeOK ==
    /\ DOMAIN dir \subseteq Path /\ \A p \in DOMAIN dir : dir[p] \in DOMAIN data
    /\ DOMAIN data \subseteq Node /\ \A n \in DOMAIN data : data[n] \in Content
    /\ manifest \in Seq(Mapping) \cup {Absent, Torn}
    /\ trashinfo \subseteq Stored /\ clock \in Nat
    /\ h \in [Handlers -> HandlerType]
    /\ calls \in Nat /\ faults \in Nat /\ kills \in Nat /\ edits \in Nat
    /\ givenUp \subseteq Content /\ overlooked \subseteq Content
    /\ \A x \in batch : x \in Source \X (Content \cup {Gone})
    /\ clean \in BOOLEAN

\* backup.go, MoveToBackup: "no permanent deletion".  Whatever fails and
\* whenever the server is killed, the content of every file is complete
\* somewhere on the disk, unless it was deleted for good on purpose or lay at a path
\* that a restore took for free because os.Stat failed on it.
NothingLost == \A s \in Source \ (givenUp \cup overlooked) : \E p \in DOMAIN dir : Read(p) = s

\* The same, asked only when no request is being served.
NothingLostAtRest == (\A p \in Handlers : h[p].pc = "idle") => NothingLost

\* The manifest leads to every file of the last delete: it is back at its path
\* or lies, complete, at the backup the manifest names for it.
Accounted ==
    \A x \in batch :
        \E k \in DOMAIN manifest : /\ manifest[k].source = x[1]
                                   /\ x[2] \in {Read(x[1]), Read(manifest[k].backup)}

\* After a delete that moved everything, no restore, be it repeated, failing or
\* killed half way, separates the manifest from the files.
Recoverable == clean => Accounted

\* README.md, "Restore Last Delete": the manifest records the mapping of the
\* last delete, also of one that could not move every file.
ManifestTruthful == manifest \notin {Absent, Torn} => Accounted

\* The reply tells the truth, file by file: what failed is where it was, and
\* what was moved left its path and is complete where it went.
ReplyTruthful ==
    \A p \in Handlers : h[p].pc # "idle" /\ h[p].call # "restore" =>
        \A k \in 1..h[p].i - 1 :
            LET s == h[p].files[k] IN
            IF s \in h[p].failed THEN Read(s) = h[p].had[k]
            ELSE /\ ~Exists(s)
                 /\ h[p].call = "permanent"
                    \/ \E j \in DOMAIN h[p].moved : Read(h[p].moved[j]) = h[p].had[k]

\* README.md, "Skips if target already exists to avoid overwriting": no step of a
\* restore replaces a file that is there, or changes what it holds, unless this very
\* restore created it.
RestoreOverwritesNothing ==
    [][\A p \in Handlers, s \in Source :
          h[p].call = "restore" /\ h'[p] # h[p] /\ Exists(s) =>
              /\ s \in DOMAIN dir' /\ dir'[s] = dir[s]
              /\ dir[s] = h[p].out \/ data'[dir[s]] = data[dir[s]]]_vars

\* What the names of the disk hold.
Holds == [p \in DOMAIN dir |-> Read(p)]

\* The disk keeps the promises of Vault: no delete and no restore takes a copy that is
\* the last, or a name that is in use, but for a name that holds what a restore
\* overlooked, whatever fails and when the server is killed.
V == INSTANCE Vault WITH Home <- Source, Name <- Path, holds <- Holds
ImplementsVault == V!Spec
=============================================================================
