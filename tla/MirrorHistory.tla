---------------------------- MODULE MirrorHistory ----------------------------
(***************************************************************************)
(* The mirror_history backup strategy of src/src/Backup/MirrorHistory.cpp: *)
(* one target whose current\data mirrors a source directory, whose older   *)
(* contents are moved to objects\by-path\<file>\<sha256>, and whose        *)
(* restore points are manifests that name contents by hash.  A run of      *)
(* updateMirrorHistory is a sequence of file-system steps; a crash between *)
(* any two of them loses the run's memory (HistoryState) and nothing else. *)
(*                                                                         *)
(* A content stands for its SHA-256: contents are numbered per file in the *)
(* order in which the source first had them.  A file whose copy was cut    *)
(* short has the content Torn, and None is no file.                        *)
(***************************************************************************)
EXTENDS Naturals, Sequences, FiniteSets

CONSTANTS Paths,       \* relative paths of the target
          Volatile,    \* bound: the paths whose source changes
          MaxVersion,  \* bound on the contents a source file goes through
          Tiers,       \* target.history_tiers
          MaxPoints,   \* tier -> max_points
          Period,      \* tier -> period_sec, in ticks of the clock
          MaxTime,     \* bound on the clock
          AutoMode,    \* BackupMode::Auto: a fingerprint may be unreliable
          Budgets,     \* the faults an execution may meet, see Budget
          None, Torn, Unreadable

Contents == 1..MaxVersion
Stored == Contents \cup {Torn}
OrNone(S) == S \cup {None}

\* How often an execution may crash (or lose its last manifest write, or tear
\* the put-back copy), see a source file return to an earlier content, fail a
\* single file operation, and find a point manifest locked by someone else; and
\* how many restores may be begun beside it.
Budget == [crash : Nat, revert : Nat, io : Nat, locked : Nat, restore : Nat]

ASSUME MirrorAssumption ==
    /\ Volatile \subseteq Paths
    /\ MaxVersion \in Nat \ {0}
    /\ MaxTime \in Nat
    /\ MaxPoints \in [Tiers -> Nat \ {0}]
    /\ Period \in [Tiers -> Nat \ {0}]
    /\ AutoMode \in BOOLEAN
    /\ Budgets \subseteq Budget
    /\ {None, Torn, Unreadable} \cap Contents = {}
    /\ None # Torn /\ None # Unreadable /\ Torn # Unreadable
    /\ Unreadable \notin [Paths -> OrNone(Contents)]

VARIABLES
    source,     \* the source directory: path -> content or None
    versions,   \* path -> how many contents the source file has had
    now,        \* system clock
    budget,     \* what is left of the faults
    crashed,    \* history: a run was lost before its manifest
    data,       \* current\data: path -> stored content or None
    manifest,   \* current\manifest.json
    objects,    \* objects\by-path: pairs <<path, content>>
    points,     \* tier -> restore point directories in the order of names
    pc,         \* where updateMirrorHistory is
    files,      \* HistoryState::files, path -> sha256 or None
    entries,    \* source_entries: the paths collected at the start
    todo,       \* source entries the file loop has not reached
    failed,     \* state.errors is not empty
    changed,    \* metadata_changed
    file,       \* the file being captured
    staged,     \* its capture in .staging
    old,        \* the content archiveCurrentFile moved away
    tiers,      \* tiers the loops over history_tiers have not reached
    tier,       \* the tier whose point directory is being filled
    seen        \* history: contents of the source since the run began

srcVars == <<source, versions, now, budget, crashed, seen>>
diskVars == <<data, manifest, objects, points>>
loopVars == <<file, staged, old>>
stateVars == <<files, entries, todo, failed, changed, tiers, tier>>
vars == <<srcVars, diskVars, pc, loopVars, stateVars>>

NoFiles == [f \in Paths |-> None]
NoManifest == [exists |-> FALSE, complete |-> FALSE, files |-> NoFiles]
Present(fs) == {f \in DOMAIN fs : fs[f] # None}

Spend(kind) ==
    /\ budget[kind] > 0
    /\ budget' = [budget EXCEPT ![kind] = @ - 1]
    /\ crashed' = (crashed \/ kind = "crash")
Spare == UNCHANGED <<budget, crashed>>

-----------------------------------------------------------------------------
(* The environment: the source's owner and the clock.                      *)

\* A source file is written, removed, or put back to an earlier content; only
\* the last of them spends from the budget.
Touch(f, c) ==
    /\ c # source[f]
    /\ IF c \in Contents /\ c <= versions[f]
         THEN Spend("revert") /\ UNCHANGED versions
         ELSE /\ c = None \/ c = versions[f] + 1
              /\ versions' = IF c = None THEN versions ELSE [versions EXCEPT ![f] = c]
              /\ Spare
    /\ source' = [source EXCEPT ![f] = c]
    /\ seen' = IF pc = "idle" THEN seen ELSE [seen EXCEPT ![f] = @ \cup {c}]
    /\ UNCHANGED <<now, diskVars, pc, loopVars, stateVars>>

\* Point names sort by local time: the clock is assumed not to be set back.
Tick ==
    /\ now < MaxTime /\ now' = now + 1
    /\ UNCHANGED <<source, versions, budget, crashed, seen, diskVars, pc, loopVars, stateVars>>

-----------------------------------------------------------------------------
(* One run of updateMirrorHistory.                                         *)

Forget ==
    /\ pc' = "idle"
    /\ files' = NoFiles /\ entries' = {} /\ todo' = {} /\ tiers' = {} /\ tier' = None
    /\ failed' = FALSE /\ changed' = FALSE
    /\ file' = None /\ staged' = None /\ old' = None
    /\ seen' = [f \in Paths |-> {}]

\* Mutant: an incomplete run is forgotten by the next one.
StartRun_Forgets ==
    /\ pc = "idle"
    /\ pc' = "files"
    /\ files' = manifest.files
    /\ entries' = Present(source) /\ todo' = Present(source)
    /\ failed' = FALSE
    /\ changed' = ~ manifest.exists
    /\ seen' = [f \in Paths |-> {source[f]}]
    /\ UNCHANGED <<source, versions, now, budget, crashed, diskVars, loopVars, tiers, tier>>

\* readState, then collectSourceEntries; BackupEngine starts one run at a time.
StartRun ==
    /\ pc = "idle"
    /\ pc' = "files"
    /\ files' = manifest.files
    /\ entries' = Present(source) /\ todo' = Present(source)
    /\ failed' = FALSE
    /\ changed' = ~ (manifest.exists /\ manifest.complete)
    /\ seen' = [f \in Paths |-> {source[f]}]
    /\ UNCHANGED <<source, versions, now, budget, crashed, diskVars, loopVars, tiers, tier>>

NextFile ==
    /\ pc' = "files"
    /\ file' = None /\ staged' = None /\ old' = None
    /\ todo' = todo \ {file}
    /\ UNCHANGED <<files, entries, tiers, tier>>

\* Mutant: the error is not recorded.
InspectFails_Silent(f) ==
    /\ pc = "files" /\ f \in todo
    /\ IF source[f] = None THEN Spare ELSE Spend("io")
    /\ todo' = todo \ {f}
    /\ UNCHANGED <<source, versions, now, seen, diskVars, pc, loopVars,
                   files, entries, failed, changed, tiers, tier>>

\* The source file cannot be inspected: it has gone, or an I/O error.
InspectFails(f) ==
    /\ pc = "files" /\ f \in todo
    /\ IF source[f] = None THEN Spare ELSE Spend("io")
    /\ failed' = TRUE
    /\ todo' = todo \ {f}
    /\ UNCHANGED <<source, versions, now, seen, diskVars, pc, loopVars,
                   files, entries, changed, tiers, tier>>

\* A current copy is there and the fingerprint says the source has the
\* content of the manifest: the file is passed over.
FingerprintEqual(f) == files[f] = source[f] /\ data[f] # None

Skip(f) ==
    /\ pc = "files" /\ f \in todo /\ source[f] # None
    /\ FingerprintEqual(f)
    /\ todo' = todo \ {f}
    /\ UNCHANGED <<srcVars, diskVars, pc, loopVars, files, entries, failed,
                   changed, tiers, tier>>

\* Anything else is captured; so is an equal file whose fingerprint is not
\* reliable (a database in auto mode).
Inspect(f) ==
    /\ pc = "files" /\ f \in todo /\ source[f] # None
    /\ FingerprintEqual(f) => AutoMode
    /\ pc' = "capture" /\ file' = f
    /\ UNCHANGED <<srcVars, diskVars, staged, old, stateVars>>

CaptureFails ==
    /\ pc = "capture"
    /\ IF source[file] = None THEN Spare ELSE Spend("io")
    /\ failed' = TRUE
    /\ NextFile
    /\ UNCHANGED <<source, versions, now, seen, diskVars, changed>>

\* materialize copies the source to .staging and accepts the copy only when
\* its hash is that of the source before and after it.  Where the manifest
\* has that hash and the current copy the right size (a torn copy may have
\* it: the size is reserved before the bytes are written) only the
\* fingerprint is refreshed, else the staged file is to be published.
SameContent(c) == data[file] # None /\ files[file] = c

CaptureSame ==
    /\ pc = "capture" /\ source[file] # None
    /\ SameContent(source[file])
    /\ \E refreshed \in BOOLEAN : changed' = (changed \/ refreshed)
    /\ NextFile
    /\ UNCHANGED <<srcVars, diskVars, failed>>

\* A current copy that is not the manifest's content may have another size.
SizeDiffers == data[file] # files[file]

Capture ==
    /\ pc = "capture" /\ source[file] # None
    /\ SameContent(source[file]) => SizeDiffers
    /\ staged' = source[file]
    /\ pc' = "archive"
    /\ UNCHANGED <<srcVars, diskVars, file, old, stateVars>>

\* archiveCurrentFile: the current copy becomes the object of its hash, or is
\* removed where that object exists already.
Archived(f) == IF data[f] = None THEN objects ELSE objects \cup {<<f, data[f]>>}

Archive ==
    /\ pc = "archive"
    /\ old' = data[file]
    /\ objects' = Archived(file)
    /\ data' = [data EXCEPT ![file] = None]
    /\ pc' = "replace"
    /\ UNCHANGED <<srcVars, manifest, points, file, staged, stateVars>>

ArchiveFails ==
    /\ pc = "archive"
    /\ Spend("io")
    /\ failed' = TRUE
    /\ NextFile
    /\ UNCHANGED <<source, versions, now, seen, diskVars, changed>>

\* replaceFile(staged, current_file), and the new version enters the state.
Replace ==
    /\ pc = "replace"
    /\ data' = [data EXCEPT ![file] = staged]
    /\ files' = [files EXCEPT ![file] = staged]
    /\ changed' = TRUE
    /\ pc' = "files" /\ todo' = todo \ {file}
    /\ file' = None /\ staged' = None /\ old' = None
    /\ UNCHANGED <<srcVars, manifest, objects, points, entries, failed, tiers, tier>>

ReplaceFails ==
    /\ pc = "replace"
    /\ Spend("io")
    /\ pc' = "putback"
    /\ UNCHANGED <<source, versions, now, seen, diskVars, loopVars, stateVars>>

\* The previous version is copied back from its object; the copy is not
\* checked and may fail.
PutBack ==
    /\ pc = "putback"
    /\ \/ data' = [data EXCEPT ![file] = old] /\ Spare
       \/ old # None /\ UNCHANGED data /\ Spare
       \/ old # None /\ Spend("crash") /\ data' = [data EXCEPT ![file] = Torn]
    /\ failed' = TRUE
    /\ NextFile
    /\ UNCHANGED <<source, versions, now, seen, manifest, objects, points, changed>>

\* The loop over state.files: what the source no longer lists is archived.
Gone == {f \in Present(files) : f \notin entries}

\* Mutant: a deleted file is removed from the mirror, not archived.
Delete_NoArchive(f) ==
    /\ pc = "files" /\ todo = {} /\ f \in Gone
    /\ data' = [data EXCEPT ![f] = None]
    /\ files' = [files EXCEPT ![f] = None]
    /\ changed' = TRUE
    /\ UNCHANGED <<srcVars, manifest, objects, points, pc, loopVars, entries, todo,
                   failed, tiers, tier>>

Delete(f) ==
    /\ pc = "files" /\ todo = {} /\ f \in Gone
    /\ objects' = Archived(f)
    /\ data' = [data EXCEPT ![f] = None]
    /\ files' = [files EXCEPT ![f] = None]
    /\ changed' = TRUE
    /\ UNCHANGED <<srcVars, manifest, points, pc, loopVars, entries, todo, failed, tiers, tier>>

\* Mutant: the entry is erased although its file could not be archived.
DeleteFails_Erases(f) ==
    /\ pc = "files" /\ todo = {} /\ f \in Gone
    /\ Spend("io")
    /\ failed' = TRUE
    /\ files' = [files EXCEPT ![f] = None]
    /\ UNCHANGED <<source, versions, now, seen, diskVars, pc, loopVars, entries, todo,
                   changed, tiers, tier>>

\* The file stays in the state; the loop goes on with the next one.
DeleteFails(f) ==
    /\ pc = "files" /\ todo = {} /\ f \in Gone
    /\ Spend("io")
    /\ failed' = TRUE
    /\ entries' = entries \cup {f}
    /\ UNCHANGED <<source, versions, now, seen, diskVars, pc, loopVars, files, todo,
                   changed, tiers, tier>>

\* The source is listed again and must have the entries of the first listing; a
\* listing that fails is an error of the run as well.
Verify ==
    /\ pc = "files" /\ todo = {} /\ Gone = {}
    /\ \/ failed' = (failed \/ entries # Present(source)) /\ Spare
       \/ failed' = TRUE /\ Spend("io")
    /\ pc' = "write"
    /\ UNCHANGED <<source, versions, now, seen, diskVars, loopVars, files, entries, todo,
                   changed, tiers, tier>>

\* current\manifest.json is replaced atomically where anything changed.
WriteManifest ==
    /\ pc = "write"
    /\ manifest' = IF changed \/ failed
                     THEN [exists |-> TRUE, complete |-> ~ failed, files |-> files]
                     ELSE manifest
    /\ IF failed
         THEN Forget
         ELSE /\ pc' = "points" /\ tiers' = Tiers /\ entries' = {}
              /\ UNCHANGED <<files, todo, failed, changed, tier, loopVars, seen>>
    /\ UNCHANGED <<source, versions, now, budget, crashed, data, objects, points>>

WriteManifestFails ==
    /\ pc = "write" /\ (changed \/ failed)
    /\ Spend("crash")
    /\ Forget
    /\ UNCHANGED <<source, versions, now, diskVars>>

LastPoint(t) == points[t][Len(points[t])]

TierIsDue(t) ==
    points[t] # << >> /\ LastPoint(t).files # Unreadable
        => now - LastPoint(t).time >= Period[t]

NotDue(t) ==
    /\ pc = "points" /\ t \in tiers /\ ~ TierIsDue(t)
    /\ tiers' = tiers \ {t}
    /\ UNCHANGED <<srcVars, diskVars, pc, loopVars, files, entries, todo, failed,
                   changed, tier>>

\* createRestorePoint: the directory first (it is a point from now on), its
\* manifest in a second step.
CreatePoint(t) ==
    /\ pc = "points" /\ t \in tiers /\ TierIsDue(t)
    /\ points' = [points EXCEPT ![t] = Append(@, [time |-> now, files |-> Unreadable])]
    /\ tier' = t /\ pc' = "point"
    /\ UNCHANGED <<srcVars, data, manifest, objects, loopVars, files, entries, todo,
                   failed, changed, tiers>>

WritePoint ==
    /\ pc = "point"
    /\ points' = [points EXCEPT ![tier][Len(points[tier])].files = files]
    /\ tiers' = tiers \ {tier} /\ tier' = None /\ pc' = "points"
    /\ UNCHANGED <<srcVars, data, manifest, objects, loopVars, files, entries, todo,
                   failed, changed>>

\* The directory is removed again (where that works) and the run fails.
WritePointFails ==
    /\ pc = "point"
    /\ Spend("io")
    /\ \E kept \in BOOLEAN :
         points' = IF kept THEN points
                   ELSE [points EXCEPT ![tier] = SubSeq(@, 1, Len(@) - 1)]
    /\ Forget
    /\ UNCHANGED <<source, versions, now, data, manifest, objects>>

AllPoints ==
    /\ pc = "points" /\ tiers = {}
    /\ pc' = "rotate" /\ tiers' = Tiers
    /\ UNCHANGED <<srcVars, diskVars, loopVars, files, entries, todo, failed, changed, tier>>

\* rotateRestorePoints: remove_all takes the manifest, then the directory, of
\* the point with the least name.
Rotate(t) ==
    /\ pc = "rotate" /\ t \in tiers
    /\ Len(points[t]) > MaxPoints[t]
    /\ points' = IF points[t][1].files # Unreadable
                   THEN [points EXCEPT ![t][1].files = Unreadable]
                   ELSE [points EXCEPT ![t] = Tail(@)]
    /\ UNCHANGED <<srcVars, data, manifest, objects, pc, loopVars, stateVars>>

RotateFails(t) ==
    /\ pc = "rotate" /\ t \in tiers
    /\ Len(points[t]) > MaxPoints[t]
    /\ Spend("io")
    /\ tiers' = tiers \ {t}
    /\ UNCHANGED <<source, versions, now, seen, diskVars, pc, loopVars, files, entries,
                   todo, failed, changed, tier>>

Rotated(t) ==
    /\ pc = "rotate" /\ t \in tiers
    /\ Len(points[t]) <= MaxPoints[t]
    /\ tiers' = tiers \ {t}
    /\ UNCHANGED <<srcVars, diskVars, pc, loopVars, files, entries, todo, failed,
                   changed, tier>>

\* The readable restore points, as pairs of tier and position.
PointIds == {p \in UNION {{t} \X DOMAIN points[t] : t \in Tiers} :
               points[p[1]][p[2]].files # Unreadable}
PointFiles(p) == points[p[1]][p[2]].files

\* collectGarbageObjects removes the objects that are current by the manifest
\* or that no point manifest it could open refers to.
IsCurrent(o) == files[o[1]] = o[2]
References(ids) == {o \in Paths \X Contents : \E p \in ids : PointFiles(p)[o[1]] = o[2]}
Garbage(ids) == {o \in objects : IsCurrent(o) \/ o \notin References(ids)}

CollectGarbage ==
    /\ pc = "rotate" /\ tiers = {}
    /\ \E missed \in SUBSET PointIds :
         /\ IF missed = {} THEN Spare ELSE Spend("locked")
         /\ \E removed \in SUBSET Garbage(PointIds \ missed) :
              objects' = objects \ removed
    /\ Forget
    /\ UNCHANGED <<source, versions, now, data, manifest, points>>

\* The process dies at any step of a run.
Crash ==
    /\ pc # "idle"
    /\ Spend("crash")
    /\ Forget
    /\ UNCHANGED <<source, versions, now, diskVars>>

-----------------------------------------------------------------------------
Init ==
    /\ source = [f \in Paths |-> 1]
    /\ versions = [f \in Paths |-> 1]
    /\ now = 0 /\ budget \in Budgets /\ crashed = FALSE
    /\ seen = [f \in Paths |-> {}]
    /\ data = NoFiles /\ manifest = NoManifest /\ objects = {}
    /\ points = [t \in Tiers |-> << >>]
    /\ pc = "idle"
    /\ files = NoFiles /\ entries = {} /\ todo = {} /\ tiers = {} /\ tier = None
    /\ failed = FALSE /\ changed = FALSE
    /\ file = None /\ staged = None /\ old = None

FileStep(f) ==
    \/ InspectFails(f) \/ Skip(f) \/ Inspect(f) \/ Delete(f) \/ DeleteFails(f)

CaptureStep ==
    \/ CaptureFails \/ CaptureSame \/ Capture \/ Archive \/ ArchiveFails
    \/ Replace \/ ReplaceFails \/ PutBack

TierStep(t) ==
    \/ NotDue(t) \/ CreatePoint(t) \/ Rotate(t) \/ RotateFails(t) \/ Rotated(t)

\* A step of a run in progress, as the process takes it.
RunStep ==
    \/ \E f \in Paths : FileStep(f)
    \/ CaptureStep
    \/ Verify \/ WriteManifest \/ WriteManifestFails
    \/ \E t \in Tiers : TierStep(t)
    \/ WritePoint \/ WritePointFails \/ AllPoints \/ CollectGarbage

Next ==
    \/ \E f \in Volatile, c \in OrNone(Contents) : Touch(f, c)
    \/ Tick
    \/ StartRun
    \/ RunStep
    \/ Crash

\* Runs are started by a schedule for as long as the machine is up, and a
\* started run goes on.  Nothing makes the source change, the clock reach a
\* value, or a fault happen.
Spec == Init /\ [][Next]_vars /\ WF_vars(StartRun) /\ WF_vars(RunStep)

-----------------------------------------------------------------------------
Steps == {"idle", "files", "capture", "archive", "replace", "putback", "write",
          "points", "point", "rotate"}
Manifests == [Paths -> OrNone(Contents)]

\* Every variable has a value of its kind.
TypeOK ==
    /\ source \in Manifests /\ versions \in [Paths -> Contents]
    /\ now \in 0..MaxTime /\ budget \in Budget /\ crashed \in BOOLEAN
    /\ seen \in [Paths -> SUBSET OrNone(Contents)]
    /\ data \in [Paths -> OrNone(Stored)]
    /\ manifest \in [exists : BOOLEAN, complete : BOOLEAN, files : Manifests]
    /\ objects \subseteq Paths \X Stored
    /\ points \in [Tiers -> Seq([time : 0..MaxTime, files : Manifests \cup {Unreadable}])]
    /\ pc \in Steps
    /\ files \in Manifests /\ entries \subseteq Paths /\ todo \subseteq Paths
    /\ failed \in BOOLEAN /\ changed \in BOOLEAN
    /\ file \in OrNone(Paths) /\ staged \in OrNone(Contents) /\ old \in OrNone(Stored)
    /\ tiers \subseteq Tiers /\ tier \in OrNone(Tiers)

\* The bytes of a content are somewhere in the target, where resolveManifestFile
\* looks for them.
Available(f, c) == <<f, c>> \in objects \/ data[f] = c

Restorable(fs) == \A f \in Present(fs) : Available(f, fs[f])

\* Every restore point whose manifest is on disk, and the current manifest,
\* can be restored in full at every moment: publishing a new version, deleting
\* a file, rotating points and collecting objects never lose the last copy of
\* a content a manifest names (archiveCurrentFile, publishCurrentFile,
\* collectGarbageObjects).
PointsRestorable ==
    /\ \A p \in PointIds : Restorable(PointFiles(p))
    /\ Restorable(manifest.files)

\* A run whose manifest says complete has made current\data the set of files
\* the manifest names, and the runs before it left nothing else there, as long
\* as no run was lost between publishing a file and writing its manifest.
CompleteMirror ==
    pc \in {"points", "point", "rotate"} /\ ~ crashed => data = manifest.files

Readable(t) == {r \in {points[t][i] : i \in DOMAIN points[t]} : r.files # Unreadable}

\* What a new restore point says of a file the source had while the run that
\* made the point was under way, absence included: a file that could not be
\* captured keeps its old version in the mirror but keeps the point from being
\* made.
PointsWitnessed ==
    [][\A t \in Tiers : \A r \in Readable(t)' \ Readable(t) :
         \A f \in Paths : r.files[f] \in seen[f]]_vars

\* The newest readable point of a tier is only ever replaced by one at least as
\* new: rotation, which counts directories by name and takes empty ones left
\* by a crash for points, never empties a tier and never removes the newest.
NewestPointKept ==
    [][\A t \in Tiers : \A r \in Readable(t) :
         \E n \in Readable(t)' : n.time >= r.time]_vars

\* Once the source is left alone a complete run records it: the errors and
\* crashes of earlier runs are all repaired by repetition.
ManifestCatchesUp == <>[](manifest.complete /\ manifest.files = source)

\* The state is well typed, and a complete manifest describes the mirror.
MirrorInv == TypeOK /\ CompleteMirror

\* Restore points tell the truth, and the newest one stays.
PointsTrue == PointsWitnessed /\ NewestPointKept
=============================================================================
