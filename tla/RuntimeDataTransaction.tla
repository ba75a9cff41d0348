------------------------ MODULE RuntimeDataTransaction ------------------------
(***************************************************************************)
(* The file transactions of SearchEngineConfig                             *)
(* (src/tools/config/RuntimeDataTransaction.cpp): runtime-update replaces  *)
(* Settings.json, OEM866.INI and client-endpoint.txt of an installed       *)
(* instance and adds ignore.txt where there is none; settings-transaction  *)
(* replaces Settings.json and, on request, client-endpoint.txt.  Each is   *)
(* three commands (apply, rollback, commit), run one after the other by an *)
(* installer or an operator while the service is stopped.  All that one    *)
(* command tells the next is a directory of snapshots, a manifest and, for *)
(* runtime-update, a phase file.                                           *)
(*                                                                         *)
(* A command is an agenda of file operations.  Any of them may fail, which *)
(* throws, and the process may die at any of them.                         *)
(***************************************************************************)
EXTENDS Naturals, Sequences

CONSTANTS Transactions,  \* which transactions are considered, see Kinds
          MaxFaults,     \* bound on failed operations and crashes
          Old, New,      \* the contents before the transaction and its own
          Torn, None

\* A transaction and the files it manages, in the order of the code.
Kinds == {[name |-> "runtime", managed |-> <<"settings", "oem", "endpoint">>],
          [name |-> "settings", managed |-> <<"settings", "endpoint">>],
          [name |-> "settings", managed |-> <<"settings">>]}
Names == {"settings", "oem", "endpoint", "ignore"}

ASSUME TransactionAssumption ==
    /\ Transactions \subseteq Kinds
    /\ MaxFaults \in Nat
    /\ None \notin {Old, New, Torn} /\ Torn \notin {Old, New} /\ Old # New
    /\ \A names \in SUBSET Names : names # None

VARIABLES
    kind,      \* the transaction
    before,    \* history: the data directory at the start
    data,      \* the data directory: name -> content or None
    dir,       \* the rollback directory exists
    marker,    \* its marker file exists
    phase,     \* its phase file
    manifest,  \* its manifest: the names that existed, or None
    snap,      \* its snapshots: name -> content or None
    stray,     \* a staging file was left in it
    cmd,       \* the command being run
    agenda,    \* the operations it has left, each <<operation, name>>
    stage,     \* what the installer or operator knows of the transaction
    faults     \* operations failed and processes died so far

txVars == <<dir, marker, phase, manifest, snap, stray>>
diskVars == <<data, txVars>>
runVars == <<cmd, agenda, stage, faults>>
vars == <<kind, before, diskVars, runVars>>

Runtime == kind.name = "runtime"
Managed == {kind.managed[i] : i \in DOMAIN kind.managed}
NoFiles == [f \in Names |-> None]
Existing == {f \in Names : data[f] # None}

Each(op, files) == [i \in DOMAIN files |-> <<op, files[i]>>]
OnlyRuntime(ops) == IF Runtime THEN ops ELSE << >>

-----------------------------------------------------------------------------
(* The operations.                                                         *)

Op == Head(agenda)[1]
Arg == Head(agenda)[2]
Do(op) ==
    /\ agenda # << >> /\ Op = op
    /\ agenda' = Tail(agenda)
    /\ UNCHANGED <<kind, before, cmd, stage, faults>>

CreateDirectoryExclusive ==
    /\ Do("dir") /\ ~ dir
    /\ dir' = TRUE
    /\ UNCHANGED <<data, marker, phase, manifest, snap, stray>>

WriteMarker ==
    /\ Do("marker")
    /\ marker' = TRUE
    /\ UNCHANGED <<data, dir, phase, manifest, snap, stray>>

\* Created in place the first time, replaced atomically later on.
WritePhase ==
    /\ Do("phase")
    /\ phase' = Arg
    /\ UNCHANGED <<data, dir, marker, manifest, snap, stray>>

SnapshotManagedFile ==
    /\ Do("snap")
    /\ snap' = [snap EXCEPT ![Arg] = data[Arg]]
    /\ UNCHANGED <<data, dir, marker, phase, manifest, stray>>

WriteManifest ==
    /\ Do("manifest")
    /\ manifest' = Existing
    /\ UNCHANGED <<data, dir, marker, phase, snap, stray>>

\* A staging file in the data directory, then MoveFileExW over the file.
StageAndAtomicallyReplace ==
    /\ Do("put")
    /\ data' = [data EXCEPT ![Arg] = New]
    /\ UNCHANGED txVars

\* CREATE_NEW, then a copy in place.
InstallIgnoreIfMissing ==
    /\ Do("ignore")
    /\ data' = [data EXCEPT !["ignore"] = IF @ = None THEN New ELSE @]
    /\ UNCHANGED txVars

EnsureLogs == Do("logs") /\ UNCHANGED diskVars

\* Mutant: an existing file is not replaced.
RestoreManagedFile_Shy ==
    /\ Do("restore")
    /\ Arg \in manifest => snap[Arg] # None
    /\ Arg \in manifest => data[Arg] # New
    /\ data' = [data EXCEPT ![Arg] = IF Arg \in manifest THEN snap[Arg] ELSE None]
    /\ UNCHANGED txVars

\* From its snapshot where it existed; a file the transaction made is removed.
RestoreManagedFile ==
    /\ Do("restore")
    /\ Arg \in manifest => snap[Arg] # None
    /\ data' = [data EXCEPT ![Arg] = IF Arg \in manifest THEN snap[Arg] ELSE None]
    /\ UNCHANGED txVars

\* Only an ignore.txt with the package's hash is known to be the installer's.
RestoreIgnore ==
    /\ Do("unignore")
    /\ data' = [data EXCEPT !["ignore"] =
                  IF "ignore" \notin manifest /\ @ = New THEN None ELSE @]
    /\ UNCHANGED txVars

DeleteTransactionFile ==
    /\ Do("delete")
    /\ marker' = (marker /\ Arg # "marker")
    /\ phase' = IF Arg = "phase" THEN "absent" ELSE phase
    /\ manifest' = IF Arg = "manifest" THEN None ELSE manifest
    /\ snap' = IF Arg \in Names THEN [snap EXCEPT ![Arg] = None] ELSE snap
    /\ UNCHANGED <<data, dir, stray>>

RemoveDirectory ==
    /\ Do("rmdir")
    /\ dir' = FALSE
    /\ UNCHANGED <<data, marker, phase, manifest, snap, stray>>

Operation ==
    \/ CreateDirectoryExclusive \/ WriteMarker \/ WritePhase
    \/ SnapshotManagedFile \/ WriteManifest \/ StageAndAtomicallyReplace
    \/ InstallIgnoreIfMissing \/ EnsureLogs \/ RestoreManagedFile
    \/ RestoreIgnore \/ DeleteTransactionFile \/ RemoveDirectory

\* What an operation may leave behind when it is cut short.
HalfMarker == Op = "marker" /\ marker' = TRUE /\ UNCHANGED <<data, dir, phase, manifest, snap, stray>>
HalfPhase ==
    /\ Op = "phase"
    /\ IF phase = "absent" THEN phase' = "invalid" /\ UNCHANGED stray
                           ELSE stray' = TRUE /\ UNCHANGED phase
    /\ UNCHANGED <<data, dir, marker, manifest, snap>>
HalfSnapshot ==
    /\ Op = "snap" /\ data[Arg] # None
    /\ snap' = [snap EXCEPT ![Arg] = Torn]
    /\ UNCHANGED <<data, dir, marker, phase, manifest, stray>>
HalfManifest == Op = "manifest" /\ stray' = TRUE /\ UNCHANGED <<data, dir, marker, phase, manifest, snap>>
HalfIgnore ==
    /\ Op = "ignore" /\ data["ignore"] = None
    /\ data' = [data EXCEPT !["ignore"] = Torn]
    /\ UNCHANGED txVars

-----------------------------------------------------------------------------
(* The commands.                                                           *)

\* Mutant: the phase is advanced after the files.
ApplyAgenda_LatePhase ==
    <<<<"dir", "">>, <<"marker", "">>>>
    \o OnlyRuntime(<<<<"phase", "prepared">>>>)
    \o Each("snap", kind.managed) \o <<<<"manifest", "">>>>
    \o Each("put", kind.managed)
    \o OnlyRuntime(<<<<"phase", "mutation_started">>, <<"ignore", "">>, <<"logs", "">>>>)

ApplyAgenda ==
    <<<<"dir", "">>, <<"marker", "">>>>
    \o OnlyRuntime(<<<<"phase", "prepared">>>>)
    \o Each("snap", kind.managed) \o <<<<"manifest", "">>>>
    \o OnlyRuntime(<<<<"phase", "mutation_started">>>>)
    \o Each("put", kind.managed) \o OnlyRuntime(<<<<"ignore", "">>, <<"logs", "">>>>)

MutationStarted ==
    \A i \in DOMAIN agenda :
        agenda[i][1] \notin {"dir", "marker", "phase", "snap", "manifest"}

\* Mutant: only files with a snapshot are restored.
RestoreAgenda_SnapshotsOnly ==
    SelectSeq(Each("restore", kind.managed), LAMBDA d : d[2] \in manifest)
    \o OnlyRuntime(<<<<"unignore", "">>, <<"phase", "restored">>>>)

RestoreAgenda ==
    Each("restore", kind.managed)
    \o OnlyRuntime(<<<<"unignore", "">>, <<"phase", "restored">>>>)

\* The settings-transaction undoes only what it has a snapshot of, and it always
\* has one of Settings.json.
UndoAgenda ==
    IF Runtime THEN RestoreAgenda
    ELSE IF "endpoint" \in Managed \cap manifest
         THEN <<<<"restore", "settings">>, <<"restore", "endpoint">>>>
         ELSE <<<<"restore", "settings">>>>

Run(c, ops) == cmd = "none" /\ cmd' = c /\ agenda' = ops /\ UNCHANGED <<kind, before, diskVars, faults>>
End(s) == cmd' = "none" /\ agenda' = << >> /\ stage' = s /\ UNCHANGED <<kind, before>>

\* settings-transaction ends at once without a Settings.json.
Apply ==
    /\ stage = "new"
    /\ Runtime \/ data["settings"] # None
    /\ Run("apply", ApplyAgenda)
    /\ stage' = "applying"

\* Exit code 0.
ApplyEnds == cmd = "apply" /\ agenda = << >> /\ End("applied") /\ UNCHANGED <<diskVars, faults>>

\* An exception before the mutation, exit code 2: of what apply made, the cut
\* short operation's half included, each file is removed as far as possible; the
\* marker and the phase of a runtime-update stay, the marker of a
\* settings-transaction does not.  An empty directory goes too.
ApplyFailsBefore ==
    /\ cmd = "apply" /\ agenda # << >> /\ ~ MutationStarted
    /\ faults < MaxFaults /\ faults' = faults + 1
    /\ marker' \in {marker, marker \/ Op = "marker", marker /\ Runtime}
    /\ phase' \in {phase} \cup (IF Op = "phase" /\ phase = "absent" THEN {"invalid"} ELSE {})
    /\ manifest' \in {manifest, None}
    /\ \E lost \in SUBSET Names, torn \in SUBSET {f \in Names : <<"snap", f>> = Head(agenda)} :
          snap' = [f \in Names |-> IF f \in lost THEN None
                                   ELSE IF f \in torn /\ data[f] # None THEN Torn
                                   ELSE snap[f]]
    /\ stray' \in {stray, FALSE, stray \/ Op = "manifest" \/ (Op = "phase" /\ phase # "absent")}
    /\ dir' \in {dir, dir /\ (marker' \/ phase' # "absent" \/ manifest' # None
                              \/ snap' # NoFiles \/ stray')}
    /\ End("untouched")
    /\ UNCHANGED data

\* An exception after it: apply restores what it replaced.
ApplyFailsAfter ==
    /\ cmd = "apply" /\ agenda # << >> /\ MutationStarted
    /\ faults < MaxFaults /\ faults' = faults + 1
    /\ cmd' = "undo" /\ agenda' = UndoAgenda
    /\ UNCHANGED <<kind, before, diskVars, stage>>

\* Exit code 1, whether or not the restoring went through.
UndoEnds == cmd = "undo" /\ agenda = << >> /\ End("failed") /\ UNCHANGED <<diskVars, faults>>

\* What the transaction directory lets a command do.
Readable == marker /\ manifest # None
NeedsNoRollback == dir /\ Runtime /\ phase \in {"prepared", "restored"}
CanRollback == dir /\ Readable /\ (Runtime => phase = "mutation_started")

\* The installer rolls back when apply or a later step of it failed, the
\* operator after a crash or a failed rollback.
RollbackNotRequired ==
    /\ cmd = "none" /\ stage \in {"applied", "failed"} /\ NeedsNoRollback
    /\ stage' = "rolledback"
    /\ UNCHANGED <<kind, before, diskVars, cmd, agenda, faults>>

Rollback ==
    /\ stage \in {"applied", "failed"} /\ CanRollback
    /\ Run("rollback", RestoreAgenda)
    /\ stage' = "failed"

RollbackEnds ==
    /\ cmd = "rollback" /\ agenda = << >>
    /\ End("rolledback") /\ UNCHANGED <<diskVars, faults>>

\* commit deletes only what it expects to find, and refuses anything else.
Expected ==
    IF Runtime /\ phase = "prepared" THEN {}
    ELSE manifest \cap Managed

CanCommit ==
    /\ dir /\ ~ stray
    /\ Runtime => phase \in {"prepared", "mutation_started", "restored"}
    /\ ~ (Runtime /\ phase = "prepared") => Readable
    /\ Runtime /\ phase = "prepared" => manifest = None
    /\ \A f \in Names : snap[f] # None => f \in Expected

\* To delete a snapshot that was never taken does nothing.
CommitAgenda ==
    <<<<"delete", "marker">>>> \o OnlyRuntime(<<<<"delete", "phase">>>>)
    \o (IF manifest = None THEN << >> ELSE <<<<"delete", "manifest">>>>)
    \o Each("delete", kind.managed) \o <<<<"rmdir", "">>>>

\* After a healthy start with the new files, or of the old service.
Commit ==
    /\ stage \in {"applied", "untouched", "rolledback", "kept", "dropped"}
    /\ CanCommit
    /\ Run("commit", CommitAgenda)
    /\ stage' = IF stage \in {"applied", "kept"} THEN "kept" ELSE "dropped"

CommitEnds == cmd = "commit" /\ agenda = << >> /\ End(stage) /\ UNCHANGED <<diskVars, faults>>

\* An operation of the other commands throws: exit code 1, nothing undone.
CommandFails ==
    /\ cmd \in {"undo", "rollback", "commit"} /\ agenda # << >>
    /\ faults < MaxFaults /\ faults' = faults + 1
    /\ HalfPhase \/ UNCHANGED diskVars
    /\ End(IF cmd = "commit" THEN stage ELSE "failed")

\* The process dies; an apply that died is rolled back by the operator.
Crash ==
    /\ cmd # "none" /\ agenda # << >>
    /\ faults < MaxFaults /\ faults' = faults + 1
    /\ \/ HalfMarker \/ HalfPhase \/ HalfSnapshot \/ HalfManifest \/ HalfIgnore
       \/ UNCHANGED diskVars
    /\ End(IF cmd = "commit" THEN stage ELSE "failed")

-----------------------------------------------------------------------------
Init ==
    /\ kind \in Transactions
    /\ before \in [Names -> {Old, None}]
    /\ data = before
    /\ dir = FALSE /\ marker = FALSE /\ phase = "absent" /\ manifest = None
    /\ snap = NoFiles /\ stray = FALSE
    /\ cmd = "none" /\ agenda = << >> /\ stage = "new" /\ faults = 0

Progress == Operation \/ ApplyEnds \/ UndoEnds \/ RollbackEnds \/ CommitEnds

Next ==
    \/ Apply \/ RollbackNotRequired \/ Rollback \/ Commit
    \/ Progress
    \/ ApplyFailsBefore \/ ApplyFailsAfter \/ CommandFails \/ Crash

\* A running command goes on, and the operator repeats a rollback that failed.
Spec == Init /\ [][Next]_vars /\ WF_vars(Progress)
        /\ WF_vars((Rollback \/ RollbackNotRequired) /\ stage = "failed")

-----------------------------------------------------------------------------
Phases == {"absent", "invalid", "prepared", "mutation_started", "restored"}
Contents == {Old, New, Torn, None}

\* Every variable has a value of its kind.
TypeOK ==
    /\ kind \in Kinds /\ before \in [Names -> {Old, None}]
    /\ data \in [Names -> Contents] /\ snap \in [Names -> {Old, Torn, None}]
    /\ dir \in BOOLEAN /\ marker \in BOOLEAN /\ stray \in BOOLEAN
    /\ phase \in Phases /\ manifest \in {None} \cup SUBSET Names
    /\ cmd \in {"none", "apply", "undo", "rollback", "commit"}
    /\ stage \in {"new", "applying", "applied", "failed", "untouched", "rolledback",
                  "kept", "dropped"}
    /\ faults \in 0..MaxFaults

IsOld == \A f \in Managed : data[f] = before[f]
IsNew == \A f \in Managed : data[f] = New

\* As long as nobody has decided to keep the new files, a data directory that
\* is not the old one can be taken back: the rollback command accepts the
\* transaction directory, its manifest says what existed, and each snapshot it
\* needs is whole.  It holds at every operation of every command and after a
\* crash in any of them.
Recoverable ==
    stage # "kept" =>
        \/ IsOld
        \/ /\ CanRollback
           /\ manifest \cap Managed = {f \in Managed : before[f] # None}
           /\ \A f \in manifest \cap Managed : snap[f] = Old

\* A transaction that is reported as not begun or rolled back has left the
\* managed files as they were, and a user's ignore.txt in any case.
RolledBackIsOld ==
    /\ stage \in {"untouched", "rolledback", "dropped"} => IsOld
    /\ before["ignore"] # None => data["ignore"] = before["ignore"]

\* Once the directory no longer describes a transaction, because a commit has
\* begun to delete it or because nothing was written yet, the managed files are
\* all old or all new: no command throws away the only way out of a mixture.
NoOrphanedMixture == ~ CanRollback => IsOld \/ IsNew

\* A failed or interrupted transaction ends with the old files, provided the
\* operator repeats the rollback.
RecoveryEnds == (stage = "failed") ~> IsOld

\* At every operation and after every crash the state is well typed, and there is
\* a way back to the old files until the new ones are accepted as a whole.
TransactionInv == TypeOK /\ Recoverable /\ NoOrphanedMixture
=============================================================================
