---------------------------- MODULE MirrorRestore ----------------------------
(***************************************************************************)
(* BackupRestore (src/src/Backup/Restore/MirrorHistoryRestore.cpp) at work *)
(* on a target while the backup of MirrorHistory goes on: no lock keeps    *)
(* the two apart, so a file may be moved, replaced or collected between    *)
(* the moment the restore finds it and the moment it copies it.            *)
(***************************************************************************)
EXTENDS MirrorHistory

CONSTANT Precious       \* what the destination holds before the first restore

\* There is something to lose.
ASSUME RestoreAssumption == Precious # None

VARIABLES
    rpc,        \* where restore is
    wanted,     \* the manifest being restored
    plan,       \* path -> "sought", or where its bytes were found: "objects" or "current"
    staging,    \* the staging directory beside the destination
    dest,       \* the destination directory, None where there is none
    retired,    \* destination.before_restore directories
    restores    \* restores begun, at most budget.restore

rVars == <<rpc, wanted, plan, staging, dest, retired, restores>>
allVars == <<vars, rVars>>

\* resolveManifestFile: the object of the hash, else any current copy.
Resolved(f, c) ==
    IF <<f, c>> \in objects THEN "objects"
    ELSE IF data[f] # None THEN "current" ELSE None

\* restore with overwrite reads the manifest of a point or the current one; it
\* ends here where that names no file.
RestorePlan(fs) ==
    /\ rpc = "idle" /\ restores < budget.restore
    /\ restores' = restores + 1
    /\ Present(fs) # {}
    /\ wanted' = fs
    /\ plan' = [f \in Paths |-> IF fs[f] = None THEN None ELSE "sought"]
    /\ staging' = NoFiles
    /\ rpc' = "plan"
    /\ UNCHANGED <<vars, dest, retired>>

\* plan looks the files up one after the other; a restore with a file that is
\* nowhere stops.
RestoreFind(f) ==
    /\ rpc = "plan" /\ plan[f] = "sought"
    /\ Resolved(f, wanted[f]) # None
    /\ plan' = [plan EXCEPT ![f] = Resolved(f, wanted[f])]
    /\ rpc' = IF \E g \in Paths \ {f} : plan[g] = "sought" THEN "plan" ELSE "copy"
    /\ UNCHANGED <<vars, wanted, staging, dest, retired, restores>>

\* copyFileBinary from where the plan found the file.  The stream is closed
\* unchecked, so the copy may be short.
BytesAt(f) ==
    IF plan[f] = "current" THEN data[f]
    ELSE IF <<f, wanted[f]>> \in objects THEN wanted[f] ELSE None

RestoreCopy(f) ==
    /\ rpc = "copy" /\ plan[f] # None
    /\ BytesAt(f) # None
    /\ \E c \in {BytesAt(f), Torn} : staging' = [staging EXCEPT ![f] = c]
    /\ plan' = [plan EXCEPT ![f] = None]
    /\ UNCHANGED <<vars, rpc, wanted, dest, retired, restores>>

\* Mutant: the staged files are published unverified.
RestoreVerify_Trusts ==
    /\ rpc = "copy" /\ plan = NoFiles
    /\ rpc' = "retire"
    /\ UNCHANGED <<vars, wanted, plan, staging, dest, retired, restores>>

\* Every staged file must have the hash of the manifest.
RestoreVerify ==
    /\ rpc = "copy" /\ plan = NoFiles
    /\ staging = wanted
    /\ rpc' = "retire"
    /\ UNCHANGED <<vars, wanted, plan, staging, dest, retired, restores>>

\* The existing destination is renamed, never merged and never removed.
RestoreRetire ==
    /\ rpc = "retire"
    /\ retired' = IF dest = None THEN retired ELSE retired \cup {dest}
    /\ dest' = None
    /\ rpc' = "place"
    /\ UNCHANGED <<vars, wanted, plan, staging, restores>>

\* replaceDirectory: staging becomes the destination.
RestorePlace ==
    /\ rpc = "place"
    /\ dest' = staging
    /\ rpc' = "idle" /\ staging' = NoFiles /\ wanted' = NoFiles
    /\ UNCHANGED <<vars, plan, retired, restores>>

\* Any step may fail or be cancelled, which removes the staging directory, or
\* the process dies, which leaves it behind.
RestoreStops ==
    /\ rpc # "idle"
    /\ rpc' = "idle" /\ staging' = NoFiles /\ wanted' = NoFiles /\ plan' = NoFiles
    /\ UNCHANGED <<vars, dest, retired, restores>>

RestoreInit ==
    /\ Init
    /\ rpc = "idle" /\ wanted = NoFiles /\ plan = NoFiles /\ staging = NoFiles
    /\ dest = Precious /\ retired = {} /\ restores = 0

RestoreNext ==
    \/ \E p \in PointIds : RestorePlan(PointFiles(p))
    \/ RestorePlan(manifest.files)
    \/ \E f \in Paths : RestoreFind(f) \/ RestoreCopy(f)
    \/ RestoreVerify \/ RestoreRetire \/ RestorePlace \/ RestoreStops

RestoreSpec ==
    /\ RestoreInit
    /\ [][(Next /\ UNCHANGED rVars) \/ RestoreNext]_allVars
    /\ WF_vars(StartRun) /\ WF_vars(RunStep)

-----------------------------------------------------------------------------
\* What restore puts in the destination's place is, file for file, the
\* manifest it was asked for, however the backup moved, replaced or collected
\* files between the plan and the copy.
RestoreExact == [][dest' # dest /\ dest' # None => dest' = wanted]_allVars

\* The destination's previous content is never lost, wherever a restore fails,
\* is cancelled or dies: it is in place or beside it.
DestinationKept == Precious \in retired \cup {dest}

\* A restore brings the manifest's files and loses none of the destination's.
RestoreSafe == RestoreExact /\ []DestinationKept
=============================================================================
