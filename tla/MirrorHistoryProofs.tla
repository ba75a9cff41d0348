------------------------ MODULE MirrorHistoryProofs ------------------------
(* Theorems about MirrorHistory and MirrorRestore, for any paths, contents,  *)
(* tiers and periods, and any number of runs, restores and faults.           *)
EXTENDS MirrorRestore, SequenceTheorems, TLAPS

\* A file is being captured; the loop over the files; what comes after it.
Capturing == {"capture", "archive", "replace", "putback"}
Looping == Capturing \cup {"files"}
Pointing == {"points", "point", "rotate"}

(* What the locals of a run mean at each step. *)
Locals ==
    /\ todo \subseteq entries
    /\ pc \notin Looping => todo = {}
    /\ pc \in Capturing => file \in todo
    /\ pc \in {"archive", "replace", "putback"} => staged \in Contents
    /\ pc \in {"replace", "putback"} => data[file] = None
    /\ pc \in Pointing => ~failed
    /\ pc = "point" => tier \in tiers /\ points[tier] # << >>

TypeInv == TypeOK /\ Locals

\* The manifest this run, or the next one, works on.
Working == IF pc = "idle" THEN manifest.files ELSE files

(* The state of a run differs from the manifest on disk only where a file has been
   looked at, and only if something will make the run write it. *)
ManifestOk ==
    /\ pc \in Looping => \A f \in todo : files[f] = manifest.files[f]
    /\ pc \in Looping \cup {"write"} /\ ~changed /\ ~failed => files = manifest.files
    /\ pc \in Pointing => files = manifest.files

(* As long as no run was lost, what is in the mirror is what the manifest says. *)
CompleteOk ==
    /\ \A f \in Paths : data[f] \in {None, Working[f]}
    /\ pc \in {"replace", "putback"} => old \in {None, files[file]}

(* A file that was looked at without an error is in the mirror as the state says. *)
FaithOk ==
    ~failed =>
      /\ pc \in Looping => \A f \in entries \ todo : data[f] = files[f]
      /\ pc \in Pointing \cup {"write"} => \A f \in Present(files) : data[f] = files[f]

(* What the state says of a file that was looked at without an error, the source has
   said since the run began. *)
WitnessOk ==
    /\ pc # "idle" => \A f \in Paths : source[f] \in seen[f]
    /\ pc \in {"archive", "replace", "putback"} => staged \in seen[file]
    /\ ~failed /\ pc \in Looping =>
          /\ \A f \in Paths \ entries : None \in seen[f]
          /\ \A f \in entries \ todo : files[f] \in seen[f]
    /\ ~failed /\ pc \in Pointing \cup {"write"} => \A f \in Paths : files[f] \in seen[f]

\* The points in s are in the order of time, and none is newer than n.
InTime(s, n) ==
    \A j \in DOMAIN s : s[j].time <= n /\ \A i \in 1 .. j : s[i].time <= s[j].time

\* The newest point of a tier is there and can be read.
LastReadable(t) == points[t] # << >> /\ LastPoint(t).files # Unreadable

(* The points of a tier are in the order of time, the one being made is the newest and has
   no manifest, and when the rotation begins the newest of each tier can be read. *)
PointsOk ==
    /\ pc = "point" => LastPoint(tier).files = Unreadable
    /\ \A t \in Tiers : InTime(points[t], now)
    /\ pc \in {"points", "point"} => \A t \in Tiers \ tiers : LastReadable(t)
    /\ pc = "rotate" => \A t \in Tiers : LastReadable(t)

HistoryInv ==
    TypeInv /\ ManifestOk /\ WitnessOk /\ PointsOk /\ (~crashed => CompleteOk /\ FaithOk)

\* Of the contents v counts, fs names none that is still to come, and the newest only
\* where the mirror d has no other.
Fresh(fs, d, v) ==
    \A f \in Paths : fs[f] # None =>
      fs[f] <= v[f] /\ (d[f] \notin {None, fs[f]} => fs[f] < v[f])

(* Where no source file returns to an earlier content, the mirror is never behind its
   manifest, whatever was lost. *)
OrderOk ==
    /\ \A f \in Paths : source[f] \in {None, versions[f]}
    /\ Fresh(manifest.files, data, versions) /\ Fresh(Working, data, versions)
    /\ pc \in {"archive", "replace", "putback"} =>
          /\ staged <= versions[file]
          /\ files[file] # None => files[file] <= staged
          /\ (IF pc = "archive" THEN data[file] ELSE old) # None /\ files[file] # None =>
                files[file] < versions[file]

\* The source never returns, or no run is lost; and no point manifest is locked.
Lucky ==
    /\ budget.locked = 0
    /\ \/ ~crashed /\ budget.crash = 0
       \/ budget.revert = 0 /\ OrderOk

RestorableInv == Lucky /\ FaithOk /\ PointsRestorable /\ Restorable(Working)

Point == [time : 0 .. MaxTime, files : Manifests \cup {Unreadable}]

\* The types that the steps of a run have in common.
LEMMA BasicTypes ==
  /\ 1 \in Contents /\ Contents \subseteq Nat /\ NoFiles \in Manifests
  /\ None \notin Contents /\ Torn \notin Contents /\ None \notin Stored
  /\ Unreadable \notin Manifests
  /\ \A f \in Paths : NoFiles[f] = None
<1> USE MirrorAssumption
<1>1. 1 \in Contents /\ Contents \subseteq Nat BY DEF Contents
<1>2. None \notin Contents /\ Torn \notin Contents OBVIOUS
<1>3. None \notin Stored BY <1>2 DEF Stored
<1>4. NoFiles \in Manifests /\ \A f \in Paths : NoFiles[f] = None BY DEF NoFiles, Manifests, OrNone
<1> QED BY <1>1, <1>2, <1>3, <1>4 DEF Manifests

\* Before the first run nothing is in the target.
LEMMA InitTypeInv == Init => TypeInv
<1> SUFFICES ASSUME Init PROVE TypeInv
  OBVIOUS
<1>1. source \in Manifests /\ versions \in [Paths -> Contents]
  BY BasicTypes DEF Init, Manifests, OrNone
<1>2. now \in 0 .. MaxTime /\ budget \in Budget /\ crashed \in BOOLEAN
  <2>1. MaxTime \in Nat /\ Budgets \subseteq Budget BY MirrorAssumption
  <2>2. now = 0 /\ budget \in Budgets /\ crashed = FALSE BY DEF Init
  <2>3. now \in 0 .. MaxTime BY <2>1, <2>2
  <2>4. budget \in Budget BY <2>1, <2>2
  <2> QED BY <2>2, <2>3, <2>4
<1>3. seen \in [Paths -> SUBSET OrNone(Contents)] BY DEF Init
<1>4. data \in [Paths -> OrNone(Stored)] BY DEF Init, NoFiles, OrNone
<1>5. manifest \in [exists : BOOLEAN, complete : BOOLEAN, files : Manifests]
  BY BasicTypes DEF Init, NoManifest
<1>6. points \in [Tiers -> Seq(Point)] BY DEF Init
<1>7. pc \in Steps BY DEF Init, Steps
<1>8. /\ objects \subseteq Paths \X Stored
      /\ files \in Manifests /\ entries \subseteq Paths /\ todo \subseteq Paths
      /\ failed \in BOOLEAN /\ changed \in BOOLEAN
      /\ file \in OrNone(Paths) /\ staged \in OrNone(Contents) /\ old \in OrNone(Stored)
      /\ tiers \subseteq Tiers /\ tier \in OrNone(Tiers)
  BY BasicTypes DEF Init, OrNone
<1>9. TypeOK BY <1>1, <1>2, <1>3, <1>4, <1>5, <1>6, <1>7, <1>8 DEF TypeOK, Point
<1>10. Locals BY DEF Init, Locals, Looping, Capturing, Pointing
<1> QED BY <1>9, <1>10 DEF TypeInv

Kinds == {"crash", "revert", "io", "locked"}

\* What is spent is taken from the budget.
LEMMA SpendType ==
  ASSUME budget \in Budget, crashed \in BOOLEAN,
         Spare \/ \E kind \in Kinds : Spend(kind)
  PROVE  /\ budget' \in Budget /\ crashed' \in BOOLEAN
         /\ budget.revert = 0 => budget'.revert = 0
         /\ budget.locked = 0 => budget'.locked = 0
         /\ budget.crash = 0 => budget'.crash = 0 /\ crashed' = crashed
         /\ crashed => crashed'
<1>1. CASE Spare BY <1>1 DEF Spare
<1>2. ASSUME Spend("crash") PROVE /\ budget' = [budget EXCEPT !.crash = budget.crash - 1]
                                  /\ budget.crash > 0 /\ crashed' = TRUE
  BY <1>2 DEF Spend
<1>3. ASSUME Spend("revert") PROVE /\ budget' = [budget EXCEPT !.revert = budget.revert - 1]
                                   /\ budget.revert > 0 /\ crashed' = crashed
  BY <1>3 DEF Spend
<1>4. ASSUME Spend("io") PROVE /\ budget' = [budget EXCEPT !.io = budget.io - 1]
                               /\ budget.io > 0 /\ crashed' = crashed
  BY <1>4 DEF Spend
<1>5. ASSUME Spend("locked") PROVE /\ budget' = [budget EXCEPT !.locked = budget.locked - 1]
                                   /\ budget.locked > 0 /\ crashed' = crashed
  BY <1>5 DEF Spend
<1> USE DEF Budget
<1>6. CASE Spend("crash")
  <2>1. /\ budget' \in Budget /\ ~(budget.crash = 0)
        /\ budget'.revert = budget.revert /\ budget'.locked = budget.locked
    BY <1>2, <1>6
  <2>2. crashed' = TRUE BY <1>2, <1>6
  <2> QED BY <2>1, <2>2
<1>7. CASE Spend("revert") BY <1>3, <1>7
<1>8. CASE Spend("io") BY <1>4, <1>8
<1>9. CASE Spend("locked") BY <1>5, <1>9
<1> QED BY <1>1, <1>6, <1>7, <1>8, <1>9 DEF Kinds

\* Every step spends one fault or none.
LEMMA NextBudget ==
  ASSUME [Next]_vars
  PROVE  Spare \/ \E kind \in Kinds : Spend(kind)
<1> USE DEF Kinds, Spare, srcVars
<1>1. CASE UNCHANGED vars BY <1>1 DEF vars
<1>2. CASE \/ \E f \in Volatile, c \in OrNone(Contents) : Touch(f, c)
           \/ Tick \/ StartRun \/ Crash
  BY <1>2 DEF Touch, Tick, StartRun, Crash
<1>3. ASSUME NEW f \in Paths, FileStep(f) PROVE Spare \/ \E kind \in Kinds : Spend(kind)
  BY <1>3 DEF FileStep, InspectFails, Skip, Inspect, Delete, DeleteFails
<1>4. CASE CaptureStep
  BY <1>4 DEF CaptureStep, CaptureFails, CaptureSame, Capture, Archive, ArchiveFails, Replace,
              ReplaceFails, PutBack
<1>5. CASE Verify \/ WriteManifest \/ WriteManifestFails
  BY <1>5 DEF Verify, WriteManifest, WriteManifestFails
<1>6. ASSUME NEW t \in Tiers, TierStep(t) PROVE Spare \/ \E kind \in Kinds : Spend(kind)
  BY <1>6 DEF TierStep, NotDue, CreatePoint, Rotate, RotateFails, Rotated
<1>7. CASE WritePoint \/ WritePointFails \/ AllPoints \/ CollectGarbage
  BY <1>7 DEF WritePoint, WritePointFails, AllPoints, CollectGarbage
<1> QED BY <1>1, <1>2, <1>3, <1>4, <1>5, <1>6, <1>7 DEF Next, RunStep

\* A run that ends, or dies, leaves nothing in memory.
LEMMA ForgetTypes ==
  ASSUME Forget
  PROVE  /\ pc' \in Steps /\ files' \in Manifests /\ entries' \subseteq Paths
         /\ todo' \subseteq Paths /\ failed' \in BOOLEAN /\ changed' \in BOOLEAN
         /\ file' \in OrNone(Paths) /\ staged' \in OrNone(Contents) /\ old' \in OrNone(Stored)
         /\ tiers' \subseteq Tiers /\ tier' \in OrNone(Tiers)
         /\ seen' \in [Paths -> SUBSET OrNone(Contents)]
         /\ pc' = "idle" /\ Locals'
<1>1. pc' = "idle" /\ Locals' BY DEF Forget, Locals, Looping, Capturing, Pointing
<1> QED BY <1>1, BasicTypes DEF Forget, Steps, OrNone

\* The steps of the loop over the files.
LEMMA LoopTypes ==
  ASSUME TypeInv, (\E f \in Paths : FileStep(f)) \/ CaptureStep \/ Verify,
         budget' \in Budget, crashed' \in BOOLEAN
  PROVE  TypeInv'
<1> USE DEF TypeInv, TypeOK, Locals, srcVars, diskVars, loopVars, stateVars, Steps, Looping,
            Capturing, Pointing
<1>1. ASSUME NEW f \in Paths, InspectFails(f) \/ Skip(f) PROVE TypeInv'
  BY <1>1 DEF InspectFails, Skip
<1>2. ASSUME NEW f \in Paths, Inspect(f) PROVE TypeInv'
  BY <1>2 DEF Inspect, OrNone
<1>3. ASSUME NEW f \in Paths, DeleteFails(f) PROVE TypeInv' BY <1>3 DEF DeleteFails
<1>4. ASSUME NEW f \in Paths, Delete(f) PROVE TypeInv'
  <2>1. data' \in [Paths -> OrNone(Stored)] BY <1>4 DEF Delete, OrNone
  <2>2. files' \in Manifests BY <1>4 DEF Delete, OrNone, Manifests
  <2>3. objects' \subseteq Paths \X Stored
    BY <1>4 DEF Delete, Archived, OrNone
  <2> QED BY <1>4, <2>1, <2>2, <2>3 DEF Delete
<1>5. CASE CaptureFails \/ CaptureSame \/ ArchiveFails
  BY <1>5 DEF CaptureFails, CaptureSame, ArchiveFails, NextFile, OrNone
<1>6. CASE Capture
  <2>1. staged' \in Contents BY <1>6 DEF Capture, Manifests, OrNone
  <2> QED BY <1>6, <2>1 DEF Capture, OrNone
<1>7. CASE Archive
  <2>1. data' \in [Paths -> OrNone(Stored)] /\ data'[file] = None BY <1>7 DEF Archive, OrNone
  <2>2. old' \in OrNone(Stored) BY <1>7 DEF Archive
  <2>3. objects' \subseteq Paths \X Stored BY <1>7 DEF Archive, Archived, OrNone
  <2> QED BY <1>7, <2>1, <2>2, <2>3 DEF Archive
<1>8. CASE Replace
  <2>1. data' \in [Paths -> OrNone(Stored)] BY <1>8 DEF Replace, OrNone, Stored
  <2>2. files' \in Manifests BY <1>8 DEF Replace, OrNone, Manifests
  <2> QED BY <1>8, <2>1, <2>2 DEF Replace, OrNone
<1>9. CASE ReplaceFails BY <1>9 DEF ReplaceFails
<1>10. CASE PutBack
  <2>1. data' \in [Paths -> OrNone(Stored)] BY <1>10 DEF PutBack, OrNone, Stored
  <2> QED BY <1>10, <2>1 DEF PutBack, NextFile, OrNone
<1>11. CASE Verify BY <1>11 DEF Verify
<1> QED BY <1>1, <1>2, <1>3, <1>4, <1>5, <1>6, <1>7, <1>8, <1>9, <1>10, <1>11
        DEF FileStep, CaptureStep

\* The points of a tier, when its directory is made, filled, emptied or removed.
LEMMA PointsTypes ==
  ASSUME NEW s \in Seq(Point), NEW x \in Point, NEW fs \in Manifests \cup {Unreadable}
  PROVE  /\ Append(s, x) \in Seq(Point) /\ Append(s, x) # << >>
         /\ s # << >> => /\ Tail(s) \in Seq(Point) /\ SubSeq(s, 1, Len(s) - 1) \in Seq(Point)
                         /\ [s EXCEPT ![1].files = fs] \in Seq(Point)
                         /\ [s EXCEPT ![Len(s)].files = fs] \in Seq(Point)
<1>1. Append(s, x) \in Seq(Point) /\ Append(s, x) # << >> BY AppendProperties
<1>2. ASSUME s # << >>
      PROVE  /\ Tail(s) \in Seq(Point) /\ SubSeq(s, 1, Len(s) - 1) \in Seq(Point)
             /\ [s EXCEPT ![1].files = fs] \in Seq(Point)
             /\ [s EXCEPT ![Len(s)].files = fs] \in Seq(Point)
  <2>1. Len(s) \in Nat \ {0} /\ s \in [1 .. Len(s) -> Point] BY <1>2
  <2>2. Tail(s) \in Seq(Point) BY <1>2
  <2>3. SubSeq(s, 1, Len(s) - 1) \in Seq(Point)
    <3>1. \A i \in 1 .. Len(s) - 1 : s[i] \in Point BY <2>1
    <3> QED BY <2>1, <3>1, SubSeqProperties
  <2>4. ASSUME NEW k \in 1 .. Len(s) PROVE [s EXCEPT ![k].files = fs] \in Seq(Point)
    <3>1. s[k] \in Point BY <2>1
    <3>2. [s[k] EXCEPT !.files = fs] \in Point BY <3>1 DEF Point
    <3>3. [s EXCEPT ![k] = [s[k] EXCEPT !.files = fs]] \in Seq(Point) BY <3>2
    <3> QED BY <3>3
  <2>5. 1 \in 1 .. Len(s) /\ Len(s) \in 1 .. Len(s) BY <2>1
  <2> QED BY <2>2, <2>3, <2>4, <2>5
<1> QED BY <1>1, <1>2

\* The steps that make and rotate the points, and the ones that write and collect.
LEMMA TierTypes ==
  ASSUME TypeInv, budget' \in Budget, crashed' \in BOOLEAN,
         \/ \E t \in Tiers : TierStep(t)
         \/ WriteManifest \/ WriteManifestFails \/ WritePoint \/ WritePointFails \/ AllPoints
         \/ CollectGarbage
  PROVE  TypeInv'
<1> USE DEF TypeInv, TypeOK, srcVars, diskVars, loopVars, stateVars, Steps, Looping,
            Capturing, Pointing
<1>0. points \in [Tiers -> Seq(Point)] /\ MaxPoints \in [Tiers -> Nat \ {0}] /\ now \in 0 .. MaxTime
  BY MirrorAssumption DEF Point
<1>1. ASSUME NEW t \in Tiers, NotDue(t) \/ RotateFails(t) \/ Rotated(t) PROVE TypeInv'
  <2>1. CASE NotDue(t) BY <2>1 DEF NotDue, Locals
  <2>2. CASE RotateFails(t) BY <2>2 DEF RotateFails, Locals
  <2>3. CASE Rotated(t) BY <2>3 DEF Rotated, Locals
  <2> QED BY <1>1, <2>1, <2>2, <2>3
<1>2. ASSUME NEW t \in Tiers, CreatePoint(t) PROVE TypeInv'
  <2> DEFINE x == [time |-> now, files |-> Unreadable]
  <2>1. x \in Point BY <1>0 DEF Point
  <2>2. points' = [points EXCEPT ![t] = Append(points[t], x)] BY <1>2 DEF CreatePoint
  <2> HIDE DEF x
  <2>3. Append(points[t], x) \in Seq(Point) /\ Append(points[t], x) # << >>
    <3>1. PICK s \in Seq(Point) : s = points[t] BY <1>0
    <3>2. Append(s, x) \in Seq(Point) /\ Append(s, x) # << >>
      <4>1. Unreadable \in Manifests \cup {Unreadable} OBVIOUS
      <4> QED BY <2>1, <4>1, PointsTypes
    <3> QED BY <3>1, <3>2
  <2>4. points' \in [Tiers -> Seq(Point)] /\ points'[t] # << >> BY <1>0, <2>2, <2>3
  <2> QED BY <1>2, <2>4 DEF CreatePoint, Locals, OrNone, Point
<1>3. ASSUME NEW t \in Tiers, Rotate(t) PROVE TypeInv'
  <2> DEFINE s == points[t]
  <2>1. s \in Seq(Point) /\ Len(s) > MaxPoints[t] /\ pc = "rotate" BY <1>0, <1>3 DEF Rotate
  <2>2. s # << >> BY <1>0, <2>1
  <2>3. /\ [s EXCEPT ![1].files = Unreadable] \in Seq(Point) /\ Tail(s) \in Seq(Point)
    <3> HIDE DEF s
    <3>1. [time |-> now, files |-> Unreadable] \in Point BY <1>0 DEF Point
    <3> QED BY <2>1, <2>2, <3>1, PointsTypes
  <2>4. points' \in [Tiers -> Seq(Point)] BY <1>0, <1>3, <2>3 DEF Rotate
  <2> QED BY <1>3, <2>1, <2>4 DEF Rotate, Locals, Point
<1>4. ASSUME WritePoint \/ WritePointFails PROVE points' \in [Tiers -> Seq(Point)]
  <2>1. pc = "point" /\ tier \in Tiers /\ points[tier] # << >>
    BY <1>4 DEF WritePoint, WritePointFails, Locals
  <2> DEFINE s == points[tier]
  <2>2. s \in Seq(Point) /\ s # << >> BY <1>0, <2>1
  <2>3. [s EXCEPT ![Len(s)].files = files] \in Seq(Point) /\ SubSeq(s, 1, Len(s) - 1) \in Seq(Point)
    <3> HIDE DEF s
    <3>1. [time |-> now, files |-> Unreadable] \in Point BY <1>0 DEF Point
    <3> QED BY <2>2, <3>1, PointsTypes
  <2>4. CASE WritePoint
    <3>1. points' = [points EXCEPT ![tier] = [s EXCEPT ![Len(s)].files = files]]
      BY <2>4 DEF WritePoint
    <3> QED BY <1>0, <2>1, <2>3, <3>1
  <2>5. CASE WritePointFails
    <3>1. points' = points \/ points' = [points EXCEPT ![tier] = SubSeq(s, 1, Len(s) - 1)]
      BY <2>5 DEF WritePointFails
    <3> QED BY <1>0, <2>1, <2>3, <3>1
  <2> QED BY <1>4, <2>4, <2>5
<1>5. CASE WritePoint BY <1>4, <1>5 DEF WritePoint, Locals, Point, OrNone
<1>6. CASE WritePointFails BY <1>4, <1>6, ForgetTypes DEF WritePointFails, Point
<1>7. CASE AllPoints BY <1>7 DEF AllPoints, Locals
<1>8. CASE CollectGarbage
  <2>1. objects' \subseteq objects BY <1>8 DEF CollectGarbage
  <2> QED BY <1>8, <2>1, ForgetTypes DEF CollectGarbage
<1>9. CASE WriteManifestFails BY <1>9, ForgetTypes DEF WriteManifestFails
<1>10. CASE WriteManifest
  <2>1. manifest' \in [exists : BOOLEAN, complete : BOOLEAN, files : Manifests]
    BY <1>10 DEF WriteManifest
  <2>2. CASE failed BY <1>10, <2>1, <2>2, ForgetTypes DEF WriteManifest
  <2>3. CASE ~failed BY <1>10, <2>1, <2>3 DEF WriteManifest, Locals
  <2> QED BY <2>2, <2>3
<1> QED BY <1>1, <1>2, <1>3, <1>5, <1>6, <1>7, <1>8, <1>9, <1>10 DEF TierStep

\* Every variable keeps its type, and every local its meaning.
LEMMA NextTypeInv == TypeInv /\ [Next]_vars => TypeInv'
<1> SUFFICES ASSUME TypeInv, [Next]_vars PROVE TypeInv'
  OBVIOUS
<1>1. budget' \in Budget /\ crashed' \in BOOLEAN
  BY NextBudget, SpendType DEF TypeInv, TypeOK
<1>2. CASE RunStep BY <1>1, <1>2, LoopTypes, TierTypes DEF RunStep
<1> USE DEF TypeInv, TypeOK, srcVars, diskVars, loopVars, stateVars, Steps, Locals, Looping,
            Capturing, Pointing
<1>3. ASSUME NEW f \in Volatile, NEW c \in OrNone(Contents), Touch(f, c) PROVE TypeInv'
  <2>0. f \in Paths BY MirrorAssumption
  <2>1. source' \in Manifests BY <1>3, <2>0 DEF Touch, Manifests
  <2>2. versions' \in [Paths -> Contents]
    <3>1. versions' = versions \/ (c \in Contents /\ versions' = [versions EXCEPT ![f] = c])
      BY <1>3 DEF Touch, OrNone
    <3> QED BY <3>1
  <2>3. seen' \in [Paths -> SUBSET OrNone(Contents)]
    <3>1. seen' = seen \/ seen' = [seen EXCEPT ![f] = seen[f] \cup {c}] BY <1>3 DEF Touch
    <3> QED BY <2>0, <3>1
  <2> QED BY <1>1, <1>3, <2>1, <2>2, <2>3 DEF Touch
<1>4. CASE Tick
  <2>1. now' \in 0 .. MaxTime
    <3>1. MaxTime \in Nat BY MirrorAssumption
    <3> QED BY <1>4, <3>1 DEF Tick
  <2> QED BY <1>4, <2>1 DEF Tick
<1>5. CASE StartRun
  <2>1. seen' \in [Paths -> SUBSET OrNone(Contents)] BY <1>5 DEF StartRun, Manifests
  <2>2. Present(source) \subseteq Paths BY DEF Present, Manifests
  <2> QED BY <1>5, <2>1, <2>2 DEF StartRun
<1>6. CASE Crash BY <1>1, <1>6, ForgetTypes DEF Crash
<1>7. CASE UNCHANGED vars BY <1>7 DEF vars
<1> QED BY <1>2, <1>3, <1>4, <1>5, <1>6, <1>7 DEF Next

\* The memory of a run and the manifest on disk.
LEMMA NextManifestOk == TypeInv /\ ManifestOk /\ [Next]_vars => ManifestOk'
<1> SUFFICES ASSUME TypeInv, ManifestOk, [Next]_vars PROVE ManifestOk'
  OBVIOUS
<1> USE DEF ManifestOk, srcVars, diskVars, loopVars, stateVars, Looping, Capturing, Pointing
<1>0. /\ files \in [Paths -> OrNone(Contents)] /\ todo \subseteq Paths /\ Locals
      /\ failed \in BOOLEAN /\ changed \in BOOLEAN
  BY DEF TypeInv, TypeOK, Manifests
<1>1. CASE UNCHANGED vars BY <1>1 DEF vars
<1>2. ASSUME NEW f \in Volatile, NEW c \in OrNone(Contents), Touch(f, c) PROVE ManifestOk'
  BY <1>2 DEF Touch
<1>3. CASE Tick BY <1>3 DEF Tick
<1>4. CASE StartRun BY <1>4 DEF StartRun
<1>5. CASE Crash \/ WriteManifestFails \/ WritePointFails \/ CollectGarbage
  BY <1>5 DEF Crash, WriteManifestFails, WritePointFails, CollectGarbage, Forget
<1>6. ASSUME NEW f \in Paths, FileStep(f) PROVE ManifestOk'
  <2>1. CASE InspectFails(f) BY <2>1 DEF InspectFails
  <2>2. CASE Skip(f) BY <2>2 DEF Skip
  <2>3. CASE Inspect(f) BY <2>3 DEF Inspect
  <2>4. CASE Delete(f) BY <2>4 DEF Delete
  <2>5. CASE DeleteFails(f) BY <2>5 DEF DeleteFails
  <2> QED BY <1>6, <2>1, <2>2, <2>3, <2>4, <2>5 DEF FileStep
<1>7. CASE CaptureStep
  <2>1. CASE CaptureFails \/ ArchiveFails BY <2>1 DEF CaptureFails, ArchiveFails, NextFile
  <2>2. CASE CaptureSame BY <1>0, <2>2 DEF CaptureSame, NextFile
  <2>3. CASE Capture \/ Archive \/ ReplaceFails BY <2>3 DEF Capture, Archive, ReplaceFails
  <2>4. CASE PutBack BY <2>4 DEF PutBack, NextFile
  <2>5. CASE Replace BY <1>0, <2>5 DEF Replace, Locals
  <2> QED BY <1>7, <2>1, <2>2, <2>3, <2>4, <2>5 DEF CaptureStep
<1>8. CASE Verify BY <1>8 DEF Verify
<1>9. CASE WriteManifest
  <2>1. CASE failed BY <1>9, <2>1 DEF WriteManifest, Forget
  <2>2. CASE ~failed
    <3>1. manifest'.files = files /\ files' = files /\ pc' = "points"
      BY <1>9, <2>2 DEF WriteManifest
    <3> QED BY <3>1
  <2> QED BY <2>1, <2>2
<1>10. ASSUME NEW t \in Tiers, TierStep(t) PROVE ManifestOk'
  BY <1>10 DEF TierStep, NotDue, CreatePoint, Rotate, RotateFails, Rotated
<1>11. CASE WritePoint \/ AllPoints BY <1>11 DEF WritePoint, AllPoints
<1> QED BY <1>1, <1>2, <1>3, <1>4, <1>5, <1>6, <1>7, <1>8, <1>9, <1>10, <1>11 DEF Next, RunStep

\* A run passes over a file only if the mirror has what the state says of it.
SkipOk ==
    \A f \in Paths :
        pc \in {"files", "capture"} /\ source[f] # None /\ data[f] # None /\ files[f] = source[f]
            => data[f] = files[f]

\* What a run has looked at is in the mirror.
LEMMA NextFaithOk ==
  ASSUME TypeInv, FaithOk, SkipOk, [Next]_vars
  PROVE  FaithOk'
<1> USE DEF FaithOk, srcVars, diskVars, loopVars, stateVars, Looping, Capturing, Pointing
<1>0. /\ files \in [Paths -> OrNone(Contents)] /\ data \in [Paths -> OrNone(Stored)]
      /\ todo \subseteq Paths /\ entries \subseteq Paths /\ Locals /\ failed \in BOOLEAN
  BY DEF TypeInv, TypeOK, Manifests
<1>1. CASE UNCHANGED vars BY <1>1 DEF vars, Present
<1>2. ASSUME NEW f \in Volatile, NEW c \in OrNone(Contents), Touch(f, c) PROVE FaithOk'
  BY <1>2 DEF Touch, Present
<1>3. CASE Tick BY <1>3 DEF Tick, Present
<1>4. CASE StartRun BY <1>4 DEF StartRun
<1>5. CASE Crash \/ WriteManifestFails \/ WritePointFails \/ CollectGarbage
  BY <1>5 DEF Crash, WriteManifestFails, WritePointFails, CollectGarbage, Forget
<1>6. ASSUME NEW f \in Paths, FileStep(f) PROVE FaithOk'
  <2>1. CASE InspectFails(f) BY <2>1 DEF InspectFails
  <2>2. CASE Skip(f) BY <1>0, <2>2 DEF Skip, FingerprintEqual, SkipOk
  <2>3. CASE Inspect(f) BY <2>3 DEF Inspect
  <2>4. CASE Delete(f) BY <1>0, <2>4 DEF Delete, Gone
  <2>5. CASE DeleteFails(f) BY <2>5 DEF DeleteFails
  <2> QED BY <1>6, <2>1, <2>2, <2>3, <2>4, <2>5 DEF FileStep
<1>7. CASE CaptureStep
  <2>1. CASE CaptureFails \/ ArchiveFails BY <2>1 DEF CaptureFails, ArchiveFails, NextFile
  <2>2. CASE CaptureSame BY <1>0, <2>2 DEF CaptureSame, SameContent, NextFile, SkipOk, Locals
  <2>3. CASE Capture \/ ReplaceFails BY <2>3 DEF Capture, ReplaceFails
  <2>4. CASE Archive BY <1>0, <2>4 DEF Archive, Locals
  <2>5. CASE PutBack BY <2>5 DEF PutBack, NextFile
  <2>6. CASE Replace BY <1>0, <2>6 DEF Replace, Locals
  <2> QED BY <1>7, <2>1, <2>2, <2>3, <2>4, <2>5, <2>6 DEF CaptureStep
<1>8. CASE Verify BY <1>0, <1>8 DEF Verify, Gone, Present
<1>9. CASE WriteManifest
  <2>1. CASE failed BY <1>9, <2>1 DEF WriteManifest, Forget
  <2>2. CASE ~failed BY <1>9, <2>2 DEF WriteManifest, Present
  <2> QED BY <2>1, <2>2
<1>10. ASSUME NEW t \in Tiers, TierStep(t) PROVE FaithOk'
  BY <1>10 DEF TierStep, NotDue, CreatePoint, Rotate, RotateFails, Rotated, Present
<1>11. CASE WritePoint \/ AllPoints BY <1>11 DEF WritePoint, AllPoints, Present
<1> QED BY <1>1, <1>2, <1>3, <1>4, <1>5, <1>6, <1>7, <1>8, <1>9, <1>10, <1>11 DEF Next, RunStep

\* Without a lost run the mirror has of each file what the manifest says, or nothing.
LEMMA NextCompleteOk ==
  ASSUME TypeInv, ManifestOk, CompleteOk, FaithOk, [Next]_vars, ~crashed'
  PROVE  CompleteOk'
<1> USE DEF CompleteOk, srcVars, diskVars, loopVars, stateVars, Looping, Capturing, Pointing
<1>0. /\ files \in [Paths -> OrNone(Contents)] /\ data \in [Paths -> OrNone(Stored)]
      /\ Locals /\ failed \in BOOLEAN /\ pc \in Steps /\ todo \subseteq Paths
  BY DEF TypeInv, TypeOK, Manifests
<1>1. CASE UNCHANGED vars BY <1>1 DEF vars, Working
<1>2. ASSUME NEW f \in Volatile, NEW c \in OrNone(Contents), Touch(f, c) PROVE CompleteOk'
  BY <1>2 DEF Touch, Working
<1>3. CASE Tick BY <1>3 DEF Tick, Working
<1>4. CASE StartRun BY <1>4 DEF StartRun, Working
<1>5. CASE Crash \/ WriteManifestFails BY <1>5 DEF Crash, WriteManifestFails, Spend
<1>6. CASE WritePointFails \/ CollectGarbage
  <2>1. /\ pc \in Pointing /\ pc' = "idle" /\ UNCHANGED <<data, manifest>>
    BY <1>6 DEF WritePointFails, CollectGarbage, Forget
  <2>2. files = manifest.files BY <2>1 DEF ManifestOk
  <2> QED BY <2>1, <2>2 DEF Working
<1>7. ASSUME NEW f \in Paths, FileStep(f) PROVE CompleteOk'
  <2>1. CASE InspectFails(f) BY <2>1 DEF InspectFails, Working
  <2>2. CASE Skip(f) BY <2>2 DEF Skip, Working
  <2>3. CASE Inspect(f) BY <2>3 DEF Inspect, Working
  <2>4. CASE Delete(f) BY <1>0, <2>4 DEF Delete, Working
  <2>5. CASE DeleteFails(f) BY <2>5 DEF DeleteFails, Working
  <2> QED BY <1>7, <2>1, <2>2, <2>3, <2>4, <2>5 DEF FileStep
<1>8. CASE CaptureStep
  <2>1. CASE CaptureFails \/ ArchiveFails
    BY <2>1 DEF CaptureFails, ArchiveFails, NextFile, Working
  <2>2. CASE CaptureSame BY <2>2 DEF CaptureSame, NextFile, Working
  <2>3. CASE Capture \/ ReplaceFails BY <2>3 DEF Capture, ReplaceFails, Working
  <2>4. CASE Archive BY <1>0, <2>4 DEF Archive, Locals, Working
  <2>5. CASE PutBack
    <3>1. data' = [data EXCEPT ![file] = old] \/ UNCHANGED data BY <2>5 DEF PutBack, Spend
    <3>2. /\ pc = "putback" /\ pc' = "files" /\ files' = files /\ file \in Paths
          /\ old \in {None, files[file]}
      BY <1>0, <2>5 DEF PutBack, NextFile, Locals
    <3> QED BY <1>0, <3>1, <3>2 DEF Working
  <2>6. CASE Replace BY <1>0, <2>6 DEF Replace, Locals, Working
  <2> QED BY <1>8, <2>1, <2>2, <2>3, <2>4, <2>5, <2>6 DEF CaptureStep
<1>9. CASE Verify BY <1>9 DEF Verify, Working
<1>10. CASE WriteManifest
  <2>1. manifest'.files = files /\ data' = data
    BY <1>10 DEF WriteManifest, ManifestOk
  <2>2. pc = "write" /\ (pc' = "idle" \/ (pc' = "points" /\ files' = files))
    BY <1>10 DEF WriteManifest, Forget
  <2> QED BY <2>1, <2>2 DEF Working
<1>11. ASSUME NEW t \in Tiers, TierStep(t) PROVE CompleteOk'
  BY <1>11 DEF TierStep, NotDue, CreatePoint, Rotate, RotateFails, Rotated, Working
<1>12. CASE WritePoint \/ AllPoints BY <1>12 DEF WritePoint, AllPoints, Working
<1> QED BY <1>1, <1>2, <1>3, <1>4, <1>5, <1>6, <1>7, <1>8, <1>9, <1>10, <1>11, <1>12
        DEF Next, RunStep

\* What a run has looked at, the source has shown to it.
LEMMA NextWitnessOk == TypeInv /\ WitnessOk /\ [Next]_vars => WitnessOk'
<1> SUFFICES ASSUME TypeInv, WitnessOk, [Next]_vars PROVE WitnessOk'
  OBVIOUS
<1> USE DEF WitnessOk, srcVars, diskVars, loopVars, stateVars, Looping, Capturing, Pointing
<1>0. /\ files \in [Paths -> OrNone(Contents)] /\ source \in [Paths -> OrNone(Contents)]
      /\ seen \in [Paths -> SUBSET OrNone(Contents)] /\ Locals /\ failed \in BOOLEAN
      /\ pc \in Steps /\ todo \subseteq Paths /\ entries \subseteq Paths
  BY DEF TypeInv, TypeOK, Manifests
<1>1. CASE UNCHANGED vars BY <1>1 DEF vars
<1>2. ASSUME NEW f \in Volatile, NEW c \in OrNone(Contents), Touch(f, c) PROVE WitnessOk'
  <2>1. CASE pc = "idle" BY <1>2, <2>1 DEF Touch
  <2>2. CASE pc # "idle"
    <3>0. f \in Paths BY MirrorAssumption
    <3>1. /\ source' = [source EXCEPT ![f] = c] /\ seen' = [seen EXCEPT ![f] = seen[f] \cup {c}]
          /\ UNCHANGED <<pc, file, staged, failed, entries, todo, files>>
      BY <1>2, <2>2 DEF Touch
    <3>2. \A g \in Paths : seen[g] \subseteq seen'[g] BY <1>0, <3>0, <3>1
    <3>3. \A g \in Paths : source'[g] \in seen'[g] BY <1>0, <2>2, <3>0, <3>1
    <3>4. pc \in {"archive", "replace", "putback"} => file \in Paths BY <1>0 DEF Locals
    <3> QED BY <1>0, <3>1, <3>2, <3>3, <3>4
  <2> QED BY <2>1, <2>2
<1>3. CASE Tick BY <1>3 DEF Tick
<1>4. CASE StartRun BY <1>0, <1>4 DEF StartRun, Present
<1>5. CASE Crash \/ WriteManifestFails \/ WritePointFails \/ CollectGarbage
  BY <1>5 DEF Crash, WriteManifestFails, WritePointFails, CollectGarbage, Forget
<1>6. ASSUME NEW f \in Paths, FileStep(f) PROVE WitnessOk'
  <2>1. CASE InspectFails(f) BY <2>1 DEF InspectFails
  <2>2. CASE Skip(f) BY <1>0, <2>2 DEF Skip, FingerprintEqual
  <2>3. CASE Inspect(f) BY <2>3 DEF Inspect
  <2>4. CASE Delete(f) BY <1>0, <2>4 DEF Delete, Gone
  <2>5. CASE DeleteFails(f) BY <2>5 DEF DeleteFails
  <2> QED BY <1>6, <2>1, <2>2, <2>3, <2>4, <2>5 DEF FileStep
<1>7. CASE CaptureStep
  <2>1. CASE CaptureFails \/ ArchiveFails BY <2>1 DEF CaptureFails, ArchiveFails, NextFile
  <2>2. CASE CaptureSame BY <1>0, <2>2 DEF CaptureSame, SameContent, NextFile, Locals
  <2>3. CASE Capture BY <1>0, <2>3 DEF Capture, Locals
  <2>4. CASE Archive \/ ReplaceFails BY <2>4 DEF Archive, ReplaceFails
  <2>5. CASE PutBack BY <2>5 DEF PutBack, NextFile
  <2>6. CASE Replace BY <1>0, <2>6 DEF Replace, Locals
  <2> QED BY <1>7, <2>1, <2>2, <2>3, <2>4, <2>5, <2>6 DEF CaptureStep
<1>8. CASE Verify
  <2>1. /\ pc = "files" /\ pc' = "write" /\ todo = {} /\ Gone = {} /\ failed' \in BOOLEAN
        /\ (failed => failed') /\ UNCHANGED <<source, seen, files>>
    BY <1>0, <1>8 DEF Verify
  <2>2. \A f \in Paths \ entries : files[f] = None BY <1>0, <2>1 DEF Gone, Present
  <2> QED BY <1>0, <2>1, <2>2
<1>9. CASE WriteManifest
  <2>1. CASE failed BY <1>9, <2>1 DEF WriteManifest, Forget
  <2>2. CASE ~failed BY <1>9, <2>2 DEF WriteManifest
  <2> QED BY <2>1, <2>2
<1>10. ASSUME NEW t \in Tiers, TierStep(t) PROVE WitnessOk'
  BY <1>10 DEF TierStep, NotDue, CreatePoint, Rotate, RotateFails, Rotated
<1>11. CASE WritePoint \/ AllPoints BY <1>11 DEF WritePoint, AllPoints
<1> QED BY <1>1, <1>2, <1>3, <1>4, <1>5, <1>6, <1>7, <1>8, <1>9, <1>10, <1>11 DEF Next, RunStep

\* The manifest of a point is written, or removed.
LEMMA WrittenSeq ==
  ASSUME NEW s \in Seq(Point), NEW k \in 1 .. Len(s), NEW fs, NEW n, InTime(s, n),
         NEW p, p = [s EXCEPT ![k].files = fs]
  PROVE  /\ Len(p) = Len(s) /\ DOMAIN p = DOMAIN s /\ p # << >> /\ InTime(p, n)
         /\ p[k] = [time |-> s[k].time, files |-> fs]
         /\ \A i \in DOMAIN s : i # k => p[i] = s[i]
<1>1. s \in [1 .. Len(s) -> Point] /\ DOMAIN s = 1 .. Len(s) /\ Len(s) \in Nat OBVIOUS
<1>2. s[k] = [time |-> s[k].time, files |-> s[k].files] BY <1>1 DEF Point
<1>3. [s[k] EXCEPT !.files = fs] = [time |-> s[k].time, files |-> fs] BY <1>2
<1>4. /\ DOMAIN p = DOMAIN s /\ p[k] = [time |-> s[k].time, files |-> fs]
      /\ \A i \in DOMAIN s : i # k => p[i] = s[i]
  BY <1>1, <1>3
<1>5. Len(p) = Len(s) BY <1>1
<1>6. \A i \in DOMAIN s : p[i].time = s[i].time BY <1>4
<1>7. \A j \in DOMAIN s : \A i \in 1 .. j : i \in DOMAIN s BY <1>1
<1>8. InTime(p, n) BY <1>4, <1>6, <1>7 DEF InTime
<1>9. p # << >> BY <1>1, <1>4
<1> QED BY <1>4, <1>5, <1>8, <1>9

\* A point is added, and the first or the last one removed.
LEMMA MovedSeq ==
  ASSUME NEW s \in Seq(Point), NEW n \in Nat, InTime(s, n), NEW x \in Point, x.time = n
  PROVE  /\ InTime(Append(s, x), n)
         /\ s # << >> => InTime(Tail(s), n) /\ InTime(SubSeq(s, 1, Len(s) - 1), n)
<1>1. /\ s \in [1 .. Len(s) -> Point] /\ DOMAIN s = 1 .. Len(s) /\ Len(s) \in Nat
      /\ \A i \in 1 .. Len(s) : s[i].time \in Nat
  <2>1. s \in [1 .. Len(s) -> Point] /\ DOMAIN s = 1 .. Len(s) /\ Len(s) \in Nat OBVIOUS
  <2>2. \A i \in 1 .. Len(s) : s[i].time \in 0 .. MaxTime BY <2>1 DEF Point
  <2> QED BY <2>1, <2>2
<1>2. InTime(Append(s, x), n)
  <2> DEFINE p == Append(s, x)
  <2>1. /\ DOMAIN p = 1 .. Len(s) + 1 /\ p[Len(s) + 1] = x
        /\ \A i \in 1 .. Len(s) : p[i] = s[i]
    BY <1>1, AppendProperties
  <2> HIDE DEF p
  <2>2. ASSUME NEW j \in DOMAIN p PROVE p[j].time <= n /\ \A i \in 1 .. j : p[i].time <= p[j].time
    <3>1. CASE j = Len(s) + 1
      <4>1. \A i \in 1 .. Len(s) : s[i].time <= n BY <1>1 DEF InTime
      <4> QED BY <1>1, <2>1, <3>1, <4>1
    <3>2. CASE j # Len(s) + 1
      <4>1. j \in DOMAIN s /\ \A i \in 1 .. j : i \in 1 .. Len(s) BY <1>1, <2>1, <3>2
      <4> QED BY <1>1, <2>1, <4>1 DEF InTime
    <3> QED BY <3>1, <3>2
  <2> QED BY <2>2 DEF InTime, p
<1>3. ASSUME s # << >> PROVE InTime(Tail(s), n)
  <2> DEFINE p == Tail(s)
  <2>1. /\ DOMAIN p = 1 .. Len(s) - 1 /\ \A i \in 1 .. Len(s) - 1 : p[i] = s[i + 1]
    BY <1>3
  <2> HIDE DEF p
  <2>2. ASSUME NEW j \in DOMAIN p PROVE p[j].time <= n /\ \A i \in 1 .. j : p[i].time <= p[j].time
    <3>1. j + 1 \in DOMAIN s /\ p[j] = s[j + 1] BY <1>1, <2>1
    <3>2. \A i \in 1 .. j : p[i] = s[i + 1] /\ i + 1 \in 1 .. j + 1 BY <1>1, <2>1
    <3> QED BY <3>1, <3>2 DEF InTime
  <2> QED BY <2>2 DEF InTime, p
<1>4. ASSUME s # << >> PROVE InTime(SubSeq(s, 1, Len(s) - 1), n)
  <2> DEFINE p == SubSeq(s, 1, Len(s) - 1)
  <2>1. /\ DOMAIN p = 1 .. Len(s) - 1 /\ \A i \in 1 .. Len(s) - 1 : p[i] = s[i]
    <3>1. Len(s) # 0 BY <1>1, <1>4
    <3> QED BY <1>1, <3>1
  <2> HIDE DEF p
  <2>2. \A j \in DOMAIN p : j \in DOMAIN s /\ p[j] = s[j] /\ \A i \in 1 .. j : p[i] = s[i]
    BY <1>1, <2>1
  <2> QED BY <2>2 DEF InTime, p
<1> QED BY <1>2, <1>3, <1>4

\* The manifest of the first point is removed: only its files differ.
Erased(s, p) ==
    /\ DOMAIN p = DOMAIN s /\ Len(p) = Len(s)
    /\ \A i \in DOMAIN s : p[i].time = s[i].time /\ (i # 1 => p[i] = s[i])
    /\ p[1].files = Unreadable

\* The newest point is not the one whose manifest is removed.
LEMMA ErasedFirst ==
  ASSUME NEW s \in Seq(Point), NEW n, InTime(s, n), Len(s) > 1, NEW p, Erased(s, p)
  PROVE  InTime(p, n) /\ Len(p) \in Nat /\ p # << >> /\ p[Len(p)] = s[Len(s)]
<1>1. DOMAIN s = 1 .. Len(s) /\ Len(s) \in Nat OBVIOUS
<1>2. Len(s) \in DOMAIN s /\ Len(s) # 1 BY <1>1
<1>3. \A j \in DOMAIN s : \A i \in 1 .. j : i \in DOMAIN s BY <1>1
<1>4. InTime(p, n) BY <1>3 DEF Erased, InTime
<1>5. p # << >> BY <1>1, <1>2 DEF Erased
<1> QED BY <1>1, <1>2, <1>4, <1>5 DEF Erased

\* The first point is removed.
LEMMA DroppedFirst ==
  ASSUME NEW s \in Seq(Point), NEW n \in Nat, InTime(s, n), Len(s) > 1,
         NEW x \in Point, x.time = n
  PROVE  LET p == Tail(s) IN
         InTime(p, n) /\ Len(p) \in Nat /\ p # << >> /\ p[Len(p)] = s[Len(s)]
<1> DEFINE p == Tail(s)
<1>1. Len(s) \in Nat /\ s # << >> OBVIOUS
<1>2. InTime(p, n) BY <1>1, MovedSeq
<1>3. Len(p) = Len(s) - 1 /\ \A i \in 1 .. Len(p) : p[i] = s[i + 1]
  BY <1>1, HeadTailProperties
<1> HIDE DEF p
<1>4. PICK m \in Nat : m = Len(s) - 1 /\ m > 0 BY <1>1
<1>5. m \in 1 .. Len(p) /\ m + 1 = Len(s) BY <1>1, <1>3, <1>4
<1>6. p[m] = s[Len(s)] BY <1>3, <1>5
<1>7. Len(p) = m /\ p # << >> BY <1>3, <1>4
<1> QED BY <1>2, <1>4, <1>6, <1>7 DEF p

\* The points of the tiers after a step of a run.
LEMMA TierPoints ==
  ASSUME TypeInv
  PROVE  /\ points \in [Tiers -> Seq(Point)] /\ now \in Nat /\ now \in 0 .. MaxTime
         /\ [time |-> now, files |-> Unreadable] \in Point
         /\ \A t \in Tiers : points[t] \in Seq(Point) /\ MaxPoints[t] \in Nat \ {0}
<1>1. points \in [Tiers -> Seq(Point)] /\ now \in 0 .. MaxTime BY DEF TypeInv, TypeOK, Point
<1>2. MaxTime \in Nat /\ MaxPoints \in [Tiers -> Nat \ {0}] BY MirrorAssumption
<1>3. [time |-> now, files |-> Unreadable] \in Point BY <1>1 DEF Point
<1>4. now \in Nat BY <1>1, <1>2
<1> QED BY <1>1, <1>2, <1>3, <1>4

\* The tier that is rotated has a second point, and its newest can be read.
LEMMA RotatedSeq ==
  ASSUME NEW t \in Tiers, TypeInv, PointsOk, Rotate(t)
  PROVE  /\ \A u \in Tiers : u # t => points'[u] = points[u]
         /\ LET s == points[t] IN
            /\ Len(s) \in Nat /\ Len(s) > 1 /\ LastReadable(t)
            /\ \/ Erased(s, points'[t])
               \/ points'[t] = Tail(s) /\ s[1].files = Unreadable
<1>1. /\ points \in [Tiers -> Seq(Point)] /\ points[t] \in Seq(Point)
      /\ MaxPoints[t] \in Nat \ {0}
  BY TierPoints
<1>2. Len(points[t]) > MaxPoints[t] /\ pc = "rotate" BY DEF Rotate
<1>3. Len(points[t]) \in Nat /\ Len(points[t]) > 1 BY <1>1, <1>2
<1>4. LastReadable(t) BY <1>2 DEF PointsOk
<1>5. \A u \in Tiers : u # t => points'[u] = points[u] BY <1>1 DEF Rotate
<1>6. \/ Erased(points[t], points'[t])
      \/ points'[t] = Tail(points[t]) /\ points[t][1].files = Unreadable
  <2>1. CASE points[t][1].files # Unreadable
    <3>1. points' = [points EXCEPT ![t] = [points[t] EXCEPT ![1].files = Unreadable]]
      BY <2>1 DEF Rotate
    <3>2. PICK s \in Seq(Point) : s = points[t] BY <1>1
    <3>3. PICK p : p = points'[t] OBVIOUS
    <3>4. p = [s EXCEPT ![1].files = Unreadable] BY <1>1, <3>1, <3>2, <3>3
    <3>5. s \in [1 .. Len(s) -> Point] /\ DOMAIN s = 1 .. Len(s) /\ Len(s) \in Nat OBVIOUS
    <3>6. 1 \in 1 .. Len(s) BY <1>3, <3>2
    <3>7. s[1] = [time |-> s[1].time, files |-> s[1].files] BY <3>5, <3>6 DEF Point
    <3>8. [s[1] EXCEPT !.files = Unreadable] = [time |-> s[1].time, files |-> Unreadable] BY <3>7
    <3>9. /\ DOMAIN p = DOMAIN s /\ p[1] = [time |-> s[1].time, files |-> Unreadable]
          /\ \A i \in DOMAIN s : i # 1 => p[i] = s[i]
      BY <3>4, <3>5, <3>6, <3>8
    <3>10. Len(p) = Len(s) BY <3>5, <3>9
    <3>11. \A i \in DOMAIN s : p[i].time = s[i].time BY <3>9
    <3>12. p[1].files = Unreadable BY <3>9
    <3> QED BY <3>2, <3>3, <3>9, <3>10, <3>11, <3>12 DEF Erased
  <2>2. CASE points[t][1].files = Unreadable BY <1>1, <2>2 DEF Rotate
  <2> QED BY <2>1, <2>2
<1> QED BY <1>3, <1>4, <1>5, <1>6

\* The points stay in order, and the newest of each tier is readable when it must be.
LEMMA NextPointsOk == TypeInv /\ PointsOk /\ [Next]_vars => PointsOk'
<1> SUFFICES ASSUME TypeInv, PointsOk, [Next]_vars PROVE PointsOk'
  OBVIOUS
<1> USE DEF srcVars, diskVars, loopVars, stateVars
<1>0. /\ points \in [Tiers -> Seq(Point)] /\ now \in Nat
      /\ \A t \in Tiers : points[t] \in Seq(Point) /\ InTime(points[t], now)
      /\ pc \in Steps
  BY TierPoints DEF PointsOk, TypeInv, TypeOK
<1>1. ASSUME points' = points, now' = now, pc' \notin {"points", "point", "rotate"} PROVE PointsOk'
  BY <1>1 DEF PointsOk
<1>2. CASE UNCHANGED vars BY <1>2 DEF vars, PointsOk, LastReadable, LastPoint
<1>3. ASSUME NEW f \in Volatile, NEW c \in OrNone(Contents), Touch(f, c) PROVE PointsOk'
  BY <1>3 DEF Touch, PointsOk, LastReadable, LastPoint
<1>4. CASE Tick
  <2>1. now' = now + 1 /\ UNCHANGED <<points, pc, tier, tiers>> BY <1>4 DEF Tick
  <2>2. ASSUME NEW t \in Tiers PROVE InTime(points'[t], now')
    <3>1. \A j \in DOMAIN points[t] : points[t][j].time \in Nat
      <4>1. \A j \in DOMAIN points[t] : points[t][j] \in Point BY <1>0
      <4>2. \A x \in Point : x.time \in Nat BY DEF Point
      <4> QED BY <4>1, <4>2
    <3> QED BY <1>0, <2>1, <3>1 DEF InTime
  <2> QED BY <2>1, <2>2 DEF PointsOk, LastReadable, LastPoint
<1>5. CASE StartRun \/ Crash BY <1>1, <1>5 DEF StartRun, Crash, Forget
<1>6. ASSUME NEW f \in Paths, FileStep(f) PROVE PointsOk'
  BY <1>1, <1>6 DEF FileStep, InspectFails, Skip, Inspect, Delete, DeleteFails
<1>7. CASE CaptureStep
  BY <1>1, <1>7 DEF CaptureStep, CaptureFails, CaptureSame, Capture, Archive, ArchiveFails,
                    Replace, ReplaceFails, PutBack, NextFile
<1>8. CASE Verify \/ WriteManifestFails \/ CollectGarbage
  BY <1>1, <1>8 DEF Verify, WriteManifestFails, CollectGarbage, Forget
<1>9. CASE WriteManifest
  <2>1. CASE failed BY <1>1, <1>9, <2>1 DEF WriteManifest, Forget
  <2>2. CASE ~failed BY <1>9, <2>2 DEF WriteManifest, PointsOk
  <2> QED BY <2>1, <2>2
<1>10. ASSUME NEW t \in Tiers, NotDue(t) PROVE PointsOk'
  <2>1. LastReadable(t) BY <1>10 DEF NotDue, TierIsDue, LastReadable
  <2> QED BY <1>10, <2>1 DEF NotDue, PointsOk, LastReadable, LastPoint
<1>11. ASSUME NEW t \in Tiers, RotateFails(t) \/ Rotated(t) PROVE PointsOk'
  BY <1>11 DEF RotateFails, Rotated, PointsOk, LastReadable, LastPoint
<1>12. CASE AllPoints BY <1>12 DEF AllPoints, PointsOk, LastReadable, LastPoint
<1>13. ASSUME NEW t \in Tiers, CreatePoint(t) PROVE PointsOk'
  <2> DEFINE x == [time |-> now, files |-> Unreadable]
  <2>1. /\ points' = [points EXCEPT ![t] = Append(points[t], x)] /\ now' = now
        /\ pc = "points" /\ pc' = "point" /\ tiers' = tiers /\ t \in tiers /\ tier' = t
    BY <1>13 DEF CreatePoint
  <2>2. x \in Point /\ x.time = now BY TierPoints
  <2> HIDE DEF x
  <2>3. InTime(Append(points[t], x), now) BY <1>0, <2>2, MovedSeq
  <2>4. points'[t] = Append(points[t], x) /\ \A u \in Tiers : u # t => points'[u] = points[u]
    BY <1>0, <2>1
  <2>5. \A u \in Tiers : InTime(points'[u], now')
    <3>1. InTime(points'[t], now') BY <2>1, <2>3, <2>4, Zenon
    <3> QED BY <1>0, <2>1, <2>4, <3>1
  <2>6. \A u \in Tiers \ tiers' : LastReadable(u)'
    BY <2>1, <2>4 DEF PointsOk, LastReadable, LastPoint
  <2>7. points'[t][Len(points'[t])] = x
    <3>1. Append(points[t], x)[Len(Append(points[t], x))] = x BY <1>0, <2>2, AppendProperties
    <3> QED BY <2>4, <3>1
  <2>8. LastPoint(tier)'.files = Unreadable BY <2>1, <2>7 DEF LastPoint, x
  <2> QED BY <2>1, <2>5, <2>6, <2>8 DEF PointsOk
<1>14. CASE WritePoint
  <2>1. /\ pc = "point" /\ pc' = "points" /\ tier \in tiers /\ tier \in Tiers
        /\ points[tier] # << >> /\ tiers' = tiers \ {tier} /\ now' = now
        /\ points' = [points EXCEPT ![tier] = [points[tier] EXCEPT ![Len(points[tier])].files = files]]
        /\ files \in Manifests
    BY <1>14 DEF WritePoint, TypeInv, TypeOK, Locals
  <2>0. PICK t \in Tiers : t = tier BY <2>1
  <2>2. PICK s \in Seq(Point) : s = points[t] BY <1>0, <2>1
  <2>3. points'[t] = [s EXCEPT ![Len(s)].files = files]
        /\ \A u \in Tiers : u # t => points'[u] = points[u]
    BY <1>0, <2>0, <2>1, <2>2
  <2>4. Len(s) \in 1 .. Len(s) /\ InTime(s, now)
    <3>1. Len(s) \in Nat \ {0} BY <2>0, <2>1, <2>2
    <3> QED BY <1>0, <2>2, <3>1
  <2>5. /\ InTime(points'[t], now) /\ points'[t] # << >> /\ Len(points'[t]) = Len(s)
        /\ points'[t][Len(s)] = [time |-> s[Len(s)].time, files |-> files]
    BY <2>3, <2>4, WrittenSeq
  <2>6. files # Unreadable BY <2>1, BasicTypes
  <2>7. LastReadable(t)' BY <2>5, <2>6 DEF LastReadable, LastPoint
  <2>8. \A u \in Tiers : InTime(points'[u], now') BY <1>0, <2>1, <2>3, <2>5
  <2>9. \A u \in Tiers \ tiers' : LastReadable(u)'
    BY <2>0, <2>1, <2>3, <2>7 DEF PointsOk, LastReadable, LastPoint
  <2> QED BY <2>1, <2>8, <2>9 DEF PointsOk
<1>15. CASE WritePointFails
  <2>1. /\ pc = "point" /\ pc' = "idle" /\ tier \in Tiers /\ points[tier] # << >> /\ now' = now
        /\ \/ points' = points
           \/ points' = [points EXCEPT ![tier] = SubSeq(points[tier], 1, Len(points[tier]) - 1)]
    BY <1>15 DEF WritePointFails, Forget, TypeInv, TypeOK, Locals
  <2>2. [time |-> now, files |-> Unreadable] \in Point BY TierPoints
  <2>3. InTime(SubSeq(points[tier], 1, Len(points[tier]) - 1), now)
    <3>1. PICK x \in Point : x.time = now BY <2>2
    <3> QED BY <1>0, <2>1, <3>1, MovedSeq
  <2>4. \A u \in Tiers : InTime(points'[u], now') BY <1>0, <2>1, <2>3
  <2> QED BY <2>1, <2>4 DEF PointsOk
<1>16. ASSUME NEW t \in Tiers, Rotate(t) PROVE PointsOk'
  <2>1. PICK s \in Seq(Point) : s = points[t] BY <1>0
  <2>2. /\ \A u \in Tiers : u # t => points'[u] = points[u]
        /\ Len(s) \in Nat /\ Len(s) > 1 /\ s[Len(s)].files # Unreadable
        /\ Erased(s, points'[t]) \/ points'[t] = Tail(s)
    BY <1>16, <2>1, RotatedSeq DEF LastReadable, LastPoint
  <2>3. InTime(s, now) /\ s # << >> BY <1>0, <2>1, <2>2
  <2>4. InTime(points'[t], now) /\ LastReadable(t)'
    <3>1. PICK x \in Point : x.time = now
      <4>1. [time |-> now, files |-> Unreadable] \in Point BY TierPoints
      <4> QED BY <4>1
    <3>2. PICK p : p = points'[t] OBVIOUS
    <3>3. InTime(p, now) /\ Len(p) \in Nat /\ p # << >> /\ p[Len(p)] = s[Len(s)]
      <4>1. CASE Erased(s, points'[t]) BY <2>2, <2>3, <3>2, <4>1, ErasedFirst
      <4>2. CASE points'[t] = Tail(s) BY <1>0, <2>2, <2>3, <3>1, <3>2, <4>2, DroppedFirst
      <4> QED BY <2>2, <4>1, <4>2
    <3> QED BY <2>2, <3>2, <3>3 DEF LastReadable, LastPoint
  <2>5. pc' = pc /\ pc = "rotate" /\ now' = now BY <1>16 DEF Rotate
  <2>6. \A u \in Tiers : InTime(points'[u], now') BY <1>0, <2>2, <2>4, <2>5
  <2>7. \A u \in Tiers : LastReadable(u)'
    BY <2>2, <2>4, <2>5 DEF PointsOk, LastReadable, LastPoint
  <2> QED BY <2>5, <2>6, <2>7 DEF PointsOk
<1> QED BY <1>2, <1>3, <1>4, <1>5, <1>6, <1>7, <1>8, <1>9, <1>10, <1>11, <1>12, <1>13, <1>14,
           <1>15, <1>16 DEF Next, RunStep, TierStep

\* The invariant holds of an empty target.
LEMMA InitHistoryInv == Init => HistoryInv
<1> SUFFICES ASSUME Init PROVE HistoryInv
  OBVIOUS
<1>1. TypeInv BY InitTypeInv
<1>2. pc = "idle" /\ data = NoFiles /\ manifest.files = NoFiles /\ points = [t \in Tiers |-> << >>]
  BY DEF Init, NoManifest
<1>3. ManifestOk /\ WitnessOk /\ FaithOk
  BY <1>2 DEF ManifestOk, WitnessOk, FaithOk, Looping, Capturing, Pointing
<1>4. CompleteOk BY <1>2, BasicTypes DEF CompleteOk
<1>5. PointsOk BY <1>2 DEF PointsOk, InTime
<1> QED BY <1>1, <1>3, <1>4, <1>5 DEF HistoryInv

\* Without a lost run a file that is passed over is in the mirror as the manifest says.
LEMMA CompleteSkips == ASSUME TypeInv, CompleteOk PROVE SkipOk
<1> SUFFICES ASSUME NEW f \in Paths, pc \in {"files", "capture"}, data[f] # None
             PROVE data[f] = files[f]
  BY DEF SkipOk
<1> QED BY DEF CompleteOk, Working

\* Every step of the source, of a run and of a crash keeps the invariant.
LEMMA NextHistoryInv == HistoryInv /\ [Next]_vars => HistoryInv'
<1> SUFFICES ASSUME HistoryInv, [Next]_vars PROVE HistoryInv'
  OBVIOUS
<1>1. TypeInv /\ ManifestOk /\ WitnessOk /\ PointsOk BY DEF HistoryInv
<1>2. TypeInv' /\ ManifestOk' /\ WitnessOk' /\ PointsOk'
  BY <1>1, NextTypeInv, NextManifestOk, NextWitnessOk, NextPointsOk
<1>3. ASSUME ~crashed' PROVE CompleteOk' /\ FaithOk'
  <2>1. ~crashed
    <3>1. crashed' = crashed \/ \E k \in Kinds : crashed' = (crashed \/ k = "crash")
      BY NextBudget DEF Spare, Spend
    <3>2. crashed \in BOOLEAN BY <1>1 DEF TypeInv, TypeOK
    <3> QED BY <1>3, <3>1, <3>2
  <2>2. CompleteOk /\ FaithOk BY <2>1 DEF HistoryInv
  <2> QED BY <1>1, <1>3, <2>2, CompleteSkips, NextCompleteOk, NextFaithOk
<1> QED BY <1>2, <1>3 DEF HistoryInv

\* The invariant that the theorems about the backup rest on.
LEMMA MirrorSafety == Spec => []HistoryInv
<1> QED BY InitHistoryInv, NextHistoryInv, PTL DEF Spec

(* Whatever is written, removed or put back in the source while a run copies it, whatever
   operation fails, and however often a run is repeated (updateMirrorHistory): a run that
   gets as far as its restore points has made current\data exactly what its manifest says,
   unless a run was lost before it. *)
THEOREM MirrorHolds == Spec => []MirrorInv
<1>1. HistoryInv => MirrorInv
  <2> SUFFICES ASSUME HistoryInv PROVE MirrorInv
    OBVIOUS
  <2>1. TypeOK BY DEF HistoryInv, TypeInv
  <2>2. ASSUME pc \in {"points", "point", "rotate"}, ~crashed PROVE data = manifest.files
    <3>1. /\ \A f \in Paths : data[f] \in {None, files[f]}
          /\ ~failed => \A f \in Present(files) : data[f] = files[f]
          /\ files = manifest.files /\ ~failed
      BY <2>2 DEF HistoryInv, TypeInv, Locals, CompleteOk, FaithOk, ManifestOk, Working, Pointing
    <3>2. data \in [Paths -> OrNone(Stored)] /\ files \in [Paths -> OrNone(Contents)]
      BY <2>1 DEF TypeOK, Manifests
    <3>3. \A f \in Paths : data[f] = files[f] BY <3>1, <3>2 DEF Present
    <3> QED BY <3>1, <3>2, <3>3
  <2> QED BY <2>1, <2>2 DEF MirrorInv, CompleteMirror
<1> QED BY <1>1, MirrorSafety, PTL

\* The points of s that can be read, and p has one as new as each of them.
ReadableIn(s) == {r \in {s[i] : i \in DOMAIN s} : r.files # Unreadable}
Outdates(p, s) == \A r \in ReadableIn(s) : \E q \in ReadableIn(p) : q.time >= r.time

\* A step that takes no readable point from a tier.
LEMMA KeptReadable ==
  ASSUME NEW s \in Seq(Point), NEW p, ReadableIn(s) \subseteq ReadableIn(p)
  PROVE  Outdates(p, s)
<1>1. \A x \in Point : x.time \in Nat
  <2>1. MaxTime \in Nat BY MirrorAssumption
  <2> QED BY <2>1 DEF Point
<1>2. \A r \in ReadableIn(s) : r.time \in Nat
  <2>1. s \in [1 .. Len(s) -> Point] /\ DOMAIN s = 1 .. Len(s) OBVIOUS
  <2> QED BY <1>1, <2>1 DEF ReadableIn
<1>3. \A r \in ReadableIn(s) : r.time >= r.time BY <1>2
<1> QED BY <1>3 DEF Outdates

\* The directory of a point comes, or goes again before its manifest is written.
LEMMA EmptyPoint ==
  ASSUME NEW s \in Seq(Point), NEW x \in Point, x.files = Unreadable
  PROVE  /\ ReadableIn(Append(s, x)) = ReadableIn(s)
         /\ s # << >> /\ s[Len(s)].files = Unreadable =>
               ReadableIn(SubSeq(s, 1, Len(s) - 1)) = ReadableIn(s)
<1>1. DOMAIN s = 1 .. Len(s) /\ Len(s) \in Nat OBVIOUS
<1>2. ReadableIn(Append(s, x)) = ReadableIn(s)
  <2> DEFINE p == Append(s, x)
  <2>1. /\ DOMAIN p = 1 .. Len(s) + 1 /\ p[Len(s) + 1] = x
        /\ \A i \in 1 .. Len(s) : p[i] = s[i]
    BY <1>1, AppendProperties
  <2> HIDE DEF p
  <2>2. \A i \in DOMAIN p : i \in DOMAIN s \/ i = Len(s) + 1 BY <1>1, <2>1
  <2>3. DOMAIN s \subseteq DOMAIN p BY <1>1, <2>1
  <2>4. ReadableIn(p) = ReadableIn(s) BY <1>1, <2>1, <2>2, <2>3 DEF ReadableIn
  <2> QED BY <2>4 DEF p
<1>3. ASSUME s # << >>, s[Len(s)].files = Unreadable
      PROVE  ReadableIn(SubSeq(s, 1, Len(s) - 1)) = ReadableIn(s)
  <2> DEFINE p == SubSeq(s, 1, Len(s) - 1)
  <2>1. /\ DOMAIN p = 1 .. Len(s) - 1 /\ \A i \in 1 .. Len(s) - 1 : p[i] = s[i]
    <3>1. Len(s) # 0 BY <1>1, <1>3
    <3> QED BY <1>1, <3>1
  <2> HIDE DEF p
  <2>2. \A i \in DOMAIN s : i \in DOMAIN p \/ i = Len(s) BY <1>1, <2>1
  <2>3. DOMAIN p \subseteq DOMAIN s BY <1>1, <2>1
  <2>4. ReadableIn(p) = ReadableIn(s) BY <1>3, <2>1, <2>2, <2>3 DEF ReadableIn
  <2> QED BY <2>4 DEF p
<1> QED BY <1>2, <1>3

\* The manifest of the newest point is written.
LEMMA FilledPoint ==
  ASSUME NEW s \in Seq(Point), s # << >>, s[Len(s)].files = Unreadable, NEW fs,
         NEW p, DOMAIN p = DOMAIN s,
         p[Len(s)] = [time |-> s[Len(s)].time, files |-> fs],
         \A i \in DOMAIN s : i # Len(s) => p[i] = s[i]
  PROVE  /\ ReadableIn(s) \subseteq ReadableIn(p)
         /\ \A r \in ReadableIn(p) \ ReadableIn(s) : r.files = fs
<1>1. \A r \in ReadableIn(s) : \E i \in DOMAIN s : r = s[i] /\ i # Len(s) /\ r.files # Unreadable
  BY DEF ReadableIn
<1>2. ReadableIn(s) \subseteq ReadableIn(p) BY <1>1 DEF ReadableIn
<1>3. \A r \in ReadableIn(p) : \E i \in DOMAIN s : r = p[i] /\ r.files # Unreadable
  BY DEF ReadableIn
<1>4. ASSUME NEW r \in ReadableIn(p) \ ReadableIn(s) PROVE r.files = fs
  <2>1. PICK i \in DOMAIN s : r = p[i] /\ r.files # Unreadable BY <1>3, <1>4
  <2>2. CASE i = Len(s) BY <2>1, <2>2
  <2>3. CASE i # Len(s) BY <1>4, <2>1, <2>3 DEF ReadableIn
  <2> QED BY <2>2, <2>3
<1> QED BY <1>2, <1>4

\* The index of the newest point after the oldest is gone.
LEMMA OneLess ==
  ASSUME NEW k \in Nat, k > 1
  PROVE  \E m \in 1 .. k - 1 : m + 1 = k
<1>1. k - 1 \in 1 .. k - 1 /\ (k - 1) + 1 = k OBVIOUS
<1> QED BY <1>1

\* A tier loses its oldest point: the newest one, which can be read, outdates it.
LEMMA OldestGoes ==
  ASSUME NEW s \in Seq(Point), NEW n, InTime(s, n), Len(s) > 1, s[Len(s)].files # Unreadable,
         NEW p, Erased(s, p) \/ p = Tail(s)
  PROVE  ReadableIn(p) \subseteq ReadableIn(s) /\ Outdates(p, s)
<1>1. DOMAIN s = 1 .. Len(s) /\ Len(s) \in Nat OBVIOUS
<1>2. /\ \A i \in DOMAIN p : p[i].files # Unreadable => \E j \in DOMAIN s : p[i] = s[j]
      /\ \E i \in DOMAIN p : p[i] = s[Len(s)]
  <2>1. CASE p = Tail(s)
    <3>1. /\ DOMAIN p = 1 .. Len(s) - 1 /\ \A i \in 1 .. Len(s) - 1 : p[i] = s[i + 1]
      BY <2>1
    <3>2. PICK m \in 1 .. Len(s) - 1 : m + 1 = Len(s) BY <1>1, OneLess
    <3>3. m \in DOMAIN p /\ m + 1 = Len(s) BY <3>1, <3>2
    <3>4. p[m] = s[Len(s)] BY <3>1, <3>3
    <3>5. \A i \in DOMAIN p : i + 1 \in DOMAIN s /\ p[i] = s[i + 1] BY <1>1, <3>1
    <3> QED BY <3>3, <3>4, <3>5
  <2>2. CASE Erased(s, p)
    <3>1. Len(s) \in DOMAIN s /\ Len(s) # 1 BY <1>1
    <3>2. DOMAIN p = DOMAIN s /\ p[1].files = Unreadable /\ \A i \in DOMAIN s : i # 1 => p[i] = s[i]
      BY <2>2 DEF Erased
    <3> QED BY <3>1, <3>2
  <2> QED BY <2>1, <2>2
<1>3. ReadableIn(p) \subseteq ReadableIn(s) BY <1>2 DEF ReadableIn
<1>4. s[Len(s)] \in ReadableIn(p) BY <1>2 DEF ReadableIn
<1>5. \A i \in DOMAIN s : s[i].time <= s[Len(s)].time
  <2>1. Len(s) \in DOMAIN s /\ \A i \in DOMAIN s : i \in 1 .. Len(s) BY <1>1
  <2> QED BY <2>1 DEF InTime
<1>6. \A i \in DOMAIN s : s[i].time \in Nat
  <2>1. MaxTime \in Nat BY MirrorAssumption
  <2>2. s \in [1 .. Len(s) -> Point] OBVIOUS
  <2> QED BY <1>1, <2>1, <2>2 DEF Point
<1>7. \A i \in DOMAIN s : s[Len(s)].time >= s[i].time
  <2>1. Len(s) \in DOMAIN s BY <1>1
  <2> QED BY <1>5, <1>6, <2>1
<1>8. Outdates(p, s) BY <1>4, <1>7 DEF Outdates, ReadableIn
<1> QED BY <1>3, <1>8

\* The steps that change a tier.
LEMMA NextPoints ==
  ASSUME [Next]_vars
  PROVE  \/ points' = points \/ WritePoint \/ WritePointFails
         \/ \E t \in Tiers : CreatePoint(t) \/ Rotate(t)
<1> USE DEF srcVars, diskVars
<1>1. CASE UNCHANGED vars BY <1>1 DEF vars
<1>2. CASE \/ \E f \in Volatile, c \in OrNone(Contents) : Touch(f, c)
           \/ Tick \/ StartRun \/ Crash
  BY <1>2 DEF Touch, Tick, StartRun, Crash
<1>3. ASSUME NEW f \in Paths, FileStep(f) PROVE points' = points
  BY <1>3 DEF FileStep, InspectFails, Skip, Inspect, Delete, DeleteFails
<1>4. CASE CaptureStep
  BY <1>4 DEF CaptureStep, CaptureFails, CaptureSame, Capture, Archive, ArchiveFails, Replace,
              ReplaceFails, PutBack, NextFile
<1>5. CASE Verify \/ WriteManifest \/ WriteManifestFails \/ AllPoints \/ CollectGarbage
  BY <1>5 DEF Verify, WriteManifest, WriteManifestFails, AllPoints, CollectGarbage
<1>6. ASSUME NEW t \in Tiers, NotDue(t) \/ RotateFails(t) \/ Rotated(t) PROVE points' = points
  BY <1>6 DEF NotDue, RotateFails, Rotated
<1> QED BY <1>1, <1>2, <1>3, <1>4, <1>5, <1>6 DEF Next, RunStep, TierStep

\* What a step does to the readable points of a tier.
PointsStep(t) ==
    /\ \A r \in ReadableIn(points'[t]) \ ReadableIn(points[t]) : pc = "point" /\ r.files = files
    /\ Outdates(points'[t], points[t])

\* A new readable point says what the run's state says, and none goes without a newer one.
LEMMA NextPointsTrue ==
  ASSUME TypeInv, PointsOk, [Next]_vars, NEW t \in Tiers
  PROVE  PointsStep(t)
<1>1. /\ points \in [Tiers -> Seq(Point)] /\ points[t] \in Seq(Point) /\ InTime(points[t], now)
  BY TierPoints DEF PointsOk
<1>2. ASSUME ReadableIn(points'[t]) = ReadableIn(points[t]) PROVE PointsStep(t)
  <2>1. PICK p : p = points'[t] OBVIOUS
  <2>2. Outdates(p, points[t]) BY <1>1, <1>2, <2>1, KeptReadable
  <2> QED BY <1>2, <2>1, <2>2 DEF PointsStep
<1>3. CASE points' = points BY <1>2, <1>3
<1>4. CASE WritePoint
  <2>1. /\ pc = "point" /\ tier \in Tiers /\ points[tier] # << >>
        /\ points' = [points EXCEPT ![tier] = [points[tier] EXCEPT ![Len(points[tier])].files = files]]
        /\ LastPoint(tier).files = Unreadable
    BY <1>4 DEF WritePoint, TypeInv, TypeOK, Locals, PointsOk
  <2>2. CASE t # tier BY <1>1, <1>2, <2>1, <2>2
  <2>3. CASE t = tier
    <3>1. PICK s \in Seq(Point) : s = points[t] BY <1>1
    <3>2. points'[t] = [s EXCEPT ![Len(s)].files = files] BY <1>1, <2>1, <2>3, <3>1
    <3>3. Len(s) \in 1 .. Len(s) /\ InTime(s, now) /\ s # << >> /\ s[Len(s)].files = Unreadable
      <4>1. s # << >> /\ s[Len(s)].files = Unreadable BY <2>1, <2>3, <3>1 DEF LastPoint
      <4>2. Len(s) \in Nat \ {0} BY <4>1
      <4> QED BY <1>1, <3>1, <4>1, <4>2
    <3>0. Len(s) \in 1 .. Len(s) /\ InTime(s, now) BY <3>3
    <3>4. /\ DOMAIN points'[t] = DOMAIN s
          /\ points'[t][Len(s)] = [time |-> s[Len(s)].time, files |-> files]
          /\ \A i \in DOMAIN s : i # Len(s) => points'[t][i] = s[i]
      BY <3>0, <3>2, WrittenSeq
    <3>5. /\ ReadableIn(s) \subseteq ReadableIn(points'[t])
          /\ \A r \in ReadableIn(points'[t]) \ ReadableIn(s) : r.files = files
      BY <3>3, <3>4, FilledPoint
    <3>6. Outdates(points'[t], s) BY <3>5, KeptReadable
    <3> QED BY <2>1, <3>1, <3>5, <3>6 DEF PointsStep
  <2> QED BY <2>2, <2>3
<1>5. CASE WritePointFails
  <2>1. /\ pc = "point" /\ tier \in Tiers /\ points[tier] # << >>
        /\ \/ points' = points
           \/ points' = [points EXCEPT ![tier] = SubSeq(points[tier], 1, Len(points[tier]) - 1)]
        /\ LastPoint(tier).files = Unreadable
    BY <1>5 DEF WritePointFails, TypeInv, TypeOK, Locals, PointsOk
  <2>2. CASE t # tier \/ points' = points BY <1>1, <1>2, <2>1, <2>2
  <2>3. CASE t = tier /\ points' # points
    <3>1. PICK s \in Seq(Point) : s = points[t] BY <1>1
    <3>2. points'[t] = SubSeq(s, 1, Len(s) - 1) BY <1>1, <2>1, <2>3, <3>1
    <3>3. s # << >> /\ s[Len(s)].files = Unreadable BY <2>1, <2>3, <3>1 DEF LastPoint
    <3>4. PICK x \in Point : x.files = Unreadable
      <4>1. [time |-> now, files |-> Unreadable] \in Point BY TierPoints
      <4> QED BY <4>1
    <3>5. ReadableIn(points'[t]) = ReadableIn(s) BY <3>2, <3>3, <3>4, EmptyPoint
    <3> QED BY <1>2, <3>1, <3>5
  <2> QED BY <2>2, <2>3
<1>6. ASSUME NEW u \in Tiers, CreatePoint(u) PROVE PointsStep(t)
  <2> DEFINE x == [time |-> now, files |-> Unreadable]
  <2>1. points' = [points EXCEPT ![u] = Append(points[u], x)] BY <1>6 DEF CreatePoint
  <2>2. x \in Point /\ x.files = Unreadable BY TierPoints
  <2> HIDE DEF x
  <2>3. ReadableIn(points'[t]) = ReadableIn(points[t])
    <3>1. CASE t # u BY <1>1, <2>1, <3>1
    <3>2. CASE t = u
      <4>1. points'[t] = Append(points[t], x) BY <1>1, <2>1, <3>2
      <4>2. ReadableIn(Append(points[t], x)) = ReadableIn(points[t]) BY <1>1, <2>2, EmptyPoint
      <4> QED BY <4>1, <4>2
    <3> QED BY <3>1, <3>2
  <2> QED BY <1>2, <2>3
<1>7. ASSUME NEW u \in Tiers, Rotate(u) PROVE PointsStep(t)
  <2>1. CASE t # u
    <3>1. points'[t] = points[t] BY <1>7, <2>1, RotatedSeq
    <3> QED BY <1>2, <3>1
  <2>2. CASE t = u
    <3>1. PICK s \in Seq(Point) : s = points[t] BY <1>1
    <3>2. /\ Len(s) > 1 /\ s[Len(s)].files # Unreadable
          /\ Erased(s, points'[t]) \/ points'[t] = Tail(s)
      BY <1>7, <2>2, <3>1, RotatedSeq DEF LastReadable, LastPoint
    <3>3. InTime(s, now) BY <1>1, <3>1
    <3>4. ReadableIn(points'[t]) \subseteq ReadableIn(s) /\ Outdates(points'[t], s)
      BY <3>2, <3>3, OldestGoes
    <3> QED BY <3>1, <3>4 DEF PointsStep
  <2> QED BY <2>1, <2>2
<1> QED BY <1>3, <1>4, <1>5, <1>6, <1>7, NextPoints

(* What a restore point says of a file, its absence included, the source said while the run
   that made the point was under way; and however runs die between making the directory of
   a point and writing its manifest, rotateRestorePoints, which counts the empty directories
   too, never takes the newest readable point of a tier. *)
THEOREM PointsAreTrue == Spec => PointsTrue
<1>1. ASSUME HistoryInv, [Next]_vars
      PROVE  /\ \A t \in Tiers : \A r \in Readable(t)' \ Readable(t) :
                  \A f \in Paths : r.files[f] \in seen[f]
             /\ \A t \in Tiers : \A r \in Readable(t) :
                  \E n \in Readable(t)' : n.time >= r.time
  <2>1. \A t \in Tiers : PointsStep(t) BY <1>1, NextPointsTrue DEF HistoryInv
  <2>2. \A t \in Tiers : /\ Readable(t) = ReadableIn(points[t])
                         /\ Readable(t)' = ReadableIn(points'[t])
    BY DEF Readable, ReadableIn
  <2>3. pc = "point" => \A f \in Paths : files[f] \in seen[f]
    BY <1>1 DEF HistoryInv, TypeInv, Locals, WitnessOk, Pointing
  <2> QED BY <2>1, <2>2, <2>3 DEF PointsStep, Outdates
<1> QED BY <1>1, MirrorSafety, PTL DEF Spec, PointsTrue, PointsWitnessed, NewestPointKept

\* Where the source never returns to an earlier content, a run that passes over a file finds
\* the newest content of it in the mirror.
LEMMA OrderSkips == ASSUME TypeInv, OrderOk PROVE SkipOk
<1> SUFFICES ASSUME NEW f \in Paths, pc \in {"files", "capture"}, source[f] # None,
                    data[f] # None, files[f] = source[f], data[f] # files[f]
             PROVE FALSE
  BY DEF SkipOk
<1>1. source[f] = versions[f] /\ versions[f] \in Nat
  BY BasicTypes DEF OrderOk, TypeInv, TypeOK
<1>2. Fresh(files, data, versions) BY DEF OrderOk, Working
<1>4. files[f] < versions[f] BY <1>2 DEF Fresh
<1> QED BY <1>1, <1>4

\* The contents a source file has had only become more.
LEMMA NextVersions ==
  ASSUME TypeInv, OrderOk, budget.revert = 0, [Next]_vars
  PROVE  /\ \A f \in Paths : versions[f] \in Nat /\ versions'[f] \in Nat
         /\ \A f \in Paths : versions'[f] >= versions[f] /\ source'[f] \in {None, versions'[f]}
<1>0. /\ versions \in [Paths -> Contents] /\ source \in [Paths -> OrNone(Contents)]
      /\ Contents \subseteq Nat /\ \A f \in Paths : source[f] \in {None, versions[f]}
      /\ Volatile \subseteq Paths
  BY BasicTypes, MirrorAssumption DEF TypeInv, TypeOK, Manifests, OrderOk
<1>1. \A f \in Paths : versions[f] \in Nat BY <1>0
<1>2. CASE versions' = versions /\ source' = source BY <1>0, <1>1, <1>2
<1>3. ASSUME NEW f \in Volatile, NEW c \in OrNone(Contents), Touch(f, c)
      PROVE  /\ \A g \in Paths : versions[g] \in Nat /\ versions'[g] \in Nat
             /\ \A g \in Paths : versions'[g] >= versions[g] /\ source'[g] \in {None, versions'[g]}
  <2>1. ~Spend("revert") BY DEF Spend
  <2>2. /\ source' = [source EXCEPT ![f] = c]
        /\ \/ c = None /\ versions' = versions
           \/ c = versions[f] + 1 /\ versions' = [versions EXCEPT ![f] = c]
           \/ c = None /\ versions' = [versions EXCEPT ![f] = c] /\ c # None
    BY <1>3, <2>1 DEF Touch
  <2> QED BY <1>0, <1>1, <2>2
<1>4. \/ versions' = versions /\ source' = source
      \/ \E f \in Volatile, c \in OrNone(Contents) : Touch(f, c)
  <2> USE DEF srcVars, diskVars
  <2>1. CASE UNCHANGED vars BY <2>1 DEF vars
  <2>2. CASE Tick \/ StartRun \/ Crash BY <2>2 DEF Tick, StartRun, Crash
  <2>3. ASSUME NEW f \in Paths, FileStep(f) PROVE versions' = versions /\ source' = source
    BY <2>3 DEF FileStep, InspectFails, Skip, Inspect, Delete, DeleteFails
  <2>4. CASE CaptureStep
    BY <2>4 DEF CaptureStep, CaptureFails, CaptureSame, Capture, Archive, ArchiveFails, Replace,
                ReplaceFails, PutBack, NextFile
  <2>5. CASE \/ Verify \/ WriteManifest \/ WriteManifestFails \/ AllPoints \/ CollectGarbage
             \/ WritePoint \/ WritePointFails
    BY <2>5 DEF Verify, WriteManifest, WriteManifestFails, AllPoints, CollectGarbage, WritePoint,
                WritePointFails
  <2>6. ASSUME NEW t \in Tiers, TierStep(t) PROVE versions' = versions /\ source' = source
    BY <2>6 DEF TierStep, NotDue, CreatePoint, Rotate, RotateFails, Rotated
  <2> QED BY <2>1, <2>2, <2>3, <2>4, <2>5, <2>6 DEF Next, RunStep
<1> QED BY <1>2, <1>3, <1>4

\* Its files, and what they were before this run, are never ahead of the source.
LEMMA NextOrderOk ==
  ASSUME TypeInv, ManifestOk, OrderOk, budget.revert = 0, [Next]_vars
  PROVE  OrderOk'
<1>0. /\ manifest.files \in Manifests /\ files \in Manifests /\ Contents \subseteq Nat
      /\ data \in [Paths -> OrNone(Stored)] /\ versions \in [Paths -> Contents]
      /\ None \notin Contents /\ Torn \notin Contents /\ Locals /\ pc \in Steps
      /\ \A f \in Paths : source[f] \in {None, versions[f]}
  BY BasicTypes DEF TypeInv, TypeOK, OrderOk
<1>1. /\ \A f \in Paths : versions[f] \in Nat /\ versions'[f] \in Nat
      /\ \A f \in Paths : versions'[f] >= versions[f] /\ source'[f] \in {None, versions'[f]}
  BY NextVersions
<1>2. ASSUME NEW fs \in Manifests, Fresh(fs, data, versions),
             \A f \in Paths : \/ data'[f] \in {data[f], None, fs[f]}
                              \/ fs[f] \in Contents => fs[f] < versions[f]
      PROVE  Fresh(fs, data', versions')
  <2> SUFFICES ASSUME NEW f \in Paths, fs[f] # None
               PROVE  fs[f] <= versions'[f] /\ (data'[f] \notin {None, fs[f]} => fs[f] < versions'[f])
    BY DEF Fresh
  <2>1. fs[f] \in Contents /\ fs[f] \in Nat BY <1>0 DEF Manifests, OrNone
  <2>2. fs[f] <= versions[f] /\ (data[f] \notin {None, fs[f]} => fs[f] < versions[f])
    BY <1>2 DEF Fresh
  <2>3. versions[f] \in Nat /\ versions'[f] \in Nat /\ versions'[f] >= versions[f] BY <1>1
  <2>4. data'[f] \in {data[f], None, fs[f]} \/ fs[f] < versions[f] BY <1>2, <2>1
  <2> QED BY <2>1, <2>2, <2>3, <2>4
<1>3. Fresh(manifest.files, data, versions) /\ Fresh(Working, data, versions) BY DEF OrderOk
<1>4. Working \in Manifests BY <1>0 DEF Working
\* The mirror is left alone, and so is what the run holds.
<1>5. ASSUME data' = data, manifest' = manifest, Working' \in {manifest.files, Working},
             pc' \notin {"archive", "replace", "putback"}
      PROVE  OrderOk'
  <2>1. Fresh(manifest.files, data', versions') /\ Fresh(Working, data', versions')
    BY <1>0, <1>2, <1>3, <1>4, <1>5
  <2> QED BY <1>1, <1>5, <2>1 DEF OrderOk
<1>6. pc \in {"archive", "replace", "putback"} =>
          /\ file \in Paths /\ staged \in Nat /\ staged <= versions[file]
          /\ file \in todo /\ files[file] = manifest.files[file]
          /\ files[file] # None => files[file] \in Nat /\ files[file] <= staged
          /\ (IF pc = "archive" THEN data[file] ELSE old) # None /\ files[file] # None =>
                files[file] < versions[file]
  <2> SUFFICES ASSUME pc \in {"archive", "replace", "putback"}
               PROVE  /\ file \in Paths /\ staged \in Nat /\ file \in todo
                      /\ files[file] = manifest.files[file]
                      /\ files[file] # None => files[file] \in Nat
    BY DEF OrderOk
  <2>1. file \in todo /\ staged \in Contents BY <1>0 DEF Locals, Capturing
  <2>2. todo \subseteq Paths BY DEF TypeInv, TypeOK
  <2>3. files[file] = manifest.files[file] BY <2>1 DEF ManifestOk, Looping, Capturing
  <2>4. files[file] \in OrNone(Contents) BY <1>0, <2>1, <2>2 DEF Manifests
  <2> QED BY <1>0, <2>1, <2>2, <2>3, <2>4 DEF OrNone
<1> USE DEF srcVars, diskVars, loopVars, stateVars
<1>7. ASSUME UNCHANGED <<data, manifest, pc, files, file, staged, old>> PROVE OrderOk'
  <2>1. Working' = Working BY <1>7 DEF Working
  <2>2. CASE pc' \notin {"archive", "replace", "putback"} BY <1>5, <1>7, <2>1, <2>2
  <2>3. CASE pc \in {"archive", "replace", "putback"}
    <3>1. Fresh(manifest.files, data', versions') /\ Fresh(Working, data', versions')
      BY <1>0, <1>2, <1>3, <1>4, <1>7
    <3>2. /\ staged <= versions'[file]
          /\ (IF pc = "archive" THEN data[file] ELSE old) # None /\ files[file] # None =>
                files[file] < versions'[file]
      BY <1>1, <1>6, <2>3
    <3> QED BY <1>1, <1>6, <1>7, <2>1, <2>3, <3>1, <3>2 DEF OrderOk
  <2> QED BY <1>7, <2>2, <2>3
<1>8. CASE UNCHANGED vars BY <1>7, <1>8 DEF vars
<1>9. CASE Tick \/ \E f \in Volatile, c \in OrNone(Contents) : Touch(f, c)
  BY <1>7, <1>9 DEF Tick, Touch
<1>10. CASE StartRun BY <1>5, <1>10 DEF StartRun, Working
<1>11. CASE Crash \/ WriteManifestFails \/ WritePointFails \/ CollectGarbage
  BY <1>5, <1>11 DEF Crash, WriteManifestFails, WritePointFails, CollectGarbage, Forget, Working
<1>12. ASSUME NEW f \in Paths, InspectFails(f) \/ Skip(f) \/ Inspect(f) \/ DeleteFails(f)
       PROVE OrderOk'
  BY <1>5, <1>12 DEF InspectFails, Skip, Inspect, DeleteFails, Working
<1>13. CASE CaptureFails \/ CaptureSame \/ ArchiveFails
  BY <1>5, <1>13 DEF CaptureFails, CaptureSame, ArchiveFails, NextFile, Working
<1>14. ASSUME Verify \/ AllPoints \/ WritePoint \/ \E t \in Tiers : TierStep(t) PROVE OrderOk'
  <2>1. CASE Verify \/ AllPoints \/ WritePoint
    BY <1>5, <2>1 DEF Verify, AllPoints, WritePoint, Working
  <2>2. ASSUME NEW t \in Tiers, TierStep(t) PROVE OrderOk'
    BY <1>5, <2>2 DEF TierStep, NotDue, CreatePoint, Rotate, RotateFails, Rotated, Working
  <2> QED BY <1>14, <2>1, <2>2
<1>15. CASE WriteManifest
  <2>1. /\ pc = "write" /\ data' = data /\ manifest'.files \in {files, manifest.files}
        /\ Working' \in {files, manifest'.files} /\ pc' \in {"idle", "points"}
    BY <1>15 DEF WriteManifest, Forget, Working
  <2>2. Working = files BY <2>1 DEF Working
  <2>3. Fresh(manifest.files, data', versions') /\ Fresh(files, data', versions')
    BY <1>0, <1>2, <1>3, <2>1, <2>2
  <2> QED BY <1>1, <2>1, <2>3 DEF OrderOk
<1>16. ASSUME NEW f \in Paths, Delete(f) PROVE OrderOk'
  <2>1. /\ pc = "files" /\ pc' = "files" /\ data' = [data EXCEPT ![f] = None]
        /\ files' = [files EXCEPT ![f] = None] /\ manifest' = manifest
    BY <1>16 DEF Delete
  <2>2. Working = files /\ Working' = files' BY <2>1 DEF Working
  <2>3. \A g \in Paths : data'[g] \in {data[g], None} BY <1>0, <2>1
  <2>4. Fresh(manifest.files, data', versions') /\ Fresh(files, data', versions')
    BY <1>0, <1>2, <1>3, <2>2, <2>3
  <2>5. \A g \in Paths : files'[g] \in {None, files[g]} BY <1>0, <2>1 DEF Manifests
  <2>6. Fresh(files', data', versions') BY <2>4, <2>5 DEF Fresh
  <2> QED BY <1>1, <2>1, <2>2, <2>4, <2>6 DEF OrderOk
<1>17. CASE Capture
  <2>1. /\ pc = "capture" /\ pc' = "archive" /\ staged' = source[file] /\ source[file] # None
        /\ UNCHANGED <<data, manifest, files, file, versions>>
        /\ SameContent(source[file]) => SizeDiffers
    BY <1>17 DEF Capture
  <2>2. file \in Paths BY <1>0, <2>1 DEF Locals, Capturing, TypeInv, TypeOK
  <2>3. staged' = versions[file] /\ versions[file] \in Nat BY <1>0, <1>1, <2>1, <2>2
  <2>4. Fresh(files, data, versions) BY <1>3, <2>1 DEF Working
  <2>5. ASSUME files[file] # None
        PROVE  /\ files[file] \in Nat /\ files[file] <= versions[file]
               /\ data[file] # None => files[file] < versions[file]
    <3>1. files[file] \in Nat BY <1>0, <2>2, <2>5 DEF Manifests, OrNone
    <3>2. /\ files[file] <= versions[file]
          /\ data[file] \notin {None, files[file]} => files[file] < versions[file]
      BY <2>2, <2>4, <2>5 DEF Fresh
    <3>3. files[file] = versions[file] /\ data[file] # None => data[file] # files[file]
      BY <2>1, <2>3 DEF SameContent, SizeDiffers
    <3> QED BY <2>3, <3>1, <3>2, <3>3
  <2>6. Fresh(manifest.files, data, versions) /\ Working' = files
    BY <1>3, <2>1 DEF Working
  <2> QED BY <1>1, <2>1, <2>3, <2>4, <2>5, <2>6 DEF OrderOk
<1>18. CASE Archive
  <2>1. /\ pc = "archive" /\ pc' = "replace" /\ old' = data[file]
        /\ UNCHANGED <<manifest, files, file, staged, versions>>
        /\ data' = [data EXCEPT ![file] = None]
    BY <1>18 DEF Archive
  <2>2. Working = files /\ Working' = files BY <2>1 DEF Working
  <2>3. \A g \in Paths : data'[g] \in {data[g], None} BY <1>0, <1>6, <2>1
  <2>4. Fresh(manifest.files, data', versions') /\ Fresh(files, data', versions')
    BY <1>0, <1>2, <1>3, <2>2, <2>3
  <2> QED BY <1>1, <1>6, <2>1, <2>2, <2>4 DEF OrderOk
<1>19. CASE Replace
  <2>1. /\ pc = "replace" /\ pc' = "files" /\ UNCHANGED <<manifest, versions>>
        /\ data' = [data EXCEPT ![file] = staged] /\ files' = [files EXCEPT ![file] = staged]
    BY <1>19 DEF Replace
  <2>2. Working = files /\ Working' = files' BY <2>1 DEF Working
  <2>3. ASSUME NEW g \in Paths
        PROVE  \/ data'[g] \in {data[g], None, manifest.files[g]}
               \/ manifest.files[g] \in Contents => manifest.files[g] < versions[g]
    <3>1. CASE g # file BY <1>0, <2>1, <3>1
    <3>2. CASE g = file /\ manifest.files[g] \in Contents /\ manifest.files[g] # staged
      <4>1. files[file] = manifest.files[file] /\ files[file] # None BY <1>0, <1>6, <2>1, <3>2
      <4>2. files[file] \in Nat /\ files[file] <= staged /\ staged \in Nat /\ files[file] # staged
        BY <1>6, <2>1, <3>2, <4>1
      <4>3. staged <= versions[file] /\ versions[file] \in Nat BY <1>1, <1>6, <2>1
      <4> QED BY <3>2, <4>1, <4>2, <4>3
    <3>3. CASE g = file /\ manifest.files[g] = staged BY <1>0, <2>1, <3>3
    <3> QED BY <3>1, <3>2, <3>3
  <2>4. Fresh(manifest.files, data', versions') BY <1>0, <1>2, <1>3, <2>3
  <2>5. ASSUME NEW g \in Paths, files'[g] # None
        PROVE  /\ files'[g] <= versions'[g]
               /\ data'[g] \notin {None, files'[g]} => files'[g] < versions'[g]
    <3>1. CASE g = file BY <1>0, <1>6, <2>1, <3>1 DEF Manifests
    <3>2. CASE g # file
      <4>1. data'[g] = data[g] /\ files'[g] = files[g] /\ versions'[g] = versions[g]
        BY <1>0, <2>1, <3>2 DEF Manifests
      <4>2. Fresh(files, data, versions) BY <1>3, <2>2
      <4> QED BY <2>5, <4>1, <4>2 DEF Fresh
    <3> QED BY <3>1, <3>2
  <2>6. Fresh(files', data', versions') BY <2>5 DEF Fresh
  <2> QED BY <1>1, <2>1, <2>2, <2>4, <2>6 DEF OrderOk
<1>20. CASE ReplaceFails
  <2>1. /\ pc = "replace" /\ pc' = "putback"
        /\ UNCHANGED <<manifest, files, file, staged, old, versions, data>>
    BY <1>20 DEF ReplaceFails
  <2>2. Working' = Working BY <2>1 DEF Working
  <2> QED BY <1>1, <1>3, <1>6, <2>1, <2>2 DEF OrderOk
<1>21. CASE PutBack
  <2>1. /\ pc = "putback" /\ pc' = "files" /\ UNCHANGED <<manifest, files, versions>>
        /\ \/ data' = [data EXCEPT ![file] = old]
           \/ data' = data
           \/ old # None /\ data' = [data EXCEPT ![file] = Torn]
    BY <1>21 DEF PutBack, NextFile
  <2>2. Working = files /\ Working' = files BY <2>1 DEF Working
  <2>3. ASSUME NEW fs \in Manifests, fs[file] = files[file], NEW g \in Paths
        PROVE  \/ data'[g] \in {data[g], None, fs[g]}
               \/ fs[g] \in Contents => fs[g] < versions[g]
    <3>1. CASE g # file \/ data' = data BY <1>0, <2>1, <3>1
    <3>2. CASE g = file /\ old = None BY <1>0, <2>1, <3>2
    <3>3. CASE g = file /\ old # None
      <4>1. files[file] # None => files[file] < versions[file] BY <1>6, <2>1, <3>3
      <4> QED BY <1>0, <2>3, <3>3, <4>1
    <3> QED BY <3>1, <3>2, <3>3
  <2>4. Fresh(files, data', versions') BY <1>0, <1>2, <1>3, <2>2, <2>3
  <2>5. manifest.files[file] = files[file] BY <1>6, <2>1
  <2>6. Fresh(manifest.files, data', versions') BY <1>0, <1>2, <1>3, <2>3, <2>5
  <2> QED BY <1>1, <2>1, <2>2, <2>4, <2>6 DEF OrderOk
<1> QED BY <1>8, <1>9, <1>10, <1>11, <1>12, <1>13, <1>14, <1>15, <1>16, <1>17, <1>18, <1>19,
           <1>20, <1>21 DEF Next, RunStep, FileStep, CaptureStep

\* No step but the garbage collection takes the last copy of a content away.
LEMMA NextAvailable ==
  ASSUME TypeInv, [Next]_vars, ~CollectGarbage
  PROVE  \A f \in Paths, c \in Contents : Available(f, c) => Available(f, c)'
<1> USE DEF srcVars, diskVars, loopVars, stateVars, Available
<1>0. /\ data \in [Paths -> OrNone(Stored)] /\ Locals /\ None \notin Contents
  BY BasicTypes DEF TypeInv, TypeOK
<1>1. CASE UNCHANGED <<data, objects>> BY <1>1
<1>2. CASE UNCHANGED vars BY <1>1, <1>2 DEF vars
<1>3. CASE \/ \E f \in Volatile, c \in OrNone(Contents) : Touch(f, c)
           \/ Tick \/ StartRun \/ Crash
  BY <1>1, <1>3 DEF Touch, Tick, StartRun, Crash
<1>4. ASSUME NEW f \in Paths, InspectFails(f) \/ Skip(f) \/ Inspect(f) \/ DeleteFails(f)
      PROVE  UNCHANGED <<data, objects>>
  BY <1>4 DEF InspectFails, Skip, Inspect, DeleteFails
<1>5. CASE CaptureFails \/ CaptureSame \/ Capture \/ ArchiveFails \/ ReplaceFails
  BY <1>1, <1>5 DEF CaptureFails, CaptureSame, Capture, ArchiveFails, ReplaceFails, NextFile
<1>6. CASE \/ Verify \/ WriteManifest \/ WriteManifestFails \/ AllPoints
           \/ WritePoint \/ WritePointFails
  BY <1>1, <1>6 DEF Verify, WriteManifest, WriteManifestFails, AllPoints, WritePoint,
                    WritePointFails
<1>7. ASSUME NEW t \in Tiers, TierStep(t) PROVE UNCHANGED <<data, objects>>
  BY <1>7 DEF TierStep, NotDue, CreatePoint, Rotate, RotateFails, Rotated
<1>8. ASSUME NEW g \in Paths, data' = [data EXCEPT ![g] = None], objects' = Archived(g)
      PROVE  \A f \in Paths, c \in Contents : Available(f, c) => Available(f, c)'
  <2>1. objects \subseteq objects' /\ (data[g] # None => <<g, data[g]>> \in objects')
    BY <1>8 DEF Archived
  <2>2. \A f \in Paths : f # g => data'[f] = data[f] BY <1>0, <1>8
  <2>3. ASSUME NEW f \in Paths, NEW c \in Contents, data[f] = c
        PROVE <<f, c>> \in objects' \/ data'[f] = c
    BY <1>0, <2>1, <2>2, <2>3
  <2> QED BY <2>1, <2>3
<1>9. ASSUME NEW f \in Paths, Delete(f)
      PROVE  \A g \in Paths, c \in Contents : Available(g, c) => Available(g, c)'
  BY <1>8, <1>9 DEF Delete
<1>10. CASE Archive
  <2>1. file \in Paths BY <1>0, <1>10 DEF Archive, Locals, Capturing, TypeInv, TypeOK
  <2> QED BY <1>8, <1>10, <2>1 DEF Archive
<1>11. CASE Replace \/ PutBack
  <2>1. data[file] = None /\ objects' = objects
    BY <1>0, <1>11 DEF Replace, PutBack, NextFile, Locals
  <2>2. \A f \in Paths : f # file => data'[f] = data[f]
    BY <1>0, <1>11 DEF Replace, PutBack, NextFile
  <2> QED BY <1>0, <2>1, <2>2
<1> QED BY <1>1, <1>2, <1>3, <1>4, <1>5, <1>6, <1>7, <1>9, <1>10, <1>11
        DEF Next, RunStep, FileStep, CaptureStep

\* What a manifest says after a step, a manifest, or the mirror, said before it.
LEMMA NextWorking ==
  ASSUME TypeInv, [Next]_vars, NEW f \in Paths
  PROVE  /\ manifest'.files[f] \in {manifest.files[f], Working[f]}
         /\ Working'[f] \in {None, manifest.files[f], Working[f], data'[f]}
<1> USE DEF srcVars, diskVars, loopVars, stateVars, Working
<1>0. /\ data \in [Paths -> OrNone(Stored)] /\ files \in [Paths -> OrNone(Contents)]
  BY DEF TypeInv, TypeOK, Manifests
<1>1. CASE UNCHANGED vars BY <1>1 DEF vars
<1>2. CASE \/ \E g \in Volatile, c \in OrNone(Contents) : Touch(g, c)
           \/ Tick \/ StartRun \/ Crash
  BY <1>2 DEF Touch, Tick, StartRun, Crash, Forget
<1>3. ASSUME NEW g \in Paths, InspectFails(g) \/ Skip(g) \/ Inspect(g) \/ DeleteFails(g)
      PROVE  manifest' = manifest /\ Working' = Working
  BY <1>3 DEF InspectFails, Skip, Inspect, DeleteFails
<1>4. CASE \/ CaptureFails \/ CaptureSame \/ Capture \/ Archive \/ ArchiveFails \/ ReplaceFails
           \/ PutBack
  BY <1>4 DEF CaptureFails, CaptureSame, Capture, Archive, ArchiveFails, ReplaceFails, PutBack,
              NextFile
<1>5. CASE \/ Verify \/ WriteManifestFails \/ AllPoints \/ WritePoint \/ WritePointFails
           \/ CollectGarbage
  BY <1>5 DEF Verify, WriteManifestFails, AllPoints, WritePoint, WritePointFails, CollectGarbage,
              Forget
<1>6. ASSUME NEW t \in Tiers, TierStep(t) PROVE manifest' = manifest /\ Working' = Working
  BY <1>6 DEF TierStep, NotDue, CreatePoint, Rotate, RotateFails, Rotated
<1>7. CASE WriteManifest
  <2>1. /\ pc = "write" /\ manifest'.files \in {files, manifest.files}
        /\ Working' \in {files, manifest'.files}
    BY <1>7 DEF WriteManifest, Forget
  <2> QED BY <2>1
<1>8. ASSUME NEW g \in Paths, Delete(g)
      PROVE  manifest' = manifest /\ Working'[f] \in {None, Working[f]}
  BY <1>0, <1>8 DEF Delete
<1>9. CASE Replace BY <1>0, <1>9 DEF Replace
<1> QED BY <1>1, <1>2, <1>3, <1>4, <1>5, <1>6, <1>7, <1>8, <1>9
        DEF Next, RunStep, FileStep, CaptureStep

\* The readable points, found by position or by content.
LEMMA PointsByTier ==
  ASSUME TypeInv
  PROVE  /\ \A p \in PointIds : /\ p[1] \in Tiers /\ p[2] \in DOMAIN points[p[1]]
                                /\ PointFiles(p) \in Manifests
         /\ \A t \in Tiers : \A r \in ReadableIn(points[t]) :
               \E p \in PointIds : PointFiles(p) = r.files
<1>1. ASSUME NEW p \in PointIds
      PROVE  p[1] \in Tiers /\ p[2] \in DOMAIN points[p[1]] /\ PointFiles(p) \in Manifests
  <2>1. PICK t \in Tiers : p \in {t} \X DOMAIN points[t] BY DEF PointIds
  <2>2. p[1] = t /\ p[2] \in DOMAIN points[t] /\ points[t][p[2]].files # Unreadable
    BY <2>1 DEF PointIds
  <2>3. points[t] \in Seq(Point) BY TierPoints
  <2>4. points[t][p[2]] \in Point BY <2>2, <2>3
  <2>5. points[t][p[2]].files \in Manifests BY <2>2, <2>4 DEF Point
  <2> QED BY <2>2, <2>5 DEF PointFiles
<1>2. ASSUME NEW t \in Tiers, NEW r \in ReadableIn(points[t])
      PROVE  \E p \in PointIds : PointFiles(p) = r.files
  <2>1. PICK i \in DOMAIN points[t] : r = points[t][i] /\ r.files # Unreadable
    BY DEF ReadableIn
  <2>2. <<t, i>> \in {t} \X DOMAIN points[t] OBVIOUS
  <2>3. <<t, i>> \in PointIds BY <2>1, <2>2 DEF PointIds
  <2> QED BY <2>1, <2>3 DEF PointFiles
<1> QED BY <1>1, <1>2

\* A content is still in the target after the step.
Later(f, c) == <<f, c>> \in objects' \/ data'[f] = c

\* A step other than the garbage collection.
LEMMA NextRestorable ==
  ASSUME TypeInv, PointsOk, PointsRestorable, Restorable(Working), [Next]_vars, ~CollectGarbage
  PROVE  PointsRestorable' /\ Restorable(Working)'
<1>0. /\ TypeInv' /\ Working \in Manifests /\ manifest.files \in Manifests
      /\ manifest'.files \in Manifests /\ Working' \in Manifests
  <2>1. TypeInv' BY NextTypeInv
  <2> QED BY <2>1 DEF TypeInv, TypeOK, Working
<1>1. ASSUME NEW fs \in Manifests, Restorable(fs) PROVE Restorable(fs)'
  <2>1. \A f \in Paths : fs[f] # None => f \in Present(fs) /\ fs[f] \in Contents
    BY DEF Present, Manifests, OrNone
  <2>2. \A f \in Paths : fs[f] # None => Later(f, fs[f])
    BY <1>1, <2>1, NextAvailable DEF Restorable, Available, Later
  <2>3. Present(fs) \subseteq Paths /\ \A f \in Present(fs) : fs[f] # None
    BY DEF Present, Manifests
  <2> QED BY <2>2, <2>3 DEF Restorable, Available, Later
<1>2. /\ \A f \in Paths : manifest.files[f] # None => Later(f, manifest.files[f])
      /\ \A f \in Paths : Working[f] # None => Later(f, Working[f])
  <2>1. ASSUME NEW fs \in Manifests, Restorable(fs)
        PROVE  \A f \in Paths : fs[f] # None => Later(f, fs[f])
    <3>1. Restorable(fs)' BY <1>1, <2>1
    <3>2. \A f \in Paths : fs[f] # None => f \in Present(fs) BY DEF Present, Manifests
    <3> QED BY <3>1, <3>2 DEF Restorable, Available, Later
  <2>2. Restorable(manifest.files) BY DEF PointsRestorable
  <2> QED BY <1>0, <2>1, <2>2
<1>3. Restorable(manifest.files)'
  <2>1. \A f \in Paths : manifest'.files[f] # None => Later(f, manifest'.files[f])
    BY <1>2, NextWorking DEF Later
  <2>2. \A f \in Present(manifest'.files) : f \in Paths /\ manifest'.files[f] # None
    BY <1>0 DEF Present, Manifests
  <2> QED BY <2>1, <2>2 DEF Restorable, Available, Later
<1>4. Restorable(Working)'
  <2>1. \A f \in Paths : Working'[f] # None => Later(f, Working'[f])
    BY <1>2, NextWorking DEF Later
  <2>2. \A f \in Present(Working') : f \in Paths /\ Working'[f] # None
    BY <1>0 DEF Present, Manifests
  <2> QED BY <2>1, <2>2 DEF Restorable, Available, Later
<1>5. ASSUME NEW p \in PointIds' PROVE Restorable(PointFiles(p))'
  <2>1. PICK t \in Tiers : p \in {t} \X DOMAIN points'[t] BY DEF PointIds
  <2>2. /\ p[1] = t /\ p[2] \in DOMAIN points'[t] /\ points'[t][p[2]].files # Unreadable
    BY <2>1 DEF PointIds
  <2>3. PICK r : r = points'[t][p[2]] OBVIOUS
  <2>4. r \in ReadableIn(points'[t]) /\ PointFiles(p)' = r.files
    BY <2>2, <2>3 DEF ReadableIn, PointFiles
  <2>5. PointsStep(t) BY NextPointsTrue
  <2>6. PICK fs \in Manifests : fs = r.files /\ Restorable(fs)
    <3>1. CASE r \in ReadableIn(points[t])
      <4>1. PICK q \in PointIds : PointFiles(q) = r.files BY <3>1, PointsByTier
      <4> QED BY <4>1, PointsByTier DEF PointsRestorable
    <3>2. CASE r \notin ReadableIn(points[t])
      <4>1. pc = "point" /\ r.files = files BY <2>4, <2>5, <3>2 DEF PointsStep
      <4>2. Working = files BY <4>1 DEF Working
      <4> QED BY <1>0, <4>1, <4>2
    <3> QED BY <3>1, <3>2
  <2>7. Restorable(fs)' BY <1>1, <2>6
  <2> QED BY <2>4, <2>6, <2>7 DEF Restorable, Available
<1> QED BY <1>3, <1>4, <1>5 DEF PointsRestorable

\* The garbage collection reads every point manifest and keeps what it names, but for what
\* the mirror has as well.
LEMMA GarbageRestorable ==
  ASSUME TypeInv, ManifestOk, FaithOk, PointsRestorable, budget.locked = 0, CollectGarbage
  PROVE  PointsRestorable' /\ Restorable(Working)'
<1>1. /\ pc = "rotate" /\ UNCHANGED <<data, manifest, points>> /\ pc' = "idle"
  BY DEF CollectGarbage, Forget
<1>2. PICK removed \in SUBSET Garbage(PointIds) : objects' = objects \ removed
  <2>1. PICK missed \in SUBSET PointIds :
           /\ IF missed = {} THEN Spare ELSE Spend("locked")
           /\ \E removed \in SUBSET Garbage(PointIds \ missed) : objects' = objects \ removed
    BY DEF CollectGarbage
  <2>2. missed = {}
    <3>1. ~(budget["locked"] > 0) OBVIOUS
    <3>2. ~Spend("locked") BY <3>1 DEF Spend
    <3> QED BY <2>1, <3>2
  <2>3. PointIds \ missed = PointIds BY <2>2
  <2> QED BY <2>1, <2>3
<1>3. files = manifest.files /\ files \in Manifests /\ \A f \in Present(files) : data[f] = files[f]
  BY <1>1 DEF ManifestOk, FaithOk, Pointing, TypeInv, TypeOK, Locals
<1>4. Restorable(manifest.files)' BY <1>1, <1>3 DEF Restorable, Available
<1>5. ASSUME NEW p \in PointIds PROVE \A f \in Present(PointFiles(p)) : Later(f, PointFiles(p)[f])
  <2>1. PICK fs \in Manifests : fs = PointFiles(p) BY PointsByTier
  <2> SUFFICES ASSUME NEW f \in Present(fs) PROVE Later(f, fs[f])
    BY <2>1
  <2>2. f \in Paths /\ fs[f] \in Contents /\ fs[f] # None BY DEF Present, Manifests, OrNone
  <2>3. Available(f, fs[f]) BY <2>1 DEF PointsRestorable, Restorable
  <2>4. CASE data[f] = fs[f] BY <1>1, <2>4 DEF Later
  <2>5. CASE <<f, fs[f]>> \in objects
    <3>1. <<f, fs[f]>> \in References(PointIds) BY <2>1, <2>2 DEF References
    <3>2. CASE files[f] = fs[f]
      <4>1. f \in Present(files) BY <1>3, <2>2, <3>2 DEF Present, Manifests
      <4> QED BY <1>1, <1>3, <3>2, <4>1 DEF Later
    <3>3. CASE files[f] # fs[f]
      <4>1. <<f, fs[f]>> \notin Garbage(PointIds) BY <3>1, <3>3 DEF Garbage, IsCurrent
      <4> QED BY <1>2, <2>5, <4>1 DEF Later
    <3> QED BY <3>2, <3>3
  <2> QED BY <2>3, <2>4, <2>5 DEF Available
<1>6. \A p \in PointIds' : Restorable(PointFiles(p))'
  <2>1. PointIds' = PointIds /\ \A p \in PointIds : PointFiles(p)' = PointFiles(p)
    BY <1>1 DEF PointIds, PointFiles
  <2> QED BY <1>5, <2>1 DEF Restorable, Available, Later
<1>7. Restorable(Working)' BY <1>1, <1>4 DEF Working, Restorable, Available
<1> QED BY <1>4, <1>6, <1>7 DEF PointsRestorable

\* Every step keeps a copy of what the manifests name.
LEMMA NextRestorableInv ==
  ASSUME HistoryInv, RestorableInv, [Next]_vars
  PROVE  RestorableInv'
<1>1. TypeInv /\ ManifestOk /\ PointsOk /\ (~crashed => CompleteOk) /\ crashed \in BOOLEAN
  BY DEF HistoryInv, TypeInv, TypeOK
<1>2. Lucky /\ FaithOk /\ PointsRestorable /\ Restorable(Working) BY DEF RestorableInv
<1>3. SkipOk BY <1>1, <1>2, CompleteSkips, OrderSkips DEF Lucky
<1>4. FaithOk' BY <1>1, <1>2, <1>3, NextFaithOk
<1>5. Lucky'
  <2>1. /\ budget.revert = 0 => budget'.revert = 0
        /\ budget.locked = 0 => budget'.locked = 0
        /\ budget.crash = 0 => budget'.crash = 0 /\ crashed' = crashed
    BY <1>1, NextBudget, SpendType DEF TypeInv, TypeOK
  <2>2. budget.revert = 0 /\ OrderOk => OrderOk' BY <1>1, NextOrderOk
  <2> QED BY <1>1, <1>2, <2>1, <2>2 DEF Lucky
<1>6. PointsRestorable' /\ Restorable(Working)'
  <2>1. CASE CollectGarbage BY <1>1, <1>2, <2>1, GarbageRestorable DEF Lucky
  <2>2. CASE ~CollectGarbage BY <1>1, <1>2, <2>2, NextRestorable
  <2> QED BY <2>1, <2>2
<1> QED BY <1>4, <1>5, <1>6 DEF RestorableInv

(* Publishing a new version, archiving a deleted file, rotating the points and collecting
   the objects (publishCurrentFile, archiveCurrentFile, collectGarbageObjects) never lose
   the last copy of a content that a restore point or the current manifest names, whatever
   operation fails, as long as no point manifest is locked by someone else and not both of
   these happen: a run is lost before its manifest is written, and a source file returns to
   an earlier content. The run mirror_revert shows that the two together lose one. *)
THEOREM MirrorRestorable ==
  ASSUME \A b \in Budgets : b.locked = 0 /\ (b.crash = 0 \/ b.revert = 0)
  PROVE  Spec => []PointsRestorable
<1>1. Init => RestorableInv
  <2> SUFFICES ASSUME Init PROVE RestorableInv
    OBVIOUS
  <2>1. /\ pc = "idle" /\ data = NoFiles /\ manifest.files = NoFiles /\ ~crashed
        /\ points = [t \in Tiers |-> << >>] /\ Working = NoFiles
        /\ source = [f \in Paths |-> 1] /\ versions = [f \in Paths |-> 1]
    BY DEF Init, NoManifest, Working
  <2>2. Restorable(NoFiles) BY DEF Restorable, Present, NoFiles
  <2>3. PointIds = {}
    <3>1. \A t \in Tiers : points[t] = << >> /\ DOMAIN points[t] = {} BY <2>1
    <3> QED BY <3>1 DEF PointIds
  <2>4. FaithOk BY <2>1 DEF FaithOk, Looping, Capturing, Pointing
  <2>5. OrderOk BY <2>1 DEF OrderOk, Fresh, NoFiles
  <2>6. Lucky BY <2>1, <2>5 DEF Init, Lucky
  <2> QED BY <2>1, <2>2, <2>3, <2>4, <2>6 DEF RestorableInv, PointsRestorable
<1>2. HistoryInv /\ RestorableInv /\ [Next]_vars => RestorableInv' BY NextRestorableInv
<1>3. RestorableInv => PointsRestorable BY DEF RestorableInv
<1> QED BY <1>1, <1>2, <1>3, MirrorSafety, PTL DEF Spec

(* A restore publishes only what it verified, and it takes the destination's place only
   after moving it aside. *)
RestoreInv ==
    /\ rpc \in {"retire", "place"} => staging = wanted
    /\ rpc = "place" => dest = None
    /\ DestinationKept

\* Before the first restore the destination is in place.
LEMMA InitRestoreInv == RestoreInit => RestoreInv
BY DEF RestoreInit, RestoreInv, DestinationKept

\* No step of a restore, and none of the backup, loses the destination.
LEMMA NextRestoreInv ==
  ASSUME RestoreInv, [(Next /\ UNCHANGED rVars) \/ RestoreNext]_allVars
  PROVE  RestoreInv' /\ (dest' # dest /\ dest' # None => dest' = wanted)
<1> USE DEF RestoreInv, DestinationKept
<1>1. CASE UNCHANGED rVars \/ UNCHANGED allVars BY <1>1 DEF rVars, allVars
<1>2. ASSUME NEW fs, RestorePlan(fs) PROVE RestoreInv' /\ dest' = dest
  BY <1>2 DEF RestorePlan
<1>3. ASSUME NEW f \in Paths, RestoreFind(f) \/ RestoreCopy(f)
      PROVE  RestoreInv' /\ dest' = dest
  BY <1>3 DEF RestoreFind, RestoreCopy
<1>4. CASE RestoreVerify BY <1>4 DEF RestoreVerify
<1>5. CASE RestoreRetire BY <1>5 DEF RestoreRetire
<1>6. CASE RestorePlace BY <1>6, RestoreAssumption DEF RestorePlace
<1>7. CASE RestoreStops BY <1>7 DEF RestoreStops
<1> QED BY <1>1, <1>2, <1>3, <1>4, <1>5, <1>6, <1>7 DEF RestoreNext

(* However the backup moves, replaces or collects the files of the target between the moment
   a restore finds them and the moment it copies them, and wherever a restore fails, is
   cancelled or dies (MirrorHistoryRestore.cpp, which takes no lock): what takes the
   destination's place is the manifest asked for, and what was there is kept. *)
THEOREM RestoreIsSafe == RestoreSpec => RestoreSafe
<1>1. RestoreInv => DestinationKept BY DEF RestoreInv
<1> QED BY <1>1, InitRestoreInv, NextRestoreInv, PTL DEF RestoreSpec, RestoreSafe, RestoreExact

\* A restore only reads the target: what holds of the backup holds of it beside a restore.
LEMMA RestoreOnlyReads == RestoreSpec => Spec
<1>1. RestoreInit => Init BY DEF RestoreInit
<1>2. [(Next /\ UNCHANGED rVars) \/ RestoreNext]_allVars => [Next]_vars
  BY DEF allVars, RestoreNext, RestorePlan, RestoreFind, RestoreCopy, RestoreVerify,
         RestoreRetire, RestorePlace, RestoreStops
<1> QED BY <1>1, <1>2, PTL DEF RestoreSpec, Spec
============================================================================
