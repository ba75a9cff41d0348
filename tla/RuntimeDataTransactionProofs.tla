-------------------- MODULE RuntimeDataTransactionProofs --------------------
(***************************************************************************)
(* For any number of failed operations and crashes: as long as the new     *)
(* files have not been accepted there is a way back to the old ones; no    *)
(* command throws it away while the data directory is a mixture; and a     *)
(* transaction reported as rolled back has left the old files.             *)
(***************************************************************************)
EXTENDS RuntimeDataTransaction, SequenceTheorems, TLAPS

-----------------------------------------------------------------------------
(* Agendas.                                                                *)

\* The operations of an agenda.
Ops(s) == {s[i] : i \in DOMAIN s}

Arguments == Names \cup {"", "prepared", "mutation_started", "restored", "marker",
                         "phase", "manifest"}
Operations == {"dir", "marker", "phase", "snap", "manifest", "put", "ignore", "logs",
               "restore", "unignore", "delete", "rmdir"} \X Arguments

\* Where an operation stands in its command; the files of one step are in no
\* order the proofs need.
Rank(o) ==
    CASE o[1] = "dir"                            -> 0
      [] o[1] = "marker"                         -> 1
      [] o = <<"phase", "prepared">>             -> 2
      [] o[1] = "snap"                           -> 3
      [] o[1] = "manifest"                       -> 4
      [] o = <<"phase", "mutation_started">>     -> 5
      [] o[1] = "put"                            -> 6
      [] o[1] = "ignore"                         -> 7
      [] o[1] = "logs"                           -> 8
      [] o[1] = "restore"                        -> 9
      [] o[1] = "unignore"                       -> 10
      [] OTHER                                   -> 11

\* The steps of s in their order, none twice.
Ordered(s) ==
    \A i, j \in DOMAIN s : i < j => Rank(s[i]) <= Rank(s[j]) /\ s[i] # s[j]

ApplyOps ==
    {<<"dir", "">>, <<"marker", "">>, <<"manifest", "">>}
    \cup ({"snap", "put"} \X Managed)
    \cup (IF Runtime THEN {<<"phase", "prepared">>, <<"phase", "mutation_started">>,
                           <<"ignore", "">>, <<"logs", "">>} ELSE {})

RestoreOps ==
    ({"restore"} \X Managed)
    \cup (IF Runtime THEN {<<"unignore", "">>, <<"phase", "restored">>} ELSE {})

-----------------------------------------------------------------------------
(* The inductive invariant.                                                *)

Pending == Ops(agenda)
Existed == {f \in Names : before[f] # None}

\* Which command runs at which stage.
PlaceOk ==
    /\ cmd = "none" => agenda = << >> /\ stage # "applying"
    /\ cmd \in {"apply", "undo"} => stage = "applying"
    /\ cmd = "rollback" => stage = "failed"
    /\ cmd = "commit" => stage \in {"kept", "dropped"}

\* The agenda of each command; all but the commit's are in order, and apply skips
\* nothing.
AgendaOk ==
    /\ agenda \in Seq(Operations)
    /\ cmd # "commit" => Ordered(agenda)
    /\ cmd = "apply" =>
          /\ Pending \subseteq ApplyOps
          /\ \A o \in Pending, p \in ApplyOps : Rank(o) < Rank(p) => p \in Pending
    /\ cmd \in {"undo", "rollback"} => Pending \subseteq RestoreOps
    /\ cmd = "commit" => \A o \in Pending : o[1] \in {"delete", "rmdir"}

\* A user's ignore.txt is left alone.
IgnoreOk == before["ignore"] # None => data["ignore"] = before["ignore"]

\* Nothing has been done.
NewOk == stage = "new" => data = before /\ manifest = None

\* What apply has done, by what it has left to do.
ApplyOk ==
    cmd = "apply" =>
        /\ (\E o \in Pending : Rank(o) < 6) => data = before
        /\ <<"dir", "">> \notin Pending => dir
        /\ <<"marker", "">> \notin Pending => marker
        /\ \A f \in Managed : <<"snap", f>> \notin Pending => snap[f] = before[f]
        /\ manifest = IF <<"manifest", "">> \in Pending THEN None ELSE Existed
        /\ Runtime /\ <<"phase", "mutation_started">> \notin Pending =>
              phase = "mutation_started"
        /\ \A f \in Managed : <<"put", f>> \notin Pending => data[f] = New

\* What a rollback, or the undoing of an apply, has restored.
RestoreOk ==
    /\ cmd \in {"undo", "rollback"} => manifest # None
    /\ cmd = "rollback" \/ (cmd = "undo" /\ Runtime) =>
          \A f \in Managed : <<"restore", f>> \notin Pending => data[f] = before[f]

\* A manifest that can be read is right, and so are the snapshots it names.
ManifestOk ==
    stage \in {"applying", "applied", "failed"} /\ manifest # None =>
        manifest = Existed /\ \A f \in Managed \cap manifest : snap[f] = Old

\* Once apply is over, or is being undone, there is a way back.
SafeOk == stage \in {"applied", "failed"} \/ cmd = "undo" => IsOld \/ CanRollback

\* What a stage promises.
StageOk ==
    /\ stage \in {"untouched", "rolledback", "dropped"} => IsOld
    /\ stage \in {"applied", "kept"} => IsNew

\* The inductive invariant.
TxInv == /\ TypeOK /\ PlaceOk /\ AgendaOk /\ IgnoreOk /\ NewOk /\ ApplyOk
         /\ RestoreOk /\ ManifestOk /\ SafeOk /\ StageOk

-----------------------------------------------------------------------------
(* Lemmas about agendas.                                                   *)

LEMMA OpsOf ==
    ASSUME NEW S, NEW s \in Seq(S)
    PROVE  /\ Ops(s) \subseteq S
           /\ Ops(s) = {} <=> s = << >>
           /\ \A i \in DOMAIN s : s[i] \in Ops(s)
<1>1. Len(s) \in Nat /\ DOMAIN s = 1 .. Len(s) /\ \A i \in DOMAIN s : s[i] \in S
  BY LenProperties, ElementOfSeq
<1>2. s = << >> <=> Len(s) = 0 BY <1>1, EmptySeq
<1>3. Ops(s) = {} => Len(s) = 0
  <2>1. Len(s) # 0 => 1 \in DOMAIN s BY <1>1
  <2> QED BY <1>1, <2>1 DEF Ops
<1>4. Len(s) = 0 => Ops(s) = {} BY <1>1 DEF Ops
<1>5. Ops(s) \subseteq S /\ \A i \in DOMAIN s : s[i] \in Ops(s) BY <1>1 DEF Ops
<1> QED BY <1>2, <1>3, <1>4, <1>5

\* An agenda of no operation, and of one.
LEMMA OpsSmall ==
    ASSUME NEW S, NEW o \in S
    PROVE  /\ << >> \in Seq(S) /\ Ops(<< >>) = {} /\ Ordered(<< >>)
           /\ <<o>> \in Seq(S) /\ Ops(<<o>>) = {o} /\ Ordered(<<o>>)
BY DEF Ops, Ordered

\* One agenda after another: in order when both are and the first ranks below.
LEMMA OpsJoined ==
    ASSUME NEW S, NEW s \in Seq(S), NEW t \in Seq(S)
    PROVE  /\ s \o t \in Seq(S)
           /\ Ops(s \o t) = Ops(s) \cup Ops(t)
           /\ /\ Ordered(s) /\ Ordered(t)
              /\ \A a \in Ops(s), b \in Ops(t) : Rank(a) < Rank(b)
              => Ordered(s \o t)
<1> DEFINE u == s \o t
<1>1. /\ u \in Seq(S) /\ Len(s) \in Nat /\ Len(t) \in Nat
      /\ DOMAIN s = 1 .. Len(s) /\ DOMAIN t = 1 .. Len(t)
      /\ DOMAIN u = 1 .. Len(s) + Len(t)
      /\ \A i \in DOMAIN u : u[i] = IF i <= Len(s) THEN s[i] ELSE t[i - Len(s)]
  BY ConcatProperties, LenProperties
<1> HIDE DEF u
<1>2. Ops(u) \subseteq Ops(s) \cup Ops(t)
  <2> SUFFICES ASSUME NEW i \in DOMAIN u PROVE u[i] \in Ops(s) \cup Ops(t)
    BY DEF Ops
  <2>1. CASE i <= Len(s) BY <1>1, <2>1 DEF Ops
  <2>2. CASE ~(i <= Len(s))
    <3>1. i - Len(s) \in DOMAIN t BY <1>1, <2>2
    <3> QED BY <1>1, <2>2, <3>1 DEF Ops
  <2> QED BY <2>1, <2>2
<1>3. Ops(s) \subseteq Ops(u)
  <2> SUFFICES ASSUME NEW i \in DOMAIN s PROVE s[i] \in Ops(u)
    BY DEF Ops
  <2>1. i \in DOMAIN u /\ u[i] = s[i] BY <1>1
  <2> QED BY <2>1 DEF Ops
<1>4. Ops(t) \subseteq Ops(u)
  <2> SUFFICES ASSUME NEW i \in DOMAIN t PROVE t[i] \in Ops(u)
    BY DEF Ops
  <2>1. i + Len(s) \in DOMAIN u /\ u[i + Len(s)] = t[i] BY <1>1
  <2> QED BY <2>1 DEF Ops
<1>5. ASSUME Ordered(s), Ordered(t), \A a \in Ops(s), b \in Ops(t) : Rank(a) < Rank(b)
      PROVE  Ordered(u)
  <2> SUFFICES ASSUME NEW i \in DOMAIN u, NEW j \in DOMAIN u, i < j
               PROVE  Rank(u[i]) <= Rank(u[j]) /\ u[i] # u[j]
    BY DEF Ordered
  <2>1. CASE j <= Len(s)
    <3>1. i \in DOMAIN s /\ j \in DOMAIN s /\ u[i] = s[i] /\ u[j] = s[j] BY <1>1, <2>1
    <3> QED BY <1>5, <3>1 DEF Ordered
  <2>2. CASE i > Len(s)
    <3>1. /\ i - Len(s) \in DOMAIN t /\ j - Len(s) \in DOMAIN t /\ i - Len(s) < j - Len(s)
          /\ u[i] = t[i - Len(s)] /\ u[j] = t[j - Len(s)]
      BY <1>1, <2>2
    <3> QED BY <1>5, <3>1 DEF Ordered
  <2>3. CASE i <= Len(s) /\ j > Len(s)
    <3>1. i \in DOMAIN s /\ j - Len(s) \in DOMAIN t /\ u[i] = s[i] /\ u[j] = t[j - Len(s)]
      BY <1>1, <2>3
    <3>2. u[i] \in Ops(s) /\ u[j] \in Ops(t) BY <3>1 DEF Ops
    <3>3. Rank(u[i]) < Rank(u[j]) BY <1>5, <3>2
    <3>4. Rank(u[i]) \in Nat /\ Rank(u[j]) \in Nat BY DEF Rank
    <3> QED BY <3>3, <3>4
  <2> QED BY <1>1, <2>1, <2>2, <2>3
<1> QED BY <1>1, <1>2, <1>3, <1>4, <1>5 DEF u

\* The first operation is done.
LEMMA OpsTail ==
    ASSUME NEW S, NEW s \in Seq(S), s # << >>
    PROVE  /\ Head(s) \in S /\ Head(s) \in Ops(s) /\ Tail(s) \in Seq(S)
           /\ Ops(s) = {Head(s)} \cup Ops(Tail(s))
           /\ Ordered(s) => /\ Ordered(Tail(s)) /\ Head(s) \notin Ops(Tail(s))
                            /\ \A o \in Ops(s) : Rank(Head(s)) <= Rank(o)
<1>1. /\ Len(s) \in Nat \ {0} /\ DOMAIN s = 1 .. Len(s) /\ Head(s) = s[1]
      /\ Tail(s) \in Seq(S) /\ DOMAIN Tail(s) = 1 .. Len(s) - 1
      /\ \A i \in 1 .. Len(s) - 1 : Tail(s)[i] = s[i + 1]
  BY EmptySeq, HeadTailProperties, LenProperties
<1>2. 1 \in DOMAIN s /\ s[1] \in S BY <1>1, ElementOfSeq
<1>3. \A i \in DOMAIN Tail(s) : i + 1 \in DOMAIN s /\ Tail(s)[i] = s[i + 1] BY <1>1
<1>4. \A i \in DOMAIN s : i = 1 \/ (i - 1 \in DOMAIN Tail(s) /\ Tail(s)[i - 1] = s[i]) BY <1>1
<1>5. Ops(s) = {Head(s)} \cup Ops(Tail(s))
  <2>1. Ops(s) \subseteq {Head(s)} \cup Ops(Tail(s)) BY <1>1, <1>4 DEF Ops
  <2>2. {Head(s)} \cup Ops(Tail(s)) \subseteq Ops(s) BY <1>1, <1>2, <1>3 DEF Ops
  <2> QED BY <2>1, <2>2
<1>6. ASSUME Ordered(s)
      PROVE  /\ Ordered(Tail(s)) /\ Head(s) \notin Ops(Tail(s))
             /\ \A o \in Ops(s) : Rank(Head(s)) <= Rank(o)
  <2>1. Ordered(Tail(s))
    <3> SUFFICES ASSUME NEW i \in DOMAIN Tail(s), NEW j \in DOMAIN Tail(s), i < j
                 PROVE  Rank(Tail(s)[i]) <= Rank(Tail(s)[j]) /\ Tail(s)[i] # Tail(s)[j]
      BY DEF Ordered
    <3>1. i + 1 \in DOMAIN s /\ j + 1 \in DOMAIN s /\ i + 1 < j + 1 BY <1>1
    <3> QED BY <1>3, <1>6, <3>1 DEF Ordered
  <2>2. \A i \in DOMAIN Tail(s) : s[1] # s[i + 1] /\ Rank(s[1]) <= Rank(s[i + 1])
    <3> SUFFICES ASSUME NEW i \in DOMAIN Tail(s)
                 PROVE  s[1] # s[i + 1] /\ Rank(s[1]) <= Rank(s[i + 1])
      OBVIOUS
    <3>1. 1 < i + 1 /\ i + 1 \in DOMAIN s BY <1>1
    <3> QED BY <1>2, <1>6, <3>1 DEF Ordered
  <2>3. Head(s) \notin Ops(Tail(s)) BY <1>1, <1>3, <2>2 DEF Ops
  <2>4. \A o \in Ops(Tail(s)) : Rank(Head(s)) <= Rank(o)
    BY <1>1, <1>3, <2>2 DEF Ops
  <2>5. Rank(Head(s)) <= Rank(Head(s)) BY DEF Rank
  <2> QED BY <1>5, <2>1, <2>3, <2>4, <2>5
<1> QED BY <1>1, <1>2, <1>5, <1>6 DEF Ops

\* The managed files of a transaction: each once, and never ignore.txt.
LEMMA ManagedOk ==
    ASSUME kind \in Kinds
    PROVE  /\ kind.managed \in Seq(Names \ {"ignore"})
           /\ \A i, j \in DOMAIN kind.managed : kind.managed[i] = kind.managed[j] => i = j
           /\ Managed \subseteq Names \ {"ignore"} /\ "settings" \in Managed
           /\ Managed = Ops(kind.managed)
<1>1. CASE kind.managed = <<"settings", "oem", "endpoint">>
  <2>1. DOMAIN kind.managed = 1 .. 3 /\ kind.managed[1] = "settings"
        /\ kind.managed[2] = "oem" /\ kind.managed[3] = "endpoint"
    BY <1>1
  <2> QED BY <1>1, <2>1 DEF Names, Managed, Ops
<1>2. CASE kind.managed = <<"settings", "endpoint">>
  <2>1. DOMAIN kind.managed = 1 .. 2 /\ kind.managed[1] = "settings"
        /\ kind.managed[2] = "endpoint"
    BY <1>2
  <2> QED BY <1>2, <2>1 DEF Names, Managed, Ops
<1>3. CASE kind.managed = <<"settings">>
  <2>1. DOMAIN kind.managed = 1 .. 1 /\ kind.managed[1] = "settings"
    BY <1>3
  <2> QED BY <1>3, <2>1 DEF Names, Managed, Ops
<1> QED BY <1>1, <1>2, <1>3 DEF Kinds

\* The same operation on every managed file.
LEMMA EachOk ==
    ASSUME kind \in Kinds, NEW op \in {"snap", "put", "restore", "delete"}
    PROVE  /\ Each(op, kind.managed) \in Seq(Operations)
           /\ Ops(Each(op, kind.managed)) = {op} \X Managed
           /\ Ordered(Each(op, kind.managed))
<1> DEFINE fs == kind.managed
           e == Each(op, fs)
<1>1. /\ fs \in Seq(Names \ {"ignore"}) /\ Managed = Ops(fs)
      /\ \A i, j \in DOMAIN fs : fs[i] = fs[j] => i = j
  BY ManagedOk
<1> HIDE DEF fs
<1>2. Len(fs) \in Nat /\ DOMAIN fs = 1 .. Len(fs) /\ \A i \in DOMAIN fs : fs[i] \in Names
  BY <1>1, LenProperties, ElementOfSeq
<1>3. DOMAIN e = DOMAIN fs /\ \A i \in DOMAIN fs : e[i] = <<op, fs[i]>> BY DEF Each
<1>4. e \in Seq(Operations)
  <2>1. \A i \in DOMAIN fs : <<op, fs[i]>> \in Operations BY <1>2 DEF Operations, Arguments
  <2>2. e \in [1 .. Len(fs) -> Operations] BY <1>2, <2>1 DEF Each
  <2> QED BY <1>2, <2>2, SeqDef
<1> HIDE DEF e
<1>5. Ops(e) = {op} \X Managed
  <2>1. ASSUME NEW o \in Ops(e) PROVE o \in {op} \X Managed
    <3>1. PICK i \in DOMAIN fs : o = <<op, fs[i]>> BY <1>3 DEF Ops
    <3>2. fs[i] \in Managed BY <1>1 DEF Ops
    <3> QED BY <3>1, <3>2
  <2>2. ASSUME NEW o \in {op} \X Managed PROVE o \in Ops(e)
    <3>1. o = <<op, o[2]>> /\ o[2] \in Ops(fs) BY <1>1
    <3>2. PICK i \in DOMAIN fs : fs[i] = o[2] BY <3>1 DEF Ops
    <3> QED BY <1>3, <3>1, <3>2 DEF Ops
  <2> QED BY <2>1, <2>2
<1>6. Ordered(e)
  <2> SUFFICES ASSUME NEW i \in DOMAIN e, NEW j \in DOMAIN e, i < j
               PROVE  Rank(e[i]) <= Rank(e[j]) /\ e[i] # e[j]
    BY DEF Ordered
  <2>1. fs[i] # fs[j] /\ e[i] = <<op, fs[i]>> /\ e[j] = <<op, fs[j]>> BY <1>1, <1>2, <1>3
  <2>2. Rank(<<op, fs[i]>>) = Rank(<<op, fs[j]>>) /\ Rank(<<op, fs[i]>>) \in Nat BY DEF Rank
  <2> QED BY <2>1, <2>2
<1> QED BY <1>4, <1>5, <1>6 DEF e, fs

-----------------------------------------------------------------------------
(* The agendas of the commands.                                            *)

LEMMA OperationsOk ==
    /\ <<"dir", "">> \in Operations /\ <<"marker", "">> \in Operations
    /\ <<"phase", "prepared">> \in Operations /\ <<"manifest", "">> \in Operations
    /\ <<"phase", "mutation_started">> \in Operations
    /\ <<"ignore", "">> \in Operations /\ <<"logs", "">> \in Operations
    /\ <<"unignore", "">> \in Operations /\ <<"phase", "restored">> \in Operations
    /\ <<"delete", "marker">> \in Operations /\ <<"delete", "phase">> \in Operations
    /\ <<"delete", "manifest">> \in Operations /\ <<"rmdir", "">> \in Operations
BY DEF Operations, Arguments

\* Ranks are numbers.
LEMMA RankNat == \A o : Rank(o) \in Nat
BY DEF Rank

\* Two operations one after the other.
LEMMA OpsPair ==
    ASSUME NEW a \in Operations, NEW b \in Operations, Rank(a) < Rank(b)
    PROVE  /\ <<a, b>> \in Seq(Operations) /\ Ops(<<a, b>>) = {a, b}
           /\ Ordered(<<a, b>>)
<1>1. <<a, b>> \in Seq(Operations) OBVIOUS
<1>2. Ops(<<a, b>>) = {a, b} BY DEF Ops
<1>3. Rank(a) \in Nat /\ Rank(b) \in Nat BY RankNat
<1>4. Rank(a) <= Rank(b) /\ a # b BY <1>3
<1> HIDE DEF Rank
<1>5. Ordered(<<a, b>>) BY <1>4 DEF Ordered
<1> QED BY <1>1, <1>2, <1>5

\* The ranks of an agenda are below k, or not.
Below(s, k) == \A o \in Ops(s) : Rank(o) < k
From(s, k)  == \A o \in Ops(s) : k <= Rank(o)

LEMMA OpsAppended ==
    ASSUME NEW s \in Seq(Operations), NEW t \in Seq(Operations), Ordered(s), Ordered(t),
           NEW k \in Nat, NEW l \in Nat, k < l, Below(s, k), From(t, k), Below(t, l)
    PROVE  /\ s \o t \in Seq(Operations) /\ Ordered(s \o t)
           /\ Ops(s \o t) = Ops(s) \cup Ops(t) /\ Below(s \o t, l)
<1>1. \A a \in Ops(s), b \in Ops(t) : Rank(a) < Rank(b) BY RankNat DEF Below, From
<1>2. \A a \in Ops(s) : Rank(a) < l BY RankNat DEF Below
<1> QED BY <1>1, <1>2, OpsJoined DEF Below

\* The operations of a runtime-update only.
LEMMA RuntimeOnly ==
    ASSUME NEW s \in Seq(Operations), Ordered(s)
    PROVE  /\ OnlyRuntime(s) \in Seq(Operations) /\ Ordered(OnlyRuntime(s))
           /\ Ops(OnlyRuntime(s)) = IF Runtime THEN Ops(s) ELSE {}
BY DEF OnlyRuntime, Ops, Ordered

\* apply: the directory and the marker, the snapshots, the manifest that makes them
\* count, the phase that says so, and only then the files.
LEMMA ApplyAgendaOk ==
    ASSUME kind \in Kinds
    PROVE  /\ ApplyAgenda \in Seq(Operations) /\ Ordered(ApplyAgenda)
           /\ Ops(ApplyAgenda) = ApplyOps
<1> DEFINE a1 == << <<"dir", "">>, <<"marker", "">> >>
           a2 == OnlyRuntime(<< <<"phase", "prepared">> >>)
           a3 == Each("snap", kind.managed)
           a4 == << <<"manifest", "">> >>
           a5 == OnlyRuntime(<< <<"phase", "mutation_started">> >>)
           a6 == Each("put", kind.managed)
           a7 == OnlyRuntime(<< <<"ignore", "">>, <<"logs", "">> >>)
<1>2. /\ Rank(<<"dir", "">>) = 0 /\ Rank(<<"marker", "">>) = 1
      /\ Rank(<<"phase", "prepared">>) = 2 /\ Rank(<<"manifest", "">>) = 4
      /\ Rank(<<"phase", "mutation_started">>) = 5
      /\ Rank(<<"ignore", "">>) = 7 /\ Rank(<<"logs", "">>) = 8
      /\ \A f : Rank(<<"snap", f>>) = 3 /\ Rank(<<"put", f>>) = 6
  BY DEF Rank
<1>3. a1 \in Seq(Operations) /\ Ordered(a1) /\ Ops(a1) = {<<"dir", "">>, <<"marker", "">>}
  <2>1. Rank(<<"dir", "">>) < Rank(<<"marker", "">>) BY DEF Rank
  <2> QED BY <2>1, OperationsOk, OpsPair
<1>4. /\ a2 \in Seq(Operations) /\ Ordered(a2)
      /\ Ops(a2) = IF Runtime THEN {<<"phase", "prepared">>} ELSE {}
  BY OperationsOk, OpsSmall, RuntimeOnly
<1>5. a3 \in Seq(Operations) /\ Ordered(a3) /\ Ops(a3) = {"snap"} \X Managed
  BY EachOk
<1>6. a4 \in Seq(Operations) /\ Ordered(a4) /\ Ops(a4) = {<<"manifest", "">>}
  BY OperationsOk, OpsSmall
<1>7. /\ a5 \in Seq(Operations) /\ Ordered(a5)
      /\ Ops(a5) = IF Runtime THEN {<<"phase", "mutation_started">>} ELSE {}
  BY OperationsOk, OpsSmall, RuntimeOnly
<1>8. a6 \in Seq(Operations) /\ Ordered(a6) /\ Ops(a6) = {"put"} \X Managed
  BY EachOk
<1>9. /\ a7 \in Seq(Operations) /\ Ordered(a7)
      /\ Ops(a7) = IF Runtime THEN {<<"ignore", "">>, <<"logs", "">>} ELSE {}
  <2>1. Rank(<<"ignore", "">>) < Rank(<<"logs", "">>) BY DEF Rank
  <2>2. /\ << <<"ignore", "">>, <<"logs", "">> >> \in Seq(Operations)
        /\ Ordered(<< <<"ignore", "">>, <<"logs", "">> >>)
        /\ Ops(<< <<"ignore", "">>, <<"logs", "">> >>) = {<<"ignore", "">>, <<"logs", "">>}
    BY <2>1, OperationsOk, OpsPair
  <2> QED BY <2>2, RuntimeOnly
<1>10. ApplyAgenda = a1 \o a2 \o a3 \o a4 \o a5 \o a6 \o a7
  BY DEF ApplyAgenda
<1> HIDE DEF a1, a2, a3, a4, a5, a6, a7
<1>10a. /\ a1 \in Seq(Operations) /\ Ordered(a1) /\ a2 \in Seq(Operations) /\ Ordered(a2)
      /\ a3 \in Seq(Operations) /\ Ordered(a3) /\ a4 \in Seq(Operations) /\ Ordered(a4)
      /\ a5 \in Seq(Operations) /\ Ordered(a5) /\ a6 \in Seq(Operations) /\ Ordered(a6)
      /\ a7 \in Seq(Operations) /\ Ordered(a7)
  BY <1>3, <1>4, <1>5, <1>6, <1>7, <1>8, <1>9
<1>11. Below(a1, 2)
  <2>1. \A o \in Ops(a1) : Rank(o) = 0 \/ Rank(o) = 1 BY <1>2, <1>3
  <2> QED BY <2>1 DEF Below, From
<1>12. From(a2, 2) /\ Below(a2, 3)
  <2>1. \A o \in Ops(a2) : Rank(o) = 2 BY <1>2, <1>4
  <2> QED BY <2>1 DEF Below, From
<1>13. From(a3, 3) /\ Below(a3, 4)
  <2>1. \A o \in Ops(a3) : Rank(o) = 3 BY <1>5 DEF Rank
  <2> QED BY <2>1 DEF Below, From
<1>14. From(a4, 4) /\ Below(a4, 5)
  <2>1. \A o \in Ops(a4) : Rank(o) = 4 BY <1>2, <1>6
  <2> QED BY <2>1 DEF Below, From
<1>15. From(a5, 5) /\ Below(a5, 6)
  <2>1. \A o \in Ops(a5) : Rank(o) = 5 BY <1>2, <1>7
  <2> QED BY <2>1 DEF Below, From
<1>16. From(a6, 6) /\ Below(a6, 7)
  <2>1. \A o \in Ops(a6) : Rank(o) = 6 BY <1>8 DEF Rank
  <2> QED BY <2>1 DEF Below, From
<1>17. From(a7, 7) /\ Below(a7, 9)
  <2>1. \A o \in Ops(a7) : Rank(o) = 7 \/ Rank(o) = 8 BY <1>2, <1>9
  <2> QED BY <2>1 DEF Below, From
<1> DEFINE b2 == a1 \o a2
           b3 == b2 \o a3
           b4 == b3 \o a4
           b5 == b4 \o a5
           b6 == b5 \o a6
           b7 == b6 \o a7
<1>18. /\ b2 \in Seq(Operations) /\ Ordered(b2)
       /\ Ops(b2) = Ops(a1) \cup Ops(a2) /\ Below(b2, 3)
  BY <1>10a, <1>11, <1>12, OpsAppended
<1> HIDE DEF b2
<1>19. /\ b3 \in Seq(Operations) /\ Ordered(b3)
       /\ Ops(b3) = Ops(b2) \cup Ops(a3) /\ Below(b3, 4)
  BY <1>10a, <1>18, <1>13, OpsAppended
<1> HIDE DEF b3
<1>20. /\ b4 \in Seq(Operations) /\ Ordered(b4)
       /\ Ops(b4) = Ops(b3) \cup Ops(a4) /\ Below(b4, 5)
  BY <1>10a, <1>19, <1>14, OpsAppended
<1> HIDE DEF b4
<1>21. /\ b5 \in Seq(Operations) /\ Ordered(b5)
       /\ Ops(b5) = Ops(b4) \cup Ops(a5) /\ Below(b5, 6)
  BY <1>10a, <1>20, <1>15, OpsAppended
<1> HIDE DEF b5
<1>22. /\ b6 \in Seq(Operations) /\ Ordered(b6)
       /\ Ops(b6) = Ops(b5) \cup Ops(a6) /\ Below(b6, 7)
  BY <1>10a, <1>21, <1>16, OpsAppended
<1> HIDE DEF b6
<1>23. /\ b7 \in Seq(Operations) /\ Ordered(b7)
       /\ Ops(b7) = Ops(b6) \cup Ops(a7) /\ Below(b7, 9)
  BY <1>10a, <1>22, <1>17, OpsAppended
<1> HIDE DEF b7
<1>24. ApplyAgenda = b7 BY <1>10 DEF b2, b3, b4, b5, b6, b7
<1>25. Ops(b7) = Ops(a1) \cup Ops(a2) \cup Ops(a3) \cup Ops(a4) \cup Ops(a5)
                 \cup Ops(a6) \cup Ops(a7)
  BY <1>18, <1>19, <1>20, <1>21, <1>22, <1>23
<1>26. {"snap", "put"} \X Managed = ({"snap"} \X Managed) \cup ({"put"} \X Managed)
  OBVIOUS
<1>27. Ops(b7) = ApplyOps
  BY <1>3, <1>4, <1>5, <1>6, <1>7, <1>8, <1>9, <1>25, <1>26 DEF ApplyOps
<1> QED BY <1>23, <1>24, <1>27

\* rollback: the phase is advanced when every file has been restored.
LEMMA RestoreAgendaOk ==
    ASSUME kind \in Kinds
    PROVE  /\ RestoreAgenda \in Seq(Operations) /\ Ordered(RestoreAgenda)
           /\ Ops(RestoreAgenda) = RestoreOps
<1> DEFINE a1 == Each("restore", kind.managed)
           a2 == << <<"unignore", "">>, <<"phase", "restored">> >>
<1>2. /\ Rank(<<"unignore", "">>) = 10 /\ Rank(<<"phase", "restored">>) = 11
      /\ \A f : Rank(<<"restore", f>>) = 9
  BY DEF Rank
<1>3. a1 \in Seq(Operations) /\ Ordered(a1) /\ Ops(a1) = {"restore"} \X Managed
  BY EachOk
<1>4. /\ a2 \in Seq(Operations) /\ Ordered(a2)
      /\ Ops(a2) = {<<"unignore", "">>, <<"phase", "restored">>}
  <2>1. Rank(<<"unignore", "">>) < Rank(<<"phase", "restored">>) BY DEF Rank
  <2> QED BY <2>1, OperationsOk, OpsPair
<1>5. RestoreAgenda = a1 \o OnlyRuntime(a2) BY DEF RestoreAgenda
<1> HIDE DEF a1, a2
<1>6. /\ OnlyRuntime(a2) \in Seq(Operations) /\ Ordered(OnlyRuntime(a2))
      /\ Ops(OnlyRuntime(a2)) = IF Runtime THEN Ops(a2) ELSE {}
  BY <1>4, RuntimeOnly
<1>7. Below(a1, 10)
  <2>1. \A o \in Ops(a1) : Rank(o) = 9 BY <1>3 DEF Rank
  <2> QED BY <2>1 DEF Below, From
<1>8. From(OnlyRuntime(a2), 10) /\ Below(OnlyRuntime(a2), 12)
  <2>1. \A o \in Ops(OnlyRuntime(a2)) : Rank(o) = 10 \/ Rank(o) = 11 BY <1>2, <1>4, <1>6
  <2> QED BY <2>1 DEF Below, From
<1>9. /\ RestoreAgenda \in Seq(Operations) /\ Ordered(RestoreAgenda)
      /\ Ops(RestoreAgenda) = Ops(a1) \cup Ops(OnlyRuntime(a2))
  <2>1. a1 \in Seq(Operations) /\ Ordered(a1) BY <1>3
  <2>2. OnlyRuntime(a2) \in Seq(Operations) /\ Ordered(OnlyRuntime(a2)) BY <1>6
  <2> QED BY <1>5, <1>7, <1>8, <2>1, <2>2, OpsAppended
<1> QED BY <1>3, <1>4, <1>6, <1>9 DEF RestoreOps

\* The undoing of an apply is a rollback, or part of one.
LEMMA UndoAgendaOk ==
    ASSUME kind \in Kinds
    PROVE  /\ UndoAgenda \in Seq(Operations) /\ Ordered(UndoAgenda)
           /\ Ops(UndoAgenda) \subseteq RestoreOps
           /\ Runtime => Ops(UndoAgenda) = RestoreOps
<1>1. CASE Runtime BY <1>1, RestoreAgendaOk DEF UndoAgenda
<1>2. CASE ~Runtime
  <2>1. "settings" \in Managed /\ Managed \subseteq Names BY ManagedOk
  <2>2. <<"restore", "settings">> \in Operations /\ <<"restore", "endpoint">> \in Operations
    BY DEF Operations, Arguments, Names
  <2>3. <<"restore", "settings">> \in RestoreOps BY <2>1 DEF RestoreOps
  <2>4. CASE "endpoint" \in Managed \cap manifest
    <3>1. <<"restore", "endpoint">> \in RestoreOps BY <2>4 DEF RestoreOps
    <3>2. UndoAgenda = << <<"restore", "settings">>, <<"restore", "endpoint">> >>
      BY <1>2, <2>4 DEF UndoAgenda
    <3>3. /\ UndoAgenda \in Seq(Operations)
          /\ Ops(UndoAgenda) = {<<"restore", "settings">>, <<"restore", "endpoint">>}
      BY <2>2, <3>2 DEF Ops
    <3>4. Ordered(UndoAgenda)
      <4>1. Rank(<<"restore", "settings">>) = 9 /\ Rank(<<"restore", "endpoint">>) = 9
        BY DEF Rank
      <4> QED BY <3>2, <4>1 DEF Ordered
    <3> QED BY <1>2, <2>3, <3>1, <3>3, <3>4
  <2>5. CASE "endpoint" \notin Managed \cap manifest
    <3>1. UndoAgenda = << <<"restore", "settings">> >>
      BY <1>2, <2>5 DEF UndoAgenda
    <3> QED BY <1>2, <2>2, <2>3, <3>1, OpsSmall
  <2> QED BY <2>4, <2>5
<1> QED BY <1>1, <1>2

\* commit only deletes.
LEMMA CommitAgendaOk ==
    ASSUME kind \in Kinds
    PROVE  /\ CommitAgenda \in Seq(Operations)
           /\ \A o \in Ops(CommitAgenda) : o[1] \in {"delete", "rmdir"}
<1> DEFINE a1 == << <<"delete", "marker">> >>
           a2 == OnlyRuntime(<< <<"delete", "phase">> >>)
           a3 == IF manifest = None THEN << >> ELSE << <<"delete", "manifest">> >>
           a4 == Each("delete", kind.managed)
           a5 == << <<"rmdir", "">> >>
           ok(s) == s \in Seq(Operations) /\ \A o \in Ops(s) : o[1] \in {"delete", "rmdir"}
<1>1. /\ <<"delete", "marker">>[1] = "delete" /\ <<"delete", "phase">>[1] = "delete"
      /\ <<"delete", "manifest">>[1] = "delete" /\ <<"rmdir", "">>[1] = "rmdir"
  OBVIOUS
<1>2. ok(a1) /\ ok(a5)
  <2>1. a1 \in Seq(Operations) /\ Ops(a1) = {<<"delete", "marker">>}
    BY OperationsOk, OpsSmall
  <2>2. a5 \in Seq(Operations) /\ Ops(a5) = {<<"rmdir", "">>}
    BY OperationsOk, OpsSmall
  <2> QED BY <1>1, <2>1, <2>2
<1>3. ok(a2)
  <2>1. a2 \in Seq(Operations) /\ Ops(a2) \subseteq {<<"delete", "phase">>}
    BY OperationsOk, OpsSmall, RuntimeOnly
  <2> QED BY <1>1, <2>1
<1>4. ok(a3)
  <2>1. a3 \in Seq(Operations) /\ Ops(a3) \subseteq {<<"delete", "manifest">>}
    BY OperationsOk, OpsSmall
  <2> QED BY <1>1, <2>1
<1>5. ok(a4) BY EachOk
<1>6. CommitAgenda = a1 \o a2 \o a3 \o a4 \o a5 BY DEF CommitAgenda
<1>7. \A s, t : ok(s) /\ ok(t) => ok(s \o t) BY OpsJoined
<1> HIDE DEF a1, a2, a3, a4, a5, ok
<1>8. ok(CommitAgenda)
  <2>1. ok(a1 \o a2) BY <1>2, <1>3, <1>7
  <2>2. ok(a1 \o a2 \o a3) BY <1>4, <1>7, <2>1
  <2>3. ok(a1 \o a2 \o a3 \o a4) BY <1>5, <1>7, <2>2
  <2> QED BY <1>2, <1>6, <1>7, <2>3
<1> QED BY <1>8 DEF ok

-----------------------------------------------------------------------------
(* One operation of a command.                                             *)

\* What an operation of an agenda says of the command that runs.
LEMMA CommandOf ==
    ASSUME TxInv, NEW o \in Pending
    PROVE  /\ cmd # "none"
           /\ o[1] \in {"dir", "marker", "snap", "manifest", "put", "ignore", "logs"} =>
                 cmd = "apply"
           /\ o[1] \in {"restore", "unignore"} => cmd \in {"undo", "rollback"}
           /\ o[1] \in {"delete", "rmdir"} => cmd = "commit"
           /\ o[1] = "phase" =>
                 /\ Runtime
                 /\ \/ cmd = "apply" /\ o[2] \in {"prepared", "mutation_started"}
                    \/ cmd \in {"undo", "rollback"} /\ o[2] = "restored"
           /\ o[1] \in {"snap", "put", "restore"} => o[2] \in Managed
           /\ o[1] \in {"dir", "marker", "manifest"} => o[2] = ""
<1>1. cmd # "none"
  <2>1. agenda = << >> => Pending = {} BY DEF Pending, Ops
  <2> QED BY <2>1 DEF TxInv, PlaceOk
<1>2. cmd \in {"apply", "undo", "rollback", "commit"} BY <1>1 DEF TxInv, TypeOK
<1>3. CASE cmd = "apply"
  <2>1. o \in ApplyOps BY <1>3 DEF TxInv, AgendaOk
  <2>2. CASE o \in {"snap", "put"} \X Managed
    <3>1. o[1] \in {"snap", "put"} /\ o[2] \in Managed BY <2>2
    <3> QED BY <1>3, <3>1
  <2>3. CASE o \notin {"snap", "put"} \X Managed
    <3>1. \/ o[1] \in {"dir", "marker", "manifest"} /\ o[2] = ""
          \/ Runtime /\ o[1] = "phase" /\ o[2] \in {"prepared", "mutation_started"}
          \/ o[1] \in {"ignore", "logs"}
      <4>1. \/ o = <<"dir", "">> \/ o = <<"marker", "">> \/ o = <<"manifest", "">>
            \/ Runtime /\ (o = <<"phase", "prepared">> \/ o = <<"phase", "mutation_started">>)
            \/ o = <<"ignore", "">> \/ o = <<"logs", "">>
        BY <2>1, <2>3 DEF ApplyOps
      <4>2. CASE o = <<"dir", "">> BY <4>2
      <4>3. CASE o = <<"marker", "">> BY <4>3
      <4>4. CASE o = <<"manifest", "">> BY <4>4
      <4>5. CASE Runtime /\ o = <<"phase", "prepared">> BY <4>5
      <4>6. CASE Runtime /\ o = <<"phase", "mutation_started">> BY <4>6
      <4>7. CASE o = <<"ignore", "">> BY <4>7
      <4>8. CASE o = <<"logs", "">> BY <4>8
      <4> QED BY <4>1, <4>2, <4>3, <4>4, <4>5, <4>6, <4>7, <4>8
    <3> QED BY <1>3, <3>1
  <2> QED BY <2>2, <2>3
<1>4. CASE cmd \in {"undo", "rollback"}
  <2>1. o \in RestoreOps BY <1>4 DEF TxInv, AgendaOk
  <2>2. CASE o \in {"restore"} \X Managed
    <3>1. o[1] = "restore" /\ o[2] \in Managed BY <2>2
    <3> QED BY <1>4, <3>1
  <2>3. CASE o \notin {"restore"} \X Managed
    <3>1. \/ o[1] = "unignore"
          \/ Runtime /\ o[1] = "phase" /\ o[2] = "restored"
      <4>1. o = <<"unignore", "">> \/ (Runtime /\ o = <<"phase", "restored">>)
        BY <2>1, <2>3 DEF RestoreOps
      <4>2. CASE o = <<"unignore", "">> BY <4>2
      <4>3. CASE Runtime /\ o = <<"phase", "restored">> BY <4>3
      <4> QED BY <4>1, <4>2, <4>3
    <3> QED BY <1>4, <3>1
  <2> QED BY <2>2, <2>3
<1>5. CASE cmd = "commit"
  <2>1. o[1] \in {"delete", "rmdir"} BY <1>5 DEF TxInv, AgendaOk
  <2> QED BY <1>5, <2>1
<1> QED BY <1>2, <1>3, <1>4, <1>5

\* What all operations have in common.
LEMMA OperationFrame ==
    ASSUME TxInv, NEW op, Do(op)
    PROVE  /\ UNCHANGED <<kind, before, cmd, stage, faults>> /\ cmd # "none"
           /\ Head(agenda) \in Pending /\ Head(agenda) = <<op, Arg>>
           /\ \A o : o \in Pending <=> o = Head(agenda) \/ o \in Pending'
           /\ cmd # "commit" => /\ Head(agenda) \notin Pending'
                                /\ \A o \in Pending : Rank(Head(agenda)) <= Rank(o)
           /\ PlaceOk' /\ AgendaOk' /\ NewOk'
           /\ UNCHANGED <<Managed, Runtime, Existed>>
<1>1. /\ agenda # << >> /\ Op = op /\ agenda' = Tail(agenda)
      /\ UNCHANGED <<kind, before, cmd, stage, faults>>
  BY DEF Do
<1>2. agenda \in Seq(Operations) BY DEF TxInv, AgendaOk
<1>3. /\ Head(agenda) \in Operations /\ Head(agenda) \in Pending
      /\ agenda' \in Seq(Operations)
      /\ Pending = {Head(agenda)} \cup Pending'
      /\ Ordered(agenda) => /\ Ordered(agenda') /\ Head(agenda) \notin Pending'
                            /\ \A o \in Pending : Rank(Head(agenda)) <= Rank(o)
  <2>1. /\ Head(agenda) \in Operations /\ Head(agenda) \in Ops(agenda)
        /\ Tail(agenda) \in Seq(Operations)
        /\ Ops(agenda) = {Head(agenda)} \cup Ops(Tail(agenda))
        /\ Ordered(agenda) => /\ Ordered(Tail(agenda)) /\ Head(agenda) \notin Ops(Tail(agenda))
                              /\ \A o \in Ops(agenda) : Rank(Head(agenda)) <= Rank(o)
    BY <1>1, <1>2, OpsTail
  <2>2. Pending = Ops(agenda) /\ Pending' = Ops(Tail(agenda)) BY <1>1 DEF Pending
  <2> QED BY <1>1, <2>1, <2>2
<1>4. Head(agenda) = <<op, Arg>>
  <2>1. Head(agenda) = <<Head(agenda)[1], Head(agenda)[2]>> BY <1>3 DEF Operations
  <2> QED BY <1>1, <2>1 DEF Op, Arg
<1>5. cmd # "none" BY <1>3, CommandOf
<1>6. PlaceOk' BY <1>1, <1>5 DEF TxInv, PlaceOk
<1>7. UNCHANGED <<Managed, Runtime, Existed>> BY <1>1 DEF Managed, Runtime, Existed
<1>8. ApplyOps' = ApplyOps /\ RestoreOps' = RestoreOps
  BY <1>1 DEF ApplyOps, RestoreOps, Managed, Runtime
<1>9. AgendaOk'
  <2>1. ASSUME cmd = "apply", NEW o \in Pending', NEW p \in ApplyOps, Rank(o) < Rank(p)
        PROVE  p \in Pending'
    <3>1. o \in Pending /\ p \in Pending BY <1>3, <2>1 DEF TxInv, AgendaOk
    <3>2. Rank(Head(agenda)) <= Rank(o) BY <1>3, <2>1, <3>1 DEF TxInv, AgendaOk
    <3>3. p # Head(agenda) BY <2>1, <3>2, RankNat
    <3> QED BY <1>3, <3>1, <3>3
  <2> QED BY <1>1, <1>3, <1>8, <2>1 DEF TxInv, AgendaOk
<1>10. stage # "new" BY <1>5 DEF TxInv, PlaceOk, TypeOK
<1>11. NewOk' BY <1>1, <1>10 DEF NewOk
<1>12. cmd # "commit" => Ordered(agenda) BY DEF TxInv, AgendaOk
<1> QED BY <1>1, <1>3, <1>4, <1>5, <1>6, <1>7, <1>9, <1>11, <1>12


LEMMA RankOf ==
    /\ \A x : /\ Rank(<<"dir", x>>) = 0 /\ Rank(<<"marker", x>>) = 1
              /\ Rank(<<"snap", x>>) = 3 /\ Rank(<<"manifest", x>>) = 4
              /\ Rank(<<"put", x>>) = 6 /\ Rank(<<"ignore", x>>) = 7
              /\ Rank(<<"logs", x>>) = 8 /\ Rank(<<"restore", x>>) = 9
    /\ Rank(<<"phase", "prepared">>) = 2 /\ Rank(<<"phase", "mutation_started">>) = 5
    /\ Rank(<<"phase", "restored">>) = 11
BY DEF Rank

\* The same, for the pair of the operation and its argument.
LEMMA OperationPair ==
    ASSUME TxInv, NEW op, Do(op)
    PROVE  /\ cmd # "none"
           /\ op \in {"dir", "marker", "snap", "manifest", "put", "ignore", "logs"} =>
                 cmd = "apply"
           /\ op \in {"restore", "unignore"} => cmd \in {"undo", "rollback"}
           /\ op \in {"delete", "rmdir"} => cmd = "commit"
           /\ op = "phase" =>
                 /\ Runtime
                 /\ \/ cmd = "apply" /\ Arg \in {"prepared", "mutation_started"}
                    \/ cmd \in {"undo", "rollback"} /\ Arg = "restored"
           /\ op \in {"snap", "put", "restore"} => Arg \in Managed
           /\ op \in {"dir", "marker", "manifest"} => Arg = ""
           /\ <<op, Arg>> \in Pending
           /\ \A p, x : p # op \/ x # Arg =>
                 (<<p, x>> \in Pending <=> <<p, x>> \in Pending')
           /\ cmd # "commit" => /\ <<op, Arg>> \notin Pending'
                                /\ \A o \in Pending : Rank(<<op, Arg>>) <= Rank(o)
<1>1. /\ Head(agenda) \in Pending /\ Head(agenda) = <<op, Arg>>
      /\ \A o : o \in Pending <=> o = Head(agenda) \/ o \in Pending'
      /\ cmd # "commit" => /\ Head(agenda) \notin Pending'
                           /\ \A o \in Pending : Rank(Head(agenda)) <= Rank(o)
  BY OperationFrame
<1>2. <<op, Arg>>[1] = op /\ <<op, Arg>>[2] = Arg OBVIOUS
<1>3. Head(agenda)[1] = op /\ Head(agenda)[2] = Arg BY <1>1, <1>2
<1> DEFINE h == Head(agenda)
<1> HIDE DEF h
<1>4. h[1] = op /\ h[2] = Arg /\ h \in Pending BY <1>1, <1>3 DEF h
<1>5. /\ cmd # "none"
      /\ h[1] \in {"dir", "marker", "snap", "manifest", "put", "ignore", "logs"} =>
            cmd = "apply"
      /\ h[1] \in {"restore", "unignore"} => cmd \in {"undo", "rollback"}
      /\ h[1] \in {"delete", "rmdir"} => cmd = "commit"
      /\ h[1] = "phase" =>
            /\ Runtime
            /\ \/ cmd = "apply" /\ h[2] \in {"prepared", "mutation_started"}
               \/ cmd \in {"undo", "rollback"} /\ h[2] = "restored"
      /\ h[1] \in {"snap", "put", "restore"} => h[2] \in Managed
      /\ h[1] \in {"dir", "marker", "manifest"} => h[2] = ""
  BY <1>4, CommandOf
<1>6. \A p, x : p # op \/ x # Arg => <<p, x>> # <<op, Arg>> OBVIOUS
<1>7. \A p, x : p # op \/ x # Arg =>
         (<<p, x>> \in Pending <=> <<p, x>> \in Pending')
  BY <1>1, <1>6
<1> QED BY <1>1, <1>4, <1>5, <1>7

\* The parts of the invariant.
LEMMA Parts ==
    ASSUME TxInv
    PROVE  /\ TypeOK /\ PlaceOk /\ AgendaOk /\ IgnoreOk /\ NewOk /\ ApplyOk
           /\ RestoreOk /\ ManifestOk /\ SafeOk /\ StageOk
BY DEF TxInv

\* What apply has done.
LEMMA ApplyParts ==
    ASSUME TxInv, cmd = "apply"
    PROVE  /\ (\E o \in Pending : Rank(o) < 6) => data = before
           /\ <<"dir", "">> \notin Pending => dir
           /\ <<"marker", "">> \notin Pending => marker
           /\ \A f \in Managed : <<"snap", f>> \notin Pending => snap[f] = before[f]
           /\ manifest = IF <<"manifest", "">> \in Pending THEN None ELSE Existed
           /\ Runtime /\ <<"phase", "mutation_started">> \notin Pending =>
                 phase = "mutation_started"
           /\ \A f \in Managed : <<"put", f>> \notin Pending => data[f] = New
BY DEF TxInv, ApplyOk

\* An operation of apply promises nothing about a rollback.
LEMMA ApplyOperation ==
    ASSUME TxInv, NEW op, Do(op), cmd = "apply"
    PROVE  stage = "applying" /\ RestoreOk' /\ SafeOk' /\ StageOk'
<1>1. stage = "applying" BY DEF TxInv, PlaceOk
<1>2. cmd' = "apply" /\ stage' = "applying" BY <1>1, OperationFrame
<1> QED BY <1>1, <1>2 DEF RestoreOk, SafeOk, StageOk

LEMMA StepCreateDirectory ==
    ASSUME TxInv, CreateDirectoryExclusive
    PROVE  TxInv'
<1>0. Do("dir") BY DEF CreateDirectoryExclusive
<1>1. /\ UNCHANGED <<kind, before, cmd, stage, faults, Managed, Runtime, Existed>>
      /\ PlaceOk' /\ AgendaOk' /\ NewOk'
  BY <1>0, OperationFrame
<1>2. UNCHANGED <<data, marker, phase, manifest, snap, stray>> /\ dir' = TRUE
  BY DEF CreateDirectoryExclusive
<1>3. /\ cmd = "apply" /\ Arg = "" /\ <<"dir", Arg>> \in Pending
      /\ \A p, x : p # "dir" \/ x # Arg =>
            (<<p, x>> \in Pending <=> <<p, x>> \in Pending')
  BY <1>0, OperationPair
<1>4. data = before
  <2>1. Rank(<<"dir", Arg>>) < 6 BY RankOf
  <2> QED BY <1>3, <2>1, ApplyParts
<1>5. RestoreOk' /\ SafeOk' /\ StageOk' /\ stage = "applying" BY <1>0, <1>3, ApplyOperation
<1>6. TypeOK' BY <1>1, <1>2, Parts DEF TypeOK
<1>7. ApplyOk' BY <1>1, <1>2, <1>3, <1>4, ApplyParts DEF ApplyOk
<1>8. ManifestOk' BY <1>1, <1>2 DEF TxInv, ManifestOk
<1>9. IgnoreOk' BY <1>1, <1>2 DEF TxInv, IgnoreOk
<1> QED BY <1>1, <1>5, <1>6, <1>7, <1>8, <1>9 DEF TxInv

LEMMA StepWriteMarker ==
    ASSUME TxInv, WriteMarker
    PROVE  TxInv'
<1>0. Do("marker") BY DEF WriteMarker
<1>1. /\ UNCHANGED <<kind, before, cmd, stage, faults, Managed, Runtime, Existed>>
      /\ PlaceOk' /\ AgendaOk' /\ NewOk'
  BY <1>0, OperationFrame
<1>2. UNCHANGED <<data, dir, phase, manifest, snap, stray>> /\ marker' = TRUE
  BY DEF WriteMarker
<1>3. /\ cmd = "apply" /\ Arg = "" /\ <<"marker", Arg>> \in Pending
      /\ \A p, x : p # "marker" \/ x # Arg =>
            (<<p, x>> \in Pending <=> <<p, x>> \in Pending')
  BY <1>0, OperationPair
<1>4. data = before
  <2>1. Rank(<<"marker", Arg>>) < 6 BY RankOf
  <2> QED BY <1>3, <2>1, ApplyParts
<1>5. RestoreOk' /\ SafeOk' /\ StageOk' /\ stage = "applying" BY <1>0, <1>3, ApplyOperation
<1>6. TypeOK' BY <1>1, <1>2, Parts DEF TypeOK
<1>7. ApplyOk' BY <1>1, <1>2, <1>3, <1>4, ApplyParts DEF ApplyOk
<1>8. ManifestOk' BY <1>1, <1>2 DEF TxInv, ManifestOk
<1>9. IgnoreOk' BY <1>1, <1>2 DEF TxInv, IgnoreOk
<1> QED BY <1>1, <1>5, <1>6, <1>7, <1>8, <1>9 DEF TxInv

\* The phase "prepared" comes while the files are old, "mutation_started" before the
\* first is replaced, "restored" after the last has been restored.
LEMMA StepWritePhase ==
    ASSUME TxInv, WritePhase
    PROVE  TxInv'
<1>0. Do("phase") BY DEF WritePhase
<1>1. /\ UNCHANGED <<kind, before, cmd, stage, faults, Managed, Runtime, Existed>>
      /\ Head(agenda) \in Pending /\ Head(agenda) = <<"phase", Arg>>
      /\ \A o : o \in Pending <=> o = Head(agenda) \/ o \in Pending'
      /\ cmd # "commit" => \A o \in Pending : Rank(Head(agenda)) <= Rank(o)
      /\ PlaceOk' /\ AgendaOk' /\ NewOk'
  BY <1>0, OperationFrame
<1>2. UNCHANGED <<data, dir, marker, manifest, snap, stray>> /\ phase' = Arg
  BY DEF WritePhase
<1>3. /\ Runtime
      /\ \/ cmd = "apply" /\ Arg \in {"prepared", "mutation_started"}
         \/ cmd \in {"undo", "rollback"} /\ Arg = "restored"
      /\ \A p, x : p # "phase" \/ x # Arg =>
            (<<p, x>> \in Pending <=> <<p, x>> \in Pending')
  BY <1>0, OperationPair
<1>4. TypeOK' BY <1>1, <1>2, <1>3 DEF TxInv, TypeOK, Phases
<1>5. ManifestOk' BY <1>1, <1>2 DEF TxInv, ManifestOk
<1>6. IgnoreOk' BY <1>1, <1>2 DEF TxInv, IgnoreOk
<1>7. CASE cmd = "apply"
  <2>1. RestoreOk' /\ SafeOk' /\ StageOk' BY <1>0, <1>7, ApplyOperation
  <2>2. Arg = "prepared" => <<"phase", "mutation_started">> \in Pending'
    <3>1. SUFFICES ASSUME Arg = "prepared"
                   PROVE  <<"phase", "mutation_started">> \in Pending'
      OBVIOUS
    <3>2. <<"phase", "mutation_started">> \in ApplyOps BY <1>3 DEF ApplyOps
    <3>3. Rank(Head(agenda)) < Rank(<<"phase", "mutation_started">>)
      BY <1>1, <3>1, RankOf
    <3>4. <<"phase", "mutation_started">> \in Pending
      BY <1>1, <1>7, <3>2, <3>3 DEF TxInv, AgendaOk
    <3> QED BY <1>1, <3>1, <3>4
  <2>3. (\E o \in Pending' : Rank(o) < 6) => data = before
    BY <1>1, <1>7, ApplyParts
  <2>4. ApplyOk' BY <1>1, <1>2, <1>3, <1>7, <2>2, <2>3, ApplyParts DEF ApplyOk
  <2> QED BY <1>1, <1>4, <1>5, <1>6, <2>1, <2>4 DEF TxInv
<1>8. CASE cmd \in {"undo", "rollback"}
  <2>1. \A f : <<"restore", f>> \notin Pending
    <3>1. ASSUME NEW f, <<"restore", f>> \in Pending PROVE FALSE
      <4>1. Rank(Head(agenda)) = 11 BY <1>1, <1>3, <1>8, RankOf
      <4>2. Rank(<<"restore", f>>) = 9 BY RankOf
      <4> QED BY <1>1, <1>8, <3>1, <4>1, <4>2
    <3> QED BY <3>1
  <2>2. IsOld BY <1>3, <1>8, <2>1 DEF TxInv, RestoreOk, IsOld
  <2>3. SafeOk' BY <1>1, <1>2, <2>2 DEF SafeOk, IsOld
  <2>4. RestoreOk' BY <1>1, <1>2, <1>8 DEF TxInv, RestoreOk
  <2>5. StageOk' BY <1>1, <1>8 DEF TxInv, PlaceOk, StageOk
  <2>6. ApplyOk' BY <1>1, <1>8 DEF ApplyOk
  <2> QED BY <1>1, <1>4, <1>5, <1>6, <2>3, <2>4, <2>5, <2>6 DEF TxInv
<1> QED BY <1>3, <1>7, <1>8

\* A snapshot is taken while the files are old.
LEMMA StepSnapshot ==
    ASSUME TxInv, SnapshotManagedFile
    PROVE  TxInv'
<1>0. Do("snap") BY DEF SnapshotManagedFile
<1>1. /\ UNCHANGED <<kind, before, cmd, stage, faults, Managed, Runtime, Existed>>
      /\ PlaceOk' /\ AgendaOk' /\ NewOk'
  BY <1>0, OperationFrame
<1>2. /\ UNCHANGED <<data, dir, marker, phase, manifest, stray>>
      /\ snap' = [snap EXCEPT ![Arg] = data[Arg]]
  BY DEF SnapshotManagedFile
<1>3. /\ cmd = "apply" /\ Arg \in Managed /\ <<"snap", Arg>> \in Pending
      /\ \A p, x : p # "snap" \/ x # Arg =>
            (<<p, x>> \in Pending <=> <<p, x>> \in Pending')
  BY <1>0, OperationPair
<1>4. data = before
  <2>1. Rank(<<"snap", Arg>>) < 6 BY RankOf
  <2> QED BY <1>3, <2>1, ApplyParts
<1>5. RestoreOk' /\ SafeOk' /\ StageOk' /\ stage = "applying" BY <1>0, <1>3, ApplyOperation
<1>6. Arg \in Names /\ Managed \subseteq Names BY <1>3, Parts, ManagedOk DEF TypeOK
<1>7. before[Arg] \in {Old, None} /\ snap \in [Names -> {Old, Torn, None}]
  BY <1>6, Parts DEF TypeOK
<1>8. snap'[Arg] = before[Arg] /\ \A f \in Names : f # Arg => snap'[f] = snap[f]
  BY <1>2, <1>4, <1>6, <1>7
<1>9. TypeOK'
  <2>1. snap' \in [Names -> {Old, Torn, None}] BY <1>2, <1>4, <1>6, <1>7
  <2> QED BY <1>1, <1>2, <2>1, Parts DEF TypeOK
<1>10. \A f \in Managed : <<"snap", f>> \notin Pending' => snap'[f] = before[f]
  BY <1>3, <1>6, <1>8, ApplyParts
<1>11. ApplyOk' BY <1>1, <1>2, <1>3, <1>4, <1>10, ApplyParts DEF ApplyOk
<1>12. ManifestOk'
  <2>1. SUFFICES ASSUME manifest # None
                 PROVE  manifest = Existed /\ \A f \in Managed \cap manifest : snap'[f] = Old
    BY <1>1, <1>2 DEF ManifestOk
  <2>2. manifest = Existed /\ \A f \in Managed \cap manifest : snap[f] = Old
    BY <1>5, <2>1, Parts DEF ManifestOk
  <2>3. Arg \in manifest => snap'[Arg] = Old BY <1>7, <1>8, <2>2 DEF Existed
  <2> QED BY <1>6, <1>8, <2>2, <2>3
<1>13. IgnoreOk' BY <1>1, <1>2, Parts DEF IgnoreOk
<1> QED BY <1>1, <1>5, <1>9, <1>11, <1>12, <1>13 DEF TxInv

\* The manifest is written when every snapshot is there.
LEMMA StepWriteManifest ==
    ASSUME TxInv, WriteManifest
    PROVE  TxInv'
<1>0. Do("manifest") BY DEF WriteManifest
<1>1. /\ UNCHANGED <<kind, before, cmd, stage, faults, Managed, Runtime, Existed>>
      /\ PlaceOk' /\ AgendaOk' /\ NewOk'
  BY <1>0, OperationFrame
<1>2. UNCHANGED <<data, dir, marker, phase, snap, stray>> /\ manifest' = Existing
  BY DEF WriteManifest
<1>3. /\ cmd = "apply" /\ Arg = "" /\ <<"manifest", Arg>> \in Pending
      /\ \A p, x : p # "manifest" \/ x # Arg =>
            (<<p, x>> \in Pending <=> <<p, x>> \in Pending')
      /\ <<"manifest", Arg>> \notin Pending'
      /\ \A o \in Pending : Rank(<<"manifest", Arg>>) <= Rank(o)
  BY <1>0, OperationPair
<1>4. data = before
  <2>1. Rank(<<"manifest", Arg>>) < 6 BY RankOf
  <2> QED BY <1>3, <2>1, ApplyParts
<1>5. RestoreOk' /\ SafeOk' /\ StageOk' /\ stage = "applying" BY <1>0, <1>3, ApplyOperation
<1>6. manifest' = Existed BY <1>2, <1>4 DEF Existing, Existed
<1>7. TypeOK'
  <2>1. manifest' \in {None} \cup SUBSET Names BY <1>6 DEF Existed
  <2> QED BY <1>1, <1>2, <2>1, Parts DEF TypeOK
<1>8. ApplyOk' BY <1>1, <1>2, <1>3, <1>4, <1>6, ApplyParts DEF ApplyOk
<1>9. ManifestOk'
  <2>1. ASSUME NEW f \in Managed, f \in Existed PROVE snap[f] = Old
    <3>1. <<"snap", f>> \notin Pending
      <4>1. ASSUME <<"snap", f>> \in Pending PROVE FALSE
        <5>1. Rank(<<"manifest", Arg>>) = 4 /\ Rank(<<"snap", f>>) = 3 BY RankOf
        <5>2. Rank(<<"manifest", Arg>>) <= Rank(<<"snap", f>>) BY <1>3, <4>1
        <5> QED BY <5>1, <5>2
      <4> QED BY <4>1
    <3>2. snap[f] = before[f] BY <1>3, <3>1, ApplyParts
    <3> QED BY <2>1, <3>2, Parts DEF TypeOK, Existed
  <2> QED BY <1>1, <1>2, <1>6, <2>1 DEF ManifestOk
<1>10. IgnoreOk' BY <1>1, <1>2, Parts DEF IgnoreOk
<1> QED BY <1>1, <1>5, <1>7, <1>8, <1>9, <1>10 DEF TxInv

\* A file is replaced when all that a rollback needs is there.
LEMMA StepReplace ==
    ASSUME TxInv, StageAndAtomicallyReplace
    PROVE  TxInv'
<1>0. Do("put") BY DEF StageAndAtomicallyReplace
<1>1. /\ UNCHANGED <<kind, before, cmd, stage, faults, Managed, Runtime, Existed>>
      /\ \A o : o \in Pending <=> o = Head(agenda) \/ o \in Pending'
      /\ PlaceOk' /\ AgendaOk' /\ NewOk'
  BY <1>0, OperationFrame
<1>2. /\ UNCHANGED <<dir, marker, phase, manifest, snap, stray>>
      /\ data' = [data EXCEPT ![Arg] = New]
  BY DEF StageAndAtomicallyReplace, txVars
<1>3. /\ cmd = "apply" /\ Arg \in Managed
      /\ \A p, x : p # "put" \/ x # Arg =>
            (<<p, x>> \in Pending <=> <<p, x>> \in Pending')
      /\ \A o \in Pending : Rank(<<"put", Arg>>) <= Rank(o)
  BY <1>0, OperationPair
<1>4. ~ \E o \in Pending' : Rank(o) < 6
  <2>1. Rank(<<"put", Arg>>) = 6 BY RankOf
  <2> QED BY <1>1, <1>3, <2>1, RankNat
<1>5. RestoreOk' /\ SafeOk' /\ StageOk' /\ stage = "applying" BY <1>0, <1>3, ApplyOperation
<1>6. Arg \in Names /\ Arg # "ignore" /\ Managed \subseteq Names
  BY <1>3, Parts, ManagedOk DEF TypeOK
<1>7. data'[Arg] = New /\ \A f \in Names : f # Arg => data'[f] = data[f]
  BY <1>2, <1>6, Parts DEF TypeOK
<1>8. TypeOK' BY <1>1, <1>2, <1>6, Parts DEF TypeOK, Contents
<1>9. ASSUME NEW f \in Managed, <<"put", f>> \notin Pending'
      PROVE  data'[f] = New
  <2>1. CASE f = Arg BY <1>7, <2>1
  <2>2. CASE f # Arg
    <3>1. <<"put", f>> \notin Pending BY <1>3, <1>9, <2>2
    <3>2. data[f] = New BY <1>3, <3>1, ApplyParts
    <3> QED BY <1>6, <1>7, <2>2, <3>2
  <2> QED BY <2>1, <2>2
<1>10. ApplyOk' BY <1>1, <1>2, <1>3, <1>4, <1>9, ApplyParts DEF ApplyOk
<1>11. ManifestOk' BY <1>1, <1>2, Parts DEF ManifestOk
<1>12. IgnoreOk' BY <1>1, <1>6, <1>7, Parts DEF IgnoreOk, Names
<1> QED BY <1>1, <1>5, <1>8, <1>10, <1>11, <1>12 DEF TxInv

LEMMA StepInstallIgnore ==
    ASSUME TxInv, InstallIgnoreIfMissing
    PROVE  TxInv'
<1>0. Do("ignore") BY DEF InstallIgnoreIfMissing
<1>1. /\ UNCHANGED <<kind, before, cmd, stage, faults, Managed, Runtime, Existed>>
      /\ \A o : o \in Pending <=> o = Head(agenda) \/ o \in Pending'
      /\ PlaceOk' /\ AgendaOk' /\ NewOk'
  BY <1>0, OperationFrame
<1>2. /\ UNCHANGED <<dir, marker, phase, manifest, snap, stray>>
      /\ data' = [data EXCEPT !["ignore"] = IF @ = None THEN New ELSE @]
  BY DEF InstallIgnoreIfMissing, txVars
<1>3. /\ cmd = "apply"
      /\ \A p, x : p # "ignore" \/ x # Arg =>
            (<<p, x>> \in Pending <=> <<p, x>> \in Pending')
      /\ \A o \in Pending : Rank(<<"ignore", Arg>>) <= Rank(o)
  BY <1>0, OperationPair
<1>4. ~ \E o \in Pending' : Rank(o) < 6
  <2>1. Rank(<<"ignore", Arg>>) = 7 BY RankOf
  <2> QED BY <1>1, <1>3, <2>1, RankNat
<1>5. RestoreOk' /\ SafeOk' /\ StageOk' /\ stage = "applying" BY <1>0, <1>3, ApplyOperation
<1>6. Managed \subseteq Names \ {"ignore"} BY Parts, ManagedOk DEF TypeOK
<1>7. /\ \A f \in Managed : data'[f] = data[f]
      /\ data["ignore"] # None => data'["ignore"] = data["ignore"]
  BY <1>2, <1>6, Parts DEF TypeOK, Names
<1>8. TypeOK'
  <2>1. data' \in [Names -> Contents] BY <1>2, Parts DEF TypeOK, Contents, Names
  <2> QED BY <1>1, <1>2, <2>1, Parts DEF TypeOK
<1>9. ApplyOk' BY <1>1, <1>2, <1>3, <1>4, <1>7, ApplyParts DEF ApplyOk
<1>10. ManifestOk' BY <1>1, <1>2, Parts DEF ManifestOk
<1>11. IgnoreOk' BY <1>1, <1>7, Parts DEF IgnoreOk
<1> QED BY <1>1, <1>5, <1>8, <1>9, <1>10, <1>11 DEF TxInv

LEMMA StepEnsureLogs ==
    ASSUME TxInv, EnsureLogs
    PROVE  TxInv'
<1>0. Do("logs") BY DEF EnsureLogs
<1>1. /\ UNCHANGED <<kind, before, cmd, stage, faults, Managed, Runtime, Existed>>
      /\ \A o : o \in Pending <=> o = Head(agenda) \/ o \in Pending'
      /\ PlaceOk' /\ AgendaOk' /\ NewOk'
  BY <1>0, OperationFrame
<1>2. UNCHANGED <<data, dir, marker, phase, manifest, snap, stray>>
  BY DEF EnsureLogs, diskVars, txVars
<1>3. /\ cmd = "apply"
      /\ \A p, x : p # "logs" \/ x # Arg =>
            (<<p, x>> \in Pending <=> <<p, x>> \in Pending')
  BY <1>0, OperationPair
<1>4. (\E o \in Pending' : Rank(o) < 6) => data = before BY <1>1, <1>3, ApplyParts
<1>5. RestoreOk' /\ SafeOk' /\ StageOk' /\ stage = "applying" BY <1>0, <1>3, ApplyOperation
<1>6. TypeOK' BY <1>1, <1>2, Parts DEF TypeOK
<1>7. ApplyOk' BY <1>1, <1>2, <1>3, <1>4, ApplyParts DEF ApplyOk
<1>8. ManifestOk' BY <1>1, <1>2, Parts DEF ManifestOk
<1>9. IgnoreOk' BY <1>1, <1>2, Parts DEF IgnoreOk
<1> QED BY <1>1, <1>5, <1>6, <1>7, <1>8, <1>9 DEF TxInv

\* A file is restored from a manifest and a snapshot that are right.
LEMMA StepRestore ==
    ASSUME TxInv, RestoreManagedFile
    PROVE  TxInv'
<1>0. Do("restore") BY DEF RestoreManagedFile
<1>1. /\ UNCHANGED <<kind, before, cmd, stage, faults, Managed, Runtime, Existed>>
      /\ PlaceOk' /\ AgendaOk' /\ NewOk'
  BY <1>0, OperationFrame
<1>2. /\ UNCHANGED <<dir, marker, phase, manifest, snap, stray>>
      /\ data' = [data EXCEPT ![Arg] = IF Arg \in manifest THEN snap[Arg] ELSE None]
  BY DEF RestoreManagedFile, txVars
<1>3. /\ cmd \in {"undo", "rollback"} /\ Arg \in Managed
      /\ \A p, x : p # "restore" \/ x # Arg =>
            (<<p, x>> \in Pending <=> <<p, x>> \in Pending')
  BY <1>0, OperationPair
<1>4. Arg \in Names /\ Arg # "ignore" /\ Managed \subseteq Names
  BY <1>3, Parts, ManagedOk DEF TypeOK
<1>5. stage \in {"applying", "failed"} BY <1>3, Parts DEF PlaceOk
<1>6. manifest # None BY <1>3, Parts DEF RestoreOk
<1>7. manifest = Existed /\ \A f \in Managed \cap manifest : snap[f] = Old
  BY <1>5, <1>6, Parts DEF ManifestOk
<1>8. before[Arg] = IF Arg \in manifest THEN snap[Arg] ELSE None
  BY <1>3, <1>4, <1>7, Parts DEF TypeOK, Existed
<1>9. data'[Arg] = before[Arg] /\ \A f \in Names : f # Arg => data'[f] = data[f]
  BY <1>2, <1>4, <1>8, Parts DEF TypeOK
<1>10. TypeOK'
  <2>1. before[Arg] \in Contents BY <1>4, Parts DEF TypeOK, Contents
  <2>2. data' \in [Names -> Contents] BY <1>2, <1>8, <2>1, Parts DEF TypeOK
  <2> QED BY <1>1, <1>2, <2>2, Parts DEF TypeOK
<1>11. RestoreOk'
  <2>1. \A f \in Managed : <<"restore", f>> \notin Pending' /\ f # Arg =>
           <<"restore", f>> \notin Pending
    BY <1>3
  <2> QED BY <1>1, <1>2, <1>4, <1>6, <1>9, <2>1, Parts DEF RestoreOk
<1>12. SafeOk'
  <2>1. IsOld \/ CanRollback BY <1>3, <1>5, Parts DEF SafeOk, PlaceOk
  <2>2. IsOld => IsOld' BY <1>1, <1>4, <1>9 DEF IsOld
  <2>3. CanRollback => CanRollback' BY <1>1, <1>2 DEF CanRollback, Readable
  <2> QED BY <2>1, <2>2, <2>3 DEF SafeOk
<1>13. StageOk' BY <1>1, <1>5 DEF StageOk
<1>14. ManifestOk' BY <1>1, <1>2, Parts DEF ManifestOk
<1>15. IgnoreOk' BY <1>1, <1>4, <1>9, Parts DEF IgnoreOk, Names
<1>16. ApplyOk' BY <1>1, <1>3 DEF ApplyOk
<1> QED BY <1>1, <1>10, <1>11, <1>12, <1>13, <1>14, <1>15, <1>16 DEF TxInv

\* A user's ignore.txt is in the manifest.
LEMMA StepRestoreIgnore ==
    ASSUME TxInv, RestoreIgnore
    PROVE  TxInv'
<1>0. Do("unignore") BY DEF RestoreIgnore
<1>1. /\ UNCHANGED <<kind, before, cmd, stage, faults, Managed, Runtime, Existed>>
      /\ PlaceOk' /\ AgendaOk' /\ NewOk'
  BY <1>0, OperationFrame
<1>2. /\ UNCHANGED <<dir, marker, phase, manifest, snap, stray>>
      /\ data' = [data EXCEPT !["ignore"] =
                    IF "ignore" \notin manifest /\ @ = New THEN None ELSE @]
  BY DEF RestoreIgnore, txVars
<1>3. /\ cmd \in {"undo", "rollback"}
      /\ \A p, x : p # "unignore" \/ x # Arg =>
            (<<p, x>> \in Pending <=> <<p, x>> \in Pending')
  BY <1>0, OperationPair
<1>4. Managed \subseteq Names \ {"ignore"} BY Parts, ManagedOk DEF TypeOK
<1>5. stage \in {"applying", "failed"} BY <1>3, Parts DEF PlaceOk
<1>6. manifest # None BY <1>3, Parts DEF RestoreOk
<1>7. manifest = Existed BY <1>5, <1>6, Parts DEF ManifestOk
<1>8. before["ignore"] # None => "ignore" \in manifest BY <1>7 DEF Existed, Names
<1>9. /\ \A f \in Managed : data'[f] = data[f]
      /\ before["ignore"] # None => data'["ignore"] = data["ignore"]
  BY <1>2, <1>4, <1>8, Parts DEF TypeOK, Names
<1>10. TypeOK'
  <2>1. data' \in [Names -> Contents] BY <1>2, Parts DEF TypeOK, Contents, Names
  <2> QED BY <1>1, <1>2, <2>1, Parts DEF TypeOK
<1>11. RestoreOk' BY <1>1, <1>2, <1>3, <1>9, Parts DEF RestoreOk
<1>12. SafeOk'
  <2>1. IsOld \/ CanRollback BY <1>3, <1>5, Parts DEF SafeOk, PlaceOk
  <2>2. IsOld => IsOld' BY <1>1, <1>9 DEF IsOld
  <2>3. CanRollback => CanRollback' BY <1>1, <1>2 DEF CanRollback, Readable
  <2> QED BY <2>1, <2>2, <2>3 DEF SafeOk
<1>13. StageOk' BY <1>1, <1>5 DEF StageOk
<1>14. ManifestOk' BY <1>1, <1>2, Parts DEF ManifestOk
<1>15. IgnoreOk' BY <1>1, <1>9, Parts DEF IgnoreOk
<1>16. ApplyOk' BY <1>1, <1>3 DEF ApplyOk
<1> QED BY <1>1, <1>10, <1>11, <1>12, <1>13, <1>14, <1>15, <1>16 DEF TxInv

\* A commit leaves the data directory alone.
LEMMA CommitOperation ==
    ASSUME TxInv, NEW op, Do(op), cmd = "commit", UNCHANGED data
    PROVE  /\ IgnoreOk' /\ ApplyOk' /\ RestoreOk' /\ ManifestOk' /\ SafeOk' /\ StageOk'
           /\ PlaceOk' /\ AgendaOk' /\ NewOk'
<1>1. /\ UNCHANGED <<kind, before, cmd, stage, faults, Managed, Runtime, Existed>>
      /\ PlaceOk' /\ AgendaOk' /\ NewOk'
  BY OperationFrame
<1>2. stage \in {"kept", "dropped"} BY Parts DEF PlaceOk
<1>3. IgnoreOk' BY <1>1, Parts DEF IgnoreOk
<1>4. ApplyOk' /\ RestoreOk' BY <1>1 DEF ApplyOk, RestoreOk
<1>5. ManifestOk' /\ SafeOk' BY <1>1, <1>2 DEF ManifestOk, SafeOk
<1>6. StageOk' BY <1>1, Parts DEF StageOk, IsOld, IsNew
<1> QED BY <1>1, <1>3, <1>4, <1>5, <1>6

LEMMA StepDelete ==
    ASSUME TxInv, DeleteTransactionFile
    PROVE  TxInv'
<1>0. Do("delete") BY DEF DeleteTransactionFile
<1>1. UNCHANGED <<kind, before, cmd, stage, faults>> BY <1>0, OperationFrame
<1>2. cmd = "commit" BY <1>0, OperationPair
<1>3. UNCHANGED <<data, dir, stray>> BY DEF DeleteTransactionFile
<1>4. marker' \in BOOLEAN /\ phase' \in Phases /\ manifest' \in {None} \cup SUBSET Names
  BY Parts DEF DeleteTransactionFile, TypeOK, Phases
<1>5. snap' \in [Names -> {Old, Torn, None}] BY Parts DEF DeleteTransactionFile, TypeOK
<1>6. TypeOK' BY <1>1, <1>3, <1>4, <1>5, Parts DEF TypeOK
<1> QED BY <1>0, <1>2, <1>3, <1>6, CommitOperation DEF TxInv

LEMMA StepRemoveDirectory ==
    ASSUME TxInv, RemoveDirectory
    PROVE  TxInv'
<1>0. Do("rmdir") BY DEF RemoveDirectory
<1>1. UNCHANGED <<kind, before, cmd, stage, faults>> BY <1>0, OperationFrame
<1>2. cmd = "commit" BY <1>0, OperationPair
<1>3. UNCHANGED <<data, marker, phase, manifest, snap, stray>> /\ dir' = FALSE
  BY DEF RemoveDirectory
<1>4. TypeOK' BY <1>1, <1>3, Parts DEF TypeOK
<1> QED BY <1>0, <1>2, <1>3, <1>4, CommitOperation DEF TxInv

-----------------------------------------------------------------------------
(* The commands.                                                           *)

\* Before the first file is replaced the data directory is the old one; after that
\* the transaction directory is complete.
LEMMA ApplyInterrupted ==
    ASSUME TxInv, cmd = "apply"
    PROVE  /\ ~ MutationStarted => data = before
           /\ MutationStarted => /\ dir /\ marker /\ manifest = Existed /\ manifest # None
                                 /\ Runtime => phase = "mutation_started"
<1>1. /\ agenda \in Seq(Operations) /\ Pending \subseteq ApplyOps
      /\ \A i \in DOMAIN agenda : agenda[i] \in Pending
  BY Parts, OpsOf DEF AgendaOk, Pending
<1>2. ASSUME ~ MutationStarted PROVE data = before
  <2>1. PICK i \in DOMAIN agenda :
             agenda[i][1] \in {"dir", "marker", "phase", "snap", "manifest"}
    BY <1>2 DEF MutationStarted
  <2> DEFINE o == agenda[i]
  <2>2. o \in Pending /\ o \in Operations BY <1>1, OpsOf DEF Pending
  <2> HIDE DEF o
  <2>3. o = <<o[1], o[2]>> BY <2>2 DEF Operations
  <2>4. o[1] \in {"dir", "marker", "phase", "snap", "manifest"} BY <2>1 DEF o
  <2>5. o[1] = "phase" => o[2] \in {"prepared", "mutation_started"} BY <2>2, CommandOf
  <2>6. \/ Rank(o) = 0 \/ Rank(o) = 1 \/ Rank(o) = 2 \/ Rank(o) = 3 \/ Rank(o) = 4
        \/ Rank(o) = 5
    <3>1. CASE o[1] = "phase"
      <4>1. o = <<"phase", "prepared">> \/ o = <<"phase", "mutation_started">>
        BY <2>3, <2>5, <3>1
      <4> QED BY <4>1, RankOf
    <3>2. CASE o[1] # "phase" BY <2>3, <2>4, <3>2, RankOf
    <3> QED BY <3>1, <3>2
  <2>7. Rank(o) < 6 BY <2>6
  <2> QED BY <2>2, <2>7, ApplyParts
<1>3. ASSUME MutationStarted
      PROVE  /\ dir /\ marker /\ manifest = Existed /\ manifest # None
             /\ Runtime => phase = "mutation_started"
  <2>1. ASSUME NEW o \in Pending
        PROVE  o[1] \notin {"dir", "marker", "phase", "snap", "manifest"}
    <3>1. PICK i \in DOMAIN agenda : o = agenda[i] BY DEF Pending, Ops
    <3> QED BY <1>3, <3>1 DEF MutationStarted
  <2>2. /\ <<"dir", "">>[1] = "dir" /\ <<"marker", "">>[1] = "marker"
        /\ <<"manifest", "">>[1] = "manifest"
        /\ <<"phase", "mutation_started">>[1] = "phase"
    OBVIOUS
  <2>3. /\ <<"dir", "">> \notin Pending /\ <<"marker", "">> \notin Pending
        /\ <<"manifest", "">> \notin Pending
        /\ <<"phase", "mutation_started">> \notin Pending
    BY <2>1, <2>2
  <2>4. Existed # None BY TransactionAssumption DEF Existed
  <2> QED BY <2>3, <2>4, ApplyParts
<1> QED BY <1>2, <1>3

LEMMA StepApply ==
    ASSUME TxInv, Apply
    PROVE  TxInv'
<1>1. /\ cmd = "none" /\ cmd' = "apply" /\ agenda' = ApplyAgenda
      /\ stage = "new" /\ stage' = "applying"
      /\ UNCHANGED <<kind, before, data, dir, marker, phase, manifest, snap, stray, faults>>
  BY DEF Apply, Run, diskVars, txVars
<1>2. UNCHANGED <<Managed, Runtime, Existed>> BY <1>1 DEF Managed, Runtime, Existed
<1>3. /\ ApplyAgenda \in Seq(Operations) /\ Ordered(ApplyAgenda)
      /\ Ops(ApplyAgenda) = ApplyOps
  BY Parts, ApplyAgendaOk DEF TypeOK
<1>4. Pending' = ApplyOps /\ ApplyOps' = ApplyOps
  BY <1>1, <1>2, <1>3 DEF Pending, ApplyOps
<1>5. TypeOK' BY <1>1, Parts DEF TypeOK
<1>6. PlaceOk' BY <1>1 DEF PlaceOk
<1>7. AgendaOk' BY <1>1, <1>3, <1>4 DEF AgendaOk
<1>8. data = before /\ manifest = None BY <1>1, Parts DEF NewOk
<1>9. ApplyOk'
  <2>1. /\ <<"dir", "">> \in ApplyOps /\ <<"marker", "">> \in ApplyOps
        /\ <<"manifest", "">> \in ApplyOps
        /\ Runtime => <<"phase", "mutation_started">> \in ApplyOps
    BY DEF ApplyOps
  <2>2. \A f \in Managed : <<"snap", f>> \in ApplyOps /\ <<"put", f>> \in ApplyOps
    BY DEF ApplyOps
  <2> QED BY <1>1, <1>2, <1>4, <1>8, <2>1, <2>2 DEF ApplyOk
<1>10. RestoreOk' /\ SafeOk' /\ StageOk' /\ NewOk'
  BY <1>1 DEF RestoreOk, SafeOk, StageOk, NewOk
<1>11. ManifestOk' BY <1>1, <1>8 DEF ManifestOk
<1>12. IgnoreOk' BY <1>1, Parts DEF IgnoreOk
<1> QED BY <1>5, <1>6, <1>7, <1>9, <1>10, <1>11, <1>12 DEF TxInv

\* When a command has ended nothing is pending.
LEMMA NoneLeft ==
    ASSUME agenda = << >>
    PROVE  Pending = {}
BY DEF Pending, Ops

\* A command that is over has no agenda to speak of.
LEMMA Over ==
    ASSUME cmd' = "none", agenda' = << >>, stage' # "applying"
    PROVE  PlaceOk' /\ AgendaOk' /\ ApplyOk' /\ RestoreOk'
<1>1. PlaceOk' BY DEF PlaceOk
<1>2. AgendaOk' BY OpsSmall DEF AgendaOk, Ordered
<1>3. ApplyOk' /\ RestoreOk' BY DEF ApplyOk, RestoreOk
<1> QED BY <1>1, <1>2, <1>3

LEMMA StepApplyEnds ==
    ASSUME TxInv, ApplyEnds
    PROVE  TxInv'
<1>1. /\ cmd = "apply" /\ agenda = << >> /\ cmd' = "none" /\ agenda' = << >>
      /\ stage' = "applied"
      /\ UNCHANGED <<kind, before, data, dir, marker, phase, manifest, snap, stray, faults>>
  BY DEF ApplyEnds, End, diskVars, txVars
<1>2. UNCHANGED <<Managed, Runtime, Existed>> BY <1>1 DEF Managed, Runtime, Existed
<1>3. Pending = {} BY <1>1, NoneLeft
<1>4. MutationStarted BY <1>1 DEF MutationStarted
<1>5. /\ dir /\ marker /\ manifest = Existed /\ manifest # None
      /\ Runtime => phase = "mutation_started"
  BY <1>1, <1>4, ApplyInterrupted
<1>6. \A f \in Managed : data[f] = New BY <1>1, <1>3, ApplyParts
<1>7. TypeOK' BY <1>1, Parts DEF TypeOK
<1>8. PlaceOk' /\ AgendaOk' /\ ApplyOk' /\ RestoreOk' BY <1>1, Over
<1>9. SafeOk' BY <1>1, <1>2, <1>5 DEF SafeOk, CanRollback, Readable
<1>10. StageOk' BY <1>1, <1>2, <1>6 DEF StageOk, IsNew
<1>11. ManifestOk'
  <2>1. stage = "applying" BY <1>1, Parts DEF PlaceOk
  <2> QED BY <1>1, <1>2, <2>1, Parts DEF ManifestOk
<1>12. IgnoreOk' /\ NewOk' BY <1>1, Parts DEF IgnoreOk, NewOk
<1> QED BY <1>7, <1>8, <1>9, <1>10, <1>11, <1>12 DEF TxInv

\* An apply that fails early has left the old files.
LEMMA StepApplyFailsBefore ==
    ASSUME TxInv, ApplyFailsBefore
    PROVE  TxInv'
<1>1. /\ cmd = "apply" /\ ~ MutationStarted /\ cmd' = "none" /\ agenda' = << >>
      /\ stage' = "untouched" /\ UNCHANGED <<kind, before, data>>
  BY DEF ApplyFailsBefore, End
<1>2. UNCHANGED <<Managed, Runtime, Existed>> BY <1>1 DEF Managed, Runtime, Existed
<1>3. data = before BY <1>1, ApplyInterrupted
<1>4. faults' \in 0 .. MaxFaults
  BY TransactionAssumption, Parts DEF ApplyFailsBefore, TypeOK
<1>5. marker' \in BOOLEAN /\ phase' \in Phases /\ dir' \in BOOLEAN
  BY Parts DEF ApplyFailsBefore, TypeOK, Phases
<1>6. /\ snap' \in [Names -> {Old, Torn, None}] /\ manifest' \in {None} \cup SUBSET Names
      /\ stray' \in BOOLEAN
  <2>1. manifest' \in {None} \cup SUBSET Names /\ stray' \in BOOLEAN
    BY Parts DEF ApplyFailsBefore, TypeOK
  <2>2. PICK lost \in SUBSET Names,
              torn \in SUBSET {f \in Names : <<"snap", f>> = Head(agenda)} :
          snap' = [f \in Names |-> IF f \in lost THEN None
                                   ELSE IF f \in torn /\ data[f] # None THEN Torn
                                   ELSE snap[f]]
    BY DEF ApplyFailsBefore
  <2>3. snap \in [Names -> {Old, Torn, None}] BY Parts DEF TypeOK
  <2>4. snap' \in [Names -> {Old, Torn, None}] BY <2>2, <2>3
  <2> QED BY <2>1, <2>4
<1>7. TypeOK' BY <1>1, <1>4, <1>5, <1>6, Parts DEF TypeOK
<1>8. PlaceOk' /\ AgendaOk' /\ ApplyOk' /\ RestoreOk' BY <1>1, Over
<1>9. SafeOk' /\ ManifestOk' BY <1>1 DEF SafeOk, ManifestOk
<1>10. StageOk' BY <1>1, <1>2, <1>3 DEF StageOk, IsOld
<1>11. IgnoreOk' /\ NewOk' BY <1>1, Parts DEF IgnoreOk, NewOk
<1> QED BY <1>7, <1>8, <1>9, <1>10, <1>11 DEF TxInv

\* One that fails later has all it needs to undo itself.
LEMMA StepApplyFailsAfter ==
    ASSUME TxInv, ApplyFailsAfter
    PROVE  TxInv'
<1>1. /\ cmd = "apply" /\ MutationStarted /\ cmd' = "undo" /\ agenda' = UndoAgenda
      /\ UNCHANGED <<kind, before, data, dir, marker, phase, manifest, snap, stray, stage>>
  BY DEF ApplyFailsAfter, diskVars, txVars
<1>2. UNCHANGED <<Managed, Runtime, Existed>> BY <1>1 DEF Managed, Runtime, Existed
<1>3. /\ dir /\ marker /\ manifest = Existed /\ manifest # None
      /\ Runtime => phase = "mutation_started"
  BY <1>1, ApplyInterrupted
<1>4. /\ UndoAgenda \in Seq(Operations) /\ Ordered(UndoAgenda)
      /\ Ops(UndoAgenda) \subseteq RestoreOps
      /\ Runtime => Ops(UndoAgenda) = RestoreOps
  BY Parts, UndoAgendaOk DEF TypeOK
<1>5. Pending' = Ops(UndoAgenda) /\ RestoreOps' = RestoreOps
  BY <1>1, <1>2 DEF Pending, RestoreOps
<1>6. faults' \in 0 .. MaxFaults
  BY TransactionAssumption, Parts DEF ApplyFailsAfter, TypeOK
<1>7. TypeOK' BY <1>1, <1>6, Parts DEF TypeOK
<1>8. stage = "applying" /\ PlaceOk' BY <1>1, Parts DEF PlaceOk
<1>9. AgendaOk' BY <1>1, <1>4, <1>5 DEF AgendaOk
<1>10. RestoreOk'
  <2>1. \A f \in Managed : <<"restore", f>> \in RestoreOps BY DEF RestoreOps
  <2> QED BY <1>1, <1>2, <1>3, <1>4, <1>5, <2>1 DEF RestoreOk
<1>11. SafeOk' BY <1>1, <1>2, <1>3 DEF SafeOk, CanRollback, Readable
<1>12. StageOk' /\ ApplyOk' /\ NewOk' BY <1>1, <1>8 DEF StageOk, ApplyOk, NewOk
<1>13. ManifestOk' BY <1>1, <1>2, Parts DEF ManifestOk
<1>14. IgnoreOk' BY <1>1, Parts DEF IgnoreOk
<1> QED BY <1>7, <1>8, <1>9, <1>10, <1>11, <1>12, <1>13, <1>14 DEF TxInv

LEMMA StepUndoEnds ==
    ASSUME TxInv, UndoEnds
    PROVE  TxInv'
<1>1. /\ cmd = "undo" /\ cmd' = "none" /\ agenda' = << >> /\ stage' = "failed"
      /\ UNCHANGED <<kind, before, data, dir, marker, phase, manifest, snap, stray, faults>>
  BY DEF UndoEnds, End, diskVars, txVars
<1>2. UNCHANGED <<Managed, Runtime, Existed>> BY <1>1 DEF Managed, Runtime, Existed
<1>3. stage = "applying" BY <1>1, Parts DEF PlaceOk
<1>4. TypeOK' BY <1>1, Parts DEF TypeOK
<1>5. PlaceOk' /\ AgendaOk' /\ ApplyOk' /\ RestoreOk' BY <1>1, Over
<1>6. SafeOk'
  <2>1. IsOld \/ CanRollback BY <1>1, Parts DEF SafeOk
  <2>2. IsOld' = IsOld BY <1>1, <1>2 DEF IsOld
  <2>3. CanRollback' = CanRollback BY <1>1, <1>2 DEF CanRollback, Readable
  <2> QED BY <2>1, <2>2, <2>3 DEF SafeOk
<1>7. StageOk' /\ NewOk' BY <1>1 DEF StageOk, NewOk
<1>8. ManifestOk' BY <1>1, <1>2, <1>3, Parts DEF ManifestOk
<1>9. IgnoreOk' BY <1>1, Parts DEF IgnoreOk
<1> QED BY <1>4, <1>5, <1>6, <1>7, <1>8, <1>9 DEF TxInv

\* A transaction that needs no rollback, by its directory, has left the old files.
LEMMA StepRollbackNotRequired ==
    ASSUME TxInv, RollbackNotRequired
    PROVE  TxInv'
<1>1. /\ cmd = "none" /\ stage \in {"applied", "failed"} /\ NeedsNoRollback
      /\ stage' = "rolledback"
      /\ UNCHANGED <<kind, before, data, dir, marker, phase, manifest, snap, stray,
                     cmd, agenda, faults>>
  BY DEF RollbackNotRequired, diskVars, txVars
<1>2. UNCHANGED <<Managed, Runtime, Existed>> BY <1>1 DEF Managed, Runtime, Existed
<1>3. agenda = << >> BY <1>1, Parts DEF PlaceOk
<1>4. TypeOK' BY <1>1, Parts DEF TypeOK
<1>5. PlaceOk' /\ AgendaOk' /\ ApplyOk' /\ RestoreOk' BY <1>1, <1>3, Over
<1>6. ~ CanRollback BY <1>1 DEF NeedsNoRollback, CanRollback
<1>7. IsOld BY <1>1, <1>6, Parts DEF SafeOk
<1>8. StageOk' BY <1>1, <1>2, <1>7 DEF StageOk, IsOld
<1>9. SafeOk' /\ ManifestOk' BY <1>1 DEF SafeOk, ManifestOk
<1>10. IgnoreOk' /\ NewOk' BY <1>1, Parts DEF IgnoreOk, NewOk
<1> QED BY <1>4, <1>5, <1>8, <1>9, <1>10 DEF TxInv

LEMMA StepRollback ==
    ASSUME TxInv, Rollback
    PROVE  TxInv'
<1>1. /\ stage \in {"applied", "failed"} /\ CanRollback /\ stage' = "failed"
      /\ cmd' = "rollback" /\ agenda' = RestoreAgenda
      /\ UNCHANGED <<kind, before, data, dir, marker, phase, manifest, snap, stray, faults>>
  BY DEF Rollback, Run, diskVars, txVars
<1>2. UNCHANGED <<Managed, Runtime, Existed>> BY <1>1 DEF Managed, Runtime, Existed
<1>3. /\ RestoreAgenda \in Seq(Operations) /\ Ordered(RestoreAgenda)
      /\ Ops(RestoreAgenda) = RestoreOps
  BY Parts, RestoreAgendaOk DEF TypeOK
<1>4. Pending' = RestoreOps /\ RestoreOps' = RestoreOps
  BY <1>1, <1>2, <1>3 DEF Pending, RestoreOps
<1>5. TypeOK' BY <1>1, Parts DEF TypeOK
<1>6. PlaceOk' BY <1>1 DEF PlaceOk
<1>7. AgendaOk' BY <1>1, <1>3, <1>4 DEF AgendaOk
<1>8. RestoreOk'
  <2>1. \A f \in Managed : <<"restore", f>> \in RestoreOps BY DEF RestoreOps
  <2>2. manifest # None BY <1>1 DEF CanRollback, Readable
  <2> QED BY <1>1, <1>2, <1>4, <2>1, <2>2 DEF RestoreOk
<1>9. SafeOk' BY <1>1, <1>2 DEF SafeOk, CanRollback, Readable
<1>10. StageOk' /\ ApplyOk' /\ NewOk' BY <1>1 DEF StageOk, ApplyOk, NewOk
<1>11. ManifestOk' BY <1>1, <1>2, Parts DEF ManifestOk
<1>12. IgnoreOk' BY <1>1, Parts DEF IgnoreOk
<1> QED BY <1>5, <1>6, <1>7, <1>8, <1>9, <1>10, <1>11, <1>12 DEF TxInv

\* A rollback that has gone through has restored every file.
LEMMA StepRollbackEnds ==
    ASSUME TxInv, RollbackEnds
    PROVE  TxInv'
<1>1. /\ cmd = "rollback" /\ agenda = << >> /\ cmd' = "none" /\ agenda' = << >>
      /\ stage' = "rolledback"
      /\ UNCHANGED <<kind, before, data, dir, marker, phase, manifest, snap, stray, faults>>
  BY DEF RollbackEnds, End, diskVars, txVars
<1>2. UNCHANGED <<Managed, Runtime, Existed>> BY <1>1 DEF Managed, Runtime, Existed
<1>3. Pending = {} BY <1>1, NoneLeft
<1>4. \A f \in Managed : data[f] = before[f] BY <1>1, <1>3, Parts DEF RestoreOk
<1>5. TypeOK' BY <1>1, Parts DEF TypeOK
<1>6. PlaceOk' /\ AgendaOk' /\ ApplyOk' /\ RestoreOk' BY <1>1, Over
<1>7. StageOk' BY <1>1, <1>2, <1>4 DEF StageOk, IsOld
<1>8. SafeOk' /\ ManifestOk' BY <1>1 DEF SafeOk, ManifestOk
<1>9. IgnoreOk' /\ NewOk' BY <1>1, Parts DEF IgnoreOk, NewOk
<1> QED BY <1>5, <1>6, <1>7, <1>8, <1>9 DEF TxInv

\* A commit begins only when the files are all new or all old.
LEMMA StepCommit ==
    ASSUME TxInv, Commit
    PROVE  TxInv'
<1>1. /\ stage \in {"applied", "untouched", "rolledback", "kept", "dropped"}
      /\ cmd' = "commit" /\ agenda' = CommitAgenda
      /\ stage' = IF stage \in {"applied", "kept"} THEN "kept" ELSE "dropped"
      /\ UNCHANGED <<kind, before, data, dir, marker, phase, manifest, snap, stray, faults>>
  BY DEF Commit, Run, diskVars, txVars
<1>2. UNCHANGED <<Managed, Runtime, Existed>> BY <1>1 DEF Managed, Runtime, Existed
<1>3. /\ CommitAgenda \in Seq(Operations)
      /\ \A o \in Ops(CommitAgenda) : o[1] \in {"delete", "rmdir"}
  BY Parts, CommitAgendaOk DEF TypeOK
<1>4. Pending' = Ops(CommitAgenda) BY <1>1 DEF Pending
<1>5. TypeOK' BY <1>1, Parts DEF TypeOK
<1>6. PlaceOk' BY <1>1 DEF PlaceOk
<1>7. AgendaOk' BY <1>1, <1>3, <1>4 DEF AgendaOk
<1>8. StageOk' BY <1>1, <1>2, Parts DEF StageOk, IsOld, IsNew
<1>9. SafeOk' /\ ManifestOk' BY <1>1 DEF SafeOk, ManifestOk
<1>10. ApplyOk' /\ RestoreOk' BY <1>1 DEF ApplyOk, RestoreOk
<1>11. IgnoreOk' /\ NewOk' BY <1>1, Parts DEF IgnoreOk, NewOk
<1> QED BY <1>5, <1>6, <1>7, <1>8, <1>9, <1>10, <1>11 DEF TxInv

LEMMA StepCommitEnds ==
    ASSUME TxInv, CommitEnds
    PROVE  TxInv'
<1>1. /\ cmd = "commit" /\ cmd' = "none" /\ agenda' = << >> /\ stage' = stage
      /\ UNCHANGED <<kind, before, data, dir, marker, phase, manifest, snap, stray, faults>>
  BY DEF CommitEnds, End, diskVars, txVars
<1>2. UNCHANGED <<Managed, Runtime, Existed>> BY <1>1 DEF Managed, Runtime, Existed
<1>3. stage \in {"kept", "dropped"} BY <1>1, Parts DEF PlaceOk
<1>4. TypeOK' BY <1>1, Parts DEF TypeOK
<1>5. PlaceOk' /\ AgendaOk' /\ ApplyOk' /\ RestoreOk' BY <1>1, <1>3, Over
<1>6. StageOk' BY <1>1, <1>2, Parts DEF StageOk, IsOld, IsNew
<1>7. SafeOk' /\ ManifestOk' BY <1>1, <1>3 DEF SafeOk, ManifestOk
<1>8. IgnoreOk' /\ NewOk' BY <1>1, <1>3, Parts DEF IgnoreOk, NewOk
<1> QED BY <1>4, <1>5, <1>6, <1>7, <1>8 DEF TxInv

\* The operation at which a command is cut short.
LEMMA HeadOk ==
    ASSUME TxInv, agenda # << >>
    PROVE  /\ Head(agenda) \in Pending /\ Head(agenda) = <<Op, Arg>>
           /\ cmd # "commit" => \A o \in Pending : Rank(Head(agenda)) <= Rank(o)
           /\ Op \in {"marker", "snap", "manifest", "ignore"} => cmd = "apply"
           /\ Op = "snap" => Arg \in Managed
           /\ Op = "phase" => Runtime /\ cmd # "commit"
<1>1. agenda \in Seq(Operations) /\ (cmd # "commit" => Ordered(agenda))
  BY Parts DEF AgendaOk
<1>2. /\ Head(agenda) \in Operations /\ Head(agenda) \in Ops(agenda)
      /\ Ordered(agenda) => \A o \in Ops(agenda) : Rank(Head(agenda)) <= Rank(o)
  BY <1>1, OpsTail
<1> DEFINE h == Head(agenda)
<1> HIDE DEF h
<1>3. h \in Pending /\ h \in Operations BY <1>2 DEF Pending, h
<1>4. h = <<h[1], h[2]>> BY <1>3 DEF Operations
<1>5. /\ h[1] \in {"dir", "marker", "snap", "manifest", "put", "ignore", "logs"} =>
            cmd = "apply"
      /\ h[1] = "phase" =>
            /\ Runtime
            /\ \/ cmd = "apply" /\ h[2] \in {"prepared", "mutation_started"}
               \/ cmd \in {"undo", "rollback"} /\ h[2] = "restored"
      /\ h[1] \in {"snap", "put", "restore"} => h[2] \in Managed
  BY <1>3, CommandOf
<1>6. Op = h[1] /\ Arg = h[2] BY DEF Op, Arg, h
<1>7. Head(agenda) \in Pending BY <1>3 DEF h
<1>8. Head(agenda) = <<Op, Arg>> BY <1>4, <1>6 DEF h
<1>9. cmd # "commit" => \A o \in Pending : Rank(Head(agenda)) <= Rank(o)
  BY <1>1, <1>2 DEF Pending
<1> QED BY <1>5, <1>6, <1>7, <1>8, <1>9

\* A rollback, the undoing of an apply or a commit that is cut short: the phase file
\* is as it was, or was not there.
LEMMA CutShort ==
    ASSUME TxInv, cmd \in {"undo", "rollback", "commit"}, agenda # << >>,
           HalfPhase \/ UNCHANGED diskVars,
           End(IF cmd = "commit" THEN stage ELSE "failed"), faults' \in 0 .. MaxFaults
    PROVE  TxInv'
<1>1. /\ cmd' = "none" /\ agenda' = << >> /\ UNCHANGED <<kind, before>>
      /\ stage' = IF cmd = "commit" THEN stage ELSE "failed"
  BY DEF End
<1>2. UNCHANGED <<data, dir, marker, manifest, snap>>
  BY DEF HalfPhase, diskVars, txVars
<1>3. /\ phase' \in Phases /\ stray' \in BOOLEAN
      /\ phase' = phase \/ (phase = "absent" /\ Op = "phase")
  BY Parts DEF HalfPhase, diskVars, txVars, TypeOK, Phases
<1>4. UNCHANGED <<Managed, Runtime, Existed>> BY <1>1 DEF Managed, Runtime, Existed
<1>5. TypeOK' BY <1>1, <1>2, <1>3, Parts DEF TypeOK
<1>6. /\ cmd \in {"undo", "rollback"} => stage \in {"applying", "failed"}
      /\ cmd = "rollback" => stage = "failed"
      /\ cmd = "commit" => stage \in {"kept", "dropped"}
  BY Parts DEF PlaceOk
<1>7. PlaceOk' /\ AgendaOk' /\ ApplyOk' /\ RestoreOk' BY <1>1, <1>6, Over
<1>8. IsOld' = IsOld /\ IsNew' = IsNew BY <1>1, <1>2, <1>4 DEF IsOld, IsNew
<1>9. SafeOk'
  <2>1. CASE cmd = "commit" BY <1>1, <1>6, <2>1 DEF SafeOk
  <2>2. CASE cmd \in {"undo", "rollback"}
    <3>1. IsOld \/ CanRollback BY <1>6, <2>2, Parts DEF SafeOk
    <3>2. CASE phase' = phase
      <4>1. CanRollback' = CanRollback BY <1>2, <1>4, <3>2 DEF CanRollback, Readable
      <4> QED BY <1>8, <3>1, <4>1 DEF SafeOk
    <3>3. CASE phase = "absent" /\ Op = "phase"
      <4>1. Runtime BY <3>3, HeadOk
      <4>2. ~ CanRollback BY <3>3, <4>1 DEF CanRollback
      <4> QED BY <1>8, <3>1, <4>2 DEF SafeOk
    <3> QED BY <1>3, <3>2, <3>3
  <2> QED BY <2>1, <2>2
<1>10. StageOk' BY <1>1, <1>6, <1>8, Parts DEF StageOk
<1>11. ManifestOk' BY <1>1, <1>2, <1>4, <1>6, Parts DEF ManifestOk
<1>12. IgnoreOk' BY <1>1, <1>2, Parts DEF IgnoreOk
<1>13. NewOk' BY <1>1, <1>6 DEF NewOk
<1> QED BY <1>5, <1>7, <1>9, <1>10, <1>11, <1>12, <1>13 DEF TxInv

LEMMA StepCommandFails ==
    ASSUME TxInv, CommandFails
    PROVE  TxInv'
<1>1. faults' \in 0 .. MaxFaults
  BY TransactionAssumption, Parts DEF CommandFails, TypeOK
<1> QED BY <1>1, CutShort DEF CommandFails

\* An apply that dies: before the first replacement the files are the old ones, and
\* after it only ignore.txt can be torn.
LEMMA StepCrash ==
    ASSUME TxInv, Crash
    PROVE  TxInv'
<1>1. /\ cmd # "none" /\ agenda # << >>
      /\ \/ HalfMarker \/ HalfPhase \/ HalfSnapshot \/ HalfManifest \/ HalfIgnore
         \/ UNCHANGED diskVars
      /\ End(IF cmd = "commit" THEN stage ELSE "failed")
  BY DEF Crash
<1>2. faults' \in 0 .. MaxFaults
  BY TransactionAssumption, Parts DEF Crash, TypeOK
<1>3. CASE cmd # "apply"
  <2>1. cmd \in {"undo", "rollback", "commit"} BY <1>1, <1>3, Parts DEF TypeOK
  <2>2. Op \notin {"marker", "snap", "manifest", "ignore"} BY <1>1, <1>3, HeadOk
  <2>3. HalfPhase \/ UNCHANGED diskVars
    BY <1>1, <2>2 DEF HalfMarker, HalfSnapshot, HalfManifest, HalfIgnore
  <2> QED BY <1>1, <1>2, <2>1, <2>3, CutShort
<1>4. CASE cmd = "apply"
  <2>1. /\ cmd' = "none" /\ agenda' = << >> /\ UNCHANGED <<kind, before>>
        /\ stage = "applying" /\ stage' = "failed"
    BY <1>1, <1>4, Parts DEF End, PlaceOk
  <2>2. UNCHANGED <<Managed, Runtime, Existed>> BY <2>1 DEF Managed, Runtime, Existed
  <2>3. Managed \subseteq Names \ {"ignore"} BY Parts, ManagedOk DEF TypeOK
  <2>4. PlaceOk' /\ AgendaOk' /\ ApplyOk' /\ RestoreOk' BY <2>1, Over
  <2>5. StageOk' /\ NewOk' BY <2>1 DEF StageOk, NewOk
  <2>6. /\ dir' = dir /\ manifest' = manifest /\ marker' \in BOOLEAN /\ stray' \in BOOLEAN
        /\ phase' \in Phases
    BY <1>1, Parts DEF HalfMarker, HalfPhase, HalfSnapshot, HalfManifest, HalfIgnore,
                      diskVars, txVars, TypeOK, Phases
  <2>7. /\ snap' \in [Names -> {Old, Torn, None}]
        /\ snap' = snap \/ Op = "snap"
    BY <1>1, Parts DEF HalfMarker, HalfPhase, HalfSnapshot, HalfManifest, HalfIgnore,
                      diskVars, txVars, TypeOK
  <2>8. /\ data' \in [Names -> Contents]
        /\ data' = data \/ (Op = "ignore" /\ data["ignore"] = None)
        /\ \A f \in Managed : data'[f] = data[f]
    BY <1>1, <2>3, Parts DEF HalfMarker, HalfPhase, HalfSnapshot, HalfManifest,
                            HalfIgnore, diskVars, txVars, TypeOK, Contents, Names
  <2>9. TypeOK' BY <1>2, <2>1, <2>6, <2>7, <2>8, Parts DEF TypeOK
  <2>10. IgnoreOk' BY <2>1, <2>8, Parts DEF IgnoreOk
  <2>11. ManifestOk'
    <3>1. CASE snap' = snap BY <2>1, <2>2, <2>6, <3>1, Parts DEF ManifestOk
    <3>2. CASE Op = "snap"
      <4>1. Head(agenda) = <<"snap", Arg>> /\ Head(agenda) \in Pending
        BY <1>1, <3>2, HeadOk
      <4>2. <<"manifest", "">> \in ApplyOps BY DEF ApplyOps
      <4>3. Rank(Head(agenda)) < Rank(<<"manifest", "">>)
        <5>1. Rank(<<"snap", Arg>>) = 3 /\ Rank(<<"manifest", "">>) = 4 BY RankOf
        <5>2. Rank(Head(agenda)) = 3 BY <4>1, <5>1
        <5>3. 3 < 4 OBVIOUS
        <5> QED BY <5>1, <5>2, <5>3, Zenon
      <4>4. <<"manifest", "">> \in Pending BY <1>4, <4>1, <4>2, <4>3, Parts DEF AgendaOk
      <4>5. manifest = None BY <1>4, <4>4, ApplyParts
      <4> QED BY <2>6, <4>5 DEF ManifestOk
    <3> QED BY <2>7, <3>1, <3>2
  <2>12. SafeOk'
    <3>1. CASE ~ MutationStarted
      <4>1. data = before BY <1>4, <3>1, ApplyInterrupted
      <4> QED BY <2>1, <2>2, <2>8, <4>1 DEF SafeOk, IsOld
    <3>2. CASE MutationStarted
      <4>1. /\ dir /\ marker /\ manifest # None
            /\ Runtime => phase = "mutation_started"
        BY <1>4, <3>2, ApplyInterrupted
      <4>2. Op \notin {"marker", "phase"}
        <5>1. 1 \in DOMAIN agenda /\ Head(agenda) = agenda[1]
          BY <1>1, Parts, HeadTailProperties, LenProperties, EmptySeq DEF AgendaOk
        <5> QED BY <3>2, <5>1 DEF MutationStarted, Op
      <4>3. UNCHANGED <<marker, phase>>
        BY <1>1, <4>2 DEF HalfMarker, HalfPhase, HalfSnapshot, HalfManifest, HalfIgnore,
                          diskVars, txVars
      <4> QED BY <2>2, <2>6, <4>1, <4>3 DEF SafeOk, CanRollback, Readable
    <3> QED BY <3>1, <3>2
  <2> QED BY <2>4, <2>5, <2>9, <2>10, <2>11, <2>12 DEF TxInv
<1> QED BY <1>3, <1>4

-----------------------------------------------------------------------------
(* The theorems.                                                           *)

LEMMA TxInit ==
    ASSUME Init
    PROVE  TxInv
<1>1. /\ kind \in Kinds /\ before \in [Names -> {Old, None}] /\ data = before
      /\ dir = FALSE /\ marker = FALSE /\ phase = "absent" /\ manifest = None
      /\ snap = NoFiles /\ stray = FALSE
      /\ cmd = "none" /\ agenda = << >> /\ stage = "new" /\ faults = 0
  BY TransactionAssumption DEF Init
<1>2. TypeOK
  <2>1. data \in [Names -> Contents] BY <1>1 DEF Contents
  <2>2. snap \in [Names -> {Old, Torn, None}] BY <1>1 DEF NoFiles
  <2>3. faults \in 0 .. MaxFaults BY <1>1, TransactionAssumption
  <2>4. phase \in Phases BY <1>1 DEF Phases
  <2> QED BY <1>1, <2>1, <2>2, <2>3, <2>4 DEF TypeOK
<1>3. PlaceOk /\ AgendaOk BY <1>1, OpsSmall DEF PlaceOk, AgendaOk, Ordered
<1>4. IgnoreOk /\ NewOk BY <1>1 DEF IgnoreOk, NewOk
<1>5. ApplyOk /\ RestoreOk BY <1>1 DEF ApplyOk, RestoreOk
<1>6. ManifestOk /\ SafeOk /\ StageOk BY <1>1 DEF ManifestOk, SafeOk, StageOk
<1> QED BY <1>2, <1>3, <1>4, <1>5, <1>6 DEF TxInv

LEMMA TxStutter ==
    ASSUME TxInv, UNCHANGED vars
    PROVE  TxInv'
<1>1. UNCHANGED <<kind, before, data, dir, marker, phase, manifest, snap, stray, cmd,
                  agenda, stage, faults>>
  BY DEF vars, diskVars, txVars, runVars
<1>2. UNCHANGED <<Managed, Runtime, Existed>> BY <1>1 DEF Managed, Runtime, Existed
<1>3. UNCHANGED <<Pending, ApplyOps, RestoreOps>>
  BY <1>1, <1>2 DEF Pending, ApplyOps, RestoreOps
<1>4. TypeOK' /\ PlaceOk' /\ IgnoreOk' /\ NewOk'
  BY <1>1, Parts DEF TypeOK, PlaceOk, IgnoreOk, NewOk
<1>5. AgendaOk' BY <1>1, <1>3, Parts DEF AgendaOk
<1>6. ApplyOk' BY <1>1, <1>2, <1>3, Parts DEF ApplyOk
<1>7. RestoreOk' BY <1>1, <1>2, <1>3, Parts DEF RestoreOk
<1>8. ManifestOk' BY <1>1, <1>2, Parts DEF ManifestOk
<1>9. IsOld' = IsOld /\ IsNew' = IsNew BY <1>1, <1>2 DEF IsOld, IsNew
<1>10. CanRollback' = CanRollback BY <1>1, <1>2 DEF CanRollback, Readable
<1>11. SafeOk' /\ StageOk' BY <1>1, <1>9, <1>10, Parts DEF SafeOk, StageOk
<1> QED BY <1>4, <1>5, <1>6, <1>7, <1>8, <1>11 DEF TxInv

\* Every step of the specification keeps the inductive invariant.
LEMMA TxStep == TxInv /\ [Next]_vars => TxInv'
<1> SUFFICES ASSUME TxInv, [Next]_vars PROVE TxInv'
  OBVIOUS
<1>1. CASE Operation
  BY <1>1, StepCreateDirectory, StepWriteMarker, StepWritePhase, StepSnapshot,
     StepWriteManifest, StepReplace, StepInstallIgnore, StepEnsureLogs, StepRestore,
     StepRestoreIgnore, StepDelete, StepRemoveDirectory DEF Operation
<1>2. CASE Progress
  BY <1>1, <1>2, StepApplyEnds, StepUndoEnds, StepRollbackEnds, StepCommitEnds
     DEF Progress
<1>3. CASE Apply \/ RollbackNotRequired \/ Rollback \/ Commit
  BY <1>3, StepApply, StepRollbackNotRequired, StepRollback, StepCommit
<1>4. CASE ApplyFailsBefore \/ ApplyFailsAfter \/ CommandFails \/ Crash
  BY <1>4, StepApplyFailsBefore, StepApplyFailsAfter, StepCommandFails, StepCrash
<1>5. CASE UNCHANGED vars BY <1>5, TxStutter
<1> QED BY <1>2, <1>3, <1>4, <1>5 DEF Next

LEMMA TxInvariant == Spec => []TxInv
<1>1. Init => TxInv BY TxInit
<1> QED BY <1>1, TxStep, PTL DEF Spec

\* The way back exists at every stage, that of an apply under way included.
LEMMA WayBack ==
    ASSUME TxInv
    PROVE  Recoverable /\ NoOrphanedMixture
<1>1. ASSUME stage \in {"applying", "applied", "failed"}, CanRollback
      PROVE  /\ manifest \cap Managed = {f \in Managed : before[f] # None}
             /\ \A f \in manifest \cap Managed : snap[f] = Old
  <2>1. manifest = Existed /\ \A f \in Managed \cap manifest : snap[f] = Old
    BY <1>1, Parts DEF CanRollback, Readable, ManifestOk
  <2>2. Managed \subseteq Names BY Parts, ManagedOk DEF TypeOK
  <2> QED BY <2>1, <2>2 DEF Existed
<1>2. stage \in {"applying", "applied", "failed"} => IsOld \/ CanRollback
  <2>1. stage \in {"applied", "failed"} \/ cmd = "undo" => IsOld \/ CanRollback
    BY Parts DEF SafeOk
  <2>2. stage = "applying" => cmd \in {"apply", "undo"} BY Parts DEF PlaceOk, TypeOK
  <2>3. CASE cmd = "apply"
    <3>1. ~ MutationStarted => IsOld BY <2>3, ApplyInterrupted DEF IsOld
    <3>2. MutationStarted => CanRollback
      BY <2>3, ApplyInterrupted DEF CanRollback, Readable
    <3> QED BY <3>1, <3>2
  <2> QED BY <2>1, <2>2, <2>3
<1>3. stage \in {"new", "untouched", "rolledback", "dropped"} => IsOld
  BY Parts DEF NewOk, StageOk, IsOld
<1>4. stage = "kept" => IsNew BY Parts DEF StageOk
<1>5. stage \in {"new", "applying", "applied", "failed", "untouched", "rolledback",
                 "kept", "dropped"}
  BY Parts DEF TypeOK
<1>6. Recoverable BY <1>1, <1>2, <1>3, <1>5 DEF Recoverable
<1>7. NoOrphanedMixture BY <1>2, <1>3, <1>4, <1>5 DEF NoOrphanedMixture
<1> QED BY <1>6, <1>7

\* For any of the transactions, any files that existed before it and any number of
\* failures and crashes: until the new files are accepted there is a way back to the
\* old ones, and the directory that offers it is never thrown away while the files
\* are a mixture (TransactionInv).
THEOREM TransactionSafe == Spec => []TransactionInv
<1>1. TxInv => TransactionInv BY WayBack, Parts DEF TransactionInv
<1> QED BY <1>1, TxInvariant, PTL

\* For any number of failures and crashes: a transaction reported as not begun or
\* rolled back has left the managed files as they were, and a user's ignore.txt is
\* never touched (RolledBackIsOld).
THEOREM RolledBackHolds == Spec => []RolledBackIsOld
<1>1. TxInv => RolledBackIsOld BY Parts DEF RolledBackIsOld, StageOk, IgnoreOk
<1> QED BY <1>1, TxInvariant, PTL
=============================================================================
