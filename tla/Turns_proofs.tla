--------------------------- MODULE Turns_proofs ----------------------------
(***************************************************************************)
(* What Turns.tla claims of every interleaving, for any number of bytes    *)
(* and files.  The conjunction of the type invariant and the four claims   *)
(* is inductive: the claims support one another only through the types and *)
(* through OpenTurnAgrees, which says when a boundary is worth closing.    *)
(***************************************************************************)
EXTENDS Turns, TLAPS

TurnsInv == TypeOK /\ Tiling /\ OpenTurnAgrees /\ StartedAtFirstByte /\ PathsChargedOnce /\ BadgeAccounted

-----------------------------------------------------------------------------
(* Appending a row, stated once.                                           *)

Row(end, why) ==
  [epoch |-> epoch, start |-> turnStart, end |-> end, started |-> cause,
   ended |-> why, at |-> Opened, paths |-> turnPaths]

LEMMA RowType ==
  ASSUME TypeOK, NEW end \in Nat, NEW why \in Causes
  PROVE  Row(end, why) \in Turn /\ Opened \in Nat
<1>1. Opened \in Nat BY DEF TypeOK, Opened, Times
<1>2. epoch \in Nat /\ turnStart \in Nat /\ cause \in Causes /\ turnPaths \subseteq Paths
  BY DEF TypeOK
<1> QED BY <1>1, <1>2 DEF Row, Turn

LEMMA Closed ==
  ASSUME TypeOK, NEW end \in Nat, NEW why \in Causes, CloseTurn(end, why)
  PROVE  /\ turns' \in Seq(Turn) /\ Len(turns') = Len(turns) + 1
         /\ \A i \in 1..Len(turns) : turns'[i] = turns[i]
         /\ turns'[Len(turns) + 1] = Row(end, why)
         /\ epoch' = epoch + 1 /\ turnStart' = end /\ cause' = why
         /\ sawOutput' = FALSE /\ openedAt' = NoTime /\ turnPaths' = {}
<1>1. turns' = Append(turns, Row(end, why)) BY DEF CloseTurn, Row
<1>2. Row(end, why) \in Turn BY RowType
<1>3. turns \in Seq(Turn) BY DEF TypeOK
<1>4. PICK s \in Seq(Turn), r \in Turn : s = turns /\ r = Row(end, why) BY <1>2, <1>3
<1>5. /\ Append(s, r) \in Seq(Turn) /\ Len(Append(s, r)) = Len(s) + 1
      /\ \A i \in 1..Len(s) : Append(s, r)[i] = s[i]
      /\ Append(s, r)[Len(s) + 1] = r
  OBVIOUS
<1> QED BY <1>1, <1>4, <1>5 DEF CloseTurn, OpenedByNobody, PathsDrained

-----------------------------------------------------------------------------
(* The two kinds of step: one closes a non-empty turn at the new end of    *)
(* the output, any other leaves the rows and the boundary where they were. *)

CloseStep(why) ==
  /\ CloseTurn(out', why)
  /\ out' \in Nat /\ out' > turnStart
  /\ allPaths' = allPaths /\ notes' = notes /\ events' = events /\ batch' = batch
  /\ push' = push /\ pushed' = pushed /\ cleared' = cleared

KeepStep == turns' = turns /\ turnStart' = turnStart /\ epoch' = epoch

QuietStep == KeepStep /\ UNCHANGED <<turnPaths, allPaths, notes, cleared, events, batch, push, pushed>>

FsStep ==
  \/ \E b \in SUBSET Paths \ {{}}, attached \in BOOLEAN : NoteChanges(b, attached)
  \/ RecordAndPush \/ ClearDirty

LEMMA FsKeeps == FsStep => KeepStep
  BY DEF FsStep, NoteChanges, RecordAndPush, ClearDirty, KeepStep, attrVars

LEMMA StepKind ==
  ASSUME TypeOK, OpenTurnAgrees, [Next]_vars
  PROVE  QuietStep \/ FsStep \/ \E why \in Causes : CloseStep(why)
<1>t. /\ out \in Nat /\ turnStart \in Nat /\ turnStart <= out
      /\ sawOutput = (out > turnStart) /\ MaxOut \in Nat
  BY TurnsAssumption DEF TypeOK, OpenTurnAgrees
<1>1. ASSUME NEW n \in 1..MaxOut, NEW finished \in BOOLEAN, Publish(n, finished)
      PROVE  QuietStep \/ CloseStep("osc133")
  <2>1. CASE finished
    BY <1>1, <2>1, <1>t DEF Publish, CloseStep, watchVars
  <2>2. CASE ~finished
    BY <1>1, <2>2 DEF Publish, QuietStep, KeepStep, watchVars, fsVars
  <2> QED BY <2>1, <2>2
<1>2. ASSUME Checkpoint PROVE QuietStep \/ CloseStep("app_checkpoint")
  <2>1. CASE AnythingNew
    <3>1. out > turnStart BY <2>1, <1>t DEF AnythingNew
    <3> QED BY <1>2, <2>1, <3>1, <1>t DEF Checkpoint, CloseStep, watchVars
  <2>2. CASE ~AnythingNew
    BY <1>2, <2>2 DEF Checkpoint, QuietStep, KeepStep, watchVars, fsVars
  <2> QED BY <2>1, <2>2
<1>3. ASSUME GcQuietCheck PROVE QuietStep \/ CloseStep("quiet_window")
  <2>1. CASE turnDirty /\ idle /\ sawOutput /\ out > turnStart
    BY <1>3, <2>1, <1>t DEF GcQuietCheck, CloseStep, watchVars
  <2>2. CASE ~(turnDirty /\ idle /\ sawOutput /\ out > turnStart)
    BY <1>3, <2>2 DEF GcQuietCheck, QuietStep, KeepStep, watchVars, fsVars
  <2> QED BY <2>1, <2>2
<1>4. ASSUME \/ GcSweep \/ GcReap \/ GcFindsAlive \/ ReaderEof \/ QuietWindowPasses
             \/ ClockTicks \/ UNCHANGED vars
      PROVE QuietStep
  BY <1>4 DEF GcSweep, GcReap, GcFindsAlive, ReaderEof, QuietWindowPasses, ClockTicks,
     QuietStep, KeepStep, watchVars, fsVars, attrVars, vars
<1>5. {"osc133", "app_checkpoint", "quiet_window"} \subseteq Causes BY DEF Causes
<1> QED BY <1>1, <1>2, <1>3, <1>4, <1>5 DEF Next, Gc, FsStep

-----------------------------------------------------------------------------
(* Tiling.                                                                 *)

LEMMA TilingStep ==
  ASSUME TypeOK, Tiling, OpenTurnAgrees, [Next]_vars
  PROVE  Tiling'
<1>t. /\ turns \in Seq(Turn) /\ Len(turns) \in Nat /\ epoch = Len(turns)
      /\ turnStart \in Nat
  BY DEF TypeOK
<1>1. CASE KeepStep BY <1>1 DEF KeepStep, Tiling
<1>2. ASSUME NEW why \in Causes, CloseStep(why) PROVE Tiling'
  <2> DEFINE n == Len(turns)
  <2>1. /\ turns' \in Seq(Turn) /\ Len(turns') = n + 1
        /\ \A i \in 1..n : turns'[i] = turns[i]
        /\ turns'[n + 1] = Row(out', why) /\ turnStart' = out'
    BY <1>2, Closed DEF CloseStep
  <2>2. /\ turns'[n + 1].epoch = n /\ turns'[n + 1].start = turnStart
        /\ turns'[n + 1].end = out' /\ turnStart < out' /\ out' \in Nat
    BY <2>1, <1>2, <1>t DEF Row, CloseStep
  <2>3. turnStart = IF n = 0 THEN 0 ELSE turns[n].end
    BY <1>t DEF Tiling
  <2>4. ASSUME NEW i \in 1..(n + 1)
        PROVE  /\ turns'[i].epoch = i - 1 /\ turns'[i].start < turns'[i].end /\ turns'[i].end <= turnStart'
               /\ turns'[i].start = IF i = 1 THEN 0 ELSE turns'[i - 1].end
    <3>1. CASE i = n + 1
      <4>1. turns'[i].epoch = i - 1 BY <3>1, <2>2, <1>t
      <4>2. turns'[i].start < turns'[i].end /\ turns'[i].end <= turnStart'
        BY <3>1, <2>1, <2>2, <1>t
      <4>3. CASE n = 0 BY <4>1, <4>2, <4>3, <3>1, <2>2, <2>3
      <4>4. CASE n # 0
        <5>1. i - 1 = n /\ n \in 1..n /\ i # 1 BY <3>1, <4>4, <1>t
        <5>2. turns'[i - 1] = turns[n] BY <5>1, <2>1
        <5>3. turns'[i].start = turns[n].end BY <3>1, <2>2, <2>3, <4>4
        <5> QED BY <4>1, <4>2, <5>1, <5>2, <5>3
      <4> QED BY <4>3, <4>4
    <3>2. CASE i \in 1..n
      <4>1. turns'[i] = turns[i] /\ (i # 1 => turns'[i - 1] = turns[i - 1])
        BY <3>2, <2>1, <1>t
      <4>2. turns[i].end <= turnStart BY <3>2 DEF Tiling
      <4>3. turns[i] \in Turn BY <3>2, <1>t
      <4>4. turns[i].end \in Nat BY <4>3 DEF Turn
      <4>5. turns[i].end <= turnStart' BY <4>2, <4>4, <2>1, <2>2, <1>t
      <4> QED BY <4>1, <4>5, <3>2 DEF Tiling
    <3> QED BY <3>1, <3>2, <1>t
  <2>5. turnStart' = IF turns' = <<>> THEN 0 ELSE turns'[Len(turns')].end
    BY <2>1, <2>2, <1>t
  <2> QED BY <2>1, <2>4, <2>5 DEF Tiling
<1> QED BY <1>1, <1>2, StepKind, FsKeeps DEF QuietStep

-----------------------------------------------------------------------------
(* Opening: saw_output, turn_started_unix and the boundary agree, and the  *)
(* stored opening time is the stamp of the first open byte.                *)

LEMMA OpenTurnStep ==
  ASSUME TypeOK, OpenTurnAgrees, [Next]_vars
  PROVE  OpenTurnAgrees'
<1>t. /\ out \in Nat /\ turnStart \in Nat /\ turnStart <= out /\ NoTime \notin Nat
      /\ Opened \in Nat /\ MaxOut \in Nat
  BY TurnsAssumption DEF TypeOK, Opened, Times
<1>1. ASSUME NEW n \in 1..MaxOut, NEW finished \in BOOLEAN, Publish(n, finished)
      PROVE  OpenTurnAgrees'
  BY <1>1, <1>t DEF Publish, CloseTurn, OpenedByNobody, OpenTurnAgrees
<1>2. ASSUME Checkpoint PROVE OpenTurnAgrees'
  BY <1>2, <1>t DEF Checkpoint, AnythingNew, CloseTurn, OpenedByNobody, OpenTurnAgrees
<1>3. ASSUME GcQuietCheck PROVE OpenTurnAgrees'
  BY <1>3, <1>t DEF GcQuietCheck, CloseTurn, OpenedByNobody, OpenTurnAgrees
<1>4. ASSUME \/ GcSweep \/ GcReap \/ GcFindsAlive \/ ReaderEof \/ QuietWindowPasses
             \/ ClockTicks \/ RecordAndPush \/ ClearDirty \/ UNCHANGED vars
             \/ \E b \in SUBSET Paths \ {{}}, attached \in BOOLEAN : NoteChanges(b, attached)
      PROVE OpenTurnAgrees'
  BY <1>4 DEF GcSweep, GcReap, GcFindsAlive, ReaderEof, QuietWindowPasses, ClockTicks,
     RecordAndPush, ClearDirty, NoteChanges, attrVars, vars, OpenTurnAgrees
<1> QED BY <1>1, <1>2, <1>3, <1>4 DEF Next, Gc

\* Stamps are only ever added, one per byte published, with the present time.
LEMMA StampStep ==
  ASSUME TypeOK, [Next]_vars
  PROVE  /\ out' \in Nat /\ out <= out'
         /\ \A i \in 1..out : stamp'[i] = stamp[i]
         /\ \A i \in (out + 1)..out' : stamp'[i] = clock
<1>t. out \in Nat /\ MaxOut \in Nat BY TurnsAssumption DEF TypeOK
<1>1. ASSUME NEW n \in 1..MaxOut, NEW finished \in BOOLEAN, Publish(n, finished)
      PROVE  /\ out' = out + n
             /\ stamp' = [i \in 1..(out + n) |-> IF i <= out THEN stamp[i] ELSE clock]
  BY <1>1 DEF Publish
<1>2. ASSUME NEW n \in 1..MaxOut, NEW finished \in BOOLEAN, Publish(n, finished)
      PROVE  /\ out' \in Nat /\ out <= out'
             /\ \A i \in 1..out : stamp'[i] = stamp[i]
             /\ \A i \in (out + 1)..out' : stamp'[i] = clock
  BY <1>1, <1>2, <1>t
<1>3. ASSUME \/ Checkpoint \/ Gc \/ ReaderEof \/ QuietWindowPasses
             \/ ClockTicks \/ RecordAndPush \/ ClearDirty \/ UNCHANGED vars
             \/ \E b \in SUBSET Paths \ {{}}, attached \in BOOLEAN : NoteChanges(b, attached)
      PROVE out' = out /\ stamp' = stamp
  BY <1>3 DEF Checkpoint, Gc, GcQuietCheck, GcSweep, GcReap, GcFindsAlive, ReaderEof,
     QuietWindowPasses, ClockTicks, RecordAndPush, ClearDirty, NoteChanges, attrVars, vars
<1>4. ASSUME out' = out /\ stamp' = stamp
      PROVE  /\ out' \in Nat /\ out <= out'
             /\ \A i \in 1..out : stamp'[i] = stamp[i]
             /\ \A i \in (out + 1)..out' : stamp'[i] = clock
  BY <1>4, <1>t
<1> QED BY <1>2, <1>3, <1>4 DEF Next

\* An opening time is stored by the publication of the first open byte, and
\* only then, and stays until the turn closes.
LEMMA OpenedStep ==
  ASSUME TypeOK, OpenTurnAgrees, KeepStep, [Next]_vars
  PROVE  openedAt' = IF out' > turnStart THEN Opened ELSE NoTime
<1>t. /\ out \in Nat /\ turnStart \in Nat /\ turnStart <= out /\ MaxOut \in Nat
      /\ turns \in Seq(Turn)
      /\ openedAt = IF out > turnStart THEN Opened ELSE NoTime
  BY TurnsAssumption DEF TypeOK, OpenTurnAgrees, Opened
<1>c. ASSUME NEW end \in Nat, NEW why \in Causes, CloseTurn(end, why) PROVE FALSE
  <2>1. epoch' = epoch + 1 BY <1>c, Closed
  <2>2. epoch \in Nat BY DEF TypeOK
  <2> QED BY <2>1, <2>2 DEF KeepStep
<1>w. {"osc133", "app_checkpoint", "quiet_window"} \subseteq Causes BY DEF Causes
<1>1. ASSUME NEW n \in 1..MaxOut, NEW finished \in BOOLEAN, Publish(n, finished)
      PROVE  openedAt' = IF out' > turnStart THEN Opened ELSE NoTime
  BY <1>1, <1>t, <1>c, <1>w DEF Publish
<1>2. ASSUME Checkpoint PROVE openedAt' = openedAt /\ out' = out
  BY <1>2, <1>t, <1>c, <1>w DEF Checkpoint
<1>3. ASSUME GcQuietCheck PROVE openedAt' = openedAt /\ out' = out
  BY <1>3, <1>t, <1>c, <1>w DEF GcQuietCheck
<1>4. ASSUME \/ GcSweep \/ GcReap \/ GcFindsAlive \/ ReaderEof \/ QuietWindowPasses
             \/ ClockTicks \/ RecordAndPush \/ ClearDirty \/ UNCHANGED vars
             \/ \E b \in SUBSET Paths \ {{}}, attached \in BOOLEAN : NoteChanges(b, attached)
      PROVE openedAt' = openedAt /\ out' = out
  BY <1>4 DEF GcSweep, GcReap, GcFindsAlive, ReaderEof, QuietWindowPasses, ClockTicks,
     RecordAndPush, ClearDirty, NoteChanges, attrVars, vars
<1> QED BY <1>1, <1>2, <1>3, <1>4, <1>t DEF Next, Gc

LEMMA StartedAtStep ==
  ASSUME TypeOK, Tiling, OpenTurnAgrees, StartedAtFirstByte, [Next]_vars
  PROVE  StartedAtFirstByte'
<1>t. /\ out \in Nat /\ turnStart \in Nat /\ turnStart <= out
      /\ turns \in Seq(Turn) /\ Len(turns) \in Nat
  BY DEF TypeOK
<1>s. /\ out' \in Nat /\ out <= out'
      /\ \A i \in 1..out : stamp'[i] = stamp[i]
      /\ \A i \in (out + 1)..out' : stamp'[i] = clock
  BY StampStep
<1>o. out' > turnStart => Opened = stamp'[turnStart + 1]
  <2>1. CASE out > turnStart
    BY <2>1, <1>t, <1>s DEF OpenTurnAgrees, StartedAtFirstByte, Opened
  <2>2. CASE out = turnStart
    BY <2>2, <1>t, <1>s DEF OpenTurnAgrees, Opened
  <2> QED BY <2>1, <2>2, <1>t
<1>r. ASSUME NEW i \in 1..Len(turns)
      PROVE  turns[i].at = stamp'[turns[i].start + 1]
  <2>1. turns[i] \in Turn BY <1>t
  <2>2. turns[i].start \in Nat /\ turns[i].end \in Nat /\ turns[i].start < turns[i].end
    BY <2>1 DEF Turn, Tiling
  <2>3. turns[i].end <= out BY <2>2, <1>t DEF Tiling
  <2>4. turns[i].start + 1 \in 1..out BY <2>2, <2>3, <1>t
  <2> QED BY <2>4, <1>s DEF StartedAtFirstByte
<1>1. CASE KeepStep
  <2>1. out' > turnStart => openedAt' = stamp'[turnStart + 1]
    BY <1>1, <1>o, OpenedStep
  <2> QED BY <1>1, <1>r, <2>1 DEF KeepStep, StartedAtFirstByte
<1>2. ASSUME NEW why \in Causes, CloseStep(why) PROVE StartedAtFirstByte'
  <2>1. /\ Len(turns') = Len(turns) + 1
        /\ \A i \in 1..Len(turns) : turns'[i] = turns[i]
        /\ turns'[Len(turns) + 1] = Row(out', why) /\ turnStart' = out'
    BY <1>2, Closed DEF CloseStep
  <2>2. Row(out', why).at = Opened /\ Row(out', why).start = turnStart BY DEF Row
  <2>3. out' > turnStart BY <1>2 DEF CloseStep
  <2>4. ASSUME NEW i \in 1..(Len(turns) + 1)
        PROVE  turns'[i].at = stamp'[turns'[i].start + 1]
    <3>1. CASE i = Len(turns) + 1 BY <3>1, <2>1, <2>2, <2>3, <1>o
    <3>2. CASE i \in 1..Len(turns) BY <3>2, <2>1, <1>r
    <3> QED BY <3>1, <3>2, <1>t
  <2>5. ~(out' > turnStart') BY <2>1, <1>s
  <2> QED BY <2>1, <2>4, <2>5 DEF StartedAtFirstByte
<1> QED BY <1>1, <1>2, StepKind, FsKeeps DEF QuietStep

-----------------------------------------------------------------------------
(* Paths: a row is given exactly the notes of its turn.                    *)

LEMMA PathsStep ==
  ASSUME TypeOK, OpenTurnAgrees, PathsChargedOnce, [Next]_vars
  PROVE  PathsChargedOnce'
<1>t. /\ turns \in Seq(Turn) /\ Len(turns) \in Nat /\ epoch = Len(turns)
      /\ turnPaths \subseteq Paths /\ notes \subseteq Paths \X (0..epoch)
  BY DEF TypeOK
<1>p. turnPaths = {p \in Paths : <<p, epoch>> \in notes} BY DEF PathsChargedOnce
<1>r. ASSUME NEW i \in 1..Len(turns)
      PROVE  turns[i].paths = {p \in Paths : <<p, i - 1>> \in notes} /\ i - 1 # epoch
  BY <1>t DEF PathsChargedOnce
<1>1. ASSUME NEW b \in SUBSET Paths, NEW attached \in BOOLEAN, NoteChanges(b, attached)
      PROVE  PathsChargedOnce'
  <2>1. /\ turns' = turns /\ epoch' = epoch /\ turnPaths' = turnPaths \cup b
        /\ notes' = notes \cup {<<p, epoch>> : p \in b}
    BY <1>1 DEF NoteChanges, attrVars
  <2> QED BY <2>1, <1>p, <1>r DEF PathsChargedOnce
<1>2. ASSUME ClearDirty PROVE PathsChargedOnce'
  <2>1. /\ turns' = turns /\ epoch' = epoch /\ turnPaths' = {}
        /\ notes' = {n \in notes : n[2] < epoch}
    BY <1>2 DEF ClearDirty, Cleared, attrVars
  <2> QED BY <2>1, <1>p, <1>r, <1>t DEF PathsChargedOnce
<1>3. ASSUME NEW why \in Causes, CloseStep(why) PROVE PathsChargedOnce'
  <2>1. /\ Len(turns') = Len(turns) + 1
        /\ \A i \in 1..Len(turns) : turns'[i] = turns[i]
        /\ turns'[Len(turns) + 1] = Row(out', why)
        /\ turnPaths' = {} /\ epoch' = epoch + 1 /\ notes' = notes
    BY <1>3, Closed DEF CloseStep
  <2>2. Row(out', why).paths = turnPaths BY DEF Row
  <2>3. \A p \in Paths : <<p, epoch + 1>> \notin notes BY <1>t
  <2>4. ASSUME NEW i \in 1..(Len(turns) + 1)
        PROVE  turns'[i].paths = {p \in Paths : <<p, i - 1>> \in notes}
    <3>1. CASE i = Len(turns) + 1 BY <3>1, <2>1, <2>2, <1>p, <1>t
    <3>2. CASE i \in 1..Len(turns) BY <3>2, <2>1, <1>r
    <3> QED BY <3>1, <3>2, <1>t
  <2> QED BY <2>1, <2>3, <2>4 DEF PathsChargedOnce
<1>4. ASSUME QuietStep \/ RecordAndPush PROVE PathsChargedOnce'
  BY <1>4, <1>p, <1>r
     DEF QuietStep, KeepStep, RecordAndPush, attrVars, fsVars, PathsChargedOnce
<1> QED BY <1>1, <1>2, <1>3, <1>4, StepKind DEF FsStep

-----------------------------------------------------------------------------
(* The badge.                                                              *)

LEMMA BadgeStep ==
  ASSUME TypeOK, OpenTurnAgrees, BadgeAccounted, [Next]_vars
  PROVE  BadgeAccounted'
<1>t. turns \in Seq(Turn) /\ Len(turns) \in Nat BY DEF TypeOK
<1>k. KeepStep => TurnRowPaths' = TurnRowPaths BY DEF KeepStep, TurnRowPaths
<1>1. ASSUME NEW b \in SUBSET Paths, NEW attached \in BOOLEAN, NoteChanges(b, attached)
      PROVE  BadgeAccounted'
  <2>1. KeepStep BY <1>1 DEF NoteChanges, KeepStep, attrVars
  <2> QED BY <1>1, <2>1, <1>k DEF NoteChanges, BadgeAccounted
<1>2. ASSUME ClearDirty PROVE BadgeAccounted'
  <2>1. KeepStep BY <1>2 DEF ClearDirty, KeepStep, attrVars
  <2> QED BY <1>2, <2>1, <1>k DEF ClearDirty, Cleared, BadgeAccounted
<1>3. ASSUME RecordAndPush PROVE BadgeAccounted'
  <2>1. KeepStep BY <1>3 DEF RecordAndPush, KeepStep, attrVars
  <2> QED BY <1>3, <2>1, <1>k DEF RecordAndPush, fsVars, BadgeAccounted
<1>4. ASSUME QuietStep PROVE BadgeAccounted'
  BY <1>4, <1>k DEF QuietStep, BadgeAccounted
<1>5. ASSUME NEW why \in Causes, CloseStep(why) PROVE BadgeAccounted'
  <2>1. /\ Len(turns') = Len(turns) + 1
        /\ \A i \in 1..Len(turns) : turns'[i] = turns[i]
        /\ turns'[Len(turns) + 1] = Row(out', why) /\ turnPaths' = {}
        /\ allPaths' = allPaths /\ events' = events /\ batch' = batch /\ push' = push
        /\ pushed' = pushed /\ cleared' = cleared
    BY <1>5, Closed DEF CloseStep
  <2>2. Row(out', why).paths = turnPaths BY DEF Row
  <2>3. TurnRowPaths' = TurnRowPaths \cup turnPaths
    <3>1. 1..(Len(turns) + 1) = 1..Len(turns) \cup {Len(turns) + 1} BY <1>t
    <3> QED BY <2>1, <2>2, <3>1 DEF TurnRowPaths
  <2> QED BY <2>1, <2>3 DEF BadgeAccounted
<1> QED BY <1>1, <1>2, <1>3, <1>4, <1>5, StepKind DEF FsStep

-----------------------------------------------------------------------------
(* Types, and the theorems.                                                *)

LEMMA TypeStep ==
  ASSUME TypeOK, OpenTurnAgrees, [Next]_vars
  PROVE  TypeOK'
<1>t. /\ out \in Nat /\ out <= MaxOut /\ MaxOut \in Nat /\ MaxTime \in Nat
      /\ turnStart \in Nat /\ turnStart <= out /\ epoch \in Nat /\ epoch = Len(turns)
      /\ turns \in Seq(Turn) /\ clock \in Nat /\ clock <= MaxTime /\ Opened \in Nat
  BY TurnsAssumption DEF TypeOK, Opened, Times
<1>w. {"osc133", "app_checkpoint", "quiet_window"} \subseteq Causes BY DEF Causes
<1>c. ASSUME NEW end \in Nat, NEW why \in Causes, CloseTurn(end, why), notes' = notes
      PROVE  /\ turns' \in Seq(Turn) /\ epoch' = Len(turns') /\ epoch' \in Nat
             /\ turnStart' = end /\ cause' \in Causes /\ sawOutput' \in BOOLEAN
             /\ openedAt' \in Times /\ turnPaths' \subseteq Paths
             /\ notes' \subseteq Paths \X (0..epoch')
  <2>1. /\ turns' \in Seq(Turn) /\ Len(turns') = Len(turns) + 1
        /\ epoch' = epoch + 1 /\ turnStart' = end /\ cause' = why
        /\ sawOutput' = FALSE /\ openedAt' = NoTime /\ turnPaths' = {}
    BY <1>c, Closed
  <2>2. 0..epoch \subseteq 0..(epoch + 1) BY <1>t
  <2>3. notes \subseteq Paths \X (0..epoch) BY DEF TypeOK
  <2>4. notes' \subseteq Paths \X (0..epoch') BY <2>1, <2>2, <2>3, <1>c
  <2>5. epoch' = Len(turns') /\ epoch' \in Nat BY <2>1, <1>t
  <2>6. NoTime \in Times /\ FALSE \in BOOLEAN /\ {} \subseteq Paths BY DEF Times
  <2> QED BY <2>1, <2>4, <2>5, <2>6
<1>x. ASSUME NEW why \in Causes, CloseTurn(out, why), turnDirty' = FALSE,
             UNCHANGED <<out, allPaths, watchVars, clock, idle, eof, dead, inMap, stamp, notes, cleared>>,
             gc' = gc \/ gc' = "idle"
      PROVE  TypeOK'
  <2>1. notes' = notes BY <1>x
  <2>2. /\ turns' \in Seq(Turn) /\ epoch' = Len(turns') /\ epoch' \in Nat
        /\ turnStart' = out /\ cause' \in Causes /\ sawOutput' \in BOOLEAN
        /\ openedAt' \in Times /\ turnPaths' \subseteq Paths
        /\ notes' \subseteq Paths \X (0..epoch')
    BY <2>1, <1>x, <1>c, <1>t
  <2>3. out \in 0..out BY <1>t
  <2>4. UNCHANGED <<out, allPaths, batch, push, events, pushed, clock, idle, eof, dead, inMap, stamp, cleared>>
    BY <1>x DEF watchVars
  <2> QED BY <2>2, <2>3, <2>4, <1>x DEF TypeOK
<1>1. ASSUME NEW n \in 1..MaxOut, NEW finished \in BOOLEAN, Publish(n, finished)
      PROVE  TypeOK'
  <2>1. out' = out + n /\ out' \in 0..MaxOut BY <1>1, <1>t DEF Publish
  <2>2. stamp' \in Seq(Nat) /\ Len(stamp') = out'
    <3>1. stamp \in Seq(Nat) /\ Len(stamp) = out BY DEF TypeOK
    <3>2. stamp' = [i \in 1..out' |-> IF i <= out THEN stamp[i] ELSE clock]
      BY <1>1, <2>1 DEF Publish
    <3>3. \A i \in 1..out' : (IF i <= out THEN stamp[i] ELSE clock) \in Nat
      BY <3>1, <1>t, <2>1
    <3>4. stamp' \in [1..out' -> Nat] BY <3>2, <3>3
    <3>5. DOMAIN stamp' = 1..out' BY <3>4
    <3> QED BY <3>4, <3>5, <2>1
  <2>3. /\ turns' \in Seq(Turn) /\ epoch' = Len(turns') /\ epoch' \in Nat
        /\ turnStart' \in 0..out' /\ cause' \in Causes /\ sawOutput' \in BOOLEAN
        /\ openedAt' \in Times /\ turnPaths' \subseteq Paths
        /\ notes' \subseteq Paths \X (0..epoch')
    <3>1. CASE finished
      <4>1. CloseTurn(out + n, "osc133") /\ notes' = notes BY <1>1, <3>1 DEF Publish
      <4> QED BY <4>1, <1>c, <1>w, <1>t, <2>1
    <3>2. CASE ~finished
      BY <1>1, <3>2, <1>t, <2>1 DEF Publish, TypeOK, Times
    <3> QED BY <3>1, <3>2
  <2> QED BY <1>1, <2>1, <2>2, <2>3 DEF Publish, TypeOK, watchVars, endVars
<1>2. ASSUME Checkpoint PROVE TypeOK'
  <2>1. CASE AnythingNew
    <3>1. /\ CloseTurn(out, "app_checkpoint") /\ turnDirty' = FALSE
          /\ UNCHANGED <<out, allPaths, watchVars, clock, idle, endVars, stamp, notes, cleared>>
      BY <1>2, <2>1 DEF Checkpoint
    <3> QED BY <3>1, <1>x, <1>w DEF endVars
  <2>2. CASE ~AnythingNew
    BY <1>2, <2>2, <1>w DEF Checkpoint, TypeOK, watchVars, endVars
  <2> QED BY <2>1, <2>2
<1>3. ASSUME GcQuietCheck PROVE TypeOK'
  <2>1. CASE turnDirty /\ idle /\ sawOutput /\ out > turnStart
    <3>1. /\ CloseTurn(out, "quiet_window") /\ turnDirty' = FALSE
          /\ UNCHANGED <<out, allPaths, watchVars, clock, idle, eof, dead, inMap, stamp, notes, cleared>>
          /\ gc' = "idle"
      BY <1>3, <2>1 DEF GcQuietCheck
    <3> QED BY <3>1, <1>x, <1>w
  <2>2. CASE ~(turnDirty /\ idle /\ sawOutput /\ out > turnStart)
    BY <1>3, <2>2 DEF GcQuietCheck, QuietDirty, TypeOK, watchVars
  <2> QED BY <2>1, <2>2
<1>4. ASSUME GcSweep \/ GcReap \/ GcFindsAlive \/ ReaderEof \/ QuietWindowPasses
      PROVE TypeOK'
  BY <1>4 DEF GcSweep, GcReap, GcFindsAlive, ReaderEof, QuietWindowPasses,
     TypeOK, attrVars, fsVars, watchVars, endVars
<1>7. ASSUME ClockTicks PROVE TypeOK'
  <2>1. clock' \in 0..MaxTime BY <1>7, <1>t DEF ClockTicks
  <2> QED BY <1>7, <2>1 DEF ClockTicks, TypeOK, attrVars, fsVars, watchVars, endVars
<1>8. ASSUME UNCHANGED vars PROVE TypeOK'
  BY <1>8 DEF TypeOK, attrVars, fsVars, watchVars, endVars, vars
<1>5. ASSUME NEW b \in SUBSET Paths, NEW attached \in BOOLEAN, NoteChanges(b, attached)
      PROVE  TypeOK'
  <2>1. epoch \in 0..epoch BY <1>t
  <2>2. notes' \subseteq Paths \X (0..epoch) BY <1>5, <2>1 DEF NoteChanges, TypeOK
  <2> QED BY <1>5, <2>2 DEF NoteChanges, TypeOK, attrVars, endVars
<1>6. ASSUME RecordAndPush \/ ClearDirty PROVE TypeOK'
  BY <1>6 DEF RecordAndPush, ClearDirty, Cleared, TypeOK, attrVars, fsVars, endVars
<1> QED BY <1>1, <1>2, <1>3, <1>4, <1>5, <1>6, <1>7, <1>8 DEF Next, Gc

\* Types, and all the claims about turns, whatever the interleaving of the
\* reader, the app, the tick and the watcher (session.rs, attribution.rs).
THEOREM TurnsInvariant == Spec => []TurnsInv
<1>1. Init => TurnsInv
  <2> SUFFICES ASSUME Init PROVE TurnsInv OBVIOUS
  <2>1. TypeOK
    <3>1. /\ turns \in Seq(Turn) /\ epoch = Len(turns) /\ stamp \in Seq(Nat) /\ Len(stamp) = out
          /\ openedAt \in Times /\ cause \in Causes
      BY DEF Init, Causes, Times
    <3>2. out \in 0..MaxOut /\ turnStart \in 0..out /\ epoch \in Nat /\ clock \in 0..MaxTime
      BY TurnsAssumption DEF Init
    <3> QED BY <3>1, <3>2 DEF Init, TypeOK
  <2>2. Tiling /\ OpenTurnAgrees /\ StartedAtFirstByte /\ PathsChargedOnce /\ BadgeAccounted
    BY DEF Init, Tiling, OpenTurnAgrees, StartedAtFirstByte, PathsChargedOnce, BadgeAccounted, TurnRowPaths
  <2> QED BY <2>1, <2>2 DEF TurnsInv
<1>2. TurnsInv /\ [Next]_vars => TurnsInv'
  BY TypeStep, TilingStep, OpenTurnStep, StartedAtStep, PathsStep, BadgeStep DEF TurnsInv
<1> QED BY <1>1, <1>2, PTL DEF Spec

\* Rows are well formed and the epoch counts them: there is one row for every
\* number below it (attribution.rs close_turn), whoever closed the turns.
THEOREM TypeSafety == Spec => []TypeOK
<1>1. TurnsInv => TypeOK BY DEF TurnsInv
<1> QED BY <1>1, TurnsInvariant, PTL

\* Every path of the badge is in the open turn or in a row, and what a clear took out of the open
\* turn, which no row will have, is with every listed path in the fs rows or on its way there
\* (session.rs note_fs_changes, clear_fs_dirty).
THEOREM BadgeSafety == Spec => []BadgeAccounted
<1>1. TurnsInv => BadgeAccounted BY DEF TurnsInv
<1> QED BY <1>1, TurnsInvariant, PTL

\* Rows tile the output: no byte before the open turn is in two turns or none.
THEOREM TilingSafety == Spec => []Tiling
<1>1. TurnsInv => Tiling BY DEF TurnsInv
<1> QED BY <1>1, TurnsInvariant, PTL

\* Opening times are those of the first byte of the turn.
THEOREM OpeningSafety == Spec => []StartedAtFirstByte
<1>1. TurnsInv => StartedAtFirstByte BY DEF TurnsInv
<1> QED BY <1>1, TurnsInvariant, PTL

\* A noted change is in the row of its turn and in no other.
THEOREM PathsSafety == Spec => []PathsChargedOnce
<1>1. TurnsInv => PathsChargedOnce BY DEF TurnsInv
<1> QED BY <1>1, TurnsInvariant, PTL
=============================================================================
