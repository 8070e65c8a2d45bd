------------------------ MODULE TranscodeCacheFiles -------------------------
(***************************************************************************)
(* What the final paths hold: a file is whole unless two transcodes of its *)
(* item were at work at once; what a ready row names, and a URL, depends   *)
(* on how the item's transcodes came out, which the proofs follow through  *)
(* attempts that look at the same input and see different things.  The     *)
(* last section shows that all this implements CacheLedger.                *)
(***************************************************************************)
EXTENDS TranscodeCacheSafety

-----------------------------------------------------------------------------
(* Whole files.                                                             *)

\* An item no two transcodes of which ever met has one at work at most; its
\* ffmpeg writes where its path leads, and what it writes and has published
\* is whole.
WholeItem(i) ==
  /\ \A a, b \in Actors :
       item[a] = i /\ item[b] = i /\ pc[a] \in Busy /\ pc[b] \in Busy => a = b
  /\ \A a \in Actors : item[a] = i /\ pc[a] = "write" =>
       /\ fd[a] = "tmp"
       /\ tmp[i][Target(a)].clean
  /\ \A n \in FileNames : final[i][n] # NoFile => final[i][n].clean

WholeInv == TypeInv /\ \A i \in Items \ overlapped : WholeItem(i)

LEMMA WholeMeansIntact ==
  ASSUME TypeInv, NEW i \in Items, WholeItem(i), NEW n \in FileNames, final[i][n] # NoFile
  PROVE  Intact(i, n)
<1>1. \A b \in Actors : fd[b] # "none" => pc[b] = "write"
  BY DEF TypeInv, ActorOK
<1>2. Writers(i, n, "final") = {}
  BY <1>1 DEF WholeItem, Writers
<1> QED BY <1>2 DEF WholeItem, Intact

\* A step of a transcode of another item.
LEMMA WholeElsewhere ==
  ASSUME TypeInv, NEW a \in Actors, TranscodeStep(a),
         NEW i \in Items, i # item[a], WholeItem(i)
  PROVE  WholeItem(i)'
<1>1. /\ \A b \in Actors \ {a} : pc'[b] = pc[b] /\ item'[b] = item[b] /\ Target(b)' = Target(b)
      /\ pc'[a] \in Busy => item'[a] # i
      /\ item[a] \in Items
  BY TranscodeMoves, SameOutputs
<1>2. \A n \in FileNames : tmp'[i][n] = tmp[i][n]
  <2>1. CASE OpenTmp(a)
    BY <2>1 DEF OpenTmp, TypeInv, TypeOK
  <2>2. CASE RemoveTmp(a, Target(a)) \/ RenameTmp(a, Target(a))
    BY <1>1, <2>2, TmpMoved
  <2> QED BY <2>1, <2>2, TmpSteps
<1>3. final'[i] = final[i]
  <2>1. final \in [Items -> [FileNames -> Files \cup {NoFile}]]
    BY DEF TypeInv, TypeOK
  <2> QED BY <2>1 DEF TranscodeStep, MarkInProgress, OpenTmp, OpenFails, WriteDone,
             WriteFails, Split, SplitFails, RemoveConcat, MarkReady, MarkFailed, disk
<1>4. ASSUME NEW b \in Actors \ {a}, item[b] = i, pc[b] = "write"
      PROVE  fd'[b] = "tmp"
  <2>1. fd[b] = "tmp"
    BY <1>4 DEF WholeItem
  <2>2. CASE OpenTmp(a)
    BY <2>1, <2>2 DEF OpenTmp, TypeInv, TypeOK
  <2>3. CASE RemoveTmp(a, Target(a)) \/ RenameTmp(a, Target(a))
    BY <1>1, <1>4, <2>1, <2>3, TmpMoved
  <2> QED BY <2>1, <2>2, <2>3, TmpSteps
<1>5. \A b \in Actors : pc[b] = "write" => Target(b) \in FileNames
  BY OutputType DEF TypeInv, TypeOK, ActorOK, Busy, Target
<1>6. \A b \in Actors : item'[b] = i /\ pc'[b] \in Busy => b # a
  BY <1>1
<1> QED
  <2>1. \A b, c \in Actors :
          item'[b] = i /\ item'[c] = i /\ pc'[b] \in Busy /\ pc'[c] \in Busy => b = c
    BY <1>1, <1>6 DEF WholeItem
  <2>2. ASSUME NEW b \in Actors, item'[b] = i, pc'[b] = "write"
        PROVE  fd'[b] = "tmp" /\ tmp'[i][Target(b)'].clean
    <3>1. b # a /\ item[b] = i /\ pc[b] = "write"
      BY <1>1, <1>6, <2>2 DEF Busy
    <3> QED BY <1>1, <1>2, <1>4, <1>5, <3>1 DEF WholeItem
  <2>3. \A n \in FileNames : final'[i][n] # NoFile => final'[i][n].clean
    BY <1>3 DEF WholeItem
  <2> QED BY <2>1, <2>2, <2>3 DEF WholeItem

\* A step of a transcode of the item itself.
LEMMA WholeHere ==
  ASSUME TypeInv, NEW a \in Actors, TranscodeStep(a),
         NEW i \in Items, i = item[a], WholeItem(i), i \notin overlapped'
  PROVE  WholeItem(i)'
<1>1. /\ \A b \in Actors \ {a} : pc'[b] = pc[b] /\ item'[b] = item[b]
      /\ pc \in [Actors -> ActorPCs]
      /\ final \in [Items -> [FileNames -> Files \cup {NoFile}]]
      /\ tmp \in [Items -> [FileNames -> Files \cup {NoFile}]]
      /\ fd \in [Actors -> {"none", "tmp", "final", "gone"}]
      /\ ActorOK(a) /\ plan[a] \in Plans
  BY TranscodeMoves DEF TypeInv, TypeOK
<1>2. pc[a] \in Busy => Target(a) \in FileNames
  BY <1>1, OutputType DEF ActorOK, Target
\* a alone works on the item.
<1>3. \A b \in Actors \ {a} : item'[b] = i => pc'[b] \notin Busy
  <2>1. CASE MarkInProgress(a)
    BY <1>1, <2>1 DEF MarkInProgress, Begin
  <2>2. CASE ~MarkInProgress(a)
    <3>1. pc[a] \in Busy
      BY <2>2 DEF TranscodeStep, OpenTmp, OpenFails, WriteDone, WriteFails,
         Split, SplitFails, RemoveConcat, MarkReady, MarkFailed, Busy
    <3> QED BY <1>1, <3>1 DEF WholeItem
  <2> QED BY <2>1, <2>2
<1>4. \A b, c \in Actors :
          item'[b] = i /\ item'[c] = i /\ pc'[b] \in Busy /\ pc'[c] \in Busy => b = c
  BY <1>3
<1>5. ASSUME pc'[a] # "write",
             \A n \in FileNames : final'[i][n] # NoFile => final'[i][n].clean
      PROVE  WholeItem(i)'
  <2>1. \A b \in Actors : item'[b] = i => pc'[b] # "write"
    BY <1>3, <1>5 DEF Busy
  <2> QED BY <1>4, <1>5, <2>1 DEF WholeItem
<1>6. CASE OpenTmp(a)
  <2>1. pc[a] = "open" /\ fd' = [fd EXCEPT ![a] = "tmp"] /\ UNCHANGED <<final, item, step, plan>>
    BY <1>6 DEF OpenTmp
  <2>2. Target(a)' = Target(a)
    BY <2>1, SameOutputs
  <2>3. Writers(i, Target(a), "tmp") = {}
    <3>1. \A b \in Actors : fd[b] = "tmp" /\ item[b] = i => b # a /\ pc[b] = "write"
      BY <2>1 DEF TypeInv, ActorOK
    <3> QED BY <2>1, <3>1 DEF WholeItem, Writers, Busy
  <2>4. InputIntact(a)
    BY <1>6, WholeMeansIntact, Constants DEF OpenTmp, InputPresent, InputIntact
  <2>5. tmp'[i][Target(a)] = [src |-> Src(a), clean |-> TRUE]
    BY <1>1, <1>2, <1>6, <2>1, <2>3, <2>4 DEF OpenTmp, Busy
  <2>6. ASSUME NEW b \in Actors, item'[b] = i, pc'[b] = "write"
        PROVE  fd'[b] = "tmp" /\ tmp'[i][Target(b)'].clean
    <3>1. b = a
      BY <1>3, <2>6 DEF Busy
    <3> QED BY <1>1, <2>1, <2>2, <2>5, <3>1
  <2> QED BY <1>4, <2>1, <2>6 DEF WholeItem
<1>7. CASE MarkInProgress(a) \/ Split(a) \/ SplitFails(a) \/ MarkReady(a) \/ MarkFailed(a)
  <2>1. UNCHANGED final
    BY <1>7 DEF MarkInProgress, Split, SplitFails, MarkReady, MarkFailed, disk
  <2>2. pc'[a] # "write"
    BY <1>1, <1>7 DEF MarkInProgress, Begin, Split, SplitFails, MarkReady, MarkFailed, Finish, Goto
  <2> QED BY <1>5, <2>1, <2>2 DEF WholeItem
<1>8. CASE OpenFails(a) \/ WriteFails(a)
  <2>1. UNCHANGED final /\ pc'[a] # "write"
    BY <1>1, <1>8 DEF OpenFails, WriteFails, Goto, AfterFailure
  <2> QED BY <1>5, <2>1 DEF WholeItem
<1>9. CASE WriteDone(a)
  <2>1. pc[a] = "write" /\ pc'[a] # "write"
    BY <1>1, <1>9 DEF WriteDone, Proceed, Goto, AfterFailure
  <2>2. tmp[i][Target(a)].clean
    BY <2>1 DEF WholeItem
  <2>3. UNCHANGED final \/ final' = [final EXCEPT ![i][Target(a)] = tmp[i][Target(a)]]
    BY <1>9 DEF WriteDone
  <2>4. ASSUME NEW n \in FileNames, final'[i][n] # NoFile PROVE final'[i][n].clean
    BY <1>1, <2>2, <2>3, <2>4 DEF WholeItem
  <2> QED BY <1>5, <2>1, <2>4
<1>10. CASE RemoveConcat(a)
  <2>1. pc'[a] # "write"
    BY <1>1, <1>10 DEF RemoveConcat, Goto
  <2>2. final' = [final EXCEPT ![i][Concat] = NoFile]
    BY <1>10 DEF RemoveConcat
  <2>3. ASSUME NEW n \in FileNames, final'[i][n] # NoFile PROVE final'[i][n].clean
    BY <1>1, <2>2, <2>3 DEF WholeItem
  <2> QED BY <1>5, <2>1, <2>3
<1> QED BY <1>6, <1>7, <1>8, <1>9, <1>10 DEF TranscodeStep

LEMMA OverlapsStay ==
  ASSUME NEW a \in Actors, TranscodeStep(a)
  PROVE  overlapped \subseteq overlapped'
BY DEF TranscodeStep, MarkInProgress, Begin, OpenTmp, OpenFails, WriteDone, WriteFails, Split,
   SplitFails, RemoveConcat, MarkReady, MarkFailed, aux

LEMMA WholeStep == WholeInv /\ [Next]_vars => WholeInv'
<1> SUFFICES ASSUME WholeInv, [Next]_vars PROVE WholeInv'
  OBVIOUS
<1>1. TypeInv /\ TypeInv' /\ \A i \in Items \ overlapped : WholeItem(i)
  BY NextTypeInv DEF WholeInv
<1>2. /\ tmp \in [Items -> [FileNames -> Files \cup {NoFile}]]
      /\ final \in [Items -> [FileNames -> Files \cup {NoFile}]]
  BY <1>1 DEF TypeInv, TypeOK
<1> SUFFICES ASSUME NEW i \in Items, i \notin overlapped' PROVE WholeItem(i)'
  BY <1>1 DEF WholeInv
<1>3. ASSUME NEW a \in Actors, TranscodeStep(a) PROVE WholeItem(i)'
  <2>1. overlapped \subseteq overlapped'
    BY <1>3, OverlapsStay
  <2> QED BY <1>1, <1>3, <2>1, WholeElsewhere, WholeHere
<1>4. ASSUME NEW p \in {"down", "panicked"}, Dies(p) PROVE WholeItem(i)'
  <2>1. WholeItem(i) /\ UNCHANGED final /\ \A b \in Actors : pc'[b] = "idle"
    BY <1>1, <1>4 DEF Dies, aux
  <2> QED BY <2>1 DEF WholeItem, Busy
<1>5. ASSUME Restart PROVE WholeItem(i)'
  <2>1. WholeItem(i) /\ UNCHANGED <<pc, item>> /\ \A b \in Actors : pc[b] = "idle"
    BY <1>1, <1>5 DEF Restart, procs, aux, TypeInv, ActorOK, Running
  <2>2. final'[i] = [final[i] EXCEPT ![Concat] = NoFile]
    BY <1>5 DEF Restart
  <2>3. \A n \in FileNames : final'[i][n] # NoFile => final'[i][n].clean
    BY <1>2, <2>1, <2>2 DEF WholeItem
  <2> QED BY <2>1, <2>3 DEF WholeItem, Busy
<1>6. ASSUME AsideStep PROVE WholeItem(i)'
  <2>1. UNCHANGED <<tmp, final, fd>> /\ WholeItem(i)
    BY <1>1, <1>6 DEF AsideStep
  <2>2. \A b \in Actors : pc'[b] \in Busy =>
          pc'[b] = pc[b] /\ item'[b] = item[b] /\ Target(b)' = Target(b)
    BY <1>6, SameOutputs DEF AsideStep
  <2>3. \A b, c \in Actors :
          item'[b] = i /\ item'[c] = i /\ pc'[b] \in Busy /\ pc'[c] \in Busy => b = c
    BY <2>1, <2>2 DEF WholeItem
  <2>4. \A b \in Actors : item'[b] = i /\ pc'[b] = "write" =>
          fd'[b] = "tmp" /\ tmp'[i][Target(b)'].clean
    BY <2>1, <2>2 DEF WholeItem, Busy
  <2> QED BY <2>1, <2>3, <2>4 DEF WholeItem
<1> QED BY <1>1, <1>3, <1>4, <1>5, <1>6, StepKinds

LEMMA InitWhole == Init => WholeInv
<1>1. Init => TypeInv
  BY InitTypeInv
<1>2. ASSUME Init, NEW i \in Items PROVE WholeItem(i)
  <2>1. (\A n \in FileNames : final[i][n] = NoFile) /\ \A a \in Actors : pc[a] = "idle"
    BY <1>2 DEF Init
  <2> QED BY <2>1 DEF WholeItem, Busy
<1> QED BY <1>1, <1>2 DEF WholeInv

\* Transcode and TranscodeMultiple publish by renaming what ffmpeg has finished:
\* without two transcodes of one item at once nothing partial is ever published,
\* whatever fails or crashes.
THEOREM FilesWhole == Spec => []WholeUnlessOverlapped
<1>1. Spec => []WholeInv
  BY InitWhole, WholeStep, PTL DEF Spec
<1>2. WholeInv => WholeUnlessOverlapped
  BY WholeMeansIntact DEF WholeInv, WholeUnlessOverlapped
<1> QED BY <1>1, <1>2, PTL

-----------------------------------------------------------------------------
(* Ready rows.                                                              *)

\* How many of its outputs a transcode has published.
Done(a) == IF pc[a] \in {"unjoinOK", "commit"} THEN OutputCount(a) ELSE step[a] - 1

\* What a row may say of the files of its item.  A segment count above one is one that
\* segments were cut for, and these are there, in some format: MarkReadyWithFormat leaves
\* it in place and writes another format beside it.  A ready row's format is that of some
\* file, and it is the audio file's unless the segment count is one that was cut for.
RowKept(i, r) ==
  /\ r.segs > 1 =>
       /\ r.segs \in cuts[i]
       /\ \E f \in Formats : \A k \in 0 .. r.segs - 1 : final[i][Segment(k, f)] # NoFile
  /\ r.status = "ready" =>
       /\ \E n \in Streamable(i) : n.ext = r.fmt
       /\ r.segs \in cuts[i] \/ final[i][Audio(r.fmt)] # NoFile

\* What a transcode has published stays, the joined file excepted.
OutputsKept(a) ==
  /\ \A k \in 1 .. Done(a) : Output(a, k) # Concat => final[item[a]][Output(a, k)] # NoFile
  /\ Segmented(a) /\ pc[a] \in {"unjoinOK", "commit"} => plan[a].segs \in cuts[item[a]]

KeptItem(i) ==
  /\ RowKept(i, row[i])
  /\ \A n \in Streamable(i) : n.kind = "segment" => cuts[i] # {}
  /\ \A a \in Actors : item[a] = i /\ pc[a] \in Busy => OutputsKept(a)

KeptInv == TypeInv /\ \A i \in Items : KeptItem(i)

LEMMA NamesDiffer ==
  /\ \A k, f : Segment(k, f) # Concat
  /\ \A f : Audio(f) # Concat
BY DEF Segment, Audio, Concat

LEMMA NamesInRow ==
  ASSUME NEW r \in Rows
  PROVE  /\ \A k \in 0 .. r.segs - 1, f \in Formats : Segment(k, f) \in FileNames
         /\ \A f \in Formats : Audio(f) \in FileNames
         /\ r.fmt \in Formats
<1>1. r.segs \in 1 .. MaxSegs /\ r.fmt \in Formats /\ MaxSegs \in Nat
  BY Constants DEF Rows
<1>2. \A k \in 0 .. r.segs - 1 : k \in 0 .. MaxSegs - 1
  BY <1>1
<1> QED BY <1>1, <1>2 DEF FileNames

\* The outputs of a transcode have names.
LEMMA OutputsNamed ==
  ASSUME TypeInv, NEW a \in Actors, pc[a] \in Busy
  PROVE  /\ step[a] \in 1 .. OutputCount(a) /\ OutputCount(a) \in 1 .. MaxSegs + 1 /\ MaxSegs \in Nat
         /\ \A k \in 1 .. OutputCount(a) : Output(a, k) \in FileNames
         /\ \A k \in 1 .. Done(a) : k \in 1 .. OutputCount(a)
         /\ Target(a) \in FileNames
<1>1. /\ step[a] \in 1 .. OutputCount(a) /\ OutputCount(a) \in 1 .. MaxSegs + 1 /\ MaxSegs \in Nat
      /\ plan[a] \in Plans
  BY Shapes, Constants DEF TypeInv, TypeOK, ActorOK
<1>2. \A k \in 1 .. OutputCount(a) : Output(a, k) \in FileNames
  BY <1>1, OutputType
<1>3. \A k \in 1 .. Done(a) : k \in 1 .. OutputCount(a)
  BY <1>1 DEF Done
<1> QED BY <1>1, <1>2, <1>3 DEF Target

\* Only the joined file is ever removed from the final paths.
LEMMA FinalKept ==
  ASSUME TypeInv, [Next]_vars, NEW i \in Items, NEW n \in FileNames, n # Concat,
         final[i][n] # NoFile
  PROVE  final'[i][n] # NoFile
<1>1. final \in [Items -> [FileNames -> Files \cup {NoFile}]]
  BY DEF TypeInv, TypeOK
<1>2. ASSUME NEW a \in Actors, TranscodeStep(a) PROVE final'[i][n] # NoFile
  <2>1. CASE RemoveConcat(a)
    BY <1>1, <2>1 DEF RemoveConcat
  <2>2. CASE WriteDone(a)
    BY <1>1, <2>2 DEF WriteDone
  <2>3. CASE UNCHANGED final
    BY <2>3
  <2> QED BY <1>2, <2>1, <2>2, <2>3 DEF TranscodeStep, MarkInProgress, OpenTmp, OpenFails,
          WriteFails, Split, SplitFails, MarkReady, MarkFailed, disk
<1>3. CASE Restart
  BY <1>1, <1>3 DEF Restart
<1>4. CASE AsideStep \/ \E p \in {"down", "panicked"} : Dies(p)
  BY <1>4 DEF AsideStep, Dies
<1> QED BY <1>2, <1>3, <1>4, StepKinds

\* A step of a transcode leaves every final path alone but the one it publishes,
\* and the joined file's.
LEMMA FinalSteps ==
  ASSUME TypeInv, NEW a \in Actors, TranscodeStep(a), NEW i \in Items, NEW n \in FileNames, n # Concat
  PROVE  \/ final'[i][n] = final[i][n]
         \/ /\ WriteDone(a) /\ i = item[a] /\ n = Target(a)
            /\ tmp[i][n] # NoFile /\ final'[i][n] = tmp[i][n]
<1>1. final \in [Items -> [FileNames -> Files \cup {NoFile}]]
  BY DEF TypeInv, TypeOK
<1>2. CASE RemoveConcat(a)
  BY <1>1, <1>2 DEF RemoveConcat
<1>3. CASE WriteDone(a)
  BY <1>1, <1>3 DEF WriteDone
<1>4. CASE UNCHANGED final
  BY <1>4
<1> QED BY <1>2, <1>3, <1>4 DEF TranscodeStep, MarkInProgress, OpenTmp, OpenFails,
        WriteFails, Split, SplitFails, MarkReady, MarkFailed, disk

\* What segments were cut for is not forgotten: a transcode adds to it by publishing one.
LEMMA CutsSteps ==
  ASSUME TypeInv, NEW a \in Actors, TranscodeStep(a), NEW i \in Items
  PROVE  cuts'[i] = IF /\ WriteDone(a) /\ tmp[item[a]][Target(a)] # NoFile
                       /\ i = item[a] /\ Target(a).kind = "segment"
                    THEN cuts[i] \cup {plan[a].segs} ELSE cuts[i]
<1>1. cuts \in [Items -> SUBSET (1 .. MaxSegs)] /\ (WriteDone(a) => pc[a] = "write")
  BY DEF TypeInv, TypeOK, WriteDone
<1>2. CASE WriteDone(a)
  BY <1>1, <1>2 DEF WriteDone
<1>3. CASE UNCHANGED cuts /\ pc[a] # "write"
  BY <1>1, <1>3
<1>4. CASE UNCHANGED cuts /\ WriteFails(a) /\ ~WriteDone(a)
  BY <1>4
<1>5. CASE WriteFails(a) /\ ~WriteDone(a)
  BY <1>4, <1>5 DEF WriteFails, aux
<1>6. CASE WriteFails(a) /\ WriteDone(a)
  BY <1>2, <1>6
<1> QED BY <1>2, <1>3, <1>5, <1>6 DEF TranscodeStep, MarkInProgress, OpenTmp, OpenFails,
        Split, SplitFails, RemoveConcat, MarkReady, MarkFailed, aux

LEMMA CutsGrow ==
  ASSUME TypeInv, [Next]_vars, NEW i \in Items
  PROVE  cuts[i] \subseteq cuts'[i]
<1>1. ASSUME NEW a \in Actors, TranscodeStep(a) PROVE cuts[i] \subseteq cuts'[i]
  BY <1>1, CutsSteps
<1>2. CASE Restart \/ AsideStep \/ \E p \in {"down", "panicked"} : Dies(p)
  BY <1>2 DEF Restart, AsideStep, Dies, aux
<1> QED BY <1>1, <1>2, StepKinds

\* What is so of a row stays so.
LEMMA RowKeptStays ==
  ASSUME TypeInv, [Next]_vars, NEW i \in Items, NEW r \in Rows, RowKept(i, r)
  PROVE  RowKept(i, r)'
<1>1. /\ \A n \in FileNames : n # Concat /\ final[i][n] # NoFile => final'[i][n] # NoFile
      /\ cuts[i] \subseteq cuts'[i]
  BY FinalKept, CutsGrow
<1>2. ASSUME NEW f \in Formats, \A k \in 0 .. r.segs - 1 : final[i][Segment(k, f)] # NoFile
      PROVE  \A k \in 0 .. r.segs - 1 : final'[i][Segment(k, f)] # NoFile
  BY <1>1, <1>2, NamesInRow, NamesDiffer
<1>3. final[i][Audio(r.fmt)] # NoFile => final'[i][Audio(r.fmt)] # NoFile
  BY <1>1, NamesInRow, NamesDiffer
<1>4. \A n \in Streamable(i) : n \in Streamable(i)'
  BY <1>1 DEF Streamable
<1> QED BY <1>1, <1>2, <1>3, <1>4 DEF RowKept

LEMMA RowKeptStatus ==
  ASSUME NEW i \in Items, NEW r \in Rows, RowKept(i, r), NEW s, s # "ready"
  PROVE  RowKept(i, [r EXCEPT !.status = s])
BY StatusSet DEF RowKept

LEMMA NoRowKept ==
  ASSUME NEW i \in Items
  PROVE  RowKept(i, NoRow)
BY DEF RowKept, NoRow

\* A transcode at work keeps what it has published, if it keeps its item and its plan.
LEMMA OutputsGrow ==
  ASSUME TypeInv, [Next]_vars, NEW b \in Actors, pc[b] \in Busy, OutputsKept(b),
         NEW k \in 1 .. Done(b), Output(b, k) # Concat
  PROVE  final'[item[b]][Output(b, k)] # NoFile
<1>1. item[b] \in Items
  BY DEF TypeInv, ActorOK
<1>2. Output(b, k) \in FileNames /\ final[item[b]][Output(b, k)] # NoFile
  BY OutputsNamed DEF OutputsKept
<1> QED BY <1>1, <1>2, FinalKept

LEMMA OutputsStay ==
  ASSUME TypeInv, [Next]_vars, NEW b \in Actors, pc[b] \in Busy, OutputsKept(b),
         item'[b] = item[b], plan'[b] = plan[b], Done(b)' = Done(b),
         pc'[b] \in {"unjoinOK", "commit"} => pc[b] \in {"unjoinOK", "commit"}
  PROVE  OutputsKept(b)'
<1>1. Segmented(b)' = Segmented(b) /\ \A k : Output(b, k)' = Output(b, k)
  BY SameOutputs
<1>2. cuts[item[b]] \subseteq cuts'[item[b]]
  BY CutsGrow DEF TypeInv, ActorOK
<1>3. \A k \in 1 .. Done(b) : Output(b, k) # Concat => final'[item[b]][Output(b, k)] # NoFile
  BY OutputsGrow
<1> QED BY <1>1, <1>2, <1>3 DEF OutputsKept

\* The next output of a transcode is published; the last one of a cut is a segment.
LEMMA OutputsNext ==
  ASSUME TypeInv, [Next]_vars, NEW a \in Actors, OutputsKept(a), TranscodeStep(a),
         WriteDone(a), tmp[item[a]][Target(a)] # NoFile
  PROVE  OutputsKept(a)' /\ Done(a)' = step[a]
<1> DEFINE i == item[a]
<1>1. /\ pc[a] = "write" /\ pc[a] \in Busy /\ item'[a] = i /\ plan'[a] = plan[a] /\ Proceed(a)
      /\ i \in Items /\ pc \in [Actors -> ActorPCs] /\ step \in [Actors -> 0 .. MaxSegs + 1]
      /\ final \in [Items -> [FileNames -> Files \cup {NoFile}]] /\ plan[a] \in Plans
  BY TranscodeMoves DEF WriteDone, TypeInv, TypeOK, Busy
<1>2. /\ step[a] \in 1 .. OutputCount(a) /\ OutputCount(a) \in 1 .. MaxSegs + 1 /\ MaxSegs \in Nat
      /\ Target(a) \in FileNames
  BY <1>1, OutputsNamed
<1>3. /\ OutputCount(a)' = OutputCount(a) /\ Segmented(a)' = Segmented(a)
      /\ \A k : Output(a, k)' = Output(a, k)
  BY <1>1, SameOutputs
<1>4. Done(a)' = step[a]
  <2>1. CASE step[a] < OutputCount(a)
    <3>1. pc'[a] \in {"open", "split"} /\ step'[a] = step[a] + 1
      BY <1>1, <2>1 DEF Proceed, Goto
    <3> QED BY <1>2, <3>1 DEF Done
  <2>2. CASE ~(step[a] < OutputCount(a))
    <3>1. pc'[a] \in {"unjoinOK", "commit"}
      BY <1>1, <2>2 DEF Proceed, Goto
    <3> QED BY <1>2, <1>3, <2>2, <3>1 DEF Done
  <2> QED BY <2>1, <2>2
<1>5. ASSUME NEW k \in 1 .. step[a], Output(a, k) # Concat PROVE final'[i][Output(a, k)] # NoFile
  <2>1. CASE k = step[a]
    <3>1. final' = [final EXCEPT ![i][Target(a)] = tmp[i][Target(a)]]
      BY DEF WriteDone
    <3> QED BY <1>1, <1>2, <2>1, <3>1 DEF Target
  <2>2. CASE k # step[a]
    <3>1. k \in 1 .. Done(a)
      BY <1>1, <1>2, <2>2 DEF Done
    <3> QED BY <1>1, <1>5, <3>1, OutputsGrow
  <2> QED BY <2>1, <2>2
<1>6. ASSUME Segmented(a), pc'[a] \in {"unjoinOK", "commit"} PROVE plan[a].segs \in cuts'[i]
  <2>1. step[a] = OutputCount(a)
    BY <1>1, <1>2, <1>6 DEF Proceed, Goto
  <2>2. Joins(a) => step[a] # 1
    BY <1>1, <2>1, Shapes
  <2>3. Target(a).kind = "segment"
    BY <1>6, <2>2 DEF Target, Output, Segment
  <2> QED BY <1>1, <2>3, CutsSteps
<1> QED BY <1>1, <1>3, <1>4, <1>5, <1>6 DEF OutputsKept

\* The transcode that takes a step.
LEMMA OutputsOwn ==
  ASSUME TypeInv, [Next]_vars, NEW a \in Actors, TranscodeStep(a), pc'[a] \in Busy,
         pc[a] \in Busy => OutputsKept(a)
  PROVE  OutputsKept(a)'
<1>1. /\ item'[a] = item[a] /\ pc \in [Actors -> ActorPCs] /\ step \in [Actors -> 0 .. MaxSegs + 1]
  BY TranscodeMoves DEF TypeInv, TypeOK
<1>2. ASSUME pc[a] \in Busy, plan'[a] = plan[a], Done(a)' = Done(a),
             pc'[a] \in {"unjoinOK", "commit"} => pc[a] \in {"unjoinOK", "commit"}
      PROVE  OutputsKept(a)'
  BY <1>1, <1>2, OutputsStay
<1>3. CASE MarkInProgress(a)
  <2>1. pc'[a] = "open" /\ step'[a] = 1
    BY <1>1, <1>3 DEF MarkInProgress, Begin, Goto
  <2> QED BY <2>1 DEF OutputsKept, Done
<1>4. CASE OpenTmp(a)
  <2>1. pc[a] = "open" /\ pc'[a] = "write" /\ step'[a] = step[a] /\ plan' = plan
    BY <1>1, <1>4 DEF OpenTmp, Goto
  <2> QED BY <1>2, <2>1 DEF Done, Busy
<1>5. ASSUME pc[a] \in {"open", "write"}, pc' = [pc EXCEPT ![a] = AfterFailure(a)], UNCHANGED <<step, plan>>
      PROVE  OutputsKept(a)'
  <2>1. pc'[a] \in {"unjoinFail", "failing"} /\ step'[a] = step[a]
    BY <1>1, <1>5 DEF AfterFailure
  <2> QED BY <1>2, <1>5, <2>1 DEF Done, Busy
<1>6. CASE OpenFails(a) \/ WriteFails(a)
  BY <1>5, <1>6 DEF OpenFails, WriteFails, Goto
<1>7. CASE WriteDone(a)
  <2>1. CASE tmp[item[a]][Target(a)] = NoFile
    BY <1>5, <1>7, <2>1 DEF WriteDone, Goto
  <2> QED BY <1>7, <2>1, OutputsNext DEF WriteDone, Busy
\* The first output, the only one there is, is the joined file.
<1>8. CASE Split(a)
  <2>1. pc[a] = "split" /\ pc'[a] = "open" /\ step'[a] = 2 /\ Segmented(a)' /\ Joins(a)'
    <3>1. pc[a] = "split" /\ pc'[a] = "open" /\ pc[a] \in Busy
      BY <1>1, <1>8 DEF Split, Goto, Busy
    <3>2. ActorOK(a) /\ step'[a] = step[a] /\ pc'[a] \in Busy
      BY <1>8 DEF TypeInv, Split
    <3>3. Joins(a) /\ Segmented(a) /\ step[a] = 2
      BY <3>1, <3>2 DEF ActorOK, Joins
    <3>4. (Joins(a)' <=> Joins(a)) /\ (Segmented(a)' <=> Segmented(a))
      <4>1. CASE Joins(a)' = Joins(a) /\ Segmented(a)' = Segmented(a)
        BY <4>1
      <4> QED BY <3>1, <3>2, <3>3, <4>1, PlanKept
    <3> QED BY <3>1, <3>2, <3>3, <3>4
  <2>2. Done(a)' = 1
    BY <2>1 DEF Done
  <2>3. Output(a, 1)' = Concat
    BY <2>1 DEF Output
  <2> QED BY <2>1, <2>2, <2>3 DEF OutputsKept
<1>9. CASE SplitFails(a)
  <2>1. pc[a] = "split" /\ pc'[a] \in {"unjoinFail", "failing"} /\ step'[a] = step[a] /\ plan' = plan
    BY <1>1, <1>9 DEF SplitFails, Goto
  <2> QED BY <1>2, <2>1 DEF Done, Busy
<1>10. CASE RemoveConcat(a)
  <2>1. plan' = plan /\ step' = step
    BY <1>10 DEF RemoveConcat
  <2>2. CASE pc[a] = "unjoinOK"
    <3>1. pc'[a] = "commit"
      BY <1>1, <1>10, <2>2 DEF RemoveConcat, Goto
    <3>2. OutputCount(a)' = OutputCount(a)
      BY <1>1, <2>1, SameOutputs
    <3> QED BY <1>2, <2>1, <2>2, <3>1, <3>2 DEF Done, Busy
  <2>3. CASE pc[a] = "unjoinFail"
    <3>1. pc'[a] = "failing"
      BY <1>1, <1>10, <2>3 DEF RemoveConcat, Goto
    <3> QED BY <1>2, <2>1, <2>3, <3>1 DEF Done, Busy
  <2> QED BY <1>10, <2>2, <2>3 DEF RemoveConcat
<1>11. CASE MarkReady(a) \/ MarkFailed(a)
  BY <1>1, <1>11 DEF MarkReady, MarkFailed, Finish, Goto, Busy
<1> QED BY <1>3, <1>4, <1>6, <1>7, <1>8, <1>9, <1>10, <1>11 DEF TranscodeStep

\* A transcode that is done has published what its plan names.
LEMMA DonePublished ==
  ASSUME TypeInv, NEW a \in Actors, pc[a] = "commit", OutputsKept(a)
  PROVE  /\ Segmented(a) =>
              /\ plan[a].segs \in cuts[item[a]]
              /\ \A k \in 0 .. plan[a].segs - 1 : final[item[a]][Segment(k, plan[a].fmt)] # NoFile
         /\ ~Segmented(a) => final[item[a]][Audio(plan[a].fmt)] # NoFile
<1> DEFINE f == plan[a].fmt
           n == plan[a].segs
<1>1. /\ Done(a) = OutputCount(a) /\ plan[a] \in Plans /\ n \in 1 .. MaxSegs /\ MaxSegs \in Nat
      /\ OutputCount(a) \in Nat
  BY Shapes, Constants DEF TypeInv, TypeOK, Done
<1>2. \A k \in 1 .. OutputCount(a) : Output(a, k) # Concat => final[item[a]][Output(a, k)] # NoFile
  BY <1>1 DEF OutputsKept
<1>3. ASSUME Segmented(a), NEW k \in 0 .. n - 1 PROVE final[item[a]][Segment(k, f)] # NoFile
  <2>1. CASE Joins(a)
    <3>1. k + 2 \in 1 .. OutputCount(a)
      BY <1>1, <2>1 DEF OutputCount
    <3>2. Output(a, k + 2) = Segment(k, f)
      <4>1. k + 2 # 1 /\ (k + 2) - 2 = k
        BY <1>1
      <4> QED BY <1>3, <2>1, <4>1 DEF Output
    <3> QED BY <1>2, <3>1, <3>2, NamesDiffer
  <2>2. CASE ~Joins(a)
    <3>1. k + 1 \in 1 .. OutputCount(a)
      BY <1>1, <2>2 DEF OutputCount
    <3>2. Output(a, k + 1) = Segment(k, f)
      <4>1. (k + 1) - 1 = k
        BY <1>1
      <4> QED BY <1>3, <2>2, <4>1 DEF Output
    <3> QED BY <1>2, <3>1, <3>2, NamesDiffer
  <2> QED BY <2>1, <2>2
<1>4. ASSUME ~Segmented(a) PROVE final[item[a]][Audio(f)] # NoFile
  <2>1. 1 \in 1 .. OutputCount(a) /\ Output(a, 1) = Audio(f)
    BY <1>1, <1>4, Shapes DEF Output
  <2> QED BY <1>2, <2>1, NamesDiffer
<1> QED BY <1>3, <1>4 DEF OutputsKept

\* MarkReady says of the row what its transcode has published, and leaves the segment
\* count of an earlier one.
LEMMA RowReady ==
  ASSUME TypeInv, TypeInv', NEW i \in Items, RowKept(i, row[i]),
         NEW a \in Actors, item[a] = i, MarkReady(a), OutputsKept(a), row[i].status # "none"
  PROVE  RowKept(i, row[i])'
<1> DEFINE f == plan[a].fmt
           n == plan[a].segs
<1>1. /\ row \in [Items -> Rows] /\ row[i] \in Rows /\ row'[i] \in Rows
      /\ pc[a] = "commit" /\ UNCHANGED <<final, cuts>>
  BY DEF TypeInv, TypeOK, MarkReady, disk, aux
<1>2. n \in 1 .. MaxSegs /\ MaxSegs \in Nat /\ f \in Formats
  BY Shapes, Constants DEF TypeInv, TypeOK
<1>3. UNCHANGED Streamable(i)
  BY <1>1 DEF Streamable
<1>4. CASE Segmented(a)
  <2>1. row'[i] = [status |-> "ready", segs |-> n, fmt |-> f]
    BY <1>1, <1>4 DEF MarkReady
  <2>2. n \in cuts[i] /\ \A k \in 0 .. n - 1 : final[i][Segment(k, f)] # NoFile
    BY <1>1, <1>4, DonePublished
  <2> HIDE DEF n, f
  <2>3. row'[i].segs = n /\ row'[i].fmt = f
    BY <2>1
  <2>4. Segment(0, f) \in Streamable(i) /\ Segment(0, f).ext = f
    <3>1. 0 \in 0 .. n - 1
      BY <1>2
    <3>2. Segment(0, f) \in FileNames
      BY <1>1, <1>2, <2>3, <3>1, NamesInRow
    <3> QED BY <2>2, <3>1, <3>2, NamesDiffer DEF Streamable, Segment
  <2> QED BY <1>1, <1>2, <1>3, <2>2, <2>3, <2>4 DEF RowKept
<1>5. CASE ~Segmented(a)
  <2>1. row'[i] = [row[i] EXCEPT !.status = "ready", !.fmt = f]
    BY <1>1, <1>5 DEF MarkReady
  <2>2. row'[i].segs = row[i].segs /\ row'[i].fmt = f
    BY <1>1, <2>1 DEF Rows
  <2>3. final[i][Audio(f)] # NoFile
    BY <1>1, <1>5, DonePublished
  <2> HIDE DEF f
  <2>4. Audio(f) \in Streamable(i) /\ Audio(f).ext = f
    BY <1>1, <1>2, <2>3, NamesInRow, NamesDiffer DEF Streamable, Audio
  <2> QED BY <1>1, <1>3, <2>2, <2>3, <2>4 DEF RowKept
<1> QED BY <1>4, <1>5

\* A row that is left as it is, or re-created, or says something else than ready.
LEMMA RowOther ==
  ASSUME TypeInv, [Next]_vars, NEW i \in Items, RowKept(i, row[i]),
         \/ row'[i] = row[i]
         \/ row'[i] = NoRow
         \/ \E s \in Statuses \ {"ready"} : row'[i] = [row[i] EXCEPT !.status = s]
  PROVE  RowKept(i, row[i])'
<1>1. row[i] \in Rows /\ NoRow \in Rows
  BY Constants DEF TypeInv, TypeOK
<1> DEFINE Kept(r) == RowKept(i, r)'
<1>2. \A r \in Rows : RowKept(i, r) => Kept(r)
  BY RowKeptStays
<1>3. \A s \in Statuses : [row[i] EXCEPT !.status = s] \in Rows
  BY <1>1 DEF Rows
<1>4. RowKept(i, NoRow) /\ \A s \in Statuses \ {"ready"} : RowKept(i, [row[i] EXCEPT !.status = s])
  BY <1>1, NoRowKept, RowKeptStatus
<1>5. \A r : r = row'[i] => (Kept(r) <=> RowKept(i, row[i])')
  BY DEF RowKept
<1> HIDE DEF Kept
<1> QED BY <1>1, <1>2, <1>3, <1>4, <1>5

LEMMA SegmentsRecorded ==
  ASSUME TypeInv, [Next]_vars, NEW i \in Items,
         \A n \in Streamable(i) : n.kind = "segment" => cuts[i] # {},
         NEW n \in Streamable(i)', n.kind = "segment"
  PROVE  cuts'[i] # {}
<1>1. n \in FileNames /\ n # Concat /\ final'[i][n] # NoFile
  BY DEF Streamable
<1>2. ASSUME final[i][n] # NoFile PROVE cuts'[i] # {}
  BY <1>1, <1>2, CutsGrow DEF Streamable
<1>3. ASSUME NEW a \in Actors, TranscodeStep(a) PROVE cuts'[i] # {}
  <2>1. CASE final'[i][n] = final[i][n]
    BY <1>1, <1>2, <2>1
  <2>2. CASE WriteDone(a) /\ i = item[a] /\ n = Target(a) /\ tmp[i][n] # NoFile
    BY <1>3, <2>2, CutsSteps
  <2> QED BY <1>1, <1>3, <2>1, <2>2, FinalSteps
<1>4. CASE Restart \/ AsideStep \/ \E p \in {"down", "panicked"} : Dies(p)
  <2>1. final \in [Items -> [FileNames -> Files \cup {NoFile}]]
    BY DEF TypeInv, TypeOK
  <2> QED BY <1>1, <1>2, <1>4, <2>1 DEF Restart, AsideStep, Dies
<1> QED BY <1>3, <1>4, StepKinds

LEMMA KeptStep == KeptInv /\ [Next]_vars => KeptInv'
<1> SUFFICES ASSUME KeptInv, [Next]_vars PROVE KeptInv'
  OBVIOUS
<1> SUFFICES ASSUME NEW i \in Items PROVE KeptItem(i)'
  BY NextTypeInv DEF KeptInv
<1>1. /\ TypeInv /\ TypeInv' /\ KeptItem(i) /\ row \in [Items -> Rows]
      /\ \A b \in Actors : item[b] = i /\ pc[b] \in Busy => OutputsKept(b)
      /\ RowKept(i, row[i])
  BY NextTypeInv DEF KeptInv, KeptItem, TypeInv, TypeOK
<1>2. \A n \in Streamable(i)' : n.kind = "segment" => cuts'[i] # {}
  BY <1>1, SegmentsRecorded DEF KeptItem
<1>3. ASSUME RowKept(i, row[i])',
             \A b \in Actors : item'[b] = i /\ pc'[b] \in Busy => OutputsKept(b)'
      PROVE  KeptItem(i)'
  BY <1>2, <1>3 DEF KeptItem
\* A goroutine that a step leaves where it was.
<1>4. ASSUME NEW b \in Actors, item'[b] = i, pc'[b] \in Busy,
             pc'[b] = pc[b], item'[b] = item[b], step'[b] = step[b], plan'[b] = plan[b]
      PROVE  OutputsKept(b)'
  <2>1. Done(b)' = Done(b)
    BY <1>4, SameOutputs DEF Done
  <2> QED BY <1>1, <1>4, <2>1, OutputsStay
<1>5. ASSUME NEW a \in Actors, TranscodeStep(a) PROVE KeptItem(i)'
  <2>1. RowKept(i, row[i])'
    <3>1. CASE i # item[a]
      BY <1>1, <1>5, <3>1, TranscodeStatus, RowOther
    <3>2. CASE i = item[a] /\ MarkReady(a) /\ row[i].status # "none"
      BY <1>1, <3>2, RowReady DEF MarkReady, Busy
    <3>3. CASE i = item[a] /\ MarkReady(a) /\ row[i].status = "none"
      BY <1>1, <3>3, RowOther DEF MarkReady
    <3>4. CASE i = item[a] /\ (MarkInProgress(a) \/ MarkFailed(a))
      <4>1. PICK s \in {"in_progress", "failed"} : SetStatus(i, s)
        BY <3>4 DEF MarkInProgress, MarkFailed
      <4>2. s \in Statuses \ {"ready"}
        BY DEF Statuses
      <4>3. row'[i] = row[i] \/ row'[i] = [row[i] EXCEPT !.status = s]
        BY <1>1, <4>1 DEF SetStatus
      <4> QED BY <1>1, <4>2, <4>3, RowOther
    <3>5. CASE UNCHANGED row
      BY <1>1, <3>5, RowOther
    <3> QED BY <1>5, <3>1, <3>2, <3>3, <3>4, <3>5
            DEF TranscodeStep, OpenTmp, OpenFails, WriteDone, WriteFails, Split, SplitFails, RemoveConcat
  <2>2. ASSUME NEW b \in Actors, item'[b] = i, pc'[b] \in Busy PROVE OutputsKept(b)'
    <3>1. CASE b = a
      BY <1>1, <1>5, <2>2, <3>1, TranscodeMoves, OutputsOwn
    <3>2. CASE b # a
      BY <1>1, <1>4, <1>5, <2>2, <3>2, TranscodeMoves
    <3> QED BY <3>1, <3>2
  <2> QED BY <1>3, <2>1, <2>2
<1>6. ASSUME NEW p \in {"down", "panicked"}, Dies(p) PROVE KeptItem(i)'
  <2>1. RowKept(i, row[i])'
    BY <1>1, <1>6, RowOther DEF Dies
  <2> QED BY <1>3, <1>6, <2>1 DEF Dies, Busy
<1>7. ASSUME Restart PROVE KeptItem(i)'
  <2>1. row'[i] = row[i] \/ row'[i] = [row[i] EXCEPT !.status = "pending"]
    BY <1>7 DEF Restart
  <2>2. RowKept(i, row[i])'
    BY <1>1, <2>1, RowOther DEF Statuses
  <2>3. \A b \in Actors : pc'[b] = "idle"
    BY <1>1, <1>7 DEF Restart, procs, TypeInv, ActorOK, Running
  <2> QED BY <1>3, <2>2, <2>3 DEF Busy
<1>8. ASSUME AsideStep PROVE KeptItem(i)'
  <2>1. \/ row'[i] = row[i] \/ row'[i] = NoRow
        \/ row'[i] = [row[i] EXCEPT !.status = "pending"]
    BY <1>8 DEF AsideStep, RowsAside
  <2>2. RowKept(i, row[i])'
    BY <1>1, <2>1, RowOther DEF Statuses
  <2>3. \A b \in Actors : item'[b] = i /\ pc'[b] \in Busy => OutputsKept(b)'
    BY <1>4, <1>8 DEF AsideStep
  <2> QED BY <1>3, <2>2, <2>3
<1> QED BY <1>1, <1>5, <1>6, <1>7, <1>8, StepKinds

LEMMA InitKept == Init => KeptInv
<1>1. ASSUME Init, NEW i \in Items PROVE KeptItem(i)
  <2>1. /\ row[i] = NoRow /\ \A a \in Actors : pc[a] = "idle"
        /\ Streamable(i) = {}
    BY <1>1 DEF Init, Streamable
  <2> QED BY <2>1, NoRowKept DEF KeptItem, Busy
<1> QED BY <1>1, InitTypeInv DEF KeptInv

\* The one format of an item's files is a ready row's, and so its files are there.
LEMMA KeptPlays ==
  ASSUME NEW i \in Items, NEW r \in Rows, RowKept(i, r), r.status = "ready",
         OneFormat(i), 1 \notin cuts[i]
  PROVE  \A n \in RowFiles(r) : final[i][n] # NoFile
<1>1. r.segs \in 1 .. MaxSegs /\ MaxSegs \in Nat
  BY Constants DEF Rows
<1>2. CASE r.segs > 1
  <2>1. PICK f \in Formats : \A k \in 0 .. r.segs - 1 : final[i][Segment(k, f)] # NoFile
    BY <1>2 DEF RowKept
  <2>2. PICK n \in Streamable(i) : n.ext = r.fmt
    BY DEF RowKept
  <2>3. Segment(0, f) \in Streamable(i) /\ Segment(0, f).ext = f
    <3>1. 0 \in 0 .. r.segs - 1
      BY <1>1
    <3>2. Segment(0, f) \in FileNames
      BY <3>1, NamesInRow
    <3> QED BY <2>1, <3>1, <3>2, NamesDiffer DEF Streamable, Segment
  <2>4. f = r.fmt
    BY <2>2, <2>3 DEF OneFormat
  <2> QED BY <1>2, <2>1, <2>4 DEF RowFiles
<1>3. CASE ~(r.segs > 1)
  <2>1. r.segs = 1
    BY <1>1, <1>3
  <2> QED BY <1>3, <2>1 DEF RowKept, RowFiles
<1> QED BY <1>2, <1>3

\* A ready row names files that exist, unless its attempts came out in two formats or cut
\* a joined file into one segment: MarkReady comes after the renames, and what
\* MarkReadyWithFormat leaves in the row still names files of an earlier transcode.
THEOREM ReadyPlays == Spec => []ReadyIsPlayable
<1>1. Spec => []KeptInv
  BY InitKept, KeptStep, PTL DEF Spec
<1>2. KeptInv => ReadyIsPlayable
  <2> SUFFICES ASSUME KeptInv, NEW i \in Items, OneFormat(i), 1 \notin cuts[i], row[i].status = "ready"
               PROVE  \A n \in RowFiles(row[i]) : final[i][n] # NoFile
    BY DEF ReadyIsPlayable
  <2>1. row[i] \in Rows /\ RowKept(i, row[i])
    BY DEF KeptInv, KeptItem, TypeInv, TypeOK
  <2> QED BY <2>1, KeptPlays
<1> QED BY <1>1, <1>2, PTL

-----------------------------------------------------------------------------
(* One source.                                                              *)

\* Segments are made only from a source that is cut, and what is cut is long enough.
Cut(i, s) == Segs[i][s] > 1

SegmentsAreCut ==
  /\ \A i \in Items : \A n \in FileNames : n.kind = "segment" =>
       /\ final[i][n] # NoFile => Cut(i, final[i][n].src)
       /\ tmp[i][n] # NoFile => Cut(i, tmp[i][n].src)
  /\ \A a \in Actors : pc[a] \in Busy /\ Segmented(a) => Cut(item[a], Src(a))

\* The item has come out in a way that tells its sources apart.
Told(i) ==
  \/ \E s \in Sources : Segs[i][s] = 1
  \/ \A f \in Formats : final[i][Audio(f)] = NoFile

OneSource(i) ==
  \E s \in Sources : \A n \in RowFiles(row[i]) : final[i][n] # NoFile => final[i][n].src = s

\* What a transcode writes and has published is of its own source.
OwnFiles(a) ==
  /\ pc[a] = "write" => tmp[item[a]][Target(a)].src = Src(a)
  /\ \A k \in 1 .. Done(a) : Output(a, k) # Concat => final[item[a]][Output(a, k)].src = Src(a)

\* A row is not ready while somebody is at work on the item: who begins says so, and
\* without overlap nobody else is there to say otherwise.
SourceItem(i) ==
  /\ row[i].status = "ready" =>
       /\ Told(i) => OneSource(i)
       /\ \A a \in Actors : item[a] = i => pc[a] \notin Busy
  /\ \A a \in Actors : item[a] = i /\ pc[a] \in Busy => OwnFiles(a)

SourceInv ==
  /\ WholeInv /\ KeptInv /\ SegmentsAreCut
  /\ \A i \in Items \ overlapped : SourceItem(i)

LEMMA OutputKind ==
  ASSUME NEW a \in Actors, NEW k, Output(a, k).kind = "segment"
  PROVE  Segmented(a)
BY DEF Output, Audio

LEMMA CutActors ==
  ASSUME TypeInv, SegmentsAreCut, [Next]_vars, NEW b \in Actors, pc'[b] \in Busy, Segmented(b)'
  PROVE  Cut(item[b], Src(b)) /\ item'[b] = item[b]
<1>1. ASSUME pc[b] \in Busy, item'[b] = item[b], Segmented(b)' <=> Segmented(b)
      PROVE  Cut(item[b], Src(b)) /\ item'[b] = item[b]
  BY <1>1 DEF SegmentsAreCut
<1>2. ASSUME NEW a \in Actors, TranscodeStep(a) PROVE Cut(item[b], Src(b)) /\ item'[b] = item[b]
  <2>1. CASE a # b
    <3>1. pc[b] \in Busy /\ item'[b] = item[b] /\ plan'[b] = plan[b]
      BY <1>2, <2>1, TranscodeMoves
    <3> QED BY <1>1, <3>1 DEF Segmented
  <2>2. CASE a = b /\ pc[a] \in Busy
    <3>1. item'[b] = item[b] /\ (Segmented(b)' <=> Segmented(b))
      <4>1. item'[b] = item[b]
        BY <1>2, <2>2, TranscodeMoves
      <4>2. CASE Segmented(b)' = Segmented(b)
        BY <4>1, <4>2
      <4> QED BY <1>2, <2>2, <4>1, <4>2, PlanKept
    <3> QED BY <1>1, <2>2, <3>1
  <2>3. CASE a = b /\ pc[a] \notin Busy
    <3>1. MarkInProgress(a) /\ item[a] \in Items /\ plan \in [Actors -> Plans] /\ Src(a) \in Sources
      BY <1>2, <2>3, TranscodeMoves, Shapes
         DEF TranscodeStep, OpenTmp, OpenFails, WriteDone, WriteFails, Split, SplitFails,
             RemoveConcat, MarkReady, MarkFailed, Busy, TypeInv, TypeOK
    <3>2. PICK p \in Decided(item[a], Src(a)) : plan' = [plan EXCEPT ![a] = p]
      BY <3>1 DEF MarkInProgress, Begin
    <3>3. p.cut
      BY <2>3, <3>1, <3>2 DEF Segmented
    <3> QED BY <2>3, <3>1, <3>3, DecidedType DEF Cut, MarkInProgress
  <2> QED BY <2>1, <2>2, <2>3
<1>3. CASE Restart
  BY <1>1, <1>3 DEF Restart, procs, Segmented
<1>4. CASE AsideStep
  BY <1>1, <1>4 DEF AsideStep, Segmented
<1>5. CASE \E p \in {"down", "panicked"} : Dies(p)
  BY <1>5 DEF Dies, Busy
<1> QED BY <1>2, <1>3, <1>4, <1>5, StepKinds

LEMMA CutFiles ==
  ASSUME TypeInv, SegmentsAreCut, [Next]_vars,
         NEW i \in Items, NEW n \in FileNames, n.kind = "segment"
  PROVE  /\ final'[i][n] # NoFile => Cut(i, final'[i][n].src)
         /\ tmp'[i][n] # NoFile => Cut(i, tmp'[i][n].src)
<1>1. /\ tmp \in [Items -> [FileNames -> Files \cup {NoFile}]]
      /\ final \in [Items -> [FileNames -> Files \cup {NoFile}]]
      /\ n # Concat
  BY DEF TypeInv, TypeOK, Concat
<1>2. ASSUME NEW a \in Actors, TranscodeStep(a)
      PROVE  /\ final'[i][n] # NoFile => Cut(i, final'[i][n].src)
             /\ tmp'[i][n] # NoFile => Cut(i, tmp'[i][n].src)
  <2>1. final'[i][n] # NoFile => Cut(i, final'[i][n].src)
    BY <1>1, <1>2, FinalSteps DEF SegmentsAreCut
  <2>2. tmp'[i][n] # NoFile => Cut(i, tmp'[i][n].src)
    <3>1. CASE OpenTmp(a)
      <4>1. tmp'[i][n] = tmp[i][n] \/ (i = item[a] /\ n = Target(a) /\ tmp'[i][n].src = Src(a))
        BY <1>1, <3>1 DEF OpenTmp
      <4>2. pc[a] \in Busy /\ (n = Target(a) => Segmented(a))
        BY <3>1, OutputKind DEF Target, OpenTmp, Busy
      <4> QED BY <4>1, <4>2 DEF SegmentsAreCut
    <3>2. CASE RemoveTmp(a, Target(a)) \/ RenameTmp(a, Target(a))
      <4>1. item[a] \in Items
        BY <1>2, TranscodeMoves
      <4> QED BY <3>2, <4>1, TmpMoved DEF SegmentsAreCut
    <3>3. CASE UNCHANGED tmp
      BY <3>3 DEF SegmentsAreCut
    <3> QED BY <1>2, <3>1, <3>2, <3>3, TmpSteps
  <2> QED BY <2>1, <2>2
<1>3. CASE Restart
  BY <1>1, <1>3 DEF Restart, SegmentsAreCut
<1>4. CASE AsideStep \/ \E p \in {"down", "panicked"} : Dies(p)
  BY <1>4 DEF AsideStep, Dies, SegmentsAreCut
<1> QED BY <1>2, <1>3, <1>4, StepKinds

LEMMA CutStep == TypeInv /\ SegmentsAreCut /\ [Next]_vars => SegmentsAreCut'
<1> SUFFICES ASSUME TypeInv, SegmentsAreCut, [Next]_vars PROVE SegmentsAreCut'
  OBVIOUS
<1>1. \A i \in Items : \A n \in FileNames : n.kind = "segment" =>
        /\ final'[i][n] # NoFile => Cut(i, final'[i][n].src)
        /\ tmp'[i][n] # NoFile => Cut(i, tmp'[i][n].src)
  BY CutFiles
<1>2. \A a \in Actors : pc'[a] \in Busy /\ Segmented(a)' => Cut(item'[a], Src(a))
  BY CutActors
<1>3. \A a \in Actors : Src(a)' = Src(a)
  BY DEF Src
<1> QED BY <1>1, <1>2, <1>3 DEF SegmentsAreCut, Cut

\* The files of a row are audio and segments, and have names.
LEMMA RowFilesNamed ==
  ASSUME NEW r \in Rows, NEW n \in RowFiles(r)
  PROVE  n \in FileNames /\ n # Concat
BY NamesInRow, NamesDiffer DEF RowFiles

\* An item whose rows, files and transcodes a step leaves alone.
LEMMA SourceFrame ==
  ASSUME TypeInv, NEW i \in Items, SourceItem(i),
         row'[i].status = "ready" => row'[i] = row[i],
         \A n \in FileNames : n # Concat => final'[i][n] = final[i][n],
         \A b \in Actors : item'[b] = i /\ pc'[b] \in Busy =>
           /\ pc'[b] = pc[b] /\ item'[b] = item[b] /\ step'[b] = step[b] /\ plan'[b] = plan[b]
           /\ tmp'[i] = tmp[i]
  PROVE  SourceItem(i)'
<1>1. row[i] \in Rows
  BY DEF TypeInv, TypeOK
<1>2. ASSUME row'[i].status = "ready", Told(i)' PROVE OneSource(i)'
  <2>0. \A f \in Formats : Audio(f) \in FileNames /\ Audio(f) # Concat
    BY <1>1, NamesInRow, NamesDiffer
  <2>1. row'[i] = row[i] /\ OneSource(i)
    BY <1>2, <2>0 DEF SourceItem, Told
  <2>2. \A n \in RowFiles(row[i]) : final'[i][n] = final[i][n]
    BY <1>1, RowFilesNamed
  <2> QED BY <2>1, <2>2 DEF OneSource
<1>3. ASSUME row'[i].status = "ready", NEW a \in Actors, item'[a] = i PROVE pc'[a] \notin Busy
  BY <1>3 DEF SourceItem
<1>4. ASSUME NEW a \in Actors, item'[a] = i, pc'[a] \in Busy PROVE OwnFiles(a)'
  <2>1. /\ pc'[a] = pc[a] /\ item'[a] = item[a] /\ step'[a] = step[a] /\ plan'[a] = plan[a]
        /\ tmp'[i] = tmp[i]
        /\ item[a] = i /\ OwnFiles(a)
    BY <1>4 DEF SourceItem
  <2>2. /\ Done(a)' = Done(a) /\ Target(a)' = Target(a) /\ Src(a)' = Src(a)
        /\ \A k : Output(a, k)' = Output(a, k)
    BY <2>1, SameOutputs DEF Done, Src
  <2>3. \A k \in 1 .. Done(a) : Output(a, k) \in FileNames
    BY <1>4, <2>1, OutputsNamed
  <2> QED BY <2>1, <2>2, <2>3 DEF OwnFiles
<1> QED BY <1>2, <1>3, <1>4 DEF SourceItem

\* MarkReady names what its transcode has published; a segment count it leaves in
\* place is of the one source that is cut, if there is one, and so are the segments.
LEMMA SourceReady ==
  ASSUME TypeInv, TypeInv', SegmentsAreCut, NEW i \in Items, Told(i),
         NEW a \in Actors, item[a] = i, MarkReady(a), row'[i].status = "ready",
         row[i].status # "none", OwnFiles(a), OutputsKept(a)
  PROVE  OneSource(i)'
<1> DEFINE f == plan[a].fmt
           n == plan[a].segs
<1>1. /\ row \in [Items -> Rows] /\ row[i] \in Rows /\ row'[i] \in Rows
      /\ pc[a] = "commit" /\ Done(a) = OutputCount(a) /\ final' = final /\ plan[a] \in Plans
      /\ final \in [Items -> [FileNames -> Files \cup {NoFile}]]
  BY DEF TypeInv, TypeOK, MarkReady, Done, disk
<1>2. /\ n \in 1 .. MaxSegs /\ MaxSegs \in Nat /\ OutputCount(a) \in Nat /\ Src(a) \in Sources
      /\ f \in Formats
  BY <1>1, Shapes, Constants
<1>3. \A k \in 1 .. OutputCount(a) : Output(a, k) # Concat => final[i][Output(a, k)].src = Src(a)
  BY <1>1 DEF OwnFiles
\* A row that names one file names one of one source.
<1>4. CASE row'[i].segs = 1
  <2>1. RowFiles(row'[i]) = {Audio(row'[i].fmt)} /\ Audio(row'[i].fmt) \in FileNames
    BY <1>1, <1>4, NamesInRow DEF RowFiles
  <2>2. CASE final[i][Audio(row'[i].fmt)] = NoFile
    BY <1>1, <1>2, <2>1, <2>2 DEF OneSource
  <2>3. CASE final[i][Audio(row'[i].fmt)] # NoFile
    <3>1. final[i][Audio(row'[i].fmt)].src \in Sources
      BY <1>1, <2>1, <2>3 DEF Files
    <3> QED BY <1>1, <2>1, <3>1 DEF OneSource
  <2> QED BY <2>2, <2>3
<1>5. CASE Segmented(a) /\ row'[i].segs # 1
  <2>1. row'[i] = [status |-> "ready", segs |-> n, fmt |-> f]
    BY <1>1, <1>5 DEF MarkReady
  <2>2. ASSUME NEW k \in 0 .. n - 1 PROVE final[i][Segment(k, f)].src = Src(a)
    <3>1. CASE Joins(a)
      <4>1. k + 2 \in 1 .. OutputCount(a)
        BY <1>2, <3>1 DEF OutputCount
      <4>2. Output(a, k + 2) = Segment(k, f)
        <5>1. k + 2 # 1 /\ (k + 2) - 2 = k
          BY <1>2
        <5> QED BY <1>5, <3>1, <5>1 DEF Output
      <4> QED BY <1>3, <4>1, <4>2, NamesDiffer
    <3>2. CASE ~Joins(a)
      <4>1. k + 1 \in 1 .. OutputCount(a)
        BY <1>2, <3>2 DEF OutputCount
      <4>2. Output(a, k + 1) = Segment(k, f)
        <5>1. (k + 1) - 1 = k
          BY <1>2
        <5> QED BY <1>5, <3>2, <5>1 DEF Output
      <4> QED BY <1>3, <4>1, <4>2, NamesDiffer
    <3> QED BY <3>1, <3>2
  <2> HIDE DEF n, f
  <2>3. n > 1
    BY <1>2, <1>5, <2>1
  <2>4. RowFiles(row'[i]) = {Segment(k, f) : k \in 0 .. n - 1}
    BY <2>1, <2>3 DEF RowFiles
  <2>5. \A x \in RowFiles(row'[i]) : final'[i][x].src = Src(a)
    BY <1>1, <2>2, <2>4
  <2> QED BY <1>2, <2>5 DEF OneSource
<1>6. CASE ~Segmented(a) /\ row'[i].segs # 1
  <2>1. row'[i].segs > 1
    BY <1>1, <1>2, <1>6 DEF Rows
  <2>2. PICK s \in Sources : Segs[i][s] = 1
    <3>1. final[i][Audio(f)] # NoFile
      BY <1>1, <1>6, DonePublished
    <3> QED BY <1>2, <3>1 DEF Told
  <2>3. ASSUME NEW x \in RowFiles(row'[i]), final'[i][x] # NoFile
        PROVE  final'[i][x].src \in Sources \ {s}
    <3>1. x.kind = "segment"
      BY <2>1, <2>3 DEF RowFiles, Segment
    <3>2. x \in FileNames
      BY <1>1, <2>3, RowFilesNamed
    <3>3. Cut(i, final[i][x].src)
      BY <1>1, <2>3, <3>1, <3>2 DEF SegmentsAreCut
    <3>4. final[i][x].src # s
      BY <2>2, <3>3 DEF Cut
    <3> QED BY <1>1, <2>3, <3>2, <3>4 DEF Files
  <2>4. PICK t \in Sources : \A u \in Sources \ {s} : u = t
    BY DEF Sources
  <2> QED BY <2>3, <2>4 DEF OneSource
<1> QED BY <1>4, <1>5, <1>6

\* The transcode that takes a step goes on to write and publish its own source.
LEMMA SourceOwn ==
  ASSUME TypeInv, [Next]_vars, NEW a \in Actors, TranscodeStep(a), NEW i \in Items, i = item[a],
         pc'[a] \in Busy, pc[a] \in Busy => OwnFiles(a) /\ OutputsKept(a)
  PROVE  OwnFiles(a)'
<1>1. /\ item'[a] = i /\ pc \in [Actors -> ActorPCs] /\ step \in [Actors -> 0 .. MaxSegs + 1]
      /\ pc[a] \in Busy \cup {"mark"}
      /\ tmp \in [Items -> [FileNames -> Files \cup {NoFile}]]
      /\ final \in [Items -> [FileNames -> Files \cup {NoFile}]]
  BY TranscodeMoves DEF TypeInv, TypeOK
<1>2. /\ Src(a)' = Src(a)
      /\ plan'[a] = plan[a] =>
           /\ OutputCount(a)' = OutputCount(a)
           /\ \A k : Output(a, k)' = Output(a, k)
           /\ step'[a] = step[a] => Target(a)' = Target(a)
  BY <1>1, SameOutputs DEF Src
<1>3. pc[a] \in Busy =>
        /\ step[a] \in 1 .. OutputCount(a) /\ OutputCount(a) \in 1 .. MaxSegs + 1 /\ MaxSegs \in Nat
        /\ \A k \in 1 .. OutputCount(a) : Output(a, k) \in FileNames
        /\ \A k \in 1 .. Done(a) : k \in 1 .. OutputCount(a)
  BY OutputsNamed
\* What was published stays, or is published again by this transcode.
<1>4. ASSUME pc[a] \in Busy, NEW k \in 1 .. Done(a), Output(a, k) # Concat
      PROVE  final'[i][Output(a, k)].src = Src(a)
  <2>1. k \in 1 .. OutputCount(a) /\ final[i][Output(a, k)].src = Src(a)
    BY <1>3, <1>4 DEF OwnFiles
  <2>2. WriteDone(a) => tmp[i][Target(a)].src = Src(a)
    BY <1>4 DEF WriteDone, OwnFiles
  <2> QED BY <1>3, <1>4, <2>1, <2>2, FinalSteps
<1>5. ASSUME pc[a] \in Busy, Done(a)' = Done(a), plan'[a] = plan[a], pc'[a] # "write"
      PROVE  OwnFiles(a)'
  BY <1>1, <1>2, <1>4, <1>5 DEF OwnFiles
<1>6. CASE MarkInProgress(a)
  <2>1. pc'[a] = "open" /\ step'[a] = 1
    BY <1>1, <1>6 DEF MarkInProgress, Begin, Goto
  <2> QED BY <2>1 DEF OwnFiles, Done
<1>7. CASE OpenTmp(a)
  <2>1. /\ pc[a] = "open" /\ pc'[a] = "write" /\ step'[a] = step[a] /\ plan' = plan
        /\ Done(a)' = Done(a)
    BY <1>1, <1>7 DEF OpenTmp, Goto, Done
  <2>2. Target(a) \in FileNames
    BY <1>3, <2>1 DEF Target, Busy
  <2>3. tmp'[i][Target(a)].src = Src(a)
    BY <1>1, <1>7, <2>2 DEF OpenTmp
  <2> QED BY <1>1, <1>2, <1>4, <2>1, <2>3 DEF OwnFiles, Busy
<1>8. ASSUME pc[a] \in {"open", "write"}, pc' = [pc EXCEPT ![a] = AfterFailure(a)],
             UNCHANGED <<step, plan>>
      PROVE  OwnFiles(a)'
  <2>1. pc'[a] \in {"unjoinFail", "failing"} /\ step'[a] = step[a]
    BY <1>1, <1>8 DEF AfterFailure
  <2> QED BY <1>5, <1>8, <2>1 DEF Done, Busy
<1>9. CASE OpenFails(a) \/ WriteFails(a)
  BY <1>8, <1>9 DEF OpenFails, WriteFails, Goto
<1>10. CASE WriteDone(a)
  <2>1. CASE tmp[i][Target(a)] = NoFile
    BY <1>8, <1>10, <2>1 DEF WriteDone, Goto
  <2>2. CASE tmp[i][Target(a)] # NoFile
    <3>1. /\ Done(a)' = step[a] /\ pc[a] = "write" /\ pc'[a] # "write" /\ plan' = plan
      <4>1. pc[a] = "write" /\ plan' = plan /\ Proceed(a)
        BY <1>10, <2>2 DEF WriteDone
      <4> QED BY <1>1, <1>10, <2>2, <4>1, OutputsNext DEF Proceed, Goto, Busy
    <3>2. ASSUME NEW k \in 1 .. step[a], Output(a, k) # Concat
          PROVE  final'[i][Output(a, k)].src = Src(a)
      <4>1. CASE k = step[a]
        <5>1. final' = [final EXCEPT ![i][Target(a)] = tmp[i][Target(a)]]
          BY <1>10, <2>2 DEF WriteDone
        <5>2. Target(a) \in FileNames /\ tmp[i][Target(a)].src = Src(a)
          BY <1>3, <3>1 DEF Target, Busy, OwnFiles
        <5> QED BY <1>1, <4>1, <5>1, <5>2 DEF Target
      <4>2. CASE k # step[a]
        <5>1. k \in 1 .. Done(a)
          BY <1>3, <3>1, <4>2 DEF Done, Busy
        <5> QED BY <1>4, <3>1, <3>2, <5>1 DEF Busy
      <4> QED BY <4>1, <4>2
    <3> QED BY <1>1, <1>2, <3>1, <3>2 DEF OwnFiles
  <2> QED BY <2>1, <2>2
<1>11. CASE RemoveConcat(a)
  <2>0. plan' = plan
    BY <1>11 DEF RemoveConcat
  <2>1. CASE pc[a] = "unjoinOK"
    <3>1. pc'[a] = "commit"
      BY <1>1, <1>11, <2>1 DEF RemoveConcat, Goto
    <3> QED BY <1>2, <1>5, <2>0, <2>1, <3>1 DEF Done, Busy
  <2>2. CASE pc[a] = "unjoinFail"
    <3>1. pc'[a] = "failing" /\ step'[a] = step[a]
      BY <1>1, <1>11, <2>2 DEF RemoveConcat, Goto
    <3> QED BY <1>5, <2>0, <2>2, <3>1 DEF Done, Busy
  <2> QED BY <1>11, <2>1, <2>2 DEF RemoveConcat
<1>12. CASE MarkReady(a) \/ MarkFailed(a)
  BY <1>1, <1>12 DEF MarkReady, MarkFailed, Finish, Goto, Busy
<1>13. CASE Split(a)
  <2>1. /\ pc[a] = "split" /\ pc'[a] = "open" /\ pc[a] \in Busy /\ ActorOK(a)
        /\ step'[a] = step[a]
    BY <1>1, <1>13 DEF Split, Goto, Busy, TypeInv
  <2>2. Done(a)' = 1
    BY <2>1 DEF ActorOK, Done
  <2>3. Joins(a) /\ Segmented(a)
    BY <2>1 DEF ActorOK, Joins
  <2>4. (Joins(a)' <=> Joins(a)) /\ (Segmented(a)' <=> Segmented(a))
    <3>1. CASE Joins(a)' = Joins(a) /\ Segmented(a)' = Segmented(a)
      BY <3>1
    <3> QED BY <2>1, <2>3, <3>1, PlanKept DEF Busy
  <2>5. Output(a, 1)' = Concat
    BY <2>3, <2>4 DEF Output
  <2> QED BY <2>1, <2>2, <2>5 DEF OwnFiles
<1>14. CASE SplitFails(a)
  <2>1. /\ pc[a] = "split" /\ pc'[a] \in {"unjoinFail", "failing"} /\ step'[a] = step[a]
        /\ plan' = plan
    BY <1>1, <1>14 DEF SplitFails, Goto
  <2> QED BY <1>5, <2>1 DEF Done, Busy
<1> QED BY <1>6, <1>7, <1>9, <1>10, <1>11, <1>12, <1>13, <1>14 DEF TranscodeStep

\* A step of a transcode of the item, which without overlap is the only one.
LEMMA SourceHere ==
  ASSUME TypeInv, TypeInv', [Next]_vars, SegmentsAreCut, NEW i \in Items, WholeItem(i), WholeItem(i)',
         KeptItem(i), SourceItem(i),
         NEW a \in Actors, TranscodeStep(a), i = item[a]
  PROVE  SourceItem(i)'
<1>1. /\ \A b \in Actors \ {a} : pc'[b] = pc[b] /\ item'[b] = item[b]
      /\ pc[a] \in Busy \cup {"mark"} /\ pc \in [Actors -> ActorPCs] /\ row \in [Items -> Rows]
      /\ pc'[a] \in Busy => item'[a] = i
  BY TranscodeMoves DEF TypeInv, TypeOK
<1>2. ASSUME row'[i].status = "ready"
      PROVE  (Told(i)' => OneSource(i)') /\ \A b \in Actors : item'[b] = i => pc'[b] \notin Busy
  <2>1. MarkReady(a) /\ row[i].status # "none"
    <3>1. pc[a] \in Busy => row[i].status # "ready"
      BY DEF SourceItem
    <3>2. CASE MarkInProgress(a)
      BY <1>1, <1>2, <3>2 DEF MarkInProgress, SetStatus, Rows
    <3>3. CASE MarkFailed(a)
      BY <1>1, <1>2, <3>3 DEF MarkFailed, SetStatus, Rows
    <3>4. CASE OpenTmp(a) \/ OpenFails(a) \/ WriteDone(a) \/ WriteFails(a) \/ Split(a)
               \/ SplitFails(a) \/ RemoveConcat(a)
      BY <1>2, <3>1, <3>4 DEF OpenTmp, OpenFails, WriteDone, WriteFails, Split, SplitFails,
         RemoveConcat, Busy
    <3>5. CASE MarkReady(a)
      BY <1>2, <3>5 DEF MarkReady
    <3> QED BY <3>2, <3>3, <3>4, <3>5 DEF TranscodeStep
  <2>2. pc[a] \in Busy /\ pc'[a] \notin Busy /\ OwnFiles(a) /\ OutputsKept(a)
    BY <1>1, <2>1 DEF MarkReady, Finish, Goto, Busy, SourceItem, KeptItem
  <2>3. \A b \in Actors : item'[b] = i => pc'[b] \notin Busy
    BY <1>1, <2>2 DEF WholeItem
  <2>4. Told(i)' <=> Told(i)
    BY <2>1 DEF MarkReady, disk, Told
  <2> QED BY <1>2, <2>1, <2>2, <2>3, <2>4, SourceReady
<1>3. ASSUME NEW b \in Actors, item'[b] = i, pc'[b] \in Busy PROVE OwnFiles(b)'
  <2>1. CASE b = a
    BY <1>3, <2>1, SourceOwn DEF SourceItem, KeptItem
  <2>2. CASE b # a
    <3>1. item[b] = i /\ pc[b] \in Busy /\ pc'[a] \notin Busy
      BY <1>1, <1>3, <2>2 DEF WholeItem
    <3>2. pc[a] = "mark"
      BY <1>1, <2>2, <3>1 DEF WholeItem
    <3>3. MarkInProgress(a)
      BY <3>2 DEF TranscodeStep, OpenTmp, OpenFails, WriteDone, WriteFails, Split,
         SplitFails, RemoveConcat, MarkReady, MarkFailed
    <3> QED BY <1>1, <3>1, <3>3 DEF MarkInProgress, Begin, Goto, Busy
  <2> QED BY <2>1, <2>2
<1> QED BY <1>2, <1>3 DEF SourceItem

LEMMA SourceStep == SourceInv /\ [Next]_vars => SourceInv'
<1> SUFFICES ASSUME SourceInv, [Next]_vars PROVE SourceInv'
  OBVIOUS
<1>1. /\ TypeInv /\ TypeInv' /\ SegmentsAreCut /\ SegmentsAreCut'
      /\ WholeInv /\ WholeInv' /\ KeptInv /\ KeptInv'
  BY NextTypeInv, CutStep, WholeStep, KeptStep DEF SourceInv, WholeInv
<1>2. /\ final \in [Items -> [FileNames -> Files \cup {NoFile}]]
      /\ row \in [Items -> Rows] /\ pc \in [Actors -> ActorPCs]
  BY <1>1 DEF TypeInv, TypeOK
<1> SUFFICES ASSUME NEW i \in Items, i \notin overlapped' PROVE SourceItem(i)'
  BY <1>1 DEF SourceInv
<1>3. ASSUME NEW a \in Actors, TranscodeStep(a) PROVE SourceItem(i)'
  <2>1. overlapped \subseteq overlapped'
    BY <1>3, OverlapsStay
  <2>2. SourceItem(i) /\ WholeItem(i) /\ WholeItem(i)' /\ KeptItem(i)
    BY <1>1, <2>1 DEF SourceInv, WholeInv, KeptInv
  <2>3. CASE i = item[a]
    BY <1>1, <1>3, <2>2, <2>3, SourceHere
  <2>4. CASE i # item[a]
    <3>1. row'[i] = row[i]
      BY <1>1, <1>3, <2>4, TranscodeStatus
    <3>2. \A n \in FileNames : n # Concat => final'[i][n] = final[i][n]
      BY <1>1, <1>3, <2>4, FinalSteps
    <3>3. tmp'[i] = tmp[i]
      <4>1. item[a] \in Items
        BY <1>1, <1>3, TranscodeMoves
      <4>2. \/ UNCHANGED tmp
            \/ \E x : tmp' = [tmp EXCEPT ![item[a]] = x]
        BY <1>1, <1>3, TmpSteps DEF OpenTmp, RemoveTmp, RenameTmp
      <4> QED BY <1>1, <2>4, <4>1, <4>2 DEF TypeInv, TypeOK
    <3>4. \A b \in Actors : item'[b] = i /\ pc'[b] \in Busy =>
             /\ pc'[b] = pc[b] /\ item'[b] = item[b] /\ step'[b] = step[b]
             /\ plan'[b] = plan[b]
      BY <1>1, <1>3, <2>4, TranscodeMoves
    <3> QED BY <1>1, <2>2, <3>1, <3>2, <3>3, <3>4, SourceFrame
  <2> QED BY <2>3, <2>4
<1>4. ASSUME UNCHANGED overlapped, \A n \in FileNames : n # Concat => final'[i][n] = final[i][n],
             row'[i].status = "ready" => row'[i] = row[i],
             \A b \in Actors : item'[b] = i /\ pc'[b] \in Busy =>
               /\ pc'[b] = pc[b] /\ item'[b] = item[b] /\ step'[b] = step[b]
               /\ plan'[b] = plan[b] /\ tmp'[i] = tmp[i]
      PROVE  SourceItem(i)'
  BY <1>1, <1>4, SourceFrame DEF SourceInv
<1>5. ASSUME NEW p \in {"down", "panicked"}, Dies(p) PROVE SourceItem(i)'
  BY <1>4, <1>5 DEF Dies, aux, Busy
<1>6. ASSUME Restart PROVE SourceItem(i)'
  <2>1. UNCHANGED overlapped /\ \A b \in Actors : pc'[b] = "idle"
    BY <1>1, <1>6 DEF Restart, procs, aux, TypeInv, ActorOK, Running
  <2>2. row'[i].status = "ready" => row'[i] = row[i]
    BY <1>2, <1>6 DEF Restart, Rows
  <2>3. \A n \in FileNames : n # Concat => final'[i][n] = final[i][n]
    BY <1>2, <1>6 DEF Restart
  <2> QED BY <1>4, <2>1, <2>2, <2>3 DEF Busy
<1>7. ASSUME AsideStep PROVE SourceItem(i)'
  <2>1. row'[i].status = "ready" => row'[i] = row[i]
    <3>1. \/ row'[i] = row[i] \/ row'[i] = NoRow
          \/ row'[i] = [row[i] EXCEPT !.status = "pending"]
      BY <1>7 DEF AsideStep, RowsAside
    <3> QED BY <1>2, <3>1 DEF NoRow, Rows
  <2> QED BY <1>4, <1>7, <2>1 DEF AsideStep
<1> QED BY <1>1, <1>3, <1>5, <1>6, <1>7, StepKinds

\* A ready row names files made from one source: who transcodes says in_progress
\* first and ready last, and without overlap nobody writes in between; of a segment
\* count that an earlier transcode left in the row, that transcode's source is the
\* only one that is cut, unless both are and one of them was not this time.
THEOREM ReadyComesFromOne == Spec => []ReadyIsOneSource
<1>1. Init => SourceInv
  <2>1. ASSUME Init PROVE TypeInv /\ WholeInv /\ KeptInv
    BY <2>1, InitTypeInv, InitWhole, InitKept
  <2>2. ASSUME Init, NEW i \in Items PROVE SourceItem(i)
    BY <2>2 DEF Init, SourceItem, NoRow, Busy
  <2>3. Init => SegmentsAreCut
    BY DEF Init, SegmentsAreCut, Busy
  <2> QED BY <2>1, <2>2, <2>3 DEF SourceInv
<1>2. Spec => []SourceInv
  BY <1>1, SourceStep, PTL DEF Spec
<1>3. SourceInv => ReadyIsOneSource
  BY DEF SourceInv, SourceItem, Told, OneSource, ReadyIsOneSource
<1> QED BY <1>2, <1>3, PTL

-----------------------------------------------------------------------------
(* URLs.                                                                    *)

\* A URL that names a segment names one of a cut that was made.
UrlKept(u) ==
  /\ u.item \in Items /\ u.name # Concat
  /\ u.name.kind = "segment" => \E n \in cuts[u.item] : n > 1 /\ u.name.no < n

UrlInv == KeptInv /\ \A r \in Requests : url[r] # NoUrl => UrlKept(url[r])

LEMMA UrlKeptStays ==
  ASSUME TypeInv, [Next]_vars, NEW u, UrlKept(u)
  PROVE  UrlKept(u)'
BY CutsGrow DEF UrlKept

\* URLs come from Serve, which names a file of the row.
LEMMA UrlServed ==
  ASSUME KeptInv, NEW i \in Items, NEW n \in RowFiles(row[i])
  PROVE  UrlKept([item |-> i, name |-> n])
<1>1. row[i] \in Rows /\ RowKept(i, row[i])
  BY DEF KeptInv, KeptItem, TypeInv, TypeOK
<1>2. row[i].segs \in 1 .. MaxSegs /\ MaxSegs \in Nat
  BY <1>1, Constants DEF Rows
<1>3. n # Concat
  BY <1>1, RowFilesNamed
<1>4. ASSUME n.kind = "segment" PROVE row[i].segs > 1 /\ row[i].segs \in cuts[i] /\ n.no < row[i].segs
  <2>1. row[i].segs > 1
    BY <1>4 DEF RowFiles, Audio
  <2>2. n.no \in 0 .. row[i].segs - 1
    BY <2>1 DEF RowFiles, Segment
  <2> QED BY <1>1, <1>2, <2>1, <2>2 DEF RowKept
<1> QED BY <1>3, <1>4 DEF UrlKept

LEMMA UrlNamed ==
  ASSUME KeptInv, [Next]_vars, NEW r \in Requests,
         url[r] # NoUrl => UrlKept(url[r]), url'[r] # NoUrl
  PROVE  UrlKept(url'[r])
<1>1. /\ TypeInv
      /\ url \in [Requests -> [item : Items \cup {NoItem}, name : FileNames]]
      /\ row \in [Items -> Rows]
  BY DEF KeptInv, TypeInv, TypeOK
<1>2. CASE UNCHANGED url
  BY <1>2
<1>3. ASSUME NEW q \in Requests, Serve(q) PROVE UrlKept(url'[r])
  <2>1. item[q] \in Items
    BY <1>1, <1>3 DEF Serve, TypeInv, ActorOK, Actors
  <2>2. CASE UNCHANGED url
    BY <2>2
  <2>3. ASSUME NEW n \in RowFiles(row[item[q]]), url' = [url EXCEPT ![q] = [item |-> item[q], name |-> n]]
        PROVE  UrlKept(url'[r])
    <3>1. UrlKept([item |-> item[q], name |-> n])
      BY <2>1, UrlServed
    <3>2. url'[r] = url[r] \/ url'[r] = [item |-> item[q], name |-> n]
      BY <1>1, <2>3
    <3> QED BY <3>1, <3>2
  <2> QED BY <1>3, <2>2, <2>3 DEF Serve
<1>4. ASSUME NEW q \in Requests, NEW i \in Items, Play(q, i)
      PROVE  UrlKept(url'[r])
  BY <1>1, <1>4 DEF Play
<1> QED BY <1>2, <1>3, <1>4
   DEF Next, TranscodeStep, MarkInProgress, OpenTmp, OpenFails, WriteDone, WriteFails, Split,
       SplitFails, RemoveConcat, MarkReady, MarkFailed, RequestStep, DeleteRow, InsertRow, TakeJob,
       WarmStart, WarmStep, WarmCheck, WarmDelete, WarmInsert, WarmEnqueue, WarmPanics, Lifecycle,
       StopWorkers, WorkerReturns, Exit, Crash, Dies, Restart, vars

LEMMA UrlStep == UrlInv /\ [Next]_vars => UrlInv'
<1> SUFFICES ASSUME UrlInv, [Next]_vars PROVE UrlInv'
  OBVIOUS
<1>1. KeptInv /\ KeptInv' /\ TypeInv
  BY KeptStep DEF UrlInv, KeptInv
<1>2. ASSUME NEW r \in Requests, url'[r] # NoUrl PROVE UrlKept(url[r])'
  <2> DEFINE Stays(u) == UrlKept(u)'
  <2>1. \A u : UrlKept(u) => Stays(u)
    BY <1>1, UrlKeptStays
  <2>2. UrlKept(url'[r])
    BY <1>1, <1>2, UrlNamed DEF UrlInv
  <2>3. \A u : u = url'[r] => (Stays(u) <=> UrlKept(url[r])')
    BY DEF UrlKept
  <2> HIDE DEF Stays
  <2> QED BY <2>1, <2>2, <2>3
<1> QED BY <1>1, <1>2 DEF UrlInv

\* A segment of a URL that is there is let through by the segment count of a ready row,
\* and an audio file is not taken for one of a cut book.
LEMMA UrlPlays ==
  ASSUME KeptInv, NEW u, UrlKept(u), u.name \in FileNames, OneFormat(u.item), CutAlike(u.item),
         row[u.item].status = "ready", final[u.item][u.name] # NoFile
  PROVE  StreamAnswers(u.item, u.name)
<1> DEFINE i == u.item
           n == u.name
           r == row[i]
<1>1. i \in Items /\ n # Concat /\ r \in Rows /\ RowKept(i, r)
  BY DEF KeptInv, KeptItem, TypeInv, TypeOK, UrlKept
<1>2. r.segs \in 1 .. MaxSegs /\ MaxSegs \in Nat /\ r.fmt \in Formats
  BY <1>1, Constants DEF Rows
<1>3. n.ext = r.fmt
  <2>1. n \in Streamable(i)
    BY <1>1 DEF Streamable
  <2>2. PICK m \in Streamable(i) : m.ext = r.fmt
    BY <1>1 DEF RowKept
  <2> QED BY <2>1, <2>2 DEF OneFormat
<1>4. CASE n.kind = "segment"
  <2>1. PICK c \in cuts[i] : c > 1 /\ n.no < c
    BY <1>4 DEF UrlKept
  <2>2. cuts[i] = {c} /\ final[i][Audio(r.fmt)] = NoFile
    BY <1>2, <2>1 DEF CutAlike
  <2>3. r.segs = c
    BY <1>1, <2>2 DEF RowKept
  <2>4. n = Segment(n.no, r.fmt)
    BY <1>3, <1>4 DEF FileNames, Segment, Audio, Concat
  <2> QED BY <1>4, <2>1, <2>3, <2>4 DEF StreamAnswers
<1>5. CASE n.kind # "segment"
  <2>1. n = Audio(r.fmt)
    BY <1>1, <1>3, <1>5 DEF FileNames, Segment, Audio, Concat
  <2>2. cuts[i] = {}
    BY <1>2, <2>1 DEF CutAlike
  <2>3. r.segs <= 1
    BY <1>1, <1>2, <2>2 DEF RowKept
  <2> QED BY <1>5, <2>1, <2>3 DEF StreamAnswers
<1> QED BY <1>4, <1>5

\* The stream handler answers the URL a /play gave to the player whenever the item is
\* ready and the file is there, if the item's transcodes came out alike: a row that was
\* re-made, even by another source, names the same files, and its segment count lets
\* through every segment that exists.
THEOREM UrlsAreAnswered == Spec => []HandedOutUrlPlays
<1>1. Init => UrlInv
  BY InitKept DEF Init, UrlInv
<1>2. Spec => []UrlInv
  BY <1>1, UrlStep, PTL DEF Spec
<1>3. UrlInv => HandedOutUrlPlays
  BY UrlPlays DEF UrlInv, KeptInv, TypeInv, TypeOK, HandedOutUrlPlays
<1> QED BY <1>2, <1>3, PTL

-----------------------------------------------------------------------------
(* The ledger.                                                              *)

\* What a goroutine outside a transcode does to the rows: nothing, or CreateEntry's
\* DELETE or INSERT.
Drops(i)   == row' = [row EXCEPT ![i] = NoRow]
Creates(i) == row[i].status = "none" /\ row' = [row EXCEPT ![i].status = "pending"]
OneRow     == UNCHANGED row \/ \E i \in Items : Drops(i) \/ Creates(i)

LEMMA LedgerStays ==
  ASSUME UNCHANGED <<row, phase, cuts>>, \A i \in Items : Streamable(i)' = Streamable(i),
         \A b \in Actors : pc[b] \in Busy \/ pc'[b] \in Busy =>
           pc[b] \in Busy /\ pc'[b] \in Busy /\ item'[b] = item[b]
  PROVE  UNCHANGED Ledger!lvars
<1>1. AtWork' = AtWork
  BY DEF AtWork
<1>2. Said' = Said /\ Named' = Named /\ Offered' = Offered /\ Running' = Running
      /\ Odd' = Odd
  BY DEF Said, Named, Offered, Odd, OneFormat, Running
<1> QED BY <1>1, <1>2 DEF Ledger!lvars

LEMMA LedgerAside ==
  ASSUME TypeInv, AsideStep, OneRow
  PROVE  Ledger!Next \/ UNCHANGED Ledger!lvars
<1>1. /\ AtWork' = AtWork /\ Offered' = Offered /\ Odd' = Odd /\ Running' = Running
      /\ row \in [Items -> Rows]
  BY DEF AsideStep, AtWork, Offered, Odd, OneFormat, Streamable, TypeInv, TypeOK
<1>2. CASE UNCHANGED row
  BY <1>1, <1>2 DEF Said, Named, Ledger!lvars
<1>3. ASSUME NEW i \in Items, Drops(i) PROVE Ledger!Next
  <2>1. NoRow.status = "none"
    BY DEF NoRow
  <2>2. Said' = [Said EXCEPT ![i] = "none"] /\ Named' = [Named EXCEPT ![i] = {}]
    BY <1>1, <1>3, <2>1 DEF Drops, Said, Named
  <2> QED BY <1>1, <2>2 DEF Ledger!Drop, Ledger!Next
<1>4. ASSUME NEW i \in Items, Creates(i) PROVE Ledger!Next
  <2>1. [row[i] EXCEPT !.status = "pending"].status = "pending"
    BY <1>1, StatusSet
  <2>2. Said[i] = "none" /\ Said' = [Said EXCEPT ![i] = "pending"] /\ Named' = Named
    BY <1>1, <1>4, <2>1 DEF Creates, Said, Named
  <2> QED BY <1>1, <2>2 DEF Ledger!Create, Ledger!Next
<1> QED BY <1>2, <1>3, <1>4 DEF OneRow

\* UPDATE cache_index SET status is Says of the ledger.
LEMMA SetStatusSays ==
  ASSUME TypeInv, NEW i \in Items, NEW s \in Statuses \ {"ready"}, SetStatus(i, s)
  PROVE  Ledger!Says(i, s, {})
<1>1. row \in [Items -> Rows] /\ Said[i] = row[i].status
  BY DEF TypeInv, TypeOK, Said
<1>2. CASE row[i].status = "none"
  BY <1>1, <1>2 DEF SetStatus, Said, Named, Ledger!Says
<1>3. CASE row[i].status # "none"
  <2>1. row' = [row EXCEPT ![i].status = s] /\ row'[i].status = s
    BY <1>1, <1>3, StatusSet DEF SetStatus
  <2>2. Said' = [Said EXCEPT ![i] = s] /\ Named' = [Named EXCEPT ![i] = {}]
    BY <1>1, <2>1 DEF Said, Named
  <2> QED BY <1>1, <1>3, <2>2 DEF Ledger!Says
<1> QED BY <1>2, <1>3

\* Who ends a transcode leaves the ledger's makers.
LEMMA LedgerEnds ==
  ASSUME TypeInv, NEW a \in Actors, TranscodeStep(a), pc[a] \in Busy, pc'[a] \notin Busy
  PROVE  /\ item[a] \in Items /\ a \in AtWork[item[a]]
         /\ AtWork' = [AtWork EXCEPT ![item[a]] = @ \ {a}]
<1>1. item[a] \in Items /\ \A b \in Actors \ {a} : pc'[b] = pc[b] /\ item'[b] = item[b]
  BY TranscodeMoves
<1> QED BY <1>1 DEF AtWork

LEMMA LedgerBegins ==
  ASSUME TypeInv, NEW a \in Actors, MarkInProgress(a)
  PROVE  Ledger!Next
<1> DEFINE i == item[a]
<1>1. /\ i \in Items /\ Running /\ Running'
      /\ \A b \in Actors \ {a} : pc'[b] = pc[b] /\ item'[b] = item[b]
  BY TranscodeMoves DEF TranscodeStep
<1>2. pc[a] = "mark" /\ pc'[a] = "open" /\ item'[a] = i
  BY DEF MarkInProgress, Begin, Goto, TypeInv, TypeOK
<1>3. \A j \in Items : a \notin AtWork[j]
  BY <1>2 DEF AtWork, Busy
<1>4. AtWork' = [AtWork EXCEPT ![i] = @ \cup {a}]
  BY <1>1, <1>2 DEF AtWork, Busy
<1>5. Offered' = Offered /\ Odd' = Odd
  BY DEF MarkInProgress, disk, Offered, Odd, OneFormat, Streamable
<1>6. SetStatus(i, "in_progress")
  BY DEF MarkInProgress
<1>7. Ledger!Says(i, "in_progress", {})
  BY <1>1, <1>6, SetStatusSays DEF Statuses
<1> HIDE DEF i
<1> QED BY <1>1, <1>3, <1>4, <1>5, <1>7 DEF Ledger!Begin, Ledger!Next

LEMMA LedgerFails ==
  ASSUME TypeInv, NEW a \in Actors, MarkFailed(a)
  PROVE  Ledger!Next
<1> DEFINE i == item[a]
<1>1. pc[a] = "failing" /\ pc'[a] = "idle"
  BY DEF MarkFailed, Finish, Goto, TypeInv, TypeOK
<1>2. /\ i \in Items /\ a \in AtWork[i] /\ AtWork' = [AtWork EXCEPT ![i] = @ \ {a}]
  BY <1>1, LedgerEnds DEF TranscodeStep, Busy
<1>3. Offered' = Offered /\ Odd' = Odd /\ Running' = Running
  BY DEF MarkFailed, disk, aux, Offered, Odd, OneFormat, Streamable, Running
<1>4. SetStatus(i, "failed")
  BY DEF MarkFailed
<1>5. Ledger!Says(i, "failed", {})
  BY <1>2, <1>4, SetStatusSays DEF Statuses
<1> HIDE DEF i
<1>6. Ledger!End(a, i, "failed", {})
  BY <1>2, <1>3, <1>5 DEF Ledger!End
<1> QED BY <1>2, <1>6 DEF Ledger!Next

\* A transcode that is done has left a file that can be streamed.
LEMMA SomethingDone ==
  ASSUME TypeInv, NEW a \in Actors, pc[a] = "commit", OutputsKept(a)
  PROVE  \E n \in FileNames : n \in Streamable(item[a])
<1> DEFINE k == OutputCount(a)
<1>1. pc[a] \in Busy /\ Done(a) = k /\ plan[a] \in Plans
  BY DEF TypeInv, TypeOK, Busy, Done
<1>2. k \in 1 .. MaxSegs + 1 /\ MaxSegs \in Nat /\ (Joins(a) => k > 1)
  BY <1>1, Shapes, Constants
<1>3. k \in 1 .. k /\ Output(a, k) \in FileNames /\ Output(a, k) # Concat
  BY <1>1, <1>2, OutputType
<1>4. final[item[a]][Output(a, k)] # NoFile
  BY <1>1, <1>3 DEF OutputsKept
<1> QED BY <1>3, <1>4 DEF Streamable

LEMMA LedgerReady ==
  ASSUME KeptInv, KeptInv', NEW a \in Actors, MarkReady(a)
  PROVE  Ledger!Next
<1> DEFINE i == item[a]
<1>0. TypeInv /\ TypeInv'
  BY DEF KeptInv
<1>1. /\ pc[a] = "commit" /\ pc'[a] \notin Busy /\ pc[a] \in Busy
      /\ row \in [Items -> Rows] /\ row' \in [Items -> Rows]
  BY <1>0 DEF MarkReady, Finish, Goto, TypeInv, TypeOK, Busy
<1>2. i \in Items /\ a \in AtWork[i] /\ AtWork' = [AtWork EXCEPT ![i] = @ \ {a}]
  BY <1>0, <1>1, LedgerEnds DEF TranscodeStep
<1>3. Offered' = Offered /\ Odd' = Odd /\ Running' = Running /\ UNCHANGED <<final, cuts>>
  BY DEF MarkReady, disk, aux, Offered, Odd, OneFormat, Streamable, Running
<1>4. CASE row[i].status = "none"
  <2>1. PICK n \in FileNames : n \in Streamable(i)
    BY <1>0, <1>1, <1>2, SomethingDone DEF KeptInv, KeptItem
  <2>2. UNCHANGED row
    BY <1>4 DEF MarkReady
  <2>3. Ledger!Says(i, "ready", {n})
    BY <1>2, <1>4, <2>2 DEF Ledger!Says, Said, Named
  <2>4. {n} \subseteq Offered[i]
    BY <1>2, <2>1 DEF Offered
  <2> HIDE DEF i
  <2>5. Ledger!End(a, i, "ready", {n})
    BY <1>2, <1>3, <2>3, <2>4 DEF Ledger!End
  <2>6. {n} \in SUBSET FileNames
    OBVIOUS
  <2> QED BY <1>2, <2>5, <2>6 DEF Ledger!Next
<1>5. CASE row[i].status # "none"
  <2> DEFINE N == RowFiles(row'[i])
  <2>1. row'[i].status = "ready" /\ \E r : row' = [row EXCEPT ![i] = r]
    BY <1>1, <1>2, <1>5 DEF MarkReady, Rows
  <2>2. row'[i] \in Rows
    BY <1>1, <1>2
  <2>3. \A n \in N : n \in FileNames /\ n # Concat
    BY <2>2, RowFilesNamed
  <2>4. ASSUME i \notin Odd PROVE \A n \in N : final[i][n] # NoFile
    <3>1. \A j \in Items : RowKept(j, row[j])'
      BY DEF KeptInv, KeptItem
    <3>2. \A j \in Items : RowKept(j, row'[j])
      BY <1>3, <3>1 DEF RowKept, Streamable
    <3>3. OneFormat(i) /\ 1 \notin cuts[i]
      BY <1>2, <2>4 DEF Odd
    <3> QED BY <1>2, <2>1, <2>2, <3>2, <3>3, KeptPlays
  <2>5. N \subseteq Offered[i] \/ i \in Odd
    BY <1>2, <2>3, <2>4 DEF Offered, Streamable
  <2>6. N # {}
    <3>1. CASE row'[i].segs > 1
      <4>1. 0 \in 0 .. row'[i].segs - 1
        BY <2>2, <3>1, Constants DEF Rows
      <4> QED BY <3>1, <4>1 DEF RowFiles
    <3>2. CASE ~(row'[i].segs > 1)
      BY <3>2 DEF RowFiles
    <3> QED BY <3>1, <3>2
  <2>7. Said' = [Said EXCEPT ![i] = "ready"] /\ Named' = [Named EXCEPT ![i] = N]
    BY <1>1, <1>2, <2>1 DEF Said, Named
  <2>8. Said[i] # "none"
    BY <1>2, <1>5 DEF Said
  <2>9. N \in SUBSET FileNames
    BY <2>3
  <2> HIDE DEF N, i
  <2>10. Ledger!End(a, i, "ready", N)
    BY <1>2, <1>3, <2>5, <2>6, <2>7, <2>8 DEF Ledger!End, Ledger!Says
  <2> QED BY <1>2, <2>9, <2>10 DEF Ledger!Next
<1> QED BY <1>4, <1>5

\* The rename publishes a file; but for that, and for its beginning and its end, a
\* transcode goes unnoticed.
LEMMA LedgerWrites ==
  ASSUME TypeInv, TypeInv', NEW a \in Actors, TranscodeStep(a), pc[a] \in Busy, pc'[a] \in Busy,
         UNCHANGED <<row, phase>>
  PROVE  Ledger!Next \/ UNCHANGED Ledger!lvars
<1> DEFINE i == item[a]
           n == Target(a)
<1>1. /\ i \in Items /\ item'[a] = item[a]
      /\ \A b \in Actors \ {a} : pc'[b] = pc[b] /\ item'[b] = item[b]
  BY TranscodeMoves
<1>2. \A b \in Actors : pc[b] \in Busy \/ pc'[b] \in Busy =>
        pc[b] \in Busy /\ pc'[b] \in Busy /\ item'[b] = item[b]
  BY <1>1
<1>3. n \in FileNames
  BY OutputsNamed
<1>4. cuts \in [Items -> SUBSET (1 .. MaxSegs)] /\ cuts' \in [Items -> SUBSET (1 .. MaxSegs)]
  BY DEF TypeInv, TypeOK
<1>5. CASE ~(WriteDone(a) /\ tmp[i][n] # NoFile /\ n # Concat)
  <2>1. \A j \in Items : \A m \in FileNames : m # Concat => final'[j][m] = final[j][m]
    BY <1>5, FinalSteps
  <2>2. \A j \in Items : Streamable(j)' = Streamable(j)
    BY <2>1 DEF Streamable
  <2>3. n = Concat => n.kind # "segment"
    BY DEF Concat
  <2>4. \A j \in Items : cuts'[j] = cuts[j]
    BY <1>5, <2>3, CutsSteps
  <2>5. cuts' = cuts
    BY <1>4, <2>4
  <2> QED BY <1>2, <2>2, <2>5, LedgerStays
<1>6. CASE WriteDone(a) /\ tmp[i][n] # NoFile /\ n # Concat
  <2>1. /\ final'[i][n] # NoFile
        /\ \A j \in Items : \A m \in FileNames : m # Concat /\ ~(j = i /\ m = n) => final'[j][m] = final[j][m]
    <3>1. final' = [final EXCEPT ![i][n] = tmp[i][n]] /\ final \in [Items -> [FileNames -> Files \cup {NoFile}]]
      BY <1>6 DEF WriteDone, TypeInv, TypeOK
    <3> QED BY <1>1, <1>3, <1>6, <3>1
  <2>2. \A j \in Items : Streamable(j)' = IF j = i THEN Streamable(j) \cup {n} ELSE Streamable(j)
    BY <1>3, <1>6, <2>1 DEF Streamable
  <2>3. Offered' = [Offered EXCEPT ![i] = @ \cup {n}]
    BY <1>1, <2>2 DEF Offered
  <2>4. AtWork[i] # {} /\ AtWork' = AtWork
    BY <1>1, <1>2 DEF AtWork
  <2>5. Said' = Said /\ Named' = Named /\ Running' = Running
    BY DEF Said, Named, Running
  <2>6. Odd' = Odd \/ Odd' = Odd \cup {i}
    <3>1. \A j \in Items \ {i} : cuts'[j] = cuts[j] /\ Streamable(j)' = Streamable(j)
      BY <2>2, CutsSteps
    <3>2. \A j \in Items : cuts[j] \subseteq cuts'[j] /\ Streamable(j) \subseteq Streamable(j)'
      BY <1>1, <2>2, CutsSteps
    <3>3. \A j \in Items \ {i} : j \in Odd' <=> j \in Odd
      BY <3>1 DEF Odd, OneFormat
    <3>4. \A j \in Items : j \in Odd => j \in Odd'
      BY <3>2 DEF Odd, OneFormat
    <3>5. Odd \subseteq Items /\ Odd' \subseteq Items
      BY DEF Odd
    <3> HIDE DEF i
    <3> QED BY <1>1, <3>3, <3>4, <3>5
  <2> HIDE DEF i, n
  <2> QED BY <1>1, <1>3, <2>3, <2>4, <2>5, <2>6 DEF Ledger!Publish, Ledger!Next
<1> QED BY <1>5, <1>6

LEMMA LedgerTranscode ==
  ASSUME KeptInv, KeptInv', NEW a \in Actors, TranscodeStep(a)
  PROVE  Ledger!Next \/ UNCHANGED Ledger!lvars
<1>1. TypeInv /\ TypeInv'
  BY DEF KeptInv
<1>2. CASE OpenTmp(a) \/ OpenFails(a) \/ WriteDone(a) \/ WriteFails(a) \/ Split(a) \/ SplitFails(a)
           \/ RemoveConcat(a)
  <2>1. pc[a] \in Busy /\ UNCHANGED <<row, phase>>
    BY <1>2 DEF OpenTmp, OpenFails, WriteDone, WriteFails, Split, SplitFails, RemoveConcat, Busy
  <2>2. pc'[a] \in Busy
    BY <1>1, <1>2 DEF OpenTmp, OpenFails, WriteDone, Proceed, WriteFails, Split, SplitFails,
       RemoveConcat, Goto, AfterFailure, Busy, TypeInv, TypeOK
  <2> QED BY <1>1, <2>1, <2>2, LedgerWrites
<1> QED BY <1>1, <1>2, LedgerBegins, LedgerFails, LedgerReady DEF TranscodeStep

\* The process dies with its transcodes, whatever they were at.
LEMMA LedgerDies ==
  ASSUME TypeInv, Running, NEW p \in {"down", "panicked"}, Dies(p)
  PROVE  Ledger!Next
<1>1. AtWork' = [i \in Items |-> {}]
  BY DEF Dies, AtWork, Busy
<1>2. /\ Said' = Said /\ Named' = Named /\ Offered' = Offered /\ Odd' = Odd
      /\ Running' = FALSE
  BY DEF Dies, aux, Said, Named, Offered, Odd, OneFormat, Streamable, Running
<1> QED BY <1>1, <1>2 DEF Ledger!Dies, Ledger!Next

LEMMA LedgerRestarts ==
  ASSUME TypeInv, Restart
  PROVE  Ledger!Next
<1>1. /\ final \in [Items -> [FileNames -> Files \cup {NoFile}]] /\ row \in [Items -> Rows]
      /\ ~Running /\ Running'
  BY DEF TypeInv, TypeOK, Restart, Running
<1>2. AtWork' = AtWork
  BY DEF Restart, procs, AtWork
<1>3. Offered' = Offered /\ Odd' = Odd
  <2>1. \A i \in Items : Streamable(i)' = Streamable(i)
    BY <1>1 DEF Restart, Streamable
  <2> QED BY <2>1 DEF Restart, aux, Offered, Odd, OneFormat
<1>4. \A i \in Items : [row[i] EXCEPT !.status = "pending"].status = "pending"
  BY <1>1, StatusSet
<1>5. /\ Said' = [i \in Items |-> IF Said[i] = "in_progress" THEN "pending" ELSE Said[i]]
      /\ Named' = Named
  BY <1>1, <1>4 DEF Restart, Said, Named
<1> QED BY <1>1, <1>2, <1>3, <1>5 DEF Ledger!Restart, Ledger!Next

\* The goroutines outside transcodes touch one row, if any.
LEMMA OneRowEach ==
  ASSUME TypeInv,
         \/ \E r \in Requests : RequestStep(r) \/ \E i \in Items : Play(r, i)
         \/ \E w \in Workers : TakeJob(w) \/ WorkerReturns(w)
         \/ WarmStep /\ ~WarmPanics
         \/ \E page \in SUBSET Items : WarmStart(page)
  PROVE  OneRow
<1>1. ASSUME NEW r \in Requests, DeleteRow(r) \/ InsertRow(r) PROVE OneRow
  <2>1. item[r] \in Items
    BY <1>1 DEF DeleteRow, InsertRow, TypeInv, ActorOK, Actors
  <2> QED BY <1>1, <2>1 DEF DeleteRow, InsertRow, OneRow, Drops, Creates
<1>2. ASSUME WarmDelete \/ WarmInsert PROVE OneRow
  <2>1. warm.item \in Items
    BY <1>2 DEF WarmDelete, WarmInsert, TypeInv, WarmOK
  <2> QED BY <1>2, <2>1 DEF WarmDelete, WarmInsert, OneRow, Drops, Creates
<1>3. CASE UNCHANGED row
  BY <1>3 DEF OneRow
<1> QED BY <1>1, <1>2, <1>3
   DEF RequestStep, Serve, Play, TakeJob, WorkerReturns, WarmStep, WarmCheck, WarmEnqueue, WarmStart

LEMMA NextLedger ==
  ASSUME KeptInv, KeptInv', [Next]_vars
  PROVE  Ledger!Next \/ UNCHANGED Ledger!lvars
<1>1. TypeInv /\ TypeInv'
  BY DEF KeptInv
<1>2. ASSUME NEW a \in Actors, TranscodeStep(a) PROVE Ledger!Next \/ UNCHANGED Ledger!lvars
  BY <1>2, LedgerTranscode
<1>3. CASE \/ \E r \in Requests : RequestStep(r) \/ \E i \in Items : Play(r, i)
           \/ \E w \in Workers : TakeJob(w) \/ WorkerReturns(w)
           \/ WarmStep /\ ~WarmPanics
           \/ \E page \in SUBSET Items : WarmStart(page)
  <2>1. (\E page \in SUBSET Items : WarmStart(page)) => ~WarmPanics
    BY DEF WarmStart, WarmPanics, Resting
  <2>2. AsideStep
    BY <1>1, <1>3, <2>1, RequestAside, WorkerAside, WarmAside
  <2>3. OneRow
    BY <1>1, <1>3, OneRowEach
  <2> QED BY <1>1, <2>2, <2>3, LedgerAside
<1>4. CASE StopWorkers \/ UNCHANGED vars
  <2>1. UNCHANGED <<row, disk, procs, aux>> /\ Running' = Running
    BY <1>4 DEF StopWorkers, vars, Running
  <2>2. /\ Said' = Said /\ Named' = Named /\ Offered' = Offered /\ Odd' = Odd
        /\ AtWork' = AtWork
    BY <2>1 DEF Said, Named, Offered, Odd, OneFormat, Streamable, AtWork, disk, procs, aux
  <2> QED BY <2>1, <2>2 DEF Ledger!lvars
<1>5. CASE WarmPanics \/ Exit \/ Crash
  <2>1. Running /\ \E p \in {"down", "panicked"} : Dies(p)
    BY <1>5 DEF WarmPanics, Exit, Crash, Running
  <2> QED BY <1>1, <2>1, LedgerDies
<1>6. CASE Restart
  BY <1>1, <1>6, LedgerRestarts
<1> QED BY <1>2, <1>3, <1>4, <1>5, <1>6 DEF Next, Lifecycle

LEMMA InitLedger == Init => Ledger!Init
<1> SUFFICES ASSUME Init PROVE Ledger!Init
  OBVIOUS
<1>1. /\ Said = [i \in Items |-> "none"] /\ Named = [i \in Items |-> {}]
  BY DEF Init, Said, Named, NoRow
<1>2. Offered = [i \in Items |-> {}] /\ AtWork = [i \in Items |-> {}] /\ Running = TRUE
  BY DEF Init, Offered, Streamable, AtWork, Busy, Running
<1>3. Odd = {}
  <2>1. \A i \in Items : Streamable(i) = {} /\ cuts[i] = {}
    BY DEF Init, Streamable
  <2> QED BY <2>1 DEF Odd, OneFormat
<1> QED BY <1>1, <1>2, <1>3 DEF Ledger!Init

\* TranscodeCache implements CacheLedger: to those who read rows and files, published
\* files stay, a row turns ready in one step in which somebody at work on it ends and with
\* every file it names in place unless its item is odd, an item is made odd by what is
\* published alone, and a crash loses nothing but who was at work.
THEOREM Implements == Spec => ImplementsLedger
<1>1. KeptInv /\ KeptInv' /\ [Next]_vars => [Ledger!Next]_(Ledger!lvars)
  BY NextLedger
<1> QED BY <1>1, InitLedger, InitKept, KeptStep, PTL DEF Spec, ImplementsLedger, Ledger!Spec

=============================================================================
