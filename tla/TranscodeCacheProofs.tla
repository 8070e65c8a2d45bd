------------------------ MODULE TranscodeCacheProofs ------------------------
(***************************************************************************)
(* Theorems about TranscodeCache, for every set of items, workers and      *)
(* requests and every queue capacity.                                      *)
(***************************************************************************)
EXTENDS TranscodeCache, TLAPS

\* A goroutine past MarkInProgress has an item and is at one of its outputs; an
\* ffmpeg runs only in "write"; a joined file is looked at before its first segment;
\* a dead process has no goroutine at work.
ActorOK(a) ==
  /\ pc[a] \in Busy => item[a] \in Items /\ step[a] \in 1 .. OutputCount(a)
  /\ pc[a] \in {"mark", "delete", "insert", "serve"} => item[a] \in Items
  /\ fd[a] # "none" => pc[a] = "write"
  /\ pc[a] \in {"split", "unjoinOK", "unjoinFail"} => Joins(a) /\ step[a] > 1
  /\ pc[a] = "split" => step[a] = 2
  /\ ~Running => pc[a] = "idle"

WarmOK == warm.pc \in {"delete", "insert", "enqueue"} => warm.item \in Items

TypeInv == TypeOK /\ (\A a \in Actors : ActorOK(a)) /\ WarmOK

\* The k-th output is a file name, and the joined file is the first or none.
LEMMA OutputType ==
  ASSUME NEW a \in Actors, plan[a] \in Plans, NEW k \in 1 .. OutputCount(a)
  PROVE  /\ Output(a, k) \in FileNames
         /\ OutputCount(a) \in 1 .. MaxSegs + 1
         /\ Output(a, k) = Concat => Joins(a) /\ k = 1
<1> DEFINE n == plan[a].segs
           f == plan[a].fmt
<1>1. n \in 1 .. MaxSegs /\ f \in Formats /\ MaxSegs \in Nat
  BY SizesAssumption DEF Plans
<1>2. OutputCount(a) = IF Joins(a) THEN n + 1 ELSE n
  BY DEF OutputCount
<1>3. CASE ~Segmented(a)
  <2>1. Output(a, k) = Audio(f)
    BY <1>3 DEF Output
  <2>2. ~Joins(a)
    BY <1>3 DEF Joins
  <2> QED BY <2>1, <2>2, <1>1, <1>2 DEF FileNames, Audio, Concat
<1>4. CASE Segmented(a) /\ ~Joins(a)
  <2>1. Output(a, k) = Segment(k - 1, f)
    BY <1>4 DEF Output
  <2>2. k - 1 \in 0 .. MaxSegs - 1
    BY <1>1, <1>2, <1>4
  <2> QED BY <2>1, <2>2, <1>1, <1>2, <1>4 DEF FileNames, Segment, Concat
<1>5. CASE Joins(a)
  <2>0. Segmented(a)
    BY <1>5 DEF Joins
  <2>1. CASE k = 1
    <3>1. Output(a, k) = Concat
      BY <1>5, <2>0, <2>1 DEF Output
    <3> QED BY <3>1, <2>1, <1>1, <1>2, <1>5 DEF FileNames
  <2>2. CASE k # 1
    <3>1. Output(a, k) = Segment(k - 2, f)
      BY <1>5, <2>0, <2>2 DEF Output
    <3>2. k - 2 \in 0 .. MaxSegs - 1
      BY <1>1, <1>2, <1>5, <2>2
    <3> QED BY <3>1, <3>2, <1>1, <1>2, <1>5 DEF FileNames, Segment, Concat
  <2> QED BY <2>1, <2>2
<1> QED BY <1>3, <1>4, <1>5 DEF Joins

-----------------------------------------------------------------------------
(* Types. *)

LEMMA Constants ==
  /\ MaxSegs \in Nat \ {0} /\ QueueCap \in Nat \ {0}
  /\ "mp3" \in Formats /\ NoItem \notin Items
  /\ NoRow \in Rows /\ NoPlan \in Plans /\ NoFile \notin Files
  /\ Concat \in FileNames
BY SizesAssumption, ItemsAssumption, ActorsAssumption
DEF NoRow, Rows, Statuses, NoPlan, Plans, NoFile, Files, Sources, FileNames

LEMMA Shapes ==
  ASSUME NEW a \in Actors, plan[a] \in Plans
  PROVE  /\ Src(a) \in Sources
         /\ plan[a].segs \in 1 .. MaxSegs
         /\ plan[a].fmt \in Formats
         /\ OutputCount(a) \in 1 .. MaxSegs + 1
         /\ Joins(a) => OutputCount(a) > 1
<1>1. Src(a) \in Sources
  BY DEF Src, Sources
<1>2. plan[a].segs \in 1 .. MaxSegs /\ plan[a].fmt \in Formats
  BY DEF Plans
<1> QED BY <1>1, <1>2, Constants DEF OutputCount

\* What an attempt decides when it begins is a plan; it cuts only what is long enough.
LEMMA DecidedType ==
  ASSUME NEW i \in Items, NEW s \in Sources, NEW p \in Decided(i, s)
  PROVE  /\ p \in Plans
         /\ p.cut => Segs[i][s] > 1
<1>1. Segs[i][s] \in 1 .. MaxSegs /\ Fmts[i][s] \subseteq Formats
  BY ItemsAssumption
<1>2. CASE p \in [cut : {FALSE}, segs : {1}, fmt : Fmts[i][s]]
  <2>1. PICK f \in Formats : p = [cut |-> FALSE, segs |-> 1, fmt |-> f]
    BY <1>1, <1>2
  <2>2. p \in Plans
    BY <2>1, Constants DEF Plans
  <2>3. p.cut = FALSE
    BY <2>1
  <2> QED BY <2>2, <2>3
<1>3. CASE Segs[i][s] # 1 /\ p \in [cut : {TRUE}, segs : {Segs[i][s]}, fmt : Fmts[i][s]]
  <2> DEFINE n == Segs[i][s]
  <2>1. PICK f \in Formats : p = [cut |-> TRUE, segs |-> n, fmt |-> f]
    BY <1>1, <1>3
  <2>2. n \in 1 .. MaxSegs /\ n > 1
    BY <1>1, <1>3, Constants
  <2> HIDE DEF n
  <2>3. p \in Plans
    BY <2>1, <2>2 DEF Plans
  <2> QED BY <2>2, <2>3 DEF n
<1> QED BY <1>2, <1>3 DEF Decided

LEMMA InitTypeInv == Init => TypeInv
<1> SUFFICES ASSUME Init PROVE TypeInv
  OBVIOUS
<1>1. TypeOK
  BY Constants DEF Init, TypeOK, ActorPCs, Busy, Warms, Resting, NoUrl
<1>2. \A a \in Actors : ActorOK(a)
  BY DEF Init, ActorOK, Busy, Running
<1>3. WarmOK
  BY DEF Init, WarmOK, Resting
<1> QED BY <1>1, <1>2, <1>3 DEF TypeInv

\* What does not change keeps its type; a goroutine that does not move, and whose
\* ffmpeg at most stops writing to a name, stays as it should be.
LEMMA ActorFrame ==
  ASSUME NEW a \in Actors, ActorOK(a), Running' = Running,
         pc'[a] = pc[a], item'[a] = item[a], step'[a] = step[a], plan'[a] = plan[a],
         fd'[a] # "none" => fd[a] # "none"
  PROVE  ActorOK(a)'
BY DEF ActorOK, Joins, Segmented, OutputCount

LEMMA StatusType ==
  ASSUME row \in [Items -> Rows], NEW i \in Items, NEW s \in Statuses
  PROVE  [row EXCEPT ![i].status = s] \in [Items -> Rows]
<1>1. row[i] \in Rows
  OBVIOUS
<1>2. [row[i] EXCEPT !.status = s] \in Rows
  BY <1>1 DEF Rows
<1> QED BY <1>2

LEMMA SetStatusType ==
  ASSUME row \in [Items -> Rows], NEW i \in Items, NEW s \in Statuses, SetStatus(i, s)
  PROVE  row' \in [Items -> Rows]
BY StatusType DEF SetStatus

LEMMA RemoveTmpType ==
  ASSUME TypeOK, NEW a \in Actors, item[a] \in Items, NEW n \in FileNames, RemoveTmp(a, n)
  PROVE  /\ tmp' \in [Items -> [FileNames -> Files \cup {NoFile}]]
         /\ fd' \in [Actors -> {"none", "tmp", "final", "gone"}]
         /\ fd'[a] = "none"
         /\ \A b \in Actors : fd'[b] # "none" => fd[b] # "none"
BY DEF RemoveTmp, TypeOK, Writers

LEMMA RenameTmpType ==
  ASSUME TypeOK, NEW a \in Actors, item[a] \in Items, NEW n \in FileNames, RenameTmp(a, n)
  PROVE  /\ tmp' \in [Items -> [FileNames -> Files \cup {NoFile}]]
         /\ fd' \in [Actors -> {"none", "tmp", "final", "gone"}]
         /\ fd'[a] = "none"
         /\ \A b \in Actors : fd'[b] # "none" => fd[b] # "none"
BY DEF RenameTmp, TypeOK, Writers

LEMMA DropListType ==
  ASSUME TypeOK, NEW a \in Actors, item[a] \in Items, Target(a) \in FileNames, DropList(a)
  PROVE  list' \in [Items -> [FileNames -> {"none", "ours", "left"}]]
BY DEF DropList, TypeOK

\* The steps of one transcode.
LEMMA TranscodeTypeInv ==
  ASSUME TypeInv, NEW a \in Actors, TranscodeStep(a)
  PROVE  TypeInv'
<1>1. TypeOK /\ WarmOK /\ \A b \in Actors : ActorOK(b)
  BY DEF TypeInv
<1>2. pc[a] \in Busy \cup {"mark"} /\ pc[a] # "idle"
  BY DEF TranscodeStep, MarkInProgress, OpenTmp, OpenFails, WriteDone, WriteFails,
         Split, SplitFails, RemoveConcat, MarkReady, MarkFailed, Busy
<1>3. item[a] \in Items /\ Running
  BY <1>1, <1>2 DEF ActorOK, Busy
<1>4. /\ OutputCount(a) \in 1 .. MaxSegs + 1 /\ MaxSegs \in Nat
      /\ Src(a) \in Sources
      /\ plan[a] \in Plans
      /\ plan[a].segs \in 1 .. MaxSegs
      /\ plan[a].fmt \in Formats
      /\ Joins(a) => OutputCount(a) > 1
  BY <1>1, Shapes, Constants DEF TypeOK
<1>5. ASSUME pc[a] # "mark"
      PROVE  step[a] \in 1 .. OutputCount(a) /\ Target(a) \in FileNames
  BY <1>1, <1>2, <1>4, <1>5, OutputType DEF ActorOK, Target
\* What is left to show of each action: the types of what it changes, and that
\* the goroutine it moves is as it should be.
<1> DEFINE Types == /\ row' \in [Items -> Rows]
                    /\ tmp' \in [Items -> [FileNames -> Files \cup {NoFile}]]
                    /\ final' \in [Items -> [FileNames -> Files \cup {NoFile}]]
                    /\ list' \in [Items -> [FileNames -> {"none", "ours", "left"}]]
                    /\ pc' \in [Actors -> ActorPCs]
                    /\ item' \in [Actors -> Items \cup {NoItem}]
                    /\ step' \in [Actors -> 0 .. MaxSegs + 1]
                    /\ plan' \in [Actors -> Plans]
                    /\ fd' \in [Actors -> {"none", "tmp", "final", "gone"}]
                    /\ overlapped' \in SUBSET Items
                    /\ cuts' \in [Items -> SUBSET (1 .. MaxSegs)]
           Others == /\ UNCHANGED <<queue, warm, url, phase>>
                     /\ \A b \in Actors \ {a} :
                          /\ pc'[b] = pc[b] /\ item'[b] = item[b]
                          /\ step'[b] = step[b] /\ plan'[b] = plan[b]
                          /\ fd'[b] # "none" => fd[b] # "none"
<1>6. ASSUME Types, Others, ActorOK(a)'
      PROVE  TypeInv'
  <2>1. TypeOK'
    BY <1>1, <1>6 DEF TypeOK
  <2>2. Running' = Running
    BY <1>6 DEF Running
  <2>3. \A b \in Actors : ActorOK(b)'
    BY <1>1, <1>6, <2>2, ActorFrame
  <2>4. WarmOK'
    BY <1>1, <1>6 DEF WarmOK
  <2> QED BY <2>1, <2>3, <2>4 DEF TypeInv
<1>7. CASE MarkInProgress(a)
  <2>1. row' \in [Items -> Rows]
    BY <1>1, <1>3, <1>7, SetStatusType DEF MarkInProgress, TypeOK, Statuses
  <2>2. pc' = [pc EXCEPT ![a] = "open"] /\ step' = [step EXCEPT ![a] = 1]
    BY <1>7 DEF MarkInProgress, Begin, Goto
  <2>3. PICK p \in Plans : plan' = [plan EXCEPT ![a] = p]
    BY <1>3, <1>4, <1>7, DecidedType DEF MarkInProgress, Begin
  <2>4. UNCHANGED <<tmp, final, list, fd, queue, item, warm, url, phase, cuts>>
    BY <1>7 DEF MarkInProgress, disk
  <2>5. overlapped' \in SUBSET Items
    BY <1>1, <1>3, <1>7 DEF MarkInProgress, Begin, TypeOK
  <2>6. Types
    BY <1>1, <1>4, <2>1, <2>2, <2>3, <2>4, <2>5 DEF TypeOK, ActorPCs, Busy
  <2>7. Others
    BY <1>1, <2>2, <2>3, <2>4 DEF TypeOK
  <2>8. /\ pc'[a] = "open" /\ step'[a] = 1 /\ fd'[a] = "none" /\ item'[a] = item[a]
        /\ plan'[a] \in Plans
    BY <1>1, <1>7, <2>2, <2>3, <2>4 DEF TypeOK, ActorOK, MarkInProgress
  <2>9. OutputCount(a)' \in 1 .. MaxSegs + 1
    BY <1>4, <2>8 DEF OutputCount, Joins, Segmented, Plans
  <2>10. ActorOK(a)'
    BY <1>3, <1>4, <2>4, <2>8, <2>9 DEF ActorOK, Busy, Running
  <2> QED BY <1>6, <2>6, <2>7, <2>10
<1>8. CASE OpenTmp(a)
  <2>1. fd' = [fd EXCEPT ![a] = "tmp"] /\ pc' = [pc EXCEPT ![a] = "write"] /\ pc[a] = "open"
    BY <1>8 DEF OpenTmp, Goto
  <2>2. UNCHANGED <<row, final, queue, item, step, plan, warm, url, phase, overlapped, cuts>>
    BY <1>8 DEF OpenTmp, aux
  <2>3. tmp' \in [Items -> [FileNames -> Files \cup {NoFile}]]
    <3>1. PICK c \in BOOLEAN :
            tmp' = [tmp EXCEPT ![item[a]][Target(a)] = [src |-> Src(a), clean |-> c]]
      BY <1>8 DEF OpenTmp
    <3>2. [src |-> Src(a), clean |-> c] \in Files
      BY <1>4 DEF Files
    <3> QED BY <1>1, <1>3, <1>5, <2>1, <3>1, <3>2 DEF TypeOK
  <2>4. list' \in [Items -> [FileNames -> {"none", "ours", "left"}]]
    BY <1>1, <1>3, <1>5, <1>8, <2>1 DEF OpenTmp, TypeOK
  <2>5. Types
    BY <1>1, <2>1, <2>2, <2>3, <2>4 DEF TypeOK, ActorPCs, Busy
  <2>6. Others
    BY <1>1, <2>1, <2>2 DEF TypeOK
  <2>7. pc'[a] = "write" /\ step'[a] = step[a] /\ item'[a] = item[a] /\ plan'[a] = plan[a]
    BY <1>1, <2>1, <2>2 DEF TypeOK
  <2>8. OutputCount(a)' = OutputCount(a)
    BY <2>7 DEF OutputCount, Joins, Segmented
  <2>9. ActorOK(a)'
    BY <1>3, <1>5, <2>1, <2>2, <2>7, <2>8 DEF ActorOK, Busy, Running
  <2> QED BY <1>6, <2>5, <2>6, <2>9
\* A failed output, by whichever path.
<1>9. ASSUME UNCHANGED <<row, final, queue, item, step, plan, warm, url, phase, overlapped, cuts>>,
             pc' = [pc EXCEPT ![a] = AfterFailure(a)],
             pc[a] \in {"open", "write"},
             tmp' \in [Items -> [FileNames -> Files \cup {NoFile}]],
             DropList(a) \/ UNCHANGED list,
             fd' \in [Actors -> {"none", "tmp", "final", "gone"}],
             fd'[a] = "none",
             \A b \in Actors : fd'[b] # "none" => fd[b] # "none"
      PROVE  TypeInv'
  <2>1. AfterFailure(a) \in {"unjoinFail", "failing"}
    BY DEF AfterFailure
  <2>7. list' \in [Items -> [FileNames -> {"none", "ours", "left"}]]
    <3>1. CASE DropList(a)
      BY <1>1, <1>3, <1>5, <1>9, <3>1, DropListType
    <3>2. CASE UNCHANGED list
      BY <1>1, <3>2 DEF TypeOK
    <3> QED BY <1>9, <3>1, <3>2
  <2>2. Types
    BY <1>1, <1>9, <2>1, <2>7 DEF TypeOK, ActorPCs, Busy
  <2>3. Others
    BY <1>1, <1>9 DEF TypeOK
  <2>4. /\ pc'[a] = AfterFailure(a) /\ step'[a] = step[a]
        /\ item'[a] = item[a] /\ plan'[a] = plan[a]
    BY <1>1, <1>9 DEF TypeOK
  <2>5. OutputCount(a)' = OutputCount(a) /\ Joins(a)' = Joins(a)
    BY <2>4 DEF OutputCount, Joins, Segmented
  <2>6. ActorOK(a)'
    BY <1>3, <1>5, <1>9, <2>1, <2>4, <2>5 DEF ActorOK, Busy, Running, AfterFailure
  <2> QED BY <1>6, <2>2, <2>3, <2>6
<1>10. CASE OpenFails(a)
  <2>1. UNCHANGED <<row, final, queue, item, step, plan, warm, url, phase, overlapped, cuts>>
        /\ pc' = [pc EXCEPT ![a] = AfterFailure(a)] /\ pc[a] = "open"
    BY <1>10 DEF OpenFails, Goto, aux
  <2>2. CASE UNCHANGED <<tmp, list, fd>>
    <3>1. /\ tmp' \in [Items -> [FileNames -> Files \cup {NoFile}]]
          /\ fd' \in [Actors -> {"none", "tmp", "final", "gone"}]
          /\ fd'[a] = "none"
      BY <1>1, <2>1, <2>2 DEF TypeOK, ActorOK
    <3> QED BY <1>9, <2>1, <2>2, <3>1
  <2>3. CASE RemoveTmp(a, Target(a)) /\ DropList(a)
    BY <1>1, <1>3, <1>5, <1>9, <2>1, <2>3, RemoveTmpType
  <2> QED BY <1>10, <2>2, <2>3 DEF OpenFails
<1>11. CASE WriteFails(a)
  <2>1. UNCHANGED <<row, final, queue, item, step, plan, warm, url, phase, overlapped, cuts>>
        /\ pc' = [pc EXCEPT ![a] = AfterFailure(a)] /\ pc[a] = "write"
    BY <1>11 DEF WriteFails, Goto, aux
  <2>2. RemoveTmp(a, Target(a)) /\ DropList(a)
    BY <1>11 DEF WriteFails
  <2> QED BY <1>1, <1>3, <1>5, <1>9, <2>1, <2>2, RemoveTmpType
<1>12. CASE WriteDone(a)
  <2>1. pc[a] = "write" /\ DropList(a)
        /\ UNCHANGED <<row, queue, item, plan, warm, url, phase, overlapped>>
    BY <1>12 DEF WriteDone
  <2>2. CASE tmp[item[a]][Target(a)] = NoFile
    <3>1. RemoveTmp(a, Target(a)) /\ UNCHANGED <<final, step, cuts>>
          /\ pc' = [pc EXCEPT ![a] = AfterFailure(a)]
      BY <1>12, <2>2 DEF WriteDone, Goto
    <3> QED BY <1>1, <1>3, <1>5, <1>9, <2>1, <3>1, RemoveTmpType
  <2>3. CASE tmp[item[a]][Target(a)] # NoFile
    <3>1. /\ RenameTmp(a, Target(a)) /\ Proceed(a)
          /\ final' = [final EXCEPT ![item[a]][Target(a)] = tmp[item[a]][Target(a)]]
          /\ cuts' = IF Target(a).kind = "segment"
                     THEN [cuts EXCEPT ![item[a]] = @ \cup {plan[a].segs}] ELSE cuts
      BY <1>12, <2>3 DEF WriteDone
    <3>2. /\ tmp' \in [Items -> [FileNames -> Files \cup {NoFile}]]
          /\ fd' \in [Actors -> {"none", "tmp", "final", "gone"}]
          /\ fd'[a] = "none"
          /\ \A b \in Actors : fd'[b] # "none" => fd[b] # "none"
      BY <1>1, <1>3, <1>5, <2>1, <3>1, RenameTmpType
    <3>3. /\ final' \in [Items -> [FileNames -> Files \cup {NoFile}]]
          /\ list' \in [Items -> [FileNames -> {"none", "ours", "left"}]]
      BY <1>1, <1>3, <1>5, <2>1, <3>1, DropListType DEF TypeOK
    <3>4. cuts' \in [Items -> SUBSET (1 .. MaxSegs)]
      BY <1>1, <1>3, <1>4, <3>1 DEF TypeOK
    <3>5. PICK p \in {"open", "split", "unjoinOK", "commit"}, k \in {step[a], step[a] + 1} :
            /\ pc' = [pc EXCEPT ![a] = p] /\ step' = [step EXCEPT ![a] = k]
            /\ k <= OutputCount(a)
            /\ p = "unjoinOK" => Joins(a) /\ k = OutputCount(a)
            /\ p = "split" => Joins(a) /\ k = 2
      <4>1. step = [step EXCEPT ![a] = step[a]]
        BY <1>1 DEF TypeOK
      <4>2. step[a] \in Nat /\ OutputCount(a) \in Nat /\ step[a] <= OutputCount(a)
        BY <1>4, <1>5, <2>1
      <4>3. CASE step[a] < OutputCount(a)
        BY <3>1, <4>2, <4>3 DEF Proceed, Goto
      <4>4. CASE ~(step[a] < OutputCount(a))
        BY <3>1, <4>1, <4>2, <4>4 DEF Proceed, Goto
      <4> QED BY <4>3, <4>4
    <3>6. step[a] \in 1 .. OutputCount(a) /\ k \in 1 .. OutputCount(a)
          /\ k \in 0 .. MaxSegs + 1
      BY <1>4, <1>5, <2>1, <3>5
    <3>7. Types
      BY <1>1, <2>1, <3>2, <3>3, <3>4, <3>5, <3>6 DEF TypeOK, ActorPCs, Busy
    <3>8. Others
      BY <1>1, <2>1, <3>2, <3>5 DEF TypeOK
    <3>9. pc'[a] = p /\ step'[a] = k /\ item'[a] = item[a] /\ plan'[a] = plan[a]
      BY <1>1, <2>1, <3>5 DEF TypeOK
    <3>10. OutputCount(a)' = OutputCount(a) /\ Joins(a)' = Joins(a)
      BY <3>9 DEF OutputCount, Joins, Segmented
    <3>11. ActorOK(a)'
      BY <1>3, <1>4, <2>1, <3>2, <3>5, <3>6, <3>9, <3>10 DEF ActorOK, Busy, Running
    <3> QED BY <1>6, <3>7, <3>8, <3>11
  <2> QED BY <2>2, <2>3
\* A joined file is looked at, or is not there any more: the attempt is still at its
\* second output.
<1>13. ASSUME pc[a] = "split",
              NEW p \in {"open", "unjoinFail", "failing"}, pc' = [pc EXCEPT ![a] = p],
              NEW q \in Plans, plan' = [plan EXCEPT ![a] = q], q.cut = plan[a].cut,
              UNCHANGED <<row, disk, queue, item, step, warm, url, phase, aux>>
       PROVE  TypeInv'
  <2>1. UNCHANGED <<tmp, final, list, fd, overlapped, cuts>>
    BY <1>13 DEF disk, aux
  <2>2. Types
    BY <1>1, <1>13, <2>1 DEF TypeOK, ActorPCs, Busy
  <2>3. Others
    BY <1>1, <1>13, <2>1 DEF TypeOK
  <2>4. /\ pc'[a] = p /\ step'[a] = 2 /\ item'[a] = item[a] /\ plan'[a] = q /\ fd'[a] = "none"
        /\ Joins(a)
    BY <1>1, <1>13, <2>1 DEF TypeOK, ActorOK
  <2>5. Joins(a)' /\ OutputCount(a)' = q.segs + 1
    BY <1>13, <2>4 DEF OutputCount, Joins, Segmented
  <2>6. q.segs \in 1 .. MaxSegs
    BY DEF Plans
  <2>7. ActorOK(a)'
    BY <1>3, <1>4, <1>13, <2>4, <2>5, <2>6 DEF ActorOK, Busy, Running
  <2> QED BY <1>6, <2>2, <2>3, <2>7
<1>14. CASE Split(a)
  <2>1. PICK n \in 1 .. MaxSegs, f \in Fmts[item[a]]["all"] :
          plan' = [plan EXCEPT ![a].segs = n, ![a].fmt = f]
    BY <1>14 DEF Split
  <2>2. f \in Formats
    BY <1>3, ItemsAssumption DEF Sources
  <2> DEFINE q == [plan[a] EXCEPT !.segs = n, !.fmt = f]
  <2>3. q \in Plans /\ q.cut = plan[a].cut
    BY <1>4, <2>2 DEF Plans
  <2>4. plan' = [plan EXCEPT ![a] = q]
    BY <1>1, <2>1 DEF TypeOK
  <2>5. pc[a] = "split" /\ pc' = [pc EXCEPT ![a] = "open"]
    BY <1>14 DEF Split, Goto
  <2>6. UNCHANGED <<row, disk, queue, item, step, warm, url, phase, aux>>
    BY <1>14 DEF Split
  <2> HIDE DEF q
  <2> QED BY <1>13, <2>3, <2>4, <2>5, <2>6
<1>15. CASE SplitFails(a)
  <2>1. PICK p \in {"unjoinFail", "failing"} : pc' = [pc EXCEPT ![a] = p]
    BY <1>15 DEF SplitFails, Goto
  <2>2. plan' = [plan EXCEPT ![a] = plan[a]] /\ pc[a] = "split"
        /\ UNCHANGED <<row, disk, queue, item, step, warm, url, phase, aux>>
    BY <1>1, <1>15 DEF SplitFails, TypeOK
  <2> QED BY <1>4, <1>13, <2>1, <2>2
<1>16. CASE RemoveConcat(a)
  <2>1. /\ pc[a] \in {"unjoinOK", "unjoinFail"}
        /\ final' = [final EXCEPT ![item[a]][Concat] = NoFile]
        /\ UNCHANGED <<row, tmp, list, queue, item, step, plan, warm, url, phase, overlapped, cuts>>
    BY <1>16 DEF RemoveConcat, aux
  <2>2. PICK p \in {"commit", "failing"} : pc' = [pc EXCEPT ![a] = p]
    BY <1>16 DEF RemoveConcat, Goto
  <2>3. /\ fd' \in [Actors -> {"none", "tmp", "final", "gone"}]
        /\ \A b \in Actors : fd'[b] # "none" => fd[b] # "none"
    BY <1>1, <1>16 DEF RemoveConcat, TypeOK, Writers
  <2>4. final' \in [Items -> [FileNames -> Files \cup {NoFile}]]
    BY <1>1, <1>3, <2>1, Constants DEF TypeOK
  <2>5. Types
    BY <1>1, <2>1, <2>2, <2>3, <2>4 DEF TypeOK, ActorPCs, Busy
  <2>6. Others
    BY <1>1, <2>1, <2>2, <2>3 DEF TypeOK
  <2>7. /\ pc'[a] = p /\ step'[a] = step[a] /\ item'[a] = item[a] /\ plan'[a] = plan[a]
        /\ fd'[a] = "none"
    BY <1>1, <2>1, <2>2, <2>3 DEF TypeOK, ActorOK
  <2>8. OutputCount(a)' = OutputCount(a)
    BY <2>7 DEF OutputCount, Joins, Segmented
  <2>9. ActorOK(a)'
    BY <1>3, <1>5, <2>1, <2>7, <2>8 DEF ActorOK, Busy, Running
  <2> QED BY <1>6, <2>5, <2>6, <2>9
\* A transcode that is over, well or badly.
<1>17. ASSUME row' \in [Items -> Rows],
              NEW p \in {"idle", "serve"}, Finish(a, p),
              pc[a] \in {"commit", "failing"},
              UNCHANGED <<disk, queue, warm, url, phase, aux>>
       PROVE  TypeInv'
  <2>1. /\ pc' = [pc EXCEPT ![a] = p] /\ step' = [step EXCEPT ![a] = 0]
        /\ plan' = [plan EXCEPT ![a] = NoPlan]
        /\ item' = IF p = "idle" THEN [item EXCEPT ![a] = NoItem] ELSE item
    BY <1>17 DEF Finish, Goto
  <2>2. UNCHANGED <<tmp, final, list, fd, queue, warm, url, phase, overlapped, cuts>>
    BY <1>17 DEF disk, aux
  <2>3. item' \in [Actors -> Items \cup {NoItem}]
    BY <1>1, <2>1 DEF TypeOK
  <2>4. Types
    BY <1>1, <1>4, <1>17, <2>1, <2>2, <2>3, Constants DEF TypeOK, ActorPCs, Busy
  <2>5. Others
    BY <1>1, <2>1, <2>2 DEF TypeOK
  <2>6. pc'[a] = p /\ (p = "serve" => item'[a] = item[a]) /\ fd'[a] = "none"
    BY <1>1, <1>17, <2>1, <2>2 DEF TypeOK, ActorOK
  <2>7. ActorOK(a)'
    BY <1>3, <1>17, <2>2, <2>6 DEF ActorOK, Busy, Running
  <2> QED BY <1>6, <2>4, <2>5, <2>7
<1>18. CASE MarkReady(a)
  <2>1. row' \in [Items -> Rows]
    <3> DEFINE i == item[a]
               r == IF Segmented(a)
                    THEN [status |-> "ready", segs |-> plan[a].segs, fmt |-> plan[a].fmt]
                    ELSE [row[i] EXCEPT !.status = "ready", !.fmt = plan[a].fmt]
    <3>1. row[i] \in Rows
      BY <1>1, <1>3 DEF TypeOK
    <3>2. r \in Rows
      BY <1>4, <3>1 DEF Rows, Statuses
    <3>3. row' = IF row[i].status = "none" THEN row ELSE [row EXCEPT ![i] = r]
      BY <1>18 DEF MarkReady
    <3> HIDE DEF r, i
    <3> QED BY <1>1, <3>2, <3>3 DEF TypeOK
  <2>2. PICK p \in {"idle", "serve"} : Finish(a, p)
    BY <1>18 DEF MarkReady
  <2> QED BY <1>17, <1>18, <2>1, <2>2 DEF MarkReady
<1>19. CASE MarkFailed(a)
  <2>1. row' \in [Items -> Rows]
    BY <1>1, <1>3, <1>19, SetStatusType DEF MarkFailed, TypeOK, Statuses
  <2> QED BY <1>17, <1>19, <2>1 DEF MarkFailed
<1> QED BY <1>7, <1>8, <1>10, <1>11, <1>12, <1>16, <1>18, <1>19, <1>14, <1>15 DEF TranscodeStep

\* Steps of a goroutine that is not in a transcode.
LEMMA OutsideTypeInv ==
  ASSUME TypeInv, NEW a \in Actors, pc[a] \notin Busy, UNCHANGED <<disk, aux, phase, warm>>,
         row' \in [Items -> Rows],
         queue' \in Seq(Items), Len(queue') <= QueueCap,
         url' \in [Requests -> [item : Items \cup {NoItem}, name : FileNames]],
         NEW p \in {"idle", "mark", "delete", "insert", "serve", "returned"},
         NEW i \in Items \cup {NoItem},
         NEW k \in {0, step[a]},
         NEW q \in {NoPlan, plan[a]},
         pc' = [pc EXCEPT ![a] = p],
         item' = [item EXCEPT ![a] = i],
         step' = [step EXCEPT ![a] = k],
         plan' = [plan EXCEPT ![a] = q],
         p \in {"mark", "delete", "insert", "serve"} => i \in Items,
         Running
  PROVE  TypeInv'
<1>1. TypeOK /\ WarmOK /\ \A b \in Actors : ActorOK(b)
  BY DEF TypeInv
<1>2. UNCHANGED <<tmp, final, list, fd, overlapped, cuts>>
  BY DEF disk, aux
<1>3. TypeOK'
  <2>1. 0 \in 0 .. MaxSegs + 1
    BY Constants
  <2>2. pc' \in [Actors -> ActorPCs]
    BY <1>1 DEF TypeOK, ActorPCs
  <2>3. /\ item' \in [Actors -> Items \cup {NoItem}] /\ step' \in [Actors -> 0 .. MaxSegs + 1]
        /\ plan' \in [Actors -> Plans]
    BY <1>1, <2>1, Constants DEF TypeOK
  <2> QED BY <1>1, <1>2, <2>2, <2>3 DEF TypeOK
<1>4. WarmOK' /\ Running'
  BY <1>1 DEF WarmOK, Running
<1>5. ActorOK(a)'
  <2>1. pc'[a] = p /\ item'[a] = i /\ p \notin Busy /\ fd'[a] = "none"
    BY <1>1, <1>2 DEF TypeOK, ActorOK, Busy
  <2> QED BY <1>4, <2>1 DEF ActorOK, Busy
<1>6. \A b \in Actors \ {a} : ActorOK(b)'
  <2> SUFFICES ASSUME NEW b \in Actors \ {a} PROVE ActorOK(b)'
    OBVIOUS
  <2>1. /\ pc'[b] = pc[b] /\ item'[b] = item[b] /\ step'[b] = step[b] /\ plan'[b] = plan[b]
        /\ fd'[b] = fd[b]
    BY <1>1, <1>2 DEF TypeOK
  <2> QED BY <1>1, <1>4, <2>1, ActorFrame
<1> QED BY <1>3, <1>4, <1>5, <1>6 DEF TypeInv

LEMMA RequestTypeInv ==
  ASSUME TypeInv, NEW r \in Requests,
         RequestStep(r) \/ \E i \in Items : Play(r, i)
  PROVE  TypeInv'
<1>1. TypeOK /\ WarmOK /\ \A b \in Actors : ActorOK(b)
  BY DEF TypeInv
<1>2. /\ r \in Actors /\ step = [step EXCEPT ![r] = step[r]] /\ plan = [plan EXCEPT ![r] = plan[r]]
      /\ item = [item EXCEPT ![r] = item[r]] /\ item[r] \in Items \cup {NoItem}
  BY <1>1 DEF TypeOK, Actors
<1>3. NoUrl \in [item : Items \cup {NoItem}, name : FileNames]
  BY Constants DEF NoUrl
<1>4. CASE DeleteRow(r)
  <2>1. row' \in [Items -> Rows]
    BY <1>1, <1>2, <1>4, Constants DEF DeleteRow, TypeOK, ActorOK
  <2> QED BY <1>1, <1>2, <1>4, <2>1, OutsideTypeInv
          DEF DeleteRow, Goto, TypeOK, ActorOK, Busy
<1>5. CASE InsertRow(r)
  <2>1. item[r] \in Items /\ pc[r] = "insert" /\ Running /\ pc[r] \notin Busy
    BY <1>1, <1>2, <1>5 DEF InsertRow, ActorOK, Busy
  <2>2. row \in [Items -> Rows] /\ "pending" \in Statuses
    BY <1>1 DEF TypeOK, Statuses
  <2>3. /\ UNCHANGED <<disk, queue, warm, url, phase, aux>>
        /\ queue' \in Seq(Items) /\ Len(queue') <= QueueCap
        /\ url' \in [Requests -> [item : Items \cup {NoItem}, name : FileNames]]
    BY <1>1, <1>5 DEF InsertRow, TypeOK
  <2>4. CASE row[item[r]].status = "none"
    <3>1. row' \in [Items -> Rows]
      BY <1>5, <2>1, <2>2, <2>4, StatusType DEF InsertRow
    <3>2. pc' = [pc EXCEPT ![r] = "mark"] /\ UNCHANGED <<item, step, plan>>
      BY <1>5, <2>4 DEF InsertRow, Goto
    <3> QED BY <1>2, <2>1, <2>3, <3>1, <3>2, OutsideTypeInv
  <2>5. CASE row[item[r]].status # "none"
    <3>1. pc' = [pc EXCEPT ![r] = "idle"] /\ item' = [item EXCEPT ![r] = NoItem]
          /\ step' = [step EXCEPT ![r] = 0] /\ plan' = [plan EXCEPT ![r] = NoPlan]
          /\ row' \in [Items -> Rows]
      BY <1>5, <2>2, <2>5 DEF InsertRow, Goto, Finish
    <3> QED BY <1>2, <2>1, <2>3, <3>1, OutsideTypeInv
  <2> QED BY <2>4, <2>5
<1>6. CASE Serve(r)
  <2>1. pc[r] = "serve" /\ item[r] \in Items /\ Running
    BY <1>1, <1>2, <1>6 DEF Serve, ActorOK
  <2>2. row[item[r]] \in Rows
    BY <1>1, <2>1 DEF TypeOK
  <2>3. RowFiles(row[item[r]]) \subseteq FileNames
    BY <2>2, Constants DEF RowFiles, FileNames, Rows
  <2>4. url' \in [Requests -> [item : Items \cup {NoItem}, name : FileNames]]
    <3>1. url \in [Requests -> [item : Items \cup {NoItem}, name : FileNames]]
      BY <1>1 DEF TypeOK
    <3>2. CASE UNCHANGED url
      BY <3>1, <3>2
    <3>3. ASSUME NEW n \in RowFiles(row[item[r]]),
                 url' = [url EXCEPT ![r] = [item |-> item[r], name |-> n]]
          PROVE  url' \in [Requests -> [item : Items \cup {NoItem}, name : FileNames]]
      BY <2>1, <2>3, <3>1, <3>3
    <3> QED BY <1>6, <3>2, <3>3 DEF Serve
  <2>5. /\ pc' = [pc EXCEPT ![r] = "idle"]
        /\ item' = [item EXCEPT ![r] = NoItem]
        /\ step' = [step EXCEPT ![r] = 0] /\ plan' = [plan EXCEPT ![r] = NoPlan]
        /\ UNCHANGED <<row, disk, queue, warm, phase, aux>>
    BY <1>6 DEF Serve, Finish, Goto
  <2>6. pc[r] \notin Busy /\ row' \in [Items -> Rows]
        /\ queue' \in Seq(Items) /\ Len(queue') <= QueueCap
    BY <1>1, <2>1, <2>5 DEF TypeOK, Busy
  <2> QED BY <1>2, <2>1, <2>4, <2>5, <2>6, OutsideTypeInv
<1>7. ASSUME NEW i \in Items, Play(r, i) PROVE TypeInv'
  <2>1. pc[r] = "idle" /\ Running
    BY <1>7 DEF Play, Running
  <2>2. url' \in [Requests -> [item : Items \cup {NoItem}, name : FileNames]]
    BY <1>1, <1>3, <1>7 DEF Play, TypeOK
  <2>3. PICK p \in {"serve", "delete", "mark"} : pc' = [pc EXCEPT ![r] = p]
    BY <1>7 DEF Play, Goto
  <2> QED BY <1>1, <1>2, <1>7, <2>1, <2>2, <2>3, OutsideTypeInv
          DEF Play, TypeOK, Busy
<1> QED BY <1>4, <1>5, <1>6, <1>7 DEF RequestStep

LEMMA WorkerTypeInv ==
  ASSUME TypeInv, NEW w \in Workers, TakeJob(w) \/ WorkerReturns(w)
  PROVE  TypeInv'
<1>1. TypeOK /\ w \in Actors /\ pc[w] = "idle" /\ pc[w] \notin Busy /\ Running
  BY DEF TypeInv, TakeJob, WorkerReturns, Actors, Busy, Running
<1>2. /\ step = [step EXCEPT ![w] = step[w]] /\ plan = [plan EXCEPT ![w] = plan[w]]
      /\ item = [item EXCEPT ![w] = item[w]] /\ item[w] \in Items \cup {NoItem}
  BY <1>1 DEF TypeOK
<1>3. CASE TakeJob(w)
  <2>1. /\ Head(queue) \in Items /\ Tail(queue) \in Seq(Items)
        /\ Len(Tail(queue)) <= QueueCap
    BY <1>1, <1>3, Constants DEF TakeJob, TypeOK
  <2> QED BY <1>1, <1>2, <1>3, <2>1, OutsideTypeInv DEF TakeJob, Goto, TypeOK
<1>4. CASE WorkerReturns(w)
  BY <1>1, <1>2, <1>4, OutsideTypeInv DEF WorkerReturns, Goto, TypeOK
<1> QED BY <1>3, <1>4

LEMMA WarmTypeInv ==
  ASSUME TypeInv, WarmStep \/ \E page \in SUBSET Items : WarmStart(page), ~WarmPanics
  PROVE  TypeInv'
<1>1. TypeOK /\ WarmOK /\ warm \in Warms
  BY DEF TypeInv, TypeOK
<1>2. Resting \in Warms
  BY DEF Resting, Warms
<1>3. \A w \in Warms : NextItem(w) \in Warms /\ NextItem(w).pc \in {"idle", "scan"}
  BY <1>2 DEF NextItem, Warms, Resting
\* What every step of the warm-up job leaves alone.
<1>4. ASSUME UNCHANGED <<disk, procs, url, phase, aux>>,
             row' \in [Items -> Rows], queue' \in Seq(Items), Len(queue') <= QueueCap,
             warm' \in Warms, warm'.pc \in {"delete", "insert", "enqueue"} => warm'.item \in Items
      PROVE  TypeInv'
  <2>1. /\ UNCHANGED <<tmp, final, list, fd, pc, item, step, plan, overlapped, cuts>>
        /\ Running' = Running
    BY <1>4 DEF disk, procs, aux, Running
  <2>2. TypeOK'
    BY <1>1, <1>4, <2>1 DEF TypeOK
  <2>3. \A b \in Actors : ActorOK(b)'
    BY <2>1, ActorFrame DEF TypeInv
  <2> QED BY <1>4, <2>2, <2>3 DEF TypeInv, WarmOK
<1>5. CASE \E page \in SUBSET Items : WarmStart(page)
  BY <1>1, <1>4, <1>5 DEF WarmStart, TypeOK, Warms
<1>6. ASSUME NEW i \in Items, WarmCheck(i) PROVE TypeInv'
  <2> DEFINE rest == [warm EXCEPT !.item = i, !.todo = @ \ {i}]
  <2>1. rest \in Warms /\ rest.item = i
    BY <1>1 DEF Warms
  <2>2. \/ warm' = NextItem(rest)
        \/ warm' = [rest EXCEPT !.pc = "delete"]
        \/ warm' = [rest EXCEPT !.pc = "enqueue"]
    BY <1>6 DEF WarmCheck
  <2>3. warm' \in Warms /\ (warm'.pc \in {"delete", "insert", "enqueue"} => warm'.item \in Items)
    <3>1. \A c \in {"delete", "enqueue"} :
            [rest EXCEPT !.pc = c] \in Warms /\ [rest EXCEPT !.pc = c].item = i
      BY <2>1 DEF Warms
    <3> HIDE DEF rest
    <3> QED BY <1>3, <2>1, <2>2, <3>1
  <2> QED BY <1>1, <1>4, <1>6, <2>3 DEF WarmCheck, TypeOK
<1>7. CASE WarmDelete
  <2>1. row' \in [Items -> Rows] /\ UNCHANGED <<disk, queue, procs, url, phase, aux>>
    BY <1>1, <1>7, Constants DEF WarmDelete, TypeOK
  <2>2. warm' \in Warms /\ warm'.item \in Items
    BY <1>1, <1>7 DEF WarmDelete, Warms, WarmOK
  <2> QED BY <1>1, <1>4, <2>1, <2>2 DEF TypeOK
<1>8. CASE WarmInsert
  <2>1. row' \in [Items -> Rows] /\ UNCHANGED <<disk, queue, procs, url, phase, aux>>
    <3>1. warm.item \in Items /\ row \in [Items -> Rows] /\ "pending" \in Statuses
      BY <1>1, <1>8 DEF WarmInsert, TypeOK, WarmOK, Statuses
    <3> QED BY <1>8, <3>1, StatusType DEF WarmInsert
  <2>2. warm' \in Warms /\ (warm'.pc \in {"delete", "insert", "enqueue"} => warm'.item \in Items)
    BY <1>1, <1>3, <1>8 DEF WarmInsert, Warms, WarmOK
  <2> QED BY <1>1, <1>4, <2>1, <2>2 DEF TypeOK
<1>9. CASE WarmEnqueue
  <2>1. warm.item \in Items
    BY <1>1, <1>9 DEF WarmEnqueue, WarmOK
  <2>2. queue' \in Seq(Items) /\ Len(queue') <= QueueCap
    BY <1>1, <1>9, <2>1, Constants DEF WarmEnqueue, TypeOK
  <2>3. warm' \in Warms /\ (warm'.pc \in {"delete", "insert", "enqueue"} => warm'.item \in Items)
    BY <1>1, <1>3, <1>9 DEF WarmEnqueue
  <2> QED BY <1>1, <1>4, <1>9, <2>2, <2>3 DEF WarmEnqueue, TypeOK
<1> QED BY <1>5, <1>6, <1>7, <1>8, <1>9 DEF WarmStep

LEMMA DiesTypeInv ==
  ASSUME TypeInv, NEW p \in {"down", "panicked"}, Dies(p)
  PROVE  TypeInv'
<1>1. TypeOK'
  <2>1. list' \in [Items -> [FileNames -> {"none", "ours", "left"}]]
    BY DEF TypeInv, Dies, TypeOK
  <2> QED BY <2>1, Constants DEF TypeInv, Dies, TypeOK, Warms, Resting, ActorPCs, aux
<1>2. \A b \in Actors : ActorOK(b)'
  BY DEF Dies, ActorOK, Busy
<1>3. WarmOK'
  BY DEF Dies, WarmOK, Resting
<1> QED BY <1>1, <1>2, <1>3 DEF TypeInv

LEMMA LifecycleTypeInv ==
  ASSUME TypeInv, StopWorkers \/ Restart
  PROVE  TypeInv'
<1>1. TypeOK /\ WarmOK /\ \A b \in Actors : ActorOK(b)
  BY DEF TypeInv
<1>2. UNCHANGED <<list, fd, pc, item, step, plan, warm>> /\ Running'
  BY DEF StopWorkers, Restart, procs, disk, Running
<1>3. TypeOK'
  <2>1. CASE StopWorkers
    BY <1>1, <2>1 DEF StopWorkers, disk, procs, aux, TypeOK
  <2>2. CASE Restart
    <3>1. row' \in [Items -> Rows]
      <4> SUFFICES ASSUME NEW i \in Items
                   PROVE  [row[i] EXCEPT !.status = "pending"] \in Rows
        BY <1>1, <2>2 DEF Restart, TypeOK
      <4>1. row[i] \in Rows
        BY <1>1 DEF TypeOK
      <4> QED BY <4>1 DEF Rows, Statuses
    <3>2. final' \in [Items -> [FileNames -> Files \cup {NoFile}]]
      BY <1>1, <2>2 DEF Restart, TypeOK
    <3> QED BY <1>1, <2>2, <3>1, <3>2 DEF Restart, procs, aux, TypeOK
  <2> QED BY <2>1, <2>2
<1>4. \A b \in Actors : ActorOK(b)'
  BY <1>1, <1>2 DEF ActorOK, Joins, Segmented, OutputCount
<1> QED BY <1>1, <1>2, <1>3, <1>4 DEF TypeInv, WarmOK

LEMMA StutterTypeInv == TypeInv /\ UNCHANGED vars => TypeInv'
BY DEF TypeInv, vars, disk, procs, aux, TypeOK, ActorOK, WarmOK, Running, Joins, Segmented,
       OutputCount

LEMMA NextTypeInv == TypeInv /\ [Next]_vars => TypeInv'
<1> SUFFICES ASSUME TypeInv, [Next]_vars PROVE TypeInv'
  OBVIOUS
<1>1. CASE \E a \in Actors : TranscodeStep(a)
  BY <1>1, TranscodeTypeInv
<1>2. CASE \E r \in Requests : RequestStep(r) \/ \E i \in Items : Play(r, i)
  BY <1>2, RequestTypeInv
<1>3. CASE \E w \in Workers : TakeJob(w) \/ WorkerReturns(w)
  BY <1>3, WorkerTypeInv
<1>4. CASE WarmStep \/ \E page \in SUBSET Items : WarmStart(page)
  <2>1. CASE WarmPanics
    BY <2>1, DiesTypeInv DEF WarmPanics
  <2> QED BY <1>4, <2>1, WarmTypeInv
<1>5. CASE StopWorkers \/ Restart
  BY <1>5, LifecycleTypeInv
<1>6. CASE Exit \/ Crash
  BY <1>6, DiesTypeInv DEF Exit, Crash
<1>7. CASE UNCHANGED vars
  BY <1>7, StutterTypeInv
<1> QED BY <1>1, <1>2, <1>3, <1>4, <1>5, <1>6, <1>7 DEF Next, Lifecycle

\* Every variable keeps its type, the queue its capacity.
THEOREM TypeCorrect == Spec => []TypeOK
<1>1. Spec => []TypeInv
  BY InitTypeInv, NextTypeInv, PTL DEF Spec
<1>2. TypeInv => TypeOK
  BY DEF TypeInv
<1> QED BY <1>1, <1>2, PTL

=============================================================================
