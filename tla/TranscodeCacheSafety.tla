------------------------ MODULE TranscodeCacheSafety ------------------------
(***************************************************************************)
(* The safety invariants of TranscodeCache, for every set of items,        *)
(* workers and requests.  Each is proved from an inductive invariant that  *)
(* strengthens it, relative to TypeInv.                                    *)
(***************************************************************************)
EXTENDS TranscodeCacheProofs

-----------------------------------------------------------------------------
(* What the steps have in common.  A step is one of a transcode, the death   *)
(* of the process, a restart, or leaves every transcode and file alone.      *)

LEMMA StatusSet ==
  ASSUME NEW r \in Rows, NEW s
  PROVE  /\ [r EXCEPT !.status = s].status = s
         /\ [r EXCEPT !.status = s].segs = r.segs
         /\ [r EXCEPT !.status = s].fmt = r.fmt
BY DEF Rows

\* Rows change only by CreateEntry's DELETE and INSERT.
RowsAside ==
  \A i \in Items : \/ row'[i] = row[i]
                   \/ row'[i] = NoRow
                   \/ row'[i] = [row[i] EXCEPT !.status = "pending"]
                      /\ row[i].status = "none"

AsideStep ==
  /\ RowsAside
  /\ UNCHANGED <<tmp, final, list, fd, overlapped, cuts>>
  /\ Running' = Running
  /\ \A b \in Actors : pc[b] \in Busy \/ pc'[b] \in Busy =>
       pc'[b] = pc[b] /\ item'[b] = item[b] /\ step'[b] = step[b] /\ plan'[b] = plan[b]

LEMMA OutsideAside ==
  ASSUME NEW a \in Actors, TypeInv, RowsAside,
         UNCHANGED <<disk, aux, phase>>,
         pc[a] \notin Busy,
         NEW p \in {"idle", "mark", "delete", "insert", "serve", "returned"},
         pc' = [pc EXCEPT ![a] = p],
         \A b \in Actors \ {a} : item'[b] = item[b] /\ step'[b] = step[b] /\ plan'[b] = plan[b]
  PROVE  AsideStep
<1>1. pc \in [Actors -> ActorPCs] /\ p \notin Busy
  BY DEF TypeInv, TypeOK, Busy
<1> QED BY <1>1 DEF AsideStep, disk, aux, Running

LEMMA RequestAside ==
  ASSUME TypeInv, NEW r \in Requests,
         RequestStep(r) \/ \E i \in Items : Play(r, i)
  PROVE  AsideStep
<1>1. /\ r \in Actors /\ row \in [Items -> Rows] /\ ActorOK(r)
      /\ item \in [Actors -> Items \cup {NoItem}] /\ step \in [Actors -> 0 .. MaxSegs + 1]
      /\ plan \in [Actors -> Plans]
  BY DEF TypeInv, TypeOK, Actors
<1>2. \A x, y, z : \A b \in Actors \ {r} : /\ [item EXCEPT ![r] = x][b] = item[b]
                                         /\ [step EXCEPT ![r] = y][b] = step[b]
                                         /\ [plan EXCEPT ![r] = z][b] = plan[b]
  BY <1>1
<1>3. CASE DeleteRow(r)
  <2>1. RowsAside
    BY <1>1, <1>3 DEF DeleteRow, RowsAside
  <2>2. pc' = [pc EXCEPT ![r] = "insert"] /\ pc[r] \notin Busy
        /\ UNCHANGED <<item, step, plan, disk, aux, phase>>
    BY <1>3 DEF DeleteRow, Goto, Busy
  <2> QED BY <1>1, <2>1, <2>2, OutsideAside
<1>4. CASE InsertRow(r)
  <2>1. RowsAside
    BY <1>1, <1>4 DEF InsertRow, RowsAside
  <2>2. PICK p \in {"mark", "idle"} : pc' = [pc EXCEPT ![r] = p]
    BY <1>4 DEF InsertRow, Goto, Finish
  <2>3. \A b \in Actors \ {r} : item'[b] = item[b] /\ step'[b] = step[b] /\ plan'[b] = plan[b]
    <3>1. CASE row[item[r]].status = "none"
      BY <1>4, <3>1 DEF InsertRow
    <3>2. CASE row[item[r]].status # "none"
      <4>1. /\ item' = [item EXCEPT ![r] = NoItem] /\ step' = [step EXCEPT ![r] = 0]
            /\ plan' = [plan EXCEPT ![r] = NoPlan]
        BY <1>4, <3>2 DEF InsertRow, Finish
      <4> QED BY <1>2, <4>1
    <3> QED BY <3>1, <3>2
  <2>4. pc[r] \notin Busy /\ UNCHANGED <<disk, aux, phase>>
    BY <1>4 DEF InsertRow, Busy
  <2> QED BY <1>1, <2>1, <2>2, <2>3, <2>4, OutsideAside
<1>5. CASE Serve(r)
  <2>1. RowsAside
    BY <1>5 DEF Serve, RowsAside
  <2>2. pc' = [pc EXCEPT ![r] = "idle"] /\ UNCHANGED <<disk, aux, phase>>
        /\ pc[r] \notin Busy
    BY <1>5 DEF Serve, Finish, Goto, Busy
  <2>3. \A b \in Actors \ {r} : item'[b] = item[b] /\ step'[b] = step[b] /\ plan'[b] = plan[b]
    BY <1>2, <1>5 DEF Serve, Finish
  <2> QED BY <1>1, <2>1, <2>2, <2>3, OutsideAside
<1>6. ASSUME NEW i \in Items, Play(r, i) PROVE AsideStep
  <2>1. RowsAside
    BY <1>6 DEF Play, RowsAside
  <2>2. PICK p \in {"serve", "delete", "mark"} : pc' = [pc EXCEPT ![r] = p]
    BY <1>6 DEF Play, Goto
  <2>3. pc[r] \notin Busy /\ UNCHANGED <<disk, aux, phase>>
    BY <1>6 DEF Play, Busy
  <2>4. \A b \in Actors \ {r} : item'[b] = item[b] /\ step'[b] = step[b] /\ plan'[b] = plan[b]
    BY <1>1, <1>6 DEF Play
  <2> QED BY <1>1, <2>1, <2>2, <2>3, <2>4, OutsideAside
<1> QED BY <1>3, <1>4, <1>5, <1>6 DEF RequestStep

LEMMA WorkerAside ==
  ASSUME TypeInv, NEW w \in Workers, TakeJob(w) \/ WorkerReturns(w)
  PROVE  AsideStep
<1>1. /\ w \in Actors /\ item \in [Actors -> Items \cup {NoItem}]
      /\ pc[w] \notin Busy /\ UNCHANGED <<row, disk, aux, phase>>
  BY DEF TypeInv, TypeOK, Actors, TakeJob, WorkerReturns, Busy
<1>2. RowsAside
  BY <1>1 DEF RowsAside
<1>3. PICK p \in {"mark", "returned"} : pc' = [pc EXCEPT ![w] = p]
  BY DEF TakeJob, WorkerReturns, Goto
<1>4. \A b \in Actors \ {w} : item'[b] = item[b] /\ step'[b] = step[b] /\ plan'[b] = plan[b]
  BY <1>1 DEF TakeJob, WorkerReturns
<1> QED BY <1>1, <1>2, <1>3, <1>4, OutsideAside

LEMMA WarmAside ==
  ASSUME TypeInv, WarmStep \/ \E page \in SUBSET Items : WarmStart(page), ~WarmPanics
  PROVE  AsideStep
<1>1. row \in [Items -> Rows] /\ WarmOK
  BY DEF TypeInv, TypeOK
<1>2. RowsAside
  <2>1. CASE WarmDelete
    BY <1>1, <2>1 DEF WarmDelete, RowsAside
  <2>2. CASE WarmInsert
    BY <1>1, <2>2 DEF WarmInsert, RowsAside
  <2>3. CASE UNCHANGED row
    BY <2>3 DEF RowsAside
  <2> QED BY <2>1, <2>2, <2>3 DEF WarmStep, WarmStart, WarmCheck, WarmEnqueue
<1>3. UNCHANGED <<disk, procs, phase, aux>>
  BY DEF WarmStep, WarmStart, WarmCheck, WarmDelete, WarmInsert, WarmEnqueue
<1> QED BY <1>2, <1>3 DEF AsideStep, disk, procs, aux, Running

LEMMA StepKinds ==
  ASSUME TypeInv, [Next]_vars
  PROVE  \/ \E a \in Actors : TranscodeStep(a)
         \/ \E p \in {"down", "panicked"} : Dies(p)
         \/ Restart
         \/ AsideStep
<1>1. CASE StopWorkers \/ UNCHANGED vars
  <2>1. RowsAside
    BY <1>1 DEF StopWorkers, vars, RowsAside
  <2>2. UNCHANGED <<disk, procs, aux>> /\ Running' = Running
    BY <1>1 DEF StopWorkers, vars, Running
  <2> QED BY <2>1, <2>2 DEF AsideStep, disk, procs, aux
<1>2. CASE \E r \in Requests : RequestStep(r) \/ \E i \in Items : Play(r, i)
  BY <1>2, RequestAside
<1>3. CASE \E w \in Workers : TakeJob(w) \/ WorkerReturns(w)
  BY <1>3, WorkerAside
<1>4. CASE WarmStep \/ \E page \in SUBSET Items : WarmStart(page)
  BY <1>4, WarmAside DEF WarmPanics
<1>5. CASE Exit \/ Crash
  BY <1>5 DEF Exit, Crash
<1> QED BY <1>1, <1>2, <1>3, <1>4, <1>5 DEF Next, Lifecycle

\* A goroutine that keeps its item and its plan keeps its outputs.
LEMMA SameOutputs ==
  ASSUME NEW b \in Actors, item'[b] = item[b], plan'[b] = plan[b]
  PROVE  /\ Joins(b)' = Joins(b) /\ Segmented(b)' = Segmented(b)
         /\ OutputCount(b)' = OutputCount(b)
         /\ \A k : Output(b, k)' = Output(b, k)
         /\ step'[b] = step[b] => Target(b)' = Target(b) /\ Listed(b)' = Listed(b)
BY DEF Joins, Segmented, OutputCount, Output, Target, Listed, Src

\* A step of a transcode: who it is, and what it leaves to the others.
LEMMA TranscodeMoves ==
  ASSUME TypeInv, NEW a \in Actors, TranscodeStep(a)
  PROVE  /\ pc[a] \in Busy \cup {"mark"} /\ item[a] \in Items /\ Running /\ Running'
         /\ pc'[a] \in Busy => item'[a] = item[a]
         /\ \A b \in Actors \ {a} : /\ pc'[b] = pc[b] /\ item'[b] = item[b]
                                  /\ step'[b] = step[b] /\ plan'[b] = plan[b]
<1>1. pc[a] \in Busy \cup {"mark"} /\ phase' = phase
  BY DEF TranscodeStep, MarkInProgress, OpenTmp, OpenFails, WriteDone, WriteFails,
         Split, SplitFails, RemoveConcat, MarkReady, MarkFailed, Busy
<1>2. item[a] \in Items /\ Running /\ Running'
  BY <1>1 DEF TypeInv, ActorOK, Busy, Running
<1>3. /\ pc \in [Actors -> ActorPCs] /\ item \in [Actors -> Items \cup {NoItem}]
      /\ step \in [Actors -> 0 .. MaxSegs + 1] /\ plan \in [Actors -> Plans]
  BY DEF TypeInv, TypeOK
<1>4. pc'[a] \in Busy => item'[a] = item[a]
  BY <1>3 DEF TranscodeStep, MarkInProgress, OpenTmp, OpenFails, WriteDone, WriteFails,
         Split, SplitFails, RemoveConcat, MarkReady, MarkFailed, Finish, Goto, Busy
<1>5. \A b \in Actors \ {a} : pc'[b] = pc[b] /\ item'[b] = item[b]
  BY <1>3 DEF TranscodeStep, MarkInProgress, Begin, OpenTmp, OpenFails, WriteDone, WriteFails,
         Proceed, Split, SplitFails, RemoveConcat, MarkReady, MarkFailed, Finish, Goto
<1>6. \A b \in Actors \ {a} : step'[b] = step[b]
  BY <1>3 DEF TranscodeStep, MarkInProgress, Begin, OpenTmp, OpenFails, WriteDone, WriteFails,
         Proceed, Split, SplitFails, RemoveConcat, MarkReady, MarkFailed, Finish
<1>7. \A b \in Actors \ {a} : plan'[b] = plan[b]
  BY <1>3 DEF TranscodeStep, MarkInProgress, Begin, OpenTmp, OpenFails, WriteDone, WriteFails,
         Split, SplitFails, RemoveConcat, MarkReady, MarkFailed, Finish
<1> QED BY <1>1, <1>2, <1>4, <1>5, <1>6, <1>7

\* While it is at work a transcode changes its plan in one place: a joined file's
\* segments are settled, before there is one.
LEMMA PlanKept ==
  ASSUME TypeInv, NEW a \in Actors, TranscodeStep(a), pc[a] \in Busy, pc'[a] \in Busy
  PROVE  \/ plan'[a] = plan[a] /\ Segmented(a)' = Segmented(a) /\ Joins(a)' = Joins(a)
         \/ /\ Split(a) /\ pc[a] = "split" /\ pc'[a] = "open" /\ step[a] = 2 /\ step'[a] = 2
            /\ Segmented(a) /\ Segmented(a)' /\ Joins(a) /\ Joins(a)'
            /\ UNCHANGED <<row, disk, aux>>
<1>1. /\ pc \in [Actors -> ActorPCs] /\ item'[a] = item[a] /\ plan \in [Actors -> Plans]
      /\ plan[a] \in Plans /\ ActorOK(a)
  BY TranscodeMoves DEF TypeInv, TypeOK
<1>2. CASE Split(a)
  <2>1. PICK n \in 1 .. MaxSegs, f \in Fmts[item[a]]["all"] :
          plan' = [plan EXCEPT ![a].segs = n, ![a].fmt = f]
    BY <1>2 DEF Split
  <2>2. plan'[a].cut = plan[a].cut
    BY <1>1, <2>1 DEF Plans
  <2>3. pc[a] = "split" /\ pc'[a] = "open" /\ step' = step /\ UNCHANGED <<row, disk, aux>>
    BY <1>1, <1>2 DEF Split, Goto
  <2> QED BY <1>1, <1>2, <2>2, <2>3 DEF ActorOK, Joins, Segmented
<1>3. CASE MarkInProgress(a) \/ MarkReady(a) \/ MarkFailed(a)
  BY <1>1, <1>3 DEF MarkInProgress, MarkReady, MarkFailed, Finish, Goto, Busy
<1>4. CASE UNCHANGED plan
  BY <1>1, <1>4, SameOutputs
<1> QED BY <1>2, <1>3, <1>4
        DEF TranscodeStep, OpenTmp, OpenFails, WriteDone, WriteFails, SplitFails, RemoveConcat

-----------------------------------------------------------------------------
(* A row that says in_progress has somebody at work on it.                  *)

WorkInv == TypeInv /\ InProgressIsWorkedOn

\* A transcode sets the status of its own item only, and only to what it goes
\* on to do: in_progress while it is at work, ready or failed when it is done.
LEMMA TranscodeStatus ==
  ASSUME TypeInv, NEW a \in Actors, TranscodeStep(a)
  PROVE  /\ \A i \in Items \ {item[a]} : row'[i] = row[i]
         /\ \/ pc'[a] \in Busy
            \/ row'[item[a]].status # "in_progress"
<1>1. row \in [Items -> Rows] /\ pc \in [Actors -> ActorPCs] /\ item[a] \in Items
  BY TranscodeMoves DEF TypeInv, TypeOK
<1>2. CASE MarkInProgress(a) \/ OpenTmp(a) \/ OpenFails(a) \/ WriteFails(a) \/ WriteDone(a)
           \/ Split(a) \/ SplitFails(a) \/ RemoveConcat(a)
  <2>1. pc'[a] \in Busy
    BY <1>1, <1>2 DEF MarkInProgress, Begin, OpenTmp, OpenFails, WriteFails, WriteDone,
       Proceed, Split, SplitFails, RemoveConcat, Goto, AfterFailure, Busy
  <2>2. \A i \in Items \ {item[a]} : row'[i] = row[i]
    BY <1>1, <1>2 DEF MarkInProgress, SetStatus, OpenTmp, OpenFails, WriteFails, WriteDone,
       Split, SplitFails, RemoveConcat
  <2> QED BY <2>1, <2>2
<1>3. CASE MarkReady(a)
  <2> DEFINE i == item[a]
             r == IF Segmented(a)
                  THEN [status |-> "ready", segs |-> plan[a].segs, fmt |-> plan[a].fmt]
                  ELSE [row[i] EXCEPT !.status = "ready", !.fmt = plan[a].fmt]
  <2>1. row' = IF row[i].status = "none" THEN row ELSE [row EXCEPT ![i] = r]
    BY <1>3 DEF MarkReady
  <2>2. row[i] \in Rows
    BY <1>1
  <2>3. r.status = "ready"
    BY <2>2 DEF Rows
  <2> HIDE DEF r, i
  <2>4. (\A j \in Items \ {i} : row'[j] = row[j]) /\ row'[i].status # "in_progress"
    <3>1. i \in Items
      BY <1>1 DEF i
    <3> QED BY <1>1, <2>1, <2>3, <3>1
  <2> QED BY <2>4 DEF i
<1>4. CASE MarkFailed(a)
  BY <1>1, <1>4 DEF MarkFailed, SetStatus, Rows
<1> QED BY <1>2, <1>3, <1>4 DEF TranscodeStep

LEMMA WorkStep == WorkInv /\ [Next]_vars => WorkInv'
<1> SUFFICES ASSUME WorkInv, [Next]_vars PROVE WorkInv'
  OBVIOUS
<1>1. TypeInv /\ InProgressIsWorkedOn /\ TypeInv'
  BY NextTypeInv DEF WorkInv
<1>2. row \in [Items -> Rows]
  BY <1>1 DEF TypeInv, TypeOK
<1>3. ASSUME NEW a \in Actors, TranscodeStep(a) PROVE InProgressIsWorkedOn'
  <2> SUFFICES ASSUME NEW i \in Items, row'[i].status = "in_progress"
               PROVE  \E b \in Actors : item'[b] = i /\ pc'[b] \in Busy
    BY DEF InProgressIsWorkedOn
  <2>1. CASE i = item[a]
    BY <1>1, <1>3, <2>1, TranscodeStatus, TranscodeMoves
  <2>2. CASE i # item[a]
    <3>1. row[i].status = "in_progress" /\ Running
      BY <1>1, <1>3, <2>2, TranscodeStatus, TranscodeMoves
    <3>2. PICK b \in Actors : item[b] = i /\ pc[b] \in Busy
      BY <1>1, <3>1 DEF InProgressIsWorkedOn
    <3> QED BY <1>1, <1>3, <2>2, <3>2, TranscodeMoves
  <2> QED BY <2>1, <2>2
<1>4. ASSUME NEW p \in {"down", "panicked"}, Dies(p) PROVE InProgressIsWorkedOn'
  BY <1>4 DEF Dies, InProgressIsWorkedOn, Running
<1>5. ASSUME Restart PROVE InProgressIsWorkedOn'
  <2>1. \A i \in Items : row'[i].status # "in_progress"
    BY <1>2, <1>5, StatusSet DEF Restart
  <2> QED BY <2>1 DEF InProgressIsWorkedOn
<1>6. ASSUME AsideStep PROVE InProgressIsWorkedOn'
  <2> SUFFICES ASSUME NEW i \in Items, row'[i].status = "in_progress", Running'
               PROVE  \E b \in Actors : item'[b] = i /\ pc'[b] \in Busy
    BY DEF InProgressIsWorkedOn
  <2>1. row[i].status = "in_progress"
    <3>1. NoRow.status = "none" /\ [row[i] EXCEPT !.status = "pending"].status = "pending"
      BY <1>2, StatusSet DEF NoRow
    <3> QED BY <1>6, <3>1 DEF AsideStep, RowsAside
  <2> QED BY <1>1, <1>6, <2>1 DEF AsideStep, InProgressIsWorkedOn
<1> QED BY <1>1, <1>3, <1>4, <1>5, <1>6, StepKinds DEF WorkInv

\* No failure, race, crash or restart leaves a row in_progress with nobody to
\* finish it (processJob, TranscodeSyncMultiple, ResetInProgressToPending).
THEOREM NoRowIsForgotten == Spec => []InProgressIsWorkedOn
<1>1. Init => WorkInv
  BY InitTypeInv DEF WorkInv, Init, InProgressIsWorkedOn, NoRow
<1>2. Spec => []WorkInv
  BY <1>1, WorkStep, PTL DEF Spec
<1>3. WorkInv => InProgressIsWorkedOn
  BY DEF WorkInv
<1> QED BY <1>2, <1>3, PTL

-----------------------------------------------------------------------------
(* Temporary files and lists have an owner.                                 *)

TmpOwned ==
  Running => \A i \in Items : \A n \in FileNames :
    tmp[i][n] # NoFile =>
      \E b \in Actors : fd[b] = "tmp" /\ item[b] = i /\ Target(b) = n

\* Somebody still has the joined file to remove: stronger than what
\* TempFilesOwned says, which a goroutine past the removal would also satisfy.
ConcatOwned ==
  Running => \A i \in Items :
    final[i][Concat] # NoFile =>
      \E b \in Actors : /\ item[b] = i /\ Joins(b) /\ step[b] > 1
                        /\ pc[b] \in {"open", "write", "split", "unjoinOK", "unjoinFail"}

\* A list that is not left over is some running ffmpeg's; a dead process has none.
ListOwned ==
  \A i \in Items : \A n \in FileNames :
    list[i][n] = "ours" =>
      \E b \in Actors : item[b] = i /\ pc[b] = "write" /\ Target(b) = n /\ Listed(b)

TempInv == TypeInv /\ TmpOwned /\ ConcatOwned /\ ListOwned

\* A temporary path that is removed or renamed takes the inodes under it, and
\* under the name it replaces, from their writers, and nothing else.
LEMMA TmpMoved ==
  ASSUME TypeInv, NEW a \in Actors, item[a] \in Items,
         RemoveTmp(a, Target(a)) \/ RenameTmp(a, Target(a))
  PROVE  /\ \A i \in Items : \A n \in FileNames :
              tmp'[i][n] = IF i = item[a] /\ n = Target(a) THEN NoFile ELSE tmp[i][n]
         /\ fd'[a] = "none"
         /\ \A b \in Actors \ {a} :
              item[b] # item[a] \/ Target(b) # Target(a) => fd'[b] = fd[b]
<1>1. tmp \in [Items -> [FileNames -> Files \cup {NoFile}]]
  BY DEF TypeInv, TypeOK
<1>2. tmp' = [tmp EXCEPT ![item[a]][Target(a)] = NoFile]
  BY DEF RemoveTmp, RenameTmp
<1>3. \A i \in Items : \A n \in FileNames :
        tmp'[i][n] = IF i = item[a] /\ n = Target(a) THEN NoFile ELSE tmp[i][n]
  BY <1>1, <1>2
<1>4. \A b \in Actors : (item[b] # item[a] \/ Target(b) # Target(a)) /\ b # a => fd'[b] = fd[b]
  BY DEF RemoveTmp, RenameTmp, Writers
<1>5. fd'[a] = "none"
  BY DEF RemoveTmp, RenameTmp
<1> QED BY <1>3, <1>4, <1>5

\* What a step of a transcode does to the temporary files: it truncates or
\* creates its own, takes its own away, or has none and touches none.
LEMMA TmpSteps ==
  ASSUME TypeInv, NEW a \in Actors, TranscodeStep(a)
  PROVE  \/ OpenTmp(a)
         \/ RemoveTmp(a, Target(a)) \/ RenameTmp(a, Target(a))
         \/ /\ UNCHANGED tmp /\ fd[a] = "none"
            /\ \A b \in Actors : fd'[b] = fd[b] \/ fd[b] = "final"
<1>1. ActorOK(a)
  BY DEF TypeInv
<1>2. CASE MarkInProgress(a) \/ MarkReady(a) \/ MarkFailed(a)
  BY <1>1, <1>2 DEF ActorOK, MarkInProgress, MarkReady, MarkFailed, disk
<1>3. CASE Split(a) \/ SplitFails(a)
  BY <1>1, <1>3 DEF ActorOK, Split, SplitFails, disk
<1>4. CASE OpenFails(a) \/ WriteFails(a) \/ WriteDone(a)
  BY <1>1, <1>4 DEF ActorOK, OpenFails, WriteFails, WriteDone
<1>5. CASE RemoveConcat(a)
  <2>1. pc[a] # "write" /\ UNCHANGED tmp
    BY <1>5 DEF RemoveConcat
  <2>2. \A b \in Actors : fd'[b] = fd[b] \/ fd[b] = "final"
    BY <1>5 DEF RemoveConcat, Writers
  <2> QED BY <1>1, <2>1, <2>2 DEF ActorOK
<1> QED BY <1>2, <1>3, <1>4, <1>5 DEF TranscodeStep

LEMMA TmpOwnedStep ==
  ASSUME TypeInv, TmpOwned, NEW a \in Actors, TranscodeStep(a)
  PROVE  TmpOwned'
<1> SUFFICES ASSUME NEW i \in Items, NEW n \in FileNames, tmp'[i][n] # NoFile
             PROVE  \E b \in Actors : fd'[b] = "tmp" /\ item'[b] = i /\ Target(b)' = n
  BY DEF TmpOwned
<1>1. /\ item[a] \in Items /\ Running /\ fd \in [Actors -> {"none", "tmp", "final", "gone"}]
      /\ tmp \in [Items -> [FileNames -> Files \cup {NoFile}]]
      /\ \A b \in Actors \ {a} : item'[b] = item[b] /\ Target(b)' = Target(b)
  BY TranscodeMoves, SameOutputs DEF TypeInv, TypeOK
\* Whoever owned the file still does.
<1>2. ASSUME tmp[i][n] # NoFile,
             \A b \in Actors : fd[b] = "tmp" /\ item[b] = i /\ Target(b) = n
                                 => b # a /\ fd'[b] = "tmp"
      PROVE  \E b \in Actors : fd'[b] = "tmp" /\ item'[b] = i /\ Target(b)' = n
  BY <1>1, <1>2 DEF TmpOwned
<1>3. CASE OpenTmp(a)
  <2>1. /\ fd' = [fd EXCEPT ![a] = "tmp"] /\ UNCHANGED <<item, step, plan>>
        /\ fd[a] = "none"
    BY <1>3 DEF OpenTmp, TypeInv, ActorOK
  <2>2. Target(a)' = Target(a)
    BY <2>1, SameOutputs
  <2>3. CASE i = item[a] /\ n = Target(a)
    BY <1>1, <2>1, <2>2, <2>3
  <2>4. CASE ~(i = item[a] /\ n = Target(a))
    <3>1. tmp'[i][n] = tmp[i][n]
      BY <1>1, <1>3, <2>4 DEF OpenTmp
    <3> QED BY <1>1, <1>2, <2>1, <3>1
  <2> QED BY <2>3, <2>4
<1>4. CASE RemoveTmp(a, Target(a)) \/ RenameTmp(a, Target(a))
  <2>1. tmp[i][n] # NoFile /\ ~(i = item[a] /\ n = Target(a))
    BY <1>1, <1>4, TmpMoved
  <2> QED BY <1>1, <1>2, <1>4, <2>1, TmpMoved
<1>5. CASE /\ UNCHANGED tmp /\ fd[a] = "none"
           /\ \A b \in Actors : fd'[b] = fd[b] \/ fd[b] = "final"
  BY <1>2, <1>5
<1> QED BY <1>3, <1>4, <1>5, TmpSteps

LEMMA ConcatOwnedStep ==
  ASSUME TypeInv, ConcatOwned, NEW a \in Actors, TranscodeStep(a)
  PROVE  ConcatOwned'
<1> DEFINE Holds(b) == Joins(b) /\ step[b] > 1
                       /\ pc[b] \in {"open", "write", "split", "unjoinOK", "unjoinFail"}
<1> SUFFICES ASSUME NEW i \in Items, final'[i][Concat] # NoFile
             PROVE  \E b \in Actors : item'[b] = i /\ Holds(b)'
  BY DEF ConcatOwned
<1>1. /\ item[a] \in Items /\ Running /\ Concat \in FileNames /\ ActorOK(a)
      /\ final \in [Items -> [FileNames -> Files \cup {NoFile}]]
      /\ pc \in [Actors -> ActorPCs] /\ step \in [Actors -> 0 .. MaxSegs + 1] /\ plan[a] \in Plans
  BY TranscodeMoves, Constants DEF TypeInv, TypeOK
<1>2. \A b \in Actors \ {a} : item'[b] = item[b] /\ Holds(b)' = Holds(b)
  BY TranscodeMoves, SameOutputs
\* The file was there, and a, if it held it, still does.
<1>3. ASSUME final[i][Concat] # NoFile,
             item[a] = i /\ Holds(a) => item'[a] = i /\ Holds(a)'
      PROVE  \E b \in Actors : item'[b] = i /\ Holds(b)'
  <2>1. PICK b \in Actors : item[b] = i /\ Holds(b)
    BY <1>1, <1>3 DEF ConcatOwned
  <2> QED BY <1>2, <1>3, <2>1
<1>4. CASE MarkInProgress(a) \/ MarkReady(a) \/ MarkFailed(a)
  <2>1. UNCHANGED final /\ pc[a] \in {"mark", "commit", "failing"}
    BY <1>4 DEF MarkInProgress, MarkReady, MarkFailed, disk
  <2> QED BY <1>3, <2>1
<1>5. CASE OpenTmp(a)
  <2>1. UNCHANGED <<final, item, step, plan>> /\ pc'[a] = "write"
    BY <1>1, <1>5 DEF OpenTmp, Goto
  <2> QED BY <1>3, <2>1, SameOutputs
\* A transcode that fails past the join goes to remove the joined file.
<1>6. ASSUME UNCHANGED <<final, item, step, plan>>, pc' = [pc EXCEPT ![a] = AfterFailure(a)]
      PROVE  \E b \in Actors : item'[b] = i /\ Holds(b)'
  <2>1. Joins(a) /\ step[a] > 1 => pc'[a] = "unjoinFail"
    BY <1>1, <1>6 DEF AfterFailure
  <2>2. item[a] = i /\ Holds(a) => item'[a] = i /\ Holds(a)'
    BY <1>6, <2>1, SameOutputs
  <2> QED BY <1>3, <1>6, <2>2
<1>7. CASE OpenFails(a) \/ WriteFails(a)
  BY <1>6, <1>7 DEF OpenFails, WriteFails, Goto
<1>8. CASE WriteDone(a)
  <2>1. CASE tmp[item[a]][Target(a)] = NoFile
    BY <1>6, <1>8, <2>1 DEF WriteDone, Goto
  <2>2. CASE tmp[item[a]][Target(a)] # NoFile
    <3>1. /\ step[a] \in 1 .. OutputCount(a) /\ OutputCount(a) \in 1 .. MaxSegs + 1
          /\ MaxSegs \in Nat /\ (Joins(a) => OutputCount(a) > 1)
          /\ (Target(a) = Concat => Joins(a) /\ step[a] = 1)
          /\ Target(a) \in FileNames
      BY <1>1, <1>8, Shapes, Constants, OutputType DEF WriteDone, ActorOK, Busy, Target
    <3>2. item' = item /\ plan' = plan /\ Proceed(a)
      BY <1>8, <2>2 DEF WriteDone
    <3>3. Joins(a) => /\ pc'[a] \in {"open", "split", "unjoinOK"}
                      /\ step'[a] > 1
      <4>1. CASE step[a] < OutputCount(a)
        BY <1>1, <3>1, <3>2, <4>1 DEF Proceed, Goto
      <4>2. CASE ~(step[a] < OutputCount(a))
        BY <1>1, <3>1, <3>2, <4>2 DEF Proceed, Goto
      <4> QED BY <4>1, <4>2
    <3>4. Joins(a) => Holds(a)'
      BY <3>2, <3>3, SameOutputs
    <3>5. CASE i = item[a] /\ Target(a) = Concat
      BY <3>1, <3>2, <3>4, <3>5
    <3>6. CASE ~(i = item[a] /\ Target(a) = Concat)
      <4>1. final' = [final EXCEPT ![item[a]][Target(a)] = tmp[item[a]][Target(a)]]
        BY <1>8, <2>2 DEF WriteDone
      <4>2. final'[i][Concat] = final[i][Concat]
        BY <1>1, <3>1, <3>6, <4>1
      <4> QED BY <1>3, <3>2, <3>4, <4>2
    <3> QED BY <3>5, <3>6
  <2> QED BY <2>1, <2>2
<1>9. CASE RemoveConcat(a)
  <2>1. item[a] # i
    BY <1>1, <1>9 DEF RemoveConcat
  <2>2. final[i][Concat] # NoFile
    BY <1>1, <1>9, <2>1 DEF RemoveConcat
  <2> QED BY <1>3, <2>1, <2>2
\* Whoever finds the joined file gone has nothing to tidy up.
<1>10. CASE Split(a) \/ SplitFails(a)
  <2>1. final' = final /\ step' = step /\ item' = item
    BY <1>10 DEF Split, SplitFails, disk
  <2>2. CASE SplitFails(a) /\ final[item[a]][Concat] = NoFile
    BY <1>3, <2>1, <2>2
  <2>3. CASE SplitFails(a) /\ final[item[a]][Concat] # NoFile
    <3>1. plan' = plan /\ pc'[a] = "unjoinFail"
      BY <1>1, <2>3 DEF SplitFails, Goto
    <3>2. Holds(a) => Holds(a)'
      BY <2>1, <3>1, SameOutputs
    <3> QED BY <1>3, <2>1, <3>2
  <2>4. CASE Split(a)
    <3>1. pc[a] = "split" /\ pc'[a] = "open"
      BY <1>1, <2>4 DEF Split, Goto
    <3>2. Joins(a) => Joins(a)'
      BY <2>4, <3>1, PlanKept DEF Busy
    <3>3. Holds(a) => Holds(a)'
      BY <2>1, <3>1, <3>2
    <3> QED BY <1>3, <2>1, <3>3
  <2> QED BY <1>10, <2>2, <2>3, <2>4
<1> QED BY <1>4, <1>5, <1>7, <1>8, <1>9, <1>10 DEF TranscodeStep

\* A list goes when the ffmpeg that reads it is over; who keeps running keeps its own.
LEMMA ListOwnedStep ==
  ASSUME TypeInv, ListOwned, NEW a \in Actors, TranscodeStep(a)
  PROVE  ListOwned'
<1> DEFINE Reads(b, i, n) == item[b] = i /\ pc[b] = "write" /\ Target(b) = n /\ Listed(b)
<1> SUFFICES ASSUME NEW i \in Items, NEW n \in FileNames, list'[i][n] = "ours"
             PROVE  \E b \in Actors : Reads(b, i, n)'
  BY DEF ListOwned
<1>1. /\ item[a] \in Items /\ pc \in [Actors -> ActorPCs]
      /\ list \in [Items -> [FileNames -> {"none", "ours", "left"}]]
      /\ pc[a] \in Busy => Target(a) \in FileNames
  BY TranscodeMoves, OutputType DEF TypeInv, TypeOK, ActorOK, Target
<1>2. \A b \in Actors \ {a} : Reads(b, i, n) => Reads(b, i, n)'
  BY TranscodeMoves, SameOutputs
\* The list was there, and it was not a that read it.
<1>3. ASSUME list[i][n] = "ours", ~Reads(a, i, n)
      PROVE  \E b \in Actors : Reads(b, i, n)'
  BY <1>2, <1>3 DEF ListOwned
<1>4. CASE OpenTmp(a)
  <2>1. pc[a] = "open" /\ pc'[a] = "write" /\ UNCHANGED <<item, step, plan>>
    BY <1>1, <1>4 DEF OpenTmp, Goto
  <2>2. CASE Listed(a) /\ i = item[a] /\ n = Target(a)
    BY <2>1, <2>2, SameOutputs
  <2>3. CASE ~(Listed(a) /\ i = item[a] /\ n = Target(a))
    <3>1. list'[i][n] = list[i][n]
      BY <1>1, <1>4, <2>3 DEF OpenTmp
    <3> QED BY <1>3, <2>1, <3>1
  <2> QED BY <2>2, <2>3
<1>5. ASSUME DropList(a), pc[a] \in Busy PROVE \E b \in Actors : Reads(b, i, n)'
  <2>1. list'[i][n] = IF Listed(a) /\ i = item[a] /\ n = Target(a) THEN "none" ELSE list[i][n]
    BY <1>1, <1>5 DEF DropList
  <2> QED BY <1>3, <2>1
<1>6. CASE OpenFails(a)
  <2>1. pc[a] = "open"
    BY <1>6 DEF OpenFails
  <2>2. CASE UNCHANGED list
    BY <1>3, <2>1, <2>2
  <2>3. CASE DropList(a)
    BY <1>5, <2>1, <2>3 DEF Busy
  <2> QED BY <1>6, <2>2, <2>3 DEF OpenFails
<1>7. CASE WriteDone(a) \/ WriteFails(a)
  BY <1>5, <1>7 DEF WriteDone, WriteFails, Busy
<1>8. CASE MarkInProgress(a) \/ Split(a) \/ SplitFails(a) \/ RemoveConcat(a) \/ MarkReady(a) \/ MarkFailed(a)
  <2>1. UNCHANGED list /\ pc[a] # "write"
    BY <1>8 DEF MarkInProgress, Split, SplitFails, RemoveConcat, MarkReady, MarkFailed, disk
  <2> QED BY <1>3, <2>1
<1> QED BY <1>4, <1>6, <1>7, <1>8 DEF TranscodeStep

LEMMA TempStep == TempInv /\ [Next]_vars => TempInv'
<1> SUFFICES ASSUME TempInv, [Next]_vars PROVE TempInv'
  OBVIOUS
<1>1. TypeInv /\ TypeInv' /\ TmpOwned /\ ConcatOwned /\ ListOwned
  BY NextTypeInv DEF TempInv
<1>2. ASSUME NEW p \in {"down", "panicked"}, Dies(p) PROVE TmpOwned' /\ ConcatOwned' /\ ListOwned'
  <2>1. \A i \in Items : \A n \in FileNames : list'[i][n] # "ours"
    BY <1>2 DEF Dies
  <2> QED BY <1>2, <2>1 DEF Dies, TmpOwned, ConcatOwned, ListOwned, Running
<1>3. ASSUME Restart PROVE TmpOwned' /\ ConcatOwned' /\ ListOwned'
  <2>1. \A i \in Items : \A n \in FileNames : tmp'[i][n] = NoFile
    BY <1>3 DEF Restart
  <2>2. \A i \in Items : final'[i][Concat] = NoFile
    <3>1. final \in [Items -> [FileNames -> Files \cup {NoFile}]] /\ Concat \in FileNames
      BY <1>1, Constants DEF TypeInv, TypeOK
    <3> QED BY <1>3, <3>1 DEF Restart
  <2>3. ListOwned'
    <3>1. \A b \in Actors : pc[b] # "write"
      BY <1>1, <1>3 DEF TypeInv, ActorOK, Restart, Running
    <3> QED BY <1>1, <1>3, <3>1 DEF Restart, ListOwned
  <2> QED BY <2>1, <2>2, <2>3 DEF TmpOwned, ConcatOwned
<1>4. ASSUME AsideStep PROVE TmpOwned' /\ ConcatOwned' /\ ListOwned'
  <2>1. UNCHANGED <<tmp, final, list, fd>> /\ Running' = Running
    BY <1>4 DEF AsideStep
  <2>2. \A b \in Actors : pc[b] \in Busy =>
          /\ pc'[b] = pc[b] /\ item'[b] = item[b] /\ step'[b] = step[b]
          /\ Target(b)' = Target(b) /\ Listed(b)' = Listed(b) /\ Joins(b)' = Joins(b)
    BY <1>4, SameOutputs DEF AsideStep
  <2>3. \A b \in Actors : fd[b] = "tmp" => pc[b] \in Busy
    BY <1>1 DEF TypeInv, ActorOK, Busy
  <2>4. TmpOwned'
    BY <1>1, <2>1, <2>2, <2>3 DEF TmpOwned
  <2>5. ConcatOwned'
    BY <1>1, <2>1, <2>2 DEF ConcatOwned, Busy
  <2>6. ListOwned'
    BY <1>1, <2>1, <2>2 DEF ListOwned, Busy
  <2> QED BY <2>4, <2>5, <2>6
<1> QED BY <1>1, <1>2, <1>3, <1>4, StepKinds, TmpOwnedStep, ConcatOwnedStep, ListOwnedStep
        DEF TempInv

\* No temporary file, joined file or list is left behind while the process runs, whichever
\* transcodes share the paths and however they end; a restart finds the temporary and joined
\* files a crash has left, and of its lists, which it does not look for, none is taken for
\* somebody's (transcoder.go, CleanupTempFiles).
THEOREM NoTempFileLeaks == Spec => []TempFilesOwned
<1>1. Init => TempInv
  BY InitTypeInv, Constants DEF TempInv, Init, TmpOwned, ConcatOwned, ListOwned
<1>2. Spec => []TempInv
  BY <1>1, TempStep, PTL DEF Spec
<1>3. TempInv => TempFilesOwned
  <2> SUFFICES ASSUME TempInv, Running, NEW i \in Items
               PROVE  /\ \A n \in FileNames : tmp[i][n] # NoFile => Writers(i, n, "tmp") # {}
                      /\ \A n \in FileNames : list[i][n] = "ours" =>
                           \E a \in Actors : item[a] = i /\ pc[a] = "write" /\ Target(a) = n /\ Listed(a)
                      /\ final[i][Concat] # NoFile =>
                           \E a \in Actors : item[a] = i /\ pc[a] \in Busy /\ Joins(a) /\ step[a] > 1
    BY DEF TempFilesOwned
  <2>1. ASSUME NEW n \in FileNames, tmp[i][n] # NoFile PROVE Writers(i, n, "tmp") # {}
    BY <2>1 DEF TempInv, TmpOwned, Writers
  <2>2. ASSUME final[i][Concat] # NoFile
        PROVE  \E a \in Actors : item[a] = i /\ pc[a] \in Busy /\ Joins(a) /\ step[a] > 1
    BY <2>2 DEF TempInv, ConcatOwned, Busy
  <2>3. \A n \in FileNames : list[i][n] = "ours" =>
          \E a \in Actors : item[a] = i /\ pc[a] = "write" /\ Target(a) = n /\ Listed(a)
    BY DEF TempInv, ListOwned
  <2> QED BY <2>1, <2>2, <2>3
<1> QED BY <1>2, <1>3, PTL

=============================================================================
