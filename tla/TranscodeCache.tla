--------------------------- MODULE TranscodeCache ---------------------------
(***************************************************************************)
(* The transcode cache: the rows of cache_index, the files of the cache    *)
(* directory, the worker pool behind a bounded job queue, the hourly       *)
(* warm-up job that feeds it, and the /play handlers that transcode on     *)
(* their own.  Workers and handlers share one row and one set of temporary *)
(* paths per item and no lock.                                             *)
(*                                                                         *)
(* A file is a directory entry; what it holds is abstracted to the source  *)
(* it was made from ("first": the primary audio file only, which is what   *)
(* the warm-up queues; "all": every audio file, which is what /play asks   *)
(* for) and to whether one process alone wrote it from whole input.  An    *)
(* ffmpeg process keeps writing to the inode it opened wherever a rename   *)
(* or a remove has put that inode: fd says where it is.                    *)
(*                                                                         *)
(* Each attempt looks at its input anew, and a look may fail without the   *)
(* attempt failing: a source whose duration is not found is not segmented, *)
(* one whose format is not found becomes mp3, and how many segments a      *)
(* joined file has is what a probe of it says.  plan is what an attempt    *)
(* has made of its looks.                                                  *)
(*                                                                         *)
(* Left out: SQL errors, deletion of cache files by somebody else, and     *)
(* ffmpeg children outliving the process (the container is their parent).  *)
(***************************************************************************)
EXTENDS Naturals, Sequences

CONSTANTS
  Items,        \* library items
  NoItem,       \* not an item
  Workers,      \* goroutines of the pool
  Requests,     \* concurrent /play requests
  QueueCap,     \* capacity of the jobs channel (100 in the code)
  Formats,      \* output formats
  MaxSegs,      \* bound on the segments of one item
  Multi,        \* Multi[i]: the item has several audio files
  Segs,         \* Segs[i][s]: segments source s is long enough for, 1 = none
  Fmts          \* Fmts[i][s]: formats an attempt on source s may decide on

Sources == {"first", "all"}
Actors == Workers \cup Requests

ASSUME ActorsAssumption == /\ Workers \cap Requests = {}
                           /\ NoItem \notin Items
ASSUME SizesAssumption  == /\ QueueCap \in Nat \ {0}
                           /\ MaxSegs \in Nat \ {0}
ASSUME ItemsAssumption  == /\ Multi \in [Items -> BOOLEAN]
                           /\ Segs \in [Items -> [Sources -> 1 .. MaxSegs]]
                           /\ Fmts \in [Items -> [Sources -> SUBSET Formats]]
                           /\ \A i \in Items, s \in Sources : "mp3" \in Fmts[i][s]
                           /\ "mp3" \in Formats

VARIABLES
  row,          \* cache_index
  tmp,          \* "<name>.tmp" in the item's cache directory
  final,        \* "<name>" in the item's cache directory
  list,         \* "<name>.concat.txt" there: the inputs of a join
  queue,        \* the jobs channel
  pc,           \* where each worker and each /play request is
  item,         \* the item it works on
  step,         \* which of its outputs it produces
  plan,         \* what it produces, as far as it has looked
  fd,           \* where the inode its ffmpeg writes to is now
  warm,         \* the warm-up goroutine
  url,          \* stream URL a /play request gave to the player
  phase,        \* the process: up, stopping, down, panicked
  overlapped,   \* auxiliary: two transcodes of the item ran at once
  cuts          \* auxiliary: the numbers of segments its segments were cut for

disk  == <<tmp, final, list, fd>>
procs == <<pc, item, step, plan>>
aux   == <<overlapped, cuts>>
vars  == <<row, disk, queue, procs, warm, url, phase, aux>>

-----------------------------------------------------------------------------
(* Names and rows. *)

Audio(f)      == [kind |-> "audio", no |-> 0, ext |-> f]
Segment(k, f) == [kind |-> "segment", no |-> k, ext |-> f]
Concat        == [kind |-> "concat", no |-> 0, ext |-> "tmp"]

FileNames == {Audio(f) : f \in Formats}
             \cup {Segment(k, f) : k \in 0 .. MaxSegs - 1, f \in Formats}
             \cup {Concat}

NoFile == [src |-> "none", clean |-> FALSE]
Files  == [src : Sources, clean : BOOLEAN]

Statuses == {"none", "pending", "in_progress", "ready", "failed"}
Rows     == [status : Statuses, segs : 1 .. MaxSegs, fmt : Formats]

\* No row; its segments and format are what an INSERT gives a new one.
NoRow == [status |-> "none", segs |-> 1, fmt |-> "mp3"]

\* No stream URL yet.
NoUrl == [item |-> NoItem, name |-> Concat]

Src(a) == IF a \in Workers THEN "first" ELSE "all"

\* What an attempt may make of its source before it has produced anything.
Plans == [cut : BOOLEAN, segs : 1 .. MaxSegs, fmt : Formats]
NoPlan == [cut |-> FALSE, segs |-> 1, fmt |-> "mp3"]

\* needsSegmentation and the look at the format.  More than two hours of audio are
\* cut into segments, unless a duration is not found; a format that is not found is
\* mp3.  What a joined file will be is only known when it is there (Split).
Decided(i, s) ==
  [cut : {FALSE}, segs : {1}, fmt : Fmts[i][s]]
  \cup IF Segs[i][s] = 1 THEN {} ELSE [cut : {TRUE}, segs : {Segs[i][s]}, fmt : Fmts[i][s]]

Segmented(a) == plan[a].cut

\* Several files are first joined into concat_temp.tmp, then segmented.
Joins(a) == Segmented(a) /\ Src(a) = "all" /\ Multi[item[a]]

\* Mutant: the number of segments rounded down.
OutputCount_rounded_down(a) ==
  IF Segmented(a) /\ ~Joins(a) THEN plan[a].segs - 1 ELSE plan[a].segs

OutputCount(a) == IF Joins(a) THEN plan[a].segs + 1 ELSE plan[a].segs

\* Mutant: what is not cut is a single segment.
Output_numbered(a, k) ==
  IF ~Segmented(a) THEN Segment(0, plan[a].fmt)
  ELSE IF ~Joins(a) THEN Segment(k - 1, plan[a].fmt)
  ELSE IF k = 1 THEN Concat ELSE Segment(k - 2, plan[a].fmt)

\* The k-th file the transcode of actor a produces.
Output(a, k) ==
  IF ~Segmented(a) THEN Audio(plan[a].fmt)
  ELSE IF ~Joins(a) THEN Segment(k - 1, plan[a].fmt)
  ELSE IF k = 1 THEN Concat ELSE Segment(k - 2, plan[a].fmt)

Target(a) == Output(a, step[a])

\* Several inputs are listed in a file beside the output for ffmpeg to read.
Listed(a) == Src(a) = "all" /\ Multi[item[a]] /\ Target(a).kind # "segment"

\* Between marking the row in_progress and marking it ready or failed.
Busy == {"open", "write", "split", "unjoinOK", "unjoinFail", "commit", "failing"}

\* Actors whose ffmpeg writes an inode that is at place p under name n.
Writers(i, n, p) ==
  {a \in Actors : fd[a] = p /\ item[a] = i /\ Target(a) = n}

\* A file nobody is still writing and that only one process wrote.
Intact(i, n) == final[i][n].clean /\ Writers(i, n, "final") = {}

RowFiles(r) ==
  IF r.segs > 1 THEN {Segment(k, r.fmt) : k \in 0 .. r.segs - 1}
                ELSE {Audio(r.fmt)}

IsCached(i) ==
  /\ row[i].status = "ready"
  /\ \A n \in RowFiles(row[i]) : final[i][n] # NoFile

\* Mutant: the last segment is taken to be out of range.
StreamAnswers_short(i, n) ==
  /\ row[i].status # "none"
  /\ IF n.kind = "segment"
     THEN /\ row[i].segs > 1
          /\ n.no < row[i].segs - 1
          /\ final[i][Segment(n.no, row[i].fmt)] # NoFile
     ELSE /\ row[i].segs <= 1
          /\ final[i][Audio(row[i].fmt)] # NoFile

\* What GET /stream/{token}/{name} finds: any row will do, whatever its status,
\* and the format is the row's, not the one in the name.
StreamAnswers(i, n) ==
  /\ row[i].status # "none"
  /\ IF n.kind = "segment"
     THEN /\ row[i].segs > 1
          /\ n.no < row[i].segs
          /\ final[i][Segment(n.no, row[i].fmt)] # NoFile
     ELSE /\ row[i].segs <= 1
          /\ final[i][Audio(row[i].fmt)] # NoFile

\* UPDATE cache_index SET status: no row, no effect.
SetStatus(i, s) ==
  row' = IF row[i].status = "none" THEN row
         ELSE [row EXCEPT ![i].status = s]

-----------------------------------------------------------------------------
(* The file system. *)

\* os.Remove of the temporary file: its writers go on writing a nameless inode.
RemoveTmp(a, n) ==
  /\ tmp' = [tmp EXCEPT ![item[a]][n] = NoFile]
  /\ fd' = [b \in Actors |->
              IF b = a THEN "none"
              ELSE IF b \in Writers(item[a], n, "tmp") THEN "gone"
              ELSE fd[b]]

\* os.Rename(tempPath, outputPath): the inode now under tempPath, whoever
\* opened it, replaces the one under outputPath.
RenameTmp(a, n) ==
  /\ tmp' = [tmp EXCEPT ![item[a]][n] = NoFile]
  /\ fd' = [b \in Actors |->
              IF b = a THEN "none"
              ELSE IF b \in Writers(item[a], n, "tmp") THEN "final"
              ELSE IF b \in Writers(item[a], n, "final") THEN "gone"
              ELSE fd[b]]

\* The deferred os.Remove of the list.
DropList(a) ==
  list' = IF Listed(a) THEN [list EXCEPT ![item[a]][Target(a)] = "none"] ELSE list

-----------------------------------------------------------------------------
(* One transcode, by a worker (processJob) or by a /play handler            *)
(* (TranscodeSyncMultiple): the same steps on the same row and paths.       *)

Goto(a, p) == pc' = [pc EXCEPT ![a] = p]

Finish(a, p) ==
  /\ Goto(a, p)
  /\ step' = [step EXCEPT ![a] = 0] /\ plan' = [plan EXCEPT ![a] = NoPlan]
  /\ item' = IF p = "idle" THEN [item EXCEPT ![a] = NoItem] ELSE item

\* It is at work on the item, with a plan; others may be at work on it too.
Begin(a) ==
  /\ Goto(a, "open")
  /\ step' = [step EXCEPT ![a] = 1]
  /\ \E p \in Decided(item[a], Src(a)) : plan' = [plan EXCEPT ![a] = p]
  /\ overlapped' = IF \E b \in Actors : pc[b] \in Busy /\ item[b] = item[a]
                   THEN overlapped \cup {item[a]} ELSE overlapped

\* MarkInProgress: whatever the row says, and whoever else is at work.
MarkInProgress(a) ==
  /\ pc[a] = "mark"
  /\ SetStatus(item[a], "in_progress")
  /\ Begin(a)
  /\ UNCHANGED <<disk, queue, item, warm, url, phase, cuts>>

\* The first segment onwards reads the joined file, which has to be there.
InputPresent(a) == Joins(a) /\ step[a] > 1 => final[item[a]][Concat] # NoFile
InputIntact(a)  == Joins(a) /\ step[a] > 1 => Intact(item[a], Concat)

\* The list is written and ffmpeg -y starts: it truncates the file another ffmpeg
\* may be writing.
OpenTmp(a) ==
  LET i == item[a]
      n == Target(a)
  IN  /\ pc[a] = "open"
      /\ InputPresent(a)
      /\ a \in Workers => phase = "up"
      /\ tmp' = [tmp EXCEPT ![i][n] =
                   [src   |-> Src(a),
                    clean |-> InputIntact(a) /\ Writers(i, n, "tmp") = {}]]
      /\ list' = IF Listed(a) THEN [list EXCEPT ![i][n] = "ours"] ELSE list
      /\ fd' = [fd EXCEPT ![a] = "tmp"]
      /\ Goto(a, "write")
      /\ UNCHANGED <<row, final, queue, item, step, plan, warm, url, phase, aux>>

AfterFailure(a) == IF Joins(a) /\ step[a] > 1 THEN "unjoinFail" ELSE "failing"

\* The output cannot be started: a check before ffmpeg fails and nothing is
\* touched, or ffmpeg does not start, as when another has removed the list, and the
\* temporary path is removed.
OpenFails(a) ==
  /\ pc[a] = "open"
  /\ \/ step[a] = 1 /\ UNCHANGED <<tmp, list, fd>>
     \/ RemoveTmp(a, Target(a)) /\ DropList(a)
  /\ Goto(a, AfterFailure(a))
  /\ UNCHANGED <<row, final, queue, item, step, plan, warm, url, phase, aux>>

\* Mutant: the goroutine returns and nobody marks the row.
WriteFails_unmarked(a) ==
  /\ pc[a] = "write"
  /\ RemoveTmp(a, Target(a)) /\ DropList(a)
  /\ Finish(a, "idle")
  /\ UNCHANGED <<row, final, queue, warm, url, phase, aux>>

\* Mutant: what ffmpeg left is kept under the final name.
WriteFails_publishes(a) ==
  LET n == Target(a) IN
  /\ pc[a] = "write"
  /\ RenameTmp(a, n) /\ DropList(a)
  /\ final' = [final EXCEPT ![item[a]][n] = [tmp[item[a]][n] EXCEPT !.clean = FALSE]]
  /\ Goto(a, AfterFailure(a))
  /\ UNCHANGED <<row, queue, item, step, plan, warm, url, phase, aux>>

\* ffmpeg fails, or its context is cancelled: the temporary path is removed.
WriteFails(a) ==
  /\ pc[a] = "write"
  /\ RemoveTmp(a, Target(a)) /\ DropList(a)
  /\ Goto(a, AfterFailure(a))
  /\ UNCHANGED <<row, final, queue, item, step, plan, warm, url, phase, aux>>

\* What a goes on with when it has an output: a joined file is looked at, segments
\* follow each other, and the last one is followed by the tidying up.
Proceed(a) ==
  IF step[a] < OutputCount(a)
  THEN /\ Goto(a, IF Joins(a) /\ step[a] = 1 THEN "split" ELSE "open")
       /\ step' = [step EXCEPT ![a] = @ + 1]
  ELSE /\ Goto(a, IF Joins(a) THEN "unjoinOK" ELSE "commit")
       /\ UNCHANGED step

\* ffmpeg exits 0 and the temporary path is renamed onto the output; when the
\* path is gone the rename fails, and so does the transcode.
WriteDone(a) ==
  LET i == item[a]
      n == Target(a)
  IN  /\ pc[a] = "write"
      /\ IF tmp[i][n] # NoFile
         THEN /\ RenameTmp(a, n)
              /\ final' = [final EXCEPT ![i][n] = tmp[i][n]]
              /\ cuts' = IF n.kind = "segment"
                         THEN [cuts EXCEPT ![i] = @ \cup {plan[a].segs}] ELSE cuts
              /\ Proceed(a)
         ELSE /\ RemoveTmp(a, n)
              /\ Goto(a, AfterFailure(a))
              /\ UNCHANGED <<final, step, cuts>>
      /\ DropList(a)
      /\ UNCHANGED <<row, queue, item, plan, warm, url, phase, overlapped>>

\* SmartTranscodeSegmented looks at the joined file: its format, and how long it is
\* now, whoever has joined it meanwhile.  It is at least one segment.
Split(a) ==
  /\ pc[a] = "split"
  /\ final[item[a]][Concat] # NoFile
  /\ \E n \in 1 .. MaxSegs, f \in Fmts[item[a]]["all"] :
       plan' = [plan EXCEPT ![a].segs = n, ![a].fmt = f]
  /\ Goto(a, "open")
  /\ UNCHANGED <<row, disk, queue, item, step, warm, url, phase, aux>>

\* It is gone already when the join has a last look at it, and nothing is tidied up;
\* or a check or the probe fails.
SplitFails(a) ==
  /\ pc[a] = "split"
  /\ \/ final[item[a]][Concat] = NoFile /\ Goto(a, "failing")
     \/ Goto(a, "unjoinFail")
  /\ UNCHANGED <<row, disk, queue, item, step, plan, warm, url, phase, aux>>

\* Mutant: the joined file is kept when the segments fail.
RemoveConcat_on_success_only(a) ==
  /\ pc[a] \in {"unjoinOK", "unjoinFail"}
  /\ IF pc[a] = "unjoinOK"
     THEN /\ final' = [final EXCEPT ![item[a]][Concat] = NoFile]
          /\ fd' = [b \in Actors |->
                      IF b \in Writers(item[a], Concat, "final") THEN "gone" ELSE fd[b]]
     ELSE UNCHANGED <<final, fd>>
  /\ Goto(a, IF pc[a] = "unjoinOK" THEN "commit" ELSE "failing")
  /\ UNCHANGED <<row, tmp, list, queue, item, step, plan, warm, url, phase, aux>>

\* Mutant: a failed transcode takes its segments with it.
RemoveConcat_and_segments(a) ==
  /\ pc[a] \in {"unjoinOK", "unjoinFail"}
  /\ final' = [final EXCEPT ![item[a]] =
                 IF pc[a] = "unjoinFail" THEN [n \in FileNames |-> NoFile]
                                         ELSE [@ EXCEPT ![Concat] = NoFile]]
  /\ fd' = [b \in Actors |->
              IF b \in Writers(item[a], Concat, "final") THEN "gone" ELSE fd[b]]
  /\ Goto(a, IF pc[a] = "unjoinOK" THEN "commit" ELSE "failing")
  /\ UNCHANGED <<row, tmp, list, queue, item, step, plan, warm, url, phase, aux>>

\* The joined file is removed once the segments are done, or have failed.
RemoveConcat(a) ==
  /\ pc[a] \in {"unjoinOK", "unjoinFail"}
  /\ final' = [final EXCEPT ![item[a]][Concat] = NoFile]
  /\ fd' = [b \in Actors |->
              IF b \in Writers(item[a], Concat, "final") THEN "gone" ELSE fd[b]]
  /\ Goto(a, IF pc[a] = "unjoinOK" THEN "commit" ELSE "failing")
  /\ UNCHANGED <<row, tmp, list, queue, item, step, plan, warm, url, phase, aux>>

\* MarkReadyWithFormat writes status and format and leaves the segment columns;
\* MarkReadyWithSegments writes them.  A handler goes on to answer /play.
MarkReady(a) ==
  LET i == item[a]
      ready == IF Segmented(a)
               THEN [status |-> "ready", segs |-> plan[a].segs, fmt |-> plan[a].fmt]
               ELSE [row[i] EXCEPT !.status = "ready", !.fmt = plan[a].fmt]
  IN  /\ pc[a] = "commit"
      /\ row' = IF row[i].status = "none" THEN row
                ELSE [row EXCEPT ![i] = ready]
      /\ Finish(a, IF a \in Workers THEN "idle" ELSE "serve")
      /\ UNCHANGED <<disk, queue, warm, url, phase, aux>>

\* Mutant: a worker whose job failed leaves the pool.
MarkFailed_ends_worker(a) ==
  /\ pc[a] = "failing"
  /\ SetStatus(item[a], "failed")
  /\ Finish(a, IF a \in Workers THEN "returned" ELSE "idle")
  /\ UNCHANGED <<disk, queue, warm, url, phase, aux>>

MarkFailed(a) ==
  /\ pc[a] = "failing"
  /\ SetStatus(item[a], "failed")
  /\ Finish(a, "idle")
  /\ UNCHANGED <<disk, queue, warm, url, phase, aux>>

TranscodeStep(a) ==
  \/ MarkInProgress(a)
  \/ OpenTmp(a)
  \/ OpenFails(a)
  \/ WriteDone(a)
  \/ WriteFails(a)
  \/ Split(a)
  \/ SplitFails(a)
  \/ RemoveConcat(a)
  \/ MarkReady(a)
  \/ MarkFailed(a)

-----------------------------------------------------------------------------
(* POST /play, up to the URL it gives to the player. *)

\* IsCached, then GetEntry when it is not.
Play(r, i) ==
  /\ pc[r] = "idle"
  /\ phase \in {"up", "stopping"}
  /\ item' = [item EXCEPT ![r] = i]
  /\ url' = [url EXCEPT ![r] = NoUrl]
  /\ Goto(r, IF IsCached(i) THEN "serve"
             ELSE IF row[i].status = "none" THEN "delete" ELSE "mark")
  /\ UNCHANGED <<row, disk, queue, step, plan, warm, phase, aux>>

\* CreateEntry is a DELETE and an INSERT; the INSERT of a row that is there again
\* fails and the request is answered with an error.
DeleteRow(r) ==
  /\ pc[r] = "delete"
  /\ row' = [row EXCEPT ![item[r]] = NoRow]
  /\ Goto(r, "insert")
  /\ UNCHANGED <<disk, queue, item, step, plan, warm, url, phase, aux>>

\* Mutant: a failed INSERT is tried again until the row is gone.
InsertRow_retries(r) ==
  /\ pc[r] = "insert"
  /\ row[item[r]].status = "none"
  /\ row' = [row EXCEPT ![item[r]].status = "pending"]
  /\ Goto(r, "mark")
  /\ UNCHANGED <<disk, queue, item, step, plan, warm, url, phase, aux>>

InsertRow(r) ==
  /\ pc[r] = "insert"
  /\ IF row[item[r]].status = "none"
     THEN /\ row' = [row EXCEPT ![item[r]].status = "pending"]
          /\ Goto(r, "mark")
          /\ UNCHANGED <<item, step, plan>>
     ELSE /\ Finish(r, "idle")
          /\ UNCHANGED row
  /\ UNCHANGED <<disk, queue, warm, url, phase, aux>>

\* The row is read again and names the file, or the segment the saved position
\* falls into.
Serve(r) ==
  LET i == item[r]
  IN  /\ pc[r] = "serve"
      /\ IF row[i].status = "none" THEN UNCHANGED url
         ELSE \E n \in RowFiles(row[i]) :
                url' = [url EXCEPT ![r] = [item |-> i, name |-> n]]
      /\ Finish(r, "idle")
      /\ UNCHANGED <<row, disk, queue, warm, phase, aux>>

-----------------------------------------------------------------------------
(* The warm-up job and the queue. *)

Warms   == [pc : {"idle", "scan", "delete", "insert", "enqueue"},
            item : Items \cup {NoItem}, todo : SUBSET Items]
Resting == [pc |-> "idle", item |-> NoItem, todo |-> {}]

\* A run gets a list of items from the library: one page of it, in any order.
WarmStart(page) ==
  /\ warm = Resting
  /\ phase = "up"
  /\ page # {}
  /\ warm' = [warm EXCEPT !.pc = "scan", !.todo = page]
  /\ UNCHANGED <<row, disk, queue, procs, url, phase, aux>>

\* What warm is when it is done with an item.
NextItem(w) ==
  IF w.todo = {} THEN Resting ELSE [w EXCEPT !.pc = "scan", !.item = NoItem]

\* Cached and in_progress items are skipped; failed and pending ones are not.
WarmCheck(i) ==
  LET rest == [warm EXCEPT !.item = i, !.todo = @ \ {i}]
  IN  /\ warm.pc = "scan"
      /\ i \in warm.todo
      /\ warm' = IF IsCached(i) \/ row[i].status = "in_progress"
                 THEN NextItem(rest)
                 ELSE [rest EXCEPT !.pc = IF row[i].status = "none"
                                          THEN "delete" ELSE "enqueue"]
      /\ UNCHANGED <<row, disk, queue, procs, url, phase, aux>>

WarmDelete ==
  /\ warm.pc = "delete"
  /\ row' = [row EXCEPT ![warm.item] = NoRow]
  /\ warm' = [warm EXCEPT !.pc = "insert"]
  /\ UNCHANGED <<disk, queue, procs, url, phase, aux>>

WarmInsert ==
  /\ warm.pc = "insert"
  /\ IF row[warm.item].status = "none"
     THEN /\ row' = [row EXCEPT ![warm.item].status = "pending"]
          /\ warm' = [warm EXCEPT !.pc = "enqueue"]
     ELSE /\ warm' = NextItem(warm)
          /\ UNCHANGED row
  /\ UNCHANGED <<disk, queue, procs, url, phase, aux>>

\* Mutant: the send goes ahead on a full channel.
WarmEnqueue_grows ==
  /\ warm.pc = "enqueue"
  /\ phase = "up"
  /\ queue' = Append(queue, warm.item)
  /\ warm' = NextItem(warm)
  /\ UNCHANGED <<row, disk, procs, url, phase, aux>>

\* A send that would block is dropped.
WarmEnqueue ==
  /\ warm.pc = "enqueue"
  /\ phase = "up"
  /\ queue' = IF Len(queue) < QueueCap THEN Append(queue, warm.item) ELSE queue
  /\ warm' = NextItem(warm)
  /\ UNCHANGED <<row, disk, procs, url, phase, aux>>

\* A worker takes a job.  With the context cancelled the select may still choose
\* a queued job instead of returning.
TakeJob(w) ==
  /\ pc[w] = "idle"
  /\ queue # <<>>
  /\ phase \in {"up", "stopping"}
  /\ queue' = Tail(queue)
  /\ item' = [item EXCEPT ![w] = Head(queue)]
  /\ Goto(w, "mark")
  /\ UNCHANGED <<row, disk, step, plan, warm, url, phase, aux>>

-----------------------------------------------------------------------------
(* The process. *)

\* cacheWorker.Stop: the workers' context is cancelled and the queue closed.
StopWorkers ==
  /\ phase = "up"
  /\ phase' = "stopping"
  /\ UNCHANGED <<row, disk, queue, procs, warm, url, aux>>

WorkerReturns(w) ==
  /\ phase = "stopping"
  /\ pc[w] = "idle"
  /\ Goto(w, "returned")
  /\ UNCHANGED <<row, disk, queue, item, step, plan, warm, url, phase, aux>>

\* The process is gone with everything it had in memory; the lists of its joins,
\* which its goroutines would have removed, stay where they are.
Dies(p) ==
  /\ phase' = p
  /\ queue' = <<>>
  /\ pc' = [a \in Actors |-> "idle"]
  /\ item' = [a \in Actors |-> NoItem]
  /\ step' = [a \in Actors |-> 0]
  /\ plan' = [a \in Actors |-> NoPlan]
  /\ fd' = [a \in Actors |-> "none"]
  /\ list' = [i \in Items |-> [n \in FileNames |->
                IF list[i][n] = "ours" THEN "left" ELSE list[i][n]]]
  /\ warm' = Resting
  /\ UNCHANGED <<row, tmp, final, url, aux>>

\* wg.Wait is over, and server.Shutdown after it.
Exit == phase = "stopping" /\ (\A w \in Workers : pc[w] = "returned") /\ Dies("down")

Crash == phase \in {"up", "stopping"} /\ Dies("down")

\* The warm-up goroutine was not waited for: its send finds a closed channel.
WarmPanics == warm.pc = "enqueue" /\ phase = "stopping" /\ Dies("panicked")

\* Mutant: the rows are left as the crash left them.
Restart_keeps_rows ==
  /\ phase \in {"down", "panicked"}
  /\ phase' = "up"
  /\ tmp' = [i \in Items |-> [n \in FileNames |-> NoFile]]
  /\ final' = [i \in Items |-> [final[i] EXCEPT ![Concat] = NoFile]]
  /\ UNCHANGED <<row, list, fd, queue, procs, warm, url, aux>>

\* main: in_progress rows become pending, *.tmp is removed, workers start.  A list is
\* no *.tmp: CleanupTempFiles leaves it.
Restart ==
  /\ phase \in {"down", "panicked"}
  /\ phase' = "up"
  /\ row' = [i \in Items |-> IF row[i].status = "in_progress"
                             THEN [row[i] EXCEPT !.status = "pending"] ELSE row[i]]
  /\ tmp' = [i \in Items |-> [n \in FileNames |-> NoFile]]
  /\ final' = [i \in Items |-> [final[i] EXCEPT ![Concat] = NoFile]]
  /\ UNCHANGED <<list, fd, queue, procs, warm, url, aux>>

-----------------------------------------------------------------------------
(* The specification. *)

Init ==
  /\ row = [i \in Items |-> NoRow]
  /\ tmp = [i \in Items |-> [n \in FileNames |-> NoFile]]
  /\ final = [i \in Items |-> [n \in FileNames |-> NoFile]]
  /\ list = [i \in Items |-> [n \in FileNames |-> "none"]]
  /\ queue = <<>>
  /\ pc = [a \in Actors |-> "idle"]
  /\ item = [a \in Actors |-> NoItem]
  /\ step = [a \in Actors |-> 0]
  /\ plan = [a \in Actors |-> NoPlan]
  /\ fd = [a \in Actors |-> "none"]
  /\ warm = Resting
  /\ url = [r \in Requests |-> NoUrl]
  /\ phase = "up"
  /\ overlapped = {}
  /\ cuts = [i \in Items |-> {}]

RequestStep(r) ==
  \/ DeleteRow(r)
  \/ InsertRow(r)
  \/ Serve(r)

WarmStep ==
  \/ \E i \in Items : WarmCheck(i)
  \/ WarmDelete
  \/ WarmInsert
  \/ WarmEnqueue
  \/ WarmPanics

Lifecycle ==
  \/ StopWorkers
  \/ \E w \in Workers : WorkerReturns(w)
  \/ Exit
  \/ Crash
  \/ Restart

Next ==
  \/ \E a \in Actors : TranscodeStep(a)
  \/ \E r \in Requests : RequestStep(r) \/ \E i \in Items : Play(r, i)
  \/ \E w \in Workers : TakeJob(w)
  \/ \E page \in SUBSET Items : WarmStart(page)
  \/ WarmStep
  \/ Lifecycle

Spec == Init /\ [][Next]_vars

\* The goroutines run and ffmpeg ends; nothing is assumed of users, of the
\* hourly ticker or of crashes.
Fairness ==
  /\ \A a \in Actors : WF_vars(TranscodeStep(a))
  /\ \A r \in Requests : WF_vars(RequestStep(r))
  /\ \A w \in Workers : WF_vars(TakeJob(w) \/ WorkerReturns(w))
  /\ WF_vars(WarmStep)

FairSpec == Spec /\ Fairness

-----------------------------------------------------------------------------
(* Properties. *)

ActorPCs == Busy \cup {"idle", "mark", "delete", "insert", "serve", "returned"}

\* Types, and what an idle goroutine does not hold.
TypeOK ==
  /\ row \in [Items -> Rows]
  /\ tmp \in [Items -> [FileNames -> Files \cup {NoFile}]]
  /\ final \in [Items -> [FileNames -> Files \cup {NoFile}]]
  /\ list \in [Items -> [FileNames -> {"none", "ours", "left"}]]
  /\ queue \in Seq(Items) /\ Len(queue) <= QueueCap
  /\ pc \in [Actors -> ActorPCs]
  /\ item \in [Actors -> Items \cup {NoItem}]
  /\ step \in [Actors -> 0 .. MaxSegs + 1]
  /\ plan \in [Actors -> Plans]
  /\ fd \in [Actors -> {"none", "tmp", "final", "gone"}]
  /\ warm \in Warms
  /\ url \in [Requests -> [item : Items \cup {NoItem}, name : FileNames]]
  /\ phase \in {"up", "stopping", "down", "panicked"}
  /\ overlapped \in SUBSET Items
  /\ cuts \in [Items -> SUBSET (1 .. MaxSegs)]

Running == phase \in {"up", "stopping"}

\* While the process runs, a row that says in_progress has somebody at work who
\* will mark it: no failure, race or restart leaves one that the warm-up job
\* would skip for ever.
InProgressIsWorkedOn ==
  Running => \A i \in Items : row[i].status = "in_progress" =>
               \E a \in Actors : item[a] = i /\ pc[a] \in Busy

\* While the process runs, every temporary file, the joined file and the lists of
\* joins included, belongs to a transcode that will rename or remove it, even when
\* transcodes of one item steal and remove each other's files; and no crash leaves
\* a temporary or joined file behind.  It does leave the lists: "left" ones are
\* nobody's, and stay until the same file is joined again (see the README).
TempFilesOwned ==
  Running => \A i \in Items :
    /\ \A n \in FileNames : tmp[i][n] # NoFile => Writers(i, n, "tmp") # {}
    /\ \A n \in FileNames : list[i][n] = "ours" =>
         \E a \in Actors : item[a] = i /\ pc[a] = "write" /\ Target(a) = n /\ Listed(a)
    /\ final[i][Concat] # NoFile =>
         \E a \in Actors : item[a] = i /\ pc[a] \in Busy /\ Joins(a) /\ step[a] > 1

\* A published file is complete and one process's work, unless two transcodes
\* of the item were at work at once: no crash, failure or restart at any step
\* publishes a partial file.
WholeUnlessOverlapped ==
  \A i \in Items \ overlapped : \A n \in FileNames :
    final[i][n] # NoFile => Intact(i, n)

\* The files of an item that can be streamed: the joined file is nobody's.
Streamable(i) == {n \in FileNames \ {Concat} : final[i][n] # NoFile}

\* How its transcodes came out, by the files they left: in one format; and cut alike
\* or not at all.  A look that failed in one attempt and not in another is what makes
\* the difference, and so is a joined file that another join has torn.
OneFormat(i) == \A m, n \in Streamable(i) : m.ext = n.ext
CutAlike(i) ==
  \/ cuts[i] = {}
  \/ \E n \in 1 .. MaxSegs : cuts[i] = {n} /\ \A f \in Formats : final[i][Audio(f)] = NoFile

\* Every file a ready row names exists, whatever overlapped, crashed or was found out
\* about the inputs in vain: unless the attempts came out in two formats, or one cut a
\* joined file into a single segment.
ReadyIsPlayable ==
  \A i \in Items : OneFormat(i) /\ 1 \notin cuts[i] /\ row[i].status = "ready" =>
    \A n \in RowFiles(row[i]) : final[i][n] # NoFile

\* The files a ready row names, as far as they exist, come from one transcode's source,
\* never half from the first file and half from the whole book: for items of which a
\* source is too short to be cut, or that have only come out cut, and unless transcodes
\* overlapped.
ReadyIsOneSource ==
  \A i \in Items \ overlapped :
    /\ row[i].status = "ready"
    /\ \/ \E s \in Sources : Segs[i][s] = 1
       \/ \A f \in Formats : final[i][Audio(f)] = NoFile
    => \E s \in Sources : \A n \in RowFiles(row[i]) :
         final[i][n] # NoFile => final[i][n].src = s

\* A URL that names a file is answered whenever its item is ready, whatever
\* transcodes, re-created rows, crashes and restarts came since it was given, as long
\* as the transcodes came out in one format and alike.
HandedOutUrlPlays ==
  \A r \in Requests : LET u == url[r] IN
    /\ u # NoUrl /\ OneFormat(u.item) /\ CutAlike(u.item)
    /\ row[u.item].status = "ready" /\ final[u.item][u.name] # NoFile
    => StreamAnswers(u.item, u.name)

\* A transcode that is under way ends: its row does not stay in_progress.
TranscodesEnd ==
  \A i \in Items : (Running /\ row[i].status = "in_progress")
                     ~> (~Running \/ row[i].status # "in_progress")

\* Every /play request is answered, also during a shutdown.
RequestsAnswered == \A r \in Requests : pc[r] # "idle" ~> pc[r] = "idle"

\* A queued job is taken by a worker, unless the pool is stopped.
QueuedJobsTaken ==
  \A i \in Items : (\E k \in 1 .. Len(queue) : queue[k] = i)
                     ~> (phase # "up" \/ \E w \in Workers : item[w] = i /\ pc[w] # "returned")

\* What is at the final path is complete: transcoder.go calls the rename atomic.
\* The code does not keep it, and a run shows how.
PublishedFilesWhole ==
  \A i \in Items : \A n \in FileNames : final[i][n] # NoFile => Intact(i, n)

-----------------------------------------------------------------------------
(* What it all promises: CacheLedger. *)

\* What the ledger is told of rows, files and transcodes.
Said    == [i \in Items |-> row[i].status]
Named   == [i \in Items |-> IF row[i].status = "ready" THEN RowFiles(row[i]) ELSE {}]
Offered == [i \in Items |-> Streamable(i)]
Odd     == {i \in Items : ~OneFormat(i) \/ 1 \in cuts[i]}
AtWork  == [i \in Items |-> {a \in Actors : pc[a] \in Busy /\ item[a] = i}]

Ledger == INSTANCE CacheLedger WITH
  Makers <- Actors, Names <- FileNames,
  status <- Said, named <- Named, files <- Offered, odd <- Odd, makers <- AtWork, up <- Running

\* Rows, files and transcodes do what the ledger says: a row turns ready in one
\* step, with every file it names in place unless the item is odd, and only a file
\* that is published makes it so; published files never go away; and who stops
\* working leaves a final status.  Whatever else the goroutines do on
\* the paths they share is invisible to a reader of the rows.
ImplementsLedger == Ledger!Spec

=============================================================================
