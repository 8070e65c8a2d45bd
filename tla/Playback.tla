------------------------------ MODULE Playback ------------------------------
(***************************************************************************)
(* Playback: the rows of playback_sessions, the Sonos players, the         *)
(* progress Audiobookshelf (ABS) keeps, and everybody who moves between    *)
(* them: the handlers of play, pause, resume, seek, status, stop and the   *)
(* sleep timer, the progress poller, the progress syncer and the sleep     *)
(* timer worker.  There is no lock: each of them reads a row once, talks   *)
(* to the network, and writes columns back by row id.                      *)
(*                                                                         *)
(* One step is one network call together with the statements that precede  *)
(* it since the last one, so everything a handler read may be stale by the *)
(* time it uses it.  Time and positions are in units; the code's 5 s and   *)
(* 1 s margins are constants.                                              *)
(*                                                                         *)
(* Left out: SQL errors, devices missing from sonos_devices, groups (every *)
(* player is its own coordinator), stream tokens, volume, and the cache,   *)
(* whose files are taken to be there.  All sessions are of one ABS user.   *)
(***************************************************************************)
EXTENDS Segments, FiniteSets

CONSTANTS
  Books, NoBook,
  Players, NoPlayer,
  Sessions,     \* web sessions (cookies), all of one user
  Requests,     \* concurrent requests
  MaxRows,      \* bound: rows created in one behaviour
  Duration,     \* Duration[b]: length of a book
  SegSec,       \* SegSec[b]: length of its segments, 0 if it is one file
  Ops,          \* kinds of requests the user sends
  Awake,        \* background goroutines that run
  Events,       \* what else happens
  Positions,    \* positions the user seeks to, or reaches in another ABS client
  Skips,        \* relative seeks
  Margin,       \* a segment is left this long before its end (5 s)
  EndMargin,    \* a track has ended this long before its end (1 s)
  Slack         \* ABS positions this close are not followed on resume (5 s)

RowIds   == 1 .. MaxRows
Services == {"poller", "syncer", "sleeper"}
Actors   == Requests \cup Services
AllOps   == {"play", "pause", "resume", "switch", "seek", "status", "stop"}
AllEvents == {"hand", "elsewhere", "login", "timer", "restart"}

ASSUME NamesAssumption == /\ NoBook \notin Books /\ NoPlayer \notin Players
                          /\ Requests \cap Services = {}
                          /\ Ops \subseteq AllOps /\ Awake \subseteq Services
                          /\ Events \subseteq AllEvents
ASSUME BooksAssumption == /\ MaxRows \in Nat \ {0}
                          /\ Duration \in [Books -> Nat \ {0}]
                          /\ SegSec \in [Books -> Nat]
                          /\ Positions \subseteq Nat /\ Skips \subseteq Int
                          /\ {Margin, EndMargin, Slack} \subseteq Nat

VARIABLES
  row,          \* playback_sessions
  made,         \* rows created so far; ids grow with started_at
  player,       \* what each player has loaded, where it is, whether it plays
  abs,          \* progress of each book in ABS
  login,        \* sessions that exist
  at,           \* where each request and each background goroutine is
  todo,         \* rows a background goroutine has listed and not yet handled
  places,       \* auxiliary: positions of each book a player was at or ABS was told by another client
  muddled       \* auxiliary: players at which loading or starting was cut short

vars  == <<row, made, player, abs, login, at, todo, places, muddled>>

-----------------------------------------------------------------------------
(* Rows, players, and where a goroutine is. *)

Timers == {"off", "set", "due"}

NoRow == [s |-> "none", book |-> NoBook, p |-> NoPlayer, pos |-> 0, seg |-> 0,
          playing |-> FALSE, timer |-> "off"]

Live == {id \in RowIds : row[id] # NoRow}

RowsOf(s) == {id \in Live : row[id].s = s}

\* GetBySessionID: the row of the session that was started last, if it has one.
Latest(s) == {id \in RowsOf(s) : \A j \in RowsOf(s) : j <= id}

\* An UPDATE ... WHERE id = ?: no row, no effect.
Update(id, r) == row' = IF row[id] = NoRow THEN row ELSE [row EXCEPT ![id] = r]

Empty == [book |-> NoBook, seg |-> 0, pos |-> 0, state |-> "stopped"]

Count(b)       == SegmentCount(Duration[b], SegSec[b])
FileEnd(b, k)  == SegmentLength(k, Duration[b], SegSec[b])
Segment(b, g)  == GlobalToSegment(g, SegSec[b]).segment
Local(b, g)    == GlobalToSegment(g, SegSec[b]).local
Global(b, k, l) == SegmentToGlobal(k, l, SegSec[b])

\* No seek follows.
NoSeek == -1

\* op, pc: which handler, and its next network call; id, r: the row it read;
\* p: the player it talks to; q: the other player of a switch or a stop;
\* seg, seek: what to load and where to start in it; pos: a global position;
\* on: the player plays, or, for the poller, the track has ended; read: pos was
\* read from the player; loaded: the player plays what was loaded.
Idle == [op |-> "none", pc |-> "idle", id |-> 0, r |-> NoRow, p |-> NoPlayer,
         q |-> NoPlayer, seg |-> 0, seek |-> NoSeek, pos |-> 0, on |-> FALSE,
         read |-> FALSE, loaded |-> FALSE]

Go(a, w)    == at' = [at EXCEPT ![a] = w]
Goto(a, pc) == at' = [at EXCEPT ![a].pc = pc]
Return(a)   == at' = [at EXCEPT ![a] = Idle]

At(a, op, pc) == at[a].op = op /\ at[a].pc = pc

-----------------------------------------------------------------------------
(* The players, and what Audiobookshelf keeps. *)

\* Every position a player is at is a place of the book it has loaded.
Witness ==
  places' = [b \in Books |-> places[b] \cup
               {Global(b, player'[p].seg, player'[p].pos) :
                  p \in {x \in Players : player'[x].book = b}}]

\* A command that turns player p into x.  A call that fails may have reached
\* the player all the same.
Command(p, x, ok) ==
  /\ \/ player' = [player EXCEPT ![p] = x]
     \/ ~ok /\ UNCHANGED player
  /\ Witness

\* The file that is loaded, 0 for none.
Track(p) == IF player[p].book = NoBook THEN 0
            ELSE FileEnd(player[p].book, player[p].seg)

Paused(x)  == [x EXCEPT !.state = IF @ = "playing" THEN "paused" ELSE @]
Stopped(x) == [x EXCEPT !.state = "stopped", !.pos = 0]

\* PATCH of the progress of book b; the call may fail.
SaveProgress(b, pos) == abs' \in {abs, [abs EXCEPT ![b] = pos]}

\* A player plays on.  At the end of the file it stops, and may then report
\* that end or the start.
Tick(p) ==
  /\ player[p].state = "playing"
  /\ IF player[p].pos < Track(p)
     THEN player' = [player EXCEPT ![p].pos = @ + 1]
     ELSE \E x \in {0, player[p].pos} :
            player' = [player EXCEPT ![p].state = "stopped", ![p].pos = x]
  /\ Witness
  /\ UNCHANGED <<row, made, abs, login, at, todo, muddled>>

\* Somebody presses the button on the player.
ByHand(p) ==
  /\ "hand" \in Events
  /\ \/ player[p].state = "playing" /\ player' = [player EXCEPT ![p].state = "paused"]
     \/ player[p].state = "paused" /\ player' = [player EXCEPT ![p].state = "playing"]
  /\ UNCHANGED <<row, made, abs, login, at, todo, places, muddled>>

\* The user listens in another ABS client.
Elsewhere(b, g) ==
  /\ "elsewhere" \in Events
  /\ g <= Duration[b]
  /\ abs' = [abs EXCEPT ![b] = g]
  /\ places' = [places EXCEPT ![b] = @ \cup {g}]
  /\ UNCHANGED <<row, made, player, login, at, todo, muddled>>

-----------------------------------------------------------------------------
(* Requests begin: the latest row of the session is read once. *)

Ask(a, op, s) == at[a] = Idle /\ op \in Ops /\ s \in login

\* The row that /play will insert is put together along the way.
AskPlay(a, s, b, p) ==
  /\ Ask(a, "play", s)
  /\ made + Cardinality({x \in Requests : at[x].op = "play"}) < MaxRows
  /\ Go(a, [Idle EXCEPT !.op = "play", !.pc = "progress", !.p = p,
                        !.r = [NoRow EXCEPT !.s = s, !.book = b, !.p = p, !.playing = TRUE]])
  /\ UNCHANGED <<row, made, player, abs, login, todo, places, muddled>>

\* What a handler holds once it has read row id.
Holding(op, pc, id) ==
  [Idle EXCEPT !.op = op, !.pc = pc, !.id = id, !.r = row[id],
               !.p = row[id].p, !.seg = row[id].seg, !.pos = row[id].pos]

AskTransport(a, s) ==
  /\ \E id \in Latest(s) :
       \/ Ask(a, "pause", s)  /\ Go(a, Holding("pause", "read", id))
       \/ Ask(a, "status", s) /\ Go(a, Holding("status", "transport", id))
       \/ Ask(a, "resume", s) /\ Go(a, Holding("resume", "progress", id))
       \/ Ask(a, "stop", s)   /\ \E q \in {NoPlayer} \cup (Players \ {row[id].p}) :
                                   Go(a, [Holding("stop", "read", id) EXCEPT !.q = q])
       \/ Ask(a, "switch", s) /\ \E q \in Players \ {row[id].p} :
                                   Go(a, [Holding("switch", "halt", id) EXCEPT !.q = q])
  /\ UNCHANGED <<row, made, player, abs, login, todo, places, muddled>>

\* Mutant: no limit to the segment index.
SeekPlan_unlimited(w, g) ==
  IF Segment(w.r.book, g) = w.r.seg
  THEN [w EXCEPT !.pc = "seek", !.seek = Local(w.r.book, g), !.pos = g]
  ELSE [w EXCEPT !.pc = "load", !.pos = g, !.seg = Segment(w.r.book, g),
                 !.seek = IF Local(w.r.book, g) > 0 THEN Local(w.r.book, g) ELSE NoSeek]

\* A seek to global position g of what w holds: inside the segment the row
\* names, or by loading another one, the last if g is past the end.
SeekPlan(w, g) ==
  LET b == w.r.book
      k == Segment(b, g)
      last == Count(b) - 1
      l == IF k > last THEN Duration[b] - last * SegSec[b] ELSE Local(b, g)
  IN  IF k = w.r.seg
      THEN [w EXCEPT !.pc = "seek", !.seek = Local(b, g), !.pos = g]
      ELSE [w EXCEPT !.pc = "load", !.pos = g, !.seg = IF k > last THEN last ELSE k,
                     !.seek = IF l > 0 THEN l ELSE NoSeek]

\* To a position, or by an offset (which pos holds until the position is known).
AskSeek(a, s) ==
  /\ Ask(a, "seek", s)
  /\ \E id \in Latest(s) :
       \/ \E g \in Positions : Go(a, SeekPlan(Holding("seek", "seek", id), g))
       \/ \E k \in Skips : Go(a, [Holding("seek", "read", id) EXCEPT !.pos = k])
  /\ UNCHANGED <<row, made, player, abs, login, todo, places, muddled>>

-----------------------------------------------------------------------------
(* Requests go on: one network call each. *)

\* GetProgress, which counts as 0 when it fails.  /play starts there; resume
\* follows ABS when it is more than Slack away from the row.
GetProgress(a) ==
  LET w == at[a]
      b == w.r.book
  IN  /\ w.pc = "progress"
      /\ \E got \in {0, abs[b]} :
           LET apart == got - w.r.pos > Slack \/ w.r.pos - got > Slack IN
           IF w.op = "play"
           THEN Go(a, [w EXCEPT !.pc = "load", !.pos = got, !.seg = Segment(b, got),
                                !.seek = IF got > 0 THEN Local(b, got) ELSE NoSeek])
           ELSE Go(a, IF got > 0 /\ apart
                      THEN [w EXCEPT !.pc = "start", !.pos = got, !.seek = Local(b, got)]
                      ELSE [w EXCEPT !.pc = "start"])
      /\ UNCHANGED <<row, made, player, abs, login, todo, places, muddled>>

\* Mutant: the new load goes to the old player.
Halt_same_player(a) ==
  LET w == at[a]
      l == w.r.pos - w.r.seg * SegSec[w.r.book]
  IN  /\ w.pc = "halt"
      /\ \E ok \in BOOLEAN : Command(w.p, Stopped(player[w.p]), ok)
      /\ Go(a, [w EXCEPT !.pc = "load", !.seek = IF l > 0 THEN l ELSE NoSeek])
      /\ UNCHANGED <<row, made, abs, login, todo, muddled>>

\* A switch stops the old player, whether that works or not.
Halt(a) ==
  LET w == at[a]
      l == w.r.pos - w.r.seg * SegSec[w.r.book]
  IN  /\ w.pc = "halt"
      /\ \E ok \in BOOLEAN : Command(w.p, Stopped(player[w.p]), ok)
      /\ Go(a, [w EXCEPT !.pc = "load", !.p = w.q, !.seek = IF l > 0 THEN l ELSE NoSeek])
      /\ UNCHANGED <<row, made, abs, login, todo, muddled>>

\* Loading or starting failed: the request is answered with an error, but
\* /status, which was moving to the next segment, still writes the position.
CutShort(a) ==
  /\ muddled' = muddled \cup {at[a].p}
  /\ IF at[a].op = "status" THEN Goto(a, "done") ELSE Return(a)

\* SetAVTransportURI.
Load(a) ==
  LET w == at[a]
      x == [book |-> w.r.book, seg |-> w.seg, pos |-> 0, state |-> "stopped"]
  IN  /\ w.pc = "load"
      /\ \/ Command(w.p, x, TRUE) /\ Goto(a, "start") /\ UNCHANGED muddled
         \/ Command(w.p, x, FALSE) /\ CutShort(a)
      /\ UNCHANGED <<row, made, abs, login, todo>>

AfterStart(w) == IF w.seek # NoSeek THEN "seek" ELSE "done"

\* Play, after a load; a segment that does not exist cannot be played.
Start(a) ==
  LET w == at[a]
      x == [player[w.p] EXCEPT !.state = "playing"]
  IN  /\ w.pc = "start" /\ w.op # "resume"
      /\ \/ /\ Track(w.p) > 0
            /\ Command(w.p, x, TRUE)
            /\ Go(a, [w EXCEPT !.pc = AfterStart(w), !.loaded = TRUE])
            /\ muddled' = IF player[w.p].book = w.r.book /\ player[w.p].seg = w.seg
                          THEN muddled \ {w.p} ELSE muddled
         \/ Command(w.p, IF Track(w.p) > 0 THEN x ELSE player[w.p], FALSE) /\ CutShort(a)
      /\ UNCHANGED <<row, made, abs, login, todo>>

\* Resume writes the position it found in ABS, then plays what is loaded.
ResumeStart(a) ==
  LET w == at[a]
      x == IF Track(w.p) > 0 THEN [player[w.p] EXCEPT !.state = "playing"] ELSE player[w.p]
  IN  /\ At(a, "resume", "start")
      /\ IF w.seek = NoSeek THEN UNCHANGED row
                            ELSE Update(w.id, [row[w.id] EXCEPT !.pos = w.pos])
      /\ \/ Track(w.p) > 0 /\ Command(w.p, x, TRUE) /\ Goto(a, AfterStart(w))
         \/ Command(w.p, x, FALSE) /\ Return(a)
      /\ UNCHANGED <<made, abs, login, todo, muddled>>

\* Seek in what is loaded, not past its end.  Only a plain seek minds a failure.
SeekIn(a) ==
  LET w == at[a]
      can == w.seek <= Track(w.p)
      x == IF can THEN [player[w.p] EXCEPT !.pos = w.seek] ELSE player[w.p]
  IN  /\ w.pc = "seek"
      /\ \/ can /\ Command(w.p, x, TRUE) /\ Goto(a, "done")
         \/ /\ Command(w.p, x, FALSE)
            /\ IF w.op = "seek" /\ ~w.loaded THEN Return(a) ELSE Goto(a, "done")
      /\ UNCHANGED <<row, made, abs, login, todo, muddled>>

\* GetTransportInfo; what the row said when it fails.
GetTransport(a) ==
  /\ at[a].pc = "transport"
  /\ \E on \in {player[at[a].p].state = "playing", at[a].r.playing} :
       Go(a, [at[a] EXCEPT !.pc = "read", !.on = on])
  /\ UNCHANGED <<row, made, player, abs, login, todo, places, muddled>>

\* Near the end of a segment /status moves on to the next one.
Transition(w, l) ==
  LET b == w.r.book IN
  /\ SegSec[b] > 0 /\ w.on /\ l >= SegSec[b] - Margin
  /\ w.r.seg + 1 < Count(b)

\* Mutant: the local position is taken for the global one.
Reported_local(w, l) == l

\* The global position of local position l in the segment the row named.
Reported(w, l) == Global(w.r.book, w.r.seg, l)

\* Mutant: no lower limit.
Clamp_upper_only(b, g) == IF g > Duration[b] THEN Duration[b] ELSE g

\* A relative seek stays inside the book.
Clamp(b, g) == IF g < 0 THEN 0 ELSE IF g > Duration[b] THEN Duration[b] ELSE g

\* GetPositionInfo, and what each handler makes of the answer.  /status first
\* writes is_playing when the player has told it something new.
ReadPosition(a) ==
  LET w == at[a]
      l == player[w.p].pos
      g == Reported(w, l)
  IN  /\ w.pc = "read"
      /\ IF w.op = "status" /\ w.on # w.r.playing
         THEN Update(w.id, [row[w.id] EXCEPT !.playing = w.on]) ELSE UNCHANGED row
      /\ \/ w.op = "pause" /\ Go(a, [w EXCEPT !.pc = "pause", !.pos = g, !.read = TRUE])
         \/ w.op = "stop" /\ Go(a, [w EXCEPT !.pc = "stop", !.pos = l, !.read = TRUE])
         \/ w.op = "seek" /\ Go(a, SeekPlan(w, Clamp(w.r.book, g + w.pos)))
         \/ /\ w.op = "status"
            /\ Go(a, IF Transition(w, l)
                     THEN [w EXCEPT !.pc = "load", !.pos = g, !.read = TRUE, !.seg = w.r.seg + 1]
                     ELSE [w EXCEPT !.pc = "done", !.pos = g, !.read = TRUE])
         \/ w.op \in {"pause", "stop"} /\ Goto(a, w.op)
         \/ w.op \in {"seek", "status"} /\ Return(a)
      /\ UNCHANGED <<made, player, abs, login, todo, places, muddled>>

\* Mutant: the sleep timer worker gives up as well.
Pause_gives_up(a) ==
  LET w == at[a] IN
  /\ w.pc = "pause"
  /\ IF w.read THEN Update(w.id, [row[w.id] EXCEPT !.pos = w.pos]) ELSE UNCHANGED row
  /\ \/ Command(w.p, Paused(player[w.p]), TRUE) /\ Goto(a, "save")
     \/ Command(w.p, Paused(player[w.p]), FALSE) /\ Return(a)
  /\ UNCHANGED <<made, abs, login, todo, muddled>>

\* The position that was read is written, then the player is paused: by /pause,
\* which gives up when that fails, or by the sleep timer, which does not.
Pause(a) ==
  LET w == at[a] IN
  /\ w.pc = "pause"
  /\ IF w.read THEN Update(w.id, [row[w.id] EXCEPT !.pos = w.pos]) ELSE UNCHANGED row
  /\ \/ Command(w.p, Paused(player[w.p]), TRUE) /\ Goto(a, "save")
     \/ /\ Command(w.p, Paused(player[w.p]), FALSE)
        /\ IF w.op = "pause" THEN Return(a) ELSE Goto(a, "save")
  /\ UNCHANGED <<made, abs, login, todo, muddled>>

\* Mutant: ABS is sent the duration for the position.
SavePause_duration(a) ==
  LET w == at[a] IN
  /\ w.op \in {"pause", "sleep"} /\ w.pc = "save"
  /\ Update(w.id, [row[w.id] EXCEPT !.playing = FALSE])
  /\ IF IF w.op = "pause" THEN w.pos > 0 ELSE w.r.s \in login
     THEN SaveProgress(w.r.book, Duration[w.r.book]) ELSE UNCHANGED abs
  /\ IF w.op = "pause" THEN Return(a) ELSE Goto(a, "clear")
  /\ UNCHANGED <<made, player, login, todo, places, muddled>>

\* is_playing is cleared and ABS is told.
SavePause(a) ==
  LET w == at[a] IN
  /\ w.op \in {"pause", "sleep"} /\ w.pc = "save"
  /\ Update(w.id, [row[w.id] EXCEPT !.playing = FALSE])
  /\ IF IF w.op = "pause" THEN w.pos > 0 ELSE w.r.s \in login
     THEN SaveProgress(w.r.book, w.pos) ELSE UNCHANGED abs
  /\ IF w.op = "pause" THEN Return(a) ELSE Goto(a, "clear")
  /\ UNCHANGED <<made, player, login, todo, places, muddled>>

\* Stop: the row's player, the selected one, ABS, and the row.
StopPlayer(a) ==
  LET w == at[a] IN
  /\ w.pc = "stop"
  /\ IF w.read THEN Update(w.id, [row[w.id] EXCEPT !.pos = w.pos]) ELSE UNCHANGED row
  /\ \E ok \in BOOLEAN : Command(w.p, Stopped(player[w.p]), ok)
  /\ Goto(a, IF w.q # NoPlayer THEN "other" ELSE "save")
  /\ UNCHANGED <<made, abs, login, todo, muddled>>

StopOther(a) ==
  /\ at[a].pc = "other"
  /\ \E ok \in BOOLEAN : Command(at[a].q, Stopped(player[at[a].q]), ok)
  /\ Goto(a, "save")
  /\ UNCHANGED <<row, made, abs, login, todo, muddled>>

SaveStop(a) ==
  /\ At(a, "stop", "save")
  /\ IF at[a].pos > 0 THEN SaveProgress(at[a].r.book, at[a].pos) ELSE UNCHANGED abs
  /\ Goto(a, "delete")
  /\ UNCHANGED <<row, made, player, login, todo, places, muddled>>

DeleteRow(a) ==
  /\ at[a].pc = "delete"
  /\ row' = [row EXCEPT ![at[a].id] = NoRow]
  /\ Return(a)
  /\ UNCHANGED <<made, player, abs, login, todo, places, muddled>>

\* /play: the timer of another book is cleared and the row is inserted, unless
\* the session has gone.
CreateRow(a) ==
  LET w == at[a]
      new == [w.r EXCEPT !.pos = w.pos, !.seg = w.seg]
      cleared == [id \in RowIds |->
                    IF id \in Latest(w.r.s) /\ row[id].book # w.r.book
                    THEN [row[id] EXCEPT !.timer = "off"] ELSE row[id]]
  IN  /\ At(a, "play", "done")
      /\ IF w.r.s \in login
         THEN row' = [cleared EXCEPT ![made + 1] = new] /\ made' = made + 1
         ELSE UNCHANGED <<row, made>>
      /\ Return(a)
      /\ UNCHANGED <<player, abs, login, todo, places, muddled>>

\* Mutant: a seek or a transition leaves current_segment alone.
Written_position_only(w, r) ==
  CASE w.op = "switch" -> [r EXCEPT !.p = w.q, !.playing = TRUE]
    [] w.op = "resume" -> [r EXCEPT !.playing = TRUE]
    [] OTHER -> [r EXCEPT !.pos = w.pos]

\* What the other handlers write last.
Written(w, r) ==
  CASE w.op = "switch" -> [r EXCEPT !.p = w.q, !.playing = TRUE]
    [] w.op = "resume" -> [r EXCEPT !.playing = TRUE]
    [] OTHER -> [r EXCEPT !.pos = w.pos, !.seg = IF w.loaded THEN w.seg ELSE @]

WriteRow(a) ==
  LET w == at[a] IN
  /\ w.op # "play" /\ w.pc = "done"
  /\ Update(w.id, Written(w, row[w.id]))
  /\ Return(a)
  /\ UNCHANGED <<made, player, abs, login, todo, places, muddled>>

-----------------------------------------------------------------------------
(* Background goroutines: each lists rows, then handles them one by one as    *)
(* they were when they were listed.                                           *)

Listed(ids) == {[id |-> i, r |-> row[i]] : i \in ids}

\* A goroutine whose last list is done lists the rows in ids.
List(a, ids) ==
  /\ at[a] = Idle /\ todo[a] = {}
  /\ ids # {} /\ a \in Awake
  /\ todo' = [todo EXCEPT ![a] = Listed(ids)]
  /\ UNCHANGED <<row, made, player, abs, login, at, places, muddled>>

Take(a, x) == at[a] = Idle /\ x \in todo[a] /\ todo' = [todo EXCEPT ![a] = @ \ {x}]

PollList  == List("poller", {i \in Live : row[i].playing})
SyncList  == List("syncer", {i \in Live : row[i].playing})
SleepList == List("sleeper", {i \in Live : row[i].timer = "due"})

\* Mutant: the length of the track is taken for the position in it.
Poll_length(x) ==
  /\ Take("poller", x)
  /\ Go("poller", [Idle EXCEPT !.op = "poll", !.pc = "write", !.id = x.id, !.r = x.r,
                               !.p = x.r.p, !.pos = Track(x.r.p)])
  /\ UNCHANGED <<row, made, player, abs, login, places, muddled>>

\* pollSession: GetPositionInfo; the row is passed over when that fails.
Poll(x) ==
  LET p == x.r.p
      ended == Track(p) > 0 /\ player[p].pos >= Track(p) - EndMargin
  IN  /\ Take("poller", x)
      /\ \/ UNCHANGED at
         \/ Go("poller", [Idle EXCEPT !.op = "poll", !.pc = "write", !.id = x.id, !.r = x.r,
                                      !.p = p, !.pos = player[p].pos, !.on = ended])
      /\ UNCHANGED <<row, made, player, abs, login, places, muddled>>

\* A track that has ended, or a position that is not the one listed.
PollWrite ==
  LET w == at["poller"] IN
  /\ w.pc = "write"
  /\ IF w.on THEN Update(w.id, [row[w.id] EXCEPT !.playing = FALSE])
     ELSE IF w.pos # w.r.pos THEN Update(w.id, [row[w.id] EXCEPT !.pos = w.pos])
     ELSE UNCHANGED row
  /\ Return("poller")
  /\ UNCHANGED <<made, player, abs, login, todo, places, muddled>>

\* Mutant: ABS is sent the duration for the position.
Sync_duration(x) ==
  /\ Take("syncer", x)
  /\ IF x.r.s \in login THEN SaveProgress(x.r.book, Duration[x.r.book]) ELSE UNCHANGED abs
  /\ UNCHANGED <<row, made, player, login, at, places, muddled>>

\* syncSession: ABS is told what the row said, if its session is still there.
Sync(x) ==
  /\ Take("syncer", x)
  /\ IF x.r.s \in login THEN SaveProgress(x.r.book, x.r.pos) ELSE UNCHANGED abs
  /\ UNCHANGED <<row, made, player, login, at, places, muddled>>

\* triggerSleepTimer: position, pause, is_playing and ABS, clear.
Sleep(x) ==
  LET w == [Holding("sleep", "pause", x.id) EXCEPT
              !.r = x.r, !.p = x.r.p, !.seg = x.r.seg, !.pos = x.r.pos]
  IN  /\ Take("sleeper", x)
      /\ \/ Go("sleeper", w)
         \/ Go("sleeper", [w EXCEPT !.pos = player[x.r.p].pos, !.read = TRUE])
      /\ UNCHANGED <<row, made, player, abs, login, places, muddled>>

SleepClear ==
  LET w == at["sleeper"] IN
  /\ w.pc = "clear"
  /\ Update(w.id, [row[w.id] EXCEPT !.timer = "off"])
  /\ Return("sleeper")
  /\ UNCHANGED <<made, player, abs, login, todo, places, muddled>>

-----------------------------------------------------------------------------
(* Timers, sessions, and the process. *)

\* POST and DELETE /sleep-timer.
SetTimer(s, t) ==
  /\ "timer" \in Events
  /\ s \in login
  /\ \E id \in Latest(s) : row' = [row EXCEPT ![id].timer = t]
  /\ UNCHANGED <<made, player, abs, login, at, todo, places, muddled>>

TimerExpires(id) ==
  /\ row[id].timer = "set"
  /\ row' = [row EXCEPT ![id].timer = "due"]
  /\ UNCHANGED <<made, player, abs, login, at, todo, places, muddled>>

\* The rows of a session go with it (ON DELETE CASCADE).
Logout(s) ==
  /\ "login" \in Events
  /\ s \in login
  /\ login' = login \ {s}
  /\ row' = [id \in RowIds |-> IF row[id].s = s THEN NoRow ELSE row[id]]
  /\ UNCHANGED <<made, player, abs, at, todo, places, muddled>>

\* A login makes a session nobody has seen.
Login(s) ==
  /\ "login" \in Events
  /\ s \notin login
  /\ \A a \in Actors : at[a].r.s # s
  /\ \A a \in Services : \A x \in todo[a] : x.r.s # s
  /\ login' = login \cup {s}
  /\ UNCHANGED <<row, made, player, abs, at, todo, places, muddled>>

\* A crash or a shutdown, and main's startup: no row is playing; rows untouched
\* for a day are deleted, and sessions unused for a week, with their rows.  The
\* players go on.
Restart ==
  /\ "restart" \in Events
  /\ \E old \in SUBSET Live, unused \in SUBSET login :
       /\ row' = [id \in RowIds |-> IF id \in old \/ row[id].s \in unused THEN NoRow
                                    ELSE [row[id] EXCEPT !.playing = FALSE]]
       /\ login' = login \ unused
  /\ at' = [a \in Actors |-> Idle]
  /\ todo' = [a \in Services |-> {}]
  /\ muddled' = muddled \cup ({at[a].p : a \in Requests} \ {NoPlayer})
  /\ UNCHANGED <<made, player, abs, places>>

-----------------------------------------------------------------------------
(* The specification. *)

Init ==
  /\ row = [id \in RowIds |-> NoRow]
  /\ made = 0
  /\ player = [p \in Players |-> Empty]
  /\ abs = [b \in Books |-> 0]
  /\ login = Sessions
  /\ at = [a \in Actors |-> Idle]
  /\ todo = [a \in Services |-> {}]
  /\ places = [b \in Books |-> {0}]
  /\ muddled = {}

Request(a, s) ==
  \/ \E b \in Books, p \in Players : AskPlay(a, s, b, p)
  \/ AskTransport(a, s)
  \/ AskSeek(a, s)

Step(a) ==
  \/ GetProgress(a) \/ Halt(a)  \/ Load(a)  \/ Start(a) \/ ResumeStart(a) \/ SeekIn(a)
  \/ GetTransport(a) \/ ReadPosition(a)
  \/ Pause(a) \/ SavePause(a)
  \/ StopPlayer(a) \/ StopOther(a) \/ SaveStop(a) \/ DeleteRow(a)
  \/ CreateRow(a) \/ WriteRow(a)

Poller  == PollList \/ PollWrite \/ \E x \in todo["poller"] : Poll(x)
Syncer  == SyncList \/ \E x \in todo["syncer"] : Sync(x)
Sleeper == SleepList \/ SleepClear \/ Pause("sleeper") \/ SavePause("sleeper")
           \/ \E x \in todo["sleeper"] : Sleep(x)

World ==
  \/ \E p \in Players : Tick(p) \/ ByHand(p)
  \/ \E b \in Books, g \in Positions : Elsewhere(b, g)
  \/ \E s \in Sessions : Logout(s) \/ Login(s) \/ \E t \in {"set", "off"} : SetTimer(s, t)
  \/ \E id \in RowIds : TimerExpires(id)
  \/ Restart

Next ==
  \/ \E a \in Requests : Step(a) \/ \E s \in Sessions : Request(a, s)
  \/ Poller \/ Syncer \/ Sleeper
  \/ World

Spec == Init /\ [][Next]_vars

\* Handlers and background goroutines go on; users, players and time need not.
Fairness ==
  /\ \A a \in Requests : WF_vars(Step(a))
  /\ WF_vars(Poller) /\ WF_vars(Syncer) /\ WF_vars(Sleeper)

FairSpec == Spec /\ Fairness

-----------------------------------------------------------------------------
(* Properties. *)

Pcs == {"idle", "progress", "halt", "load", "start", "seek", "transport", "read", "pause",
        "save", "stop", "other", "delete", "done", "write", "clear"}

Rows == [s : Sessions \cup {"none"}, book : Books \cup {NoBook}, p : Players \cup {NoPlayer},
         pos : Nat, seg : Nat, playing : BOOLEAN, timer : Timers]

TypeOK ==
  /\ row \in [RowIds -> Rows]
  /\ made \in 0 .. MaxRows
  /\ player \in [Players -> [book : Books \cup {NoBook}, seg : Nat, pos : Nat,
                             state : {"playing", "paused", "stopped"}]]
  /\ abs \in [Books -> Nat]
  /\ login \subseteq Sessions
  /\ at \in [Actors -> [op : AllOps \cup {"none", "poll", "sleep"}, pc : Pcs,
                        id : 0 .. MaxRows, r : Rows, p : Players \cup {NoPlayer},
                        q : Players \cup {NoPlayer}, seg : Nat, seek : Nat \cup {NoSeek},
                        pos : Int, on : BOOLEAN, read : BOOLEAN, loaded : BOOLEAN]]
  /\ todo \in [Services -> SUBSET [id : RowIds, r : Rows]]
  /\ places \in [Books -> SUBSET Nat]
  /\ muddled \subseteq Players

\* When no request is under way, the row of the last /play names the book and
\* the segment its player has loaded, whatever switches, seeks, transitions,
\* timers and restarts came since, unless loading there was cut short.
RowNamesWhatPlays ==
  (\A a \in Requests : at[a] = Idle) =>
    \A s \in Sessions : \A id \in Latest(s) :
      id = made /\ row[id].p \notin muddled =>
        /\ player[row[id].p].book = row[id].book
        /\ player[row[id].p].seg = row[id].seg

\* The global position /pause and /status make of what the player reports is one
\* it was at in the row's book: the segment they read earlier still is the one
\* that plays.
ReportedPositionsAreGlobal ==
  \A a \in Requests : LET w == at[a] IN
    /\ w.op \in {"pause", "status"} /\ w.read /\ ~w.loaded
    /\ w.id = made /\ w.p \notin muddled
    =>
      w.pos \in places[w.r.book]

\* A row holds a position of its own book: one a player was at, or one saved in
\* another client; never another book's, nor a segment's taken for the book's.
RowPositionsAreGlobal == \A id \in Live : row[id].pos \in places[row[id].book]

\* And so does the progress in ABS.
ProgressIsOfItsBook == \A b \in Books : abs[b] \in places[b]

\* No request is about to load a segment that does not exist, wherever seeks,
\* transitions, switches and a clock that runs past the end lead; but a /play
\* that ABS sends to the end of the book or past it.
LoadedSegmentExists ==
  \A a \in Requests : LET w == at[a] IN
    w.pc = "load" =>
      w.seg < Count(w.r.book) \/ (w.op = "play" /\ w.pos >= Duration[w.r.book])

\* A timer that is due is handled, however often pausing or ABS fail.
TimersFire == \A id \in RowIds : row[id].timer = "due" ~> row[id].timer # "due"

=============================================================================
