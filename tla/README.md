# Verification of the Audiobookshelf Sonos bridge

The bridge takes audiobooks from an Audiobookshelf server (ABS), transcodes them into a
cache directory and plays them on Sonos players over UPnP, keeping the listening position
in step with ABS. This directory holds TLA+ models of the program, the TLC runs that check
them and the proofs TLAPS checks. Paths are relative to the repository. `PROJECT.json` lists
every run, mutant, mapped definition, finding, hazard and theorem.

## 1. Inventory

| Part | Code | State it keeps | Operations |
|---|---|---|---|
| Cache index | `internal/cache/index.go`, `internal/store/cache.go` | table `cache_index`: one row per item (status, format, segment count, ...) | IsCached, GetEntry, CreateEntry (DELETE, then INSERT), MarkInProgress, MarkReadyWithFormat, MarkReadyWithSegments, MarkFailed, ResetInProgressToPending, CleanupTempFiles |
| Transcoder | `internal/cache/transcoder.go`, `compatibility.go`, `format_detector.go` | files under `CACHE_DIR/<item>/`: `*.tmp`, `*.concat.txt`, `audio.*`, `segment_NNN.*`, `concat_temp.tmp` | Transcode, Remux, their `Multiple` and `Segmented` forms, the Smart choice between them |
| Worker pool | `internal/cache/worker.go` | channel of 100 jobs, N goroutines | Start, Stop, Enqueue, processJob, TranscodeSyncMultiple (called by /play) |
| Warm-up job | `internal/cache/warmup.go` | one goroutine, hourly | run, warmLibrary, Stop |
| Stream handler | `internal/stream/handler.go`, `token.go` | none (signed tokens) | GET /stream/{token}/{file}, range requests, Generate, Validate |
| Playback | `internal/web/player.go`, `internal/store/playback.go` | table `playback_sessions`: position, segment, is_playing, token, sleep timer | play, pause, resume, player switch, seek, status (which may move to the next segment), stop |
| Progress syncer | `internal/web/progress_sync.go` | none (reads and writes `playback_sessions`) | poll every 5 s, sync to ABS every 30 s |
| Sleep timer | `internal/web/sleep_timer.go`, player.go | `sleep_at` of `playback_sessions` | set, clear, read, check every 10 s |
| Sonos control | `internal/sonos/avtransport.go`, `grouprendering.go` | none (the players keep it) | SOAP commands with up to 4 attempts |
| Sonos discovery and groups | `internal/sonos/discovery.go`, `zonegroupstate.go`, `internal/store/devices.go`, `internal/web/sonos.go`, player.go | table `sonos_devices` | Discover, RefreshGroupInfo, join, leave, group and member volumes |
| Sessions and login | `internal/web/auth.go`, `internal/store/sessions.go` | table `sessions` (its deletion cascades to `playback_sessions`) | login, logout, RequireAuth, expiry |
| Library pages | `internal/web/library.go`, `web/` | none | read-only views |
| ABS client, configuration, main | `internal/abs`, `internal/config`, `cmd/bridge` | none | REST calls; startup and shutdown order |

**How they interact.** HTTP handlers run concurrently with each other, with the pool's
goroutines, the warm-up job, the syncer's two tickers and the sleep timer's. They share the
SQLite tables, one statement at a time and without transactions, and the cache directory
without locks. Everything a handler reads before a network call (ABS, SOAP) or before
ffmpeg may be stale when it writes. ffprobe looks at files before, between and after the
steps of a transcode, and where it fails the transcode mostly goes on with a default. The players and ABS keep state of their own that the
bridge only mirrors.

**What is hard.** Two transcodes of one item (worker and /play) on one set of paths; crashes
between a rename and the row; a row re-created while it is being marked; shutdown order; attempts on one
book that come out in different shapes or formats because a probe failed in one of them; the
segment index in a row against the segment a player has loaded; SOAP calls that fail after
they took effect; positions that are local to a segment in one place and global in another;
background goroutines that act on rows they listed earlier; two rows of one session.
`hazards` in `PROJECT.json` lists each at its line with the properties about it.

**What makes each part correct.**

* Cache: a row that says `ready` names files that exist, are whole and come from one source;
  a row never stays `in_progress` with nobody working; no temporary file leaks; a stream URL
  handed to a player stays valid; queued jobs get taken and requests answered. The code keeps the first
  and the fourth only as long as the attempts on a book come out alike, and a crash does leak
  the list of a join (section 9).
* Playback: the row names the book and segment that the player has; stored and reported
  positions are global positions of that book; ABS is only told positions of the book it is
  told them for; due timers are handled, others left alone.
* Discovery and groups: the table agrees with what the last search or refresh found.
* Sonos control, volume and mute: a command takes effect as often as it was meant, whatever
  attempts time out or arrive late; a group command reaches the coordinator; every request ends.
* Format choice and streaming: a book is served as what it is; a range is answered with its bytes; a
  player that is cut off can get the rest, and is turned away only when its token has expired.

## 2. Plan

| Step | Modules | State |
|---|---|---|
| 1 | `TranscodeCache`, `MCTranscodeCache` | done |
| 2 | `TranscodeCacheProofs`, `TranscodeCacheSafety`, `TranscodeCacheFiles` | done |
| 3 | `Segments`, `Playback`, `MCPlayback` | done |
| 4 | `SegmentsProofs`: positions and files of a segmented book | done |
| 5 | `Devices`, `MCDevices` | model and run done |
| 6 | `CacheLedger`: what the cache promises its readers, implemented by `TranscodeCache` | done |
| 7 | `SonosPlayers`, `SonosControl`, `RemoteCommand`, `MCSonosControl`, `SonosControlProofs`: attempts, late arrivals, routing, volume and mute | done, the refinement proved |
| 8 | `FormatChoice`, `Streaming`, `MCStreaming`, `StreamingProofs`: formats, tokens, ranges | done |
| 9 | `PlaybackProofs`: types; positions of rows and ABS; what the row names, what is reported, what is loaded | done |
| 10 | `DevicesProofs`: types, searches, refreshes | done |
| 11 | `TranscodeCacheFiles`: one source, URLs, the refinement of `CacheLedger` | done |
| 12 | Sessions: last use, the weekly clean-up, a changed secret | later |

## 3. The transcode cache (`TranscodeCache`)

**State.** `row` is `cache_index`; `tmp` and `final` are the directory entries of an item's
cache directory, each with the source it was made from and whether one process alone wrote
it; `list` says whether the `<output>.concat.txt` of an output is there, of a running join or left by a crash;
`queue` is the jobs channel; `pc`, `item`, `step` say where each worker and each /play
request is; `plan` what it makes of its input, as far as it has looked; `fd` where the inode is that its ffmpeg
writes (a rename or a remove by somebody else moves it); `warm` is the warm-up goroutine; `url` the URL a
request handed out; `phase` the process. `overlapped` and `cuts` are auxiliary: items two transcodes of which
were at work at once, and the numbers of segments an item's segments were cut for.

**What an attempt finds out.** `Decided` is needsSegmentation and the look at the format: a source is cut
into `Segs` segments if it is long enough and its duration is found, else not at all (`worker.go:139`);
it becomes one of `Fmts`, of which mp3 is always one, because a format that is not found is mp3
(`worker.go:366`, `transcoder.go:1037`, `:1103`). A joined file is looked at again when it is there (`Split`), and what it
is found to have is any number of segments from one up, in any of the formats: another join may have torn it, and its parts need not add up.
Each attempt decides anew, so attempts on one source may come out in different shapes and formats.

**Actions.** One per step between which another goroutine can act: `Play` (IsCached and
GetEntry), `DeleteRow` and `InsertRow` (CreateEntry), `MarkInProgress`, `OpenTmp`, `OpenFails`,
`WriteDone` (which renames), `WriteFails`, `Split`, `SplitFails`, `RemoveConcat`, `MarkReady`, `MarkFailed`, `Serve`;
`TakeJob`, `WorkerReturns`; `WarmStart`, `WarmCheck`, `WarmDelete`, `WarmInsert`,
`WarmEnqueue`; `StopWorkers`, `Exit`, `WarmPanics`, `Restart`. `Crash` may come at any time.

**Abstractions.** IsCached and the GetEntry that follows it are one step. Library paging and
BatchSize are a subset of the items chosen when the job starts. `OpenFails` and `SplitFails` are the checks
and probes that do fail a transcode (input or ffmpeg not there, disk full, the duration a segmented transcode is
computed from). The list is removed in the step that renames or fails, although the code stats and
probes the output before the deferred remove: a crash in between leaves the list as one before it does, with the output published. Source files do
not change between attempts. Left out: SQL errors, deletion of files by somebody else, functions that no code calls
(EnsureCached, waitForReady, CleanupStale, IsStale, GetPendingItems) and the column
profile_version, which nothing reads.

**What the properties say.** `InProgressIsWorkedOn`, `WholeUnlessOverlapped`, `TempFilesOwned`
and the liveness properties hold whatever the probes say. `TempFilesOwned` is about the temporary file, the joined file and the lists of joins that
are running; a list that a crash has left (`"left"`) is nobody's, and only the next join of the same
output removes it. `ReadyIsPlayable`, `HandedOutUrlPlays` and `CacheLedger` depend on how the attempts came out,
which is a matter of the files they left and not of the constants: `OneFormat` (the item's streamable files have one
extension), no cut into a single segment, `CutAlike` (one number of segments, and no uncut file besides).
`ReadyIsOneSource` needs that the sources can be told apart, by one being too short to be cut or by none having come
out uncut. Failed probes do happen within the conditions of `ReadyIsPlayable` and `ReadyIsOneSource`, in the runs as in the theorems: /play makes
two segments, a duplicate transcode fails or does not find the duration and writes `audio.mp3` beside them, and the row, with its old
count of two, names the segments again. Section 9 has what happens outside them.

**Runs.** (Distinct states; seconds with two workers.)

| Run | Shows | Size |
|---|---|---|
| `cache_join` | worker and /play on a joined, segmented book, every outcome of the probes: types, no forgotten row, no leak, whole files, ready rows name files that exist and are of one source, URLs stay answered; `CacheLedger` implemented | 975,841; 170 s |
| `cache_mixed` | the same book under fairness: transcodes end, requests are answered, queued jobs are taken | 166,633; 126 s |

`cache_mixed` identifies states that differ only in `list`, `url`, `overlapped` and `cuts` (`VIEW Seen`). No guard reads
these, every step changes something else besides, and no property of the run mentions them, so the smaller graph has the same behaviours.

`cache_torn` expects a violation; section 9.

**What it promises** (`CacheLedger`). To those who read the rows the cache is a ledger: what an item's
row says, which files it names, which files can be streamed, who is at work. Files only ever appear; a row
is made ready or failed only in the step in which somebody at work on the item stops, and only if every
file the row will name is there, unless the item is `odd`, which only the publishing of a file can make it; a crash sends them all home, and the restart makes the rows they left
pending again. `ImplementsLedger` maps `TranscodeCache` to it: `Streamable` is the final files
that are not the joined one, a maker is a goroutine between `MarkInProgress` and its last mark,
and an item is odd once it has come out in two formats or in a single segment.
Temporary files, joins, inodes, queues and failures are steps the ledger does not see. The mutant that
tidies up the segments with the joined file lets a streamable file vanish.

**Bounds.** One item: nothing but the queue, the workers and the warm-up list relates items, and
the proofs are for any number. One worker and one request overlap in every way two transcodes
can; what a third adds, a file stolen twice, is in the proofs, which take any number of actors.
The first file is too short to be cut and the whole book is long, so that every attempt of
/play may come out in one file, one segment or two; two segments are the fewest that have a first and a last one, and with the joined file three
outputs in a row. The runs have one format; two formats and two long sources are in the proofs. A queue of one is full as soon as it holds a job.

**Fairness.** Weak fairness of each goroutine's next step: Go's scheduler runs runnable
goroutines, and ffmpeg runs with a context and ends. None for users, the hourly ticker,
crashes and restarts.

**Proofs.** For any items, workers, requests, capacity, formats and lengths of sources, and any outcome of the probes, from `ActorsAssumption`,
`SizesAssumption` and `ItemsAssumption`:

* `TypeCorrect`. `TypeInv` adds to `TypeOK` what a goroutine holds at each place (an item when
  it works, a plan, a step within its outputs, an fd only while writing) and that the warm-up job has
  an item where it uses one. Without it `Target(a)` has no value that the next step can use.
* `NoRowIsForgotten`. `WorkInv` is `InProgressIsWorkedOn` with `TypeInv`; the steps fall into
  those that set a row `in_progress` (and then are busy with it), those that stop being busy
  (and then set another status) and those that do neither.
* `NoTempFileLeaks`. `TmpOwned` (a temporary file has a writer), `ConcatOwned` (a joined file has somebody who has yet to
  remove it) and `ListOwned` are inductive together with `TypeInv`. A file may be renamed or
  removed by somebody other than its owner; the owner's `fd` follows it. That a plan does not change between joining
  and tidying up, but for its number and format (`PlanKept`), is why a joined file keeps its owner.
* `FilesWhole`. `WholeInv` adds that a temporary file of an item without overlap has one writer
  and that what it has finished is whole.
* `ReadyPlays`. `KeptInv` says what a row may say of the files of its item, `RowKept`: a count above one was cut
  for, and in some format all of its segments are there, since final files are never removed except the
  joined one; the format of a ready row is some file's, and the audio file's unless the count was
  cut for. With one format, and no cut into one, that is every file the row names. It holds of rows that are not
  ready too, because `MarkReadyWithFormat` leaves the count of whatever row there was.
* `ReadyComesFromOne`. `SourceInv` adds that what a transcode writes and has published is of its own source,
  that without overlap no row is ready while somebody is at work, and `SegmentsAreCut`: segments come only
  from a source that is long enough. A count that `MarkReady` leaves in place does no harm to this
  property when one of two sources is too short: all segments are of the other.
* `UrlsAreAnswered`. `UrlInv`, beside `KeptInv`: a URL that names a segment names one of a cut that was made. If all cuts were into one
  number, and nothing is uncut, a ready row has that number and the handler finds the file.
* `Implements`: `Spec => ImplementsLedger`, from `KeptInv`, without a condition. `MarkInProgress` is Begin,
  a `WriteDone` that renames anything but the joined file is Publish, `MarkReady` and `MarkFailed` are End, CreateEntry's two
  statements are Drop and Create; every other step stutters. End with a row that is gone still needs a file
  that can be streamed (`SomethingDone`).

Only model-checked: liveness (`TranscodesEnd`, `RequestsAnswered`, `QueuedJobsTaken`), which TLAPS cannot do.

## 4. Playback (`Segments`, `Playback`)

**State.** `row` is `playback_sessions` (id, session, book, player, position, segment,
is_playing, timer), with ids in order of started_at; `player` is what each Sonos player has
loaded, where it is and whether it plays; `abs` the progress ABS keeps; `login` the sessions;
`at` where each request and each background goroutine is and what it has read; `todo` what a
background goroutine has listed. `places` and `muddled` are auxiliary: the global positions a
player has ever been at in a book (or another client saved), and the players at which a load
or a start was cut short.

**Actions.** One step is one network call with the statements since the one before it. Requests
start with `AskPlay`, `AskTransport` (pause, status, resume, stop, player switch) or `AskSeek`, which read the
row once, and go on with `GetProgress`, `Halt`, `Load` (SetAVTransportURI), `Start` (Play),
`ResumeStart`, `SeekIn`, `GetTransport`, `ReadPosition`, `Pause`, `SavePause`, `StopPlayer`,
`StopOther`, `SaveStop`, `DeleteRow`, `CreateRow`, `WriteRow`. The poller is `PollList`,
`Poll`, `PollWrite`; the syncer `SyncList`, `Sync`; the sleep timer worker `SleepList`,
`Sleep`, `Pause`, `SavePause`, `SleepClear`. The world is `Tick` (players play on),
`ByHand`, `Elsewhere`, `SetTimer`, `TimerExpires`, `Login`, `Logout`, `Restart`.
Every call may fail, and a failed command may have reached the player: that also stands for the
attempts of `sendCommand`, except that a late one does not overtake a later request.

**Abstractions.** Time and positions are in units; `Margin` and `EndMargin` are the code's 5 s
and 1 s, `Slack` its 5 s on resume. Every player is its own coordinator. The cache row is there
and does not change. A GetItem that fails in /play changes nothing, and in a switch is a `Load`
that fails. Rows with one started_at are not modelled, absolute seeks are not negative, and a
player that ends its file may report that end or 0 afterwards (an assumption on Sonos). A step
may merge two UPDATEs of one row when no network call lies between. Stream tokens are in `Streaming`,
volume and attempts in `SonosControl`. Not modelled: SQL errors, missing devices.

**Runs.** Each allows the requests `Ops`, the goroutines `Awake` and the `Events` its question
needs; together they take every action. `MaxRows` bounds the rows made, `Positions` and `Skips`
the seeks.

| Run | Shows | Size |
|---|---|---|
| `play_segments` | two segments, two /plays, another client, buttons: types, the row names what plays, /status reports global positions, no segment is loaded that does not exist, but by a /play at the end | 784,886; 47 s |
| `play_switch` | two players, switches, stops of both, restarts anywhere | 437,311; 39 s |
| `play_concurrent` | two requests at once, poller, syncer, another client, one file: rows and ABS hold positions of the book | 615,236; 53 s |
| `play_sleep` | sleep timer, stop, logout and login: a due timer is handled, ABS is told a position of the book | 314,926; 80 s |

`play_two_books` and `play_local` expect a violation; section 9.

**What the restrictions say.** `RowNamesWhatPlays` and `ReportedPositionsAreGlobal` are checked
with one request at a time (buttons, other clients and restarts interleave), and so is
`LoadedSegmentExists`, which exempts a /play at or past the end of the book;
`RowPositionsAreGlobal` and `ProgressIsOfItsBook` on one book of one
file. Beyond that they fail; section 9 lists how. These are limits of the program,
not of the model, and the hypotheses of the theorems below.

**Bounds.** Two segments have a first and a last; three or four units are enough to be inside, at
and past each margin. Two requests show every crossing of two handlers. Two rows are
the fewest that can be confused.

**Fairness.** Weak fairness of handlers (each call has a timeout) and of the three background
goroutines (tickers); none for players, users, and the clock.

**Proofs** (`SegmentsProofs`, for every length of book and segment). `RoundTrip` and `LocalRoundTrip`:
the two conversions of `store/cache.go` undo each other. `CountIsCeiling` and `SegmentsTile`: the files the
transcoder cuts lie end to end and end with the book. `PositionHasItsFile` joins the two: a
position before the end is in a segment that exists, before the end of its file. They rest on one lemma
about integer division, `Cut`. A position at the very end, or past it, is outside the last
theorem, which is why a seek has to clamp the index (`SeekPlan`, run `play_segments`) and why /play,
which does not, may load a segment that does not exist (section 9).

**Proofs** (`PlaybackProofs`), for any books, lengths, players, sessions, requests, `Ops`, `Awake`, `Events` and bounds,
from `NamesAssumption` and `BooksAssumption`:

* `TypeCorrect`. `TypeInv` adds to `TypeOK` what a request holds at each place (`Formed`): a row that was there when it was
  read, a player, a segment, so that what it multiplies and divides are natural numbers.
* `WitInv`: the global position of every player is one of the `places` of the book it has loaded. Both groups below rest on it.
* Books of one file (`OneFileEach`). `PositionsHeard`: for any number of books, rows and requests at once, rows and ABS
  hold only `Heard` positions, ones a player was at or a client saved. `HeardInv` says the same of what
  requests and goroutines have read, and that no seek is on its way under a position that was only asked for. With one book
  (`OneBook`) `Heard` is the places of that book: `RowPlaces`, `ProgressPlaces`. With several, a position may be another
  book's (run `play_two_books`), and with segments a local one (`play_local`), so neither hypothesis can go.
* Requests one at a time, from one session (`Alone`), with every goroutine, player, client and crash in between:
  `RowsNameWhatPlays`, `ReportsArePlaces`, `LoadsExist`, for any segments. `SoloInv` is `RowsInv` (the
  segment a row names exists), `LastInv` (the row of the last /play agrees with its player unless the request under way has
  just loaded something, `Touched`) and `OnesInv` (what the request has read of its row is still so, and what it has loaded
  is what it will write). Most steps are `Quiet`: no row and no player changes book or segment. Without `Alone` a
  handler writes back what it read before another one's load, and with two /plays at once a row may name
  a segment that does not exist: the invariants are false, not just unproved.

`GetBySessionID` is a set (`Latest`: the rows of the session of which none was started later), empty or a singleton;
that a finite set of row ids has a largest one would need induction.

Only model-checked: `TimersFire`, and the two expected violations. /pause in a segmented book is in no run;
`ReportsArePlaces` covers it.

## 5. Discovery and groups (`Devices`)

**State.** `on`, `coord`, `addr` are the network: who is there, each player's coordinator, each
player's address (numbered by how often it moved). `row` is `sonos_devices`; `at` what each request
has read. `Master` pairs the second half of a stereo pair with its player. `calm` and `sure` are
auxiliary: the requests nothing has disturbed since they began, and what the table is
therefore known to agree with.

**Actions.** A search is `AskSearch` (or `AskDevices`, which searches when no row is visible), `Mark`
(MarkAllUnreachable), `Search` (SSDP and the descriptions; any of the players there may be missed),
`GetZones`, and an `Upsert` per device. A refresh is `AskRefresh`, `ListRows`, `AskZones` and an
`Update` per row, each writing the whole row as it was listed. The network moves by `JoinGroup` and
`LeaveGroup` (the handlers, or another controller), `SwitchOff` and `SwitchOn`.

**Abstractions.** The SSDP search with the descriptions, and the round of refresh questions
until one device answers, are one step each. UUIDs are the players themselves; an old address is never
another player's. Left out: SQL errors, names, models, time stamps.

**Run.** `device_groups`: two requests at once, two players of which one is a stereo pair, every
grouping and every set of players present at the start, one change of the network (2,036,110
states; 90 s). Three facts in one place need no third player: a second half, a member, a leader.
One change from any start covers each event in the middle of each request.

**What the properties say.** `SearchFindsAll`: after a search that missed nothing and that nothing
disturbed, each player there has a row at its address, shown exactly if it leads or is
alone, and no refresh, whether it fails, overlaps another or ends late, spoils that until the network
changes. `RefreshedGroupsAreCurrent`: what is shown after an undisturbed refresh is current. The
condition is the auxiliary `sure`; a search or a refresh that runs beside a search may leave an older
row behind (section 9).

**Proofs** (`DevicesProofs`), for any players, pairs, groups, requests and number of changes, from `PlayersAssumption` and
`ChangesAssumption` of `Devices`:

* `TypeCorrect`. `NetInv` is the network: coordinators are there and coordinate themselves, a second half is
  where its player is. `Formed` is what a request has read at each place.
* `SearchComplete` and `GroupsCurrent`, from `CalmInv`: `SearchInv` (an undisturbed search is alone), `SureInv` (what is
  `sure` is so of the table, and no search is under way) and `GoodInv`: whoever is at work while somebody is calm or something is sure
  holds a list and a topology that agree with the network, so that what it writes back, however late, spoils nothing.
  `GoodInv` is what makes the two inductive: the properties say nothing of requests that have not written yet.

## 6. Volume, mute and groups (`SonosPlayers`, `SonosControl`, `RemoteCommand`)

**State.** `SonosPlayers` is the players: `vol`, `mute`, `coord`; what a command does to them, and which ones
they reject, is an assumption about Sonos taken from how `internal/sonos` uses them. `at` is where each
request is: the player of the row, the player the command goes to, what it has read, failed attempts,
the last answer. `air` is the attempts that are on their way. `took` and `calm` are auxiliary: a command
has taken effect; a request during which no other's has.

**Actions.** The six handlers (`SetVolume`, which is also the volume of a member, `ToggleMute`,
`SetGroupVolume`, `AdjustGroupVolume`, `JoinGroup`, `LeaveGroup`); then `Route` (getCoordinatorIP), `Read`
(GetMute or GetGroupVolume, and the value worked out from it), `Send` (doRequest), and one of `Answer`,
`Timeout` (retried by AVTransport, not by GroupRenderingControl) and `GiveUp` (an error that
isRetryableError does not take for transient, a cancelled request). `Arrive` is the player: an attempt may
arrive before or after its timeout, after later attempts, after the answer to the browser, or never.

**Abstractions.** A read changes nothing and is one step, attempts included. Addresses are players. Each
request runs once. Left out: SQL errors, values that do not parse, handlers that only show something.

**Run.** `control_commands`: two requests of any kind on two players in any groups, one retry (516,859
states; 115 s). `Wanted` is a volume below the range and `Deltas` a step past its upper end, so both limits
are met; volumes are 0 to 2, starting at 1.

**What the properties say.** `OnePressOneStep`: retries repeat a value and not a step, so an undisturbed press
of mute or of a volume step counts once, however many of its attempts arrive. `calm` is needed:
two presses at once read one value, and one is lost. `GroupCommandsFindTheLeader`: an
undisturbed group command is rejected only if the topology could not be had, in which case
the code falls back to the player of the row. `RequestsEnd`: attempts are counted. `ImplementsRemoteCommand`:
all this is one command that takes effect at most `MaxRetries + 1` times, at any time after it was asked for;
told that it succeeded, the sender knows that it took effect since; told that it failed, he knows nothing.
The mutant takes any answer for success.

**Bounds.** Two attempts are the fewest of which one can be late for the other; two requests the fewest that can
disturb each other; with two players a group has a leader and a member.

**Fairness.** Weak fairness of each request's next step: every call has a timeout (10 s) and every pause
an end. None for arrivals, players and users: a request ends even if no attempt ever arrives.

**Proofs** (`SonosControlProofs`), for any players, requests, volumes and number of retries, from
`PlayersAssumption`, `VolumeAssumption` and `ControlAssumption`:

* `TypeCorrect`. `TypeInv` adds that a request has what its next step needs (`WellFormed`), that attempts
  are of requests that know where they send them, and `GroupsInv`: coordinators coordinate themselves, which
  `MovedInOrder` shows of joining, leaving and choosing an heir.
* `PressedOnce` and `LeaderFound`, from `CalmInv`: of each request in `calm`, `Led`, `MutedOnce` and
  `SteppedOnce`. The last two are the argument: nothing is in the air before the reading, every attempt made after
  it says the one value worked out from what there was at the press (`Underway`), and a success that was heard of
  (`Done`) has taken effect. The command of anybody else takes the request out of `calm`. For the group
  volume, the player of the row and the one the command goes to have the same coordinator (`SameGroup`).

* `Implements`: `Spec => ImplementsRemoteCommand`. The mapping counts what a command may still do, `Spares`: attempts not yet sent
  and those in the air. `AttemptsInv` is what the count needs: attempts of one request are told apart by their numbers, and a
  success that was heard of took effect. The step that
  settles what is asked (beginning, `Route` or `Read`) is Ask, `Send` moves an attempt into the air and stutters, `Arrive` is
  TakesEffect or IsLost, the last answer or timeout is Answers, what ends a request sooner GivesUp.

Only model-checked: `RequestsEnd`.

## 7. Formats and streaming (`FormatChoice`, `Streaming`)

**`FormatChoice`** has no state: `Check`, `GetTargetFormat`, `determineTargetFormat`, the Smart choices and
`GetContentType` as operators on formats, a format being ffprobe's container and codec. What a book may come to,
over every way in which looks at its files may fail, is `ShortOutcomes` and `LongOutcomes`.

**State of `Streaming`.** `book` is the cached book: its files, whether it is segmented, the row's format, what is
in the files. `token` is when the row's stream token expires, `url` what the player was given last,
`got` the places of its file whose bytes it has, `asked` and `conn` a request and its answer, `refused` why it was turned
away. `pressed` is auxiliary: when the row got its token. `now` is time.

**Actions.** `Transcode`; `Press` (/play and the player switch, which generate a token; the update of the row may fail
to come), `ToSegment` (seeks and moves to the next segment, which use the row's); `Get` (HandleStream up to the
first byte: Validate, the row, the name, the range); `Copy`, a byte of the answer; `Cut` (the write timeout, a
broken connection, a restart); `Tick`, which cannot pass over the write timeout of an answer.

**Abstractions.** One book, one player of it; the player asks for any range at any time. Tokens that were
not issued by the program, names that no URL of it has, HEAD, SQL and seek errors are left out, and so is the file being
replaced (`TranscodeCache`) and the old player of a switch. Sizes are in bytes of which there are few.

**Run.** `stream_ranges`: books of up to two files, each either AAC in a container Sonos does not know or a codec it
does not play; two segments of two bytes; a token that lasts one unit, an answer one, and three units
of time; two URLs given (220,046 states; 108 s). Ranges are all those with ends up to one past the file and one more.

**What the properties say.** `TypeIsTheContents`: the type announced to the player and sent as Content-Type is
that of what is in the file, and Sonos plays it; a long book is looked at once and always right, a short one is looked
at twice, by two rules, and is right if its files have one codec and no look fails alone.
`RangesAreHonoured` compares the arithmetic of handleRangeRequest with RFC 7233's definition. `FileArrives`: a
player that is cut off and asks again has all bytes in the end.
`PlayerIsServed`: nobody is refused within `TTL` of the /play or switch that made the row's token, unless
/play started at the very end of a segmented book. That a segment can be streamed to its end does not hold: section 9.

**Bounds.** Two bytes have a first and a last; ranges one and two past the end are there. A token that is valid, on its
last moment and expired needs two units past `TTL`. Two URLs are a first one and one that replaces it, after which nothing is
left of the first but the row's token.

**Fairness.** Weak fairness of `Copy` (the server goes on with an answer), strong fairness of `GetRest` (the
player comes back for what it lacks, whatever else it asks for) and of `CopyMissing` (of many answers one
gets through). The last two are assumptions about the player and the network, not about the program; without
them no server delivers anything.

**Proofs** (`StreamingProofs`), for all files, sizes, numbers of segments, lifetimes and bounds, from
`StreamAssumption`:

* `TypeFollows`. `LongIsNamedRight` and `ShortIsNamedRight` say it of the outcomes; they rest on `CopyIsNamedRight`
  (what is copied goes into the container its codec is named by) and `EncodingIsNamedRight`. The short
  case needs that two looks agree on whether the first file can be copied.
* `RangesHonoured`. `AnswerIsDue` and `RefusedIsEmpty` are the arithmetic, by cases on the kind of range; `RangeInv`
  adds that a player that was refused is not being answered, so that the range it was refused for is not forgotten.
* `TypeCorrect`. `UrlInv` adds that an answer under way is of a segment that exists and is inside its range.
* `Served`. `TokenInv`: neither the row's token nor the one in the player's URL is older than the row's /play.

Only model-checked: `FileArrives`.

## 8. Mutants

Every property of a passing run has a mutant in the module: an operator beside the one it changes,
as a plausible bug would (`Mutant:` in its comment), under which TLC reports the property
violated.

## 9. Findings

Three runs expect a violation: each checks what a comment or document says against what the
code does.

| Run | What TLC finds |
|---|---|
| `cache_torn` | two transcodes of one item share the temporary path; the file one publishes is still being written by the other |
| `play_two_books` | after a second /play the syncer sends one book's position as another book's progress |
| `play_local` | the poller stores a position local to the segment as the global one |

The models show more that no property claims, because the program does not keep it. Each is a
reason for a restriction named above or in a hazard's note:

* A failed probe does not fail a transcode but changes what it makes, and marking an uncut file ready keeps the
  segment count of an earlier attempt (`Decided`, `MarkReady`). So a ready row may name files that are not there:
  two segments in mp4, then an attempt that finds no duration and no format, and the row names two segments in mp3.
  A URL handed out before names a segment that is there, and the handler looks for the one in mp3. Hence
  `OneFormat` and `CutAlike`, and the odd items of `CacheLedger`.
* A joined file may be found to be one segment long, because another join has truncated it or because it is found to be
  shorter than its parts together: `segment_000` is written, and the row, with one segment, names `audio`, which is not there (`Split`). Hence
  `1 \notin cuts`.
* Two long sources, of which one attempt did not find the duration: all segments of the book are there, a duplicate job
  publishes the first of its own and fails, and an uncut attempt makes the row ready with the old count; it names segments of two
  sources, without two transcodes at once. Hence the condition of `ReadyIsOneSource`.
* A crash leaves the list of a join, `<output>.concat.txt`, for good: only its deferred remove would have taken it away
  (`transcoder.go:157`), and CleanupTempFiles looks for `*.tmp` (`index.go:327`; `Dies`, `Restart`).
* The warm-up job makes the row ready from the first file of several, and /play then serves that
  as the book; hence `ReadyIsOneSource` says one source and not the whole book.
* The warm-up job deletes and re-creates a row that a /play request has meanwhile made ready; the
  URL of that /play names a file that does not exist, so `HandedOutUrlPlays` is about files that do.
* The warm-up job, cancelled but not awaited, may send on the queue that shutdown has closed
  (`WarmPanics`).
* A timer set anew while the worker handles the old one is cleared with it (`SleepClear`).
* After a second /play, stop deletes the last row and the session's older one is current again
  (`DeleteRow`).
* Near the end of any segment the poller takes the book for ended (`Poll`).
* A seek and a move to the next segment may cross: the row then names one segment and the player
  has the other; hence one request at a time.
* A /play whose Play call fails leaves the row of the /play before it current; the next /pause then adds the
  player's position to the wrong segment's start, and a later /play at the position this gives may load a segment
  that does not exist; /play does not limit the position ABS has (`player.go:235`). Hence the exception in `LoadedSegmentExists`.
* Progress made elsewhere in another segment: resume seeks in the segment that is loaded
  (`GetProgress`, `SeekIn`).
* A refresh lists visible rows only: a member that leaves its group stays hidden until the next search,
  and after a failed search, which leaves every row unreachable, a refresh asks nobody; hence the
  properties of `Devices` speak of rows that are shown, or of a whole search.
* A refresh writes rows back as it listed them, and loses what a search has written since.
* Tokens last one hour (`main.go:114`) although `config.go:30`, `.env.example:25` and `docker-compose.yml:17` have
  `BRIDGE_STREAM_TOKEN_TTL`, 24 h by default, which nothing reads; segments last two. Moves and
  seeks reuse the row's token (`player.go:849`, `:1067`), so the second segment is refused unless /play or a switch came
  within the hour, and so is the rest of a file that was cut off after it.
* `determineTargetFormat` looks at the first file only and `SmartTranscodeMultiple` at all of them: AAC first and Opus
  second become MP3 in a file named and typed as MP4; the same if one of the two looks fails. Hence the condition
  of `TypeIsTheContents`.
* A range that ends past the file is refused (`handler.go:242`); RFC 7233 has it cut off. Hence the last
  disjunct of `RangesAreHonoured`.
* `isRetryableError` takes "connection refused" for transient (its comment, `avtransport.go:253`), but such errors
  implement net.Error, and the answer given before that is no: they are not retried (`GiveUp`).
* Of two presses of mute or of a volume step at once, one is lost; a late attempt may undo a later command. Hence `calm`.
* A move to the next segment builds a session without a token (`player.go:1070`): the player is never told
  title and type of a later segment.

## 10. Not modelled

Sessions and login beyond what `Playback` has of them (login, logout, the rows that go with a session), token
encryption and signatures, library pages, the ABS client, configuration and schema; in the modelled parts, what each
section leaves out. The notes of `components` say why, and those of `hazards` which of them a property does not cover.
