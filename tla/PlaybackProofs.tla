--------------------------- MODULE PlaybackProofs ---------------------------
(***************************************************************************)
(* What holds of Playback for any books, players, sessions and requests,   *)
(* any mix of handlers, goroutines and events; what holds while requests   *)
(* come one at a time; and what holds of books that are one file.          *)
(***************************************************************************)
EXTENDS Playback, SegmentsProofs, FiniteSetTheorems

-----------------------------------------------------------------------------
(* Numbers. *)

LEMMA Product ==
  ASSUME NEW k \in Nat, NEW d \in Nat
  PROVE  k * d \in Nat
OBVIOUS

LEMMA Numbers ==
  ASSUME NEW b \in Books, NEW k \in Nat, NEW l \in Nat
  PROVE  /\ Global(b, k, l) \in Nat
         /\ Segment(b, l) \in Nat /\ Local(b, l) \in Nat
         /\ Count(b) \in Nat \ {0}
         /\ Duration[b] \in Nat \ {0} /\ SegSec[b] \in Nat /\ k * SegSec[b] \in Nat
<1>1. Duration[b] \in Nat \ {0} /\ SegSec[b] \in Nat
  BY BooksAssumption
<1>2. k * SegSec[b] \in Nat
  BY <1>1, Product
<1>3. Global(b, k, l) \in Nat
  BY <1>2 DEF Global, SegmentToGlobal
<1>4. Segment(b, l) \in Nat /\ Local(b, l) \in Nat
  <2>1. CASE SegSec[b] = 0
    BY <2>1 DEF Segment, Local, GlobalToSegment
  <2>2. CASE SegSec[b] # 0
    <3>0. SegSec[b] \in Nat \ {0}
      BY <1>1, <2>2
    <3>1. l \div SegSec[b] \in Nat /\ l % SegSec[b] \in 0 .. SegSec[b] - 1
      BY <3>0, Cut
    <3> QED
      BY <2>2, <3>0, <3>1 DEF Segment, Local, GlobalToSegment
  <2> QED
    BY <2>1, <2>2
<1>5. Count(b) \in Nat \ {0}
  <2>1. CASE SegSec[b] = 0
    BY <2>1 DEF Count, SegmentCount
  <2>2. CASE SegSec[b] # 0
    BY <1>1, <2>2, CountIsCeiling DEF Count
  <2> QED
    BY <2>1, <2>2
<1> QED
  BY <1>1, <1>2, <1>3, <1>4, <1>5

-----------------------------------------------------------------------------
(* Types. *)

Loadeds == [book : Books \cup {NoBook}, seg : Nat, pos : Nat,
            state : {"playing", "paused", "stopped"}]

LiveRow == [s : Sessions, book : Books, p : Players, pos : Nat, seg : Nat,
            playing : BOOLEAN, timer : Timers]

Works == [op : AllOps \cup {"none", "poll", "sleep"}, pc : Pcs, id : 0 .. MaxRows, r : Rows,
          p : Players \cup {NoPlayer}, q : Players \cup {NoPlayer}, seg : Nat,
          seek : Nat \cup {NoSeek}, pos : Int, on : BOOLEAN, read : BOOLEAN, loaded : BOOLEAN]

\* Which network calls each handler makes.
Calls == [play |-> {"progress", "load", "start", "seek", "done"},
          resume |-> {"progress", "start", "seek", "done"},
          switch |-> {"halt", "load", "start", "seek", "done"},
          seek |-> {"read", "seek", "load", "start", "done"},
          status |-> {"transport", "read", "load", "start", "seek", "done"},
          pause |-> {"read", "pause", "save"},
          stop |-> {"read", "stop", "other", "save", "delete"},
          sleep |-> {"pause", "save", "clear"},
          poll |-> {"write"}]

\* What a goroutine holds at its next call.
Formed(w) ==
  /\ w.op \in DOMAIN Calls /\ w.pc \in Calls[w.op]
  /\ w.r \in LiveRow
  /\ w.id \in IF w.op = "play" THEN {0} ELSE RowIds
  /\ (w.op = "switch" \/ w.pc = "other") => w.q \in Players
  /\ w.op = "switch" => w.q # w.r.p /\ w.seg = w.r.seg
  /\ w.p = IF w.op = "switch" /\ w.pc # "halt" THEN w.q ELSE w.r.p
  /\ w.pc = "seek" => w.seek \in Nat
  /\ ~(w.op = "seek" /\ w.pc = "read") => w.pos \in Nat
  /\ w.op \in {"play", "switch"} /\ w.pc \in {"seek", "done"} => w.loaded
  /\ w.loaded => w.pc \in {"seek", "done"} /\ w.op \in {"play", "switch", "seek", "status"}

Handlers(a) == IF a \in Requests THEN AllOps
               ELSE IF a = "poller" THEN {"poll"}
               ELSE IF a = "sleeper" THEN {"sleep"} ELSE {}

Sane(a, w) == w \in Works /\ (w = Idle \/ (Formed(w) /\ w.op \in Handlers(a)))

RowsTyped == /\ row \in [RowIds -> LiveRow \cup {NoRow}] /\ made \in 0 .. MaxRows
             /\ \A id \in Live : id <= made

PlayersTyped == player \in [Players -> Loadeds] /\ places \in [Books -> SUBSET Nat]

Plays == {x \in Requests : at[x].op = "play"}

WorkTyped == /\ at \in [Actors -> Works] /\ \A a \in Actors : Sane(a, at[a])
             /\ IsFiniteSet(Plays) /\ made + Cardinality(Plays) <= MaxRows

RestTyped == abs \in [Books -> Nat] /\ login \subseteq Sessions /\ muddled \subseteq Players

TodoTyped == todo \in [Services -> SUBSET [id : RowIds, r : LiveRow]]

TypeInv == RowsTyped /\ PlayersTyped /\ WorkTyped /\ RestTyped /\ TodoTyped

LEMMA TypeInvTypes == TypeInv => TypeOK
<1> SUFFICES ASSUME TypeInv PROVE TypeOK
  OBVIOUS
<1>1. LiveRow \cup {NoRow} \subseteq Rows
  <2>1. LiveRow \subseteq Rows
    BY DEF LiveRow, Rows
  <2>2. NoRow \in Rows
    BY DEF NoRow, Rows, Timers
  <2> QED
    BY <2>1, <2>2
<1>2. row \in [RowIds -> Rows]
  BY <1>1 DEF TypeInv, RowsTyped
<1>3. todo \in [Services -> SUBSET [id : RowIds, r : Rows]]
  BY <1>1 DEF TypeInv, TodoTyped
<1> QED
  BY <1>2, <1>3
     DEF TypeInv, TypeOK, RowsTyped, PlayersTyped, WorkTyped, RestTyped, Loadeds, Works

LEMMA Constants ==
  /\ NoRow \notin LiveRow /\ MaxRows \in Nat \ {0} /\ RowIds \subseteq Nat
  /\ \A b \in Books : b # NoBook
  /\ Idle \in Works /\ ~Formed(Idle)
  /\ "poller" \in Actors \ Requests /\ "syncer" \in Actors \ Requests
  /\ "sleeper" \in Actors \ Requests /\ Requests \subseteq Actors
<1>1. NoRow \notin LiveRow
  BY NamesAssumption DEF NoRow, LiveRow
<1>2. Idle \in Works
  BY BooksAssumption DEF Idle, Works, Pcs, Rows, NoRow, Timers, NoSeek
<1>3. ~Formed(Idle)
  BY DEF Formed, Idle, Calls
<1> QED
  BY <1>1, <1>2, <1>3, NamesAssumption, BooksAssumption DEF RowIds, Actors, Services

LEMMA InitTypes == Init => TypeInv
<1> SUFFICES ASSUME Init PROVE TypeInv
  OBVIOUS
<1>1. RowsTyped
  BY Constants DEF Init, RowsTyped, Live
<1>2. PlayersTyped
  BY DEF Init, PlayersTyped, Empty, Loadeds
<1>3. Plays = {}
  BY Constants DEF Init, Plays, Idle
<1>4. WorkTyped
  BY <1>3, Constants, FS_EmptySet DEF Init, WorkTyped, Sane
<1>5. RestTyped /\ TodoTyped
  BY DEF Init, RestTyped, TodoTyped
<1> QED
  BY <1>1, <1>2, <1>4, <1>5 DEF TypeInv

\* What a goroutine has when it is at one of its calls.
LEMMA Working ==
  ASSUME TypeInv, NEW a \in Actors, at[a].pc # "idle"
  PROVE  /\ at[a] \in Works /\ Formed(at[a]) /\ at[a].op \in Handlers(a)
         /\ at[a] # Idle
BY DEF TypeInv, WorkTyped, Sane, Idle

\* One goroutine goes on, to what it may hold; it does not become a /play.
LEMMA Going ==
  ASSUME TypeInv, NEW a \in Actors, NEW v, Sane(a, v), Go(a, v), made' = made,
         v.op = "play" => at[a].op = "play"
  PROVE  WorkTyped' /\ at'[a] = v /\ \A x \in Actors \ {a} : at'[x] = at[x]
<1>1. at \in [Actors -> Works] /\ \A x \in Actors : Sane(x, at[x])
  BY DEF TypeInv, WorkTyped
<1>2. at' \in [Actors -> Works] /\ at'[a] = v /\ \A x \in Actors \ {a} : at'[x] = at[x]
  BY <1>1 DEF Go, Sane
<1>3. \A x \in Actors : Sane(x, at'[x])
  BY <1>1, <1>2
<1>4. Plays' \subseteq Plays
  BY <1>2, Constants DEF Plays
<1>5. IsFiniteSet(Plays) /\ made + Cardinality(Plays) <= MaxRows /\ made \in Nat
  BY DEF TypeInv, WorkTyped, RowsTyped
<1>6. IsFiniteSet(Plays') /\ Cardinality(Plays') <= Cardinality(Plays)
  BY <1>4, <1>5, FS_Subset
<1>7. Cardinality(Plays) \in Nat /\ Cardinality(Plays') \in Nat
  BY <1>5, <1>6, FS_CardinalityType
<1>8. made' + Cardinality(Plays') <= MaxRows
  BY <1>5, <1>6, <1>7, Constants
<1>9. WorkTyped'
  BY <1>2, <1>3, <1>6, <1>8 DEF WorkTyped, Sane, Formed
<1> QED
  BY <1>2, <1>9

\* Goto and Return are ways to go on.
LEMMA Gotos ==
  ASSUME TypeInv, NEW a \in Actors
  PROVE  /\ \A pc : Goto(a, pc) => Go(a, [at[a] EXCEPT !.pc = pc])
         /\ Return(a) => Go(a, Idle)
         /\ Sane(a, Idle) /\ Idle.op = "none"
<1>1. Return(a) => Go(a, Idle)
  BY DEF Return, Go
<1>2. Sane(a, Idle) /\ Idle.op = "none"
  BY Constants DEF Sane, Idle
<1>3. \A pc : Goto(a, pc) => Go(a, [at[a] EXCEPT !.pc = pc])
  BY DEF TypeInv, WorkTyped, Goto, Go
<1> QED
  BY <1>1, <1>2, <1>3

\* A row that is written stays a row; none appears.
LEMMA Updating ==
  ASSUME TypeInv, NEW id \in RowIds, NEW r, Update(id, r), made' = made,
         row[id] # NoRow => r \in LiveRow
  PROVE  RowsTyped' /\ \A i \in RowIds : row'[i] = IF i = id /\ row[i] # NoRow THEN r ELSE row[i]
<1>1. row \in [RowIds -> LiveRow \cup {NoRow}] /\ made \in 0 .. MaxRows /\ \A i \in Live : i <= made
  BY DEF TypeInv, RowsTyped
<1>2. \A i \in RowIds : row'[i] = IF i = id /\ row[i] # NoRow THEN r ELSE row[i]
  BY <1>1 DEF Update
<1>3. row' \in [RowIds -> LiveRow \cup {NoRow}]
  BY <1>1 DEF Update
<1>4. Live' \subseteq Live
  BY <1>2 DEF Live
<1> QED
  BY <1>1, <1>2, <1>3, <1>4 DEF RowsTyped

\* The players keep their types, and so do the places they have been at.
LEMMA Witnessing ==
  ASSUME TypeInv, player' \in [Players -> Loadeds], Witness
  PROVE  /\ PlayersTyped'
         /\ \A b \in Books : /\ places[b] \subseteq places'[b]
                             /\ \A p \in Players : player'[p].book = b =>
                                  Global(b, player'[p].seg, player'[p].pos) \in places'[b]
<1>1. places \in [Books -> SUBSET Nat]
  BY DEF TypeInv, PlayersTyped
<1>2. \A b \in Books, p \in Players : Global(b, player'[p].seg, player'[p].pos) \in Nat
  BY Numbers DEF Loadeds
<1>3. places' \in [Books -> SUBSET Nat]
  BY <1>1, <1>2 DEF Witness
<1> QED
  BY <1>3 DEF PlayersTyped, Witness

LEMMA Commanding ==
  ASSUME TypeInv, NEW p \in Players, NEW x \in Loadeds, NEW ok, Command(p, x, ok)
  PROVE  PlayersTyped' /\ Witness /\ player' \in {player, [player EXCEPT ![p] = x]}
<1>1. player' \in [Players -> Loadeds] /\ Witness /\ player' \in {player, [player EXCEPT ![p] = x]}
  BY DEF TypeInv, PlayersTyped, Command
<1> QED
  BY <1>1, Witnessing

LEMMA Saving ==
  ASSUME TypeInv, NEW b, NEW pos \in Nat, SaveProgress(b, pos)
  PROVE  abs' \in [Books -> Nat]
BY DEF TypeInv, RestTyped, SaveProgress

-----------------------------------------------------------------------------
(* Requests begin. *)

\* A row that is read is one of its session.
LEMMA Reading ==
  ASSUME TypeInv, NEW s, NEW id \in Latest(s)
  PROVE  /\ id \in Live /\ id \in RowIds /\ row[id] \in LiveRow /\ row[id].s = s
         /\ \A j \in Live : row[j].s = s => j <= id
BY DEF TypeInv, RowsTyped, Latest, RowsOf, Live

\* Where a seek goes, from what it holds.
LEMMA Planning ==
  ASSUME NEW w \in Works, w.r \in LiveRow, w.op = "seek", w.id \in RowIds, w.p = w.r.p,
         ~w.loaded, NEW g \in Nat
  PROVE  LET v == SeekPlan(w, g)
         IN  /\ v \in Works /\ Formed(v)
             /\ v.op = "seek" /\ v.id = w.id /\ v.r = w.r /\ v.p = w.p /\ v.q = w.q
             /\ v.read = w.read /\ ~v.loaded /\ v.pos = g /\ v.pc \in {"seek", "load"}
             /\ v.pc = "seek" => v.seek = Local(w.r.book, g) /\ v.seg = w.seg
             /\ v.pc = "load" => v.seg < Count(w.r.book) /\ Segment(w.r.book, g) # w.r.seg
<1> DEFINE b == w.r.book
           k == Segment(b, g)
           last == Count(b) - 1
           l == IF k > last THEN Duration[b] - last * SegSec[b] ELSE Local(b, g)
           there == [w EXCEPT !.pc = "seek", !.seek = Local(b, g), !.pos = g]
           away == [w EXCEPT !.pc = "load", !.pos = g, !.seg = IF k > last THEN last ELSE k,
                             !.seek = IF l > 0 THEN l ELSE NoSeek]
<1>1. b \in Books
  BY DEF LiveRow
<1>2. k \in Nat /\ Local(b, g) \in Nat /\ Count(b) \in Nat \ {0}
  BY <1>1, Numbers
<1>3. Duration[b] - last * SegSec[b] \in Int
  <2>1. last \in Nat
    BY <1>2
  <2>2. last * SegSec[b] \in Nat /\ Duration[b] \in Nat
    BY <1>1, <2>1, Numbers
  <2> QED
    BY <2>2
<1>4. SeekPlan(w, g) = IF k = w.r.seg THEN there ELSE away
  BY DEF SeekPlan
<1>5. (IF k > last THEN last ELSE k) \in Nat /\ (IF k > last THEN last ELSE k) < Count(b)
  BY <1>2
<1>6. (IF l > 0 THEN l ELSE NoSeek) \in Nat \cup {NoSeek}
  BY <1>2, <1>3
<1> HIDE DEF b, k, last, l
<1>7. there \in Works /\ away \in Works
  <2>2. g \in Int /\ "load" \in Pcs /\ "seek" \in Pcs
    BY DEF Pcs
  <2>1. there \in Works
    <3> DEFINE l0 == Local(b, g)
    <3>1. l0 \in Nat
      BY <1>2
    <3> HIDE DEF l0
    <3> QED
      BY <2>2, <3>1 DEF Works, l0
  <2>3. away \in Works
    BY <1>5, <1>6, <2>2 DEF Works
  <2> QED
    BY <2>1, <2>3
<1>8. Formed(there) /\ Formed(away)
  BY <1>2, <1>7 DEF Works, Formed, Calls
<1> QED
  BY <1>4, <1>5, <1>7, <1>8 DEF Works, b, k

LEMMA AskPlayTypes ==
  ASSUME TypeInv, NEW a \in Requests, NEW s \in Sessions, NEW b \in Books, NEW p \in Players,
         AskPlay(a, s, b, p)
  PROVE  TypeInv'
<1> DEFINE r == [NoRow EXCEPT !.s = s, !.book = b, !.p = p, !.playing = TRUE]
           v == [Idle EXCEPT !.op = "play", !.pc = "progress", !.p = p, !.r = r]
<1>1. r \in LiveRow
  BY DEF NoRow, LiveRow, Timers
<1>2. r \in Rows
  BY <1>1 DEF LiveRow, Rows
<1> HIDE DEF r
<1>3. v \in Works
  <2>1. Idle \in Works
    BY Constants
  <2>2. "play" \in AllOps /\ "progress" \in Pcs
    BY DEF AllOps, Pcs
  <2> QED
    BY <1>2, <2>1, <2>2 DEF Works
<1>4. Formed(v)
  BY <1>1 DEF Formed, Calls, Idle, r, NoRow
<1>5. Sane(a, v) /\ v.op = "play"
  BY <1>3, <1>4 DEF Sane, Handlers, AllOps, Idle
<1>6. at' = [at EXCEPT ![a] = v] /\ at \in [Actors -> Works] /\ a \in Actors
  BY Constants DEF AskPlay, Go, r, TypeInv, WorkTyped
<1> HIDE DEF v
<1>7. at'[a] = v /\ \A x \in Actors \ {a} : at'[x] = at[x]
  BY <1>6
<1>8. Plays' = Plays \cup {a} /\ a \notin Plays
  <2>1. at[a].op = "none"
    BY DEF AskPlay, Ask, Idle
  <2> QED
    BY <1>5, <1>7, <2>1, Constants DEF Plays
<1>9. IsFiniteSet(Plays') /\ Cardinality(Plays') = Cardinality(Plays) + 1
  BY <1>8, FS_AddElement DEF TypeInv, WorkTyped
<1>10. made' = made /\ made + Cardinality(Plays) < MaxRows
  BY DEF AskPlay, Plays
<1>11. Cardinality(Plays) \in Nat /\ made \in Nat
  BY FS_CardinalityType DEF TypeInv, WorkTyped, RowsTyped
<1>12. made' + Cardinality(Plays') <= MaxRows
  BY <1>9, <1>10, <1>11, Constants
<1>13. \A x \in Actors : Sane(x, at'[x])
  BY <1>5, <1>7 DEF TypeInv, WorkTyped
<1>14. at' \in [Actors -> Works]
  BY <1>3, <1>6 DEF v
<1>15. WorkTyped'
  BY <1>9, <1>12, <1>13, <1>14 DEF WorkTyped, Sane, Formed
<1>16. UNCHANGED <<row, made, player, abs, login, todo, places, muddled>>
  BY DEF AskPlay
<1> QED
  BY <1>15, <1>16 DEF TypeInv, RowsTyped, PlayersTyped, RestTyped, TodoTyped, Live

\* What a handler holds that has read the row.
LEMMA Held ==
  ASSUME TypeInv, NEW id \in RowIds, row[id] \in LiveRow,
         NEW op \in AllOps, NEW pc \in Pcs
  PROVE  LET h == Holding(op, pc, id)
         IN  /\ h \in Works /\ h.op = op /\ h.pc = pc /\ h.id = id /\ h.r = row[id]
             /\ h.p = row[id].p /\ h.seg = row[id].seg /\ h.pos = row[id].pos
             /\ h.seek = NoSeek /\ ~h.read /\ ~h.loaded
<1>1. row[id] \in Rows /\ row[id].seg \in Nat /\ row[id].pos \in Nat /\ row[id].p \in Players
  BY DEF LiveRow, Rows
<1>2. id \in 0 .. MaxRows
  BY BooksAssumption DEF RowIds
<1>3. Idle \in Works
  BY Constants
<1> DEFINE r == row[id]
           p == row[id].p
           seg == row[id].seg
           pos == row[id].pos
<1>4. r \in Rows /\ seg \in Nat /\ pos \in Int /\ p \in Players
  BY <1>1
<1>5. Holding(op, pc, id) = [Idle EXCEPT !.op = op, !.pc = pc, !.id = id, !.r = r,
                               !.p = p, !.seg = seg, !.pos = pos]
  BY DEF Holding
<1> HIDE DEF r, p, seg, pos
<1>6. Holding(op, pc, id) \in Works
  BY <1>2, <1>3, <1>4, <1>5 DEF Works
<1> QED
  BY <1>6 DEF Holding, Idle, r, p, seg, pos

LEMMA AskTypes ==
  ASSUME TypeInv, NEW a \in Requests, NEW s \in Sessions,
         AskTransport(a, s) \/ AskSeek(a, s)
  PROVE  TypeInv'
<1>1. a \in Actors /\ Handlers(a) = AllOps
  BY Constants DEF Handlers
<1>2. ASSUME NEW v, v \in Works, Formed(v), v.op \in AllOps \ {"play"}, Go(a, v) PROVE TypeInv'
  <2>1. UNCHANGED <<row, made, player, abs, login, todo, places, muddled>>
    BY DEF AskTransport, AskSeek
  <2>2. WorkTyped'
    BY <1>1, <1>2, <2>1, Going DEF Sane
  <2> QED
    BY <2>1, <2>2 DEF TypeInv, RowsTyped, PlayersTyped, RestTyped, TodoTyped, Live
<1>3. ASSUME AskTransport(a, s) PROVE TypeInv'
  <2>1. PICK id \in Latest(s) :
          \/ Go(a, Holding("pause", "read", id))
          \/ Go(a, Holding("status", "transport", id))
          \/ Go(a, Holding("resume", "progress", id))
          \/ \E q \in {NoPlayer} \cup (Players \ {row[id].p}) :
               Go(a, [Holding("stop", "read", id) EXCEPT !.q = q])
          \/ \E q \in Players \ {row[id].p} :
               Go(a, [Holding("switch", "halt", id) EXCEPT !.q = q])
    BY <1>3 DEF AskTransport
  <2>2. id \in RowIds /\ row[id] \in LiveRow
    BY Reading
  <2>3. row[id].pos \in Nat /\ row[id].p \in Players
    BY <2>2 DEF LiveRow
  <2>4. CASE Go(a, Holding("pause", "read", id))
    <3> DEFINE v == Holding("pause", "read", id)
    <3>1. v \in Works /\ v.op = "pause" /\ Formed(v)
      BY <2>2, <2>3, Held DEF AllOps, Pcs, Formed, Calls
    <3> QED
      BY <1>2, <2>4, <3>1 DEF AllOps
  <2>5. CASE Go(a, Holding("status", "transport", id))
    <3> DEFINE v == Holding("status", "transport", id)
    <3>1. v \in Works /\ v.op = "status" /\ Formed(v)
      BY <2>2, <2>3, Held DEF AllOps, Pcs, Formed, Calls
    <3> QED
      BY <1>2, <2>5, <3>1 DEF AllOps
  <2>6. CASE Go(a, Holding("resume", "progress", id))
    <3> DEFINE v == Holding("resume", "progress", id)
    <3>1. v \in Works /\ v.op = "resume" /\ Formed(v)
      BY <2>2, <2>3, Held DEF AllOps, Pcs, Formed, Calls
    <3> QED
      BY <1>2, <2>6, <3>1 DEF AllOps
  <2>7. ASSUME NEW q \in {NoPlayer} \cup (Players \ {row[id].p}),
               Go(a, [Holding("stop", "read", id) EXCEPT !.q = q])
        PROVE  TypeInv'
    <3> DEFINE h == Holding("stop", "read", id)
               v == [h EXCEPT !.q = q]
    <3>1. h \in Works /\ h.op = "stop"
      BY <2>2, Held DEF AllOps, Pcs
    <3>3. v \in Works /\ v.op = "stop"
      BY <3>1 DEF Works
    <3>2. Formed(v)
      BY <2>2, <2>3, Held DEF AllOps, Pcs, Formed, Calls
    <3> QED
      BY <1>2, <2>7, <3>2, <3>3 DEF AllOps
  <2>8. ASSUME NEW q \in Players \ {row[id].p},
               Go(a, [Holding("switch", "halt", id) EXCEPT !.q = q])
        PROVE  TypeInv'
    <3> DEFINE h == Holding("switch", "halt", id)
               v == [h EXCEPT !.q = q]
    <3>1. h \in Works /\ h.op = "switch"
      BY <2>2, Held DEF AllOps, Pcs
    <3>3. v \in Works /\ v.op = "switch"
      BY <3>1 DEF Works
    <3>2. Formed(v)
      BY <2>2, <2>3, Held DEF AllOps, Pcs, Formed, Calls
    <3> QED
      BY <1>2, <2>8, <3>2, <3>3 DEF AllOps
  <2> QED
    BY <2>1, <2>4, <2>5, <2>6, <2>7, <2>8
<1>4. ASSUME AskSeek(a, s) PROVE TypeInv'
  <2>1. PICK id \in Latest(s) :
          \/ \E g \in Positions : Go(a, SeekPlan(Holding("seek", "seek", id), g))
          \/ \E k \in Skips : Go(a, [Holding("seek", "read", id) EXCEPT !.pos = k])
    BY <1>4 DEF AskSeek
  <2>2. id \in RowIds /\ row[id] \in LiveRow
    BY Reading
  <2>3. ASSUME NEW g \in Positions, Go(a, SeekPlan(Holding("seek", "seek", id), g)) PROVE TypeInv'
    <3> DEFINE h == Holding("seek", "seek", id)
               v == SeekPlan(h, g)
    <3>1. h \in Works /\ h.op = "seek" /\ h.r = row[id] /\ h.id = id /\ h.p = row[id].p /\ ~h.loaded
      BY <2>2, Held DEF AllOps, Pcs
    <3> HIDE DEF h
    <3>2. v \in Works /\ Formed(v) /\ v.op = "seek"
      BY <2>2, <3>1, Planning, BooksAssumption
    <3> QED
      BY <1>2, <2>3, <3>2 DEF AllOps, h
  <2>4. ASSUME NEW k \in Skips, Go(a, [Holding("seek", "read", id) EXCEPT !.pos = k]) PROVE TypeInv'
    <3> DEFINE h == Holding("seek", "read", id)
               v == [h EXCEPT !.pos = k]
    <3>1. h \in Works /\ h.op = "seek"
      BY <2>2, Held DEF AllOps, Pcs
    <3>3. v \in Works /\ v.op = "seek"
      BY <3>1, BooksAssumption DEF Works
    <3>2. Formed(v)
      BY <2>2, Held DEF AllOps, Pcs, Formed, Calls
    <3> QED
      BY <1>2, <2>4, <3>2, <3>3 DEF AllOps
  <2> QED
    BY <2>1, <2>3, <2>4
<1> QED
  BY <1>3, <1>4

-----------------------------------------------------------------------------
(* Requests go on. *)

\* Whose call it is.
LEMMA Callers ==
  ASSUME NEW w, Formed(w)
  PROVE  /\ w.pc = "progress" => w.op \in {"play", "resume"}
         /\ w.pc \in {"load", "start", "seek", "done"} =>
              w.op \in {"play", "switch", "seek", "status", "resume"}
         /\ w.pc = "load" => w.op # "resume"
         /\ w.pc = "read" => w.op \in {"seek", "status", "pause", "stop"}
         /\ w.pc = "pause" => w.op \in {"pause", "sleep"}
         /\ w.pc = "save" => w.op \in {"pause", "stop", "sleep"}
         /\ w.pc = "halt" => w.op = "switch"
         /\ w.pc = "transport" => w.op = "status"
         /\ w.pc \in {"stop", "other", "delete"} => w.op = "stop"
         /\ w.pc = "write" => w.op = "poll"
         /\ w.pc = "clear" => w.op = "sleep"
BY DEF Formed, Calls

\* A step of one goroutine that leaves the rest to be typed.
LEMMA StepTypes ==
  ASSUME TypeInv, NEW a \in Actors, NEW v, Go(a, v), made' = made,
         v = Idle \/ (v \in Works /\ Formed(v) /\ v.op = at[a].op), at[a].pc # "idle",
         RowsTyped', PlayersTyped', RestTyped', TodoTyped'
  PROVE  TypeInv'
<1>1. at[a].op \in Handlers(a)
  BY Working
<1>2. Sane(a, v) /\ (v.op = "play" => at[a].op = "play")
  BY <1>1, Gotos DEF Sane
<1>3. WorkTyped'
  BY <1>2, Going
<1> QED
  BY <1>3 DEF TypeInv

\* What a step leaves alone keeps its type.
LEMMA Kept ==
  ASSUME TypeInv
  PROVE  /\ UNCHANGED <<row, made>> => RowsTyped'
         /\ UNCHANGED <<player, places>> => PlayersTyped'
         /\ UNCHANGED <<abs, login, muddled>> => RestTyped'
         /\ UNCHANGED todo => TodoTyped'
BY DEF TypeInv, RowsTyped, PlayersTyped, RestTyped, TodoTyped, Live

LEMMA GetProgressTypes ==
  ASSUME TypeInv, NEW a \in Requests, GetProgress(a)
  PROVE  TypeInv'
<1> DEFINE w == at[a]
           b == w.r.book
<1>1. a \in Actors /\ w \in Works /\ Formed(w) /\ w.op \in {"play", "resume"} /\ w.pc = "progress"
  BY Constants, Working, Callers DEF GetProgress
<1>2. b \in Books /\ w.pos \in Nat
  BY <1>1 DEF Formed, LiveRow
<1>3. PICK got \in {0, abs[b]} :
        \/ /\ w.op = "play"
           /\ Go(a, [w EXCEPT !.pc = "load", !.pos = got, !.seg = Segment(b, got),
                              !.seek = IF got > 0 THEN Local(b, got) ELSE NoSeek])
        \/ /\ w.op # "play"
           /\ \/ Go(a, [w EXCEPT !.pc = "start", !.pos = got, !.seek = Local(b, got)])
              \/ Go(a, [w EXCEPT !.pc = "start"])
  BY DEF GetProgress
<1>4. got \in Nat
  BY <1>2 DEF TypeInv, RestTyped
<1> DEFINE k == Segment(b, got)
           l == Local(b, got)
           u == IF got > 0 THEN l ELSE NoSeek
<1>5. k \in Nat /\ l \in Nat /\ u \in Nat \cup {NoSeek}
  BY <1>2, <1>4, Numbers
<1>6. UNCHANGED <<row, made, player, abs, login, todo, places, muddled>>
  BY DEF GetProgress
<1>7. \/ w.op = "play" /\ Go(a, [w EXCEPT !.pc = "load", !.pos = got, !.seg = k, !.seek = u])
      \/ /\ w.op = "resume"
         /\ \/ Go(a, [w EXCEPT !.pc = "start", !.pos = got, !.seek = l])
            \/ Go(a, [w EXCEPT !.pc = "start"])
  BY <1>1, <1>3
<1>8. got \in Int /\ "load" \in Pcs /\ "start" \in Pcs
  BY <1>4 DEF Pcs
<1> HIDE DEF w, b, k, l, u
<1>9. PICK v \in Works : Go(a, v) /\ v.op = w.op /\ Formed(v)
  <2>1. CASE w.op = "play" /\ Go(a, [w EXCEPT !.pc = "load", !.pos = got, !.seg = k, !.seek = u])
    <3> DEFINE v == [w EXCEPT !.pc = "load", !.pos = got, !.seg = k, !.seek = u]
    <3>1. v \in Works
      BY <1>1, <1>5, <1>8 DEF Works
    <3>2. Formed(v) /\ v.op = w.op
      BY <1>1, <1>4, <2>1 DEF Works, Formed, Calls
    <3> QED
      BY <2>1, <3>1, <3>2
  <2>2. CASE w.op = "resume" /\ Go(a, [w EXCEPT !.pc = "start", !.pos = got, !.seek = l])
    <3> DEFINE v == [w EXCEPT !.pc = "start", !.pos = got, !.seek = l]
    <3>1. v \in Works
      BY <1>1, <1>5, <1>8 DEF Works
    <3>2. Formed(v) /\ v.op = w.op
      BY <1>1, <1>4, <2>2 DEF Works, Formed, Calls
    <3> QED
      BY <2>2, <3>1, <3>2
  <2>3. CASE w.op = "resume" /\ Go(a, [w EXCEPT !.pc = "start"])
    <3> DEFINE v == [w EXCEPT !.pc = "start"]
    <3>1. v \in Works
      BY <1>1, <1>8 DEF Works
    <3>2. Formed(v) /\ v.op = w.op
      BY <1>1, <1>2, <2>3 DEF Works, Formed, Calls
    <3> QED
      BY <2>3, <3>1, <3>2
  <2> QED
    BY <1>7, <2>1, <2>2, <2>3
<1> QED
  BY <1>1, <1>6, <1>9, StepTypes, Kept DEF w

LEMMA HaltTypes ==
  ASSUME TypeInv, NEW a \in Requests, Halt(a)
  PROVE  TypeInv'
<1> DEFINE w == at[a]
           l == w.r.pos - w.r.seg * SegSec[w.r.book]
           u == IF l > 0 THEN l ELSE NoSeek
<1>1. a \in Actors /\ w \in Works /\ Formed(w) /\ w.op = "switch" /\ w.pc = "halt"
  BY Constants, Working, Callers DEF Halt
<1>2. w.r \in LiveRow /\ w.p \in Players /\ w.q \in Players /\ w.pos \in Nat
  BY <1>1 DEF Formed, LiveRow
<1>3. l \in Int
  <2>1. w.r.seg * SegSec[w.r.book] \in Nat /\ w.r.pos \in Nat
    BY <1>2, Numbers DEF LiveRow
  <2> QED
    BY <2>1
<1>4. u \in Nat \cup {NoSeek}
  BY <1>3
<1>5. Go(a, [w EXCEPT !.pc = "load", !.p = w.q, !.seek = u])
  BY DEF Halt
<1>6. PlayersTyped'
  <2>1. Stopped(player[w.p]) \in Loadeds
    BY <1>2 DEF TypeInv, PlayersTyped, Stopped, Loadeds
  <2> QED
    BY <1>2, <2>1, Commanding DEF Halt
<1>7. UNCHANGED <<row, made, abs, login, todo, muddled>>
  BY DEF Halt
<1> HIDE DEF w, l, u
<1> DEFINE v == [w EXCEPT !.pc = "load", !.p = w.q, !.seek = u]
<1>8. v \in Works
  BY <1>1, <1>2, <1>4 DEF Works, Pcs
<1>9. Formed(v) /\ v.op = w.op
  BY <1>1, <1>2 DEF Works, Formed, Calls
<1> QED
  BY <1>1, <1>5, <1>6, <1>7, <1>8, <1>9, StepTypes, Kept DEF w

\* Either kind of failure of a load or a start.
LEMMA CutShortGoes ==
  ASSUME TypeInv, NEW a \in Actors, CutShort(a), at[a].pc \in {"load", "start"}
  PROVE  \E v : /\ Go(a, v) /\ at'[a] = v
                /\ v = Idle \/ (v \in Works /\ Formed(v) /\ v.op = "status" /\ at[a].op = "status"
                                /\ v = [at[a] EXCEPT !.pc = "done"])
<1> DEFINE w == at[a]
<1>1. w \in Works /\ Formed(w)
  BY Working
<1>2. w.op \in {"play", "switch", "seek", "status", "resume"}
  BY <1>1, Callers
<1>3. at \in [Actors -> Works]
  BY DEF TypeInv, WorkTyped
<1> DEFINE v == [w EXCEPT !.pc = "done"]
<1>4. CASE w.op = "status"
  <2>1. Go(a, v) /\ at'[a] = v
    BY <1>3, <1>4 DEF CutShort, Goto, Go
  <2>2. v \in Works /\ v.op = "status"
    BY <1>1, <1>4 DEF Works, Pcs
  <2>3. Formed(v)
    BY <1>1, <1>4 DEF Works, Formed, Calls
  <2> QED
    BY <1>4, <2>1, <2>2, <2>3
<1>5. CASE w.op # "status"
  BY <1>3, <1>5 DEF CutShort, Return, Go
<1> QED
  BY <1>4, <1>5

LEMMA LoadTypes ==
  ASSUME TypeInv, NEW a \in Requests, Load(a)
  PROVE  TypeInv'
<1> DEFINE w == at[a]
           x == [book |-> w.r.book, seg |-> w.seg, pos |-> 0, state |-> "stopped"]
<1>1. a \in Actors /\ w \in Works /\ Formed(w) /\ w.pc = "load" /\ w.op # "resume"
  BY Constants, Working, Callers DEF Load
<1>2. w.p \in Players /\ w.pos \in Nat /\ x \in Loadeds
  BY <1>1 DEF Formed, LiveRow, Works, Loadeds
<1>3. PlayersTyped'
  BY <1>2, Commanding DEF Load
<1>4. UNCHANGED <<row, made, abs, login, todo>>
  BY DEF Load
<1>5. RestTyped'
  <2>1. muddled' \subseteq muddled \cup {w.p}
    BY DEF Load, CutShort
  <2> QED
    BY <1>2, <1>4, <2>1 DEF TypeInv, RestTyped
<1>6. CASE Goto(a, "start")
  <2> DEFINE v == [w EXCEPT !.pc = "start"]
  <2>1. v \in Works
    BY <1>1 DEF Works, Pcs
  <2>2. Formed(v) /\ v.op = w.op
    BY <1>1, <1>2, Callers DEF Works, Formed, Calls
  <2>3. Go(a, v)
    BY <1>1, <1>6, Gotos
  <2> QED
    BY <1>1, <1>3, <1>4, <1>5, <2>1, <2>2, <2>3, StepTypes, Kept
<1>7. CASE CutShort(a)
  BY <1>1, <1>3, <1>4, <1>5, <1>7, CutShortGoes, StepTypes, Kept
<1> QED
  BY <1>6, <1>7 DEF Load

LEMMA StartTypes ==
  ASSUME TypeInv, NEW a \in Requests, Start(a)
  PROVE  TypeInv'
<1> DEFINE w == at[a]
           x == [player[w.p] EXCEPT !.state = "playing"]
           y == IF Track(w.p) > 0 THEN x ELSE player[w.p]
<1>1. a \in Actors /\ w \in Works /\ Formed(w) /\ w.pc = "start" /\ w.op # "resume"
  BY Constants, Working, Callers DEF Start
<1>2. w.p \in Players /\ w.pos \in Nat
  BY <1>1 DEF Formed, LiveRow
<1>3. x \in Loadeds /\ y \in Loadeds
  BY <1>2 DEF TypeInv, PlayersTyped, Loadeds
<1>4. PlayersTyped'
  BY <1>2, <1>3, Commanding DEF Start
<1>5. UNCHANGED <<row, made, abs, login, todo>>
  BY DEF Start
<1>6. RestTyped'
  <2>1. muddled' \subseteq muddled \cup {w.p}
    BY DEF Start, CutShort
  <2> QED
    BY <1>2, <1>5, <2>1 DEF TypeInv, RestTyped
<1>7. CASE Go(a, [w EXCEPT !.pc = AfterStart(w), !.loaded = TRUE])
  <2> DEFINE v == [w EXCEPT !.pc = AfterStart(w), !.loaded = TRUE]
  <2>1. AfterStart(w) \in {"seek", "done"} /\ (AfterStart(w) = "seek" => w.seek # NoSeek)
    BY DEF AfterStart
  <2>2. v \in Works
    BY <1>1, <2>1 DEF Works, Pcs
  <2>3. Formed(v) /\ v.op = w.op
    BY <1>1, <1>2, <2>1, Callers DEF Works, Formed, Calls
  <2> QED
    BY <1>1, <1>4, <1>5, <1>6, <1>7, <2>2, <2>3, StepTypes, Kept
<1>8. CASE CutShort(a)
  BY <1>1, <1>4, <1>5, <1>6, <1>8, CutShortGoes, StepTypes, Kept
<1> QED
  BY <1>7, <1>8 DEF Start

\* Columns that are written back to a row.
LEMMA Columns ==
  ASSUME NEW r \in LiveRow
  PROVE  /\ \A pos \in Nat : [r EXCEPT !.pos = pos] \in LiveRow
         /\ \A playing \in BOOLEAN : [r EXCEPT !.playing = playing] \in LiveRow
         /\ \A timer \in Timers : [r EXCEPT !.timer = timer] \in LiveRow
BY DEF LiveRow

LEMMA RowOrNone ==
  ASSUME TypeInv, NEW id \in RowIds
  PROVE  row[id] # NoRow <=> row[id] \in LiveRow
BY Constants DEF TypeInv, RowsTyped

LEMMA ResumeStartTypes ==
  ASSUME TypeInv, NEW a \in Requests, ResumeStart(a)
  PROVE  TypeInv'
<1> DEFINE w == at[a]
           x == IF Track(w.p) > 0 THEN [player[w.p] EXCEPT !.state = "playing"] ELSE player[w.p]
<1>1. a \in Actors /\ w \in Works /\ Formed(w) /\ w.pc = "start" /\ w.op = "resume"
  BY Constants, Working DEF ResumeStart, At
<1>2. w.p \in Players /\ w.pos \in Nat /\ w.id \in RowIds
  BY <1>1 DEF Formed, LiveRow
<1>3. x \in Loadeds
  BY <1>2 DEF TypeInv, PlayersTyped, Loadeds
<1>4. PlayersTyped'
  BY <1>2, <1>3, Commanding DEF ResumeStart
<1>5. UNCHANGED <<made, abs, login, todo, muddled>>
  BY DEF ResumeStart
<1>6. RowsTyped'
  <2>1. CASE UNCHANGED row
    BY <1>5, <2>1, Kept
  <2>2. CASE Update(w.id, [row[w.id] EXCEPT !.pos = w.pos])
    <3>1. row[w.id] # NoRow => [row[w.id] EXCEPT !.pos = w.pos] \in LiveRow
      BY <1>2, RowOrNone, Columns
    <3> QED
      BY <1>2, <1>5, <2>2, <3>1, Updating
  <2> QED
    BY <2>1, <2>2 DEF ResumeStart
<1>7. CASE Goto(a, AfterStart(w))
  <2> DEFINE v == [w EXCEPT !.pc = AfterStart(w)]
  <2>1. AfterStart(w) \in {"seek", "done"} /\ (AfterStart(w) = "seek" => w.seek # NoSeek)
    BY DEF AfterStart
  <2>2. v \in Works
    BY <1>1, <2>1 DEF Works, Pcs
  <2>3. Formed(v) /\ v.op = w.op
    BY <1>1, <1>2, <2>1 DEF Works, Formed, Calls
  <2>4. Go(a, v)
    BY <1>1, <1>7, Gotos
  <2> QED
    BY <1>1, <1>4, <1>5, <1>6, <2>2, <2>3, <2>4, StepTypes, Kept
<1>8. CASE Return(a)
  BY <1>1, <1>4, <1>5, <1>6, <1>8, Gotos, StepTypes, Kept
<1> QED
  BY <1>7, <1>8 DEF ResumeStart

LEMMA SeekInTypes ==
  ASSUME TypeInv, NEW a \in Requests, SeekIn(a)
  PROVE  TypeInv'
<1> DEFINE w == at[a]
           can == w.seek <= Track(w.p)
           x == IF can THEN [player[w.p] EXCEPT !.pos = w.seek] ELSE player[w.p]
<1>1. a \in Actors /\ w \in Works /\ Formed(w) /\ w.pc = "seek"
  BY Constants, Working DEF SeekIn
<1>2. w.p \in Players /\ w.pos \in Nat /\ w.seek \in Nat
  BY <1>1 DEF Formed, LiveRow
<1>3. x \in Loadeds
  BY <1>2 DEF TypeInv, PlayersTyped, Loadeds
<1>4. PlayersTyped'
  BY <1>2, <1>3, Commanding DEF SeekIn
<1>5. UNCHANGED <<row, made, abs, login, todo, muddled>>
  BY DEF SeekIn
<1>6. CASE Goto(a, "done")
  <2> DEFINE v == [w EXCEPT !.pc = "done"]
  <2>1. v \in Works
    BY <1>1 DEF Works, Pcs
  <2>2. Formed(v) /\ v.op = w.op
    BY <1>1, <1>2, Callers DEF Works, Formed, Calls
  <2>3. Go(a, v)
    BY <1>1, <1>6, Gotos
  <2> QED
    BY <1>1, <1>4, <1>5, <2>1, <2>2, <2>3, StepTypes, Kept
<1>7. CASE Return(a)
  BY <1>1, <1>4, <1>5, <1>7, Gotos, StepTypes, Kept
<1> QED
  BY <1>6, <1>7 DEF SeekIn

LEMMA GetTransportTypes ==
  ASSUME TypeInv, NEW a \in Requests, GetTransport(a)
  PROVE  TypeInv'
<1> DEFINE w == at[a]
<1>1. a \in Actors /\ w \in Works /\ Formed(w) /\ w.op = "status" /\ w.pc = "transport"
  BY Constants, Working, Callers DEF GetTransport
<1>2. w.r.playing \in BOOLEAN /\ w.pos \in Nat
  BY <1>1 DEF Formed, LiveRow
<1>3. PICK n \in {player[w.p].state = "playing", w.r.playing} :
        Go(a, [w EXCEPT !.pc = "read", !.on = n])
  BY DEF GetTransport
<1>4. n \in BOOLEAN
  BY <1>2, <1>3
<1>5. UNCHANGED <<row, made, player, abs, login, todo, places, muddled>>
  BY DEF GetTransport
<1> DEFINE v == [w EXCEPT !.pc = "read", !.on = n]
<1>6. v \in Works
  BY <1>1, <1>4 DEF Works, Pcs
<1>7. Formed(v) /\ v.op = w.op
  BY <1>1, <1>2 DEF Works, Formed, Calls
<1> QED
  BY <1>1, <1>3, <1>5, <1>6, <1>7, StepTypes, Kept

\* A relative seek is to a position of the book.
LEMMA Clamping ==
  ASSUME NEW b \in Books, NEW g \in Int
  PROVE  Clamp(b, g) \in Nat /\ Clamp(b, g) <= Duration[b]
BY BooksAssumption DEF Clamp

\* What a handler holds once it has asked for the position.
LEMMA ReadPositionGoes ==
  ASSUME TypeInv, NEW a \in Requests, ReadPosition(a)
  PROVE  LET w == at[a]
             b == w.r.book
             l == player[w.p].pos
             g == Global(b, w.r.seg, l)
         IN  /\ w \in Works /\ Formed(w) /\ w.pc = "read" /\ l \in Nat /\ g \in Nat
             /\ UNCHANGED <<made, player, abs, login, todo, places, muddled>>
             /\ \/ UNCHANGED row
                \/ w.op = "status" /\ Update(w.id, [row[w.id] EXCEPT !.playing = w.on])
             /\ \E v : /\ Go(a, v) /\ at'[a] = v
                       /\ \/ v = Idle
                          \/ /\ v \in Works /\ Formed(v) /\ v.op = w.op /\ v.r = w.r /\ v.p = w.p
                             /\ v.id = w.id /\ ~v.loaded
                             /\ \/ w.op = "pause" /\ v.pc = "pause" /\ v.pos = g
                                \/ w.op = "stop" /\ v.pc = "stop" /\ v.pos = l
                                \/ w.op \in {"pause", "stop"} /\ v = [w EXCEPT !.pc = w.op]
                                \/ w.op = "seek" /\ v = SeekPlan(w, Clamp(b, g + w.pos))
                                \/ w.op = "status" /\ v.pc = "done" /\ v.pos = g
                                \/ /\ w.op = "status" /\ v.pc = "load" /\ v.pos = g
                                   /\ Transition(w, l) /\ v.seg = w.r.seg + 1
<1> DEFINE w == at[a]
           b == w.r.book
           l == player[w.p].pos
           g == Global(b, w.r.seg, l)
<1>1. a \in Actors /\ w \in Works /\ Formed(w) /\ w.pc = "read"
      /\ w.op \in {"seek", "status", "pause", "stop"}
  BY Constants, Working, Callers DEF ReadPosition
<1>2. /\ w.r \in LiveRow /\ w.r.seg \in Nat /\ b \in Books /\ w.p \in Players /\ w.p = w.r.p
      /\ w.id \in RowIds /\ ~w.loaded /\ (w.op # "seek" => w.pos \in Nat) /\ w.pos \in Int
  BY <1>1 DEF Formed, LiveRow, Works
<1>3. l \in Nat
  BY <1>2 DEF TypeInv, PlayersTyped, Loadeds
<1>4. g \in Nat
  BY <1>2, <1>3, Numbers
<1>5. /\ UNCHANGED <<made, player, abs, login, todo, places, muddled>>
      /\ \/ UNCHANGED row
         \/ w.op = "status" /\ Update(w.id, [row[w.id] EXCEPT !.playing = w.on])
  BY DEF ReadPosition
<1>6. \/ w.op = "pause" /\ Go(a, [w EXCEPT !.pc = "pause", !.pos = g, !.read = TRUE])
      \/ w.op = "stop" /\ Go(a, [w EXCEPT !.pc = "stop", !.pos = l, !.read = TRUE])
      \/ w.op = "seek" /\ Go(a, SeekPlan(w, Clamp(b, g + w.pos)))
      \/ /\ w.op = "status" /\ Transition(w, l)
         /\ Go(a, [w EXCEPT !.pc = "load", !.pos = g, !.read = TRUE, !.seg = w.r.seg + 1])
      \/ w.op = "status" /\ Go(a, [w EXCEPT !.pc = "done", !.pos = g, !.read = TRUE])
      \/ w.op \in {"pause", "stop"} /\ Goto(a, w.op)
      \/ Return(a)
  BY DEF ReadPosition, Reported
<1>7. at \in [Actors -> Works]
  BY DEF TypeInv, WorkTyped
<1>8. \A v : Go(a, v) => at'[a] = v
  BY <1>1, <1>7 DEF Go
<1>9. Clamp(b, g + w.pos) \in Nat
  BY <1>2, <1>4, Clamping
<1> DEFINE Fine(v) == v \in Works /\ Formed(v) /\ v.op = w.op /\ v.r = w.r /\ v.p = w.p
                      /\ v.id = w.id /\ ~v.loaded
<1>10. CASE w.op = "pause" /\ Go(a, [w EXCEPT !.pc = "pause", !.pos = g, !.read = TRUE])
  <2> DEFINE v == [w EXCEPT !.pc = "pause", !.pos = g, !.read = TRUE]
  <2>1. Fine(v) /\ v.pc = "pause" /\ v.pos = g
    <3>0. g \in Int /\ "pause" \in Pcs
      BY <1>4 DEF Pcs
    <3> HIDE DEF g, w
    <3>1. v \in Works
      BY <1>1, <1>4, <3>0 DEF Works
    <3> QED
      BY <1>1, <1>2, <1>4, <1>10, <3>1 DEF Works, Formed, Calls
  <2> QED
    BY <1>1, <1>2, <1>3, <1>4, <1>5, <1>8, <1>10, <2>1
<1>11. CASE w.op = "stop" /\ Go(a, [w EXCEPT !.pc = "stop", !.pos = l, !.read = TRUE])
  <2> DEFINE v == [w EXCEPT !.pc = "stop", !.pos = l, !.read = TRUE]
  <2>1. Fine(v) /\ v.pc = "stop" /\ v.pos = l
    <3>0. l \in Int /\ "stop" \in Pcs
      BY <1>3 DEF Pcs
    <3> HIDE DEF l, w
    <3>1. v \in Works
      BY <1>1, <1>3, <3>0 DEF Works
    <3> QED
      BY <1>1, <1>2, <1>3, <1>11, <3>1 DEF Works, Formed, Calls
  <2> QED
    BY <1>1, <1>2, <1>3, <1>4, <1>5, <1>8, <1>11, <2>1
<1>12. CASE w.op = "seek" /\ Go(a, SeekPlan(w, Clamp(b, g + w.pos)))
  <2>1. Fine(SeekPlan(w, Clamp(b, g + w.pos)))
    BY <1>1, <1>2, <1>9, <1>12, Planning
  <2> QED
    BY <1>1, <1>2, <1>3, <1>4, <1>5, <1>8, <1>12, <2>1
<1>13. CASE w.op = "status" /\ Transition(w, l)
            /\ Go(a, [w EXCEPT !.pc = "load", !.pos = g, !.read = TRUE, !.seg = w.r.seg + 1])
  <2> DEFINE k == w.r.seg + 1
             v == [w EXCEPT !.pc = "load", !.pos = g, !.read = TRUE, !.seg = k]
  <2>0. k \in Nat
    BY <1>2
  <2>1. Fine(v) /\ v.pc = "load" /\ v.pos = g /\ v.seg = k
    <3>0. g \in Int /\ "load" \in Pcs
      BY <1>4 DEF Pcs
    <3> HIDE DEF g, w, k
    <3>1. v \in Works
      BY <1>1, <1>4, <2>0, <3>0 DEF Works
    <3> QED
      BY <1>1, <1>2, <1>4, <1>13, <3>1 DEF Works, Formed, Calls
  <2> QED
    BY <1>1, <1>2, <1>3, <1>4, <1>5, <1>8, <1>13, <2>1
<1>14. CASE w.op = "status" /\ Go(a, [w EXCEPT !.pc = "done", !.pos = g, !.read = TRUE])
  <2> DEFINE v == [w EXCEPT !.pc = "done", !.pos = g, !.read = TRUE]
  <2>1. Fine(v) /\ v.pc = "done" /\ v.pos = g
    <3>0. g \in Int /\ "done" \in Pcs
      BY <1>4 DEF Pcs
    <3> HIDE DEF g, w
    <3>1. v \in Works
      BY <1>1, <1>4, <3>0 DEF Works
    <3> QED
      BY <1>1, <1>2, <1>4, <1>14, <3>1 DEF Works, Formed, Calls
  <2> QED
    BY <1>1, <1>2, <1>3, <1>4, <1>5, <1>8, <1>14, <2>1
<1>15. CASE w.op \in {"pause", "stop"} /\ Goto(a, w.op)
  <2> DEFINE v == [w EXCEPT !.pc = w.op]
  <2>1. Fine(v)
    <3> HIDE DEF w
    <3>1. v \in Works
      BY <1>1, <1>15 DEF Works, Pcs
    <3> QED
      BY <1>1, <1>2, <1>15, <3>1 DEF Works, Formed, Calls
  <2>2. Go(a, v)
    BY <1>1, <1>15, Gotos
  <2> QED
    BY <1>1, <1>2, <1>3, <1>4, <1>5, <1>8, <1>15, <2>1, <2>2
<1>16. CASE Return(a)
  <2>1. Go(a, Idle)
    BY <1>1, <1>16, Gotos
  <2> QED
    BY <1>1, <1>3, <1>4, <1>5, <1>8, <2>1
<1> QED
  BY <1>6, <1>10, <1>11, <1>12, <1>13, <1>14, <1>15, <1>16

LEMMA ReadPositionTypes ==
  ASSUME TypeInv, NEW a \in Requests, ReadPosition(a)
  PROVE  TypeInv'
<1> DEFINE w == at[a]
<1>1. a \in Actors /\ w \in Works /\ Formed(w) /\ w.pc = "read"
  BY Constants, ReadPositionGoes
<1>2. PICK v : Go(a, v) /\ (v = Idle \/ (v \in Works /\ Formed(v) /\ v.op = w.op))
  BY ReadPositionGoes
<1>3. UNCHANGED <<made, player, abs, login, todo, places, muddled>>
  BY ReadPositionGoes
<1>4. RowsTyped'
  <2>1. CASE UNCHANGED row
    BY <1>3, <2>1, Kept
  <2>2. CASE w.op = "status" /\ Update(w.id, [row[w.id] EXCEPT !.playing = w.on])
    <3>1. w.id \in RowIds /\ w.on \in BOOLEAN
      BY <1>1, <2>2 DEF Formed, Works
    <3>2. row[w.id] # NoRow => [row[w.id] EXCEPT !.playing = w.on] \in LiveRow
      BY <3>1, RowOrNone, Columns
    <3> QED
      BY <1>3, <2>2, <3>1, <3>2, Updating
  <2> QED
    BY <2>1, <2>2, ReadPositionGoes
<1> QED
  BY <1>1, <1>2, <1>3, <1>4, StepTypes, Kept

LEMMA PauseTypes ==
  ASSUME TypeInv, NEW a \in Actors, Pause(a)
  PROVE  TypeInv'
<1> DEFINE w == at[a]
           x == Paused(player[w.p])
<1>1. w \in Works /\ Formed(w) /\ w.pc = "pause" /\ w.op \in {"pause", "sleep"}
  BY Working, Callers DEF Pause
<1>2. w.p \in Players /\ w.pos \in Nat /\ w.id \in RowIds
  BY <1>1 DEF Formed, LiveRow
<1>3. x \in Loadeds
  BY <1>2 DEF TypeInv, PlayersTyped, Loadeds, Paused
<1>4. PlayersTyped'
  BY <1>2, <1>3, Commanding DEF Pause
<1>5. UNCHANGED <<made, abs, login, todo, muddled>>
  BY DEF Pause
<1>6. RowsTyped'
  <2>1. CASE UNCHANGED row
    BY <1>5, <2>1, Kept
  <2>2. CASE Update(w.id, [row[w.id] EXCEPT !.pos = w.pos])
    <3>1. row[w.id] # NoRow => [row[w.id] EXCEPT !.pos = w.pos] \in LiveRow
      BY <1>2, RowOrNone, Columns
    <3> QED
      BY <1>2, <1>5, <2>2, <3>1, Updating
  <2> QED
    BY <2>1, <2>2 DEF Pause
<1>7. CASE Goto(a, "save")
  <2> DEFINE v == [w EXCEPT !.pc = "save"]
  <2>1. v \in Works
    BY <1>1 DEF Works, Pcs
  <2>2. Formed(v) /\ v.op = w.op
    BY <1>1, <1>2 DEF Works, Formed, Calls
  <2>3. Go(a, v)
    BY <1>7, Gotos
  <2> QED
    BY <1>1, <1>4, <1>5, <1>6, <2>1, <2>2, <2>3, StepTypes, Kept
<1>8. CASE Return(a)
  BY <1>1, <1>4, <1>5, <1>6, <1>8, Gotos, StepTypes, Kept
<1> QED
  BY <1>7, <1>8 DEF Pause

LEMMA SavePauseTypes ==
  ASSUME TypeInv, NEW a \in Actors, SavePause(a)
  PROVE  TypeInv'
<1> DEFINE w == at[a]
<1>1. w \in Works /\ Formed(w) /\ w.pc = "save" /\ w.op \in {"pause", "sleep"}
  BY Working DEF SavePause
<1>2. w.pos \in Nat /\ w.id \in RowIds
  BY <1>1 DEF Formed
<1>3. UNCHANGED <<made, player, login, todo, places, muddled>>
  BY DEF SavePause
<1>4. RowsTyped'
  <2>1. row[w.id] # NoRow => [row[w.id] EXCEPT !.playing = FALSE] \in LiveRow
    BY <1>2, RowOrNone, Columns
  <2> QED
    BY <1>2, <1>3, <2>1, Updating DEF SavePause
<1>5. RestTyped'
  <2>1. abs' \in [Books -> Nat]
    BY <1>2, Saving DEF SavePause, TypeInv, RestTyped
  <2> QED
    BY <1>3, <2>1 DEF TypeInv, RestTyped
<1>6. CASE w.op = "pause"
  <2>1. Return(a)
    BY <1>6 DEF SavePause
  <2> QED
    BY <1>1, <1>3, <1>4, <1>5, <2>1, Gotos, StepTypes, Kept
<1>7. CASE w.op = "sleep"
  <2> DEFINE v == [w EXCEPT !.pc = "clear"]
  <2>1. v \in Works
    BY <1>1 DEF Works, Pcs
  <2>2. Formed(v) /\ v.op = w.op
    BY <1>1, <1>2, <1>7 DEF Works, Formed, Calls
  <2>3. Go(a, v)
    BY <1>7, Gotos DEF SavePause
  <2> QED
    BY <1>1, <1>3, <1>4, <1>5, <2>1, <2>2, <2>3, StepTypes, Kept
<1> QED
  BY <1>1, <1>6, <1>7

LEMMA StopTypes ==
  ASSUME TypeInv, NEW a \in Requests, StopPlayer(a) \/ StopOther(a) \/ SaveStop(a)
  PROVE  TypeInv'
<1> DEFINE w == at[a]
<1>1. a \in Actors /\ w \in Works /\ Formed(w) /\ w.op = "stop" /\ w.pc \in {"stop", "other", "save"}
  BY Constants, Working, Callers DEF StopPlayer, StopOther, SaveStop, At
<1>2. w.pos \in Nat /\ w.id \in RowIds /\ w.p \in Players /\ w.q \in Players \cup {NoPlayer}
      /\ (w.pc = "other" => w.q \in Players)
  BY <1>1 DEF Formed, LiveRow, Works
<1>3. UNCHANGED <<made, login, todo, muddled>>
  BY DEF StopPlayer, StopOther, SaveStop
<1>4. PlayersTyped'
  <2>1. \A p \in Players : Stopped(player[p]) \in Loadeds
    BY DEF TypeInv, PlayersTyped, Loadeds, Stopped
  <2>2. CASE StopPlayer(a)
    BY <1>2, <2>1, <2>2, Commanding DEF StopPlayer
  <2>3. CASE StopOther(a)
    BY <1>2, <2>1, <2>3, Commanding DEF StopOther
  <2>4. CASE SaveStop(a)
    BY <2>4, Kept DEF SaveStop
  <2> QED
    BY <2>2, <2>3, <2>4
<1>5. RowsTyped'
  <2>1. CASE UNCHANGED row
    BY <1>3, <2>1, Kept
  <2>2. CASE Update(w.id, [row[w.id] EXCEPT !.pos = w.pos])
    <3>1. row[w.id] # NoRow => [row[w.id] EXCEPT !.pos = w.pos] \in LiveRow
      BY <1>2, RowOrNone, Columns
    <3> QED
      BY <1>2, <1>3, <2>2, <3>1, Updating
  <2> QED
    BY <2>1, <2>2 DEF StopPlayer, StopOther, SaveStop
<1>6. RestTyped'
  <2>1. abs' \in [Books -> Nat]
    BY <1>2, Saving DEF StopPlayer, StopOther, SaveStop, TypeInv, RestTyped
  <2> QED
    BY <1>3, <2>1 DEF TypeInv, RestTyped
<1>7. PICK pc \in {"other", "save", "delete"} : Goto(a, pc) /\ (pc = "other" => w.q \in Players)
  BY <1>2 DEF StopPlayer, StopOther, SaveStop
<1> DEFINE v == [w EXCEPT !.pc = pc]
<1>8. v \in Works
  BY <1>1, <1>7 DEF Works, Pcs
<1>9. Formed(v) /\ v.op = w.op
  BY <1>1, <1>2, <1>7 DEF Works, Formed, Calls
<1>10. Go(a, v)
  BY <1>1, <1>7, Gotos
<1> QED
  BY <1>1, <1>3, <1>4, <1>5, <1>6, <1>8, <1>9, <1>10, StepTypes, Kept

LEMMA DeleteRowTypes ==
  ASSUME TypeInv, NEW a \in Requests, DeleteRow(a)
  PROVE  TypeInv'
<1> DEFINE w == at[a]
<1>1. a \in Actors /\ w \in Works /\ Formed(w) /\ w.op = "stop" /\ w.pc = "delete"
  BY Constants, Working, Callers DEF DeleteRow
<1>2. UNCHANGED <<made, player, abs, login, todo, places, muddled>>
  BY DEF DeleteRow
<1>3. RowsTyped'
  <2>1. row' \in [RowIds -> LiveRow \cup {NoRow}] /\ Live' \subseteq Live
    BY DEF TypeInv, RowsTyped, DeleteRow, Live
  <2> QED
    BY <1>2, <2>1 DEF TypeInv, RowsTyped
<1>4. Return(a)
  BY DEF DeleteRow
<1> QED
  BY <1>1, <1>2, <1>3, <1>4, Gotos, StepTypes, Kept

LEMMA CreateRowTypes ==
  ASSUME TypeInv, NEW a \in Requests, CreateRow(a)
  PROVE  TypeInv'
<1> DEFINE w == at[a]
           new == [w.r EXCEPT !.pos = w.pos, !.seg = w.seg]
           cleared == [id \in RowIds |->
                         IF id \in Latest(w.r.s) /\ row[id].book # w.r.book
                         THEN [row[id] EXCEPT !.timer = "off"] ELSE row[id]]
<1>1. a \in Actors /\ w \in Works /\ Formed(w) /\ w.op = "play" /\ w.pc = "done"
  BY Constants, Working DEF CreateRow, At
<1>2. w.r \in LiveRow /\ w.pos \in Nat /\ w.seg \in Nat
  BY <1>1 DEF Formed, Works
<1>3. new \in LiveRow
  BY <1>2 DEF LiveRow
<1>4. cleared \in [RowIds -> LiveRow \cup {NoRow}] /\ \A id \in RowIds : cleared[id] # NoRow => id \in Live
  <2>1. \A id \in RowIds : id \in Latest(w.r.s) => row[id] \in LiveRow /\ id \in Live
    BY Reading
  <2>2. \A id \in RowIds : id \in Latest(w.r.s) => [row[id] EXCEPT !.timer = "off"] \in LiveRow
    BY <2>1, Columns DEF Timers
  <2> QED
    BY <2>1, <2>2 DEF TypeInv, RowsTyped, Live
<1>5. UNCHANGED <<player, abs, login, todo, places, muddled>>
  BY DEF CreateRow
<1>6. a \in Plays /\ IsFiniteSet(Plays) /\ made + Cardinality(Plays) <= MaxRows /\ made \in Nat
  BY <1>1 DEF Plays, TypeInv, WorkTyped, RowsTyped
<1>7. /\ at' = [at EXCEPT ![a] = Idle] /\ at \in [Actors -> Works] /\ at' \in [Actors -> Works]
      /\ \A x \in Actors : Sane(x, at'[x])
  BY <1>1, Constants, Gotos DEF CreateRow, Return, TypeInv, WorkTyped
<1>8. Plays' = Plays \ {a}
  BY <1>1, <1>7, Constants DEF Plays, Idle
<1>9. /\ IsFiniteSet(Plays') /\ Cardinality(Plays') = Cardinality(Plays) - 1
      /\ Cardinality(Plays) \in Nat /\ Cardinality(Plays') \in Nat
  BY <1>6, <1>8, FS_RemoveElement, FS_CardinalityType
<1>10. made' \in {made, made + 1}
  BY DEF CreateRow
<1>11. made' + Cardinality(Plays') <= MaxRows /\ made' \in 0 .. MaxRows
  BY <1>6, <1>9, <1>10, Constants
<1>12. WorkTyped'
  BY <1>7, <1>9, <1>11 DEF WorkTyped, Sane, Formed
<1>13. RowsTyped'
  <2>1. CASE row' = [cleared EXCEPT ![made + 1] = new] /\ made' = made + 1
    <3>1. made + 1 \in RowIds
      BY <1>6, <1>11, <2>1, Constants DEF RowIds
    <3>2. row' \in [RowIds -> LiveRow \cup {NoRow}]
      BY <1>3, <1>4, <2>1
    <3>3. Live' \subseteq Live \cup {made + 1}
      BY <1>4, <2>1, <3>1 DEF Live
    <3>4. \A id \in Live' : id <= made'
      BY <1>6, <2>1, <3>3, Constants DEF TypeInv, RowsTyped, Live
    <3> QED
      BY <1>11, <3>2, <3>4 DEF RowsTyped
  <2>2. CASE UNCHANGED <<row, made>>
    BY <2>2, Kept
  <2> QED
    BY <2>1, <2>2 DEF CreateRow
<1> QED
  BY <1>5, <1>12, <1>13, Kept DEF TypeInv

LEMMA WriteRowTypes ==
  ASSUME TypeInv, NEW a \in Requests, WriteRow(a)
  PROVE  TypeInv'
<1> DEFINE w == at[a]
<1>1. a \in Actors /\ w \in Works /\ Formed(w) /\ w.pc = "done" /\ w.op # "play"
  BY Constants, Working DEF WriteRow
<1>2. w.id \in RowIds /\ w.pos \in Nat /\ w.seg \in Nat /\ (w.op = "switch" => w.q \in Players)
  BY <1>1 DEF Formed, Works
<1>3. UNCHANGED <<made, player, abs, login, todo, places, muddled>>
  BY DEF WriteRow
<1>4. RowsTyped'
  <2>1. ASSUME NEW r \in LiveRow PROVE Written(w, r) \in LiveRow
    <3>1. CASE w.op = "switch"
      BY <1>2, <3>1 DEF Written, LiveRow
    <3>2. CASE w.op = "resume"
      BY <3>2 DEF Written, LiveRow
    <3>3. CASE w.op \notin {"switch", "resume"}
      <4>1. Written(w, r) = [r EXCEPT !.pos = w.pos, !.seg = IF w.loaded THEN w.seg ELSE @]
        BY <3>3 DEF Written
      <4> QED
        BY <1>2, <4>1 DEF LiveRow
    <3> QED
      BY <3>1, <3>2, <3>3
  <2>2. row[w.id] # NoRow => Written(w, row[w.id]) \in LiveRow
    BY <1>2, <2>1, RowOrNone
  <2> QED
    BY <1>2, <1>3, <2>2, Updating DEF WriteRow
<1>5. Return(a)
  BY DEF WriteRow
<1> QED
  BY <1>1, <1>3, <1>4, <1>5, Gotos, StepTypes, Kept

-----------------------------------------------------------------------------
(* Background goroutines and the world. *)

LEMMA ListTypes ==
  ASSUME TypeInv, NEW a \in Services, NEW ids \in SUBSET Live, List(a, ids)
  PROVE  TypeInv'
<1>1. Listed(ids) \subseteq [id : RowIds, r : LiveRow]
  BY DEF Listed, TypeInv, RowsTyped, Live
<1>2. TodoTyped'
  BY <1>1 DEF List, TypeInv, TodoTyped
<1>3. UNCHANGED <<row, made, player, abs, login, at, places, muddled>>
  BY DEF List
<1>4. WorkTyped'
  BY <1>3 DEF TypeInv, WorkTyped, Plays, Sane, Formed
<1> QED
  BY <1>2, <1>3, <1>4, Kept DEF TypeInv

\* What is taken from a list was a row.
LEMMA Taking ==
  ASSUME TypeInv, NEW a \in Services, NEW x, Take(a, x)
  PROVE  /\ a \in Actors /\ at[a] = Idle /\ x \in todo[a]
         /\ x.id \in RowIds /\ x.r \in LiveRow /\ x.r.p \in Players /\ x.r.pos \in Nat
         /\ x.r.seg \in Nat /\ x.r.book \in Books
         /\ TodoTyped' /\ \A s \in Services : todo'[s] \subseteq todo[s]
<1>1. a \in Actors /\ at[a] = Idle /\ x \in todo[a]
  BY DEF Take, Actors
<1>2. x.id \in RowIds /\ x.r \in LiveRow
  BY <1>1 DEF TypeInv, TodoTyped
<1>3. TodoTyped' /\ \A s \in Services : todo'[s] \subseteq todo[s]
  BY DEF Take, TypeInv, TodoTyped
<1> QED
  BY <1>1, <1>2, <1>3 DEF LiveRow

LEMMA PollTypes ==
  ASSUME TypeInv, NEW x, Poll(x)
  PROVE  TypeInv'
<1> DEFINE a == "poller"
           p == x.r.p
           ended == Track(p) > 0 /\ player[p].pos >= Track(p) - EndMargin
           pos == player[p].pos
           r == x.r
           id == x.id
           v == [Idle EXCEPT !.op = "poll", !.pc = "write", !.id = id, !.r = r,
                             !.p = p, !.pos = pos, !.on = ended]
<1>1. Take(a, x) /\ a \in Services
  BY DEF Poll, Services
<1>2. UNCHANGED <<row, made, player, abs, login, places, muddled>>
  BY DEF Poll
<1>3. /\ a \in Actors /\ id \in RowIds /\ r \in LiveRow /\ p \in Players /\ r.p = p /\ TodoTyped'
  BY <1>1, Taking
<1>4. CASE UNCHANGED at
  <2>1. WorkTyped'
    BY <1>2, <1>4 DEF TypeInv, WorkTyped, Plays, Sane, Formed
  <2> QED
    BY <1>2, <1>3, <2>1, Kept DEF TypeInv
<1>5. CASE Go(a, v)
  <2>1. pos \in Nat /\ pos \in Int /\ id \in 0 .. MaxRows /\ ended \in BOOLEAN /\ r \in Rows
    BY <1>3, BooksAssumption DEF TypeInv, PlayersTyped, Loadeds, RowIds, LiveRow, Rows
  <2>2. Idle \in Works /\ "write" \in Pcs
    BY Constants DEF Pcs
  <2> HIDE DEF pos, ended, r, id, p
  <2>3. v \in Works
    BY <1>3, <2>1, <2>2 DEF Works
  <2>4. Formed(v) /\ v.op = "poll"
    BY <1>3, <2>1 DEF Formed, Calls, Idle
  <2> HIDE DEF v
  <2>5. Sane(a, v)
    BY <2>3, <2>4, Constants DEF Sane, Handlers
  <2>6. WorkTyped'
    BY <1>2, <1>3, <1>5, <2>4, <2>5, Going
  <2> QED
    BY <1>2, <1>3, <2>6, Kept DEF TypeInv
<1> QED
  BY <1>4, <1>5 DEF Poll

LEMMA SleepTypes ==
  ASSUME TypeInv, NEW x, Sleep(x)
  PROVE  TypeInv'
<1> DEFINE a == "sleeper"
           w == [Holding("sleep", "pause", x.id) EXCEPT
                   !.r = x.r, !.p = x.r.p, !.seg = x.r.seg, !.pos = x.r.pos]
           u == [w EXCEPT !.pos = player[x.r.p].pos, !.read = TRUE]
<1>1. Take(a, x) /\ a \in Services
  BY DEF Sleep, Services
<1>2. UNCHANGED <<row, made, player, abs, login, places, muddled>>
  BY DEF Sleep
<1>3. /\ a \in Actors /\ x.id \in RowIds /\ x.r \in LiveRow /\ x.r.p \in Players /\ TodoTyped'
      /\ x.r.pos \in Nat /\ x.r.seg \in Nat
  BY <1>1, Taking
<1>4. w = [Idle EXCEPT !.op = "sleep", !.pc = "pause", !.id = x.id, !.r = x.r,
                       !.p = x.r.p, !.seg = x.r.seg, !.pos = x.r.pos]
  BY DEF Holding, Idle
<1>5. player[x.r.p].pos \in Nat
  BY <1>3 DEF TypeInv, PlayersTyped, Loadeds
<1>6. \A v \in {w, u} : v \in Works /\ Formed(v) /\ v.op = "sleep"
  <2> DEFINE r == x.r
             id == x.id
             p == x.r.p
             seg == x.r.seg
             pos == x.r.pos
             l == player[x.r.p].pos
             w0 == [Idle EXCEPT !.op = "sleep", !.pc = "pause", !.id = id, !.r = r,
                                !.p = p, !.seg = seg, !.pos = pos]
  <2>1. r \in LiveRow /\ r \in Rows /\ id \in RowIds /\ id \in 0 .. MaxRows /\ p \in Players
        /\ seg \in Nat /\ pos \in Nat /\ pos \in Int /\ l \in Nat /\ l \in Int /\ p = r.p
    BY <1>3, <1>5, BooksAssumption DEF RowIds, LiveRow, Rows
  <2>2. Idle \in Works /\ "pause" \in Pcs
    BY Constants DEF Pcs
  <2>3. w = w0 /\ u = [w0 EXCEPT !.pos = l, !.read = TRUE]
    BY <1>4
  <2> HIDE DEF r, id, p, seg, pos, l, w, u
  <2>4. w0 \in Works
    BY <2>1, <2>2 DEF Works
  <2>5. Formed(w0) /\ w0.op = "sleep"
    BY <2>1 DEF Formed, Calls, Idle
  <2> HIDE DEF w0
  <2>6. [w0 EXCEPT !.pos = l, !.read = TRUE] \in Works
    BY <2>1, <2>4 DEF Works
  <2>7. Formed([w0 EXCEPT !.pos = l, !.read = TRUE])
    BY <2>1, <2>4, <2>5 DEF Formed, Calls, Works
  <2>8. [w0 EXCEPT !.pos = l, !.read = TRUE].op = "sleep"
    BY <2>4, <2>5 DEF Works
  <2> QED
    BY <2>3, <2>4, <2>5, <2>6, <2>7, <2>8
<1>7. PICK v \in {w, u} : Go(a, v)
  BY DEF Sleep
<1> HIDE DEF w, u
<1>8. Sane(a, v) /\ v.op = "sleep"
  BY <1>6, Constants DEF Sane, Handlers
<1>9. WorkTyped'
  BY <1>2, <1>3, <1>7, <1>8, Going
<1> QED
  BY <1>2, <1>3, <1>9, Kept DEF TypeInv

LEMMA PollWriteTypes ==
  ASSUME TypeInv, PollWrite
  PROVE  TypeInv'
<1> DEFINE w == at["poller"]
<1>1. "poller" \in Actors /\ w \in Works /\ Formed(w) /\ w.op = "poll" /\ w.pc = "write"
  BY Constants, Working, Callers DEF PollWrite
<1>2. w.id \in RowIds /\ w.pos \in Nat
  BY <1>1 DEF Formed
<1>3. UNCHANGED <<made, player, abs, login, todo, places, muddled>>
  BY DEF PollWrite
<1>4. RowsTyped'
  <2>1. row[w.id] # NoRow => /\ [row[w.id] EXCEPT !.playing = FALSE] \in LiveRow
                             /\ [row[w.id] EXCEPT !.pos = w.pos] \in LiveRow
    BY <1>2, RowOrNone, Columns
  <2>2. CASE Update(w.id, [row[w.id] EXCEPT !.playing = FALSE])
    BY <1>2, <1>3, <2>1, <2>2, Updating
  <2>3. CASE Update(w.id, [row[w.id] EXCEPT !.pos = w.pos])
    BY <1>2, <1>3, <2>1, <2>3, Updating
  <2>4. CASE UNCHANGED row
    BY <1>3, <2>4, Kept
  <2> QED
    BY <2>2, <2>3, <2>4 DEF PollWrite
<1>5. Return("poller")
  BY DEF PollWrite
<1> QED
  BY <1>1, <1>3, <1>4, <1>5, Gotos, StepTypes, Kept

LEMMA SleepClearTypes ==
  ASSUME TypeInv, SleepClear
  PROVE  TypeInv'
<1> DEFINE w == at["sleeper"]
<1>1. "sleeper" \in Actors /\ w \in Works /\ Formed(w) /\ w.op = "sleep" /\ w.pc = "clear"
  BY Constants, Working, Callers DEF SleepClear
<1>2. w.id \in RowIds
  BY <1>1 DEF Formed
<1>3. UNCHANGED <<made, player, abs, login, todo, places, muddled>>
  BY DEF SleepClear
<1>4. RowsTyped'
  <2>1. row[w.id] # NoRow => [row[w.id] EXCEPT !.timer = "off"] \in LiveRow
    BY <1>2, RowOrNone, Columns DEF Timers
  <2> QED
    BY <1>2, <1>3, <2>1, Updating DEF SleepClear
<1>5. Return("sleeper")
  BY DEF SleepClear
<1> QED
  BY <1>1, <1>3, <1>4, <1>5, Gotos, StepTypes, Kept

LEMMA SyncTypes ==
  ASSUME TypeInv, NEW x, Sync(x)
  PROVE  TypeInv'
<1>1. Take("syncer", x) /\ "syncer" \in Services
  BY DEF Sync, Services
<1>2. x.r.pos \in Nat /\ TodoTyped'
  BY <1>1, Taking
<1>3. UNCHANGED <<row, made, player, login, at, places, muddled>>
  BY DEF Sync
<1>4. RestTyped'
  <2>1. abs' \in [Books -> Nat]
    BY <1>2, Saving DEF Sync, TypeInv, RestTyped
  <2> QED
    BY <1>3, <2>1 DEF TypeInv, RestTyped
<1>5. WorkTyped'
  BY <1>3 DEF TypeInv, WorkTyped, Plays, Sane, Formed
<1> QED
  BY <1>2, <1>3, <1>4, <1>5, Kept DEF TypeInv

LEMMA ServiceTypes ==
  ASSUME TypeInv, Poller \/ Syncer \/ Sleeper
  PROVE  TypeInv'
<1>1. {"poller", "syncer", "sleeper"} \subseteq Services /\ "sleeper" \in Actors
  BY Constants DEF Services
<1>2. CASE PollList \/ SyncList \/ SleepList
  BY <1>1, <1>2, ListTypes DEF PollList, SyncList, SleepList
<1>3. CASE PollWrite \/ \E x \in todo["poller"] : Poll(x)
  BY <1>3, PollWriteTypes, PollTypes
<1>4. CASE \E x \in todo["syncer"] : Sync(x)
  BY <1>4, SyncTypes
<1>5. CASE SleepClear \/ Pause("sleeper") \/ SavePause("sleeper")
           \/ \E x \in todo["sleeper"] : Sleep(x)
  BY <1>1, <1>5, SleepClearTypes, PauseTypes, SavePauseTypes, SleepTypes
<1> QED
  BY <1>2, <1>3, <1>4, <1>5 DEF Poller, Syncer, Sleeper

LEMMA TickTypes ==
  ASSUME TypeInv, NEW p \in Players, Tick(p) \/ ByHand(p)
  PROVE  TypeInv'
<1>1. player \in [Players -> Loadeds]
  BY DEF TypeInv, PlayersTyped
<1>2. PlayersTyped'
  <2>1. CASE Tick(p)
    <3>1. player' \in [Players -> Loadeds]
      BY <1>1, <2>1 DEF Tick, Loadeds
    <3> QED
      BY <2>1, <3>1, Witnessing DEF Tick
  <2>2. CASE ByHand(p)
    BY <1>1, <2>2 DEF ByHand, Loadeds, TypeInv, PlayersTyped
  <2> QED
    BY <2>1, <2>2
<1>3. UNCHANGED <<row, made, abs, login, at, todo, muddled>>
  BY DEF Tick, ByHand
<1>4. WorkTyped'
  BY <1>3 DEF TypeInv, WorkTyped, Plays, Sane, Formed
<1> QED
  BY <1>2, <1>3, <1>4, Kept DEF TypeInv

LEMMA EventTypes ==
  ASSUME TypeInv,
         \/ \E b \in Books, g \in Positions : Elsewhere(b, g)
         \/ \E s \in Sessions : Logout(s) \/ Login(s) \/ \E t \in {"set", "off"} : SetTimer(s, t)
         \/ \E id \in RowIds : TimerExpires(id)
  PROVE  TypeInv'
<1>1. UNCHANGED <<made, player, at, todo, muddled>>
  BY DEF Elsewhere, Logout, Login, SetTimer, TimerExpires
<1>2. WorkTyped'
  BY <1>1 DEF TypeInv, WorkTyped, Plays, Sane, Formed
<1>3. RestTyped'
  BY <1>1, BooksAssumption DEF Elsewhere, Logout, Login, SetTimer, TimerExpires, TypeInv, RestTyped
<1>4. PlayersTyped'
  BY <1>1, BooksAssumption
     DEF Elsewhere, Logout, Login, SetTimer, TimerExpires, TypeInv, PlayersTyped
<1>5. RowsTyped'
  <2>1. row' \in [RowIds -> LiveRow \cup {NoRow}] /\ Live' \subseteq Live
    <3>1. \A id \in RowIds, t \in Timers : row[id] \in LiveRow => [row[id] EXCEPT !.timer = t] \in LiveRow
      BY Columns
    <3>2. ASSUME NEW s \in Sessions, NEW t \in {"set", "off"}, SetTimer(s, t)
          PROVE  row' \in [RowIds -> LiveRow \cup {NoRow}] /\ Live' \subseteq Live
      <4>1. PICK id \in Latest(s) : row' = [row EXCEPT ![id].timer = t]
        BY <3>2 DEF SetTimer
      <4>2. id \in RowIds /\ row[id] \in LiveRow /\ id \in Live
        BY Reading
      <4> QED
        BY <3>1, <4>1, <4>2 DEF TypeInv, RowsTyped, Live, Timers
    <3>3. ASSUME NEW id \in RowIds, TimerExpires(id)
          PROVE  row' \in [RowIds -> LiveRow \cup {NoRow}] /\ Live' \subseteq Live
      <4>1. row[id] # NoRow
        BY <3>3 DEF TimerExpires, NoRow
      <4> QED
        BY <3>1, <3>3, <4>1 DEF TimerExpires, TypeInv, RowsTyped, Live, Timers
    <3>4. CASE \E s \in Sessions : Logout(s)
      BY <3>4 DEF Logout, TypeInv, RowsTyped, Live
    <3>5. CASE UNCHANGED row
      BY <3>5 DEF TypeInv, RowsTyped, Live
    <3> QED
      BY <3>2, <3>3, <3>4, <3>5 DEF Elsewhere, Login
  <2> QED
    BY <1>1, <2>1 DEF TypeInv, RowsTyped
<1>6. TodoTyped'
  BY <1>1, Kept
<1> QED
  BY <1>2, <1>3, <1>4, <1>5, <1>6 DEF TypeInv

LEMMA RestartTypes ==
  ASSUME TypeInv, Restart
  PROVE  TypeInv'
<1>1. PICK old \in SUBSET Live, unused \in SUBSET login :
        /\ row' = [id \in RowIds |-> IF id \in old \/ row[id].s \in unused THEN NoRow
                                     ELSE [row[id] EXCEPT !.playing = FALSE]]
        /\ login' = login \ unused
  BY DEF Restart
<1>2. UNCHANGED <<made, player, abs, places>>
  BY DEF Restart
<1>3. RowsTyped'
  <2>1. \A id \in RowIds : row[id] = NoRow => [row[id] EXCEPT !.playing = FALSE] = NoRow
    <3>1. [NoRow EXCEPT !.playing = NoRow.playing] = NoRow /\ NoRow.playing = FALSE
      BY DEF NoRow
    <3> QED
      BY <3>1
  <2>2. \A id \in RowIds : row[id] # NoRow => [row[id] EXCEPT !.playing = FALSE] \in LiveRow
    BY RowOrNone, Columns
  <2>3. row' \in [RowIds -> LiveRow \cup {NoRow}] /\ Live' \subseteq Live
    BY <1>1, <2>1, <2>2 DEF Live
  <2> QED
    BY <1>2, <2>3 DEF TypeInv, RowsTyped
<1>4. RestTyped'
  <2>1. \A a \in Requests : at[a].p \in Players \cup {NoPlayer}
    BY Constants DEF TypeInv, WorkTyped, Works
  <2> QED
    BY <1>1, <1>2, <2>1 DEF Restart, TypeInv, RestTyped
<1>5. TodoTyped'
  BY DEF Restart, TypeInv, TodoTyped
<1>6. WorkTyped'
  <2>1. at' = [a \in Actors |-> Idle]
    BY DEF Restart
  <2>2. Plays' = {}
    BY <2>1, Constants DEF Plays, Idle
  <2>3. IsFiniteSet(Plays') /\ Cardinality(Plays') = 0
    BY <2>2, FS_EmptySet
  <2>4. MaxRows \in Nat /\ made \in 0 .. MaxRows /\ made' = made
    BY <1>2, Constants DEF TypeInv, RowsTyped
  <2>5. made' + Cardinality(Plays') <= MaxRows
    <3>1. made + 0 <= MaxRows
      BY <2>4
    <3> QED
      BY <2>3, <2>4, <3>1
  <2>6. at' \in [Actors -> Works] /\ \A a \in Actors : at'[a] = Idle
    BY <2>1, Constants
  <2> QED
    BY <2>3, <2>5, <2>6 DEF WorkTyped, Sane
<1> QED
  BY <1>2, <1>3, <1>4, <1>5, <1>6, Kept DEF TypeInv

LEMMA NextTypes ==
  ASSUME TypeInv, [Next]_vars
  PROVE  TypeInv'
<1>1. CASE UNCHANGED vars
  BY <1>1 DEF vars, TypeInv, RowsTyped, PlayersTyped, WorkTyped, RestTyped, TodoTyped, Live,
              Plays, Sane, Formed
<1>2. ASSUME NEW a \in Requests, Step(a) PROVE TypeInv'
  <2>1. a \in Actors
    BY Constants
  <2> QED
    BY <1>2, <2>1, GetProgressTypes, HaltTypes, LoadTypes, StartTypes, ResumeStartTypes,
       SeekInTypes, GetTransportTypes, ReadPositionTypes, PauseTypes, SavePauseTypes, StopTypes,
       DeleteRowTypes, CreateRowTypes, WriteRowTypes DEF Step
<1>3. ASSUME NEW a \in Requests, NEW s \in Sessions, Request(a, s) PROVE TypeInv'
  BY <1>3, AskPlayTypes, AskTypes DEF Request
<1>4. CASE Poller \/ Syncer \/ Sleeper
  BY <1>4, ServiceTypes
<1>5. CASE World
  BY <1>5, TickTypes, EventTypes, RestartTypes DEF World
<1> QED
  BY <1>1, <1>2, <1>3, <1>4, <1>5 DEF Next

\* Every row, request and listed row keeps its type: positions, segments and the
\* limits on them never leave the natural numbers, whatever is asked, fails or is
\* restarted.
THEOREM TypeCorrect == Spec => []TypeOK
<1>1. Spec => []TypeInv
  BY InitTypes, NextTypes, PTL DEF Spec
<1> QED
  BY <1>1, TypeInvTypes, PTL

-----------------------------------------------------------------------------
(* Places. *)

\* Where a player is in the book it has loaded is a place of that book; so is the start.
WitInv ==
  /\ \A p \in Players :
       IF player[p].book = NoBook THEN player[p].pos = 0
       ELSE Global(player[p].book, player[p].seg, player[p].pos) \in places[player[p].book]
  /\ \A b \in Books : 0 \in places[b]

\* Places are never forgotten.
Grows == \A b \in Books : places[b] \subseteq places'[b]

LEMMA InitPlaces == Init => WitInv
BY Constants DEF Init, WitInv, Empty

LEMMA WitnessPlaces ==
  ASSUME TypeInv, WitInv, player' \in [Players -> Loadeds], Witness,
         \A p \in Players : player'[p].book = NoBook => player'[p].pos = 0
  PROVE  WitInv' /\ Grows
<1>1. \A b \in Books : /\ places[b] \subseteq places'[b]
                       /\ \A p \in Players : player'[p].book = b =>
                            Global(b, player'[p].seg, player'[p].pos) \in places'[b]
  BY Witnessing
<1>2. \A p \in Players : player'[p].book \in Books \cup {NoBook}
  BY DEF Loadeds
<1> QED
  BY <1>1, <1>2 DEF WitInv, Grows

LEMMA CommandPlaces ==
  ASSUME TypeInv, WitInv, NEW p \in Players, NEW x \in Loadeds, NEW ok, Command(p, x, ok),
         x.book = NoBook => x.pos = 0
  PROVE  WitInv' /\ Grows
<1>1. player' \in [Players -> Loadeds] /\ Witness /\ player' \in {player, [player EXCEPT ![p] = x]}
  BY Commanding DEF PlayersTyped
<1>2. \A y \in Players : player'[y].book = NoBook => player'[y].pos = 0
  BY <1>1 DEF WitInv, TypeInv, PlayersTyped
<1> QED
  BY <1>1, <1>2, WitnessPlaces

LEMMA SamePlaces ==
  ASSUME WitInv, UNCHANGED <<player, places>>
  PROVE  WitInv' /\ Grows
BY DEF WitInv, Grows

LEMMA StepPlaces ==
  ASSUME TypeInv, WitInv, NEW a \in Actors, Step(a)
  PROVE  WitInv' /\ Grows
<1> DEFINE w == at[a]
<1>1. \A p \in Players : player[p] \in Loadeds /\ (player[p].book = NoBook => player[p].pos = 0)
  BY DEF TypeInv, PlayersTyped, WitInv
<1>2. ASSUME NEW p \in Players
      PROVE  /\ Stopped(player[p]) \in Loadeds /\ Stopped(player[p]).pos = 0
             /\ Paused(player[p]) \in Loadeds /\ Paused(player[p]).pos = player[p].pos
             /\ Paused(player[p]).book = player[p].book
             /\ [player[p] EXCEPT !.state = "playing"] \in Loadeds
             /\ [player[p] EXCEPT !.state = "playing"].pos = player[p].pos
             /\ [player[p] EXCEPT !.state = "playing"].book = player[p].book
  BY <1>1 DEF Stopped, Paused, Loadeds
<1>3. w.pc # "idle" => /\ w \in Works /\ Formed(w) /\ w.r \in LiveRow /\ w.p \in Players
                       /\ (w.pc = "seek" => w.seek \in Nat) /\ (w.pc = "other" => w.q \in Players)
  BY Working DEF Formed, LiveRow
<1>4. CASE Halt(a)
  BY <1>2, <1>3, <1>4, CommandPlaces DEF Halt
<1>5. CASE Load(a)
  <2> DEFINE x == [book |-> w.r.book, seg |-> w.seg, pos |-> 0, state |-> "stopped"]
  <2>1. w.p \in Players /\ x \in Loadeds /\ x.pos = 0
    BY <1>3, <1>5 DEF Load, Loadeds, LiveRow, Works
  <2> QED
    BY <1>5, <2>1, CommandPlaces DEF Load
<1>6. CASE Start(a) \/ ResumeStart(a)
  <2> DEFINE x == [player[w.p] EXCEPT !.state = "playing"]
             y == IF Track(w.p) > 0 THEN x ELSE player[w.p]
  <2>1. w.p \in Players
    BY <1>3, <1>6 DEF Start, ResumeStart, At
  <2>2. /\ x \in Loadeds /\ (x.book = NoBook => x.pos = 0)
        /\ y \in Loadeds /\ (y.book = NoBook => y.pos = 0)
    BY <1>1, <1>2, <2>1
  <2>3. \E ok : Command(w.p, x, ok) \/ Command(w.p, y, ok)
    BY <1>6 DEF Start, ResumeStart
  <2> HIDE DEF x, y
  <2> QED
    BY <2>1, <2>2, <2>3, CommandPlaces
<1>7. CASE SeekIn(a)
  <2> DEFINE can == w.seek <= Track(w.p)
             x == [player[w.p] EXCEPT !.pos = w.seek]
             y == IF can THEN x ELSE player[w.p]
  <2>1. w.p \in Players /\ w.seek \in Nat
    BY <1>3, <1>7 DEF SeekIn
  <2>2. x \in Loadeds /\ x.book = player[w.p].book /\ x.pos = w.seek
    BY <1>1, <2>1 DEF Loadeds
  <2>3. player[w.p].book = NoBook => Track(w.p) = 0
    BY DEF Track
  <2>4. y \in Loadeds /\ (y.book = NoBook => y.pos = 0)
    BY <1>1, <2>1, <2>2, <2>3
  <2>5. \E ok : Command(w.p, y, ok)
    BY <1>7 DEF SeekIn
  <2> HIDE DEF y
  <2> QED
    BY <2>1, <2>4, <2>5, CommandPlaces
<1>8. CASE Pause(a)
  <2>1. w.p \in Players
    BY <1>3, <1>8 DEF Pause
  <2>2. \E ok : Command(w.p, Paused(player[w.p]), ok)
    BY <1>8 DEF Pause
  <2> QED
    BY <1>1, <1>2, <2>1, <2>2, CommandPlaces
<1>9. CASE StopPlayer(a)
  BY <1>2, <1>3, <1>9, CommandPlaces DEF StopPlayer
<1>10. CASE StopOther(a)
  BY <1>2, <1>3, <1>10, CommandPlaces DEF StopOther
<1>11. CASE GetProgress(a) \/ GetTransport(a) \/ ReadPosition(a) \/ SavePause(a) \/ SaveStop(a)
            \/ DeleteRow(a) \/ CreateRow(a) \/ WriteRow(a)
  BY <1>11, SamePlaces
     DEF GetProgress, GetTransport, ReadPosition, SavePause, SaveStop, DeleteRow, CreateRow, WriteRow
<1> QED
  BY <1>4, <1>5, <1>6, <1>7, <1>8, <1>9, <1>10, <1>11 DEF Step

LEMMA NextPlaces ==
  ASSUME TypeInv, WitInv, [Next]_vars
  PROVE  WitInv' /\ Grows
<1>1. CASE UNCHANGED vars
  BY <1>1, SamePlaces DEF vars
<1>2. ASSUME NEW a \in Requests, Step(a) \/ \E s \in Sessions : Request(a, s) PROVE WitInv' /\ Grows
  BY <1>2, Constants, StepPlaces, SamePlaces DEF Request, AskPlay, AskTransport, AskSeek
<1>3. CASE Poller \/ Syncer \/ Sleeper
  <2>1. CASE Pause("sleeper")
    BY <2>1, Constants, StepPlaces DEF Step
  <2> QED
    BY <1>3, <2>1, SamePlaces
       DEF Poller, Syncer, Sleeper, PollList, SyncList, SleepList, List, Poll, PollWrite, Sync,
           Sleep, SleepClear, SavePause
<1>4. ASSUME NEW p \in Players, Tick(p) PROVE WitInv' /\ Grows
  <2>1. player' \in [Players -> Loadeds] /\ Witness
    BY <1>4, TickTypes DEF TypeInv, PlayersTyped, Tick
  <2>2. player[p].book = NoBook => ~(player[p].pos < Track(p))
    BY DEF Track, WitInv
  <2>3. \A y \in Players : player'[y].book = NoBook => player'[y].pos = 0
    BY <1>4, <2>2 DEF Tick, WitInv, TypeInv, PlayersTyped, Loadeds
  <2> QED
    BY <2>1, <2>3, WitnessPlaces
<1>5. ASSUME NEW p \in Players, ByHand(p) PROVE WitInv' /\ Grows
  BY <1>5 DEF ByHand, WitInv, Grows, TypeInv, PlayersTyped, Loadeds
<1>6. ASSUME NEW b \in Books, NEW g \in Positions, Elsewhere(b, g) PROVE WitInv' /\ Grows
  BY <1>6 DEF Elsewhere, WitInv, Grows, TypeInv, PlayersTyped, Loadeds
<1>7. CASE (\E s \in Sessions : Logout(s) \/ Login(s) \/ \E t \in {"set", "off"} : SetTimer(s, t))
           \/ (\E id \in RowIds : TimerExpires(id)) \/ Restart
  BY <1>7, SamePlaces DEF Logout, Login, SetTimer, TimerExpires, Restart
<1>8. CASE World
  BY <1>4, <1>5, <1>6, <1>7, <1>8 DEF World
<1> QED
  BY <1>1, <1>2, <1>3, <1>8 DEF Next

-----------------------------------------------------------------------------
(* Books that are one file: no position is ever anything but a place.         *)

OneFileEach == \A b \in Books : SegSec[b] = 0

\* All places, of any book.
Heard == {0} \cup UNION {places[b] : b \in Books}

\* A request holds a place, but for a seek that is on its way to its target.
HeardWork(w, H) ==
  /\ w.r.pos \in H /\ w.r.seg = 0 /\ w.seg = 0
  /\ ~(w.op = "seek" /\ w.pc \in {"read", "seek"}) => w.pos \in H
  /\ w.op = "seek" => /\ w.pc \notin {"load", "start"} /\ ~w.loaded
                      /\ w.pc = "seek" => w.seek = w.pos

RowsHeard == \A id \in Live : row[id].pos \in Heard /\ row[id].seg = 0
AbsHeard  == \A b \in Books : abs[b] \in Heard
TodoHeard == \A a \in Services : \A x \in todo[a] : x.r.pos \in Heard /\ x.r.seg = 0
WorkHeard == \A a \in Actors : at[a] # Idle => HeardWork(at[a], Heard)

HeardInv == RowsHeard /\ AbsHeard /\ TodoHeard /\ WorkHeard

LEMMA OneFileNumbers ==
  ASSUME OneFileEach, NEW b \in Books, NEW k \in Nat, NEW l \in Nat
  PROVE  /\ Global(b, k, l) = l /\ Segment(b, l) = 0 /\ Local(b, l) = l
         /\ \A w, m : w.r.book = b => ~Transition(w, m)
<1>1. SegSec[b] = 0
  BY DEF OneFileEach
<1>2. k * 0 = 0
  OBVIOUS
<1> QED
  BY <1>1, <1>2 DEF Global, SegmentToGlobal, Segment, Local, GlobalToSegment, Transition

LEMMA HeardGrows == Grows => Heard \subseteq Heard'
BY DEF Grows, Heard

\* Where a player is has been heard of.
LEMMA PlayersHeard ==
  ASSUME OneFileEach, TypeInv, WitInv, NEW p \in Players
  PROVE  player[p].pos \in Heard /\ player[p].pos \in Nat
<1>1. player[p] \in Loadeds
  BY DEF TypeInv, PlayersTyped
<1>2. CASE player[p].book = NoBook
  BY <1>1, <1>2 DEF WitInv, Heard, Loadeds
<1>3. CASE player[p].book # NoBook
  <2>1. player[p].book \in Books /\ player[p].seg \in Nat /\ player[p].pos \in Nat
    BY <1>1, <1>3 DEF Loadeds
  <2>2. Global(player[p].book, player[p].seg, player[p].pos) = player[p].pos
    BY <2>1, OneFileNumbers
  <2> QED
    BY <1>3, <2>1, <2>2 DEF WitInv, Heard
<1> QED
  BY <1>2, <1>3

LEMMA InitHeard == Init => HeardInv
BY DEF Init, HeardInv, RowsHeard, AbsHeard, TodoHeard, WorkHeard, Heard, Live

\* Rows: what is written back is a place, whoever writes it.
LEMMA UpdateHeard ==
  ASSUME TypeInv, RowsHeard, Grows, NEW id \in RowIds, NEW r, Update(id, r), made' = made,
         row[id] # NoRow => r \in LiveRow /\ r.pos \in Heard /\ r.seg = 0
  PROVE  RowsHeard'
<1>1. \A i \in RowIds : row'[i] = IF i = id /\ row[i] # NoRow THEN r ELSE row[i]
  BY Updating
<1>2. \A i \in Live' : i \in Live /\ (row'[i] = row[i] \/ (i = id /\ row'[i] = r))
  BY <1>1 DEF Live
<1> QED
  BY <1>1, <1>2, HeardGrows DEF RowsHeard, Live

LEMMA ColumnsHeard ==
  ASSUME TypeInv, RowsHeard, NEW id \in RowIds, row[id] # NoRow
  PROVE  LET r == row[id]
         IN  /\ \A pos \in Heard \cap Nat : /\ [r EXCEPT !.pos = pos] \in LiveRow
                                            /\ [r EXCEPT !.pos = pos].pos = pos
                                            /\ [r EXCEPT !.pos = pos].seg = 0
             /\ \A b \in BOOLEAN : /\ [r EXCEPT !.playing = b] \in LiveRow
                                   /\ [r EXCEPT !.playing = b].pos \in Heard
                                   /\ [r EXCEPT !.playing = b].seg = 0
             /\ \A t \in Timers : /\ [r EXCEPT !.timer = t] \in LiveRow
                                  /\ [r EXCEPT !.timer = t].pos \in Heard
                                  /\ [r EXCEPT !.timer = t].seg = 0
<1>1. row[id] \in LiveRow
  BY RowOrNone
<1>2. row[id].pos \in Heard /\ row[id].seg = 0
  BY DEF RowsHeard, Live
<1> QED
  BY <1>1, <1>2, Columns DEF LiveRow

LEMMA SameRowsHeard ==
  ASSUME RowsHeard, Grows, UNCHANGED row
  PROVE  RowsHeard'
BY HeardGrows DEF RowsHeard, Live

LEMMA StepRowsHeard ==
  ASSUME OneFileEach, TypeInv, WitInv, HeardInv, Grows, NEW a \in Actors, Step(a)
  PROVE  RowsHeard'
<1> DEFINE w == at[a]
           r == row[w.id]
<1>1. w.pc # "idle" => /\ w \in Works /\ Formed(w) /\ HeardWork(w, Heard) /\ w.p \in Players
                       /\ (w.op # "play" => w.id \in RowIds) /\ w.r \in LiveRow
  BY Working DEF HeardInv, WorkHeard, Formed, LiveRow
<1>2. ASSUME w.pc \in {"start", "pause", "stop", "save", "done"}, w.op \in {"resume", "pause", "sleep", "stop"}
      PROVE  w.pos \in Heard \cap Nat /\ w.id \in RowIds
  BY <1>1, <1>2 DEF HeardWork, Formed
<1>3. RowsHeard
  BY DEF HeardInv
<1>4. CASE ResumeStart(a)
  <2>1. w.pos \in Heard \cap Nat /\ w.id \in RowIds
    BY <1>2, <1>4 DEF ResumeStart, At
  <2>2. CASE UNCHANGED row
    BY <1>3, <2>2, SameRowsHeard
  <2>3. CASE Update(w.id, [r EXCEPT !.pos = w.pos])
    <3>1. made' = made
      BY <1>4 DEF ResumeStart
    <3> QED
      BY <1>3, <2>1, <2>3, <3>1, ColumnsHeard, UpdateHeard
  <2> QED
    BY <1>4, <2>2, <2>3 DEF ResumeStart
<1>5. CASE Pause(a) \/ StopPlayer(a)
  <2>1. w.pc \in {"pause", "stop"} /\ w.op \in {"pause", "sleep", "stop"}
    BY <1>1, <1>5, Callers DEF Pause, StopPlayer
  <2>2. w.pos \in Heard \cap Nat /\ w.id \in RowIds
    BY <1>2, <2>1
  <2>3. CASE UNCHANGED row
    BY <1>3, <2>3, SameRowsHeard
  <2>4. CASE Update(w.id, [r EXCEPT !.pos = w.pos])
    <3>1. made' = made
      BY <1>5 DEF Pause, StopPlayer
    <3> QED
      BY <1>3, <2>2, <2>4, <3>1, ColumnsHeard, UpdateHeard
  <2> QED
    BY <1>5, <2>3, <2>4 DEF Pause, StopPlayer
<1>6. CASE SavePause(a)
  <2>1. w.id \in RowIds /\ made' = made
    BY <1>2, <1>6 DEF SavePause
  <2> QED
    BY <1>3, <1>6, <2>1, ColumnsHeard, UpdateHeard DEF SavePause
<1>7. CASE ReadPosition(a)
  <2>1. CASE UNCHANGED row
    BY <1>3, <2>1, SameRowsHeard
  <2>2. CASE w.op = "status" /\ Update(w.id, [r EXCEPT !.playing = w.on])
    <3>1. w.id \in RowIds /\ w.on \in BOOLEAN /\ made' = made
      BY <1>1, <1>7, <2>2 DEF ReadPosition, Works
    <3> QED
      BY <1>3, <2>2, <3>1, ColumnsHeard, UpdateHeard
  <2> QED
    BY <1>7, <2>1, <2>2 DEF ReadPosition
<1>8. CASE DeleteRow(a)
  <2>1. \A i \in Live' : i \in Live /\ row'[i] = row[i]
    BY <1>8 DEF DeleteRow, Live, TypeInv, RowsTyped
  <2> QED
    BY <1>3, <2>1, HeardGrows DEF RowsHeard
<1>9. CASE CreateRow(a)
  <2>1. w \in Works /\ Formed(w) /\ HeardWork(w, Heard) /\ w.op = "play" /\ w.pc = "done"
    BY <1>1, <1>9 DEF CreateRow, At
  <2> DEFINE new == [w.r EXCEPT !.pos = w.pos, !.seg = w.seg]
             cleared == [id \in RowIds |->
                          IF id \in Latest(w.r.s) /\ row[id].book # w.r.book
                          THEN [row[id] EXCEPT !.timer = "off"] ELSE row[id]]
  <2>2. new.pos \in Heard /\ new.seg = 0
    BY <1>1, <2>1 DEF HeardWork, LiveRow
  <2>3. \A id \in RowIds : cleared[id] # NoRow =>
          id \in Live /\ cleared[id].pos \in Heard /\ cleared[id].seg = 0
    <3> SUFFICES ASSUME NEW id \in RowIds, cleared[id] # NoRow
                 PROVE  id \in Live /\ cleared[id].pos \in Heard /\ cleared[id].seg = 0
      OBVIOUS
    <3>1. id \in Live
      BY Reading DEF Live
    <3>2. row[id].pos \in Heard /\ row[id].seg = 0
      BY <1>3, <3>1 DEF RowsHeard
    <3>3. [row[id] EXCEPT !.timer = "off"].pos \in Heard /\ [row[id] EXCEPT !.timer = "off"].seg = 0
      BY <1>3, <3>1, ColumnsHeard DEF Live, Timers
    <3> QED
      BY <3>1, <3>2, <3>3
  <2>4. row' = [cleared EXCEPT ![made + 1] = new] \/ UNCHANGED row
    BY <1>9 DEF CreateRow
  <2>5. CASE row' = [cleared EXCEPT ![made + 1] = new]
    <3> HIDE DEF cleared, new
    <3>1. DOMAIN cleared = RowIds
      BY DEF cleared
    <3>2. \A i \in RowIds : row'[i] \in {cleared[i], new}
      BY <2>5, <3>1
    <3> QED
      BY <2>2, <2>3, <3>2, HeardGrows DEF RowsHeard, Live
  <2> QED
    BY <1>3, <2>4, <2>5, SameRowsHeard
<1>10. CASE WriteRow(a)
  <2>1. w \in Works /\ Formed(w) /\ HeardWork(w, Heard) /\ w.op # "play" /\ w.pc = "done"
        /\ w.id \in RowIds /\ made' = made
    BY <1>1, <1>10 DEF WriteRow
  <2>2. w.pos \in Heard /\ w.pos \in Nat /\ w.seg = 0 /\ (w.op = "switch" => w.q \in Players)
    BY <2>1 DEF HeardWork, Formed
  <2>3. row[w.id] # NoRow => r \in LiveRow /\ r.pos \in Heard /\ r.seg = 0
    BY <1>3, <2>1, RowOrNone DEF RowsHeard, Live
  <2>4. row[w.id] # NoRow =>
          Written(w, r) \in LiveRow /\ Written(w, r).pos \in Heard /\ Written(w, r).seg = 0
    <3> HIDE DEF r
    <3>1. CASE w.op = "switch"
      BY <2>2, <2>3, <3>1 DEF Written, LiveRow
    <3>2. CASE w.op = "resume"
      BY <2>3, <3>2 DEF Written, LiveRow
    <3>3. CASE w.op \notin {"switch", "resume"}
      <4>1. Written(w, r) = [r EXCEPT !.pos = w.pos, !.seg = IF w.loaded THEN w.seg ELSE @]
        BY <3>3 DEF Written
      <4> QED
        BY <2>2, <2>3, <4>1 DEF LiveRow
    <3> QED
      BY <3>1, <3>2, <3>3
  <2> QED
    BY <1>3, <1>10, <2>1, <2>4, UpdateHeard DEF WriteRow
<1>11. CASE UNCHANGED row
  BY <1>3, <1>11, SameRowsHeard
<1> QED
  BY <1>4, <1>5, <1>6, <1>7, <1>8, <1>9, <1>10, <1>11
     DEF Step, GetProgress, Halt, Load, Start, SeekIn, GetTransport, StopOther, SaveStop

LEMMA OtherRowsHeard ==
  ASSUME OneFileEach, TypeInv, WitInv, HeardInv, Grows, Poller \/ Syncer \/ Sleeper \/ World
  PROVE  RowsHeard'
<1>1. RowsHeard
  BY DEF HeardInv
<1>2. CASE PollWrite
  <2> DEFINE w == at["poller"]
             r == row[w.id]
  <2>1. w \in Works /\ Formed(w) /\ w.pc = "write" /\ w.op = "poll" /\ HeardWork(w, Heard)
    BY <1>2, Constants, Working, Callers DEF PollWrite, HeardInv, WorkHeard
  <2>2. w.id \in RowIds /\ w.pos \in Heard \cap Nat /\ made' = made
    BY <1>2, <2>1 DEF Formed, HeardWork, PollWrite
  <2>3. CASE UNCHANGED row
    BY <1>1, <2>3, SameRowsHeard
  <2>4. CASE Update(w.id, [r EXCEPT !.playing = FALSE])
    BY <1>1, <2>2, <2>4, ColumnsHeard, UpdateHeard
  <2>5. CASE Update(w.id, [r EXCEPT !.pos = w.pos])
    BY <1>1, <2>2, <2>5, ColumnsHeard, UpdateHeard
  <2> QED
    BY <1>2, <2>3, <2>4, <2>5 DEF PollWrite
<1>3. CASE SleepClear
  <2> DEFINE w == at["sleeper"]
  <2>1. w \in Works /\ Formed(w) /\ w.op = "sleep"
    BY <1>3, Constants, Working, Callers DEF SleepClear
  <2>2. w.id \in RowIds /\ made' = made
    BY <1>3, <2>1 DEF Formed, SleepClear
  <2> QED
    BY <1>1, <1>3, <2>2, ColumnsHeard, UpdateHeard DEF SleepClear, Timers
<1>4. CASE Pause("sleeper") \/ SavePause("sleeper")
  BY <1>4, Constants, StepRowsHeard DEF Step
<1>5. CASE \E s \in Sessions, t \in {"set", "off"} : SetTimer(s, t)
  <2>1. PICK s \in Sessions, t \in {"set", "off"} : SetTimer(s, t)
    BY <1>5
  <2>2. PICK id \in Latest(s) : row' = [row EXCEPT ![id].timer = t]
    BY <2>1 DEF SetTimer
  <2>3. id \in RowIds /\ row[id] # NoRow /\ made' = made /\ t \in Timers
    BY <2>1, Reading DEF SetTimer, Live, Timers
  <2>4. Update(id, [row[id] EXCEPT !.timer = t])
    BY <2>2, <2>3 DEF Update
  <2> QED
    BY <1>1, <2>3, <2>4, ColumnsHeard, UpdateHeard
<1>6. CASE \E id \in RowIds : TimerExpires(id)
  <2>1. PICK id \in RowIds : TimerExpires(id)
    BY <1>6
  <2>2. row[id] # NoRow /\ made' = made /\ "due" \in Timers
    BY <2>1 DEF TimerExpires, NoRow, Timers
  <2>3. Update(id, [row[id] EXCEPT !.timer = "due"])
    BY <2>1, <2>2 DEF TimerExpires, Update
  <2> QED
    BY <1>1, <2>2, <2>3, ColumnsHeard, UpdateHeard
<1>7. CASE \E s \in Sessions : Logout(s)
  <2>1. \A i \in Live' : i \in Live /\ row'[i] = row[i]
    BY <1>7 DEF Logout, Live
  <2> QED
    BY <1>1, <2>1, HeardGrows DEF RowsHeard
<1>8. CASE Restart
  <2>1. \A i \in RowIds : row'[i] \in {NoRow, [row[i] EXCEPT !.playing = FALSE]}
    BY <1>8 DEF Restart
  <2>2. [NoRow EXCEPT !.playing = NoRow.playing] = NoRow /\ NoRow.playing = FALSE
    BY DEF NoRow
  <2>3. \A i \in Live' : i \in Live /\ row'[i] = [row[i] EXCEPT !.playing = FALSE]
    BY <2>1, <2>2 DEF Live
  <2> QED
    BY <1>1, <2>3, ColumnsHeard, HeardGrows DEF RowsHeard, Live
<1>9. CASE UNCHANGED row
  BY <1>1, <1>9, SameRowsHeard
<1> QED
  BY <1>2, <1>3, <1>4, <1>5, <1>6, <1>7, <1>8, <1>9
     DEF Poller, Syncer, Sleeper, PollList, SyncList, SleepList, List, Poll, Sync, Sleep, World,
         Tick, ByHand, Elsewhere, Login

\* ABS is told places.
LEMMA SaveHeard ==
  ASSUME AbsHeard, TypeInv, Grows, NEW b, NEW pos \in Heard, SaveProgress(b, pos)
  PROVE  AbsHeard'
BY HeardGrows DEF AbsHeard, TypeInv, RestTyped, SaveProgress

LEMMA AbsHeardNext ==
  ASSUME TypeInv, HeardInv, Grows, [Next]_vars
  PROVE  AbsHeard'
<1>1. AbsHeard
  BY DEF HeardInv
<1>2. CASE UNCHANGED abs
  BY <1>1, <1>2, HeardGrows DEF AbsHeard
<1>3. ASSUME NEW a \in Actors, SavePause(a) \/ SaveStop(a) PROVE AbsHeard'
  <2>1. Formed(at[a]) /\ HeardWork(at[a], Heard) /\ at[a].op # "seek"
    BY <1>3, Working DEF SavePause, SaveStop, At, HeardInv, WorkHeard
  <2>2. at[a].pos \in Heard
    BY <2>1 DEF HeardWork
  <2> QED
    BY <1>1, <1>2, <1>3, <2>2, SaveHeard DEF SavePause, SaveStop
<1>4. ASSUME NEW x \in todo["syncer"], Sync(x) PROVE AbsHeard'
  <2>1. x.r.pos \in Heard
    BY <1>4, Constants DEF HeardInv, TodoHeard, Services
  <2> QED
    BY <1>1, <1>2, <1>4, <2>1, SaveHeard DEF Sync
<1>5. ASSUME NEW b \in Books, NEW g \in Positions, Elsewhere(b, g) PROVE AbsHeard'
  <2>1. g \in Heard'
    BY <1>5 DEF Elsewhere, Heard, TypeInv, PlayersTyped
  <2> QED
    BY <1>1, <1>5, <2>1, HeardGrows DEF AbsHeard, Elsewhere, TypeInv, RestTyped
<1>6. ASSUME NEW a \in Requests, Step(a) PROVE AbsHeard'
  BY <1>2, <1>3, <1>6, Constants
     DEF Step, GetProgress, Halt, Load, Start, ResumeStart, SeekIn, GetTransport, ReadPosition,
         Pause, StopPlayer, StopOther, DeleteRow, CreateRow, WriteRow
<1>7. CASE \E a \in Requests, s \in Sessions : Request(a, s)
  BY <1>2, <1>7 DEF Request, AskPlay, AskTransport, AskSeek
<1>8. CASE Poller \/ Syncer \/ Sleeper
  BY <1>2, <1>3, <1>4, <1>8, Constants
     DEF Poller, Syncer, Sleeper, PollList, SyncList, SleepList, List, Poll, PollWrite, Sleep,
         SleepClear, Pause
<1>9. CASE World
  BY <1>2, <1>5, <1>9 DEF World, Tick, ByHand, Logout, Login, SetTimer, TimerExpires, Restart
<1> QED
  BY <1>2, <1>6, <1>7, <1>8, <1>9 DEF Next, vars

LEMMA TodoHeardNext ==
  ASSUME TypeInv, HeardInv, Grows, [Next]_vars
  PROVE  TodoHeard'
<1>1. TodoHeard /\ todo \in [Services -> SUBSET [id : RowIds, r : LiveRow]]
  BY DEF HeardInv, TypeInv, TodoTyped
<1>2. CASE \A a \in Services : todo'[a] \subseteq todo[a]
  BY <1>1, <1>2, HeardGrows DEF TodoHeard
<1>3. ASSUME NEW a \in Services, NEW ids \in SUBSET Live, List(a, ids) PROVE TodoHeard'
  <2>1. \A x \in Listed(ids) : x.r.pos \in Heard /\ x.r.seg = 0
    BY DEF Listed, HeardInv, RowsHeard
  <2> QED
    BY <1>1, <1>3, <2>1, HeardGrows DEF List, TodoHeard
<1>4. CASE PollList \/ SyncList \/ SleepList
  BY <1>3, <1>4 DEF PollList, SyncList, SleepList, Services
<1>5. ASSUME NEW a \in Services, NEW x, Take(a, x) PROVE TodoHeard'
  BY <1>2, <1>5, Taking
<1>6. CASE Poller \/ Syncer \/ Sleeper
  BY <1>2, <1>4, <1>5, <1>6
     DEF Poller, Syncer, Sleeper, Poll, PollWrite, Sync, Sleep, SleepClear, Pause, SavePause,
         Services
<1>7. CASE World
  BY <1>2, <1>7
     DEF World, Tick, ByHand, Elsewhere, Logout, Login, SetTimer, TimerExpires, Restart
<1>8. CASE UNCHANGED todo
  BY <1>2, <1>8
<1>9. ASSUME NEW a \in Requests, Step(a) \/ \E s \in Sessions : Request(a, s) PROVE UNCHANGED todo
  BY <1>9
     DEF Step, GetProgress, Halt, Load, Start, ResumeStart, SeekIn, GetTransport, ReadPosition,
         Pause, SavePause, StopPlayer, StopOther, SaveStop, DeleteRow, CreateRow, WriteRow,
         Request, AskPlay, AskTransport, AskSeek
<1> QED
  BY <1>6, <1>7, <1>8, <1>9 DEF Next, vars

\* What a goroutine holds goes on holding places.
LEMMA GoHeard ==
  ASSUME TypeInv, HeardInv, Grows, NEW a \in Actors, NEW v, Go(a, v),
         v = Idle \/ HeardWork(v, Heard')
  PROVE  WorkHeard'
<1>1. \A x \in Actors : at[x] # Idle => HeardWork(at[x], Heard')
  BY HeardGrows DEF HeardInv, WorkHeard, HeardWork
<1>2. at' = [at EXCEPT ![a] = v] /\ at \in [Actors -> Works]
  BY DEF Go, TypeInv, WorkTyped
<1> QED
  BY <1>1, <1>2 DEF WorkHeard

LEMMA AskHeard ==
  ASSUME OneFileEach, TypeInv, HeardInv, Grows, NEW a \in Requests, NEW s \in Sessions, Request(a, s)
  PROVE  WorkHeard'
<1>1. a \in Actors /\ 0 \in Heard'
  BY Constants DEF Heard
<1>2. ASSUME NEW b \in Books, NEW p \in Players, AskPlay(a, s, b, p) PROVE WorkHeard'
  <2> DEFINE r == [NoRow EXCEPT !.s = s, !.book = b, !.p = p, !.playing = TRUE]
             v == [Idle EXCEPT !.op = "play", !.pc = "progress", !.p = p, !.r = r]
  <2>1. Go(a, v)
    BY <1>2 DEF AskPlay
  <2>2. r.pos = 0 /\ r.seg = 0
    BY DEF NoRow
  <2> HIDE DEF r
  <2>3. v.r = r /\ v.seg = 0 /\ v.pos = 0 /\ v.op = "play"
    BY DEF Idle
  <2>4. HeardWork(v, Heard')
    BY <1>1, <2>2, <2>3 DEF HeardWork
  <2> QED
    BY <1>1, <2>1, <2>4, GoHeard
<1>3. ASSUME NEW id \in Latest(s), NEW op \in AllOps, NEW pc \in Pcs
      PROVE  LET h == Holding(op, pc, id)
             IN  /\ h \in Works /\ h.op = op /\ h.pc = pc /\ h.r \in LiveRow /\ h.r = row[id]
                 /\ h.id = id /\ h.p = h.r.p /\ ~h.loaded /\ id \in RowIds
                 /\ h.r.pos \in Heard' /\ h.r.seg = 0 /\ h.seg = 0 /\ h.pos = h.r.pos
  BY Reading, Held, HeardGrows DEF HeardInv, RowsHeard
<1>4. CASE AskTransport(a, s)
  <2>1. PICK id \in Latest(s) :
          \/ Go(a, Holding("pause", "read", id))
          \/ Go(a, Holding("status", "transport", id))
          \/ Go(a, Holding("resume", "progress", id))
          \/ \E q : Go(a, [Holding("stop", "read", id) EXCEPT !.q = q])
          \/ \E q : Go(a, [Holding("switch", "halt", id) EXCEPT !.q = q])
    BY <1>4 DEF AskTransport
  <2>2. ASSUME NEW op \in AllOps \ {"seek", "play"}, NEW pc \in Pcs, NEW q
        PROVE  LET h == Holding(op, pc, id)
               IN  HeardWork(h, Heard') /\ HeardWork([h EXCEPT !.q = q], Heard')
    BY <1>3 DEF HeardWork, Works
  <2> QED
    BY <1>1, <2>1, <2>2, GoHeard DEF AllOps, Pcs
<1>5. CASE AskSeek(a, s)
  <2>1. PICK id \in Latest(s) :
          \/ \E g \in Positions : Go(a, SeekPlan(Holding("seek", "seek", id), g))
          \/ \E k \in Skips : Go(a, [Holding("seek", "read", id) EXCEPT !.pos = k])
    BY <1>5 DEF AskSeek
  <2>2. ASSUME NEW g \in Positions PROVE HeardWork(SeekPlan(Holding("seek", "seek", id), g), Heard')
    <3> DEFINE h == Holding("seek", "seek", id)
               v == SeekPlan(h, g)
    <3>1. /\ h \in Works /\ h.op = "seek" /\ h.r \in LiveRow /\ h.id \in RowIds /\ h.p = h.r.p
          /\ ~h.loaded /\ h.r.pos \in Heard' /\ h.r.seg = 0 /\ h.seg = 0
      BY <1>3 DEF AllOps, Pcs
    <3>2. g \in Nat /\ h.r.book \in Books
      BY <3>1, BooksAssumption DEF LiveRow
    <3> HIDE DEF h
    <3>3. Segment(h.r.book, g) = 0 /\ Local(h.r.book, g) = g
      BY <3>2, OneFileNumbers
    <3>4. /\ v.op = "seek" /\ v.r = h.r /\ ~v.loaded /\ v.pos = g /\ v.pc \in {"seek", "load"}
          /\ v.pc = "seek" => v.seek = Local(h.r.book, g) /\ v.seg = h.seg
          /\ v.pc = "load" => Segment(h.r.book, g) # h.r.seg
      BY <3>1, <3>2, Planning
    <3> HIDE DEF v
    <3>5. HeardWork(v, Heard')
      BY <3>1, <3>3, <3>4 DEF HeardWork
    <3> QED
      BY <3>5 DEF v, h
  <2>3. ASSUME NEW k \in Skips
        PROVE  HeardWork([Holding("seek", "read", id) EXCEPT !.pos = k], Heard')
    <3> DEFINE h == Holding("seek", "read", id)
    <3>1. h \in Works /\ h.op = "seek" /\ h.pc = "read" /\ ~h.loaded /\ h.r.pos \in Heard'
          /\ h.r.seg = 0 /\ h.seg = 0
      BY <1>3 DEF AllOps, Pcs
    <3> HIDE DEF h
    <3>2. HeardWork([h EXCEPT !.pos = k], Heard')
      BY <3>1 DEF HeardWork, Works
    <3> QED
      BY <3>2 DEF h
  <2> QED
    BY <1>1, <2>1, <2>2, <2>3, GoHeard
<1> QED
  BY <1>2, <1>4, <1>5 DEF Request

LEMMA StepWorkHeard ==
  ASSUME OneFileEach, TypeInv, WitInv, HeardInv, WitInv', TypeInv', Grows, NEW a \in Actors, Step(a)
  PROVE  WorkHeard'
<1> DEFINE w == at[a]
           b == w.r.book
<1>1. w.pc # "idle" =>
        /\ w \in Works /\ Formed(w) /\ HeardWork(w, Heard) /\ w.p \in Players /\ w.r \in LiveRow
        /\ b \in Books /\ HeardWork(w, Heard')
  BY Working, HeardGrows DEF HeardInv, WorkHeard, Formed, LiveRow, HeardWork
<1>2. ASSUME Return(a) PROVE WorkHeard'
  BY <1>2, Gotos, GoHeard
<1>3. ASSUME NEW pc, Goto(a, pc), w \in Works, HeardWork(w, Heard'), w.op # "seek" PROVE WorkHeard'
  <2>1. HeardWork([w EXCEPT !.pc = pc], Heard')
    BY <1>3 DEF HeardWork, Works
  <2> QED
    BY <1>3, <2>1, Gotos, GoHeard
<1>4. CASE GetProgress(a)
  <2>1. w \in Works /\ HeardWork(w, Heard') /\ w.op \in {"play", "resume"} /\ b \in Books
    BY <1>1, <1>4, Callers DEF GetProgress
  <2>2. PICK got \in {0, abs[b]} :
          \/ Go(a, [w EXCEPT !.pc = "load", !.pos = got, !.seg = Segment(b, got),
                             !.seek = IF got > 0 THEN Local(b, got) ELSE NoSeek])
          \/ Go(a, [w EXCEPT !.pc = "start", !.pos = got, !.seek = Local(b, got)])
          \/ Go(a, [w EXCEPT !.pc = "start"])
    BY <1>4 DEF GetProgress
  <2>3. got \in Heard' /\ got \in Nat
    BY <2>1, HeardGrows DEF HeardInv, AbsHeard, Heard, TypeInv, RestTyped
  <2>4. Segment(b, got) = 0
    BY <2>1, <2>3, OneFileNumbers
  <2> DEFINE u == IF got > 0 THEN Local(b, got) ELSE NoSeek
             l == Local(b, got)
             k == Segment(b, got)
  <2>5. k = 0
    BY <2>4
  <2> HIDE DEF u, l, k, w, b
  <2>6. /\ HeardWork([w EXCEPT !.pc = "load", !.pos = got, !.seg = k, !.seek = u], Heard')
        /\ HeardWork([w EXCEPT !.pc = "start", !.pos = got, !.seek = l], Heard')
        /\ HeardWork([w EXCEPT !.pc = "start"], Heard')
    BY <2>1, <2>3, <2>5 DEF HeardWork, Works
  <2> QED
    BY <2>2, <2>6, GoHeard DEF u, l, k, w, b
<1>5. CASE Halt(a)
  <2> DEFINE l == w.r.pos - w.r.seg * SegSec[w.r.book]
             u == IF l > 0 THEN l ELSE NoSeek
             v == [w EXCEPT !.pc = "load", !.p = w.q, !.seek = u]
  <2>1. w \in Works /\ HeardWork(w, Heard') /\ w.op = "switch"
    BY <1>1, <1>5, Callers DEF Halt
  <2>2. Go(a, v)
    BY <1>5 DEF Halt
  <2> HIDE DEF u
  <2>3. HeardWork(v, Heard')
    BY <2>1 DEF HeardWork, Works
  <2> QED
    BY <2>2, <2>3, GoHeard
<1>6. CASE Load(a) \/ Start(a)
  <2>1. w \in Works /\ HeardWork(w, Heard') /\ w.op # "seek"
    BY <1>1, <1>6 DEF Load, Start, HeardWork
  <2>2. CASE Goto(a, "start") \/ Goto(a, "done")
    BY <1>3, <2>1, <2>2
  <2>3. CASE Go(a, [w EXCEPT !.pc = AfterStart(w), !.loaded = TRUE])
    <3>1. HeardWork([w EXCEPT !.pc = AfterStart(w), !.loaded = TRUE], Heard')
      BY <2>1 DEF HeardWork, Works
    <3> QED
      BY <2>3, <3>1, GoHeard
  <2> QED
    BY <1>2, <1>6, <2>2, <2>3 DEF Load, Start, CutShort
<1>7. CASE ResumeStart(a)
  <2>1. w \in Works /\ HeardWork(w, Heard') /\ w.op = "resume"
    BY <1>1, <1>7 DEF ResumeStart, At
  <2> QED
    BY <1>2, <1>3, <1>7, <2>1 DEF ResumeStart
<1>8. CASE SeekIn(a)
  <2>1. w \in Works /\ HeardWork(w, Heard') /\ w.pc = "seek" /\ w.p \in Players
    BY <1>1, <1>8 DEF SeekIn
  <2>2. CASE w.op # "seek"
    BY <1>2, <1>3, <1>8, <2>1, <2>2 DEF SeekIn
  <2>3. CASE w.op = "seek"
    <3>1. ~w.loaded /\ w.seek = w.pos
      BY <2>1, <2>3 DEF HeardWork
    <3> DEFINE can == w.seek <= Track(w.p)
               x == [player[w.p] EXCEPT !.pos = w.seek]
    <3>2. Return(a) \/ (Goto(a, "done") /\ can /\ Command(w.p, IF can THEN x ELSE player[w.p], TRUE))
      BY <1>8, <2>3, <3>1 DEF SeekIn
    <3>3. CASE Goto(a, "done") /\ can /\ Command(w.p, x, TRUE)
      <4>1. player' = [player EXCEPT ![w.p] = x] /\ player \in [Players -> Loadeds]
        BY <3>3 DEF Command, TypeInv, PlayersTyped
      <4>2. player'[w.p] = x /\ x.pos = w.seek /\ x \in Loadeds
        BY <2>1, <4>1 DEF Loadeds, TypeInv, PlayersTyped
      <4>3. x.pos \in Heard'
        <5>1. CASE x.book = NoBook
          BY <2>1, <4>2, <5>1 DEF WitInv, Heard
        <5>2. CASE x.book # NoBook
          <6>1. x.book \in Books /\ x.seg \in Nat /\ x.pos \in Nat
            BY <4>2, <5>2 DEF Loadeds
          <6>2. Global(x.book, x.seg, x.pos) = x.pos
            BY <6>1, OneFileNumbers
          <6>3. Global(x.book, x.seg, x.pos) \in places'[x.book]
            <7> HIDE DEF x
            <7> QED
              BY <2>1, <4>2, <5>2 DEF WitInv
          <6> QED
            BY <6>1, <6>2, <6>3 DEF Heard
        <5> QED
          BY <5>1, <5>2
      <4>4. w.pos \in Heard'
        BY <2>1, <3>1, <4>2, <4>3
      <4>5. HeardWork([w EXCEPT !.pc = "done"], Heard')
        BY <2>1, <2>3, <3>1, <4>4 DEF HeardWork, Works
      <4> QED
        BY <3>3, <4>5, Gotos, GoHeard
    <3> QED
      BY <1>2, <3>2, <3>3
  <2> QED
    BY <2>2, <2>3
<1>9. CASE GetTransport(a)
  <2>1. w \in Works /\ HeardWork(w, Heard') /\ w.op = "status"
    BY <1>1, <1>9, Callers DEF GetTransport
  <2>2. PICK n : Go(a, [w EXCEPT !.pc = "read", !.on = n])
    BY <1>9 DEF GetTransport
  <2>3. HeardWork([w EXCEPT !.pc = "read", !.on = n], Heard')
    BY <2>1 DEF HeardWork, Works
  <2> QED
    BY <2>2, <2>3, GoHeard
<1>10. CASE ReadPosition(a)
  <2> DEFINE l == player[w.p].pos
             g == Global(b, w.r.seg, l)
  <2>1. /\ w \in Works /\ HeardWork(w, Heard') /\ w.p \in Players /\ w.pc = "read"
        /\ w.r \in LiveRow /\ b \in Books /\ Formed(w)
    BY <1>1, <1>10 DEF ReadPosition
  <2>2. l \in Heard' /\ l \in Nat
    BY <2>1, PlayersHeard, HeardGrows
  <2>3. g = l /\ ~Transition(w, l)
    BY <2>1, <2>2, OneFileNumbers DEF LiveRow
  <2>4. \/ w.op = "pause" /\ Go(a, [w EXCEPT !.pc = "pause", !.pos = g, !.read = TRUE])
        \/ w.op = "stop" /\ Go(a, [w EXCEPT !.pc = "stop", !.pos = l, !.read = TRUE])
        \/ w.op = "seek" /\ Go(a, SeekPlan(w, Clamp(b, g + w.pos)))
        \/ w.op = "status" /\ Go(a, [w EXCEPT !.pc = "done", !.pos = g, !.read = TRUE])
        \/ w.op \in {"pause", "stop"} /\ Goto(a, w.op)
        \/ Return(a)
    BY <1>10, <2>3 DEF ReadPosition, Reported
  <2>5. ASSUME NEW pc, Go(a, [w EXCEPT !.pc = pc, !.pos = l, !.read = TRUE]), w.op # "seek"
        PROVE  WorkHeard'
    <3> HIDE DEF l
    <3>1. HeardWork([w EXCEPT !.pc = pc, !.pos = l, !.read = TRUE], Heard')
      BY <2>1, <2>2, <2>5 DEF HeardWork, Works
    <3> QED
      BY <2>5, <3>1, GoHeard
  <2>6. ASSUME w.op = "seek", Go(a, SeekPlan(w, Clamp(b, g + w.pos))) PROVE WorkHeard'
    <3> DEFINE c == Clamp(b, g + w.pos)
               v == SeekPlan(w, c)
    <3>1. c \in Nat
      BY <2>1, <2>2, <2>3, Clamping DEF Works
    <3>2. w.id \in RowIds /\ w.p = w.r.p /\ ~w.loaded /\ w.seg = 0 /\ w.r.seg = 0
      BY <2>1, <2>6 DEF HeardWork, Formed
    <3>3. Go(a, v)
      BY <2>6
    <3> HIDE DEF c
    <3>4. Segment(b, c) = 0 /\ Local(b, c) = c
      BY <2>1, <3>1, OneFileNumbers
    <3>5. /\ v.op = "seek" /\ v.r = w.r /\ ~v.loaded /\ v.pos = c /\ v.pc \in {"seek", "load"}
          /\ v.pc = "seek" => v.seek = Local(b, c) /\ v.seg = w.seg
          /\ v.pc = "load" => Segment(b, c) # w.r.seg
      BY <2>1, <2>6, <3>1, <3>2, Planning
    <3> HIDE DEF v
    <3>6. HeardWork(v, Heard')
      BY <2>1, <3>2, <3>4, <3>5 DEF HeardWork
    <3> QED
      BY <3>3, <3>6, GoHeard
  <2> QED
    BY <1>2, <1>3, <2>1, <2>3, <2>4, <2>5, <2>6
<1>11. CASE Pause(a) \/ SavePause(a) \/ StopPlayer(a) \/ StopOther(a) \/ SaveStop(a)
  <2>1. w \in Works /\ HeardWork(w, Heard') /\ w.op # "seek"
    BY <1>1, <1>11, Callers DEF Pause, SavePause, StopPlayer, StopOther, SaveStop, At
  <2>2. Return(a) \/ \E pc : Goto(a, pc)
    BY <1>11 DEF Pause, SavePause, StopPlayer, StopOther, SaveStop
  <2> QED
    BY <1>2, <1>3, <2>1, <2>2
<1>12. CASE DeleteRow(a) \/ CreateRow(a) \/ WriteRow(a)
  BY <1>2, <1>12 DEF DeleteRow, CreateRow, WriteRow
<1> QED
  BY <1>4, <1>5, <1>6, <1>7, <1>8, <1>9, <1>10, <1>11, <1>12 DEF Step

LEMMA HeardNext ==
  ASSUME OneFileEach, TypeInv, WitInv, HeardInv, [Next]_vars
  PROVE  HeardInv'
<1>1. TypeInv' /\ WitInv' /\ Grows
  BY NextTypes, NextPlaces
<1>2. AbsHeard' /\ TodoHeard'
  BY <1>1, AbsHeardNext, TodoHeardNext
<1>3. RowsHeard'
  <2>1. RowsHeard
    BY DEF HeardInv
  <2>2. ASSUME NEW a \in Requests, Step(a) \/ \E s \in Sessions : Request(a, s) PROVE RowsHeard'
    BY <1>1, <2>1, <2>2, Constants, StepRowsHeard, SameRowsHeard
       DEF Request, AskPlay, AskTransport, AskSeek
  <2> QED
    BY <1>1, <2>1, <2>2, OtherRowsHeard, SameRowsHeard DEF Next, vars
<1>4. WorkHeard'
  <2>1. CASE UNCHANGED at
    BY <1>1, <2>1, HeardGrows DEF HeardInv, WorkHeard, HeardWork
  <2>2. ASSUME NEW a \in Requests, Step(a) PROVE WorkHeard'
    BY <1>1, <2>2, Constants, StepWorkHeard
  <2>3. ASSUME NEW a \in Requests, NEW s \in Sessions, Request(a, s) PROVE WorkHeard'
    BY <1>1, <2>3, AskHeard
  <2>4. ASSUME NEW x \in todo["poller"], Poll(x) PROVE WorkHeard'
    <3> DEFINE p == x.r.p
               l == player[p].pos
               ended == Track(p) > 0 /\ player[p].pos >= Track(p) - EndMargin
               v == [Idle EXCEPT !.op = "poll", !.pc = "write", !.id = x.id, !.r = x.r,
                                 !.p = p, !.pos = l, !.on = ended]
    <3>1. "poller" \in Services /\ Take("poller", x)
      BY <2>4 DEF Poll, Services
    <3>2. p \in Players /\ "poller" \in Actors
      BY <3>1, Taking
    <3>3. l \in Heard' /\ x.r.pos \in Heard' /\ x.r.seg = 0
      BY <1>1, <3>1, <3>2, PlayersHeard, HeardGrows DEF HeardInv, TodoHeard
    <3>4. CASE Go("poller", v)
      <4> HIDE DEF l, ended, p
      <4>1. v.r = x.r /\ v.seg = 0 /\ v.pos = l /\ v.op = "poll"
        BY DEF Idle
      <4> HIDE DEF v
      <4>2. HeardWork(v, Heard')
        BY <3>3, <4>1 DEF HeardWork
      <4> QED
        BY <1>1, <3>2, <3>4, <4>2, GoHeard
    <3> QED
      BY <2>1, <2>4, <3>4 DEF Poll
  <2>5. ASSUME NEW x \in todo["sleeper"], Sleep(x) PROVE WorkHeard'
    <3> DEFINE w == [Holding("sleep", "pause", x.id) EXCEPT
                       !.r = x.r, !.p = x.r.p, !.seg = x.r.seg, !.pos = x.r.pos]
               l == player[x.r.p].pos
    <3>1. "sleeper" \in Services /\ Take("sleeper", x)
      BY <2>5 DEF Sleep, Services
    <3>2. x.r.p \in Players /\ "sleeper" \in Actors
      BY <3>1, Taking
    <3>3. l \in Heard' /\ x.r.pos \in Heard' /\ x.r.seg = 0
      BY <1>1, <3>1, <3>2, PlayersHeard, HeardGrows DEF HeardInv, TodoHeard
    <3>4. PICK v \in {w, [w EXCEPT !.pos = l, !.read = TRUE]} : Go("sleeper", v)
      BY <2>5 DEF Sleep
    <3> HIDE DEF l
    <3>5. v.r = x.r /\ v.seg = x.r.seg /\ v.pos \in {x.r.pos, l} /\ v.op = "sleep"
      <4>1. w.r = x.r /\ w.seg = x.r.seg /\ w.pos = x.r.pos /\ w.op = "sleep"
        BY DEF Holding, Idle
      <4>2. CASE v = w
        BY <4>1, <4>2
      <4>3. CASE v = [w EXCEPT !.pos = l, !.read = TRUE]
        BY <4>3 DEF Holding, Idle
      <4> QED
        BY <3>4, <4>2, <4>3
    <3> HIDE DEF w
    <3>6. HeardWork(v, Heard')
      BY <3>3, <3>5 DEF HeardWork
    <3> QED
      BY <1>1, <3>2, <3>4, <3>6, GoHeard
  <2>6. CASE PollWrite \/ SleepClear
    <3>1. \E a \in Actors : Return(a)
      BY <2>6, Constants DEF PollWrite, SleepClear
    <3> QED
      BY <1>1, <3>1, Gotos, GoHeard
  <2>7. CASE Pause("sleeper") \/ SavePause("sleeper")
    BY <1>1, <2>7, Constants, StepWorkHeard DEF Step
  <2>8. CASE Restart
    BY <2>8 DEF Restart, WorkHeard
  <2> QED
    BY <2>1, <2>2, <2>3, <2>4, <2>5, <2>6, <2>7, <2>8
       DEF Next, vars, Poller, Syncer, Sleeper, PollList, SyncList, SleepList, List, Sync, World,
           Tick, ByHand, Elsewhere, Logout, Login, SetTimer, TimerExpires
<1> QED
  BY <1>2, <1>3, <1>4 DEF HeardInv

LEMMA Hearing == OneFileEach /\ Spec => [](TypeInv /\ WitInv /\ HeardInv)
<1>1. ASSUME OneFileEach PROVE Spec => [](TypeInv /\ WitInv /\ HeardInv)
  <2>1. Init => TypeInv /\ WitInv /\ HeardInv
    BY InitTypes, InitPlaces, InitHeard
  <2>2. TypeInv /\ WitInv /\ HeardInv /\ [Next]_vars => (TypeInv /\ WitInv /\ HeardInv)'
    BY <1>1, NextTypes, NextPlaces, HeardNext
  <2> QED
    BY <2>1, <2>2, PTL DEF Spec
<1> QED
  BY <1>1

PositionsAreHeard ==
  /\ \A id \in Live : row[id].pos \in Heard
  /\ \A b \in Books : abs[b] \in Heard

\* Books that are one file, any number of them, of players, sessions and requests at
\* once, with every handler and goroutine: no position in a row or in ABS is one no
\* player was at and no client has saved.
THEOREM PositionsHeard == OneFileEach => (Spec => []PositionsAreHeard)
<1>1. HeardInv => PositionsAreHeard
  BY DEF HeardInv, RowsHeard, AbsHeard, PositionsAreHeard
<1> QED
  BY <1>1, Hearing, PTL

OneBook == \A b, c \in Books : b = c

\* With one such book, every row holds a place of that book. With two, a row may hold
\* a place of the other one: a second /play leaves the first row to the poller.
THEOREM RowPlaces == OneFileEach /\ OneBook => (Spec => []RowPositionsAreGlobal)
<1>1. ASSUME OneFileEach, OneBook PROVE Spec => []RowPositionsAreGlobal
  <2>1. ASSUME TypeInv, WitInv, HeardInv PROVE RowPositionsAreGlobal
    <3> SUFFICES ASSUME NEW id \in Live PROVE row[id].pos \in places[row[id].book]
      BY DEF RowPositionsAreGlobal
    <3>1. row[id].pos \in Heard
      BY <2>1 DEF HeardInv, RowsHeard
    <3>2. row[id].book \in Books
      BY <2>1 DEF TypeInv, RowsTyped, Live, LiveRow
    <3> QED
      BY <1>1, <2>1, <3>1, <3>2 DEF OneBook, WitInv, Heard
  <2> QED
    BY <1>1, <2>1, Hearing, PTL
<1> QED
  BY <1>1

\* And so does ABS, whatever the syncer, the handlers and the sleep timer send it late.
THEOREM ProgressPlaces == OneFileEach /\ OneBook => (Spec => []ProgressIsOfItsBook)
<1>1. ASSUME OneFileEach, OneBook PROVE Spec => []ProgressIsOfItsBook
  <2>1. ASSUME TypeInv, WitInv, HeardInv PROVE ProgressIsOfItsBook
    BY <1>1, <2>1 DEF OneBook, WitInv, HeardInv, AbsHeard, Heard, ProgressIsOfItsBook
  <2> QED
    BY <1>1, <2>1, Hearing, PTL
<1> QED
  BY <1>1

-----------------------------------------------------------------------------
(* One request at a time, from one session.                                   *)

\* With two at once, or a row of another session, the claims below are false: a
\* handler may write back what it read before the other one loaded a segment.
Alone == (\A a, b \in Requests : a = b) /\ (\A s, t \in Sessions : s = t)

\* The player of a row has what the row names.
Agrees(r) == player[r.p].book = r.book /\ player[r.p].seg = r.seg

Same(r, x) == r.s = x.s /\ r.book = x.book /\ r.p = x.p /\ r.seg = x.seg

\* The request has loaded what it will write into the row.
Touched(w) == (w.pc = "start" /\ w.op # "resume") \/ w.loaded

RowsInv == \A id \in Live : row[id].s \in login /\ row[id].seg < Count(row[id].book)

\* The row of the last /play agrees with its player, unless the request under way
\* has just loaded something else there, or loading was cut short.
LastInv ==
  made \in Live /\ row[made].p \notin muddled
    /\ (\A a \in Requests : ~(Touched(at[a]) /\ at[a].p = row[made].p))
  => Agrees(row[made])

\* What a request has read is still so.
OneInv(w) ==
  /\ w.op # "play" =>
       /\ made \in Live => w.id = made
       /\ w.id \in Live => Same(row[w.id], w.r)
       /\ w.r.seg < Count(w.r.book)
       /\ w.id = made /\ w.r.p \notin muddled /\ ~(Touched(w) /\ w.p = w.r.p) => Agrees(w.r)
  /\ Touched(w) => player[w.p].book = w.r.book /\ player[w.p].seg = w.seg
  /\ w.loaded => w.seg < Count(w.r.book)
  /\ w.pc \in {"load", "start"} /\ w.op # "resume" =>
       w.seg < Count(w.r.book) \/ (w.op = "play" /\ w.pos >= Duration[w.r.book])
  /\ w.op \in {"pause", "status"} /\ w.read /\ ~w.loaded /\ w.id = made /\ w.p \notin muddled
     => w.pos \in places[w.r.book]

OnesInv == \A a \in Requests : at[a] # Idle => OneInv(at[a])

SoloInv == RowsInv /\ LastInv /\ OnesInv

LEMMA InitSolo == Init => SoloInv
BY Constants DEF Init, SoloInv, RowsInv, LastInv, OnesInv, Live

\* Most steps add no row, and leave in each row and on each player the book and the segment.
RowsAlike ==
  /\ \A id \in RowIds : row'[id] = NoRow \/ (row[id] # NoRow /\ Same(row'[id], row[id]))
  /\ \A id \in Live' : row'[id].s \in login'
PlayersAlike ==
  \A p \in Players : player'[p].book = player[p].book /\ player'[p].seg = player[p].seg
Quiet == RowsAlike /\ PlayersAlike /\ made' = made /\ muddled \subseteq muddled'

LEMMA QuietLive ==
  ASSUME Quiet
  PROVE  Live' \subseteq Live /\ \A id \in Live' : Same(row'[id], row[id])
BY DEF Quiet, RowsAlike, PlayersAlike, Live

LEMMA QuietRows ==
  ASSUME Quiet, RowsInv
  PROVE  RowsInv'
BY QuietLive DEF Quiet, RowsAlike, PlayersAlike, RowsInv, Same

LEMMA QuietOne ==
  ASSUME Quiet, Grows, NEW w, Formed(w), OneInv(w)
  PROVE  OneInv(w)'
<1>1. /\ w.r.book \in Books /\ w.r.p \in Players /\ w.p \in Players
  BY DEF Formed, LiveRow
<1>2. /\ \A id \in Live' : id \in Live /\ Same(row'[id], row[id])
      /\ \A p \in Players : player'[p].book = player[p].book /\ player'[p].seg = player[p].seg
      /\ made' = made /\ muddled \subseteq muddled' /\ places[w.r.book] \subseteq places'[w.r.book]
  BY <1>1, QuietLive DEF Quiet, RowsAlike, PlayersAlike, Grows
<1>3. ASSUME w.op # "play"
      PROVE  /\ made' \in Live' => w.id = made'
             /\ w.id \in Live' => Same(row'[w.id], w.r)
             /\ w.r.seg < Count(w.r.book)
             /\ w.id = made' /\ w.r.p \notin muddled' /\ ~(Touched(w) /\ w.p = w.r.p) =>
                  player'[w.r.p].book = w.r.book /\ player'[w.r.p].seg = w.r.seg
  BY <1>1, <1>2, <1>3 DEF OneInv, Same, Agrees
<1>4. Touched(w) => player'[w.p].book = w.r.book /\ player'[w.p].seg = w.seg
  BY <1>1, <1>2 DEF OneInv
<1>5. w.op \in {"pause", "status"} /\ w.read /\ ~w.loaded /\ w.id = made' /\ w.p \notin muddled'
      => w.pos \in places'[w.r.book]
  BY <1>2 DEF OneInv
<1> QED
  BY <1>3, <1>4, <1>5 DEF OneInv, Agrees

LEMMA QuietOther ==
  ASSUME TypeInv, SoloInv, Quiet, Grows, \A a \in Requests : at'[a] = at[a]
  PROVE  SoloInv'
<1>1. RowsInv'
  BY QuietRows DEF SoloInv
<1>2. LastInv'
  <2>1. Live' \subseteq Live /\ (\A id \in Live' : Same(row'[id], row[id]))
    BY QuietLive
  <2>2. made' \in Live' => row[made].p \in Players
    BY <2>1 DEF Quiet, RowsAlike, PlayersAlike, TypeInv, RowsTyped, LiveRow, Live
  <2> QED
    BY <2>1, <2>2 DEF SoloInv, LastInv, Quiet, RowsAlike, PlayersAlike, Same, Agrees
<1>3. OnesInv'
  <2> SUFFICES ASSUME NEW a \in Requests, at'[a] # Idle PROVE OneInv(at[a])'
    BY DEF OnesInv
  <2>1. PICK w : w = at[a]
    OBVIOUS
  <2>2. at'[a] = w /\ w # Idle
    BY <2>1
  <2>3. Formed(w) /\ OneInv(w)
    BY <2>1, <2>2, Constants DEF TypeInv, WorkTyped, Sane, SoloInv, OnesInv
  <2>4. OneInv(w)'
    BY <2>3, QuietOne
  <2> QED
    BY <2>2, <2>4 DEF OneInv
<1> QED
  BY <1>1, <1>2, <1>3 DEF SoloInv

LEMMA QuietStep ==
  ASSUME Alone, TypeInv, SoloInv, Quiet, Grows, NEW a \in Requests, NEW v, Go(a, v),
         v = Idle \/ (Formed(v) /\ OneInv(v)),
         Touched(at[a]) => (Touched(v) /\ v.p = at[a].p) \/ at[a].p \in muddled'
  PROVE  SoloInv'
<1>1. RowsInv'
  BY QuietRows DEF SoloInv
<1>2. at'[a] = v /\ \A x \in Requests : x = a
  BY Constants DEF Alone, Go, TypeInv, WorkTyped
<1>3. LastInv'
  <2>1. Live' \subseteq Live /\ (\A id \in Live' : Same(row'[id], row[id]))
    BY QuietLive
  <2>2. made' \in Live' => row[made].p \in Players
    BY <2>1 DEF Quiet, RowsAlike, PlayersAlike, TypeInv, RowsTyped, LiveRow, Live
  <2>3. ASSUME made' \in Live', row'[made'].p \notin muddled',
               \A x \in Requests : ~(Touched(at'[x]) /\ at'[x].p = row'[made'].p)
        PROVE  player'[row'[made'].p].book = row'[made'].book /\ player'[row'[made'].p].seg = row'[made'].seg
    <3>1. made' = made /\ made \in Live /\ Same(row'[made], row[made]) /\ row[made].p \notin muddled
      BY <2>1, <2>3 DEF Quiet, RowsAlike, PlayersAlike, Same
    <3>2. \A x \in Requests : ~(Touched(at[x]) /\ at[x].p = row[made].p)
      BY <1>2, <2>3, <3>1 DEF Same
    <3>3. Agrees(row[made])
      BY <3>1, <3>2 DEF SoloInv, LastInv
    <3> QED
      BY <2>2, <2>3, <3>1, <3>3 DEF Quiet, RowsAlike, PlayersAlike, Same, Agrees
  <2> QED
    BY <2>3 DEF LastInv, Agrees
<1>4. OnesInv'
  <2>1. v # Idle => OneInv(v)'
    BY QuietOne
  <2> SUFFICES ASSUME NEW x \in Requests, at'[x] # Idle PROVE OneInv(at[x])'
    BY DEF OnesInv
  <2>2. at'[x] = v
    BY <1>2
  <2> QED
    BY <2>1, <2>2 DEF OneInv
<1> QED
  BY <1>1, <1>3, <1>4 DEF SoloInv

LEMMA SameRowsAlike ==
  ASSUME SoloInv, UNCHANGED row, login \subseteq login'
  PROVE  RowsAlike
BY DEF SoloInv, RowsInv, RowsAlike, Same, Live

LEMMA UpdateAlike ==
  ASSUME TypeInv, SoloInv, NEW id \in RowIds, NEW r, Update(id, r), login \subseteq login',
         row[id] # NoRow => Same(r, row[id])
  PROVE  RowsAlike
<1>1. \A i \in RowIds : row'[i] = IF i = id /\ row[i] # NoRow THEN r ELSE row[i]
  BY DEF TypeInv, RowsTyped, Update
<1>2. \A i \in RowIds : row'[i] # NoRow => row[i] # NoRow /\ Same(row'[i], row[i])
  BY <1>1 DEF Same
<1> QED
  BY <1>2 DEF SoloInv, RowsInv, RowsAlike, Same, Live

\* The columns that are written without the segment.
LEMMA ColumnsAlike ==
  ASSUME TypeInv, NEW id \in RowIds, row[id] # NoRow
  PROVE  /\ \A pos : Same([row[id] EXCEPT !.pos = pos], row[id])
         /\ \A b : Same([row[id] EXCEPT !.playing = b], row[id])
         /\ \A t : Same([row[id] EXCEPT !.timer = t], row[id])
<1>1. row[id] \in LiveRow
  BY RowOrNone
<1> QED
  BY <1>1 DEF Same, LiveRow

LEMMA CommandAlike ==
  ASSUME TypeInv, NEW p \in Players, NEW x, NEW ok, Command(p, x, ok),
         x.book = player[p].book, x.seg = player[p].seg
  PROVE  PlayersAlike
BY DEF TypeInv, PlayersTyped, Command, PlayersAlike

\* Pausing, stopping, starting and seeking leave what is loaded.
LEMMA CommandsAlike ==
  ASSUME TypeInv, NEW p \in Players
  PROVE  /\ Stopped(player[p]).book = player[p].book /\ Stopped(player[p]).seg = player[p].seg
         /\ Paused(player[p]).book = player[p].book /\ Paused(player[p]).seg = player[p].seg
         /\ \A s, l : LET x == [player[p] EXCEPT !.state = s]
                          y == [player[p] EXCEPT !.pos = l]
                      IN  /\ x.book = player[p].book /\ x.seg = player[p].seg
                          /\ y.book = player[p].book /\ y.seg = player[p].seg
BY DEF TypeInv, PlayersTyped, Loadeds, Stopped, Paused

LEMMA AskSolo ==
  ASSUME Alone, TypeInv, SoloInv, NEW a \in Requests, NEW s \in Sessions, Request(a, s)
  PROVE  SoloInv'
<1>1. /\ UNCHANGED <<row, made, player, abs, login, todo, places, muddled>>
      /\ at[a] = Idle
  BY DEF Request, AskPlay, AskTransport, AskSeek, Ask
<1>2. Quiet /\ Grows /\ ~Touched(at[a])
  BY <1>1, SameRowsAlike DEF Quiet, PlayersAlike, Grows, Touched, Idle
<1>3. ASSUME NEW id \in Latest(s), NEW op \in AllOps \ {"play"}, NEW pc \in Pcs
      PROVE  LET h == Holding(op, pc, id)
             IN  /\ h \in Works /\ h.op = op /\ h.pc = pc /\ h.r \in LiveRow /\ h.r = row[id]
                 /\ h.id = id /\ h.p = h.r.p /\ ~h.loaded /\ ~h.read /\ id \in RowIds
                 /\ made \in Live => id = made
                 /\ h.r.seg < Count(h.r.book)
                 /\ id = made /\ h.r.p \notin muddled => Agrees(h.r)
  <2> DEFINE h == Holding(op, pc, id)
  <2>1. /\ id \in Live /\ id \in RowIds /\ row[id] \in LiveRow
        /\ \A j \in Live : row[j].s = s => j <= id
    BY Reading
  <2>2. /\ h \in Works /\ h.op = op /\ h.pc = pc /\ h.r = row[id]
        /\ h.id = id /\ h.p = row[id].p /\ ~h.loaded /\ ~h.read
    BY <2>1, Held
  <2>3. made \in Live => id = made
    <3> SUFFICES ASSUME made \in Live PROVE id = made
      OBVIOUS
    <3>1. row[made] \in LiveRow /\ made \in Nat /\ id \in Nat /\ id <= made
      BY <2>1, Constants DEF TypeInv, RowsTyped, Live
    <3>2. row[made].s = s
      BY <3>1 DEF LiveRow, Alone
    <3>3. made <= id
      BY <2>1, <3>2
    <3> QED
      BY <3>1, <3>3
  <2>4. row[id].seg < Count(row[id].book)
    BY <2>1 DEF SoloInv, RowsInv
  <2>5. id = made /\ row[id].p \notin muddled => Agrees(row[id])
    <3>1. \A x \in Requests : ~Touched(at[x])
      BY <1>2 DEF Alone
    <3> QED
      BY <2>1, <3>1 DEF SoloInv, LastInv
  <2> QED
    BY <2>1, <2>2, <2>3, <2>4, <2>5
<1>4. ASSUME NEW v, Go(a, v), Formed(v), v.r \in LiveRow, v.p = v.r.p \/ v.op = "switch",
             v.op # "play", v.pc # "start",
             \E id \in Latest(s) : /\ v.id = id /\ v.r = row[id] /\ ~v.loaded /\ ~v.read
                                   /\ made \in Live => id = made
                                   /\ v.r.seg < Count(v.r.book)
                                   /\ id = made /\ v.r.p \notin muddled => Agrees(v.r),
             v.pc = "load" => v.seg < Count(v.r.book)
      PROVE  SoloInv'
  <2>1. OneInv(v)
    BY <1>4 DEF OneInv, Touched, Same
  <2> QED
    BY <1>2, <1>4, <2>1, QuietStep
<1>5. ASSUME NEW b \in Books, NEW p \in Players, AskPlay(a, s, b, p) PROVE SoloInv'
  <2> DEFINE r == [NoRow EXCEPT !.s = s, !.book = b, !.p = p, !.playing = TRUE]
             v == [Idle EXCEPT !.op = "play", !.pc = "progress", !.p = p, !.r = r]
  <2>1. Go(a, v)
    BY <1>5 DEF AskPlay
  <2>2. r \in LiveRow /\ r.p = p
    BY DEF NoRow, LiveRow, Timers
  <2> HIDE DEF r
  <2>3. v.r = r /\ v.pos = 0 /\ v.op = "play" /\ v.pc = "progress" /\ v.p = p /\ v.id = 0 /\ ~v.loaded
    BY DEF Idle
  <2>4. Formed(v)
    BY <2>2, <2>3 DEF Formed, Calls
  <2>5. OneInv(v)
    BY <2>3 DEF OneInv, Touched
  <2> HIDE DEF v
  <2> QED
    BY <1>2, <2>1, <2>4, <2>5, QuietStep
<1>6. CASE AskTransport(a, s)
  <2>1. PICK id \in Latest(s) :
          \/ Go(a, Holding("pause", "read", id))
          \/ Go(a, Holding("status", "transport", id))
          \/ Go(a, Holding("resume", "progress", id))
          \/ \E q \in {NoPlayer} \cup (Players \ {row[id].p}) :
               Go(a, [Holding("stop", "read", id) EXCEPT !.q = q])
          \/ \E q \in Players \ {row[id].p} :
               Go(a, [Holding("switch", "halt", id) EXCEPT !.q = q])
    BY <1>6 DEF AskTransport
  <2>2. PICK v \in Works, op \in {"pause", "status", "resume", "stop", "switch"},
             pc \in {"read", "transport", "progress", "halt"} :
          /\ Go(a, v) /\ v.op = op /\ v.pc = pc /\ v.id = id /\ v.r = row[id] /\ v.p = v.r.p
          /\ ~v.loaded /\ ~v.read
    <3>1. ASSUME NEW op \in {"pause", "status", "resume", "stop", "switch"},
                 NEW pc \in {"read", "transport", "progress", "halt"},
                 NEW q \in {NoPlayer} \cup Players, NEW v,
                 v = Holding(op, pc, id) \/ v = [Holding(op, pc, id) EXCEPT !.q = q]
          PROVE  /\ v \in Works /\ v.op = op /\ v.pc = pc /\ v.id = id /\ v.r = row[id]
                 /\ v.p = v.r.p /\ ~v.loaded /\ ~v.read
      <4> DEFINE h == Holding(op, pc, id)
      <4>1. /\ h \in Works /\ h.op = op /\ h.pc = pc /\ h.id = id /\ h.r = row[id]
            /\ h.p = h.r.p /\ ~h.loaded /\ ~h.read
        BY <1>3 DEF AllOps, Pcs
      <4>2. v = h \/ v = [h EXCEPT !.q = q]
        BY <3>1
      <4> HIDE DEF h
      <4> QED
        BY <4>1, <4>2 DEF Works
    <3>2. PICK op \in {"pause", "status", "resume", "stop", "switch"},
               pc \in {"read", "transport", "progress", "halt"},
               q \in {NoPlayer} \cup Players : \E v :
            /\ v = Holding(op, pc, id) \/ v = [Holding(op, pc, id) EXCEPT !.q = q]
            /\ Go(a, v)
      BY <2>1
    <3> QED
      BY <3>1, <3>2
  <2>3. /\ v.r \in LiveRow /\ (made \in Live => id = made)
        /\ v.r.seg < Count(v.r.book)
        /\ id = made /\ v.r.p \notin muddled => Agrees(v.r)
    BY <1>3, <2>2 DEF AllOps, Pcs
  <2>4. Formed(v)
    <3>1. TypeInv'
      BY AskTypes, <1>6
    <3>2. at'[a] = v
      BY <2>2, Constants DEF Go, TypeInv, WorkTyped
    <3> QED
      BY <2>2, <3>1, <3>2, Constants DEF TypeInv, WorkTyped, Sane, Idle, Formed
  <2> QED
    BY <1>4, <2>2, <2>3, <2>4
<1>7. CASE AskSeek(a, s)
  <2>1. PICK id \in Latest(s) :
          \/ \E g \in Positions : Go(a, SeekPlan(Holding("seek", "seek", id), g))
          \/ \E k \in Skips : Go(a, [Holding("seek", "read", id) EXCEPT !.pos = k])
    BY <1>7 DEF AskSeek
  <2>2. ASSUME NEW g \in Positions, Go(a, SeekPlan(Holding("seek", "seek", id), g)) PROVE SoloInv'
    <3> DEFINE h == Holding("seek", "seek", id)
               v == SeekPlan(h, g)
    <3>1. /\ h \in Works /\ h.op = "seek" /\ h.r \in LiveRow /\ h.id = id /\ h.id \in RowIds
          /\ h.p = h.r.p /\ h.r = row[id] /\ ~h.loaded /\ ~h.read
          /\ made \in Live => id = made
          /\ h.r.seg < Count(h.r.book)
          /\ id = made /\ h.r.p \notin muddled => Agrees(h.r)
      BY <1>3 DEF AllOps, Pcs
    <3>2. g \in Nat /\ Go(a, v)
      BY <2>2, BooksAssumption
    <3> HIDE DEF h
    <3>3. /\ Formed(v) /\ v.op = "seek" /\ v.id = id /\ v.r = row[id] /\ v.p = v.r.p
          /\ ~v.loaded /\ ~v.read /\ v.pc \in {"seek", "load"}
          /\ v.pc = "load" => v.seg < Count(v.r.book)
      BY <3>1, <3>2, Planning
    <3> HIDE DEF v
    <3> QED
      BY <1>4, <3>1, <3>2, <3>3
  <2>3. ASSUME NEW k \in Skips, Go(a, [Holding("seek", "read", id) EXCEPT !.pos = k]) PROVE SoloInv'
    <3> DEFINE h == Holding("seek", "read", id)
               v == [h EXCEPT !.pos = k]
    <3>1. /\ h \in Works /\ h.op = "seek" /\ h.pc = "read" /\ h.r \in LiveRow /\ h.id = id
          /\ h.id \in RowIds /\ h.p = h.r.p /\ h.r = row[id] /\ ~h.loaded /\ ~h.read
          /\ made \in Live => id = made
          /\ h.r.seg < Count(h.r.book)
          /\ id = made /\ h.r.p \notin muddled => Agrees(h.r)
      BY <1>3 DEF AllOps, Pcs
    <3>2. Go(a, v)
      BY <2>3
    <3> HIDE DEF h
    <3>3. /\ v.op = "seek" /\ v.id = id /\ v.r = row[id] /\ v.p = v.r.p /\ v.pc = "read"
          /\ ~v.loaded /\ ~v.read
      BY <3>1 DEF Works
    <3>4. Formed(v)
      BY <3>1, <3>3 DEF Formed, Calls
    <3> HIDE DEF v
    <3> QED
      BY <1>4, <3>1, <3>2, <3>3, <3>4
  <2> QED
    BY <2>1, <2>2, <2>3
<1> QED
  BY <1>5, <1>6, <1>7 DEF Request

\* Where a step of a request goes is as Formed says.
LEMMA StepFormed ==
  ASSUME TypeInv, NEW a \in Requests, Step(a), NEW v, Go(a, v)
  PROVE  v = Idle \/ (v \in Works /\ Formed(v))
<1>1. TypeInv'
  BY NextTypes DEF Next
<1>2. at'[a] = v
  BY Constants DEF Go, TypeInv, WorkTyped
<1> QED
  BY <1>1, <1>2, Constants DEF TypeInv, WorkTyped, Sane, Works, Formed, Idle

\* A step that neither loads anything nor reads the position keeps what holds of it.
LEMMA OneGoes ==
  ASSUME NEW w, NEW v, OneInv(w), v.op = w.op, v.id = w.id, v.r = w.r, v.loaded <=> w.loaded,
         Touched(v) => Touched(w) /\ v.p = w.p /\ v.seg = w.seg, Touched(w) => Touched(v),
         v.pc \in {"load", "start"} /\ v.op # "resume" =>
           v.seg < Count(v.r.book) \/ (v.op = "play" /\ v.pos >= Duration[v.r.book]),
         \/ (v.read => w.read) /\ v.pos = w.pos /\ v.p = w.p
         \/ v.op \notin {"pause", "status"}
         \/ v.id = made /\ v.p \notin muddled => v.pos \in places[v.r.book]
  PROVE  OneInv(v)
<1>1. v.op # "play" => /\ made \in Live => v.id = made
                       /\ v.id \in Live => Same(row[v.id], v.r)
                       /\ v.r.seg < Count(v.r.book)
                       /\ v.id = made /\ v.r.p \notin muddled /\ ~(Touched(v) /\ v.p = v.r.p)
                            => Agrees(v.r)
  BY DEF OneInv
<1>2. Touched(v) => player[v.p].book = v.r.book /\ player[v.p].seg = v.seg
  BY DEF OneInv
<1>3. v.loaded => v.seg < Count(v.r.book)
  BY DEF OneInv, Touched
<1>4. v.op \in {"pause", "status"} /\ v.read /\ ~v.loaded /\ v.id = made /\ v.p \notin muddled
      => v.pos \in places[v.r.book]
  BY DEF OneInv
<1> QED
  BY <1>1, <1>2, <1>3, <1>4 DEF OneInv

\* A quiet step of a request.
LEMMA QuietGoes ==
  ASSUME Alone, TypeInv, WitInv, SoloInv, NEW a \in Requests, Step(a), Quiet,
         NEW v, Go(a, v), v = Idle \/ OneInv(v),
         Touched(at[a]) => (Touched(v) /\ v.p = at[a].p) \/ at[a].p \in muddled'
  PROVE  SoloInv'
<1>1. v = Idle \/ Formed(v)
  BY StepFormed
<1>2. Grows
  BY Constants, StepPlaces
<1> QED
  BY <1>1, <1>2, QuietStep

LEMMA SoloWorking ==
  ASSUME TypeInv, SoloInv, NEW a \in Requests, at[a].pc # "idle"
  PROVE  /\ a \in Actors /\ at[a] \in Works /\ Formed(at[a]) /\ OneInv(at[a])
         /\ at[a].r \in LiveRow /\ at[a].p \in Players /\ at[a].r.book \in Books
<1>1. a \in Actors /\ at[a] \in Works /\ Formed(at[a]) /\ at[a] # Idle
  BY Constants, Working
<1> QED
  BY <1>1 DEF SoloInv, OnesInv, Formed, LiveRow

\* Where /play starts is in a segment that exists, but at the end of the book.
LEMMA PlayStarts ==
  ASSUME NEW b \in Books, NEW g \in Nat
  PROVE  Segment(b, g) < Count(b) \/ g >= Duration[b]
<1>1. Duration[b] \in Nat \ {0} /\ SegSec[b] \in Nat /\ Segment(b, g) \in Nat /\ Count(b) \in Nat
  BY Numbers
<1>2. CASE g < Duration[b]
  <2>1. g \in 0 .. Duration[b] - 1
    BY <1>1, <1>2
  <2>2. Segment(b, g) \in 0 .. Count(b) - 1
    BY <1>1, <2>1, PositionHasItsFile DEF Segment, Count
  <2> QED
    BY <1>1, <2>2
<1> QED
  BY <1>1, <1>2

LEMMA GetProgressSolo ==
  ASSUME Alone, TypeInv, WitInv, SoloInv, NEW a \in Requests, GetProgress(a)
  PROVE  SoloInv'
<1> DEFINE w == at[a]
           b == w.r.book
<1>1. /\ w \in Works /\ Formed(w) /\ OneInv(w) /\ b \in Books /\ w.pc = "progress"
      /\ w.op \in {"play", "resume"}
  BY SoloWorking, Callers DEF GetProgress
<1>2. ~w.loaded
  BY <1>1 DEF Formed
<1>3. Quiet
  BY SameRowsAlike DEF GetProgress, Quiet, PlayersAlike
<1>4. PICK got \in {0, abs[b]} :
        \/ /\ w.op = "play"
           /\ Go(a, [w EXCEPT !.pc = "load", !.pos = got, !.seg = Segment(b, got),
                              !.seek = IF got > 0 THEN Local(b, got) ELSE NoSeek])
        \/ /\ w.op # "play"
           /\ \/ Go(a, [w EXCEPT !.pc = "start", !.pos = got, !.seek = Local(b, got)])
              \/ Go(a, [w EXCEPT !.pc = "start"])
  BY DEF GetProgress
<1>5. got \in Nat
  BY <1>1 DEF TypeInv, RestTyped
<1> DEFINE k == Segment(b, got)
           l == Local(b, got)
           u == IF got > 0 THEN l ELSE NoSeek
<1>6. k < Count(b) \/ got >= Duration[b]
  BY <1>1, <1>5, PlayStarts
<1> HIDE DEF k, l, u
<1>7. CASE w.op = "play" /\ Go(a, [w EXCEPT !.pc = "load", !.pos = got, !.seg = k, !.seek = u])
  <2> DEFINE v == [w EXCEPT !.pc = "load", !.pos = got, !.seg = k, !.seek = u]
  <2>1. /\ v.op = "play" /\ v.id = w.id /\ v.r = w.r /\ ~v.loaded /\ v.pc = "load" /\ v.seg = k
        /\ v.pos = got
    BY <1>1, <1>2, <1>7 DEF Works
  <2>2. Go(a, v)
    BY <1>7
  <2> HIDE DEF v
  <2>3. ~Touched(v) /\ ~Touched(w)
    BY <1>1, <1>2, <2>1 DEF Touched
  <2>4. OneInv(v)
    BY <1>1, <1>2, <1>6, <1>7, <2>1, <2>3, OneGoes
  <2> QED
    BY <1>3, <2>2, <2>3, <2>4, QuietGoes DEF Step
<1>8. CASE w.op = "resume" /\ (\/ Go(a, [w EXCEPT !.pc = "start", !.pos = got, !.seek = l])
                               \/ Go(a, [w EXCEPT !.pc = "start"]))
  <2>1. PICK v : /\ Go(a, v) /\ v.op = "resume" /\ v.id = w.id /\ v.r = w.r /\ ~v.loaded
                 /\ v.pc = "start"
    <3>1. ASSUME NEW v, v = [w EXCEPT !.pc = "start", !.pos = got, !.seek = l]
                        \/ v = [w EXCEPT !.pc = "start"]
          PROVE  v.op = "resume" /\ v.id = w.id /\ v.r = w.r /\ ~v.loaded /\ v.pc = "start"
      BY <1>1, <1>2, <1>8, <3>1 DEF Works
    <3> QED
      BY <1>8, <3>1
  <2>2. ~Touched(v) /\ ~Touched(w)
    BY <1>1, <1>2, <2>1 DEF Touched
  <2>3. OneInv(v)
    BY <1>1, <1>2, <1>8, <2>1, <2>2, OneGoes
  <2> QED
    BY <1>3, <2>1, <2>2, <2>3, QuietGoes DEF Step
<1> QED
  BY <1>1, <1>4, <1>7, <1>8 DEF k, l, u

LEMMA HaltSolo ==
  ASSUME Alone, TypeInv, WitInv, SoloInv, NEW a \in Requests, Halt(a)
  PROVE  SoloInv'
<1> DEFINE w == at[a]
           l == w.r.pos - w.r.seg * SegSec[w.r.book]
           u == IF l > 0 THEN l ELSE NoSeek
           v == [w EXCEPT !.pc = "load", !.p = w.q, !.seek = u]
<1>1. /\ w \in Works /\ Formed(w) /\ OneInv(w) /\ w.p \in Players /\ w.pc = "halt"
      /\ w.op = "switch"
  BY SoloWorking, Callers DEF Halt
<1>2. ~w.loaded /\ w.seg = w.r.seg
  BY <1>1 DEF Formed
<1>3. PlayersAlike
  BY <1>1, CommandsAlike, CommandAlike DEF Halt
<1>4. Quiet
  BY <1>3, SameRowsAlike DEF Halt, Quiet
<1>5. Go(a, v)
  BY DEF Halt
<1> HIDE DEF u
<1>6. /\ v.op = w.op /\ v.id = w.id /\ v.r = w.r /\ ~v.loaded /\ v.pc = "load" /\ v.seg = w.seg
  BY <1>1, <1>2 DEF Works
<1> HIDE DEF v
<1>7. ~Touched(v) /\ ~Touched(w)
  BY <1>1, <1>2, <1>6 DEF Touched
<1>8. v.seg < Count(v.r.book)
  BY <1>1, <1>2, <1>6 DEF OneInv
<1>9. OneInv(v)
  BY <1>1, <1>2, <1>6, <1>7, <1>8, OneGoes
<1> QED
  BY <1>4, <1>5, <1>7, <1>9, QuietGoes DEF Step


\* A step that writes at most the position or is_playing of the row it is about.
LEMMA WritesAlike ==
  ASSUME TypeInv, SoloInv, NEW id \in RowIds, NEW pos, NEW b, login \subseteq login',
         \/ UNCHANGED row
         \/ Update(id, [row[id] EXCEPT !.pos = pos])
         \/ Update(id, [row[id] EXCEPT !.playing = b])
         \/ Update(id, [row[id] EXCEPT !.timer = b])
  PROVE  RowsAlike
<1>1. CASE UNCHANGED row
  BY <1>1, SameRowsAlike
<1>2. CASE Update(id, [row[id] EXCEPT !.pos = pos])
  BY <1>2, ColumnsAlike, UpdateAlike
<1>3. CASE Update(id, [row[id] EXCEPT !.playing = b])
  BY <1>3, ColumnsAlike, UpdateAlike
<1>4. CASE Update(id, [row[id] EXCEPT !.timer = b])
  BY <1>4, ColumnsAlike, UpdateAlike
<1> QED
  BY <1>1, <1>2, <1>3, <1>4

\* To the next call, with what was loaded as it was.
LEMMA GotoSolo ==
  ASSUME Alone, TypeInv, WitInv, SoloInv, NEW a \in Requests, Step(a), Quiet, NEW pc, Goto(a, pc),
         at[a].pc # "idle", at[a].pc # "start" \/ at[a].op = "resume", pc \notin {"load", "start"}
  PROVE  SoloInv'
<1> DEFINE w == at[a]
           v == [w EXCEPT !.pc = pc]
<1>1. w \in Works /\ OneInv(w) /\ Go(a, v)
  BY SoloWorking, Gotos, Constants
<1>2. /\ v.op = w.op /\ v.id = w.id /\ v.r = w.r /\ v.loaded = w.loaded /\ v.pc = pc
      /\ v.seg = w.seg /\ v.p = w.p /\ v.pos = w.pos /\ v.read = w.read
  BY <1>1 DEF Works
<1> HIDE DEF v
<1>3. (Touched(v) <=> w.loaded) /\ (Touched(w) <=> w.loaded)
  BY <1>2 DEF Touched
<1>4. OneInv(v)
  BY <1>1, <1>2, <1>3, OneGoes
<1> QED
  BY <1>1, <1>2, <1>3, <1>4, QuietGoes

\* Or to the end, with nothing loaded.
LEMMA ReturnSolo ==
  ASSUME Alone, TypeInv, WitInv, SoloInv, NEW a \in Requests, Step(a), Quiet, Return(a),
         Touched(at[a]) => at[a].p \in muddled'
  PROVE  SoloInv'
<1>1. Go(a, Idle)
  BY DEF Return, Go
<1> QED
  BY <1>1, QuietGoes

LEMMA ResumeStartSolo ==
  ASSUME Alone, TypeInv, WitInv, SoloInv, NEW a \in Requests, ResumeStart(a)
  PROVE  SoloInv'
<1> DEFINE w == at[a]
           x == IF Track(w.p) > 0 THEN [player[w.p] EXCEPT !.state = "playing"] ELSE player[w.p]
<1>1. w \in Works /\ Formed(w) /\ w.pc = "start" /\ w.op = "resume" /\ w.p \in Players
  BY SoloWorking DEF ResumeStart, At
<1>2. w.id \in RowIds
  BY <1>1 DEF Formed
<1>3. RowsAlike
  BY <1>2, WritesAlike DEF ResumeStart
<1>4. PlayersAlike
  <2>1. x.book = player[w.p].book /\ x.seg = player[w.p].seg
    BY <1>1, CommandsAlike
  <2>2. \E ok : Command(w.p, x, ok)
    BY DEF ResumeStart
  <2> HIDE DEF x
  <2> QED
    BY <1>1, <2>1, <2>2, CommandAlike
<1>5. Quiet
  BY <1>3, <1>4 DEF Quiet, ResumeStart
<1>6. CASE Goto(a, AfterStart(w))
  BY <1>1, <1>5, <1>6, GotoSolo DEF Step, AfterStart
<1>7. CASE Return(a)
  <2>1. ~Touched(w)
    BY <1>1 DEF Touched, Formed
  <2> QED
    BY <1>5, <1>7, <2>1, ReturnSolo DEF Step
<1> QED
  BY <1>6, <1>7 DEF ResumeStart

LEMMA SeekInSolo ==
  ASSUME Alone, TypeInv, WitInv, SoloInv, NEW a \in Requests, SeekIn(a)
  PROVE  SoloInv'
<1> DEFINE w == at[a]
           can == w.seek <= Track(w.p)
           x == IF can THEN [player[w.p] EXCEPT !.pos = w.seek] ELSE player[w.p]
<1>1. w \in Works /\ Formed(w) /\ w.pc = "seek" /\ w.p \in Players
  BY SoloWorking DEF SeekIn
<1>2. PlayersAlike
  <2>1. x.book = player[w.p].book /\ x.seg = player[w.p].seg
    BY <1>1, CommandsAlike
  <2>2. \E ok : Command(w.p, x, ok)
    BY DEF SeekIn
  <2> HIDE DEF x
  <2> QED
    BY <1>1, <2>1, <2>2, CommandAlike
<1>3. Quiet
  BY <1>2, SameRowsAlike DEF Quiet, SeekIn
<1>4. CASE Goto(a, "done")
  BY <1>1, <1>3, <1>4, GotoSolo DEF Step
<1>5. CASE ~w.loaded /\ Return(a)
  <2>1. ~Touched(w)
    BY <1>1, <1>5 DEF Touched
  <2> QED
    BY <1>3, <1>5, <2>1, ReturnSolo DEF Step
<1> QED
  BY <1>4, <1>5 DEF SeekIn

LEMMA GetTransportSolo ==
  ASSUME Alone, TypeInv, WitInv, SoloInv, NEW a \in Requests, GetTransport(a)
  PROVE  SoloInv'
<1> DEFINE w == at[a]
<1>1. w \in Works /\ Formed(w) /\ OneInv(w) /\ w.pc = "transport"
  BY SoloWorking DEF GetTransport
<1>2. PICK n : Go(a, [w EXCEPT !.pc = "read", !.on = n])
  BY DEF GetTransport
<1> DEFINE v == [w EXCEPT !.pc = "read", !.on = n]
<1>3. Quiet
  BY SameRowsAlike DEF Quiet, PlayersAlike, GetTransport
<1>4. /\ v.op = w.op /\ v.id = w.id /\ v.r = w.r /\ v.loaded = w.loaded /\ v.pc = "read"
      /\ v.seg = w.seg /\ v.p = w.p /\ v.pos = w.pos /\ v.read = w.read
  BY <1>1 DEF Works
<1>5. Go(a, v)
  BY <1>2
<1> HIDE DEF v
<1>6. (Touched(v) <=> w.loaded) /\ (Touched(w) <=> w.loaded)
  BY <1>1, <1>4 DEF Touched
<1>7. OneInv(v)
  BY <1>1, <1>4, <1>6, OneGoes
<1> QED
  BY <1>3, <1>4, <1>5, <1>6, <1>7, QuietGoes DEF Step


LEMMA ReadPositionSolo ==
  ASSUME Alone, TypeInv, WitInv, SoloInv, NEW a \in Requests, ReadPosition(a)
  PROVE  SoloInv'
<1> DEFINE w == at[a]
           b == w.r.book
           l == player[w.p].pos
           g == Global(b, w.r.seg, l)
<1>1. /\ w \in Works /\ Formed(w) /\ OneInv(w) /\ w.pc = "read" /\ w.p \in Players /\ b \in Books
      /\ w.op \in {"seek", "status", "pause", "stop"} /\ w.r \in LiveRow
  BY SoloWorking, Callers DEF ReadPosition
<1>2. w.p = w.r.p /\ ~w.loaded /\ ~Touched(w) /\ w.id \in RowIds
  BY <1>1 DEF Formed, Touched
<1>3. Quiet
  <2>1. /\ UNCHANGED <<made, player, abs, login, todo, places, muddled>>
        /\ \/ UNCHANGED row
           \/ w.op = "status" /\ Update(w.id, [row[w.id] EXCEPT !.playing = w.on])
    BY ReadPositionGoes
  <2>2. RowsAlike
    BY <1>2, <2>1, WritesAlike
  <2> QED
    BY <2>1, <2>2 DEF Quiet, PlayersAlike
<1>4. w.id = made /\ w.p \notin muddled => g \in places[b]
  <2>1. w.op # "play"
    BY <1>1
  <2>2. w.id = made /\ w.p \notin muddled => Agrees(w.r)
    BY <1>1, <1>2, <2>1 DEF OneInv
  <2> QED
    BY <1>1, <1>2, <2>2, Constants DEF Agrees, WitInv
<1>5. l \in Nat /\ g \in Nat
  BY ReadPositionGoes
<1>6. PICK v : /\ Go(a, v)
               /\ \/ v = Idle
                  \/ /\ v \in Works /\ Formed(v) /\ v.op = w.op /\ v.r = w.r /\ v.p = w.p
                     /\ v.id = w.id /\ ~v.loaded
                     /\ \/ w.op = "pause" /\ v.pc = "pause" /\ v.pos = g
                        \/ w.op = "stop" /\ v.pc = "stop" /\ v.pos = l
                        \/ w.op \in {"pause", "stop"} /\ v = [w EXCEPT !.pc = w.op]
                        \/ w.op = "seek" /\ v = SeekPlan(w, Clamp(b, g + w.pos))
                        \/ w.op = "status" /\ v.pc = "done" /\ v.pos = g
                        \/ /\ w.op = "status" /\ v.pc = "load" /\ v.pos = g
                           /\ Transition(w, l) /\ v.seg = w.r.seg + 1
  BY ReadPositionGoes
<1>7. CASE v = Idle
  BY <1>2, <1>3, <1>6, <1>7, QuietGoes DEF Step
<1>8. CASE v # Idle
  <2>1. /\ v.op = w.op /\ v.r = w.r /\ v.p = w.p /\ v.id = w.id /\ ~v.loaded
    BY <1>6, <1>8
  <2>2. /\ v.pc \in {"pause", "stop", "seek", "done", "load"}
        /\ v.pc = "load" => v.seg < Count(v.r.book)
        /\ \/ v.op \notin {"pause", "status"}
           \/ v.read = w.read /\ v.pos = w.pos
           \/ v.pos = g
    <3>1. CASE w.op = "seek" /\ v = SeekPlan(w, Clamp(b, g + w.pos))
      <4>1. Clamp(b, g + w.pos) \in Nat
        <5>1. g + w.pos \in Int
          BY <1>1, <1>5 DEF Works
        <5> QED
          BY <1>1, <5>1, Clamping
      <4>2. v.pc \in {"seek", "load"} /\ (v.pc = "load" => v.seg < Count(w.r.book))
        BY <1>1, <1>2, <3>1, <4>1, Planning
      <4> QED
        BY <2>1, <3>1, <4>2
    <3>2. CASE w.op \in {"pause", "stop"} /\ v = [w EXCEPT !.pc = w.op]
      BY <1>1, <2>1, <3>2 DEF Works
    <3>3. CASE w.op = "status" /\ v.pc = "load" /\ v.pos = g /\ Transition(w, l) /\ v.seg = w.r.seg + 1
      BY <2>1, <3>3 DEF Transition
    <3> QED
      BY <1>6, <1>8, <2>1, <3>1, <3>2, <3>3
  <2>3. ~Touched(v)
    BY <2>1, <2>2 DEF Touched
  <2>4. OneInv(v)
    BY <1>1, <1>2, <1>4, <2>1, <2>2, <2>3, OneGoes
  <2> QED
    BY <1>2, <1>3, <1>6, <2>4, QuietGoes DEF Step
<1> QED
  BY <1>7, <1>8

LEMMA PauseSolo ==
  ASSUME Alone, TypeInv, WitInv, SoloInv, NEW a \in Requests, Pause(a) \/ SavePause(a)
  PROVE  SoloInv'
<1> DEFINE w == at[a]
<1>1. w \in Works /\ Formed(w) /\ w.pc \in {"pause", "save"} /\ w.p \in Players
      /\ w.op \in {"pause", "stop", "sleep"}
  BY SoloWorking, Callers DEF Pause, SavePause
<1>2. w.id \in RowIds /\ ~Touched(w)
  BY <1>1 DEF Formed, Touched
<1>3. RowsAlike
  BY <1>2, WritesAlike DEF Pause, SavePause
<1>4. PlayersAlike
  <2>1. CASE Pause(a)
    <3>1. \E ok : Command(w.p, Paused(player[w.p]), ok)
      BY <2>1 DEF Pause
    <3> QED
      BY <1>1, <3>1, CommandsAlike, CommandAlike
  <2>2. CASE SavePause(a)
    BY <2>2 DEF SavePause, PlayersAlike
  <2> QED
    BY <2>1, <2>2
<1>5. Quiet
  BY <1>3, <1>4 DEF Quiet, Pause, SavePause
<1>6. Return(a) \/ Goto(a, "save") \/ Goto(a, "clear")
  BY DEF Pause, SavePause
<1> QED
  BY <1>1, <1>2, <1>5, <1>6, ReturnSolo, GotoSolo DEF Step

LEMMA StopSolo ==
  ASSUME Alone, TypeInv, WitInv, SoloInv, NEW a \in Requests,
         StopPlayer(a) \/ StopOther(a) \/ SaveStop(a)
  PROVE  SoloInv'
<1> DEFINE w == at[a]
<1>1. w \in Works /\ Formed(w) /\ w.pc \in {"stop", "other", "save"} /\ w.p \in Players
      /\ w.op = "stop"
  BY SoloWorking, Callers DEF StopPlayer, StopOther, SaveStop, At
<1>2. w.id \in RowIds /\ (w.pc = "other" => w.q \in Players)
  BY <1>1 DEF Formed
<1>3. RowsAlike
  BY <1>2, WritesAlike DEF StopPlayer, StopOther, SaveStop
<1>4. PlayersAlike
  <2>1. CASE StopPlayer(a)
    BY <1>1, <2>1, CommandsAlike, CommandAlike DEF StopPlayer
  <2>2. CASE StopOther(a)
    BY <1>2, <2>2, CommandsAlike, CommandAlike DEF StopOther
  <2>3. CASE SaveStop(a)
    BY <2>3 DEF SaveStop, PlayersAlike
  <2> QED
    BY <2>1, <2>2, <2>3
<1>5. Quiet
  BY <1>3, <1>4 DEF Quiet, StopPlayer, StopOther, SaveStop
<1>6. Goto(a, "other") \/ Goto(a, "save") \/ Goto(a, "delete")
  BY DEF StopPlayer, StopOther, SaveStop
<1> QED
  BY <1>1, <1>5, <1>6, GotoSolo DEF Step

LEMMA DeleteRowSolo ==
  ASSUME Alone, TypeInv, WitInv, SoloInv, NEW a \in Requests, DeleteRow(a)
  PROVE  SoloInv'
<1> DEFINE w == at[a]
<1>1. Formed(w) /\ w.pc = "delete"
  BY SoloWorking DEF DeleteRow
<1>2. ~Touched(w)
  BY <1>1 DEF Formed, Touched
<1>3. RowsAlike
  <2>1. \A id \in RowIds : row'[id] = NoRow \/ row'[id] = row[id]
    BY DEF DeleteRow, TypeInv, RowsTyped
  <2> QED
    BY <2>1 DEF DeleteRow, RowsAlike, Same, SoloInv, RowsInv, Live
<1>4. Quiet
  BY <1>3 DEF DeleteRow, Quiet, PlayersAlike
<1> QED
  BY <1>2, <1>4, ReturnSolo DEF DeleteRow, Step


\* A step that loads or starts something at the player it talks to, and ends with
\* that known or with the player muddled.
LEMMA TouchingSolo ==
  ASSUME Alone, TypeInv, SoloInv, NEW a \in Requests, NEW P \in Players, at[a].p = P,
         at[a].pc # "idle", UNCHANGED <<row, made, login>>,
         \A p \in Players \ {P} : player'[p] = player[p] /\ (p \in muddled => p \in muddled'),
         NEW v, Go(a, v), (v # Idle /\ Touched(v) /\ v.p = P) \/ P \in muddled',
         v # Idle =>
           /\ Formed(v) /\ v.op = at[a].op /\ v.id = at[a].id /\ v.r = at[a].r
           /\ Touched(v) => player'[v.p].book = v.r.book /\ player'[v.p].seg = v.seg
           /\ v.loaded => v.seg < Count(v.r.book)
           /\ v.pc \in {"load", "start"} /\ v.op # "resume" =>
                v.seg < Count(v.r.book) \/ (v.op = "play" /\ v.pos >= Duration[v.r.book])
           /\ v.op \in {"pause", "status"} /\ v.read /\ ~v.loaded /\ v.id = made /\ v.p \notin muddled'
                => v.pos \in places'[v.r.book]
  PROVE  SoloInv'
<1>1. at'[a] = v /\ \A x \in Requests : x = a
  BY Constants DEF Alone, Go, TypeInv, WorkTyped
<1>2. Live' = Live /\ made' = made /\ \A id \in Live : row[id].p \in Players
  BY DEF Live, TypeInv, RowsTyped, LiveRow
<1>3. RowsInv'
  BY <1>2 DEF SoloInv, RowsInv
<1>4. LastInv'
  <2>1. ASSUME made \in Live, row[made].p \notin muddled',
               \A x \in Requests : ~(Touched(at'[x]) /\ at'[x].p = row[made].p)
        PROVE  player'[row[made].p].book = row[made].book /\ player'[row[made].p].seg = row[made].seg
    <3>1. row[made].p \in Players \ {P}
      BY <1>1, <1>2, <2>1
    <3>2. Agrees(row[made])
      BY <1>1, <2>1, <3>1 DEF SoloInv, LastInv
    <3> QED
      BY <3>1, <3>2 DEF Agrees
  <2> QED
    BY <1>2, <2>1 DEF LastInv, Agrees
<1>5. OneInv(at[a]) /\ at[a].p = P
  BY SoloWorking
<1>6. ASSUME v # Idle PROVE OneInv(v)'
  <2>1. ASSUME v.op # "play"
        PROVE  /\ made \in Live => v.id = made
               /\ v.id \in Live => Same(row[v.id], v.r)
               /\ v.r.seg < Count(v.r.book)
               /\ v.id = made /\ v.r.p \notin muddled' /\ ~(Touched(v) /\ v.p = v.r.p) =>
                    player'[v.r.p].book = v.r.book /\ player'[v.r.p].seg = v.r.seg
    <3>1. v.r.p \in Players
      BY <1>6 DEF Formed, LiveRow
    <3> QED
      BY <1>5, <1>6, <2>1, <3>1 DEF OneInv, Agrees
  <2> QED
    BY <1>2, <1>6, <2>1 DEF OneInv, Agrees, Same
<1>7. OnesInv'
  <2> SUFFICES ASSUME NEW x \in Requests, at'[x] # Idle PROVE OneInv(at[x])'
    BY DEF OnesInv
  <2>2. at'[x] = v
    BY <1>1
  <2> QED
    BY <1>6, <2>2 DEF OneInv
<1> QED
  BY <1>3, <1>4, <1>7 DEF SoloInv

\* Either kind of failure.
LEMMA CutShortSolo ==
  ASSUME Alone, TypeInv, SoloInv, Grows, NEW a \in Requests, CutShort(a), at[a].pc \in {"load", "start"},
         at[a].op # "resume", UNCHANGED <<row, made, login>>,
         \A p \in Players \ {at[a].p} : player'[p] = player[p]
  PROVE  SoloInv'
<1> DEFINE w == at[a]
<1>1. a \in Actors /\ w \in Works /\ Formed(w) /\ OneInv(w) /\ w.p \in Players /\ w.r.book \in Books
  BY SoloWorking
<1>2. muddled' = muddled \cup {w.p}
  BY DEF CutShort
<1>3. PICK v : /\ Go(a, v)
               /\ v = Idle \/ (v \in Works /\ Formed(v) /\ v.op = "status" /\ w.op = "status"
                               /\ v = [w EXCEPT !.pc = "done"])
  BY <1>1, CutShortGoes
<1>4. ASSUME v # Idle
      PROVE  /\ Formed(v) /\ v.op = w.op /\ v.id = w.id /\ v.r = w.r /\ v.p = w.p
             /\ ~v.loaded /\ v.pc = "done"
  <2>1. v = [w EXCEPT !.pc = "done"] /\ ~w.loaded
    BY <1>1, <1>3, <1>4 DEF Formed
  <2> QED
    BY <1>1, <1>3, <1>4, <2>1 DEF Works
<1>5. v # Idle => ~Touched(v)
  BY <1>4 DEF Touched
<1> QED
  BY <1>1, <1>2, <1>3, <1>4, <1>5, TouchingSolo

LEMMA LoadSolo ==
  ASSUME Alone, TypeInv, WitInv, SoloInv, NEW a \in Requests, Load(a)
  PROVE  SoloInv'
<1> DEFINE w == at[a]
           x == [book |-> w.r.book, seg |-> w.seg, pos |-> 0, state |-> "stopped"]
<1>1. /\ w \in Works /\ Formed(w) /\ OneInv(w) /\ w.p \in Players /\ w.pc = "load"
      /\ w.op # "resume" /\ a \in Actors /\ w.r.book \in Books /\ ~w.loaded
  <2>1. w.pc = "load"
    BY DEF Load
  <2>2. w \in Works /\ Formed(w) /\ OneInv(w) /\ w.p \in Players /\ a \in Actors /\ w.r.book \in Books
    BY <2>1, SoloWorking
  <2>3. ~w.loaded
    BY <2>1, <2>2 DEF Formed
  <2> QED
    BY <2>1, <2>2, <2>3, Callers
<1>2. Grows
  BY <1>1, StepPlaces DEF Step
<1>3. UNCHANGED <<row, made, login>>
  BY DEF Load
<1>4. /\ player \in [Players -> Loadeds]
      /\ player' \in {player, [player EXCEPT ![w.p] = x]}
  BY DEF Load, Command, TypeInv, PlayersTyped
<1>5. \A p \in Players \ {w.p} : player'[p] = player[p]
  BY <1>4
<1>6. CASE CutShort(a)
  BY <1>1, <1>2, <1>3, <1>5, <1>6, CutShortSolo
<1>7. CASE Command(w.p, x, TRUE) /\ Goto(a, "start") /\ UNCHANGED muddled
  <2> DEFINE v == [w EXCEPT !.pc = "start"]
  <2>1. Go(a, v)
    BY <1>1, <1>7, Gotos
  <2>2. player'[w.p].book = w.r.book /\ player'[w.p].seg = w.seg
    BY <1>1, <1>4, <1>7 DEF Command
  <2>3. /\ v.op = w.op /\ v.id = w.id /\ v.r = w.r /\ v.p = w.p /\ v.seg = w.seg /\ v.pos = w.pos
        /\ v.loaded = w.loaded /\ v.read = w.read /\ v.pc = "start"
    BY <1>1 DEF Works
  <2>4. v # Idle /\ Touched(v)
    BY <1>1, <2>3 DEF Touched, Idle
  <2>5. Formed(v)
    BY <2>1, <2>4, StepFormed DEF Step
  <2>6. v.seg < Count(v.r.book) \/ (v.op = "play" /\ v.pos >= Duration[v.r.book])
    BY <1>1, <2>3 DEF OneInv
  <2>7. v.op \in {"pause", "status"} /\ v.read /\ ~v.loaded /\ v.id = made /\ v.p \notin muddled'
          => v.pos \in places'[v.r.book]
    BY <1>1, <1>2, <1>7, <2>3 DEF OneInv, Grows
  <2> HIDE DEF v
  <2> QED
    BY <1>1, <1>3, <1>5, <1>7, <2>1, <2>2, <2>3, <2>4, <2>5, <2>6, <2>7, TouchingSolo
<1> QED
  BY <1>6, <1>7 DEF Load

LEMMA StartSolo ==
  ASSUME Alone, TypeInv, WitInv, SoloInv, NEW a \in Requests, Start(a)
  PROVE  SoloInv'
<1> DEFINE w == at[a]
           x == [player[w.p] EXCEPT !.state = "playing"]
           y == IF Track(w.p) > 0 THEN x ELSE player[w.p]
<1>1. /\ w \in Works /\ Formed(w) /\ OneInv(w) /\ w.p \in Players /\ w.pc = "start"
      /\ w.op # "resume" /\ a \in Actors /\ w.r.book \in Books
  BY SoloWorking DEF Start
<1>2. Grows
  BY <1>1, StepPlaces DEF Step
<1>3. UNCHANGED <<row, made, login>>
  BY DEF Start
<1>4. /\ player \in [Players -> Loadeds]
      /\ player' \in {player, [player EXCEPT ![w.p] = x]}
  BY DEF Start, Command, TypeInv, PlayersTyped
<1>5. \A p \in Players \ {w.p} : player'[p] = player[p]
  BY <1>4
<1>6. CASE CutShort(a)
  BY <1>1, <1>2, <1>3, <1>5, <1>6, CutShortSolo
<1>7. CASE /\ Track(w.p) > 0
           /\ Go(a, [w EXCEPT !.pc = AfterStart(w), !.loaded = TRUE])
           /\ muddled' = IF player[w.p].book = w.r.book /\ player[w.p].seg = w.seg
                         THEN muddled \ {w.p} ELSE muddled
  <2> DEFINE pc == AfterStart(w)
             v == [w EXCEPT !.pc = pc, !.loaded = TRUE]
  <2>0. pc \in {"seek", "done"}
    BY DEF AfterStart
  <2> HIDE DEF pc
  <2>1. Go(a, v)
    BY <1>7 DEF pc
  <2>2. player[w.p].book = w.r.book /\ player[w.p].seg = w.seg
    BY <1>1 DEF OneInv, Touched
  <2>3. player'[w.p].book = w.r.book /\ player'[w.p].seg = w.seg
    <3>1. x.book = player[w.p].book /\ x.seg = player[w.p].seg
      BY <1>1, CommandsAlike
    <3> QED
      BY <1>1, <1>4, <2>2, <3>1
  <2>4. /\ v.op = w.op /\ v.id = w.id /\ v.r = w.r /\ v.p = w.p /\ v.seg = w.seg
        /\ v.loaded /\ v.pc = pc
    BY <1>1 DEF Works
  <2>5. v # Idle /\ Touched(v)
    BY <2>4 DEF Touched, Idle
  <2>6. Formed(v)
    BY <2>1, <2>5, StepFormed DEF Step
  <2>7. w.seg < Count(w.r.book)
    <3>1. Count(w.r.book) \in Nat /\ w.seg \in Nat
      BY <1>1, Numbers DEF Works
    <3>2. FileEnd(w.r.book, w.seg) > 0
      BY <1>1, <1>7, <2>2, Constants DEF Track
    <3> QED
      BY <3>1, <3>2 DEF FileEnd, SegmentLength, Count
  <2>8. \A p \in Players \ {w.p} : p \in muddled => p \in muddled'
    BY <1>7
  <2> HIDE DEF v
  <2> QED
    BY <1>1, <1>3, <1>5, <2>0, <2>1, <2>3, <2>4, <2>5, <2>6, <2>7, <2>8, TouchingSolo
<1> QED
  BY <1>6, <1>7 DEF Start


LEMMA CreateRowSolo ==
  ASSUME Alone, TypeInv, WitInv, SoloInv, NEW a \in Requests, CreateRow(a)
  PROVE  SoloInv'
<1> DEFINE w == at[a]
           new == [w.r EXCEPT !.pos = w.pos, !.seg = w.seg]
           cleared == [id \in RowIds |->
                         IF id \in Latest(w.r.s) /\ row[id].book # w.r.book
                         THEN [row[id] EXCEPT !.timer = "off"] ELSE row[id]]
<1>1. /\ a \in Actors /\ w \in Works /\ Formed(w) /\ OneInv(w) /\ w.r \in LiveRow
      /\ w.op = "play" /\ w.pc = "done" /\ w.p \in Players
  BY SoloWorking DEF CreateRow, At
<1>2. w.loaded /\ w.p = w.r.p
  BY <1>1 DEF Formed
<1>3. /\ player[w.p].book = w.r.book /\ player[w.p].seg = w.seg /\ w.seg < Count(w.r.book)
  BY <1>1, <1>2 DEF OneInv, Touched
<1>4. UNCHANGED <<player, login, muddled>> /\ TypeInv'
  BY CreateRowTypes DEF CreateRow
<1>5. OnesInv'
  <2>1. at'[a] = Idle /\ \A x \in Requests : x = a
    BY <1>1 DEF Alone, CreateRow, Return, TypeInv, WorkTyped
  <2> QED
    BY <2>1 DEF OnesInv
<1>6. CASE w.r.s \in login /\ row' = [cleared EXCEPT ![made + 1] = new] /\ made' = made + 1
  <2>1. made + 1 \in RowIds
    BY <1>4, <1>6, Constants DEF TypeInv, RowsTyped, RowIds
  <2>2. /\ row'[made + 1] = new
        /\ \A id \in RowIds \ {made + 1} : row'[id] = cleared[id]
    BY <1>6, <2>1
  <2>3. new.s = w.r.s /\ new.book = w.r.book /\ new.p = w.p /\ new.seg = w.seg
    BY <1>1, <1>2 DEF LiveRow
  <2>4. \A id \in RowIds : cleared[id] # NoRow => id \in Live /\ Same(cleared[id], row[id])
    <3> SUFFICES ASSUME NEW id \in RowIds, cleared[id] # NoRow
                 PROVE  id \in Live /\ Same(cleared[id], row[id])
      OBVIOUS
    <3>1. CASE id \in Latest(w.r.s)
      <4>1. id \in Live /\ row[id] # NoRow
        BY <3>1, Reading DEF Live
      <4>2. cleared[id] = row[id] \/ cleared[id] = [row[id] EXCEPT !.timer = "off"]
        OBVIOUS
      <4> QED
        BY <4>1, <4>2, ColumnsAlike DEF Same
    <3>2. CASE id \notin Latest(w.r.s)
      BY <3>2 DEF Live, Same
    <3> QED
      BY <3>1, <3>2
  <2> HIDE DEF new, cleared
  <2>5. RowsInv'
    <3> SUFFICES ASSUME NEW id \in Live'
                 PROVE  row'[id].s \in login /\ row'[id].seg < Count(row'[id].book)
      BY <1>4 DEF RowsInv
    <3>1. CASE id = made + 1
      BY <1>3, <1>6, <2>2, <2>3, <3>1
    <3>2. CASE id # made + 1
      <4>1. id \in Live /\ Same(row'[id], row[id])
        BY <2>2, <2>4, <3>2 DEF Live
      <4> QED
        BY <4>1 DEF SoloInv, RowsInv, Same
    <3> QED
      BY <3>1, <3>2
  <2>6. LastInv'
    BY <1>3, <1>4, <1>6, <2>2, <2>3 DEF LastInv, Agrees
  <2> QED
    BY <1>5, <2>5, <2>6 DEF SoloInv
<1>7. CASE w.r.s \notin login /\ UNCHANGED <<row, made>>
  <2>1. Live = {}
    <3>1. \A id \in Live : row[id].s = w.r.s
      BY <1>1 DEF Alone, TypeInv, RowsTyped, Live, LiveRow
    <3> QED
      BY <1>7, <3>1 DEF SoloInv, RowsInv
  <2>2. Live' = {}
    BY <1>7, <2>1 DEF Live
  <2> QED
    BY <1>5, <2>2 DEF SoloInv, RowsInv, LastInv
<1> QED
  BY <1>6, <1>7 DEF CreateRow

LEMMA WriteRowSolo ==
  ASSUME Alone, TypeInv, WitInv, SoloInv, NEW a \in Requests, WriteRow(a)
  PROVE  SoloInv'
<1> DEFINE w == at[a]
           id == w.id
           r == Written(w, row[id])
<1>1. /\ a \in Actors /\ w \in Works /\ Formed(w) /\ OneInv(w) /\ w.r \in LiveRow
      /\ w.op \in {"switch", "resume", "seek", "status"} /\ w.pc = "done" /\ w.p \in Players
  BY SoloWorking, Callers DEF WriteRow
<1>2. id \in RowIds
  BY <1>1 DEF Formed
<1>3. UNCHANGED <<player, login, muddled, made>>
  BY DEF WriteRow
<1>4. \A x \in Requests : at'[x] = Idle
  BY <1>1 DEF Alone, WriteRow, Return, TypeInv, WorkTyped
<1>5. OnesInv'
  BY <1>4 DEF OnesInv
<1>6. \A i \in RowIds : row'[i] = IF i = id /\ row[i] # NoRow THEN r ELSE row[i]
  BY <1>2 DEF WriteRow, Update, TypeInv, RowsTyped
<1>7. made \in Live => made = id
  BY <1>1 DEF OneInv
<1>8. ASSUME id \in Live
      PROVE  /\ r.s = row[id].s /\ r.book = row[id].book /\ r.seg < Count(r.book)
             /\ id = made /\ r.p \notin muddled => Agrees(r)
  <2>1. Same(row[id], w.r) /\ row[id] \in LiveRow /\ row[id].seg < Count(row[id].book)
    BY <1>1, <1>2, <1>8, RowOrNone DEF OneInv, Live, SoloInv, RowsInv
  <2>2. CASE w.loaded
    <3>1. /\ player[w.p].book = w.r.book /\ player[w.p].seg = w.seg /\ w.seg < Count(w.r.book)
      BY <1>1, <2>2 DEF OneInv, Touched
    <3>2. r.s = row[id].s /\ r.book = row[id].book /\ r.p = w.p /\ r.seg = w.seg
      <4>1. CASE w.op = "switch"
        <5>1. r = [row[id] EXCEPT !.p = w.q, !.playing = TRUE] /\ w.p = w.q /\ w.seg = w.r.seg
          BY <1>1, <4>1 DEF Written, Formed
        <5> QED
          BY <2>1, <5>1 DEF Same, LiveRow
      <4>2. CASE w.op \in {"seek", "status"}
        <5>1. r = [row[id] EXCEPT !.pos = w.pos, !.seg = w.seg] /\ w.p = w.r.p
          BY <1>1, <2>2, <4>2 DEF Written, Formed
        <5> QED
          BY <2>1, <5>1 DEF Same, LiveRow
      <4>3. w.op # "resume"
        BY <1>1, <2>2 DEF Formed
      <4> QED
        BY <1>1, <4>1, <4>2, <4>3
    <3> QED
      BY <2>1, <3>1, <3>2 DEF Same, Agrees
  <2>3. CASE ~w.loaded
    <3>1. r.s = row[id].s /\ r.book = row[id].book /\ r.p = row[id].p /\ r.seg = row[id].seg
      <4>1. CASE w.op = "resume"
        <5>1. r = [row[id] EXCEPT !.playing = TRUE]
          BY <4>1 DEF Written
        <5> QED
          BY <2>1, <5>1 DEF LiveRow
      <4>2. CASE w.op \in {"seek", "status"}
        <5>1. r = [row[id] EXCEPT !.pos = w.pos, !.seg = row[id].seg]
          BY <2>3, <4>2 DEF Written
        <5> QED
          BY <2>1, <5>1 DEF LiveRow
      <4>3. w.op # "switch"
        BY <1>1, <2>3 DEF Formed
      <4> QED
        BY <1>1, <4>1, <4>2, <4>3
    <3>2. ~Touched(w) /\ w.op # "play"
      BY <1>1, <2>3 DEF Touched
    <3>3. id = made /\ w.r.p \notin muddled => Agrees(w.r)
      BY <1>1, <3>2 DEF OneInv
    <3> QED
      BY <2>1, <3>1, <3>3 DEF Same, Agrees
  <2> QED
    BY <2>2, <2>3
<1> HIDE DEF r
<1>9. Live' \subseteq Live
  BY <1>6 DEF Live
<1>10. RowsInv'
  BY <1>3, <1>6, <1>8, <1>9 DEF RowsInv, SoloInv, Live
<1>11. LastInv'
  <2>1. made \in Live' => made = id /\ id \in Live /\ row'[id] = r
    BY <1>2, <1>6, <1>7, <1>9 DEF Live
  <2> QED
    BY <1>3, <1>8, <2>1 DEF LastInv, Agrees
<1> QED
  BY <1>5, <1>10, <1>11 DEF SoloInv

LEMMA StepSolo ==
  ASSUME Alone, TypeInv, WitInv, SoloInv, NEW a \in Requests, Step(a)
  PROVE  SoloInv'
BY GetProgressSolo, HaltSolo, LoadSolo, StartSolo, ResumeStartSolo, SeekInSolo, GetTransportSolo,
   ReadPositionSolo, PauseSolo, StopSolo, DeleteRowSolo, CreateRowSolo, WriteRowSolo DEF Step


\* Background goroutines write positions, flags and timers, and load nothing.
LEMMA ServiceSolo ==
  ASSUME TypeInv, WitInv, SoloInv, Poller \/ Syncer \/ Sleeper
  PROVE  SoloInv'
<1>1. /\ Grows /\ made' = made /\ muddled' = muddled /\ login' = login
      /\ \A a \in Requests : at'[a] = at[a]
  <2>1. Grows
    BY NextPlaces DEF Next
  <2>2. made' = made /\ muddled' = muddled /\ login' = login
    BY DEF Poller, Syncer, Sleeper, PollList, SyncList, SleepList, List, Poll, PollWrite, Sync,
           Sleep, SleepClear, Pause, SavePause
  <2>3. \A a \in Requests : at'[a] = at[a]
    <3>1. \/ UNCHANGED at
          \/ \E b \in {"poller", "sleeper"} :
               Return(b) \/ (\E v : Go(b, v)) \/ \E pc : Goto(b, pc)
      BY DEF Poller, Syncer, Sleeper, PollList, SyncList, SleepList, List, Poll, PollWrite, Sync,
             Sleep, SleepClear, Pause, SavePause
    <3>2. \A a \in Requests : a \notin {"poller", "sleeper"} /\ a \in Actors
      BY Constants
    <3> QED
      BY <3>1, <3>2 DEF Return, Go, Goto, TypeInv, WorkTyped
  <2> QED
    BY <2>1, <2>2, <2>3
<1>2. ASSUME NEW b \in {"poller", "sleeper"}, at[b].pc # "idle"
      PROVE  at[b].id \in RowIds /\ at[b].p \in Players
  <2>1. Formed(at[b]) /\ at[b].op \in Handlers(b)
    BY <1>2, Constants, Working
  <2> QED
    BY <2>1, Constants DEF Formed, Handlers, LiveRow
<1>3. RowsAlike
  <2>1. CASE UNCHANGED row
    BY <1>1, <2>1, SameRowsAlike
  <2>2. CASE PollWrite \/ SleepClear \/ Pause("sleeper") \/ SavePause("sleeper")
    BY <1>1, <1>2, <2>2, WritesAlike DEF PollWrite, SleepClear, Pause, SavePause
  <2> QED
    BY <2>1, <2>2 DEF Poller, Syncer, Sleeper, PollList, SyncList, SleepList, List, Poll, Sync, Sleep
<1>4. PlayersAlike
  <2>1. CASE UNCHANGED player
    BY <2>1 DEF PlayersAlike
  <2>2. CASE Pause("sleeper")
    <3>1. at["sleeper"].p \in Players
      BY <1>2, <2>2 DEF Pause
    <3>2. \E ok : Command(at["sleeper"].p, Paused(player[at["sleeper"].p]), ok)
      BY <2>2 DEF Pause
    <3> QED
      BY <3>1, <3>2, CommandsAlike, CommandAlike
  <2> QED
    BY <2>1, <2>2 DEF Poller, Syncer, Sleeper, PollList, SyncList, SleepList, List, Poll, PollWrite,
                      Sync, Sleep, SleepClear, SavePause
<1> QED
  BY <1>1, <1>3, <1>4, QuietOther DEF Quiet

LEMMA RestartSolo ==
  ASSUME TypeInv, WitInv, SoloInv, Restart
  PROVE  SoloInv'
<1>1. PICK old \in SUBSET Live, unused \in SUBSET login :
        /\ row' = [id \in RowIds |-> IF id \in old \/ row[id].s \in unused THEN NoRow
                                     ELSE [row[id] EXCEPT !.playing = FALSE]]
        /\ login' = login \ unused
  BY DEF Restart
<1>2. UNCHANGED <<made, player, abs, places>>
  BY DEF Restart
<1>3. \A a \in Requests : at'[a] = Idle
  BY Constants DEF Restart
<1>4. ASSUME NEW id \in Live'
      PROVE  id \in Live /\ Same(row'[id], row[id]) /\ row'[id].s \in login'
  <2>1. id \in RowIds /\ row'[id] = [row[id] EXCEPT !.playing = FALSE] /\ row[id].s \notin unused
        /\ row'[id] # NoRow
    BY <1>1, <1>4 DEF Live
  <2>2. [NoRow EXCEPT !.playing = NoRow.playing] = NoRow /\ NoRow.playing = FALSE
    BY DEF NoRow
  <2>3. id \in Live /\ row[id] # NoRow
    BY <2>1, <2>2 DEF Live
  <2>4. Same(row'[id], row[id])
    BY <2>1, <2>3, ColumnsAlike
  <2> QED
    BY <1>1, <2>1, <2>3, <2>4 DEF SoloInv, RowsInv, Same
<1>5. RowsAlike
  BY <1>4 DEF RowsAlike, Live
<1>6. RowsInv'
  BY <1>4 DEF RowsInv, SoloInv, Same
<1>7. LastInv'
  <2>1. ASSUME made \in Live', row'[made].p \notin muddled'
        PROVE  player[row'[made].p].book = row'[made].book /\ player[row'[made].p].seg = row'[made].seg
    <3>1. made \in Live /\ Same(row'[made], row[made])
      BY <1>4, <2>1
    <3>2. row[made].p \in Players
      BY <3>1 DEF TypeInv, RowsTyped, Live, LiveRow
    <3>3. row[made].p \notin muddled /\ \A a \in Requests : at[a].p # row[made].p
      <4>1. row[made].p \notin muddled' /\ row[made].p # NoPlayer
        BY <2>1, <3>1, <3>2, NamesAssumption DEF Same
      <4>2. muddled' = muddled \cup ({at[a].p : a \in Requests} \ {NoPlayer})
        BY DEF Restart
      <4> QED
        BY <4>1, <4>2
    <3>4. Agrees(row[made])
      BY <3>1, <3>3 DEF SoloInv, LastInv
    <3> QED
      BY <3>1, <3>4 DEF Agrees, Same
  <2> QED
    BY <1>2, <2>1 DEF LastInv, Agrees
<1>8. OnesInv'
  BY <1>3 DEF OnesInv
<1> QED
  BY <1>6, <1>7, <1>8 DEF SoloInv

LEMMA WorldSolo ==
  ASSUME TypeInv, WitInv, SoloInv, World
  PROVE  SoloInv'
<1>1. CASE Restart
  BY <1>1, RestartSolo
<1>2. CASE ~Restart
  <2>1. Grows
    BY NextPlaces DEF Next
  <2>2. UNCHANGED <<made, muddled, at>>
    BY <1>2 DEF World, Tick, ByHand, Elsewhere, Logout, Login, SetTimer, TimerExpires
  <2>3. PlayersAlike
    <3>1. player \in [Players -> Loadeds]
      BY DEF TypeInv, PlayersTyped
    <3>2. ASSUME NEW p \in Players, Tick(p) \/ ByHand(p) PROVE PlayersAlike
      BY <3>1, <3>2 DEF Tick, ByHand, PlayersAlike, Loadeds
    <3>3. CASE UNCHANGED player
      BY <3>3 DEF PlayersAlike
    <3> QED
      BY <1>2, <3>2, <3>3 DEF World, Elsewhere, Logout, Login, SetTimer, TimerExpires
  <2>4. RowsAlike
    <3>1. ASSUME NEW s \in Sessions, NEW t \in {"set", "off"}, SetTimer(s, t) PROVE RowsAlike
      <4>1. PICK id \in Latest(s) : row' = [row EXCEPT ![id].timer = t]
        BY <3>1 DEF SetTimer
      <4>2. id \in RowIds /\ row[id] # NoRow
        BY Reading DEF Live
      <4>3. Update(id, [row[id] EXCEPT !.timer = t])
        BY <4>1, <4>2 DEF Update
      <4>4. login' = login
        BY <3>1 DEF SetTimer
      <4> QED
        BY <4>2, <4>3, <4>4, WritesAlike
    <3>2. ASSUME NEW id \in RowIds, TimerExpires(id) PROVE RowsAlike
      <4>1. row[id] # NoRow /\ login' = login
        BY <3>2 DEF TimerExpires, NoRow
      <4>2. Update(id, [row[id] EXCEPT !.timer = "due"])
        BY <3>2, <4>1 DEF TimerExpires, Update
      <4> QED
        BY <4>1, <4>2, WritesAlike
    <3>3. ASSUME NEW s \in Sessions, Logout(s) PROVE RowsAlike
      <4>1. ASSUME NEW id \in RowIds, row'[id] # NoRow
            PROVE  row'[id] = row[id] /\ row[id] # NoRow /\ row[id].s # s
        BY <3>3, <4>1 DEF Logout
      <4> QED
        BY <3>3, <4>1 DEF Logout, RowsAlike, Same, Live, SoloInv, RowsInv
    <3>4. CASE UNCHANGED row /\ login \subseteq login'
      BY <3>4, SameRowsAlike
    <3> QED
      BY <1>2, <3>1, <3>2, <3>3, <3>4 DEF World, Tick, ByHand, Elsewhere, Login
  <2> QED
    BY <2>1, <2>2, <2>3, <2>4, QuietOther DEF Quiet
<1> QED
  BY <1>1, <1>2

LEMMA Soloing == Alone /\ Spec => [](TypeInv /\ WitInv /\ SoloInv)
<1>1. ASSUME Alone PROVE Spec => [](TypeInv /\ WitInv /\ SoloInv)
  <2>1. Init => TypeInv /\ WitInv /\ SoloInv
    BY InitTypes, InitPlaces, InitSolo
  <2>2. ASSUME TypeInv, WitInv, SoloInv, [Next]_vars PROVE SoloInv'
    <3>1. CASE UNCHANGED vars
      <4>1. Quiet /\ Grows /\ \A a \in Requests : at'[a] = at[a]
        BY <2>2, <3>1, SameRowsAlike DEF vars, Quiet, PlayersAlike, Grows
      <4> QED
        BY <2>2, <4>1, QuietOther
    <3>2. ASSUME NEW a \in Requests, Step(a) \/ \E s \in Sessions : Request(a, s) PROVE SoloInv'
      BY <1>1, <2>2, <3>2, StepSolo, AskSolo
    <3>3. CASE Poller \/ Syncer \/ Sleeper \/ World
      BY <2>2, <3>3, ServiceSolo, WorldSolo
    <3> QED
      BY <2>2, <3>1, <3>2, <3>3 DEF Next
  <2>3. TypeInv /\ WitInv /\ SoloInv /\ [Next]_vars => (TypeInv /\ WitInv /\ SoloInv)'
    BY <2>2, NextTypes, NextPlaces
  <2> QED
    BY <2>1, <2>3, PTL DEF Spec
<1> QED
  BY <1>1

\* While requests come one at a time, from one session: between them the row of the
\* last /play names the book and the segment its player has loaded, for any books,
\* players and segments, and whatever switches, seeks, transitions, timers, logouts,
\* restarts and background goroutines come in between.
THEOREM RowsNameWhatPlays == Alone => (Spec => []RowNamesWhatPlays)
<1>1. ASSUME Alone PROVE Spec => []RowNamesWhatPlays
  <2>1. ASSUME TypeInv, WitInv, SoloInv PROVE RowNamesWhatPlays
    <3> SUFFICES ASSUME \A a \in Requests : at[a] = Idle,
                        NEW s \in Sessions, NEW id \in Latest(s), id = made, row[id].p \notin muddled
                 PROVE  Agrees(row[id])
      BY DEF RowNamesWhatPlays, Agrees
    <3>1. id \in Live
      BY <2>1, Reading
    <3>2. ~Touched(Idle)
      BY DEF Touched, Idle
    <3> QED
      BY <2>1, <3>1, <3>2 DEF SoloInv, LastInv
  <2> QED
    BY <1>1, <2>1, Soloing, PTL
<1> QED
  BY <1>1

\* The position /pause and /status report, which they make of what the player says and
\* of the segment they read earlier, is one the player was at in the book of the row.
THEOREM ReportsArePlaces == Alone => (Spec => []ReportedPositionsAreGlobal)
<1>1. ASSUME Alone PROVE Spec => []ReportedPositionsAreGlobal
  <2>1. ASSUME TypeInv, WitInv, SoloInv PROVE ReportedPositionsAreGlobal
    <3> SUFFICES ASSUME NEW a \in Requests, at[a].op \in {"pause", "status"}, at[a].read,
                        ~at[a].loaded, at[a].id = made, at[a].p \notin muddled
                 PROVE  at[a].pos \in places[at[a].r.book]
      BY DEF ReportedPositionsAreGlobal
    <3>1. at[a] # Idle
      BY DEF Idle
    <3> QED
      BY <2>1, <3>1 DEF SoloInv, OnesInv, OneInv
  <2> QED
    BY <1>1, <2>1, Soloing, PTL
<1> QED
  BY <1>1

\* No seek, switch or transition loads a segment that does not exist; a /play does only
\* when ABS has the book at its end or past it.
THEOREM LoadsExist == Alone => (Spec => []LoadedSegmentExists)
<1>1. ASSUME Alone PROVE Spec => []LoadedSegmentExists
  <2>1. ASSUME TypeInv, WitInv, SoloInv PROVE LoadedSegmentExists
    <3> SUFFICES ASSUME NEW a \in Requests, at[a].pc = "load"
                 PROVE  at[a].seg < Count(at[a].r.book)
                        \/ (at[a].op = "play" /\ at[a].pos >= Duration[at[a].r.book])
      BY DEF LoadedSegmentExists
    <3>1. Formed(at[a]) /\ OneInv(at[a])
      BY <2>1, SoloWorking
    <3> QED
      BY <3>1, Callers DEF OneInv
  <2> QED
    BY <1>1, <2>1, Soloing, PTL
<1> QED
  BY <1>1


=============================================================================
