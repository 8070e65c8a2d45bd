-------------------------- MODULE SonosControlProofs --------------------------
(***************************************************************************)
(* What holds of volume, mute and groups for any number of players and     *)
(* requests, any range of volumes and any number of retries.               *)
(***************************************************************************)
EXTENDS SonosControl, FiniteSetTheorems, TLAPS

-----------------------------------------------------------------------------
(* The groups. *)

\* Coordinators coordinate themselves.
GroupsInv == coord \in [Players -> Players] /\ \A p \in Players : coord[coord[p]] = coord[p]

\* A player that goes to a coordinator, or becomes one, leaves the groups in order.
LEMMA MovedInOrder ==
  ASSUME GroupsInv, NEW p \in Players, NEW c \in Players, NEW f \in Moved(p, c),
         c = p \/ (c # p /\ coord[c] = c)
  PROVE  f \in [Players -> Players] /\ \A q \in Players : f[f[q]] = f[q]
<1> DEFINE left == Group(p) \ {p}
<1>1. NoPlayer \notin Players /\ \A q \in left : q \in Players /\ q # p /\ coord[q] = coord[p]
  BY PlayersAssumption DEF Group
<1>2. PICK n \in IF coord[p] # p \/ left = {} THEN {NoPlayer} ELSE left :
        f = [q \in Players |-> IF q = p THEN c
                               ELSE IF q \in left /\ n # NoPlayer THEN n ELSE coord[q]]
  BY DEF Moved
<1>3. CASE coord[p] # p \/ left = {}
  <2>1. n = NoPlayer /\ f = [q \in Players |-> IF q = p THEN c ELSE coord[q]]
    BY <1>2, <1>3
  <2>2. \A q \in Players \ {p} : coord[q] # p
    <3>1. ASSUME NEW q \in Players \ {p}, coord[q] = p PROVE FALSE
      <4>1. coord[p] = p
        BY <3>1 DEF GroupsInv
      <4>2. q \in left
        BY <3>1, <4>1 DEF Group
      <4> QED
        BY <1>3, <4>1, <4>2
    <3> QED
      BY <3>1
  <2> QED
    BY <2>1, <2>2 DEF GroupsInv
<1>4. CASE ~(coord[p] # p \/ left = {})
  <2>1. coord[p] = p /\ n \in left /\ n # NoPlayer
    BY <1>1, <1>2, <1>4
  <2>2. f = [q \in Players |-> IF q = p THEN c ELSE IF q \in left THEN n ELSE coord[q]]
    BY <1>2, <2>1
  <2>3. \A q \in Players : q \notin left /\ q # p => coord[q] # p /\ coord[q] \notin left
    BY <2>1 DEF Group, GroupsInv
  <2>4. c \notin left
    BY <2>1 DEF Group
  <2> QED
    BY <1>1, <2>1, <2>2, <2>3, <2>4 DEF GroupsInv
<1> QED
  BY <1>3, <1>4

-----------------------------------------------------------------------------
(* Types. *)

\* What a request knows at each place.
Sent == {"send", "wait"} \cup Ended

Fields == {"op", "pc", "dev", "to", "arg", "step", "tries", "reply", "routed", "was"}

WellFormed(w) ==
  /\ DOMAIN w = Fields
  /\ w.op \in AllOps \cup {"none"} /\ w.pc \in PCs
  /\ w.tries \in 0 .. MaxRetries /\ w.reply \in {"none", "ok", "error"}
  /\ {w.dev, w.to} \subseteq Players \cup {NoPlayer}
  /\ w.pc # "idle" => w.dev \in Players
  /\ w.pc = "idle" <=> w.op = "none"
  /\ w.pc = "route" => w.op \in {"group", "adjust"}
  /\ w.pc = "read" => w.op \in {"mute", "adjust"}
  /\ w.pc \in {"read"} \cup Sent => w.to \in Players
  /\ w.op = "volume" => w.arg \in Levels
  /\ w.op = "mute" => w.arg \in {0, 1}
  /\ w.op = "join" => w.arg \in Players
  /\ w.pc \in {"idle", "route", "read"} => w.reply = "none"

RequestsInv ==
  /\ at = [a \in Requests |-> at[a]]
  /\ \A a \in Requests : WellFormed(at[a])

AirInv ==
  /\ air \subseteq [by : Requests, no : 0 .. MaxRetries]
  /\ \A m \in air : at[m.by].pc \in Sent

TypeInv ==
  /\ vol \in [Players -> Levels] /\ mute \in [Players -> {0, 1}]
  /\ GroupsInv /\ RequestsInv /\ AirInv
  /\ took \in [Requests -> BOOLEAN] /\ calm \subseteq Requests

LEMMA TypeInvSuffices == TypeInv => TypeOK
BY DEF TypeInv, TypeOK, GroupsInv, RequestsInv, AirInv, WellFormed

LEMMA Constants == MaxRetries \in Nat /\ MaxVolume \in Nat /\ Wanted \subseteq Int
BY ControlAssumption, VolumeAssumption

LEMMA IdleFormed == WellFormed(Idle)
BY Constants, PlayersAssumption DEF WellFormed, Fields, Idle, AllOps, PCs, Ended, Sent

\* The handlers limit volumes.
LEMMA AskedIsALevel == \A v \in Int : Asked(v) \in Levels
BY Constants DEF Asked, Clamp, Levels

LEMMA InitTypes == Init => TypeInv
<1> SUFFICES ASSUME Init PROVE TypeInv
  OBVIOUS
<1>1. MaxVolume \div 2 \in Levels
  BY Constants DEF Levels
<1>2. RequestsInv
  BY IdleFormed DEF Init, RequestsInv
<1> QED
  BY <1>1, <1>2 DEF Init, TypeInv, GroupsInv, AirInv

\* A request goes on, and the players, the air and the rest stay as they are.
LEMMA GoTypes ==
  ASSUME TypeInv, NEW a \in Requests, NEW w, WellFormed(w), Go(a, w),
         at[a].pc \in Sent => w.pc \in Sent,
         UNCHANGED <<net, air, took>>, calm' \subseteq Requests
  PROVE  TypeInv'
<1>1. \A b \in Requests : at'[b] = IF b = a THEN w ELSE at[b]
  BY DEF Go, TypeInv, RequestsInv
<1>2. RequestsInv'
  BY <1>1 DEF Go, TypeInv, RequestsInv, WellFormed
<1>3. AirInv'
  BY <1>1 DEF TypeInv, AirInv, net
<1> QED
  BY <1>2, <1>3 DEF TypeInv, GroupsInv, net

\* A command that is obeyed leaves volumes, mutes and groups in order.
LEMMA EffectTypes ==
  ASSUME TypeInv, NEW m \in air, Effect(Command(at[m.by])), ~Rejected(Command(at[m.by]))
  PROVE  /\ vol' \in [Players -> Levels] /\ mute' \in [Players -> {0, 1}]
         /\ GroupsInv'
<1> DEFINE w == at[m.by]
<1>1. /\ m.by \in Requests /\ WellFormed(w) /\ w.pc \in Sent /\ w.to \in Players
      /\ vol \in [Players -> Levels] /\ mute \in [Players -> {0, 1}] /\ GroupsInv
  BY DEF TypeInv, AirInv, RequestsInv, WellFormed
<1> DEFINE c == Command(w)
<1>2. c.kind = (IF w.op = "adjust" THEN "group" ELSE w.op) /\ c.to = w.to /\ c.arg = w.arg
  BY DEF Command
<1>3. CASE c.kind = "volume"
  <2>1. w.arg \in Levels /\ vol' = [vol EXCEPT ![w.to] = w.arg] /\ UNCHANGED <<mute, coord>>
    BY <1>1, <1>2, <1>3 DEF Effect, WellFormed
  <2> QED
    BY <1>1, <2>1 DEF GroupsInv
<1>4. CASE c.kind = "mute"
  <2>1. w.arg \in {0, 1} /\ mute' = [mute EXCEPT ![w.to] = w.arg] /\ UNCHANGED <<vol, coord>>
    BY <1>1, <1>2, <1>4 DEF Effect, WellFormed
  <2> QED
    BY <1>1, <2>1 DEF GroupsInv
<1>5. CASE c.kind = "group"
  <2>1. vol' \in [Players -> Levels] /\ UNCHANGED <<mute, coord>>
    BY <1>5 DEF Effect
  <2> QED
    BY <1>1, <2>1 DEF GroupsInv
<1>6. CASE c.kind = "join"
  <2>1. coord' \in Moved(w.to, w.arg) /\ UNCHANGED <<vol, mute>>
    BY <1>2, <1>6 DEF Effect
  <2>2. w.arg \in Players /\ w.arg # w.to /\ coord[w.arg] = w.arg
    BY <1>1, <1>2, <1>6 DEF Rejected, WellFormed
  <2>3. coord' \in [Players -> Players] /\ \A q \in Players : coord'[coord'[q]] = coord'[q]
    BY <1>1, <2>1, <2>2, MovedInOrder
  <2> QED
    BY <1>1, <2>1, <2>3 DEF GroupsInv
<1>7. CASE c.kind = "leave"
  <2>1. coord' \in Moved(w.to, w.to) /\ UNCHANGED <<vol, mute>>
    BY <1>2, <1>7 DEF Effect
  <2>2. coord' \in [Players -> Players] /\ \A q \in Players : coord'[coord'[q]] = coord'[q]
    BY <1>1, <2>1, MovedInOrder
  <2> QED
    BY <1>1, <2>1, <2>2 DEF GroupsInv
<1> QED
  BY <1>3, <1>4, <1>5, <1>6, <1>7 DEF Effect

\* What has not been sent has not been tried.
Counted(w) ==
  /\ w.tries \in Nat /\ w.tries <= Retries(w)
  /\ w.pc \in Unasked => w.tries = 0
  /\ w.arg \in Levels \cup {0, 1} \cup Players

LEMMA ClampIsALevel == \A v : Clamp(v) \in Levels
BY Constants DEF Clamp, Levels

LEMMA RetriesInRange == \A w : Retries(w) \in 0 .. MaxRetries
BY Constants DEF Retries

\* What the handlers begin with.
LEMMA BeginTypes ==
  ASSUME TypeInv, NEW a \in Requests, NEW w, WellFormed(w), Begin(a, w)
  PROVE  TypeInv'
<1>1. at[a].pc = "idle" /\ "idle" \notin Sent
  BY DEF Begin, Idle, Sent, Ended
<1>2. calm' \subseteq Requests
  BY DEF Begin, TypeInv
<1>3. UNCHANGED <<net, air, took>> /\ Go(a, w)
  BY DEF Begin
<1> QED
  BY <1>1, <1>2, <1>3, GoTypes

Fresh(w) ==
  /\ WellFormed(w) /\ w.pc \in {"route", "read", "send"} /\ w.reply = "none" /\ w.routed = FALSE
  /\ w.op = "mute" => w.pc = "read" /\ w.to = w.dev /\ w.was = mute[w.dev]
  /\ w.op = "adjust" => w.pc = "route" /\ w.was = GroupVolume(w.dev)
  /\ Counted(w)

LEMMA HandleBegins ==
  ASSUME NEW a \in Requests, Handle(a)
  PROVE  \E w : Begin(a, w) /\ Fresh(w)
<1>1. PICK p \in Players :
        \/ \E v \in Wanted : SetVolume(a, p, v) \/ SetGroupVolume(a, p, v)
        \/ \E d \in Deltas : AdjustGroupVolume(a, p, d)
        \/ \E c \in Players : JoinGroup(a, p, c)
        \/ ToggleMute(a, p) \/ LeaveGroup(a, p)
  BY DEF Handle
<1>2. /\ Idle.pc = "idle" /\ Idle.arg = 0 /\ Idle.routed = FALSE /\ WellFormed(Idle)
      /\ Idle.tries = 0 /\ \A w : Retries(w) \in Nat /\ Retries(w) >= 0
  BY IdleFormed, RetriesInRange, Constants DEF Idle
<1>3. ASSUME NEW v \in Wanted, SetVolume(a, p, v)
      PROVE  \E w : Begin(a, w) /\ Fresh(w)
  <2> DEFINE w == [Idle EXCEPT !.op = "volume", !.pc = "send", !.dev = p, !.to = p, !.arg = Asked(v)]
  <2>1. WellFormed(w)
    BY <1>2, AskedIsALevel, Constants DEF WellFormed, Fields, AllOps, PCs, Sent, Ended
  <2>2. Fresh(w)
    BY <1>2, <2>1, AskedIsALevel, Constants DEF Fresh, WellFormed, Fields, Counted, Unasked
  <2>3. Begin(a, w)
    BY <1>3 DEF SetVolume
  <2> QED
    BY <2>2, <2>3
<1>4. ASSUME NEW v \in Wanted, SetGroupVolume(a, p, v)
      PROVE  \E w : Begin(a, w) /\ Fresh(w)
  <2> DEFINE w == [Idle EXCEPT !.op = "group", !.pc = "route", !.dev = p, !.arg = Asked(v)]
  <2>1. WellFormed(w)
    BY <1>2 DEF WellFormed, Fields, AllOps, PCs, Sent, Ended
  <2>2. Fresh(w)
    BY <1>2, <2>1, AskedIsALevel, Constants DEF Fresh, WellFormed, Fields, Counted, Unasked
  <2>3. Begin(a, w)
    BY <1>4 DEF SetGroupVolume
  <2> QED
    BY <2>2, <2>3
<1>5. ASSUME NEW d \in Deltas, AdjustGroupVolume(a, p, d)
      PROVE  \E w : Begin(a, w) /\ Fresh(w)
  <2> DEFINE w == [Idle EXCEPT !.op = "adjust", !.pc = "route", !.dev = p, !.step = d, 
                         !.was = GroupVolume(p)]
  <2>1. WellFormed(w)
    BY <1>2 DEF WellFormed, Fields, AllOps, PCs, Sent, Ended
  <2>2. Fresh(w)
    BY <1>2, <2>1, AskedIsALevel, Constants DEF Fresh, WellFormed, Fields, Counted, Unasked
  <2>3. Begin(a, w)
    BY <1>5 DEF AdjustGroupVolume
  <2> QED
    BY <2>2, <2>3
<1>6. ASSUME NEW c \in Players, JoinGroup(a, p, c)
      PROVE  \E w : Begin(a, w) /\ Fresh(w)
  <2> DEFINE w == [Idle EXCEPT !.op = "join", !.pc = "send", !.dev = p, !.to = p, !.arg = c]
  <2>1. WellFormed(w)
    BY <1>2 DEF WellFormed, Fields, AllOps, PCs, Sent, Ended
  <2>2. Fresh(w)
    BY <1>2, <2>1, AskedIsALevel, Constants DEF Fresh, WellFormed, Fields, Counted, Unasked
  <2>3. Begin(a, w)
    BY <1>6 DEF JoinGroup
  <2> QED
    BY <2>2, <2>3
<1>7. CASE ToggleMute(a, p)
  <2> DEFINE w == [Idle EXCEPT !.op = "mute", !.pc = "read", !.dev = p, !.to = p, !.was = mute[p]]
  <2>1. WellFormed(w)
    BY <1>2 DEF WellFormed, Fields, AllOps, PCs, Sent, Ended
  <2>2. Fresh(w)
    BY <1>2, <2>1, AskedIsALevel, Constants DEF Fresh, WellFormed, Fields, Counted, Unasked
  <2>3. Begin(a, w)
    BY <1>7 DEF ToggleMute
  <2> QED
    BY <2>2, <2>3
<1>8. CASE LeaveGroup(a, p)
  <2> DEFINE w == [Idle EXCEPT !.op = "leave", !.pc = "send", !.dev = p, !.to = p]
  <2>1. WellFormed(w)
    BY <1>2 DEF WellFormed, Fields, AllOps, PCs, Sent, Ended
  <2>2. Fresh(w)
    BY <1>2, <2>1, AskedIsALevel, Constants DEF Fresh, WellFormed, Fields, Counted, Unasked
  <2>3. Begin(a, w)
    BY <1>8 DEF LeaveGroup
  <2> QED
    BY <2>2, <2>3
<1> QED
  BY <1>1, <1>3, <1>4, <1>5, <1>6, <1>7, <1>8

\* The steps of a handler and of sendCommand.
LEMMA StepTypes ==
  ASSUME TypeInv, NEW a \in Requests, Step(a)
  PROVE  TypeInv'
<1> DEFINE w == at[a]
<1>1. /\ WellFormed(w) /\ calm \subseteq Requests /\ coord \in [Players -> Players]
      /\ mute \in [Players -> {0, 1}]
  BY DEF TypeInv, RequestsInv, GroupsInv
<1>2. CASE Route(a)
  <2>1. PICK ok \in BOOLEAN :
          Go(a, [w EXCEPT !.to = IF ok THEN coord[w.dev] ELSE w.dev, !.routed = ok,
                          !.pc = IF w.op = "adjust" THEN "read" ELSE "send"])
    BY <1>2 DEF Route
  <2>2. w.pc = "route" /\ UNCHANGED <<net, air, took, calm>>
    BY <1>2 DEF Route
  <2>3. (IF ok THEN coord[w.dev] ELSE w.dev) \in Players
    BY <1>1, <2>2 DEF WellFormed
  <2>4. WellFormed([w EXCEPT !.to = IF ok THEN coord[w.dev] ELSE w.dev, !.routed = ok,
                             !.pc = IF w.op = "adjust" THEN "read" ELSE "send"])
    BY <1>1, <2>2, <2>3 DEF WellFormed, Fields, PCs, Sent, Ended
  <2>5. w.pc \notin Sent
    BY <2>2 DEF Sent, Ended
  <2> QED
    BY <1>1, <2>1, <2>2, <2>4, <2>5, GoTypes
<1>3. CASE Read(a)
  <2>1. w.pc = "read" /\ UNCHANGED <<net, air, took, calm>> /\ w.pc \notin Sent
    BY <1>3 DEF Read, Sent, Ended
  <2>2. CASE w.op = "mute"
    <3>1. Go(a, [w EXCEPT !.pc = "send", !.arg = 1 - mute[w.to]])
      BY <1>3, <2>2 DEF Read
    <3>2. 1 - mute[w.to] \in {0, 1}
      BY <1>1, <2>1 DEF WellFormed
    <3>3. WellFormed([w EXCEPT !.pc = "send", !.arg = 1 - mute[w.to]])
      BY <1>1, <2>1, <2>2, <3>2 DEF WellFormed, Fields, PCs, Sent, Ended
    <3> QED
      BY <1>1, <2>1, <3>1, <3>3, GoTypes
  <2>3. CASE w.op # "mute" /\ coord[w.to] # w.to
    <3>1. Go(a, [w EXCEPT !.pc = "rejected"])
      BY <1>3, <2>3 DEF Read
    <3>2. WellFormed([w EXCEPT !.pc = "rejected"])
      BY <1>1, <2>1 DEF WellFormed, Fields, PCs, Sent, Ended
    <3> QED
      BY <1>1, <2>1, <3>1, <3>2, GoTypes
  <2>4. CASE w.op # "mute" /\ coord[w.to] = w.to
    <3>1. Go(a, [w EXCEPT !.pc = "send", !.arg = Clamp(GroupVolume(w.to) + w.step)])
      BY <1>3, <2>4 DEF Read
    <3>2. ASSUME NEW k PROVE WellFormed([w EXCEPT !.pc = "send", !.arg = k])
      BY <1>1, <2>1, <2>4 DEF WellFormed, Fields, PCs, Sent, Ended
    <3> QED
      BY <1>1, <2>1, <3>1, <3>2, GoTypes
  <2> QED
    BY <2>2, <2>3, <2>4
<1>4. CASE Send(a)
  <2> DEFINE v == [w EXCEPT !.pc = "wait", !.reply = "none"]
  <2>1. /\ w.pc = "send" /\ Go(a, v) /\ air' = air \cup {[by |-> a, no |-> w.tries]}
        /\ UNCHANGED <<net, took, calm>>
    BY <1>4 DEF Send
  <2>2. WellFormed(v) /\ v.pc \in Sent /\ w.tries \in 0 .. MaxRetries
    BY <1>1, <2>1 DEF WellFormed, Fields, PCs, Sent, Ended
  <2>3. \A b \in Requests : at'[b] = IF b = a THEN v ELSE at[b]
    BY <2>1 DEF Go, TypeInv, RequestsInv
  <2>4. RequestsInv'
    BY <2>1, <2>2, <2>3 DEF Go, TypeInv, RequestsInv, WellFormed
  <2>5. AirInv'
    <3>1. air' \subseteq [by : Requests, no : 0 .. MaxRetries]
      BY <2>1, <2>2 DEF TypeInv, AirInv
    <3>2. \A b \in Requests : at[b].pc \in Sent => at'[b].pc \in Sent
      BY <2>2, <2>3
    <3>3. ASSUME NEW m \in air' PROVE at'[m.by].pc \in Sent
      <4>1. CASE m \in air
        BY <3>2, <4>1 DEF TypeInv, AirInv
      <4>2. CASE m = [by |-> a, no |-> w.tries]
        BY <2>2, <2>3, <4>2
      <4> QED
        BY <2>1, <4>1, <4>2
    <3> QED
      BY <3>1, <3>3 DEF AirInv
  <2> QED
    BY <2>1, <2>4, <2>5 DEF TypeInv, GroupsInv, net
<1>5. CASE Answer(a)
  <2>1. /\ w.pc = "wait" /\ UNCHANGED <<net, air, took, calm>>
        /\ Go(a, [w EXCEPT !.pc = IF w.reply = "ok" THEN "ok" ELSE "rejected"])
    BY <1>5 DEF Answer
  <2>2. /\ WellFormed([w EXCEPT !.pc = IF w.reply = "ok" THEN "ok" ELSE "rejected"])
        /\ (IF w.reply = "ok" THEN "ok" ELSE "rejected") \in Sent
    BY <1>1, <2>1 DEF WellFormed, Fields, PCs, Sent, Ended
  <2>3. [w EXCEPT !.pc = IF w.reply = "ok" THEN "ok" ELSE "rejected"].pc \in Sent
    BY <1>1, <2>2 DEF WellFormed
  <2> QED
    BY <1>1, <2>1, <2>2, <2>3, GoTypes
<1>6. CASE Timeout(a)
  <2>1. w.pc = "wait" /\ UNCHANGED <<net, air, took, calm>>
    BY <1>6 DEF Timeout
  <2>2. CASE w.tries < Retries(w)
    <3>1. Go(a, [w EXCEPT !.pc = "send", !.tries = w.tries + 1])
      BY <1>6, <2>2 DEF Timeout
    <3>2. w.tries + 1 \in 0 .. MaxRetries
      BY <1>1, <2>2, Constants DEF WellFormed, Retries
    <3>3. WellFormed([w EXCEPT !.pc = "send", !.tries = w.tries + 1])
      BY <1>1, <2>1, <3>2 DEF WellFormed, Fields, PCs, Sent, Ended
    <3>4. [w EXCEPT !.pc = "send", !.tries = w.tries + 1].pc \in Sent
      BY <1>1 DEF WellFormed, Sent
    <3> QED
      BY <1>1, <2>1, <3>1, <3>3, <3>4, GoTypes
  <2>3. CASE ~(w.tries < Retries(w))
    <3>1. Go(a, [w EXCEPT !.pc = "failed"])
      BY <1>6, <2>3 DEF Timeout
    <3>2. WellFormed([w EXCEPT !.pc = "failed"]) /\ [w EXCEPT !.pc = "failed"].pc \in Sent
      BY <1>1, <2>1 DEF WellFormed, Fields, PCs, Sent, Ended
    <3> QED
      BY <1>1, <2>1, <3>1, <3>2, GoTypes
  <2> QED
    BY <2>2, <2>3
<1>7. CASE GiveUp(a)
  <2>1. /\ w.pc \in {"read", "send", "wait"} /\ UNCHANGED <<net, air, took, calm>>
        /\ Go(a, [w EXCEPT !.pc = "failed"])
    BY <1>7 DEF GiveUp
  <2>2. WellFormed([w EXCEPT !.pc = "failed"]) /\ [w EXCEPT !.pc = "failed"].pc \in Sent
    BY <1>1, <2>1 DEF WellFormed, Fields, PCs, Sent, Ended
  <2> QED
    BY <1>1, <2>1, <2>2, GoTypes
<1> QED
  BY <1>2, <1>3, <1>4, <1>5, <1>6, <1>7 DEF Step

\* An attempt reaches its player.
LEMMA ArriveTypes ==
  ASSUME TypeInv, NEW m \in air, Arrive(m)
  PROVE  TypeInv'
<1> DEFINE w == at[m.by]
<1>1. m.by \in Requests /\ WellFormed(w) /\ w.pc \in Sent
  BY DEF TypeInv, AirInv, RequestsInv
<1>2. \E r \in {"none", "ok", "error"} :
        at' = at \/ (w.pc = "wait" /\ at' = [at EXCEPT ![m.by] = [w EXCEPT !.reply = r]])
  BY DEF Arrive, Go
<1>3. PICK r \in {"none", "ok", "error"} :
        at' = at \/ (w.pc = "wait" /\ at' = [at EXCEPT ![m.by] = [w EXCEPT !.reply = r]])
  BY <1>2
<1>4. RequestsInv' /\ \A b \in Requests : at'[b].pc = at[b].pc
  <2>1. CASE at' = at
    BY <2>1 DEF TypeInv, RequestsInv, WellFormed
  <2>2. CASE w.pc = "wait" /\ at' = [at EXCEPT ![m.by] = [w EXCEPT !.reply = r]]
    <3>1. WellFormed([w EXCEPT !.reply = r]) /\ [w EXCEPT !.reply = r].pc = w.pc
      BY <1>1, <2>2 DEF WellFormed
    <3>2. \A b \in Requests : at'[b] = IF b = m.by THEN [w EXCEPT !.reply = r] ELSE at[b]
      BY <2>2 DEF TypeInv, RequestsInv
    <3>3. at' = [b \in Requests |-> at'[b]]
      BY <2>2 DEF TypeInv, RequestsInv
    <3>4. \A b \in Requests : WellFormed(at'[b])
      BY <3>1, <3>2 DEF TypeInv, RequestsInv
    <3> QED
      BY <3>1, <3>2, <3>3, <3>4 DEF RequestsInv, WellFormed
  <2> QED
    BY <1>3, <2>1, <2>2
<1>5. AirInv'
  <2>1. air' \subseteq air
    BY DEF Arrive
  <2> QED
    BY <1>4, <2>1 DEF TypeInv, AirInv
<1>6. CASE Rejected(Command(w))
  <2>1. UNCHANGED <<net, took, calm>>
    BY <1>6 DEF Arrive
  <2> QED
    BY <1>4, <1>5, <2>1 DEF TypeInv, GroupsInv, net
<1>7. CASE ~Rejected(Command(w))
  <2>1. Effect(Command(w)) /\ took' = [took EXCEPT ![m.by] = TRUE] /\ calm' = calm \cap {m.by}
    BY <1>7 DEF Arrive
  <2>2. vol' \in [Players -> Levels] /\ mute' \in [Players -> {0, 1}] /\ GroupsInv'
    BY <1>7, <2>1, EffectTypes
  <2> QED
    BY <1>4, <1>5, <2>1, <2>2 DEF TypeInv
<1> QED
  BY <1>6, <1>7

LEMMA NextTypes == TypeInv /\ [Next]_vars => TypeInv'
<1> SUFFICES ASSUME TypeInv, [Next]_vars PROVE TypeInv'
  OBVIOUS
<1>1. CASE \E a \in Requests : Handle(a) \/ Step(a)
  BY <1>1, HandleBegins, BeginTypes, StepTypes DEF Fresh
<1>2. CASE \E m \in air : Arrive(m)
  BY <1>2, ArriveTypes
<1>3. CASE UNCHANGED vars
  BY <1>3 DEF vars, net, TypeInv, GroupsInv, RequestsInv, WellFormed, AirInv
<1> QED
  BY <1>1, <1>2, <1>3 DEF Next

LEMMA TypesHold == Spec => []TypeInv
BY InitTypes, NextTypes, PTL DEF Spec

\* Volumes stay within their range and groups have coordinators, whatever is
\* asked for, retried or late.
THEOREM TypeCorrect == Spec => []TypeOK
BY TypesHold, TypeInvSuffices, PTL

-----------------------------------------------------------------------------
(* What a request does when nothing else takes effect meanwhile. *)

\* An attempt may still take effect.
Underway(a) == at[a].pc \in {"send", "wait"} \/ \E m \in air : m.by = a

\* The player has said that the command is done.
Done(a) == at[a].reply = "ok" \/ at[a].pc = "ok"

\* A group command that was routed went to a coordinator.
Led(a) ==
  LET w == at[a] IN
  w.op \in {"group", "adjust"} /\ w.routed =>
    coord[w.to] = w.to /\ w.reply # "error" /\ w.pc # "rejected"

\* All attempts to mute say the same, and none has been made before the reading.
MutedOnce(a) ==
  LET w == at[a] IN
  w.op = "mute" =>
    /\ w.to = w.dev
    /\ w.pc = "read" => mute[w.dev] = w.was
    /\ Underway(a) => w.arg = 1 - w.was
    /\ Done(a) => mute[w.dev] = 1 - w.was

\* The same of a step of the group volume.
SteppedOnce(a) ==
  LET w == at[a] IN
  w.op = "adjust" =>
    /\ w.pc # "route" => coord[w.to] = coord[w.dev]
    /\ w.pc \in {"route", "read"} => GroupVolume(w.dev) = w.was
    /\ GroupVolume(w.dev) \in {w.was, Clamp(w.was + w.step)}
    /\ Underway(a) => w.arg = Clamp(w.was + w.step)
    /\ Done(a) => GroupVolume(w.dev) = Clamp(w.was + w.step)

Undisturbed(a) == Led(a) /\ MutedOnce(a) /\ SteppedOnce(a)

CalmInv == \A a \in calm : Undisturbed(a)

LEMMA CalmInvSuffices == TypeInv /\ CalmInv => OnePressOneStep /\ GroupCommandsFindTheLeader
<1> SUFFICES ASSUME TypeInv, CalmInv PROVE OnePressOneStep /\ GroupCommandsFindTheLeader
  OBVIOUS
<1>1. \A a \in calm : Led(a) /\ MutedOnce(a) /\ SteppedOnce(a)
  BY DEF CalmInv, Undisturbed
<1>2. GroupCommandsFindTheLeader
  BY <1>1 DEF GroupCommandsFindTheLeader, Led
<1>3. OnePressOneStep
  BY <1>1 DEF OnePressOneStep, MutedOnce, SteppedOnce, Done
<1> QED
  BY <1>2, <1>3

\* Players in the same group have the same group volume.
LEMMA SameGroup ==
  ASSUME NEW p \in Players, NEW q \in Players, coord[p] = coord[q]
  PROVE  Group(p) = Group(q) /\ GroupVolume(p) = GroupVolume(q)
BY DEF Group, GroupVolume

LEMMA GroupKept ==
  ASSUME UNCHANGED coord, NEW p \in Players
  PROVE  /\ Group(p)' = Group(p)
         /\ GroupVolume(p)' = Average(vol', Group(p))
         /\ UNCHANGED vol => GroupVolume(p)' = GroupVolume(p)
BY DEF Group, GroupVolume

\* What others do, without effect, leaves a request undisturbed.
LEMMA OthersKeep ==
  ASSUME TypeInv, NEW a \in Requests, Undisturbed(a), UNCHANGED net, at'[a] = at[a],
         \A m \in air' \ air : m.by # a
  PROVE  Undisturbed(a)'
<1>1. UNCHANGED <<vol, mute, coord>>
  BY DEF net
<1>2. Underway(a)' => Underway(a)
  BY DEF Underway
<1>3. Done(a)' => Done(a)
  BY DEF Done
<1>4. Led(a)'
  BY <1>1 DEF Undisturbed, Led
<1>5. MutedOnce(a)'
  BY <1>1, <1>2, <1>3 DEF Undisturbed, MutedOnce
<1>6. SteppedOnce(a)'
  <2>1. at[a].op = "adjust" => at[a].dev \in Players
    <3>1. WellFormed(at[a])
      BY DEF TypeInv, RequestsInv
    <3> QED
      BY <3>1 DEF WellFormed
  <2>2. at[a].op = "adjust" => GroupVolume(at[a].dev)' = GroupVolume(at[a].dev)
    BY <1>1, <2>1, GroupKept
  <2> QED
    BY <1>1, <1>2, <1>3, <2>2 DEF Undisturbed, SteppedOnce
<1> QED
  BY <1>4, <1>5, <1>6 DEF Undisturbed
\* A request begins undisturbed.
LEMMA BeginCalm ==
  ASSUME TypeInv, CalmInv, NEW a \in Requests, NEW w, Begin(a, w), Fresh(w)
  PROVE  CalmInv'
<1>1. /\ UNCHANGED <<net, air>> /\ calm' = calm \cup {a} /\ at[a].pc = "idle"
      /\ \A b \in Requests : at'[b] = IF b = a THEN w ELSE at[b]
  BY DEF Begin, Go, Idle, TypeInv, RequestsInv
<1>2. \A m \in air : m.by # a
  BY <1>1 DEF TypeInv, AirInv, Sent, Ended
<1>3. UNCHANGED <<vol, mute, coord>> /\ at'[a] = w /\ ~Done(a)'
  BY <1>1 DEF net, Fresh, Done
<1>4. Led(a)'
  BY <1>3 DEF Fresh, Led
<1>5. MutedOnce(a)'
  BY <1>1, <1>2, <1>3 DEF Fresh, MutedOnce, Underway
<1>6. SteppedOnce(a)'
  <2>1. w.op = "adjust" => w.dev \in Players
    BY DEF Fresh, WellFormed
  <2>2. w.op = "adjust" => GroupVolume(w.dev)' = GroupVolume(w.dev)
    BY <1>3, <2>1, GroupKept
  <2>3. w.pc = "route" => ~Underway(a)'
    BY <1>1, <1>2, <1>3 DEF Underway
  <2> QED
    BY <1>3, <2>2, <2>3 DEF Fresh, SteppedOnce
<1>7. ASSUME NEW b \in calm, b # a PROVE Undisturbed(b)'
  BY <1>1, <1>7, OthersKeep DEF CalmInv, TypeInv
<1>8. Undisturbed(a)'
  BY <1>4, <1>5, <1>6 DEF Undisturbed
<1> QED
  BY <1>1, <1>7, <1>8 DEF CalmInv
\* Once its value is known, a request only goes on, tries again or ends.
LEMMA GoingOnCalm ==
  ASSUME TypeInv, NEW a \in Requests, Undisturbed(a), UNCHANGED net,
         at[a].pc \in {"read", "send", "wait"}, at'[a].pc \notin {"route", "read"},
         at'[a].op = at[a].op, at'[a].dev = at[a].dev, at'[a].to = at[a].to,
         at'[a].arg = at[a].arg, at'[a].step = at[a].step, at'[a].was = at[a].was,
         at'[a].routed = at[a].routed,
         Underway(a)' => Underway(a), Done(a)' => Done(a),
         Led(a)'
  PROVE  Undisturbed(a)'
<1>1. UNCHANGED <<vol, mute, coord>>
  BY DEF net
<1>2. MutedOnce(a)'
  BY <1>1 DEF Undisturbed, MutedOnce
<1>3. SteppedOnce(a)'
  <2>1. at[a].dev \in Players
    BY DEF TypeInv, RequestsInv, WellFormed
  <2>2. GroupVolume(at[a].dev)' = GroupVolume(at[a].dev)
    BY <1>1, <2>1, GroupKept
  <2> QED
    BY <1>1, <2>2 DEF Undisturbed, SteppedOnce
<1> QED
  BY <1>2, <1>3 DEF Undisturbed

LEMMA StepCalm ==
  ASSUME TypeInv, CalmInv, NEW a \in Requests, Step(a)
  PROVE  CalmInv'
<1> DEFINE w == at[a]
<1>1. UNCHANGED <<net, calm>> /\ UNCHANGED <<vol, mute, coord>>
  BY DEF Step, Route, Read, Send, Answer, Timeout, GiveUp, net
<1>2. WellFormed(w) /\ DOMAIN w = Fields /\ calm \subseteq Requests
  BY DEF TypeInv, RequestsInv, WellFormed
<1>3. \A v : Go(a, v) => \A b \in Requests : at'[b] = IF b = a THEN v ELSE at[b]
  BY DEF Go, TypeInv, RequestsInv
<1>4. ASSUME NEW b \in calm, b # a PROVE Undisturbed(b)'
  <2>1. at'[b] = at[b]
    BY <1>2, <1>3, <1>4 DEF Step, Route, Read, Send, Answer, Timeout, GiveUp
  <2>2. air' \subseteq air \/ air' = air \cup {[by |-> a, no |-> w.tries]}
    BY DEF Step, Route, Read, Send, Answer, Timeout, GiveUp
  <2>3. \A m \in air' \ air : m.by = a
    BY <2>2
  <2> QED
    BY <1>1, <1>2, <1>4, <2>1, <2>3, OthersKeep DEF CalmInv
<1>5. ASSUME a \in calm PROVE Undisturbed(a)'
  <2>1. Undisturbed(a) /\ Led(a) /\ MutedOnce(a) /\ SteppedOnce(a)
    BY <1>5 DEF CalmInv, Undisturbed
  <2>2. w.pc \in {"route", "read"} => \A m \in air : m.by # a
    BY DEF TypeInv, AirInv, Sent, Ended
  <2>3. CASE Route(a)
    <3> DEFINE v == at'[a]
    <3>1. PICK ok \in BOOLEAN :
            v = [w EXCEPT !.to = IF ok THEN coord[w.dev] ELSE w.dev, !.routed = ok,
                          !.pc = IF w.op = "adjust" THEN "read" ELSE "send"]
      BY <1>3, <2>3 DEF Route
    <3>2. /\ w.pc = "route" /\ w.op \in {"group", "adjust"} /\ w.reply = "none"
          /\ w.dev \in Players /\ UNCHANGED air
      BY <1>2, <2>3 DEF Route, WellFormed
    <3>3. /\ v.to = (IF ok THEN coord[w.dev] ELSE w.dev) /\ v.routed = ok
          /\ v.pc = (IF w.op = "adjust" THEN "read" ELSE "send")
          /\ v.op = w.op /\ v.dev = w.dev /\ v.was = w.was /\ v.step = w.step
          /\ v.arg = w.arg /\ v.reply = "none"
      BY <1>2, <3>1, <3>2 DEF Fields
    <3>4. coord[coord[w.dev]] = coord[w.dev]
      BY <3>2 DEF TypeInv, GroupsInv
    <3>5. Led(a)' /\ MutedOnce(a)'
      BY <1>1, <3>2, <3>3, <3>4 DEF Led, MutedOnce
    <3>6. SteppedOnce(a)'
      <4>1. GroupVolume(w.dev)' = GroupVolume(w.dev)
        BY <1>1, <3>2, <3>3, GroupKept
      <4>2. w.op = "adjust" => ~Underway(a)' /\ ~Done(a)'
        BY <2>2, <3>2, <3>3 DEF Underway, Done
      <4> QED
        BY <1>1, <2>1, <3>2, <3>3, <3>4, <4>1, <4>2 DEF SteppedOnce
    <3> QED
      BY <3>5, <3>6 DEF Undisturbed
  <2>4. CASE Read(a)
    <3> DEFINE v == at'[a]
    <3>1. /\ w.pc = "read" /\ w.reply = "none" /\ UNCHANGED air
          /\ w.op \in {"mute", "adjust"} /\ w.dev \in Players /\ w.to \in Players
      BY <1>2, <2>4 DEF Read, WellFormed
    <3>2. CASE w.op = "mute"
      <4>1. v = [w EXCEPT !.pc = "send", !.arg = 1 - mute[w.to]]
        BY <1>3, <2>4, <3>2 DEF Read
      <4>2. /\ v.op = "mute" /\ v.pc = "send" /\ v.arg = 1 - mute[w.to] /\ v.to = w.to
            /\ v.dev = w.dev /\ v.was = w.was /\ v.reply = "none"
        BY <1>2, <3>1, <3>2, <4>1 DEF Fields
      <4> QED
        BY <1>1, <2>1, <3>1, <3>2, <4>2 DEF Undisturbed, Led, MutedOnce, SteppedOnce, Done
    <3>3. CASE w.op = "adjust" /\ coord[w.to] # w.to
      <4>1. v = [w EXCEPT !.pc = "rejected"]
        BY <1>3, <2>4, <3>3 DEF Read
      <4>2. /\ v.op = w.op /\ v.pc = "rejected" /\ v.arg = w.arg /\ v.to = w.to
            /\ v.dev = w.dev /\ v.was = w.was /\ v.step = w.step /\ v.reply = "none"
            /\ v.routed = w.routed
        BY <1>2, <3>1, <4>1 DEF Fields
      <4>3. ~Underway(a)' /\ ~Done(a)' /\ ~w.routed
        BY <2>1, <2>2, <3>1, <3>3, <4>2 DEF Underway, Done, Led
      <4> QED
        BY <1>1, <2>1, <3>1, <4>2, <4>3, GoingOnCalm DEF Led
    <3>4. CASE w.op = "adjust" /\ coord[w.to] = w.to
      <4>1. v = [w EXCEPT !.pc = "send", !.arg = Clamp(GroupVolume(w.to) + w.step)]
        BY <1>3, <2>4, <3>4 DEF Read
      <4>2. /\ v.op = "adjust" /\ v.pc = "send" /\ v.arg = Clamp(GroupVolume(w.to) + w.step)
            /\ v.to = w.to /\ v.dev = w.dev /\ v.was = w.was /\ v.step = w.step
            /\ v.reply = "none" /\ v.routed = w.routed
        BY <1>2, <3>1, <3>4, <4>1 DEF Fields
      <4>3. coord[w.to] = coord[w.dev] /\ GroupVolume(w.dev) = w.was
        BY <2>1, <3>1, <3>4 DEF SteppedOnce
      <4>4. v.arg = Clamp(w.was + w.step)
        BY <3>1, <4>2, <4>3, SameGroup
      <4>5. GroupVolume(w.dev)' = GroupVolume(w.dev) /\ ~Done(a)'
        BY <1>1, <3>1, <4>2, GroupKept DEF Done
      <4>6. SteppedOnce(a)'
        BY <1>1, <4>2, <4>3, <4>4, <4>5 DEF SteppedOnce
      <4>7. Led(a)' /\ MutedOnce(a)'
        BY <1>1, <3>4, <4>2 DEF Led, MutedOnce
      <4> QED
        BY <4>6, <4>7 DEF Undisturbed
    <3> QED
      BY <3>1, <3>2, <3>3, <3>4
  <2>5. CASE Send(a)
    <3>1. /\ w.pc = "send" /\ at'[a] = [w EXCEPT !.pc = "wait", !.reply = "none"]
      BY <1>3, <2>5 DEF Send
    <3>2. Underway(a)
      BY <3>1 DEF Underway
    <3>3. /\ at'[a].pc = "wait" /\ at'[a].reply = "none" /\ at'[a].op = w.op
          /\ at'[a].dev = w.dev /\ at'[a].to = w.to /\ at'[a].arg = w.arg
          /\ at'[a].step = w.step /\ at'[a].was = w.was /\ at'[a].routed = w.routed
      BY <1>2, <3>1 DEF Fields
    <3>4. Led(a)' /\ ~Done(a)'
      BY <1>1, <2>1, <3>3 DEF Led, Done
    <3> QED
      BY <1>1, <2>1, <3>1, <3>2, <3>3, <3>4, GoingOnCalm
  <2>6. CASE Answer(a)
    <3>1. /\ w.pc = "wait" /\ w.reply # "none" /\ UNCHANGED air
          /\ at'[a] = [w EXCEPT !.pc = IF w.reply = "ok" THEN "ok" ELSE "rejected"]
      BY <1>3, <2>6 DEF Answer
    <3>2. w.reply \in {"ok", "error"} /\ Underway(a)
      BY <1>2, <3>1 DEF WellFormed, Underway
    <3>3. /\ at'[a].pc = (IF w.reply = "ok" THEN "ok" ELSE "rejected")
          /\ at'[a].reply = w.reply /\ at'[a].op = w.op
          /\ at'[a].dev = w.dev /\ at'[a].to = w.to /\ at'[a].arg = w.arg
          /\ at'[a].step = w.step /\ at'[a].was = w.was /\ at'[a].routed = w.routed
      BY <1>2, <3>1 DEF Fields
    <3>4. Led(a)' /\ (Done(a)' => Done(a))
      BY <1>1, <2>1, <3>2, <3>3 DEF Led, Done
    <3> QED
      BY <1>1, <2>1, <3>1, <3>2, <3>3, <3>4, GoingOnCalm
  <2>7. CASE Timeout(a) \/ GiveUp(a)
    <3>1. PICK pc \in {"send", "failed"}, n \in {w.tries, w.tries + 1} :
            at'[a] = [w EXCEPT !.pc = pc, !.tries = n]
      <4>1. [w EXCEPT !.pc = "failed"] = [w EXCEPT !.pc = "failed", !.tries = w.tries]
        BY <1>2 DEF Fields
      <4> QED
        BY <1>3, <2>7, <4>1 DEF Timeout, GiveUp
    <3>2. /\ w.pc \in {"read", "send", "wait"} /\ UNCHANGED air
          /\ at'[a].pc = "send" => w.pc = "wait"
      <4>1. CASE Timeout(a)
        BY <4>1 DEF Timeout
      <4>2. CASE GiveUp(a)
        <5>1. at'[a].pc = "failed"
          BY <1>2, <1>3, <4>2 DEF GiveUp, Fields
        <5> QED
          BY <4>2, <5>1 DEF GiveUp
      <4> QED
        BY <2>7, <4>1, <4>2
    <3>3. /\ at'[a].pc = pc /\ at'[a].reply = w.reply /\ at'[a].op = w.op
          /\ at'[a].dev = w.dev /\ at'[a].to = w.to /\ at'[a].arg = w.arg
          /\ at'[a].step = w.step /\ at'[a].was = w.was /\ at'[a].routed = w.routed
      BY <1>2, <3>1 DEF Fields
    <3>4. Led(a)' /\ (Done(a)' => Done(a)) /\ (Underway(a)' => Underway(a))
      BY <1>1, <2>1, <3>2, <3>3 DEF Led, Done, Underway
    <3> QED
      BY <1>1, <2>1, <3>2, <3>3, <3>4, GoingOnCalm
  <2> QED
    BY <2>3, <2>4, <2>5, <2>6, <2>7 DEF Step
<1> QED
  BY <1>1, <1>4, <1>5 DEF CalmInv
\* A command that takes effect disturbs all requests but its own.
LEMMA ArriveCalm ==
  ASSUME TypeInv, CalmInv, NEW m \in air, Arrive(m)
  PROVE  CalmInv'
<1> DEFINE a == m.by
           w == at[a]
           c == Command(w)
<1>1. /\ a \in Requests /\ WellFormed(w) /\ DOMAIN w = Fields /\ w.pc \in Sent
      /\ calm \subseteq Requests /\ w.dev \in Players /\ w.to \in Players
  BY DEF TypeInv, AirInv, RequestsInv, WellFormed, Sent, Ended
<1>2. air' = air \ {m}
  BY DEF Arrive
<1>3. c.kind = (IF w.op = "adjust" THEN "group" ELSE w.op) /\ c.to = w.to /\ c.arg = w.arg
  BY DEF Command
<1>4. ASSUME NEW b \in Requests, b # a PROVE at'[b] = at[b]
  BY <1>1, <1>4 DEF Arrive, Go, TypeInv, RequestsInv
<1>5. PICK r \in {IF Rejected(c) THEN "error" ELSE "ok", w.reply} :
        /\ at'[a].reply = r /\ at'[a].pc = w.pc /\ at'[a].op = w.op
        /\ at'[a].dev = w.dev /\ at'[a].to = w.to /\ at'[a].arg = w.arg
        /\ at'[a].step = w.step /\ at'[a].was = w.was /\ at'[a].routed = w.routed
  <2> DEFINE reply == IF Rejected(c) THEN "error" ELSE "ok"
  <2>1. CASE w.pc = "wait" /\ w.tries = m.no
    <3>1. at' = [at EXCEPT ![a] = [w EXCEPT !.reply = reply]]
      BY <2>1 DEF Arrive, Go
    <3>2. at'[a] = [w EXCEPT !.reply = reply]
      BY <1>1, <3>1 DEF TypeInv, RequestsInv
    <3> QED
      BY <1>1, <3>2 DEF Fields
  <2>2. CASE ~(w.pc = "wait" /\ w.tries = m.no)
    <3>1. at' = at
      BY <2>2 DEF Arrive
    <3> QED
      BY <3>1
  <2> QED
    BY <2>1, <2>2
<1>6. Underway(a) /\ (Underway(a)' => Underway(a))
  BY DEF Underway
<1>7. CASE Rejected(c)
  <2>1. UNCHANGED <<net, calm>> /\ UNCHANGED <<vol, mute, coord>>
    BY <1>7 DEF Arrive, net
  <2>2. ASSUME NEW b \in calm, b # a PROVE Undisturbed(b)'
    BY <1>1, <1>2, <1>4, <2>1, <2>2, OthersKeep DEF CalmInv
  <2>3. ASSUME a \in calm PROVE Undisturbed(a)'
    <3>1. Undisturbed(a) /\ Led(a) /\ MutedOnce(a) /\ SteppedOnce(a)
      BY <2>3 DEF CalmInv, Undisturbed
    <3>2. Done(a)' => Done(a)
      BY <1>5, <1>7 DEF Done
    <3>3. ~(w.op \in {"group", "adjust"} /\ w.routed)
      BY <1>3, <1>7, <3>1 DEF Rejected, Led
    <3>4. Led(a)'
      BY <1>5, <3>3 DEF Led
    <3>5. MutedOnce(a)'
      BY <1>5, <1>6, <2>1, <3>1, <3>2 DEF MutedOnce
    <3>6. SteppedOnce(a)'
      <4>1. GroupVolume(w.dev)' = GroupVolume(w.dev)
        BY <1>1, <1>5, <2>1, GroupKept
      <4> QED
        BY <1>5, <1>6, <2>1, <3>1, <3>2, <4>1 DEF SteppedOnce
    <3> QED
      BY <3>4, <3>5, <3>6 DEF Undisturbed
  <2> QED
    BY <2>1, <2>2, <2>3 DEF CalmInv
<1>8. CASE ~Rejected(c)
  <2>1. Effect(c) /\ calm' = calm \cap {a}
    BY <1>8 DEF Arrive
  <2>2. ASSUME a \in calm PROVE Undisturbed(a)'
    <3>1. Undisturbed(a) /\ Led(a) /\ MutedOnce(a) /\ SteppedOnce(a)
      BY <2>2 DEF CalmInv, Undisturbed
    <3>2. CASE w.op = "mute"
      <4>1. mute' = [mute EXCEPT ![w.to] = w.arg]
        BY <1>3, <2>1, <3>2 DEF Effect
      <4>2. w.to = w.dev /\ w.arg = 1 - w.was /\ mute \in [Players -> {0, 1}]
        BY <1>6, <3>1, <3>2 DEF MutedOnce, TypeInv
      <4>3. mute'[w.dev] = 1 - w.was
        BY <1>1, <4>1, <4>2
      <4> QED
        BY <1>1, <1>5, <3>2, <4>2, <4>3 DEF Undisturbed, Led, MutedOnce, SteppedOnce, Sent, Ended
    <3>3. CASE w.op = "group"
      <4>1. UNCHANGED coord
        BY <1>3, <2>1, <3>3 DEF Effect
      <4>2. Led(a)'
        BY <1>5, <1>8, <3>1, <3>3, <4>1 DEF Led
      <4> QED
        BY <1>5, <3>3, <4>2 DEF Undisturbed, MutedOnce, SteppedOnce
    <3>4. CASE w.op = "adjust"
      <4>1. UNCHANGED coord /\ Average(vol', Group(w.to)) = w.arg
        BY <1>3, <2>1, <3>4 DEF Effect
      <4>2. /\ w.pc \notin {"route", "read"} /\ coord[w.to] = coord[w.dev]
            /\ w.arg = Clamp(w.was + w.step)
        BY <1>1, <1>6, <3>1, <3>4 DEF SteppedOnce, Sent, Ended
      <4>3. GroupVolume(w.dev)' = Clamp(w.was + w.step)
        <5>1. Group(w.to) = Group(w.dev)
          BY <1>1, <4>2, SameGroup
        <5>2. ASSUME NEW p \in Players PROVE GroupVolume(p)' = Average(vol', Group(p))
          BY <4>1, GroupKept
        <5> QED
          BY <1>1, <1>5, <4>1, <4>2, <5>1, <5>2
      <4>4. Led(a)'
        BY <1>5, <1>8, <3>1, <3>4, <4>1 DEF Led
      <4>5. SteppedOnce(a)'
        BY <1>5, <3>4, <4>1, <4>2, <4>3 DEF SteppedOnce
      <4> QED
        BY <1>5, <3>4, <4>4, <4>5 DEF Undisturbed, MutedOnce
    <3> QED
      BY <1>5, <3>2, <3>3, <3>4 DEF Undisturbed, Led, MutedOnce, SteppedOnce
  <2> QED
    BY <2>1, <2>2 DEF CalmInv
<1> QED
  BY <1>7, <1>8

LEMMA NextCalm == TypeInv /\ CalmInv /\ [Next]_vars => CalmInv'
<1> SUFFICES ASSUME TypeInv, CalmInv, [Next]_vars PROVE CalmInv'
  OBVIOUS
<1>1. CASE \E a \in Requests : Handle(a) \/ Step(a)
  BY <1>1, HandleBegins, BeginCalm, StepCalm
<1>2. CASE \E m \in air : Arrive(m)
  BY <1>2, ArriveCalm
<1>3. CASE UNCHANGED vars
  <2>1. ASSUME NEW b \in calm PROVE Undisturbed(b)'
    BY <1>3, OthersKeep DEF vars, CalmInv, TypeInv
  <2> QED
    BY <1>3, <2>1 DEF vars, CalmInv
<1> QED
  BY <1>1, <1>2, <1>3 DEF Next

LEMMA CalmHolds == Spec => [](TypeInv /\ CalmInv)
<1>1. Init => CalmInv
  BY DEF Init, CalmInv
<1> QED
  BY <1>1, InitTypes, NextTypes, NextCalm, PTL DEF Spec

\* One press of mute or of a volume step, with nobody else at work, takes effect
\* once or not at all, and once if it was answered with success: for any number
\* of attempts, late or twice, any group and any volumes.
THEOREM PressedOnce == Spec => []OnePressOneStep
BY CalmHolds, CalmInvSuffices, PTL

\* A group command goes to the leader of its group, unless the topology could not
\* be had or something changed meanwhile.
THEOREM LeaderFound == Spec => []GroupCommandsFindTheLeader
BY CalmHolds, CalmInvSuffices, PTL

-----------------------------------------------------------------------------
(* SonosControl implements RemoteCommand. *)

\* Attempts are counted, an attempt in the air is one that was made, and a success
\* that was heard of took effect.
AttemptsInv ==
  /\ \A a \in Requests : Counted(at[a])
  /\ \A m \in air : m.no <= at[m.by].tries
                    /\ (at[m.by].pc = "send" => m.no < at[m.by].tries)
  /\ \A a \in Requests : at[a].reply = "ok" => took[a]

\* A request goes on: what is asked of it is that attempts stay counted.
LEMMA GoAttempts ==
  ASSUME TypeInv, AttemptsInv, NEW a \in Requests, NEW w, Go(a, w), Counted(w),
         UNCHANGED <<air, took>>,
         w.reply = "ok" => took[a],
         at[a].pc \in Sent => /\ at[a].tries <= w.tries
                              /\ w.pc = "send" => at[a].pc = "send" \/ at[a].tries < w.tries
  PROVE  AttemptsInv'
<1>1. \A b \in Requests : at'[b] = IF b = a THEN w ELSE at[b]
  BY DEF Go, TypeInv, RequestsInv
<1>2. \A b \in Requests : Counted(at'[b]) /\ (at'[b].reply = "ok" => took[b])
  BY <1>1 DEF AttemptsInv
<1>3. ASSUME NEW m \in air
      PROVE  m.no <= at'[m.by].tries /\ (at'[m.by].pc = "send" => m.no < at'[m.by].tries)
  <2>1. m.by \in Requests /\ m.no \in Nat /\ at[m.by].pc \in Sent
    BY Constants DEF TypeInv, AirInv
  <2>2. m.no <= at[m.by].tries /\ (at[m.by].pc = "send" => m.no < at[m.by].tries)
    BY DEF AttemptsInv
  <2>3. at[m.by].tries \in Int
    BY <2>1, Constants DEF TypeInv, RequestsInv, WellFormed
  <2>4. w.tries \in Int
    BY DEF Counted
  <2> QED
    BY <1>1, <2>1, <2>2, <2>3, <2>4
<1> QED
  BY <1>2, <1>3 DEF AttemptsInv

LEMMA BeginAttempts ==
  ASSUME TypeInv, AttemptsInv, NEW a \in Requests, NEW w, Begin(a, w), Fresh(w)
  PROVE  AttemptsInv'
<1>1. at[a].pc \notin Sent /\ Go(a, w) /\ UNCHANGED <<air, took>>
  BY DEF Begin, Idle, Sent, Ended
<1> QED
  BY <1>1, GoAttempts DEF Fresh

LEMMA StepAttempts ==
  ASSUME TypeInv, AttemptsInv, NEW a \in Requests, Step(a)
  PROVE  AttemptsInv'
<1> DEFINE w == at[a]
<1>1. /\ WellFormed(w) /\ DOMAIN w = Fields /\ Counted(w) /\ w.tries \in Nat
      /\ w.reply = "ok" => took[a]
  BY DEF TypeInv, RequestsInv, WellFormed, AttemptsInv, Counted
<1>2. \A v : /\ v.op = w.op /\ v.tries = w.tries /\ v.arg \in {w.arg} \cup Levels \cup {0, 1}
             /\ w.pc \notin Unasked => v.pc \notin Unasked
             => Counted(v)
  BY <1>1 DEF Counted, Retries
<1>3. CASE Route(a)
  <2>1. PICK ok \in BOOLEAN :
          Go(a, [w EXCEPT !.to = IF ok THEN coord[w.dev] ELSE w.dev, !.routed = ok,
                          !.pc = IF w.op = "adjust" THEN "read" ELSE "send"])
    BY <1>3 DEF Route
  <2> DEFINE v == [w EXCEPT !.to = IF ok THEN coord[w.dev] ELSE w.dev, !.routed = ok,
                            !.pc = IF w.op = "adjust" THEN "read" ELSE "send"]
  <2>2. v.op = w.op /\ v.tries = w.tries /\ v.arg = w.arg /\ v.reply = w.reply
    BY <1>1 DEF Fields
  <2>3. w.pc = "route" /\ w.pc \notin Sent /\ w.pc \in Unasked /\ UNCHANGED <<air, took>>
    BY <1>3 DEF Route, Sent, Ended, Unasked
  <2>4. Counted(v)
    BY <1>2, <2>2, <2>3
  <2> QED
    BY <1>1, <2>1, <2>2, <2>3, <2>4, GoAttempts
<1>4. CASE Read(a)
  <2>1. PICK pc \in {"send", "rejected"}, k \in {w.arg} \cup Levels \cup {0, 1} :
          Go(a, [w EXCEPT !.pc = pc, !.arg = k])
    <3>1. [w EXCEPT !.pc = "rejected"] = [w EXCEPT !.pc = "rejected", !.arg = w.arg]
      BY <1>1 DEF Fields
    <3>2. w.op = "mute" => 1 - mute[w.to] \in {0, 1}
      BY <1>1, <1>4 DEF Read, TypeInv, WellFormed
    <3>3. Clamp(GroupVolume(w.to) + w.step) \in Levels
      BY ClampIsALevel
    <3> QED
      BY <1>4, <3>1, <3>2, <3>3 DEF Read
  <2> DEFINE v == [w EXCEPT !.pc = pc, !.arg = k]
  <2>2. v.op = w.op /\ v.tries = w.tries /\ v.arg = k /\ v.reply = w.reply
    BY <1>1 DEF Fields
  <2>3. w.pc = "read" /\ w.pc \notin Sent /\ w.pc \in Unasked /\ UNCHANGED <<air, took>>
    BY <1>4 DEF Read, Sent, Ended, Unasked
  <2>4. Counted(v)
    BY <1>2, <2>2, <2>3
  <2> QED
    BY <1>1, <2>1, <2>2, <2>3, <2>4, GoAttempts
<1>5. CASE Send(a)
  <2> DEFINE v == [w EXCEPT !.pc = "wait", !.reply = "none"]
  <2>1. /\ w.pc = "send" /\ air' = air \cup {[by |-> a, no |-> w.tries]} /\ UNCHANGED took
        /\ \A b \in Requests : at'[b] = IF b = a THEN v ELSE at[b]
    BY <1>5 DEF Send, Go, TypeInv, RequestsInv
  <2>2. /\ v.op = w.op /\ v.tries = w.tries /\ v.arg = w.arg /\ v.reply = "none"
        /\ v.pc = "wait" /\ v.pc \notin Unasked
    BY <1>1 DEF Fields, Unasked
  <2>3. Counted(v)
    BY <1>2, <2>2
  <2>4. \A b \in Requests : Counted(at'[b]) /\ (at'[b].reply = "ok" => took'[b])
    BY <2>1, <2>2, <2>3 DEF AttemptsInv
  <2>5. \A b \in Requests : /\ at'[b].tries = at[b].tries
                            /\ at'[b].pc = "send" => at[b].pc = "send"
                            /\ at[b].tries \in Nat
    BY <2>1, <2>2 DEF AttemptsInv, Counted
  <2>6. ASSUME NEW m \in air'
        PROVE  m.no <= at'[m.by].tries /\ (at'[m.by].pc = "send" => m.no < at'[m.by].tries)
    <3>1. CASE m \in air
      BY <2>5, <3>1 DEF TypeInv, AirInv, AttemptsInv
    <3>2. CASE m = [by |-> a, no |-> w.tries]
      <4>1. m.by = a /\ m.no = w.tries /\ at'[a].pc = "wait"
        BY <2>1, <2>2, <3>2
      <4> QED
        BY <2>5, <4>1
    <3> QED
      BY <2>1, <3>1, <3>2
  <2> QED
    BY <2>4, <2>6 DEF AttemptsInv
<1>6. CASE Answer(a)
  <2> DEFINE v == [w EXCEPT !.pc = IF w.reply = "ok" THEN "ok" ELSE "rejected"]
  <2>1. w.pc = "wait" /\ Go(a, v) /\ UNCHANGED <<air, took>>
    BY <1>6 DEF Answer
  <2>2. /\ v.op = w.op /\ v.tries = w.tries /\ v.arg = w.arg /\ v.reply = w.reply
        /\ v.pc \notin Unasked /\ v.pc # "send" /\ w.tries <= v.tries
    BY <1>1 DEF Fields, Unasked
  <2>3. Counted(v)
    BY <1>2, <2>2
  <2> HIDE DEF v
  <2> QED
    BY <1>1, <2>1, <2>2, <2>3, GoAttempts
<1>7. CASE Timeout(a) /\ w.tries < Retries(w)
  <2> DEFINE v == [w EXCEPT !.pc = "send", !.tries = w.tries + 1]
  <2>1. w.pc = "wait" /\ Go(a, v) /\ UNCHANGED <<air, took>>
    BY <1>7 DEF Timeout
  <2>2. /\ v.op = w.op /\ v.tries = w.tries + 1 /\ v.arg = w.arg /\ v.reply = w.reply
        /\ v.pc \notin Unasked /\ w.tries <= v.tries /\ w.tries < v.tries
    BY <1>1 DEF Fields, Unasked
  <2>3. Retries(v) = Retries(w) /\ Retries(w) \in Int
    BY <2>2, Constants DEF Retries
  <2>4. Counted(v)
    BY <1>1, <1>7, <2>2, <2>3 DEF Counted
  <2> HIDE DEF v
  <2> QED
    BY <1>1, <2>1, <2>2, <2>4, GoAttempts
<1>8. CASE (Timeout(a) /\ ~(w.tries < Retries(w))) \/ GiveUp(a)
  <2> DEFINE v == [w EXCEPT !.pc = "failed"]
  <2>1. Go(a, v) /\ UNCHANGED <<air, took>>
    BY <1>8 DEF Timeout, GiveUp
  <2>2. /\ v.op = w.op /\ v.tries = w.tries /\ v.arg = w.arg /\ v.reply = w.reply
        /\ v.pc \notin Unasked /\ v.pc # "send" /\ w.tries <= v.tries
    BY <1>1 DEF Fields, Unasked
  <2>3. Counted(v)
    BY <1>2, <2>2
  <2> HIDE DEF v
  <2> QED
    BY <1>1, <2>1, <2>2, <2>3, GoAttempts
<1> QED
  BY <1>3, <1>4, <1>5, <1>6, <1>7, <1>8 DEF Step

\* What an arriving attempt does to its request.
LEMMA ArriveSays ==
  ASSUME TypeInv, NEW m \in air, Arrive(m)
  PROVE  /\ \A b \in Requests : b # m.by => at'[b] = at[b]
         /\ \A b \in Requests : /\ at'[b].pc = at[b].pc /\ at'[b].op = at[b].op
                                /\ at'[b].tries = at[b].tries /\ at'[b].to = at[b].to
                                /\ at'[b].arg = at[b].arg
         /\ at'[m.by].reply = at[m.by].reply
            \/ at'[m.by].reply = IF Rejected(Command(at[m.by])) THEN "error" ELSE "ok"
<1> DEFINE a == m.by
           w == at[a]
           reply == IF Rejected(Command(w)) THEN "error" ELSE "ok"
<1>1. a \in Requests /\ WellFormed(w) /\ DOMAIN w = Fields
  BY DEF TypeInv, AirInv, RequestsInv, WellFormed
<1>2. CASE w.pc = "wait" /\ w.tries = m.no
  <2>1. \A b \in Requests : at'[b] = IF b = a THEN [w EXCEPT !.reply = reply] ELSE at[b]
    BY <1>1, <1>2 DEF Arrive, Go, TypeInv, RequestsInv
  <2> DEFINE v == [w EXCEPT !.reply = reply]
  <2>2. /\ v.op = w.op /\ v.tries = w.tries /\ v.arg = w.arg /\ v.reply = reply
        /\ v.pc = w.pc /\ v.to = w.to
    BY <1>1 DEF Fields
  <2> QED
    BY <1>1, <2>1, <2>2
<1>3. CASE ~(w.pc = "wait" /\ w.tries = m.no)
  BY <1>1, <1>3 DEF Arrive
<1> QED
  BY <1>2, <1>3

LEMMA ArriveAttempts ==
  ASSUME TypeInv, AttemptsInv, NEW m \in air, Arrive(m)
  PROVE  AttemptsInv'
<1>1. m.by \in Requests /\ air' \subseteq air /\ air \subseteq [by : Requests, no : 0 .. MaxRetries]
  BY DEF TypeInv, AirInv, Arrive
<1>2. \A b \in Requests : Counted(at'[b])
  BY ArriveSays DEF AttemptsInv, Counted, Retries
<1>3. ASSUME NEW n \in air'
      PROVE  n.no <= at'[n.by].tries /\ (at'[n.by].pc = "send" => n.no < at'[n.by].tries)
  <2>1. n \in air /\ n.by \in Requests
    BY <1>1
  <2>2. at'[n.by].tries = at[n.by].tries /\ at'[n.by].pc = at[n.by].pc
    BY <2>1, ArriveSays
  <2> QED
    BY <2>1, <2>2 DEF AttemptsInv
<1>4. ASSUME NEW b \in Requests, at'[b].reply = "ok" PROVE took'[b]
  <2>1. \A c \in Requests : took[c] => took'[c]
    BY DEF Arrive, TypeInv
  <2>2. CASE at[b].reply = "ok"
    BY <2>1, <2>2 DEF AttemptsInv
  <2>3. CASE at[b].reply # "ok"
    <3>1. b = m.by /\ ~Rejected(Command(at[b]))
      BY <1>4, <2>3, ArriveSays
    <3>2. took' = [took EXCEPT ![b] = TRUE]
      BY <3>1 DEF Arrive
    <3> QED
      BY <3>2 DEF TypeInv
  <2> QED
    BY <2>2, <2>3
<1> QED
  BY <1>2, <1>3, <1>4 DEF AttemptsInv

\* What RemoteCommand sees of SonosControl.
Calls  == [a \in Requests |-> Told(at[a])]
Cmds   == [a \in Requests |-> AskedFor(at[a])]
Spares == [a \in Requests |-> Unsent(at[a]) + Cardinality(InAir(a))]

\* Players are players to both.
LEMMA SamePlayers ==
  /\ Remote!net = net
  /\ \A c : Remote!Rejected(c) <=> Rejected(c)
  /\ \A c : Remote!Effect(c) <=> Effect(c)
<1>1. \A G : Remote!Cardinality(G) = Cardinality(G)
  BY DEF Cardinality, Remote!Cardinality
<1>2. \A f, G : Remote!SumFunctionOnSet(f, G) = SumFunctionOnSet(f, G)
  BY DEF SumFunctionOnSet, Remote!SumFunctionOnSet, FoldFunctionOnSet,
         Remote!FoldFunctionOnSet, MapThenFoldSet, Remote!MapThenFoldSet
<1>3. \A f, G : Remote!Average(f, G) = Average(f, G)
  BY <1>1, <1>2 DEF Average, Remote!Average
<1>4. /\ \A p : Remote!Group(p) = Group(p)
      /\ \A p, c : Remote!Moved(p, c) = Moved(p, c)
      /\ Remote!Levels = Levels
  BY DEF Group, Remote!Group, Moved, Remote!Moved, Levels, Remote!Levels
<1>5. \A c : Remote!Rejected(c) <=> Rejected(c)
  BY DEF Rejected, Remote!Rejected
<1>6. \A c : Remote!Effect(c) <=> Effect(c)
  BY <1>3, <1>4 DEF Effect, Remote!Effect
<1>7. Remote!net = net
  BY DEF net, Remote!net
<1> QED
  BY <1>5, <1>6, <1>7

\* Attempts in the air are finitely many.
LEMMA AirIsFinite ==
  ASSUME NEW a
  PROVE  IsFiniteSet(InAir(a)) /\ Cardinality(InAir(a)) \in Nat
<1>1. IsFiniteSet(0 .. MaxRetries)
  BY Constants, FS_Interval
<1>2. InAir(a) \in SUBSET (0 .. MaxRetries)
  BY DEF InAir
<1> QED
  BY <1>1, <1>2, FS_Subset, FS_CardinalityType

\* Only what is of request a changes.
LEMMA OneChanges ==
  ASSUME TypeInv, NEW a \in Requests,
         \A b \in Requests \ {a} : /\ Told(at'[b]) = Told(at[b])
                                   /\ AskedFor(at'[b]) = AskedFor(at[b])
                                   /\ Unsent(at'[b]) = Unsent(at[b])
                                   /\ InAir(b)' = InAir(b)
  PROVE  /\ Calls' = [Calls EXCEPT ![a] = Told(at'[a])]
         /\ Cmds' = [Cmds EXCEPT ![a] = AskedFor(at'[a])]
         /\ Spares' = [Spares EXCEPT ![a] = Unsent(at'[a]) + Cardinality(InAir(a)')]
BY DEF Calls, Cmds, Spares

\* Nothing that RemoteCommand sees changes.
LEMMA NothingSeen ==
  ASSUME NEW a \in Requests, Calls' = [Calls EXCEPT ![a] = Told(at[a])],
         Cmds' = [Cmds EXCEPT ![a] = AskedFor(at[a])],
         Spares' = [Spares EXCEPT ![a] = Unsent(at[a]) + Cardinality(InAir(a))],
         UNCHANGED <<net, took>>
  PROVE  UNCHANGED Remote!rvars
<1>1. Calls' = Calls /\ Cmds' = Cmds /\ Spares' = Spares
  BY DEF Calls, Cmds, Spares
<1> QED
  BY <1>1 DEF Remote!rvars, Remote!net, net, Calls, Cmds, Spares

LEMMA CommandFormed ==
  ASSUME NEW w, WellFormed(w), Counted(w), w.pc \in Sent
  PROVE  Command(w) \in Remote!Commands
<1>1. w.op \in AllOps /\ w.to \in Players /\ w.arg \in Levels \cup {0, 1} \cup Players
  BY DEF WellFormed, Counted, Sent, Ended
<1> QED
  BY <1>1 DEF Command, Remote!Commands, AllOps, Levels, Remote!Levels

\* The steps of a request, attempts left alone.
LEMMA GoImplements ==
  ASSUME TypeInv, AttemptsInv, NEW a \in Requests, NEW w, Go(a, w), WellFormed(w), Counted(w),
         UNCHANGED <<net, air, took>>,
         \/ at[a].pc \in Unasked /\ w.pc \in Unasked \cup {"send", "failed", "rejected"}
         \/ /\ at[a].pc \in {"send", "wait"} /\ Command(w) = Command(at[a])
            /\ \/ w.pc \in Ended /\ (w.pc = "ok" => took[a])
               \/ /\ at[a].pc = "wait" /\ w.pc = "send" /\ w.tries = at[a].tries + 1
                  /\ Retries(w) = Retries(at[a])
  PROVE  Remote!Next \/ UNCHANGED Remote!rvars
<1> DEFINE v == at[a]
<1>1. \A b \in Requests : at'[b] = IF b = a THEN w ELSE at[b]
  BY DEF Go, TypeInv, RequestsInv
<1>2. \A b \in Requests : InAir(b)' = InAir(b)
  BY DEF InAir
<1>3. /\ Calls' = [Calls EXCEPT ![a] = Told(w)] /\ Cmds' = [Cmds EXCEPT ![a] = AskedFor(w)]
      /\ Spares' = [Spares EXCEPT ![a] = Unsent(w) + Cardinality(InAir(a))]
  BY <1>1, <1>2, OneChanges
<1>4. /\ Calls[a] = Told(v) /\ Cmds[a] = AskedFor(v)
      /\ Spares[a] = Unsent(v) + Cardinality(InAir(a))
  BY DEF Calls, Cmds, Spares
<1>5. Remote!net' = Remote!net /\ UNCHANGED took
  BY DEF Remote!net, net
<1>6. Counted(v) /\ Retries(v) \in 0 .. MaxRetries /\ Retries(w) \in 0 .. MaxRetries
  BY RetriesInRange DEF AttemptsInv
<1>7. Cardinality(InAir(a)) \in Nat
  BY AirIsFinite
<1>8. v.pc \in Unasked => InAir(a) = {} /\ Cardinality(InAir(a)) = 0
  <2>1. v.pc \in Unasked => InAir(a) = {}
    BY DEF TypeInv, AirInv, InAir, Sent, Ended, Unasked
  <2> QED
    BY <2>1, FS_EmptySet
<1>9. CASE v.pc \in Unasked /\ w.pc \in Unasked
  <2>1. /\ Told(w) = Told(v) /\ AskedFor(w) = AskedFor(v) /\ Unsent(w) = Unsent(v)
    BY <1>9 DEF Told, AskedFor, Unsent, Unasked
  <2> QED
    BY <1>3, <2>1, NothingSeen
<1>10. CASE v.pc \in Unasked /\ w.pc = "send"
  <2>1. Told(v) = "none" /\ Told(w) = "asked" /\ AskedFor(w) \in Remote!Commands
    BY <1>10, CommandFormed DEF Told, AskedFor, Unasked, Sent
  <2>2. Unsent(w) + Cardinality(InAir(a)) \in 1 .. MaxRetries + 1
    BY <1>6, <1>8, <1>10, Constants DEF Unsent, Counted
  <2>3. /\ Calls[a] = "none" /\ Calls' = [Calls EXCEPT ![a] = "asked"]
        /\ Remote!Changes(Cmds, Cmds', a, Remote!Commands)
        /\ Remote!Changes(Spares, Spares', a, 1 .. MaxRetries + 1)
    BY <1>3, <1>4, <2>1, <2>2 DEF Remote!Changes, Calls, Cmds, Spares
  <2>4. Remote!Ask(a)
    BY <1>5, <2>3 DEF Remote!Ask, Calls, Cmds, Spares
  <2> QED
    BY <2>4 DEF Remote!Next
<1>11. CASE v.pc \in Unasked /\ w.pc \in {"failed", "rejected"}
  <2>1. /\ Told(v) = "none" /\ Told(w) = "failed" /\ AskedFor(w) \in Remote!Commands
        /\ Unsent(w) = Unsent(v)
    BY <1>11, CommandFormed DEF Told, AskedFor, Unasked, Sent, Ended, Unsent
  <2>2. /\ Calls[a] = "none" /\ Calls' = [Calls EXCEPT ![a] = "failed"]
        /\ Remote!Changes(Cmds, Cmds', a, Remote!Commands) /\ Spares' = Spares
    BY <1>3, <2>1, <1>4 DEF Remote!Changes, Calls, Cmds, Spares
  <2>3. Remote!GivesUp(a)
    BY <1>5, <2>2 DEF Remote!GivesUp, Calls, Cmds, Spares
  <2> QED
    BY <2>3 DEF Remote!Next
<1>12. CASE v.pc \in {"send", "wait"} /\ Command(w) = Command(v) /\ w.pc \in Ended
            /\ (w.pc = "ok" => took[a])
  <2>1. /\ Told(v) = "asked" /\ Told(w) \in {"ok", "failed"} /\ (Told(w) = "ok" => took[a])
        /\ AskedFor(w) = AskedFor(v) /\ Unsent(w) = 0
    BY <1>12 DEF Told, AskedFor, Unasked, Ended, Unsent
  <2>2. Unsent(w) + Cardinality(InAir(a)) \in 0 .. Spares[a]
    BY <1>4, <1>6, <1>7, <2>1 DEF Unsent, Counted
  <2>3. /\ Calls[a] = "asked" /\ Remote!Changes(Calls, Calls', a, {"ok", "failed"})
        /\ Calls'[a] = "ok" => took[a]
        /\ Cmds' = Cmds /\ Remote!Changes(Spares, Spares', a, 0 .. Spares[a])
    BY <1>3, <1>4, <2>1, <2>2 DEF Remote!Changes, Calls, Cmds, Spares
  <2>4. Remote!Answers(a)
    BY <1>5, <2>3 DEF Remote!Answers, Calls, Cmds, Spares
  <2> QED
    BY <2>4 DEF Remote!Next
<1>13. CASE v.pc = "wait" /\ Command(w) = Command(v) /\ w.pc = "send" /\ w.tries = v.tries + 1
            /\ Retries(w) = Retries(v)
  <2>1. /\ Told(w) = Told(v) /\ AskedFor(w) = AskedFor(v) /\ Unsent(w) = Unsent(v)
    BY <1>6, <1>13 DEF Told, AskedFor, Unsent, Unasked, Counted
  <2> QED
    BY <1>3, <2>1, NothingSeen
<1> QED
  BY <1>9, <1>10, <1>11, <1>12, <1>13

LEMMA BeginImplements ==
  ASSUME TypeInv, AttemptsInv, NEW a \in Requests, NEW w, Begin(a, w), Fresh(w)
  PROVE  Remote!Next \/ UNCHANGED Remote!rvars
<1>1. /\ Go(a, w) /\ UNCHANGED <<net, air, took>>
      /\ at[a].pc \in Unasked /\ w.pc \in {"route", "read", "send"}
      /\ WellFormed(w) /\ Counted(w)
  BY DEF Begin, Idle, Unasked, Fresh
<1>2. w.pc \in Unasked \cup {"send", "failed", "rejected"}
  BY <1>1 DEF Unasked
<1> QED
  BY <1>1, <1>2, GoImplements

\* An attempt is made: it was one still to be made, now it is on its way.
LEMMA SendImplements ==
  ASSUME TypeInv, AttemptsInv, NEW a \in Requests, Send(a)
  PROVE  UNCHANGED Remote!rvars
<1> DEFINE w == at[a]
           v == [w EXCEPT !.pc = "wait", !.reply = "none"]
           m == [by |-> a, no |-> w.tries]
<1>1. /\ w.pc = "send" /\ air' = air \cup {m} /\ UNCHANGED <<net, took>>
      /\ \A b \in Requests : at'[b] = IF b = a THEN v ELSE at[b]
      /\ WellFormed(w) /\ DOMAIN w = Fields /\ Counted(w)
  BY DEF Send, Go, TypeInv, RequestsInv, AttemptsInv, WellFormed
<1>2. /\ v.op = w.op /\ v.tries = w.tries /\ v.arg = w.arg /\ v.to = w.to
      /\ v.pc = "wait"
  BY <1>1 DEF Fields
<1> HIDE DEF v
<1>3. Told(v) = Told(w) /\ AskedFor(v) = AskedFor(w) /\ Unsent(v) = Unsent(w) - 1
  <2>1. Command(v) = Command(w) /\ Retries(v) = Retries(w)
    BY <1>2 DEF Command, Retries
  <2>2. Retries(w) \in Int /\ w.tries \in Int
    BY <1>1, RetriesInRange DEF Counted
  <2>3. Unsent(v) = Retries(w) - w.tries /\ Unsent(w) = Retries(w) - w.tries + 1
    BY <1>1, <1>2, <2>1 DEF Unsent
  <2> QED
    BY <1>1, <1>2, <2>1, <2>2, <2>3 DEF Told, AskedFor, Unasked
<1>4. w.tries \in 0 .. MaxRetries
  <2>1. Retries(w) \in 0 .. MaxRetries /\ MaxRetries \in Nat
    BY RetriesInRange, Constants
  <2>2. w.tries \in Nat /\ w.tries <= Retries(w)
    BY <1>1 DEF Counted
  <2> HIDE DEF w
  <2> QED
    BY <2>1, <2>2
<1>5. /\ \A b \in Requests \ {a} : InAir(b)' = InAir(b)
      /\ InAir(a)' = InAir(a) \cup {w.tries}
  BY <1>1, <1>4 DEF InAir
<1>6. w.tries \notin InAir(a)
  <2>1. SUFFICES ASSUME m \in air PROVE FALSE
    BY DEF InAir
  <2>2. m.by = a /\ m.no = w.tries
    OBVIOUS
  <2> QED
    BY <1>1, <1>4, <2>1, <2>2 DEF AttemptsInv
<1>7. Cardinality(InAir(a)') = Cardinality(InAir(a)) + 1
  <2>1. IsFiniteSet(InAir(a))
    BY AirIsFinite
  <2>2. Cardinality(InAir(a) \cup {w.tries}) = Cardinality(InAir(a)) + 1
    BY <1>6, <2>1, FS_AddElement
  <2> QED
    BY <1>5, <2>2
<1>8. Unsent(w) \in Int /\ Cardinality(InAir(a)) \in Int
  BY <1>1, AirIsFinite, RetriesInRange DEF Unsent, Counted
<1>9. Unsent(v) + Cardinality(InAir(a)') = Unsent(w) + Cardinality(InAir(a))
  BY <1>3, <1>7, <1>8
<1>10. /\ Calls' = [Calls EXCEPT ![a] = Told(v)] /\ Cmds' = [Cmds EXCEPT ![a] = AskedFor(v)]
       /\ Spares' = [Spares EXCEPT ![a] = Unsent(v) + Cardinality(InAir(a)')]
  BY <1>1, <1>5, OneChanges
<1> QED
  BY <1>1, <1>3, <1>9, <1>10, NothingSeen

LEMMA StepImplements ==
  ASSUME TypeInv, AttemptsInv, TypeInv', AttemptsInv', NEW a \in Requests, Step(a)
  PROVE  Remote!Next \/ UNCHANGED Remote!rvars
<1> DEFINE w == at[a]
           v == at'[a]
<1>1. /\ WellFormed(w) /\ DOMAIN w = Fields /\ WellFormed(v) /\ Counted(v)
      /\ w.reply = "ok" => took[a]
      /\ \A u : Go(a, u) => u = v
  BY DEF TypeInv, RequestsInv, WellFormed, AttemptsInv, Go
<1>2. CASE Route(a)
  <2>1. PICK ok \in BOOLEAN :
          Go(a, [w EXCEPT !.to = IF ok THEN coord[w.dev] ELSE w.dev, !.routed = ok,
                          !.pc = IF w.op = "adjust" THEN "read" ELSE "send"])
    BY <1>2 DEF Route
  <2>2. v.pc \in {"read", "send"}
    BY <1>1, <2>1 DEF Fields
  <2>3. Go(a, v) /\ w.pc \in Unasked /\ UNCHANGED <<net, air, took>>
        /\ v.pc \in Unasked \cup {"send", "failed", "rejected"}
    BY <1>1, <1>2, <2>1, <2>2 DEF Route, Unasked
  <2> QED
    BY <1>1, <2>3, GoImplements
<1>3. CASE Read(a)
  <2>1. PICK u : Go(a, u) /\ u.pc \in {"send", "rejected"}
    <3> DEFINE Sends(k) == [w EXCEPT !.pc = "send", !.arg = k]
               rejects == [w EXCEPT !.pc = "rejected"]
    <3>1. (\A k : Sends(k).pc = "send") /\ rejects.pc = "rejected"
      BY <1>1 DEF Fields
    <3>2. Go(a, rejects) \/ \E k : Go(a, Sends(k))
      BY <1>3 DEF Read
    <3> HIDE DEF Sends, rejects
    <3> QED
      BY <3>1, <3>2
  <2>2. Go(a, v) /\ w.pc \in Unasked /\ UNCHANGED <<net, air, took>>
        /\ v.pc \in Unasked \cup {"send", "failed", "rejected"}
    BY <1>1, <1>3, <2>1 DEF Read, Unasked
  <2> QED
    BY <1>1, <2>2, GoImplements
<1>4. CASE Send(a)
  BY <1>4, SendImplements
<1>5. CASE Answer(a)
  <2> DEFINE u == [w EXCEPT !.pc = IF w.reply = "ok" THEN "ok" ELSE "rejected"]
  <2>1. Go(a, u) /\ w.pc = "wait" /\ UNCHANGED <<net, air, took>>
    BY <1>5 DEF Answer
  <2>2. /\ u.op = w.op /\ u.to = w.to /\ u.arg = w.arg
        /\ u.pc = (IF w.reply = "ok" THEN "ok" ELSE "rejected")
    BY <1>1 DEF Fields
  <2>3. Command(u) = Command(w) /\ u.pc \in Ended /\ (u.pc = "ok" => took[a])
    BY <1>1, <2>2 DEF Command, Ended
  <2>4. u = v
    BY <1>1, <2>1
  <2> HIDE DEF u, v
  <2> QED
    BY <1>1, <2>1, <2>3, <2>4, GoImplements
<1>6. CASE Timeout(a) /\ w.tries < Retries(w)
  <2> DEFINE u == [w EXCEPT !.pc = "send", !.tries = w.tries + 1]
  <2>1. Go(a, u) /\ w.pc = "wait" /\ UNCHANGED <<net, air, took>>
    BY <1>6 DEF Timeout
  <2>2. /\ u.op = w.op /\ u.to = w.to /\ u.arg = w.arg
        /\ u.pc = "send" /\ u.tries = w.tries + 1
    BY <1>1 DEF Fields
  <2>3. Command(u) = Command(w) /\ Retries(u) = Retries(w)
    BY <1>1, <2>2 DEF Command, Retries
  <2>4. u = v
    BY <1>1, <2>1
  <2> HIDE DEF u, v
  <2> QED
    BY <1>1, <2>1, <2>2, <2>3, <2>4, GoImplements
<1>7. CASE (Timeout(a) /\ ~(w.tries < Retries(w))) \/ GiveUp(a)
  <2> DEFINE u == [w EXCEPT !.pc = "failed"]
  <2>1. Go(a, u) /\ w.pc \in {"read", "send", "wait"} /\ UNCHANGED <<net, air, took>>
    BY <1>7 DEF Timeout, GiveUp
  <2>2. u.op = w.op /\ u.to = w.to /\ u.arg = w.arg /\ u.pc = "failed"
    BY <1>1 DEF Fields
  <2>3. Command(u) = Command(w) /\ u.pc \in Ended /\ u.pc # "ok"
    BY <1>1, <2>2 DEF Command, Ended
  <2>4. u = v
    BY <1>1, <2>1
  <2>5. w.pc = "read" => w.pc \in Unasked
    BY DEF Unasked
  <2>6. u.pc \in Unasked \cup {"send", "failed", "rejected"}
    BY <2>2
  <2> HIDE DEF u, v
  <2> QED
    BY <1>1, <2>1, <2>3, <2>4, <2>5, <2>6, GoImplements
<1> QED
  BY <1>2, <1>3, <1>4, <1>5, <1>6, <1>7 DEF Step

\* An attempt arrives: its command takes effect, or is rejected and comes to nothing.
LEMMA ArriveImplements ==
  ASSUME TypeInv, AttemptsInv, NEW m \in air, Arrive(m)
  PROVE  Remote!Next
<1> DEFINE a == m.by
           w == at[a]
<1>1. /\ a \in Requests /\ m.no \in 0 .. MaxRetries /\ m = [by |-> a, no |-> m.no]
      /\ w.pc \in Sent
  BY DEF TypeInv, AirInv
<1>2. air' = air \ {m}
  BY DEF Arrive
<1>3. /\ \A b \in Requests \ {a} : InAir(b)' = InAir(b)
      /\ InAir(a)' = InAir(a) \ {m.no} /\ m.no \in InAir(a)
  <2>1. \A b \in Requests : \A n : [by |-> b, no |-> n] = m <=> b = a /\ n = m.no
    BY <1>1
  <2>2. \A b \in Requests : InAir(b)' = {n \in 0 .. MaxRetries :
                              [by |-> b, no |-> n] \in air /\ [by |-> b, no |-> n] # m}
    BY <1>2 DEF InAir
  <2> QED
    BY <1>1, <2>1, <2>2 DEF InAir
<1>4. /\ Cardinality(InAir(a)') = Cardinality(InAir(a)) - 1
      /\ Cardinality(InAir(a)) \in Nat /\ Cardinality(InAir(a)) > 0
  <2>1. IsFiniteSet(InAir(a)) /\ Cardinality(InAir(a)) \in Nat
    BY AirIsFinite
  <2>2. Cardinality(InAir(a)') = Cardinality(InAir(a)) - 1
    BY <1>3, <2>1, FS_RemoveElement
  <2>3. InAir(a) # {}
    BY <1>3
  <2>4. Cardinality(InAir(a)) # 0
    BY <2>1, <2>3, FS_EmptySet
  <2> QED
    BY <2>1, <2>2, <2>4
<1>5. \A b \in Requests : /\ Told(at'[b]) = Told(at[b]) /\ AskedFor(at'[b]) = AskedFor(at[b])
                          /\ Unsent(at'[b]) = Unsent(at[b])
  <2> SUFFICES ASSUME NEW b \in Requests
               PROVE  /\ Told(at'[b]) = Told(at[b]) /\ AskedFor(at'[b]) = AskedFor(at[b])
                      /\ Unsent(at'[b]) = Unsent(at[b])
    OBVIOUS
  <2>1. /\ at'[b].pc = at[b].pc /\ at'[b].op = at[b].op /\ at'[b].tries = at[b].tries
        /\ at'[b].to = at[b].to /\ at'[b].arg = at[b].arg
    BY ArriveSays
  <2> QED
    BY <2>1 DEF Told, AskedFor, Unsent, Command, Retries
<1>6. Unsent(w) \in Nat
  <2>1. Counted(w) /\ Retries(w) \in 0 .. MaxRetries
    BY <1>1, RetriesInRange DEF AttemptsInv
  <2> QED
    BY <2>1, Constants DEF Unsent, Counted
<1>7. /\ Spares[a] = Unsent(w) + Cardinality(InAir(a)) /\ Spares[a] > 0
      /\ Spares' = [Spares EXCEPT ![a] = Spares[a] - 1]
  <2>1. Spares[a] = Unsent(w) + Cardinality(InAir(a))
    BY <1>1 DEF Spares
  <2>2. Spares' = [Spares EXCEPT ![a] = Unsent(at'[a]) + Cardinality(InAir(a)')]
    BY <1>1, <1>3, <1>5, OneChanges
  <2>3. Unsent(at'[a]) + Cardinality(InAir(a)') = Spares[a] - 1
    BY <1>1, <1>4, <1>5, <1>6, <2>1
  <2>4. Spares[a] > 0
    BY <1>4, <1>6, <2>1
  <2> QED
    BY <2>1, <2>2, <2>3, <2>4
<1>8. Calls' = Calls /\ Cmds' = Cmds
  BY <1>5 DEF Calls, Cmds
<1>9. Cmds[a] = Command(w)
  BY <1>1 DEF Cmds, AskedFor, Unasked, Sent, Ended
<1>10. CASE Rejected(Command(w))
  <2>1. UNCHANGED <<net, took>>
    BY <1>10 DEF Arrive
  <2>2. Remote!net' = Remote!net
    BY <2>1 DEF net, Remote!net
  <2>3. Remote!IsLost(a)
    BY <1>7, <1>8, <2>1, <2>2 DEF Remote!IsLost, Calls, Cmds, Spares
  <2> QED
    BY <1>1, <2>3 DEF Remote!Next
<1>11. CASE ~Rejected(Command(w))
  <2>1. Effect(Command(w)) /\ took' = [took EXCEPT ![a] = TRUE]
    BY <1>11 DEF Arrive
  <2>2. ~Remote!Rejected(Cmds[a]) /\ Remote!Effect(Cmds[a])
    BY <1>9, <1>11, <2>1, SamePlayers
  <2>3. Remote!TakesEffect(a)
    BY <1>7, <1>8, <2>1, <2>2 DEF Remote!TakesEffect, Calls, Cmds, Spares
  <2> QED
    BY <1>1, <2>3 DEF Remote!Next
<1> QED
  BY <1>10, <1>11

LEMMA NextImplements ==
  TypeInv /\ AttemptsInv /\ TypeInv' /\ AttemptsInv' /\ [Next]_vars => [Remote!Next]_(Remote!rvars)
<1> SUFFICES ASSUME TypeInv, AttemptsInv, TypeInv', AttemptsInv', [Next]_vars
             PROVE  Remote!Next \/ UNCHANGED Remote!rvars
  OBVIOUS
<1>1. CASE \E a \in Requests : Handle(a) \/ Step(a)
  BY <1>1, HandleBegins, BeginImplements, StepImplements
<1>2. CASE \E m \in air : Arrive(m)
  BY <1>2, ArriveImplements
<1>3. CASE UNCHANGED vars
  BY <1>3 DEF vars, net, Remote!rvars, Remote!net, InAir
<1> QED
  BY <1>1, <1>2, <1>3 DEF Next

LEMMA InitImplements == Init => Remote!Init
<1> SUFFICES ASSUME Init PROVE Remote!Init
  OBVIOUS
<1>1. \A a \in Requests : InAir(a) = {} /\ Cardinality(InAir(a)) = 0
  <2>1. \A a \in Requests : InAir(a) = {}
    BY DEF Init, InAir
  <2> QED
    BY <2>1, FS_EmptySet
<1>2. \A a \in Requests : /\ Told(at[a]) = "none" /\ AskedFor(at[a]) = Remote!NoCommand
                          /\ Unsent(at[a]) = 0
  BY DEF Init, Idle, Told, AskedFor, Unsent, Unasked, Remote!NoCommand
<1>3. TypeInv
  BY InitTypes
<1>4. /\ vol \in [Players -> Remote!Levels] /\ mute \in [Players -> {0, 1}]
      /\ coord \in [Players -> Players] /\ took = [a \in Requests |-> FALSE]
  BY <1>3 DEF TypeInv, Init, Levels, Remote!Levels
<1>5. \A a \in Requests : Unsent(at[a]) + Cardinality(InAir(a)) = 0
  BY <1>1, <1>2
<1> QED
  BY <1>2, <1>4, <1>5 DEF Remote!Init

LEMMA AttemptsHold == Spec => [](TypeInv /\ AttemptsInv)
<1>1. Init => AttemptsInv
  BY Constants DEF Init, AttemptsInv, Counted, Idle, Retries, Unasked
<1>2. TypeInv /\ AttemptsInv /\ [Next]_vars => AttemptsInv'
  <2> SUFFICES ASSUME TypeInv, AttemptsInv, [Next]_vars PROVE AttemptsInv'
    OBVIOUS
  <2>1. CASE \E a \in Requests : Handle(a) \/ Step(a)
    BY <2>1, HandleBegins, BeginAttempts, StepAttempts
  <2>2. CASE \E m \in air : Arrive(m)
    BY <2>2, ArriveAttempts
  <2>3. CASE UNCHANGED vars
    BY <2>3 DEF vars, AttemptsInv
  <2> QED
    BY <2>1, <2>2, <2>3 DEF Next
<1> QED
  BY <1>1, <1>2, InitTypes, NextTypes, PTL DEF Spec

\* Attempts, timeouts, late arrivals and lost answers make up one command that
\* takes effect at most MaxRetries + 1 times, and before it is answered with
\* success: SonosControl implements RemoteCommand, whatever the requests and groups.
THEOREM Implements == Spec => ImplementsRemoteCommand
BY AttemptsHold, InitImplements, NextImplements, PTL DEF Spec, ImplementsRemoteCommand, Remote!Spec

=============================================================================
