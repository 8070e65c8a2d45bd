---------------------------- MODULE SonosControl ----------------------------
(***************************************************************************)
(* The handlers that change volume, mute and groups, down to the attempts  *)
(* of their SOAP calls.  A handler reads what it needs, works out a value  *)
(* and sends it; between the reading, the sending and the taking effect    *)
(* anybody else may act.  An attempt that has timed out may still reach    *)
(* the player, after later attempts and after the answer to the browser.   *)
(* Each request is one of Requests; it runs once.                          *)
(*                                                                         *)
(* A read (topology, group volume, mute) is one step, attempts included:   *)
(* it changes nothing.  Addresses are the players themselves.  Left out:   *)
(* SQL errors, missing rows and values that do not parse, which end a      *)
(* request before it has done anything, and the three handlers that only   *)
(* show volumes and groups.                                                *)
(***************************************************************************)
EXTENDS SonosPlayers

CONSTANTS
  Requests,
  MaxRetries,   \* attempts after the first (3)
  Ops,          \* kinds of requests the user sends
  Wanted,       \* volumes he asks for, also out of range
  Deltas        \* steps of the group volume

AllOps == {"volume", "mute", "group", "adjust", "join", "leave"}

ASSUME ControlAssumption ==
  /\ MaxRetries \in Nat /\ Ops \subseteq AllOps
  /\ Wanted \subseteq Int /\ Deltas \subseteq Int

VARIABLES
  at,           \* where each request is and what it has read
  air,          \* attempts that have not reached their player
  took,         \* auxiliary: the command has taken effect
  calm          \* auxiliary: requests during which nothing else took effect

vars == <<net, at, air, took, calm>>

-----------------------------------------------------------------------------
(* Where a request is. *)

\* pc: its next step; dev: the player of the playback row; to: the player the
\* command goes to; arg: its argument, for a relative step the step until the
\* group volume is known; tries: attempts that failed; reply: what the player
\* said to the last one; was: what it was about when the request began.
Idle == [op |-> "none", pc |-> "idle", dev |-> NoPlayer, to |-> NoPlayer, arg |-> 0,
         step |-> 0, tries |-> 0, reply |-> "none", routed |-> FALSE, was |-> 0]

Ended == {"ok", "failed", "rejected"}

Command(w) == [kind |-> IF w.op = "adjust" THEN "group" ELSE w.op, to |-> w.to, arg |-> w.arg]

\* GroupRenderingControl sends once, AVTransport retries.
Retries(w) == IF w.op \in {"group", "adjust"} THEN 0 ELSE MaxRetries

Go(a, w) == at' = [at EXCEPT ![a] = w]

Begin(a, w) ==
  /\ at[a] = Idle /\ w.op \in Ops
  /\ Go(a, w)
  /\ calm' = calm \cup {a}
  /\ UNCHANGED <<net, air, took>>

-----------------------------------------------------------------------------
(* The handlers. *)

\* Mutant: only the upper limit is looked at.
Asked_upper_only(v) == IF v > MaxVolume THEN MaxVolume ELSE v

\* SetVolume and SetGroupVolume limit what they are given.
Asked(v) == Clamp(v)

\* POST /transport/volume and /volume/member: to that player, wherever it is.
SetVolume(a, p, v) ==
  Begin(a, [Idle EXCEPT !.op = "volume", !.pc = "send", !.dev = p, !.to = p, !.arg = Asked(v)])

\* POST /transport/mute reads first.
ToggleMute(a, p) ==
  Begin(a, [Idle EXCEPT !.op = "mute", !.pc = "read", !.dev = p, !.to = p, !.was = mute[p]])

\* POST /volume/group and /volume/group/adjust ask for the coordinator first.
SetGroupVolume(a, p, v) ==
  Begin(a, [Idle EXCEPT !.op = "group", !.pc = "route", !.dev = p, !.arg = Asked(v)])

AdjustGroupVolume(a, p, d) ==
  Begin(a, [Idle EXCEPT !.op = "adjust", !.pc = "route", !.dev = p, !.step = d,
                        !.was = GroupVolume(p)])

\* POST /sonos/group/join and /sonos/group/leave.
JoinGroup(a, p, c) ==
  Begin(a, [Idle EXCEPT !.op = "join", !.pc = "send", !.dev = p, !.to = p, !.arg = c])

LeaveGroup(a, p) ==
  Begin(a, [Idle EXCEPT !.op = "leave", !.pc = "send", !.dev = p, !.to = p])

\* Mutant: the player of the row is taken for the leader of its group.
Route_nowhere(a) ==
  /\ at[a].pc = "route"
  /\ \E ok \in BOOLEAN :
       Go(a, [at[a] EXCEPT !.to = at[a].dev, !.routed = ok,
                           !.pc = IF at[a].op = "adjust" THEN "read" ELSE "send"])
  /\ UNCHANGED <<net, air, took, calm>>

\* getCoordinatorIP: the coordinator, or the player itself when the topology
\* cannot be had.
Route(a) ==
  /\ at[a].pc = "route"
  /\ \E ok \in BOOLEAN :
       Go(a, [at[a] EXCEPT !.to = IF ok THEN coord[at[a].dev] ELSE at[a].dev, !.routed = ok,
                           !.pc = IF at[a].op = "adjust" THEN "read" ELSE "send"])
  /\ UNCHANGED <<net, air, took, calm>>

\* GetMute, or GetGroupVolume of a player that leads a group; the value to send.
Read(a) ==
  LET w == at[a] IN
  /\ w.pc = "read"
  /\ Go(a, IF w.op = "mute" THEN [w EXCEPT !.pc = "send", !.arg = 1 - mute[w.to]]
           ELSE IF coord[w.to] # w.to THEN [w EXCEPT !.pc = "rejected"]
           ELSE [w EXCEPT !.pc = "send", !.arg = Clamp(GroupVolume(w.to) + w.step)])
  /\ UNCHANGED <<net, air, took, calm>>

-----------------------------------------------------------------------------
(* sendCommand. *)

Send(a) ==
  /\ at[a].pc = "send"
  /\ Go(a, [at[a] EXCEPT !.pc = "wait", !.reply = "none"])
  /\ air' = air \cup {[by |-> a, no |-> at[a].tries]}
  /\ UNCHANGED <<net, took, calm>>

\* The player gets an attempt, whoever still waits for the answer, and obeys or
\* rejects it.
Arrive(m) ==
  LET w == at[m.by]
      reply == IF Rejected(Command(w)) THEN "error" ELSE "ok"
  IN  /\ m \in air /\ air' = air \ {m}
      /\ IF w.pc = "wait" /\ w.tries = m.no
         THEN Go(m.by, [w EXCEPT !.reply = reply]) ELSE UNCHANGED at
      /\ IF reply = "ok"
         THEN /\ Effect(Command(w))
              /\ took' = [took EXCEPT ![m.by] = TRUE]
              /\ calm' = calm \cap {m.by}
         ELSE UNCHANGED <<net, took, calm>>

\* Mutant: whatever the player says is taken for success.
Answer_any(a) ==
  LET w == at[a] IN
  /\ w.pc = "wait" /\ w.reply # "none"
  /\ Go(a, [w EXCEPT !.pc = "ok"])
  /\ UNCHANGED <<net, air, took, calm>>

Answer(a) ==
  LET w == at[a] IN
  /\ w.pc = "wait" /\ w.reply # "none"
  /\ Go(a, [w EXCEPT !.pc = IF w.reply = "ok" THEN "ok" ELSE "rejected"])
  /\ UNCHANGED <<net, air, took, calm>>

\* Mutant: attempts are not counted.
Timeout_uncounted(a) ==
  LET w == at[a] IN
  /\ w.pc = "wait"
  /\ Go(a, IF Retries(w) > 0 THEN [w EXCEPT !.pc = "send"] ELSE [w EXCEPT !.pc = "failed"])
  /\ UNCHANGED <<net, air, took, calm>>

\* Mutant: the whole request is tried again, reading included.
Timeout_rereads(a) ==
  LET w == at[a] IN
  /\ w.pc = "wait"
  /\ Go(a, IF w.tries < MaxRetries
           THEN [w EXCEPT !.pc = IF w.op \in {"mute", "adjust"} THEN "read" ELSE "send",
                          !.tries = @ + 1]
           ELSE [w EXCEPT !.pc = "failed"])
  /\ UNCHANGED <<net, air, took, calm>>

\* No answer, or none that came in time: after a pause the next attempt.
Timeout(a) ==
  LET w == at[a] IN
  /\ w.pc = "wait"
  /\ Go(a, IF w.tries < Retries(w) THEN [w EXCEPT !.pc = "send", !.tries = @ + 1]
                                   ELSE [w EXCEPT !.pc = "failed"])
  /\ UNCHANGED <<net, air, took, calm>>

\* An error that is not a timeout (refused, reset, an answer cut short), a read
\* that failed, or a browser that has gone: the request ends at once.
GiveUp(a) ==
  /\ at[a].pc \in {"read", "send", "wait"}
  /\ Go(a, [at[a] EXCEPT !.pc = "failed"])
  /\ UNCHANGED <<net, air, took, calm>>

-----------------------------------------------------------------------------
(* The specification. *)

Init ==
  /\ vol = [p \in Players |-> MaxVolume \div 2]
  /\ mute = [p \in Players |-> 0]
  /\ coord \in [Players -> Players] /\ \A p \in Players : coord[coord[p]] = coord[p]
  /\ at = [a \in Requests |-> Idle]
  /\ air = {}
  /\ took = [a \in Requests |-> FALSE]
  /\ calm = {}

Handle(a) ==
  \E p \in Players :
    \/ \E v \in Wanted : SetVolume(a, p, v) \/ SetGroupVolume(a, p, v)
    \/ \E d \in Deltas : AdjustGroupVolume(a, p, d)
    \/ \E c \in Players : JoinGroup(a, p, c)
    \/ ToggleMute(a, p) \/ LeaveGroup(a, p)

Step(a) == Route(a) \/ Read(a) \/ Send(a) \/ Answer(a) \/ Timeout(a) \/ GiveUp(a)

Next ==
  \/ \E a \in Requests : Handle(a) \/ Step(a)
  \/ \E m \in air : Arrive(m)

Spec == Init /\ [][Next]_vars

\* A handler's next step is taken, each call having a timeout; nothing is
\* assumed of users, of the network and of the players.
FairSpec == Spec /\ \A a \in Requests : WF_vars(Step(a))

-----------------------------------------------------------------------------
(* Properties. *)

PCs == {"idle", "route", "read", "send", "wait"} \cup Ended

\* Types; volumes stay in their range whatever is asked for.
TypeOK ==
  /\ vol \in [Players -> Levels]
  /\ mute \in [Players -> {0, 1}]
  /\ coord \in [Players -> Players]
  /\ \A a \in Requests :
       /\ at[a].op \in AllOps \cup {"none"} /\ at[a].pc \in PCs
       /\ {at[a].dev, at[a].to} \subseteq Players \cup {NoPlayer}
       /\ at[a].tries \in 0 .. MaxRetries
       /\ at[a].reply \in {"none", "ok", "error"}
  /\ air \subseteq [by : Requests, no : 0 .. MaxRetries]
  /\ took \in [Requests -> BOOLEAN]
  /\ calm \subseteq Requests

\* One press of mute or of a volume step, with nobody else at work, changes what
\* it is about once or not at all, however many attempts were made, arrived late
\* or twice; and once if it was answered with success.
OnePressOneStep ==
  \A a \in calm : LET w == at[a] IN
    /\ w.op = "mute" /\ w.pc = "ok" => mute[w.dev] = 1 - w.was
    /\ w.op = "adjust" =>
         /\ GroupVolume(w.dev) \in {w.was, Clamp(w.was + w.step)}
         /\ w.pc = "ok" => GroupVolume(w.dev) = Clamp(w.was + w.step)

\* A group command is sent to the leader of the group: unless the topology could
\* not be had or something changed meanwhile, it is not rejected.
GroupCommandsFindTheLeader ==
  \A a \in calm : at[a].op \in {"group", "adjust"} /\ at[a].pc = "rejected" => ~at[a].routed

\* Every request ends, in an answer or an error: attempts do not go on for ever.
RequestsEnd == \A a \in Requests : at[a].pc # "idle" ~> at[a].pc \in Ended

-----------------------------------------------------------------------------
(* What it all promises: RemoteCommand. *)

\* Attempts that have not been made, and those that are on their way.
Unsent(w) == IF w.pc = "send" THEN Retries(w) - w.tries + 1
             ELSE IF w.pc = "wait" THEN Retries(w) - w.tries ELSE 0

InAir(a) == {n \in 0 .. MaxRetries : [by |-> a, no |-> n] \in air}

\* What the sender knows, and of which command.
Unasked == {"idle", "route", "read"}

Told(w) == CASE w.pc \in Unasked -> "none"
             [] w.pc \in {"send", "wait"} -> "asked"
             [] w.pc = "ok" -> "ok"
             [] OTHER -> "failed"

AskedFor(w) == IF w.pc \in Unasked THEN [kind |-> "none", to |-> NoPlayer, arg |-> 0]
               ELSE Command(w)

Remote == INSTANCE RemoteCommand WITH
  MaxTries <- MaxRetries + 1,
  call  <- [a \in Requests |-> Told(at[a])],
  cmd   <- [a \in Requests |-> AskedFor(at[a])],
  spare <- [a \in Requests |-> Unsent(at[a]) + Cardinality(InAir(a))]

\* Attempts, timeouts, late arrivals and lost answers make up one command that
\* takes effect at most MaxRetries + 1 times, and before it is answered with success.
ImplementsRemoteCommand == Remote!Spec

=============================================================================
