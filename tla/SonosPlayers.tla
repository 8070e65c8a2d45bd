---------------------------- MODULE SonosPlayers ----------------------------
(***************************************************************************)
(* Sonos players as a controller sees them: each has a volume, a mute and  *)
(* a coordinator, and obeys commands sent to it.  The players are not part *)
(* of the program; what they do is taken from how internal/sonos uses them *)
(* and from its comments.                                                  *)
(***************************************************************************)
EXTENDS Integers, FiniteSets, FiniteSetsExt

CONSTANTS
  Players, NoPlayer,
  MaxVolume     \* 100

ASSUME PlayersAssumption == NoPlayer \notin Players
ASSUME VolumeAssumption  == MaxVolume \in Nat

VARIABLES
  vol,          \* volume of each player
  mute,         \* 1 if it is muted
  coord         \* coordinator of the group it is in

net == <<vol, mute, coord>>

Levels == 0 .. MaxVolume

Clamp(v) == IF v \in Levels THEN v ELSE IF v < 0 THEN 0 ELSE MaxVolume

Group(p) == {q \in Players : coord[q] = coord[p]}

\* The volume of a group is the average of its members'.
Average(f, G) == SumFunctionOnSet(f, G) \div Cardinality(G)

GroupVolume(p) == Average(vol, Group(p))

\* The groups when player p goes to coordinator c: those it leaves behind
\* choose a coordinator among them.
Moved(p, c) ==
  LET left == Group(p) \ {p}
      heir == IF coord[p] # p \/ left = {} THEN {NoPlayer} ELSE left
  IN  {[q \in Players |-> IF q = p THEN c
                          ELSE IF q \in left /\ n # NoPlayer THEN n ELSE coord[q]] : n \in heir}

\* A command: what kind, to which player, with which argument.
Rejected(c) ==
  \/ c.kind = "group" /\ coord[c.to] # c.to
  \/ c.kind = "join" /\ (c.arg = c.to \/ coord[c.arg] # c.arg)

\* What the command does to the players.  A group's volume is set by moving the
\* volumes of its members.
Effect(c) ==
  \/ /\ c.kind = "volume"
     /\ vol' = [vol EXCEPT ![c.to] = c.arg]
     /\ UNCHANGED <<mute, coord>>
  \/ /\ c.kind = "mute"
     /\ mute' = [mute EXCEPT ![c.to] = c.arg]
     /\ UNCHANGED <<vol, coord>>
  \/ /\ c.kind = "group"
     /\ vol' \in {f \in [Players -> Levels] :
                    /\ Average(f, Group(c.to)) = c.arg
                    /\ \A q \in Players \ Group(c.to) : f[q] = vol[q]}
     /\ UNCHANGED <<mute, coord>>
  \/ /\ c.kind = "join"
     /\ coord' \in Moved(c.to, c.arg)
     /\ UNCHANGED <<vol, mute>>
  \/ /\ c.kind = "leave"
     /\ coord' \in Moved(c.to, c.to)
     /\ UNCHANGED <<vol, mute>>
=============================================================================
