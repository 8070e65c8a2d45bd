---------------------------- MODULE RemoteCommand ----------------------------
(***************************************************************************)
(* What a command to a Sonos player promises whoever sends it: it takes    *)
(* effect at most MaxTries times, at any time after it was asked for; told *)
(* that it succeeded, the sender knows that it took effect since; told     *)
(* that it failed, he knows nothing.  SonosControl implements it.          *)
(***************************************************************************)
EXTENDS SonosPlayers

CONSTANTS Requests, MaxTries

VARIABLES
  call,         \* none, asked, ok or failed
  cmd,          \* the command, once it is asked for
  spare,        \* how often it may still take effect
  took          \* it has taken effect

rvars == <<net, call, cmd, spare, took>>

NoCommand == [kind |-> "none", to |-> NoPlayer, arg |-> 0]

Init ==
  /\ vol \in [Players -> Levels] /\ mute \in [Players -> {0, 1}]
  /\ coord \in [Players -> Players]
  /\ call = [a \in Requests |-> "none"]
  /\ cmd = [a \in Requests |-> NoCommand]
  /\ spare = [a \in Requests |-> 0]
  /\ took = [a \in Requests |-> FALSE]

Commands == [kind : {"volume", "mute", "group", "join", "leave"}, to : Players,
             arg : Levels \cup {0, 1} \cup Players]

\* g is f with another value at a, one of S.
Changes(f, g, a, S) == g[a] \in S /\ g = [f EXCEPT ![a] = g[a]]

Ask(a) ==
  /\ call[a] = "none" /\ call' = [call EXCEPT ![a] = "asked"]
  /\ Changes(cmd, cmd', a, Commands)
  /\ Changes(spare, spare', a, 1 .. MaxTries)
  /\ UNCHANGED <<net, took>>

TakesEffect(a) ==
  /\ spare[a] > 0 /\ spare' = [spare EXCEPT ![a] = @ - 1]
  /\ took' = [took EXCEPT ![a] = TRUE]
  /\ ~Rejected(cmd[a]) /\ Effect(cmd[a])
  /\ UNCHANGED <<call, cmd>>

\* A try comes to nothing.
IsLost(a) ==
  /\ spare[a] > 0 /\ spare' = [spare EXCEPT ![a] = @ - 1]
  /\ UNCHANGED <<net, call, cmd, took>>

\* The sender is told, and no further tries are made; those on their way may
\* still take effect.
Answers(a) ==
  /\ call[a] = "asked" /\ Changes(call, call', a, {"ok", "failed"})
  /\ call'[a] = "ok" => took[a]
  /\ Changes(spare, spare', a, 0 .. spare[a])
  /\ UNCHANGED <<net, cmd, took>>

\* It is never sent, whatever it would have been: what it needs to know cannot
\* be had.
GivesUp(a) ==
  /\ call[a] = "none" /\ call' = [call EXCEPT ![a] = "failed"]
  /\ Changes(cmd, cmd', a, Commands)
  /\ UNCHANGED <<net, spare, took>>

Next == \E a \in Requests :
  Ask(a) \/ TakesEffect(a) \/ IsLost(a) \/ Answers(a) \/ GivesUp(a)

Spec == Init /\ [][Next]_rvars
=============================================================================
