----------------------------- MODULE CacheLedger -----------------------------
(***************************************************************************)
(* What the transcode cache promises to those who read its rows, with no   *)
(* word of temporary files, joins, segments or queues: which files of an   *)
(* item can be streamed, what its row says, and who is at work on it.      *)
(* Files only ever appear.  A row becomes ready when somebody at work on   *)
(* the item is done; every file it will name is there, unless the item's   *)
(* files came out in more ways than one, which is settled when they are    *)
(* published.  It stops being ready only when somebody begins anew or the  *)
(* row is dropped.  TranscodeCache implements it.                          *)
(***************************************************************************)
CONSTANTS Items, Makers, Names

VARIABLES
  status,       \* what the row of an item says
  named,        \* files the row names, once it is ready
  files,        \* files of the item that can be streamed
  odd,          \* items whose files came out in more ways than one
  makers,       \* who is at work on it
  up            \* the process runs

lvars == <<status, named, files, odd, makers, up>>

Init ==
  /\ status = [i \in Items |-> "none"]
  /\ named = [i \in Items |-> {}]
  /\ files = [i \in Items |-> {}]
  /\ odd = {}
  /\ makers = [i \in Items |-> {}]
  /\ up = TRUE

\* A row that is not there stays away, whoever marks it.
Says(i, s, N) ==
  IF status[i] = "none" THEN UNCHANGED <<status, named>>
  ELSE status' = [status EXCEPT ![i] = s] /\ named' = [named EXCEPT ![i] = N]

\* A row is made, or made anew.
Create(i) ==
  /\ status[i] = "none"
  /\ status' = [status EXCEPT ![i] = "pending"]
  /\ UNCHANGED <<named, files, odd, makers, up>>

Drop(i) ==
  /\ status' = [status EXCEPT ![i] = "none"]
  /\ named' = [named EXCEPT ![i] = {}]
  /\ UNCHANGED <<files, odd, makers, up>>

Begin(m, i) ==
  /\ up /\ \A j \in Items : m \notin makers[j]
  /\ makers' = [makers EXCEPT ![i] = @ \cup {m}]
  /\ Says(i, "in_progress", {})
  /\ UNCHANGED <<files, odd, up>>

Publish(i, n) ==
  /\ makers[i] # {}
  /\ files' = [files EXCEPT ![i] = @ \cup {n}]
  /\ odd' \in {odd, odd \cup {i}}
  /\ UNCHANGED <<status, named, makers, up>>

\* The row goes to its final status in the step in which somebody stops.
End(m, i, s, N) ==
  /\ m \in makers[i]
  /\ N \subseteq files[i] \/ i \in odd
  /\ (s = "ready" /\ N # {}) \/ (s = "failed" /\ N = {})
  /\ makers' = [makers EXCEPT ![i] = @ \ {m}]
  /\ Says(i, s, N)
  /\ UNCHANGED <<files, odd, up>>

Dies ==
  /\ up /\ up' = FALSE
  /\ makers' = [i \in Items |-> {}]
  /\ UNCHANGED <<status, named, files, odd>>

Restart ==
  /\ ~up /\ up' = TRUE
  /\ status' = [i \in Items |-> IF status[i] = "in_progress" THEN "pending" ELSE status[i]]
  /\ UNCHANGED <<named, files, odd, makers>>

Next ==
  \/ \E i \in Items : Create(i) \/ Drop(i)
  \/ \E m \in Makers, i \in Items : Begin(m, i)
  \/ \E i \in Items, n \in Names : Publish(i, n)
  \/ \E i \in Items : \E m \in makers[i], s \in {"ready", "failed"}, N \in SUBSET Names :
       End(m, i, s, N)
  \/ Dies
  \/ Restart

Spec == Init /\ [][Next]_lvars
=============================================================================
