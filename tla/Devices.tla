------------------------------- MODULE Devices -------------------------------
(***************************************************************************)
(* Sonos discovery and groups: the table sonos_devices, the network it     *)
(* describes, and the requests that move between the two.  A full search   *)
(* (Discover) and a refresh of the groups (RefreshGroupInfo) both read,    *)
(* talk to the network and write rows back one by one, with no lock and no *)
(* transaction.                                                            *)
(*                                                                         *)
(* A step is one network call, or one row written.  What one list of rows  *)
(* or one round of calls to several devices finds is one step.  Left out:  *)
(* SQL errors, names and models, commands to players, and addresses that   *)
(* go to another player.                                                   *)
(***************************************************************************)
EXTENDS Integers, FiniteSets

CONSTANTS
  Players, NoPlayer,
  Master,       \* Master[p]: the player p is the second half of, or p itself
  Requests,
  MaxChanges    \* bound: changes of the network in one behaviour

Invisible  == {p \in Players : Master[p] # p}
Visible    == Players \ Invisible
Pair(p)    == {q \in Players : Master[q] = p}

ASSUME PlayersAssumption ==
  /\ NoPlayer \notin Players
  /\ IsFiniteSet(Players)
  /\ Master \in [Players -> Players]
  /\ \A p \in Players : Master[Master[p]] = Master[p]
ASSUME ChangesAssumption == MaxChanges \in Nat

VARIABLES
  on,           \* players on the network
  coord,        \* coord[p]: the coordinator of p's group
  addr,         \* addr[p]: p's address, a new one each time it moves
  changes,      \* changes of the network so far
  row,          \* sonos_devices
  at,           \* where each request is and what it has read
  calm,         \* auxiliary: requests nothing has disturbed since they began
  sure          \* auxiliary: what the table is known to agree with

net  == <<on, coord, addr, changes>>
vars == <<on, coord, addr, changes, row, at, calm, sure>>

-----------------------------------------------------------------------------
(* The topology a player reports, and what the bridge makes of it. *)

\* ZoneGroupState: the coordinator of each player that is listed.
Topology == [p \in Players |-> IF p \in on THEN coord[p] ELSE NoPlayer]

\* No topology could be had: nobody is listed.
NoZones == [p \in Players |-> NoPlayer]

VisibleMembers(z, p) == {q \in Visible : z[q] = z[p]}

\* Mutant: the second halves of stereo pairs are counted.
Size_of_pairs(z, p) ==
  IF z[p] = NoPlayer \/ p \in Invisible THEN 1
  ELSE Cardinality({q \in Players : z[q] = z[p]})

Size(z, p) ==
  IF z[p] = NoPlayer \/ p \in Invisible THEN 1 ELSE Cardinality(VisibleMembers(z, p))

\* Mutant: every member of a group is hidden.
Hidden_coordinator(z, p) ==
  /\ z[p] # NoPlayer
  /\ p \in Invisible \/ Size(z, p) > 1

\* Second halves, and members of a group other than its coordinator.
Hidden(z, p) ==
  /\ z[p] # NoPlayer
  /\ p \in Invisible \/ (Size(z, p) > 1 /\ z[p] # p)

-----------------------------------------------------------------------------
(* Rows and requests. *)

NoRow == [known |-> FALSE, addr |-> 0, reachable |-> FALSE, hidden |-> FALSE, size |-> 1]

\* DeviceStore.List: the rows that are not hidden.
List == {[p |-> p, r |-> row[p]] : p \in {x \in Players : row[x].known /\ ~row[x].hidden}}

\* op, pc: the handler and its next step; todo: devices found or listed and not
\* yet handled; zones: the topology it got; whole: the search has missed nothing.
Idle == [op |-> "none", pc |-> "idle", todo |-> {}, zones |-> NoZones,
         whole |-> FALSE]

Go(a, w) == at' = [at EXCEPT ![a] = w]

\* Requests under way.
Busy == {a \in Requests : at[a] # Idle}

\* A row answers if its player is where the row says.
Answers(x) == x.p \in on /\ x.r.addr = addr[x.p]

\* Request a has written rows x, and is at w next.  Writing what is no longer so
\* disturbs everybody.
Write(a, x, w) ==
  /\ row' = x
  /\ Go(a, w)
  /\ IF a \in calm THEN UNCHANGED calm ELSE calm' = {}

\* A search or a refresh is over: what is the table now known to agree with?
Done(a, w, what) ==
  sure' = IF w = Idle /\ a \in calm /\ Busy \subseteq calm
          THEN sure \cup {what} ELSE sure

-----------------------------------------------------------------------------
(* The search: POST /sonos/refresh, or GET /sonos/devices that finds no row. *)

BeginSearch(a) == Go(a, [Idle EXCEPT !.op = "discover", !.pc = "mark"])

AskSearch(a) ==
  /\ at[a] = Idle
  /\ BeginSearch(a)
  /\ calm' = {}
  /\ UNCHANGED <<net, row, sure>>

\* MarkAllUnreachable.
Mark(a) ==
  /\ at[a].pc = "mark"
  /\ row' = [p \in Players |-> [row[p] EXCEPT !.reachable = FALSE]]
  /\ Go(a, [at[a] EXCEPT !.pc = "search"])
  /\ calm' = IF Busy = {a} THEN {a} ELSE {}
  /\ sure' = {}
  /\ UNCHANGED net

\* ssdpSearch and fetchDeviceDescription: some of the players that are there, or
\* an error, which ends the request.
Search(a) ==
  LET here == {[p |-> p, r |-> [NoRow EXCEPT !.known = TRUE, !.addr = addr[p],
                                             !.reachable = TRUE]] : p \in on}
  IN  /\ at[a].pc = "search"
      /\ \/ \E found \in SUBSET here :
              Go(a, IF found = {} THEN Idle
                    ELSE [at[a] EXCEPT !.pc = "zones", !.todo = found, !.whole = found = here])
         \/ Go(a, Idle)
      /\ UNCHANGED <<net, row, calm, sure>>

\* getZoneInfo: one of the devices found is asked; when that fails nothing is
\* known of groups.
GetZones(a) ==
  LET w == [at[a] EXCEPT !.pc = "upsert"] IN
  /\ at[a].pc = "zones"
  /\ \/ /\ \E x \in at[a].todo : Answers(x)
        /\ Go(a, [w EXCEPT !.zones = Topology])
     \/ Go(a, [w EXCEPT !.zones = NoZones, !.whole = FALSE])
  /\ UNCHANGED <<net, row, calm, sure>>

\* What w is once it has handled x.
After(w, x) == IF w.todo = {x} THEN Idle ELSE [w EXCEPT !.todo = @ \ {x}]

\* One device that was found is written with what the topology says of it.
Upsert(a, x) ==
  LET w == at[a] IN
  /\ w.pc = "upsert" /\ x \in w.todo
  /\ Write(a, [row EXCEPT ![x.p] = [x.r EXCEPT !.size = Size(w.zones, x.p),
                                               !.hidden = Hidden(w.zones, x.p)]], After(w, x))
  /\ IF w.whole THEN Done(a, After(w, x), "search") ELSE UNCHANGED sure
  /\ UNCHANGED net

-----------------------------------------------------------------------------
(* The refresh: GET /sonos/devices, /sonos/poll-groups, /sonos/quick-refresh. *)

\* A search under way is disturbed, and disturbs.
AskRefresh(a) ==
  LET searches == {b \in Requests : at[b].op = "discover"} IN
  /\ at[a] = Idle
  /\ Go(a, [Idle EXCEPT !.op = "refresh", !.pc = "list"])
  /\ calm' = IF searches = {} THEN calm \cup {a} ELSE calm \ searches
  /\ UNCHANGED <<net, row, sure>>

\* GET /sonos/devices, which searches when no row is visible.
AskDevices(a) ==
  /\ at[a] = Idle
  /\ List = {}
  /\ BeginSearch(a)
  /\ calm' = {}
  /\ UNCHANGED <<net, row, sure>>

\* RefreshGroupInfo lists the visible rows and asks the reachable ones for the
\* topology until one answers.
ListRows(a) ==
  /\ at[a].pc = "list"
  /\ Go(a, IF List = {} THEN Idle ELSE [at[a] EXCEPT !.pc = "ask", !.todo = List])
  /\ UNCHANGED <<net, row, calm, sure>>

AskZones(a) ==
  /\ at[a].pc = "ask"
  /\ \/ /\ \E x \in at[a].todo : x.r.reachable /\ Answers(x)
        /\ Go(a, [at[a] EXCEPT !.pc = "update", !.zones = Topology])
     \/ Go(a, Idle)
  /\ UNCHANGED <<net, row, calm, sure>>

\* Mutant: the flag is not written back.
Update_size_only(a, x) ==
  LET w == at[a]
      new == [x.r EXCEPT !.size = Size(w.zones, x.p)]
  IN  /\ w.pc = "update" /\ x \in w.todo
      /\ Write(a, IF new = x.r THEN row ELSE [row EXCEPT ![x.p] = new], After(w, x))
      /\ Done(a, After(w, x), "refresh")
      /\ UNCHANGED net

\* A row whose size or visibility has changed is written, all of it as listed.
Update(a, x) ==
  LET w == at[a]
      new == [x.r EXCEPT !.size = Size(w.zones, x.p), !.hidden = Hidden(w.zones, x.p)]
  IN  /\ w.pc = "update" /\ x \in w.todo
      /\ Write(a, IF new = x.r THEN row ELSE [row EXCEPT ![x.p] = new], After(w, x))
      /\ Done(a, After(w, x), "refresh")
      /\ UNCHANGED net

-----------------------------------------------------------------------------
(* The network, and the requests that change groups. *)

\* A change makes nothing sure and nobody calm.
Change(nextOn, nextCoord, nextAddr) ==
  /\ changes < MaxChanges
  /\ changes' = changes + 1
  /\ on' = nextOn /\ coord' = nextCoord /\ addr' = nextAddr
  /\ calm' = {} /\ sure' = {}
  /\ UNCHANGED <<row, at>>

\* The groups when player p, with its second half, goes to coordinator c: those
\* it leaves behind choose a coordinator among them.
Moved(p, c) ==
  LET left == {q \in on : coord[q] = p} \ Pair(p) IN
  {[q \in Players |-> IF q \in Pair(p) THEN c ELSE IF q \in left THEN n ELSE coord[q]] :
     n \in IF left = {} THEN {p} ELSE left \cap Visible}

\* POST /sonos/group/join, or another Sonos controller.
JoinGroup(p, c) ==
  /\ {p, c} \subseteq on \cap Visible /\ coord[p] # c /\ coord[c] = c /\ p # c
  /\ \E g \in Moved(p, c) : Change(on, g, addr)

\* POST /sonos/group/leave: of a group of one, no change.
LeaveGroup(p) ==
  /\ p \in on \cap Visible
  /\ \E q \in (on \cap Visible) \ {p} : coord[q] = coord[p]
  /\ \E g \in Moved(p, p) : Change(on, g, addr)

\* A player is switched off; or comes back alone, maybe at a new address.
SwitchOff(p) ==
  /\ p \in on \cap Visible
  /\ \E g \in Moved(p, p) : Change(on \ Pair(p), g, addr)

SwitchOn(p) ==
  /\ p \in Visible \ on
  /\ \E new \in {addr[p], addr[p] + 1} :
       Change(on \cup Pair(p), coord, [addr EXCEPT ![p] = new])

-----------------------------------------------------------------------------
(* The specification. *)

\* Any players are there, in any groups; those that are off are in none.
Init ==
  /\ \E here \in SUBSET Visible : on = UNION {Pair(p) : p \in here}
  /\ coord \in [Players -> Visible]
  /\ \A p \in Players :
       /\ coord[coord[p]] = coord[p] /\ coord[p] = coord[Master[p]]
       /\ IF p \in on THEN coord[p] \in on ELSE coord[p] = Master[p]
  /\ addr = [p \in Players |-> 0]
  /\ changes = 0
  /\ row = [p \in Players |-> NoRow]
  /\ at = [a \in Requests |-> Idle]
  /\ calm = {}
  /\ sure = {}

Discover(a) == Mark(a) \/ Search(a) \/ GetZones(a) \/ \E x \in at[a].todo : Upsert(a, x)

RefreshGroupInfo(a) == ListRows(a) \/ AskZones(a) \/ \E x \in at[a].todo : Update(a, x)

Network ==
  \/ \E p, c \in Players : JoinGroup(p, c)
  \/ \E p \in Players : LeaveGroup(p) \/ SwitchOff(p) \/ SwitchOn(p)

Next ==
  \/ \E a \in Requests : \/ AskSearch(a) \/ AskDevices(a) \/ AskRefresh(a)
                         \/ Discover(a) \/ RefreshGroupInfo(a)
  \/ Network

Spec == Init /\ [][Next]_vars

-----------------------------------------------------------------------------
(* Properties. *)

Rows == [known : BOOLEAN, addr : 0 .. MaxChanges, reachable : BOOLEAN, hidden : BOOLEAN,
         size : 1 .. Cardinality(Visible)]

Items == [p : Players, r : Rows]

\* Types; a group is never larger than the players one can see.
TypeOK ==
  /\ on \subseteq Players
  /\ coord \in [Players -> Visible]
  /\ addr \in [Players -> 0 .. MaxChanges]
  /\ row \in [Players -> Rows]
  /\ \A a \in Requests :
       /\ at[a].op \in {"none", "discover", "refresh"}
       /\ at[a].pc \in {"idle", "mark", "search", "zones", "upsert", "list", "ask", "update"}
       /\ at[a].todo \subseteq Items
       /\ at[a].zones \in [Players -> Players \cup {NoPlayer}]
  /\ calm \subseteq Requests
  /\ sure \subseteq {"search", "refresh"}

\* Players in one group that one can see.
Together(p) == {q \in on \cap Visible : coord[q] = coord[p]}

Leads(p) == coord[p] = p

\* After a search that nothing disturbed, and until the network changes or the
\* next search begins, every player there has a row that is reachable at its
\* address, shown exactly if it leads a group or is alone, with the group's
\* size; whatever refreshes run, succeed, fail or overlap meanwhile.
SearchFindsAll ==
  "search" \in sure => \A p \in on :
    /\ row[p].known /\ row[p].reachable /\ row[p].addr = addr[p]
    /\ row[p].hidden = ~Leads(p)
    /\ p \in Visible => row[p].size = Cardinality(Together(p))

\* After a refresh that nothing disturbed, every row that is shown leads a group
\* or is alone and has the group's size, and one that is gone has size 1.
RefreshedGroupsAreCurrent ==
  "refresh" \in sure => \A p \in Players : row[p].known /\ ~row[p].hidden =>
    IF p \in on THEN Leads(p) /\ row[p].size = Cardinality(Together(p))
                ELSE row[p].size = 1

=============================================================================
