---------------------------- MODULE DevicesProofs ----------------------------
(***************************************************************************)
(* What holds of discovery and groups for any players, stereo pairs and    *)
(* groups, any number of requests and any number of changes of the network. *)
(***************************************************************************)
EXTENDS Devices, FiniteSetTheorems, TLAPS

-----------------------------------------------------------------------------
(* The network. *)

\* The halves of a pair come, go and are grouped together; a player that is there
\* has a coordinator that is there and coordinates itself.
NetInv ==
  /\ on \subseteq Players /\ coord \in [Players -> Visible]
  /\ changes \in 0 .. MaxChanges
  /\ addr \in [Players -> Int] /\ \A p \in Players : addr[p] \in 0 .. changes
  /\ \A p \in Players : (p \in on <=> Master[p] \in on) /\ coord[p] = coord[Master[p]]
  /\ \A p \in on : coord[p] \in on /\ coord[coord[p]] = coord[p]
  /\ \A p \in Players \ on : coord[p] = Master[p]

LEMMA Halves ==
  /\ \A p \in Players : Master[p] \in Visible /\ Master[Master[p]] = Master[p]
  /\ Visible \subseteq Players /\ \A p \in Visible : Master[p] = p
  /\ \A p, q \in Players : q \in Pair(p) <=> Master[q] = p
BY PlayersAssumption DEF Visible, Invisible, Pair

LEMMA InitNet == Init => NetInv
<1> SUFFICES ASSUME Init PROVE NetInv
  OBVIOUS
<1>1. PICK here \in SUBSET Visible : on = UNION {Pair(p) : p \in here}
  BY DEF Init
<1>2. \A q \in Players : q \in on <=> Master[q] \in here
  BY <1>1, Halves DEF Pair
<1>3. on \subseteq Players
  BY <1>1 DEF Pair
<1>4. \A p \in Players : p \in on <=> Master[p] \in on
  BY <1>2, Halves
<1> QED
  BY <1>3, <1>4, Halves, ChangesAssumption DEF Init, NetInv

\* A pair that goes to a coordinator, or becomes one, leaves the groups in order.
LEMMA MovedInOrder ==
  ASSUME NetInv, NEW p \in on \cap Visible, NEW c \in on \cap Visible,
         c = p \/ coord[c] = c, NEW g \in Moved(p, c)
  PROVE  /\ g \in [Players -> Visible]
         /\ \A q \in Players : g[q] = g[Master[q]]
         /\ \A q \in on : g[q] \in on /\ g[g[q]] = g[q]
         /\ \A q \in Players \ on : g[q] = Master[q]
         /\ \A q \in Pair(p) : g[q] = c
         /\ \A q \in on \ Pair(p) : c = p => g[q] \notin Pair(p)
<1> DEFINE left == {q \in on : coord[q] = p} \ Pair(p)
<1>1. PICK n \in IF left = {} THEN {p} ELSE left \cap Visible :
        g = [q \in Players |-> IF q \in Pair(p) THEN c ELSE IF q \in left THEN n ELSE coord[q]]
  BY DEF Moved
<1>2. \A q \in left : n \in left /\ n \in Visible
  BY <1>1
<1>3. /\ on \subseteq Players /\ coord \in [Players -> Visible]
      /\ \A q \in Players : (q \in on <=> Master[q] \in on) /\ coord[q] = coord[Master[q]]
      /\ \A q \in on : coord[q] \in on /\ coord[coord[q]] = coord[q]
      /\ \A q \in Players \ on : coord[q] = Master[q]
  BY DEF NetInv
<1>4. \A q \in left : q \in on /\ coord[q] = p /\ q \notin Pair(p) /\ coord[p] = p
  BY <1>3
<1>5. \A q \in Players : /\ q \in Pair(p) <=> Master[q] \in Pair(p)
                         /\ q \in left <=> Master[q] \in left
                         /\ q \in Pair(p) => q \in on
  BY <1>3, Halves
<1>6. \A q \in on : q \notin left /\ q \notin Pair(p) =>
        coord[q] # p /\ coord[q] \notin Pair(p) /\ coord[q] \notin left
  <2>1. \A q \in on : q \notin left /\ q \notin Pair(p) => coord[q] # p
    OBVIOUS
  <2>2. \A q \in on : Master[coord[q]] = coord[q]
    BY <1>3, Halves
  <2>3. \A q \in on : coord[q] # p => coord[q] \notin Pair(p) /\ coord[q] \notin left
    BY <1>3, <1>4, <2>2, Halves
  <2> QED
    BY <2>1, <2>3
<1>7. c \notin left /\ (c \in Pair(p) <=> c = p)
  <2>1. Master[c] = c
    BY Halves
  <2>2. c \in Pair(p) <=> c = p
    BY <1>3, <2>1, Halves
  <2> QED
    BY <1>4, <2>2
<1> HIDE DEF left
<1>8. g \in [Players -> Visible]
  BY <1>1, <1>2, <1>3
<1>9. \A q \in Players : g[q] = g[Master[q]]
  BY <1>1, <1>3, <1>5, Halves
<1>10. \A q \in on : g[q] \in on /\ g[g[q]] = g[q]
  <2> SUFFICES ASSUME NEW q \in on PROVE g[q] \in on /\ g[g[q]] = g[q]
    OBVIOUS
  <2>1. g[c] = c
    BY <1>1, <1>3, <1>7
  <2>2. CASE q \in Pair(p)
    BY <1>1, <1>3, <2>1, <2>2
  <2>3. CASE q \in left
    BY <1>1, <1>2, <1>3, <1>4, <2>3
  <2>4. CASE q \notin Pair(p) /\ q \notin left
    BY <1>1, <1>3, <1>6, <2>4
  <2> QED
    BY <2>2, <2>3, <2>4
<1>11. \A q \in Players \ on : g[q] = Master[q]
  BY <1>1, <1>3, <1>4, <1>5
<1>12. \A q \in Pair(p) : g[q] = c
  BY <1>1 DEF Pair
<1>13. \A q \in on \ Pair(p) : c = p => g[q] \notin Pair(p)
  BY <1>1, <1>2, <1>3, <1>4, <1>6
<1> QED
  BY <1>8, <1>9, <1>10, <1>11, <1>12, <1>13

LEMMA NetworkNet ==
  ASSUME NetInv, Network
  PROVE  NetInv' /\ calm' = {} /\ sure' = {} /\ UNCHANGED <<row, at>>
<1> USE ChangesAssumption
<1>1. /\ on \subseteq Players /\ coord \in [Players -> Visible] /\ changes \in 0 .. MaxChanges
      /\ addr \in [Players -> Int] /\ \A p \in Players : addr[p] \in 0 .. changes
      /\ \A p \in Players : (p \in on <=> Master[p] \in on) /\ coord[p] = coord[Master[p]]
      /\ \A p \in on : coord[p] \in on /\ coord[coord[p]] = coord[p]
      /\ \A p \in Players \ on : coord[p] = Master[p]
  BY DEF NetInv
<1>2. ASSUME NEW p \in Players, NEW c \in Players, JoinGroup(p, c) PROVE
        NetInv' /\ calm' = {} /\ sure' = {} /\ UNCHANGED <<row, at>>
  <2>1. PICK g \in Moved(p, c) : Change(on, g, addr)
    BY <1>2 DEF JoinGroup
  <2>2. p \in on \cap Visible /\ c \in on \cap Visible /\ coord[c] = c
    BY <1>2 DEF JoinGroup
  <2>3. /\ g \in [Players -> Visible] /\ \A q \in Players : g[q] = g[Master[q]]
        /\ \A q \in on : g[q] \in on /\ g[g[q]] = g[q]
        /\ \A q \in Players \ on : g[q] = Master[q]
    BY <2>1, <2>2, MovedInOrder
  <2> QED
    BY <1>1, <2>1, <2>3 DEF Change, NetInv
<1>3. ASSUME NEW p \in Players, LeaveGroup(p) PROVE
        NetInv' /\ calm' = {} /\ sure' = {} /\ UNCHANGED <<row, at>>
  <2>1. PICK g \in Moved(p, p) : Change(on, g, addr)
    BY <1>3 DEF LeaveGroup
  <2>2. p \in on \cap Visible
    BY <1>3 DEF LeaveGroup
  <2>3. /\ g \in [Players -> Visible] /\ \A q \in Players : g[q] = g[Master[q]]
        /\ \A q \in on : g[q] \in on /\ g[g[q]] = g[q]
        /\ \A q \in Players \ on : g[q] = Master[q]
    BY <2>1, <2>2, MovedInOrder
  <2> QED
    BY <1>1, <2>1, <2>3 DEF Change, NetInv
<1>4. ASSUME NEW p \in Players, SwitchOff(p) PROVE
        NetInv' /\ calm' = {} /\ sure' = {} /\ UNCHANGED <<row, at>>
  <2>1. PICK g \in Moved(p, p) : Change(on \ Pair(p), g, addr)
    BY <1>4 DEF SwitchOff
  <2>2. p \in on \cap Visible
    BY <1>4 DEF SwitchOff
  <2>3. /\ g \in [Players -> Visible] /\ \A q \in Players : g[q] = g[Master[q]]
        /\ \A q \in on : g[q] \in on /\ g[g[q]] = g[q]
        /\ \A q \in Players \ on : g[q] = Master[q]
        /\ \A q \in Pair(p) : g[q] = p
        /\ \A q \in on \ Pair(p) : g[q] \notin Pair(p)
    BY <2>1, <2>2, MovedInOrder
  <2>4. \A q \in Players : q \in on \ Pair(p) <=> Master[q] \in on \ Pair(p)
    BY <1>1, <2>2, Halves
  <2>5. \A q \in Players \ (on \ Pair(p)) : g[q] = Master[q]
    BY <2>2, <2>3, Halves DEF Pair
  <2> QED
    BY <1>1, <2>1, <2>3, <2>4, <2>5 DEF Change, NetInv
<1>5. ASSUME NEW p \in Players, SwitchOn(p) PROVE
        NetInv' /\ calm' = {} /\ sure' = {} /\ UNCHANGED <<row, at>>
  <2>1. PICK new \in {addr[p], addr[p] + 1} :
          Change(on \cup Pair(p), coord, [addr EXCEPT ![p] = new])
    BY <1>5 DEF SwitchOn
  <2>2. p \in Visible /\ p \notin on /\ Pair(p) \subseteq Players /\ p \in Pair(p)
    BY <1>5, Halves DEF SwitchOn, Pair
  <2>3. \A q \in Pair(p) : coord[q] = p
    BY <1>1, <2>2, Halves
  <2>4. \A q \in Players : q \in on \cup Pair(p) <=> Master[q] \in on \cup Pair(p)
    BY <1>1, <2>2, Halves
  <2>5. \A q \in on \cup Pair(p) : coord[q] \in on \cup Pair(p) /\ coord[coord[q]] = coord[q]
    BY <1>1, <2>2, <2>3
  <2>6. \A q \in Players : addr'[q] \in 0 .. changes'
    BY <1>1, <2>1 DEF Change
  <2> QED
    BY <1>1, <2>1, <2>2, <2>4, <2>5, <2>6 DEF Change, NetInv
<1> QED
  BY <1>2, <1>3, <1>4, <1>5 DEF Network

\* What the topology says of the players that are there, and of the others.
LEMMA ZonesSay ==
  ASSUME NetInv
  PROVE  /\ \A p \in on : /\ Hidden(Topology, p) <=> ~Leads(p)
                          /\ p \in Visible => Size(Topology, p) = Cardinality(Together(p))
         /\ \A p \in Players \ on : ~Hidden(Topology, p) /\ Size(Topology, p) = 1
<1>1. /\ on \subseteq Players /\ coord \in [Players -> Visible] /\ Visible \subseteq Players
      /\ \A p \in on : coord[p] \in on /\ coord[coord[p]] = coord[p]
      /\ NoPlayer \notin Players /\ IsFiniteSet(Players)
  BY PlayersAssumption DEF NetInv, Visible
<1>2. \A p \in Players : Topology[p] = IF p \in on THEN coord[p] ELSE NoPlayer
  BY DEF Topology
<1>3. ASSUME NEW p \in on PROVE VisibleMembers(Topology, p) = Together(p)
  BY <1>1, <1>2, <1>3 DEF VisibleMembers, Together
<1>4. ASSUME NEW p \in on, p \in Visible PROVE Size(Topology, p) = Cardinality(Together(p))
  BY <1>1, <1>2, <1>3, <1>4 DEF Size, Visible
<1>5. ASSUME NEW p \in on, p \in Visible, coord[p] # p PROVE Size(Topology, p) > 1
  <2>1. {p, coord[p]} \subseteq Together(p)
    BY <1>1, <1>5 DEF Together
  <2>2. IsFiniteSet(Together(p)) /\ Together(p) \subseteq Players
    <3>1. Together(p) \in SUBSET Players
      BY <1>1 DEF Together
    <3> QED
      BY <1>1, <3>1, FS_Subset
  <2>3. Cardinality({p}) = 1 /\ IsFiniteSet({p})
    BY FS_Singleton
  <2>4. Cardinality({p} \cup {coord[p]}) = 2
    <3>1. coord[p] \notin {p}
      BY <1>5
    <3>2. Cardinality({p} \cup {coord[p]}) = Cardinality({p}) + 1
      BY <2>3, <3>1, FS_AddElement
    <3> QED
      BY <2>3, <3>2
  <2>5. {p} \cup {coord[p]} \in SUBSET Together(p)
    BY <2>1
  <2>6. Cardinality({p} \cup {coord[p]}) <= Cardinality(Together(p))
    BY <2>2, <2>5, FS_Subset
  <2>7. Cardinality(Together(p)) \in Nat
    BY <2>2, FS_CardinalityType
  <2> QED
    BY <1>4, <1>5, <2>4, <2>6, <2>7
<1>6. ASSUME NEW p \in on PROVE Hidden(Topology, p) <=> ~Leads(p)
  <2>1. Topology[p] = coord[p] /\ coord[p] # NoPlayer
    BY <1>1, <1>2
  <2>2. CASE p \in Invisible
    BY <1>1, <2>1, <2>2 DEF Hidden, Leads, Visible
  <2>3. CASE p \notin Invisible
    <3>1. p \in Visible
      BY <1>1, <2>3 DEF Visible
    <3> QED
      BY <1>5, <2>1, <2>3, <3>1 DEF Hidden, Leads
  <2> QED
    BY <2>2, <2>3
<1>7. ASSUME NEW p \in Players \ on PROVE ~Hidden(Topology, p) /\ Size(Topology, p) = 1
  BY <1>2 DEF Hidden, Size
<1> QED
  BY <1>4, <1>6, <1>7

-----------------------------------------------------------------------------
(* Types. *)

Works == [op : {"none", "discover", "refresh"},
          pc : {"idle", "mark", "search", "zones", "upsert", "list", "ask", "update"},
          todo : SUBSET Items, zones : [Players -> Players \cup {NoPlayer}], whole : BOOLEAN]

Formed(w) ==
  \/ w = Idle
  \/ w.op = "discover" /\ w.pc \in {"mark", "search", "zones", "upsert"}
  \/ w.op = "refresh" /\ w.pc \in {"list", "ask", "update"}

TypeInv ==
  /\ NetInv
  /\ row \in [Players -> Rows]
  /\ at \in [Requests -> Works] /\ \A a \in Requests : Formed(at[a])
  /\ calm \subseteq Requests /\ sure \subseteq {"search", "refresh"}

LEMMA TypeInvSuffices == TypeInv => TypeOK
<1> SUFFICES ASSUME TypeInv PROVE TypeOK
  OBVIOUS
<1>1. addr \in [Players -> 0 .. MaxChanges]
  BY ChangesAssumption DEF TypeInv, NetInv
<1> QED
  BY <1>1 DEF TypeInv, NetInv, TypeOK, Works

\* A group has at least one and at most all of the players one can see.
LEMMA SizesInRange == \A z : \A p \in Players : Size(z, p) \in 1 .. Cardinality(Visible)
<1> SUFFICES ASSUME NEW z, NEW p \in Players PROVE Size(z, p) \in 1 .. Cardinality(Visible)
  OBVIOUS
<1>1. IsFiniteSet(Visible) /\ Cardinality(Visible) \in Nat
  BY PlayersAssumption, FS_Subset, FS_CardinalityType DEF Visible
<1>2. ASSUME NEW S \in SUBSET Visible, S # {} PROVE Cardinality(S) \in 1 .. Cardinality(Visible)
  <2>1. IsFiniteSet(S) /\ Cardinality(S) \in Nat /\ Cardinality(S) <= Cardinality(Visible)
    BY <1>1, FS_Subset, FS_CardinalityType
  <2>2. Cardinality(S) # 0
    BY <1>2, <2>1, FS_EmptySet
  <2> QED
    BY <1>1, <2>1, <2>2
<1>3. 1 \in 1 .. Cardinality(Visible)
  <2>1. Cardinality(Visible) \in 1 .. Cardinality(Visible)
    BY <1>2, Halves
  <2> QED
    BY <1>1, <2>1
<1>4. CASE z[p] = NoPlayer \/ p \in Invisible
  BY <1>3, <1>4 DEF Size
<1>5. CASE ~(z[p] = NoPlayer \/ p \in Invisible)
  <2>1. p \in VisibleMembers(z, p) /\ VisibleMembers(z, p) \subseteq Visible
    BY <1>5 DEF VisibleMembers, Visible
  <2> QED
    BY <1>2, <1>5, <2>1 DEF Size
<1> QED
  BY <1>4, <1>5

LEMMA HiddenIsBoolean == \A z, p : Hidden(z, p) \in BOOLEAN
BY DEF Hidden

LEMMA RowTypes ==
  ASSUME NEW p \in Players, NEW z
  PROVE  /\ NoRow \in Rows
         /\ \A r \in Rows : [r EXCEPT !.size = Size(z, p), !.hidden = Hidden(z, p)] \in Rows
<1>1. 1 \in 1 .. Cardinality(Visible)
  <2>1. Size([q \in Players |-> NoPlayer], p) = 1
    BY DEF Size
  <2> QED
    BY <2>1, SizesInRange
<1>2. NoRow \in Rows
  BY <1>1, ChangesAssumption DEF NoRow, Rows
<1>3. Size(z, p) \in 1 .. Cardinality(Visible) /\ Hidden(z, p) \in BOOLEAN
  BY SizesInRange, HiddenIsBoolean
<1> QED
  BY <1>2, <1>3 DEF Rows

LEMMA IdleFormed == Idle \in Works /\ Formed(Idle)
BY DEF Idle, Works, Formed, NoZones

LEMMA InitTypes == Init => TypeInv
<1> SUFFICES ASSUME Init PROVE TypeInv
  OBVIOUS
<1>1. row \in [Players -> Rows]
  BY RowTypes DEF Init
<1> QED
  BY <1>1, InitNet, IdleFormed DEF Init, TypeInv

\* A request goes on, and the network stays as it is.
LEMMA GoTypes ==
  ASSUME TypeInv, NEW a \in Requests, NEW w \in Works, Formed(w), Go(a, w), UNCHANGED net,
         row' \in [Players -> Rows], calm' \subseteq Requests, sure' \subseteq {"search", "refresh"}
  PROVE  TypeInv'
<1>1. NetInv'
  BY DEF TypeInv, NetInv, net
<1>2. at' \in [Requests -> Works] /\ \A b \in Requests : Formed(at'[b])
  BY DEF TypeInv, Go
<1> QED
  BY <1>1, <1>2 DEF TypeInv

\* What a request is at once it has handled x.
LEMMA AfterTypes ==
  ASSUME NEW w \in Works, Formed(w), w # Idle, NEW x \in w.todo
  PROVE  /\ After(w, x) \in Works /\ Formed(After(w, x))
         /\ \/ After(w, x) = Idle /\ w.todo = {x}
            \/ /\ After(w, x) # Idle /\ After(w, x).op = w.op /\ After(w, x).pc = w.pc
               /\ After(w, x).todo = w.todo \ {x} /\ After(w, x).zones = w.zones
               /\ After(w, x).whole = w.whole
<1> DEFINE v == [w EXCEPT !.todo = w.todo \ {x}]
<1>1. v \in Works
  BY DEF Works
<1>2. /\ v.op = w.op /\ v.pc = w.pc /\ v.zones = w.zones /\ v.whole = w.whole
      /\ v.todo = w.todo \ {x}
  BY DEF Works
<1>3. w.op # "none" /\ Idle.op = "none"
  BY DEF Formed, Idle
<1>4. Formed(v) /\ v # Idle
  BY <1>2, <1>3 DEF Formed
<1> HIDE DEF v
<1>5. CASE w.todo = {x}
  BY <1>5, IdleFormed DEF After
<1>6. CASE w.todo # {x}
  <2>1. After(w, x) = v
    BY <1>6 DEF After, v
  <2> QED
    BY <1>1, <1>2, <1>4, <2>1
<1> QED
  BY <1>5, <1>6

LEMMA UpsertTypes ==
  ASSUME TypeInv, NEW a \in Requests, NEW x \in at[a].todo, Upsert(a, x) \/ Update(a, x)
  PROVE  TypeInv'
<1> DEFINE w == at[a]
<1>1. /\ w \in Works /\ Formed(w) /\ w # Idle /\ x \in Items /\ x.p \in Players /\ x.r \in Rows
      /\ UNCHANGED net /\ Go(a, After(w, x)) /\ row \in [Players -> Rows]
  BY DEF TypeInv, Works, Items, Upsert, Update, Write, Idle
<1>2. After(w, x) \in Works /\ Formed(After(w, x))
  BY <1>1, AfterTypes
<1>3. row' \in [Players -> Rows]
  <2> DEFINE new == [x.r EXCEPT !.size = Size(w.zones, x.p), !.hidden = Hidden(w.zones, x.p)]
  <2>1. new \in Rows
    BY <1>1, RowTypes
  <2>2. row' = row \/ row' = [row EXCEPT ![x.p] = new]
    BY DEF Upsert, Update, Write
  <2> HIDE DEF new
  <2> QED
    BY <1>1, <2>1, <2>2
<1>4. calm' \subseteq Requests /\ sure' \subseteq {"search", "refresh"}
  BY DEF TypeInv, Upsert, Update, Write, Done
<1> QED
  BY <1>1, <1>2, <1>3, <1>4, GoTypes

LEMMA BeginTypes ==
  ASSUME TypeInv, NEW a \in Requests, AskSearch(a) \/ AskDevices(a) \/ AskRefresh(a)
  PROVE  /\ TypeInv' /\ at[a] = Idle /\ UNCHANGED <<net, row, sure>>
         /\ \E w \in Works : /\ Go(a, w) /\ w # Idle
                             /\ IF AskRefresh(a) THEN w.op = "refresh" /\ w.pc = "list"
                                                 ELSE w.op = "discover" /\ w.pc = "mark"
<1>1. PICK op, pc : /\ Go(a, [Idle EXCEPT !.op = op, !.pc = pc])
                    /\ IF AskRefresh(a) THEN op = "refresh" /\ pc = "list"
                                        ELSE op = "discover" /\ pc = "mark"
  BY DEF AskSearch, AskDevices, AskRefresh, BeginSearch
<1> DEFINE w == [Idle EXCEPT !.op = op, !.pc = pc]
<1>2. w \in Works /\ w.op = op /\ w.pc = pc /\ Formed(w) /\ w # Idle
  <2>1. op \in {"discover", "refresh"} /\ pc \in {"list", "mark"}
    BY <1>1
  <2>2. w.op = op /\ w.pc = pc /\ w \in Works
    BY <2>1 DEF Idle, Works, NoZones
  <2>3. Formed(w) /\ w # Idle
    BY <1>1, <2>2 DEF Idle, Formed
  <2> QED
    BY <2>2, <2>3
<1>3. UNCHANGED <<net, row, sure>> /\ calm' \subseteq Requests /\ at[a] = Idle
  BY DEF AskSearch, AskDevices, AskRefresh, TypeInv
<1>4. TypeInv'
  BY <1>1, <1>2, <1>3, GoTypes DEF TypeInv
<1> HIDE DEF w
<1>5. Go(a, w)
  BY <1>1 DEF w
<1> QED
  BY <1>1, <1>2, <1>3, <1>4, <1>5

LEMMA MarkTypes ==
  ASSUME TypeInv, NEW a \in Requests, Mark(a)
  PROVE  /\ TypeInv' /\ at'[a].op = "discover" /\ at'[a].pc = "search" /\ at[a].op = "discover"
<1> DEFINE w == at[a]
           v == [w EXCEPT !.pc = "search"]
<1>1. w \in Works /\ Formed(w) /\ w.pc = "mark" /\ Go(a, v) /\ UNCHANGED net
  BY DEF TypeInv, Mark
<1>2. w.op = "discover"
  BY <1>1 DEF Formed, Idle
<1>3. v \in Works /\ v.pc = "search" /\ v.op = "discover"
  BY <1>1, <1>2 DEF Works
<1>4. Formed(v)
  BY <1>3 DEF Formed
<1>5. row' \in [Players -> Rows]
  BY DEF TypeInv, Mark, Rows
<1>6. calm' \subseteq Requests /\ sure' = {}
  BY DEF Mark
<1>7. at'[a] = v
  BY <1>1 DEF TypeInv, Go
<1>8. TypeInv'
  BY <1>1, <1>3, <1>4, <1>5, <1>6, GoTypes
<1> HIDE DEF v
<1> QED
  BY <1>2, <1>3, <1>7, <1>8

\* The steps that only read.
ReadStep(a) == Search(a) \/ GetZones(a) \/ ListRows(a) \/ AskZones(a)

Here(p) == [p |-> p, r |-> [NoRow EXCEPT !.known = TRUE, !.addr = addr[p], !.reachable = TRUE]]

LEMMA ReadGoes ==
  ASSUME TypeInv, NEW a \in Requests, ReadStep(a)
  PROVE  /\ UNCHANGED <<net, row, calm, sure>> /\ at[a] # Idle
         /\ \E w \in Works :
              /\ Go(a, w) /\ Formed(w)
              /\ \/ w = Idle
                 \/ /\ w.op = "discover" /\ at[a].op = "discover" /\ at[a].pc = "search"
                    /\ w.pc = "zones" /\ w.todo \subseteq {Here(p) : p \in on}
                    /\ w.whole = (w.todo = {Here(p) : p \in on})
                 \/ /\ w.op = "discover" /\ at[a].op = "discover" /\ at[a].pc = "zones"
                    /\ w.pc = "upsert" /\ w.todo = at[a].todo
                    /\ w.whole => at[a].whole /\ w.zones = Topology
                 \/ /\ w.op = "refresh" /\ at[a].op = "refresh" /\ at[a].pc = "list"
                    /\ w.pc = "ask" /\ w.todo = List
                 \/ /\ w.op = "refresh" /\ at[a].op = "refresh" /\ at[a].pc = "ask"
                    /\ w.pc = "update" /\ w.todo = at[a].todo /\ w.zones = Topology
<1> DEFINE v == at[a]
<1>1. v \in Works /\ Formed(v) /\ UNCHANGED <<net, row, calm, sure>> /\ v.pc # "idle"
  BY DEF TypeInv, ReadStep, Search, GetZones, ListRows, AskZones
<1>2. /\ v # Idle
      /\ v.pc \in {"search", "zones"} => v.op = "discover"
      /\ v.pc \in {"list", "ask"} => v.op = "refresh"
  BY <1>1 DEF Formed, Idle
<1>3. Topology \in [Players -> Players \cup {NoPlayer}] /\ NoZones \in [Players -> Players \cup {NoPlayer}]
  BY DEF Topology, NoZones, TypeInv, NetInv, Visible
<1>4. CASE Go(a, Idle)
  BY <1>1, <1>2, <1>4, IdleFormed
<1>5. CASE Search(a) /\ ~Go(a, Idle)
  <2> DEFINE here == {Here(p) : p \in on}
  <2>1. here \subseteq Items
    <3>1. ASSUME NEW p \in on PROVE Here(p) \in Items
      <4>1. p \in Players /\ addr[p] \in 0 .. MaxChanges
        BY ChangesAssumption DEF TypeInv, NetInv
      <4>2. NoRow \in Rows
        BY <4>1, RowTypes
      <4> QED
        BY <4>1, <4>2 DEF Here, Items, Rows
    <3> QED
      BY <3>1
  <2>2. PICK found \in SUBSET here :
          Go(a, [v EXCEPT !.pc = "zones", !.todo = found, !.whole = found = here])
    BY <1>5 DEF Search, Here
  <2> DEFINE w == [v EXCEPT !.pc = "zones", !.todo = found, !.whole = found = here]
  <2> HIDE DEF here
  <2>3. w.pc = "zones" /\ w.todo = found /\ (w.whole <=> found = here) /\ w.op = v.op
    BY <1>1 DEF Works
  <2>4. w \in Works
    BY <1>1, <2>1, <2>2 DEF Works
  <2>5. v.pc = "search"
    BY <1>5 DEF Search
  <2>6. Formed(w)
    BY <1>2, <2>3, <2>5 DEF Formed
  <2>7. w.whole = (w.todo = {Here(p) : p \in on})
    BY <2>3, <2>4 DEF here, Works
  <2>8. w.todo \subseteq {Here(p) : p \in on}
    BY <2>2, <2>3 DEF here
  <2>9. Go(a, w)
    BY <2>2
  <2> HIDE DEF w
  <2> QED
    BY <1>1, <1>2, <2>3, <2>4, <2>5, <2>6, <2>7, <2>8, <2>9
<1>6. CASE GetZones(a)
  <2>1. PICK z, b : /\ Go(a, [v EXCEPT !.pc = "upsert", !.zones = z, !.whole = b])
                    /\ \/ z = Topology /\ b = v.whole
                       \/ z = NoZones /\ b = FALSE
    <3>1. CASE Go(a, [[v EXCEPT !.pc = "upsert"] EXCEPT !.zones = Topology])
      <4>1. [[v EXCEPT !.pc = "upsert"] EXCEPT !.zones = Topology]
            = [v EXCEPT !.pc = "upsert", !.zones = Topology, !.whole = v.whole]
        BY <1>1 DEF Works
      <4> QED
        BY <3>1, <4>1
    <3>2. CASE Go(a, [[v EXCEPT !.pc = "upsert"] EXCEPT !.zones = NoZones, !.whole = FALSE])
      BY <3>2
    <3> QED
      BY <1>6, <3>1, <3>2 DEF GetZones
  <2> DEFINE w == [v EXCEPT !.pc = "upsert", !.zones = z, !.whole = b]
  <2>2. /\ w.pc = "upsert" /\ w.todo = v.todo /\ w.whole = b /\ w.op = v.op /\ w.zones = z
    BY <1>1 DEF Works
  <2>3. w \in Works
    BY <1>1, <1>3, <2>1 DEF Works
  <2>4. v.pc = "zones"
    BY <1>6 DEF GetZones
  <2>5. Formed(w)
    BY <1>2, <2>2, <2>4 DEF Formed
  <2>6. Go(a, w)
    BY <2>1
  <2> HIDE DEF w
  <2> QED
    BY <1>1, <1>2, <2>1, <2>2, <2>3, <2>4, <2>5, <2>6
<1>7. CASE ListRows(a) /\ ~Go(a, Idle)
  <2> DEFINE w == [v EXCEPT !.pc = "ask", !.todo = List]
  <2>1. Go(a, w) /\ v.pc = "list"
    BY <1>7 DEF ListRows
  <2>2. List \subseteq Items
    BY DEF List, Items, TypeInv
  <2>3. w.pc = "ask" /\ w.todo = List /\ w.op = v.op
    BY <1>1 DEF Works
  <2>4. w \in Works
    BY <1>1, <2>2 DEF Works
  <2>5. Formed(w)
    BY <1>2, <2>1, <2>3 DEF Formed
  <2> HIDE DEF w
  <2> QED
    BY <1>1, <1>2, <2>1, <2>3, <2>4, <2>5
<1>8. CASE AskZones(a) /\ ~Go(a, Idle)
  <2> DEFINE w == [v EXCEPT !.pc = "update", !.zones = Topology]
  <2>1. Go(a, w) /\ v.pc = "ask"
    BY <1>8 DEF AskZones
  <2>2. w.pc = "update" /\ w.todo = v.todo /\ w.zones = Topology /\ w.op = v.op
    BY <1>1 DEF Works
  <2>3. w \in Works
    BY <1>1, <1>3 DEF Works
  <2>4. Formed(w)
    BY <1>2, <2>1, <2>2 DEF Formed
  <2> HIDE DEF w
  <2> QED
    BY <1>1, <1>2, <2>1, <2>2, <2>3, <2>4
<1> QED
  BY <1>4, <1>5, <1>6, <1>7, <1>8 DEF ReadStep

LEMMA NextTypes == TypeInv /\ [Next]_vars => TypeInv'
<1> SUFFICES ASSUME TypeInv, [Next]_vars PROVE TypeInv'
  OBVIOUS
<1>1. CASE \E a \in Requests : AskSearch(a) \/ AskDevices(a) \/ AskRefresh(a)
  BY <1>1, BeginTypes
<1>2. CASE \E a \in Requests : Mark(a)
  BY <1>2, MarkTypes
<1>3. CASE \E a \in Requests : ReadStep(a)
  <2>1. PICK a \in Requests : ReadStep(a)
    BY <1>3
  <2>2. PICK w \in Works : Go(a, w) /\ Formed(w)
    BY <2>1, ReadGoes
  <2>3. UNCHANGED <<net, row, calm, sure>>
    BY <2>1, ReadGoes
  <2> QED
    BY <2>2, <2>3, GoTypes DEF TypeInv
<1>4. CASE \E a \in Requests : \E x \in at[a].todo : Upsert(a, x) \/ Update(a, x)
  BY <1>4, UpsertTypes
<1>5. CASE Network
  BY <1>5, NetworkNet DEF TypeInv
<1>6. CASE UNCHANGED vars
  BY <1>6 DEF vars, net, TypeInv, NetInv
<1> QED
  BY <1>1, <1>2, <1>3, <1>4, <1>5, <1>6 DEF Next, Discover, RefreshGroupInfo, ReadStep

LEMMA TypesHold == Spec => []TypeInv
BY InitTypes, NextTypes, PTL DEF Spec

\* Every variable keeps its type, and no row says that a group is larger than the
\* players one can see, for any players, pairs, groups, requests and changes.
THEOREM TypeCorrect == Spec => []TypeOK
BY TypesHold, TypeInvSuffices, PTL

-----------------------------------------------------------------------------
(* What searches and refreshes find. *)

Shown(p) == row[p].known /\ ~row[p].hidden

\* What the topology says now, of a player and put into a row of its.
Current(p) == row[p].size = Size(Topology, p) /\ (row[p].hidden <=> Hidden(Topology, p))

Updated(p, r) == [r EXCEPT !.size = Size(Topology, p), !.hidden = Hidden(Topology, p)]

Found(p) == row[p].known /\ row[p].reachable /\ row[p].addr = addr[p] /\ Current(p)

Waits(w, p) == \E x \in w.todo : x.p = p

\* A search that has missed nothing so far: who is there has a row or gets one.
GoodSearch(w) == w.pc \in {"zones", "upsert"} =>
  /\ \A x \in w.todo : x.p \in on /\ x = Here(x.p)
  /\ w.whole => \A p \in on : Waits(w, p) \/ Found(p)
  /\ w.pc = "upsert" /\ w.whole => w.zones = Topology

\* A refresh whose list is as it was, but for what other refreshes have written;
\* a row it shows and does not list is as the topology says.
GoodRefresh(w) == w.pc \in {"ask", "update"} =>
  /\ \A x \in w.todo : row[x.p] \in {x.r, Updated(x.p, x.r)}
  /\ \A p \in Players : Shown(p) => Waits(w, p) \/ Current(p)
  /\ w.pc = "update" => w.zones = Topology

Good(w) == GoodSearch(w) /\ GoodRefresh(w)

Searching == {"search", "zones", "upsert"}

\* A search that is calm is alone, and nobody else is calm while one is on.
SearchInv == \A b \in Requests : at[b].op = "discover" =>
  calm \subseteq {b} /\ (b \in calm => Busy = {b} /\ at[b].pc # "mark")

\* What is sure stays sure because everybody at work is good.
SureInv ==
  /\ sure # {} => \A b \in Requests : at[b].pc \notin Searching
  /\ "search" \in sure => \A p \in on : Found(p)
  /\ "refresh" \in sure => \A p \in Players : Shown(p) => Current(p)

GoodInv == \A a \in Requests : a \in calm \/ sure # {} => Good(at[a])

CalmInv == SearchInv /\ SureInv /\ GoodInv

LEMMA CalmInvSuffices == TypeInv /\ CalmInv => SearchFindsAll /\ RefreshedGroupsAreCurrent
<1> SUFFICES ASSUME TypeInv, CalmInv PROVE SearchFindsAll /\ RefreshedGroupsAreCurrent
  OBVIOUS
<1>1. /\ \A p \in on : /\ Hidden(Topology, p) <=> ~Leads(p)
                       /\ p \in Visible => Size(Topology, p) = Cardinality(Together(p))
      /\ \A p \in Players \ on : ~Hidden(Topology, p) /\ Size(Topology, p) = 1
  BY ZonesSay DEF TypeInv
<1>2. on \subseteq Players /\ \A p \in Players : row[p].hidden \in BOOLEAN /\ Leads(p) \in BOOLEAN
  BY DEF TypeInv, NetInv, Rows, Leads
<1>3. SearchFindsAll
  <2> SUFFICES ASSUME "search" \in sure, NEW p \in on
               PROVE  /\ row[p].known /\ row[p].reachable /\ row[p].addr = addr[p]
                      /\ row[p].hidden = ~Leads(p)
                      /\ p \in Visible => row[p].size = Cardinality(Together(p))
    BY DEF SearchFindsAll
  <2>1. Found(p)
    BY DEF CalmInv, SureInv
  <2>2. row[p].hidden <=> ~Leads(p)
    BY <1>1, <2>1 DEF Found, Current
  <2> QED
    BY <1>1, <1>2, <2>1, <2>2 DEF Found, Current
<1>4. RefreshedGroupsAreCurrent
  <2> SUFFICES ASSUME "refresh" \in sure, NEW p \in Players, Shown(p)
               PROVE  IF p \in on THEN Leads(p) /\ row[p].size = Cardinality(Together(p))
                                  ELSE row[p].size = 1
    BY DEF RefreshedGroupsAreCurrent, Shown
  <2>1. Current(p) /\ ~Hidden(Topology, p)
    BY DEF CalmInv, SureInv, Shown, Current
  <2>2. p \in on => p \in Visible
    <3>1. p \in on => Leads(p)
      BY <1>1, <2>1
    <3>2. coord[p] \in Visible
      BY DEF TypeInv, NetInv
    <3> QED
      BY <3>1, <3>2 DEF Leads
  <2> QED
    BY <1>1, <2>1, <2>2 DEF Current
<1> QED
  BY <1>3, <1>4

LEMMA BeginCalm ==
  ASSUME TypeInv, CalmInv, NEW a \in Requests, AskSearch(a) \/ AskDevices(a) \/ AskRefresh(a)
  PROVE  CalmInv'
<1>1. /\ at[a] = Idle /\ UNCHANGED <<on, coord, addr, row, sure>>
  BY BeginTypes DEF net
<1>2. PICK w \in Works : /\ Go(a, w) /\ w # Idle
                         /\ IF AskRefresh(a) THEN w.op = "refresh" /\ w.pc = "list"
                                             ELSE w.op = "discover" /\ w.pc = "mark"
  BY BeginTypes
<1>3. \A b \in Requests : at'[b] = IF b = a THEN w ELSE at[b]
  BY <1>2 DEF Go, TypeInv
<1>4. SearchInv'
  <2> SUFFICES ASSUME NEW b \in Requests, at'[b].op = "discover" PROVE calm' = {}
    BY DEF SearchInv
  <2>1. CASE ~AskRefresh(a)
    BY <2>1 DEF AskSearch, AskDevices
  <2>2. CASE AskRefresh(a)
    <3>1. b # a /\ at[b].op = "discover"
      BY <1>2, <1>3, <2>2
    <3>2. calm \subseteq {b} /\ calm' = calm \ {c \in Requests : at[c].op = "discover"}
      BY <2>2, <3>1 DEF AskRefresh, CalmInv, SearchInv
    <3> QED
      BY <3>1, <3>2
  <2> QED
    BY <2>1, <2>2
<1>5. w.pc \in {"list", "mark"} /\ calm' \subseteq calm \cup {a}
  BY <1>2 DEF AskRefresh, AskSearch, AskDevices
<1>6. SureInv'
  BY <1>1, <1>3, <1>5 DEF CalmInv, SureInv, Searching, Shown, Current, Found, Topology
<1>7. \A v : Good(v)' <=> Good(v)
  BY <1>1 DEF Good, GoodSearch, GoodRefresh, Shown, Current, Found, Topology, Here, Updated
<1>8. Good(w)
  BY <1>5 DEF Good, GoodSearch, GoodRefresh
<1>9. GoodInv'
  BY <1>1, <1>3, <1>5, <1>7, <1>8 DEF CalmInv, GoodInv, Good, GoodSearch, GoodRefresh
<1> QED
  BY <1>4, <1>6, <1>9 DEF CalmInv

LEMMA MarkCalm ==
  ASSUME TypeInv, CalmInv, NEW a \in Requests, Mark(a)
  PROVE  CalmInv'
<1>1. /\ at'[a].op = "discover" /\ at'[a].pc = "search" /\ at[a].op = "discover"
      /\ \A b \in Requests : b # a => at'[b] = at[b]
  BY MarkTypes DEF Mark, Go, TypeInv
<1>2. sure' = {} /\ calm' = IF Busy = {a} THEN {a} ELSE {}
  BY DEF Mark
<1>3. at[a] # Idle /\ at'[a] # Idle
  BY <1>1 DEF Idle
<1>4. Busy' = Busy /\ a \in Busy
  BY <1>1, <1>3 DEF Busy
<1>5. SearchInv'
  <2> SUFFICES ASSUME NEW b \in Requests, at'[b].op = "discover"
               PROVE  calm' \subseteq {b} /\ (b \in calm' => Busy' = {b} /\ at'[b].pc # "mark")
    BY DEF SearchInv
  <2>1. CASE b = a
    BY <1>1, <1>2, <1>4, <2>1
  <2>2. CASE b # a
    <3>1. b \in Busy
      BY <1>1, <2>2 DEF Busy, Idle
    <3> QED
      BY <1>2, <2>2, <3>1
  <2> QED
    BY <2>1, <2>2
<1>6. Good(at[a])'
  BY <1>1 DEF Good, GoodSearch, GoodRefresh
<1>7. GoodInv'
  BY <1>2, <1>6 DEF GoodInv
<1> QED
  BY <1>2, <1>5, <1>7 DEF CalmInv, SureInv

LEMMA ReadCalm ==
  ASSUME TypeInv, CalmInv, NEW a \in Requests, ReadStep(a)
  PROVE  CalmInv'
<1> DEFINE v == at[a]
<1>1. /\ UNCHANGED <<on, coord, addr, row, calm, sure>> /\ v # Idle
  BY ReadGoes DEF net
<1>2. PICK w \in Works :
        /\ Go(a, w) /\ Formed(w)
        /\ \/ w = Idle
           \/ /\ w.op = "discover" /\ v.op = "discover" /\ v.pc = "search"
              /\ w.pc = "zones" /\ w.todo \subseteq {Here(p) : p \in on}
              /\ w.whole = (w.todo = {Here(p) : p \in on})
           \/ /\ w.op = "discover" /\ v.op = "discover" /\ v.pc = "zones"
              /\ w.pc = "upsert" /\ w.todo = v.todo
              /\ w.whole => v.whole /\ w.zones = Topology
           \/ /\ w.op = "refresh" /\ v.op = "refresh" /\ v.pc = "list"
              /\ w.pc = "ask" /\ w.todo = List
           \/ /\ w.op = "refresh" /\ v.op = "refresh" /\ v.pc = "ask"
              /\ w.pc = "update" /\ w.todo = v.todo /\ w.zones = Topology
  BY ReadGoes
<1>3. \A b \in Requests : at'[b] = IF b = a THEN w ELSE at[b]
  BY <1>2 DEF Go, TypeInv
<1>4. Idle.op = "none" /\ Idle.pc = "idle"
  BY DEF Idle
<1>5. SearchInv'
  <2> SUFFICES ASSUME NEW b \in Requests, at'[b].op = "discover"
               PROVE  calm' \subseteq {b} /\ (b \in calm' => Busy' = {b} /\ at'[b].pc # "mark")
    BY DEF SearchInv
  <2>1. at[b].op = "discover" /\ calm \subseteq {b}
        /\ (b \in calm => Busy = {b} /\ at[b].pc # "mark")
    BY <1>2, <1>3, <1>4 DEF CalmInv, SearchInv
  <2>2. CASE b = a
    <3>1. w # Idle /\ w.pc # "mark"
      BY <1>2, <1>3, <1>4, <2>2
    <3>2. Busy' = Busy
      BY <1>1, <1>3, <3>1 DEF Busy
    <3> QED
      BY <1>1, <1>3, <2>1, <2>2, <3>1, <3>2
  <2>3. CASE b # a
    <3>1. a \in Busy
      BY <1>1 DEF Busy
    <3> QED
      BY <1>1, <2>1, <2>3, <3>1
  <2> QED
    BY <2>2, <2>3
<1>6. sure # {} => w.pc \notin Searching
  <2>1. sure # {} => v.pc \notin Searching
    BY DEF CalmInv, SureInv
  <2> QED
    BY <1>2, <1>4, <2>1 DEF Searching
<1>7. SureInv'
  BY <1>1, <1>3, <1>6 DEF CalmInv, SureInv, Shown, Current, Found, Topology
<1>8. \A u : Good(u)' <=> Good(u)
  BY <1>1 DEF Good, GoodSearch, GoodRefresh, Shown, Current, Found, Topology, Here, Updated
<1>9. ASSUME Good(v) PROVE Good(w)
  <2>1. CASE w = Idle
    BY <1>4, <2>1 DEF Good, GoodSearch, GoodRefresh
  <2>2. CASE w.pc = "zones" /\ w.todo \subseteq {Here(p) : p \in on}
             /\ w.whole = (w.todo = {Here(p) : p \in on})
    <3>1. \A p : Here(p).p = p
      BY DEF Here
    <3>2. w.whole => \A p \in on : Waits(w, p)
      <4> SUFFICES ASSUME w.whole, NEW p \in on PROVE Waits(w, p)
        OBVIOUS
      <4>1. Here(p) \in w.todo
        BY <2>2
      <4> QED
        BY <3>1, <4>1 DEF Waits
    <3>3. \A x \in w.todo : x.p \in on /\ x = Here(x.p)
      BY <2>2, <3>1
    <3> QED
      BY <2>2, <3>2, <3>3 DEF Good, GoodSearch, GoodRefresh
  <2>3. CASE v.pc = "zones" /\ w.pc = "upsert" /\ w.todo = v.todo
             /\ (w.whole => v.whole /\ w.zones = Topology)
    BY <1>9, <2>3 DEF Good, GoodSearch, GoodRefresh, Waits
  <2>4. CASE w.pc = "ask" /\ w.todo = List
    <3>1. \A x \in List : row[x.p] = x.r
      BY DEF List
    <3>2. ASSUME NEW p \in Players, Shown(p) PROVE Waits(w, p)
      <4>1. [p |-> p, r |-> row[p]] \in List
        BY <3>2 DEF List, Shown
      <4> QED
        BY <2>4, <4>1 DEF Waits
    <3> QED
      BY <2>4, <3>1, <3>2 DEF Good, GoodSearch, GoodRefresh
  <2>5. CASE v.pc = "ask" /\ w.pc = "update" /\ w.todo = v.todo /\ w.zones = Topology
    BY <1>9, <2>5 DEF Good, GoodSearch, GoodRefresh, Waits
  <2> QED
    BY <1>2, <2>1, <2>2, <2>3, <2>4, <2>5
<1>10. GoodInv'
  BY <1>1, <1>3, <1>8, <1>9 DEF CalmInv, GoodInv
<1> QED
  BY <1>5, <1>7, <1>10 DEF CalmInv

\* A device that was found is written.  A search is never at work while something is
\* sure; one that is calm is alone.
LEMMA UpsertCalm ==
  ASSUME TypeInv, CalmInv, NEW a \in Requests, NEW x \in at[a].todo, Upsert(a, x)
  PROVE  CalmInv'
<1> DEFINE w == at[a]
           v == After(w, x)
           new == [x.r EXCEPT !.size = Size(w.zones, x.p), !.hidden = Hidden(w.zones, x.p)]
<1>1. /\ w \in Works /\ Formed(w) /\ w # Idle /\ w.pc = "upsert" /\ w.op = "discover"
      /\ x \in Items /\ x.p \in Players /\ x.r \in Rows
      /\ UNCHANGED <<on, coord, addr>> /\ Go(a, v) /\ row \in [Players -> Rows]
      /\ row' = [row EXCEPT ![x.p] = new]
  BY DEF TypeInv, Works, Items, Upsert, Write, Idle, Formed, net
<1>2. sure = {}
  BY <1>1 DEF CalmInv, SureInv, Searching
<1>3. \A b \in Requests : at'[b] = IF b = a THEN v ELSE at[b]
  BY <1>1 DEF Go, TypeInv
<1>4. calm \subseteq {a} /\ (a \in calm => Busy = {a})
  BY <1>1 DEF CalmInv, SearchInv
<1>5. CASE a \notin calm
  <2>1. calm' = {} /\ sure' = {}
    BY <1>2, <1>5 DEF Upsert, Write, Done
  <2> QED
    BY <2>1 DEF CalmInv, SearchInv, SureInv, GoodInv
<1>6. CASE a \in calm
  <2>1. calm' = calm /\ calm = {a} /\ Busy = {a} /\ Good(w)
    BY <1>4, <1>6 DEF Upsert, Write, CalmInv, GoodInv
  <2>2. \A b \in Requests : b # a => at'[b] = Idle
    BY <1>3, <2>1 DEF Busy
  <2>3. \/ v = Idle /\ w.todo = {x}
        \/ /\ v # Idle /\ v.op = "discover" /\ v.pc = "upsert" /\ v.todo = w.todo \ {x}
           /\ v.zones = w.zones /\ v.whole = w.whole
    BY <1>1, AfterTypes
  <2>4. sure' \subseteq {"search"} /\ (sure' # {} => v = Idle /\ w.whole)
    BY <1>2 DEF Upsert, Done
  <2>5. Idle.op = "none" /\ Idle.pc = "idle"
    BY DEF Idle
  <2>6. /\ row'[x.p] = new /\ \A p \in Players : p # x.p => row'[p] = row[p]
    BY <1>1
  <2>7. /\ new.known /\ new.reachable /\ new.addr = addr[x.p]
        /\ w.whole => new.size = Size(Topology, x.p) /\ (new.hidden <=> Hidden(Topology, x.p))
    <3>1. x = Here(x.p) /\ (w.whole => w.zones = Topology)
      BY <1>1, <2>1 DEF Good, GoodSearch
    <3>2. x.r.known /\ x.r.reachable /\ x.r.addr = addr[x.p]
      <4>1. x.r = [NoRow EXCEPT !.known = TRUE, !.addr = addr[x.p], !.reachable = TRUE]
        BY <3>1 DEF Here
      <4> QED
        BY <4>1 DEF NoRow
    <3>3. /\ new.known = x.r.known /\ new.reachable = x.r.reachable /\ new.addr = x.r.addr
          /\ new.size = Size(w.zones, x.p) /\ new.hidden = Hidden(w.zones, x.p)
      BY <1>1 DEF Rows
    <3> HIDE DEF new
    <3> QED
      BY <3>1, <3>2, <3>3
  <2> HIDE DEF new
  <2>8. Topology' = Topology
    BY <1>1 DEF Topology
  <2>9. w.whole => \A p \in on : Found(p)' \/ (p # x.p /\ Waits(w, p))
    <3> SUFFICES ASSUME w.whole, NEW p \in on PROVE Found(p)' \/ (p # x.p /\ Waits(w, p))
      OBVIOUS
    <3>1. CASE p = x.p
      BY <1>1, <2>6, <2>7, <2>8, <3>1 DEF Found, Current
    <3>2. CASE p # x.p
      <4>1. Waits(w, p) \/ Found(p)
        BY <1>1, <2>1 DEF Good, GoodSearch
      <4>2. p \in Players
        BY DEF TypeInv, NetInv
      <4> QED
        BY <1>1, <2>6, <2>8, <3>2, <4>1, <4>2 DEF Found, Current
    <3> QED
      BY <3>1, <3>2
  <2>10. SearchInv'
    <3>1. v # Idle => Busy' = {a}
      BY <1>3, <2>2 DEF Busy
    <3> QED
      BY <1>3, <2>1, <2>2, <2>3, <2>5, <3>1 DEF SearchInv
  <2>11. SureInv'
    <3>1. sure' # {} => \A p \in on : Found(p)'
      <4>1. sure' # {} => w.whole /\ w.todo = {x}
        BY <2>3, <2>4, <2>5
      <4> QED
        BY <2>9, <4>1 DEF Waits
    <3> QED
      BY <1>1, <1>3, <2>2, <2>4, <2>5, <3>1 DEF SureInv, Searching
  <2>12. Good(at[a])'
    <3>1. CASE at'[a] = Idle
      BY <2>5, <3>1 DEF Good, GoodSearch, GoodRefresh
    <3>2. CASE /\ at'[a].pc = "upsert" /\ at'[a].todo = w.todo \ {x}
               /\ at'[a].zones = w.zones /\ at'[a].whole = w.whole
      <4>1. \A y \in at'[a].todo : y.p \in on' /\ y = Here(y.p)'
        BY <1>1, <2>1, <3>2 DEF Good, GoodSearch, Here
      <4>2. at'[a].whole => \A p \in on' : Waits(at[a], p)' \/ Found(p)'
        BY <1>1, <2>9, <3>2 DEF Waits
      <4>3. at'[a].whole => at'[a].zones = Topology'
        BY <1>1, <2>1, <2>8, <3>2 DEF Good, GoodSearch
      <4> QED
        BY <3>2, <4>1, <4>2, <4>3 DEF Good, GoodSearch, GoodRefresh
    <3> QED
      BY <1>3, <2>3, <3>1, <3>2
  <2>13. Good(Idle)'
    BY <2>5 DEF Good, GoodSearch, GoodRefresh
  <2> HIDE DEF v
  <2>14. GoodInv'
    BY <1>3, <2>2, <2>12, <2>13 DEF GoodInv
  <2> QED
    BY <2>10, <2>11, <2>14 DEF CalmInv
<1> QED
  BY <1>5, <1>6

\* A listed row is written as it was listed, with what the topology says.  A good
\* refresh thereby brings the row up to date, whoever wrote it meanwhile.
LEMMA UpdateWrites ==
  ASSUME TypeInv, NEW a \in Requests, NEW x \in at[a].todo, Update(a, x), Good(at[a])
  PROVE  /\ row' = [row EXCEPT ![x.p] = Updated(x.p, row[x.p])]
         /\ Updated(x.p, row[x.p]) = Updated(x.p, x.r)
<1> DEFINE w == at[a]
           new == [x.r EXCEPT !.size = Size(w.zones, x.p), !.hidden = Hidden(w.zones, x.p)]
<1>1. /\ w.pc = "update" /\ x.p \in Players /\ x.r \in Rows /\ row \in [Players -> Rows]
      /\ row' = IF new = x.r THEN row ELSE [row EXCEPT ![x.p] = new]
  BY DEF TypeInv, Works, Items, Update, Write
<1>2. w.zones = Topology /\ row[x.p] \in {x.r, Updated(x.p, x.r)}
  BY <1>1 DEF Good, GoodRefresh
<1>3. new = Updated(x.p, x.r)
  BY <1>2 DEF Updated
<1>4. Updated(x.p, Updated(x.p, x.r)) = Updated(x.p, x.r)
  BY <1>1 DEF Updated, Rows
<1>5. Updated(x.p, row[x.p]) = Updated(x.p, x.r)
  BY <1>2, <1>4
<1>6. new = x.r => row[x.p] = new
  BY <1>2, <1>3
<1> HIDE DEF new
<1>7. new = x.r => [row EXCEPT ![x.p] = new] = row
  BY <1>1, <1>6
<1> QED
  BY <1>1, <1>3, <1>5, <1>7

LEMMA UpdateCalm ==
  ASSUME TypeInv, CalmInv, NEW a \in Requests, NEW x \in at[a].todo, Update(a, x)
  PROVE  CalmInv'
<1> DEFINE w == at[a]
           v == After(w, x)
<1>1. /\ w \in Works /\ Formed(w) /\ w # Idle /\ w.pc = "update" /\ w.op = "refresh"
      /\ x.p \in Players /\ UNCHANGED <<on, coord, addr>> /\ Go(a, v)
      /\ row \in [Players -> Rows] /\ row' \in [Players -> Rows] /\ a \in Busy
  <2>1. TypeInv'
    BY UpsertTypes
  <2>2. /\ w \in Works /\ Formed(w) /\ w.pc = "update" /\ x.p \in Players /\ Go(a, v)
        /\ UNCHANGED <<on, coord, addr>> /\ row \in [Players -> Rows]
    BY DEF TypeInv, Works, Items, Update, Write, net
  <2>3. w # Idle /\ w.op = "refresh"
    BY <2>2 DEF Formed, Idle
  <2> QED
    BY <2>1, <2>2, <2>3 DEF TypeInv, Busy
<1>2. \A b \in Requests : at'[b] = IF b = a THEN v ELSE at[b]
  BY <1>1 DEF Go, TypeInv
<1>3. \/ v = Idle /\ w.todo = {x}
      \/ /\ v # Idle /\ v.op = "refresh" /\ v.pc = "update" /\ v.todo = w.todo \ {x}
         /\ v.zones = w.zones
  BY <1>1, AfterTypes
<1>4. Idle.op = "none" /\ Idle.pc = "idle"
  BY DEF Idle
<1>5. \A b \in Requests : at[b].op = "discover" => b \notin calm /\ b # a /\ b \in Busy
  BY <1>1, <1>4 DEF CalmInv, SearchInv, Busy
<1>6. calm' = IF a \in calm THEN calm ELSE {}
  BY DEF Update, Write
<1>7. sure' = IF v = Idle /\ a \in calm /\ Busy \subseteq calm THEN sure \cup {"refresh"} ELSE sure
  BY DEF Update, Done
<1> HIDE DEF v
<1>8. SearchInv'
  <2> SUFFICES ASSUME NEW b \in Requests, at'[b].op = "discover"
               PROVE  calm' \subseteq {b} /\ b \notin calm'
    BY DEF SearchInv
  <2>1. at[b].op = "discover"
    BY <1>2, <1>3, <1>4
  <2>2. calm \subseteq {b}
    BY <2>1 DEF CalmInv, SearchInv
  <2> QED
    BY <1>5, <1>6, <2>1, <2>2
<1>9. CASE a \notin calm /\ sure = {}
  BY <1>6, <1>7, <1>8, <1>9 DEF CalmInv, SureInv, GoodInv
<1>10. CASE a \in calm \/ sure # {}
  <2>1. Good(w)
    BY <1>10 DEF CalmInv, GoodInv
  <2>2. /\ row' = [row EXCEPT ![x.p] = Updated(x.p, row[x.p])]
        /\ Updated(x.p, row[x.p]) = Updated(x.p, x.r)
    BY <2>1, UpdateWrites
  <2>3. /\ row'[x.p] = Updated(x.p, row[x.p])
        /\ \A p \in Players : p # x.p => row'[p] = row[p]
    BY <1>1, <2>2
  <2>4. Topology' = Topology
    BY <1>1 DEF Topology
  <2>5. /\ row'[x.p].known = row[x.p].known /\ row'[x.p].reachable = row[x.p].reachable
        /\ row'[x.p].addr = row[x.p].addr
        /\ row'[x.p].size = Size(Topology, x.p) /\ row'[x.p].hidden = Hidden(Topology, x.p)
    BY <1>1, <2>3 DEF Updated, Rows
  <2>6. \A p \in Players : /\ Found(p) => Found(p)'
                           /\ Current(p) \/ p = x.p => Current(p)'
                           /\ p # x.p => (Shown(p)' <=> Shown(p))
    BY <1>1, <2>3, <2>4, <2>5 DEF Found, Current, Shown
  <2>7. ASSUME sure' # {}, NEW b \in Requests PROVE Good(at[b]) /\ at[b].pc \notin Searching
    <3>1. CASE sure # {}
      BY <3>1 DEF CalmInv, GoodInv, SureInv
    <3>2. CASE sure = {}
      <4>1. Busy \subseteq calm
        BY <1>7, <2>7, <3>2
      <4>2. CASE b \in Busy
        <5>1. Good(at[b]) /\ at[b].op # "discover"
          BY <1>5, <4>1, <4>2 DEF CalmInv, GoodInv
        <5>2. Formed(at[b])
          BY DEF TypeInv
        <5> QED
          BY <1>4, <5>1, <5>2 DEF Formed, Searching
      <4>3. CASE b \notin Busy
        <5>1. at[b] = Idle
          BY <4>3 DEF Busy
        <5> QED
          BY <1>4, <5>1 DEF Good, GoodSearch, GoodRefresh, Searching
      <4> QED
        BY <4>2, <4>3
    <3> QED
      BY <3>1, <3>2
  <2>8. SureInv'
    <3>1. "search" \in sure' => \A p \in on' : Found(p)'
      BY <1>1, <1>7, <2>6 DEF CalmInv, SureInv, TypeInv, NetInv
    <3>2. ASSUME "refresh" \in sure', NEW p \in Players, Shown(p)' PROVE Current(p)'
      <4>1. CASE p = x.p
        BY <2>6, <4>1
      <4>2. CASE p # x.p
        <5>1. Shown(p)
          BY <2>6, <3>2, <4>2
        <5>2. "refresh" \in sure => Current(p)
          BY <5>1 DEF CalmInv, SureInv
        <5>3. "refresh" \notin sure => w.todo = {x}
          BY <1>1, <1>3, <1>7, <3>2
        <5>4. w.todo = {x} => Current(p)
          BY <1>1, <2>1, <4>2, <5>1 DEF Good, GoodRefresh, Waits
        <5> QED
          BY <2>6, <5>2, <5>3, <5>4
      <4> QED
        BY <4>1, <4>2
    <3>3. ASSUME sure' # {}, NEW b \in Requests PROVE at'[b].pc \notin Searching
      BY <1>2, <1>3, <1>4, <2>7, <3>3 DEF Searching
    <3> QED
      BY <3>1, <3>2, <3>3 DEF SureInv
  <2>9. ASSUME NEW b \in Requests, b \in calm' \/ sure' # {} PROVE Good(at[b])'
    <3>1. Good(at[b])
      BY <1>6, <2>7, <2>9 DEF CalmInv, GoodInv
    <3>2. at[b].pc \notin {"zones", "upsert"}
      <4>1. Formed(at[b])
        BY DEF TypeInv
      <4>2. b \in calm => at[b].op # "discover"
        BY <1>5
      <4> QED
        BY <1>4, <1>6, <2>7, <2>9, <4>1, <4>2 DEF Formed, Searching
    <3>3. at'[b].pc \notin {"zones", "upsert"}
      BY <1>2, <1>3, <1>4, <3>2
    <3>4. ASSUME at'[b].pc \in {"ask", "update"} PROVE GoodRefresh(at[b])'
      <4>1. /\ at'[b].pc = at[b].pc /\ at'[b].zones = at[b].zones
            /\ at'[b].todo \subseteq at[b].todo
            /\ \A y \in at[b].todo : y \notin at'[b].todo => y.p = x.p
        BY <1>1, <1>2, <1>3, <1>4, <3>4
      <4>2. /\ \A y \in at[b].todo : row[y.p] \in {y.r, Updated(y.p, y.r)}
            /\ \A p \in Players : Shown(p) => Waits(at[b], p) \/ Current(p)
            /\ at[b].pc = "update" => at[b].zones = Topology
        BY <3>1, <3>4, <4>1 DEF Good, GoodRefresh
      <4>3. \A p, r : Updated(p, r)' = Updated(p, r)
        BY <2>4 DEF Updated
      <4>4. ASSUME NEW y \in at'[b].todo PROVE row'[y.p] \in {y.r, Updated(y.p, y.r)}
        <5>1. row[y.p] \in {y.r, Updated(y.p, y.r)} /\ y.p \in Players /\ y.r \in Rows
          BY <4>1, <4>2 DEF TypeInv, Works, Items
        <5>2. CASE y.p # x.p
          BY <2>3, <5>1, <5>2
        <5>3. CASE y.p = x.p
          <6>1. Updated(y.p, Updated(y.p, y.r)) = Updated(y.p, y.r)
            BY <5>1 DEF Updated, Rows
          <6>2. Updated(y.p, row[y.p]) = Updated(y.p, y.r)
            BY <5>1, <6>1
          <6> QED
            BY <2>3, <5>3, <6>2
        <5> QED
          BY <5>2, <5>3
      <4>5. ASSUME NEW p \in Players, Shown(p)' PROVE Waits(at[b], p)' \/ Current(p)'
        <5>1. CASE p = x.p
          BY <2>6, <5>1
        <5>2. CASE p # x.p
          <6>1. Waits(at[b], p) \/ Current(p)
            BY <2>6, <4>2, <4>5, <5>2
          <6>2. Waits(at[b], p) => Waits(at[b], p)'
            BY <4>1, <5>2 DEF Waits
          <6> QED
            BY <2>6, <6>1, <6>2
        <5> QED
          BY <5>1, <5>2
      <4> QED
        BY <2>4, <4>1, <4>2, <4>3, <4>4, <4>5 DEF GoodRefresh
    <3> QED
      BY <3>3, <3>4 DEF Good, GoodSearch, GoodRefresh
  <2>10. GoodInv'
    BY <2>9 DEF GoodInv
  <2> QED
    BY <1>8, <2>8, <2>10 DEF CalmInv
<1> QED
  BY <1>9, <1>10

LEMMA NextCalm == TypeInv /\ CalmInv /\ [Next]_vars => CalmInv'
<1> SUFFICES ASSUME TypeInv, CalmInv, [Next]_vars PROVE CalmInv'
  OBVIOUS
<1>1. CASE \E a \in Requests : AskSearch(a) \/ AskDevices(a) \/ AskRefresh(a)
  BY <1>1, BeginCalm
<1>2. CASE \E a \in Requests : Mark(a) \/ ReadStep(a)
  BY <1>2, MarkCalm, ReadCalm
<1>3. CASE \E a \in Requests : \E x \in at[a].todo : Upsert(a, x) \/ Update(a, x)
  BY <1>3, UpsertCalm, UpdateCalm
<1>4. CASE Network
  <2>1. calm' = {} /\ sure' = {}
    BY <1>4, NetworkNet DEF TypeInv
  <2> QED
    BY <2>1 DEF CalmInv, SearchInv, SureInv, GoodInv
<1>5. CASE UNCHANGED vars
  <2>1. UNCHANGED <<on, coord, addr, row, at, calm, sure>>
    BY <1>5 DEF vars, net
  <2>2. \A w : Good(w)' <=> Good(w)
    BY <2>1 DEF Good, GoodSearch, GoodRefresh, Shown, Current, Found, Topology, Here, Updated
  <2>3. GoodInv'
    BY <2>1, <2>2 DEF CalmInv, GoodInv
  <2>4. SureInv' /\ SearchInv'
    BY <2>1 DEF CalmInv, SureInv, SearchInv, Shown, Current, Found, Topology, Busy
  <2> QED
    BY <2>3, <2>4 DEF CalmInv
<1> QED
  BY <1>1, <1>2, <1>3, <1>4, <1>5 DEF Next, Discover, RefreshGroupInfo, ReadStep

LEMMA CalmHolds == Spec => [](TypeInv /\ CalmInv)
<1>1. Init => CalmInv
  BY DEF Init, CalmInv, SearchInv, SureInv, GoodInv
<1> QED
  BY <1>1, InitTypes, NextTypes, NextCalm, PTL DEF Spec

\* A search that nothing disturbed leaves a row for every player there, reachable at
\* its address and shown exactly if it leads its group; refreshes that overlap, fail
\* or come late do not spoil it, for any number of requests, players and groups.
THEOREM SearchComplete == Spec => []SearchFindsAll
BY CalmHolds, CalmInvSuffices, PTL

\* A refresh that nothing disturbed leaves shown only the leaders of groups, with
\* their sizes, and no other refresh spoils it.
THEOREM GroupsCurrent == Spec => []RefreshedGroupsAreCurrent
BY CalmHolds, CalmInvSuffices, PTL
=============================================================================
