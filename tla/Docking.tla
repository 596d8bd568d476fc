------------------------------- MODULE Docking -------------------------------
(***************************************************************************)
(* Docking of the desktop's popout windows (lib/dockingManager.js, used by *)
(* openfinPopoutService.js): a window dragged near another snaps to it and *)
(* joins its group when it is released; the group moves as one; a window   *)
(* leaves its group when it is undocked or closed.  To whom a window is    *)
(* docked is kept in the local storage and tried again when it opens.      *)
(*                                                                         *)
(* What the services tell the docking manager, and it tells them, passes   *)
(* through the desktop's message bus, in order; the events of the windows  *)
(* do not wait for it.  Coordinates are pixels.                            *)
(***************************************************************************)
EXTENDS Integers, Sequences, FiniteSets, SequencesExt, FiniteSetsExt

CONSTANTS
  Names,       \* names of popouts
  NoName,
  Size,        \* [Names -> <<width, height>>]
  Dockable,    \* names of those that may dock to others
  Monitor,     \* <<x, y, width, height>>
  Home,        \* [Names -> <<x, y>>]: where a popout opens first
  Points,      \* where windows are dragged to
  MaxWindows,  \* bound on the windows opened in a session
  MaxActs,     \* bound on the acts of the user after windows have opened
  MaxRestarts  \* bound on the restarts of the application

Ids == 1..MaxWindows

ASSUME DockingAssumption ==
  /\ NoName \notin Names /\ Dockable \subseteq Names
  /\ Size \in [Names -> Nat \X Nat] /\ Monitor \in Int \X Int \X Nat \X Nat
  /\ Points \subseteq Int \X Int /\ Home \in [Names -> Int \X Int]
  /\ {MaxWindows, MaxActs, MaxRestarts} \subseteq Nat

VARIABLES
  win,       \* windows in the order they opened
  groups,    \* children of every docking group
  snaps,     \* _snappedWindows, pairs of windows
  dragged,   \* the window under the mouse, 0 if none
  bus,       \* messages of the desktop's bus
  marked,    \* popouts that have the class `docked'
  storage,   \* the local storage
  place,     \* where the desktop opens a popout
  ghost,     \* history: whether a group has held a closed window
  acts, restarts  \* counters for the bounds

vars == <<win, groups, snaps, dragged, bus, marked, storage, place,
          ghost, acts, restarts>>

range == 40
spacing == 5

Opened == DOMAIN win
\* `windows' of the manager, whose order is that of the numbers.
Registered == {w \in Opened : win[w].phase # "closed"}
\* `_popouts' of the service.
Popouts == {w \in Opened : win[w].phase = "open"}
NameOf(w) == win[w].name
Width(b) == Size[b.name][1]
Height(b) == Size[b.name][2]

\* `_instances' holds the last window of a name, open or not.
InstancesOf(n) == {w \in Opened : NameOf(w) = n}

GroupsOf(w) == {g \in groups : w \in Range(g)}
IsGrouped(w) == GroupsOf(w) # {}

\* The group without its member w.
Without(g, w) == RemoveAt(g, CHOOSE n \in DOMAIN g : g[n] = w)

-----------------------------------------------------------------------------
(* Geometry.                                                               *)

Overlap(x1, l1, x2, l2) == ~(x1 + l1 < x2 \/ x2 + l2 < x1)

intersact(a, b) ==
  Overlap(a.x, Width(a), b.x, Width(b)) /\ Overlap(a.y, Height(a), b.y, Height(b))

isInView(b) ==
  /\ Overlap(b.x, Width(b), Monitor[1], Monitor[3])
  /\ Overlap(b.y, Height(b), Monitor[2], Monitor[4])
  /\ b.y >= Monitor[2]

\* One of the ends of an interval lies in another.
InZone(start, length, p, l) ==
  \E q \in {p, p + l} : start <= q /\ q <= start + length

Near(p, q, r) == q - r < p /\ p < q + r

\* The side of w that c is near to, "none" for false.
isSnapable(c, w) ==
  LET beside == InZone(w.y, Height(w), c.y, Height(c))
      over   == InZone(w.x, Width(w), c.x, Width(c))
  IN CASE Near(c.x, w.x + Width(w), c.range) /\ beside -> "right"
       [] Near(c.x + Width(c), w.x, c.range) /\ beside -> "left"
       [] Near(c.y, w.y + Height(w), c.range) /\ over -> "bottom"
       [] Near(c.y + Height(c), w.y, c.range) /\ over -> "top"
       [] OTHER -> "none"

_reverse == [right |-> "left", left |-> "right", top |-> "bottom",
             bottom |-> "top", none |-> "none"]

\* The side of d that bounds b snap to.
SnapSide(b, d) ==
  IF isSnapable(b, d) # "none" THEN isSnapable(b, d)
  ELSE _reverse[isSnapable(d, b)]

\* An edge of b aligned with w; 0 also stands for null: both count as unset.
EdgeSnapping(q, m, p, l) ==
  IF p - q \in -range..range THEN q
  ELSE IF (p + l) - (q + m) \in -range..range THEN q + m - l ELSE 0

snapToWindow(b, w, side) ==
  LET x == EdgeSnapping(w.x, Width(w), b.x, Width(b))
      y == EdgeSnapping(w.y, Height(w), b.y, Height(b))
  IN CASE side = "right"  -> <<w.x + Width(w) + spacing, y>>
       [] side = "left"   -> <<w.x - Width(b) - spacing, y>>
       [] side = "top"    -> <<x, w.y - Height(b) - spacing>>
       [] side = "bottom" -> <<x, w.y + Height(w) + spacing>>

-----------------------------------------------------------------------------
(* Groups.  A state of the desktop is a record of win, groups, bus and     *)
(* storage, so that a handler can do several of these in turn.             *)

Desktop == [win |-> win, groups |-> groups, bus |-> bus, storage |-> storage]

\* Mutant: a window that has a group may join another.
JoinTwice(s, w, v) ==
  IF s.win[w].name \notin Dockable \/ w = v THEN s
  ELSE [s EXCEPT !.groups = {Append(h, w) : h \in {g \in @ : v \in Range(g)}}
                            \cup {g \in @ : v \notin Range(g)} \cup {<<v, w>>},
                 !.storage[s.win[w].name] = s.win[v].name]

\* A window without a group becomes a member of another's, or the two make
\* one.  On its own a mutant of Join: a window joins whatever it overlaps.
JoinOverlapping(s, w, v) ==
  LET g == {h \in s.groups : v \in Range(h)}
  IN IF \/ \E h \in s.groups : w \in Range(h)
        \/ s.win[w].name \notin Dockable
     THEN s
     ELSE [s EXCEPT
             !.groups = (@ \ g) \cup
                (IF g # {} THEN {Append(h, w) : h \in g}
                 ELSE {IF v = w THEN <<w>> ELSE <<v, w>>}),
             !.bus = @ \o << <<"docked", s.win[w].name>>,
                             <<"docked", s.win[v].name>> >>,
             !.storage[s.win[w].name] = s.win[v].name]

\* joinGroup: not when the window overlaps a member of the group.
Join(s, w, v) ==
  LET g == {h \in s.groups : v \in Range(h)}
  IN IF \E h \in g : \E m \in Range(h) : intersact(s.win[w], s.win[m])
     THEN s ELSE JoinOverlapping(s, w, v)

\* The pairs of a sequence are joined in turn.
JoinAll(s, pairs) ==
  LET after[n \in 0..Len(pairs)] ==
        IF n = 0 THEN s ELSE Join(after[n - 1], pairs[n][1], pairs[n][2])
  IN after[Len(pairs)]

\* A window out of view is brought back to the corner.
Recover(b) == IF isInView(b) THEN b ELSE [b EXCEPT !.x = 0, !.y = 0]

\* A group none of whose members is in view moves: its first to the corner.
RecoverGroup(ws, g) ==
  IF \E m \in Range(g) : isInView(ws[m]) THEN ws
  ELSE [w \in DOMAIN ws |->
          IF w \in Range(g)
          THEN [ws[w] EXCEPT !.x = @ - ws[g[1]].x, !.y = @ - ws[g[1]].y]
          ELSE ws[w]]

\* Mutant: a window remembers the group it has left.
LeaveRemembering(s, w) ==
  LET rest == {Without(h, w) : h \in {g \in s.groups : w \in Range(g)}}
  IN [s EXCEPT
        !.groups = {g \in @ : w \notin Range(g)} \cup (rest \ {<<>>}),
        !.win[w] = Recover(@),
        !.bus = Append(@, <<"undocked", s.win[w].name>>)]

\* Mutant: nobody is told of a window that leaves.
LeaveUntold(s, w) ==
  [LeaveRemembering(s, w) EXCEPT !.bus = s.bus,
                                 !.storage[s.win[w].name] = NoName]

\* What one window does to leave.  On its own a mutant of Leave: the last
\* member of a group is left in it.
LeaveLast(s, w) ==
  LET rest == {Without(h, w) : h \in {g \in s.groups : w \in Range(g)}}
  IN [s EXCEPT
        !.groups = {g \in @ : w \notin Range(g)} \cup (rest \ {<<>>}),
        !.win[w] = Recover(@),
        !.bus = Append(@, <<"undocked", s.win[w].name>>),
        !.storage[s.win[w].name] = NoName]

\* leaveGroup: the last member of a group leaves it too.
Leave(s, w) ==
  LET left == LeaveLast(s, w)
      rest == UNION {Range(g) \ {w} : g \in {h \in s.groups : w \in Range(h)}}
      group == CHOOSE g \in left.groups : Range(g) = rest
  IN CASE rest = {} -> left
       [] Cardinality(rest) = 1 -> LeaveLast(left, CHOOSE m \in rest : TRUE)
       [] OTHER -> [left EXCEPT !.win = RecoverGroup(@, group)]

BecomesDesktop(s) ==
  /\ win' = s.win /\ groups' = s.groups
  /\ bus' = s.bus /\ storage' = s.storage

\* History: a group has held a closed window.
HoldsClosed == \E g \in groups : \E w \in Range(g) : win[w].phase = "closed"
Haunt == ghost' = (ghost \/ HoldsClosed')

Act == acts < MaxActs /\ acts' = acts + 1

-----------------------------------------------------------------------------
(* Windows open and close.                                                 *)

Init ==
  /\ win = <<>> /\ groups = {} /\ snaps = {} /\ dragged = 0
  /\ bus = <<>> /\ marked = {}
  /\ storage = [n \in Names |-> NoName] /\ place = Home /\ ghost = FALSE
  /\ acts = 0 /\ restarts = 0

\* Registered with the docking manager, then announced.  The desktop has
\* one window of a name and opens it where it was.
Open(n) ==
  /\ Len(win) < MaxWindows
  /\ \A w \in Registered : NameOf(w) # n
  /\ win' = Append(win, [name |-> n, phase |-> "open", waits |-> TRUE,
                         x |-> place[n][1], y |-> place[n][2],
                         range |-> range])
  /\ bus' = Append(bus, <<"load", n>>)
  /\ UNCHANGED <<groups, snaps, dragged, marked, storage, place, ghost, acts, restarts>>

\* The service undocks the window and closes it.
CloseRequested(w) ==
  /\ Act
  /\ w \in Popouts \ {dragged}
  /\ win' = [win EXCEPT ![w].phase = "closing"]
  /\ bus' = Append(bus, <<"undock", NameOf(w)>>)
  /\ marked' = marked \ {NameOf(w)}
  /\ UNCHANGED <<groups, snaps, dragged, storage, place, ghost, restarts>>

\* The manager only forgets a closed window: groups and snaps keep it.
Closed(w) ==
  /\ win[w].phase = "closing"
  /\ win' = [win EXCEPT ![w].phase = "closed"]
  /\ place' = [place EXCEPT ![NameOf(w)] = <<win[w].x, win[w].y>>]
  /\ UNCHANGED <<groups, snaps, dragged, bus, marked, storage, acts, restarts>>
  /\ Haunt

\* The button of a docked tile.
UndockTile(w) ==
  /\ Act
  /\ w \in Popouts /\ NameOf(w) \in marked \cap Dockable
  /\ bus' = Append(bus, <<"undock", NameOf(w)>>)
  /\ UNCHANGED <<win, groups, snaps, dragged, marked, storage, place, ghost, restarts>>

\* The application ends without closing its popouts one by one.
Restart ==
  /\ Act
  /\ restarts < MaxRestarts
  /\ restarts' = restarts + 1
  /\ win' = <<>> /\ groups' = {} /\ snaps' = {} /\ dragged' = 0
  /\ bus' = <<>> /\ marked' = {}
  /\ place' = [n \in Names |->
                 IF \E w \in Registered : NameOf(w) = n
                 THEN LET b == win[Max(InstancesOf(n))] IN <<b.x, b.y>>
                 ELSE place[n]]
  /\ UNCHANGED <<storage, ghost>>

-----------------------------------------------------------------------------
(* Messages of the bus.                                                    *)

\* The windows of the name that still wait hear it in the order they opened,
\* one that has closed meanwhile too, and each tries to join the window it was
\* docked to.  When that one has not opened yet there is nothing to measure,
\* and the handler fails.
OnLoad(n) ==
  LET v == Max(InstancesOf(storage[n]))
      near == {w \in InstancesOf(n) :
                 /\ win[w].waits /\ InstancesOf(storage[n]) # {}
                 /\ {isSnapable(win[w], win[v]), isSnapable(win[v], win[w])} # {"none"}}
      ready == [Desktop EXCEPT
                  !.win = [w \in Opened |-> [win[w] EXCEPT !.waits = @ /\ NameOf(w) # n]],
                  !.bus = Tail(bus)]
  IN \E order \in SetToSeqs(near) :
       /\ \A i, j \in DOMAIN order : i < j => order[i] < order[j]
       /\ BecomesDesktop(JoinAll(ready, [k \in DOMAIN order |-> <<order[k], v>>]))

OnUndock(n) ==
  LET ws == {w \in Registered : NameOf(w) = n}
      read == [Desktop EXCEPT !.bus = Tail(bus)]
  IN BecomesDesktop(IF ws = {} THEN read ELSE Leave(read, CHOOSE w \in ws : TRUE))

\* The service marks the windows it has.
Mark(n) ==
  marked' = IF \E w \in Popouts : NameOf(w) = n THEN marked \cup {n} ELSE marked

Deliver ==
  /\ bus # <<>>
  /\ LET n == Head(bus)[2]
     IN \/ Head(bus)[1] = "load" /\ OnLoad(n) /\ UNCHANGED marked
        \/ Head(bus)[1] = "undock" /\ OnUndock(n) /\ UNCHANGED marked
        \/ Head(bus)[1] = "docked" /\ Mark(n)
           /\ bus' = Tail(bus) /\ UNCHANGED <<win, groups, storage>>
        \/ Head(bus)[1] = "undocked" /\ marked' = marked \ {n}
           /\ bus' = Tail(bus) /\ UNCHANGED <<win, groups, storage>>
  /\ UNCHANGED <<snaps, dragged, place, acts, restarts>>
  /\ Haunt

-----------------------------------------------------------------------------
(* A window is dragged.                                                    *)

\* The list is kept by names.
Listed(w, v) == {s \in snaps : NameOf(s[1]) = NameOf(w) /\ NameOf(s[2]) = NameOf(v)}

\* Coordinate k of the last place that sets it, or 0.
LastSet(at, k) ==
  LET set == {d \in DOMAIN at : at[d][k] # 0} IN IF set = {} THEN 0 ELSE at[Max(set)][k]

\* Windows that are still near each other.
StillSnapped(S, ws) ==
  {s \in S : {isSnapable(ws[s[1]], ws[s[2]]), isSnapable(ws[s[2]], ws[s[1]])} # {"none"}}

\* onWindowMove and onBoundsChanging: the last registered window is the
\* first to set a coordinate, and the first registered decides the range.
\* The window is near its own place only when the mouse jumped.
Moved(w, p, jump) ==
  LET bounds == [win[w] EXCEPT !.x = p[1], !.y = p[2]]
      side == [d \in Registered |-> SnapSide(bounds, win[d])]
      near == {d \in Registered : side[d] # "none" /\ (d = w => jump)}
      at == [d \in near |-> snapToWindow(bounds, win[d], side[d])]
      x == LastSet(at, 1)
      y == LastSet(at, 2)
      snapped == x # 0 \/ y # 0
      listed == (snaps \ UNION {Listed(w, d) : d \in Registered})
                \cup {<<w, d>> : d \in near}
  IN /\ win' = [win EXCEPT ![w] =
                  [@ EXCEPT !.x = IF x # 0 THEN x ELSE p[1],
                            !.y = IF y # 0 THEN y ELSE p[2],
                            !.range = range + IF Min(Registered) \in near
                                              THEN 10 ELSE 0]]
     /\ snaps' = IF snapped THEN StillSnapped(listed, win') ELSE listed

Drag(w, p) ==
  /\ Act
  /\ dragged \in {0, w} /\ w \in Popouts /\ ~IsGrouped(w)
  /\ <<win[w].x, win[w].y>> # p
  /\ dragged' = w
  /\ \E jump \in BOOLEAN : Moved(w, p, jump)
  /\ UNCHANGED <<groups, bus, marked, storage, place, ghost, restarts>>

\* Every listed pair is tried, in the order the names were first listed.
Release ==
  /\ dragged # 0
  /\ dragged' = 0
  /\ snaps' = {}
  /\ \E order \in SetToSeqs(snaps) : BecomesDesktop(JoinAll(Desktop, order))
  /\ UNCHANGED <<marked, place, acts, restarts>>
  /\ Haunt

\* A window that was docked under the mouse has a frame of its own again:
\* the events the manager listens to come no more.
ReleaseDocked ==
  /\ dragged # 0 /\ IsGrouped(dragged)
  /\ dragged' = 0
  /\ UNCHANGED <<win, groups, snaps, bus, marked, storage, place, ghost, acts, restarts>>

\* The desktop moves the windows of a group together.
DragGroup(w, p) ==
  /\ Act
  /\ dragged = 0 /\ w \in Popouts /\ IsGrouped(w)
  /\ win' = [v \in Opened |->
               IF \E g \in GroupsOf(w) : v \in Range(g) /\ v \in Registered
               THEN [win[v] EXCEPT !.x = @ + p[1] - win[w].x,
                                   !.y = @ + p[2] - win[w].y]
               ELSE win[v]]
  /\ UNCHANGED <<groups, snaps, dragged, bus, marked, storage, place, ghost, restarts>>

-----------------------------------------------------------------------------

Next ==
  \/ \E n \in Names : Open(n)
  \/ \E w \in Opened : CloseRequested(w)
  \/ \E w \in Opened : Closed(w)
  \/ \E w \in Opened : UndockTile(w)
  \/ \E w \in Opened, p \in Points : Drag(w, p)
  \/ \E w \in Opened, p \in Points : DragGroup(w, p)
  \/ Release
  \/ ReleaseDocked
  \/ Deliver
  \/ Restart

Spec == Init /\ [][Next]_vars

-----------------------------------------------------------------------------
(* Properties.                                                             *)

\* Types; a window is in one group at most.
DockingTypeOK ==
  /\ \A w \in Opened : win[w] \in [name : Names, phase : {"open", "closing", "closed"},
                                   waits : BOOLEAN, x : Int, y : Int, range : {40, 50}]
  /\ \A w \in Opened : Cardinality(GroupsOf(w)) <= 1
  /\ groups \subseteq Seq(Opened) /\ snaps \subseteq Opened \X Opened
  /\ dragged \in Opened \cup {0} /\ marked \subseteq Names
  /\ storage \in [Names -> Names \cup {NoName}]

\* A member of a group is not alone: the last one to stay is let go.  The
\* exception is a window that docked to itself: it was dragged farther than
\* its own size between two events, and snapped where coordinates are 0, which
\* the manager takes for unset (dockingManager.js:629-646).
NoLoneMember ==
  ~ghost => \A g \in groups : Len(g) = 1 => storage[NameOf(g[1])] = NameOf(g[1])

\* A group comes to hold a closed window in three ways only.  A member closes,
\* before the bus has brought its undocking or docked again since.  A window is
\* released when one of a listed pair has closed.  Or a window is announced: the
\* one that joins had closed before its announcement came, and until a restart
\* that takes a later window of its name that is docked; or, after a restart
\* only, the one it remembers has closed, which `_instances' still holds
\* (dockingManager.js:168-179).
MemberCloses ==
  \E w \in Opened : IsGrouped(w) /\ win[w].phase = "closing" /\ win'[w].phase = "closed"

ListedHasClosed ==
  /\ dragged # 0 /\ dragged' = 0
  /\ \E s \in snaps : \E w \in {s[1], s[2]} : win[w].phase = "closed"

ClosedIsAnnounced ==
  LET n == Head(bus)[2]
  IN /\ Head(bus)[1] = "load" /\ InstancesOf(storage[n]) # {}
     /\ \/ /\ \E w \in InstancesOf(n) : win[w].waits /\ win[w].phase = "closed"
           /\ restarts = 0 => IsGrouped(Max(InstancesOf(n)))
        \/ restarts > 0 /\ win[Max(InstancesOf(storage[n]))].phase = "closed"

HowClosedStays ==
  [][~ghost /\ ghost' => MemberCloses \/ ListedHasClosed \/ ClosedIsAnnounced]_vars

\* What is said of a docked window elsewhere agrees with the groups: when the
\* bus is empty a popout is marked just when it is in one, and until a restart
\* the local storage remembers only windows that are (dockingManager.js:349-376,
\* openfinPopoutService.js:85-92).
DockedIsTold ==
  ~ghost =>
    /\ bus = <<>> => \A w \in Popouts : NameOf(w) \in marked <=> IsGrouped(w)
    /\ restarts = 0 =>
         \A n \in Names : storage[n] # NoName => IsGrouped(Max(InstancesOf(n)))

\* Only the two windows a group began with may overlap, for want of a check
\* against a window alone (dockingManager.js:298-303); whatever is moved,
\* recovered or restored, the others are apart.
OnlyFoundersOverlap ==
  ~ghost => \A g \in groups : \A i \in 1..Len(g), j \in 3..Len(g) :
    i < j => ~intersact(win[g[i]], win[g[j]])

=============================================================================
