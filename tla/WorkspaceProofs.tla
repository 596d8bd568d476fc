--------------------------- MODULE WorkspaceProofs ---------------------------
(***************************************************************************)
(* For any number of pairs, panels, changes, losses of the stream and      *)
(* restarts: the tiles of the workspace follow the reference data, and     *)
(* every component has one place.  For any number of trades and of         *)
(* positions to close, with or without a limit checker: what one of the    *)
(* spot tiles shows and whether it is in flight.                           *)
(***************************************************************************)
EXTENDS Workspace, SpotTile, TLAPS

-----------------------------------------------------------------------------
(* Types.                                                                  *)

Place == [home : 0..2, away : 0..2, window : {"none", "opening", "open"}]

\* The parts of the type invariant that are inductive without the others.
Typed ==
  /\ desktop \in BOOLEAN /\ started \in BOOLEAN /\ loaded \in BOOLEAN
  /\ feed \in {"off", "on", "dead"}
  /\ enabled \subseteq Pairs /\ missed \subseteq Pairs
  /\ cache \subseteq Pairs /\ tiles \subseteq Pairs
  /\ Panels \cup tiles \subseteq registered /\ registered \subseteq Components
  /\ streams = [c \in Panels |-> IF loaded THEN 1 ELSE 0]
  /\ collapsed \in [Panels -> BOOLEAN]
  /\ saved \in [Components -> {"none", "home", "popout"}]

\* Whatever an update says, the types are kept.
LEMMA ReceiveTyped ==
  ASSUME Typed, NEW added \in SUBSET Pairs, NEW removed \in SUBSET Pairs,
         Receive(added, removed)
  PROVE  /\ feed' \in {"on", "dead"} /\ loaded' \in BOOLEAN
         /\ cache' \subseteq Pairs /\ tiles' \subseteq Pairs
         /\ Panels \cup tiles' \subseteq registered' /\ registered' \subseteq Components
         /\ streams' = [c \in Panels |-> IF loaded' THEN 1 ELSE 0]
         /\ collapsed' \in [Panels -> BOOLEAN] /\ saved' = saved
<1>1. cache' \subseteq Pairs
  BY DEF Receive, UpdateCache, Typed
<1>2. loaded' \in BOOLEAN /\ streams' = [c \in Panels |-> IF loaded' THEN 1 ELSE 0]
  <2>1. CASE loaded \/ added \cup removed = {}
    BY <2>1 DEF Receive, TellModels, Typed
  <2>2. CASE ~loaded /\ added \cup removed # {}
    <3>1. loaded' = TRUE /\ streams' = [c \in Panels |-> streams[c] + 1]
      BY <2>2 DEF Receive, TellModels
    <3>2. \A c \in Panels : streams[c] = 0
      BY <2>2 DEF Typed
    <3>3. streams' = [c \in Panels |-> 1]
      BY <3>1, <3>2
    <3> QED
      BY <3>1, <3>3
  <2> QED
    BY <2>1, <2>2
<1>3. CASE removed # {}
  <2>1. CloseTiles(removed) /\ feed' = "on"
    BY <1>3 DEF Receive, LoadTiles
  <2> QED
    BY <1>1, <1>2, <2>1 DEF CloseTiles, Typed
<1>4. CASE removed = {}
  <2>1. PICK new \in SUBSET Pairs : CreateTiles(new) /\ feed' \in {"on", "dead"}
    <3>1. NewTiles(added) \subseteq Pairs
      BY DEF NewTiles
    <3> QED
      BY <1>4, <3>1 DEF Receive, LoadTiles
  <2>2. tiles' = tiles \cup new /\ registered' = registered \cup new /\ saved' = saved
    BY <2>1 DEF CreateTiles, InitAll
  <2>3. collapsed' \in [Panels -> BOOLEAN]
    BY <2>1 DEF CreateTiles, InitAll, Typed, ShouldPopout
  <2> QED
    BY <1>1, <1>2, <2>1, <2>2, <2>3 DEF Typed, Components
<1> QED
  BY <1>3, <1>4

LEMMA TypedInit == Init => Typed
  BY DEF Init, Boot, Typed, Components

LEMMA TypedStep == Typed /\ [Next]_vars => Typed'
<1> SUFFICES ASSUME Typed, [Next]_vars PROVE Typed'
  OBVIOUS
<1>1. CASE Start
  BY <1>1 DEF Start, InitAll, Typed, pairVars, counters, ShouldPopout
<1>2. CASE Restart
  BY <1>2 DEF Restart, Typed, Components
<1>3. CASE SubscribeFeed
  BY <1>3, ReceiveTyped DEF SubscribeFeed, Typed
<1>4. CASE DropFeed
  BY <1>4 DEF DropFeed, Typed, placeVars
<1>5. ASSUME NEW p \in Pairs, ServerChanges(p) PROVE Typed'
  <2>1. enabled' \subseteq Pairs /\ missed' \subseteq Pairs
    BY <1>5 DEF ServerChanges, Typed
  <2>2. CASE feed = "on"
    <3>1. PICK added \in SUBSET Pairs, removed \in SUBSET Pairs : Receive(added, removed)
      BY <1>5, <2>2 DEF ServerChanges
    <3> QED
      BY <1>5, <2>1, <2>2, <3>1, ReceiveTyped DEF ServerChanges, Typed
  <2>3. CASE feed # "on"
    BY <1>5, <2>1, <2>3 DEF ServerChanges, Typed, placeVars
  <2> QED
    BY <2>2, <2>3
<1>6. ASSUME NEW c \in Components, PopOut(c) \/ WindowCreated(c) \/ ClosePopout(c)
      PROVE Typed'
  <2>1. CASE PopOut(c)
    BY <2>1 DEF PopOut, Save, Typed, pairVars, counters
  <2>2. CASE WindowCreated(c)
    BY <2>2 DEF WindowCreated, Typed, pairVars, counters
  <2>3. CASE ClosePopout(c)
    <3>1. collapsed' \in [Panels -> BOOLEAN]
      BY <2>3 DEF ClosePopout, Typed
    <3> QED
      BY <2>3, <3>1 DEF ClosePopout, Save, Typed, pairVars, counters
  <2> QED
    BY <1>6, <2>1, <2>2, <2>3
<1>7. ASSUME NEW c \in Sidebar, ToggleCollapsed(c) PROVE Typed'
  BY <1>7 DEF ToggleCollapsed, Typed, pairVars, counters
<1>8. CASE UNCHANGED vars
  BY <1>8 DEF vars, pairVars, placeVars, counters, Typed
<1> QED
  BY <1>1, <1>2, <1>3, <1>4, <1>5, <1>6, <1>7, <1>8 DEF Next

-----------------------------------------------------------------------------
(* Tiles and reference data.                                               *)

\* What holds of the cache while the stream is off lets it follow the server
\* again when the stream is back.
PairsInv ==
  /\ TilesMatchPairs
  /\ cache \ enabled \subseteq missed
  /\ feed = "on" => enabled \subseteq cache

\* An update that adds or removes, not both, keeps the tiles and the cache
\* together, unless it ends the stream.
LEMMA ReceiveKeepsTiles ==
  ASSUME Typed, TilesMatchPairs, feed # "dead",
         NEW added \in SUBSET Pairs, NEW removed \in SUBSET Pairs,
         added = {} \/ removed = {},
         Receive(added, removed)
  PROVE  TilesMatchPairs' /\ cache' = (cache \cup added) \ removed
<1>1. cache' = (cache \cup added) \ removed
  BY DEF Receive, UpdateCache
<1>2. CASE removed # {}
  BY <1>1, <1>2 DEF Receive, LoadTiles, CloseTiles, TilesMatchPairs
<1>3. CASE removed = {} /\ NewTiles(added) \cap registered = {}
  <2>1. CreateTiles(NewTiles(added)) /\ feed' = "on"
    BY <1>3 DEF Receive, LoadTiles
  <2> QED
    BY <1>1, <1>3, <2>1 DEF CreateTiles, NewTiles, TilesMatchPairs
<1>4. CASE removed = {} /\ NewTiles(added) \cap registered # {}
  <2>1. PICK new \in SUBSET (NewTiles(added) \ registered) :
          CreateTiles(new) /\ feed' = "dead"
    BY <1>4 DEF Receive, LoadTiles
  <2>2. PICK p \in NewTiles(added) : p \in registered
    BY <1>4
  <2>3. p \in cache' /\ p \in registered' \ tiles'
    BY <1>1, <1>4, <2>1, <2>2 DEF CreateTiles, NewTiles
  <2> QED
    BY <1>1, <2>1, <2>3 DEF TilesMatchPairs
<1> QED
  BY <1>1, <1>2, <1>3, <1>4

LEMMA PairsInvStep == Typed /\ PairsInv /\ [Next]_vars => PairsInv'
<1> SUFFICES ASSUME Typed, PairsInv, [Next]_vars PROVE PairsInv'
  OBVIOUS
<1>1. CASE SubscribeFeed
  <2>1. TilesMatchPairs' /\ cache' = cache \cup enabled
    <3>1. TilesMatchPairs /\ feed # "dead" /\ enabled \in SUBSET Pairs
          /\ Receive(enabled, {})
      BY <1>1 DEF SubscribeFeed, Typed, PairsInv
    <3> QED
      BY <3>1, ReceiveKeepsTiles
  <2> QED
    BY <1>1, <2>1 DEF SubscribeFeed, PairsInv
<1>2. ASSUME NEW p \in Pairs, ServerChanges(p) PROVE PairsInv'
  <2>1. CASE feed = "on"
    <3> DEFINE added == enabled' \ enabled
               removed == enabled \ enabled'
    <3>1. /\ enabled' = IF p \in enabled THEN enabled \ {p} ELSE enabled \cup {p}
          /\ missed' = IF p \in enabled THEN missed ELSE missed \ {p}
          /\ Receive(added, removed)
      BY <1>2, <2>1 DEF ServerChanges
    <3>2. added \in SUBSET Pairs /\ removed \in SUBSET Pairs
          /\ (added = {} \/ removed = {})
      BY <3>1 DEF Typed
    <3>3. TilesMatchPairs' /\ cache' = (cache \cup added) \ removed
      <4> HIDE DEF added, removed
      <4> QED
        BY <2>1, <3>1, <3>2, ReceiveKeepsTiles DEF PairsInv
    <3> QED
      BY <2>1, <3>1, <3>3 DEF PairsInv
  <2>2. CASE feed # "on"
    BY <1>2, <2>2 DEF ServerChanges, PairsInv, TilesMatchPairs
  <2> QED
    BY <2>1, <2>2
<1>3. CASE Start
  BY <1>3 DEF Start, pairVars, PairsInv, TilesMatchPairs
<1>4. CASE Restart
  BY <1>4 DEF Restart, PairsInv, TilesMatchPairs
<1>5. CASE DropFeed
  BY <1>5 DEF DropFeed, PairsInv, TilesMatchPairs
<1>6. ASSUME NEW c \in Components, PopOut(c) \/ WindowCreated(c) \/ ClosePopout(c)
      PROVE PairsInv'
  BY <1>6 DEF PopOut, WindowCreated, ClosePopout, pairVars, PairsInv, TilesMatchPairs
<1>7. ASSUME NEW c \in Sidebar, ToggleCollapsed(c) PROVE PairsInv'
  BY <1>7 DEF ToggleCollapsed, pairVars, PairsInv, TilesMatchPairs
<1>8. CASE UNCHANGED vars
  BY <1>8 DEF vars, pairVars, PairsInv, TilesMatchPairs
<1> QED
  BY <1>1, <1>2, <1>3, <1>4, <1>5, <1>6, <1>7, <1>8 DEF Next

LEMMA PairsInvariant == Spec => []PairsInv
<1>1. Init => PairsInv
  BY DEF Init, Boot, PairsInv, TilesMatchPairs
<1> QED
  BY <1>1, TypedInit, TypedStep, PairsInvStep, PTL DEF Spec

\* The workspace has a tile for every pair the client knows and for no other.
THEOREM TilesFollowServer == Spec => []TilesMatchPairs
<1>1. PairsInv => TilesMatchPairs
  BY DEF PairsInv
<1> QED
  BY <1>1, PairsInvariant, PTL

\* The pairs the client knows follow the server, through every reconnection.
THEOREM PairsFollowServer == Spec => []CacheFollowsServer
<1>1. PairsInv => CacheFollowsServer
  BY DEF PairsInv, CacheFollowsServer
<1> QED
  BY <1>1, PairsInvariant, PTL

-----------------------------------------------------------------------------
(* Places.                                                                 *)

\* A component: its place, how often it was initialised, whether it is saved
\* as popped out, and whether it is still part of the workspace.
Placed(w, n, popped, kept) ==
  /\ w \in Place
  /\ n \in 0..2
  /\ w.home + w.away <= n
  /\ n = 0 => w = Nowhere
  /\ n = 1 =>
       /\ w.away = (IF w.window = "none" THEN 0 ELSE 1)
       /\ kept => w.home + w.away = 1
       /\ desktop => (popped = (w.away > 0))

Kept(c) == c \notin Pairs \ tiles

\* Only what the router holds has been initialised, and before the event
\* `init' only the tiles, once: a tile comes new to the workspace.
PlaceInv ==
  /\ place \in [Components -> Place] /\ inits \in [Components -> 0..2]
  /\ \A c \in Components : Placed(place[c], inits[c], ShouldPopout(c), Kept(c))
  /\ \A c \in Components \ registered : inits[c] = 0
  /\ ~started => \A c \in Components : inits[c] <= (IF c \in Panels THEN 0 ELSE 1)

\* A component that is initialised is placed, where it was saved.
LEMMA InitialisedIsPlaced ==
  ASSUME NEW c \in Components, NEW w, NEW n \in 0..1, NEW popped \in BOOLEAN,
         NEW kept \in BOOLEAN, Placed(w, n, popped, kept)
  PROVE  LET v == IF popped THEN PoppedOut(AtHome(c, w)) ELSE AtHome(c, w)
         IN  Placed(v, n + 1, popped, TRUE)
<1>1. PICK h \in 0..2, a \in 0..2, x \in {"none", "opening", "open"} :
        w = [home |-> h, away |-> a, window |-> x]
  BY DEF Placed, Place
<1>2. h + a <= n /\ (n = 0 => h = 0 /\ a = 0 /\ x = "none")
  BY <1>1 DEF Placed, Nowhere
<1> DEFINE g == IF c \in Panels THEN 1 ELSE h + 1
           y == IF x # "none" THEN x ELSE IF desktop THEN "opening" ELSE "open"
<1>3. AtHome(c, w) = [home |-> g, away |-> a, window |-> x]
  BY <1>1 DEF AtHome
<1>4. PoppedOut(AtHome(c, w)) = [home |-> 0, away |-> a + 1, window |-> y]
  <2> HIDE DEF g
  <2> QED
    BY <1>3 DEF PoppedOut
<1>5. CASE popped
  <2>1. y \in {"opening", "open"}
    OBVIOUS
  <2>2. a + 1 \in 1..2 /\ a + 1 <= n + 1 /\ (n = 0 => a = 0)
    BY <1>2
  <2> HIDE DEF y
  <2>3. Placed([home |-> 0, away |-> a + 1, window |-> y], n + 1, TRUE, TRUE)
    BY <2>1, <2>2 DEF Placed, Place
  <2>4. popped = TRUE
    BY <1>5
  <2> QED
    BY <1>4, <1>5, <2>3, <2>4
<1>6. CASE ~popped
  <2>1. g \in 1..2 /\ g + a <= n + 1 /\ (n = 0 => g = 1)
    BY <1>2
  <2> HIDE DEF g
  <2> QED
    BY <1>2, <1>3, <1>6, <2>1 DEF Placed, Place
<1> QED
  BY <1>5, <1>6

\* Initialising components, none of them a second time unless it may be.
LEMMA InitAllKeepsPlaces ==
  ASSUME Typed, PlaceInv, NEW C \in SUBSET Components, InitAll(C),
         \A c \in C : inits[c] <= 1, desktop' = desktop,
         \A c \in Components \ C : Kept(c)' => Kept(c)
  PROVE  /\ place' \in [Components -> Place] /\ inits' \in [Components -> 0..2]
         /\ \A c \in Components :
              /\ inits'[c] = inits[c] + IF c \in C THEN 1 ELSE 0
              /\ Placed(place[c], inits[c], ShouldPopout(c), Kept(c))'
<1>1. /\ saved' = saved
      /\ \A c \in Components : inits'[c] = inits[c] + IF c \in C THEN 1 ELSE 0
      /\ \A c \in Components : place'[c] =
           IF c \notin C THEN place[c]
           ELSE IF ShouldPopout(c) THEN PoppedOut(AtHome(c, place[c]))
           ELSE AtHome(c, place[c])
      /\ place' = [c \in Components |-> place'[c]]
      /\ inits' = [c \in Components |-> inits'[c]]
  <2>1. /\ saved' = saved
        /\ inits' = [c \in Components |-> inits[c] + IF c \in C THEN 1 ELSE 0]
        /\ place' = [c \in Components |->
             IF c \notin C THEN place[c]
             ELSE IF ShouldPopout(c) THEN PoppedOut(AtHome(c, place[c]))
             ELSE AtHome(c, place[c])]
    BY DEF InitAll
  <2>2. inits' = [c \in Components |-> inits'[c]]
    BY <2>1
  <2>3. place' = [c \in Components |-> place'[c]]
    BY <2>1
  <2> QED
    BY <2>1, <2>2, <2>3
<1>2. ASSUME NEW c \in Components
      PROVE  Placed(place[c], inits[c], ShouldPopout(c), Kept(c))'
  <2>1. Placed(place[c], inits[c], ShouldPopout(c), Kept(c)) /\ inits[c] \in 0..2
    BY DEF PlaceInv
  <2>2. CASE c \in C
    <3>1. Placed(place'[c], inits[c] + 1, ShouldPopout(c), TRUE)
      <4>1. inits[c] \in 0..1 /\ ShouldPopout(c) \in BOOLEAN /\ Kept(c) \in BOOLEAN
        BY <2>1, <2>2 DEF ShouldPopout, Kept
      <4>2. place'[c] = IF ShouldPopout(c) THEN PoppedOut(AtHome(c, place[c]))
                        ELSE AtHome(c, place[c])
        BY <1>1, <2>2
      <4> QED
        BY <2>1, <4>1, <4>2, InitialisedIsPlaced
    <3>2. inits'[c] = inits[c] + 1
      BY <1>1, <2>2
    <3> QED
      BY <1>1, <3>1, <3>2 DEF Placed, ShouldPopout
  <2>3. CASE c \notin C
    <3>1. place'[c] = place[c] /\ inits'[c] = inits[c] /\ (Kept(c)' => Kept(c))
      BY <1>1, <2>1, <2>3
    <3> QED
      BY <1>1, <2>1, <3>1 DEF Placed, ShouldPopout
  <2> QED
    BY <2>2, <2>3
<1>3. place' \in [Components -> Place] /\ inits' \in [Components -> 0..2]
  BY <1>1, <1>2 DEF Placed
<1> QED
  BY <1>1, <1>2, <1>3

LEMMA CreateTilesKeepsPlaces ==
  ASSUME Typed, PlaceInv, NEW new \in SUBSET Pairs, CreateTiles(new),
         new \cap registered = {}, UNCHANGED <<desktop, started>>
  PROVE  PlaceInv'
<1>1. InitAll(new) /\ tiles' = tiles \cup new /\ registered' = registered \cup new
  BY DEF CreateTiles
<1>2. new \in SUBSET Components /\ \A c \in new : inits[c] = 0 /\ c \notin Panels
  BY WorkspaceAssumption DEF PlaceInv, Components
<1>3. \A c \in Components \ new : Kept(c)' => Kept(c)
  BY <1>1 DEF Kept
<1>4. /\ place' \in [Components -> Place] /\ inits' \in [Components -> 0..2]
      /\ \A c \in Components :
           /\ inits'[c] = inits[c] + IF c \in new THEN 1 ELSE 0
           /\ Placed(place[c], inits[c], ShouldPopout(c), Kept(c))'
  BY <1>1, <1>2, <1>3, InitAllKeepsPlaces
<1>5. \A c \in Components \ registered' : inits'[c] = 0
  BY <1>1, <1>4 DEF PlaceInv
<1>6. ~started' => \A c \in Components : inits'[c] <= (IF c \in Panels THEN 0 ELSE 1)
  BY <1>2, <1>4 DEF PlaceInv
<1> QED
  BY <1>4, <1>5, <1>6 DEF PlaceInv

LEMMA CloseTilesKeepsPlaces ==
  ASSUME Typed, PlaceInv, NEW removed \in SUBSET Pairs, CloseTiles(removed),
         UNCHANGED <<desktop, started>>
  PROVE  PlaceInv'
<1>1. /\ \A c \in Components : place'[c] =
           IF c \in removed \cap tiles THEN LeftHome(place[c]) ELSE place[c]
      /\ place' = [c \in Components |-> place'[c]]
      /\ inits' = inits /\ saved' = saved /\ registered' = registered
      /\ tiles' = tiles \ removed
  BY DEF CloseTiles
<1>2. ASSUME NEW c \in Components
      PROVE  Placed(place[c], inits[c], ShouldPopout(c), Kept(c))'
  <2>1. Placed(place[c], inits[c], ShouldPopout(c), Kept(c))
    BY DEF PlaceInv
  <2>2. CASE c \in removed \cap tiles
    <3>1. place'[c] = LeftHome(place[c]) /\ ~Kept(c)'
      BY <1>1, <2>2 DEF Kept, Typed
    <3> QED
      BY <1>1, <2>1, <3>1 DEF Placed, Place, LeftHome, Nowhere, ShouldPopout
  <2>3. CASE c \notin removed \cap tiles
    <3>1. place'[c] = place[c] /\ Kept(c)' = Kept(c)
      BY <1>1, <2>3 DEF Kept
    <3> QED
      BY <1>1, <2>1, <3>1 DEF Placed, ShouldPopout
  <2> QED
    BY <2>2, <2>3
<1> QED
  BY <1>1, <1>2 DEF PlaceInv, Placed

LEMMA ReceiveKeepsPlaces ==
  ASSUME Typed, PlaceInv, NEW added \in SUBSET Pairs, NEW removed \in SUBSET Pairs,
         Receive(added, removed), UNCHANGED <<desktop, started>>
  PROVE  PlaceInv'
<1>1. CASE removed # {}
  BY <1>1, CloseTilesKeepsPlaces DEF Receive, LoadTiles
<1>2. CASE removed = {}
  <2>1. PICK new \in SUBSET Pairs : CreateTiles(new) /\ new \cap registered = {}
    <3>1. NewTiles(added) \subseteq Pairs
      BY DEF NewTiles
    <3> QED
      BY <1>2, <3>1 DEF Receive, LoadTiles
  <2> QED
    BY <2>1, CreateTilesKeepsPlaces
<1> QED
  BY <1>1, <1>2

\* The place of one component changes, and with it what is saved of it.
LEMMA MoveKeepsPlaces ==
  ASSUME PlaceInv, NEW c \in Components,
         NEW w, Placed(w, inits[c], ShouldPopout(c)', Kept(c)),
         place' = [place EXCEPT ![c] = w],
         \A d \in Components \ {c} : saved'[d] = saved[d],
         UNCHANGED <<desktop, started, tiles, registered, inits>>
  PROVE  PlaceInv'
<1>1. ASSUME NEW d \in Components
      PROVE  Placed(place[d], inits[d], ShouldPopout(d), Kept(d))'
  <2>1. CASE d = c
    BY <2>1 DEF PlaceInv, Placed, Kept
  <2>2. CASE d # c
    BY <2>2 DEF PlaceInv, Placed, Kept, ShouldPopout
  <2> QED
    BY <2>1, <2>2
<1> QED
  BY <1>1 DEF PlaceInv, Placed

\* A component that is visible is popped out, one whose window is open goes
\* back: it had one place before and has one after.
LEMMA PoppedOutIsPlaced ==
  ASSUME NEW w, NEW n, NEW popped, NEW kept, Placed(w, n, popped, kept), w.home > 0,
         NEW p \in BOOLEAN, desktop => p
  PROVE  Placed(PoppedOut(w), n, p, kept)
<1>1. /\ w.home \in 1..2 /\ w.away \in 0..2 /\ w.home + w.away <= n /\ n \in 1..2
      /\ w.window \in {"none", "opening", "open"}
      /\ n = 1 => w.away = 0 /\ w.home = 1
  BY DEF Placed, Place, Nowhere
<1>2. PICK v \in {"opening", "open"} :
        PoppedOut(w) = [home |-> 0, away |-> w.away + 1, window |-> v]
  BY <1>1 DEF PoppedOut
<1>3. CASE desktop
  <2>1. p = TRUE
    BY <1>3
  <2>2. Placed([home |-> 0, away |-> w.away + 1, window |-> v], n, TRUE, kept)
    BY <1>1, <1>3 DEF Placed, Place
  <2> QED
    BY <1>2, <2>1, <2>2
<1>4. CASE ~desktop
  BY <1>1, <1>2, <1>4 DEF Placed, Place
<1> QED
  BY <1>3, <1>4

LEMMA BackHomeIsPlaced ==
  ASSUME NEW c, NEW w, NEW n, NEW popped, NEW kept, Placed(w, n, popped, kept),
         w.window = "open", NEW p \in BOOLEAN, desktop => ~p
  PROVE  Placed(BackHome(c, w), n, p, kept)
<1>1. /\ w.home \in 0..2 /\ w.away \in 0..2 /\ w.home + w.away <= n /\ n \in 1..2
      /\ n = 1 => w.away = 1 /\ w.home = 0
  BY DEF Placed, Place, Nowhere
<1>2. PICK h \in 0..n : BackHome(c, w) = [home |-> h, away |-> 0, window |-> "none"]
                        /\ (n = 1 => h = 1)
  <2> DEFINE h == IF w.away = 0 THEN w.home
                  ELSE IF c \in Panels THEN 1 ELSE w.home + w.away
  <2>1. h \in 0..n /\ (n = 1 => h = 1)
    BY <1>1
  <2>2. BackHome(c, w) = [home |-> h, away |-> 0, window |-> "none"]
    BY DEF BackHome, Nowhere
  <2> QED
    BY <2>1, <2>2
<1>3. CASE desktop
  <2>1. p = FALSE
    BY <1>3
  <2>2. Placed([home |-> h, away |-> 0, window |-> "none"], n, FALSE, kept)
    BY <1>1, <1>2, <1>3 DEF Placed, Place
  <2> QED
    BY <1>2, <2>1, <2>2
<1>4. CASE ~desktop
  BY <1>1, <1>2, <1>4 DEF Placed, Place
<1> QED
  BY <1>3, <1>4

LEMMA PlaceInvInit == Init => PlaceInv
<1> SUFFICES ASSUME Init PROVE PlaceInv
  OBVIOUS
<1>1. \A c \in Components : place[c] = Nowhere /\ inits[c] = 0
  BY DEF Init, Boot
<1>2. \A c \in Components : Placed(place[c], inits[c], ShouldPopout(c), Kept(c))
  BY <1>1 DEF Placed, Place, Nowhere
<1>3. place \in [Components -> Place] /\ inits \in [Components -> 0..2]
  BY DEF Init, Boot, Place, Nowhere
<1> QED
  BY <1>1, <1>2, <1>3 DEF PlaceInv, Init, Boot

LEMMA PlaceInvStep == Typed /\ PlaceInv /\ [Next]_vars => PlaceInv'
<1> SUFFICES ASSUME Typed, PlaceInv, [Next]_vars PROVE PlaceInv'
  OBVIOUS
<1>1. CASE Start
  <2>1. /\ InitAll(registered) /\ ~started /\ started' = TRUE
        /\ UNCHANGED <<desktop, tiles, registered>>
    BY <1>1 DEF Start, pairVars
  <2>2. registered \in SUBSET Components /\ \A c \in registered : inits[c] <= 1
    BY <2>1 DEF Typed, PlaceInv, Components
  <2>3. \A c \in Components \ registered : Kept(c)' => Kept(c)
    BY <2>1 DEF Kept
  <2>4. /\ place' \in [Components -> Place] /\ inits' \in [Components -> 0..2]
        /\ \A c \in Components :
             /\ inits'[c] = inits[c] + IF c \in registered THEN 1 ELSE 0
             /\ Placed(place[c], inits[c], ShouldPopout(c), Kept(c))'
    BY <2>1, <2>2, <2>3, InitAllKeepsPlaces
  <2> QED
    BY <2>1, <2>4 DEF PlaceInv
<1>2. CASE Restart
  <2>1. /\ place' = [c \in Components |-> Nowhere]
        /\ inits' = [c \in Components |-> 0]
    BY <1>2 DEF Restart
  <2>2. ASSUME NEW c \in Components
        PROVE  Placed(place[c], inits[c], ShouldPopout(c), Kept(c))'
    BY <2>1 DEF Placed, Place, Nowhere
  <2>3. place' \in [Components -> Place] /\ inits' \in [Components -> 0..2]
    BY <2>1 DEF Place, Nowhere
  <2> QED
    BY <2>1, <2>2, <2>3 DEF PlaceInv
<1>3. CASE SubscribeFeed
  <2>1. Receive(enabled, {}) /\ UNCHANGED <<desktop, started>> /\ enabled \in SUBSET Pairs
    BY <1>3 DEF SubscribeFeed, Typed
  <2> QED
    BY <2>1, ReceiveKeepsPlaces
<1>4. ASSUME NEW p \in Pairs, ServerChanges(p) PROVE PlaceInv'
  <2>1. CASE feed = "on"
    <3>1. /\ Receive(enabled' \ enabled, enabled \ enabled')
          /\ UNCHANGED <<desktop, started>>
          /\ enabled' \ enabled \in SUBSET Pairs /\ enabled \ enabled' \in SUBSET Pairs
      BY <1>4, <2>1 DEF ServerChanges, Typed
    <3> QED
      BY <3>1, ReceiveKeepsPlaces
  <2>2. CASE feed # "on"
    BY <1>4, <2>2 DEF ServerChanges, placeVars, PlaceInv, Placed, ShouldPopout, Kept
  <2> QED
    BY <2>1, <2>2
<1>5. CASE DropFeed
  BY <1>5 DEF DropFeed, placeVars, PlaceInv, Placed, ShouldPopout, Kept
<1>6. ASSUME NEW c \in Components, PopOut(c) PROVE PlaceInv'
  <2>1. /\ place[c].home > 0 /\ place' = [place EXCEPT ![c] = PoppedOut(place[c])]
        /\ saved' = IF desktop THEN [saved EXCEPT ![c] = "popout"] ELSE saved
        /\ UNCHANGED <<desktop, started, tiles, registered, inits>>
    BY <1>6 DEF PopOut, Displayed, Save, pairVars
  <2>2. desktop => ShouldPopout(c)'
    BY <2>1 DEF ShouldPopout, Typed
  <2>3. ShouldPopout(c)' \in BOOLEAN
    BY DEF ShouldPopout
  <2>4. Placed(PoppedOut(place[c]), inits[c], ShouldPopout(c)', Kept(c))
    BY <2>1, <2>2, <2>3, PoppedOutIsPlaced DEF PlaceInv
  <2>5. \A d \in Components \ {c} : saved'[d] = saved[d]
    BY <2>1 DEF Typed
  <2> QED
    BY <2>1, <2>4, <2>5, MoveKeepsPlaces
<1>7. ASSUME NEW c \in Components, WindowCreated(c) PROVE PlaceInv'
  <2> DEFINE w == [place[c] EXCEPT !.window = "open"]
  <2>1. /\ place[c].window = "opening" /\ place' = [place EXCEPT ![c] = w]
        /\ UNCHANGED <<desktop, started, tiles, registered, inits, saved>>
    BY <1>7 DEF WindowCreated, pairVars
  <2>2. Placed(place[c], inits[c], ShouldPopout(c), Kept(c))
    BY DEF PlaceInv
  <2>3. Placed(w, inits[c], ShouldPopout(c), Kept(c))
    <3>1. PICK h \in 0..2, a \in 0..2 :
            place[c] = [home |-> h, away |-> a, window |-> "opening"]
      BY <2>1, <2>2 DEF Placed, Place
    <3>2. w = [home |-> h, away |-> a, window |-> "open"]
      BY <3>1
    <3> QED
      BY <2>2, <3>1, <3>2 DEF Placed, Place, Nowhere
  <2>4. ShouldPopout(c)' = ShouldPopout(c)
    BY <2>1 DEF ShouldPopout
  <2> QED
    BY <2>1, <2>3, <2>4, MoveKeepsPlaces
<1>8. ASSUME NEW c \in Components, ClosePopout(c) PROVE PlaceInv'
  <2>1. /\ place[c].window = "open"
        /\ place' = [place EXCEPT ![c] = BackHome(c, place[c])]
        /\ saved' = IF desktop THEN [saved EXCEPT ![c] = "home"] ELSE saved
        /\ UNCHANGED <<desktop, started, tiles, registered, inits>>
    BY <1>8 DEF ClosePopout, Save, pairVars
  <2>2. desktop => ~ShouldPopout(c)'
    BY <2>1 DEF ShouldPopout, Typed
  <2>3. ShouldPopout(c)' \in BOOLEAN
    BY DEF ShouldPopout
  <2>4. Placed(BackHome(c, place[c]), inits[c], ShouldPopout(c)', Kept(c))
    BY <2>1, <2>2, <2>3, BackHomeIsPlaced DEF PlaceInv
  <2>5. \A d \in Components \ {c} : saved'[d] = saved[d]
    BY <2>1 DEF Typed
  <2> QED
    BY <2>1, <2>4, <2>5, MoveKeepsPlaces
<1>9. ASSUME NEW c \in Sidebar, ToggleCollapsed(c) PROVE PlaceInv'
  BY <1>9 DEF ToggleCollapsed, pairVars, PlaceInv, Placed, ShouldPopout, Kept
<1>10. CASE UNCHANGED vars
  BY <1>10 DEF vars, pairVars, placeVars, PlaceInv, Placed, ShouldPopout, Kept
<1> QED
  BY <1>1, <1>2, <1>3, <1>4, <1>5, <1>6, <1>7, <1>8, <1>9, <1>10 DEF Next

\* Every variable keeps its type, a component is initialised twice at most,
\* and a panel subscribes to its service once.
THEOREM WorkspaceTypeCorrect == Spec => []WorkspaceTypeOK
<1>1. Typed /\ PlaceInv => WorkspaceTypeOK
  BY DEF Typed, PlaceInv, Place, WorkspaceTypeOK
<1> QED
  BY <1>1, TypedInit, TypedStep, PlaceInvInit, PlaceInvStep, PTL DEF Spec

\* A component that was initialised once has one place, the one it is saved
\* with, whatever is removed, popped out and closed, and across restarts.
THEOREM EachHasOnePlace == Spec => []ShownOnceAsSaved
<1>1. PlaceInv => ShownOnceAsSaved
  <2> SUFFICES ASSUME PlaceInv, NEW c \in Components, inits[c] = 1
      PROVE  /\ place[c].away = (IF place[c].window = "none" THEN 0 ELSE 1)
             /\ IF c \in Pairs \ tiles THEN place[c].home + place[c].away <= 1
                ELSE place[c].home + place[c].away = 1
             /\ desktop => (saved[c] = "popout") = (place[c].away > 0)
    BY DEF ShownOnceAsSaved
  <2>1. Placed(place[c], inits[c], ShouldPopout(c), Kept(c))
    BY DEF PlaceInv
  <2> QED
    BY <2>1 DEF Placed, Kept, ShouldPopout
<1> QED
  BY <1>1, TypedInit, TypedStep, PlaceInvInit, PlaceInvStep, PTL DEF Spec

-----------------------------------------------------------------------------
(* A spot tile.                                                            *)

(***************************************************************************)
(* The four facts are inductive together: an answer reaches the tile only  *)
(* from the execution it holds, which is a ticket in flight exactly until  *)
(* its first report; the types say which notices can be there at all.      *)
(***************************************************************************)
TileInv ==
  /\ TileTypeOK
  /\ NoticeOfLastTicket
  /\ InFlightUntilReported
  /\ WarnsWhenPricingDown

\* A new tile has executed nothing and warns of pricing as it finds it.
LEMMA TileInvInit == TileInit => TileInv
<1> SUFFICES ASSUME TileInit PROVE TileInv
  OBVIOUS
<1> USE TileAssumption DEF TileInit, Updated, NoNotice, Text, Trade
<1>1. TileTypeOK
  BY DEF TileTypeOK, Executions
<1>2. NoticeOfLastTicket /\ InFlightUntilReported /\ WarnsWhenPricingDown
  BY DEF NoticeOfLastTicket, InFlightUntilReported, WarnsWhenPricingDown
<1> QED
  BY <1>1, <1>2 DEF TileInv

\* The report of the execution the tile holds keeps the invariant, whatever
\* the report, if the stream of the execution moves on past it.
LEMMA ReportKeepsTileInv ==
  ASSUME TileInv, NEW r \in Executions, NEW result \in Results,
         NEW stage \in {"refused", "warned", "ended"},
         Held(r), Response(r, result), At(r, stage),
         stage = "refused" <=> request[r] = "limit",
         request[r] \in {"limit", "sent", "warned"},
         UNCHANGED <<priceVars, held, server>>
  PROVE  TileInv'
<1> USE TileAssumption
    DEF TileInv, Held, At, priceVars, tileVars, Executions
<1>1. CASE r \in Closes
  <2>1. UNCHANGED tileVars /\ r \notin Tickets
    BY <1>1 DEF Response
  <2>2. TileTypeOK'
    BY <2>1 DEF TileTypeOK
  <2>3. (NoticeOfLastTicket /\ InFlightUntilReported /\ WarnsWhenPricingDown)'
    BY <2>1 DEF NoticeOfLastTicket, InFlightUntilReported, WarnsWhenPricingDown
  <2> QED
    BY <2>2, <2>3
<1>2. CASE r \in Tickets
  <2>1. /\ inFlight' = FALSE
        /\ notice' = Trade(r, result)
        /\ dismissTimer' \in BOOLEAN
    BY <1>2 DEF Response, TileTypeOK
  <2>2. TileTypeOK'
    BY <1>2, <2>1 DEF TileTypeOK
  <2>3. NoticeOfLastTicket'
    BY <2>1 DEF NoticeOfLastTicket, Trade
  <2>4. InFlightUntilReported'
    BY <2>1 DEF InFlightUntilReported, TileTypeOK
  <2>5. WarnsWhenPricingDown'
    BY <2>1 DEF WarnsWhenPricingDown, Trade
  <2> QED
    BY <2>2, <2>3, <2>4, <2>5
<1> QED
  BY <1>1, <1>2

\* Every step keeps the invariant.
LEMMA TileInvStep == TileInv /\ [TileNext]_spotTileVars => TileInv'
<1> SUFFICES ASSUME TileInv, [TileNext]_spotTileVars PROVE TileInv'
  OBVIOUS
<1> USE TileAssumption DEF TileInv
<1> DEFINE Inv == NoticeOfLastTicket /\ InFlightUntilReported /\ WarnsWhenPricingDown
<1>1. ASSUME NEW t \in Tickets, Execute(t) PROVE TileInv'
  <2>1. TileTypeOK'
    BY <1>1 DEF Execute, Begin, Send, At, Serve, priceVars, TileTypeOK, Executions
  <2>2. Inv'
    BY <1>1 DEF Execute, Begin, Send, At, Serve, priceVars, TileTypeOK, Executions,
       NoNotice, Text, NoticeOfLastTicket, InFlightUntilReported, WarnsWhenPricingDown
  <2> QED
    BY <2>1, <2>2
<1>2. ASSUME NEW c \in Closes, ClosePosition(c) PROVE TileInv'
  <2>1. TileTypeOK'
    BY <1>2 DEF ClosePosition, Begin, Send, At, Serve, tileVars, priceVars,
       TileTypeOK, Executions
  <2>2. Inv'
    BY <1>2 DEF ClosePosition, Begin, tileVars, priceVars, NoticeOfLastTicket,
       InFlightUntilReported, WarnsWhenPricingDown
  <2> QED
    BY <2>1, <2>2
<1>3. ASSUME NEW r \in Executions, ServerExecutes(r) PROVE TileInv'
  <2>1. TileTypeOK'
    BY <1>3 DEF ServerExecutes, Serve, tileVars, priceVars, TileTypeOK, Executions
  <2>2. Inv'
    BY <1>3 DEF ServerExecutes, tileVars, priceVars, NoticeOfLastTicket,
       InFlightUntilReported, WarnsWhenPricingDown
  <2> QED
    BY <2>1, <2>2
<1>4. ASSUME NEW r \in Executions, LimitAnswer(r) PROVE TileInv'
  <2>1. CASE Send(r) /\ UNCHANGED tileVars
    <3>1. TileTypeOK'
      BY <1>4, <2>1 DEF LimitAnswer, Send, At, Serve, tileVars, priceVars,
         TileTypeOK, Executions
    <3>2. Inv'
      BY <1>4, <2>1 DEF LimitAnswer, Held, Send, At, tileVars, priceVars, TileTypeOK,
         Executions, NoticeOfLastTicket, InFlightUntilReported, WarnsWhenPricingDown
    <3> QED
      BY <3>1, <3>2
  <2>2. CASE At(r, "refused") /\ Response(r, "error") /\ UNCHANGED server
    BY <1>4, <2>2, ReportKeepsTileInv DEF LimitAnswer, Results
  <2> QED
    BY <1>4, <2>1, <2>2 DEF LimitAnswer
<1>5. ASSUME NEW r \in Executions, Answer(r) PROVE TileInv'
  BY <1>5, ReportKeepsTileInv DEF Answer, Results
<1>6. ASSUME NEW r \in Executions, ClientTimeout(r) PROVE TileInv'
  BY <1>6, ReportKeepsTileInv DEF ClientTimeout, Results
<1>7. ASSUME NEW r \in Executions, RequestTimeout(r) PROVE TileInv'
  BY <1>7, ReportKeepsTileInv DEF RequestTimeout, Results
<1>8. ASSUME NEW r \in Executions, OperationFails(r) PROVE TileInv'
  BY <1>8, ReportKeepsTileInv DEF OperationFails, Results
<1>9. ASSUME UserDismisses \/ DismissTimeout PROVE TileInv'
  <2>1. TileTypeOK'
    BY <1>9 DEF UserDismisses, DismissTimeout, Dismiss, Updated, NoNotice, Text,
       priceVars, tradeVars, TileTypeOK
  <2>2. Inv'
    BY <1>9 DEF UserDismisses, DismissTimeout, Dismiss, Updated, NoNotice, Text,
       priceVars, tradeVars, TileTypeOK, NoticeOfLastTicket, InFlightUntilReported,
       WarnsWhenPricingDown
  <2> QED
    BY <2>1, <2>2
<1>10. ASSUME PriceArrives \/ PriceGoesStale \/ StatusChanges PROVE TileInv'
  <2> USE DEF PriceArrives, PriceGoesStale, StatusChanges, Updated, tradeVars
  <2>1. TileTypeOK'
    BY <1>10 DEF TileTypeOK
  <2>2. Inv'
    BY <1>10 DEF NoNotice, Text, TileTypeOK, NoticeOfLastTicket,
       InFlightUntilReported, WarnsWhenPricingDown
  <2> QED
    BY <2>1, <2>2
<1>11. ASSUME UNCHANGED spotTileVars PROVE TileInv'
  BY <1>11 DEF spotTileVars, tileVars, priceVars, tradeVars, TileTypeOK, NoticeOfLastTicket,
     InFlightUntilReported, WarnsWhenPricingDown
<1> QED
  BY <1>1, <1>2, <1>3, <1>4, <1>5, <1>6, <1>7, <1>8, <1>9, <1>10, <1>11 DEF TileNext

\* The server knows of an execution just when it was sent, never of one that
\* the limit checker refused, and the tile keeps its types.
THEOREM TileTypeCorrect == TileSpec => []TileTypeOK
<1>1. TileInv => TileTypeOK
  BY DEF TileInv
<1> QED
  BY <1>1, TileInvInit, TileInvStep, PTL DEF TileSpec

\* A tile reports its last trade and no earlier one, and is in flight just
\* until it does.
THEOREM TileReportsItsTrade == TileSpec => []ReportsLastTicket
<1>1. TileInv => ReportsLastTicket
  BY DEF TileInv, ReportsLastTicket
<1> QED
  BY <1>1, TileInvInit, TileInvStep, PTL DEF TileSpec

\* A tile warns of pricing exactly when pricing is unavailable.
THEOREM TileWarns == TileSpec => []WarnsWhenPricingDown
<1>1. TileInv => WarnsWhenPricingDown
  BY DEF TileInv
<1> QED
  BY <1>1, TileInvInit, TileInvStep, PTL DEF TileSpec
=============================================================================
