------------------------------ MODULE Workspace ------------------------------
(***************************************************************************)
(* The window of the client: the currency pairs it knows                   *)
(* (referenceDataService.js), the tile of each of them                     *)
(* (spotTileLoader.js), the panels that are always there (blotter and      *)
(* analytics), and the place of each: the region it belongs to, or a       *)
(* window of its own (regionModel.js, regionManagerHelper.js, the popout   *)
(* services).  Where a component was is kept in the local storage of the   *)
(* desktop, which survives the application.                                *)
(*                                                                         *)
(* A handler of the router runs to its end.  On the desktop the event      *)
(* `init' waits for the desktop's API and a window is created              *)
(* asynchronously; in a browser both happen at once.                       *)
(***************************************************************************)
EXTENDS Naturals

CONSTANTS
  Pairs,        \* currency pairs; also their tiles
  Panels,       \* the components of single-item regions
  Sidebar,      \* those whose region has a button to collapse it
  MaxChanges,   \* bound on the changes of currency pairs at the server
  MaxDrops,     \* bound on the losses of the reference data stream
  MaxRestarts   \* bound on the restarts of the application

ASSUME WorkspaceAssumption ==
  /\ Pairs \cap Panels = {} /\ Sidebar \subseteq Panels
  /\ {MaxChanges, MaxDrops, MaxRestarts} \subseteq Nat

VARIABLES
  desktop,      \* whether it runs in OpenFin (never changes)
  started,      \* whether `init' has been broadcast
  enabled,      \* the server's enabled pairs
  feed,         \* the reference data stream: "off", "on", "dead"
  missed,       \* pairs disabled while the stream was off (for a property)
  cache,        \* _currencyPairCache
  loaded,       \* hasLoaded
  tiles,        \* _spotTilesByCurrencyPairSymbol
  registered,   \* components whose model the router holds
  inits,        \* how many times a component has been initialised
  streams,      \* subscriptions of a panel to the stream of its service
  place,        \* registrations at home and in the popout region, window
  collapsed,    \* isCollapsed of the region of a panel
  saved,        \* regions-state of the local storage
  changes, drops, restarts  \* counters for the bounds

pairVars  == <<feed, missed, cache, loaded, tiles, registered, streams>>
placeVars == <<place, collapsed, saved, inits>>
counters  == <<changes, drops, restarts>>
vars == <<desktop, started, enabled, pairVars, placeVars, counters>>

Components == Pairs \cup Panels

-----------------------------------------------------------------------------
(* The place of a component.                                               *)

Nowhere == [home |-> 0, away |-> 0, window |-> "none"]

\* addToRegion of its own region: a single-item region drops what it had.
AtHome(c, w) == [w EXCEPT !.home = IF c \in Panels THEN 1 ELSE @ + 1]

\* removeFromRegion takes every registration of the model.
LeftHome(w) == [w EXCEPT !.home = 0]

\* Out of its region; a second window of the same name is refused by the
\* desktop.
PoppedOut(w) ==
  [home   |-> 0,
   away   |-> w.away + 1,
   window |-> IF w.window # "none" THEN w.window
              ELSE IF desktop THEN "opening" ELSE "open"]

\* The popout region removes every registration of the model and calls back
\* for each, and the callback adds the model to its region again.
BackHome(c, w) ==
  [Nowhere EXCEPT
     !.home = IF w.away = 0 THEN w.home
              ELSE IF c \in Panels THEN 1 ELSE w.home + w.away]

\* What a region of several items, or of one, makes visible.
Displayed(c) ==
  place[c].home > 0 /\ (c \in Panels => ~collapsed[c])

ShouldPopout(c) == saved[c] = "popout"

\* init of the region helper, for the components of a set.
InitAll(C) ==
  /\ inits' = [c \in Components |-> inits[c] + IF c \in C THEN 1 ELSE 0]
  /\ place' = [c \in Components |->
                 IF c \notin C THEN place[c]
                 ELSE IF ShouldPopout(c) THEN PoppedOut(AtHome(c, place[c]))
                 ELSE AtHome(c, place[c])]
  /\ collapsed' = [c \in Panels |->
                     IF c \in C THEN ShouldPopout(c) ELSE collapsed[c]]
  /\ UNCHANGED saved

\* Mutant: the place of a component that comes back is not persisted.
SaveAwayOnly(c, region) ==
  saved' = IF desktop /\ region = "popout" THEN [saved EXCEPT ![c] = region]
           ELSE saved

Save(c, region) ==
  saved' = IF desktop THEN [saved EXCEPT ![c] = region] ELSE saved

-----------------------------------------------------------------------------
(* Start of the application.                                               *)

Boot ==
  /\ started = FALSE
  /\ feed = "off"
  /\ missed = {}
  /\ cache = {}
  /\ loaded = FALSE
  /\ tiles = {}
  /\ registered = Panels
  /\ inits = [c \in Components |-> 0]
  /\ streams = [c \in Panels |-> 0]
  /\ place = [c \in Components |-> Nowhere]
  /\ collapsed = [c \in Panels |-> FALSE]

Init ==
  /\ desktop \in BOOLEAN
  /\ enabled \in SUBSET Pairs
  /\ Boot
  /\ saved = [c \in Components |-> "none"]
  /\ changes = 0 /\ drops = 0 /\ restarts = 0

\* In a browser nothing can come before.
Start ==
  /\ ~started
  /\ started' = TRUE
  /\ InitAll(registered)
  /\ UNCHANGED <<desktop, enabled, pairVars, counters>>

\* The application ends and starts again: the local storage is left.
Restart ==
  /\ restarts < MaxRestarts
  /\ restarts' = restarts + 1
  /\ started' = FALSE /\ feed' = "off" /\ missed' = {} /\ cache' = {}
  /\ loaded' = FALSE /\ tiles' = {} /\ registered' = Panels
  /\ inits' = [c \in Components |-> 0]
  /\ streams' = [c \in Panels |-> 0]
  /\ place' = [c \in Components |-> Nowhere]
  /\ collapsed' = [c \in Panels |-> FALSE]
  /\ UNCHANGED <<desktop, enabled, saved, changes, drops>>

-----------------------------------------------------------------------------
(* Reference data.                                                         *)

\* Mutant: the cache keeps a removed pair.
UpdateCacheKeeping(added, removed) == cache' = cache \cup added

UpdateCache(added, removed) == cache' = (cache \cup added) \ removed

\* The first update with a pair in it: models subscribe to their services.
TellModels(added, removed) ==
  IF loaded \/ added \cup removed = {} THEN UNCHANGED <<loaded, streams>>
  ELSE /\ loaded' = TRUE
       /\ streams' = [c \in Panels |-> streams[c] + 1]

NewTiles(added) == added \ tiles

\* Mutant: every tile is initialised again with the new ones.
CreateTilesInitAll(new) ==
  /\ tiles' = tiles \cup new
  /\ registered' = registered \cup new
  /\ InitAll(tiles \cup new)

\* Tiles of a set of pairs are created, added to the router and initialised.
CreateTiles(new) ==
  /\ tiles' = tiles \cup new
  /\ registered' = registered \cup new
  /\ InitAll(new)

\* A removed tile leaves the workspace; its model stays with the router.
CloseTiles(removed) ==
  /\ tiles' = tiles \ removed
  /\ place' = [c \in Components |->
                 IF c \in removed \cap tiles THEN LeftHome(place[c])
                 ELSE place[c]]
  /\ UNCHANGED <<registered, inits, collapsed, saved>>

\* _processCurrencyPairUpdate, in the order of the pairs of the update.  The
\* router refuses an id it has: the exception ends the loop, and through
\* the subscription of the loader the stream itself.
LoadTiles(added, removed) ==
  IF removed # {} THEN CloseTiles(removed) /\ feed' = "on"
  ELSE IF NewTiles(added) \cap registered = {}
       THEN CreateTiles(NewTiles(added)) /\ feed' = "on"
       ELSE /\ \E new \in SUBSET (NewTiles(added) \ registered) : CreateTiles(new)
            /\ feed' = "dead"

Receive(added, removed) ==
  /\ UpdateCache(added, removed)
  /\ TellModels(added, removed)
  /\ LoadTiles(added, removed)

\* (Re)subscription: the state of the world holds the enabled pairs only,
\* and nothing is cleared.
SubscribeFeed ==
  /\ feed = "off"
  /\ desktop \/ started
  /\ Receive(enabled, {})
  /\ UNCHANGED <<desktop, started, enabled, missed, counters>>

\* A pair of the server changes: an update of the stream, or nothing known.
ServerChanges(p) ==
  /\ changes < MaxChanges
  /\ changes' = changes + 1
  /\ enabled' = IF p \in enabled THEN enabled \ {p} ELSE enabled \cup {p}
  /\ missed' = IF p \notin enabled THEN missed \ {p}
               ELSE IF feed = "on" THEN missed ELSE missed \cup {p}
  /\ IF feed = "on" THEN Receive(enabled' \ enabled, enabled \ enabled')
     ELSE UNCHANGED <<feed, cache, loaded, tiles, registered, streams, placeVars>>
  /\ UNCHANGED <<desktop, started, drops, restarts>>

DropFeed ==
  /\ feed = "on" /\ drops < MaxDrops
  /\ drops' = drops + 1
  /\ feed' = "off"
  /\ UNCHANGED <<desktop, started, enabled, missed, cache, loaded, tiles,
                 registered, streams, placeVars, changes, restarts>>

-----------------------------------------------------------------------------
(* Windows.                                                                *)

PopOut(c) ==
  /\ Displayed(c)
  /\ place' = [place EXCEPT ![c] = PoppedOut(@)]
  /\ collapsed' = [p \in Panels |-> p = c \/ collapsed[p]]
  /\ Save(c, "popout")
  /\ UNCHANGED <<desktop, started, enabled, pairVars, inits, counters>>

WindowCreated(c) ==
  /\ place[c].window = "opening"
  /\ place' = [place EXCEPT ![c].window = "open"]
  /\ UNCHANGED <<desktop, started, enabled, pairVars, collapsed, saved, inits,
                 counters>>

\* The popout service, the popout region and its callback.
ClosePopout(c) ==
  /\ place[c].window = "open"
  /\ place' = [place EXCEPT ![c] = BackHome(c, @)]
  /\ collapsed' = [p \in Panels |-> p # c /\ collapsed[p]]
  /\ Save(c, "home")
  /\ UNCHANGED <<desktop, started, enabled, pairVars, inits, counters>>

\* The button of the sidebar, which is there with its content.
ToggleCollapsed(c) ==
  /\ place[c].home = 1
  /\ collapsed' = [collapsed EXCEPT ![c] = ~@]
  /\ UNCHANGED <<desktop, started, enabled, pairVars, place, saved, inits,
                 counters>>

-----------------------------------------------------------------------------

Next ==
  \/ Start
  \/ Restart
  \/ SubscribeFeed
  \/ DropFeed
  \/ \E p \in Pairs : ServerChanges(p)
  \/ \E c \in Components : PopOut(c)
  \/ \E c \in Components : WindowCreated(c)
  \/ \E c \in Components : ClosePopout(c)
  \/ \E c \in Sidebar : ToggleCollapsed(c)

Spec == Init /\ [][Next]_vars

-----------------------------------------------------------------------------
(* Properties.                                                             *)

\* Types; a panel subscribes to its service once, and only when pairs are
\* known: the mappers of trades and positions need them (appBootstrapper.js:142).
WorkspaceTypeOK ==
  /\ desktop \in BOOLEAN /\ started \in BOOLEAN /\ loaded \in BOOLEAN
  /\ feed \in {"off", "on", "dead"}
  /\ \A s \in {enabled, missed, cache, tiles} : s \subseteq Pairs
  /\ registered \subseteq Components
  /\ inits \in [Components -> 0..2]
  /\ streams = [c \in Panels |-> IF loaded THEN 1 ELSE 0]
  /\ place \in [Components -> [home : 0..2, away : 0..2,
                               window : {"none", "opening", "open"}]]
  /\ collapsed \in [Panels -> BOOLEAN]
  /\ saved \in [Components -> {"none", "home", "popout"}]

\* There is a tile for every pair of the cache and no other: neither the
\* reconnections, which repeat what is known, nor the removals let the two
\* drift apart, until the reference data stream dies.  It dies only when a
\* pair whose tile was closed comes back, the model of that tile being still
\* with the router (spotTileLoader.js:51-61, referenceDataService.js:84-91,
\* spotTileModel.js:118-121).
TilesMatchPairs ==
  IF feed # "dead" THEN tiles = cache
  ELSE \E p \in cache : p \in registered \ tiles

\* While the stream is on the client knows every enabled pair, and the others
\* it knows were disabled while the stream was off: the state of the world
\* that follows a reconnection removes nothing.
CacheFollowsServer ==
  feed = "on" => enabled \subseteq cache /\ cache \ enabled \subseteq missed

\* A component that was initialised once is in exactly one place, in its
\* region or in the popout region with one window, and a closed tile is in
\* one at most, whatever the order of removals, pop-outs and closings; the
\* local storage tells which, so that the application shows it there again
\* after a restart (regionManagerHelper.js:38-55, regionManager.js:35, 57).
ShownOnceAsSaved ==
  \A c \in Components : inits[c] = 1 =>
    /\ place[c].away = (IF place[c].window = "none" THEN 0 ELSE 1)
    /\ IF c \in Pairs \ tiles THEN place[c].home + place[c].away <= 1
       ELSE place[c].home + place[c].away = 1
    /\ desktop => (saved[c] = "popout") = (place[c].away > 0)

=============================================================================
