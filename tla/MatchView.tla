------------------------------ MODULE MatchView -------------------------------
(***************************************************************************)
(* The upper half of a match's page in the browser: the army chart, which  *)
(* follows the mouse until a click freezes it; the panels below it, one    *)
(* per player, with the army at the chosen frame; the totals of the teams; *)
(* and the minimap with the armies' locations.  Panels and minimap are     *)
(* throttled.  The match object remembers the armies it has computed, by   *)
(* frame, and the locations, which it adds up from differences.            *)
(*                                                                         *)
(* JavaScript runs one callback at a time: one step of this module is one  *)
(* callback, with the digest where the callback ends in one.  The match    *)
(* has a camera and location differences, and no video follows the chart.  *)
(***************************************************************************)
EXTENDS Naturals, FiniteSets

CONSTANTS
  Panels,       \* the players, each with a panel
  Spots,        \* where on the minimap something of a player's may be
  Slices,       \* the match is cut into slices 0 .. Slices (999 in the code)
  Diffs,        \* match.locationdiffs: the strengths that change, by slice
  Duration,     \* how long the match is, in frames
  Points,       \* the frames of the chart's points
  Pixels,       \* the positions of the mouse
  Start,        \* the frame shown at first, the middle of the match
  Undefined,    \* what a variable holds that was never assigned
  NoHash, Time, \* the URL's hash: none, and one that is written as a time
  MaxEvents     \* bounds what the user does

ASSUME MatchViewAssumption ==
  /\ Panels # {}
  /\ {Slices, MaxEvents} \subseteq Nat /\ {Duration, Start} \subseteq Nat \ {0}
  /\ Points \subseteq Nat /\ Pixels \subseteq Nat
  /\ \E last \in Points : \A x \in Points : x <= last
  /\ DOMAIN Diffs = 0 .. Slices
  /\ \A i \in 0 .. Slices :
       DOMAIN Diffs[i] \subseteq Spots /\ \A s \in DOMAIN Diffs[i] : Diffs[i][s] \in Nat
  /\ {Undefined, NoHash, Time} \cap Nat = {}

VARIABLES
  frame,        \* scope.frame of the chart
  current,      \* current_frame: frame as of the last digest
  framee,       \* the frame estimated from the mouse, for the minimap
  seen,         \* the ranges of frames and of pixels seen so far
  frozen,       \* scope.frozen
  lines,        \* the frames at which the chart has a freeze line
  clicked,      \* the global variable frame, which a click assigns
  raised,       \* whether it was ever read before that (history)
  hash,         \* $location.hash()
  army,         \* the frame of the army in each panel
  gate,         \* the interval of each panel's throttle
  armiesAt,     \* the frames whose armies the match remembers
  armies,       \* match.currentArmies, read by the teams' totals: its frame
  stored,       \* match.stored_location
  upTo,         \* match.locationsComputedUpTo
  drawn,        \* the locations on the minimap
  mapGate,      \* the interval of the minimap's throttle
  events        \* what the user did so far

chart  == <<frame, current, frozen, lines, clicked, raised, hash>>
panels == <<army, gate, armiesAt, armies>>
map    == <<stored, upTo, drawn, mapGate>>
mouse  == <<framee, seen>>
vars   == <<chart, panels, map, mouse, events>>

(* See ThrottleStates of UploadPage. *)
Gates == {"open", "closed", "owed"}

-------------------------------------------------------------------------------
(* The locations. *)

Nowhere == [s \in Spots |-> 0]

(* The differences of slice i put into the locations; strength 0 takes a spot  *)
(* out, and there are none after the last slice.                               *)
Patched(locations, i) ==
  [s \in Spots |-> IF i \in DOMAIN Diffs /\ s \in DOMAIN Diffs[i] THEN Diffs[i][s]
                   ELSE locations[s]]

MapIndex(v) == (Slices * v) \div Duration

Indexes == 0 .. MapIndex(CHOOSE p \in Points : \A q \in Points : q <= p)

(* Mutant: the loop goes on after the slice it has; the copy it starts from is *)
(* a shallow one, and what it adds gets into the slice it was copied from.     *)
LocationsFromNext(index) ==
  LET from == upTo + 1
      locations[i \in from - 1 .. index] ==
        IF i < from THEN stored[upTo] ELSE Patched(locations[i - 1], i)
  IN IF upTo >= index THEN stored
     ELSE [i \in Indexes |-> IF i = upTo THEN locations[index]
                             ELSE IF i \in from .. index THEN locations[i] ELSE stored[i]]

(* computeLocationsUpTo: the loop starts with the last slice it has computed,  *)
(* whose differences it applies again (to a shallow copy of its locations, and *)
(* so to these themselves until they are stored anew), and at 0 from nothing.  *)
computeLocationsUpTo(index) ==
  LET locations[i \in upTo .. index] ==
        Patched(IF i > upTo THEN locations[i - 1]
                ELSE IF upTo = 0 THEN Nowhere ELSE stored[upTo], i)
  IN IF upTo >= index THEN stored
     ELSE [i \in Indexes |-> IF i \in upTo .. index THEN locations[i] ELSE stored[i]]

(* Mutant: the slice computed last is drawn, whichever was asked for. *)
DrawLast(v) ==
  /\ stored' = computeLocationsUpTo(MapIndex(v))
  /\ upTo' = IF upTo >= MapIndex(v) THEN upTo ELSE MapIndex(v)
  /\ drawn' = stored'[upTo']

updateCameras(v) ==
  /\ stored' = computeLocationsUpTo(MapIndex(v))
  /\ upTo' = IF upTo >= MapIndex(v) THEN upTo ELSE MapIndex(v)
  /\ drawn' = stored'[MapIndex(v)]

-------------------------------------------------------------------------------
(* The panels. *)

(* What a panel sets off that asks for the army at frame f: the armies of all  *)
(* players become the current ones, those remembered as well as new ones (the  *)
(* panels ask for points of the chart, which are remembered from the start on).*)
(* No panel asks for frame 0.                                                  *)
Asked(p, f, who) ==
  IF f = 0 \/ who = {} THEN p
  ELSE [p EXCEPT !.army = [e \in Panels |-> IF e \in who THEN f ELSE @[e]],
                 !.armiesAt = @ \cup {f}, !.armies = f]

(* Mutant of Watched: remembered armies do not become the current ones. *)
WatchedForgetful(p, old, f) ==
  LET open == {e \in Panels : p.gate[e] = "open"}
      q    == Asked(p, f, open)
  IN IF f = old THEN p
     ELSE [q EXCEPT !.gate = [e \in Panels |-> IF e \in open THEN "closed" ELSE "owed"],
                    !.armies = IF f \in p.armiesAt THEN p.armies ELSE @]

(* The watch of frame in every panel, which saw old last. *)
Watched(p, old, f) ==
  IF f = old THEN p
  ELSE LET open == {e \in Panels : p.gate[e] = "open"}
       IN [Asked(p, f, open) EXCEPT
             !.gate = [e \in Panels |-> IF e \in open THEN "closed" ELSE "owed"]]

PanelState == [army |-> army, gate |-> gate, armiesAt |-> armiesAt, armies |-> armies]

SetPanels(p) ==
  /\ army' = p.army /\ gate' = p.gate
  /\ armiesAt' = p.armiesAt /\ armies' = p.armies

(* A digest, at whose beginning the chart's frame is first; a watch of the     *)
(* chart that changes it does so after the panels' parent was told of first.   *)
Digest(first) ==
  /\ SetPanels(Watched(Watched(PanelState, current, first), first, frame'))
  /\ current' = frame'
-------------------------------------------------------------------------------
(* The chart. *)

May == events < MaxEvents /\ events' = events + 1

(* Mutant of SetFrozen: a line that is there is not removed. *)
SetFrozenKeeping(f) ==
  /\ frozen' = TRUE /\ frame' = f /\ lines' = lines \cup {f}
  /\ UNCHANGED raised

(* Mutant of SetFrozen: the undeclared variable reads as undefined. *)
SetFrozenAtUndefined(f) ==
  /\ frozen' = TRUE
  /\ frame' = IF frozen THEN clicked ELSE f
  /\ lines' = IF frozen THEN {f} ELSE lines \cup {f}
  /\ UNCHANGED raised

(* scope.freeze(f): while frozen it unfreezes first, and that reads the global *)
(* variable frame.  Without a click before there is none: the read raises when *)
(* frozen is reset and nothing else is done.                                   *)
SetFrozen(f) ==
  IF frozen /\ clicked = Undefined
    THEN frozen' = FALSE /\ raised' = TRUE /\ UNCHANGED <<frame, lines>>
    ELSE /\ frozen' = TRUE /\ frame' = f
         /\ lines' = IF frozen THEN {f} ELSE lines \cup {f}
         /\ UNCHANGED raised

(* The chart's tooltip calls scope.setFrame for the point it is about. *)
SetFrame(x) ==
  /\ ~frozen /\ May
  /\ seen' = [seen EXCEPT !.minFrame = IF @ = Undefined \/ x < @ THEN x ELSE @,
                          !.maxFrame = IF @ = Undefined \/ x > @ THEN x ELSE @]
  /\ frame' = x
  /\ Digest(x)
  /\ UNCHANGED <<frozen, lines, clicked, raised, hash, framee, map>>

(* Where between the frames seen the pixel x is, as it is between the pixels.  *)
Estimated(s, x) ==
  s.minFrame + ((x - s.minMMX) * (s.maxFrame - s.minFrame)) \div (s.maxMMX - s.minMMX)

CanEstimate(s) ==
  s.minFrame # Undefined /\ s.maxFrame \notin {Undefined, 0} /\ s.maxMMX > s.minMMX

Widened(s, x) ==
  [s EXCEPT !.minMMX = IF @ = Undefined \/ x < @ THEN x ELSE @,
            !.maxMMX = IF @ = Undefined \/ x > @ THEN x ELSE @]

(* The watch of framee, of the minimap. *)
WatchMap(f) ==
  IF f = framee THEN UNCHANGED map
  ELSE IF mapGate = "open" THEN mapGate' = "closed" /\ updateCameras(f)
  ELSE mapGate' = "owed" /\ UNCHANGED <<stored, upTo, drawn>>

(* Mutant: the frame is estimated from the pixels seen before this one. *)
MouseMoveLate(x) ==
  /\ ~frozen /\ May
  /\ seen' = Widened(seen, x)
  /\ IF seen.minMMX # Undefined /\ CanEstimate(seen) /\ x >= seen.minMMX
       THEN /\ framee' = Estimated(seen, x)
            /\ UNCHANGED frame /\ WatchMap(framee') /\ Digest(frame)
       ELSE UNCHANGED <<framee, frame, current, map, panels>>
  /\ UNCHANGED <<frozen, lines, clicked, raised, hash>>

MouseMove(x) ==
  /\ ~frozen /\ May
  /\ seen' = Widened(seen, x)
  /\ IF CanEstimate(seen')
       THEN /\ framee' = Estimated(seen', x)
            /\ UNCHANGED frame /\ WatchMap(framee') /\ Digest(frame)
       ELSE UNCHANGED <<framee, frame, current, map, panels>>
  /\ UNCHANGED <<frozen, lines, clicked, raised, hash>>

(* A click on the chart, outside of any digest: toggle_freeze. *)
ToggleFreeze(x) ==
  /\ May
  /\ clicked' = x
  /\ IF frozen THEN frozen' = FALSE /\ frame' = x /\ lines' = {} /\ UNCHANGED raised
     ELSE SetFrozen(x)
  /\ UNCHANGED <<current, hash, mouse, map, panels>>

(* The hash of the URL changes.  The watch freezes the chart at a hash that is *)
(* a number; one that is a time raises in timeToFrame, which has no expansion. *)
VisitHash(h) ==
  /\ May /\ h # hash
  /\ hash' = h
  /\ IF h \in Points THEN SetFrozen(h) ELSE UNCHANGED <<frame, frozen, lines, raised>>
  /\ Digest(frame)
  /\ UNCHANGED <<clicked, mouse, map>>

(* The entities are collapsed or expanded: the watch of condensed makes a new  *)
(* chart, without a line, and freezes that again, where the last click was.    *)
ToggleCondensed ==
  /\ May
  /\ IF ~frozen THEN lines' = {} /\ UNCHANGED <<frame, frozen, raised>>
     ELSE IF clicked = Undefined
       THEN lines' = {} /\ raised' = TRUE /\ UNCHANGED <<frame, frozen>>
       ELSE lines' = {clicked} /\ frame' = clicked /\ UNCHANGED <<frozen, raised>>
  /\ Digest(frame)
  /\ UNCHANGED <<clicked, hash, mouse, map>>

(* A click on anything else that ends in a digest. *)
ClickElsewhere ==
  /\ May
  /\ UNCHANGED frame /\ Digest(frame)
  /\ UNCHANGED <<frozen, lines, clicked, raised, hash, mouse, map>>

(* The interval of a panel ends; the call it owes is made outside of a digest. *)
PanelInterval(e) ==
  /\ gate[e] # "open"
  /\ SetPanels([Asked(PanelState, current, IF gate[e] = "owed" THEN {e} ELSE {})
                  EXCEPT !.gate[e] = IF @ = "owed" THEN "closed" ELSE "open"])
  /\ UNCHANGED <<chart, map, mouse, events>>

MapInterval ==
  /\ mapGate # "open"
  /\ IF mapGate = "owed" THEN mapGate' = "closed" /\ updateCameras(framee)
     ELSE mapGate' = "open" /\ UNCHANGED <<stored, upTo, drawn>>
  /\ UNCHANGED <<chart, panels, mouse, events>>

-------------------------------------------------------------------------------
(* The page after its first digest: to draw its curves the chart has asked for *)
(* the armies at all its points (Match#series), after it the panels for those  *)
(* at the frame in the middle; the minimap shows the first slice, and a chart  *)
(* whose URL names a frame is frozen there, for which the panels owe a call.   *)
Init ==
  /\ hash \in Points \cup {NoHash, Time}
  /\ frozen = (hash \in Points)
  /\ frame = IF frozen THEN hash ELSE Start
  /\ current = frame
  /\ lines = IF frozen THEN {hash} ELSE {}
  /\ clicked = Undefined /\ raised = FALSE
  /\ framee = 0
  /\ seen = [minFrame |-> Undefined, maxFrame |-> Undefined,
             minMMX |-> Undefined, maxMMX |-> Undefined]
  /\ army = [e \in Panels |-> Start]
  /\ gate = [e \in Panels |-> IF frame = Start THEN "closed" ELSE "owed"]
  /\ armiesAt = Points \cup {Start} /\ armies = Start
  /\ upTo = 0
  /\ stored = [i \in Indexes |-> IF i = 0 THEN Patched(Nowhere, 0) ELSE Nowhere]
  /\ drawn = stored[0] /\ mapGate = "closed"
  /\ events = 0

Next ==
  \/ \E x \in Points : SetFrame(x) \/ ToggleFreeze(x)
  \/ \E x \in Pixels : MouseMove(x)
  \/ \E h \in Points \cup {NoHash, Time} : VisitHash(h)
  \/ ToggleCondensed \/ ClickElsewhere
  \/ \E e \in Panels : PanelInterval(e)
  \/ MapInterval

Spec == Init /\ [][Next]_vars

-------------------------------------------------------------------------------
(* Types: the chart is always at a frame, of a point or the one it began with, *)
(* and the minimap has the locations of every slice it says it has computed.   *)
TypeOK ==
  /\ {frame, current} \subseteq Points \cup {Start} /\ framee \in Nat
  /\ frozen \in BOOLEAN /\ raised \in BOOLEAN
  /\ lines \subseteq Points /\ clicked \in Points \cup {Undefined}
  /\ seen \in [minFrame : Points \cup {Undefined}, maxFrame : Points \cup {Undefined},
               minMMX : Pixels \cup {Undefined}, maxMMX : Pixels \cup {Undefined}]
  /\ hash \in Points \cup {NoHash, Time}
  /\ army \in [Panels -> Points \cup {Start}] /\ gate \in [Panels -> Gates]
  /\ armiesAt \subseteq Points \cup {Start} /\ armies \in armiesAt
  /\ stored \in [Indexes -> [Spots -> Nat]] /\ drawn \in [Spots -> Nat]
  /\ upTo \in Indexes /\ mapGate \in Gates
  /\ events \in 0 .. MaxEvents

(* What is where at slice i: at every spot, the strength that the latest       *)
(* difference so far gives to it, and nothing where there was none.            *)
LocationsAt(i) ==
  [s \in Spots |->
     LET changes == {j \in DOMAIN Diffs : j <= i /\ s \in DOMAIN Diffs[j]}
     IN IF changes = {} THEN 0
        ELSE Diffs[CHOOSE j \in changes : \A k \in changes : k <= j][s]]

(* The slices that computeLocationsUpTo remembers are right, in whichever      *)
(* order they were asked for, though each call goes on from the last one and   *)
(* changes a shallow copy of it in place.                                      *)
LocationsAreTrue == \A i \in 0 .. upTo : stored[i] = LocationsAt(i)

(* Unless the throttle owes it a drawing, the minimap shows the slice under    *)
(* the mouse, also after a move back to an earlier one.                        *)
MinimapFollows == mapGate # "owed" => drawn = LocationsAt(MapIndex(framee))

(* The frame estimated for the minimap lies between the frames the chart has   *)
(* named: the two ranges grow by different events, and the estimate divides    *)
(* one by the other.                                                           *)
EstimateIsSeen ==
  framee # 0 => seen.minFrame <= framee /\ framee <= seen.maxFrame

(* As long as the undeclared variable was not read before a click had set it,  *)
(* a frozen chart has one freeze line, at its frame, and one that is not       *)
(* frozen has none: after clicks, other hashes and new charts in any order.    *)
LineMarksFrame == ~raised => lines = IF frozen THEN {frame} ELSE {}

(* When no panel is owed a call, all panels and the totals of the teams, which *)
(* take what the panel that asked last has left in the match, are at the one   *)
(* frame of the last digest; no panel asks for frame 0.                        *)
PanelsAgree ==
  current # 0 /\ (\A e \in Panels : gate[e] # "owed")
    => armies = current /\ \A e \in Panels : army[e] = current
===============================================================================
