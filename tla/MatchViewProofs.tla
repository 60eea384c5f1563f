--------------------------- MODULE MatchViewProofs ----------------------------
(* What the upper half of a match's page promises for every match, every chart *)
(* and every sequence of events: the freeze line marks the frame, panels and   *)
(* totals agree, the estimated frame is one the chart has been through, and    *)
(* the locations added up from the differences are the ones they amount to.    *)
EXTENDS MatchView, WellFoundedInduction, TLAPS

-------------------------------------------------------------------------------
(* The freeze line: the property is inductive, every action rebuilds it. *)

(* What freezing at f makes of it, whether or not the chart was frozen. *)
LEMMA FreezeMarks ==
  ASSUME NEW f, LineMarksFrame, SetFrozen(f)
  PROVE  LineMarksFrame'
<1>1. CASE frozen /\ clicked = Undefined
  BY <1>1 DEF SetFrozen, LineMarksFrame
<1>2. CASE ~(frozen /\ clicked = Undefined)
  <2>1. CASE raised
    BY <1>2, <2>1 DEF SetFrozen, LineMarksFrame
  <2>2. CASE ~raised /\ frozen
    BY <1>2, <2>2 DEF SetFrozen, LineMarksFrame
  <2>3. CASE ~raised /\ ~frozen
    BY <1>2, <2>3 DEF SetFrozen, LineMarksFrame
  <2> QED BY <2>1, <2>2, <2>3
<1> QED BY <1>1, <1>2

LEMMA LineStep ==
  ASSUME LineMarksFrame, [Next]_vars
  PROVE  LineMarksFrame'
<1>1. ASSUME NEW x \in Points, SetFrame(x)
      PROVE  LineMarksFrame'
  BY <1>1 DEF SetFrame, LineMarksFrame
<1>2. ASSUME NEW x \in Points, ToggleFreeze(x)
      PROVE  LineMarksFrame'
  <2>1. CASE frozen
    BY <1>2, <2>1 DEF ToggleFreeze, LineMarksFrame
  <2>2. CASE ~frozen
    BY <1>2, <2>2, FreezeMarks DEF ToggleFreeze
  <2> QED BY <2>1, <2>2
<1>3. ASSUME NEW x \in Pixels, MouseMove(x)
      PROVE  LineMarksFrame'
  <2>1. frame' = frame
    BY <1>3 DEF MouseMove
  <2> QED BY <1>3, <2>1 DEF MouseMove, LineMarksFrame
<1>4. ASSUME NEW h \in Points \cup {NoHash, Time}, VisitHash(h)
      PROVE  LineMarksFrame'
  <2>1. CASE h \in Points
    BY <1>4, <2>1, FreezeMarks DEF VisitHash
  <2>2. CASE h \notin Points
    BY <1>4, <2>2 DEF VisitHash, LineMarksFrame
  <2> QED BY <2>1, <2>2
<1>5. CASE ToggleCondensed
  BY <1>5 DEF ToggleCondensed, LineMarksFrame
<1>6. CASE ClickElsewhere
  BY <1>6 DEF ClickElsewhere, LineMarksFrame
<1>7. ASSUME NEW e \in Panels, PanelInterval(e)
      PROVE  LineMarksFrame'
  BY <1>7 DEF PanelInterval, LineMarksFrame, chart
<1>8. CASE MapInterval
  BY <1>8 DEF MapInterval, LineMarksFrame, chart
<1>9. CASE UNCHANGED vars
  BY <1>9 DEF vars, chart, LineMarksFrame
<1> QED BY <1>1, <1>2, <1>3, <1>4, <1>5, <1>6, <1>7, <1>8, <1>9 DEF Next

(* For every chart: as long as the undeclared variable was not read before a   *)
(* click had set it, the frozen chart has one line, at its frame, and the      *)
(* chart that is not frozen has none.                                          *)
THEOREM LineMarked == Spec => []LineMarksFrame
<1>1. Init => LineMarksFrame
  BY DEF Init, LineMarksFrame
<1> QED BY <1>1, LineStep, PTL DEF Spec

-------------------------------------------------------------------------------
(* Panels and totals. *)

(* A panel that is owed no call is at frame f, and so are the totals. *)
Agreed(p, f) ==
  f # 0 => \A e \in Panels : p.gate[e] # "owed" => p.army[e] = f /\ p.armies = f

PanelRecords ==
  [army : [Panels -> Points \cup {Start}], gate : [Panels -> Gates],
   armiesAt : SUBSET (Points \cup {Start}), armies : Points \cup {Start}]

FrameTypes == {frame, current} \subseteq Points \cup {Start}

AgreeInv ==
  /\ PanelState \in PanelRecords
  /\ FrameTypes /\ clicked \in Points \cup {Undefined}
  /\ Agreed(PanelState, current)

LEMMA AskedRecord ==
  ASSUME NEW p \in PanelRecords, NEW f \in Points \cup {Start}, NEW who \in SUBSET Panels
  PROVE  Asked(p, f, who) \in PanelRecords /\ Asked(p, f, who).gate = p.gate
BY DEF PanelRecords, Asked

(* The watch keeps the agreement: who is not open owes a call now, and who is  *)
(* open has made it.                                                           *)
LEMMA WatchedAgrees ==
  ASSUME NEW p \in PanelRecords, NEW old \in Points \cup {Start},
         NEW f \in Points \cup {Start}, Agreed(p, old)
  PROVE  Watched(p, old, f) \in PanelRecords /\ Agreed(Watched(p, old, f), f)
<1>1. CASE f = old
  BY <1>1 DEF Watched
<1>2. CASE f # old
  <2> DEFINE open == {e \in Panels : p.gate[e] = "open"}
             gates == [e \in Panels |-> IF e \in open THEN "closed" ELSE "owed"]
             asked == Asked(p, f, open)
  <2>1. asked \in PanelRecords
    BY AskedRecord
  <2>2. gates \in [Panels -> Gates]
    BY DEF Gates
  <2>3. Watched(p, old, f) = [asked EXCEPT !.gate = gates]
    BY <1>2 DEF Watched
  <2>4. Watched(p, old, f) \in PanelRecords
    BY <2>1, <2>2, <2>3 DEF PanelRecords
  <2>5. ASSUME f # 0, NEW e \in Panels, Watched(p, old, f).gate[e] # "owed"
        PROVE  Watched(p, old, f).army[e] = f /\ Watched(p, old, f).armies = f
    <3>1. Watched(p, old, f).gate = gates /\ Watched(p, old, f).army = asked.army
          /\ Watched(p, old, f).armies = asked.armies
      BY <2>1, <2>3 DEF PanelRecords
    <3>2. e \in open
      BY <2>5, <3>1
    <3>3. asked.army[e] = f /\ asked.armies = f
      BY <2>5, <3>2 DEF Asked, PanelRecords
    <3> QED BY <3>1, <3>3
  <2> QED BY <2>4, <2>5 DEF Agreed
<1> QED BY <1>1, <1>2

LEMMA DigestAgrees ==
  ASSUME AgreeInv, NEW first \in Points \cup {Start}, frame' \in Points \cup {Start},
         Digest(first)
  PROVE  PanelState' \in PanelRecords /\ current' = frame' /\ Agreed(PanelState', current')
<1> DEFINE one == Watched(PanelState, current, first)
           two == Watched(one, first, frame')
<1>1. one \in PanelRecords /\ Agreed(one, first)
  BY WatchedAgrees DEF AgreeInv, FrameTypes
<1>2. two \in PanelRecords /\ Agreed(two, frame')
  BY <1>1, WatchedAgrees
<1>3. PanelState' = two
  <2>1. PanelState' = [army |-> two.army, gate |-> two.gate,
                       armiesAt |-> two.armiesAt, armies |-> two.armies]
    BY DEF PanelState, Digest, SetPanels
  <2> QED BY <1>2, <2>1 DEF PanelRecords
<1>4. current' = frame'
  BY DEF Digest
<1> QED BY <1>2, <1>3, <1>4

LEMMA AgreeStep ==
  ASSUME AgreeInv, [Next]_vars
  PROVE  AgreeInv'
<1> USE DEF FrameTypes
<1> DEFINE F == Points \cup {Start}
<1>0. /\ frame \in F /\ current \in F
      /\ PanelState \in PanelRecords /\ Agreed(PanelState, current)
      /\ clicked \in Points \cup {Undefined}
  BY DEF AgreeInv
<1>a. ASSUME NEW first \in F, frame' \in F, Digest(first), clicked' = clicked
      PROVE  AgreeInv'
  <2>1. PanelState' \in PanelRecords /\ current' = frame' /\ Agreed(PanelState', current')
    BY <1>a, DigestAgrees
  <2> QED BY <1>0, <1>a, <2>1 DEF AgreeInv
<1>b. ASSUME UNCHANGED <<current, panels>>, frame' \in F, clicked' \in Points \cup {Undefined}
      PROVE  AgreeInv'
  <2>1. PanelState' = PanelState
    BY <1>b DEF PanelState, panels
  <2> QED BY <1>0, <1>b, <2>1 DEF AgreeInv, Agreed
<1>c. ASSUME NEW f \in Points, SetFrozen(f)
      PROVE  frame' \in F
  BY <1>0, <1>c DEF SetFrozen
<1>1. ASSUME NEW x \in Points, SetFrame(x)
      PROVE  AgreeInv'
  BY <1>1, <1>a DEF SetFrame
<1>2. ASSUME NEW x \in Points, ToggleFreeze(x)
      PROVE  AgreeInv'
  <2>1. frame' \in F
    <3>1. CASE frozen
      BY <1>2, <3>1 DEF ToggleFreeze
    <3>2. CASE ~frozen
      BY <1>2, <1>c, <3>2 DEF ToggleFreeze
    <3> QED BY <3>1, <3>2
  <2> QED BY <1>2, <1>b, <2>1 DEF ToggleFreeze
<1>3. ASSUME NEW x \in Pixels, MouseMove(x)
      PROVE  AgreeInv'
  <2>1. frame' = frame /\ clicked' = clicked
    BY <1>3 DEF MouseMove
  <2>2. CASE CanEstimate(Widened(seen, x))
    <3>1. Digest(frame)
      BY <1>3, <2>2 DEF MouseMove
    <3> QED BY <1>0, <1>a, <2>1, <3>1
  <2>3. CASE ~CanEstimate(Widened(seen, x))
    <3>1. UNCHANGED <<current, panels>>
      BY <1>3, <2>3 DEF MouseMove
    <3> QED BY <1>0, <1>b, <2>1, <3>1
  <2> QED BY <2>2, <2>3
<1>4. ASSUME NEW h \in Points \cup {NoHash, Time}, VisitHash(h)
      PROVE  AgreeInv'
  <2>1. frame' \in F
    <3>1. CASE h \in Points
      BY <1>4, <1>c, <3>1 DEF VisitHash
    <3>2. CASE h \notin Points
      BY <1>0, <1>4, <3>2 DEF VisitHash
    <3> QED BY <3>1, <3>2
  <2> QED BY <1>0, <1>4, <1>a, <2>1 DEF VisitHash
<1>5. CASE ToggleCondensed
  <2>1. frame' \in F
    BY <1>0, <1>5 DEF ToggleCondensed
  <2> QED BY <1>0, <1>5, <1>a, <2>1 DEF ToggleCondensed
<1>6. CASE ClickElsewhere
  BY <1>0, <1>6, <1>a DEF ClickElsewhere
<1>7. ASSUME NEW e \in Panels, PanelInterval(e)
      PROVE  AgreeInv'
  <2> DEFINE who == IF gate[e] = "owed" THEN {e} ELSE {}
             asked == Asked(PanelState, current, who)
             after == [asked EXCEPT !.gate[e] = IF @ = "owed" THEN "closed" ELSE "open"]
  <2>1. asked \in PanelRecords /\ asked.gate = gate
    BY <1>0, AskedRecord DEF PanelState
  <2>2. /\ after \in PanelRecords
        /\ after.gate = [gate EXCEPT ![e] = IF @ = "owed" THEN "closed" ELSE "open"]
        /\ after.army = asked.army /\ after.armies = asked.armies
    BY <2>1 DEF PanelRecords, Gates
  <2>3. PanelState' = after
    <3>1. PanelState' = [army |-> after.army, gate |-> after.gate,
                         armiesAt |-> after.armiesAt, armies |-> after.armies]
      BY <1>7 DEF PanelInterval, PanelState, SetPanels
    <3> HIDE DEF after
    <3> QED BY <2>2, <3>1 DEF PanelRecords
  <2>4. UNCHANGED <<frame, current, clicked>>
    BY <1>7 DEF PanelInterval, chart
  <2>5. gate \in [Panels -> Gates]
    BY <1>0 DEF PanelState, PanelRecords
  <2>6. ASSUME current # 0, NEW d \in Panels, after.gate[d] # "owed"
        PROVE  after.army[d] = current /\ after.armies = current
    <3>1. CASE gate[e] = "owed"
      <4>1. asked.armies = current
            /\ asked.army = [c \in Panels |-> IF c \in {e} THEN current ELSE army[c]]
        BY <2>6, <3>1 DEF Asked, PanelState
      <4>2. d # e => army[d] = current
        BY <1>0, <2>2, <2>5, <2>6 DEF Agreed, PanelState
      <4> QED BY <2>2, <4>1, <4>2
    <3>2. CASE gate[e] # "owed"
      <4>1. asked = PanelState
        BY <3>2 DEF Asked
      <4>2. gate[d] # "owed"
        BY <2>2, <2>5, <2>6, <3>2
      <4> QED BY <1>0, <2>2, <2>6, <4>1, <4>2 DEF Agreed, PanelState
    <3> QED BY <3>1, <3>2
  <2> QED BY <1>0, <2>2, <2>3, <2>4, <2>6 DEF AgreeInv, Agreed
<1>8. CASE MapInterval
  BY <1>0, <1>8, <1>b DEF MapInterval, chart
<1>9. CASE UNCHANGED vars
  BY <1>0, <1>9, <1>b DEF vars, chart, panels
<1> QED BY <1>1, <1>2, <1>3, <1>4, <1>5, <1>6, <1>7, <1>8, <1>9 DEF Next

(* For any number of players: when no panel is owed a call, every panel and    *)
(* the totals of the teams are at the frame of the last digest.                *)
THEOREM PanelsAgreeing == Spec => []PanelsAgree
<1>1. Init => AgreeInv
  BY DEF Init, AgreeInv, FrameTypes, PanelState, PanelRecords, Agreed, Gates
<1>2. AgreeInv => PanelsAgree
  <2> SUFFICES ASSUME AgreeInv, current # 0, \A e \in Panels : gate[e] # "owed"
               PROVE  armies = current /\ \A e \in Panels : army[e] = current
    BY DEF PanelsAgree
  <2>1. \A e \in Panels : army[e] = current /\ armies = current
    BY DEF AgreeInv, Agreed, PanelState
  <2> QED BY <2>1, MatchViewAssumption
<1> QED BY <1>1, <1>2, AgreeStep, PTL DEF Spec

-------------------------------------------------------------------------------
(* The estimate. *)

(* A part of b, rounded down, is between nothing and b. *)
LEMMA PartOf ==
  ASSUME NEW a \in Nat, NEW b \in Nat, NEW c \in Nat \ {0}, a <= c
  PROVE  (a * b) \div c \in 0 .. b
<1> DEFINE n == a * b
           q == n \div c
<1>1. n \in Nat /\ n <= c * b
  <2>1. c - a \in Nat
    OBVIOUS
  <2>2. (c - a) * b \in Nat
    BY <2>1
  <2>3. c * b = n + (c - a) * b
    OBVIOUS
  <2>4. n \in Nat
    OBVIOUS
  <2> HIDE DEF n
  <2> QED BY <2>2, <2>3, <2>4
<1>2. q \in Nat /\ c * q <= n
  <2> HIDE DEF n
  <2> QED BY <1>1
<1>3. ASSUME q > b
      PROVE  FALSE
  <2> HIDE DEF n, q
  <2>1. q - (b + 1) \in Nat
    BY <1>2, <1>3
  <2>2. c * (q - (b + 1)) \in Nat
    BY <2>1
  <2>3. c * q = c * b + c + c * (q - (b + 1))
    BY <1>2
  <2>4. c * b \in Nat
    OBVIOUS
  <2> QED BY <1>1, <1>2, <2>2, <2>3, <2>4
<1> HIDE DEF q
<1> QED BY <1>2, <1>3 DEF n, q

Ranges ==
  [minFrame : Nat \cup {Undefined}, maxFrame : Nat \cup {Undefined},
   minMMX : Nat \cup {Undefined}, maxMMX : Nat \cup {Undefined}]

(* The two ends of a range are set together. *)
Ordered(low, high) ==
  (low = Undefined <=> high = Undefined) /\ (low # Undefined => low <= high)

SeenInv ==
  /\ seen \in Ranges
  /\ Ordered(seen.minFrame, seen.maxFrame) /\ Ordered(seen.minMMX, seen.maxMMX)
  /\ framee \in Nat
  /\ framee # 0 => /\ seen.minFrame # Undefined
                   /\ seen.minFrame <= framee /\ framee <= seen.maxFrame

LEMMA UndefinedIsNoNumber == Undefined \notin Nat /\ Points \subseteq Nat /\ Pixels \subseteq Nat
BY MatchViewAssumption

(* The pixel is in the range it has widened, and so is the frame estimated. *)
LEMMA EstimateInside ==
  ASSUME SeenInv, NEW x \in Pixels, CanEstimate(Widened(seen, x))
  PROVE  LET s == Widened(seen, x)
         IN Estimated(s, x) \in Nat /\ s.minFrame <= Estimated(s, x)
            /\ Estimated(s, x) <= s.maxFrame
<1> DEFINE s == Widened(seen, x)
<1>1. /\ s.minFrame = seen.minFrame /\ s.maxFrame = seen.maxFrame
      /\ s.minMMX \in Nat /\ s.maxMMX \in Nat /\ s.minMMX <= x /\ x <= s.maxMMX
  BY UndefinedIsNoNumber DEF Widened, SeenInv, Ranges, Ordered
<1>2. s.minFrame \in Nat /\ s.maxFrame \in Nat /\ s.minFrame <= s.maxFrame
  BY <1>1, UndefinedIsNoNumber DEF CanEstimate, SeenInv, Ranges, Ordered
<1>3. s.maxMMX > s.minMMX
  BY DEF CanEstimate
<1> DEFINE part == ((x - s.minMMX) * (s.maxFrame - s.minFrame)) \div (s.maxMMX - s.minMMX)
<1>4. /\ x - s.minMMX \in Nat /\ s.maxFrame - s.minFrame \in Nat
      /\ s.maxMMX - s.minMMX \in Nat \ {0} /\ x - s.minMMX <= s.maxMMX - s.minMMX
  <2>1. x \in Nat
    BY UndefinedIsNoNumber
  <2> HIDE DEF s
  <2> QED BY <1>1, <1>2, <1>3, <2>1
<1>5. part \in 0 .. (s.maxFrame - s.minFrame)
  BY <1>4, PartOf
<1>6. Estimated(s, x) = s.minFrame + part
  BY DEF Estimated
<1> HIDE DEF s, part
<1>7. Estimated(s, x) \in Nat /\ s.minFrame <= Estimated(s, x) /\ Estimated(s, x) <= s.maxFrame
  BY <1>2, <1>5, <1>6
<1> QED BY <1>7 DEF s

(* A range that a new value x may have widened. *)
LEMMA WidenedRange ==
  ASSUME NEW low \in Nat \cup {Undefined}, NEW high \in Nat \cup {Undefined},
         Ordered(low, high), NEW x \in Nat,
         NEW newLow, newLow = IF low = Undefined \/ x < low THEN x ELSE low,
         NEW newHigh, newHigh = IF high = Undefined \/ x > high THEN x ELSE high
  PROVE  /\ newLow \in Nat /\ newHigh \in Nat /\ Ordered(newLow, newHigh)
         /\ low # Undefined => newLow <= low /\ high <= newHigh
BY UndefinedIsNoNumber DEF Ordered

LEMMA SeenStep ==
  ASSUME SeenInv, [Next]_vars
  PROVE  SeenInv'
<1> USE UndefinedIsNoNumber
<1>1. ASSUME NEW x \in Points, SetFrame(x)
      PROVE  SeenInv'
  <2>1. seen' = [seen EXCEPT !.minFrame = IF @ = Undefined \/ x < @ THEN x ELSE @,
                             !.maxFrame = IF @ = Undefined \/ x > @ THEN x ELSE @]
        /\ framee' = framee
    BY <1>1 DEF SetFrame
  <2>2. /\ seen' \in [minFrame : {seen'.minFrame}, maxFrame : {seen'.maxFrame},
                     minMMX : {seen.minMMX}, maxMMX : {seen.maxMMX}]
        /\ seen'.minFrame = IF seen.minFrame = Undefined \/ x < seen.minFrame
                            THEN x ELSE seen.minFrame
        /\ seen'.maxFrame = IF seen.maxFrame = Undefined \/ x > seen.maxFrame
                            THEN x ELSE seen.maxFrame
        /\ seen'.minMMX = seen.minMMX /\ seen'.maxMMX = seen.maxMMX
    BY <2>1 DEF SeenInv, Ranges
  <2>3. /\ seen'.minFrame \in Nat /\ seen'.maxFrame \in Nat
        /\ Ordered(seen'.minFrame, seen'.maxFrame)
        /\ seen.minFrame # Undefined => /\ seen'.minFrame <= seen.minFrame
                                        /\ seen.maxFrame <= seen'.maxFrame
    BY <2>2, WidenedRange DEF SeenInv, Ranges
  <2>4. seen' \in Ranges
    BY <2>2, <2>3 DEF SeenInv, Ranges
  <2>5. framee' # 0 => /\ seen'.minFrame # Undefined
                       /\ seen'.minFrame <= framee' /\ framee' <= seen'.maxFrame
    BY <2>1, <2>3 DEF SeenInv, Ranges, Ordered
  <2> QED BY <2>1, <2>2, <2>3, <2>4, <2>5 DEF SeenInv
<1>2. ASSUME NEW x \in Pixels, MouseMove(x)
      PROVE  SeenInv'
  <2>1. seen' = Widened(seen, x)
    BY <1>2 DEF MouseMove
  <2>2. /\ seen'.minFrame = seen.minFrame /\ seen'.maxFrame = seen.maxFrame
        /\ seen' \in Ranges /\ Ordered(seen'.minFrame, seen'.maxFrame)
        /\ Ordered(seen'.minMMX, seen'.maxMMX)
    <3>1. /\ seen' \in [minFrame : {seen.minFrame}, maxFrame : {seen.maxFrame},
                       minMMX : {seen'.minMMX}, maxMMX : {seen'.maxMMX}]
          /\ seen'.minMMX = IF seen.minMMX = Undefined \/ x < seen.minMMX
                            THEN x ELSE seen.minMMX
          /\ seen'.maxMMX = IF seen.maxMMX = Undefined \/ x > seen.maxMMX
                            THEN x ELSE seen.maxMMX
          /\ seen'.minFrame = seen.minFrame /\ seen'.maxFrame = seen.maxFrame
      BY <2>1 DEF SeenInv, Ranges, Widened
    <3>2. /\ seen'.minMMX \in Nat /\ seen'.maxMMX \in Nat
          /\ Ordered(seen'.minMMX, seen'.maxMMX)
      BY <3>1, WidenedRange DEF SeenInv, Ranges
    <3>3. seen' \in Ranges
      BY <3>1, <3>2 DEF SeenInv, Ranges
    <3> QED BY <3>1, <3>2, <3>3 DEF SeenInv
  <2>3. CASE CanEstimate(Widened(seen, x))
    <3>1. framee' = Estimated(Widened(seen, x), x)
      BY <1>2, <2>1, <2>3 DEF MouseMove
    <3>2. seen'.minFrame # Undefined
      BY <2>1, <2>3 DEF CanEstimate
    <3> QED BY <2>1, <2>2, <2>3, <3>1, <3>2, EstimateInside DEF SeenInv
  <2>4. CASE ~CanEstimate(Widened(seen, x))
    <3>1. framee' = framee
      BY <1>2, <2>1, <2>4 DEF MouseMove
    <3> QED BY <2>2, <3>1 DEF SeenInv
  <2> QED BY <2>3, <2>4
<1>3. ASSUME UNCHANGED mouse
      PROVE  SeenInv'
  BY <1>3 DEF mouse, SeenInv, Ordered
<1>4. \/ \E x \in Points : SetFrame(x)
      \/ \E x \in Pixels : MouseMove(x)
      \/ UNCHANGED mouse
  BY DEF Next, vars, ToggleFreeze, VisitHash, ToggleCondensed, ClickElsewhere,
         PanelInterval, MapInterval
<1> QED BY <1>1, <1>2, <1>3, <1>4

(* For any chart and any mouse: the frame the minimap shows lies between the   *)
(* frames the chart has named, the ends included.                              *)
THEOREM EstimateSeen == Spec => []EstimateIsSeen
<1>1. Init => SeenInv
  BY DEF Init, SeenInv, Ranges, Ordered
<1>2. SeenInv => EstimateIsSeen
  BY DEF SeenInv, EstimateIsSeen
<1> QED BY <1>1, <1>2, SeenStep, PTL DEF Spec

-------------------------------------------------------------------------------
(* The locations: what a call adds up from the last slice computed is, for      *)
(* every slice it goes through, what the differences so far amount to.          *)

(* A set of numbers that is not empty has a smallest one. *)
LEMMA LeastOf ==
  ASSUME NEW S \in SUBSET Nat, S # {}
  PROVE  \E x \in S : \A y \in S : x <= y
<1> DEFINE R == {ss \in Nat \X Nat : ss[1] < ss[2]}
<1>1. IsWellFoundedOn(R, Nat)
  <2>1. R = OpToRel(<, Nat)
    BY Zenon DEF OpToRel
  <2> QED BY <2>1, NatLessThanWellFounded, Zenon
<1>2. PICK x \in S : \A y \in S : ~(<<y, x>> \in R)
  <2> HIDE DEF R
  <2> QED BY <1>1, WFMin
<1>3. ASSUME NEW y \in S
      PROVE  x <= y
  <2>1. x \in Nat /\ y \in Nat /\ ~(<<y, x>> \in R)
    BY <1>2
  <2> QED BY <2>1
<1> QED BY <1>3

(* One that is bounded has a greatest one. *)
LEMMA GreatestOf ==
  ASSUME NEW S \in SUBSET Nat, S # {}, NEW b \in Nat, \A y \in S : y <= b
  PROVE  \E x \in S : \A y \in S : y <= x
<1> DEFINE T == {b - y : y \in S}
<1>1. \A y \in S : y \in Nat /\ y <= b /\ b - y \in Nat
  OBVIOUS
<1>2. T \in SUBSET Nat /\ T # {}
  BY <1>1
<1>3. PICK t \in T : \A u \in T : t <= u
  BY <1>2, LeastOf
<1>4. PICK x \in S : t = b - x
  OBVIOUS
<1>5. ASSUME NEW y \in S
      PROVE  y <= x
  <2>1. t <= b - y
    BY <1>3
  <2> QED BY <1>1, <1>4, <2>1
<1> QED BY <1>5

(* The slices up to i that say something of spot s. *)
Changes(i, s) == {j \in DOMAIN Diffs : j <= i /\ s \in DOMAIN Diffs[j]}

LEMMA LocationIs ==
  ASSUME NEW i \in Nat, NEW s \in Spots
  PROVE  /\ Changes(i, s) = {} => LocationsAt(i)[s] = 0
         /\ \A j \in Changes(i, s) :
              (\A k \in Changes(i, s) : k <= j) => LocationsAt(i)[s] = Diffs[j][s]
<1> DEFINE C == Changes(i, s)
           last == CHOOSE j \in C : \A k \in C : k <= j
<1>1. LocationsAt(i)[s] = IF C = {} THEN 0 ELSE Diffs[last][s]
  BY DEF LocationsAt, Changes
<1>2. C \subseteq Nat
  BY MatchViewAssumption DEF Changes
<1> HIDE DEF C
<1>3. ASSUME NEW j \in C, \A k \in C : k <= j
      PROVE  last = j
  <2>1. last \in C /\ \A k \in C : k <= last
    BY <1>3
  <2>2. last \in Nat /\ j \in Nat /\ last <= j /\ j <= last
    BY <1>2, <1>3, <2>1
  <2> HIDE DEF last
  <2> QED BY <2>2
<1> HIDE DEF last
<1>4. C = {} => LocationsAt(i)[s] = 0
  BY <1>1
<1>5. \A j \in C : (\A k \in C : k <= j) => LocationsAt(i)[s] = Diffs[j][s]
  BY <1>1, <1>3
<1> QED BY <1>4, <1>5 DEF C

LEMMA LocationsType ==
  ASSUME NEW i \in Nat
  PROVE  LocationsAt(i) \in [Spots -> Nat]
<1>1. ASSUME NEW s \in Spots
      PROVE  LocationsAt(i)[s] \in Nat
  <2> DEFINE C == Changes(i, s)
  <2>1. C \in SUBSET Nat /\ \A j \in C : j <= i /\ Diffs[j][s] \in Nat
    BY MatchViewAssumption DEF Changes
  <2>2. CASE C = {}
    BY <2>2, LocationIs
  <2>3. CASE C # {}
    <3>1. PICK j \in C : \A k \in C : k <= j
      <4> HIDE DEF C
      <4> QED BY <2>1, <2>3, GreatestOf
    <3> QED BY <2>1, <3>1, LocationIs
  <2> QED BY <2>2, <2>3
<1> QED BY <1>1 DEF LocationsAt

(* The differences of slice i put into what was there before, or there already. *)
LEMMA PatchedIs ==
  ASSUME NEW i \in Nat, NEW before,
         \/ i = 0 /\ before = Nowhere
         \/ i > 0 /\ before = LocationsAt(i - 1)
         \/ before = LocationsAt(i)
  PROVE  Patched(before, i) = LocationsAt(i)
<1>1. ASSUME NEW s \in Spots
      PROVE  Patched(before, i)[s] = LocationsAt(i)[s]
  <2>0. DOMAIN Diffs \subseteq Nat
    BY MatchViewAssumption
  <2>1. CASE i \in DOMAIN Diffs /\ s \in DOMAIN Diffs[i]
    <3>1. i \in Changes(i, s) /\ \A k \in Changes(i, s) : k <= i
      BY <2>1 DEF Changes
    <3>2. LocationsAt(i)[s] = Diffs[i][s]
      BY <3>1, LocationIs
    <3> QED BY <2>1, <3>2 DEF Patched
  <2>2. CASE ~(i \in DOMAIN Diffs /\ s \in DOMAIN Diffs[i])
    <3>1. Patched(before, i)[s] = before[s]
      BY <2>2 DEF Patched
    <3>2. CASE i = 0 /\ before = Nowhere
      <4>1. Changes(i, s) = {}
        BY <2>0, <2>2, <3>2 DEF Changes
      <4> QED BY <3>1, <3>2, <4>1, LocationIs DEF Nowhere
    <3>3. CASE i > 0 /\ before = LocationsAt(i - 1)
      <4>1. Changes(i, s) = Changes(i - 1, s)
        BY <2>0, <2>2, <3>3 DEF Changes
      <4> QED BY <3>1, <3>3, <4>1 DEF LocationsAt, Changes
    <3>4. CASE before = LocationsAt(i)
      BY <3>1, <3>4
    <3> QED BY <3>2, <3>3, <3>4
  <2> QED BY <2>1, <2>2
<1> QED BY <1>1 DEF Patched, LocationsAt

(* One turn of the loop, and the loop: the local function of computeLocationsUpTo. *)
Turn(g, i) ==
  Patched(IF i > upTo THEN g[i - 1] ELSE IF upTo = 0 THEN Nowhere ELSE stored[upTo], i)

Loop(index) == CHOOSE g : g = [i \in upTo .. index |-> Turn(g, i)]

LEMMA ComputedByLoop ==
  ASSUME NEW index
  PROVE  computeLocationsUpTo(index) =
           IF upTo >= index THEN stored
           ELSE [i \in Indexes |-> IF i \in upTo .. index THEN Loop(index)[i] ELSE stored[i]]
BY DEF computeLocationsUpTo, Loop, Turn

LEMMA LoopIs ==
  ASSUME NEW index \in Nat, upTo \in Nat, stored[upTo] = LocationsAt(upTo)
  PROVE  \A i \in upTo .. index : Loop(index)[i] = LocationsAt(i)
<1> DEFINE slices == upTo .. index
           sums == [i \in slices |-> LocationsAt(i)]
           g == Loop(index)
<1>1. ASSUME NEW i \in slices, NEW h, i > upTo => h[i - 1] = LocationsAt(i - 1)
      PROVE  Turn(h, i) = LocationsAt(i)
  <2>1. i \in Nat /\ upTo <= i
    OBVIOUS
  <2>2. CASE i > upTo
    BY <1>1, <2>1, <2>2, PatchedIs DEF Turn
  <2>3. CASE i = upTo
    BY <2>1, <2>3, PatchedIs DEF Turn
  <2> QED BY <2>1, <2>2, <2>3
<1>2. sums = [i \in slices |-> Turn(sums, i)]
  <2>1. ASSUME NEW i \in slices
        PROVE  Turn(sums, i) = LocationsAt(i)
    <3>1. i > upTo => i - 1 \in slices
      OBVIOUS
    <3>2. i > upTo => sums[i - 1] = LocationsAt(i - 1)
      BY <3>1
    <3> HIDE DEF sums
    <3> QED BY <1>1, <3>2
  <2> QED BY <2>1
<1>3. g = [i \in slices |-> Turn(g, i)]
  <2> HIDE DEF sums
  <2> QED BY <1>2 DEF Loop
<1>4. \A i \in slices : g[i] = Turn(g, i)
  <2> HIDE DEF g
  <2> QED BY <1>3
<1> DEFINE wrong == {i \in slices : g[i] # LocationsAt(i)}
<1> HIDE DEF g
<1>5. ASSUME wrong # {}
      PROVE  FALSE
  <2>1. wrong \in SUBSET Nat
    OBVIOUS
  <2>2. PICK i \in wrong : \A j \in wrong : i <= j
    <3> HIDE DEF wrong
    <3> QED BY <1>5, <2>1, LeastOf
  <2>3. ASSUME i > upTo
        PROVE  g[i - 1] = LocationsAt(i - 1)
    <3>1. i - 1 \in slices /\ ~(i <= i - 1)
      BY <2>3
    <3> QED BY <2>2, <3>1
  <2>4. Turn(g, i) = LocationsAt(i)
    BY <1>1, <2>3
  <2> QED BY <1>4, <2>4
<1> QED BY <1>5 DEF g

-------------------------------------------------------------------------------
(* The minimap. *)

LEMMA DivMonotone ==
  ASSUME NEW a \in Nat, NEW b \in Nat, NEW c \in Nat \ {0}, a <= b
  PROVE  a \div c \in Nat /\ b \div c \in Nat /\ a \div c <= b \div c
<1> DEFINE q == a \div c
           r == b \div c
<1>1. q \in Nat /\ c * q <= a
  OBVIOUS
<1>2. r \in Nat /\ b < c * (r + 1)
  OBVIOUS
<1> HIDE DEF q, r
<1>3. ASSUME q > r
      PROVE  FALSE
  <2>1. q - (r + 1) \in Nat
    BY <1>1, <1>2, <1>3
  <2>2. c * (q - (r + 1)) \in Nat
    BY <2>1
  <2>3. c * q = c * (r + 1) + c * (q - (r + 1))
    BY <1>1, <1>2
  <2>4. c * (r + 1) \in Nat /\ c * q \in Nat
    BY <1>1, <1>2
  <2> QED BY <1>1, <1>2, <2>2, <2>3, <2>4
<1>4. q <= r
  BY <1>1, <1>2, <1>3
<1> QED BY <1>1, <1>2, <1>4 DEF q, r

LEMMA IndexIn ==
  /\ 0 \in Indexes /\ Indexes \subseteq Nat /\ \A i \in Indexes : 0 .. i \subseteq Indexes
  /\ \A x \in Points, f \in Nat : f <= x => MapIndex(f) \in Indexes
<1> DEFINE last == CHOOSE p \in Points : \A q \in Points : q <= p
           end == MapIndex(last)
<1>1. last \in Points /\ \A x \in Points : x <= last
  BY MatchViewAssumption
<1>2. last \in Nat /\ Slices \in Nat /\ Duration \in Nat \ {0} /\ Points \subseteq Nat
  BY <1>1, MatchViewAssumption
<1> HIDE DEF last
<1>3. ASSUME NEW f \in Nat, NEW g \in Nat, f <= g
      PROVE  MapIndex(f) \in Nat /\ MapIndex(g) \in Nat /\ MapIndex(f) <= MapIndex(g)
  <2>1. Slices * f \in Nat /\ Slices * g \in Nat
    BY <1>2
  <2>2. Slices * (g - f) \in Nat
    <3>1. g - f \in Nat
      BY <1>3
    <3> QED BY <1>2, <3>1
  <2>3. Slices * g = Slices * f + Slices * (g - f)
    BY <1>2
  <2>4. Slices * f <= Slices * g
    BY <2>1, <2>2, <2>3
  <2> QED BY <1>2, <2>1, <2>4, DivMonotone DEF MapIndex
<1>4. Indexes = 0 .. end
  BY DEF Indexes, last
<1>5. end \in Nat
  BY <1>2, <1>3
<1>6. ASSUME NEW x \in Points, NEW f \in Nat, f <= x
      PROVE  MapIndex(f) \in Indexes
  <2>1. f <= last
    BY <1>1, <1>2, <1>6
  <2>2. MapIndex(f) \in Nat /\ MapIndex(f) <= end
    BY <1>2, <1>3, <2>1
  <2> HIDE DEF end
  <2> QED BY <1>4, <1>5, <2>2
<1> HIDE DEF end
<1>7. 0 \in Indexes /\ Indexes \subseteq Nat /\ \A i \in Indexes : 0 .. i \subseteq Indexes
  BY <1>4, <1>5
<1> QED BY <1>6, <1>7

SliceInv ==
  upTo \in Indexes /\ stored \in [Indexes -> [Spots -> Nat]] /\ LocationsAreTrue

LEMMA CamerasUpdated ==
  ASSUME SliceInv, NEW v \in Nat, MapIndex(v) \in Indexes, updateCameras(v)
  PROVE  SliceInv' /\ drawn' = LocationsAt(MapIndex(v))
<1> DEFINE index == MapIndex(v)
<1>0. /\ index \in Indexes /\ index \in Nat /\ upTo \in Nat
      /\ 0 .. index \subseteq Indexes /\ 0 .. upTo \subseteq Indexes
  BY IndexIn DEF SliceInv
<1>1. /\ stored' = computeLocationsUpTo(index)
      /\ upTo' = IF upTo >= index THEN upTo ELSE index
      /\ drawn' = stored'[index]
  BY DEF updateCameras
<1>2. upTo' \in Indexes /\ upTo' \in Nat /\ index <= upTo'
  BY <1>0, <1>1 DEF SliceInv
<1> HIDE DEF index
<1>3. /\ stored' \in [Indexes -> [Spots -> Nat]]
      /\ \A i \in 0 .. upTo' : stored'[i] = LocationsAt(i)
  <2>1. CASE upTo >= index
    <3>1. stored' = stored /\ upTo' = upTo
      BY <1>1, <2>1, ComputedByLoop
    <3> QED BY <3>1 DEF SliceInv, LocationsAreTrue
  <2>2. CASE ~(upTo >= index)
    <3>1. \A i \in upTo .. index : Loop(index)[i] = LocationsAt(i)
      <4>1. stored[upTo] = LocationsAt(upTo)
        BY <1>0 DEF SliceInv, LocationsAreTrue
      <4> QED BY <1>0, <4>1, LoopIs
    <3>2. /\ stored' = [i \in Indexes |-> IF i \in upTo .. index THEN Loop(index)[i]
                                         ELSE stored[i]]
          /\ upTo' = index
      BY <1>1, <2>2, ComputedByLoop
    <3>3. ASSUME NEW i \in Indexes
          PROVE  stored'[i] \in [Spots -> Nat]
      <4>1. CASE i \in upTo .. index
        <5>1. i \in Nat
          BY IndexIn
        <5> QED BY <3>1, <3>2, <4>1, <5>1, LocationsType
      <4>2. CASE i \notin upTo .. index
        BY <3>2, <4>2 DEF SliceInv
      <4> QED BY <4>1, <4>2
    <3>4. ASSUME NEW i \in 0 .. index
          PROVE  stored'[i] = LocationsAt(i)
      <4>1. i \in Indexes
        BY <1>0
      <4>2. CASE i \in upTo .. index
        BY <3>1, <3>2, <4>1, <4>2
      <4>3. CASE i \notin upTo .. index
        <5>1. i \in 0 .. upTo
          BY <1>0, <4>3
        <5> QED BY <3>2, <4>1, <4>3, <5>1 DEF SliceInv, LocationsAreTrue
      <4> QED BY <4>2, <4>3
    <3> QED BY <3>2, <3>3, <3>4
  <2> QED BY <2>1, <2>2
<1>4. SliceInv'
  BY <1>2, <1>3 DEF SliceInv, LocationsAreTrue
<1>5. drawn' = LocationsAt(index)
  <2>1. index \in 0 .. upTo'
    BY <1>0, <1>2
  <2> QED BY <1>1, <1>3, <2>1
<1> QED BY <1>4, <1>5 DEF index

(* The frame under the mouse is that of a slice the chart has: it is not after *)
(* the greatest frame the chart has named.                                     *)
SeenTypes ==
  seen \in [minFrame : Points \cup {Undefined}, maxFrame : Points \cup {Undefined},
            minMMX : Pixels \cup {Undefined}, maxMMX : Pixels \cup {Undefined}]

MapInv ==
  /\ SeenInv /\ SeenTypes /\ SliceInv
  /\ mapGate \in Gates /\ drawn \in [Spots -> Nat] /\ MinimapFollows

LEMMA SeenTypesStep ==
  ASSUME SeenTypes, [Next]_vars
  PROVE  SeenTypes'
<1>1. ASSUME NEW x \in Points, SetFrame(x)
      PROVE  SeenTypes'
  BY <1>1 DEF SetFrame, SeenTypes
<1>2. ASSUME NEW x \in Pixels, MouseMove(x)
      PROVE  SeenTypes'
  BY <1>2 DEF MouseMove, Widened, SeenTypes
<1>3. ASSUME UNCHANGED mouse
      PROVE  SeenTypes'
  BY <1>3 DEF mouse, SeenTypes
<1>4. \/ \E x \in Points : SetFrame(x)
      \/ \E x \in Pixels : MouseMove(x)
      \/ UNCHANGED mouse
  BY DEF Next, vars, ToggleFreeze, VisitHash, ToggleCondensed, ClickElsewhere,
         PanelInterval, MapInterval
<1> QED BY <1>1, <1>2, <1>3, <1>4

LEMMA FrameeIndex ==
  ASSUME NEW f \in Nat, NEW greatest \in Points \cup {Undefined},
         f # 0 => greatest # Undefined /\ f <= greatest
  PROVE  MapIndex(f) \in Indexes
<1>1. CASE f = 0
  <2>1. \E x \in Points : x \in Nat /\ 0 <= x
    BY MatchViewAssumption
  <2> QED BY <1>1, <2>1, IndexIn
<1>2. CASE f # 0
  BY <1>2, IndexIn
<1> QED BY <1>1, <1>2

LEMMA MapStep ==
  ASSUME MapInv, [Next]_vars
  PROVE  MapInv'
<1>1. SeenInv' /\ SeenTypes'
  BY SeenStep, SeenTypesStep DEF MapInv
<1>2. framee' \in Nat /\ MapIndex(framee') \in Indexes
  <2>1. /\ framee' \in Nat /\ seen'.maxFrame \in Points \cup {Undefined}
        /\ framee' # 0 => seen'.maxFrame # Undefined /\ framee' <= seen'.maxFrame
    BY <1>1 DEF SeenInv, SeenTypes, Ordered
  <2> QED BY <2>1, FrameeIndex
<1>a. ASSUME UNCHANGED map, framee' = framee \/ mapGate' = "owed"
      PROVE  MapInv'
  BY <1>1, <1>a DEF MapInv, SliceInv, LocationsAreTrue, MinimapFollows, map
<1>b. ASSUME updateCameras(framee'), mapGate' = "closed"
      PROVE  MapInv'
  <2>1. SliceInv' /\ drawn' = LocationsAt(MapIndex(framee'))
    BY <1>2, <1>b, CamerasUpdated DEF MapInv
  <2>2. drawn' \in [Spots -> Nat]
    BY <1>2, <2>1, IndexIn, LocationsType
  <2> QED BY <1>1, <1>b, <2>1, <2>2 DEF MapInv, MinimapFollows, Gates
<1>c. ASSUME UNCHANGED <<stored, upTo, drawn>>, mapGate' = "owed"
      PROVE  MapInv'
  BY <1>1, <1>c DEF MapInv, SliceInv, LocationsAreTrue, MinimapFollows, Gates
<1>3. ASSUME NEW x \in Pixels, MouseMove(x)
      PROVE  MapInv'
  <2>1. CASE CanEstimate(Widened(seen, x))
    <3>1. WatchMap(framee')
      BY <1>3, <2>1 DEF MouseMove
    <3>2. CASE framee' = framee
      BY <1>a, <3>1, <3>2 DEF WatchMap
    <3>3. CASE framee' # framee /\ mapGate = "open"
      BY <1>b, <3>1, <3>3 DEF WatchMap
    <3>4. CASE framee' # framee /\ mapGate # "open"
      BY <1>c, <3>1, <3>4 DEF WatchMap
    <3> QED BY <3>2, <3>3, <3>4
  <2>2. CASE ~CanEstimate(Widened(seen, x))
    BY <1>3, <1>a, <2>2 DEF MouseMove
  <2> QED BY <2>1, <2>2
<1>4. CASE MapInterval
  <2>1. framee' = framee
    BY <1>4 DEF MapInterval, mouse
  <2>2. CASE mapGate = "owed"
    BY <1>4, <1>b, <2>1, <2>2 DEF MapInterval
  <2>3. CASE mapGate # "owed"
    BY <1>1, <1>4, <2>1, <2>3
       DEF MapInterval, MapInv, SliceInv, LocationsAreTrue, MinimapFollows, Gates
  <2> QED BY <2>2, <2>3
<1>5. ASSUME UNCHANGED <<map, framee>>
      PROVE  MapInv'
  BY <1>a, <1>5
<1>6. \/ \E x \in Pixels : MouseMove(x)
      \/ MapInterval
      \/ UNCHANGED <<map, framee>>
  BY DEF Next, vars, SetFrame, ToggleFreeze, VisitHash, ToggleCondensed, ClickElsewhere,
         PanelInterval, mouse
<1> QED BY <1>3, <1>4, <1>5, <1>6

LEMMA MapInit ==
  ASSUME Init
  PROVE  MapInv
<1>1. SeenInv /\ SeenTypes
  BY DEF Init, SeenInv, Ranges, Ordered, SeenTypes
<1>2. /\ upTo = 0 /\ framee = 0 /\ mapGate = "closed" /\ drawn = stored[0]
      /\ stored = [i \in Indexes |-> IF i = 0 THEN Patched(Nowhere, 0) ELSE Nowhere]
  BY DEF Init
<1>3. Patched(Nowhere, 0) = LocationsAt(0)
  BY PatchedIs
<1>4. LocationsAt(0) \in [Spots -> Nat] /\ Nowhere \in [Spots -> Nat]
  BY LocationsType DEF Nowhere
<1>5. stored[0] = LocationsAt(0) /\ stored \in [Indexes -> [Spots -> Nat]]
  BY <1>2, <1>3, <1>4, IndexIn
<1>6. LocationsAreTrue
  BY <1>2, <1>5 DEF LocationsAreTrue
<1>7. MapIndex(0) = 0
  BY MatchViewAssumption DEF MapIndex
<1> QED BY <1>1, <1>2, <1>4, <1>5, <1>6, <1>7, IndexIn
        DEF MapInv, SliceInv, MinimapFollows, Gates

LEMMA MapInvariant == Spec => []MapInv
BY MapInit, MapStep, PTL DEF Spec

(* For any differences: the locations remembered for a slice are those that    *)
(* the differences up to it amount to, in whichever order slices are asked for *)
(* and though the last one's differences are applied twice.                    *)
THEOREM LocationsTrue == Spec => []LocationsAreTrue
<1>1. MapInv => LocationsAreTrue
  BY DEF MapInv, SliceInv
<1> QED BY <1>1, MapInvariant, PTL

(* For any mouse: the minimap shows the slice under it, or owes a drawing. *)
THEOREM MinimapFollowing == Spec => []MinimapFollows
<1>1. MapInv => MinimapFollows
  BY DEF MapInv
<1> QED BY <1>1, MapInvariant, PTL

-------------------------------------------------------------------------------
(* Types. *)

(* The armies that are the current ones are among those remembered. *)
Remembered(p) == p \in PanelRecords /\ p.armies \in p.armiesAt

LEMMA AskedRemembers ==
  ASSUME NEW p, Remembered(p), NEW f \in Points \cup {Start}, NEW who \in SUBSET Panels
  PROVE  Remembered(Asked(p, f, who))
<1>1. Asked(p, f, who) \in PanelRecords
  BY AskedRecord DEF Remembered
<1>2. Asked(p, f, who).armies \in Asked(p, f, who).armiesAt
  BY DEF Asked, Remembered, PanelRecords
<1> QED BY <1>1, <1>2 DEF Remembered

LEMMA WatchedRemembers ==
  ASSUME NEW p, Remembered(p), NEW old, NEW f \in Points \cup {Start}
  PROVE  Remembered(Watched(p, old, f))
<1>1. CASE f = old
  BY <1>1 DEF Watched
<1>2. CASE f # old
  <2> DEFINE open == {e \in Panels : p.gate[e] = "open"}
             gates == [e \in Panels |-> IF e \in open THEN "closed" ELSE "owed"]
             asked == Asked(p, f, open)
  <2>1. asked \in PanelRecords /\ asked.armies \in asked.armiesAt
    BY AskedRemembers DEF Remembered
  <2>2. gates \in [Panels -> Gates]
    BY DEF Gates
  <2>3. Watched(p, old, f) = [asked EXCEPT !.gate = gates]
    BY <1>2 DEF Watched
  <2> HIDE DEF asked, gates
  <2> QED BY <2>1, <2>2, <2>3 DEF Remembered, PanelRecords
<1> QED BY <1>1, <1>2

LEMMA DigestRemembers ==
  ASSUME Remembered(PanelState), NEW first \in Points \cup {Start},
         frame' \in Points \cup {Start}, Digest(first)
  PROVE  Remembered(PanelState')
<1> DEFINE two == Watched(Watched(PanelState, current, first), first, frame')
<1>1. Remembered(two)
  BY WatchedRemembers
<1>2. PanelState' = [army |-> two.army, gate |-> two.gate,
                     armiesAt |-> two.armiesAt, armies |-> two.armies]
  BY DEF PanelState, Digest, SetPanels
<1> HIDE DEF two
<1>3. PanelState' = two
  BY <1>1, <1>2 DEF Remembered, PanelRecords
<1> QED BY <1>1, <1>3

(* The chart's own variables. *)
ChartTypes ==
  /\ frozen \in BOOLEAN /\ raised \in BOOLEAN
  /\ lines \subseteq Points /\ hash \in Points \cup {NoHash, Time}
  /\ events \in 0 .. MaxEvents

TypeInv == AgreeInv /\ MapInv /\ ChartTypes /\ Remembered(PanelState)

LEMMA ChartTypesStep ==
  ASSUME ChartTypes, clicked \in Points \cup {Undefined}, [Next]_vars
  PROVE  ChartTypes'
<1>1. May => events' \in 0 .. MaxEvents
  <2>1. MaxEvents \in Nat /\ events \in 0 .. MaxEvents
    BY MatchViewAssumption DEF ChartTypes
  <2> QED BY <2>1 DEF May
<1>2. ASSUME NEW f \in Points, SetFrozen(f)
      PROVE  frozen' \in BOOLEAN /\ raised' \in BOOLEAN /\ lines' \subseteq Points
  BY <1>2 DEF SetFrozen, ChartTypes
<1>3. ASSUME NEW x \in Points, SetFrame(x)
      PROVE  ChartTypes'
  BY <1>1, <1>3 DEF SetFrame, ChartTypes
<1>4. ASSUME NEW x \in Points, ToggleFreeze(x)
      PROVE  ChartTypes'
  <2>1. CASE frozen
    BY <1>1, <1>4, <2>1 DEF ToggleFreeze, ChartTypes
  <2>2. CASE ~frozen
    BY <1>1, <1>2, <1>4, <2>2 DEF ToggleFreeze, ChartTypes
  <2> QED BY <2>1, <2>2
<1>5. ASSUME NEW x \in Pixels, MouseMove(x)
      PROVE  ChartTypes'
  BY <1>1, <1>5 DEF MouseMove, ChartTypes
<1>6. ASSUME NEW h \in Points \cup {NoHash, Time}, VisitHash(h)
      PROVE  ChartTypes'
  <2>1. CASE h \in Points
    BY <1>1, <1>2, <1>6, <2>1 DEF VisitHash, ChartTypes
  <2>2. CASE h \notin Points
    BY <1>1, <1>6, <2>2 DEF VisitHash, ChartTypes
  <2> QED BY <2>1, <2>2
<1>7. CASE ToggleCondensed
  BY <1>1, <1>7 DEF ToggleCondensed, ChartTypes
<1>8. CASE ClickElsewhere
  BY <1>1, <1>8 DEF ClickElsewhere, ChartTypes
<1>9. ASSUME UNCHANGED <<chart, events>>
      PROVE  ChartTypes'
  BY <1>9 DEF chart, ChartTypes
<1>10. (\E e \in Panels : PanelInterval(e)) \/ MapInterval \/ UNCHANGED vars
         => UNCHANGED <<chart, events>>
  BY DEF PanelInterval, MapInterval, vars
<1> QED BY <1>3, <1>4, <1>5, <1>6, <1>7, <1>8, <1>9, <1>10 DEF Next

LEMMA RememberedStep ==
  ASSUME AgreeInv, AgreeInv', Remembered(PanelState), [Next]_vars
  PROVE  Remembered(PanelState')
<1>1. /\ frame \in Points \cup {Start} /\ current \in Points \cup {Start}
      /\ frame' \in Points \cup {Start}
  BY DEF AgreeInv, FrameTypes
<1>2. ASSUME NEW first \in Points \cup {Start}, Digest(first)
      PROVE  Remembered(PanelState')
  BY <1>1, <1>2, DigestRemembers
<1>3. ASSUME UNCHANGED panels
      PROVE  Remembered(PanelState')
  <2>1. PanelState' = PanelState
    BY <1>3 DEF panels, PanelState
  <2> QED BY <2>1
<1>4. ASSUME NEW e \in Panels, PanelInterval(e)
      PROVE  Remembered(PanelState')
  <2> DEFINE who == IF gate[e] = "owed" THEN {e} ELSE {}
             asked == Asked(PanelState, current, who)
             after == [asked EXCEPT !.gate[e] = IF @ = "owed" THEN "closed" ELSE "open"]
  <2>1. Remembered(asked)
    BY <1>1, AskedRemembers
  <2>2. Remembered(after)
    BY <2>1 DEF Remembered, PanelRecords, Gates
  <2>3. PanelState' = [army |-> after.army, gate |-> after.gate,
                       armiesAt |-> after.armiesAt, armies |-> after.armies]
    BY <1>4 DEF PanelInterval, PanelState, SetPanels
  <2> HIDE DEF after
  <2>4. PanelState' = after
    BY <2>2, <2>3 DEF Remembered, PanelRecords
  <2> QED BY <2>2, <2>4
<1>5. ASSUME NEW x \in Pixels, MouseMove(x)
      PROVE  Remembered(PanelState')
  BY <1>1, <1>2, <1>3, <1>5 DEF MouseMove
<1>6. \/ \E first \in Points \cup {Start} : Digest(first)
      \/ \E x \in Pixels : MouseMove(x)
      \/ \E e \in Panels : PanelInterval(e)
      \/ UNCHANGED panels
  BY <1>1 DEF Next, vars, SetFrame, ToggleFreeze, VisitHash, ToggleCondensed,
              ClickElsewhere, MapInterval
<1> QED BY <1>2, <1>3, <1>4, <1>5, <1>6

(* Every state has its type: the chart is at a frame it has a point for, the   *)
(* current armies are remembered ones, and every slice computed is there.      *)
THEOREM MatchViewTypes == Spec => []TypeOK
<1>1. ASSUME Init
      PROVE  TypeInv
  <2>1. AgreeInv
    BY <1>1 DEF Init, AgreeInv, FrameTypes, PanelState, PanelRecords, Agreed, Gates
  <2>2. ChartTypes
    <3>1. 0 \in 0 .. MaxEvents
      BY MatchViewAssumption
    <3>2. events = 0 /\ hash \in Points \cup {NoHash, Time} /\ raised = FALSE
      BY <1>1 DEF Init
    <3>3. frozen = (hash \in Points) /\ lines = IF frozen THEN {hash} ELSE {}
      BY <1>1 DEF Init
    <3>4. frozen \in BOOLEAN /\ lines \subseteq Points
      <4>1. CASE hash \in Points
        <5>1. frozen = TRUE /\ lines = {hash}
          BY <3>3, <4>1
        <5> QED BY <4>1, <5>1
      <4>2. CASE hash \notin Points
        <5>1. (hash \in Points) = FALSE
          BY <4>2
        <5>2. frozen = FALSE
          BY <3>3, <5>1
        <5>3. lines = {}
          BY <3>3, <5>2
        <5> QED BY <5>2, <5>3
      <4> QED BY <4>1, <4>2
    <3> QED BY <3>1, <3>2, <3>4 DEF ChartTypes
  <2>3. Remembered(PanelState)
    BY <1>1, <2>1 DEF Init, AgreeInv, Remembered, PanelState
  <2> QED BY <1>1, <2>1, <2>2, <2>3, MapInit DEF TypeInv
<1>2. ASSUME TypeInv, [Next]_vars
      PROVE  TypeInv'
  <2>1. AgreeInv' /\ MapInv'
    BY <1>2, AgreeStep, MapStep DEF TypeInv
  <2>2. ChartTypes'
    BY <1>2, ChartTypesStep DEF TypeInv, AgreeInv
  <2>3. Remembered(PanelState')
    BY <1>2, <2>1, RememberedStep DEF TypeInv
  <2> QED BY <2>1, <2>2, <2>3 DEF TypeInv
<1>3. TypeInv => TypeOK
  <2> SUFFICES ASSUME TypeInv
               PROVE  TypeOK
    OBVIOUS
  <2>1. /\ {frame, current} \subseteq Points \cup {Start}
        /\ clicked \in Points \cup {Undefined}
    BY DEF TypeInv, AgreeInv, FrameTypes
  <2>2. /\ army \in [Panels -> Points \cup {Start}] /\ gate \in [Panels -> Gates]
        /\ armiesAt \subseteq Points \cup {Start} /\ armies \in armiesAt
    BY DEF TypeInv, Remembered, PanelRecords, PanelState
  <2>3. /\ seen \in [minFrame : Points \cup {Undefined}, maxFrame : Points \cup {Undefined},
                     minMMX : Pixels \cup {Undefined}, maxMMX : Pixels \cup {Undefined}]
        /\ framee \in Nat /\ stored \in [Indexes -> [Spots -> Nat]]
        /\ drawn \in [Spots -> Nat] /\ upTo \in Indexes /\ mapGate \in Gates
    BY DEF TypeInv, MapInv, SeenInv, SeenTypes, SliceInv
  <2>4. ChartTypes
    BY DEF TypeInv
  <2> QED BY <2>1, <2>2, <2>3, <2>4 DEF ChartTypes, TypeOK
<1> QED BY <1>1, <1>2, <1>3, PTL DEF Spec
===============================================================================
