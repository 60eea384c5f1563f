--------------------------- MODULE UploadPageProofs ---------------------------
(***************************************************************************)
(* Proofs about UploadPage, for any number of files, any file names, any   *)
(* identities and any number of messages.                                  *)
(***************************************************************************)
EXTENDS UploadPage, FiniteSetTheorems, WellFoundedInduction, TLAPS

-------------------------------------------------------------------------------
(* The numbers urlAfterUploading chooses. *)

(* A set of numbers that is not empty has a smallest one. *)
LEMMA MinNat ==
  ASSUME NEW S \in SUBSET Nat, S # {}
  PROVE  Min(S) \in S /\ \A y \in S : Min(S) <= y
<1> DEFINE R == {ss \in Nat \X Nat : ss[1] < ss[2]}
<1>1. R = OpToRel(<, Nat)
  BY Zenon DEF OpToRel
<1>2. IsWellFoundedOn(R, Nat)
  BY <1>1, NatLessThanWellFounded, Zenon
<1>3. PICK x \in S : \A y \in S : ~(<<y, x>> \in R)
  <2> HIDE DEF R
  <2> QED
    BY <1>2, WFMin
<1>4. \A y \in S : x <= y
  <2> TAKE y \in S
  <2>1. x \in Nat /\ y \in Nat /\ ~(<<y, x>> \in R)
    BY <1>3
  <2> QED
    BY <2>1
<1> QED
  BY <1>4 DEF Min

(* One that is bounded has a greatest one. *)
LEMMA MaxNat ==
  ASSUME NEW S \in SUBSET Nat, S # {}, NEW b \in Nat, \A y \in S : y <= b
  PROVE  Max(S) \in S
<1> DEFINE T == {b - y : y \in S}
<1>1. \A y \in S : y \in Nat /\ y <= b /\ b - y \in Nat
  OBVIOUS
<1>0. T \in SUBSET Nat /\ T # {}
  BY <1>1
<1>2. PICK t \in T : \A u \in T : t <= u
  BY <1>0, MinNat
<1>3. PICK x \in S : t = b - x
  OBVIOUS
<1>4. \A y \in S : x >= y
  <2> TAKE y \in S
  <2>1. t <= b - y
    BY <1>2
  <2> QED
    BY <2>1, <1>3
<1> QED
  BY <1>4 DEF Max

-------------------------------------------------------------------------------
(* The URL urlAfterUploading returns is that of a match or a player in one of  *)
(* the matched files; there is none exactly if there is no identity.           *)
LEMMA CountNat ==
  ASSUME NEW matched \in SUBSET Items, NEW p
  PROVE  Count(p, matched) \in Nat /\ Count(p, matched) <= N
<1> DEFINE S == {i \in matched : p \in Players[Name[i]]}
<1>1. IsFiniteSet(Items) /\ Cardinality(Items) = N
  <2>1. 1 \in Int /\ N \in Int /\ N >= 1
    BY SizeAssumption
  <2> QED
    BY <2>1, FS_Interval DEF Items
<1>2. S \in SUBSET Items
  OBVIOUS
<1> HIDE DEF S
<1>3. IsFiniteSet(S) /\ Cardinality(S) <= Cardinality(Items)
  BY <1>1, <1>2, FS_Subset
<1>4. Cardinality(S) \in Nat
  BY <1>3, FS_CardinalityType
<1> QED
  BY <1>1, <1>3, <1>4 DEF Count, S

LEMMA PlayersNat ==
  ASSUME NEW matched \in SUBSET Items
  PROVE  /\ Identities(matched) \in SUBSET Nat
         /\ Identities(matched) \subseteq Identities(Items)
<1>1. \A i \in Items : Players[Name[i]] \in SUBSET Nat
  BY NamesAssumption DEF Names
<1> QED
  BY <1>1 DEF Identities

LEMMA UrlIsTarget ==
  ASSUME NEW matched \in SUBSET Items
  PROVE  /\ urlAfterUploading(matched) = <<"none", 0>> <=> Identities(matched) = {}
         /\ Identities(matched) # {} =>
              /\ urlAfterUploading(matched) \in Targets
              /\ urlAfterUploading(matched) # Fallback
<1> DEFINE idents  == Identities(matched)
           counts  == {Count(p, matched) : p \in idents}
           highest == Max(counts)
           most    == {p \in idents : Count(p, matched) = highest}
<1>1. CASE idents = {}
  BY <1>1 DEF urlAfterUploading
<1>2. CASE idents # {}
  <2>1. counts \in SUBSET Nat /\ counts # {} /\ \A c \in counts : c <= N
    BY <1>2, CountNat
  <2>2. highest \in counts
    <3> HIDE DEF counts
    <3>1. N \in Nat
      BY SizeAssumption
    <3> QED
      BY <2>1, <3>1, MaxNat
  <2>3. most \in SUBSET Nat /\ most # {}
    BY <2>2, PlayersNat
  <2>4. Min(most) \in most
    <3> HIDE DEF most
    <3> QED
      BY <2>3, MinNat
  <2>5. Min(most) \in Identities(Items)
    BY <2>4, PlayersNat
  <2>6. matched \in SUBSET Nat /\ matched # {}
    BY <1>2 DEF Identities, Items
  <2>7. Min(matched) \in Items
    BY <2>6, MinNat
  <2>8. urlAfterUploading(matched) = IF highest < 2 THEN <<"match", Min(matched)>>
                                     ELSE <<"player", Min(most)>>
    BY <1>2 DEF urlAfterUploading
  <2> HIDE DEF idents, counts, highest, most
  <2>9. /\ urlAfterUploading(matched) # <<"none", 0>>
        /\ urlAfterUploading(matched) # Fallback
    BY <2>8 DEF Fallback
  <2>10. urlAfterUploading(matched) \in Targets
    BY <2>5, <2>7, <2>8 DEF Targets
  <2> QED
    BY <1>2, <2>9, <2>10 DEF idents
<1> QED
  BY <1>1, <1>2

(* Where the watch of an empty list sends the browser. *)
LEMMA Leaving ==
  ASSUME NEW matched \in SUBSET Items, NEW clist, LeaveWhenEmpty(clist, matched)
  PROVE  /\ clist # {} => page' = page
         /\ clist = {} => /\ page' \in Targets
                          /\ page' = Fallback => Identities(matched) = {}
<1>1. Fallback \in Targets
  BY DEF Targets
<1> QED
  BY <1>1, UrlIsTarget DEF LeaveWhenEmpty

-------------------------------------------------------------------------------
(* The inductive invariant.  A file whose watch has seen a final state is      *)
(* fading: a second final state, which the watch may not notice as a change,   *)
(* finds the fade-out under way.  While the page is open nobody has left, and  *)
(* told follows match.                                                         *)
SeenFinalFades == \A i \in listed : isFinalState(seen[i]) => i \in fading

ToldIsMatched == told = {i \in Items : match[i]}

UInv == /\ TypeOK
        /\ ListedIsTimedOrFading
        /\ UndrawnIsOwed
        /\ SeenFinalFades
        /\ ToldIsMatched
        /\ MatchIsShown

(* The parts of the invariant that the digest and the timers are about. *)
Watched == /\ fading \in SUBSET listed
           /\ seen \in [Items -> FileStates]
           /\ ListedIsTimedOrFading
           /\ UndrawnIsOwed
           /\ SeenFinalFades

Types == /\ state \in [Items -> FileStates]
         /\ match \in [Items -> BOOLEAN]
         /\ timer \in [Items -> BOOLEAN]
         /\ listed \in SUBSET Items
         /\ throttle \in ThrottleStates
         /\ connected \in BOOLEAN
         /\ pushed \in 0 .. MaxMessages
         /\ told \in SUBSET Items
         /\ page \in Targets \cup {Here}

LEMMA FindItem ==
  ASSUME NEW n \in Names
  PROVE  Find(n) \in Items
<1>1. {i \in Items : Name[i] = n} \in SUBSET Nat /\ {i \in Items : Name[i] = n} # {}
  BY DEF Names, Items
<1> HIDE DEF Items
<1> QED
  BY <1>1, MinNat DEF Find

LEMMA MessageStates ==
  ASSUME NEW mm \in Messages
  PROVE  mm.state \in FileStates /\ mm.match \in BOOLEAN
<1>1. mm = [state |-> "done", match |-> TRUE] \/
      \E s \in {"uploading", "processing", "failed"} : mm = [state |-> s, match |-> FALSE]
  BY DEF Messages
<1>2. CASE mm = [state |-> "done", match |-> TRUE]
  BY <1>2 DEF FileStates
<1>3. ASSUME NEW s \in {"uploading", "processing", "failed"}, mm = [state |-> s, match |-> FALSE]
      PROVE  mm.state \in FileStates /\ mm.match \in BOOLEAN
  BY <1>3 DEF FileStates
<1> QED
  BY <1>1, <1>2, <1>3

(* A digest of the new state leaves nothing undrawn, and what it finds final   *)
(* is fading from then on.                                                     *)
LEMMA DigestWatches ==
  ASSUME TypeOK, SeenFinalFades,
         state' \in [Items -> FileStates],
         NEW clist \in SUBSET listed, listed' = clist,
         Digest(state', clist),
         \A i \in clist : timer'[i] \/ i \in fading \/ isFinalState(state'[i])
  PROVE  Watched'
<1>1. fading' \in SUBSET clist
  BY DEF Digest
<1>2. seen' \in [Items -> FileStates]
  BY DEF Digest, TypeOK
<1>3. \A i \in clist : seen'[i] = state'[i]
  BY DEF Digest, TypeOK
<1>4. \A i \in clist : i \in fading => i \in fading'
  BY DEF Digest
<1>5. \A i \in clist : isFinalState(state'[i]) => i \in fading'
  <2> TAKE i \in clist
  <2> HAVE isFinalState(state'[i])
  <2>1. CASE state'[i] # seen[i]
    BY <2>1 DEF Digest
  <2>2. CASE state'[i] = seen[i]
    BY <2>2, <1>4 DEF SeenFinalFades
  <2> QED
    BY <2>1, <2>2
<1> QED
  BY <1>1, <1>2, <1>3, <1>4, <1>5
  DEF Watched, ListedIsTimedOrFading, UndrawnIsOwed, SeenFinalFades

(* Without a digest the watched parts stay, if what is undrawn is owed. *)
LEMMA NoDigestWatches ==
  ASSUME UInv, NoDigest, listed' = listed, timer' = timer,
         throttle' = "owed" \/ (state' = state /\ throttle # "owed")
  PROVE  Watched'
BY DEF UInv, TypeOK, NoDigest, Watched, ListedIsTimedOrFading, UndrawnIsOwed, SeenFinalFades

LEMMA ThrottledWatches ==
  ASSUME UInv, throttledUploadDigest, listed' = listed, timer' = timer,
         state' \in [Items -> FileStates]
  PROVE  Watched' /\ throttle' \in ThrottleStates
<1>1. CASE throttle = "open"
  <2>1. Digest(state', listed) /\ throttle' = "closed"
    BY <1>1 DEF throttledUploadDigest
  <2> QED
    BY <2>1, DigestWatches DEF UInv, ListedIsTimedOrFading, ThrottleStates
<1>2. CASE throttle # "open"
  BY <1>2, NoDigestWatches DEF throttledUploadDigest, ThrottleStates
<1> QED
  BY <1>1, <1>2

(* The parts together are the invariant. *)
LEMMA Together ==
  ASSUME Types', Watched', ToldIsMatched', MatchIsShown'
  PROVE  UInv'
BY DEF Types, Watched, UInv, TypeOK

-------------------------------------------------------------------------------
(* The invariant holds at first and every action keeps it. *)
LEMMA UInvInit ==
  ASSUME Init
  PROVE  UInv
<1>1. Here # Fallback
  BY DEF Here, Fallback
<1> QED
  BY <1>1, SizeAssumption
  DEF Init, UInv, TypeOK, FileStates, ThrottleStates, ListedIsTimedOrFading, UndrawnIsOwed,
      SeenFinalFades, ToldIsMatched, MatchIsShown, isFinalState

(* An open page is not the fallback page. *)
LEMMA OpenMatchIsShown ==
  ASSUME page' = Here
  PROVE  MatchIsShown'
BY DEF MatchIsShown, Here, Fallback

LEMMA HearKeeps ==
  ASSUME UInv, NEW n \in Names, NEW mm \in Messages, Hear(n, mm)
  PROVE  UInv'
<1>1. Find(n) \in Items /\ mm.state \in FileStates /\ mm.match \in BOOLEAN
  BY FindItem, MessageStates
<1>2. /\ state' = [state EXCEPT ![Find(n)] = mm.state]
      /\ match' = [match EXCEPT ![Find(n)] = mm.match]
      /\ told' = IF mm.match THEN told \cup {Find(n)} ELSE told \ {Find(n)}
      /\ throttledUploadDigest
      /\ page = Here /\ page' = page
      /\ timer' = timer /\ listed' = listed /\ connected' = connected
      /\ pushed < MaxMessages /\ pushed' = pushed + 1
  BY DEF Hear, Open
<1>3. state' \in [Items -> FileStates] /\ match' \in [Items -> BOOLEAN]
  BY <1>1, <1>2 DEF UInv, TypeOK
<1>4. Watched' /\ throttle' \in ThrottleStates
  BY <1>2, <1>3, ThrottledWatches
<1>5. ToldIsMatched'
  BY <1>1, <1>2 DEF UInv, TypeOK, ToldIsMatched
<1>6. told' \in SUBSET Items /\ pushed' \in 0 .. MaxMessages
  BY <1>1, <1>2, SizeAssumption DEF UInv, TypeOK
<1>7. Types'
  BY <1>2, <1>3, <1>4, <1>6 DEF Types, UInv, TypeOK
<1> QED
  BY <1>2, <1>4, <1>5, <1>7, OpenMatchIsShown, Together

(* The connection: only messages are counted, and nothing is lost but they. *)
LEMMA ChannelKeeps ==
  ASSUME UInv, Miss \/ Disconnect \/ Connect
  PROVE  UInv'
<1>1. UNCHANGED <<files, view, throttle, told, page>>
  BY DEF Miss, Disconnect, Connect
<1>2. connected' \in BOOLEAN
  BY Zenon DEF Miss, Disconnect, Connect, UInv, TypeOK
<1>3. pushed' \in 0 .. MaxMessages
  <2>1. pushed \in 0 .. MaxMessages
    BY DEF UInv, TypeOK
  <2>2. CASE Miss
    BY <2>1, <2>2, SizeAssumption DEF Miss
  <2>3. CASE Disconnect \/ Connect
    BY <2>1, <2>3 DEF Disconnect, Connect
  <2> QED
    BY <2>2, <2>3
<1> QED
  BY <1>1, <1>2, <1>3
  DEF UInv, TypeOK, files, view, ListedIsTimedOrFading, UndrawnIsOwed, SeenFinalFades,
      ToldIsMatched, MatchIsShown

LEMMA ForgetKeeps ==
  ASSUME UInv, NEW i \in Items, Forget(i)
  PROVE  UInv'
<1>1. /\ state' = [state EXCEPT ![i] = "error"]
      /\ timer' = [timer EXCEPT ![i] = FALSE]
      /\ Digest(state', listed)
      /\ throttle' \in ThrottleStates
      /\ page = Here /\ page' = page
      /\ match' = match /\ listed' = listed /\ connected' = connected
      /\ pushed' = pushed /\ told' = told
  BY DEF Forget, Open, ThrottleStates
<1>2. state' \in [Items -> FileStates] /\ timer' \in [Items -> BOOLEAN]
  BY <1>1 DEF UInv, TypeOK, FileStates
<1>3. \A j \in listed : timer'[j] \/ j \in fading \/ isFinalState(state'[j])
  BY <1>1 DEF UInv, TypeOK, ListedIsTimedOrFading, isFinalState
<1>4. Watched'
  BY <1>1, <1>2, <1>3, DigestWatches DEF UInv
<1>5. Types' /\ ToldIsMatched'
  BY <1>1, <1>2 DEF Types, ToldIsMatched, UInv, TypeOK
<1> QED
  BY <1>1, <1>4, <1>5, OpenMatchIsShown, Together

LEMMA ClearKeeps ==
  ASSUME UInv, NEW i \in Items, Clear(i)
  PROVE  UInv'
<1> DEFINE clist == listed \ {i}
           matched == {j \in Items : match[j]}
<1>1. /\ page = Here
      /\ listed' = clist
      /\ Digest(state, clist)
      /\ LeaveWhenEmpty(clist, matched)
      /\ state' = state /\ match' = match /\ timer' = timer
      /\ throttle' = throttle /\ connected' = connected /\ pushed' = pushed /\ told' = told
  BY DEF Clear, Open, files
<1>2. \A j \in clist : timer'[j] \/ j \in fading
  BY <1>1 DEF UInv, ListedIsTimedOrFading
<1>3. Watched'
  BY <1>1, <1>2, DigestWatches DEF UInv, TypeOK
<1>4. /\ clist # {} => page' = page
      /\ clist = {} => /\ page' \in Targets
                       /\ page' = Fallback => Identities(matched) = {}
  <2>1. matched \in SUBSET Items
    OBVIOUS
  <2> HIDE DEF matched, clist
  <2> QED
    BY <1>1, <2>1, Leaving
<1>5. Types' /\ ToldIsMatched'
  BY <1>1, <1>4 DEF Types, ToldIsMatched, UInv, TypeOK
<1>6. MatchIsShown'
  <2>1. CASE clist # {}
    BY <1>1, <1>4, <2>1, OpenMatchIsShown
  <2>2. CASE clist = {}
    BY <1>1, <1>4, <2>2 DEF MatchIsShown, UInv, ToldIsMatched, Identities, Fallback
  <2> QED
    BY <2>1, <2>2
<1> QED
  BY <1>3, <1>5, <1>6, Together

LEMMA IntervalEndsKeeps ==
  ASSUME UInv, IntervalEnds
  PROVE  UInv'
<1>1. /\ page = Here /\ page' = page
      /\ state' = state /\ match' = match /\ timer' = timer /\ listed' = listed
      /\ connected' = connected /\ pushed' = pushed /\ told' = told
      /\ throttle' \in ThrottleStates
  BY DEF IntervalEnds, Open, files, ThrottleStates
<1>2. CASE throttle = "owed"
  <2>1. Digest(state', listed)
    BY <1>1, <1>2 DEF IntervalEnds
  <2> QED
    BY <1>1, <2>1, DigestWatches, OpenMatchIsShown, Together
    DEF UInv, TypeOK, ListedIsTimedOrFading, Types, ToldIsMatched
<1>3. CASE throttle # "owed"
  <2>1. NoDigest
    BY <1>3 DEF IntervalEnds
  <2> QED
    BY <1>1, <1>3, <2>1, NoDigestWatches, OpenMatchIsShown, Together
    DEF UInv, TypeOK, Types, ToldIsMatched
<1> QED
  BY <1>2, <1>3

LEMMA UInvStep ==
  ASSUME UInv, [Next]_vars
  PROVE  UInv'
<1>1. CASE UNCHANGED vars
  BY <1>1 DEF vars, files, view, UInv, TypeOK, ListedIsTimedOrFading, UndrawnIsOwed,
              SeenFinalFades, ToldIsMatched, MatchIsShown
<1>2. CASE Next
  BY <1>2, HearKeeps, ChannelKeeps, ForgetKeeps, ClearKeeps, IntervalEndsKeeps DEF Next
<1> QED
  BY <1>1, <1>2

-------------------------------------------------------------------------------
(* Theorems. *)

LEMMA UInvAlways == Spec => []UInv
<1>1. Init => UInv
  BY UInvInit
<1>2. UInv /\ [Next]_vars => UInv'
  BY UInvStep
<1> QED
  BY <1>1, <1>2, PTL DEF Spec

(* The type invariant; in particular urlAfterUploading (gg.js:295) names a     *)
(* match of a dropped file or one of its players whenever it names a page.     *)
THEOREM UploadTypes == Spec => []TypeOK
<1>1. UInv => TypeOK
  BY DEF UInv
<1> QED
  BY <1>1, UInvAlways, PTL

(* A file on the screen has its timer running or is fading out, although       *)
(* messages change its state past setState (application.html.erb:89).          *)
THEOREM TimedOrFading == Spec => []ListedIsTimedOrFading
<1>1. UInv => ListedIsTimedOrFading
  BY DEF UInv
<1> QED
  BY <1>1, UInvAlways, PTL

(* A change the page has not drawn has its throttled digest to come            *)
(* (gg.js:353-361).                                                            *)
THEOREM UndrawnOwed == Spec => []UndrawnIsOwed
<1>1. UInv => UndrawnIsOwed
  BY DEF UInv
<1> QED
  BY <1>1, UInvAlways, PTL

(* A file in a final state is fading out or will be at the next digest         *)
(* (fadey.js:27-32, whose watch fires on changes only).                        *)
THEOREM FinalLeaves == Spec => []FinalIsLeaving
<1>1. UInv => FinalIsLeaving
  BY DEF UInv, UndrawnIsOwed, SeenFinalFades, FinalIsLeaving
<1> QED
  BY <1>1, UInvAlways, PTL

(* The fallback page is shown only if no match that the server named last has  *)
(* a player in it (uploads.js:21-36, gg.js:295-351).                           *)
THEOREM MatchShown == Spec => []MatchIsShown
<1>1. UInv => MatchIsShown
  BY DEF UInv
<1> QED
  BY <1>1, UInvAlways, PTL

(* Every step of the page is one of UploadScreen or leaves the screen as it is. *)
LEMMA ScreenStep ==
  ASSUME UInv, [Next]_vars
  PROVE  [Screen!Next]_(Screen!screen)
<1> SUFFICES ASSUME ~UNCHANGED <<listed, page>>
             PROVE  Screen!Next
  BY DEF Screen!screen
<1>1. PICK i \in Items : Clear(i)
  BY DEF Next, vars, view, files, Hear, Miss, Disconnect, Connect, Forget, IntervalEnds
<1> DEFINE matched == {j \in Items : match[j]}
<1>2. /\ page = Here /\ i \in listed
      /\ listed' = listed \ {i}
      /\ LeaveWhenEmpty(listed', matched)
  BY <1>1 DEF Clear, Open, UInv, TypeOK
<1>3. /\ listed' # {} => page' = page
      /\ listed' = {} => page' \in Targets
  <2>1. matched \in SUBSET Items
    OBVIOUS
  <2> HIDE DEF matched
  <2> QED
    BY <1>2, <2>1, Leaving
<1> QED
  BY <1>2, <1>3 DEF Screen!Next, Screen!Clear

(* The page keeps the promises of UploadScreen: files leave one by one and for *)
(* good, and the browser is sent away in the step in which the last one does,  *)
(* to a match, to a player or to the fallback page.                            *)
THEOREM ScreenImplemented == Spec => ImplementsScreen
<1>1. Init => Screen!Init
  BY DEF Init, Screen!Init
<1>2. UInv /\ [Next]_vars => [Screen!Next]_(Screen!screen)
  BY ScreenStep
<1> QED
  BY <1>1, <1>2, UInvAlways, PTL DEF Spec, ImplementsScreen, Screen!Spec
===============================================================================
