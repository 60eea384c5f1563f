------------------------------ MODULE UploadPage ------------------------------
(***************************************************************************)
(* The upload page in the browser.  It lists the dropped files, hears of   *)
(* them through the push channel, fades out a file that has reached its    *)
(* end, and goes to a page about the uploaded matches when the list is     *)
(* empty.  A 60-second timer per file forces an end where no message does. *)
(*                                                                         *)
(* JavaScript runs one callback at a time, so one step of this module is   *)
(* one callback: a pushed message, a timer, the end of a fade, the end of  *)
(* the throttle's interval, a change of the connection.  How long a thing  *)
(* takes is left open: a timer that is set may fire before or after any    *)
(* message.  The file picker that filled the list is no longer part of the *)
(* repository; the model starts where it has called setState for each file.*)
(***************************************************************************)
EXTENDS Naturals, FiniteSets, FiniteSetsExt

CONSTANTS
  N,            \* the number of dropped files; a file is its place in the list
  Name,         \* the file name of each: two files may have the same
  Players,      \* the identities in the match of a file, by file name
  SignedIn,     \* whether gg.settings.user_id is set
  MaxMessages   \* bounds the messages pushed while the page is open

Items == 1 .. N
Names == {Name[i] : i \in Items}

ASSUME SizeAssumption == N \in Nat \ {0} /\ MaxMessages \in Nat

ASSUME NamesAssumption ==
  /\ DOMAIN Name = Items
  /\ Players \in [Names -> SUBSET Nat]
  /\ \A n \in Names : IsFiniteSet(Players[n])

ASSUME SignedInAssumption == SignedIn \in BOOLEAN

VARIABLES
  state,       \* replay.state of each file in allreplays
  match,       \* whether replay.match_id and ident_ids are set
  timer,       \* whether replay.forgetAboutIt is set
  listed,      \* creplays: the files on the screen
  fading,      \* files whose fadeOut is under way
  seen,        \* replay.state as the watch of fadey.js saw it last
  throttle,    \* the interval of throttledUploadDigest
  connected,   \* whether the push channel is connected
  pushed,      \* how many messages the server has pushed
  told,        \* files whose last message named a match (history)
  page         \* document.location

files == <<state, match, timer>>
view  == <<listed, fading, seen>>
vars  == <<files, view, throttle, connected, pushed, told, page>>

-------------------------------------------------------------------------------
FileStates == {"uploading", "processing", "done", "failed", "error"}

isFinalState(s) == s \in {"done", "error", "failed"}

(* "open": nothing ran lately, a call runs at once; "closed": within the      *)
(* interval; "owed": called within the interval, runs again at its end.       *)
ThrottleStates == {"open", "closed", "owed"}

(* Messages of Replay#publish_progress!.  Only the request that completed the *)
(* replay has a match_id to send, any other sends null with whatever state    *)
(* its copy of the row has (see DoneMessageNamesMatch of ReplayPipeline).     *)
Messages == {[state |-> s, match |-> FALSE] : s \in {"uploading", "processing", "failed"}}
            \cup {[state |-> "done", match |-> TRUE]}

-------------------------------------------------------------------------------
(* Where to go when the list is empty. *)

(* How many files with a match have identity p in it. *)
Count(p, matched) == Cardinality({i \in matched : p \in Players[Name[i]]})

Identities(matched) == UNION {Players[Name[i]] : i \in matched}

(* The smallest identity of the most frequent ones, if it is in two matches;  *)
(* the first match otherwise; no URL without a match or without identities.   *)
urlAfterUploading(matched) ==
  LET idents  == Identities(matched)
      highest == Max({Count(p, matched) : p \in idents})
  IN IF idents = {} THEN <<"none", 0>>
     ELSE IF highest < 2 THEN <<"match", Min(matched)>>
     ELSE <<"player", Min({p \in idents : Count(p, matched) = highest})>>

Fallback == IF SignedIn THEN <<"replays", 0>> ELSE <<"replay_problems", 0>>

Here    == <<"uploads", 0>>
Targets == {<<"match", i>> : i \in Items}
           \cup {<<"player", p>> : p \in Identities(Items)} \cup {Fallback}

(* Mutant: only the files still on the screen are asked for their match. *)
LeaveByListed(clist, matched) ==
  page' = IF clist # {} THEN page
          ELSE IF urlAfterUploading(matched \cap clist) = <<"none", 0>> THEN Fallback
               ELSE urlAfterUploading(matched \cap clist)

(* The watch of creplays.length == 0. *)
LeaveWhenEmpty(clist, matched) ==
  page' = IF clist # {} THEN page
          ELSE IF urlAfterUploading(matched) = <<"none", 0>> THEN Fallback
               ELSE urlAfterUploading(matched)

-------------------------------------------------------------------------------
(* The digest: the watch of each file on the screen compares replay.state     *)
(* with what it saw last; a final state starts the fade-out.                  *)

(* Mutants: clearItem does not ask whether the file is still in the list; it  *)
(* is called for a file that is done only.                                    *)
DigestUnlisted(st, clist) ==
  /\ seen' = [i \in Items |-> IF i \in clist THEN st[i] ELSE seen[i]]
  /\ fading' = fading \cup {j \in listed : st[j] # seen[j] /\ isFinalState(st[j])}

DigestDoneOnly(st, clist) ==
  /\ seen' = [i \in Items |-> IF i \in clist THEN st[i] ELSE seen[i]]
  /\ fading' = {i \in fading \cup {j \in clist : st[j] # seen[j] /\ st[j] = "done"} :
                  i \in clist}

Digest(st, clist) ==
  /\ seen' = [i \in Items |-> IF i \in clist THEN st[i] ELSE seen[i]]
  /\ fading' = {i \in fading \cup {j \in clist : st[j] # seen[j] /\ isFinalState(st[j])} :
                  i \in clist}

NoDigest == UNCHANGED <<fading, seen>>

(* Mutant: a throttle that drops the calls within the interval. *)
ThrottledDigestDropping ==
  /\ throttle' = "closed"
  /\ IF throttle = "open" THEN Digest(state', listed) ELSE NoDigest

throttledUploadDigest ==
  IF throttle = "open"
    THEN throttle' = "closed" /\ Digest(state', listed)
    ELSE throttle' = "owed" /\ NoDigest

-------------------------------------------------------------------------------
(* Callbacks. *)

Open == page = Here

(* The first file of that name: allreplays is searched from the start. *)
Find(n) == Min({i \in Items : Name[i] = n})

(* Mutant: a message stops the timer, as setState does, without a new one. *)
HearStoppingTimer(n, m) ==
  /\ Open /\ connected /\ pushed < MaxMessages
  /\ pushed' = pushed + 1
  /\ state' = [state EXCEPT ![Find(n)] = m.state]
  /\ match' = [match EXCEPT ![Find(n)] = m.match]
  /\ timer' = [timer EXCEPT ![Find(n)] = FALSE]
  /\ told' = IF m.match THEN told \cup {Find(n)} ELSE told \ {Find(n)}
  /\ throttledUploadDigest
  /\ UNCHANGED <<listed, connected, page>>

(* A pushed message: $.extend(replay, data), nulls included, which sets the   *)
(* state past setState: the timer is neither stopped nor started again.       *)
Hear(n, m) ==
  /\ Open /\ connected /\ pushed < MaxMessages
  /\ pushed' = pushed + 1
  /\ state' = [state EXCEPT ![Find(n)] = m.state]
  /\ match' = [match EXCEPT ![Find(n)] = m.match]
  /\ told' = IF m.match THEN told \cup {Find(n)} ELSE told \ {Find(n)}
  /\ throttledUploadDigest
  /\ UNCHANGED <<timer, listed, connected, page>>

(* Nobody is subscribed while the channel is down: the message is lost. *)
Miss ==
  /\ Open /\ ~connected /\ pushed < MaxMessages
  /\ pushed' = pushed + 1
  /\ UNCHANGED <<files, view, throttle, connected, told, page>>

Disconnect ==
  /\ Open /\ connected
  /\ connected' = FALSE
  /\ UNCHANGED <<files, view, throttle, pushed, told, page>>

(* The page subscribed before it was connected, so that its subscription is   *)
(* sent again on every connect.                                               *)
Connect ==
  /\ Open /\ ~connected
  /\ connected' = TRUE
  /\ UNCHANGED <<files, view, throttle, pushed, told, page>>

(* Mutant: the state is set outside $apply, and the throttle is not called. *)
ForgetUndigested(i) ==
  /\ Open /\ timer[i]
  /\ state' = [state EXCEPT ![i] = "error"]
  /\ timer' = [timer EXCEPT ![i] = FALSE]
  /\ UNCHANGED <<match, view, throttle, connected, pushed, told, page>>

(* The timer fires: setState(replay, "error") in $apply.  Its own call of the *)
(* throttle raises if it digests at once, for a digest is in progress; $apply *)
(* catches that and digests at the end.                                       *)
Forget(i) ==
  /\ Open /\ timer[i]
  /\ state' = [state EXCEPT ![i] = "error"]
  /\ timer' = [timer EXCEPT ![i] = FALSE]
  /\ Digest(state', listed)
  /\ throttle' = IF throttle = "open" THEN "closed" ELSE "owed"
  /\ UNCHANGED <<match, listed, connected, pushed, told, page>>

(* Mutant: the list is changed outside $apply, nothing is watched. *)
ClearUnwatched(i) ==
  /\ Open /\ i \in fading
  /\ listed' = listed \ {i}
  /\ fading' = fading \ {i}
  /\ UNCHANGED <<files, seen, throttle, connected, pushed, told, page>>

(* The fade-out ends: the file leaves the list, in $apply. *)
Clear(i) ==
  /\ Open /\ i \in fading
  /\ listed' = listed \ {i}
  /\ Digest(state, listed')
  /\ LeaveWhenEmpty(listed', {j \in Items : match[j]})
  /\ UNCHANGED <<files, throttle, connected, pushed, told>>

(* The end of the throttle's interval. *)
IntervalEnds ==
  /\ Open /\ throttle # "open"
  /\ IF throttle = "owed"
       THEN throttle' = "closed" /\ Digest(state, listed)
       ELSE throttle' = "open" /\ NoDigest
  /\ UNCHANGED <<files, listed, connected, pushed, told, page>>

-------------------------------------------------------------------------------
Init ==
  /\ state = [i \in Items |-> "uploading"]
  /\ match = [i \in Items |-> FALSE]
  /\ timer = [i \in Items |-> TRUE]
  /\ listed = Items
  /\ fading = {}
  /\ seen = [i \in Items |-> "uploading"]
  /\ throttle \in {"closed", "owed"}
  /\ connected \in BOOLEAN
  /\ pushed = 0
  /\ told = {}
  /\ page = Here

Next ==
  \/ \E n \in Names, m \in Messages : Hear(n, m)
  \/ Miss \/ Disconnect \/ Connect
  \/ \E i \in Items : Forget(i) \/ Clear(i)
  \/ IntervalEnds

Spec == Init /\ [][Next]_vars

(* A timer that is set fires, a fade-out ends, an interval passes.  Nothing   *)
(* is assumed of the server or of the connection.                             *)
Fairness ==
  /\ \A i \in Items : WF_vars(Forget(i)) /\ WF_vars(Clear(i))
  /\ WF_vars(IntervalEnds)

FairSpec == Spec /\ Fairness

-------------------------------------------------------------------------------
(* Properties. *)

(* The type invariant. *)
TypeOK ==
  /\ state \in [Items -> FileStates]
  /\ match \in [Items -> BOOLEAN]
  /\ timer \in [Items -> BOOLEAN]
  /\ listed \in SUBSET Items
  /\ fading \in SUBSET listed
  /\ seen \in [Items -> FileStates]
  /\ throttle \in ThrottleStates
  /\ connected \in BOOLEAN
  /\ pushed \in 0 .. MaxMessages
  /\ told \in SUBSET Items
  /\ page \in Targets \cup {Here}

(* Messages set replay.state past setState (application.html.erb:89): even    *)
(* so, whatever comes in whatever order, a file on the screen has its timer   *)
(* running or is fading out already.                                          *)
ListedIsTimedOrFading == \A i \in listed : timer[i] \/ i \in fading

(* _.throttle runs the digest again after the interval: a state the page has  *)
(* not drawn and not acted upon is one whose digest is still owed.            *)
UndrawnIsOwed == \A i \in listed : seen[i] # state[i] => throttle = "owed"

(* A file that arrives at a final state for good is on its way out: none of   *)
(* the shortcuts (fade under way, state seen twice) leaves one on the screen. *)
FinalIsLeaving ==
  \A i \in listed : isFinalState(state[i]) => i \in fading \/ throttle = "owed"

(* urlAfterUploading looks at every dropped file (allreplays), not at those   *)
(* on the screen: no match the server named last is lost to the timer, the    *)
(* fade-out or another file, and the fallback is only for uploads without.    *)
MatchIsShown ==
  page = Fallback => \A i \in told : Players[Name[i]] = {}

(* The page implements what it promises: see UploadScreen. *)
Screen == INSTANCE UploadScreen WITH
  Shown0 <- Items, Targets <- Targets, Here <- Here,
  shown <- listed, location <- page

ImplementsScreen == Screen!Spec

(* "That way the user is never left staring at an upload screen forever, even *)
(* if we have bugs or a huge queue on the server side somewhere" (gg.js:272). *)
NeverLeftStaring == Screen!FairSpec
===============================================================================
