------------------------------ MODULE AccountAuth ------------------------------
(***************************************************************************)
(* How a Battle.net account is authenticated.  The site asks ESDB to       *)
(* scrape the profile, tells the player to wear a portrait he does not     *)
(* wear yet, and takes the account for his when a later scrape shows it.   *)
(* The settings page saves the account it last received as a whole, ESDB   *)
(* reports by callbacks, and both end in Account#update_from_esdb!: each   *)
(* web worker decides on the copy of the row it loaded and writes back the *)
(* columns it changed.                                                     *)
(*                                                                         *)
(* One step is one database transaction, one call to ESDB, or what the     *)
(* player, ESDB or the browser does.  Firing an event of the account's     *)
(* state machine is one transaction with its push, as in ReplayPipeline.   *)
(***************************************************************************)
EXTENDS Naturals, Sequences, Functions

CONSTANTS
  Workers,         \* web workers
  BasicPortraits,  \* the portraits every player has, in order
  NoPortrait,      \* nil
  MaxUpdates,      \* bound: how often the settings page saves the account
  Faults           \* out of FaultKinds

(* "redis": a push raises; "death": a worker dies; "loss": a callback is lost; *)
(* "late": the browser misses a push; a request that was sent before a push    *)
(* and is served after it is the same.                                         *)
FaultKinds == {"redis", "death", "loss", "late"}

ASSUME AccountFaultsAssumption == Faults \subseteq FaultKinds

Basics == {BasicPortraits[i] : i \in DOMAIN BasicPortraits}

ASSUME PortraitsAssumption ==
  /\ BasicPortraits \in Seq(Basics)
  /\ IsInjective(BasicPortraits)
  /\ Len(BasicPortraits) > 1
  /\ NoPortrait \notin Basics

ASSUME MaxUpdatesAssumption == MaxUpdates \in Nat

VARIABLES
  table,     \* whether the row of the account is there
  account,   \* its columns
  worker,    \* what each web worker is doing, with its copy of the row
  browser,   \* the account as the settings page shows it
  notices,   \* the user's unacknowledged notifications
  esdb,      \* the identity in ESDB: last scraped portrait, scrape queued
  worn,      \* the portrait the player wears
  calls,     \* identity_update callbacks on the wire
  updates    \* how often the settings page has saved the account

vars == <<table, account, worker, browser, notices, esdb, worn, calls, updates>>
site == <<table, account, worker, browser, notices>>

-------------------------------------------------------------------------------
(* The data. *)

States    == {"new", "queued", "unauthed", "authed"}
Portraits == Basics \cup {NoPortrait}
Notices   == {"verify", "all_set"}

(* linked: esdb_id is set; authenticated: authenticated_at is set. *)
Rows == [state : States, authenticated : BOOLEAN, portrait : Portraits,
         expected : Portraits, linked : BOOLEAN]

NewAccount == [state |-> "new", authenticated |-> FALSE, portrait |-> NoPortrait,
               expected |-> NoPortrait, linked |-> FALSE]

(* What the page knows of an account and sends back when it saves it. *)
Json == [shown : BOOLEAN, state : States, authenticated : BOOLEAN, portrait : Portraits]

(* What ESDB tells of an identity.  Assumed: it always tells the id, also of  *)
(* one it has not scraped yet, of which it tells nothing else ("an empty       *)
(* object", account.rb:65-67); the callback that follows finds the account by  *)
(* that id alone.                                                              *)
Identities == [portrait : Portraits, queued : BOOLEAN]

NoIdentity == [portrait |-> NoPortrait, queued |-> FALSE]

ToJson(row) == [shown |-> TRUE, state |-> row.state,
                authenticated |-> row.authenticated, portrait |-> row.portrait]

(* The page shows no account that is stored. *)
NoAccount == [ToJson(NewAccount) EXCEPT !.shown = FALSE]

WorkerSteps == {"idle", "save", "sync", "apply", "decide", "auth", "unauth", "notify"}

Jobs == [step : WorkerSteps, copy : Rows, json : Json, identity : Identities,
         seen : SUBSET Notices]

Idle == [step |-> "idle", copy |-> NewAccount, json |-> NoAccount,
         identity |-> NoIdentity, seen |-> {}]

-------------------------------------------------------------------------------
(* Building blocks. *)

At(w, step) == worker[w].step = step

Copy(w) == worker[w].copy

Respond(w) == worker' = [worker EXCEPT ![w] = Idle]

(* save writes the columns the copy changed; a deleted row takes no write. *)
Save(w, new) ==
  account' = IF table = "row"
             THEN [c \in DOMAIN account |->
                     IF new[c] # Copy(w)[c] THEN new[c] ELSE account[c]]
             ELSE account

(* Save the copy with these changes and go on; the request's JSON is used up. *)
SaveAndGo(w, new, step) ==
  /\ Save(w, new)
  /\ worker' = [worker EXCEPT ![w].copy = new, ![w].step = step,
                               ![w].json = Idle.json]

(* Mutant: nothing is pushed. *)
PushNothing == UNCHANGED browser

(* User#publish! sends the user with his accounts as they are stored. *)
Push ==
  \/ browser' = IF table = "row" THEN ToJson(account') ELSE NoAccount
  \/ "late" \in Faults /\ UNCHANGED browser

(* An event: the new state is saved and pushed in one transaction.  The push *)
(* loads the notifications of the user, which ack_all works on; of the copy   *)
(* only the state is still looked at.                                        *)
Fire(w, new, step) ==
  /\ Save(w, new)
  /\ worker' = [worker EXCEPT ![w] =
       IF step = "idle" THEN Idle
       ELSE [Idle EXCEPT !.copy.state = new.state, !.step = step, !.seen = notices]]
  /\ Push

External == UNCHANGED <<esdb, worn, calls, updates>>

-------------------------------------------------------------------------------
(* Requests of the settings page. *)

Create(w) ==
  /\ At(w, "idle") /\ table = "none"
  /\ table' = "row"
  /\ account' = NewAccount
  /\ worker' = [worker EXCEPT ![w] = [Idle EXCEPT !.step = "sync"]]
  /\ UNCHANGED <<browser, notices>> /\ External

(* update: find the row; the request carries what the page shows. *)
BeginUpdate(w) ==
  /\ At(w, "idle") /\ table = "row" /\ browser.shown
  /\ updates < MaxUpdates
  /\ updates' = updates + 1
  /\ worker' = [worker EXCEPT ![w] =
       [Idle EXCEPT !.step = "save", !.copy = account, !.json = browser]]
  /\ UNCHANGED <<table, account, browser, notices, esdb, worn, calls>>

(* update_attributes(params[:account]), state and authenticated_at included. *)
SaveJson(w) ==
  /\ At(w, "save")
  /\ LET json == worker[w].json IN
       SaveAndGo(w, [Copy(w) EXCEPT !.state = json.state, !.portrait = json.portrait,
                                    !.authenticated = json.authenticated], "sync")
  /\ UNCHANGED <<table, browser, notices>> /\ External

Destroy(w) ==
  /\ At(w, "idle") /\ table = "row"
  /\ table' = "deleted"
  /\ UNCHANGED <<account, worker, browser, notices>> /\ External

(* A page that is loaded shows the account as it is stored. *)
LoadPage ==
  /\ table = "row"
  /\ browser' = ToJson(account)
  /\ UNCHANGED <<table, account, worker, notices>> /\ External

AckNotice ==
  /\ \E n \in notices : notices' = notices \ {n}
  /\ UNCHANGED <<table, account, worker, browser>> /\ External

-------------------------------------------------------------------------------
(* sync_identity! and update_from_esdb!. *)

(* ESDB answers with the identity; force makes it queue a scrape, unless it  *)
(* has just been scraped.                                                    *)
Sync(w) ==
  /\ At(w, "sync")
  /\ \E queues \in BOOLEAN :
       LET identity == [esdb EXCEPT !.queued = @ \/ queues] IN
         /\ esdb' = identity
         /\ worker' = [worker EXCEPT ![w].identity = identity, ![w].step = "apply"]
  /\ UNCHANGED <<table, account, browser, notices, worn, calls, updates>>

(* ESDB cannot be reached: sync_identity! returns false. *)
SyncFails(w) ==
  /\ At(w, "sync")
  /\ Respond(w)
  /\ UNCHANGED <<table, account, browser, notices>> /\ External

(* An identity_update callback: the accounts of the identity are loaded. *)
IdentityUpdate(w, identity) ==
  /\ At(w, "idle")
  /\ identity \in calls
  /\ calls' = calls \ {identity}
  /\ IF table = "row" /\ account.linked
     THEN worker' = [worker EXCEPT ![w] =
            [Idle EXCEPT !.step = "apply", !.copy = account, !.identity = identity]]
     ELSE UNCHANGED worker
  /\ UNCHANGED <<table, account, browser, notices, esdb, worn, updates>>

(* Mutant: esdb_id is not stored. *)
ApplyUnlinked(w) ==
  /\ At(w, "apply")
  /\ SaveAndGo(w, [Copy(w) EXCEPT !.portrait = worker[w].identity.portrait], "decide")
  /\ UNCHANGED <<table, browser, notices>> /\ External

(* esdb_id becomes identity.id, which is there (see Identities). *)
Apply(w) ==
  /\ At(w, "apply")
  /\ SaveAndGo(w, [Copy(w) EXCEPT !.linked = TRUE,
                                  !.portrait = worker[w].identity.portrait], "decide")
  /\ UNCHANGED <<table, browser, notices>> /\ External

(* Mutant: an authed account is queued like any other. *)
QueueAuthed(w) ==
  /\ At(w, "decide") /\ worker[w].identity.queued /\ Copy(w).state # "queued"
  /\ Fire(w, [Copy(w) EXCEPT !.state = "queued"], "idle")
  /\ UNCHANGED <<table, notices>> /\ External

(* queued! unless queued?: an authed account stays authed. *)
Queue(w) ==
  /\ At(w, "decide") /\ worker[w].identity.queued /\ Copy(w).state # "queued"
  /\ Fire(w, [Copy(w) EXCEPT !.state = IF @ = "authed" THEN @ ELSE "queued"], "idle")
  /\ UNCHANGED <<table, notices>> /\ External

(* Nothing to do: queued already, or authenticated already. *)
LeaveAsIs(w) ==
  /\ At(w, "decide")
  /\ IF worker[w].identity.queued THEN Copy(w).state = "queued" ELSE Copy(w).authenticated
  /\ Respond(w)
  /\ UNCHANGED <<table, account, browser, notices>> /\ External

(* Mutant: nil and nil are equal portraits. *)
MatchesNil(w) == Copy(w).portrait = Copy(w).expected

Matches(w) == Copy(w).portrait # NoPortrait /\ Copy(w).portrait = Copy(w).expected

(* Mutant: authenticated_at is not stored. *)
ConfirmUnsaved(w) ==
  /\ At(w, "decide") /\ ~worker[w].identity.queued /\ ~Copy(w).authenticated /\ Matches(w)
  /\ SaveAndGo(w, Copy(w), "auth")
  /\ UNCHANGED <<table, browser, notices>> /\ External

ConfirmPortrait(w) ==
  /\ At(w, "decide") /\ ~worker[w].identity.queued /\ ~Copy(w).authenticated /\ Matches(w)
  /\ SaveAndGo(w, [Copy(w) EXCEPT !.authenticated = TRUE], "auth")
  /\ UNCHANGED <<table, browser, notices>> /\ External

(* set_expected_portrait!: the list without the portrait, indexed by          *)
(* rand(length - 1), which never picks the last (rand(0) indexes the first).  *)
Expect(w) ==
  IF Copy(w).portrait = NoPortrait \/ Copy(w).expected # NoPortrait THEN {Copy(w).expected}
  ELSE LET left == {i \in DOMAIN BasicPortraits : BasicPortraits[i] # Copy(w).portrait}
       IN {BasicPortraits[i] : i \in {k \in left : left = {k} \/ \E j \in left : j > k}}

ExpectPortrait(w) ==
  /\ At(w, "decide") /\ ~worker[w].identity.queued /\ ~Copy(w).authenticated /\ ~Matches(w)
  /\ \E portrait \in Expect(w) :
       SaveAndGo(w, [Copy(w) EXCEPT !.expected = portrait], "unauth")
  /\ UNCHANGED <<table, browser, notices>> /\ External

Auth(w) ==
  /\ At(w, "auth") /\ Copy(w).state \in {"unauthed", "queued"}
  /\ Fire(w, [Copy(w) EXCEPT !.state = "authed"], "notify")
  /\ UNCHANGED <<table, notices>> /\ External

(* Mutant: the transition goes to a state nobody declared. *)
UnauthUndeclared(w) ==
  /\ At(w, "unauth") /\ Copy(w).state \in {"new", "queued"}
  /\ Fire(w, [Copy(w) EXCEPT !.state = "unauthorized"], "notify")
  /\ UNCHANGED <<table, notices>> /\ External

Unauth(w) ==
  /\ At(w, "unauth") /\ Copy(w).state \in {"new", "queued"}
  /\ Fire(w, [Copy(w) EXCEPT !.state = "unauthed"], "notify")
  /\ UNCHANGED <<table, notices>> /\ External

(* The event is not needed, or it raises InvalidTransition. *)
NoEvent(w) ==
  /\ \/ At(w, "auth") /\ Copy(w).state \in {"authed", "new"}
     \/ At(w, "unauth") /\ Copy(w).state \in {"unauthed", "authed"}
  /\ Respond(w)
  /\ UNCHANGED <<table, account, browser, notices>> /\ External

NoticeOf(w) == IF Copy(w).state = "authed" THEN "all_set" ELSE "verify"

(* Mutant: the earlier notices are not acknowledged. *)
NotifyOnly(w) ==
  /\ At(w, "notify")
  /\ notices' = notices \cup {NoticeOf(w)}
  /\ UNCHANGED <<table, account>> /\ External
  /\ Push
  /\ Respond(w)

(* ack_all_notifications! and notify, whose creation pushes. *)
Notify(w) ==
  /\ At(w, "notify")
  /\ notices' = (notices \ worker[w].seen) \cup {NoticeOf(w)}
  /\ UNCHANGED <<table, account>> /\ External
  /\ Push
  /\ Respond(w)

(* The event that the worker is about to fire would put its copy in this state. *)
Due(w, state) ==
  \/ /\ At(w, "decide") /\ worker[w].identity.queued /\ Copy(w).state # "queued"
     /\ state = IF Copy(w).state = "authed" THEN "authed" ELSE "queued"
  \/ At(w, "auth") /\ Copy(w).state \in {"unauthed", "queued"} /\ state = "authed"
  \/ At(w, "unauth") /\ Copy(w).state \in {"new", "queued"} /\ state = "unauthed"

(* The push raises: an event or the new notice is rolled back. *)
PushRaises(w) ==
  /\ "redis" \in Faults
  /\ \/ (\E state \in States : Due(w, state)) /\ UNCHANGED notices
     \/ At(w, "notify") /\ notices' = notices \ worker[w].seen
  /\ Respond(w)
  /\ UNCHANGED <<table, account, browser>> /\ External

(* What the page hears of an event before it is committed. *)
PushOf(w, state) ==
  IF table # "row" THEN NoAccount
  ELSE ToJson(IF state = Copy(w).state THEN account ELSE [account EXCEPT !.state = state])

(* The worker dies: an event or a new notice whose push is out may not be      *)
(* committed yet, so that the page is ahead of the row.                        *)
Dies(w) ==
  /\ "death" \in Faults
  /\ ~At(w, "idle")
  /\ \/ UNCHANGED <<browser, notices>>
     \/ /\ \E state \in States : Due(w, state) /\ browser' = PushOf(w, state)
        /\ UNCHANGED notices
     \/ /\ At(w, "notify") /\ notices' = notices \ worker[w].seen
        /\ browser' \in {browser, PushOf(w, Copy(w).state)}
  /\ Respond(w)
  /\ UNCHANGED <<table, account>> /\ External

WorkerStep(w) ==
  \/ SaveJson(w) \/ Sync(w) \/ SyncFails(w) \/ Apply(w) \/ Queue(w) \/ LeaveAsIs(w)
  \/ ConfirmPortrait(w) \/ ExpectPortrait(w) \/ Auth(w) \/ Unauth(w) \/ NoEvent(w)
  \/ Notify(w) \/ PushRaises(w)

-------------------------------------------------------------------------------
(* The player and ESDB (external). *)

Wear(portrait) ==
  /\ worn' = portrait
  /\ UNCHANGED <<site, esdb, calls, updates>>

Scrape ==
  /\ esdb.queued
  /\ esdb' = [portrait |-> worn, queued |-> FALSE]
  /\ calls' = calls \cup {esdb'}
  /\ UNCHANGED <<site, worn, updates>>

LoseCall ==
  /\ "loss" \in Faults
  /\ \E identity \in calls : calls' = calls \ {identity}
  /\ UNCHANGED <<site, esdb, worn, updates>>

-------------------------------------------------------------------------------
Init ==
  /\ table = "none"
  /\ account = NewAccount
  /\ worker = [w \in Workers |-> Idle]
  /\ browser = NoAccount
  /\ notices = {}
  /\ esdb = NoIdentity
  /\ worn \in Basics
  /\ calls = {}
  /\ updates = 0

Next ==
  \/ \E w \in Workers : \/ Create(w) \/ BeginUpdate(w) \/ Destroy(w)
                        \/ WorkerStep(w) \/ Dies(w)
                        \/ \E identity \in calls : IdentityUpdate(w, identity)
  \/ \E portrait \in Basics : Wear(portrait)
  \/ LoadPage \/ AckNotice \/ Scrape \/ LoseCall

Spec == Init /\ [][Next]_vars

(* A request being served goes on, ESDB scrapes what it queued, and a callback *)
(* on the wire is served in the end (unicorn's backlog is first in, first out; *)
(* that some callback is served is enough here).                               *)
Fairness ==
  /\ \A w \in Workers : WF_vars(WorkerStep(w))
  /\ WF_vars(Scrape)
  /\ SF_vars(\E w \in Workers, identity \in calls : IdentityUpdate(w, identity))

FairSpec == Spec /\ Fairness

-------------------------------------------------------------------------------
(* Properties. *)

(* The type invariant of the row, its copies and what is outside. *)
TypeOK ==
  /\ table \in {"none", "row", "deleted"}
  /\ account \in Rows
  /\ worker \in [Workers -> Jobs]
  /\ browser \in Json
  /\ notices \in SUBSET Notices
  /\ esdb \in Identities
  /\ worn \in Basics
  /\ calls \in SUBSET Identities
  /\ updates \in 0 .. MaxUpdates

(* Nobody is authenticated who was not asked to wear a portrait, whatever    *)
(* copies and pages are out of date: a nil portrait never matches a nil      *)
(* expectation (portrait && portrait == expected_portrait).                  *)
AuthenticatedWasAsked ==
  account.authenticated \/ account.state = "authed" => account.expected # NoPortrait

(* ESDB's callbacks find an account by its esdb_id: an account that has left *)
(* state new, by an event or by what a page saved, can be found.             *)
LeftNewIsLinked == account.state # "new" => account.linked

(* Requests served one at a time: authed means authenticated. *)
AuthedIsAuthenticated == account.state = "authed" => account.authenticated

AllIdle == \A w \in Workers : At(w, "idle")

(* Requests served one at a time: an authenticated account is shown as such  *)
(* when the request is over, though authenticated_at is saved before auth!.  *)
AuthenticatedIsAuthed ==
  AllIdle /\ account.authenticated => account.state = "authed"

(* No save of the page takes an authentication back, though it sends state and *)
(* authenticated_at as the page last received them: each event has pushed them. *)
AuthenticationStays == [][account.authenticated => account'.authenticated]_vars

(* The user is not told to authenticate an account that is authed, nor that  *)
(* all is set when it is not: each event replaces the notices of the former. *)
NoticeFits ==
  AllIdle => /\ "verify" \in notices => account.state # "authed"
             /\ "all_set" \in notices => account.state = "authed"

(* "If the expected portrait matches right away, we've done something terribly *)
(* wrong": auth! is never asked of an account in state new, which refuses it.  *)
NeverAuthFromNew == \A w \in Workers : At(w, "auth") => Copy(w).state # "new"

(* An account in state queued leaves it: a scrape and a callback clear it. *)
QueuedClears ==
  (table = "row" /\ account.state = "queued") ~>
    (table # "row" \/ account.state # "queued")
==============================================================================
