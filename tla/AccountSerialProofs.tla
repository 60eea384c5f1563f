-------------------------- MODULE AccountSerialProofs --------------------------
(***************************************************************************)
(* Further proofs about AccountAuth, on top of AInv: what holds when one   *)
(* worker serves the requests of an account one after the other, no push   *)
(* raises or is missed and no worker dies.  However often the page saves,  *)
(* ESDB scrapes, and callbacks come or are lost, the copies agree with the *)
(* row, and so state, authenticated_at, expected portrait and notices      *)
(* agree with each other.                                                  *)
(***************************************************************************)
EXTENDS AccountAuthProofs

SerialAssumption(w) == Workers = {w} /\ Faults \subseteq {"loss"}

Serial == \E w : SerialAssumption(w)

(* What a request has to do with is there, and the copy is the row. *)
CopyIsRow(w) ==
  /\ ~At(w, "idle") => table = "row"
  /\ ~At(w, "idle") /\ ~At(w, "notify") => Copy(w) = account
  /\ At(w, "notify") => Copy(w).state = account.state

(* What a request saves is what the row says already. *)
JsonIsRow(w) ==
  At(w, "save") => /\ worker[w].json.state = account.state
                   /\ worker[w].json.authenticated = account.authenticated

(* Between the save of authenticated_at and auth! the page may be behind. *)
PageIsRow(w) ==
  browser.shown /\ ~At(w, "auth") => /\ browser.state = account.state
                                     /\ browser.authenticated = account.authenticated

(* authenticated_at is followed by auth!, which is legal. *)
AuthFollows(w) ==
  IF At(w, "auth") THEN account.authenticated /\ account.state \in {"unauthed", "queued"}
  ELSE account.authenticated <=> account.state = "authed"

(* Who was asked to wear a portrait is out of state new, or about to be. *)
AskedLeavesNew(w) ==
  account.expected # NoPortrait /\ ~At(w, "unauth") => account.state # "new"

(* Notices agree with the state until an event is about to replace them all. *)
NoticesAgree(w) ==
  IF At(w, "notify") THEN notices \subseteq worker[w].seen
  ELSE /\ "verify" \in notices => account.state # "authed"
       /\ "all_set" \in notices => account.state = "authed"

SInv(w) == /\ CopyIsRow(w) /\ JsonIsRow(w) /\ PageIsRow(w)
           /\ AuthFollows(w) /\ AskedLeavesNew(w) /\ NoticesAgree(w)

(* What no step takes back. *)
Keeps == account.authenticated => account'.authenticated
-------------------------------------------------------------------------------
(* A copy that is the row is saved as it is. *)
LEMMA SaveWhole ==
  ASSUME TypeOK, NEW w \in Workers, NEW new \in Rows, table = "row", Copy(w) = account,
         Save(w, new)
  PROVE  account' = new
<1>1. account \in Rows
  BY DEF TypeOK
<1>2. DOMAIN account = {"state", "authenticated", "portrait", "expected", "linked"}
  BY <1>1 DEF Rows
<1>3. account' = [c \in DOMAIN account |-> IF new[c] # account[c] THEN new[c] ELSE account[c]]
  BY DEF Save
<1>4. account' = [c \in DOMAIN account |-> new[c]]
  BY <1>3
<1>5. account' = [state |-> new.state, authenticated |-> new.authenticated,
                  portrait |-> new.portrait, expected |-> new.expected,
                  linked |-> new.linked]
  BY <1>2, <1>4
<1> QED BY <1>5 DEF Rows

(* No push is missed. *)
LEMMA PushWhole ==
  ASSUME "late" \notin Faults, table = "row", Push
  PROVE  browser' = ToJson(account')
  BY DEF Push

LEMMA WorkerOf ==
  ASSUME TypeOK, NEW w \in Workers
  PROVE  worker[w] \in Jobs /\ Copy(w) \in Rows /\ account \in Rows
  BY DEF TypeOK, Jobs, Copy
-------------------------------------------------------------------------------
(* The steps.  An update that changes columns but not what the parts look at.  *)

LEMMA SaveAndGoSerial ==
  ASSUME AInv, NEW w, SerialAssumption(w), SInv(w), NEW new \in Rows,
         NEW step \in WorkerSteps \ {"idle", "notify", "save"},
         ~At(w, "idle"), ~At(w, "notify"), SaveAndGo(w, new, step), UNCHANGED <<table, browser, notices>>
  PROVE  /\ account' = new /\ worker'[w].step = step /\ worker'[w].copy = new
         /\ CopyIsRow(w)' /\ JsonIsRow(w)'
<1>1. TypeOK /\ w \in Workers /\ table = "row" /\ Copy(w) = account
  BY DEF AInv, SerialAssumption, SInv, CopyIsRow
<1>2. account' = new
  BY <1>1, SaveWhole DEF SaveAndGo
<1>3. worker'[w].step = step /\ worker'[w].copy = new
  BY <1>1, WorkerOf DEF SaveAndGo, TypeOK, Jobs
<1> QED BY <1>1, <1>2, <1>3 DEF CopyIsRow, JsonIsRow, At, Copy

LEMMA SaveJsonSerial ==
  ASSUME AInv, NEW w, SerialAssumption(w), SInv(w), SaveJson(w)
  PROVE  SInv(w)' /\ Keeps
<1> DEFINE json == worker[w].json
           new == [Copy(w) EXCEPT !.state = json.state, !.portrait = json.portrait,
                                  !.authenticated = json.authenticated]
<1>1. TypeOK /\ w \in Workers /\ Copy(w) = account /\ account \in Rows /\ json \in Json
  BY WorkerOf DEF AInv, SerialAssumption, SInv, CopyIsRow, SaveJson, At, TypeOK, Jobs
<1>2. new \in Rows /\ new.state = account.state /\ new.authenticated = account.authenticated
      /\ new.expected = account.expected
  BY <1>1 DEF SInv, JsonIsRow, SaveJson, Rows, Json
<1>3. SaveAndGo(w, new, "sync") /\ UNCHANGED <<table, browser, notices>>
  BY DEF SaveJson
<1>4. /\ account' = new /\ worker'[w].step = "sync" /\ CopyIsRow(w)' /\ JsonIsRow(w)'
  <2> HIDE DEF new
  <2> QED BY <1>2, <1>3, SaveAndGoSerial DEF SaveJson, At, WorkerSteps
<1> HIDE DEF new
<1>5. At(w, "save") /\ worker'[w].step = "sync"
  BY <1>4 DEF SaveJson
<1> QED
  BY <1>2, <1>3, <1>4, <1>5
  DEF SInv, PageIsRow, AuthFollows, AskedLeavesNew, NoticesAgree, Keeps, At

LEMMA ApplySerial ==
  ASSUME AInv, NEW w, SerialAssumption(w), SInv(w), Apply(w)
  PROVE  SInv(w)' /\ Keeps
<1> DEFINE new == [Copy(w) EXCEPT !.linked = TRUE, !.portrait = worker[w].identity.portrait]
<1>1. TypeOK /\ w \in Workers /\ Copy(w) = account /\ account \in Rows
      /\ worker[w].identity \in Identities
  BY WorkerOf DEF AInv, SerialAssumption, SInv, CopyIsRow, Apply, At, TypeOK, Jobs
<1>2. new \in Rows /\ new.state = account.state /\ new.authenticated = account.authenticated
      /\ new.expected = account.expected
  BY <1>1 DEF Rows, Identities
<1>3. SaveAndGo(w, new, "decide") /\ UNCHANGED <<table, browser, notices>>
  BY DEF Apply
<1>4. /\ account' = new /\ worker'[w].step = "decide" /\ CopyIsRow(w)' /\ JsonIsRow(w)'
  <2> HIDE DEF new
  <2> QED BY <1>2, <1>3, SaveAndGoSerial DEF Apply, At, WorkerSteps
<1> HIDE DEF new
<1> QED
  BY <1>2, <1>3, <1>4
  DEF SInv, PageIsRow, AuthFollows, AskedLeavesNew, NoticesAgree, Keeps, At, Apply

(* An account whose portrait matches was asked, and so is out of state new;   *)
(* not being authenticated it is not authed: auth! is legal.                  *)
LEMMA ConfirmPortraitSerial ==
  ASSUME AInv, NEW w, SerialAssumption(w), SInv(w), ConfirmPortrait(w)
  PROVE  SInv(w)' /\ Keeps
<1> DEFINE new == [Copy(w) EXCEPT !.authenticated = TRUE]
<1>1. TypeOK /\ w \in Workers /\ Copy(w) = account /\ account \in Rows
  BY WorkerOf DEF AInv, SerialAssumption, SInv, CopyIsRow, ConfirmPortrait, At
<1>2. new \in Rows /\ new.state = account.state /\ new.authenticated
      /\ new.expected = account.expected
  BY <1>1 DEF Rows
<1>3. SaveAndGo(w, new, "auth") /\ UNCHANGED <<table, browser, notices>>
  BY DEF ConfirmPortrait
<1>4. /\ account' = new /\ worker'[w].step = "auth" /\ CopyIsRow(w)' /\ JsonIsRow(w)'
  <2> HIDE DEF new
  <2> QED BY <1>2, <1>3, SaveAndGoSerial DEF ConfirmPortrait, At, WorkerSteps
<1> HIDE DEF new
<1>5. account.state \in {"unauthed", "queued"}
  <2>1. account.expected # NoPortrait /\ ~account.authenticated
    BY <1>1 DEF ConfirmPortrait, Matches
  <2>2. account.state # "new" /\ account.state # "authed"
    BY <2>1 DEF SInv, AskedLeavesNew, AuthFollows, ConfirmPortrait, At
  <2> QED BY <1>1, <2>2 DEF Rows, States
<1> QED
  BY <1>2, <1>3, <1>4, <1>5
  DEF SInv, PageIsRow, AuthFollows, AskedLeavesNew, NoticesAgree, Keeps, At, ConfirmPortrait

LEMMA ExpectPortraitSerial ==
  ASSUME AInv, NEW w, SerialAssumption(w), SInv(w), ExpectPortrait(w)
  PROVE  SInv(w)' /\ Keeps
<1>1. TypeOK /\ w \in Workers /\ Copy(w) = account /\ account \in Rows
  BY WorkerOf DEF AInv, SerialAssumption, SInv, CopyIsRow, ExpectPortrait, At
<1>2. PICK portrait \in Expect(w) :
        SaveAndGo(w, [Copy(w) EXCEPT !.expected = portrait], "unauth")
  BY DEF ExpectPortrait
<1> DEFINE new == [Copy(w) EXCEPT !.expected = portrait]
<1>3. new \in Rows /\ new.state = account.state /\ new.authenticated = account.authenticated
      /\ (account.expected # NoPortrait => new.expected = account.expected)
  BY <1>1, <1>2, ExpectType DEF Rows, Expect
<1>4. SaveAndGo(w, new, "unauth") /\ UNCHANGED <<table, browser, notices>>
  BY <1>2 DEF ExpectPortrait
<1>5. /\ account' = new /\ worker'[w].step = "unauth" /\ CopyIsRow(w)' /\ JsonIsRow(w)'
  <2> HIDE DEF new
  <2> QED BY <1>3, <1>4, SaveAndGoSerial DEF ExpectPortrait, At, WorkerSteps
<1> HIDE DEF new
<1> QED
  BY <1>3, <1>4, <1>5
  DEF SInv, PageIsRow, AuthFollows, AskedLeavesNew, NoticesAgree, Keeps, At, ExpectPortrait

-------------------------------------------------------------------------------
(* Events: the row, the page and what the request goes on with.               *)

LEMMA FireSerial ==
  ASSUME AInv, NEW w, SerialAssumption(w), SInv(w), NEW st \in States,
         NEW step \in {"idle", "notify"}, ~At(w, "idle"), ~At(w, "notify"),
         Fire(w, [Copy(w) EXCEPT !.state = st], step), UNCHANGED table
  PROVE  /\ account' = [account EXCEPT !.state = st] /\ browser' = ToJson(account')
         /\ worker'[w].step = step
         /\ step = "notify" => worker'[w].seen = notices
         /\ CopyIsRow(w)' /\ JsonIsRow(w)' /\ PageIsRow(w)'
<1> DEFINE new == [Copy(w) EXCEPT !.state = st]
<1>1. /\ TypeOK /\ w \in Workers /\ Copy(w) = account /\ account \in Rows /\ table = "row"
      /\ "late" \notin Faults
  BY WorkerOf DEF AInv, SerialAssumption, SInv, CopyIsRow, At
<1>2. new \in Rows /\ new.state = st
  BY <1>1 DEF Rows
<1>3. account' = new
  <2>1. Save(w, new)
    BY DEF Fire
  <2> HIDE DEF new
  <2> QED BY <1>1, <1>2, <2>1, SaveWhole
<1>4. browser' = ToJson(account')
  BY <1>1, PushWhole DEF Fire
<1>5. CASE step = "idle"
  <2>1. worker'[w] = Idle
    BY <1>1, <1>5 DEF Fire, TypeOK
  <2>2. worker'[w].step = "idle"
    BY <2>1 DEF Idle
  <2> QED
    BY <1>1, <1>3, <1>4, <1>5, <2>2 DEF CopyIsRow, JsonIsRow, PageIsRow, ToJson, At
<1>6. CASE step = "notify"
  <2>1. worker'[w] = [Idle EXCEPT !.copy.state = new.state, !.step = "notify", !.seen = notices]
    BY <1>1, <1>6 DEF Fire, TypeOK
  <2>2. /\ worker'[w].step = "notify" /\ worker'[w].seen = notices
        /\ worker'[w].copy.state = new.state
    BY <2>1 DEF Idle, NewAccount
  <2> QED
    BY <1>1, <1>3, <1>4, <1>6, <2>2 DEF CopyIsRow, JsonIsRow, PageIsRow, ToJson, At, Copy
<1> QED BY <1>5, <1>6

LEMMA QueueSerial ==
  ASSUME AInv, NEW w, SerialAssumption(w), SInv(w), Queue(w)
  PROVE  SInv(w)' /\ Keeps
<1> DEFINE st == IF account.state = "authed" THEN "authed" ELSE "queued"
<1>1. /\ Copy(w) = account /\ account \in Rows
      /\ At(w, "decide") /\ UNCHANGED <<table, notices>>
  BY WorkerOf DEF AInv, SerialAssumption, SInv, CopyIsRow, Queue, At
<1>2. st \in States /\ Fire(w, [Copy(w) EXCEPT !.state = st], "idle")
  BY <1>1 DEF Queue, States
<1>3. /\ account' = [account EXCEPT !.state = st] /\ worker'[w].step = "idle"
      /\ CopyIsRow(w)' /\ JsonIsRow(w)' /\ PageIsRow(w)'
  <2> HIDE DEF st
  <2> QED BY <1>1, <1>2, FireSerial DEF At
<1>4. account'.state = st /\ account'.authenticated = account.authenticated
      /\ account'.expected = account.expected
  BY <1>1, <1>3 DEF Rows
<1> QED
  BY <1>1, <1>3, <1>4 DEF SInv, AuthFollows, AskedLeavesNew, NoticesAgree, Keeps, At

LEMMA AuthSerial ==
  ASSUME AInv, NEW w, SerialAssumption(w), SInv(w), Auth(w)
  PROVE  SInv(w)' /\ Keeps
<1>1. /\ Copy(w) = account /\ account \in Rows /\ "authed" \in States
      /\ At(w, "auth") /\ UNCHANGED <<table, notices>>
      /\ Fire(w, [Copy(w) EXCEPT !.state = "authed"], "notify")
  BY WorkerOf DEF AInv, SerialAssumption, SInv, CopyIsRow, Auth, At, States
<1>2. /\ account' = [account EXCEPT !.state = "authed"] /\ worker'[w].step = "notify"
      /\ worker'[w].seen = notices
      /\ CopyIsRow(w)' /\ JsonIsRow(w)' /\ PageIsRow(w)'
  BY <1>1, FireSerial DEF At
<1>3. account'.state = "authed" /\ account'.authenticated = account.authenticated
      /\ account'.expected = account.expected
  BY <1>1, <1>2 DEF Rows
<1> QED
  BY <1>1, <1>2, <1>3 DEF SInv, AuthFollows, AskedLeavesNew, NoticesAgree, Keeps, At

LEMMA UnauthSerial ==
  ASSUME AInv, NEW w, SerialAssumption(w), SInv(w), Unauth(w)
  PROVE  SInv(w)' /\ Keeps
<1>1. /\ Copy(w) = account /\ account \in Rows /\ "unauthed" \in States
      /\ At(w, "unauth") /\ UNCHANGED <<table, notices>>
      /\ account.state \in {"new", "queued"}
      /\ Fire(w, [Copy(w) EXCEPT !.state = "unauthed"], "notify")
  BY WorkerOf DEF AInv, SerialAssumption, SInv, CopyIsRow, Unauth, At, States
<1>2. /\ account' = [account EXCEPT !.state = "unauthed"] /\ worker'[w].step = "notify"
      /\ worker'[w].seen = notices
      /\ CopyIsRow(w)' /\ JsonIsRow(w)' /\ PageIsRow(w)'
  BY <1>1, FireSerial DEF At
<1>3. account'.state = "unauthed" /\ account'.authenticated = account.authenticated
      /\ account'.expected = account.expected
  BY <1>1, <1>2 DEF Rows
<1> QED
  BY <1>1, <1>2, <1>3 DEF SInv, AuthFollows, AskedLeavesNew, NoticesAgree, Keeps, At

(* The one notice that is left is of the event that was fired. *)
LEMMA NotifySerial ==
  ASSUME AInv, NEW w, SerialAssumption(w), SInv(w), Notify(w)
  PROVE  SInv(w)' /\ Keeps
<1>1. /\ TypeOK /\ w \in Workers /\ table = "row" /\ "late" \notin Faults
      /\ At(w, "notify") /\ UNCHANGED <<table, account>>
      /\ notices \subseteq worker[w].seen /\ Copy(w).state = account.state
  BY DEF AInv, SerialAssumption, SInv, CopyIsRow, NoticesAgree, Notify, At
<1>2. browser' = ToJson(account) /\ worker'[w].step = "idle"
  BY <1>1, PushWhole DEF Notify, Respond, TypeOK, Idle
<1>3. notices' = {IF account.state = "authed" THEN "all_set" ELSE "verify"}
  BY <1>1 DEF Notify, NoticeOf
<1> QED
  BY <1>1, <1>2, <1>3
  DEF SInv, CopyIsRow, JsonIsRow, PageIsRow, AuthFollows, AskedLeavesNew, NoticesAgree,
      Keeps, ToJson, At

-------------------------------------------------------------------------------
(* Requests that begin or end, and the world outside. *)

LEMMA EndSerial ==
  ASSUME AInv, NEW w, SerialAssumption(w), SInv(w),
         SyncFails(w) \/ LeaveAsIs(w) \/ NoEvent(w)
  PROVE  SInv(w)' /\ Keeps
<1>1. /\ TypeOK /\ w \in Workers /\ UNCHANGED <<table, account, browser, notices>>
      /\ ~At(w, "idle") /\ ~At(w, "notify") /\ Copy(w) = account /\ Respond(w)
  BY DEF AInv, SerialAssumption, SInv, CopyIsRow, SyncFails, LeaveAsIs, NoEvent, At
<1>2. worker'[w].step = "idle"
  BY <1>1 DEF Respond, TypeOK, Idle
<1>3. ~At(w, "auth")
  BY <1>1 DEF SyncFails, LeaveAsIs, NoEvent, SInv, AuthFollows, At
<1>4. At(w, "unauth") => account.state # "new"
  BY <1>1 DEF SyncFails, LeaveAsIs, NoEvent, At
<1> QED
  BY <1>1, <1>2, <1>3, <1>4
  DEF SInv, CopyIsRow, JsonIsRow, PageIsRow, AuthFollows, AskedLeavesNew, NoticesAgree,
      Keeps, At

LEMMA SyncSerial ==
  ASSUME AInv, NEW w, SerialAssumption(w), SInv(w), Sync(w)
  PROVE  SInv(w)' /\ Keeps
<1>1. TypeOK /\ w \in Workers /\ At(w, "sync") /\ UNCHANGED <<table, account, browser, notices>>
  BY DEF AInv, SerialAssumption, Sync
<1>2. worker'[w].step = "apply" /\ worker'[w].copy = worker[w].copy
  BY <1>1, WorkerOf DEF Sync, TypeOK, Jobs
<1> QED
  BY <1>1, <1>2
  DEF SInv, CopyIsRow, JsonIsRow, PageIsRow, AuthFollows, AskedLeavesNew, NoticesAgree,
      Keeps, At, Copy

LEMMA CreateSerial ==
  ASSUME AInv, NEW w, SerialAssumption(w), SInv(w), Create(w)
  PROVE  SInv(w)' /\ Keeps
<1>1. /\ TypeOK /\ w \in Workers /\ At(w, "idle") /\ UNCHANGED <<browser, notices>>
      /\ table' = "row" /\ account = NewAccount /\ browser = NoAccount /\ account' = NewAccount
  BY DEF AInv, SerialAssumption, Create, NotCreatedYet
<1>2. worker'[w].step = "sync" /\ worker'[w].copy = NewAccount
  BY <1>1 DEF Create, TypeOK, Idle
<1> QED
  BY <1>1, <1>2
  DEF SInv, CopyIsRow, JsonIsRow, PageIsRow, AuthFollows, AskedLeavesNew, NoticesAgree,
      Keeps, At, Copy, NoAccount

LEMMA BeginUpdateSerial ==
  ASSUME AInv, NEW w, SerialAssumption(w), SInv(w), BeginUpdate(w)
  PROVE  SInv(w)' /\ Keeps
<1>1. /\ TypeOK /\ w \in Workers /\ At(w, "idle") /\ table = "row" /\ browser.shown
      /\ UNCHANGED <<table, account, browser, notices>>
  BY DEF AInv, SerialAssumption, BeginUpdate
<1>2. worker'[w].step = "save" /\ worker'[w].copy = account /\ worker'[w].json = browser
  BY <1>1 DEF BeginUpdate, TypeOK, Idle
<1> QED
  BY <1>1, <1>2
  DEF SInv, CopyIsRow, JsonIsRow, PageIsRow, AuthFollows, AskedLeavesNew, NoticesAgree,
      Keeps, At, Copy

LEMMA IdentityUpdateSerial ==
  ASSUME AInv, NEW w, SerialAssumption(w), SInv(w), NEW identity \in calls,
         IdentityUpdate(w, identity)
  PROVE  SInv(w)' /\ Keeps
<1>1. /\ TypeOK /\ w \in Workers /\ At(w, "idle")
      /\ UNCHANGED <<table, account, browser, notices>>
  BY DEF AInv, SerialAssumption, IdentityUpdate
<1>2. CASE UNCHANGED worker
  BY <1>1, <1>2
  DEF SInv, CopyIsRow, JsonIsRow, PageIsRow, AuthFollows, AskedLeavesNew, NoticesAgree,
      Keeps, At
<1>3. CASE table = "row" /\ worker'[w].step = "apply" /\ worker'[w].copy = account
  BY <1>1, <1>3
  DEF SInv, CopyIsRow, JsonIsRow, PageIsRow, AuthFollows, AskedLeavesNew, NoticesAgree,
      Keeps, At, Copy
<1>4. \/ UNCHANGED worker
      \/ table = "row" /\ worker'[w].step = "apply" /\ worker'[w].copy = account
  BY <1>1 DEF IdentityUpdate, TypeOK, Idle
<1> QED BY <1>2, <1>3, <1>4

LEMMA OutsideSerial ==
  ASSUME AInv, NEW w, SerialAssumption(w), SInv(w),
         \/ Destroy(w) \/ LoadPage \/ AckNotice
         \/ \E portrait \in Basics : Wear(portrait)
         \/ Scrape \/ LoseCall \/ UNCHANGED vars
  PROVE  SInv(w)' /\ Keeps
<1> USE DEF SInv, CopyIsRow, JsonIsRow, PageIsRow, AuthFollows, AskedLeavesNew, NoticesAgree,
            Keeps, At, Copy
<1>1. CASE Destroy(w)   BY <1>1 DEF Destroy
<1>2. CASE LoadPage     BY <1>2 DEF LoadPage, ToJson
<1>3. CASE AckNotice    BY <1>3 DEF AckNotice
<1>4. CASE UNCHANGED site
  BY <1>4 DEF site
<1> QED BY <1>1, <1>2, <1>3, <1>4 DEF Wear, Scrape, LoseCall, vars, site

LEMMA SInvStep ==
  ASSUME AInv, NEW w, SerialAssumption(w), SInv(w), [Next]_vars
  PROVE  SInv(w)' /\ Keeps
<1>1. ASSUME WorkerStep(w) \/ Dies(w)
      PROVE  SInv(w)' /\ Keeps
  <2>1. ~PushRaises(w) /\ ~Dies(w)
    BY DEF PushRaises, Dies, SerialAssumption
  <2> QED
    BY <1>1, <2>1, SaveJsonSerial, SyncSerial, EndSerial, ApplySerial, QueueSerial,
       ConfirmPortraitSerial, ExpectPortraitSerial, AuthSerial, UnauthSerial, NotifySerial
    DEF WorkerStep
<1>2. ASSUME Create(w) \/ BeginUpdate(w) \/ \E identity \in calls : IdentityUpdate(w, identity)
      PROVE  SInv(w)' /\ Keeps
  BY <1>2, CreateSerial, BeginUpdateSerial, IdentityUpdateSerial
<1>3. \A v \in Workers : v = w
  BY DEF SerialAssumption
<1> QED BY <1>1, <1>2, <1>3, OutsideSerial DEF Next
-------------------------------------------------------------------------------
LEMMA InitSInv ==
  ASSUME NEW w, SerialAssumption(w), Init
  PROVE  SInv(w)
<1>1. worker[w].step = "idle"
  BY DEF Init, SerialAssumption, Idle
<1>2. /\ ~browser.shown /\ notices = {} /\ account.state = "new" /\ ~account.authenticated
      /\ account.expected = NoPortrait
  BY DEF Init, NewAccount, NoAccount, ToJson
<1> QED
  BY <1>1, <1>2
  DEF SInv, CopyIsRow, JsonIsRow, PageIsRow, AuthFollows, AskedLeavesNew, NoticesAgree, At

LEMMA AlwaysSInv ==
  ASSUME NEW w, SerialAssumption(w)
  PROVE  Spec => []SInv(w) /\ [][Keeps]_vars
<1>1. Init => AInv /\ SInv(w)
  BY InitAInv, InitSInv
<1>2. AInv /\ SInv(w) /\ [Next]_vars => AInv' /\ SInv(w)' /\ [Keeps]_vars
  BY StepAInv, SInvStep
<1> QED BY <1>1, <1>2, PTL DEF Spec

(* Requests served one at a time: an account in state authed has an            *)
(* authenticated_at, since auth! is fired after it has been saved and the page *)
(* saves both as they are.                                                     *)
THEOREM AuthedImpliesAuthenticated ==
  ASSUME Serial
  PROVE  Spec => []AuthedIsAuthenticated
<1>1. PICK w : SerialAssumption(w)
  BY DEF Serial
<1>2. SInv(w) => AuthedIsAuthenticated
  BY DEF SInv, AuthFollows, AuthedIsAuthenticated
<1>3. Spec => []SInv(w)
  BY <1>1, AlwaysSInv
<1> QED BY <1>2, <1>3, PTL

(* Requests served one at a time: between two requests an account with an      *)
(* authenticated_at is in state authed: auth! follows the save and is legal,   *)
(* because an account with an expected portrait has left state new.            *)
THEOREM AuthenticatedImpliesAuthed ==
  ASSUME Serial
  PROVE  Spec => []AuthenticatedIsAuthed
<1>1. PICK w : SerialAssumption(w)
  BY DEF Serial
<1>2. SInv(w) => AuthenticatedIsAuthed
  BY <1>1 DEF SInv, AuthFollows, AuthenticatedIsAuthed, AllIdle, At, SerialAssumption
<1>3. Spec => []SInv(w)
  BY <1>1, AlwaysSInv
<1> QED BY <1>2, <1>3, PTL

(* Requests served one at a time: between two requests no unacknowledged notice *)
(* contradicts the state of the account.                                        *)
THEOREM NoticesFit ==
  ASSUME Serial
  PROVE  Spec => []NoticeFits
<1>1. PICK w : SerialAssumption(w)
  BY DEF Serial
<1>2. SInv(w) => NoticeFits
  BY <1>1 DEF SInv, NoticesAgree, NoticeFits, AllIdle, At, SerialAssumption
<1>3. Spec => []SInv(w)
  BY <1>1, AlwaysSInv
<1> QED BY <1>2, <1>3, PTL

(* Requests served one at a time: the settings page, which saves the account as *)
(* a whole, takes no authentication back.                                       *)
THEOREM AuthenticationKept ==
  ASSUME Serial
  PROVE  Spec => AuthenticationStays
<1>1. PICK w : SerialAssumption(w)
  BY DEF Serial
<1>2. [Keeps]_vars => [account.authenticated => account'.authenticated]_vars
  BY DEF Keeps
<1>3. Spec => [][Keeps]_vars
  BY <1>1, AlwaysSInv
<1> QED BY <1>2, <1>3, PTL DEF AuthenticationStays
================================================================================
