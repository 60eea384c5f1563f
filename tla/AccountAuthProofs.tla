--------------------------- MODULE AccountAuthProofs ---------------------------
(***************************************************************************)
(* Proofs about AccountAuth, for any number of workers and saves of the    *)
(* page, any portraits and any set of faults.  The inductive invariant,    *)
(* AInv, says of every copy of the row (a worker's, the JSON of a request, *)
(* the page) that it is not ahead of the row in two respects: as long as   *)
(* the row has no expected portrait nothing claims to be authenticated,    *)
(* and as long as it is not linked every copy is new.  Both columns are    *)
(* saved before any event is pushed, so that this holds of the page too    *)
(* when a worker dies between the push and the commit.                     *)
(***************************************************************************)
EXTENDS AccountAuth, TLAPS

(* Before the account is created nothing knows of it. *)
NotCreatedYet ==
  table = "none" => /\ account = NewAccount
                    /\ browser = NoAccount
                    /\ \A w \in Workers : worker[w] = Idle

(* No expected portrait in the row: no copy has one or is authenticated. *)
NoCopyAsked ==
  table = "row" /\ account.expected = NoPortrait =>
    /\ ~browser.authenticated /\ browser.state # "authed"
    /\ \A w \in Workers :
         LET json == worker[w].json IN
           /\ ~json.authenticated /\ json.state # "authed"
           /\ ~Copy(w).authenticated /\ Copy(w).state # "authed"
           /\ Copy(w).expected = NoPortrait
           /\ ~At(w, "auth")

(* No esdb_id in the row: every copy is new, and nobody is past Apply. *)
NoCopyLinked ==
  table = "row" /\ ~account.linked =>
    /\ browser.state = "new"
    /\ \A w \in Workers :
         /\ worker[w].json.state = "new"
         /\ Copy(w).state = "new" /\ ~Copy(w).linked
         /\ worker[w].step \in {"idle", "save", "sync", "apply"}

AInv == /\ TypeOK
        /\ NotCreatedYet
        /\ NoCopyAsked
        /\ NoCopyLinked
        /\ AuthenticatedWasAsked
        /\ LeftNewIsLinked
-------------------------------------------------------------------------------
(* Saving a copy writes the columns the copy changed and no other. *)

LEMMA SaveColumns ==
  ASSUME TypeOK, NEW w \in Workers, NEW new \in Rows, Save(w, new)
  PROVE  /\ account' \in Rows
         /\ account'.state \in {account.state, new.state}
         /\ new.state = Copy(w).state => account'.state = account.state
         /\ account'.authenticated \in {account.authenticated, new.authenticated}
         /\ new.authenticated = Copy(w).authenticated => account'.authenticated = account.authenticated
         /\ account'.expected \in {account.expected, new.expected}
         /\ new.expected = Copy(w).expected => account'.expected = account.expected
         /\ table = "row" /\ new.expected # Copy(w).expected => account'.expected = new.expected
         /\ account'.linked \in {account.linked, new.linked}
         /\ table = "row" /\ new.linked # Copy(w).linked => account'.linked = new.linked
         /\ new.linked = Copy(w).linked => account'.linked = account.linked
<1>1. account \in Rows /\ Copy(w) \in Rows
  BY DEF TypeOK, Jobs, Copy
<1>2. CASE table # "row"
  BY <1>1, <1>2 DEF Save
<1>3. CASE table = "row"
  <2>1. DOMAIN account = {"state", "authenticated", "portrait", "expected", "linked"}
    BY <1>1 DEF Rows
  <2>2. account' = [c \in DOMAIN account |-> IF new[c] # Copy(w)[c] THEN new[c] ELSE account[c]]
    BY <1>3 DEF Save
  <2>3. account' = [state |-> account'.state, authenticated |-> account'.authenticated,
                    portrait |-> account'.portrait, expected |-> account'.expected,
                    linked |-> account'.linked]
    BY <2>1, <2>2
  <2> QED BY <1>1, <1>3, <2>1, <2>2, <2>3 DEF Rows
<1> QED BY <1>2, <1>3

-------------------------------------------------------------------------------
(* Type correctness. *)

LEMMA IdleType == Idle \in Jobs /\ NoAccount \in Json /\ NewAccount \in Rows
  BY DEF Idle, Jobs, NoAccount, NewAccount, ToJson, Json, Rows, Identities, NoIdentity,
         WorkerSteps, States, Portraits, Notices

LEMMA JsonType == \A r \in Rows : ToJson(r) \in Json
  BY DEF ToJson, Json, Rows

(* A change of the record of one worker. *)
LEMMA WorkerType ==
  ASSUME TypeOK, NEW w \in Workers, NEW new \in Jobs, worker' = [worker EXCEPT ![w] = new]
  PROVE  worker' \in [Workers -> Jobs]
  BY DEF TypeOK

LEMMA SaveAndGoType ==
  ASSUME TypeOK, NEW w \in Workers, NEW new \in Rows, NEW step \in WorkerSteps,
         SaveAndGo(w, new, step)
  PROVE  account' \in Rows /\ worker' \in [Workers -> Jobs]
<1>1. account' \in Rows
  BY SaveColumns DEF SaveAndGo
<1>2. [worker[w] EXCEPT !.copy = new, !.step = step, !.json = Idle.json] \in Jobs
  BY IdleType DEF TypeOK, Jobs
<1> QED BY <1>1, <1>2 DEF SaveAndGo, TypeOK

LEMMA PushType ==
  ASSUME TypeOK, account' \in Rows, Push
  PROVE  browser' \in Json
  BY JsonType, IdleType DEF Push, TypeOK

LEMMA FireType ==
  ASSUME TypeOK, NEW w \in Workers, NEW new \in Rows, NEW step \in WorkerSteps,
         Fire(w, new, step)
  PROVE  account' \in Rows /\ worker' \in [Workers -> Jobs] /\ browser' \in Json
<1>1. account' \in Rows
  BY SaveColumns DEF Fire
<1>2. [Idle EXCEPT !.copy.state = new.state, !.step = step, !.seen = notices] \in Jobs
  BY IdleType DEF TypeOK, Jobs, Rows
<1> QED BY <1>1, <1>2, PushType, IdleType DEF Fire, TypeOK

(* Respond and the changes that only replace a worker's record. *)
LEMMA RespondType ==
  ASSUME TypeOK, NEW w \in Workers, Respond(w)
  PROVE  worker' \in [Workers -> Jobs]
  BY IdleType DEF Respond, TypeOK

(* Expect chooses among the portraits; one it did not have before is not nil. *)
LEMMA ExpectType ==
  ASSUME TypeOK, NEW w \in Workers, NEW portrait \in Expect(w)
  PROVE  portrait \in Portraits /\ (portrait # Copy(w).expected => portrait # NoPortrait)
<1>1. Copy(w) \in Rows
  BY DEF TypeOK, Jobs, Copy
<1> QED BY <1>1, PortraitsAssumption DEF Expect, Basics, Portraits, Rows

-------------------------------------------------------------------------------
(* What a worker writes and remembers is not ahead of the row.               *)

(* The new copy claims no more than the row and what this save adds to it. *)
SoundCopy(w, new) ==
  /\ new.expected = Copy(w).expected \/ new.expected # NoPortrait
  /\ new.linked = Copy(w).linked \/ new.linked
  /\ table = "row" /\ account.expected = NoPortrait /\ new.expected = NoPortrait =>
       ~new.authenticated /\ new.state # "authed"
  /\ table = "row" /\ ~account.linked /\ ~new.linked => new.state = "new"

LEMMA SaveSound ==
  ASSUME AInv, NEW w \in Workers, NEW new \in Rows, Save(w, new), SoundCopy(w, new)
  PROVE  /\ AuthenticatedWasAsked' /\ LeftNewIsLinked'
         /\ table # "row" => account' = account
         /\ table = "row" /\ account'.expected = NoPortrait =>
              account.expected = NoPortrait /\ new.expected = NoPortrait
         /\ table = "row" /\ ~account'.linked => ~account.linked /\ ~new.linked
<1>1. account \in Rows /\ Copy(w) \in Rows /\ account' \in Rows
  BY SaveColumns DEF AInv, TypeOK, Jobs, Copy
<1>2. CASE table # "row"
  BY <1>2 DEF AInv, AuthenticatedWasAsked, LeftNewIsLinked, Save
<1>3. CASE table = "row"
  <2>1. account'.expected = NoPortrait =>
          account.expected = NoPortrait /\ new.expected = NoPortrait
    BY <1>1, <1>3, SaveColumns DEF AInv, SoundCopy, NoCopyAsked
  <2>2. ~account'.linked => ~account.linked /\ ~new.linked
    BY <1>1, <1>3, SaveColumns DEF AInv, SoundCopy, NoCopyLinked, Rows
  <2>3. AuthenticatedWasAsked'
    BY <1>3, <2>1, SaveColumns DEF AInv, SoundCopy, AuthenticatedWasAsked
  <2>4. LeftNewIsLinked'
    BY <1>3, <2>2, SaveColumns DEF AInv, SoundCopy, LeftNewIsLinked
  <2> QED BY <1>3, <2>1, <2>2, <2>3, <2>4
<1> QED BY <1>2, <1>3

(* The invariant without types, and what keeps it when a worker moves on. *)
Sound == NotCreatedYet /\ NoCopyAsked /\ NoCopyLinked /\ AuthenticatedWasAsked /\ LeftNewIsLinked

LEMMA SaveAndGoSound ==
  ASSUME AInv, NEW w \in Workers, NEW new \in Rows, NEW step \in WorkerSteps,
         ~At(w, "idle"), SaveAndGo(w, new, step), SoundCopy(w, new),
         UNCHANGED <<table, browser>>,
         step = "auth" => new.expected # NoPortrait,
         table = "row" /\ step \in {"decide", "auth", "unauth", "notify"} =>
           new.linked \/ account.linked
  PROVE  Sound'
<1>1. worker' = [worker EXCEPT ![w] = [worker[w] EXCEPT !.copy = new, !.step = step,
                                                       !.json = Idle.json]]
      /\ Save(w, new) /\ worker[w] \in Jobs
  BY DEF SaveAndGo, AInv, TypeOK
<1>2. table # "none"
  BY DEF AInv, NotCreatedYet, At, Idle
<1>3. /\ worker'[w].json = NoAccount /\ Copy(w)' = new /\ worker'[w].step = step
      /\ \A v \in Workers \ {w} : worker'[v] = worker[v]
  BY <1>1 DEF AInv, TypeOK, Idle, Copy, Jobs
<1>4. NoAccount.state = "new" /\ ~NoAccount.authenticated
  BY DEF NoAccount, NewAccount, ToJson
<1>5. AuthenticatedWasAsked' /\ LeftNewIsLinked'
  BY <1>1, SaveSound
<1>6. NoCopyAsked'
  <2> SUFFICES ASSUME table = "row", account'.expected = NoPortrait
               PROVE  NoCopyAsked'
    BY DEF NoCopyAsked
  <2>1. account.expected = NoPortrait /\ new.expected = NoPortrait
    BY <1>1, SaveSound
  <2> QED BY <1>3, <1>4, <2>1 DEF AInv, NoCopyAsked, SoundCopy, Copy, At
<1>7. NoCopyLinked'
  <2> SUFFICES ASSUME table = "row", ~account'.linked
               PROVE  NoCopyLinked'
    BY DEF NoCopyLinked
  <2>1. ~account.linked /\ ~new.linked
    BY <1>1, SaveSound
  <2> QED BY <1>3, <1>4, <2>1 DEF AInv, NoCopyLinked, SoundCopy, Copy, WorkerSteps
<1> QED BY <1>2, <1>5, <1>6, <1>7 DEF Sound, NotCreatedYet

(* The page after a push shows nothing that is not in the row. *)
LEMMA FireSound ==
  ASSUME AInv, NEW w \in Workers, NEW new \in Rows, NEW step \in {"idle", "notify"},
         ~At(w, "idle"), Fire(w, new, step), SoundCopy(w, new), UNCHANGED table,
         table = "row" /\ step = "notify" => new.linked \/ account.linked
  PROVE  Sound'
<1>1. Save(w, new) /\ Push /\ worker \in [Workers -> Jobs]
  BY DEF Fire, AInv, TypeOK
<1>2. table # "none"
  BY DEF AInv, NotCreatedYet, At, Idle
<1>3. /\ worker'[w].json = NoAccount
      /\ worker'[w].step = step
      /\ Copy(w)'.state \in {"new", new.state}
      /\ ~Copy(w)'.authenticated /\ Copy(w)'.expected = NoPortrait /\ ~Copy(w)'.linked
      /\ \A v \in Workers \ {w} : worker'[v] = worker[v]
  BY <1>1 DEF Fire, Idle, Copy, NewAccount
<1>4. /\ NoAccount.state = "new" /\ ~NoAccount.authenticated
      /\ ToJson(account').state = account'.state
      /\ ToJson(account').authenticated = account'.authenticated
  BY DEF NoAccount, NewAccount, ToJson
<1>5. AuthenticatedWasAsked' /\ LeftNewIsLinked'
  BY <1>1, SaveSound
<1>6. NoCopyAsked'
  <2> SUFFICES ASSUME table = "row", account'.expected = NoPortrait
               PROVE  NoCopyAsked'
    BY DEF NoCopyAsked
  <2>1. account.expected = NoPortrait /\ new.expected = NoPortrait
    BY <1>1, SaveSound
  <2>2. ~browser'.authenticated /\ browser'.state # "authed"
    BY <1>1, <1>4, <1>5, <2>1 DEF AInv, NoCopyAsked, Push, AuthenticatedWasAsked
  <2> QED BY <1>3, <1>4, <2>1, <2>2 DEF AInv, NoCopyAsked, SoundCopy, Copy, At
<1>7. NoCopyLinked'
  <2> SUFFICES ASSUME table = "row", ~account'.linked
               PROVE  NoCopyLinked'
    BY DEF NoCopyLinked
  <2>1. ~account.linked /\ ~new.linked
    BY <1>1, SaveSound
  <2>2. browser'.state = "new"
    BY <1>1, <1>4, <1>5, <2>1 DEF AInv, NoCopyLinked, Push, LeftNewIsLinked
  <2> QED BY <1>3, <1>4, <2>1, <2>2 DEF AInv, NoCopyLinked, SoundCopy, Copy
<1> QED BY <1>2, <1>5, <1>6, <1>7 DEF Sound, NotCreatedYet

(* A worker that only changes its own record, to one not ahead of the row. *)
LEMMA MoveSound ==
  ASSUME AInv, NEW w \in Workers, NEW new \in Jobs, worker' = [worker EXCEPT ![w] = new],
         UNCHANGED <<table, account, browser>>,
         table = "none" => new = Idle,
         table = "row" /\ account.expected = NoPortrait =>
           /\ ~new.json.authenticated /\ new.json.state # "authed"
           /\ ~new.copy.authenticated /\ new.copy.state # "authed"
           /\ new.copy.expected = NoPortrait /\ new.step # "auth",
         table = "row" /\ ~account.linked =>
           /\ new.json.state = "new" /\ new.copy.state = "new" /\ ~new.copy.linked
           /\ new.step \in {"idle", "save", "sync", "apply"}
  PROVE  Sound'
<1>1. worker'[w] = new /\ \A v \in Workers \ {w} : worker'[v] = worker[v]
  BY DEF AInv, TypeOK
<1>2. NotCreatedYet'
  BY <1>1 DEF AInv, NotCreatedYet
<1>3. NoCopyAsked'
  BY <1>1 DEF AInv, NoCopyAsked, Copy, At
<1>4. NoCopyLinked'
  BY <1>1 DEF AInv, NoCopyLinked, Copy
<1>5. AuthenticatedWasAsked' /\ LeftNewIsLinked'
  BY DEF AInv, AuthenticatedWasAsked, LeftNewIsLinked
<1> QED BY <1>2, <1>3, <1>4, <1>5 DEF Sound

LEMMA RespondSound ==
  ASSUME AInv, NEW w \in Workers, Respond(w), UNCHANGED <<table, account, browser>>
  PROVE  Sound'
<1>1. /\ Idle.json.state = "new" /\ ~Idle.json.authenticated /\ Idle.step = "idle"
      /\ Idle.copy.state = "new" /\ ~Idle.copy.authenticated
      /\ Idle.copy.expected = NoPortrait /\ ~Idle.copy.linked
  BY DEF Idle, NoAccount, NewAccount, ToJson
<1> QED BY <1>1, IdleType, MoveSound DEF Respond

(* No worker moves: the page shows the row, or nothing inside changes. *)
LEMMA PageSound ==
  ASSUME AInv, UNCHANGED <<table, account, worker>>,
         browser' = browser \/ (table = "row" /\ browser' = ToJson(account))
  PROVE  Sound'
<1>1. /\ ToJson(account).state = account.state
      /\ ToJson(account).authenticated = account.authenticated
  BY DEF ToJson
<1> QED
  BY <1>1 DEF AInv, Sound, NotCreatedYet, NoCopyAsked, NoCopyLinked, AuthenticatedWasAsked,
              LeftNewIsLinked, Copy, At
-------------------------------------------------------------------------------
(* The steps of a worker that decides on its copy. *)

(* Facts about a copy that every step below starts from. *)
LEMMA CopyFacts ==
  ASSUME AInv, NEW w \in Workers
  PROVE  /\ Copy(w) \in Rows /\ worker[w] \in Jobs
         /\ worker[w].json \in Json /\ worker[w].identity \in Identities
         /\ table = "row" /\ account.expected = NoPortrait =>
              /\ ~Copy(w).authenticated /\ Copy(w).state # "authed"
              /\ Copy(w).expected = NoPortrait
         /\ table = "row" /\ ~account.linked => Copy(w).state = "new" /\ ~Copy(w).linked
         /\ table = "row" /\ worker[w].step \in {"decide", "auth", "unauth", "notify"} =>
              account.linked
  BY DEF AInv, TypeOK, Jobs, Copy, NoCopyAsked, NoCopyLinked

LEMMA SaveJsonKeeps ==
  ASSUME AInv, NEW w \in Workers, SaveJson(w)
  PROVE  TypeOK' /\ Sound'
<1> DEFINE json == worker[w].json
           new  == [Copy(w) EXCEPT !.state = json.state, !.portrait = json.portrait,
                                   !.authenticated = json.authenticated]
<1>1. new \in Rows
  BY CopyFacts DEF Rows, Json
<1>2. SoundCopy(w, new)
  BY CopyFacts DEF SoundCopy, AInv, NoCopyAsked, NoCopyLinked, Rows
<1>3. ~At(w, "idle") /\ "sync" \in WorkerSteps
  BY DEF SaveJson, At, WorkerSteps
<1>4. SaveAndGo(w, new, "sync") /\ UNCHANGED <<table, browser, notices>> /\ External
  BY DEF SaveJson
<1>5. Sound'
  BY <1>1, <1>2, <1>3, <1>4, SaveAndGoSound
<1>6. TypeOK'
  BY <1>1, <1>3, <1>4, SaveAndGoType DEF AInv, TypeOK, External
<1> QED BY <1>5, <1>6

LEMMA ApplyKeeps ==
  ASSUME AInv, NEW w \in Workers, Apply(w)
  PROVE  TypeOK' /\ Sound'
<1> DEFINE new == [Copy(w) EXCEPT !.linked = TRUE,
                                  !.portrait = worker[w].identity.portrait]
<1>1. new \in Rows
  BY CopyFacts DEF Rows, Identities
<1>2. new.linked /\ SoundCopy(w, new)
  BY CopyFacts DEF SoundCopy, Rows
<1>3. ~At(w, "idle") /\ "decide" \in WorkerSteps
  BY DEF Apply, At, WorkerSteps
<1>4. SaveAndGo(w, new, "decide") /\ UNCHANGED <<table, browser, notices>> /\ External
  BY DEF Apply
<1>5. Sound'
  BY <1>1, <1>2, <1>3, <1>4, SaveAndGoSound
<1>6. TypeOK'
  BY <1>1, <1>3, <1>4, SaveAndGoType DEF AInv, TypeOK, External
<1> QED BY <1>5, <1>6

LEMMA ConfirmPortraitKeeps ==
  ASSUME AInv, NEW w \in Workers, ConfirmPortrait(w)
  PROVE  TypeOK' /\ Sound'
<1> DEFINE new == [Copy(w) EXCEPT !.authenticated = TRUE]
<1>1. new \in Rows
  BY CopyFacts DEF Rows
<1>2. new.expected # NoPortrait /\ SoundCopy(w, new)
  BY CopyFacts DEF SoundCopy, Rows, ConfirmPortrait, Matches
<1>3. ~At(w, "idle") /\ "auth" \in WorkerSteps
  BY DEF ConfirmPortrait, At, WorkerSteps
<1>4. SaveAndGo(w, new, "auth") /\ UNCHANGED <<table, browser, notices>> /\ External
  BY DEF ConfirmPortrait
<1>5. table = "row" => account.linked
  BY CopyFacts DEF ConfirmPortrait, At
<1>6. Sound'
  BY <1>1, <1>2, <1>3, <1>4, <1>5, SaveAndGoSound
<1>7. TypeOK'
  BY <1>1, <1>3, <1>4, SaveAndGoType DEF AInv, TypeOK, External
<1> QED BY <1>6, <1>7

LEMMA ExpectPortraitKeeps ==
  ASSUME AInv, NEW w \in Workers, ExpectPortrait(w)
  PROVE  TypeOK' /\ Sound'
<1>1. PICK portrait \in Expect(w) :
        SaveAndGo(w, [Copy(w) EXCEPT !.expected = portrait], "unauth")
  BY DEF ExpectPortrait
<1> DEFINE new == [Copy(w) EXCEPT !.expected = portrait]
<1>2. new \in Rows /\ (new.expected # Copy(w).expected => new.expected # NoPortrait)
  BY CopyFacts, ExpectType DEF Rows, AInv
<1>3. SoundCopy(w, new)
  BY <1>2, CopyFacts DEF SoundCopy, Rows
<1>4. ~At(w, "idle") /\ "unauth" \in WorkerSteps
  BY DEF ExpectPortrait, At, WorkerSteps
<1>5. UNCHANGED <<table, browser, notices>> /\ External
  BY DEF ExpectPortrait
<1>6. table = "row" => account.linked
  BY CopyFacts DEF ExpectPortrait, At
<1>7. Sound'
  BY <1>1, <1>2, <1>3, <1>4, <1>5, <1>6, SaveAndGoSound
<1>8. TypeOK'
  BY <1>1, <1>2, <1>4, <1>5, SaveAndGoType DEF AInv, TypeOK, External
<1> QED BY <1>7, <1>8

(* The three events: each fires with a state that the copy has earned. *)
LEMMA EventKeeps ==
  ASSUME AInv, NEW w \in Workers, Queue(w) \/ Auth(w) \/ Unauth(w)
  PROVE  TypeOK' /\ Sound'
<1>1. PICK to \in States, step \in {"idle", "notify"} :
        /\ Fire(w, [Copy(w) EXCEPT !.state = to], step)
        /\ to = "authed" => At(w, "auth") \/ Copy(w).state = "authed"
  BY CopyFacts DEF Queue, Auth, Unauth, States, Rows
<1> DEFINE new == [Copy(w) EXCEPT !.state = to]
<1>2. /\ worker[w].step \in {"decide", "auth", "unauth"}
      /\ UNCHANGED <<table, notices>> /\ External
  BY DEF Queue, Auth, Unauth, At
<1>3. new \in Rows /\ step \in WorkerSteps /\ ~At(w, "idle")
  BY <1>2, CopyFacts DEF Rows, WorkerSteps, At
<1>4. SoundCopy(w, new)
  BY <1>1, <1>2, CopyFacts DEF SoundCopy, Rows, AInv, NoCopyAsked
<1>5. table = "row" => account.linked
  BY <1>2, CopyFacts
<1>6. Sound'
  BY <1>1, <1>2, <1>3, <1>4, <1>5, FireSound
<1>7. TypeOK'
  BY <1>1, <1>2, <1>3, FireType DEF AInv, TypeOK, External
<1> QED BY <1>6, <1>7

(* A request ends, and the page claims nothing that the row has not earned. *)
LEMMA LastPushSound ==
  ASSUME AInv, NEW w \in Workers, ~At(w, "idle"), Respond(w), UNCHANGED <<table, account>>,
         table = "row" /\ account.expected = NoPortrait =>
           ~browser'.authenticated /\ browser'.state # "authed",
         table = "row" /\ ~account.linked => browser'.state = "new"
  PROVE  Sound'
<1>1. worker' = [worker EXCEPT ![w] = Idle] /\ table # "none"
  BY DEF Respond, At, AInv, NotCreatedYet, Idle
<1>2. /\ Idle.json.state = "new" /\ ~Idle.json.authenticated /\ Idle.step = "idle"
      /\ Idle.copy.state = "new" /\ ~Idle.copy.authenticated
      /\ Idle.copy.expected = NoPortrait /\ ~Idle.copy.linked
  BY DEF Idle, NoAccount, NewAccount, ToJson
<1>3. worker'[w] = Idle /\ \A v \in Workers \ {w} : worker'[v] = worker[v]
  BY <1>1 DEF AInv, TypeOK
<1>4. NoCopyAsked'
  BY <1>2, <1>3 DEF AInv, NoCopyAsked, Copy, At
<1>5. NoCopyLinked'
  BY <1>2, <1>3 DEF AInv, NoCopyLinked, Copy
<1>6. NotCreatedYet' /\ AuthenticatedWasAsked' /\ LeftNewIsLinked'
  BY <1>1 DEF AInv, NotCreatedYet, AuthenticatedWasAsked, LeftNewIsLinked
<1> QED BY <1>4, <1>5, <1>6 DEF Sound

(* What is pushed of the row as it is. *)
LEMMA RowShown ==
  ASSUME AInv
  PROVE  /\ ToJson(account).state = account.state
         /\ ToJson(account).authenticated = account.authenticated
         /\ account.expected = NoPortrait => ~account.authenticated /\ account.state # "authed"
         /\ ~account.linked => account.state = "new"
  BY DEF AInv, AuthenticatedWasAsked, LeftNewIsLinked, ToJson

LEMMA NotifyKeeps ==
  ASSUME AInv, NEW w \in Workers, Notify(w)
  PROVE  TypeOK' /\ Sound'
<1>1. /\ Push /\ Respond(w) /\ UNCHANGED <<table, account>> /\ External /\ ~At(w, "idle")
      /\ notices' \in SUBSET Notices
  BY DEF Notify, NoticeOf, Notices, At, AInv, TypeOK
<1>2. TypeOK'
  BY <1>1, PushType, RespondType DEF AInv, TypeOK, External
<1>3. browser' = browser \/ (table = "row" => browser' = ToJson(account))
  BY <1>1 DEF Push
<1>4. Sound'
  BY <1>1, <1>3, RowShown, LastPushSound DEF AInv, NoCopyAsked, NoCopyLinked
<1> QED BY <1>2, <1>4

(* A worker that dies when its push is out: the event is one that the row has *)
(* earned, since the columns it needs were saved before.                      *)
LEMMA DiesKeeps ==
  ASSUME AInv, NEW w \in Workers, Dies(w)
  PROVE  TypeOK' /\ Sound'
<1>1. /\ Respond(w) /\ UNCHANGED <<table, account>> /\ External /\ ~At(w, "idle")
      /\ notices' \in SUBSET Notices
  BY DEF Dies, AInv, TypeOK
<1>2. ASSUME NEW state \in States, Due(w, state) \/ (At(w, "notify") /\ state = Copy(w).state),
             browser' = PushOf(w, state)
      PROVE  /\ browser' \in Json
             /\ table = "row" /\ account.expected = NoPortrait =>
                  ~browser'.authenticated /\ browser'.state # "authed"
             /\ table = "row" /\ ~account.linked => browser'.state = "new"
  <2>1. account \in Rows
    BY DEF AInv, TypeOK
  <2>2. CASE table # "row"
    BY <1>2, <2>2, IdleType DEF PushOf
  <2>3. CASE table = "row" /\ state = Copy(w).state
    BY <1>2, <2>1, <2>3, RowShown, JsonType DEF PushOf
  <2>4. CASE table = "row" /\ state # Copy(w).state
    <3> DEFINE row == [account EXCEPT !.state = state]
    <3>1. /\ row \in Rows /\ ToJson(row).state = state
          /\ ToJson(row).authenticated = account.authenticated
      BY <2>1 DEF Rows, ToJson
    <3>2. browser' = ToJson(row)
      BY <1>2, <2>4 DEF PushOf
    <3>3. Due(w, state)
      BY <1>2, <2>4
    <3>4. account.linked
      BY <2>4, <3>3, CopyFacts DEF Due, At
    <3>5. account.expected = NoPortrait => state # "authed"
      BY <2>4, <3>3, CopyFacts DEF Due, At, AInv, NoCopyAsked
    <3> HIDE DEF row
    <3> QED BY <3>1, <3>2, <3>4, <3>5, RowShown, JsonType
  <2> QED BY <2>2, <2>3, <2>4
<1>3. CASE browser' = browser
  <2>1. TypeOK'
    BY <1>1, <1>3, RespondType DEF AInv, TypeOK, External
  <2> QED BY <1>1, <1>3, <2>1, RespondSound
<1>4. CASE browser' # browser
  <2>1. PICK state \in States :
          /\ Due(w, state) \/ (At(w, "notify") /\ state = Copy(w).state)
          /\ browser' = PushOf(w, state)
    <3>1. Copy(w).state \in States
      BY CopyFacts DEF Rows
    <3> QED BY <1>4, <3>1 DEF Dies
  <2>2. /\ browser' \in Json
        /\ table = "row" /\ account.expected = NoPortrait =>
             ~browser'.authenticated /\ browser'.state # "authed"
        /\ table = "row" /\ ~account.linked => browser'.state = "new"
    BY <1>2, <2>1
  <2>3. TypeOK'
    BY <1>1, <2>2, RespondType DEF AInv, TypeOK, External
  <2> QED BY <1>1, <2>2, <2>3, LastPushSound
<1> QED BY <1>3, <1>4

(* Requests that end without touching the row: the page is left alone. *)
LEMMA EndKeeps ==
  ASSUME AInv, NEW w \in Workers,
         SyncFails(w) \/ LeaveAsIs(w) \/ NoEvent(w) \/ PushRaises(w)
  PROVE  TypeOK' /\ Sound'
<1>1. /\ Respond(w) /\ UNCHANGED <<table, account, browser>> /\ External
      /\ notices' \in SUBSET Notices
  BY DEF SyncFails, LeaveAsIs, NoEvent, PushRaises, AInv, TypeOK
<1>2. Sound'
  BY <1>1, RespondSound
<1>3. TypeOK'
  BY <1>1, RespondType DEF AInv, TypeOK, External
<1> QED BY <1>2, <1>3
-------------------------------------------------------------------------------
(* The steps that start a request, and those of the page, the player and ESDB. *)

LEMMA CreateKeeps ==
  ASSUME AInv, NEW w \in Workers, Create(w)
  PROVE  TypeOK' /\ Sound'
<1>1. /\ table' = "row" /\ account' = NewAccount /\ browser = NoAccount
      /\ worker' = [worker EXCEPT ![w] = [Idle EXCEPT !.step = "sync"]]
      /\ \A v \in Workers : worker[v] = Idle
      /\ UNCHANGED <<browser, notices>> /\ External
  BY DEF Create, AInv, NotCreatedYet
<1>2. [Idle EXCEPT !.step = "sync"] \in Jobs /\ NewAccount \in Rows
  BY IdleType DEF Jobs, WorkerSteps
<1>3. TypeOK'
  BY <1>1, <1>2 DEF AInv, TypeOK, External
<1>4. /\ Idle.json = NoAccount /\ Idle.copy = NewAccount /\ Idle.step = "idle"
      /\ NoAccount.state = "new" /\ ~NoAccount.authenticated
      /\ NewAccount.state = "new" /\ ~NewAccount.authenticated
      /\ NewAccount.expected = NoPortrait /\ ~NewAccount.linked
  BY DEF Idle, NoAccount, NewAccount, ToJson
<1>5. \A v \in Workers : /\ worker'[v].json = NoAccount /\ worker'[v].copy = NewAccount
                         /\ worker'[v].step \in {"idle", "sync"}
  BY <1>1, <1>4 DEF AInv, TypeOK, Idle
<1>6. NoCopyAsked' /\ NoCopyLinked'
  BY <1>1, <1>4, <1>5 DEF NoCopyAsked, NoCopyLinked, Copy, At
<1>7. NotCreatedYet' /\ AuthenticatedWasAsked' /\ LeftNewIsLinked'
  BY <1>1, <1>4 DEF NotCreatedYet, AuthenticatedWasAsked, LeftNewIsLinked
<1> QED BY <1>3, <1>6, <1>7 DEF Sound

LEMMA BeginUpdateKeeps ==
  ASSUME AInv, NEW w \in Workers, BeginUpdate(w)
  PROVE  TypeOK' /\ Sound'
<1> DEFINE new == [Idle EXCEPT !.step = "save", !.copy = account, !.json = browser]
<1>1. /\ table = "row" /\ worker' = [worker EXCEPT ![w] = new]
      /\ UNCHANGED <<table, account, browser, notices, esdb, worn, calls>>
      /\ updates < MaxUpdates /\ updates' = updates + 1
  BY DEF BeginUpdate
<1>2. new \in Jobs
  BY IdleType DEF AInv, TypeOK, Jobs, WorkerSteps
<1>3. /\ new.json = browser /\ new.copy = account /\ new.step = "save"
  BY DEF Idle
<1>4. Sound'
  BY <1>1, <1>2, <1>3, MoveSound
  DEF AInv, NoCopyAsked, NoCopyLinked, AuthenticatedWasAsked, LeftNewIsLinked
<1>5. TypeOK'
  BY <1>1, <1>2, MaxUpdatesAssumption DEF AInv, TypeOK
<1> QED BY <1>4, <1>5

LEMMA IdentityUpdateKeeps ==
  ASSUME AInv, NEW w \in Workers, NEW identity \in calls, IdentityUpdate(w, identity)
  PROVE  TypeOK' /\ Sound'
<1> DEFINE new == [Idle EXCEPT !.step = "apply", !.copy = account, !.identity = identity]
<1>1. /\ calls' = calls \ {identity}
      /\ UNCHANGED <<table, account, browser, notices, esdb, worn, updates>>
      /\ \/ table = "row" /\ worker' = [worker EXCEPT ![w] = new]
         \/ UNCHANGED worker
  BY DEF IdentityUpdate
<1>2. new \in Jobs
  BY IdleType DEF AInv, TypeOK, Jobs, WorkerSteps
<1>3. /\ new.json = NoAccount /\ new.copy = account /\ new.step = "apply"
      /\ NoAccount.state = "new" /\ ~NoAccount.authenticated
  BY DEF Idle, NoAccount, NewAccount, ToJson
<1>4. TypeOK'
  BY <1>1, <1>2 DEF AInv, TypeOK
<1>5. CASE table = "row" /\ worker' = [worker EXCEPT ![w] = new]
  <2>1. Sound'
    BY <1>1, <1>2, <1>3, <1>5, MoveSound
    DEF AInv, NoCopyAsked, NoCopyLinked, AuthenticatedWasAsked, LeftNewIsLinked
  <2> QED BY <1>4, <2>1
<1>6. CASE UNCHANGED worker
  BY <1>1, <1>4, <1>6, PageSound
<1> QED BY <1>1, <1>5, <1>6

LEMMA SyncKeeps ==
  ASSUME AInv, NEW w \in Workers, Sync(w)
  PROVE  TypeOK' /\ Sound'
<1>1. PICK identity \in Identities :
        /\ esdb' = identity
        /\ worker' = [worker EXCEPT ![w].identity = identity, ![w].step = "apply"]
  BY DEF Sync, AInv, TypeOK, Identities
<1> DEFINE new == [worker[w] EXCEPT !.identity = identity, !.step = "apply"]
<1>2. /\ UNCHANGED <<table, account, browser, notices, worn, calls, updates>>
      /\ worker' = [worker EXCEPT ![w] = new] /\ ~At(w, "idle")
  BY <1>1 DEF Sync, At, AInv, TypeOK
<1>3. new \in Jobs /\ new.json = worker[w].json /\ new.copy = Copy(w) /\ new.step = "apply"
  BY <1>1 DEF AInv, TypeOK, Jobs, WorkerSteps, Copy
<1>4. table # "none"
  BY <1>2 DEF AInv, NotCreatedYet, At, Idle
<1>5. table = "row" /\ account.expected = NoPortrait =>
        ~worker[w].json.authenticated /\ worker[w].json.state # "authed"
  BY DEF AInv, NoCopyAsked
<1>6. table = "row" /\ ~account.linked => worker[w].json.state = "new"
  BY DEF AInv, NoCopyLinked
<1>7. Sound'
  BY <1>2, <1>3, <1>4, <1>5, <1>6, CopyFacts, MoveSound
<1>8. TypeOK'
  BY <1>1, <1>2, <1>3 DEF AInv, TypeOK
<1> QED BY <1>7, <1>8

LEMMA DestroyKeeps ==
  ASSUME AInv, NEW w \in Workers, Destroy(w)
  PROVE  TypeOK' /\ Sound'
<1>1. table' = "deleted" /\ UNCHANGED <<account, worker, browser, notices>> /\ External
  BY DEF Destroy
<1>2. TypeOK'
  BY <1>1 DEF AInv, TypeOK, External
<1> QED
  BY <1>1, <1>2 DEF AInv, Sound, NotCreatedYet, NoCopyAsked, NoCopyLinked,
                    AuthenticatedWasAsked, LeftNewIsLinked

(* The page is loaded, a notice is closed, the player, ESDB, the wire. *)
LEMMA OutsideKeeps ==
  ASSUME AInv,
         \/ LoadPage \/ AckNotice \/ Scrape \/ LoseCall
         \/ \E portrait \in Basics : Wear(portrait)
         \/ UNCHANGED vars
  PROVE  TypeOK' /\ Sound'
<1>1. /\ UNCHANGED <<table, account, worker, updates>>
      /\ browser' = browser \/ (table = "row" /\ browser' = ToJson(account))
  BY DEF LoadPage, AckNotice, Scrape, LoseCall, Wear, External, site, vars
<1>2. /\ notices' \in SUBSET Notices /\ esdb' \in Identities
      /\ worn' \in Basics /\ calls' \in SUBSET Identities
  <2>1. CASE LoadPage \/ AckNotice
    BY <2>1 DEF LoadPage, AckNotice, External, AInv, TypeOK
  <2>2. CASE Scrape
    <3>1. [portrait |-> worn, queued |-> FALSE] \in Identities
      BY DEF AInv, TypeOK, Identities, Portraits
    <3> QED BY <2>2, <3>1 DEF Scrape, site, AInv, TypeOK
  <2>3. CASE LoseCall
    BY <2>3 DEF LoseCall, site, AInv, TypeOK
  <2>4. CASE (\E portrait \in Basics : Wear(portrait)) \/ UNCHANGED vars
    BY <2>4 DEF Wear, site, vars, AInv, TypeOK
  <2> QED BY <2>1, <2>2, <2>3, <2>4
<1>3. TypeOK'
  BY <1>1, <1>2, JsonType DEF AInv, TypeOK
<1> QED BY <1>1, <1>3, PageSound
-------------------------------------------------------------------------------
LEMMA InitAInv == Init => AInv
<1> SUFFICES ASSUME Init PROVE AInv
  OBVIOUS
<1>1. TypeOK
  BY IdleType, MaxUpdatesAssumption
  DEF Init, TypeOK, Identities, NoIdentity, Portraits
<1> QED
  BY <1>1 DEF Init, AInv, NotCreatedYet, NoCopyAsked, NoCopyLinked, AuthenticatedWasAsked,
              LeftNewIsLinked, NewAccount

LEMMA StepAInv == AInv /\ [Next]_vars => AInv'
<1> SUFFICES ASSUME AInv, [Next]_vars PROVE TypeOK' /\ Sound'
  BY DEF AInv, Sound
<1>1. ASSUME NEW w \in Workers, WorkerStep(w) \/ Dies(w)
      PROVE  TypeOK' /\ Sound'
  BY <1>1, SaveJsonKeeps, SyncKeeps, ApplyKeeps, ConfirmPortraitKeeps, ExpectPortraitKeeps,
     EventKeeps, NotifyKeeps, EndKeeps, DiesKeeps DEF WorkerStep
<1>2. ASSUME NEW w \in Workers,
             \/ Create(w) \/ BeginUpdate(w) \/ Destroy(w)
             \/ \E identity \in calls : IdentityUpdate(w, identity)
      PROVE  TypeOK' /\ Sound'
  BY <1>2, CreateKeeps, BeginUpdateKeeps, DestroyKeeps, IdentityUpdateKeeps
<1> QED BY <1>1, <1>2, OutsideKeeps DEF Next

LEMMA AlwaysAInv == Spec => []AInv
<1> QED BY InitAInv, StepAInv, PTL DEF Spec

(* Every value stays in its type, for any number of workers and any portraits. *)
THEOREM AccountTypes == Spec => []TypeOK
<1>1. AInv => TypeOK
  BY DEF AInv
<1> QED BY <1>1, AlwaysAInv, PTL

(* Nobody is authenticated who was not asked to wear a portrait: no stale copy, *)
(* no old page and no fault makes update_from_esdb! match nil with nil.         *)
THEOREM AskedFirst == Spec => []AuthenticatedWasAsked
<1>1. AInv => AuthenticatedWasAsked
  BY DEF AInv
<1> QED BY <1>1, AlwaysAInv, PTL

(* An account out of state new can be found by ESDB's callbacks. *)
THEOREM LinkedFirst == Spec => []LeftNewIsLinked
<1>1. AInv => LeftNewIsLinked
  BY DEF AInv
<1> QED BY <1>1, AlwaysAInv, PTL
==============================================================================
