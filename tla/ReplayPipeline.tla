---------------------------- MODULE ReplayPipeline ----------------------------
(***************************************************************************)
(* How an uploaded replay becomes a match.  A browser request creates the  *)
(* rows of its files one after the other and posts each file to ESDB; ESDB *)
(* parses it in the background and reports through HTTP callbacks, which   *)
(* other web workers serve at the same time.  Upload requests and callback *)
(* handlers each hold their own in-memory copy of the row, read once, and  *)
(* write back only the columns they changed: nothing locks the row between *)
(* the read and the write.                                                 *)
(*                                                                         *)
(* One step of this module is one committed database transaction, one call *)
(* to ESDB or one message pushed to the browser.  Firing an event of the   *)
(* state machine (uploaded!, processed!, failure!) is one transaction that *)
(* ends by pushing the new state, so it either commits with the message    *)
(* sent, is rolled back because the push raised, or is lost with a worker  *)
(* that dies between the two.                                              *)
(***************************************************************************)
EXTENDS Naturals, Sequences

CONSTANTS
  Uploads,    \* requests to replays#drop or replays#s3_drop
  Handlers,   \* web workers that serve callbacks of ESDB
  Replays,    \* the replay files
  Files,      \* the files of each request, in order (s3_drop has one)
  NoReplay,   \* the replay of a worker that serves no callback
  Listened,   \* replays with a push channel (a user's, or the drop channel)
  Faults      \* what the environment may do wrong, out of FaultKinds

(* "redis": a push raises; "death": a worker dies at any point; "repeat": a *)
(* callback arrives again; "loss": it never arrives; "rerun": ESDB runs a   *)
(* finished job again; "early": ESDB calls back while the request that      *)
(* posted the file is still running.                                        *)
FaultKinds == {"redis", "death", "repeat", "loss", "rerun", "early"}

ASSUME FaultsAssumption == Faults \subseteq FaultKinds

ASSUME ReplaysAssumption == Listened \subseteq Replays /\ NoReplay \notin Replays

(* Each file of each request is a row of its own. *)
ASSUME FilesAssumption ==
  /\ Files \in [Uploads -> Seq(Replays)]
  /\ \A u \in Uploads : Len(Files[u]) > 0
  /\ \A u, v \in Uploads : \A i \in DOMAIN Files[u], j \in DOMAIN Files[v] :
       Files[u][i] = Files[v][j] => u = v /\ i = j

VARIABLES
  state,      \* the replays table, column by column: state,
  esdb_id,    \* esdb_id and
  progress,   \* progress
  upload,     \* the requests that create replays
  handler,    \* the requests ESDB makes
  job,        \* what ESDB does with each file
  calls,      \* callbacks on their way, per replay
  published   \* the last message pushed to the browser, per replay

row  == <<state, esdb_id, progress>>
vars == <<state, esdb_id, progress, upload, handler, job, calls, published>>

-------------------------------------------------------------------------------
(* The data. *)

States    == {"uploading", "processing", "done", "failed"}
RowStates == States \cup {"absent"}     \* "absent" before the row exists
Final     == {"done", "failed"}
CallKinds == {"progress", "complete", "error"}

(* The percentage a replay_progress callback carries: 100 for the last one. *)
Percent(kind) == IF kind = "complete" THEN 100 ELSE 50

(* The column esdb_id holds the job id while ESDB works, then the match id. *)
EsdbIds   == {"none", "job", "match"}
Percents  == {0, 50, 100}

(* What a message tells the browser: the state, and the match_id, which is   *)
(* an attribute of the copy, not a column; "absent" before any message.      *)
MatchIds == {"null", "match"}
Messages == [state : RowStates, match_id : MatchIds]

UploadSteps  == {"create", "post", "answer", "track", "transition", "rescue",
                 "answered", "rejected", "aborted", "died"}
HandlerSteps == {"idle", "save", "finish", "fail", "publish"}

(* A callback being served: its replay and kind, and the copy of the row. *)
Callbacks == [step : HandlerSteps, replay : Replays \cup {NoReplay},
              kind : CallKinds, state : RowStates, progress : Percents,
              match_id : MatchIds]

-------------------------------------------------------------------------------
(* Upload requests. *)

File(u) == Files[u][upload[u].next]

UploadAt(u, step) == upload[u].step = step

UploadGoes(u, step) == upload' = [upload EXCEPT ![u].step = step]

(* Mutant: the loop runs one file too far. *)
NextFileOffByOne(u) ==
  upload' = [upload EXCEPT ![u] =
    IF @.next <= Len(Files[u]) THEN [step |-> "create", next |-> @.next + 1]
                               ELSE [step |-> "answered", next |-> @.next]]

(* The loop over the files moves on; after the last one the request answers. *)
NextFile(u) ==
  upload' = [upload EXCEPT ![u] =
    IF @.next < Len(Files[u]) THEN [step |-> "create", next |-> @.next + 1]
                              ELSE [step |-> "answered", next |-> @.next]]

(* publish_progress!: only a replay with a channel has a listener. *)
Publish(r, st, match) ==
  published' = [published EXCEPT
    ![r] = IF r \in Listened THEN [state |-> st, match_id |-> match] ELSE @]

(* The push may raise; without a channel nothing is pushed. *)
PushRaises(r) == "redis" \in Faults /\ r \in Listened

CreateReplay(u) ==
  /\ UploadAt(u, "create")
  /\ state' = [state EXCEPT ![File(u)] = "uploading"]
  /\ UploadGoes(u, "post")
  /\ UNCHANGED <<esdb_id, progress, handler, job, calls, published>>

(* save! raises for an attachment the validation refuses. *)
RejectFile(u) ==
  /\ UploadAt(u, "create")
  /\ UploadGoes(u, "rejected")
  /\ UNCHANGED <<row, handler, job, calls, published>>

(* ESDB takes the file: it queues a job, or knows the replay already. *)
PostToEsdb(u) ==
  /\ UploadAt(u, "post")
  /\ \E outcome \in {"queued", "known"} : job' = [job EXCEPT ![File(u)] = outcome]
  /\ UploadGoes(u, "answer")
  /\ UNCHANGED <<row, handler, calls, published>>

(* The post raises: ESDB was not reached, or its answer was. *)
PostFails(u) ==
  /\ UploadAt(u, "post") \/ UploadAt(u, "answer")
  /\ UploadGoes(u, "rescue")
  /\ UNCHANGED <<row, handler, job, calls, published>>

(* Mutant: the job id is not stored before uploaded!. *)
ReceiveJobIdUnstored(u) ==
  /\ UploadAt(u, "answer")
  /\ job[File(u)] # "known"
  /\ UploadGoes(u, "transition")
  /\ UNCHANGED <<row, handler, job, calls, published>>

ReceiveJobId(u) ==
  /\ UploadAt(u, "answer")
  /\ job[File(u)] # "known"
  /\ UploadGoes(u, "track")
  /\ UNCHANGED <<row, handler, job, calls, published>>

(* An answer that is no job id leaves the row as it is. *)
ReceiveReplay(u) ==
  /\ UploadAt(u, "answer")
  /\ job[File(u)] = "known"
  /\ NextFile(u)
  /\ UNCHANGED <<row, handler, job, calls, published>>

StoreJobId(u) ==
  /\ UploadAt(u, "track")
  /\ esdb_id' = [esdb_id EXCEPT ![File(u)] = "job"]
  /\ UploadGoes(u, "transition")
  /\ UNCHANGED <<state, progress, handler, job, calls, published>>

(* uploaded!: the request's copy still says uploading, so the event fires   *)
(* whatever the row says by now.  progress is 0 in the copy: not written.   *)
Uploaded(u) ==
  /\ UploadAt(u, "transition")
  /\ state' = [state EXCEPT ![File(u)] = "processing"]
  /\ Publish(File(u), "processing", "null")
  /\ NextFile(u)
  /\ UNCHANGED <<esdb_id, progress, handler, job, calls>>

UploadedRaises(u) ==
  /\ UploadAt(u, "transition")
  /\ PushRaises(File(u))
  /\ UploadGoes(u, "rescue")
  /\ UNCHANGED <<row, handler, job, calls, published>>

(* Mutants: the rescue clause only logs; after_the_fail does not publish. *)
UploadFailureOnlyLogged(u) ==
  /\ UploadAt(u, "rescue")
  /\ NextFile(u)
  /\ UNCHANGED <<row, handler, job, calls, published>>

UploadFailureUnpublished(u) ==
  /\ UploadAt(u, "rescue")
  /\ state' = [state EXCEPT ![File(u)] = "failed"]
  /\ NextFile(u)
  /\ UNCHANGED <<esdb_id, progress, handler, job, calls, published>>

(* failure! in the rescue clause: the copy is uploading, or processing after *)
(* a push that raised; the event is legal from both.                         *)
UploadFailure(u) ==
  /\ UploadAt(u, "rescue")
  /\ state' = [state EXCEPT ![File(u)] = "failed"]
  /\ Publish(File(u), "failed", "null")
  /\ NextFile(u)
  /\ UNCHANGED <<esdb_id, progress, handler, job, calls>>

(* Mutant: the loop rescues an exception of process! and goes on. *)
UploadFailureSwallowed(u) ==
  /\ UploadAt(u, "rescue")
  /\ PushRaises(File(u))
  /\ NextFile(u)
  /\ UNCHANGED <<row, handler, job, calls, published>>

(* failure! raises too: nobody rescues it and the request ends there. *)
UploadFailureRaises(u) ==
  /\ UploadAt(u, "rescue")
  /\ PushRaises(File(u))
  /\ UploadGoes(u, "aborted")
  /\ UNCHANGED <<row, handler, job, calls, published>>

(* The worker dies: an event whose message is out may not be committed yet. *)
UploadDies(u) ==
  /\ "death" \in Faults
  /\ upload[u].step \notin {"answered", "rejected", "aborted", "died"}
  /\ \/ UNCHANGED published
     \/ UploadAt(u, "transition") /\ Publish(File(u), "processing", "null")
     \/ UploadAt(u, "rescue") /\ Publish(File(u), "failed", "null")
  /\ UploadGoes(u, "died")
  /\ UNCHANGED <<row, handler, job, calls>>

UploadStep(u) ==
  \/ CreateReplay(u) \/ PostToEsdb(u) \/ PostFails(u)
  \/ ReceiveJobId(u) \/ ReceiveReplay(u) \/ StoreJobId(u)
  \/ Uploaded(u) \/ UploadedRaises(u) \/ UploadFailure(u) \/ UploadFailureRaises(u)

-------------------------------------------------------------------------------
(* ESDB, the parser behind the site (external). *)

EsdbReports(r) ==
  /\ job[r] = "queued"
  /\ calls' = [calls EXCEPT ![r] = @ \cup {"progress"}]
  /\ UNCHANGED <<row, upload, handler, job, published>>

EsdbFinishes(r) ==
  /\ job[r] = "queued"
  /\ job' = [job EXCEPT ![r] = "over"]
  /\ \E outcome \in {"complete", "error"} :
       calls' = [calls EXCEPT ![r] = @ \cup {outcome}]
  /\ UNCHANGED <<row, upload, handler, published>>

EsdbReruns(r) ==
  /\ "rerun" \in Faults
  /\ job[r] = "over"
  /\ job' = [job EXCEPT ![r] = "queued"]
  /\ UNCHANGED <<row, upload, handler, calls, published>>

LoseCall(r) ==
  /\ "loss" \in Faults
  /\ \E kind \in calls[r] : calls' = [calls EXCEPT ![r] = @ \ {kind}]
  /\ UNCHANGED <<row, upload, handler, job, published>>

(* The request that posts r is between the post and the end of process!. *)
Posting(r) ==
  \E u \in Uploads : /\ upload[u].step \in {"answer", "track", "transition", "rescue"}
                     /\ File(u) = r

-------------------------------------------------------------------------------
(* Callbacks, served by EsdbController#callback. *)

IdleHandler == [step |-> "idle", replay |-> NoReplay, kind |-> "progress",
                state |-> "absent", progress |-> 0, match_id |-> "null"]

HandlerAt(h, step) == handler[h].step = step

(* The request is over, with or without an error: the copy is gone. *)
Respond(h) == handler' = [handler EXCEPT ![h] = IdleHandler]

(* Worker h takes a callback for the job of r off the wire. *)
Receive(h, r, kind) ==
  /\ HandlerAt(h, "idle")
  /\ kind \in calls[r]
  /\ "early" \in Faults \/ ~Posting(r)
  /\ \/ calls' = [calls EXCEPT ![r] = @ \ {kind}]
     \/ "repeat" \in Faults /\ UNCHANGED calls

(* Mutant: the row is found by its job id whatever esdb_id holds by now. *)
TrackedForEver(r) == esdb_id[r] # "none"

(* find_by_esdb_id with the job id finds the row while esdb_id is the job id. *)
Tracked(r) == esdb_id[r] = "job"

(* No row: a progress call is ignored, an error call raises on nil. *)
FindNothing(h, r, kind) ==
  /\ Receive(h, r, kind)
  /\ ~Tracked(r)
  /\ UNCHANGED <<row, upload, handler, job, published>>

(* Mutant: the callback does not look at the state of the replay. *)
FindWithoutStateCheck(h, r, kind) ==
  /\ Receive(h, r, kind)
  /\ Tracked(r)
  /\ handler' = [handler EXCEPT ![h] =
       [step   |-> IF kind = "error" THEN "fail" ELSE "save",
        replay |-> r, kind |-> kind,
        state  |-> state[r], progress |-> progress[r], match_id |-> "null"]]
  /\ UNCHANGED <<row, upload, job, published>>

Find(h, r, kind) ==
  /\ Receive(h, r, kind)
  /\ Tracked(r)
  /\ handler' = [handler EXCEPT ![h] =
       [step   |-> IF kind = "error" THEN "fail"
                   ELSE IF state[r] = "processing" THEN "save" ELSE "publish",
        replay |-> r, kind |-> kind,
        state  |-> state[r], progress |-> progress[r], match_id |-> "null"]]
  /\ UNCHANGED <<row, upload, job, published>>

(* Mutant: only a progress above 100 counts as complete. *)
SaveProgressOffByOne(h) ==
  /\ HandlerAt(h, "save")
  /\ LET percent == Percent(handler[h].kind) IN
       /\ progress' = [progress EXCEPT ![handler[h].replay] = percent]
       /\ handler' = [handler EXCEPT
            ![h].step = IF percent > 100 THEN "finish" ELSE "publish",
            ![h].progress = percent]
  /\ UNCHANGED <<state, esdb_id, upload, job, calls, published>>

(* update_attributes writes the column only if it differs from the copy. *)
SaveProgress(h) ==
  /\ HandlerAt(h, "save")
  /\ LET percent == Percent(handler[h].kind) IN
       /\ progress' = [progress EXCEPT
            ![handler[h].replay] = IF handler[h].progress = percent THEN @ ELSE percent]
       /\ handler' = [handler EXCEPT
            ![h].step = IF percent = 100 THEN "finish" ELSE "publish",
            ![h].progress = percent]
  /\ UNCHANGED <<state, esdb_id, upload, job, calls, published>>

(* Mutant: the match id is assigned after processed! and never saved. *)
ProcessedWithoutMatch(h) ==
  /\ HandlerAt(h, "finish")
  /\ state' = [state EXCEPT ![handler[h].replay] = "done"]
  /\ progress' = [progress EXCEPT ![handler[h].replay] = 0]
  /\ handler' = [handler EXCEPT ![h].step = "publish", ![h].state = "done",
                                ![h].match_id = "match"]
  /\ Publish(handler[h].replay, "done", "match")
  /\ UNCHANGED <<esdb_id, upload, job, calls>>

(* processed!: saves the state and the columns assigned before it, then     *)
(* after_processing resets progress and publishes.                           *)
Processed(h) ==
  /\ HandlerAt(h, "finish")
  /\ state' = [state EXCEPT ![handler[h].replay] = "done"]
  /\ esdb_id' = [esdb_id EXCEPT ![handler[h].replay] = "match"]
  /\ progress' = [progress EXCEPT ![handler[h].replay] = 0]
  /\ handler' = [handler EXCEPT ![h].step = "publish", ![h].state = "done",
                                ![h].progress = 0, ![h].match_id = "match"]
  /\ Publish(handler[h].replay, "done", "match")
  /\ UNCHANGED <<upload, job, calls>>

(* Mutant: saving writes the whole copy back, not only the changed columns. *)
HandlerFailureWholeRow(h) ==
  /\ HandlerAt(h, "fail")
  /\ handler[h].state \in {"uploading", "processing"}
  /\ state' = [state EXCEPT ![handler[h].replay] = "failed"]
  /\ esdb_id' = [esdb_id EXCEPT ![handler[h].replay] = "job"]
  /\ progress' = [progress EXCEPT ![handler[h].replay] = handler[h].progress]
  /\ handler' = [handler EXCEPT ![h].step = "publish", ![h].state = "failed"]
  /\ Publish(handler[h].replay, "failed", "null")
  /\ UNCHANGED <<upload, job, calls>>

(* failure!: legal if the copy is uploading or processing. *)
HandlerFailure(h) ==
  /\ HandlerAt(h, "fail")
  /\ handler[h].state \in {"uploading", "processing"}
  /\ state' = [state EXCEPT ![handler[h].replay] = "failed"]
  /\ handler' = [handler EXCEPT ![h].step = "publish", ![h].state = "failed"]
  /\ Publish(handler[h].replay, "failed", "null")
  /\ UNCHANGED <<esdb_id, progress, upload, job, calls>>

(* From any other state failure! raises InvalidTransition. *)
FailureRefused(h) ==
  /\ HandlerAt(h, "fail")
  /\ handler[h].state \notin {"uploading", "processing"}
  /\ Respond(h)
  /\ UNCHANGED <<row, upload, job, calls, published>>

(* The controller publishes its copy once more, outside any transaction. *)
PublishAgain(h) ==
  /\ HandlerAt(h, "publish")
  /\ Publish(handler[h].replay, handler[h].state, handler[h].match_id)
  /\ Respond(h)
  /\ UNCHANGED <<row, upload, job, calls>>

(* A push raises: the event is rolled back, or the last message is not sent. *)
HandlerRaises(h) ==
  /\ handler[h].step \in {"finish", "fail", "publish"}
  /\ PushRaises(handler[h].replay)
  /\ Respond(h)
  /\ UNCHANGED <<row, upload, job, calls, published>>

HandlerDies(h) ==
  /\ "death" \in Faults
  /\ ~HandlerAt(h, "idle")
  /\ \/ UNCHANGED published
     \/ HandlerAt(h, "finish") /\ Publish(handler[h].replay, "done", "match")
     \/ /\ HandlerAt(h, "fail")
        /\ handler[h].state \in {"uploading", "processing"}
        /\ Publish(handler[h].replay, "failed", "null")
  /\ Respond(h)
  /\ UNCHANGED <<row, upload, job, calls>>

HandlerStep(h) ==
  \/ SaveProgress(h) \/ Processed(h) \/ HandlerFailure(h) \/ FailureRefused(h)
  \/ PublishAgain(h) \/ HandlerRaises(h)

-------------------------------------------------------------------------------
Init ==
  /\ state = [r \in Replays |-> "absent"]
  /\ esdb_id = [r \in Replays |-> "none"]
  /\ progress = [r \in Replays |-> 0]
  /\ upload = [u \in Uploads |-> [step |-> "create", next |-> 1]]
  /\ handler = [h \in Handlers |-> IdleHandler]
  /\ job = [r \in Replays |-> "none"]
  /\ calls = [r \in Replays |-> {}]
  /\ published = [r \in Replays |-> [state |-> "absent", match_id |-> "null"]]

Next ==
  \/ \E u \in Uploads : UploadStep(u) \/ RejectFile(u) \/ UploadDies(u)
  \/ \E r \in Replays : EsdbReports(r) \/ EsdbFinishes(r) \/ EsdbReruns(r) \/ LoseCall(r)
  \/ \E h \in Handlers, r \in Replays, kind \in CallKinds :
       FindNothing(h, r, kind) \/ Find(h, r, kind)
  \/ \E h \in Handlers : HandlerStep(h) \/ HandlerDies(h)

Spec == Init /\ [][Next]_vars

(* Unicorn queues a request until a worker is free, so a callback on the     *)
(* wire is served in the end even if workers are busy again and again;       *)
(* a request being served goes on; ESDB finishes every job it queued.        *)
Fairness ==
  /\ \A u \in Uploads : WF_vars(UploadStep(u))
  /\ \A h \in Handlers : WF_vars(HandlerStep(h))
  /\ \A r \in Replays : WF_vars(EsdbFinishes(r))
  /\ \A r \in Replays, kind \in CallKinds :
       SF_vars(\E h \in Handlers : FindNothing(h, r, kind) \/ Find(h, r, kind))

FairSpec == Spec /\ Fairness

-------------------------------------------------------------------------------
(* Properties. *)

RowTypeOK ==
  /\ state \in [Replays -> RowStates]
  /\ esdb_id \in [Replays -> EsdbIds]
  /\ progress \in [Replays -> Percents]

UploadTypeOK ==
  /\ upload \in [Uploads -> [step : UploadSteps, next : Nat \ {0}]]
  /\ \A u \in Uploads : upload[u].next \in 1 .. Len(Files[u])

HandlerTypeOK ==
  /\ handler \in [Handlers -> Callbacks]
  /\ \A h \in Handlers : ~HandlerAt(h, "idle") => handler[h].replay \in Replays

OutsideTypeOK ==
  /\ job \in [Replays -> {"none", "known", "queued", "over"}]
  /\ calls \in [Replays -> SUBSET CallKinds]
  /\ published \in [Replays -> Messages]

(* The type invariant of the tables, the requests and ESDB's side. *)
TypeOK ==
  /\ RowTypeOK
  /\ UploadTypeOK
  /\ HandlerTypeOK
  /\ OutsideTypeOK

(* The browser goes to the match of a done replay: whatever order callbacks  *)
(* and the upload request write in, a row that says done links the match     *)
(* (Replay#esdb_id set before processed!, saved with it).                    *)
DoneLinksMatch == \A r \in Replays : state[r] = "done" => esdb_id[r] = "match"

(* A replay the site waits for can be found by the callbacks of its job: a   *)
(* row that says processing holds the job id (update_attribute(:esdb_id)     *)
(* before uploaded!), even when stale copies overwrite its state.            *)
ProcessingIsTracked ==
  \A r \in Replays : state[r] = "processing" => Tracked(r)

(* match_id is not a column: only the handler that completed the replay has  *)
(* it.  No other request that publishes its copy ever announces "done", so   *)
(* the browser never learns that a replay is done without its match.         *)
DoneMessageNamesMatch ==
  \A r \in Replays : published[r].state = "done" => published[r].match_id = "match"

(* A request that answered 201 has disposed of every file before it: each    *)
(* has a row, and one left uploading is one ESDB knew already.               *)
AnsweredMeansDisposed ==
  \A u \in Uploads : UploadAt(u, "answered") =>
    \A i \in DOMAIN Files[u] :
      LET r == Files[u][i] IN
        /\ state[r] # "absent"
        /\ state[r] = "uploading" => job[r] = "known"

(* Once a row links its match no later callback, rerun or stale copy takes   *)
(* the link away or reopens the replay: what a lost update can still do is   *)
(* to call it failed.                                                        *)
MatchLinkIsPermanent ==
  [][\A r \in Replays : esdb_id[r] = "match" =>
       esdb_id'[r] = "match" /\ state'[r] \in Final]_vars

(* The replays table follows the declared state machine (aasm block and the  *)
(* transitions of ReplayLifecycle): no two requests together move a replay   *)
(* along an edge the machine does not have.                                  *)
Lifecycle == INSTANCE ReplayLifecycle WITH Replays <- Replays, state <- state

FollowsLifecycle == Lifecycle!Spec

(* No request is being served that holds a copy of r or is about to write it. *)
Quiet(r) ==
  /\ \A u \in Uploads : File(u) = r =>
       upload[u].step \in {"create", "post", "answered", "rejected", "aborted"}
  /\ \A h \in Handlers : handler[h].replay # r

(* "Keep replay state consistent between the frontend and the server": when   *)
(* no request deals with a replay, the last message pushed agrees with the    *)
(* row; before any message the browser itself shows uploading.                *)
BrowserAgreesWithRow ==
  \A r \in Listened : Quiet(r) =>
    \/ published[r].state = state[r]
    \/ published[r].state = "absent" /\ state[r] \in {"absent", "uploading"}

(* The progress column is saved before processed! in a transaction of its    *)
(* own: no row is left at 100 % but still processing when no handler works   *)
(* on it (with Redis up and workers alive).                                  *)
FullProgressMeansDone ==
  \A r \in Replays : state[r] = "processing" /\ progress[r] = 100 =>
    \E h \in Handlers : handler[h].replay = r /\ HandlerAt(h, "finish")

(* Nobody waits for ever: a row that was created ends done or failed, or it  *)
(* stays uploading because ESDB knew the replay.                             *)
ReplaySettles ==
  \A r \in Replays :
    state[r] # "absent" ~> state[r] \in Final \/ job[r] = "known"

(* "It should always create the Replay object because we're very optimistic  *)
(* about uploads" (spec/controllers/replays_controller_spec.rb): a request   *)
(* that ran into nothing but ESDB or Redis trouble has a row for every file. *)
EveryFileHasRow ==
  \A u \in Uploads : upload[u].step \in {"answered", "aborted"} =>
    \A i \in DOMAIN Files[u] : state[Files[u][i]] # "absent"
==============================================================================
